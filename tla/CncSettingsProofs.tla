------------------------- MODULE CncSettingsProofs -------------------------
(***************************************************************************)
(* What the settings page promises, for any number of windows, of rounds,  *)
(* installer runs and failures, and any settings.                          *)
(***************************************************************************)
EXTENDS CncSettings, TLAPS, SequenceTheorems

States == [pc : {"idle", "write", "rules"}, at : 1 .. 6, shown : Controls, savedPort : Int,
           apply : BOOLEAN, refused : SUBSET Fields, tried : BOOLEAN]

Commands == [does : {"delete"}, rule : Rules, port : {None}]
              \cup [does : {"add"}, rule : Rules, port : 1 .. MaxPort]

(* The shapes; a round begins at the first value, with a port that can be  *)
(* saved, and has two rules to change.                                     *)
Shapes ==
    /\ reg \in Values
    /\ rules \in [Rules -> {None} \cup 1 .. MaxPort]
    /\ win \in [Windows -> States \cup {Closed}]
    /\ netsh \in Seq(Commands)
    /\ outdated \subseteq Opened

Rounds ==
    /\ \A w \in Idle : win[w].at = 1
    /\ \A w \in Busy : /\ win[w].apply /\ win[w].tried /\ ValidPort(win[w].shown.port)
                       /\ win[w].pc = "rules" => win[w].refused = {} /\ win[w].at <= 3

(* What a round has done so far, unless another window wrote meanwhile:    *)
(* every value it is past was refused or is in the registry.               *)
Past(w) == {Order[i] : i \in 1 .. (IF win[w].pc = "write" THEN win[w].at - 1 ELSE 5)}

Holds(f, w) == reg[f] = Encoded(win[w].shown)[f]

(* A window whose values no other has written since knows the registry:    *)
(* what it holds, and its port unless a failed round has to be repeated.   *)
Knows(w) ==
    /\ ~win[w].apply => win[w].shown = Shown(ReadSettings) /\ win[w].refused = {}
    /\ win[w].tried => \A f \in Fields \ win[w].refused : Holds(f, w)
    /\ win[w].refused = {} => win[w].savedPort = reg.port

InStep(w) ==
    /\ w \in Idle \ outdated => Knows(w)
    /\ w \in Busy \ outdated => \A f \in Past(w) \ win[w].refused : Holds(f, w)

IInv == Shapes /\ Rounds /\ \A w \in Windows : InStep(w)

-----------------------------------------------------------------------------
(* What holds while there is nothing to blame.                             *)

RulesAt(port) == ValidPort(port) => \A r \in Rules : rules[r] \in {None, port}

(* The windows at work, or with a failed round to repeat.                  *)
Pending == Busy \cup {w \in Windows : Retry(w)}

(* The installer runs alone, and with the registry's port.                 *)
InstallerAlone == netsh # <<>> =>
    /\ Pending = {} /\ RulesAt(reg.port)
    /\ ValidPort(reg.port) => \A i \in 1 .. Len(netsh) : netsh[i].port \in {None, reg.port}

(* One window at a time is at work, on what it knows; one that has still   *)
(* to repeat its round is outdated as soon as that one has written.        *)
AtWorkAlone(w) ==
    /\ w \notin outdated /\ Busy = {w}
    /\ Pending \subseteq outdated \cup {w} \/ (win[w].pc = "write" /\ Past(w) \subseteq win[w].refused)

(* The only window at work, or with its round to repeat, finds the rules   *)
(* at the port it saved last, until it changes them one after the other.   *)
KnowsRules(w) ==
    /\ Pending = {w} /\ win[w].pc # "rules" => RulesAt(win[w].savedPort)
    /\ win[w].pc = "rules" => \A i \in 1 .. win[w].at - 1 : rules[RuleOrder[i]] = win[w].shown.port

Orderly ==
    /\ Pending = {} /\ netsh = <<>> => RulesAt(reg.port)
    /\ InstallerAlone
    /\ \A w \in Busy : AtWorkAlone(w)
    /\ \A w \in Pending \ outdated : KnowsRules(w)

Blameless == blame = {} => Orderly

-----------------------------------------------------------------------------
(* The values and what is made of them.                                    *)

LEMMA OrderIs ==
    /\ Len(Order) = 5 /\ Len(RuleOrder) = 2
    /\ Order[1] = "port" /\ Order[2] = "layer" /\ Order[3] = "auth" /\ Order[4] = "shadow"
    /\ Order[5] = "policy"
    /\ RuleOrder[1] = "tcp" /\ RuleOrder[2] = "udp"
BY DEF Order, RuleOrder

LEMMA FieldsAre == Fields = {"port", "layer", "auth", "shadow", "policy"}
<1>1. DOMAIN Order = 1 .. 5
  BY DEF Order
<1>2. DOMAIN Order = {1, 2, 3, 4, 5}
  BY <1>1
<1> QED  BY <1>2, OrderIs DEF Fields

LEMMA PortsAre == MaxPort \in Nat /\ 1 <= MaxPort /\ Standard \in 1 .. MaxPort /\ None \notin 1 .. MaxPort
<1>1. MaxPort \in Nat /\ 1 <= MaxPort /\ Standard \in Nat /\ 1 <= Standard /\ Standard <= MaxPort
  BY DEF MaxPort, Standard
<1> QED  BY <1>1 DEF None

LEMMA EncodedTyped == ASSUME NEW s \in Controls PROVE Encoded(s) \in Values
BY PortsAre DEF Controls, Values, Encoded, Clamp

(* The controls of what is in the registry, value by value.                *)
LEMMA ShownIs ==
    Shown(ReadSettings) = [port |-> Clamp(reg.port, 1, MaxPort), nla |-> NlaOf(reg.layer, reg.auth),
                           shadow |-> Clamp(reg.shadow, 0, 4)]
<1> DEFINE s == ReadSettings
<1>1. /\ s = [port |-> reg.port, nla |-> NlaOf(reg.layer, reg.auth), shadow |-> reg.shadow]
      /\ s.port = reg.port /\ s.nla = NlaOf(reg.layer, reg.auth) /\ s.shadow = reg.shadow
  BY DEF ReadSettings
<1> DEFINE p == Clamp(reg.port, 1, MaxPort)
           h == Clamp(reg.shadow, 0, 4)
<1>2. Shown(s) = [[s EXCEPT !.port = p] EXCEPT !.shadow = h]
  BY <1>1 DEF Shown
<1> HIDE DEF p, h, s
<1>3. [s EXCEPT !.port = p] = [port |-> p, nla |-> s.nla, shadow |-> s.shadow]
  BY <1>1
<1>4. [[port |-> p, nla |-> s.nla, shadow |-> s.shadow] EXCEPT !.shadow = h]
        = [port |-> p, nla |-> s.nla, shadow |-> h]
  OBVIOUS
<1> QED  BY <1>1, <1>2, <1>3, <1>4 DEF p, h, s

LEMMA NlaTyped == \A layer, auth : NlaOf(layer, auth) \in 0 .. 2
BY DEF NlaOf

LEMMA ShownTyped == Shapes => Shown(ReadSettings) \in Controls
<1> SUFFICES ASSUME Shapes PROVE Shown(ReadSettings) \in Controls
  OBVIOUS
<1>1. reg.port \in Int /\ reg.shadow \in Int
  BY DEF Shapes, Values
<1>2. Clamp(reg.port, 1, MaxPort) \in Int
  BY <1>1, PortsAre DEF Clamp
<1>4. Clamp(reg.shadow, 0, 4) \in 0 .. 4
  BY <1>1 DEF Clamp
<1>3. NlaOf(reg.layer, reg.auth) \in 0 .. 2
  BY NlaTyped
<1> QED  BY <1>2, <1>3, <1>4, ShownIs DEF Controls

(* The port is written as it is; reading what has been written gives the   *)
(* controls back.                                                          *)
LEMMA RoundTrip ==
    ASSUME NEW s \in Controls, ValidPort(s.port), reg = Encoded(s)
    PROVE  Shown(ReadSettings) = s /\ reg.port = s.port
<1>1. s.port \in 1 .. MaxPort /\ s.nla \in 0 .. 2 /\ s.shadow \in 0 .. 4
  BY DEF Controls, ValidPort
<1>2. s = [port |-> s.port, nla |-> s.nla, shadow |-> s.shadow]
  BY DEF Controls
<1>3. Clamp(s.port, 1, MaxPort) = s.port
  BY <1>1, PortsAre DEF Clamp
<1>4. Clamp(s.shadow, 0, 4) = s.shadow
  BY <1>1 DEF Clamp
<1>5. /\ reg.port = s.port /\ reg.shadow = s.shadow
      /\ reg.layer = s.nla /\ reg.auth = IF s.nla = 2 THEN 1 ELSE 0
  BY <1>3, <1>4 DEF Encoded
<1>6. NlaOf(reg.layer, reg.auth) = s.nla
  BY <1>1, <1>5 DEF NlaOf
<1>7. Shown(ReadSettings) = [port |-> s.port, nla |-> s.nla, shadow |-> s.shadow]
  BY <1>3, <1>4, <1>5, <1>6, ShownIs
<1> QED  BY <1>2, <1>5, <1>7, Zenon

(* Values that agree in every field are the same.                          *)
LEMMA SameValues ==
    ASSUME NEW r \in Values, NEW s \in Values, \A f \in Fields : r[f] = s[f]
    PROVE  r = s
BY FieldsAre DEF Values

LEMMA ClosedApart == Closed.pc = "closed" /\ \A s \in States : s # Closed /\ s.pc # "closed"
BY DEF States, Closed

LEMMA OneWritten ==
    ASSUME NEW r \in Values, NEW s \in Values, NEW f \in Fields
    PROVE  \A t : t = [r EXCEPT ![f] = s[f]] =>
             t \in Values /\ t[f] = s[f] /\ \A g \in Fields \ {f} : t[g] = r[g]
BY FieldsAre DEF Values

-----------------------------------------------------------------------------
(* What a step does to the windows.                                        *)

LEMMA StatesAre ==
    ASSUME NEW s \in States
    PROVE  /\ s.pc \in {"idle", "write", "rules"} /\ s.at \in 1 .. 6 /\ s.shown \in Controls
           /\ s.savedPort \in Int /\ s.apply \in BOOLEAN /\ s.refused \in SUBSET Fields
           /\ s.tried \in BOOLEAN
           /\ DOMAIN s = {"pc", "at", "shown", "savedPort", "apply", "refused", "tried"}
BY DEF States

(* One window moves.                                                       *)
Moves(w, s) ==
    /\ win' \in [Windows -> States \cup {Closed}] /\ win'[w] = s
    /\ \A v \in Windows \ {w} : win'[v] = win[v]

LEMMA Moved ==
    ASSUME Shapes, NEW w \in Windows, NEW s \in States \cup {Closed}, win' = [win EXCEPT ![w] = s]
    PROVE  Moves(w, s)
BY DEF Moves, Shapes

LEMMA OpenedIs == Shapes => \A w \in Opened : win[w] \in States
BY DEF Opened, Shapes

LEMMA StatedIs == ASSUME Shapes, NEW w \in Windows, win[w].pc # "closed" PROVE win[w] \in States
BY ClosedApart DEF Shapes

LEMMA At == ASSUME NEW s \in States, NEW n \in 1 .. 6 PROVE [s EXCEPT !.at = n] \in States
BY DEF States

LEMMA AtFirst == ASSUME NEW s \in States PROVE [s EXCEPT !.at = 1] \in States
<1>1. 1 \in 1 .. 6
  OBVIOUS
<1> QED  BY <1>1, At

(* Where the windows are after one has moved.                              *)
LEMMA PlacesAfter ==
    ASSUME Shapes, NEW w \in Windows, NEW s \in States, Moves(w, s)
    PROVE  /\ Opened' = Opened \cup {w}
           /\ Idle' = IF s.pc = "idle" THEN Idle \cup {w} ELSE Idle \ {w}
           /\ Busy' = IF s.pc = "idle" THEN Busy \ {w} ELSE Busy \cup {w}
BY ClosedApart DEF Moves, Shapes, Opened, Idle, Busy

LEMMA PlacesClosed ==
    ASSUME Shapes, NEW w \in Windows, Moves(w, Closed)
    PROVE  Opened' = Opened \ {w} /\ Idle' = Idle \ {w} /\ Busy' = Busy \ {w}
BY ClosedApart DEF Moves, Shapes, Opened, Idle, Busy

LEMMA Opening ==
    ASSUME Shapes, NEW w \in Windows, Open(w)
    PROVE  \E s \in States :
             /\ Moves(w, s)
             /\ s.pc = "idle" /\ s.at = 1 /\ s.shown = Shown(ReadSettings)
             /\ s.savedPort = reg.port /\ s.refused = {} /\ ~s.tried
<1> DEFINE s == [pc |-> "idle", at |-> 1, shown |-> Shown(ReadSettings), savedPort |-> reg.port,
                 apply |-> FALSE, refused |-> {}, tried |-> FALSE]
<1>1. reg.port \in Int
  BY DEF Shapes, Values
<1>2. s \in States
  BY <1>1, ShownTyped DEF States
<1>3. win' = [win EXCEPT ![w] = s]
  BY DEF Open
<1>4. Moves(w, s)
  BY <1>2, <1>3, Moved
<1> QED  BY <1>2, <1>4

LEMMA Changing ==
    ASSUME Shapes, NEW w \in Windows, Change(w)
    PROVE  \E s \in States :
             /\ Moves(w, s)
             /\ s.pc = win[w].pc /\ s.at = win[w].at /\ s.shown \in Controls
             /\ s.savedPort = win[w].savedPort /\ s.refused = win[w].refused /\ s.apply /\ ~s.tried
<1>1. PICK c \in Choices \cup {win[w].shown} :
        win' = [win EXCEPT ![w].shown = c, ![w].apply = TRUE, ![w].tried = FALSE]
  BY DEF Change
<1> DEFINE s == [win[w] EXCEPT !.shown = c, !.apply = TRUE, !.tried = FALSE]
<1>2. win[w] \in States /\ c \in Controls
  BY OpenedIs, ControlsAssumption DEF Change, Idle, States
<1>3. /\ s \in States
      /\ s.pc = win[w].pc /\ s.at = win[w].at /\ s.shown \in Controls
      /\ s.savedPort = win[w].savedPort /\ s.refused = win[w].refused /\ s.apply /\ ~s.tried
  BY <1>2 DEF States
<1>4. win' = [win EXCEPT ![w] = s]
  BY <1>1 DEF Shapes
<1>5. Moves(w, s)
  BY <1>3, <1>4, Moved
<1> QED  BY <1>3, <1>5

LEMMA Applying ==
    ASSUME Shapes, Rounds, NEW w \in Windows, Apply(w)
    PROVE  \E s \in States :
             /\ Moves(w, s)
             /\ s.pc = "write" /\ s.at = win[w].at /\ s.shown = win[w].shown
             /\ s.savedPort = win[w].savedPort /\ s.apply = win[w].apply /\ s.refused = {} /\ s.tried
<1> DEFINE s == [win[w] EXCEPT !.pc = "write", !.refused = {}, !.tried = TRUE]
<1>1. win[w] \in States
  BY OpenedIs, ClosedApart DEF Apply, Idle
<1>2. s \in States
  BY <1>1 DEF States
<1>3. /\ s.pc = "write" /\ s.at = win[w].at /\ s.shown = win[w].shown
      /\ s.savedPort = win[w].savedPort /\ s.apply = win[w].apply /\ s.refused = {} /\ s.tried
  BY <1>1 DEF States
<1>4. win' = [win EXCEPT ![w] = s]
  BY <1>1 DEF Shapes, Apply
<1>5. Moves(w, s)
  BY <1>2, <1>4, Moved
<1> QED  BY <1>2, <1>3, <1>5

LEMMA GivingUp ==
    ASSUME Shapes, Rounds, NEW w \in Windows, GiveUp(w)
    PROVE  \E s \in States :
             /\ Moves(w, s)
             /\ s.pc = "idle" /\ s.at = 1 /\ s.shown = win[w].shown /\ s.savedPort = win[w].savedPort
             /\ s.apply = win[w].apply /\ s.refused = win[w].refused /\ s.tried = win[w].tried
<1> DEFINE s == [win[w] EXCEPT !.pc = "idle", !.at = 1]
<1>1. win[w] \in States
  BY StatedIs DEF GiveUp, WritesDone
<1> DEFINE q == [[win[w] EXCEPT !.pc = "idle"] EXCEPT !.at = 1]
<1>6. q \in States
  <2>1. [win[w] EXCEPT !.pc = "idle"] \in States
    BY <1>1 DEF States
  <2> QED  BY <2>1, AtFirst
<1>2. s \in States
  BY <1>6
<1>3. /\ s.pc = "idle" /\ s.at = 1 /\ s.shown = win[w].shown /\ s.savedPort = win[w].savedPort
      /\ s.apply = win[w].apply /\ s.refused = win[w].refused /\ s.tried = win[w].tried
  BY <1>1 DEF States
<1>4. win' = [win EXCEPT ![w] = s]
  BY <1>1 DEF Shapes, GiveUp
<1>5. Moves(w, s)
  BY <1>2, <1>4, Moved
<1> QED  BY <1>2, <1>3, <1>5

LEMMA BeginningRules ==
    ASSUME Shapes, Rounds, NEW w \in Windows, BeginRules(w)
    PROVE  \E s \in States :
             /\ Moves(w, s)
             /\ s.pc = "rules" /\ s.at = 1 /\ s.shown = win[w].shown /\ s.savedPort = win[w].savedPort
             /\ s.apply = win[w].apply /\ s.refused = win[w].refused /\ s.tried = win[w].tried
<1> DEFINE s == [win[w] EXCEPT !.pc = "rules", !.at = 1]
<1>1. win[w] \in States
  BY StatedIs DEF BeginRules, WritesDone
<1> DEFINE q == [[win[w] EXCEPT !.pc = "rules"] EXCEPT !.at = 1]
<1>6. q \in States
  <2>1. [win[w] EXCEPT !.pc = "rules"] \in States
    BY <1>1 DEF States
  <2> QED  BY <2>1, AtFirst
<1>2. s \in States
  BY <1>6
<1>3. /\ s.pc = "rules" /\ s.at = 1 /\ s.shown = win[w].shown /\ s.savedPort = win[w].savedPort
      /\ s.apply = win[w].apply /\ s.refused = win[w].refused /\ s.tried = win[w].tried
  BY <1>1 DEF States
<1>4. win' = [win EXCEPT ![w] = s]
  BY <1>1 DEF Shapes, BeginRules
<1>5. Moves(w, s)
  BY <1>2, <1>4, Moved
<1> QED  BY <1>2, <1>3, <1>5

LEMMA UpdatingRule ==
    ASSUME Shapes, Rounds, NEW w \in Windows, UpdateRule(w)
    PROVE  \E s \in States :
             /\ Moves(w, s)
             /\ s.pc = win[w].pc /\ s.at = win[w].at + 1 /\ s.shown = win[w].shown
             /\ s.savedPort = win[w].savedPort /\ s.apply = win[w].apply
             /\ s.refused = win[w].refused /\ s.tried = win[w].tried
<1> DEFINE s == [win[w] EXCEPT !.at = @ + 1]
<1>1. win[w] \in States /\ win[w].at \in 1 .. 2
  <2>1. win[w].pc = "rules" /\ win[w].at <= 2
    BY OrderIs DEF UpdateRule
  <2>2. win[w] \in States
    BY <2>1, StatedIs
  <2>3. win[w].at \in 1 .. 6
    BY <2>2, StatesAre
  <2> QED  BY <2>1, <2>2, <2>3
<1>2. s \in States
  BY <1>1 DEF States
<1>3. /\ s.pc = win[w].pc /\ s.at = win[w].at + 1 /\ s.shown = win[w].shown
      /\ s.savedPort = win[w].savedPort /\ s.apply = win[w].apply
      /\ s.refused = win[w].refused /\ s.tried = win[w].tried
  BY <1>1 DEF States
<1>4. win' = [win EXCEPT ![w] = s]
  BY <1>1 DEF Shapes, UpdateRule
<1>5. Moves(w, s)
  BY <1>2, <1>4, Moved
<1> QED  BY <1>2, <1>3, <1>5

LEMMA Saving ==
    ASSUME Shapes, Rounds, NEW w \in Windows, Saved(w)
    PROVE  \E s \in States :
             /\ Moves(w, s)
             /\ s.pc = "idle" /\ s.at = 1 /\ s.shown = win[w].shown /\ s.savedPort = win[w].shown.port
             /\ ~s.apply /\ s.refused = win[w].refused /\ s.tried = win[w].tried
<1> DEFINE s == [win[w] EXCEPT !.pc = "idle", !.at = 1, !.apply = FALSE, !.savedPort = win[w].shown.port]
<1>1. win[w] \in States
  BY StatedIs DEF Saved, WritesDone
<1>6. win[w].shown.port \in Int
  BY <1>1, StatesAre DEF Controls
<1>2. s \in States
  <2>1. [win[w] EXCEPT !.pc = "idle"] \in States
    BY <1>1 DEF States
  <2>2. [win[w] EXCEPT !.pc = "idle", !.at = 1] \in States
    BY <2>1, AtFirst
  <2>3. [win[w] EXCEPT !.pc = "idle", !.at = 1, !.apply = FALSE] \in States
    BY <2>2 DEF States
  <2> QED  BY <1>6, <2>3 DEF States
<1>3. /\ s.pc = "idle" /\ s.at = 1 /\ s.shown = win[w].shown /\ s.savedPort = win[w].shown.port
      /\ ~s.apply /\ s.refused = win[w].refused /\ s.tried = win[w].tried
  BY <1>1 DEF States
<1>4. win' = [win EXCEPT ![w] = s]
  BY <1>1 DEF Shapes, Saved
<1>5. Moves(w, s)
  BY <1>2, <1>4, Moved
<1> QED  BY <1>2, <1>3, <1>5

LEMMA Writing ==
    ASSUME Shapes, Rounds, NEW w \in Windows, WriteValue(w)
    PROVE  \E s \in States, f \in Fields :
             /\ Moves(w, s)
             /\ win[w].at \in 1 .. 5 /\ f = Order[win[w].at]
             /\ s.pc = "write" /\ s.at = win[w].at + 1 /\ s.shown = win[w].shown
             /\ s.savedPort = win[w].savedPort /\ s.apply = win[w].apply /\ s.tried = win[w].tried
             /\ \/ s.refused = win[w].refused /\ Written(f, w)
                \/ s.refused = win[w].refused \cup {f} /\ UNCHANGED <<reg, outdated>>
<1> DEFINE f == Order[win[w].at]
<1>1. win[w] \in States /\ win[w].pc = "write" /\ win[w].at \in 1 .. 5
  <2>1. win[w].pc = "write" /\ win[w].at <= 5
    BY OrderIs DEF WriteValue
  <2>2. win[w] \in States
    BY <2>1, StatedIs
  <2>3. win[w].at \in 1 .. 6
    BY <2>2, StatesAre
  <2> QED  BY <2>1, <2>2, <2>3
<1>2. f \in Fields
  BY <1>1, OrderIs, FieldsAre
<1>3. PICK refused \in SUBSET Fields :
        /\ win' = [win EXCEPT ![w].at = @ + 1, ![w].refused = refused]
        /\ \/ refused = win[w].refused /\ Written(f, w)
           \/ refused = win[w].refused \cup {f} /\ UNCHANGED <<reg, outdated>>
  <2>1. CASE Written(f, w) /\ win' = [win EXCEPT ![w].at = @ + 1]
    <3>1. win' = [win EXCEPT ![w].at = @ + 1, ![w].refused = win[w].refused]
      BY <1>1, <2>1 DEF Shapes, States
    <3>2. win[w].refused \in SUBSET Fields
      BY <1>1, StatesAre
    <3> QED  BY <2>1, <3>1, <3>2
  <2>2. CASE /\ win' = [win EXCEPT ![w].at = @ + 1, ![w].refused = @ \cup {f}]
             /\ UNCHANGED <<reg, outdated>>
    <3>1. win' = [win EXCEPT ![w].at = @ + 1, ![w].refused = win[w].refused \cup {f}]
      BY <1>1, <2>2 DEF Shapes, States
    <3>2. win[w].refused \cup {f} \in SUBSET Fields
      BY <1>1, <1>2, StatesAre
    <3> QED  BY <2>2, <3>1, <3>2
  <2> QED  BY <2>1, <2>2 DEF WriteValue
<1> DEFINE s == [win[w] EXCEPT !.at = @ + 1, !.refused = refused]
<1>4. s \in States
  <2>1. win[w].at + 1 \in 1 .. 6
    BY <1>1
  <2>2. [win[w] EXCEPT !.at = win[w].at + 1] \in States
    BY <1>1, <2>1 DEF States
  <2> QED  BY <1>3, <2>2 DEF States
<1>5. /\ s.pc = "write" /\ s.at = win[w].at + 1 /\ s.shown = win[w].shown
      /\ s.savedPort = win[w].savedPort /\ s.apply = win[w].apply /\ s.tried = win[w].tried
      /\ s.refused = refused
  BY <1>1 DEF States
<1>6. win' = [win EXCEPT ![w] = s]
  BY <1>1, <1>3 DEF Shapes, States
<1>7. Moves(w, s)
  BY <1>4, <1>6, Moved
<1> QED  BY <1>1, <1>2, <1>3, <1>4, <1>5, <1>7

-----------------------------------------------------------------------------
(* The shapes are kept.                                                    *)

(* A window that moves leaves the others where they were.                  *)
LEMMA RoundsAfter ==
    ASSUME Shapes, Rounds, NEW w \in Windows, NEW s \in States, Moves(w, s),
           s.pc = "idle" => s.at = 1,
           s.pc # "idle" => /\ s.apply /\ s.tried /\ ValidPort(s.shown.port)
                            /\ s.pc = "rules" => s.refused = {} /\ s.at <= 3
    PROVE  Rounds'
<1>1. ASSUME NEW v \in Idle' PROVE win'[v].at = 1
  <2>1. CASE v = w
    BY <1>1, <2>1, ClosedApart DEF Moves, Idle, Busy, Opened
  <2>2. CASE v # w
    <3>1. v \in Idle /\ win'[v] = win[v]
      BY <1>1, <2>2, PlacesAfter DEF Moves, Idle, Opened
    <3> QED  BY <3>1 DEF Rounds
  <2> QED  BY <2>1, <2>2
<1>2. ASSUME NEW v \in Busy'
      PROVE  /\ win'[v].apply /\ win'[v].tried /\ ValidPort(win'[v].shown.port)
             /\ win'[v].pc = "rules" => win'[v].refused = {} /\ win'[v].at <= 3
  <2>1. CASE v = w
    <3>1. win'[v] = s /\ s.pc # "idle"
      BY <1>2, <2>1 DEF Moves, Busy
    <3> QED  BY <3>1
  <2>2. CASE v # w
    <3>1. v \in Busy /\ win'[v] = win[v]
      BY <1>2, <2>2, PlacesAfter DEF Moves, Busy, Opened
    <3> QED  BY <3>1 DEF Rounds
  <2> QED  BY <2>1, <2>2
<1> QED  BY <1>1, <1>2 DEF Rounds, ValidPort

LEMMA RoundsAfterClosing ==
    ASSUME Shapes, Rounds, NEW w \in Windows, Moves(w, Closed)
    PROVE  Rounds'
<1>1. ASSUME NEW v \in Opened' PROVE v # w /\ win'[v] = win[v]
  BY <1>1 DEF Moves, Opened
<1>2. Idle' \subseteq Idle /\ Busy' \subseteq Busy /\ Idle' \subseteq Opened' /\ Busy' \subseteq Opened'
  BY PlacesClosed DEF Idle, Busy
<1> QED  BY <1>1, <1>2 DEF Rounds, ValidPort

(* A step of a window that leaves the registry, the rules and netsh.       *)
LEMMA ShapesAfter ==
    ASSUME Shapes, NEW w \in Windows, NEW s \in States, Moves(w, s),
           reg' \in Values, rules' \in [Rules -> {None} \cup 1 .. MaxPort], netsh' = netsh,
           outdated' \subseteq outdated \cup Opened
    PROVE  Shapes'
<1>1. outdated' \subseteq Opened'
  BY PlacesAfter DEF Shapes
<1> QED  BY <1>1 DEF Shapes, Moves

LEMMA InitialShapes == Init => Shapes /\ Rounds
<1> SUFFICES ASSUME Init PROVE Shapes /\ Rounds
  OBVIOUS
<1>1. reg \in Values
  BY StoredAssumption DEF Init
<1>2. rules \in [Rules -> {None} \cup 1 .. MaxPort]
  BY PortsAre DEF Init, ValidPort
<1>3. win \in [Windows -> States \cup {Closed}] /\ Opened = {} /\ Idle = {} /\ Busy = {}
  BY DEF Init, Opened, Idle, Busy
<1>4. netsh \in Seq(Commands)
  BY DEF Init
<1> QED  BY <1>1, <1>2, <1>3, <1>4 DEF Init, Shapes, Rounds

LEMMA CommandsAre ==
    /\ DeleteBoth \in Seq(Commands)
    /\ \A port \in 1 .. MaxPort : DeleteBoth \o AddBoth(port) \in Seq(Commands)
<1>1. \A r \in Rules : Delete(r) \in Commands
  BY DEF Delete, Commands
<1>2. \A r \in Rules, port \in 1 .. MaxPort : Add(r, port) \in Commands
  BY DEF Add, Commands
<1>3. "tcp" \in Rules /\ "udp" \in Rules
  BY DEF Rules
<1>4. DeleteBoth \in Seq(Commands)
  BY <1>1, <1>3 DEF DeleteBoth
<1>5. ASSUME NEW port \in 1 .. MaxPort PROVE AddBoth(port) \in Seq(Commands)
  BY <1>2, <1>3, <1>5 DEF AddBoth
<1> QED  BY <1>4, <1>5

LEMMA InstallerShapes ==
    ASSUME Shapes, Rounds, Installer
    PROVE  Shapes' /\ Rounds' /\ UNCHANGED <<reg, win, outdated>>
<1>1. UNCHANGED <<reg, win, outdated>>
  BY DEF Installer, EnableFirewall, DisableFirewall, RunNetsh, KillInstaller, Configure
<1>2. netsh' \in Seq(Commands) /\ rules' \in [Rules -> {None} \cup 1 .. MaxPort]
  <2>1. CASE EnableFirewall
    <3>1. (IF ValidPort(reg.port) THEN reg.port ELSE Standard) \in 1 .. MaxPort
      BY PortsAre DEF ValidPort
    <3> QED  BY <2>1, <3>1, CommandsAre DEF EnableFirewall, Configure, Shapes
  <2>2. CASE DisableFirewall
    BY <2>2, CommandsAre DEF DisableFirewall, Configure, Shapes
  <2>3. CASE RunNetsh
    <3>1. netsh # <<>> /\ netsh \in Seq(Commands)
      BY <2>3 DEF RunNetsh, Shapes
    <3>2. Head(netsh) \in Commands /\ Tail(netsh) \in Seq(Commands)
      BY <3>1, HeadTailProperties
    <3>3. \A c \in Commands : c.rule \in Rules /\ c.port \in {None} \cup 1 .. MaxPort
      BY DEF Commands
    <3>4. \A r \in Rules, p \in {None} \cup 1 .. MaxPort :
            [rules EXCEPT ![r] = p] \in [Rules -> {None} \cup 1 .. MaxPort]
      BY DEF Shapes
    <3>5. rules \in [Rules -> {None} \cup 1 .. MaxPort]
      BY DEF Shapes
    <3> QED  BY <2>3, <3>2, <3>3, <3>4, <3>5, CommandsAre DEF RunNetsh
  <2>4. CASE KillInstaller
    BY <2>4 DEF KillInstaller, Shapes
  <2> QED  BY <2>1, <2>2, <2>3, <2>4 DEF Installer
<1>3. Opened' = Opened /\ Idle' = Idle /\ Busy' = Busy
  BY <1>1 DEF Opened, Idle, Busy
<1>4. Shapes'
  BY <1>1, <1>2, <1>3 DEF Shapes
<1>5. Rounds'
  BY <1>1, <1>3 DEF Rounds, ValidPort
<1> QED  BY <1>1, <1>4, <1>5

-----------------------------------------------------------------------------
(* The windows stay in step.                                               *)

(* A window another one's step leaves alone, or is now outdated.           *)
LEMMA OthersInStep ==
    ASSUME NEW v \in Windows, InStep(v), win'[v] = win[v],
           v \notin outdated' => v \notin outdated /\ reg' = reg
    PROVE  InStep(v)'
<1> SUFFICES ASSUME v \notin outdated' PROVE InStep(v)'
  BY DEF InStep
<1>1. v \notin outdated /\ reg' = reg
  OBVIOUS
<1>2. (v \in Opened) = (v \in Opened') /\ (v \in Idle) = (v \in Idle') /\ (v \in Busy) = (v \in Busy')
  BY DEF Opened, Idle, Busy
<1>3. Past(v)' = Past(v) /\ \A f \in Fields : Holds(f, v)' = Holds(f, v)
  BY <1>1 DEF Past, Holds
<1>4. Shown(ReadSettings)' = Shown(ReadSettings)
  BY <1>1 DEF ReadSettings
<1>5. Knows(v)' = Knows(v)
  BY <1>1, <1>3, <1>4 DEF Knows
<1>6. \A f \in Past(v) : Holds(f, v)' = Holds(f, v)
  BY <1>1 DEF Holds
<1> QED  BY <1>1, <1>2, <1>3, <1>5, <1>6 DEF InStep

LEMMA PastAll == ASSUME NEW w \in Windows, win[w].pc # "write" \/ win[w].at = 6 PROVE Past(w) = Fields
<1>1. Past(w) = {Order[i] : i \in 1 .. 5}
  BY DEF Past
<1>2. 1 .. 5 = DOMAIN Order
  BY DEF Order
<1> QED  BY <1>1, <1>2 DEF Fields

LEMMA PastAllNext == ASSUME NEW w \in Windows, win'[w].pc # "write" PROVE Past(w)' = Fields
<1>1. Past(w)' = {Order[i] : i \in 1 .. 5}
  BY DEF Past
<1>2. 1 .. 5 = DOMAIN Order
  BY DEF Order
<1> QED  BY <1>1, <1>2 DEF Fields

(* All writes have been made.                                              *)
LEMMA AllWritten ==
    ASSUME Shapes, Rounds, NEW w \in Windows, InStep(w), win[w].pc = "rules" \/ WritesDone(w)
    PROVE  /\ w \in Busy /\ win[w] \in States /\ Past(w) = Fields
           /\ w \notin outdated => \A f \in Fields \ win[w].refused : Holds(f, w)
<1>1. win[w].pc \in {"rules", "write"}
  BY DEF WritesDone
<1>2. win[w] \in States
  BY <1>1, StatedIs
<1>3. w \in Busy
  BY <1>1, <1>2, ClosedApart DEF Busy, Opened
<1>4. Past(w) = Fields
  <2>1. CASE win[w].pc = "rules"
    BY <2>1, PastAll
  <2>2. CASE WritesDone(w)
    <3>1. win[w].at > 5
      BY <2>2, OrderIs DEF WritesDone
    <3>2. win[w].at \in 1 .. 6
      BY <1>2, StatesAre
    <3>3. win[w].at = 6
      BY <3>1, <3>2
    <3> QED  BY <3>3, PastAll
  <2> QED  BY <2>1, <2>2
<1> QED  BY <1>2, <1>3, <1>4 DEF InStep

(* The window that is moved to s.                                          *)
LEMMA IdleAfter ==
    ASSUME NEW w \in Windows, NEW s \in States, Moves(w, s), s.pc = "idle",
           w \notin outdated' =>
             /\ ~s.apply => s.shown = Shown(ReadSettings)' /\ s.refused = {}
             /\ s.tried => \A f \in Fields \ s.refused : reg'[f] = Encoded(s.shown)[f]
             /\ s.refused = {} => s.savedPort = reg'.port
    PROVE  InStep(w)'
<1>1. win'[w] = s
  BY DEF Moves
<1>2. w \notin Busy'
  BY <1>1 DEF Busy
<1>3. w \notin outdated' => Knows(w)'
  BY <1>1 DEF Knows, Holds, Encoded
<1> QED  BY <1>2, <1>3 DEF InStep

LEMMA BusyAfter ==
    ASSUME NEW w \in Windows, NEW s \in States, Moves(w, s), s.pc # "idle",
           w \notin outdated' => \A f \in Past(w)' \ s.refused : reg'[f] = Encoded(s.shown)[f]
    PROVE  InStep(w)'
<1>1. win'[w] = s
  BY DEF Moves
<1>2. w \notin Idle'
  BY <1>1 DEF Idle, Busy, Opened
<1> QED  BY <1>1, <1>2 DEF InStep, Holds, Encoded

(* Each action of a window.                                                *)
Kept(w) == Shapes' /\ Rounds' /\ InStep(w)'

LEMMA OpenKeeps == ASSUME IInv, NEW w \in Windows, Open(w) PROVE Kept(w)
<1>1. Shapes /\ Rounds
  BY DEF IInv
<1>2. PICK s \in States :
        /\ Moves(w, s)
        /\ s.pc = "idle" /\ s.at = 1 /\ s.shown = Shown(ReadSettings)
        /\ s.savedPort = reg.port /\ s.refused = {} /\ ~s.tried
  BY <1>1, Opening
<1>3. UNCHANGED <<reg, rules, netsh, outdated>>
  BY DEF Open
<1>4. Shapes'
  BY <1>1, <1>2, <1>3, ShapesAfter DEF Shapes
<1>5. Rounds'
  BY <1>1, <1>2, RoundsAfter
<1>6. Shown(ReadSettings)' = Shown(ReadSettings)
  BY <1>3 DEF ReadSettings
<1>7. InStep(w)'
  BY <1>2, <1>3, <1>6, IdleAfter
<1> QED  BY <1>4, <1>5, <1>7 DEF Kept

LEMMA ChangeKeeps == ASSUME IInv, NEW w \in Windows, Change(w) PROVE Kept(w)
<1>1. Shapes /\ Rounds /\ InStep(w)
  BY DEF IInv
<1>2. PICK s \in States :
        /\ Moves(w, s)
        /\ s.pc = win[w].pc /\ s.at = win[w].at /\ s.shown \in Controls
        /\ s.savedPort = win[w].savedPort /\ s.refused = win[w].refused /\ s.apply /\ ~s.tried
  BY <1>1, Changing
<1>3. UNCHANGED <<reg, rules, netsh, outdated>> /\ w \in Idle
  BY DEF Change
<1>4. Shapes'
  BY <1>1, <1>2, <1>3, ShapesAfter DEF Shapes
<1>5. win[w].pc = "idle" /\ win[w].at = 1
  BY <1>1, <1>3 DEF Rounds, Idle, Busy
<1>6. Rounds'
  BY <1>1, <1>2, <1>5, RoundsAfter
<1>7. w \notin outdated => (win[w].refused = {} => win[w].savedPort = reg.port)
  BY <1>1, <1>3 DEF InStep, Knows
<1>8. InStep(w)'
  BY <1>2, <1>3, <1>5, <1>7, IdleAfter
<1> QED  BY <1>4, <1>6, <1>8 DEF Kept

LEMMA ApplyKeeps == ASSUME IInv, NEW w \in Windows, Apply(w) PROVE Kept(w)
<1>1. Shapes /\ Rounds /\ InStep(w)
  BY DEF IInv
<1>2. PICK s \in States :
        /\ Moves(w, s)
        /\ s.pc = "write" /\ s.at = win[w].at /\ s.shown = win[w].shown
        /\ s.savedPort = win[w].savedPort /\ s.apply = win[w].apply /\ s.refused = {} /\ s.tried
  BY <1>1, Applying
<1>3. UNCHANGED <<reg, rules, netsh, outdated>> /\ w \in Idle /\ win[w].apply /\ ValidPort(win[w].shown.port)
  BY DEF Apply
<1>4. Shapes'
  BY <1>1, <1>2, <1>3, ShapesAfter DEF Shapes
<1>5. Rounds'
  BY <1>1, <1>2, <1>3, RoundsAfter
<1>6. Past(w)' = {}
  <2>1. win'[w] = s /\ s.at = 1
    BY <1>1, <1>2, <1>3 DEF Moves, Rounds
  <2> QED  BY <1>2, <2>1 DEF Past
<1>7. InStep(w)'
  BY <1>2, <1>6, BusyAfter
<1> QED  BY <1>4, <1>5, <1>7 DEF Kept

LEMMA WriteValueKeeps == ASSUME IInv, NEW w \in Windows, WriteValue(w) PROVE Kept(w)
<1>1. Shapes /\ Rounds /\ InStep(w)
  BY DEF IInv
<1>2. PICK s \in States, f \in Fields :
        /\ Moves(w, s)
        /\ win[w].at \in 1 .. 5 /\ f = Order[win[w].at]
        /\ s.pc = "write" /\ s.at = win[w].at + 1 /\ s.shown = win[w].shown
        /\ s.savedPort = win[w].savedPort /\ s.apply = win[w].apply /\ s.tried = win[w].tried
        /\ \/ s.refused = win[w].refused /\ Written(f, w)
           \/ s.refused = win[w].refused \cup {f} /\ UNCHANGED <<reg, outdated>>
  BY <1>1, Writing
<1>3. UNCHANGED <<rules, netsh>> /\ win[w].pc = "write"
  BY DEF WriteValue
<1>4. win[w] \in States /\ w \in Busy
  <2>1. win[w] \in States
    BY <1>1, <1>3, StatedIs
  <2> QED  BY <1>3, <2>1, ClosedApart DEF Busy, Opened
<1>5. /\ reg' \in Values /\ outdated' \subseteq outdated \cup Opened
      /\ w \notin outdated' => w \notin outdated
      /\ \A g \in Fields \ {f} : reg'[g] = reg[g]
      /\ f \notin s.refused => reg'[f] = Encoded(win[w].shown)[f]
      /\ win[w].refused \subseteq s.refused
  <2>1. CASE s.refused = win[w].refused /\ Written(f, w)
    <3>1. Encoded(win[w].shown) \in Values
      BY <1>4, StatesAre, EncodedTyped
    <3>2. reg \in Values
      BY <1>1 DEF Shapes
    <3> DEFINE e == Encoded(win[w].shown)
    <3>4. reg' = [reg EXCEPT ![f] = e[f]]
      BY <2>1 DEF Written
    <3> HIDE DEF e
    <3>5. e \in Values
      BY <3>1 DEF e
    <3>6. reg' \in Values /\ reg'[f] = e[f] /\ \A g \in Fields \ {f} : reg'[g] = reg[g]
      <4>1. \A t : t = [reg EXCEPT ![f] = e[f]] =>
              t \in Values /\ t[f] = e[f] /\ \A g \in Fields \ {f} : t[g] = reg[g]
        BY <3>2, <3>5, OneWritten
      <4> QED  BY <3>4, <4>1, Zenon
    <3>3. /\ reg' \in Values /\ reg'[f] = Encoded(win[w].shown)[f]
          /\ \A g \in Fields \ {f} : reg'[g] = reg[g]
      BY <3>6 DEF e
    <3> QED  BY <2>1, <3>3 DEF Written
  <2>2. CASE s.refused = win[w].refused \cup {f} /\ UNCHANGED <<reg, outdated>>
    BY <1>1, <2>2 DEF Shapes
  <2> QED  BY <1>2, <2>1, <2>2
<1>6. Shapes'
  BY <1>1, <1>2, <1>3, <1>5, ShapesAfter DEF Shapes
<1>7. Rounds'
  <2>1. win[w].apply /\ win[w].tried /\ ValidPort(win[w].shown.port)
    BY <1>1, <1>4 DEF Rounds
  <2> QED  BY <1>1, <1>2, <2>1, RoundsAfter
<1>8. Past(w)' \subseteq Past(w) \cup {f}
  <2>1. win'[w].pc = "write" /\ win'[w].at - 1 = win[w].at
    BY <1>2 DEF Moves
  <2>2. \A i \in 1 .. win[w].at : i = win[w].at \/ i \in 1 .. win[w].at - 1
    BY <1>2
  <2> QED  BY <1>2, <1>3, <2>1, <2>2 DEF Past
<1>9. ASSUME w \notin outdated', NEW g \in Past(w)' \ s.refused
      PROVE  reg'[g] = Encoded(s.shown)[g]
  <2>1. CASE g = f
    BY <1>2, <1>5, <1>9, <2>1
  <2>2. CASE g # f
    <3>1. g \in Past(w) \ win[w].refused
      BY <1>5, <1>8, <1>9, <2>2
    <3>2. Holds(g, w)
      BY <1>1, <1>4, <1>5, <1>9, <3>1 DEF InStep
    <3>3. g \in Fields
      <4>1. win[w].at - 1 <= 5
        BY <1>2
      <4>2. \A i \in 1 .. win[w].at - 1 : i \in DOMAIN Order
        BY <1>2, OrderIs DEF Order
      <4> QED  BY <1>3, <3>1, <4>2 DEF Past, Fields
    <3> QED  BY <1>2, <1>5, <2>2, <3>2, <3>3 DEF Holds
  <2> QED  BY <2>1, <2>2
<1>10. InStep(w)'
  BY <1>2, <1>9, BusyAfter
<1> QED  BY <1>6, <1>7, <1>10 DEF Kept

LEMMA GiveUpKeeps == ASSUME IInv, NEW w \in Windows, GiveUp(w) PROVE Kept(w)
<1>1. Shapes /\ Rounds /\ InStep(w) /\ WritesDone(w) /\ win[w].refused # {}
  BY DEF IInv, GiveUp
<1>2. PICK s \in States :
        /\ Moves(w, s)
        /\ s.pc = "idle" /\ s.at = 1 /\ s.shown = win[w].shown /\ s.savedPort = win[w].savedPort
        /\ s.apply = win[w].apply /\ s.refused = win[w].refused /\ s.tried = win[w].tried
  BY <1>1, GivingUp
<1>3. UNCHANGED <<reg, rules, netsh, outdated>>
  BY DEF GiveUp
<1>4. Shapes'
  BY <1>1, <1>2, <1>3, ShapesAfter DEF Shapes
<1>5. Rounds'
  BY <1>1, <1>2, RoundsAfter
<1>6. w \in Busy /\ (w \notin outdated => \A f \in Fields \ win[w].refused : Holds(f, w))
  BY <1>1, AllWritten
<1>7. win[w].apply
  BY <1>1, <1>6 DEF Rounds
<1>8. InStep(w)'
  BY <1>1, <1>2, <1>3, <1>6, <1>7, IdleAfter DEF Holds
<1> QED  BY <1>4, <1>5, <1>8 DEF Kept

LEMMA BeginRulesKeeps == ASSUME IInv, NEW w \in Windows, BeginRules(w) PROVE Kept(w)
<1>1. Shapes /\ Rounds /\ InStep(w) /\ WritesDone(w) /\ win[w].refused = {}
  BY DEF IInv, BeginRules
<1>2. PICK s \in States :
        /\ Moves(w, s)
        /\ s.pc = "rules" /\ s.at = 1 /\ s.shown = win[w].shown /\ s.savedPort = win[w].savedPort
        /\ s.apply = win[w].apply /\ s.refused = win[w].refused /\ s.tried = win[w].tried
  BY <1>1, BeginningRules
<1>3. UNCHANGED <<reg, rules, netsh, outdated>>
  BY DEF BeginRules
<1>4. Shapes'
  BY <1>1, <1>2, <1>3, ShapesAfter DEF Shapes
<1>5. w \in Busy /\ (w \notin outdated => \A f \in Fields \ win[w].refused : Holds(f, w))
  BY <1>1, AllWritten
<1>6. Rounds'
  <2>1. win[w].apply /\ win[w].tried /\ ValidPort(win[w].shown.port)
    BY <1>1, <1>5 DEF Rounds
  <2>2. s.apply /\ s.tried /\ ValidPort(s.shown.port) /\ s.refused = {} /\ s.at <= 3
    BY <1>1, <1>2, <2>1
  <2> QED  BY <1>1, <1>2, <2>2, RoundsAfter
<1>7. Past(w)' = Fields
  BY <1>2, PastAllNext DEF Moves
<1>8. InStep(w)'
  BY <1>1, <1>2, <1>3, <1>5, <1>7, BusyAfter DEF Holds
<1> QED  BY <1>4, <1>6, <1>8 DEF Kept

LEMMA UpdateRuleKeeps == ASSUME IInv, NEW w \in Windows, UpdateRule(w) PROVE Kept(w)
<1>1. Shapes /\ Rounds /\ InStep(w) /\ win[w].pc = "rules" /\ win[w].at <= 2
  BY OrderIs DEF IInv, UpdateRule
<1>2. PICK s \in States :
        /\ Moves(w, s)
        /\ s.pc = win[w].pc /\ s.at = win[w].at + 1 /\ s.shown = win[w].shown
        /\ s.savedPort = win[w].savedPort /\ s.apply = win[w].apply
        /\ s.refused = win[w].refused /\ s.tried = win[w].tried
  BY <1>1, UpdatingRule
<1>3. UNCHANGED <<reg, netsh, outdated>>
  BY DEF UpdateRule
<1>4. /\ w \in Busy /\ win[w] \in States
      /\ w \notin outdated => \A f \in Fields \ win[w].refused : Holds(f, w)
  BY <1>1, AllWritten
<1>5. win[w].apply /\ win[w].tried /\ ValidPort(win[w].shown.port) /\ win[w].refused = {}
  BY <1>1, <1>4 DEF Rounds
<1>6. rules' \in [Rules -> {None} \cup 1 .. MaxPort]
  BY <1>1, <1>5 DEF UpdateRule, Shapes, ValidPort
<1>7. Shapes'
  BY <1>1, <1>2, <1>3, <1>6, ShapesAfter DEF Shapes
<1>8. Rounds'
  <2>1. win[w].at + 1 <= 3
    BY <1>1, <1>4, StatesAre
  <2> QED  BY <1>1, <1>2, <1>5, <2>1, RoundsAfter
<1>9. Past(w)' = Fields
  BY <1>1, <1>2, PastAllNext DEF Moves
<1>10. InStep(w)'
  BY <1>1, <1>2, <1>3, <1>4, <1>9, BusyAfter DEF Holds
<1> QED  BY <1>7, <1>8, <1>10 DEF Kept

LEMMA SavedKeeps == ASSUME IInv, NEW w \in Windows, Saved(w) PROVE Kept(w)
<1>1. Shapes /\ Rounds /\ InStep(w) /\ (win[w].pc = "rules" \/ (WritesDone(w) /\ win[w].refused = {}))
  BY DEF IInv, Saved
<1>2. PICK s \in States :
        /\ Moves(w, s)
        /\ s.pc = "idle" /\ s.at = 1 /\ s.shown = win[w].shown /\ s.savedPort = win[w].shown.port
        /\ ~s.apply /\ s.refused = win[w].refused /\ s.tried = win[w].tried
  BY <1>1, Saving
<1>3. /\ UNCHANGED <<reg, rules, netsh>>
      /\ outdated' = IF reg = Encoded(win[w].shown) THEN outdated \ {w} ELSE outdated
  BY DEF Saved
<1>4. Shapes'
  BY <1>1, <1>2, <1>3, ShapesAfter DEF Shapes
<1>5. Rounds'
  BY <1>1, <1>2, RoundsAfter
<1>6. /\ w \in Busy /\ win[w] \in States
      /\ w \notin outdated => \A f \in Fields \ win[w].refused : Holds(f, w)
  BY <1>1, AllWritten
<1>7. win[w].refused = {} /\ ValidPort(win[w].shown.port)
  BY <1>1, <1>6 DEF Rounds
<1>8. w \notin outdated' => reg = Encoded(win[w].shown)
  <2>1. SUFFICES ASSUME w \notin outdated, w \notin outdated' PROVE reg = Encoded(win[w].shown)
    BY <1>3
  <2>2. \A f \in Fields : reg[f] = Encoded(win[w].shown)[f]
    BY <1>6, <1>7, <2>1 DEF Holds
  <2>3. reg \in Values /\ Encoded(win[w].shown) \in Values
    BY <1>1, <1>6, StatesAre, EncodedTyped DEF Shapes
  <2> QED  BY <2>2, <2>3, SameValues
<1>9. w \notin outdated' => Shown(ReadSettings) = win[w].shown /\ reg.port = win[w].shown.port
  BY <1>6, <1>7, <1>8, StatesAre, RoundTrip
<1>10. Shown(ReadSettings)' = Shown(ReadSettings)
  BY <1>3 DEF ReadSettings
<1>11. InStep(w)'
  BY <1>2, <1>3, <1>7, <1>8, <1>9, <1>10, IdleAfter
<1> QED  BY <1>4, <1>5, <1>11 DEF Kept

LEMMA ClosingKeeps == ASSUME IInv, NEW w \in Windows, Close(w) \/ Kill(w) PROVE Kept(w)
<1>1. Shapes /\ Rounds
  BY DEF IInv
<1>2. /\ win' = [win EXCEPT ![w] = Closed] /\ outdated' = outdated \ {w}
      /\ UNCHANGED <<reg, rules, netsh>>
  BY DEF Close, Kill
<1>3. Moves(w, Closed)
  BY <1>1, <1>2, Moved
<1>4. Shapes'
  BY <1>1, <1>2, <1>3, PlacesClosed DEF Shapes, Moves
<1>5. Rounds'
  BY <1>1, <1>3, RoundsAfterClosing
<1>6. w \notin Opened'
  BY <1>1, <1>3, PlacesClosed
<1>7. InStep(w)'
  BY <1>6 DEF InStep, Idle, Busy
<1> QED  BY <1>4, <1>5, <1>7 DEF Kept

(* The windows other than the one that steps.                              *)
LEMMA WindowLeaves ==
    ASSUME IInv, NEW w \in Windows, Window(w), NEW v \in Windows \ {w}
    PROVE  InStep(v)'
<1>1. Shapes /\ InStep(v)
  BY DEF IInv
<1>2. win'[v] = win[v]
  BY <1>1 DEF Shapes, Window, Round, Open, Change, Apply, WriteValue, GiveUp, BeginRules, UpdateRule,
              Saved, Close, Kill
<1>4. CASE v \notin Opened
  BY <1>2, <1>4 DEF InStep, Opened, Idle, Busy
<1>3. v \in Opened /\ v \notin outdated' => v \notin outdated /\ reg' = reg
  <2>1. CASE WriteValue(w)
    <3>1. CASE \E f \in {Order[win[w].at]} : Written(f, w)
      <4>1. v \in outdated' \/ v \notin Opened
        BY <3>1 DEF Written
      <4> QED  BY <3>1, <4>1
    <3>2. CASE UNCHANGED <<reg, outdated>>
      BY <3>2
    <3> QED  BY <2>1, <3>1, <3>2 DEF WriteValue
  <2>2. CASE ~WriteValue(w)
    BY <2>2 DEF Window, Round, Open, Change, Apply, GiveUp, BeginRules, UpdateRule, Saved, Close, Kill
  <2> QED  BY <2>1, <2>2
<1> QED  BY <1>1, <1>2, <1>3, <1>4, OthersInStep

(* The invariant holds at first and is kept.                               *)
LEMMA FirstIInv == Init => IInv
<1>1. ASSUME Init PROVE \A w \in Windows : InStep(w)
  BY <1>1 DEF Init, InStep, Idle, Busy, Opened
<1> QED  BY <1>1, InitialShapes DEF IInv

LEMMA NextIInv == IInv /\ [Next]_vars => IInv'
<1> SUFFICES ASSUME IInv, [Next]_vars PROVE IInv'
  OBVIOUS
<1>1. ASSUME Installer \/ UNCHANGED vars PROVE IInv'
  <2>1. Shapes' /\ Rounds' /\ UNCHANGED <<reg, win, outdated>>
    <3>1. CASE Installer
      BY <3>1, InstallerShapes DEF IInv
    <3>2. CASE UNCHANGED vars
      BY <3>2 DEF IInv, vars, Shapes, Rounds, ValidPort, Opened, Idle, Busy
    <3> QED  BY <1>1, <3>1, <3>2
  <2>2. ASSUME NEW v \in Windows PROVE InStep(v)'
    BY <2>1, OthersInStep DEF IInv
  <2> QED  BY <2>1, <2>2 DEF IInv
<1>2. ASSUME NEW w \in Windows, Window(w) PROVE IInv'
  <2>1. Kept(w)
    BY <1>2, OpenKeeps, ChangeKeeps, ApplyKeeps, WriteValueKeeps, GiveUpKeeps, BeginRulesKeeps,
       UpdateRuleKeeps, SavedKeeps, ClosingKeeps DEF Window, Round
  <2>2. \A v \in Windows \ {w} : InStep(v)'
    BY <1>2, WindowLeaves
  <2> QED  BY <2>1, <2>2 DEF Kept, IInv
<1> QED  BY <1>1, <1>2 DEF Next

LEMMA InStepThen ==
    ASSUME IInv
    PROVE  TypeOK /\ ShownIsSaved /\ OthersWritten
<1>1. DOMAIN reg = Fields
  BY FieldsAre DEF IInv, Shapes, Values
<1>2. DOMAIN rules = Rules /\ \A r \in Rules : rules[r] = None \/ ValidPort(rules[r])
  BY DEF IInv, Shapes, ValidPort
<1>3. ASSUME NEW w \in Opened
      PROVE  /\ win[w].pc \in {"idle", "write", "rules"}
             /\ win[w].at \in 1 .. Len(Order) + 1
             /\ win[w].refused \subseteq Fields
             /\ w \in Busy => win[w].apply /\ win[w].tried
             /\ win[w].pc = "rules" => win[w].refused = {}
  <2>1. win[w] \in States
    BY <1>3, OpenedIs DEF IInv
  <2>2. win[w].pc \in {"idle", "write", "rules"} /\ win[w].at \in 1 .. 6 /\ win[w].refused \subseteq Fields
    BY <2>1, StatesAre
  <2>3. w \in Busy => win[w].apply /\ win[w].tried
    BY DEF IInv, Rounds
  <2>4. win[w].pc = "rules" => win[w].refused = {}
    BY <1>3 DEF IInv, Rounds, Busy
  <2> QED  BY <2>2, <2>3, <2>4, OrderIs
<1>4. ShownIsSaved /\ OthersWritten
  <2>1. \A w \in Idle \ outdated : Knows(w)
    BY DEF IInv, InStep, Idle, Opened
  <2> QED  BY <2>1 DEF Knows, Holds, ShownIsSaved, OthersWritten
<1> QED  BY <1>1, <1>2, <1>3, <1>4 DEF IInv, Shapes, TypeOK

(* The types, in any number of rounds (main.cpp:745-772).                  *)
THEOREM TypeCorrect == Spec => []TypeOK
BY FirstIInv, NextIInv, InStepThen, PTL DEF Spec

(* A window that offers nothing to apply shows what the registry holds,    *)
(* whatever could not be written in its rounds (main.cpp:719-772).         *)
THEOREM NothingHidden == Spec => []ShownIsSaved
BY FirstIInv, NextIInv, InStepThen, PTL DEF Spec

(* After a round all is written but what was refused (main.cpp:745-760).   *)
THEOREM OthersKeptWritten == Spec => []OthersWritten
BY FirstIInv, NextIInv, InStepThen, PTL DEF Spec

-----------------------------------------------------------------------------
(* The rules and the registry.                                             *)

LEMMA QuietIs == Quiet = (Pending = {} /\ netsh = <<>>)
BY DEF Quiet, Pending, Retry, Idle, Opened

LEMMA AgreeIs == Agree = RulesAt(reg.port)
BY DEF Agree, RulesAt

LEMMA QuietThen == (Quiet /\ Agree)' => Orderly'
<1> SUFFICES ASSUME Quiet', Agree' PROVE Orderly'
  OBVIOUS
<1>1. Pending' = {} /\ netsh' = <<>> /\ RulesAt(reg.port)'
  BY DEF Quiet, Agree, Pending, Retry, Idle, Opened, RulesAt
<1>2. Busy' = {}
  BY <1>1 DEF Pending
<1> QED  BY <1>1, <1>2 DEF Orderly, InstallerAlone

(* What an action has to show: either all is well again, or there was      *)
(* nothing to blame before and the action adds nothing.                    *)
LEMMA Blamed ==
    ASSUME NEW why, Blame(why), Blameless, blame = {} /\ why = {} /\ Orderly => Orderly'
    PROVE  Blameless'
<1>1. CASE (Quiet /\ Agree)'
  BY <1>1, QuietThen DEF Blameless
<1>2. CASE ~(Quiet /\ Agree)'
  <2>1. blame' = blame \cup why
    BY <1>2 DEF Blame
  <2> QED  BY <2>1 DEF Blameless
<1> QED  BY <1>1, <1>2

LEMMA PendingAre == Pending = {v \in Opened : win[v].pc # "idle" \/ win[v].refused # {}}
BY DEF Pending, Retry, Busy, Idle, Opened

LEMMA PendingAfter ==
    ASSUME Shapes, NEW w \in Windows, NEW s \in States, Moves(w, s)
    PROVE  Pending' = IF s.pc # "idle" \/ s.refused # {} THEN Pending \cup {w} ELSE Pending \ {w}
<1>1. Opened' = Opened \cup {w} /\ win'[w] = s /\ \A v \in Opened \ {w} : win'[v] = win[v]
  BY PlacesAfter DEF Moves, Opened
<1>2. Pending' = {v \in Opened' : win'[v].pc # "idle" \/ win'[v].refused # {}}
  BY DEF Pending, Retry, Busy, Idle, Opened
<1> QED  BY <1>1, <1>2, PendingAre

LEMMA PendingClosed ==
    ASSUME Shapes, NEW w \in Windows, Moves(w, Closed)
    PROVE  Pending' = Pending \ {w}
<1>1. Opened' = Opened \ {w} /\ \A v \in Opened \ {w} : win'[v] = win[v]
  BY PlacesClosed DEF Moves, Opened
<1>2. Pending' = {v \in Opened' : win'[v].pc # "idle" \/ win'[v].refused # {}}
  BY DEF Pending, Retry, Busy, Idle, Opened
<1> QED  BY <1>1, <1>2, PendingAre

LEMMA InitialOrder == Init => Blameless
<1> SUFFICES ASSUME Init PROVE Orderly
  BY DEF Blameless
<1>1. Opened = {} /\ Pending = {} /\ Busy = {}
  BY DEF Init, Opened, Pending, Busy, Idle, Retry
<1>2. netsh = <<>>
  BY DEF Init
<1>3. RulesAt(reg.port)
  BY DEF Init, RulesAt
<1> QED  BY <1>1, <1>2, <1>3 DEF Orderly, InstallerAlone

(* Nothing changes that the order depends on.                              *)
LEMMA SameOrder ==
    ASSUME Blameless, UNCHANGED <<reg, rules, win, netsh, outdated, blame>>
    PROVE  Blameless'
<1>1. Opened' = Opened /\ Pending' = Pending /\ Busy' = Busy
  BY DEF Opened, Pending, Busy, Idle, Retry
<1>2. \A p : RulesAt(p)' = RulesAt(p)
  BY DEF RulesAt, ValidPort
<1>3. \A v : AtWorkAlone(v)' = AtWorkAlone(v) /\ KnowsRules(v)' = KnowsRules(v)
  BY <1>1, <1>2 DEF AtWorkAlone, KnowsRules, Past
<1>4. InstallerAlone' = InstallerAlone
  BY <1>1, <1>2 DEF InstallerAlone, ValidPort
<1> QED  BY <1>1, <1>2, <1>3, <1>4 DEF Blameless, Orderly

(* A window whose place, port and need to repeat stay, and the rules too.  *)
LEMMA StillKnows ==
    ASSUME NEW v \in Windows, KnowsRules(v), rules' = rules, win'[v].pc = win[v].pc, win'[v].at = win[v].at,
           win'[v].savedPort = win[v].savedPort, win'[v].pc = "rules" => win'[v].shown = win[v].shown,
           Pending' = {v} => Pending = {v}
    PROVE  KnowsRules(v)'
<1>1. win'[v].pc # "rules" /\ Pending' = {v} => RulesAt(win[v].savedPort)
  BY DEF KnowsRules
<1>2. win'[v].pc # "rules" /\ Pending' = {v} => RulesAt(win[v].savedPort)'
  BY <1>1 DEF RulesAt, ValidPort
<1>3. win'[v].pc = "rules" => \A i \in 1 .. win'[v].at - 1 : rules'[RuleOrder[i]] = win'[v].shown.port
  BY DEF KnowsRules
<1> QED  BY <1>2, <1>3 DEF KnowsRules

LEMMA OpenOrderly == ASSUME IInv, Blameless, NEW w \in Windows, Open(w) PROVE Blameless'
<1>1. Shapes /\ w \notin Opened /\ UNCHANGED <<reg, rules, netsh, outdated, blame>>
  BY DEF IInv, Open
<1>2. PICK s \in States :
        /\ Moves(w, s)
        /\ s.pc = "idle" /\ s.at = 1 /\ s.shown = Shown(ReadSettings)
        /\ s.savedPort = reg.port /\ s.refused = {} /\ ~s.tried
  BY <1>1, Opening
<1>3. Pending' = Pending /\ Busy' = Busy /\ Busy \subseteq Pending /\ Pending \subseteq Windows \ {w}
  BY <1>1, <1>2, PendingAfter, PlacesAfter, PendingAre DEF Busy, Opened, Pending
<1>4. SUFFICES ASSUME Orderly PROVE Orderly'
  BY <1>1 DEF Blameless
<1>5. \A v \in Pending : win'[v] = win[v]
  BY <1>2, <1>3 DEF Moves
<1>6. InstallerAlone'
  BY <1>1, <1>3, <1>4 DEF Orderly, InstallerAlone, RulesAt, ValidPort
<1>7. ASSUME NEW v \in Busy PROVE AtWorkAlone(v)'
  BY <1>1, <1>3, <1>4, <1>5 DEF Orderly, AtWorkAlone, Past
<1>8. ASSUME NEW v \in Pending \ outdated PROVE KnowsRules(v)'
  BY <1>1, <1>3, <1>4, <1>5, StillKnows DEF Orderly
<1>9. Pending' = {} /\ netsh' = <<>> => RulesAt(reg.port)'
  BY <1>1, <1>3, <1>4 DEF Orderly, RulesAt, ValidPort
<1> QED  BY <1>1, <1>3, <1>6, <1>7, <1>8, <1>9 DEF Orderly

LEMMA ChangeOrderly == ASSUME IInv, Blameless, NEW w \in Windows, Change(w) PROVE Blameless'
<1>1. Shapes /\ w \in Idle /\ UNCHANGED <<reg, rules, netsh, outdated, blame>>
  BY DEF IInv, Change
<1>2. PICK s \in States :
        /\ Moves(w, s)
        /\ s.pc = win[w].pc /\ s.at = win[w].at /\ s.shown \in Controls
        /\ s.savedPort = win[w].savedPort /\ s.refused = win[w].refused /\ s.apply /\ ~s.tried
  BY <1>1, Changing
<1>3. /\ w \notin Busy /\ win[w].pc = "idle" /\ w \in Opened
      /\ Pending' = Pending /\ Busy' = Busy /\ Busy \subseteq Pending /\ Pending \subseteq Windows
  <2>1. w \notin Busy /\ win[w].pc = "idle" /\ w \in Opened
    BY <1>1 DEF Idle, Busy
  <2>2. Pending' = Pending
    BY <1>1, <1>2, <2>1, PendingAfter, PendingAre
  <2>3. Busy' = Busy
    BY <1>1, <1>2, <2>1, PlacesAfter
  <2> QED  BY <2>1, <2>2, <2>3 DEF Pending, Busy, Opened
<1>4. SUFFICES ASSUME Orderly PROVE Orderly'
  BY <1>1 DEF Blameless
<1>5. \A v \in Windows \ {w} : win'[v] = win[v]
  BY <1>2 DEF Moves
<1>6. InstallerAlone'
  BY <1>1, <1>3, <1>4 DEF Orderly, InstallerAlone, RulesAt, ValidPort
<1>7. ASSUME NEW v \in Busy PROVE AtWorkAlone(v)'
  <2>1. v \in Windows \ {w}
    BY <1>3
  <2> QED  BY <1>1, <1>3, <1>4, <1>5, <2>1 DEF Orderly, AtWorkAlone, Past
<1>8. ASSUME NEW v \in Pending \ outdated PROVE KnowsRules(v)'
  <2>1. KnowsRules(v) /\ v \in Windows
    BY <1>3, <1>4 DEF Orderly
  <2>2. CASE v = w
    BY <1>1, <1>2, <1>3, <2>1, <2>2, StillKnows DEF Moves
  <2>3. CASE v # w
    BY <1>1, <1>3, <1>5, <2>1, <2>3, StillKnows
  <2> QED  BY <2>2, <2>3
<1>9. Pending' = {} /\ netsh' = <<>> => RulesAt(reg.port)'
  BY <1>1, <1>3, <1>4 DEF Orderly, RulesAt, ValidPort
<1> QED  BY <1>1, <1>3, <1>6, <1>7, <1>8, <1>9 DEF Orderly

LEMMA ApplyOrderly == ASSUME IInv, Blameless, NEW w \in Windows, Apply(w) PROVE Blameless'
<1>1. /\ Shapes /\ Rounds /\ InStep(w) /\ w \in Idle /\ UNCHANGED <<reg, rules, netsh, outdated>>
      /\ Blame((IF w \in outdated THEN {"stale"} ELSE {})
               \cup (IF Busy # {} \/ netsh # <<>> THEN {"overlap"} ELSE {}))
  BY DEF IInv, Apply
<1>2. PICK s \in States :
        /\ Moves(w, s)
        /\ s.pc = "write" /\ s.at = win[w].at /\ s.shown = win[w].shown
        /\ s.savedPort = win[w].savedPort /\ s.apply = win[w].apply /\ s.refused = {} /\ s.tried
  BY <1>1, Applying
<1>3. SUFFICES ASSUME w \notin outdated, Busy = {}, netsh = <<>>, Orderly PROVE Orderly'
  BY <1>1, Blamed
<1>4. Pending' = Pending \cup {w} /\ Busy' = {w} /\ Pending \subseteq Windows
  <2>1. Pending \subseteq Windows
    BY PendingAre DEF Opened
  <2> QED  BY <1>1, <1>2, <1>3, <2>1, PendingAfter, PlacesAfter
<1>5. win'[w] = s /\ win[w].pc = "idle" /\ s.at = 1 /\ \A v \in Windows \ {w} : win'[v] = win[v]
  <2>1. win[w].pc = "idle"
    BY <1>1 DEF Idle, Busy
  <2> QED  BY <1>1, <1>2, <2>1 DEF Moves, Rounds
<1>6. Past(w)' = {}
  BY <1>2, <1>5 DEF Past
<1>7. InstallerAlone'
  BY <1>1, <1>3 DEF InstallerAlone
<1>8. AtWorkAlone(w)'
  BY <1>1, <1>2, <1>3, <1>4, <1>5, <1>6 DEF AtWorkAlone
<1>9. KnowsRules(w)'
  <2>1. ASSUME Pending' = {w} PROVE RulesAt(win[w].savedPort)
    <3>1. CASE Pending = {}
      <4>1. win[w].refused = {}
        BY <1>1, <3>1, PendingAre DEF Idle
      <4>2. win[w].savedPort = reg.port
        BY <1>1, <1>3, <4>1 DEF InStep, Knows
      <4> QED  BY <1>3, <3>1, <4>2 DEF Orderly
    <3>2. CASE Pending = {w}
      <4>1. KnowsRules(w)
        BY <1>3, <3>2 DEF Orderly
      <4> QED  BY <1>5, <3>2, <4>1 DEF KnowsRules
    <3> QED  BY <1>4, <2>1, <3>1, <3>2
  <2>2. Pending' = {w} => RulesAt(win[w].savedPort)'
    BY <1>1, <1>2, <1>5, <2>1 DEF RulesAt, ValidPort
  <2> QED  BY <1>2, <1>5, <2>2 DEF KnowsRules
<1>10. ASSUME NEW v \in Pending \ {w}, v \notin outdated PROVE KnowsRules(v)'
  <2>1. v \in Windows /\ KnowsRules(v) /\ win'[v] = win[v]
    BY <1>3, <1>4, <1>5, <1>10 DEF Orderly
  <2>2. Pending' # {v}
    BY <1>4, <1>10
  <2> QED  BY <1>1, <2>1, <2>2, StillKnows
<1> QED  BY <1>1, <1>3, <1>4, <1>7, <1>8, <1>9, <1>10 DEF Orderly

(* In a round, before and after.                                           *)
LEMMA RoundAlone ==
    ASSUME Shapes, Orderly, NEW w \in Busy
    PROVE  /\ w \in Windows /\ w \in Opened /\ w \in Pending /\ w \notin outdated /\ Busy = {w} /\ netsh = <<>>
           /\ Pending \subseteq Opened /\ KnowsRules(w) /\ win[w].pc # "idle" /\ AtWorkAlone(w)
BY PendingAre DEF Orderly, AtWorkAlone, InstallerAlone, Busy, Opened, Pending

LEMMA StillAtWork ==
    ASSUME Shapes, NEW w \in Busy, NEW s \in States, Moves(w, s), s.pc # "idle"
    PROVE  Pending' = Pending /\ Busy' = Busy /\ Opened' = Opened
<1>1. w \in Windows /\ w \in Opened /\ w \in Pending
  BY DEF Busy, Opened, Pending
<1>2. Pending' = Pending
  BY <1>1, PendingAfter
<1> QED  BY <1>1, <1>2, PlacesAfter

LEMMA WriteValueOrderly == ASSUME IInv, Blameless, NEW w \in Windows, WriteValue(w) PROVE Blameless'
<1>1. Shapes /\ Rounds /\ win[w].pc = "write" /\ UNCHANGED <<rules, netsh, blame>>
  BY DEF IInv, WriteValue
<1>2. PICK s \in States, f \in Fields :
        /\ Moves(w, s)
        /\ win[w].at \in 1 .. 5 /\ f = Order[win[w].at]
        /\ s.pc = "write" /\ s.at = win[w].at + 1 /\ s.shown = win[w].shown
        /\ s.savedPort = win[w].savedPort /\ s.apply = win[w].apply /\ s.tried = win[w].tried
        /\ \/ s.refused = win[w].refused /\ Written(f, w)
           \/ s.refused = win[w].refused \cup {f} /\ UNCHANGED <<reg, outdated>>
  BY <1>1, Writing
<1>3. SUFFICES ASSUME Orderly PROVE Orderly'
  BY <1>1 DEF Blameless
<1>4. w \in Busy /\ w \in Opened
  BY <1>1, StatedIs, ClosedApart DEF Busy, Opened
<1>5. /\ w \in Pending /\ w \notin outdated /\ Busy = {w} /\ netsh = <<>> /\ Pending \subseteq Opened
      /\ KnowsRules(w) /\ AtWorkAlone(w)
  BY <1>1, <1>3, <1>4, RoundAlone
<1>6. /\ Pending' = Pending /\ Busy' = {w} /\ netsh' = <<>> /\ Opened' = Opened
      /\ win'[w] = s /\ \A v \in Windows \ {w} : win'[v] = win[v]
  <2>1. s.pc # "idle"
    BY <1>2
  <2>2. Pending' = Pending /\ Busy' = Busy /\ Opened' = Opened
    BY <1>1, <1>2, <1>4, <2>1, StillAtWork
  <2>3. win'[w] = s /\ \A v \in Windows \ {w} : win'[v] = win[v]
    BY <1>2 DEF Moves
  <2> QED  BY <1>1, <1>5, <2>2, <2>3
<1>7. InstallerAlone'
  BY <1>6 DEF InstallerAlone
<1>8. Past(w)' \subseteq Past(w) \cup {f}
  <2>1. win'[w].pc = "write" /\ win'[w].at - 1 = win[w].at
    BY <1>2, <1>6
  <2>2. \A i \in 1 .. win[w].at : i = win[w].at \/ i \in 1 .. win[w].at - 1
    BY <1>2
  <2> QED  BY <1>1, <1>2, <2>1, <2>2 DEF Past
<1>9. KnowsRules(w)'
  BY <1>1, <1>2, <1>5, <1>6 DEF KnowsRules, RulesAt, ValidPort
<1>10. CASE s.refused = win[w].refused /\ Written(f, w)
  <2>1. outdated' = outdated \cup (Opened \ {w})
    BY <1>10 DEF Written
  <2>2. AtWorkAlone(w)'
    BY <1>5, <1>6, <2>1 DEF AtWorkAlone
  <2>3. Pending' \ outdated' \subseteq {w}
    BY <1>5, <1>6, <2>1
  <2> QED  BY <1>6, <1>7, <1>9, <2>2, <2>3, <1>5 DEF Orderly
<1>11. CASE s.refused = win[w].refused \cup {f} /\ UNCHANGED <<reg, outdated>>
  <2>1. AtWorkAlone(w)'
    BY <1>1, <1>2, <1>5, <1>6, <1>8, <1>11 DEF AtWorkAlone
  <2>2. ASSUME NEW v \in Pending \ {w}, v \notin outdated PROVE KnowsRules(v)'
    <3>1. v \in Windows /\ KnowsRules(v)
      BY <1>3, <1>5, <2>2 DEF Orderly, Opened
    <3> QED  BY <1>1, <1>6, <2>2, <3>1, StillKnows
  <2> QED  BY <1>5, <1>6, <1>7, <1>9, <1>11, <2>1, <2>2 DEF Orderly
<1> QED  BY <1>2, <1>10, <1>11

LEMMA GiveUpOrderly == ASSUME IInv, Blameless, NEW w \in Windows, GiveUp(w) PROVE Blameless'
<1>1. /\ Shapes /\ Rounds /\ WritesDone(w) /\ win[w].refused # {}
      /\ UNCHANGED <<reg, rules, netsh, outdated, blame>>
  BY DEF IInv, GiveUp
<1>2. PICK s \in States :
        /\ Moves(w, s)
        /\ s.pc = "idle" /\ s.at = 1 /\ s.shown = win[w].shown /\ s.savedPort = win[w].savedPort
        /\ s.apply = win[w].apply /\ s.refused = win[w].refused /\ s.tried = win[w].tried
  BY <1>1, GivingUp
<1>3. SUFFICES ASSUME Orderly PROVE Orderly'
  BY <1>1 DEF Blameless
<1>4. w \in Busy /\ win[w].pc = "write"
  BY <1>1, StatedIs, ClosedApart DEF Busy, Opened, WritesDone
<1>5. /\ w \in Pending /\ w \notin outdated /\ Busy = {w} /\ netsh = <<>> /\ Pending \subseteq Opened
      /\ KnowsRules(w)
  BY <1>1, <1>3, <1>4, RoundAlone
<1>6. /\ Pending' = Pending /\ Busy' = {} /\ netsh' = <<>>
      /\ win'[w] = s /\ \A v \in Windows \ {w} : win'[v] = win[v]
  <2>1. Pending' = Pending
    BY <1>1, <1>2, <1>5, PendingAfter
  <2>2. Busy' = {}
    BY <1>1, <1>2, <1>5, PlacesAfter
  <2> QED  BY <1>1, <1>2, <1>5, <2>1, <2>2 DEF Moves
<1>7. KnowsRules(w)'
  BY <1>1, <1>2, <1>4, <1>5, <1>6 DEF KnowsRules, RulesAt, ValidPort
<1>8. ASSUME NEW v \in Pending \ {w}, v \notin outdated PROVE KnowsRules(v)'
  <2>1. v \in Windows /\ KnowsRules(v)
    BY <1>3, <1>5, <1>8 DEF Orderly, Opened
  <2> QED  BY <1>1, <1>6, <1>8, <2>1, StillKnows
<1> QED  BY <1>1, <1>5, <1>6, <1>7, <1>8 DEF Orderly, InstallerAlone

(* Once the values are written, no window with a round to repeat knows     *)
(* the registry.                                                           *)
LEMMA OthersOutdated ==
    ASSUME Shapes, Rounds, Orderly, NEW w \in Busy, Past(w) = Fields, win[w].refused = {}
    PROVE  Pending \ outdated \subseteq {w}
<1>1. "port" \in Past(w)
  BY FieldsAre
<1> QED  BY <1>1 DEF Orderly, AtWorkAlone

LEMMA BeginRulesOrderly == ASSUME IInv, Blameless, NEW w \in Windows, BeginRules(w) PROVE Blameless'
<1>1. /\ Shapes /\ Rounds /\ InStep(w) /\ WritesDone(w) /\ win[w].refused = {}
      /\ UNCHANGED <<reg, rules, netsh, outdated, blame>>
  BY DEF IInv, BeginRules
<1>2. PICK s \in States :
        /\ Moves(w, s)
        /\ s.pc = "rules" /\ s.at = 1 /\ s.shown = win[w].shown /\ s.savedPort = win[w].savedPort
        /\ s.apply = win[w].apply /\ s.refused = win[w].refused /\ s.tried = win[w].tried
  BY <1>1, BeginningRules
<1>3. SUFFICES ASSUME Orderly PROVE Orderly'
  BY <1>1 DEF Blameless
<1>4. w \in Busy /\ Past(w) = Fields
  BY <1>1, AllWritten
<1>5. w \in Pending /\ w \notin outdated /\ Busy = {w} /\ netsh = <<>>
  BY <1>1, <1>3, <1>4, RoundAlone
<1>6. Pending' = Pending /\ Busy' = {w} /\ netsh' = <<>> /\ win'[w] = s
  <2>1. Pending' = Pending
    BY <1>1, <1>2, <1>5, PendingAfter
  <2>2. Busy' = {w}
    BY <1>1, <1>2, <1>5, PlacesAfter
  <2> QED  BY <1>1, <1>2, <1>5, <2>1, <2>2 DEF Moves
<1>7. Pending \ outdated \subseteq {w}
  BY <1>1, <1>3, <1>4, OthersOutdated
<1>8. KnowsRules(w)'
  <2>1. win'[w].pc = "rules" /\ 1 .. win'[w].at - 1 = {}
    BY <1>2, <1>6
  <2> QED  BY <2>1 DEF KnowsRules
<1>9. AtWorkAlone(w)'
  BY <1>1, <1>5, <1>6, <1>7 DEF AtWorkAlone
<1> QED  BY <1>1, <1>5, <1>6, <1>7, <1>8, <1>9 DEF Orderly, InstallerAlone

LEMMA UpdateRuleOrderly == ASSUME IInv, Blameless, NEW w \in Windows, UpdateRule(w) PROVE Blameless'
<1>1. /\ Shapes /\ Rounds /\ InStep(w) /\ win[w].pc = "rules" /\ win[w].at <= 2
      /\ UNCHANGED <<reg, netsh, outdated>>
  BY OrderIs DEF IInv, UpdateRule
<1>2. PICK s \in States :
        /\ Moves(w, s)
        /\ s.pc = win[w].pc /\ s.at = win[w].at + 1 /\ s.shown = win[w].shown
        /\ s.savedPort = win[w].savedPort /\ s.apply = win[w].apply
        /\ s.refused = win[w].refused /\ s.tried = win[w].tried
  BY <1>1, UpdatingRule
<1>3. CASE blame' = blame \cup {"warning"}
  BY <1>3 DEF Blameless
<1> DEFINE r == RuleOrder[win[w].at]
<1>4. CASE rules' = [rules EXCEPT ![r] = win[w].shown.port] /\ UNCHANGED blame
  <2>1. SUFFICES ASSUME Orderly PROVE Orderly'
    BY <1>4 DEF Blameless
  <2>2. w \in Busy /\ Past(w) = Fields /\ win[w] \in States /\ win[w].refused = {}
    <3>1. w \in Busy /\ Past(w) = Fields /\ win[w] \in States
      BY <1>1, AllWritten
    <3> QED  BY <1>1, <3>1 DEF Rounds
  <2>3. w \in Pending /\ w \notin outdated /\ Busy = {w} /\ netsh = <<>> /\ KnowsRules(w)
    BY <1>1, <2>1, <2>2, RoundAlone
  <2>4. Pending' = Pending /\ Busy' = {w} /\ netsh' = <<>> /\ win'[w] = s
    <3>1. s.pc # "idle"
      BY <1>1, <1>2
    <3>2. Pending' = Pending /\ Busy' = Busy
      BY <1>1, <1>2, <2>2, <3>1, StillAtWork
    <3> QED  BY <1>1, <1>2, <2>3, <3>2 DEF Moves
  <2>5. Pending \ outdated \subseteq {w}
    BY <1>1, <2>1, <2>2, OthersOutdated
  <2>6. AtWorkAlone(w)'
    BY <1>1, <2>3, <2>4, <2>5 DEF AtWorkAlone
  <2>7. KnowsRules(w)'
    <3>1. win[w].at \in 1 .. 2
      BY <1>1, <2>2, StatesAre
    <3>2. RuleOrder[1] \in Rules /\ RuleOrder[2] \in Rules /\ RuleOrder[1] # RuleOrder[2]
      BY OrderIs DEF Rules
    <3>3. rules' \in [Rules -> {None} \cup 1 .. MaxPort] /\ DOMAIN rules = Rules
      BY <1>1, <1>4, <2>2 DEF Shapes, Rounds, ValidPort
    <3>4. ASSUME NEW i \in 1 .. win'[w].at - 1 PROVE rules'[RuleOrder[i]] = win'[w].shown.port
      <4>1. win'[w].shown = win[w].shown /\ win'[w].at - 1 = win[w].at
        BY <1>2, <2>4, <3>1
      <4>2. CASE i = win[w].at
        BY <1>4, <3>1, <3>2, <3>3, <4>1, <4>2
      <4>3. CASE i # win[w].at
        <5>1. i = 1 /\ win[w].at = 2
          BY <3>1, <3>4, <4>1, <4>3
        <5>2. rules[RuleOrder[1]] = win[w].shown.port
          BY <1>1, <2>3, <5>1 DEF KnowsRules
        <5> QED  BY <1>4, <3>2, <3>3, <4>1, <5>1, <5>2
      <4> QED  BY <4>2, <4>3
    <3>5. win'[w].pc = "rules"
      BY <1>1, <1>2, <2>4
    <3> QED  BY <3>4, <3>5 DEF KnowsRules
  <2> QED  BY <1>1, <2>3, <2>4, <2>5, <2>6, <2>7 DEF Orderly, InstallerAlone
<1> QED  BY <1>3, <1>4 DEF UpdateRule

LEMMA SavedOrderly == ASSUME IInv, Blameless, NEW w \in Windows, Saved(w) PROVE Blameless'
<1>1. /\ Shapes /\ Rounds /\ InStep(w) /\ UNCHANGED <<reg, rules, netsh>> /\ Blame({})
      /\ \/ WritesDone(w) /\ win[w].refused = {} /\ ~NewPort(w)
         \/ win[w].pc = "rules" /\ win[w].at > 2
      /\ outdated' = outdated \ {w} \/ outdated' = outdated
  BY OrderIs DEF IInv, Saved
<1>2. PICK s \in States :
        /\ Moves(w, s)
        /\ s.pc = "idle" /\ s.at = 1 /\ s.shown = win[w].shown /\ s.savedPort = win[w].shown.port
        /\ ~s.apply /\ s.refused = win[w].refused /\ s.tried = win[w].tried
  BY <1>1, Saving
<1>3. SUFFICES ASSUME Orderly PROVE Orderly'
  BY <1>1, Blamed
<1>4. /\ w \in Busy /\ Past(w) = Fields /\ win[w] \in States
      /\ w \notin outdated => \A f \in Fields \ win[w].refused : Holds(f, w)
  BY <1>1, AllWritten
<1>5. win[w].refused = {} /\ ValidPort(win[w].shown.port)
  BY <1>1, <1>4 DEF Rounds
<1>6. w \in Pending /\ w \notin outdated /\ Busy = {w} /\ netsh = <<>> /\ KnowsRules(w)
  BY <1>1, <1>3, <1>4, RoundAlone
<1>7. Pending \ outdated \subseteq {w} /\ outdated' = outdated
  <2>1. Pending \ outdated \subseteq {w}
    BY <1>1, <1>3, <1>4, <1>5, OthersOutdated
  <2>2. outdated \ {w} = outdated
    BY <1>6
  <2> QED  BY <1>1, <2>1, <2>2
<1>8. Pending' = Pending \ {w} /\ Busy' = {} /\ netsh' = <<>>
  <2>1. Pending' = Pending \ {w}
    BY <1>1, <1>2, <1>5, PendingAfter
  <2>2. Busy' = {}
    BY <1>1, <1>2, <1>6, PlacesAfter
  <2> QED  BY <1>1, <1>6, <2>1, <2>2
<1>9. reg.port = win[w].shown.port
  <2>1. \A f \in Fields : reg[f] = Encoded(win[w].shown)[f]
    BY <1>4, <1>5, <1>6 DEF Holds
  <2>2. reg \in Values /\ Encoded(win[w].shown) \in Values /\ win[w].shown \in Controls
    BY <1>1, <1>4, StatesAre, EncodedTyped DEF Shapes
  <2>3. reg = Encoded(win[w].shown)
    BY <2>1, <2>2, SameValues
  <2> QED  BY <1>5, <2>2, <2>3, RoundTrip
<1>10. ASSUME Pending' = {} PROVE RulesAt(reg.port)'
  <2>1. Pending = {w}
    BY <1>6, <1>8, <1>10
  <2>2. RulesAt(reg.port)
    <3>1. CASE WritesDone(w) /\ ~NewPort(w)
      BY <1>6, <1>9, <2>1, <3>1 DEF KnowsRules, WritesDone, NewPort
    <3>2. CASE win[w].pc = "rules" /\ win[w].at > 2
      <4>1. 1 \in 1 .. win[w].at - 1 /\ 2 \in 1 .. win[w].at - 1
        BY <1>4, <3>2, StatesAre
      <4>2. rules[RuleOrder[1]] = win[w].shown.port /\ rules[RuleOrder[2]] = win[w].shown.port
        BY <1>6, <3>2, <4>1 DEF KnowsRules
      <4>3. \A r \in Rules : r = RuleOrder[1] \/ r = RuleOrder[2]
        BY OrderIs DEF Rules
      <4> QED  BY <1>9, <4>2, <4>3 DEF RulesAt
    <3> QED  BY <1>1, <3>1, <3>2
  <2> QED  BY <1>1, <2>2 DEF RulesAt, ValidPort
<1> QED  BY <1>7, <1>8, <1>10 DEF Orderly, InstallerAlone

LEMMA ClosingOrderly == ASSUME IInv, Blameless, NEW w \in Windows, Close(w) \/ Kill(w) PROVE Blameless'
<1>1. /\ Shapes /\ UNCHANGED <<reg, rules, netsh>> /\ win' = [win EXCEPT ![w] = Closed]
      /\ outdated' = outdated \ {w}
  BY DEF IInv, Close, Kill
<1>2. Moves(w, Closed)
  BY <1>1, Moved
<1>3. CASE Kill(w)
  BY <1>3, Blamed DEF Kill
<1>4. CASE Close(w) /\ Retry(w)
  BY <1>4, Blamed DEF Close
<1>5. CASE Close(w) /\ ~Retry(w)
  <2>1. w \in Idle /\ Blame({})
    BY <1>5 DEF Close
  <2>2. SUFFICES ASSUME Orderly PROVE Orderly'
    BY <2>1, Blamed
  <2>3. w \notin Pending /\ w \notin Busy /\ Busy \subseteq Pending /\ Pending \subseteq Windows
    BY <1>5, <2>1, PendingAre DEF Retry, Idle, Busy, Pending, Opened
  <2>4. Pending' = Pending /\ Busy' = Busy /\ \A v \in Windows \ {w} : win'[v] = win[v]
    <3>1. Pending' = Pending
      BY <1>1, <1>2, <2>3, PendingClosed
    <3>2. Busy' = Busy
      BY <1>1, <1>2, <2>3, PlacesClosed
    <3> QED  BY <1>2, <3>1, <3>2 DEF Moves
  <2>5. InstallerAlone'
    BY <1>1, <2>2, <2>4 DEF Orderly, InstallerAlone, RulesAt, ValidPort
  <2>6. ASSUME NEW v \in Busy PROVE AtWorkAlone(v)'
    <3>1. v \in Windows \ {w} /\ AtWorkAlone(v)
      BY <2>2, <2>3 DEF Orderly
    <3>2. Past(v)' = Past(v) /\ win'[v] = win[v]
      BY <2>4, <3>1 DEF Past
    <3> QED  BY <1>1, <2>3, <2>4, <3>1, <3>2 DEF AtWorkAlone
  <2>7. ASSUME NEW v \in Pending \ outdated' PROVE KnowsRules(v)'
    <3>1. v \in Windows \ {w} /\ KnowsRules(v)
      BY <1>1, <2>2, <2>3 DEF Orderly
    <3> QED  BY <1>1, <2>4, <3>1, StillKnows
  <2>8. Pending' = {} /\ netsh' = <<>> => RulesAt(reg.port)'
    BY <1>1, <2>2, <2>4 DEF Orderly, RulesAt, ValidPort
  <2> QED  BY <2>4, <2>5, <2>6, <2>7, <2>8 DEF Orderly
<1> QED  BY <1>3, <1>4, <1>5

(* The commands of an installer that begins alone.                         *)
LEMMA BegunWith ==
    /\ \A i \in 1 .. Len(DeleteBoth) : DeleteBoth[i].port = None
    /\ \A port : \A i \in 1 .. Len(DeleteBoth \o AddBoth(port)) :
         (DeleteBoth \o AddBoth(port))[i].port \in {None, port}
BY DEF DeleteBoth, AddBoth, Delete, Add

LEMMA InstallerOrderly == ASSUME IInv, Blameless, Installer PROVE Blameless'
<1>1. Shapes /\ Rounds /\ UNCHANGED <<reg, win, outdated>>
  BY InstallerShapes DEF IInv
<1>2. Pending' = Pending /\ Busy' = Busy /\ Busy \subseteq Pending
  BY <1>1 DEF Pending, Retry, Busy, Idle, Opened
(* It suffices that it is alone still, with the rules at its port.         *)
<1>3. ASSUME Pending = {}, RulesAt(reg.port)',
             ValidPort(reg.port) => \A i \in 1 .. Len(netsh') : netsh'[i].port \in {None, reg.port}
      PROVE  Orderly'
  BY <1>1, <1>2, <1>3 DEF Orderly, InstallerAlone, ValidPort
<1>4. ASSUME NEW commands, Configure(commands),
             ValidPort(reg.port) => \A i \in 1 .. Len(commands) : commands[i].port \in {None, reg.port}
      PROVE  Blameless'
  <2>1. Blame(IF Quiet THEN {} ELSE {"overlap"}) /\ netsh' = commands /\ rules' = rules
    BY <1>4 DEF Configure
  <2>2. ASSUME Quiet, Orderly PROVE Orderly'
    <3>1. Pending = {} /\ RulesAt(reg.port)
      BY <2>2, QuietIs DEF Orderly
    <3>2. RulesAt(reg.port)'
      BY <1>1, <2>1, <3>1 DEF RulesAt, ValidPort
    <3> QED  BY <1>3, <1>4, <2>1, <3>1, <3>2
  <2> QED  BY <2>1, <2>2, Blamed
<1>5. CASE EnableFirewall
  <2> DEFINE port == IF ValidPort(reg.port) THEN reg.port ELSE Standard
  <2>1. ValidPort(reg.port) => \A i \in 1 .. Len(DeleteBoth \o AddBoth(port)) :
          (DeleteBoth \o AddBoth(port))[i].port \in {None, reg.port}
    BY BegunWith
  <2> QED  BY <1>4, <1>5, <2>1 DEF EnableFirewall
<1>6. CASE DisableFirewall
  BY <1>4, <1>6, BegunWith DEF DisableFirewall
<1>7. ASSUME netsh # <<>>, Orderly
      PROVE  /\ Pending = {} /\ RulesAt(reg.port)
             /\ ValidPort(reg.port) => \A i \in 1 .. Len(netsh) : netsh[i].port \in {None, reg.port}
  BY <1>7 DEF Orderly, InstallerAlone
<1>8. CASE KillInstaller
  <2>1. Blame({}) /\ netsh # <<>> /\ netsh' = <<>> /\ rules' = rules
    BY <1>8 DEF KillInstaller
  <2>2. ASSUME Orderly PROVE Orderly'
    <3>1. RulesAt(reg.port)'
      BY <1>1, <1>7, <2>1, <2>2 DEF RulesAt, ValidPort
    <3> QED  BY <1>3, <1>7, <2>1, <2>2, <3>1
  <2> QED  BY <2>1, <2>2, Blamed
<1>9. CASE RunNetsh
  <2>1. Blame({}) /\ netsh # <<>>
    BY <1>9 DEF RunNetsh
  <2>2. ASSUME Orderly PROVE Orderly'
    <3>1. /\ Pending = {} /\ RulesAt(reg.port)
          /\ ValidPort(reg.port) => \A i \in 1 .. Len(netsh) : netsh[i].port \in {None, reg.port}
      BY <1>7, <2>1, <2>2
    <3>2. netsh \in Seq(Commands)
      BY <1>1 DEF Shapes
    <3>3. CASE rules' = rules /\ netsh' = DeleteBoth
      <4>1. RulesAt(reg.port)'
        BY <1>1, <3>1, <3>3 DEF RulesAt, ValidPort
      <4> QED  BY <1>3, <3>1, <3>3, <4>1, BegunWith
    <3> DEFINE command == Head(netsh)
    <3>4. CASE rules' = [rules EXCEPT ![command.rule] = command.port] /\ netsh' = Tail(netsh)
      <4>1. 1 \in 1 .. Len(netsh) /\ command = netsh[1]
        BY <2>1, <3>2
      <4>2. ValidPort(reg.port) => command.port \in {None, reg.port}
        BY <3>1, <4>1
      <4>3. RulesAt(reg.port)'
        BY <1>1, <3>1, <3>4, <4>2 DEF RulesAt, ValidPort, Shapes
      <4>4. \A i \in 1 .. Len(netsh') : i + 1 \in 1 .. Len(netsh) /\ netsh'[i] = netsh[i + 1]
        BY <2>1, <3>2, <3>4
      <4>5. ValidPort(reg.port) => \A i \in 1 .. Len(netsh') : netsh'[i].port \in {None, reg.port}
        BY <3>1, <4>4
      <4> QED  BY <1>3, <3>1, <4>3, <4>5
    <3> QED  BY <1>9, <3>3, <3>4 DEF RunNetsh
  <2> QED  BY <2>1, <2>2, Blamed
<1> QED  BY <1>5, <1>6, <1>8, <1>9 DEF Installer

LEMMA NextOrderly == IInv /\ Blameless /\ [Next]_vars => Blameless'
<1> SUFFICES ASSUME IInv, Blameless, [Next]_vars PROVE Blameless'
  OBVIOUS
<1>1. CASE UNCHANGED vars
  BY <1>1, SameOrder DEF vars
<1>2. ASSUME NEW w \in Windows, Window(w) PROVE Blameless'
  BY <1>2, OpenOrderly, ChangeOrderly, ApplyOrderly, WriteValueOrderly, GiveUpOrderly, BeginRulesOrderly,
     UpdateRuleOrderly, SavedOrderly, ClosingOrderly DEF Window, Round
<1> QED  BY <1>1, <1>2, InstallerOrderly DEF Next

(* The firewall's rules open the port of the registry unless something is  *)
(* to blame: the user was warned, left a failed round, killed a program or *)
(* ran two at once (main.cpp:506-547, 762-769; RDPWInst.cpp:1023-1047).    *)
THEOREM RulesFollow == Spec => []PortOpen
<1>1. Blameless => PortOpen
  BY QuietIs, AgreeIs DEF Blameless, Orderly, PortOpen
<1> QED  BY <1>1, FirstIInv, NextIInv, InitialOrder, NextOrderly, PTL DEF Spec
=============================================================================
