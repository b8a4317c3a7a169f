----------------------------- MODULE CncSettings -----------------------------
(***************************************************************************)
(* The settings page of RDP_CnC.exe (src-RDP_CnC/main.cpp), of which any   *)
(* number of windows may be open, and configureFirewall of RDPWInst.exe:   *)
(* they share the registry's settings and the wrapper's two firewall       *)
(* rules, and nothing locks either.  A message box only delays the step    *)
(* that follows it, so it is no step of its own.                           *)
(***************************************************************************)
EXTENDS Integers, Sequences, FiniteSets

CONSTANTS
    Windows,
    Choices,      \* what the user may set the controls to
    Stored,       \* what the registry may hold at first
    Budgets       \* bounds: windows open at once, and the rounds, installer runs and
                  \* failures of one behaviour

(* The port is what the user typed, or any number; the mode and the kind   *)
(* of shadowing come from lists.  The registry may hold any numbers.       *)
Controls == [port : Int, nla : 0 .. 2, shadow : 0 .. 4]
Values   == [port : Int, layer : Int, auth : Int, shadow : Int, policy : Int]

ASSUME ControlsAssumption == Choices \subseteq Controls
ASSUME StoredAssumption   == Stored \subseteq Values
ASSUME SettingsBounds == Budgets \subseteq [windows : Nat, rounds : Nat, installs : Nat, faults : Nat]

(* The order of writeSettings; "policy" is the second place that Shadow is *)
(* written to, and "shadow" stands for the four checkboxes too.            *)
Order == <<"port", "layer", "auth", "shadow", "policy">>
RuleOrder == <<"tcp", "udp">>
Fields == {Order[i] : i \in DOMAIN Order}
Rules  == {"tcp", "udp"}
None   == -1      \* no such rule
Standard == 3389
MaxPort  == 65535

VARIABLES
    reg,          \* the values in the registry
    rules,        \* the local port of each rule, or None
    win,          \* the state of each window
    netsh,        \* the netsh commands the installer has still to run
    \* history and bounds
    outdated,     \* open windows behind whose back another wrote a value
    blame,        \* why the rules may differ from the registry
    budget        \* what is left of it

vars == <<reg, rules, win, netsh, outdated, blame, budget>>

(* Bounded choices: a failure, a round or an installer run costs one.      *)
Spend(what) == budget[what] > 0 /\ budget' = [budget EXCEPT ![what] = @ - 1]
Fails == Spend("faults")
Works == UNCHANGED budget

Clamp(n, low, high) == IF n < low THEN low ELSE IF n > high THEN high ELSE n
ValidPort(n) == n \in 1 .. MaxPort

-----------------------------------------------------------------------------
(* A window has a place to be, pc: "idle", or in a round "write" or        *)
(* "rules" with the next value or rule in at; what its controls show,      *)
(* which is g_settings during a round; savedPort, all that is used of      *)
(* g_saved; and whether Apply is enabled.  Its history: the values its     *)
(* last round was refused, and whether the controls show what that round   *)
(* was about.                                                              *)

Closed == [pc |-> "closed"]

Opened == {w \in Windows : win[w] # Closed}
Busy   == {w \in Opened : win[w].pc # "idle"}
Idle   == Opened \ Busy
Retry(w) == w \in Idle /\ win[w].refused # {}

(* History.  The rules agree with the registry if those there are open its *)
(* port.  They may stop agreeing through what blame names: a "warning" the *)
(* user was given, a failed round that was "abandoned", one that was       *)
(* "killed", a "stale" window, or an "overlap" of two at work, as who has  *)
(* a failed round to repeat still is.                                      *)

Agree == ValidPort(reg.port) => \A r \in Rules : rules[r] \in {None, reg.port}

Quiet == Busy = {} /\ netsh = <<>> /\ \A w \in Windows : ~Retry(w)

Blame(why) == blame' = IF (Quiet /\ Agree)' THEN {} ELSE blame \cup why

-----------------------------------------------------------------------------
(* The window.                                                             *)

(* readSettings; a value that is absent has what the registry model gives. *)
NlaOf(layer, auth) ==
    CASE layer = 2 /\ auth = 1 -> 2
      [] layer = 1             -> 1
      [] OTHER                 -> 0

ReadSettings == [port |-> reg.port, nla |-> NlaOf(reg.layer, reg.auth), shadow |-> reg.shadow]

(* What wWinMain makes of them in the controls.                            *)
Shown(s) == [s EXCEPT !.port = Clamp(@, 1, MaxPort), !.shadow = Clamp(@, 0, 4)]

(* The values writeSettings and setDword make of g_settings.               *)
Encoded(s) == [port |-> Clamp(s.port, 1, MaxPort),
               layer |-> s.nla, auth |-> IF s.nla = 2 THEN 1 ELSE 0,
               shadow |-> Clamp(s.shadow, 0, 4), policy |-> Clamp(s.shadow, 0, 4)]

Open(w) ==
    /\ w \notin Opened /\ Cardinality(Opened) < budget.windows
    /\ win' = [win EXCEPT ![w] =
         [pc |-> "idle", at |-> 1, shown |-> Shown(ReadSettings), savedPort |-> reg.port,
          apply |-> FALSE, refused |-> {}, tried |-> FALSE]]
    /\ UNCHANGED <<reg, rules, netsh, outdated, blame, budget>>

(* Any notification of a control enables Apply, whatever it now shows,     *)
(* which may be what it showed before.                                     *)
Change(w) ==
    /\ w \in Idle /\ budget.rounds > 0
    /\ \E c \in Choices \cup {win[w].shown} :
         win' = [win EXCEPT ![w].shown = c, ![w].apply = TRUE, ![w].tried = FALSE]
    /\ UNCHANGED <<reg, rules, netsh, outdated, blame, budget>>

(* The Apply button.  With a port that is not valid it only copies the     *)
(* checkboxes, as the next round does again.                               *)
Apply(w) ==
    /\ w \in Idle
    /\ win[w].apply /\ ValidPort(win[w].shown.port)
    /\ Spend("rounds")
    /\ win' = [win EXCEPT ![w].pc = "write", ![w].refused = {}, ![w].tried = TRUE]
    /\ UNCHANGED <<reg, rules, netsh, outdated>>
    /\ Blame((IF w \in outdated THEN {"stale"} ELSE {})
             \cup (IF Busy # {} \/ netsh # <<>> THEN {"overlap"} ELSE {}))

(* One setDword of writeSettings; all are made, whatever becomes of them.  *)
Written(f, w) ==
    /\ reg' = [reg EXCEPT ![f] = Encoded(win[w].shown)[f]]
    /\ outdated' = outdated \cup (Opened \ {w})
    /\ Works

WriteValue_StopAtFailure(w) ==
    /\ win[w].pc = "write" /\ win[w].at <= Len(Order)
    /\ LET f == Order[win[w].at]
       IN  \/ Written(f, w) /\ win' = [win EXCEPT ![w].at = @ + 1]
           \/ /\ Fails
              /\ win' = [win EXCEPT ![w].at = Len(Order) + 1, ![w].refused = @ \cup {f}]
              /\ UNCHANGED <<reg, outdated>>
    /\ UNCHANGED <<rules, netsh, blame>>

WriteValue(w) ==
    /\ win[w].pc = "write" /\ win[w].at <= Len(Order)
    /\ LET f == Order[win[w].at]
       IN  \/ Written(f, w) /\ win' = [win EXCEPT ![w].at = @ + 1]
           \/ /\ Fails
              /\ win' = [win EXCEPT ![w].at = @ + 1, ![w].refused = @ \cup {f}]
              /\ UNCHANGED <<reg, outdated>>
    /\ UNCHANGED <<rules, netsh, blame>>

WritesDone(w) == win[w].pc = "write" /\ win[w].at > Len(Order)

(* The rest of writeSettings, if one of the writes failed ...              *)
GiveUp_SavedAnyway(w) ==
    /\ WritesDone(w) /\ win[w].refused # {}
    /\ win' = [win EXCEPT ![w].pc = "idle", ![w].at = 1, ![w].savedPort = win[w].shown.port]
    /\ UNCHANGED <<reg, rules, netsh, outdated, blame, budget>>

GiveUp_NothingLeft(w) ==
    /\ WritesDone(w) /\ win[w].refused # {}
    /\ win' = [win EXCEPT ![w].pc = "idle", ![w].at = 1, ![w].apply = FALSE]
    /\ UNCHANGED <<reg, rules, netsh, outdated, blame, budget>>

GiveUp(w) ==
    /\ WritesDone(w) /\ win[w].refused # {}
    /\ win' = [win EXCEPT ![w].pc = "idle", ![w].at = 1]
    /\ UNCHANGED <<reg, rules, netsh, outdated, blame, budget>>

(* ... if none did and the port is a new one ...                           *)
NewPort(w) == win[w].savedPort # win[w].shown.port

BeginRules_AfterFailure(w) ==
    /\ WritesDone(w) /\ NewPort(w)
    /\ win' = [win EXCEPT ![w].pc = "rules", ![w].at = 1]
    /\ UNCHANGED <<reg, rules, netsh, outdated, blame, budget>>

BeginRules(w) ==
    /\ WritesDone(w) /\ win[w].refused = {} /\ NewPort(w)
    /\ win' = [win EXCEPT ![w].pc = "rules", ![w].at = 1]
    /\ UNCHANGED <<reg, rules, netsh, outdated, blame, budget>>

(* updateWrapperFirewallPort: both rules are tried; one that is missing    *)
(* counts as a failure, for which there is a warning.                      *)
UpdateRule(w) ==
    /\ win[w].pc = "rules" /\ win[w].at <= Len(RuleOrder)
    /\ win' = [win EXCEPT ![w].at = @ + 1]
    /\ LET r == RuleOrder[win[w].at]
       IN  \/ /\ rules[r] # None /\ Works
              /\ rules' = [rules EXCEPT ![r] = win[w].shown.port]
              /\ UNCHANGED blame
           \/ /\ \/ rules[r] = None /\ Works
                 \/ rules[r] # None /\ Fails
              /\ blame' = blame \cup {"warning"}
              /\ UNCHANGED rules
    /\ UNCHANGED <<reg, netsh, outdated>>

(* ... and at the end g_saved = g_settings, with Apply disabled.           *)
Saved(w) ==
    /\ \/ WritesDone(w) /\ win[w].refused = {} /\ ~NewPort(w)
       \/ win[w].pc = "rules" /\ win[w].at > Len(RuleOrder)
    /\ win' = [win EXCEPT ![w].pc = "idle", ![w].at = 1, ![w].apply = FALSE,
                          ![w].savedPort = win[w].shown.port]
    /\ outdated' = IF reg = Encoded(win[w].shown) THEN outdated \ {w} ELSE outdated
    /\ UNCHANGED <<reg, rules, netsh, budget>>
    /\ Blame({})

(* WM_CLOSE, confirmed if Apply is enabled; or the process is ended from   *)
(* outside, in the middle of a round too.                                  *)
Close(w) ==
    /\ w \in Idle
    /\ win' = [win EXCEPT ![w] = Closed]
    /\ outdated' = outdated \ {w}
    /\ UNCHANGED <<reg, rules, netsh, budget>>
    /\ Blame(IF Retry(w) THEN {"abandoned"} ELSE {})

Kill(w) ==
    /\ w \in Busy
    /\ win' = [win EXCEPT ![w] = Closed]
    /\ outdated' = outdated \ {w}
    /\ UNCHANGED <<reg, rules, netsh, budget>>
    /\ Blame({"killed"})

-----------------------------------------------------------------------------
(* configureFirewall of the installer.                                     *)

Delete(r)    == [does |-> "delete", rule |-> r, port |-> None]
Add(r, port) == [does |-> "add", rule |-> r, port |-> port]

DeleteBoth    == <<Delete("tcp"), Delete("udp")>>
AddBoth(port) == <<Add("tcp", port), Add("udp", port)>>

Configure(commands) ==
    /\ netsh = <<>>
    /\ Spend("installs")
    /\ netsh' = commands
    /\ UNCHANGED <<reg, rules, win, outdated>>
    /\ Blame(IF Quiet THEN {} ELSE {"overlap"})

(* -i reads the port once, before the commands.                            *)
EnableFirewall ==
    Configure(DeleteBoth \o AddBoth(IF ValidPort(reg.port) THEN reg.port ELSE Standard))

DisableFirewall == Configure(DeleteBoth)

(* An add that fails is undone, with the other.                            *)
RunNetsh ==
    /\ netsh # <<>>
    /\ LET command == Head(netsh)
       IN  \/ /\ Works
              /\ rules' = [rules EXCEPT ![command.rule] = command.port]
              /\ netsh' = Tail(netsh)
           \/ /\ command.does = "add" /\ Fails
              /\ netsh' = DeleteBoth
              /\ UNCHANGED rules
    /\ UNCHANGED <<reg, win, outdated>>
    /\ Blame({})

KillInstaller ==
    /\ netsh # <<>>
    /\ netsh' = <<>>
    /\ UNCHANGED <<reg, rules, win, outdated, budget>>
    /\ Blame({})

-----------------------------------------------------------------------------

Init ==
    /\ reg \in Stored
    /\ \E port \in {None, IF ValidPort(reg.port) THEN reg.port ELSE Standard} :
         rules = [r \in Rules |-> port]
    /\ win = [w \in Windows |-> Closed]
    /\ netsh = <<>>
    /\ outdated = {} /\ blame = {}
    /\ budget \in Budgets

Round(w) == WriteValue(w) \/ GiveUp(w) \/ BeginRules(w) \/ UpdateRule(w) \/ Saved(w)

Window(w) == Open(w) \/ Change(w) \/ Apply(w) \/ Round(w) \/ Close(w) \/ Kill(w)

Installer == EnableFirewall \/ DisableFirewall \/ RunNetsh \/ KillInstaller

Next == Installer \/ \E w \in Windows : Window(w)

Spec == Init /\ [][Next]_vars

-----------------------------------------------------------------------------
(* Properties.                                                             *)

(* The shapes; a window changes the registry only in a round, and Apply    *)
(* stays enabled as long as it lasts (main.cpp:745-772, 927-949).          *)
TypeOK ==
    /\ DOMAIN reg = Fields
    /\ DOMAIN rules = Rules /\ \A r \in Rules : rules[r] = None \/ ValidPort(rules[r])
    /\ \A w \in Opened :
         /\ win[w].pc \in {"idle", "write", "rules"}
         /\ win[w].at \in 1 .. Len(Order) + 1
         /\ win[w].refused \subseteq Fields
         /\ w \in Busy => win[w].apply /\ win[w].tried
         /\ win[w].pc = "rules" => win[w].refused = {}
    /\ outdated \subseteq Opened

(* A window that offers nothing to apply shows what the registry holds: it *)
(* never hides a value it could not write, and reading back the values an  *)
(* authentication mode was written as gives that mode again.  A second     *)
(* window may have changed them since (main.cpp:719-772, 1172-1183).       *)
ShownIsSaved == \A w \in Idle \ outdated :
    ~win[w].apply => win[w].shown = Shown(ReadSettings) /\ win[w].refused = {}

(* A value that cannot be written keeps none of the others from being      *)
(* written: all that differs after a round are those the user was shown an *)
(* error for (main.cpp:745-760).                                           *)
OthersWritten == \A w \in Idle \ outdated :
    win[w].tried => \A f \in Fields \ win[w].refused : reg[f] = Encoded(win[w].shown)[f]

(* The wrapper's rules open the port of the registry, whatever rounds      *)
(* succeeded or failed and were repeated, before or after an -i or a -u,   *)
(* unless the user was warned, left or killed a failed round, or two       *)
(* programs worked at once or on what the other had changed                *)
(* (main.cpp:506-547, 762-769; RDPWInst.cpp:1023-1047).                    *)
PortOpen == Quiet /\ blame = {} => Agree

=============================================================================
