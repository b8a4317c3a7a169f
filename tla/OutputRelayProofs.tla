------------------------- MODULE OutputRelayProofs -------------------------
(***************************************************************************)
(* What the launcher shows of its child's output, and when it ends, for    *)
(* any length of the output, sizes of the pipe and of a read, and faults;  *)
(* then what its child reads from its command line, for any arguments.     *)
(***************************************************************************)
EXTENDS OutputRelay, SequenceLemmas

(* How far launcher and child are together, and where the pipe's ends are. *)
Stages ==
    /\ at \in {"create", "launch"} => child = "none"
    /\ at = "create" => server = "none"
    /\ at \in {"connect", "pending", "read", "close"} => server = "open"
    /\ child \in {"none", "starting"} => client = "none" /\ out = "nowhere" /\ printed = 0
    /\ client = "closed" => child = "ended"

(* What is pending is the first half of the character under way, if any.   *)
HalfPending == pending = IF got % 2 = 0 THEN <<>> ELSE <<got>>

(* As long as nothing has failed, the text goes through the pipe, the      *)
(* child ends when all of it is read, the launcher only after the child,   *)
(* and every character read has been shown.                                *)
Unfailing ==
    /\ at = "launch" => server = "open"
    /\ at # "killed"
    /\ at \in {"close", "await", "exited"} => child = "ended"
    /\ child \in {"runs", "flushes", "ended"} => out = "pipe"
    /\ printed = sent
    /\ child \in {"flushes", "ended"} => printed % 2 = 0
    /\ child = "ended" => sent = got
    /\ Len(shown) = got \div 2

Forwarding == faults = 0 => Unfailing

(* Base, HalfPending and Faithful are inductive together; ExitFollowsChild *)
(* is with TypeOK, and Forwarding with all of them.                        *)
Base == TypeOK /\ Stages

-----------------------------------------------------------------------------
(* Reading from the pipe.                                                  *)

(* A function on the first numbers is a sequence.                          *)
LEMMA SeqOfFunction ==
    ASSUME NEW S, NEW n \in Nat, NEW f \in [1 .. n -> S]
    PROVE  f \in Seq(S) /\ Len(f) = n
OBVIOUS

(* The two facts of arithmetic the steps below take by themselves.         *)
LEMMA Ordered ==
    ASSUME NEW x \in Int, NEW y \in Int
    PROVE  x <= y \/ x > y
OBVIOUS

LEMMA NextBelow ==
    ASSUME NEW x \in Nat, NEW y \in Nat, NEW z \in Nat, x + 1 <= y, y <= z
    PROVE  x + 1 <= z
OBVIOUS

(* An odd number and the next are whole pairs below a bound.               *)
LEMMA OddBelow ==
    ASSUME NEW x \in Nat, NEW y \in Nat, (x % 2) = 1, x + 1 <= y
    PROVE  x < 2 * (y \div 2)
OBVIOUS

(* With what was pending, a read gives the bytes from the next whole       *)
(* character on.                                                           *)
LEMMA BytesRead ==
    ASSUME NEW n \in Nat, got \in Nat, HalfPending
    PROVE  LET bytes == pending \o [i \in 1 .. n |-> got + i]
           IN  /\ bytes \in Seq(Nat) /\ Len(bytes) = (got % 2) + n
               /\ \A i \in 1 .. Len(bytes) : bytes[i] = 2 * (got \div 2) + i
<1> DEFINE more == [i \in 1 .. n |-> got + i]
<1>1. more \in Seq(Nat) /\ Len(more) = n /\ \A i \in 1 .. n : more[i] = got + i
  OBVIOUS
<1>2. pending \in Seq(Nat) /\ Len(pending) = got % 2
      /\ (Len(pending) = 1 => pending[1] = got) /\ (got % 2) \in 0 .. 1
  BY DEF HalfPending
<1>3. 2 * (got \div 2) = got - (got % 2)
  OBVIOUS
<1> HIDE DEF more
<1>4. /\ pending \o more \in Seq(Nat)
      /\ Len(pending \o more) = Len(pending) + Len(more)
      /\ \A i \in 1 .. Len(pending) + Len(more) :
            (pending \o more)[i] = IF i <= Len(pending) THEN pending[i] ELSE more[i - Len(pending)]
  BY <1>1, <1>2, ConcatProperties
<1>5. ASSUME NEW i \in 1 .. Len(pending) + Len(more)
      PROVE  (pending \o more)[i] = 2 * (got \div 2) + i
  <2>1. CASE i <= Len(pending)
    <3>1. i = 1 /\ Len(pending) = 1
      BY <1>2, <2>1
    <3>2. (pending \o more)[i] = pending[i]
      BY <1>4, <2>1
    <3>3. (got % 2) = 1
      BY <1>2, <3>1
    <3>4. 2 * (got \div 2) + 1 = got
      BY <3>3
    <3> QED  BY <1>2, <3>1, <3>2, <3>4
  <2>2. CASE i > Len(pending)
    <3>1. i - Len(pending) \in 1 .. n
      BY <1>1, <1>2, <2>2
    <3>2. (pending \o more)[i] = more[i - Len(pending)]
      BY <1>2, <1>4, <2>2
    <3>3. more[i - Len(pending)] = got + (i - Len(pending))
      BY <1>1, <3>1
    <3> QED  BY <1>1, <1>2, <1>3, <3>2, <3>3
  <2> QED  BY <1>1, <1>2, <2>1, <2>2
<1> QED  BY <1>1, <1>2, <1>4, <1>5 DEF more

(* Bytes from a whole character on make the characters that follow, and    *)
(* what is left is the first half of one.                                  *)
LEMMA PairsMade ==
    ASSUME NEW bytes \in Seq(Nat), NEW b \in Nat, \A i \in 1 .. Len(bytes) : bytes[i] = 2 * b + i
    PROVE  /\ Characters(bytes) \in Seq(Nat \X Nat)
           /\ Len(Characters(bytes)) = Len(bytes) \div 2
           /\ \A i \in 1 .. Len(bytes) \div 2 :
                 Characters(bytes)[i] = <<2 * (b + i) - 1, 2 * (b + i)>>
           /\ Rest(bytes) = IF Len(bytes) % 2 = 0 THEN <<>> ELSE <<2 * b + Len(bytes)>>
<1> DEFINE l == Len(bytes)
           h == l \div 2
<1>1. l \in Nat /\ h \in Nat /\ (l = 2 * h \/ l = 2 * h + 1)
  OBVIOUS
<1>2. ASSUME NEW i \in 1 .. h
      PROVE  bytes[2 * i - 1] = 2 * (b + i) - 1 /\ bytes[2 * i] = 2 * (b + i)
             /\ 2 * (b + i) - 1 \in Nat /\ 2 * (b + i) \in Nat
  <2>1. 2 * i - 1 \in 1 .. l /\ 2 * i \in 1 .. l
    BY <1>1
  <2>2. bytes[2 * i - 1] = 2 * b + (2 * i - 1) /\ bytes[2 * i] = 2 * b + 2 * i
    BY <2>1
  <2> QED  BY <2>2
<1>3. Characters(bytes) = [i \in 1 .. h |-> <<bytes[2 * i - 1], bytes[2 * i]>>]
  BY DEF Characters
<1>4. \A i \in 1 .. h : Characters(bytes)[i] = <<2 * (b + i) - 1, 2 * (b + i)>>
  BY <1>2, <1>3
<1>5. \A i \in 1 .. h : <<bytes[2 * i - 1], bytes[2 * i]>> \in Nat \X Nat
  BY <1>2
<1>6. Characters(bytes) \in Seq(Nat \X Nat) /\ Len(Characters(bytes)) = h
  <2>1. Characters(bytes) \in [1 .. h -> Nat \X Nat]
    BY <1>3, <1>5
  <2> QED  BY <1>1, <2>1, SeqOfFunction
<1>7. CASE l = 2 * h
  <2>1. (l % 2) = 0 /\ l < 2 * h + 1
    BY <1>1, <1>7
  <2>2. Rest(bytes) = <<>>
    BY <1>1, <2>1, SubSeqEmpty DEF Rest
  <2> QED  BY <1>4, <1>6, <2>1, <2>2
<1>8. CASE l = 2 * h + 1
  <2>1. (l % 2) # 0 /\ l \in 1 .. l /\ bytes[l] = 2 * b + l
    BY <1>1, <1>8
  <2>2. \A i \in l .. l : bytes[i] \in Nat
    BY <1>1, <2>1
  <2>3. /\ SubSeq(bytes, l, l) \in Seq(Nat) /\ Len(SubSeq(bytes, l, l)) = 1
        /\ SubSeq(bytes, l, l)[1] = bytes[l]
    BY <1>1, <2>2, SubSeqProperties
  <2>4. <<bytes[l]>> \in Seq(Nat) /\ Len(<<bytes[l]>>) = 1 /\ <<bytes[l]>>[1] = bytes[l]
    BY <2>2
  <2>5. SubSeq(bytes, l, l) = <<bytes[l]>>
    <3>1. \A i \in 1 .. Len(SubSeq(bytes, l, l)) : SubSeq(bytes, l, l)[i] = <<bytes[l]>>[i]
      BY <2>3, <2>4
    <3>2. Len(SubSeq(bytes, l, l)) = Len(<<bytes[l]>>)
      BY <2>3, <2>4
    <3> HIDE DEF l
    <3> QED  BY <2>3, <2>4, <3>1, <3>2, SeqEqual, Zenon
  <2>6. Rest(bytes) = <<2 * b + l>>
    BY <1>8, <2>1, <2>5 DEF Rest
  <2> QED  BY <1>4, <1>6, <2>1, <2>6
<1> QED  BY <1>1, <1>7, <1>8

(* Showing some of the characters that follow keeps what is shown faithful.*)
LEMMA ShownExtended ==
    ASSUME shown \in Seq(Nat \X Nat), Faithful, got \in Nat, got' \in Nat, got <= got',
           NEW part \in Seq(Nat \X Nat), NEW b \in Nat, b = got \div 2,
           \A i \in 1 .. Len(part) : part[i] = <<2 * (b + i) - 1, 2 * (b + i)>>,
           2 * (b + Len(part)) <= got', shown' = shown \o part
    PROVE  /\ shown' \in Seq(Nat \X Nat) /\ Len(shown') = Len(shown) + Len(part)
           /\ Faithful'
<1> DEFINE n == Len(shown)
<1>1. /\ shown' \in Seq(Nat \X Nat) /\ Len(shown') = n + Len(part)
      /\ \A k \in 1 .. n + Len(part) : shown'[k] = IF k <= n THEN shown[k] ELSE part[k - n]
  BY ConcatProperties
<1>2. n \in Nat /\ Len(part) \in Nat /\ DOMAIN shown = 1 .. n /\ DOMAIN shown' = 1 .. n + Len(part)
  BY <1>1
<1>3. ASSUME NEW k \in 1 .. n
      PROVE  /\ shown'[k] = shown[k] /\ shown[k][1] \in Nat /\ shown[k][2] = shown[k][1] + 1
             /\ (shown[k][1] % 2) = 1 /\ shown[k][1] + 1 <= got /\ shown[k][1] < 2 * b
  <2>1. shown[k] \in Nat \X Nat /\ k \in 1 .. n + Len(part)
    BY <1>2
  <2>2. shown'[k] = shown[k]
    BY <1>1, <1>2, <2>1
  <2>3. shown[k][1] \in Nat
    BY <2>1
  <2>4. (shown[k][1] % 2) = 1 /\ shown[k][2] = shown[k][1] + 1 /\ shown[k][2] <= got
    BY <1>2 DEF Faithful
  <2>5. shown[k][1] < 2 * b
    BY <2>3, <2>4, OddBelow
  <2> QED  BY <2>2, <2>3, <2>4, <2>5
<1>4. ASSUME NEW k \in 1 .. n + Len(part), k > n
      PROVE  /\ shown'[k][1] = 2 * (b + (k - n)) - 1 /\ shown'[k][2] = 2 * (b + (k - n))
             /\ 2 * (b + (k - n)) <= got'
  <2>1. k - n \in 1 .. Len(part)
    BY <1>2, <1>4
  <2>2. shown'[k] = <<2 * (b + (k - n)) - 1, 2 * (b + (k - n))>>
    <3>1. shown'[k] = part[k - n]
      BY <1>1, <1>2, <1>4
    <3> QED  BY <2>1, <3>1
  <2> QED  BY <1>2, <2>1, <2>2
<1>5. ASSUME NEW k \in 1 .. n + Len(part)
      PROVE  (shown'[k][1] % 2) = 1 /\ shown'[k][2] = shown'[k][1] + 1 /\ shown'[k][2] <= got'
  <2>1. CASE k <= n
    <3>1. k \in 1 .. n
      BY <1>2, <1>5, <2>1
    <3>2. /\ shown'[k] = shown[k] /\ shown[k][1] \in Nat /\ shown[k][2] = shown[k][1] + 1
          /\ (shown[k][1] % 2) = 1 /\ shown[k][1] + 1 <= got
      BY <1>3, <3>1
    <3>3. shown[k][1] + 1 <= got'
      BY <3>2, NextBelow, Zenon
    <3> QED  BY <3>2, <3>3
  <2>2. CASE k > n
    <3>1. k - n \in Nat
      BY <1>2, <1>5, <2>2
    <3>2. \A x \in Nat : ((2 * x - 1) % 2) = 1
      OBVIOUS
    <3>3. b + (k - n) \in Nat
      BY <3>1
    <3>4. /\ shown'[k][1] = 2 * (b + (k - n)) - 1 /\ shown'[k][2] = 2 * (b + (k - n))
          /\ 2 * (b + (k - n)) <= got'
      BY <1>2, <1>4, <1>5, <2>2
    <3>5. ((2 * (b + (k - n)) - 1) % 2) = 1
      BY <3>2, <3>3
    <3> QED  BY <3>3, <3>4, <3>5
  <2>3. k <= n \/ k > n
    BY <1>2, <1>5
  <2> QED  BY <2>1, <2>2, <2>3
<1>6. ASSUME NEW j \in 1 .. n + Len(part), NEW k \in 1 .. n + Len(part), j < k
      PROVE  shown'[j][1] < shown'[k][1]
  <2>1. CASE k <= n
    <3>1. j \in 1 .. n /\ k \in 1 .. n
      BY <1>2, <1>6, <2>1
    <3>2. shown[j][1] < shown[k][1]
      BY <1>2, <1>6, <3>1 DEF Faithful
    <3> QED  BY <1>3, <3>1, <3>2
  <2>2. CASE j <= n /\ k > n
    <3>1. shown'[j][1] = shown[j][1] /\ shown[j][1] \in Nat /\ shown[j][1] < 2 * b
      BY <1>2, <1>3, <2>2
    <3>2. shown'[k][1] = 2 * (b + (k - n)) - 1
      BY <1>2, <1>4, <1>6, <2>2
    <3>3. k - n \in Nat /\ k - n >= 1
      BY <1>2, <1>6, <2>2
    <3>4. \A x, d \in Nat : x < 2 * b /\ d >= 1 => x < 2 * (b + d) - 1
      OBVIOUS
    <3>5. shown[j][1] < 2 * (b + (k - n)) - 1
      BY <3>1, <3>3, <3>4
    <3> QED  BY <3>1, <3>2, <3>5
  <2>3. CASE j > n
    <3>1. j \in Nat /\ k \in Nat /\ k > n
      BY <1>2, <1>6, <2>3
    <3>2. /\ shown'[k][1] = 2 * (b + (k - n)) - 1
          /\ shown'[j][1] = 2 * (b + (j - n)) - 1
      BY <1>2, <1>4, <1>6, <2>3, <3>1
    <3> QED  BY <1>2, <1>6, <3>1, <3>2
  <2>4. j \in Int /\ k \in Int /\ n \in Int
    BY <1>2, <1>6
  <2>5. (k <= n \/ k > n) /\ (j <= n \/ j > n)
    BY <2>4, Ordered, Zenon
  <2> QED  BY <2>1, <2>2, <2>3, <2>5
<1> QED  BY <1>1, <1>2, <1>5, <1>6 DEF Faithful

(* What a read does to the numbers of bytes and of characters.             *)
LEMMA ReadCounts ==
    ASSUME NEW g \in Nat, NEW n \in Nat
    PROVE  LET l == (g % 2) + n
           IN  /\ l \in Nat /\ g \div 2 \in Nat /\ l \div 2 \in Nat
               /\ (g + n) \div 2 = (g \div 2) + (l \div 2)
               /\ ((g + n) % 2) = (l % 2) /\ g + n = 2 * (g \div 2) + l
               /\ 2 * ((g \div 2) + (l \div 2)) <= g + n
OBVIOUS

(* A read takes no more than there is, keeps half a character back, and    *)
(* shows the characters that are whole, or fails.                          *)
LEMMA ReadShows ==
    ASSUME TypeOK, HalfPending, Faithful, ReadOutput
    PROVE  /\ got' \in 0 .. sent /\ got <= got' /\ HalfPending'
           /\ shown' \in Seq(Nat \X Nat) /\ Faithful'
           /\ Len(shown) = got \div 2 /\ Works => Len(shown') = got' \div 2
<1>1. got \in Nat /\ sent \in Nat /\ got <= sent /\ shown \in Seq(Nat \X Nat) /\ faults \in Nat
  BY RelayAssumption DEF TypeOK
<1>2. CASE UNCHANGED <<pending, shown, got>>
  BY <1>1, <1>2 DEF HalfPending, Faithful
<1>3. CASE ~ UNCHANGED <<pending, shown, got>>
  <2>1. PICK n \in 1 .. Capacity :
          LET bytes == pending \o [i \in 1 .. n |-> got + i]
          IN  /\ n <= InPipe /\ got' = got + n /\ pending' = Rest(bytes)
              /\ \/ shown' = shown \o Characters(bytes) /\ Works
                 \/ \E m \in 0 .. Len(Characters(bytes)) - 1 :
                      shown' = shown \o SubSeq(Characters(bytes), 1, m) /\ Fails("show")
    BY <1>3 DEF ReadOutput
  <2> DEFINE bytes == pending \o [i \in 1 .. n |-> got + i]
             chars == Characters(bytes)
             b == got \div 2
             l == (got % 2) + n
             h == l \div 2
  <2>0. /\ pending' = Rest(bytes)
        /\ \/ shown' = shown \o chars /\ Works
           \/ \E m \in 0 .. Len(chars) - 1 :
                shown' = shown \o SubSeq(chars, 1, m) /\ Fails("show")
    BY <2>1
  <2>2. n \in Nat /\ n <= sent - got
    BY <1>1, <2>1, RelayAssumption DEF InPipe
  <2>3. /\ bytes \in Seq(Nat) /\ Len(bytes) = l
        /\ \A i \in 1 .. Len(bytes) : bytes[i] = 2 * b + i
    BY <1>1, <2>2, BytesRead
  <2>4. /\ l \in Nat /\ b \in Nat /\ h \in Nat
        /\ (got + n) \div 2 = b + (h)
        /\ ((got + n) % 2) = (l % 2) /\ got + n = 2 * b + l
        /\ 2 * (b + (h)) <= got + n
    BY <1>1, <2>2, ReadCounts
  <2> HIDE DEF b, l
  <2>5. /\ chars \in Seq(Nat \X Nat) /\ Len(chars) = h
        /\ \A i \in 1 .. h : chars[i] = <<2 * (b + i) - 1, 2 * (b + i)>>
        /\ Rest(bytes) = IF l % 2 = 0 THEN <<>> ELSE <<2 * b + l>>
    BY <2>3, <2>4, PairsMade
  <2>6. HalfPending'
    BY <2>0, <2>1, <2>4, <2>5 DEF HalfPending
  <2>7. got' \in 0 .. sent /\ got <= got' /\ got' \in Nat
    BY <1>1, <2>1, <2>2
  <2> HIDE DEF bytes, chars, h
  <2>8. PICK part \in Seq(Nat \X Nat) :
          /\ shown' = shown \o part /\ Len(part) <= h
          /\ \A i \in 1 .. Len(part) : part[i] = <<2 * (b + i) - 1, 2 * (b + i)>>
          /\ Works => Len(part) = h
    <3>1. CASE shown' = shown \o chars
      <4>1. Len(chars) <= h
        BY <2>4, <2>5
      <4> QED  BY <2>5, <3>1, <4>1, Zenon
    <3>2. ASSUME NEW m \in 0 .. Len(chars) - 1, Fails("show"),
                 shown' = shown \o SubSeq(chars, 1, m)
          PROVE  \E part \in Seq(Nat \X Nat) :
                    /\ shown' = shown \o part /\ Len(part) <= h
                    /\ \A i \in 1 .. Len(part) : part[i] = <<2 * (b + i) - 1, 2 * (b + i)>>
                    /\ Works => Len(part) = h
      <4>1. m \in Nat /\ m <= h /\ m <= Len(chars)
        BY <2>4, <2>5, <3>2
      <4>2. \A i \in 1 .. m : chars[i] \in Nat \X Nat
        BY <2>5, <4>1
      <4>3. /\ SubSeq(chars, 1, m) \in Seq(Nat \X Nat)
            /\ Len(SubSeq(chars, 1, m)) = m
            /\ \A i \in 1 .. m : SubSeq(chars, 1, m)[i] = chars[i]
        BY <4>1, <4>2, SubSeqProperties
      <4>4. \A i \in 1 .. m : SubSeq(chars, 1, m)[i] = <<2 * (b + i) - 1, 2 * (b + i)>>
        <5>1. \A i \in 1 .. m : i \in 1 .. h
          BY <2>4, <4>1
        <5> QED  BY <2>5, <4>3, <5>1, Zenon
      <4>5. ~Works
        BY <1>1, <3>2 DEF Fails, Works
      <4>6. Len(SubSeq(chars, 1, m)) <= h
        BY <4>1, <4>3
      <4> QED  BY <3>2, <4>3, <4>4, <4>5, <4>6, Zenon
    <3> QED  BY <2>0, <3>1, <3>2
  <2>9. 2 * (b + Len(part)) <= got'
    BY <2>1, <2>4, <2>8
  <2>10. b = got \div 2
    BY DEF b
  <2>11. /\ shown' \in Seq(Nat \X Nat) /\ Len(shown') = Len(shown) + Len(part)
         /\ Faithful'
    BY <1>1, <2>4, <2>7, <2>8, <2>9, <2>10, ShownExtended
  <2> QED  BY <1>1, <2>1, <2>4, <2>6, <2>7, <2>8, <2>10, <2>11
<1> QED  BY <1>2, <1>3

-----------------------------------------------------------------------------
(* What every step keeps.                                                  *)

(* A call that works or fails keeps the count of faults in its bound.      *)
LEMMA FaultsCounted ==
    ASSUME faults \in 0 .. MaxFaults, NEW kind, Works \/ Fails(kind)
    PROVE  faults' \in 0 .. MaxFaults
BY RelayAssumption DEF Works, Fails

(* Half a character is at most one byte.                                   *)
LEMMA HalfTyped ==
    ASSUME NEW g \in Nat, NEW p, p = IF g % 2 = 0 THEN <<>> ELSE <<g>>
    PROVE  p \in Seq(Nat) /\ Len(p) <= 1
<1>1. <<>> \in Seq(Nat) /\ Len(<<>>) = 0 /\ <<g>> \in Seq(Nat) /\ Len(<<g>>) = 1
  OBVIOUS
<1> QED  BY <1>1

(* When the reading goes on, when it ends, and what it leaves alone.       *)
LEMMA ReadGoesOn ==
    ASSUME ReadOutput
    PROVE  /\ at = "read" /\ UNCHANGED <<server, result, childVars>>
           /\ at' = "read" \/ (at' = "close" /\ (client = "closed" \/ Fails("read")))
           /\ Works \/ Fails("show") \/ Fails("read")
<1>1. CASE at' = at
  BY <1>1 DEF ReadOutput
<1>2. CASE at' # at
  BY <1>2 DEF ReadOutput
<1> QED  BY <1>1, <1>2

LEMMA BaseInit == Init => Base
<1>1. <<>> \in Seq(Nat) /\ Len(<<>>) = 0 /\ <<>> \in Seq(Nat \X Nat)
  OBVIOUS
<1> QED  BY <1>1, RelayAssumption DEF Init, Base, TypeOK, Stages, InPipe, NoCode

LEMMA BaseLauncher == Base /\ HalfPending /\ Faithful /\ Launcher => Base'
<1> SUFFICES ASSUME Base, HalfPending, Faithful, Launcher PROVE Base'
  OBVIOUS
<1> USE DEF Base, TypeOK, Stages, InPipe, launcherVars, childVars, NoCode
<1>1. CASE CreatePipe
  BY <1>1, FaultsCounted, RelayAssumption DEF CreatePipe
<1>2. CASE Launch
  BY <1>2, FaultsCounted, RelayAssumption DEF Launch
<1>3. CASE Connect
  BY <1>3, FaultsCounted, RelayAssumption DEF Connect
<1>4. CASE AwaitClient
  BY <1>4, FaultsCounted, RelayAssumption DEF AwaitClient
<1>5. CASE ReadOutput
  <2>1. /\ got' \in 0 .. sent /\ got <= got' /\ HalfPending' /\ shown' \in Seq(Nat \X Nat)
    BY <1>5, ReadShows
  <2>2. got' \in Nat
    BY <2>1
  <2>3. pending' \in Seq(Nat) /\ Len(pending') <= 1
    BY <2>1, <2>2, HalfTyped DEF HalfPending
  <2>4. at' \in {"read", "close"} /\ UNCHANGED <<server, result, childVars>> /\ at = "read"
    BY <1>5, ReadGoesOn
  <2>5. faults' \in 0 .. MaxFaults
    BY <1>5, ReadGoesOn, FaultsCounted
  <2>6. InPipe' <= PipeSize
    <3>1. server = "open" /\ sent - got <= PipeSize /\ sent \in Int /\ got \in Int
      BY <2>4
    <3>2. server' = "open" /\ sent' = sent
      BY <2>4, <3>1
    <3>3. InPipe' = sent - got'
      BY <3>2
    <3>4. sent - got' <= PipeSize
      <4>1. got' \in Int /\ got <= got' /\ PipeSize \in Int
        BY <2>1, <2>2, RelayAssumption
      <4>2. \A s, g, h, p \in Int : g <= h /\ s - g <= p => s - h <= p
        OBVIOUS
      <4> QED  BY <3>1, <4>1, <4>2, Zenon
    <3> QED  BY <3>3, <3>4, Zenon
  <2> QED  BY <2>1, <2>3, <2>4, <2>5, <2>6
<1>6. CASE ClosePipe
  BY <1>6, FaultsCounted, RelayAssumption DEF ClosePipe
<1>7. CASE AwaitChild
  BY <1>7, FaultsCounted, RelayAssumption DEF AwaitChild
<1> QED  BY <1>1, <1>2, <1>3, <1>4, <1>5, <1>6, <1>7 DEF Launcher

LEMMA BaseChild == Base /\ (Child \/ Killed) => Base'
<1> SUFFICES ASSUME Base, Child \/ Killed PROVE Base'
  OBVIOUS
<1> USE DEF Base, TypeOK, Stages, InPipe, launcherVars, childVars, NoCode
<1>1. CASE OpenOutput
  BY <1>1, FaultsCounted, RelayAssumption DEF OpenOutput
<1>2. CASE WriteText
  BY <1>2, FaultsCounted, RelayAssumption DEF WriteText
<1>3. CASE Return
  BY <1>3, FaultsCounted, RelayAssumption DEF Return
<1>4. CASE Flush
  BY <1>4, FaultsCounted, RelayAssumption DEF Flush, ChildEnds
<1>5. CASE Killed
  BY <1>5, FaultsCounted, RelayAssumption DEF Killed, Alive, ChildEnds
<1> QED  BY <1>1, <1>2, <1>3, <1>4, <1>5 DEF Child

(* Only ReadOutput reads and shows.                                        *)
LEMMA OthersShowNothing ==
    ASSUME [Next]_vars, ~ReadOutput
    PROVE  UNCHANGED <<pending, shown, got>>
BY DEF Next, Launcher, CreatePipe, Launch, Connect, AwaitClient, ClosePipe, AwaitChild, Child,
       OpenOutput, WriteText, Return, Flush, Killed, ChildEnds, Over, vars, launcherVars

LEMMA ShownStep == TypeOK /\ HalfPending /\ Faithful /\ [Next]_vars => HalfPending' /\ Faithful'
<1> SUFFICES ASSUME TypeOK, HalfPending, Faithful, [Next]_vars PROVE HalfPending' /\ Faithful'
  OBVIOUS
<1>1. CASE ReadOutput
  BY <1>1, ReadShows
<1>2. CASE ~ReadOutput
  <2>1. UNCHANGED <<pending, shown, got>>
    BY <1>2, OthersShowNothing
  <2> QED  BY <2>1 DEF HalfPending, Faithful
<1> QED  BY <1>1, <1>2

LEMMA BaseStep == Base /\ HalfPending /\ Faithful /\ [Next]_vars => Base'
<1>1. ASSUME Base, UNCHANGED vars PROVE Base'
  BY <1>1 DEF Base, TypeOK, Stages, InPipe, vars, launcherVars, childVars
<1> QED  BY <1>1, BaseLauncher, BaseChild DEF Next, Over

LEMMA ShownInit == Init => HalfPending /\ Faithful
BY DEF Init, HalfPending, Faithful

LEMMA Relayed == Spec => [](Base /\ HalfPending /\ Faithful)
<1>1. Base => TypeOK
  BY DEF Base
<1> QED  BY <1>1, BaseInit, ShownInit, BaseStep, ShownStep, PTL DEF Spec

(* Every variable keeps its type; the pipe never holds more than it may.   *)
THEOREM TypeCorrect == Spec => []TypeOK
<1>1. Base => TypeOK
  BY DEF Base
<1> QED  BY <1>1, Relayed, PTL

(* Wherever the reads happen to cut the text, and whatever fails, only     *)
(* whole characters are shown, those the child wrote, in order, none twice.*)
THEOREM ShownFaithfully == Spec => []Faithful
BY Relayed, PTL

-----------------------------------------------------------------------------
(* How the launcher ends.                                                  *)

LEMMA ExitStep == TypeOK /\ ExitFollowsChild /\ [Next]_vars => ExitFollowsChild'
<1> SUFFICES ASSUME TypeOK, ExitFollowsChild, [Next]_vars PROVE ExitFollowsChild'
  OBVIOUS
<1> USE DEF ExitFollowsChild, launcherVars, childVars
<1>1. CASE ReadOutput
  <2>1. at' = "read" \/ at' = "close"
    BY <1>1, ReadGoesOn
  <2> QED  BY <2>1
<1>2. CASE CreatePipe \/ Connect \/ AwaitClient \/ ClosePipe
  BY <1>2 DEF TypeOK, CreatePipe, Connect, AwaitClient, ClosePipe
<1>3. CASE Launch \/ AwaitChild
  BY <1>3 DEF Launch, AwaitChild
<1>4. CASE Child
  BY <1>4 DEF Child, OpenOutput, WriteText, Return, Flush, ChildEnds
<1>5. CASE Killed
  BY <1>5 DEF Killed, ChildEnds, Alive
<1>6. CASE UNCHANGED vars
  BY <1>6 DEF vars
<1> QED  BY <1>1, <1>2, <1>3, <1>4, <1>5, <1>6 DEF Next, Over, Launcher

(* The launcher outlives the child whose console it keeps, and returns its *)
(* exit code, unless the child was refused or could not be waited for.     *)
THEOREM ExitCode == Spec => []ExitFollowsChild
<1>1. Init => ExitFollowsChild
  BY DEF Init, ExitFollowsChild
<1> QED  BY <1>1, ExitStep, TypeCorrect, PTL DEF Spec

(* Faults are only counted, so that none has been met before a step that   *)
(* leaves none, and that step has met none.                                *)
LEMMA NoneMet ==
    ASSUME TypeOK, [Next]_vars, faults' = 0
    PROVE  faults = 0 /\ Works /\ ~Killed
<1>1. faults \in Nat
  BY RelayAssumption DEF TypeOK
<1>2. Works \/ \E kind \in FaultKinds : Fails(kind)
  <2>1. CASE ReadOutput
    BY <2>1, ReadGoesOn DEF FaultKinds
  <2>2. CASE Launcher /\ ~ReadOutput
    BY <2>2 DEF Launcher, CreatePipe, Launch, Connect, AwaitClient, ClosePipe, AwaitChild,
                FaultKinds
  <2>3. CASE Child \/ Killed
    BY <2>3 DEF Child, OpenOutput, WriteText, Return, Flush, Killed, FaultKinds
  <2>4. CASE UNCHANGED vars
    BY <2>4 DEF vars, Works
  <2> QED  BY <2>1, <2>2, <2>3, <2>4 DEF Next, Over
<1>3. \A kind : ~Fails(kind)
  BY <1>1 DEF Fails
<1> QED  BY <1>2, <1>3 DEF Works, Killed

LEMMA Unfaltering ==
    ASSUME Base, HalfPending, Faithful, Unfailing, Works, faults = 0, Launcher \/ Child
    PROVE  Unfailing'
<1> USE DEF Base, TypeOK, Stages, Unfailing, InPipe, Works, Fails, launcherVars, childVars
<1>1. CASE CreatePipe
  BY <1>1 DEF CreatePipe
<1>2. CASE Launch
  BY <1>2 DEF Launch
<1>3. CASE Connect
  BY <1>3 DEF Connect
<1>4. CASE AwaitClient
  BY <1>4 DEF AwaitClient
<1>5. CASE ReadOutput
  <2>1. got' \in 0 .. sent /\ got <= got' /\ Len(shown') = got' \div 2
    BY <1>5, ReadShows
  <2>2. /\ at = "read" /\ UNCHANGED <<server, childVars>>
        /\ at' = "read" \/ (at' = "close" /\ client = "closed")
    BY <1>5, ReadGoesOn
  <2> QED  BY <2>1, <2>2
<1>6. CASE ClosePipe
  BY <1>6 DEF ClosePipe
<1>7. CASE AwaitChild
  BY <1>7 DEF AwaitChild
<1>8. CASE OpenOutput
  BY <1>8 DEF OpenOutput
<1>9. CASE WriteText
  BY <1>9 DEF WriteText
<1>10. CASE Return
  BY <1>10 DEF Return
<1>11. CASE Flush
  BY <1>11 DEF Flush, ChildEnds
<1> QED  BY <1>1, <1>2, <1>3, <1>4, <1>5, <1>6, <1>7, <1>8, <1>9, <1>10, <1>11 DEF Launcher, Child

LEMMA ForwardingStep ==
    Base /\ HalfPending /\ Faithful /\ Forwarding /\ [Next]_vars => Forwarding'
<1> SUFFICES ASSUME Base, HalfPending, Faithful, Forwarding, [Next]_vars, faults' = 0
             PROVE  Unfailing'
  BY DEF Forwarding
<1>1. faults = 0 /\ Works /\ ~Killed
  BY NoneMet DEF Base
<1>2. Unfailing
  BY <1>1 DEF Forwarding
<1>3. CASE Launcher \/ Child
  BY <1>1, <1>2, <1>3, Unfaltering
<1>4. CASE UNCHANGED vars
  BY <1>2, <1>4 DEF Unfailing, vars, launcherVars, childVars
<1> QED  BY <1>1, <1>3, <1>4 DEF Next, Over

(* When no call fails, the launcher ends with all the child has printed on *)
(* the console, in every interleaving of the two processes.                *)
THEOREM Forwarded == Spec => []AllForwarded
<1>1. Init => Forwarding
  <2>1. Len(<<>>) = 0
    OBVIOUS
  <2> QED  BY <2>1 DEF Init, Forwarding, Unfailing
<1>2. ASSUME Base, HalfPending, Forwarding PROVE AllForwarded
  <2> SUFFICES ASSUME at = "exited", faults = 0 PROVE 2 * Len(shown) = printed /\ pending = <<>>
    BY DEF AllForwarded
  <2>1. Len(shown) = got \div 2 /\ printed = got /\ (got % 2) = 0
    BY <1>2 DEF Forwarding, Unfailing
  <2>2. got \in Nat
    BY <1>2 DEF Base, TypeOK
  <2> QED  BY <1>2, <2>1, <2>2 DEF HalfPending
<1> QED  BY <1>1, <1>2, ForwardingStep, Relayed, PTL DEF Spec

-----------------------------------------------------------------------------
(* The characters of an argument: any, and the ones the code knows.        *)
Signs == STRING \cup {Space, Quote, Slash, PidMark, PipeMark, Digit}
Texts == Seq(Signs)

LEMMA SignsApart ==
    /\ {Space, Quote, Slash, PidMark, PipeMark, Digit} \subseteq Signs
    /\ Slash # Quote /\ Slash # Space /\ Quote # Space /\ PidMark # PipeMark
    /\ {PidMark, Digit} \cap {Space, Quote} = {}
  BY DEF Signs, Space, Quote, Slash, PidMark, PipeMark, Digit

(* Slashes in a row.                                                       *)
LEMMA Slashes ==
    ASSUME NEW n \in Nat
    PROVE  /\ Repeat(Slash, n) \in Texts
           /\ Repeat(Slash, n + 1) = Append(Repeat(Slash, n), Slash)
           /\ Repeat(Slash, 0) = <<>>
<1>1. PICK X : X = Signs
  OBVIOUS
<1>2. PICK a : a = Slash
  OBVIOUS
<1>3. a \in X
  BY <1>1, <1>2, SignsApart
<1>4. PICK x : x = [i \in 1 .. n |-> a]
  OBVIOUS
<1>5. PICK y : y = [i \in 1 .. n + 1 |-> a]
  OBVIOUS
<1>6. x \in Seq(X) /\ y \in Seq(X) /\ Len(x) = n /\ Len(y) = n + 1
  BY <1>3, <1>4, <1>5
<1>7. Append(x, a) \in Seq(X) /\ Len(Append(x, a)) = n + 1
      /\ \A i \in 1 .. n + 1 : Append(x, a)[i] = a
  <2>1. /\ Append(x, a) \in Seq(X) /\ Len(Append(x, a)) = n + 1 /\ Append(x, a)[n + 1] = a
        /\ \A i \in 1 .. n : Append(x, a)[i] = x[i]
    BY <1>3, <1>6, AppendProperties
  <2>2. \A i \in 1 .. n : x[i] = a
    BY <1>4
  <2>3. \A i \in 1 .. n + 1 : i \in 1 .. n \/ i = n + 1
    OBVIOUS
  <2> QED  BY <2>1, <2>2, <2>3
<1>8. y = Append(x, a)
  <2>1. \A i \in 1 .. n + 1 : y[i] = a
    BY <1>5
  <2> QED  BY <1>6, <1>7, <2>1, SeqEqual
<1>9. [i \in 1 .. 0 |-> a] = <<>>
  OBVIOUS
<1> QED  BY <1>1, <1>2, <1>4, <1>5, <1>6, <1>8, <1>9 DEF Repeat, Texts

-----------------------------------------------------------------------------
(* The C runtime's reading, character by character.                        *)
Readings == [words : Seq(Texts), word : Texts, slashes : Nat, quoted : BOOLEAN, begun : BOOLEAN]

Taking == [p \in Readings \X Signs |-> Take(p[1], p[2])]

(* The truth values as arguments, which the provers take for terms so.     *)
Yes == TRUE
No  == FALSE

LEMMA TakeSlash ==
    ASSUME NEW w, NEW v, NEW k \in Nat, NEW q, NEW b
    PROVE  Take(Reading(w, v, k, q, b), Slash) = Reading(w, v, k + 1, q, Yes)
<1>1. PICK s : s = Reading(w, v, k, q, b)
  OBVIOUS
<1>2. /\ s.words = w /\ s.word = v /\ s.slashes = k /\ s.quoted = q /\ s.begun = b
      /\ Flushed(s) = v \o Repeat(Slash, k) /\ Halved(s) = v \o Repeat(Slash, k \div 2)
  BY <1>1 DEF Reading, Flushed, Halved, Yes, No
<1>3. Take(s, Slash) = Reading(s.words, s.word, s.slashes + 1, s.quoted, Yes)
  BY SignsApart DEF Take, Yes, No
<1> QED  BY <1>1, <1>2, <1>3

LEMMA TakeOddMark ==
    ASSUME NEW w, NEW v, NEW k \in Nat, NEW q, NEW b, k % 2 = 1
    PROVE  Take(Reading(w, v, k, q, b), Quote) =
             Reading(w, Append(v \o Repeat(Slash, k \div 2), Quote), 0, q, b)
<1>1. PICK s : s = Reading(w, v, k, q, b)
  OBVIOUS
<1>2. /\ s.words = w /\ s.word = v /\ s.slashes = k /\ s.quoted = q /\ s.begun = b
      /\ Flushed(s) = v \o Repeat(Slash, k) /\ Halved(s) = v \o Repeat(Slash, k \div 2)
  BY <1>1 DEF Reading, Flushed, Halved, Yes, No
<1>3. s.slashes % 2 = 1 /\ s.slashes % 2 # 0
  BY <1>2
<1>4. Take(s, Quote) = Reading(s.words, Append(Halved(s), Quote), 0, s.quoted, s.begun)
  BY <1>3, SignsApart DEF Take, Yes, No
<1> QED  BY <1>1, <1>2, <1>4

LEMMA TakeEvenMark ==
    ASSUME NEW w, NEW v, NEW k \in Nat, NEW q, NEW b, k % 2 = 0
    PROVE  Take(Reading(w, v, k, q, b), Quote) = Reading(w, v \o Repeat(Slash, k \div 2), 0, ~q, Yes)
<1>1. PICK s : s = Reading(w, v, k, q, b)
  OBVIOUS
<1>2. /\ s.words = w /\ s.word = v /\ s.slashes = k /\ s.quoted = q /\ s.begun = b
      /\ Flushed(s) = v \o Repeat(Slash, k) /\ Halved(s) = v \o Repeat(Slash, k \div 2)
  BY <1>1 DEF Reading, Flushed, Halved, Yes, No
<1>3. s.slashes % 2 = 0 /\ s.slashes % 2 # 1
  BY <1>2
<1>4. Take(s, Quote) = Reading(s.words, Halved(s), 0, ~s.quoted, Yes)
  BY <1>3, SignsApart DEF Take, Yes, No
<1> QED  BY <1>1, <1>2, <1>4

LEMMA TakeOpening ==
    ASSUME NEW w, NEW v, NEW k \in Nat, NEW b, k % 2 = 0
    PROVE  Take(Reading(w, v, k, No, b), Quote) = Reading(w, v \o Repeat(Slash, k \div 2), 0, Yes, Yes)
<1>1. (~No) = Yes
  BY DEF Yes, No
<1> QED  BY <1>1, TakeEvenMark

LEMMA TakeClosing ==
    ASSUME NEW w, NEW v, NEW k \in Nat, NEW b, k % 2 = 0
    PROVE  Take(Reading(w, v, k, Yes, b), Quote) = Reading(w, v \o Repeat(Slash, k \div 2), 0, No, Yes)
<1>1. (~Yes) = No
  BY DEF Yes, No
<1> QED  BY <1>1, TakeEvenMark

LEMMA TakeSpace ==
    ASSUME NEW w, NEW v, NEW k \in Nat, NEW b
    PROVE  Take(Reading(w, v, k, No, b), Space) = Between(WordsOf(Reading(w, v, k, No, b)))
<1>1. PICK s : s = Reading(w, v, k, No, b)
  OBVIOUS
<1>2. ~s.quoted
  BY <1>1 DEF Reading, Flushed, Halved, Yes, No
<1>3. Take(s, Space) = Between(WordsOf(s))
  BY <1>2, SignsApart DEF Take, Yes, No
<1> QED  BY <1>1, <1>3

LEMMA TakeInside ==
    ASSUME NEW w, NEW v, NEW k \in Nat, NEW b, NEW ch,
           ch # Slash, ch # Quote
    PROVE  Take(Reading(w, v, k, Yes, b), ch) = Reading(w, Append(v \o Repeat(Slash, k), ch), 0, Yes, Yes)
<1>1. PICK s : s = Reading(w, v, k, Yes, b)
  OBVIOUS
<1>2. /\ s.words = w /\ s.word = v /\ s.slashes = k /\ s.quoted = Yes /\ s.begun = b
      /\ Flushed(s) = v \o Repeat(Slash, k) /\ Halved(s) = v \o Repeat(Slash, k \div 2)
  BY <1>1 DEF Reading, Flushed, Halved, Yes, No
<1>3. s.quoted
  BY <1>2 DEF Yes
<1>4. Take(s, ch) = Reading(s.words, Append(Flushed(s), ch), 0, s.quoted, Yes)
  BY <1>3 DEF Take, Yes, No
<1> QED  BY <1>1, <1>2, <1>4

LEMMA TakeOther ==
    ASSUME NEW w, NEW v, NEW k \in Nat, NEW q, NEW b, NEW ch,
           ch # Slash, ch # Quote, ch # Space
    PROVE  Take(Reading(w, v, k, q, b), ch) = Reading(w, Append(v \o Repeat(Slash, k), ch), 0, q, Yes)
<1>1. PICK s : s = Reading(w, v, k, q, b)
  OBVIOUS
<1>2. /\ s.words = w /\ s.word = v /\ s.slashes = k /\ s.quoted = q /\ s.begun = b
      /\ Flushed(s) = v \o Repeat(Slash, k) /\ Halved(s) = v \o Repeat(Slash, k \div 2)
  BY <1>1 DEF Reading, Flushed, Halved, Yes, No
<1>3. Take(s, ch) = Reading(s.words, Append(Flushed(s), ch), 0, s.quoted, Yes)
  BY DEF Take, Yes, No
<1> QED  BY <1>1, <1>2, <1>3

LEMMA ReadingTyped ==
    /\ \A s \in Readings : s = Reading(s.words, s.word, s.slashes, s.quoted, s.begun)
    /\ \A w \in Seq(Texts), v \in Texts, k \in Nat, q \in BOOLEAN, b \in BOOLEAN :
         Reading(w, v, k, q, b) \in Readings
  BY DEF Readings, Reading, Yes, No

LEMMA BetweenTyped ==
    ASSUME NEW w \in Seq(Texts)
    PROVE  Between(w) \in Readings /\ Between(w) = Reading(w, <<>>, 0, No, No)
<1>1. <<>> \in Texts
  BY EmptySeq DEF Texts
<1> QED  BY <1>1 DEF Between, Readings, Reading, Yes, No

(* A word so far, with the slashes held back.                              *)
LEMMA WordTyped ==
    ASSUME NEW v \in Texts, NEW n \in Nat
    PROVE  /\ v \o Repeat(Slash, n) \in Texts
           /\ \A ch \in Signs : Append(v \o Repeat(Slash, n), ch) \in Texts
           /\ v \o Repeat(Slash, n + 1) = Append(v \o Repeat(Slash, n), Slash)
           /\ v \o Repeat(Slash, 0) = v
<1>1. PICK X : X = Signs
  OBVIOUS
<1>2. PICK r \in Seq(X) : r = Repeat(Slash, n)
  BY <1>1, Slashes DEF Texts
<1>3. v \in Seq(X) /\ Slash \in X
  BY <1>1, SignsApart DEF Texts
<1>4. v \o r \in Seq(X)
  BY <1>2, <1>3, ConcatProperties
<1>5. \A ch \in X : Append(v \o r, ch) \in Seq(X)
  BY <1>4, AppendProperties
<1>6. v \o Append(r, Slash) = Append(v \o r, Slash)
  BY <1>3, AppendConcat
<1>7. v \o <<>> = v
  BY <1>3, ConcatEmptySeq
<1> QED  BY <1>1, <1>2, <1>4, <1>5, <1>6, <1>7, Slashes DEF Texts

LEMMA TakeTyped == \A s \in Readings, ch \in Signs : Take(s, ch) \in Readings
<1> SUFFICES ASSUME NEW s \in Readings, NEW ch \in Signs PROVE Take(s, ch) \in Readings
  OBVIOUS
<1>1. PICK w \in Seq(Texts), v \in Texts, k \in Nat, q \in BOOLEAN, b \in BOOLEAN : s = Reading(w, v, k, q, b)
  BY ReadingTyped DEF Readings
<1>2. k + 1 \in Nat /\ k \div 2 \in Nat /\ 0 \in Nat /\ (k % 2 = 0 \/ k % 2 = 1)
  OBVIOUS
<1>8. q = Yes \/ q = No
  BY DEF Yes, No
<1>3. CASE ch = Slash
  <2>1. Take(s, ch) = Reading(w, v, k + 1, q, Yes)
    BY <1>1, <1>3, TakeSlash
  <2> QED  BY <1>2, <2>1 DEF Reading, Readings, Yes, No
<1>4. CASE ch = Quote /\ k % 2 = 1
  <2>1. Append(v \o Repeat(Slash, k \div 2), Quote) \in Texts
    BY <1>2, <1>4, WordTyped
  <2>2. Take(s, ch) = Reading(w, Append(v \o Repeat(Slash, k \div 2), Quote), 0, q, b)
    BY <1>1, <1>4, TakeOddMark
  <2> QED  BY <2>1, <2>2 DEF Reading, Readings, Yes, No
<1>5. CASE ch = Quote /\ k % 2 = 0
  <2>1. v \o Repeat(Slash, k \div 2) \in Texts
    BY <1>2, WordTyped
  <2>2. CASE q = Yes
    <3>1. Take(s, ch) = Reading(w, v \o Repeat(Slash, k \div 2), 0, No, Yes)
      BY <1>1, <1>5, <2>2, TakeClosing
    <3> QED  BY <2>1, <3>1 DEF Reading, Readings, Yes, No
  <2>3. CASE q = No
    <3>1. Take(s, ch) = Reading(w, v \o Repeat(Slash, k \div 2), 0, Yes, Yes)
      BY <1>1, <1>5, <2>3, TakeOpening
    <3> QED  BY <2>1, <3>1 DEF Reading, Readings, Yes, No
  <2> QED  BY <1>8, <2>2, <2>3
<1>6. CASE ch # Slash /\ ch # Quote /\ (q = Yes \/ ch # Space)
  <2>1. Append(v \o Repeat(Slash, k), ch) \in Texts
    BY WordTyped
  <2>2. Take(s, ch) = Reading(w, Append(v \o Repeat(Slash, k), ch), 0, q, Yes)
    <3>1. ch # Slash /\ ch # Quote
      BY <1>6
    <3>2. CASE q = Yes
      <4>1. s = Reading(w, v, k, Yes, b)
        BY <1>1, <3>2
      <4>2. Take(s, ch) = Reading(w, Append(v \o Repeat(Slash, k), ch), 0, Yes, Yes)
        BY <3>1, <4>1, TakeInside
      <4> QED  BY <3>2, <4>2
    <3>3. CASE ch # Space
      BY <1>1, <3>1, <3>3, TakeOther
    <3> QED  BY <1>6, <3>2, <3>3
  <2> QED  BY <2>1, <2>2 DEF Reading, Readings, Yes, No
<1>7. CASE ch = Space /\ q = No
  <2>1. WordsOf(s) \in Seq(Texts)
    <3>1. Flushed(s) \in Texts /\ s.words = w
      BY <1>1, WordTyped DEF Flushed, Reading
    <3>2. Append(w, Flushed(s)) \in Seq(Texts)
      BY <3>1, AppendProperties
    <3> QED  BY <3>1, <3>2 DEF WordsOf
  <2>2. Take(s, ch) = Between(WordsOf(s))
    BY <1>1, <1>7, TakeSpace
  <2> QED  BY <2>1, <2>2, BetweenTyped
<1> QED  BY <1>2, <1>3, <1>4, <1>5, <1>6, <1>7, <1>8

LEMMA TakingIs == \A s \in Readings, ch \in Signs : On(Taking, s, ch) = Take(s, ch)
  BY DEF On, Taking

LEMMA TakeApartIs ==
    ASSUME NEW line \in Texts
    PROVE  TakeApart(line) = WordsOf(Runs(Taking, Between(<<>>), line))
<1> DEFINE loop(f) == [n \in 0 .. Len(line) |-> IF n = 0 THEN Between(<<>>) ELSE Take(f[n - 1], line[n])]
           s == CHOOSE f : f = loop(f)
<1>1. TakeApart(line) = WordsOf(s[Len(line)])
  BY DEF TakeApart
<1>2. PICK f : Loop(Taking, Between(<<>>), line, f)
  BY LoopExists DEF Texts
<1>3. Len(line) \in Nat /\ \A n \in 1 .. Len(line) : line[n] \in Signs
  BY LenProperties, ElementOfSeq DEF Texts
<1>4. \A n \in 0 .. Len(line) : f[n] \in Readings
  <2>1. Between(<<>>) \in Readings
    BY BetweenTyped, EmptySeq
  <2>2. \A r \in Readings, ch \in Signs : On(Taking, r, ch) \in Readings
    BY TakingIs, TakeTyped
  <2> QED  BY <1>2, <2>1, <2>2, LoopStays DEF Texts
<1>5. \A n \in 1 .. Len(line) : n - 1 \in 0 .. Len(line) /\ f[n] = Take(f[n - 1], line[n])
  <2> SUFFICES ASSUME NEW n \in 1 .. Len(line)
               PROVE  n - 1 \in 0 .. Len(line) /\ f[n] = Take(f[n - 1], line[n])
    OBVIOUS
  <2>1. n - 1 \in 0 .. Len(line)
    BY <1>3
  <2>2. f[n] = On(Taking, f[n - 1], line[n])
    BY <1>2 DEF Loop
  <2> QED  BY <1>3, <1>4, <2>1, <2>2, TakingIs
<1>6. f = loop(f)
  <2>1. f = [n \in 0 .. Len(line) |-> f[n]] /\ f[0] = Between(<<>>)
    BY <1>2 DEF Loop
  <2>2. \A n \in 0 .. Len(line) : n # 0 => n \in 1 .. Len(line)
    BY <1>3
  <2>3. \A n \in 0 .. Len(line) : f[n] = IF n = 0 THEN Between(<<>>) ELSE Take(f[n - 1], line[n])
    BY <1>5, <2>1, <2>2
  <2> QED  BY <2>1, <2>3
<1>7. s = loop(s)
  <2> HIDE DEF loop
  <2> QED  BY <1>6
<1>8. s[0] = Between(<<>>) /\ \A n \in 1 .. Len(line) : s[n] = Take(s[n - 1], line[n])
  <2> HIDE DEF s
  <2>1. 0 \in 0 .. Len(line) /\ \A n \in 1 .. Len(line) : n \in 0 .. Len(line) /\ n # 0
    BY <1>3
  <2> QED  BY <1>7, <2>1
<1> HIDE DEF s, loop
<1> DEFINE T == {n \in Nat : n <= Len(line) => s[n] = f[n]}
<1>9. Len(line) \in T
  <2>1. 0 \in T
    BY <1>2, <1>8 DEF Loop
  <2>2. ASSUME NEW n \in T PROVE n + 1 \in T
    <3> SUFFICES ASSUME n + 1 <= Len(line) PROVE s[n + 1] = f[n + 1]
      OBVIOUS
    <3>1. n + 1 \in 1 .. Len(line) /\ (n + 1) - 1 = n /\ s[n] = f[n]
      BY <1>3
    <3> HIDE DEF T
    <3> QED  BY <1>5, <1>8, <3>1
  <2>3. T \in SUBSET Nat
    OBVIOUS
  <2> HIDE DEF T
  <2> QED  BY <1>3, <2>1, <2>2, <2>3, ByCounting
<1>10. s[Len(line)] = f[Len(line)]
  BY <1>9
<1> QED  BY <1>1, <1>2, <1>3, <1>10, RunsTo

-----------------------------------------------------------------------------
(* The reading of what quoteArgument writes.                               *)
LEMMA OneMore ==
    ASSUME NEW s \in Readings, NEW x \in Texts, NEW ch \in Signs
    PROVE  /\ Runs(Taking, s, x) \in Readings
           /\ Runs(Taking, s, Append(x, ch)) = Take(Runs(Taking, s, x), ch)
<1>1. \A r \in Readings, c \in Signs : On(Taking, r, c) \in Readings
  BY TakingIs, TakeTyped
<1>2. Runs(Taking, s, x) \in Readings
  BY <1>1, RunsStay DEF Texts
<1>3. Runs(Taking, s, Append(x, ch)) = On(Taking, Runs(Taking, s, x), ch)
  BY LoopAppend DEF Texts
<1> QED  BY <1>2, <1>3, TakingIs

LEMMA ReadingIn ==
    ASSUME NEW w \in Seq(Texts), NEW v \in Texts, NEW k \in Nat, NEW q \in {Yes, No}, NEW b \in {Yes, No}
    PROVE  Reading(w, v, k, q, b) \in Readings
  BY DEF Reading, Readings, Yes, No

(* Slashes are held back.                                                  *)
LEMMA ReadSlashes ==
    ASSUME NEW w \in Seq(Texts), NEW v \in Texts, NEW q \in {Yes, No}, NEW n \in Nat
    PROVE  Runs(Taking, Reading(w, v, 0, q, Yes), Repeat(Slash, n)) = Reading(w, v, n, q, Yes)
<1> DEFINE T == {m \in Nat : Runs(Taking, Reading(w, v, 0, q, Yes), Repeat(Slash, m)) = Reading(w, v, m, q, Yes)}
<1>1. 0 \in T
  BY Slashes, LoopNone
<1>2. ASSUME NEW m \in T PROVE m + 1 \in T
  <2>1. m \in Nat /\ Runs(Taking, Reading(w, v, 0, q, Yes), Repeat(Slash, m)) = Reading(w, v, m, q, Yes)
    OBVIOUS
  <2> HIDE DEF T
  <2>2. Reading(w, v, 0, q, Yes) \in Readings
    BY ReadingIn
  <2>3. Repeat(Slash, m) \in Texts /\ Slash \in Signs /\ Repeat(Slash, m + 1) = Append(Repeat(Slash, m), Slash)
    BY <2>1, Slashes, SignsApart
  <2>4. Runs(Taking, Reading(w, v, 0, q, Yes), Repeat(Slash, m + 1)) = Take(Reading(w, v, m, q, Yes), Slash)
    BY <2>1, <2>2, <2>3, OneMore
  <2>5. Take(Reading(w, v, m, q, Yes), Slash) = Reading(w, v, m + 1, q, Yes)
    BY <2>1, TakeSlash
  <2> QED  BY <2>1, <2>4, <2>5 DEF T
<1>3. T \in SUBSET Nat
  OBVIOUS
<1> HIDE DEF T
<1>4. n \in T
  BY <1>1, <1>2, <1>3, ByCounting
<1> QED  BY <1>4 DEF T

(* After a text that leads to a word, slashes and one more character.      *)
LEMMA ReadOn ==
    ASSUME NEW s \in Readings, NEW x \in Texts, NEW w \in Seq(Texts), NEW v \in Texts, NEW q \in {Yes, No},
           Runs(Taking, s, x) = Reading(w, v, 0, q, Yes), NEW n \in Nat, NEW ch \in Signs
    PROVE  /\ x \o Repeat(Slash, n) \o <<ch>> \in Texts
           /\ Runs(Taking, s, x \o Repeat(Slash, n) \o <<ch>>) = Take(Reading(w, v, n, q, Yes), ch)
<1>1. PICK r \in Texts : r = Repeat(Slash, n)
  BY Slashes
<1>2. Runs(Taking, s, x \o r) = Reading(w, v, n, q, Yes)
  <2>1. Runs(Taking, s, x \o r) = Runs(Taking, Runs(Taking, s, x), r)
    BY LoopConcat DEF Texts
  <2> QED  BY <1>1, <2>1, ReadSlashes
<1>3. PICK y \in Texts : y = x \o r
  BY ConcatProperties DEF Texts
<1>4. y \o <<ch>> = Append(y, ch) /\ Append(y, ch) \in Texts
  BY AppendProperties DEF Texts
<1>5. Runs(Taking, s, Append(y, ch)) = Take(Runs(Taking, s, y), ch)
  BY OneMore
<1> QED  BY <1>1, <1>2, <1>3, <1>4, <1>5

-----------------------------------------------------------------------------
(* quoteArgument, character by character.                                  *)
Quotings == [text : Texts, slashes : Nat]

Quoting == [p \in Quotings \X Signs |-> PutQuoted(p[1], p[2])]

Opening == [text |-> <<Quote>>, slashes |-> 0]

LEMMA Put ==
    ASSUME NEW e \in Quotings, NEW ch \in Signs
    PROVE  LET d == PutQuoted(e, ch)
           IN  /\ d \in Quotings
               /\ ch = Slash => d.text = e.text /\ d.slashes = e.slashes + 1
               /\ ch = Quote => /\ d.text = e.text \o Repeat(Slash, 2 * e.slashes + 1) \o <<Quote>>
                                /\ d.slashes = 0
               /\ ch # Slash /\ ch # Quote => /\ d.text = e.text \o Repeat(Slash, e.slashes) \o <<ch>>
                                              /\ d.slashes = 0
<1>1. e.text \in Texts /\ e.slashes \in Nat /\ 2 * e.slashes + 1 \in Nat /\ e.slashes + 1 \in Nat
  BY DEF Quotings
<1>2. ASSUME NEW n \in Nat PROVE e.text \o Repeat(Slash, n) \o <<ch>> \in Texts
  <2>1. PICK y \in Texts : y = e.text \o Repeat(Slash, n)
    BY <1>1, Slashes, ConcatProperties DEF Texts
  <2>2. y \o <<ch>> = Append(y, ch) /\ Append(y, ch) \in Texts
    BY AppendProperties DEF Texts
  <2> QED  BY <2>1, <2>2
<1>3. CASE ch = Slash
  <2>1. PutQuoted(e, ch) = [e EXCEPT !.slashes = @ + 1]
    BY <1>3, SignsApart DEF PutQuoted
  <2> QED  BY <1>1, <1>3, <2>1, SignsApart DEF Quotings
<1>4. CASE ch = Quote
  <2>1. PutQuoted(e, ch) = [text |-> e.text \o Repeat(Slash, 2 * e.slashes + 1) \o <<ch>>, slashes |-> 0]
    BY <1>4, SignsApart DEF PutQuoted
  <2>2. e.text \o Repeat(Slash, 2 * e.slashes + 1) \o <<ch>> \in Texts
    BY <1>1, <1>2
  <2> QED  BY <1>4, <2>1, <2>2, SignsApart DEF Quotings
<1>5. CASE ch # Slash /\ ch # Quote
  <2>1. PutQuoted(e, ch) = [text |-> e.text \o Repeat(Slash, e.slashes) \o <<ch>>, slashes |-> 0]
    BY <1>5 DEF PutQuoted
  <2>2. e.text \o Repeat(Slash, e.slashes) \o <<ch>> \in Texts
    BY <1>1, <1>2
  <2> QED  BY <1>5, <2>1, <2>2 DEF Quotings
<1> QED  BY <1>3, <1>4, <1>5

LEMMA QuotingIs == \A e \in Quotings, ch \in Signs : On(Quoting, e, ch) = PutQuoted(e, ch)
  BY DEF On, Quoting

LEMMA OpeningTyped == Opening \in Quotings /\ Opening.text = <<Quote>> /\ Opening.slashes = 0
<1>1. <<Quote>> \in Texts
  BY SignsApart DEF Texts
<1> QED  BY <1>1 DEF Opening, Quotings

LEMMA PutMore ==
    ASSUME NEW a \in Texts, NEW ch \in Signs
    PROVE  /\ Runs(Quoting, Opening, a) \in Quotings
           /\ Runs(Quoting, Opening, Append(a, ch)) = PutQuoted(Runs(Quoting, Opening, a), ch)
<1>1. \A e \in Quotings, c \in Signs : On(Quoting, e, c) \in Quotings
  BY QuotingIs, Put
<1>2. Runs(Quoting, Opening, a) \in Quotings
  BY <1>1, OpeningTyped, RunsStay DEF Texts
<1>3. Runs(Quoting, Opening, Append(a, ch)) = On(Quoting, Runs(Quoting, Opening, a), ch)
  BY LoopAppend DEF Texts
<1> QED  BY <1>2, <1>3, QuotingIs

(* What is quoted so far is read as what was put in so far, but for the    *)
(* slashes both hold back.                                                 *)
Mirrors(w, e, a) ==
    /\ e \in Quotings
    /\ \E v \in Texts : /\ v \o Repeat(Slash, e.slashes) = a
                        /\ Runs(Taking, Between(w), e.text) = Reading(w, v, 0, Yes, Yes)

LEMMA MirrorsFirst == ASSUME NEW w \in Seq(Texts) PROVE Mirrors(w, Opening, <<>>)
<1>1. Between(w) \in Readings /\ Between(w) = Reading(w, <<>>, 0, No, No) /\ <<>> \in Texts
  BY BetweenTyped, EmptySeq DEF Texts
<1>2. PICK none \in Texts : none = <<>>
  BY <1>1
<1>3. Append(none, Quote) = <<Quote>>
  BY <1>2
<1>6. Runs(Taking, Between(w), none) = Between(w)
  BY <1>2, LoopNone
<1>7. Runs(Taking, Between(w), Append(none, Quote)) = Take(Between(w), Quote)
  BY <1>1, <1>6, OneMore, SignsApart
<1>4. <<>> \o Repeat(Slash, 0) = <<>> /\ 0 \div 2 = 0 /\ 0 % 2 = 0 /\ 0 \in Nat
  BY <1>1, WordTyped
<1>5. Take(Reading(w, <<>>, 0, No, No), Quote) = Reading(w, <<>> \o Repeat(Slash, 0 \div 2), 0, Yes, Yes)
  BY <1>4, TakeOpening
<1> QED  BY <1>1, <1>3, <1>4, <1>5, <1>7, OpeningTyped DEF Mirrors

LEMMA MirrorsNext ==
    ASSUME NEW w \in Seq(Texts), NEW e, NEW a \in Texts, Mirrors(w, e, a), NEW ch \in Signs
    PROVE  Mirrors(w, PutQuoted(e, ch), Append(a, ch))
<1>1. PICK v \in Texts : /\ v \o Repeat(Slash, e.slashes) = a
                         /\ Runs(Taking, Between(w), e.text) = Reading(w, v, 0, Yes, Yes)
  BY DEF Mirrors
<1>2. e \in Quotings
  BY DEF Mirrors
<1>3. PICK x \in Texts, n \in Nat : x = e.text /\ n = e.slashes
  BY <1>2 DEF Quotings
<1>4. PICK d \in Quotings : d = PutQuoted(e, ch)
  BY <1>2, Put
<1>5. Between(w) \in Readings
  BY BetweenTyped
<1>6. v \o Repeat(Slash, n) = a /\ Append(a, ch) \in Texts
  BY <1>1, <1>3, AppendProperties DEF Texts
<1>7. ASSUME NEW y \in Texts PROVE y \o Repeat(Slash, 0) = y
  BY WordTyped
<1>8. CASE ch = Slash
  <2>1. d.text = x /\ d.slashes = n + 1
    BY <1>2, <1>3, <1>4, <1>8, Put
  <2>2. v \o Repeat(Slash, n + 1) = Append(a, ch)
    BY <1>6, <1>8, WordTyped
  <2> QED  BY <1>1, <1>3, <1>4, <2>1, <2>2 DEF Mirrors
<1>9. CASE ch = Quote
  <2>1. PICK m \in Nat : m = 2 * n + 1
    OBVIOUS
  <2>2. m % 2 = 1 /\ m \div 2 = n
    BY <2>1
  <2>3. d.text = x \o Repeat(Slash, m) \o <<Quote>> /\ d.slashes = 0
    BY <1>2, <1>3, <1>4, <1>9, <2>1, Put
  <2>4. Runs(Taking, Between(w), x) = Reading(w, v, 0, Yes, Yes) /\ Quote \in Signs /\ Yes \in {Yes, No}
    BY <1>1, <1>3, SignsApart
  <2>5. Runs(Taking, Between(w), x \o Repeat(Slash, m) \o <<Quote>>) = Take(Reading(w, v, m, Yes, Yes), Quote)
    BY <1>5, <2>4, ReadOn
  <2>6. Take(Reading(w, v, m, Yes, Yes), Quote) = Reading(w, Append(v \o Repeat(Slash, m \div 2), Quote), 0, Yes, Yes)
    BY <2>2, TakeOddMark
  <2>7. Runs(Taking, Between(w), d.text) = Reading(w, Append(a, ch), 0, Yes, Yes)
    BY <1>6, <1>9, <2>2, <2>3, <2>5, <2>6
  <2> QED  BY <1>4, <1>6, <1>7, <2>3, <2>7 DEF Mirrors
<1>10. CASE ch # Slash /\ ch # Quote
  <2>1. d.text = x \o Repeat(Slash, n) \o <<ch>> /\ d.slashes = 0
    BY <1>2, <1>3, <1>4, <1>10, Put
  <2>2. Runs(Taking, Between(w), x \o Repeat(Slash, n) \o <<ch>>) = Take(Reading(w, v, n, Yes, Yes), ch)
    BY <1>1, <1>3, <1>5, ReadOn
  <2>3. Take(Reading(w, v, n, Yes, Yes), ch) = Reading(w, Append(v \o Repeat(Slash, n), ch), 0, Yes, Yes)
    BY <1>10, TakeInside
  <2>4. Runs(Taking, Between(w), d.text) = Reading(w, Append(a, ch), 0, Yes, Yes)
    BY <1>6, <2>1, <2>2, <2>3
  <2> QED  BY <1>4, <1>6, <1>7, <2>1, <2>4 DEF Mirrors
<1> QED  BY <1>8, <1>9, <1>10

LEMMA MirrorsAll ==
    ASSUME NEW w \in Seq(Texts), NEW a \in Texts
    PROVE  Mirrors(w, Runs(Quoting, Opening, a), a)
<1> DEFINE G == {x \in Seq(Signs) : Mirrors(w, Runs(Quoting, Opening, x), x)}
<1>1. <<>> \in G
  BY MirrorsFirst, LoopNone, EmptySeq
<1>2. ASSUME NEW x \in G, NEW ch \in Signs PROVE Append(x, ch) \in G
  <2>1. x \in Texts /\ Mirrors(w, Runs(Quoting, Opening, x), x) /\ Append(x, ch) \in Texts
    BY AppendProperties DEF Texts
  <2> HIDE DEF G
  <2>2. Mirrors(w, PutQuoted(Runs(Quoting, Opening, x), ch), Append(x, ch))
    BY <2>1, MirrorsNext
  <2> QED  BY <2>1, <2>2, PutMore DEF G, Texts
<1>3. G \in SUBSET Seq(Signs)
  OBVIOUS
<1> HIDE DEF G
<1>4. G = Seq(Signs)
  BY <1>1, <1>2, <1>3, ByAppending
<1> QED  BY <1>4 DEF G, Texts

LEMMA QuoteArgumentIs ==
    ASSUME NEW a \in Texts, ~Plain(a)
    PROVE  LET e == Runs(Quoting, Opening, a)
           IN  QuoteArgument(a) = e.text \o Repeat(Slash, 2 * e.slashes) \o <<Quote>>
<1> DEFINE loop(f) == [n \in 0 .. Len(a) |->
                         IF n = 0 THEN [text |-> <<Quote>>, slashes |-> 0] ELSE PutQuoted(f[n - 1], a[n])]
           q == CHOOSE f : f = loop(f)
<1>1. QuoteArgument(a) = q[Len(a)].text \o Repeat(Slash, 2 * q[Len(a)].slashes) \o <<Quote>>
  BY DEF QuoteArgument
<1>2. PICK f : Loop(Quoting, Opening, a, f)
  BY LoopExists DEF Texts
<1>3. Len(a) \in Nat /\ \A n \in 1 .. Len(a) : a[n] \in Signs
  BY LenProperties, ElementOfSeq DEF Texts
<1>4. \A n \in 0 .. Len(a) : f[n] \in Quotings
  <2>1. \A e \in Quotings, ch \in Signs : On(Quoting, e, ch) \in Quotings
    BY QuotingIs, Put
  <2> QED  BY <1>2, <2>1, OpeningTyped, LoopStays DEF Texts
<1>5. \A n \in 1 .. Len(a) : n - 1 \in 0 .. Len(a) /\ f[n] = PutQuoted(f[n - 1], a[n])
  <2> SUFFICES ASSUME NEW n \in 1 .. Len(a)
               PROVE  n - 1 \in 0 .. Len(a) /\ f[n] = PutQuoted(f[n - 1], a[n])
    OBVIOUS
  <2>1. n - 1 \in 0 .. Len(a)
    BY <1>3
  <2>2. f[n] = On(Quoting, f[n - 1], a[n])
    BY <1>2 DEF Loop
  <2> QED  BY <1>3, <1>4, <2>1, <2>2, QuotingIs
<1>6. f = loop(f)
  <2>1. f = [n \in 0 .. Len(a) |-> f[n]] /\ f[0] = Opening
    BY <1>2 DEF Loop
  <2>2. \A n \in 0 .. Len(a) : n # 0 => n \in 1 .. Len(a)
    BY <1>3
  <2>3. \A n \in 0 .. Len(a) : f[n] = IF n = 0 THEN Opening ELSE PutQuoted(f[n - 1], a[n])
    BY <1>5, <2>1, <2>2
  <2> QED  BY <2>1, <2>3 DEF Opening
<1>7. q = loop(q)
  <2> HIDE DEF loop
  <2> QED  BY <1>6
<1>8. q[0] = Opening /\ \A n \in 1 .. Len(a) : q[n] = PutQuoted(q[n - 1], a[n])
  <2> HIDE DEF q
  <2>1. 0 \in 0 .. Len(a) /\ \A n \in 1 .. Len(a) : n \in 0 .. Len(a) /\ n # 0
    BY <1>3
  <2> QED  BY <1>7, <2>1 DEF Opening
<1> HIDE DEF q, loop
<1> DEFINE T == {n \in Nat : n <= Len(a) => q[n] = f[n]}
<1>9. Len(a) \in T
  <2>1. 0 \in T
    BY <1>2, <1>8 DEF Loop
  <2>2. ASSUME NEW n \in T PROVE n + 1 \in T
    <3> SUFFICES ASSUME n + 1 <= Len(a) PROVE q[n + 1] = f[n + 1]
      OBVIOUS
    <3>1. n + 1 \in 1 .. Len(a) /\ (n + 1) - 1 = n /\ q[n] = f[n]
      BY <1>3
    <3> HIDE DEF T
    <3> QED  BY <1>5, <1>8, <3>1
  <2>3. T \in SUBSET Nat
    OBVIOUS
  <2> HIDE DEF T
  <2> QED  BY <1>3, <2>1, <2>2, <2>3, ByCounting
<1>10. q[Len(a)] = f[Len(a)] /\ Runs(Quoting, Opening, a) = f[Len(a)]
  BY <1>2, <1>3, <1>9, RunsTo
<1> QED  BY <1>1, <1>10

(* A word has been read: it is complete at the next space or the end.      *)
Complete(s, w, a) ==
    \E v \in Texts, k \in Nat : s = Reading(w, v, k, No, Yes) /\ v \o Repeat(Slash, k) = a

LEMMA QuotedRead ==
    ASSUME NEW w \in Seq(Texts), NEW a \in Texts, ~Plain(a)
    PROVE  QuoteArgument(a) \in Texts /\ Complete(Runs(Taking, Between(w), QuoteArgument(a)), w, a)
<1>1. PICK e \in Quotings : e = Runs(Quoting, Opening, a) /\ Mirrors(w, e, a)
  BY MirrorsAll DEF Mirrors
<1>2. PICK v \in Texts : /\ v \o Repeat(Slash, e.slashes) = a
                         /\ Runs(Taking, Between(w), e.text) = Reading(w, v, 0, Yes, Yes)
  BY <1>1 DEF Mirrors
<1>3. PICK x \in Texts, n \in Nat : x = e.text /\ n = e.slashes
  BY DEF Quotings
<1>4. PICK m \in Nat : m = 2 * n
  OBVIOUS
<1>5. m % 2 = 0 /\ m \div 2 = n
  BY <1>4
<1>6. QuoteArgument(a) = x \o Repeat(Slash, m) \o <<Quote>>
  BY <1>1, <1>3, <1>4, QuoteArgumentIs
<1>7. Between(w) \in Readings /\ Quote \in Signs /\ Yes \in {Yes, No}
      /\ Runs(Taking, Between(w), x) = Reading(w, v, 0, Yes, Yes)
  BY <1>2, <1>3, BetweenTyped, SignsApart
<1>8. /\ x \o Repeat(Slash, m) \o <<Quote>> \in Texts
      /\ Runs(Taking, Between(w), x \o Repeat(Slash, m) \o <<Quote>>) = Take(Reading(w, v, m, Yes, Yes), Quote)
  BY <1>7, ReadOn
<1>9. Take(Reading(w, v, m, Yes, Yes), Quote) = Reading(w, v \o Repeat(Slash, m \div 2), 0, No, Yes)
  BY <1>5, TakeClosing
<1>10. v \o Repeat(Slash, m \div 2) = a
  BY <1>2, <1>3, <1>5
<1>11. Runs(Taking, Between(w), QuoteArgument(a)) = Reading(w, a, 0, No, Yes)
  BY <1>6, <1>8, <1>9, <1>10
<1>12. a \o Repeat(Slash, 0) = a /\ 0 \in Nat
  BY WordTyped
<1> QED  BY <1>6, <1>8, <1>11, <1>12 DEF Complete

LEMMA PlainRead ==
    ASSUME NEW w \in Seq(Texts), NEW a \in Texts, Plain(a)
    PROVE  Complete(Runs(Taking, Between(w), a), w, a)
<1> DEFINE Fine(x) == \A n \in DOMAIN x : x[n] # Space /\ x[n] # Quote
           G == {x \in Seq(Signs) : Fine(x) => IF x = <<>> THEN TRUE
                                               ELSE Complete(Runs(Taking, Between(w), x), w, x)}
<1>1. <<>> \in G
  BY EmptySeq
<1>2. ASSUME NEW x \in G, NEW ch \in Signs PROVE Append(x, ch) \in G
  <2>1. PICK y \in Texts : y = Append(x, ch)
    BY AppendProperties DEF Texts
  <2>2. /\ x \in Texts /\ y # <<>> /\ Len(x) \in Nat /\ y[Len(x) + 1] = ch
        /\ DOMAIN y = 1 .. Len(x) + 1 /\ DOMAIN x = 1 .. Len(x) /\ \A n \in 1 .. Len(x) : y[n] = x[n]
    BY <2>1, AppendProperties, LenProperties DEF Texts
  <2>3. ASSUME Fine(y) PROVE Complete(Runs(Taking, Between(w), y), w, y)
    <3>1. ch # Space /\ ch # Quote /\ Fine(x)
      BY <2>2, <2>3
    <3>2. Between(w) \in Readings
      BY BetweenTyped
    <3>3. Runs(Taking, Between(w), y) = Take(Runs(Taking, Between(w), x), ch)
      BY <2>1, <2>2, <3>2, OneMore
    <3>4. \E v \in Texts, k \in Nat, b \in {Yes, No} :
            Runs(Taking, Between(w), x) = Reading(w, v, k, No, b) /\ v \o Repeat(Slash, k) = x
      <4>1. CASE x = <<>>
        <5>1. Runs(Taking, Between(w), x) = Reading(w, <<>>, 0, No, No) /\ <<>> \in Texts
          BY <2>2, <4>1, LoopNone, BetweenTyped
        <5>2. <<>> \o Repeat(Slash, 0) = <<>>
          BY <5>1, WordTyped
        <5> QED  BY <4>1, <5>1, <5>2
      <4>2. CASE x # <<>>
        <5>1. Complete(Runs(Taking, Between(w), x), w, x)
          BY <3>1, <4>2
        <5> QED  BY <5>1 DEF Complete
      <4> QED  BY <4>1, <4>2
    <3>5. PICK v \in Texts, k \in Nat, b \in {Yes, No} :
            Runs(Taking, Between(w), x) = Reading(w, v, k, No, b) /\ v \o Repeat(Slash, k) = x
      BY <3>4
    <3> HIDE DEF G, Fine
    <3>6. CASE ch = Slash
      <4>1. Take(Reading(w, v, k, No, b), Slash) = Reading(w, v, k + 1, No, Yes)
        BY TakeSlash
      <4>2. v \o Repeat(Slash, k + 1) = Append(x, ch)
        BY <3>5, <3>6, WordTyped
      <4> QED  BY <2>1, <3>3, <3>5, <3>6, <4>1, <4>2 DEF Complete
    <3>7. CASE ch # Slash
      <4>1. Take(Reading(w, v, k, No, b), ch) = Reading(w, Append(v \o Repeat(Slash, k), ch), 0, No, Yes)
        BY <3>1, <3>7, TakeOther
      <4>2. y \o Repeat(Slash, 0) = y /\ 0 \in Nat
        BY WordTyped
      <4>3. Runs(Taking, Between(w), y) = Reading(w, y, 0, No, Yes)
        BY <2>1, <3>3, <3>5, <4>1
      <4> QED  BY <4>2, <4>3 DEF Complete
    <3> QED  BY <3>6, <3>7
  <2> QED  BY <2>1, <2>2, <2>3 DEF Texts
<1>3. G \in SUBSET Seq(Signs)
  OBVIOUS
<1>4. Fine(a) /\ a # <<>>
  BY DEF Plain, ToSet
<1>5. G = Seq(Signs)
  <2> HIDE DEF G
  <2> QED  BY <1>1, <1>2, <1>3, ByAppending
<1> QED  BY <1>4, <1>5 DEF Texts

LEMMA WordRead ==
    ASSUME NEW w \in Seq(Texts), NEW a \in Texts
    PROVE  QuoteArgument(a) \in Texts /\ Complete(Runs(Taking, Between(w), QuoteArgument(a)), w, a)
<1>1. CASE Plain(a)
  <2>1. QuoteArgument(a) = a
    BY <1>1 DEF QuoteArgument
  <2> QED  BY <1>1, <2>1, PlainRead
<1> QED  BY <1>1, QuotedRead

-----------------------------------------------------------------------------
(* The reading of a whole line.                                            *)
Quotes(xs)    == [i \in DOMAIN xs |-> QuoteArgument(xs[i])]
Spaced(words) == [i \in DOMAIN words |-> IF i = 1 THEN words[i] ELSE <<Space>> \o words[i]]

LineOf(xs) == FlattenSeq(Spaced(Quotes(xs)))

LEMMA QuotesTyped ==
    ASSUME NEW xs \in Seq(Texts)
    PROVE  Quotes(xs) \in Seq(Texts) /\ Len(Quotes(xs)) = Len(xs)
<1>1. PICK n \in Nat : n = Len(xs) /\ DOMAIN xs = 1 .. n
  BY LenProperties
<1>2. PICK q : q = Quotes(xs)
  OBVIOUS
<1>3. \A i \in 1 .. n : QuoteArgument(xs[i]) \in Texts
  BY <1>1, ElementOfSeq, EmptySeq, WordRead
<1>4. q = [i \in 1 .. n |-> QuoteArgument(xs[i])]
  BY <1>1, <1>2 DEF Quotes
<1>5. q \in Seq(Texts) /\ Len(q) = n
  BY <1>3, <1>4
<1> QED  BY <1>1, <1>2, <1>5

LEMMA QuotesMore ==
    ASSUME NEW xs \in Seq(Texts), NEW x \in Texts
    PROVE  Quotes(Append(xs, x)) = Append(Quotes(xs), QuoteArgument(x))
<1>1. PICK n \in Nat : n = Len(xs) /\ DOMAIN xs = 1 .. n
  BY LenProperties
<1>2. PICK ys \in Seq(Texts) : ys = Append(xs, x)
  BY AppendProperties
<1>3. /\ Len(ys) = n + 1 /\ DOMAIN ys = 1 .. n + 1 /\ ys[n + 1] = x
      /\ \A i \in 1 .. n : ys[i] = xs[i]
  BY <1>1, <1>2, AppendProperties, LenProperties
<1>4. PICK q \in Texts : q = QuoteArgument(x)
  BY EmptySeq, WordRead
<1>5. PICK a \in Seq(Texts) : a = Quotes(xs) /\ Len(a) = n
  BY <1>1, QuotesTyped
<1>6. PICK b \in Seq(Texts) : b = Quotes(ys) /\ Len(b) = n + 1
  BY <1>3, QuotesTyped
<1>7. PICK c \in Seq(Texts) : c = Append(a, q)
  BY AppendProperties
<1>8. Len(c) = n + 1 /\ c[n + 1] = q /\ \A i \in 1 .. n : c[i] = a[i]
  BY <1>5, <1>7, AppendProperties
<1>9. /\ \A i \in 1 .. n : a[i] = QuoteArgument(xs[i])
      /\ \A i \in 1 .. n + 1 : b[i] = QuoteArgument(ys[i])
  BY <1>1, <1>3, <1>5, <1>6 DEF Quotes
<1>10. ASSUME NEW i \in 1 .. n + 1 PROVE b[i] = c[i]
  <2>1. i \in 1 .. n \/ i = n + 1
    OBVIOUS
  <2> QED  BY <1>3, <1>4, <1>8, <1>9, <2>1
<1>11. b = c
  BY <1>6, <1>8, <1>10, SeqEqual
<1> QED  BY <1>2, <1>4, <1>5, <1>6, <1>7, <1>11

Following(ws, x) == IF ws = <<>> THEN x ELSE <<Space>> \o x

LEMMA FollowingTyped ==
    ASSUME NEW ws, NEW x \in Texts
    PROVE  Following(ws, x) \in Texts
<1>1. <<Space>> \in Texts
  BY SignsApart DEF Texts
<1> QED  BY <1>1, ConcatProperties DEF Following, Texts

LEMMA SpacedTyped ==
    ASSUME NEW ws \in Seq(Texts)
    PROVE  Spaced(ws) \in Seq(Texts) /\ Len(Spaced(ws)) = Len(ws)
<1>1. PICK n \in Nat : n = Len(ws) /\ DOMAIN ws = 1 .. n
  BY LenProperties
<1>2. PICK q : q = Spaced(ws)
  OBVIOUS
<1> DEFINE word(i) == IF i = 1 THEN ws[i] ELSE <<Space>> \o ws[i]
<1>3. \A i \in 1 .. n : word(i) \in Texts
  <2>1. <<Space>> \in Texts
    BY SignsApart DEF Texts
  <2>2. \A i \in 1 .. n : ws[i] \in Texts
    BY <1>1, ElementOfSeq
  <2>3. \A i \in 1 .. n : <<Space>> \o ws[i] \in Texts
    BY <2>1, <2>2, ConcatProperties DEF Texts
  <2> QED  BY <2>2, <2>3
<1>4. q = [i \in 1 .. n |-> word(i)]
  BY <1>1, <1>2 DEF Spaced
<1>5. q \in Seq(Texts) /\ Len(q) = n
  <2> HIDE DEF word
  <2> QED  BY <1>3, <1>4
<1> QED  BY <1>1, <1>2, <1>5

LEMMA SpacedMore ==
    ASSUME NEW ws \in Seq(Texts), NEW x \in Texts
    PROVE  Spaced(Append(ws, x)) = Append(Spaced(ws), Following(ws, x))
<1>1. PICK n \in Nat : n = Len(ws) /\ DOMAIN ws = 1 .. n
  BY LenProperties
<1>2. PICK ys \in Seq(Texts) : ys = Append(ws, x)
  BY AppendProperties
<1>3. /\ Len(ys) = n + 1 /\ DOMAIN ys = 1 .. n + 1 /\ ys[n + 1] = x
      /\ \A i \in 1 .. n : ys[i] = ws[i]
  BY <1>1, <1>2, AppendProperties, LenProperties
<1>4. PICK q \in Texts : q = Following(ws, x)
  BY FollowingTyped
<1>5. PICK a \in Seq(Texts) : a = Spaced(ws) /\ Len(a) = n
  BY <1>1, SpacedTyped
<1>6. PICK b \in Seq(Texts) : b = Spaced(ys) /\ Len(b) = n + 1
  BY <1>3, SpacedTyped
<1>7. PICK c \in Seq(Texts) : c = Append(a, q)
  BY AppendProperties
<1>8. Len(c) = n + 1 /\ c[n + 1] = q /\ \A i \in 1 .. n : c[i] = a[i]
  BY <1>5, <1>7, AppendProperties
<1>9. /\ \A i \in 1 .. n : a[i] = IF i = 1 THEN ws[i] ELSE <<Space>> \o ws[i]
      /\ \A i \in 1 .. n + 1 : b[i] = IF i = 1 THEN ys[i] ELSE <<Space>> \o ys[i]
  BY <1>1, <1>3, <1>5, <1>6 DEF Spaced
<1>10. ASSUME NEW i \in 1 .. n + 1 PROVE b[i] = c[i]
  <2>1. CASE i \in 1 .. n
    BY <1>3, <1>8, <1>9, <2>1
  <2>2. CASE i = n + 1
    <3>1. i = 1 <=> ws = <<>>
      BY <1>1, <2>2, EmptySeq
    <3> QED  BY <1>3, <1>4, <1>8, <1>9, <2>2, <3>1 DEF Following
  <2> QED  BY <2>1, <2>2
<1>11. b = c
  BY <1>6, <1>8, <1>10, SeqEqual
<1> QED  BY <1>2, <1>4, <1>5, <1>6, <1>7, <1>11

LEMMA LineMore ==
    ASSUME NEW xs \in Seq(Texts), NEW x \in Texts
    PROVE  /\ LineOf(xs) \in Texts
           /\ LineOf(Append(xs, x)) = LineOf(xs) \o Following(xs, QuoteArgument(x))
<1>1. PICK q \in Seq(Texts) : q = Quotes(xs) /\ Len(q) = Len(xs)
  BY QuotesTyped
<1>2. PICK y \in Texts : y = QuoteArgument(x)
  BY EmptySeq, WordRead
<1>3. PICK s \in Seq(Texts) : s = Spaced(q)
  BY SpacedTyped
<1>4. PICK z \in Texts : z = Following(q, y)
  BY FollowingTyped
<1>5. Quotes(Append(xs, x)) = Append(q, y)
  BY <1>1, <1>2, QuotesMore
<1>6. Spaced(Append(q, y)) = Append(s, z)
  BY <1>3, <1>4, SpacedMore
<1>7. FlattenSeq(s) \in Texts /\ FlattenSeq(Append(s, z)) = FlattenSeq(s) \o z
  BY FlattenTyped, FlattenAppend DEF Texts
<1>8. Following(xs, y) = z
  <2>1. q = <<>> <=> xs = <<>>
    BY <1>1, EmptySeq
  <2> QED  BY <1>4, <2>1 DEF Following
<1> QED  BY <1>1, <1>2, <1>3, <1>5, <1>6, <1>7, <1>8 DEF LineOf

(* Whole arguments read, none or with the last one complete.               *)
Through(s, xs) ==
    IF xs = <<>> THEN s = Between(<<>>)
    ELSE \E w \in Seq(Texts), a \in Texts : Complete(s, w, a) /\ xs = Append(w, a)

LEMMA ThroughNext ==
    ASSUME NEW xs \in Seq(Texts), NEW x \in Texts, Through(Runs(Taking, Between(<<>>), LineOf(xs)), xs)
    PROVE  Through(Runs(Taking, Between(<<>>), LineOf(Append(xs, x))), Append(xs, x))
<1>1. PICK q \in Texts : q = QuoteArgument(x)
  BY EmptySeq, WordRead
<1>2. PICK l \in Texts : l = LineOf(xs)
  BY LineMore
<1>3. PICK t \in Texts : t = Following(xs, q)
  BY FollowingTyped
<1>4. PICK base \in Readings : base = Between(<<>>)
  BY BetweenTyped, EmptySeq
<1>5. PICK s \in Readings : s = Runs(Taking, base, l)
  <2>1. Runs(Taking, base, <<>>) = base
    BY LoopNone
  <2>2. \A ch \in Signs : Runs(Taking, base, l) \in Readings
    BY OneMore
  <2> QED  BY <2>2, SignsApart
<1>6. Runs(Taking, base, LineOf(Append(xs, x))) = Runs(Taking, s, t)
  <2>1. LineOf(Append(xs, x)) = l \o t
    BY <1>1, <1>2, <1>3, LineMore
  <2>2. Runs(Taking, base, l \o t) = Runs(Taking, Runs(Taking, base, l), t)
    BY LoopConcat DEF Texts
  <2> QED  BY <1>5, <2>1, <2>2
<1>7. Runs(Taking, s, t) = Runs(Taking, Between(xs), q)
  <2>1. CASE xs = <<>>
    BY <1>2, <1>3, <1>4, <1>5, <2>1 DEF Through, Following
  <2>2. CASE xs # <<>>
    <3>1. PICK w \in Seq(Texts), a \in Texts : Complete(s, w, a) /\ xs = Append(w, a)
      BY <1>2, <1>4, <1>5, <2>2 DEF Through
    <3>2. PICK v \in Texts, k \in Nat : s = Reading(w, v, k, No, Yes) /\ v \o Repeat(Slash, k) = a
      BY <3>1 DEF Complete
    <3>3. WordsOf(s) = xs
      <4>1. s.begun /\ s.words = w /\ Flushed(s) = v \o Repeat(Slash, k)
        BY <3>2 DEF Reading, Flushed, Yes
      <4> QED  BY <3>1, <3>2, <4>1 DEF WordsOf
    <3>4. Take(s, Space) = Between(xs)
      BY <3>2, <3>3, TakeSpace
    <3>5. PICK one \in Texts : one = <<Space>>
      <4>1. <<Space>> \in Texts
        BY SignsApart DEF Texts
      <4> QED  BY <4>1
    <3>6. Runs(Taking, s, one) = Between(xs)
      <4>1. PICK none \in Texts : none = <<>>
        BY EmptySeq DEF Texts
      <4>2. Append(none, Space) = one
        BY <3>5, <4>1
      <4>3. Runs(Taking, s, none) = s
        BY <4>1, LoopNone
      <4>4. Runs(Taking, s, Append(none, Space)) = Take(s, Space)
        BY <4>3, OneMore, SignsApart
      <4> QED  BY <3>4, <4>2, <4>4
    <3>7. t = one \o q
      BY <1>3, <2>2, <3>5 DEF Following
    <3>8. Runs(Taking, s, one \o q) = Runs(Taking, Runs(Taking, s, one), q)
      BY LoopConcat DEF Texts
    <3> QED  BY <3>6, <3>7, <3>8
  <2> QED  BY <2>1, <2>2
<1>8. Complete(Runs(Taking, Between(xs), q), xs, x)
  BY <1>1, WordRead
<1>9. PICK ys \in Seq(Texts) : ys = Append(xs, x) /\ ys # <<>>
  <2>1. PICK ys \in Seq(Texts) : ys = Append(xs, x)
    BY AppendProperties
  <2>2. PICK n \in Nat : n = Len(xs)
    BY LenProperties
  <2>3. Len(ys) = n + 1
    BY <2>1, <2>2, AppendProperties
  <2>4. Len(ys) # 0
    BY <2>2, <2>3
  <2>5. ys # <<>>
    BY <2>4, EmptySeq
  <2> QED  BY <2>1, <2>5
<1>10. Through(Runs(Taking, s, t), ys)
  BY <1>7, <1>8, <1>9 DEF Through
<1> QED  BY <1>4, <1>6, <1>9, <1>10

(* The C runtime takes the line apart into the arguments it was made of.   *)
LEMMA TakesApart ==
    ASSUME NEW xs \in Seq(Texts)
    PROVE  TakeApart(LineOf(xs)) = xs
<1> DEFINE G == {ys \in Seq(Texts) : Through(Runs(Taking, Between(<<>>), LineOf(ys)), ys)}
<1>1. <<>> \in G
  <2>1. LineOf(<<>>) = <<>>
    <3>1. PICK none \in Seq(Texts) : none = <<>>
      BY EmptySeq
    <3>2. Len(Quotes(none)) = 0 /\ Quotes(none) \in Seq(Texts)
      BY <3>1, QuotesTyped
    <3>3. Quotes(none) = none
      BY <3>1, <3>2, EmptySeq
    <3>4. Len(Spaced(none)) = 0 /\ Spaced(none) \in Seq(Texts)
      BY <3>1, SpacedTyped
    <3>5. Spaced(none) = none
      BY <3>1, <3>4, EmptySeq
    <3> QED  BY <3>1, <3>3, <3>5, FlattenNone DEF LineOf
  <2>2. Runs(Taking, Between(<<>>), LineOf(<<>>)) = Between(<<>>)
    BY <2>1, LoopNone
  <2> QED  BY <2>2, EmptySeq DEF Through
<1>2. ASSUME NEW ys \in G, NEW x \in Texts PROVE Append(ys, x) \in G
  <2>1. ys \in Seq(Texts) /\ Through(Runs(Taking, Between(<<>>), LineOf(ys)), ys)
    OBVIOUS
  <2> HIDE DEF G
  <2>2. Append(ys, x) \in Seq(Texts)
    BY <2>1, AppendProperties
  <2> QED  BY <2>1, <2>2, ThroughNext DEF G
<1>3. G \in SUBSET Seq(Texts)
  OBVIOUS
<1>4. G = Seq(Texts)
  <2> HIDE DEF G
  <2> QED  BY <1>1, <1>2, <1>3, ByAppending
<1>5. PICK s : s = Runs(Taking, Between(<<>>), LineOf(xs))
  OBVIOUS
<1>6. Through(s, xs)
  BY <1>4, <1>5
<1>7. TakeApart(LineOf(xs)) = WordsOf(s)
  BY <1>5, LineMore, TakeApartIs, EmptySeq DEF Texts
<1>8. CASE xs = <<>>
  <2>1. s = Between(<<>>)
    BY <1>6, <1>8 DEF Through
  <2>2. ~s.begun /\ s.words = <<>>
    BY <2>1 DEF Between, Reading
  <2> QED  BY <1>7, <1>8, <2>2 DEF WordsOf
<1>9. CASE xs # <<>>
  <2>1. PICK w \in Seq(Texts), a \in Texts : Complete(s, w, a) /\ xs = Append(w, a)
    BY <1>6, <1>9 DEF Through
  <2>2. PICK v \in Texts, k \in Nat : s = Reading(w, v, k, No, Yes) /\ v \o Repeat(Slash, k) = a
    BY <2>1 DEF Complete
  <2>3. s.begun /\ s.words = w /\ Flushed(s) = v \o Repeat(Slash, k)
    BY <2>2 DEF Reading, Flushed, Yes
  <2> QED  BY <1>7, <2>1, <2>2, <2>3 DEF WordsOf
<1> QED  BY <1>8, <1>9

-----------------------------------------------------------------------------
(* wmain takes the hidden arguments out.                                   *)
Sorted(arguments, pid, pipe) == [arguments |-> arguments, consolePid |-> pid, outputPipe |-> pipe]

Nothing  == Sorted(<<>>, NoPid, <<>>)
Ordinary == {a \in Texts : ~Begins(a, PidMark) /\ ~Begins(a, PipeMark)}
Sortings == [arguments : Seq(Texts), consolePid : Texts, outputPipe : Texts]
Taken    == [arguments : Seq(Ordinary), consolePid : Texts, outputPipe : Texts]
TakingOut == [p \in Sortings \X Texts |-> TakeOut(p[1], p[2])]

LEMMA SortedTyped ==
    ASSUME NEW xs \in Seq(Texts), NEW p \in Texts, NEW o \in Texts
    PROVE  Sorted(xs, p, o) \in Sortings
  BY DEF Sorted, Sortings

LEMMA SortingHas ==
    ASSUME NEW e \in Sortings
    PROVE  \E xs \in Seq(Texts), p \in Texts, o \in Texts : e = Sorted(xs, p, o) /\ xs = e.arguments
<1>1. e.arguments \in Seq(Texts) /\ e.consolePid \in Texts /\ e.outputPipe \in Texts
  BY DEF Sortings
<1>2. e = Sorted(e.arguments, e.consolePid, e.outputPipe)
  BY DEF Sortings, Sorted
<1> QED  BY <1>1, <1>2

LEMMA TakeOrdinary ==
    ASSUME NEW xs \in Seq(Texts), NEW p \in Texts, NEW o \in Texts, NEW a \in Ordinary
    PROVE  TakeOut(Sorted(xs, p, o), a) = Sorted(Append(xs, a), p, o)
<1>1. ~Begins(a, PidMark) /\ ~Begins(a, PipeMark)
  BY DEF Ordinary
<1>2. TakeOut(Sorted(xs, p, o), a) = [Sorted(xs, p, o) EXCEPT !.arguments = Append(@, a)]
  BY <1>1 DEF TakeOut
<1> QED  BY <1>2 DEF Sorted

LEMMA TakePid ==
    ASSUME NEW xs \in Seq(Texts), NEW p \in Texts, NEW o \in Texts, NEW a \in Texts,
           Begins(a, PidMark)
    PROVE  TakeOut(Sorted(xs, p, o), a) = IF ToSet(Tail(a)) \subseteq {Digit}
                                          THEN Sorted(xs, Tail(a), o) ELSE Sorted(xs, p, o)
<1>1. ~Begins(a, PipeMark)
  BY SignsApart DEF Begins
<1>2. TakeOut(Sorted(xs, p, o), a) =
        IF ToSet(Tail(a)) \subseteq {Digit} THEN [Sorted(xs, p, o) EXCEPT !.consolePid = Tail(a)]
        ELSE Sorted(xs, p, o)
  BY <1>1 DEF TakeOut
<1> QED  BY <1>2 DEF Sorted

LEMMA TakePipe ==
    ASSUME NEW xs \in Seq(Texts), NEW p \in Texts, NEW o \in Texts, NEW a \in Texts,
           Begins(a, PipeMark)
    PROVE  TakeOut(Sorted(xs, p, o), a) = Sorted(xs, p, Tail(a))
<1>1. ~Begins(a, PidMark)
  BY SignsApart DEF Begins
<1>2. TakeOut(Sorted(xs, p, o), a) = [Sorted(xs, p, o) EXCEPT !.outputPipe = Tail(a)]
  BY <1>1 DEF TakeOut
<1> QED  BY <1>2 DEF Sorted

LEMMA TakeOutTyped ==
    ASSUME NEW e \in Sortings, NEW a \in Texts
    PROVE  /\ TakeOut(e, a) \in Sortings
           /\ e \in Taken => TakeOut(e, a) \in Taken
<1>1. PICK xs \in Seq(Texts), p \in Texts, o \in Texts : e = Sorted(xs, p, o) /\ xs = e.arguments
  BY SortingHas
<1>2. e \in Taken => xs \in Seq(Ordinary)
  BY <1>1 DEF Taken
<1>3. \A u \in Texts, v \in Texts : /\ Sorted(xs, u, v) \in Sortings
                                    /\ e \in Taken => Sorted(xs, u, v) \in Taken
  BY <1>2 DEF Sorted, Sortings, Taken
<1>4. CASE a \in Ordinary
  <2>1. PICK ys \in Seq(Texts) : ys = Append(xs, a)
    BY AppendProperties
  <2>2. e \in Taken => ys \in Seq(Ordinary)
    BY <1>2, <1>4, <2>1, AppendProperties
  <2>3. TakeOut(e, a) = Sorted(ys, p, o)
    BY <1>1, <1>4, <2>1, TakeOrdinary
  <2>4. Sorted(ys, p, o) \in Sortings /\ (e \in Taken => Sorted(ys, p, o) \in Taken)
    BY <2>2 DEF Sorted, Sortings, Taken
  <2> QED  BY <2>3, <2>4
<1>5. CASE Begins(a, PidMark)
  <2>1. Tail(a) \in Texts
    BY <1>5, HeadTailProperties DEF Begins, Texts
  <2>2. TakeOut(e, a) = Sorted(xs, Tail(a), o) \/ TakeOut(e, a) = Sorted(xs, p, o)
    BY <1>1, <1>5, TakePid
  <2> QED  BY <1>3, <2>1, <2>2
<1>6. CASE Begins(a, PipeMark)
  <2>1. Tail(a) \in Texts
    BY <1>6, HeadTailProperties DEF Begins, Texts
  <2>2. TakeOut(e, a) = Sorted(xs, p, Tail(a))
    BY <1>1, <1>6, TakePipe
  <2> QED  BY <1>3, <2>1, <2>2
<1> QED  BY <1>4, <1>5, <1>6 DEF Ordinary

LEMMA TakingOutIs ==
    \A e \in Sortings, a \in Texts : On(TakingOut, e, a) = TakeOut(e, a)
  BY DEF On, TakingOut

LEMMA NothingTyped == Nothing \in Sortings /\ Nothing \in Taken
<1>1. PICK none : none = <<>>
  OBVIOUS
<1>2. none \in Seq(Texts) /\ none \in Texts /\ none \in Seq(Ordinary)
  BY <1>1, EmptySeq DEF Texts
<1>3. Nothing = Sorted(none, none, none)
  BY <1>1 DEF Nothing, NoPid
<1> QED  BY <1>2, <1>3 DEF Sorted, Sortings, Taken

LEMMA TakenSorted == Taken \subseteq Sortings
<1>1. Seq(Ordinary) \subseteq Seq(Texts)
  BY SeqMonotonic DEF Ordinary
<1> QED  BY <1>1 DEF Taken, Sortings

LEMMA EffectiveIs ==
    ASSUME NEW xs \in Seq(Texts)
    PROVE  Effective(xs) = Runs(TakingOut, Nothing, xs)
<1> DEFINE loop(f) == [n \in 0 .. Len(xs) |->
                         IF n = 0 THEN [arguments |-> <<>>, consolePid |-> NoPid, outputPipe |-> <<>>]
                         ELSE TakeOut(f[n - 1], xs[n])]
           q == CHOOSE f : f = loop(f)
<1>1. Effective(xs) = q[Len(xs)]
  BY DEF Effective
<1>2. PICK f : Loop(TakingOut, Nothing, xs, f)
  BY LoopExists
<1>3. Len(xs) \in Nat /\ \A n \in 1 .. Len(xs) : xs[n] \in Texts
  BY LenProperties, ElementOfSeq
<1>4. \A n \in 0 .. Len(xs) : f[n] \in Sortings
  <2>1. \A e \in Sortings, a \in Texts : On(TakingOut, e, a) \in Sortings
    BY TakingOutIs, TakeOutTyped
  <2> QED  BY <1>2, <2>1, NothingTyped, LoopStays
<1>5. \A n \in 1 .. Len(xs) : n - 1 \in 0 .. Len(xs) /\ f[n] = TakeOut(f[n - 1], xs[n])
  <2> SUFFICES ASSUME NEW n \in 1 .. Len(xs)
               PROVE  n - 1 \in 0 .. Len(xs) /\ f[n] = TakeOut(f[n - 1], xs[n])
    OBVIOUS
  <2>1. n - 1 \in 0 .. Len(xs)
    BY <1>3
  <2>2. f[n] = On(TakingOut, f[n - 1], xs[n])
    BY <1>2 DEF Loop
  <2> QED  BY <1>3, <1>4, <2>1, <2>2, TakingOutIs
<1>6. f = loop(f)
  <2>1. f = [n \in 0 .. Len(xs) |-> f[n]] /\ f[0] = Nothing
    BY <1>2 DEF Loop
  <2>2. \A n \in 0 .. Len(xs) : n # 0 => n \in 1 .. Len(xs)
    BY <1>3
  <2>3. \A n \in 0 .. Len(xs) : f[n] = IF n = 0 THEN Nothing ELSE TakeOut(f[n - 1], xs[n])
    BY <1>5, <2>1, <2>2
  <2> QED  BY <2>1, <2>3 DEF Nothing, Sorted
<1>7. q = loop(q)
  <2> HIDE DEF loop
  <2> QED  BY <1>6
<1>8. q[0] = Nothing /\ \A n \in 1 .. Len(xs) : q[n] = TakeOut(q[n - 1], xs[n])
  <2> HIDE DEF q
  <2>1. 0 \in 0 .. Len(xs) /\ \A n \in 1 .. Len(xs) : n \in 0 .. Len(xs) /\ n # 0
    BY <1>3
  <2> QED  BY <1>7, <2>1 DEF Nothing, Sorted
<1> HIDE DEF q, loop
<1> DEFINE T == {n \in Nat : n <= Len(xs) => q[n] = f[n]}
<1>9. Len(xs) \in T
  <2>1. 0 \in T
    BY <1>2, <1>8 DEF Loop
  <2>2. ASSUME NEW n \in T PROVE n + 1 \in T
    <3> SUFFICES ASSUME n + 1 <= Len(xs) PROVE q[n + 1] = f[n + 1]
      OBVIOUS
    <3>1. n + 1 \in 1 .. Len(xs) /\ (n + 1) - 1 = n /\ q[n] = f[n]
      BY <1>3
    <3> HIDE DEF T
    <3> QED  BY <1>5, <1>8, <3>1
  <2>3. T \in SUBSET Nat
    OBVIOUS
  <2> HIDE DEF T
  <2> QED  BY <1>3, <2>1, <2>2, <2>3, ByCounting
<1>10. q[Len(xs)] = f[Len(xs)] /\ Runs(TakingOut, Nothing, xs) = f[Len(xs)]
  BY <1>2, <1>3, <1>9, RunsTo
<1> QED  BY <1>1, <1>10

(* What wmain passes on holds no hidden argument,                          *)
LEMMA EffectiveTaken ==
    ASSUME NEW xs \in Seq(Texts)
    PROVE  Effective(xs).arguments \in Seq(Ordinary)
<1>1. \A e \in Taken, a \in Texts : On(TakingOut, e, a) \in Taken
  BY TakingOutIs, TakeOutTyped, TakenSorted
<1>2. Runs(TakingOut, Nothing, xs) \in Taken
  BY <1>1, NothingTyped, RunsStay
<1> QED  BY <1>2, EffectiveIs DEF Taken

LEMMA TakenNext ==
    ASSUME NEW xs \in Seq(Texts), NEW a \in Texts
    PROVE  Runs(TakingOut, Nothing, Append(xs, a)) = TakeOut(Runs(TakingOut, Nothing, xs), a)
<1>1. \A e \in Sortings, b \in Texts : On(TakingOut, e, b) \in Sortings
  BY TakingOutIs, TakeOutTyped
<1>2. Runs(TakingOut, Nothing, xs) \in Sortings
  BY <1>1, NothingTyped, RunsStay
<1>3. Runs(TakingOut, Nothing, Append(xs, a)) = On(TakingOut, Runs(TakingOut, Nothing, xs), a)
  BY LoopAppend
<1> QED  BY <1>2, <1>3, TakingOutIs

(* and comes out of it as it went in.                                      *)
LEMMA OrdinaryTaken ==
    ASSUME NEW xs \in Seq(Ordinary)
    PROVE  Runs(TakingOut, Nothing, xs) = Sorted(xs, NoPid, <<>>)
<1> DEFINE G == {ys \in Seq(Ordinary) : Runs(TakingOut, Nothing, ys) = Sorted(ys, NoPid, <<>>)}
<1>1. <<>> \in G
  BY EmptySeq, LoopNone DEF Nothing
<1>2. ASSUME NEW ys \in G, NEW a \in Ordinary PROVE Append(ys, a) \in G
  <2>1. ys \in Seq(Ordinary) /\ Runs(TakingOut, Nothing, ys) = Sorted(ys, NoPid, <<>>)
    OBVIOUS
  <2> HIDE DEF G
  <2>2. a \in Texts /\ Ordinary \subseteq Texts
    BY DEF Ordinary
  <2>3. ys \in Seq(Texts)
    BY <2>1, <2>2, SeqMonotonic
  <2>4. Append(ys, a) \in Seq(Ordinary)
    BY <2>1, AppendProperties
  <2>5. PICK none \in Texts : none = <<>>
    BY EmptySeq DEF Texts
  <2>6. TakeOut(Sorted(ys, none, none), a) = Sorted(Append(ys, a), none, none)
    BY <2>3, TakeOrdinary
  <2>7. Runs(TakingOut, Nothing, Append(ys, a)) = Sorted(Append(ys, a), NoPid, <<>>)
    BY <2>1, <2>2, <2>3, <2>5, <2>6, TakenNext DEF NoPid
  <2> QED  BY <2>4, <2>7 DEF G
<1>3. G \in SUBSET Seq(Ordinary)
  OBVIOUS
<1>4. G = Seq(Ordinary)
  <2> HIDE DEF G
  <2> QED  BY <1>1, <1>2, <1>3, ByAppending
<1> QED  BY <1>4

-----------------------------------------------------------------------------
(* The hidden arguments of relaunchElevated.                               *)
PidArgument(pid)   == <<PidMark>> \o pid
PipeArgument(pipe) == <<PipeMark>> \o pipe

LEMMA Marked ==
    ASSUME NEW m \in Signs, NEW p \in Texts
    PROVE  /\ <<m>> \o p \in Texts /\ Begins(<<m>> \o p, m) /\ Tail(<<m>> \o p) = p
           /\ ToSet(<<m>> \o p) \subseteq {m} \cup ToSet(p)
<1>1. PICK one \in Texts : one = <<m>> /\ Len(one) = 1 /\ one[1] = m
  <2>1. <<m>> \in Texts /\ Len(<<m>>) = 1 /\ <<m>>[1] = m
    BY DEF Texts
  <2> QED  BY <2>1
<1>2. PICK n \in Nat : n = Len(p) /\ DOMAIN p = 1 .. n
  BY LenProperties DEF Texts
<1>3. PICK a \in Texts : a = one \o p
  BY ConcatProperties DEF Texts
<1>4. /\ Len(a) = 1 + n
      /\ \A i \in 1 .. 1 + n : a[i] = IF i <= 1 THEN one[i] ELSE p[i - 1]
  BY <1>1, <1>2, <1>3, ConcatProperties DEF Texts
<1>5. a # <<>> /\ DOMAIN a = 1 .. n + 1
  <2>1. Len(a) # 0
    BY <1>4
  <2>2. a # <<>>
    BY <2>1, EmptySeq
  <2> QED  BY <1>4, <2>2, LenProperties DEF Texts
<1>6. a[1] = m /\ \A i \in 1 .. n : a[i + 1] = p[i]
  <2>1. 1 \in 1 .. 1 + n /\ \A i \in 1 .. n : i + 1 \in 1 .. 1 + n /\ ~(i + 1 <= 1) /\ (i + 1) - 1 = i
    OBVIOUS
  <2>2. a[1] = one[1]
    BY <1>4, <2>1
  <2>3. \A i \in 1 .. n : a[i + 1] = p[i]
    BY <1>4, <2>1
  <2> QED  BY <1>1, <2>2, <2>3
<1>7. Head(a) = m
  <2>1. Head(a) = a[1]
    BY <1>5 DEF Texts
  <2> QED  BY <1>6, <2>1
<1>8. Tail(a) = p
  <2>1. Tail(a) \in Texts /\ Len(Tail(a)) = n /\ \A i \in 1 .. n : Tail(a)[i] = a[i + 1]
    BY <1>2, <1>4, <1>5, HeadTailProperties DEF Texts
  <2> QED  BY <1>2, <1>6, <2>1, SeqEqual DEF Texts
<1>9. ToSet(a) \subseteq {m} \cup ToSet(p)
  <2> SUFFICES ASSUME NEW i \in 1 .. n + 1 PROVE a[i] = m \/ \E j \in DOMAIN p : a[i] = p[j]
    BY <1>5 DEF ToSet
  <2>1. CASE i = 1
    BY <1>6, <2>1
  <2>2. CASE i # 1
    <3>1. i - 1 \in 1 .. n /\ (i - 1) + 1 = i
      BY <2>2
    <3> QED  BY <1>2, <1>6, <3>1
  <2> QED  BY <2>1, <2>2
<1> QED  BY <1>1, <1>3, <1>5, <1>7, <1>8, <1>9 DEF Begins

LEMMA DigitsAre ==
    ASSUME NEW pid \in Seq({Digit})
    PROVE  pid \in Texts /\ ToSet(pid) \subseteq {Digit}
<1>1. pid \in Texts
  <2>1. {Digit} \subseteq Signs
    BY SignsApart
  <2> QED  BY <2>1, SeqMonotonic DEF Texts
<1>2. \A i \in DOMAIN pid : pid[i] \in {Digit}
  BY LenProperties, ElementOfSeq
<1> QED  BY <1>1, <1>2 DEF ToSet

LEMMA PidIs ==
    ASSUME NEW pid \in Seq({Digit})
    PROVE  LET a == PidArgument(pid)
           IN  /\ a \in Texts /\ Begins(a, PidMark) /\ Tail(a) = pid
               /\ QuoteArgument(a) = a
<1>1. PICK a \in Texts : a = PidArgument(pid) /\ Begins(a, PidMark) /\ Tail(a) = pid
                         /\ ToSet(a) \subseteq {PidMark} \cup ToSet(pid)
  BY Marked, DigitsAre, SignsApart DEF PidArgument
<1>2. Plain(a)
  <2>1. ToSet(a) \subseteq {PidMark, Digit}
    BY <1>1, DigitsAre
  <2>2. ToSet(a) \cap {Space, Quote} = {}
    BY <2>1, SignsApart
  <2> QED  BY <1>1, <2>2 DEF Plain, Begins
<1> QED  BY <1>1, <1>2 DEF QuoteArgument

(* The words of the child's line.                                          *)
Words(xs, pid, pipe) ==
    IF pipe = <<>> THEN Append(xs, PidArgument(pid))
    ELSE Append(Append(xs, PidArgument(pid)), PipeArgument(pipe))

LEMMA WordsTyped ==
    ASSUME NEW xs \in Seq(Texts), NEW pid \in Seq({Digit}), NEW pipe \in Texts
    PROVE  Words(xs, pid, pipe) \in Seq(Texts)
<1>1. PidArgument(pid) \in Texts
  BY PidIs
<1>2. PipeArgument(pipe) \in Texts
  BY Marked, SignsApart DEF PipeArgument
<1>3. PICK a \in Texts : a = PidArgument(pid)
  BY <1>1
<1>4. PICK b \in Texts : b = PipeArgument(pipe)
  BY <1>2
<1>5. Append(xs, a) \in Seq(Texts)
  BY AppendProperties
<1>6. Append(Append(xs, a), b) \in Seq(Texts)
  BY <1>5, AppendProperties
<1> QED  BY <1>3, <1>4, <1>5, <1>6 DEF Words

LEMMA ThreeParts ==
    ASSUME NEW x \in Seq(Texts), NEW y \in Seq(Texts), NEW z \in Seq(Texts)
    PROVE  (x \o y) \o z = x \o (y \o z)
  BY ConcatAssociative

LEMMA ParametersAre ==
    ASSUME NEW xs \in Seq(Texts), NEW pid \in Seq({Digit}), NEW pipe \in Texts
    PROVE  Parameters(xs, pid, pipe) = LineOf(Words(xs, pid, pipe))
<1>1. PICK a \in Texts : a = PidArgument(pid) /\ QuoteArgument(a) = a
  BY PidIs
<1>2. PICK b \in Texts : b = PipeArgument(pipe)
  BY Marked, SignsApart DEF PipeArgument
<1>3. PICK c \in Texts : c = QuoteArgument(b)
  BY WordRead, EmptySeq
<1>4. PICK q \in Seq(Texts) : q = Quotes(xs)
  BY QuotesTyped
<1> DEFINE hidden == <<a>> \o IF pipe = <<>> THEN <<>> ELSE <<c>>
<1>5. Parameters(xs, pid, pipe) = FlattenSeq(Spaced(q \o hidden))
  <2>1. Parameters(xs, pid, pipe) =
          FlattenSeq(Spaced(Quotes(xs) \o (<<PidArgument(pid)>> \o
            IF pipe = <<>> THEN <<>> ELSE <<QuoteArgument(PipeArgument(pipe))>>)))
    BY DEF Parameters, Quotes, Spaced, PidArgument, PipeArgument
  <2> QED  BY <1>1, <1>2, <1>3, <1>4, <2>1
<1>6. PICK y \in Seq(Texts) : y = <<a>>
  <2>1. <<a>> \in Seq(Texts)
    OBVIOUS
  <2> QED  BY <2>1
<1>7. PICK z \in Seq(Texts) : z = <<c>>
  <2>1. <<c>> \in Seq(Texts)
    OBVIOUS
  <2> QED  BY <2>1
<1>8. PICK xa \in Seq(Texts) : xa = Append(xs, a)
  BY AppendProperties
<1>9. PICK qa \in Seq(Texts) : qa = Append(q, a)
  BY AppendProperties
<1>10. Quotes(xa) = qa
  BY <1>1, <1>4, <1>8, <1>9, QuotesMore
<1>11. q \o y = qa
  BY <1>6, <1>9, AppendIsConcat
<1>12. CASE pipe = <<>>
  <2>1. hidden = y
    BY <1>6, <1>12, ConcatEmptySeq
  <2>2. Words(xs, pid, pipe) = xa
    BY <1>1, <1>8, <1>12 DEF Words
  <2> HIDE DEF hidden
  <2> QED  BY <1>5, <1>10, <1>11, <2>1, <2>2 DEF LineOf
<1>13. CASE pipe # <<>>
  <2>1. hidden = y \o z
    BY <1>6, <1>7, <1>13
  <2>2. Words(xs, pid, pipe) = Append(xa, b)
    BY <1>1, <1>2, <1>8, <1>13 DEF Words
  <2> HIDE DEF hidden
  <2>3. q \o (y \o z) = qa \o z
    <3>1. (q \o y) \o z = q \o (y \o z)
      BY ThreeParts
    <3> QED  BY <1>11, <3>1
  <2>4. qa \o z = Append(qa, c)
    BY <1>7, AppendIsConcat
  <2>5. Quotes(Append(xa, b)) = Append(qa, c)
    BY <1>3, <1>10, QuotesMore
  <2> QED  BY <1>5, <2>1, <2>2, <2>3, <2>4, <2>5 DEF LineOf
<1> QED  BY <1>12, <1>13

LEMMA WordsTaken ==
    ASSUME NEW xs \in Seq(Ordinary), NEW pid \in Seq({Digit}), NEW pipe \in Texts
    PROVE  Effective(Words(xs, pid, pipe)) = Sorted(xs, pid, pipe)
<1>1. PICK a \in Texts : a = PidArgument(pid) /\ Begins(a, PidMark) /\ Tail(a) = pid
  BY PidIs
<1>2. PICK b \in Texts : b = PipeArgument(pipe) /\ Begins(b, PipeMark) /\ Tail(b) = pipe
  BY Marked, SignsApart DEF PipeArgument
<1>3. PICK none \in Texts : none = <<>>
  BY EmptySeq DEF Texts
<1>4. xs \in Seq(Texts)
  BY SeqMonotonic DEF Ordinary
<1>5. PICK xa \in Seq(Texts) : xa = Append(xs, a)
  BY <1>4, AppendProperties
<1>6. PICK p \in Texts : p = pid
  BY DigitsAre
<1>7. Runs(TakingOut, Nothing, xa) = Sorted(xs, p, none)
  <2>1. Runs(TakingOut, Nothing, xs) = Sorted(xs, none, none)
    BY <1>3, OrdinaryTaken DEF NoPid
  <2>2. Runs(TakingOut, Nothing, xa) = TakeOut(Sorted(xs, none, none), a)
    BY <1>4, <1>5, <2>1, TakenNext
  <2>3. ToSet(Tail(a)) \subseteq {Digit}
    BY <1>1, DigitsAre
  <2> QED  BY <1>1, <1>4, <1>6, <2>2, <2>3, TakePid
<1>8. Effective(Words(xs, pid, pipe)) = Runs(TakingOut, Nothing, Words(xs, pid, pipe))
  BY <1>4, WordsTyped, EffectiveIs
<1>9. CASE pipe = <<>>
  <2>1. Words(xs, pid, pipe) = xa
    BY <1>1, <1>5, <1>9 DEF Words
  <2> QED  BY <1>3, <1>6, <1>7, <1>8, <1>9, <2>1
<1>10. CASE pipe # <<>>
  <2>1. Words(xs, pid, pipe) = Append(xa, b)
    BY <1>1, <1>2, <1>5, <1>10 DEF Words
  <2>2. Runs(TakingOut, Nothing, Append(xa, b)) = TakeOut(Sorted(xs, p, none), b)
    BY <1>7, TakenNext
  <2>3. TakeOut(Sorted(xs, p, none), b) = Sorted(xs, p, pipe)
    <3>1. TakeOut(Sorted(xs, p, none), b) = Sorted(xs, p, Tail(b))
      BY <1>2, <1>4, TakePipe
    <3> QED  BY <1>2, <3>1
  <2> QED  BY <1>6, <1>8, <2>1, <2>2, <2>3
<1> QED  BY <1>9, <1>10

(* Whatever the launcher was given, its child reads what it passed on.     *)
LEMMA Arrive ==
    ASSUME NEW given \in Seq(Texts), NEW pid \in Seq({Digit}), NEW pipe \in Texts
    PROVE  LET arguments == Effective(given).arguments
           IN  Effective(TakeApart(Parameters(arguments, pid, pipe))) =
                 [arguments |-> arguments, consolePid |-> pid, outputPipe |-> pipe]
<1>1. PICK xs \in Seq(Ordinary) : xs = Effective(given).arguments
  BY EffectiveTaken
<1>2. xs \in Seq(Texts)
  BY SeqMonotonic DEF Ordinary
<1>3. PICK ws \in Seq(Texts) : ws = Words(xs, pid, pipe)
  BY <1>2, WordsTyped
<1>4. TakeApart(Parameters(xs, pid, pipe)) = ws
  BY <1>2, <1>3, ParametersAre, TakesApart
<1>5. Effective(ws) = [arguments |-> xs, consolePid |-> pid, outputPipe |-> pipe]
  BY <1>3, WordsTaken DEF Sorted
<1> QED  BY <1>1, <1>4, <1>5

(* The child reads from its command line exactly the arguments the         *)
(* launcher passes on, its process and its pipe, whatever characters the   *)
(* arguments are made of: quoteArgument and wmain undo each other.         *)
THEOREM ArgumentsKept == Spec => []ArgumentsArrive
<1>1. ArgumentsArrive
  <2>1. Seq(STRING) \subseteq Texts
    BY SeqMonotonic DEF Texts, Signs
  <2>2. \A given \in Given : given \in Seq(Texts)
    BY <2>1, SeqMonotonic, TextAssumption
  <2>3. PipeName \in Texts /\ <<>> \in Texts
    BY <2>1, EmptySeq, TextAssumption DEF Texts
  <2>4. Pid \in Seq({Digit})
    BY TextAssumption
  <2> SUFFICES ASSUME NEW given \in Given
               PROVE  LET arguments == Effective(given).arguments
                          pipe == IF server = "open" THEN PipeName ELSE <<>>
                      IN  Effective(TakeApart(Parameters(arguments, Pid, pipe))) =
                            [arguments |-> arguments, consolePid |-> Pid, outputPipe |-> pipe]
    BY DEF ArgumentsArrive
  <2>5. PICK pipe \in Texts : pipe = IF server = "open" THEN PipeName ELSE <<>>
    BY <2>3
  <2> QED  BY <2>2, <2>4, <2>5, Arrive
<1> QED  BY <1>1, PTL

=============================================================================
