-------------------------- MODULE CncRestartProofs --------------------------
(***************************************************************************)
(* Theorems about CncRestart for any services, dependencies and numbers of *)
(* failures and restarts: type correctness; that its window neither closes *)
(* nor starts anything else on the services while a restart is under way;  *)
(* what a restart does to the services.                                    *)
(***************************************************************************)
EXTENDS CncRestart, TLAPS, SequenceTheorems

(* The window waits for the updater in one place only.                    *)
AwaitsUpdate == updater = "awaited" <=> ui = "await"

(* The worker posts its message with its last step.                        *)
PostedLast == posted # "none" => at = "none"

(* What makes WindowGuarded and UpdateApart inductive.                     *)
IInv == TypeOK /\ WindowGuarded /\ UpdateApart /\ AwaitsUpdate /\ PostedLast

-----------------------------------------------------------------------------

(* Leaving a dependent shortens the path and keeps TermService in it.      *)
LEMMA PathShortens ==
    ASSUME NEW p \in Seq(Services), Len(p) > 1
    PROVE  Front(p) \in Seq(Services) /\ Front(p) # <<>>
<1>1. Len(p) - 1 \in Nat /\ Len(p) - 1 >= 1 /\ \A i \in 1 .. Len(p) - 1 : p[i] \in Services
  OBVIOUS
<1>2. /\ SubSeq(p, 1, Len(p) - 1) \in Seq(Services)
      /\ Len(SubSeq(p, 1, Len(p) - 1)) = Len(p) - 1
  BY <1>1, SubSeqProperties
<1>3. Len(<<>>) = 0
  OBVIOUS
<1>4. Len(p) - 1 # 0
  BY <1>1
<1>5. SubSeq(p, 1, Len(p) - 1) # <<>>
  BY <1>2, <1>3, <1>4, Zenon
<1> QED  BY <1>2, <1>5 DEF Front

(* Taking the last name off a list of services leaves such a list.         *)
LEMMA LastTaken ==
    ASSUME NEW p \in Seq(Services), p # <<>>
    PROVE  Front(p) \in Seq(Services) /\ Last(p) \in Services
<1>1. Len(p) \in Nat /\ Len(p) >= 1
  BY EmptySeq
<1>2. Last(p) \in Services
  BY <1>1 DEF Last
<1>3. \A i \in 1 .. Len(p) - 1 : p[i] \in Services
  BY <1>1
<1>4. SubSeq(p, 1, Len(p) - 1) \in Seq(Services)
  BY <1>1, <1>3, SubSeqProperties
<1> QED  BY <1>2, <1>4 DEF Front

(* A call that works or fails keeps the count of failures in its bound.    *)
LEMMA FaultsCounted ==
    ASSUME faults \in 0 .. MaxFaults, NEW kind, Works \/ Fails(kind)
    PROVE  faults' \in 0 .. MaxFaults
BY CountsAssumption DEF Works, Fails

(* However the visit of a service ends, the worker has a typed next call.  *)
LEMMA StopReturnsTyped ==
    ASSUME TypeOK, NEW ok \in BOOLEAN, StopReturns(ok)
    PROVE  /\ at' \in {"visit", "start"} /\ okay' \in BOOLEAN
           /\ path' \in Seq(Services) /\ path' # <<>>
BY PathShortens DEF TypeOK, StopReturns, AfterStopping

(* The same when a service has been started, or could not be.              *)
LEMMA StartReturnsTyped ==
    ASSUME TypeOK, NEW ok \in BOOLEAN, StartReturns(ok)
    PROVE  /\ at' \in {"start", "post"} /\ okay' \in BOOLEAN
           /\ stopped' \in Seq(Services) /\ cur' \in Services
BY LastTaken DEF TypeOK, StartReturns, NextToStart

(* What the manager accepts leaves every service in a state it knows.      *)
LEMMA ManagerTyped ==
    ASSUME TypeOK, NEW s \in Services, StopAccepted(s) \/ StartAccepted(s)
    PROVE  svc' \in [Services -> {"stopped", "starting", "running", "stopping"}]
BY DEF TypeOK, StopAccepted, StartAccepted

-----------------------------------------------------------------------------
(* Type correctness, action by action.                                     *)

LEMMA TypeInit == Init => TypeOK
<1> SUFFICES ASSUME Init PROVE TypeOK
  OBVIOUS
<1>1. Term \in Services
  BY TreeAssumption
<1>2. <<Term>> \in Seq(Services) /\ <<Term>> # <<>> /\ <<>> \in Seq(Services)
  BY <1>1
<1>3. svc \in [Services -> {"stopped", "starting", "running", "stopping"}]
  BY DEF Init
<1>4. faults \in 0 .. MaxFaults /\ meddling \in 0 .. MaxMeddling /\ restarts \in 0 .. MaxRestarts
  BY CountsAssumption DEF Init
<1>5. names \in [Services -> SUBSET Services]
  BY DEF Init
<1> QED  BY <1>1, <1>2, <1>3, <1>4, <1>5 DEF Init, TypeOK, Calls

LEMMA TypeWindow == TypeOK /\ Window => TypeOK'
<1> SUFFICES ASSUME TypeOK, Window PROVE TypeOK'
  OBVIOUS
<1> USE DEF TypeOK, Calls, windowVars, workerVars, counts
<1>1. CASE AskRestart
  BY <1>1 DEF AskRestart
<1>2. CASE Decline
  BY <1>2 DEF Decline
<1>3. CASE BeginRestart
  <2>1. <<Term>> \in Seq(Services) /\ <<Term>> # <<>> /\ <<>> \in Seq(Services)
    BY TreeAssumption
  <2>2. Running \subseteq Services
    BY DEF Running
  <2>3. faults' \in 0 .. MaxFaults
    BY <1>3, FaultsCounted DEF BeginRestart
  <2>4. restarts' \in 0 .. MaxRestarts
    BY <1>3, CountsAssumption DEF BeginRestart
  <2> QED  BY <1>3, <2>1, <2>2, <2>3, <2>4, TreeAssumption DEF BeginRestart
<1>4. CASE RestartComplete
  BY <1>4 DEF RestartComplete
<1>5. CASE Close
  BY <1>5 DEF Close
<1>6. CASE LaunchUpdate
  BY <1>6 DEF LaunchUpdate
<1>7. CASE UpdateEnds
  BY <1>7 DEF UpdateEnds
<1>8. CASE UpdateOutlivesWait
  BY <1>8 DEF UpdateOutlivesWait
<1> QED  BY <1>1, <1>2, <1>3, <1>4, <1>5, <1>6, <1>7, <1>8 DEF Window

LEMMA TypeWorker == TypeOK /\ Worker => TypeOK'
<1> SUFFICES ASSUME TypeOK, Worker PROVE TypeOK'
  OBVIOUS
<1> USE DEF TypeOK, Calls, windowVars, workerVars, counts
<1>0. Top \in Services
  BY LastTaken DEF Top
<1>1. CASE OpenTerm
  BY <1>1, FaultsCounted DEF OpenTerm
<1>2. CASE Enumerate
  <2>1. faults' \in 0 .. MaxFaults
    BY <1>2, FaultsCounted DEF Enumerate
  <2>2. names' \in [Services -> SUBSET Services]
    <3>1. Below[Top] \cap Active \in SUBSET Services
      BY DEF Active
    <3>2. UNCHANGED names \/ names' = [names EXCEPT ![Top] = Below[Top] \cap Active]
      BY <1>2 DEF Enumerate
    <3> QED  BY <3>1, <3>2
  <2>3. CASE StopReturns(FALSE)
    BY <1>2, <2>1, <2>2, <2>3, StopReturnsTyped DEF Enumerate
  <2>4. CASE at' = "visit" /\ UNCHANGED <<path, okay>>
    BY <1>2, <2>1, <2>2, <2>4 DEF Enumerate
  <2> QED  BY <1>2, <2>3, <2>4 DEF Enumerate
<1>3. CASE Visit
  <2>1. faults' \in 0 .. MaxFaults
    BY <1>3, FaultsCounted DEF Visit
  <2>2. names' \in [Services -> SUBSET Services]
    BY <1>0, <1>3 DEF Visit
  <2>3. CASE StopReturns(FALSE)
    BY <1>3, <2>1, <2>2, <2>3, StopReturnsTyped DEF Visit
  <2>4. ASSUME NEW s \in Services, path' = Append(path, s), at' = "enumerate", UNCHANGED okay
        PROVE  TypeOK'
    <3>1. path' \in Seq(Services) /\ path' # <<>>
      BY <2>4
    <3> QED  BY <1>3, <2>1, <2>2, <2>4, <3>1 DEF Visit
  <2>5. CASE at' = "stop" /\ UNCHANGED <<path, names, okay>>
    BY <1>3, <2>1, <2>5 DEF Visit
  <2> QED  BY <1>0, <1>3, <2>3, <2>4, <2>5 DEF Visit
<1>4. CASE StopService
  <2>1. faults' \in 0 .. MaxFaults
    BY <1>4, FaultsCounted DEF StopService
  <2>2. CASE UNCHANGED <<svc, stopped, ours>> /\ \E ok \in BOOLEAN : StopReturns(ok)
    BY <1>4, <2>1, <2>2, StopReturnsTyped DEF StopService
  <2>3. CASE at' = "stopWait" /\ UNCHANGED <<svc, path, stopped, okay, ours>>
    BY <1>4, <2>1, <2>3 DEF StopService
  <2>4. CASE /\ StopAccepted(Top) /\ Record(Top) /\ ours' = ours \cup {Top}
             /\ at' = "stopWait" /\ UNCHANGED <<path, okay>>
    <3>1. svc' \in [Services -> {"stopped", "starting", "running", "stopping"}]
      BY <1>0, <2>4, ManagerTyped
    <3>2. stopped' \in Seq(Services)
      BY <1>0, <2>4 DEF Record
    <3> QED  BY <1>0, <1>4, <2>1, <2>4, <3>1, <3>2 DEF StopService
  <2> QED  BY <1>4, <2>2, <2>3, <2>4 DEF StopService
<1>5. CASE StopWait
  <2>1. faults' \in 0 .. MaxFaults
    BY <1>5, FaultsCounted DEF StopWait
  <2> QED  BY <1>5, <2>1, StopReturnsTyped DEF StopWait
<1>6. CASE StartService
  <2>1. faults' \in 0 .. MaxFaults
    BY <1>6, FaultsCounted DEF StartService
  <2>2. CASE \E ok \in BOOLEAN : StartReturns(ok)
    BY <1>6, <2>1, <2>2, StartReturnsTyped DEF StartService
  <2>3. CASE at' \in {"startWait", "downWait", "request"} /\ UNCHANGED <<stopped, cur, okay>>
    BY <1>6, <2>1, <2>3 DEF StartService
  <2> QED  BY <1>6, <2>2, <2>3 DEF StartService
<1>7. CASE DownWait
  <2>1. faults' \in 0 .. MaxFaults
    BY <1>7, FaultsCounted DEF DownWait
  <2> QED  BY <1>7, <2>1, StartReturnsTyped DEF DownWait
<1>8. CASE RequestStart
  <2>1. faults' \in 0 .. MaxFaults
    BY <1>8, FaultsCounted DEF RequestStart
  <2>2. svc' \in [Services -> {"stopped", "starting", "running", "stopping"}]
    BY <1>8, ManagerTyped DEF RequestStart
  <2> QED  BY <1>8, <2>1, <2>2, StartReturnsTyped DEF RequestStart
<1>9. CASE StartWait
  <2>1. faults' \in 0 .. MaxFaults
    BY <1>9, FaultsCounted DEF StartWait
  <2> QED  BY <1>9, <2>1, StartReturnsTyped DEF StartWait
<1>10. CASE PostComplete
  <2>1. faults' \in 0 .. MaxFaults
    BY <1>10, FaultsCounted DEF PostComplete
  <2> QED  BY <1>10, <2>1 DEF PostComplete
<1> QED  BY <1>1, <1>2, <1>3, <1>4, <1>5, <1>6, <1>7, <1>8, <1>9, <1>10 DEF Worker

LEMMA TypeOthers == TypeOK /\ (Manager \/ Meddle) => TypeOK'
<1> SUFFICES ASSUME TypeOK, Manager \/ Meddle PROVE TypeOK'
  OBVIOUS
<1> USE DEF TypeOK, Calls, windowVars, workerVars, counts
<1>1. CASE ServiceStops
  BY <1>1 DEF ServiceStops
<1>2. CASE ServiceStarts
  <2>1. faults' \in 0 .. MaxFaults
    BY <1>2, FaultsCounted DEF ServiceStarts
  <2> QED  BY <1>2, <2>1 DEF ServiceStarts
<1>3. CASE Meddle
  <2>1. meddling' \in 0 .. MaxMeddling
    BY <1>3, CountsAssumption DEF Meddle
  <2>2. svc' \in [Services -> {"stopped", "starting", "running", "stopping"}]
    BY <1>3, ManagerTyped DEF Meddle
  <2> QED  BY <1>3, <2>1, <2>2 DEF Meddle
<1> QED  BY <1>1, <1>2, <1>3 DEF Manager

(* Every variable keeps its type, whatever fails or interferes.            *)
THEOREM TypeCorrect == Spec => []TypeOK
<1>1. TypeOK /\ [Next]_vars => TypeOK'
  <2> SUFFICES ASSUME TypeOK, [Next]_vars PROVE TypeOK'
    OBVIOUS
  <2>1. CASE UNCHANGED vars
    BY <2>1 DEF vars, windowVars, workerVars, counts, TypeOK, Calls
  <2> QED  BY <2>1, TypeWindow, TypeWorker, TypeOthers DEF Next, Over
<1> QED  BY <1>1, TypeInit, PTL DEF Spec

-----------------------------------------------------------------------------
(* The window and the worker.                                              *)

(* A worker that runs has not posted yet, and its window is held.          *)
LEMMA HeldWhileWorking ==
    ASSUME IInv, at # "none"
    PROVE  restarting /\ ~buttons /\ ui # "closed" /\ updater # "awaited" /\ posted = "none"
BY DEF IInv, TypeOK, WindowGuarded, UpdateApart, PostedLast, Underway

LEMMA GuardInit == Init => IInv
BY TypeInit DEF Init, IInv, WindowGuarded, UpdateApart, AwaitsUpdate, PostedLast, Underway

LEMMA GuardWindow == IInv /\ Window => IInv'
<1> SUFFICES ASSUME IInv, Window PROVE IInv'
  OBVIOUS
<1>1. TypeOK'
  BY TypeWindow DEF IInv
<1> USE DEF WindowGuarded, UpdateApart, AwaitsUpdate, PostedLast, Underway
<1>2. CASE AskRestart \/ Decline
  BY <1>1, <1>2 DEF AskRestart, Decline, IInv, workerVars
<1>3. CASE BeginRestart
  BY <1>1, <1>3 DEF BeginRestart, IInv, workerVars
<1>4. CASE RestartComplete
  BY <1>1, <1>4 DEF RestartComplete, IInv, workerVars
<1>5. CASE Close
  BY <1>1, <1>5 DEF Close, IInv, workerVars
<1>6. CASE LaunchUpdate
  BY <1>1, <1>6 DEF LaunchUpdate, IInv, workerVars
<1>7. CASE UpdateEnds \/ UpdateOutlivesWait
  BY <1>1, <1>7 DEF UpdateEnds, UpdateOutlivesWait, IInv, workerVars
<1> QED  BY <1>2, <1>3, <1>4, <1>5, <1>6, <1>7 DEF Window

LEMMA GuardWorker == IInv /\ Worker => IInv'
<1> SUFFICES ASSUME IInv, Worker PROVE IInv'
  OBVIOUS
<1>1. TypeOK'
  BY TypeWorker DEF IInv
<1>2. at # "none"
  BY DEF Worker, OpenTerm, Enumerate, Visit, StopService, StopWait,
         StartService, DownWait, RequestStart, StartWait, PostComplete
<1>3. CASE PostComplete
  BY <1>1, <1>2, <1>3, HeldWhileWorking
     DEF PostComplete, IInv, WindowGuarded, UpdateApart, AwaitsUpdate, PostedLast, Underway
<1>4. CASE UNCHANGED windowVars
  BY <1>1, <1>2, <1>4, HeldWhileWorking
     DEF windowVars, IInv, WindowGuarded, UpdateApart, AwaitsUpdate, PostedLast, Underway
<1> QED  BY <1>3, <1>4 DEF Worker, OpenTerm, Enumerate, Visit, StopService, StopWait,
                           StartService, DownWait, RequestStart, StartWait

LEMMA GuardInvariant == Spec => []IInv
<1>1. IInv /\ [Next]_vars => IInv'
  <2> SUFFICES ASSUME IInv, [Next]_vars PROVE IInv'
    OBVIOUS
  <2>1. CASE Manager \/ Meddle
    BY <2>1, TypeOthers
       DEF Manager, ServiceStops, ServiceStarts, Meddle, windowVars, workerVars,
           IInv, WindowGuarded, UpdateApart, AwaitsUpdate, PostedLast, Underway
  <2>2. CASE UNCHANGED vars
    BY <2>2 DEF vars, windowVars, workerVars, counts, IInv, TypeOK, Calls,
                WindowGuarded, UpdateApart, AwaitsUpdate, PostedLast, Underway
  <2> QED  BY <2>1, <2>2, GuardWindow, GuardWorker DEF Next, Over
<1> QED  BY <1>1, GuardInit, PTL DEF Spec

(* While a restart is under way the window neither closes nor offers a     *)
(* second one, for any services, failures and interference (main.cpp:      *)
(* 456-476, 488-500, 1039-1045).                                           *)
THEOREM Guarded == Spec => []WindowGuarded
BY GuardInvariant, PTL DEF IInv

(* It never runs while the window waits for an update it launched, nor the *)
(* other way round (main.cpp:456-465, 975-984).                            *)
THEOREM UpdateKeptApart == Spec => []UpdateApart
BY GuardInvariant, PTL DEF IInv

-----------------------------------------------------------------------------
(* The services: the list of what has to be restored, and what runs again. *)

(* The first half of the worker; it ends with the start of TermService, or *)
(* at once when that cannot be opened.                                     *)
Stops == {"open", "enumerate", "visit", "stop", "stopWait"}

(* The list is the dependents that the worker stopped, until it takes them *)
(* off one by one to start them.                                           *)
Listed ==
    /\ at \in Stops => cur = Term /\ Range(stopped) = ours \ {Term}
    /\ at \in Starting =>
         /\ Range(stopped) \subseteq ours \ {Term} /\ cur \in ours \cup {Term}
         /\ cur = Term => ours \subseteq Range(stopped) \cup {Term}

(* If nobody else stops a service, one that ran runs or was stopped by the *)
(* worker; and if nothing failed, all but those it has still to start run. *)
Accounted == meddling = 0 =>
    /\ at # "none" => before \subseteq Running \cup ours
    /\ at \in Starting /\ okay =>
         /\ ours \subseteq Running \cup Range(stopped) \cup {cur}
         /\ cur # Term => Term \in Running
    /\ at = "post" /\ okay => ours \cup {Term} \subseteq Running
    /\ posted = "ok" => before \cup {Term} \subseteq Running

(* Of the calls only those that stop may fail.                             *)
OnlyStopping == Faults \cap {"connect", "start", "startWait"} = {}

InState(x) == {s \in Services : svc[s] = x}

(* Without others: what a service depends on runs, or starts with it.      *)
Depend == \A s \in Services :
    /\ svc[s] \in {"running", "stopping"} => Above(s) \subseteq Running
    /\ svc[s] = "starting" => \A t \in Above(s) : svc[t] \in {"running", "starting"}

(* A service is on the list before all that it depends on, so the reverse  *)
(* order starts it after them.                                             *)
Ordered ==
    /\ at \in Stops => \A s \in ours : svc[s] \in {"stopped", "stopping"}
    /\ \A i, j \in 1 .. Len(stopped) : i < j => stopped[j] \notin Below[stopped[i]]
    /\ at \in Starting => \A i \in 1 .. Len(stopped) : cur \notin Below[stopped[i]]

(* What still stops will be started again, what starts is waited for, and  *)
(* the second half leaves nothing behind.                                  *)
Between ==
    /\ at # "startWait" => InState("starting") = {}
    /\ at \in Stops => InState("stopping") \subseteq ours
    /\ at \in Starting =>
         /\ InState("stopping") \subseteq Range(stopped) \cup {cur}
         /\ ours \subseteq Running \cup Range(stopped) \cup {cur}
         /\ cur # Term => Term \in Running
    /\ at = "downWait" => svc[cur] \in {"stopping", "stopped"}
    /\ at = "request" => svc[cur] = "stopped"
    /\ at = "startWait" => /\ svc[cur] \in {"starting", "running"}
                           /\ InState("starting") \subseteq {cur} \cup Above(cur)
    /\ at \in {"post", "none"} => InState("stopping") = {}
    /\ at = "post" => ours \cup {Term} \subseteq Running
    /\ posted # "none" => before \cup {Term} \subseteq Running

Restored == meddling = 0 => Depend /\ Ordered /\ Between

-----------------------------------------------------------------------------
(* Lists of services.                                                      *)

LEMMA RangeEmpty == Range(<<>>) = {}
BY DEF Range

LEMMA RangeAppend ==
    ASSUME NEW p \in Seq(Services), NEW s \in Services
    PROVE  Range(Append(p, s)) = Range(p) \cup {s}
<1> DEFINE q == Append(p, s)
<1>1. Len(p) \in Nat /\ DOMAIN p = 1 .. Len(p) /\ DOMAIN q = 1 .. Len(p) + 1
  OBVIOUS
<1>2. q[Len(p) + 1] = s /\ \A i \in 1 .. Len(p) : q[i] = p[i]
  OBVIOUS
<1>3. 1 .. Len(p) + 1 = 1 .. Len(p) \cup {Len(p) + 1}
  BY <1>1
<1> HIDE DEF q
<1>4. Range(q) = Range(p) \cup {s}
  BY <1>1, <1>2, <1>3 DEF Range
<1> QED  BY <1>4 DEF q

LEMMA FrontIs ==
    ASSUME NEW p \in Seq(Services), p # <<>>
    PROVE  /\ Len(p) \in Nat \ {0} /\ Len(Front(p)) = Len(p) - 1 /\ DOMAIN Front(p) = 1 .. Len(p) - 1
           /\ \A i \in 1 .. Len(p) - 1 : Front(p)[i] = p[i]
           /\ Last(p) = p[Len(p)]
<1>1. Len(p) \in Nat /\ Len(p) >= 1
  BY EmptySeq
<1>2. \A i \in 1 .. Len(p) - 1 : p[i] \in Services
  BY <1>1
<1>3. Len(SubSeq(p, 1, Len(p) - 1)) = Len(p) - 1
  <2> DEFINE n == Len(p) - 1
  <2>1. n \in Int /\ 1 \in Int /\ n >= 0 /\ \A i \in 1 .. n : p[i] \in Services
    BY <1>1, <1>2
  <2> HIDE DEF n
  <2>2. Len(SubSeq(p, 1, n)) = IF 1 <= n THEN n - 1 + 1 ELSE 0
    BY <2>1, SubSeqProperties
  <2>3. CASE 1 <= n
    <3>1. Len(SubSeq(p, 1, n)) = n - 1 + 1
      BY <2>2, <2>3
    <3> QED  BY <2>1, <3>1 DEF n
  <2>4. CASE n = 0
    BY <2>2, <2>4 DEF n
  <2> QED  BY <2>1, <2>3, <2>4
<1>4. \A i \in 1 .. Len(p) - 1 : SubSeq(p, 1, Len(p) - 1)[i] = p[i]
  BY <1>1, <1>2, SubSeqProperties
<1>5. SubSeq(p, 1, Len(p) - 1) \in Seq(Services)
  BY <1>1, <1>2, SubSeqProperties
<1>6. DOMAIN Front(p) = 1 .. Len(p) - 1
  BY <1>3, <1>5, LenProperties DEF Front
<1> QED  BY <1>1, <1>3, <1>4, <1>6 DEF Front, Last

LEMMA RangeTaken ==
    ASSUME NEW p \in Seq(Services), p # <<>>
    PROVE  Range(p) = Range(Front(p)) \cup {Last(p)}
<1> DEFINE q == Front(p)
<1>1. /\ Len(p) \in Nat \ {0} /\ DOMAIN p = 1 .. Len(p) /\ DOMAIN q = 1 .. Len(p) - 1
      /\ \A i \in 1 .. Len(p) - 1 : q[i] = p[i]
      /\ Last(p) = p[Len(p)]
  BY FrontIs
<1> HIDE DEF q
<1>2. 1 .. Len(p) = 1 .. Len(p) - 1 \cup {Len(p)}
  BY <1>1
<1>3. Range(p) = Range(q) \cup {Last(p)}
  BY <1>1, <1>2 DEF Range
<1> QED  BY <1>3 DEF q

-----------------------------------------------------------------------------
(* The steps of the worker, as the list sees them.                         *)

(* In the first half it may record the service it is at; in the second it  *)
(* is with one service until it turns to the next.                         *)
Looking   == at \in Stops /\ at' \in Stops \cup {"start"} /\ UNCHANGED <<svc, cur, stopped, ours>>
Recording == /\ at = "stop" /\ CanStop(Top) /\ StopAccepted(Top)
             /\ at' = "stopWait" /\ Record(Top) /\ ours' = ours \cup {Top} /\ UNCHANGED cur
NotOpened == at = "open" /\ at' = "post" /\ Fails("connect") /\ UNCHANGED <<cur, stopped, ours>>
Trying    == at \in Starting /\ at' \in Starting /\ UNCHANGED <<cur, stopped, ours, okay>>
TurnsTo   == /\ at \in Starting /\ UNCHANGED <<svc, ours>>
             /\ \E ok \in BOOLEAN : StartReturns(ok) /\ (ok => cur \in Running)
Posting   == at = "post" /\ at' = "none" /\ UNCHANGED <<cur, stopped, ours>>

LEMMA WorkerDoes ==
    ASSUME TypeOK, Worker
    PROVE  Looking \/ Recording \/ NotOpened \/ Trying \/ TurnsTo \/ Posting
<1> USE DEF Looking, Recording, NotOpened, Trying, TurnsTo, Posting, Stops, Starting, Running, TypeOK
<1>0. \A ok \in BOOLEAN : StopReturns(ok) => at' \in {"visit", "start"}
  BY DEF StopReturns, AfterStopping
<1>1. CASE OpenTerm
  BY <1>1 DEF OpenTerm
<1>2. CASE Enumerate \/ Visit
  BY <1>0, <1>2 DEF Enumerate, Visit
<1>3. CASE StopService
  BY <1>0, <1>3 DEF StopService
<1>4. CASE StopWait
  BY <1>0, <1>4 DEF StopWait
<1>5. CASE StartService
  <2>1. svc[cur] \in {"stopped", "starting", "running", "stopping"}
    BY DEF TypeOK
  <2> QED  BY <1>5, <2>1 DEF StartService
<1>6. CASE DownWait
  BY <1>6 DEF DownWait
<1>7. CASE RequestStart
  BY <1>7 DEF RequestStart
<1>8. CASE StartWait
  BY <1>8 DEF StartWait
<1>9. CASE PostComplete
  BY <1>9 DEF PostComplete
<1> QED  BY <1>1, <1>2, <1>3, <1>4, <1>5, <1>6, <1>7, <1>8, <1>9 DEF Worker

LEMMA Apart ==
    /\ Stops \cap Starting = {} /\ Term \in Services
    /\ "none" \notin Stops \cup Starting /\ "post" \notin Stops \cup Starting
    /\ "start" \in Starting /\ "start" \notin Stops /\ "stop" \in Stops /\ "stopWait" \in Stops /\ "open" \in Stops
BY TreeAssumption DEF Stops, Starting

LEMMA Turning ==
    ASSUME TypeOK, NEW ok \in BOOLEAN, StartReturns(ok)
    PROVE  \/ at' = "post" /\ stopped = <<>> /\ stopped' = stopped /\ cur' = cur
           \/ /\ at' = "start" /\ stopped # <<>> /\ stopped' = Front(stopped) /\ cur' = Last(stopped)
              /\ Range(stopped) = Range(stopped') \cup {cur'}
<1>1. stopped \in Seq(Services)
  BY DEF TypeOK
<1> QED  BY <1>1, RangeTaken DEF StartReturns, NextToStart

LEMMA ListedWorker == TypeOK /\ Listed /\ Worker => Listed'
<1> SUFFICES ASSUME TypeOK, Listed, Worker PROVE Listed'
  OBVIOUS
<1>1. CASE Looking
  <2>1. CASE at' \in Stops
    BY <1>1, <2>1, Apart DEF Looking, Listed
  <2>2. CASE at' = "start"
    BY <1>1, <2>2, Apart DEF Looking, Listed
  <2> QED  BY <1>1, <2>1, <2>2 DEF Looking
<1>2. CASE Recording
  <2>1. Top \in Services /\ stopped \in Seq(Services)
    BY LastTaken DEF TypeOK, Top
  <2>2. Range(stopped') = Range(stopped) \cup ({Top} \ {Term})
    BY <1>2, <2>1, RangeAppend DEF Recording, Record
  <2>3. cur = Term /\ Range(stopped) = ours \ {Term}
    BY <1>2, Apart DEF Recording, Listed
  <2> QED  BY <1>2, <2>2, <2>3, Apart DEF Recording, Listed
<1>3. CASE NotOpened \/ Posting
  BY <1>3, Apart DEF NotOpened, Posting, Listed
<1>4. CASE Trying
  BY <1>4, Apart DEF Trying, Listed
<1>5. CASE TurnsTo
  <2>1. PICK ok \in BOOLEAN : StartReturns(ok)
    BY <1>5 DEF TurnsTo
  <2>2. CASE at' = "post"
    BY <2>2, Apart DEF Listed
  <2>3. CASE at' = "start" /\ Range(stopped) = Range(stopped') \cup {cur'}
    BY <1>5, <2>3, Apart DEF TurnsTo, Listed
  <2> QED  BY <2>1, <2>2, <2>3, Turning
<1> QED  BY <1>1, <1>2, <1>3, <1>4, <1>5, WorkerDoes

LEMMA ListedInvariant == Spec => [](IInv /\ Listed)
<1>1. Init => Listed
  BY Apart DEF Init, Listed
<1>2. TypeOK /\ Listed /\ [Next]_vars => Listed'
  <2> SUFFICES ASSUME TypeOK, Listed, [Next]_vars PROVE Listed'
    OBVIOUS
  <2>1. CASE UNCHANGED <<at, cur, stopped, ours>>
    BY <2>1 DEF Listed
  <2>2. CASE at' = "open" /\ cur' = Term /\ stopped' = <<>> /\ ours' = {}
    BY <2>2, RangeEmpty, Apart DEF Listed
  <2>3. CASE Window
    BY <2>1, <2>2, <2>3 DEF Window, AskRestart, Decline, BeginRestart, RestartComplete, Close, LaunchUpdate,
                            UpdateEnds, UpdateOutlivesWait, workerVars
  <2>4. CASE Manager \/ Meddle \/ UNCHANGED vars
    BY <2>1, <2>4 DEF Manager, ServiceStops, ServiceStarts, Meddle, vars, workerVars
  <2> QED  BY <2>3, <2>4, ListedWorker DEF Next, Over
<1> QED  BY <1>1, <1>2, GuardInvariant, PTL DEF Spec, IInv

(* The worker restores exactly the dependents it stopped, whatever failed, *)
(* and whatever others did meanwhile (main.cpp:308-309, 385-421).          *)
THEOREM RestoresOwn == Spec => []OwnRestored
<1>1. Listed => OwnRestored
  BY DEF Listed, OwnRestored
<1> QED  BY <1>1, ListedInvariant, PTL

-----------------------------------------------------------------------------
(* What runs while nobody else stops a service.                            *)

(* A service that starts does not end another.                             *)
LEMMA StartKeeps ==
    ASSUME TypeOK, NEW s \in Services, StartAccepted(s)
    PROVE  Running \subseteq Running'
BY DEF StartAccepted, Running

LEMMA ManagerKeeps ==
    ASSUME TypeOK, Manager
    PROVE  /\ Running \subseteq Running'
           /\ UNCHANGED <<windowVars, workerVars, before, ours, meddling>>
BY DEF Manager, ServiceStops, ServiceStarts, Running, TypeOK, counts

LEMMA WorkerKeeps ==
    ASSUME TypeOK, Worker
    PROVE  /\ UNCHANGED <<before, meddling>> /\ ours \subseteq ours'
           /\ Running \subseteq Running' \cup ours'
           /\ at \notin Stops => Running \subseteq Running'
<1>1. Top \in Services /\ cur \in Services
  BY LastTaken DEF TypeOK, Top
<1>2. CASE StopService
  BY <1>1, <1>2 DEF StopService, StopAccepted, Running, TypeOK, Stops, counts
<1>3. CASE RequestStart
  <2>1. Running \subseteq Running'
    BY <1>1, <1>3, StartKeeps DEF RequestStart, Running
  <2> QED  BY <1>3, <2>1 DEF RequestStart
<1>4. CASE UNCHANGED <<svc, before, ours, meddling>>
  BY <1>4 DEF Running
<1> QED  BY <1>2, <1>3, <1>4 DEF Worker, OpenTerm, Enumerate, Visit, StopWait, StartService, DownWait,
                                 StartWait, PostComplete

LEMMA WorkerPosts ==
    ASSUME IInv, Worker
    PROVE  /\ posted = "none" /\ at # "none"
           /\ at # "post" => posted' = "none"
           /\ at = "post" => posted' \in {"none", IF okay THEN "ok" ELSE "failed"} /\ UNCHANGED <<svc, okay>>
<1>1. at # "none"
  BY DEF Worker, OpenTerm, Enumerate, Visit, StopService, StopWait,
         StartService, DownWait, RequestStart, StartWait, PostComplete
<1>2. posted = "none"
  BY <1>1, HeldWhileWorking
<1> QED  BY <1>1, <1>2 DEF Worker, OpenTerm, Enumerate, Visit, StopService, StopWait,
         StartService, DownWait, RequestStart, StartWait, PostComplete, windowVars

LEMMA AccountedWorker ==
    ASSUME IInv, Listed, Listed', Accounted, Worker
    PROVE  Accounted'
<1> SUFFICES ASSUME meddling' = 0 PROVE Accounted'
  BY DEF Accounted
<1>1. TypeOK /\ meddling = 0
  BY WorkerKeeps DEF IInv
<1>2. before' \subseteq Running' \cup ours' /\ before' = before
  BY <1>1, WorkerKeeps, WorkerPosts DEF Accounted
<1>3. CASE Looking
  <2>1. at' # "post" /\ at # "post"
    BY <1>3, Apart DEF Looking
  <2>2. posted' = "none"
    BY <2>1, WorkerPosts
  <2>3. at' \in Starting => cur' = Term /\ ours' \subseteq Range(stopped') \cup {cur'}
    BY <1>3, Apart DEF Looking, Listed
  <2> QED  BY <1>2, <2>1, <2>2, <2>3 DEF Accounted
<1>4. CASE Recording
  <2>1. at' \notin Starting \cup {"post"} /\ at # "post"
    BY <1>4, Apart DEF Recording
  <2> QED  BY <1>2, <2>1, WorkerPosts DEF Accounted
<1>5. CASE NotOpened
  <2>1. at' \notin Starting /\ at # "post"
    BY <1>5, Apart DEF NotOpened
  <2>2. okay' = FALSE
    BY <1>5 DEF NotOpened, Worker, OpenTerm, Enumerate, Visit, StopService, StopWait,
         StartService, DownWait, RequestStart, StartWait, PostComplete
  <2> QED  BY <1>2, <2>1, <2>2, WorkerPosts DEF Accounted
<1>6. CASE Trying
  <2>1. at' # "post" /\ at # "post" /\ at \notin Stops
    BY <1>6, Apart DEF Trying
  <2>2. Running \subseteq Running' /\ posted' = "none"
    BY <1>1, <2>1, WorkerKeeps, WorkerPosts
  <2> QED  BY <1>1, <1>2, <1>6, <2>1, <2>2 DEF Accounted, Trying
<1>7. CASE TurnsTo
  <2>1. PICK ok \in BOOLEAN : StartReturns(ok) /\ (ok => cur \in Running)
    BY <1>7 DEF TurnsTo
  <2>2. Running' = Running /\ okay' = (okay /\ ok) /\ ours' = ours /\ at \in Starting
    BY <1>7, <2>1 DEF TurnsTo, StartReturns, Running
  <2>3. at # "post" /\ posted' = "none"
    BY <2>2, Apart, WorkerPosts
  <2>4. okay' => /\ cur \in Running /\ Term \in Running
                 /\ ours \subseteq Running \cup Range(stopped)
    BY <1>1, <2>1, <2>2 DEF Accounted, IInv, TypeOK
  <2>5. CASE at' = "post" /\ stopped = <<>>
    BY <1>2, <2>2, <2>3, <2>4, <2>5, RangeEmpty, Apart DEF Accounted
  <2>6. CASE at' = "start" /\ Range(stopped) = Range(stopped') \cup {cur'}
    BY <1>2, <2>2, <2>3, <2>4, <2>6 DEF Accounted
  <2> QED  BY <1>1, <2>1, <2>5, <2>6, Turning
<1>8. CASE Posting
  <2>1. at' \notin Starting \cup {"post"} /\ at' = "none" /\ at = "post"
    BY <1>8, Apart DEF Posting
  <2>2. UNCHANGED <<svc, okay>> /\ posted' \in {"none", IF okay THEN "ok" ELSE "failed"}
    BY <2>1, WorkerPosts
  <2>3. Running' = Running
    BY <2>2 DEF Running
  <2>4. posted' = "ok" => okay
    BY <2>2
  <2> QED  BY <1>1, <1>2, <1>8, <2>1, <2>3, <2>4 DEF Accounted, Posting
<1> QED  BY <1>1, <1>3, <1>4, <1>5, <1>6, <1>7, <1>8, WorkerDoes

LEMMA AccountedWindow ==
    ASSUME IInv, Accounted, Window
    PROVE  Accounted'
<1>1. Running' = Running /\ meddling' = meddling
  BY DEF Window, AskRestart, Decline, BeginRestart, RestartComplete, Close, LaunchUpdate,
         UpdateEnds, UpdateOutlivesWait, Running, counts
<1>2. CASE UNCHANGED <<workerVars, before, ours>> /\ posted' \in {posted, "none"}
  BY <1>1, <1>2 DEF Accounted, workerVars
<1>3. CASE BeginRestart /\ at' = "open" /\ before' = Running
  <2>1. posted' = "none"
    BY <1>3 DEF BeginRestart, IInv, WindowGuarded, Underway
  <2>2. at' \notin Starting \cup {"post"}
    BY <1>3, Apart
  <2> QED  BY <1>1, <1>3, <2>1, <2>2 DEF Accounted
<1> QED  BY <1>2, <1>3 DEF Window, AskRestart, Decline, BeginRestart, RestartComplete, Close, LaunchUpdate,
                           UpdateEnds, UpdateOutlivesWait

LEMMA AccountedInvariant == Spec => []Accounted
<1>1. Init => Accounted
  BY Apart DEF Init, Accounted
<1>2. IInv /\ Listed /\ Listed' /\ Accounted /\ [Next]_vars => Accounted'
  <2> SUFFICES ASSUME IInv, Listed, Listed', Accounted, [Next]_vars PROVE Accounted'
    OBVIOUS
  <2>1. CASE Manager
    <3>1. Running \subseteq Running' /\ UNCHANGED <<windowVars, workerVars, before, ours, meddling>>
      BY <2>1, ManagerKeeps DEF IInv
    <3> QED  BY <3>1 DEF Accounted, windowVars, workerVars
  <2>2. CASE Meddle
    <3>1. meddling' # 0
      BY <2>2 DEF Meddle, IInv, TypeOK
    <3> QED  BY <3>1 DEF Accounted
  <2>3. CASE UNCHANGED vars
    BY <2>3 DEF Accounted, Running, vars, windowVars, workerVars, counts
  <2> QED  BY <2>1, <2>2, <2>3, AccountedWorker, AccountedWindow DEF Next, Over
<1> QED  BY <1>1, <1>2, ListedInvariant, PTL DEF Spec

(* A restart reports success only if all that ran runs again (main.cpp:    *)
(* 424-455), whichever calls failed on the way, unless another             *)
(* program touched the services.                                           *)
THEOREM SuccessTrue == Spec => []SuccessIsTrue
<1>1. Accounted => SuccessIsTrue
  BY DEF Accounted, SuccessIsTrue
<1> QED  BY <1>1, AccountedInvariant, PTL

-----------------------------------------------------------------------------
(* What a restart leaves running if only stopping may fail.                *)

LEMMA TreeIs ==
    /\ Above(Term) = {}
    /\ \A s \in Services : s \notin Above(s) /\ Above(s) \subseteq Services
    /\ \A s \in Services : \A t \in Above(s) : Above(t) \subseteq Above(s)
    /\ \A s, t \in Services : t \in Above(s) <=> s \in Below[t]
<1>1. \A s, t \in Services : t \in Above(s) <=> s \in Below[t]
  BY DEF Above
<1>2. \A s \in Services : s \notin Above(s) /\ Above(s) \subseteq Services
  BY TreeAssumption DEF Above
<1>3. \A s \in Services : \A t \in Above(s) : Above(t) \subseteq Above(s)
  BY TreeAssumption DEF Above
<1>4. Above(Term) = {}
  <2>1. SUFFICES ASSUME NEW t \in Above(Term) PROVE FALSE
    OBVIOUS
  <2>2. t \in Services /\ Term \in Below[t] /\ t # Term
    BY <2>1, TreeAssumption DEF Above
  <2>3. t \in Below[Term]
    BY <2>2, TreeAssumption
  <2>4. Below[t] \subseteq Below[Term]
    BY <2>3, TreeAssumption
  <2> QED  BY <2>2, <2>4, TreeAssumption
<1> QED  BY <1>1, <1>2, <1>3, <1>4

LEMMA DependStop ==
    ASSUME TypeOK, Depend, NEW s \in Services, CanStop(s), StopAccepted(s)
    PROVE  Depend'
<1>1. svc' = [svc EXCEPT ![s] = "stopping"] /\ svc[s] = "running" /\ \A t \in Below[s] : svc[t] = "stopped"
  BY TreeAssumption DEF CanStop, StopAccepted, Active
<1>2. svc'[s] = "stopping" /\ \A t \in Services \ {s} : svc'[t] = svc[t]
  BY <1>1 DEF TypeOK
<1>3. Running' = Running \ {s}
  BY <1>2 DEF Running
<1>4. ASSUME NEW t \in Services, svc'[t] \in {"running", "stopping"} PROVE Above(t) \subseteq Running'
  <2>1. svc[t] \in {"running", "stopping"} /\ t \notin Below[s]
    BY <1>1, <1>2, <1>4, TreeAssumption
  <2>2. s \notin Above(t)
    BY <2>1, TreeIs
  <2> QED  BY <1>3, <2>1, <2>2 DEF Depend
<1>5. ASSUME NEW t \in Services, svc'[t] = "starting", NEW u \in Above(t) PROVE svc'[u] \in {"running", "starting"}
  <2>1. svc[t] = "starting" /\ t \notin Below[s]
    BY <1>1, <1>2, <1>5
  <2>2. u # s /\ u \in Services
    BY <1>5, <2>1, TreeIs
  <2> QED  BY <1>2, <1>5, <2>1, <2>2 DEF Depend
<1> QED  BY <1>4, <1>5 DEF Depend, Above

LEMMA DependStart ==
    ASSUME TypeOK, Depend, NEW s \in Services, CanStart(s), StartAccepted(s)
    PROVE  Depend'
<1>1. \A t \in Services : svc'[t] = IF t \in {s} \cup Above(s) /\ svc[t] = "stopped" THEN "starting" ELSE svc[t]
  BY DEF StartAccepted
<1>2. \A t \in {s} \cup Above(s) : svc[t] # "stopping"
  BY DEF CanStart
<1>3. \A t \in Running : t \in Running'
  BY <1>1 DEF Running
<1>4. ASSUME NEW t \in Services, svc'[t] \in {"running", "stopping"} PROVE Above(t) \subseteq Running'
  BY <1>1, <1>3, <1>4 DEF Depend
<1>5. ASSUME NEW t \in Services, svc'[t] = "starting", NEW u \in Above(t) PROVE svc'[u] \in {"running", "starting"}
  <2>1. u \in Services
    BY <1>5, TreeIs
  <2>2. CASE svc[t] = "starting"
    BY <1>1, <1>5, <2>1, <2>2 DEF Depend
  <2>3. CASE t \in {s} \cup Above(s)
    <3>1. u \in Above(s)
      BY <1>5, <2>3, TreeIs
    <3>2. svc[u] \in {"stopped", "running", "starting"}
      BY <1>2, <2>1, <3>1 DEF TypeOK
    <3> QED  BY <1>1, <2>1, <3>1, <3>2
  <2> QED  BY <1>1, <1>5, <2>2, <2>3
<1> QED  BY <1>4, <1>5 DEF Depend, Above

Settles(s) ==
    \/ svc'[s] = svc[s]
    \/ svc[s] = "stopping" /\ svc'[s] = "stopped"
    \/ svc[s] = "starting" /\ svc'[s] = "running"

LEMMA DependManager ==
    ASSUME TypeOK, OnlyStopping, Depend, Manager
    PROVE  /\ Depend'
           /\ \A s \in Services : Settles(s)
<1>1. CASE ServiceStops
  <2>1. PICK s \in Services : svc[s] = "stopping" /\ svc' = [svc EXCEPT ![s] = "stopped"]
    BY <1>1 DEF ServiceStops
  <2>2. svc'[s] = "stopped" /\ \A t \in Services \ {s} : svc'[t] = svc[t]
    BY <2>1 DEF TypeOK
  <2>3. Running' = Running
    BY <2>1, <2>2 DEF Running
  <2>4. \A t \in Services : s \in Above(t) => svc[t] = "stopped"
    BY <2>1 DEF Depend, Running, TypeOK
  <2>5. ASSUME NEW t \in Services, svc'[t] = "starting", NEW u \in Above(t) PROVE svc'[u] \in {"running", "starting"}
    BY <2>2, <2>4, <2>5, TreeIs DEF Depend
  <2>6. \A t \in Services : svc'[t] \in {"running", "stopping"} => Above(t) \subseteq Running'
    BY <2>2, <2>3 DEF Depend
  <2>7. Depend'
    BY <2>5, <2>6 DEF Depend, Above
  <2> QED  BY <2>1, <2>2, <2>7 DEF Settles
<1>2. CASE ServiceStarts
  <2>1. PICK s \in Services :
          /\ svc[s] = "starting"
          /\ Above(s) \subseteq Running
          /\ svc' = [svc EXCEPT ![s] = "running"]
    BY <1>2 DEF ServiceStarts, Fails, OnlyStopping, Depend
  <2>2. svc'[s] = "running" /\ \A t \in Services \ {s} : svc'[t] = svc[t]
    BY <2>1 DEF TypeOK
  <2>3. Running' = Running \cup {s}
    BY <2>1, <2>2 DEF Running
  <2>4. ASSUME NEW t \in Services, svc'[t] = "starting", NEW u \in Above(t) PROVE svc'[u] \in {"running", "starting"}
    BY <2>2, <2>4, TreeIs DEF Depend
  <2>5. ASSUME NEW t \in Services, svc'[t] \in {"running", "stopping"} PROVE Above(t) \subseteq Running'
    BY <2>1, <2>2, <2>3, <2>5 DEF Depend
  <2>6. Depend'
    BY <2>4, <2>5 DEF Depend, Above
  <2> QED  BY <2>1, <2>2, <2>6 DEF Settles
<1> QED  BY <1>1, <1>2 DEF Manager

(* Nothing changes for the services and the list.                          *)
LEMMA SameServices == ASSUME UNCHANGED svc, Depend PROVE Depend' /\ Running' = Running
BY DEF Depend, Running, Above

LEMMA RangeIs == ASSUME NEW p \in Seq(Services), NEW i \in 1 .. Len(p) PROVE p[i] \in Range(p) /\ p[i] \in Services
<1>1. DOMAIN p = 1 .. Len(p)
  OBVIOUS
<1> QED  BY <1>1 DEF Range

(* The start of the second half: TermService is above all others.          *)
LEMMA RestoredLooking ==
    ASSUME IInv, Listed, Depend, Ordered, Between, Looking, posted' = "none"
    PROVE  Depend' /\ Ordered' /\ Between'
<1>1. Depend' /\ Running' = Running
  BY SameServices DEF Looking
<1>2. /\ at \in Stops /\ at' \notin {"post", "none", "startWait", "downWait", "request"}
      /\ cur' = Term /\ UNCHANGED <<svc, stopped, ours>>
      /\ Range(stopped) = ours \ {Term}
  BY DEF Looking, Listed, Stops
<1>3. Ordered'
  <2>1. ASSUME NEW i \in 1 .. Len(stopped) PROVE Term \notin Below[stopped[i]]
    <3>1. stopped[i] \in Services /\ Term \in Services
      BY RangeIs, TreeAssumption DEF IInv, TypeOK
    <3> QED  BY <3>1, TreeIs
  <2>2. at' \in Stops => \A s \in ours' : svc'[s] \in {"stopped", "stopping"}
    BY <1>2 DEF Ordered
  <2>3. \A i, j \in 1 .. Len(stopped') : i < j => stopped'[j] \notin Below[stopped'[i]]
    BY <1>2 DEF Ordered
  <2> QED  BY <1>2, <2>1, <2>2, <2>3 DEF Ordered
<1>4. Between'
  <2>1. InState("starting")' = {} /\ InState("stopping")' \subseteq ours'
    BY <1>2, Apart DEF Between, InState, Stops
  <2> QED  BY <1>2, <2>1 DEF Between
<1> QED  BY <1>1, <1>3, <1>4

LEMMA RestoredRecording ==
    ASSUME IInv, Listed, Depend, Ordered, Between, Recording, posted' = "none"
    PROVE  Depend' /\ Ordered' /\ Between'
<1>1. Top \in Services /\ stopped \in Seq(Services) /\ TypeOK
  BY LastTaken DEF IInv, TypeOK, Top
<1>2. Depend'
  BY <1>1, DependStop DEF Recording
<1>3. svc[Top] = "running" /\ svc'[Top] = "stopping" /\ \A s \in Services \ {Top} : svc'[s] = svc[s]
  BY <1>1 DEF Recording, CanStop, StopAccepted, TypeOK
<1>4. at = "stop" /\ at' = "stopWait" /\ at \in Stops /\ at' \in Stops /\ ours' = ours \cup {Top} /\ ours \subseteq Services
  BY <1>1, Apart DEF Recording, TypeOK
<1>5. \A s \in ours' : svc'[s] \in {"stopped", "stopping"}
  BY <1>3, <1>4 DEF Ordered
<1>6. \A i, j \in 1 .. Len(stopped') : i < j => stopped'[j] \notin Below[stopped'[i]]
  <2>1. CASE stopped' = stopped
    BY <2>1 DEF Ordered
  <2>2. CASE stopped' = Append(stopped, Top)
    <3>1. /\ Len(stopped) \in Nat /\ Len(stopped') = Len(stopped) + 1 /\ stopped'[Len(stopped) + 1] = Top
          /\ \A i \in 1 .. Len(stopped) : stopped'[i] = stopped[i]
      BY <1>1, <2>2
    <3>2. ASSUME NEW i \in 1 .. Len(stopped) PROVE Top \notin Below[stopped[i]]
      <4>1. stopped[i] \in Range(stopped) /\ stopped[i] \in Services
        BY <1>1, RangeIs
      <4>2. svc[stopped[i]] # "running"
        BY <1>4, <4>1 DEF Listed, Ordered
      <4>3. stopped[i] \notin Above(Top)
        BY <1>1, <1>3, <4>2 DEF Depend, Running
      <4> QED  BY <1>1, <4>1, <4>3, TreeIs
    <3>3. ASSUME NEW i \in 1 .. Len(stopped'), NEW j \in 1 .. Len(stopped'), i < j
          PROVE  stopped'[j] \notin Below[stopped'[i]]
      <4>1. i \in 1 .. Len(stopped) /\ (j = Len(stopped) + 1 \/ j \in 1 .. Len(stopped))
        BY <3>1, <3>3
      <4>2. CASE j = Len(stopped) + 1
        BY <3>1, <3>2, <4>1, <4>2
      <4>3. CASE j \in 1 .. Len(stopped)
        BY <3>1, <3>3, <4>1, <4>3 DEF Ordered
      <4> QED  BY <4>1, <4>2, <4>3
    <3> QED  BY <3>3
  <2> QED  BY <2>1, <2>2 DEF Recording, Record
<1>7. Ordered'
  BY <1>4, <1>5, <1>6, Apart DEF Ordered
<1>8. Between'
  <2>1. InState("starting")' = {} /\ InState("stopping")' \subseteq ours'
    BY <1>1, <1>3, <1>4 DEF Between, InState
  <2> QED  BY <1>4, <2>1, Apart DEF Between
<1> QED  BY <1>2, <1>7, <1>8

(* The service that is being started depends on none that still stops.     *)
LEMMA MayStart ==
    ASSUME IInv, Ordered, Between, at \in Starting, svc[cur] = "stopped"
    PROVE  CanStart(cur)
<1>1. ASSUME NEW t \in Above(cur), svc[t] = "stopping" PROVE FALSE
  <2>1. t \in Services /\ cur \in Services /\ cur \in Below[t] /\ t # cur
    BY <1>1, TreeIs DEF IInv, TypeOK
  <2>2. t \in Range(stopped)
    BY <1>1, <2>1 DEF Between, InState
  <2>3. PICK i \in DOMAIN stopped : stopped[i] = t
    BY <2>2 DEF Range
  <2>4. i \in 1 .. Len(stopped)
    BY <2>3 DEF IInv, TypeOK
  <2> QED  BY <2>1, <2>3, <2>4 DEF Ordered
<1> QED  BY <1>1 DEF CanStart

(* The second half waits and tries, but never gives a service up.          *)
LEMMA NeverGivesUp ==
    ASSUME IInv, OnlyStopping, Ordered, Depend, Between, Worker, at \in Starting
    PROVE  \/ UNCHANGED <<svc, stopped, cur, ours>> /\ at' = "downWait" /\ svc[cur] = "stopping"
           \/ UNCHANGED <<svc, stopped, cur, ours>> /\ at' = "request" /\ svc[cur] = "stopped"
           \/ /\ UNCHANGED <<stopped, cur, ours>> /\ at # "startWait" /\ at' = "startWait"
              /\ CanStart(cur) /\ StartAccepted(cur)
           \/ UNCHANGED <<svc, ours>> /\ StartReturns(TRUE) /\ svc[cur] = "running"
<1>1. cur \in Services /\ svc[cur] \in {"stopped", "starting", "running", "stopping"}
  BY DEF IInv, TypeOK
<1>2. ~Fails("start") /\ ~Fails("startWait")
  BY DEF OnlyStopping, Fails
<1>3. CASE StartService
  <2>1. svc[cur] # "starting"
    BY <1>1, <1>3 DEF StartService, Between, InState
  <2> QED  BY <1>1, <1>2, <1>3, <2>1 DEF StartService
<1>4. CASE DownWait
  BY <1>2, <1>4 DEF DownWait, Between
<1>5. CASE RequestStart
  <2>1. svc[cur] = "stopped" /\ at # "startWait"
    BY <1>5 DEF RequestStart, Between
  <2>2. CanStart(cur)
    BY <2>1, MayStart
  <2> QED  BY <1>2, <1>5, <2>1, <2>2 DEF RequestStart
<1>6. CASE StartWait
  BY <1>2, <1>6 DEF StartWait, Between
<1> QED  BY <1>3, <1>4, <1>5, <1>6 DEF Worker, OpenTerm, Enumerate, Visit, StopService, StopWait,
                                       PostComplete, Starting

LEMMA RestoredTrying ==
    ASSUME IInv, OnlyStopping, Depend, Ordered, Between, at \in Starting, posted' = "none",
           UNCHANGED <<svc, stopped, cur, ours>>,
           \/ at' = "downWait" /\ svc[cur] = "stopping"
           \/ at' = "request" /\ svc[cur] = "stopped"
    PROVE  Depend' /\ Ordered' /\ Between'
<1>1. Depend' /\ Running' = Running
  BY SameServices
<1>2. at' \in Starting /\ at' \notin Stops /\ at' \notin {"startWait", "post", "none"}
  BY DEF Starting, Stops
<1>3. Ordered'
  BY <1>2 DEF Ordered
<1>4. at # "startWait"
  BY DEF Between
<1>5. Between'
  BY <1>1, <1>2, <1>4 DEF Between, InState
<1> QED  BY <1>1, <1>3, <1>5

LEMMA RestoredStarting ==
    ASSUME IInv, Depend, Ordered, Between, at \in Starting, posted' = "none",
           UNCHANGED <<stopped, cur, ours>>, at # "startWait", at' = "startWait",
           CanStart(cur), StartAccepted(cur)
    PROVE  Depend' /\ Ordered' /\ Between'
<1>1. TypeOK /\ cur \in Services
  BY DEF IInv, TypeOK
<1>2. Depend' /\ Running \subseteq Running'
  BY <1>1, DependStart, StartKeeps
<1>3. \A t \in Services : svc'[t] = IF t \in {cur} \cup Above(cur) /\ svc[t] = "stopped" THEN "starting" ELSE svc[t]
  BY DEF StartAccepted
<1>4. at' \in Starting /\ at' \notin Stops
  BY DEF Starting, Stops
<1>5. Ordered'
  BY <1>4 DEF Ordered
<1>6. InState("starting")' \subseteq {cur} \cup Above(cur)
  BY <1>3 DEF Between, InState
<1>7. InState("stopping")' \subseteq InState("stopping")
  BY <1>3 DEF InState
<1>8. svc'[cur] = "starting"
  BY <1>1, <1>3 DEF CanStart
<1>9. Above(cur)' = Above(cur)
  BY DEF Above
<1>10. Between'
  BY <1>2, <1>4, <1>6, <1>7, <1>8, <1>9 DEF Between
<1> QED  BY <1>2, <1>5, <1>10

LEMMA RestoredTurning ==
    ASSUME IInv, Listed, Depend, Ordered, Between, at \in Starting, posted' = "none",
           UNCHANGED <<svc, ours>>, StartReturns(TRUE), svc[cur] = "running"
    PROVE  Depend' /\ Ordered' /\ Between'
<1>1. TypeOK /\ cur \in Services /\ cur \in Running /\ stopped \in Seq(Services)
  BY DEF IInv, TypeOK, Running
<1>2. Depend' /\ Running' = Running
  BY SameServices
<1>3. InState("starting") = {}
  <2>1. CASE at = "startWait"
    <3>1. Above(cur) \subseteq Running
      BY <1>1 DEF Depend
    <3> QED  BY <1>1, <2>1, <3>1 DEF Between, InState, Running
  <2> QED  BY <2>1 DEF Between
<1>4. Term \in Running /\ InState("stopping") \subseteq Range(stopped) /\ ours \subseteq Running \cup Range(stopped)
  <2>1. cur \notin InState("stopping")
    BY DEF InState
  <2> QED  BY <1>1, <2>1 DEF Between
<1>5. InState("starting")' = {} /\ InState("stopping")' = InState("stopping")
  BY <1>3 DEF InState
<1>6. CASE at' = "post" /\ stopped = <<>> /\ stopped' = stopped /\ cur' = cur
  <2>1. Ordered'
    BY <1>6, Apart DEF Ordered
  <2>2. Between'
    BY <1>2, <1>4, <1>5, <1>6, RangeEmpty, Apart DEF Between
  <2> QED  BY <1>2, <2>1, <2>2
<1>7. CASE /\ at' = "start" /\ stopped # <<>> /\ stopped' = Front(stopped) /\ cur' = Last(stopped)
           /\ Range(stopped) = Range(stopped') \cup {cur'}
  <2>1. /\ Len(stopped) \in Nat \ {0} /\ Len(stopped') = Len(stopped) - 1
        /\ \A i \in 1 .. Len(stopped) - 1 : stopped'[i] = stopped[i]
        /\ cur' = stopped[Len(stopped)]
    BY <1>1, <1>7, FrontIs
  <2>2. Ordered'
    <3>1. \A i \in 1 .. Len(stopped') : i \in 1 .. Len(stopped) /\ i < Len(stopped) /\ stopped'[i] = stopped[i]
      BY <2>1
    <3>2. \A i, j \in 1 .. Len(stopped') : i < j => stopped'[j] \notin Below[stopped'[i]]
      BY <3>1 DEF Ordered
    <3>3. Len(stopped) \in 1 .. Len(stopped)
      BY <2>1
    <3>4. \A i \in 1 .. Len(stopped') : cur' \notin Below[stopped'[i]]
      BY <2>1, <3>1, <3>3 DEF Ordered
    <3> QED  BY <1>7, <3>2, <3>4, Apart DEF Ordered
  <2>3. Between'
    <3>1. at' \in Starting /\ at' \notin Stops /\ at' \notin {"startWait", "downWait", "request", "post", "none"}
      BY <1>7, Apart
    <3> QED  BY <1>2, <1>4, <1>5, <1>7, <3>1 DEF Between
  <2> QED  BY <1>2, <2>2, <2>3
<1> QED  BY <1>1, <1>6, <1>7, Turning

LEMMA RestoredWorker ==
    ASSUME IInv, Listed, Accounted, OnlyStopping, Restored, Worker
    PROVE  Restored'
<1> SUFFICES ASSUME meddling' = 0 PROVE Restored'
  BY DEF Restored
<1>1. TypeOK /\ meddling = 0 /\ Depend /\ Ordered /\ Between
  BY WorkerKeeps DEF IInv, Restored
<1>2. at # "post" => posted' = "none"
  BY WorkerPosts
<1>3. CASE Looking
  <2>1. at # "post"
    BY <1>3, Apart DEF Looking
  <2> QED  BY <1>1, <1>2, <1>3, <2>1, RestoredLooking DEF Restored
<1>4. CASE Recording
  <2>1. at # "post"
    BY <1>4 DEF Recording
  <2> QED  BY <1>1, <1>2, <1>4, <2>1, RestoredRecording DEF Restored
<1>5. CASE NotOpened
  BY <1>5 DEF NotOpened, OnlyStopping, Fails
<1>6. CASE at \in Starting
  <2>1. posted' = "none"
    BY <1>2, <1>6, Apart
  <2>2. CASE /\ UNCHANGED <<svc, stopped, cur, ours>>
             /\ \/ at' = "downWait" /\ svc[cur] = "stopping"
                \/ at' = "request" /\ svc[cur] = "stopped"
    BY <1>1, <1>6, <2>1, <2>2, RestoredTrying DEF Restored
  <2>3. CASE /\ UNCHANGED <<stopped, cur, ours>> /\ at # "startWait" /\ at' = "startWait"
             /\ CanStart(cur) /\ StartAccepted(cur)
    BY <1>1, <1>6, <2>1, <2>3, RestoredStarting DEF Restored
  <2>4. CASE UNCHANGED <<svc, ours>> /\ StartReturns(TRUE) /\ svc[cur] = "running"
    BY <1>1, <1>6, <2>1, <2>4, RestoredTurning DEF Restored
  <2> QED  BY <1>1, <1>6, <2>2, <2>3, <2>4, NeverGivesUp
<1>7. CASE Posting
  <2>1. at = "post" /\ at' = "none" /\ UNCHANGED <<svc, cur, stopped, ours>>
    BY <1>7, WorkerPosts DEF Posting
  <2>2. Depend' /\ Running' = Running
    BY <1>1, <2>1, SameServices
  <2>3. before' = before /\ before \cup {Term} \subseteq Running
    BY <1>1, <2>1, WorkerKeeps DEF Accounted, Between
  <2>4. Ordered'
    BY <1>1, <2>1, Apart DEF Ordered
  <2>5. Between'
    BY <1>1, <2>1, <2>2, <2>3, Apart DEF Between, InState
  <2> QED  BY <2>2, <2>4, <2>5 DEF Restored
<1> QED  BY <1>1, <1>3, <1>4, <1>5, <1>6, <1>7, WorkerDoes DEF Trying, TurnsTo

LEMMA RestoredManager ==
    ASSUME IInv, OnlyStopping, Restored, Manager
    PROVE  Restored'
<1> SUFFICES ASSUME meddling' = 0 PROVE Depend' /\ Ordered' /\ Between'
  BY DEF Restored
<1>1. /\ TypeOK /\ Depend /\ Ordered /\ Between /\ Running \subseteq Running'
      /\ UNCHANGED <<windowVars, workerVars, before, ours, meddling>>
  BY ManagerKeeps DEF IInv, Restored
<1>2. Depend' /\ \A s \in Services : Settles(s)
  BY <1>1, DependManager
<1>3. InState("starting")' \subseteq InState("starting") /\ InState("stopping")' \subseteq InState("stopping")
  BY <1>2 DEF Settles, InState
<1>4. cur \in Services /\ ours \subseteq Services
  BY <1>1 DEF TypeOK
<1>5. \A s \in Services :
        /\ (svc[s] \in {"stopped", "stopping"} => svc'[s] \in {"stopped", "stopping"})
        /\ (svc[s] = "stopped" => svc'[s] = "stopped")
        /\ (svc[s] \in {"starting", "running"} => svc'[s] \in {"starting", "running"})
  BY <1>2 DEF Settles
<1>6. Ordered'
  BY <1>1, <1>4, <1>5 DEF Ordered, workerVars
<1>7. Above(cur)' = Above(cur)
  BY <1>1 DEF Above, workerVars
<1>8. Between'
  BY <1>1, <1>3, <1>4, <1>5, <1>7 DEF Between, workerVars, windowVars
<1> QED  BY <1>2, <1>6, <1>8

LEMMA RestoredWindow ==
    ASSUME IInv, Restored, Window
    PROVE  Restored'
<1> SUFFICES ASSUME meddling' = 0 PROVE Depend' /\ Ordered' /\ Between'
  BY DEF Restored
<1>1. UNCHANGED <<svc, meddling>>
  BY DEF Window, AskRestart, Decline, BeginRestart, RestartComplete, Close, LaunchUpdate,
         UpdateEnds, UpdateOutlivesWait, counts
<1>2. Depend /\ Ordered /\ Between
  BY <1>1 DEF Restored
<1>3. Depend' /\ Running' = Running
  BY <1>1, <1>2, SameServices
<1>4. CASE UNCHANGED <<workerVars, before, ours>> /\ posted' \in {posted, "none"}
  <2>1. Ordered'
    BY <1>1, <1>2, <1>4 DEF Ordered, workerVars
  <2>2. Between'
    BY <1>1, <1>2, <1>3, <1>4 DEF Between, InState, Above, workerVars
  <2> QED  BY <1>3, <2>1, <2>2
<1>5. CASE BeginRestart /\ at' = "open" /\ stopped' = <<>> /\ ours' = {}
  <2>1. posted' = "none" /\ at = "none"
    BY <1>5 DEF BeginRestart, IInv, WindowGuarded, Underway
  <2>2. Ordered'
    BY <1>5, Apart DEF Ordered
  <2>3. InState("starting")' = {} /\ InState("stopping")' = {}
    BY <1>1, <1>2, <2>1 DEF Between, InState
  <2>4. Between'
    BY <1>5, <2>1, <2>3, Apart DEF Between
  <2> QED  BY <1>3, <2>2, <2>4
<1> QED  BY <1>4, <1>5 DEF Window, AskRestart, Decline, BeginRestart, RestartComplete, Close, LaunchUpdate,
                           UpdateEnds, UpdateOutlivesWait

LEMMA RestoredInit == Init => Restored
<1> SUFFICES ASSUME Init PROVE Depend /\ Ordered /\ Between
  BY DEF Restored
<1>1. PICK up \in SUBSET Services :
        /\ \A s \in up : Above(s) \subseteq up
        /\ svc = [s \in Services |-> IF s \in up THEN "running" ELSE "stopped"]
  BY DEF Init
<1>2. Running = up
  BY <1>1 DEF Running
<1>3. Depend
  BY <1>1, <1>2 DEF Depend
<1>4. Ordered /\ Between
  BY <1>1, Apart DEF Init, Ordered, Between, InState
<1> QED  BY <1>3, <1>4

(* If only the stopping of services fails, and no other program touches    *)
(* them, all that ran when a restart began, and TermService, runs when it  *)
(* ends: each that was stopped can be started in its turn, as all that it  *)
(* depends on was started before it (main.cpp:385-421, 424-455).           *)
THEOREM KeepsRunning == ASSUME OnlyStopping PROVE Spec => []RunningKept
<1>1. Restored => RunningKept
  BY DEF Restored, Between, RunningKept
<1>2. IInv /\ Listed /\ Accounted /\ Restored /\ [Next]_vars => Restored'
  <2> SUFFICES ASSUME IInv, Listed, Accounted, Restored, [Next]_vars PROVE Restored'
    OBVIOUS
  <2>1. CASE Meddle
    <3>1. meddling' # 0
      BY <2>1 DEF Meddle, IInv, TypeOK
    <3> QED  BY <3>1 DEF Restored
  <2>2. CASE UNCHANGED vars
    BY <2>2 DEF Restored, Depend, Ordered, Between, InState, Running, Above, vars, windowVars, workerVars, counts
  <2> QED  BY <2>1, <2>2, RestoredWorker, RestoredManager, RestoredWindow DEF Next, Over
<1> QED  BY <1>1, <1>2, RestoredInit, ListedInvariant, AccountedInvariant, PTL DEF Spec
=============================================================================
