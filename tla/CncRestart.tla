----------------------------- MODULE CncRestart -----------------------------
(***************************************************************************)
(* RDP_CnC.exe (src-RDP_CnC/main.cpp): the window thread, the worker       *)
(* thread that restarts TermService and the services that depend on it,    *)
(* and the service control manager they both talk to.  Other processes may *)
(* stop, start or kill a service between any two calls of the worker.      *)
(***************************************************************************)
EXTENDS Naturals, SequencesExt

CONSTANTS
    Services, Term,   \* TermService and the services that depend on it
    Below,            \* Below[s]: the services that depend on s, at any depth
    Faults,           \* the kinds of call that may fail
    MaxFaults, MaxMeddling, MaxRestarts

(* A thread that cannot be created; TermService that cannot be opened; a   *)
(* call or a wait of the stopping half; one of the starting half; a        *)
(* message that cannot be posted.                                          *)
FaultKinds == {"thread", "connect", "stop", "stopWait", "start", "startWait", "post"}

ASSUME TreeAssumption ==
    /\ Term \in Services
    /\ Below \in [Services -> SUBSET Services]
    /\ Below[Term] = Services \ {Term}
    /\ \A s \in Services : s \notin Below[s] /\ \A t \in Below[s] : Below[t] \subseteq Below[s]
ASSUME CountsAssumption ==
    /\ MaxFaults \in Nat /\ MaxMeddling \in Nat /\ MaxRestarts \in Nat
    /\ Faults \subseteq FaultKinds

VARIABLES
    svc,          \* the state of each service
    \* the window
    ui,           \* what its thread does: "loop", "confirm", "await", "closed"
    restarting,   \* g_restartInProgress
    buttons,      \* Restart, Update and Close are enabled (setRestartUi)
    posted,       \* WM_RESTART_COMPLETE in the queue: "none", "ok" or "failed"
    updater,      \* the RDPWInst -w it launched: "none", "awaited" or "left"
    \* the worker
    at,           \* its next call, or "none" when no worker runs
    path,         \* services whose dependents are being stopped, outermost first
    names,        \* the dependents enumerated for each and not yet visited
    stopped,      \* stoppedServices
    cur,          \* the service being started
    okay,         \* no result has been false yet
    \* history and bounds
    before,       \* services that ran when the worker began
    ours,         \* services whose stop the manager accepted from it
    faults, meddling, restarts

windowVars == <<ui, restarting, buttons, posted, updater>>
workerVars == <<at, path, names, stopped, cur, okay>>
counts     == <<faults, meddling, restarts>>
vars == <<svc, windowVars, workerVars, before, ours, counts>>

Above(s)   == {t \in Services : s \in Below[t]}
Running    == {s \in Services : svc[s] = "running"}
Active     == {s \in Services : svc[s] # "stopped"}
Top        == Last(path)

Works == UNCHANGED faults

Fails(kind) ==
    /\ kind \in Faults
    /\ faults < MaxFaults
    /\ faults' = faults + 1

-----------------------------------------------------------------------------
(* The service control manager: it refuses to stop a service that is not   *)
(* running or has an active dependent, and starts what a service depends   *)
(* on along with it.                                                       *)

CanStop(s)  == svc[s] = "running" /\ Below[s] \cap Active = {}
CanStart(s) == svc[s] = "stopped" /\ \A t \in Above(s) : svc[t] # "stopping"

StopAccepted(s)  == svc' = [svc EXCEPT ![s] = "stopping"]
StartAccepted(s) ==
    svc' = [t \in Services |->
              IF t \in {s} \cup Above(s) /\ svc[t] = "stopped" THEN "starting" ELSE svc[t]]

ServiceStops == \E s \in Services :
    /\ svc[s] = "stopping"
    /\ svc' = [svc EXCEPT ![s] = "stopped"]
    /\ UNCHANGED <<windowVars, workerVars, before, ours, counts>>

ServiceStarts == \E s \in Services :
    /\ svc[s] = "starting"
    /\ \/ /\ Above(s) \subseteq Running
          /\ svc' = [svc EXCEPT ![s] = "running"]
          /\ Works
       \/ /\ \/ Fails("start")
             \/ Works /\ \E t \in Above(s) : svc[t] \in {"stopped", "stopping"}
          /\ svc' = [svc EXCEPT ![s] = "stopped"]
    /\ UNCHANGED <<windowVars, workerVars, before, ours, meddling, restarts>>

Manager == ServiceStops \/ ServiceStarts

(* Other processes, RDPWInst among them, stop, start or kill services.     *)
Meddle == \E s \in Services :
    /\ meddling < MaxMeddling
    /\ meddling' = meddling + 1
    /\ \/ CanStop(s) /\ StopAccepted(s)
       \/ CanStart(s) /\ StartAccepted(s)
       \/ /\ svc[s] # "stopped"
          /\ svc' = [svc EXCEPT ![s] = "stopped"]
    /\ UNCHANGED <<windowVars, workerVars, before, ours, faults, restarts>>

-----------------------------------------------------------------------------
(* The window.                                                             *)

(* The Restart button asks first; the box runs a message loop of its own.  *)
AskRestart ==
    /\ ui = "loop" /\ buttons
    /\ ui' = "confirm"
    /\ UNCHANGED <<svc, restarting, buttons, posted, updater, workerVars, before, ours, counts>>

Decline ==
    /\ ui = "confirm"
    /\ ui' = "loop"
    /\ UNCHANGED <<svc, restarting, buttons, posted, updater, workerVars, before, ours, counts>>

(* beginTermServiceRestart.                                                *)
BeginRestart_ButtonsStay ==
    /\ ui = "confirm" /\ ~restarting /\ restarts < MaxRestarts
    /\ ui' = "loop" /\ restarting' = TRUE
    /\ restarts' = restarts + 1
    /\ at' = "open" /\ path' = <<Term>> /\ stopped' = <<>> /\ okay' = TRUE
    /\ names' = [s \in Services |-> {}] /\ cur' = Term
    /\ before' = Running /\ ours' = {}
    /\ UNCHANGED <<svc, buttons, posted, updater, faults, meddling>>

BeginRestart ==
    /\ ui = "confirm"
    /\ ui' = "loop"
    /\ ~restarting
    /\ restarts < MaxRestarts
    /\ restarts' = restarts + 1
    /\ \/ /\ Works
          /\ restarting' = TRUE
          /\ buttons' = FALSE
          /\ at' = "open"
          /\ path' = <<Term>>
          /\ names' = [s \in Services |-> {}]
          /\ stopped' = <<>>
          /\ cur' = Term
          /\ okay' = TRUE
          /\ before' = Running
          /\ ours' = {}
       \/ /\ Fails("thread")
          /\ restarting' = FALSE
          /\ buttons' = TRUE
          /\ UNCHANGED <<workerVars, before, ours>>
    /\ UNCHANGED <<svc, posted, updater, meddling>>

(* WM_RESTART_COMPLETE, dispatched by any message loop of the thread.      *)
RestartComplete_ButtonsStay ==
    /\ posted # "none" /\ ui \in {"loop", "confirm"}
    /\ posted' = "none" /\ restarting' = FALSE
    /\ UNCHANGED <<svc, ui, buttons, updater, workerVars, before, ours, counts>>

RestartComplete ==
    /\ posted # "none"
    /\ ui \in {"loop", "confirm"}
    /\ posted' = "none"
    /\ restarting' = FALSE
    /\ buttons' = TRUE
    /\ UNCHANGED <<svc, ui, updater, workerVars, before, ours, counts>>

(* WM_CLOSE, from the button or from outside the window.                   *)
Close_NoGuard ==
    /\ ui \in {"loop", "confirm"}
    /\ ui' = "closed"
    /\ UNCHANGED <<svc, restarting, buttons, posted, updater, workerVars, before, ours, counts>>

Close ==
    /\ ui \in {"loop", "confirm"}
    /\ ~restarting
    /\ ui' = "closed"
    /\ UNCHANGED <<svc, restarting, buttons, posted, updater, workerVars, before, ours, counts>>

(* runInstallerUpdate: the thread handles no message until the updater has *)
(* ended or 120 seconds are over.                                          *)
LaunchUpdate ==
    /\ ui = "loop" /\ buttons
    /\ \/ ui' = "await" /\ updater' = "awaited"
       \/ ui' = "loop" /\ updater' = "left"       \* no process handle
    /\ UNCHANGED <<svc, restarting, buttons, posted, workerVars, before, ours, counts>>

UpdateEnds ==
    /\ updater # "none"
    /\ updater' = "none"
    /\ ui' = IF updater = "awaited" THEN "loop" ELSE ui
    /\ UNCHANGED <<svc, restarting, buttons, posted, workerVars, before, ours, counts>>

UpdateOutlivesWait ==
    /\ updater = "awaited"
    /\ updater' = "left"
    /\ ui' = "loop"
    /\ UNCHANGED <<svc, restarting, buttons, posted, workerVars, before, ours, counts>>

Window == AskRestart \/ Decline \/ BeginRestart \/ RestartComplete \/ Close
          \/ LaunchUpdate \/ UpdateEnds \/ UpdateOutlivesWait

-----------------------------------------------------------------------------
(* The worker, first half: stopActiveDependents(TermService), then         *)
(* stopService(TermService).  The recursion is the path from TermService   *)
(* to the service being looked at; its first false result ends all of it.  *)

(* The manager or TermService cannot be opened: nothing is done at all.    *)
OpenTerm ==
    /\ at = "open"
    /\ \/ at' = "enumerate" /\ okay' = TRUE /\ Works
       \/ at' = "post" /\ okay' = FALSE /\ Fails("connect")
    /\ UNCHANGED <<svc, windowVars, path, names, stopped, cur, before, ours, meddling, restarts>>

(* What restartTermService does when the stopping is over, or was given up.*)
AfterStopping_GiveUp(ok) == IF ok THEN "start" ELSE "post"

AfterStopping(ok) == "start"

StopReturns_AlwaysPops(ok) ==
    IF ok
    THEN at' = "visit" /\ path' = Front(path) /\ UNCHANGED okay
    ELSE at' = AfterStopping(ok) /\ okay' = FALSE /\ UNCHANGED path

StopReturns(ok) ==
    IF ok /\ Len(path) > 1
    THEN /\ at' = "visit"
         /\ path' = Front(path)
         /\ UNCHANGED okay
    ELSE /\ at' = AfterStopping(ok)
         /\ okay' = (okay /\ ok)
         /\ UNCHANGED path

Enumerate ==
    /\ at = "enumerate"
    /\ \/ /\ names' = [names EXCEPT ![Top] = Below[Top] \cap Active]
          /\ at' = "visit"
          /\ Works
          /\ UNCHANGED <<path, okay>>
       \/ /\ Fails("stop")
          /\ StopReturns(FALSE)
          /\ UNCHANGED names
    /\ UNCHANGED <<svc, windowVars, stopped, cur, before, ours, meddling, restarts>>

Visit ==
    /\ at = "visit"
    /\ \/ \E s \in names[Top] :
            /\ names' = [names EXCEPT ![Top] = @ \ {s}]
            /\ \/ /\ path' = Append(path, s)
                  /\ at' = "enumerate"
                  /\ Works
                  /\ UNCHANGED okay
               \/ /\ Fails("stop")
                  /\ StopReturns(FALSE)
       \/ /\ names[Top] = {}
          /\ at' = "stop"
          /\ Works
          /\ UNCHANGED <<path, names, okay>>
    /\ UNCHANGED <<svc, windowVars, stopped, cur, before, ours, meddling, restarts>>

(* stopService: a service another process is stopping is waited for but    *)
(* not recorded; one whose stop was accepted is, whatever the wait says.   *)
Record(s) == stopped' = IF s = Term THEN stopped ELSE Append(stopped, s)

StopService_RecordsAll ==
    /\ at = "stop"
    /\ at' = "stopWait"
    /\ \/ svc[Top] = "stopping" /\ UNCHANGED <<svc, ours>>
       \/ CanStop(Top) /\ StopAccepted(Top) /\ ours' = ours \cup {Top}
    /\ Record(Top)
    /\ UNCHANGED <<windowVars, path, names, cur, okay, before, counts>>

StopService ==
    /\ at = "stop"
    /\ \/ /\ svc[Top] = "stopped"
          /\ StopReturns(TRUE)
          /\ Works
          /\ UNCHANGED <<svc, stopped, ours>>
       \/ /\ svc[Top] = "stopping"
          /\ at' = "stopWait"
          /\ Works
          /\ UNCHANGED <<svc, path, stopped, okay, ours>>
       \/ /\ CanStop(Top)
          /\ StopAccepted(Top)
          /\ Record(Top)
          /\ ours' = ours \cup {Top}
          /\ at' = "stopWait"
          /\ Works
          /\ UNCHANGED <<path, okay>>
       \/ /\ IF svc[Top] = "starting" \/ (svc[Top] = "running" /\ ~CanStop(Top))
             THEN Works ELSE Fails("stop")
          /\ StopReturns(FALSE)
          /\ UNCHANGED <<svc, stopped, ours>>
    /\ UNCHANGED <<windowVars, names, cur, before, meddling, restarts>>

(* waitService(STOPPED): a service that was started again is waited for    *)
(* until the time is up.                                                   *)
StopWait ==
    /\ at = "stopWait"
    /\ \/ /\ svc[Top] = "stopped"
          /\ StopReturns(TRUE)
          /\ Works
       \/ /\ IF svc[Top] \in {"running", "starting"} THEN Works ELSE Fails("stopWait")
          /\ StopReturns(FALSE)
    /\ UNCHANGED <<svc, windowVars, names, stopped, cur, before, ours, meddling, restarts>>

-----------------------------------------------------------------------------
(* Second half: startService(TermService), whatever happened so far, then  *)
(* restoreServices in reverse order, then the message to the window.       *)

NextToStart ==
    /\ stopped # <<>>
    /\ cur' = Last(stopped)
    /\ stopped' = Front(stopped)

StartReturns_IgnoreRestore(ok) ==
    /\ okay' = (okay /\ (ok \/ cur # Term))
    /\ \/ NextToStart /\ at' = "start"
       \/ stopped = <<>> /\ at' = "post" /\ UNCHANGED <<cur, stopped>>

StartReturns(ok) ==
    /\ okay' = (okay /\ ok)
    /\ \/ /\ NextToStart
          /\ at' = "start"
       \/ /\ stopped = <<>>
          /\ at' = "post"
          /\ UNCHANGED <<cur, stopped>>

(* startService looks at the state first: a stopping service is waited     *)
(* for, and only then started.                                             *)
StartService ==
    /\ at = "start"
    /\ \/ /\ svc[cur] = "running"
          /\ StartReturns(TRUE)
          /\ Works
       \/ /\ svc[cur] # "running"
          /\ at' = CASE svc[cur] = "starting" -> "startWait"
                     [] svc[cur] = "stopping" -> "downWait"
                     [] svc[cur] = "stopped"  -> "request"
          /\ Works
          /\ UNCHANGED <<stopped, cur, okay>>
       \/ /\ Fails("start")
          /\ StartReturns(FALSE)
    /\ UNCHANGED <<svc, windowVars, path, names, before, ours, meddling, restarts>>

DownWait ==
    /\ at = "downWait"
    /\ \/ /\ svc[cur] = "stopped"
          /\ at' = "request"
          /\ Works
          /\ UNCHANGED <<stopped, cur, okay>>
       \/ /\ IF svc[cur] \in {"running", "starting"} THEN Works ELSE Fails("startWait")
          /\ StartReturns(FALSE)
    /\ UNCHANGED <<svc, windowVars, path, names, before, ours, meddling, restarts>>

RequestStart ==
    /\ at = "request"
    /\ \/ /\ CanStart(cur)
          /\ StartAccepted(cur)
          /\ at' = "startWait"
          /\ Works
          /\ UNCHANGED <<stopped, cur, okay>>
       \/ /\ svc[cur] \in {"running", "starting"}
          /\ at' = "startWait"
          /\ Works
          /\ UNCHANGED <<svc, stopped, cur, okay>>
       \/ /\ IF svc[cur] = "stopping" \/ (svc[cur] = "stopped" /\ ~CanStart(cur))
             THEN Works ELSE Fails("start")
          /\ StartReturns(FALSE)
          /\ UNCHANGED svc
    /\ UNCHANGED <<windowVars, path, names, before, ours, meddling, restarts>>

StartWait ==
    /\ at = "startWait"
    /\ \/ /\ svc[cur] = "running"
          /\ StartReturns(TRUE)
          /\ Works
       \/ /\ IF svc[cur] \in {"stopped", "stopping"} THEN Works ELSE Fails("startWait")
          /\ StartReturns(FALSE)
    /\ UNCHANGED <<svc, windowVars, path, names, before, ours, meddling, restarts>>

PostComplete ==
    /\ at = "post"
    /\ \/ posted' = (IF okay THEN "ok" ELSE "failed") /\ Works
       \/ Fails("post") /\ UNCHANGED posted
    /\ at' = "none"
    /\ UNCHANGED <<svc, ui, restarting, buttons, updater, path, names, stopped, cur, okay,
                   before, ours, meddling, restarts>>

Worker == OpenTerm \/ Enumerate \/ Visit \/ StopService \/ StopWait
          \/ StartService \/ DownWait \/ RequestStart \/ StartWait \/ PostComplete

-----------------------------------------------------------------------------

(* What depends on a service that does not run does not run either.        *)
Init ==
    /\ \E up \in SUBSET Services :
          /\ \A s \in up : Above(s) \subseteq up
          /\ svc = [s \in Services |-> IF s \in up THEN "running" ELSE "stopped"]
    /\ ui = "loop"
    /\ restarting = FALSE
    /\ buttons = TRUE
    /\ posted = "none"
    /\ updater = "none"
    /\ at = "none"
    /\ path = <<Term>>
    /\ names = [s \in Services |-> {}]
    /\ stopped = <<>>
    /\ cur = Term
    /\ okay = TRUE
    /\ before = {}
    /\ ours = {}
    /\ faults = 0 /\ meddling = 0 /\ restarts = 0

Underway == at # "none" \/ posted # "none"

(* A closed window, or one whose worker could not post its message.        *)
Over == (ui = "closed" \/ (restarting /\ ~Underway)) /\ UNCHANGED vars

Next == Window \/ Worker \/ Manager \/ Meddle \/ Over

Spec == Init /\ [][Next]_vars

(* Threads run, the manager completes transitions, the window's thread     *)
(* dispatches the messages posted to it.                                   *)
FairSpec == Spec /\ WF_vars(Worker) /\ WF_vars(Manager) /\ WF_vars(RestartComplete)
                 /\ WF_vars(UpdateEnds \/ UpdateOutlivesWait)

-----------------------------------------------------------------------------
(* Properties.                                                             *)

Calls == {"none", "open", "enumerate", "visit", "stop", "stopWait", "start", "downWait",
          "request", "startWait", "post"}

Starting == {"start", "downWait", "request", "startWait"}

(* The types of the variables.                                             *)
TypeOK ==
    /\ svc \in [Services -> {"stopped", "starting", "running", "stopping"}]
    /\ ui \in {"loop", "confirm", "await", "closed"}
    /\ restarting \in BOOLEAN /\ buttons \in BOOLEAN /\ okay \in BOOLEAN
    /\ posted \in {"none", "ok", "failed"}
    /\ updater \in {"none", "awaited", "left"}
    /\ at \in Calls
    /\ path \in Seq(Services) /\ path # <<>>
    /\ names \in [Services -> SUBSET Services]
    /\ stopped \in Seq(Services) /\ cur \in Services
    /\ before \subseteq Services /\ ours \subseteq Services
    /\ faults \in 0 .. MaxFaults /\ meddling \in 0 .. MaxMeddling
    /\ restarts \in 0 .. MaxRestarts

(* While a worker runs, or its message waits, the window is there and will *)
(* neither close nor begin another restart, and its buttons say so         *)
(* ("Preventing the window from closing is important", main.cpp:456).      *)
WindowGuarded ==
    /\ Underway => restarting /\ ui # "closed"
    /\ buttons = ~restarting

(* The window never runs a restart while it waits for an update it         *)
(* launched, although both work on the same services.                      *)
UpdateApart == ~(at # "none" /\ updater = "awaited")

(* When only stopping fails (an enumeration, an open, a refused or slow    *)
(* stop), every service that ran when the restart began, and TermService,  *)
(* runs when it ends (main.cpp:399, 440: "rather than leaving a dependent  *)
(* stopped on failure", "keeps the host reachable").                       *)
RunningKept ==
    posted # "none" /\ meddling = 0 => before \cup {Term} \subseteq Running

(* A restart that reports success has brought back all that ran, whatever  *)
(* failed on the way.                                                      *)
SuccessIsTrue ==
    posted = "ok" /\ meddling = 0 => before \cup {Term} \subseteq Running

(* "restore exactly the services they stopped" (main.cpp:308): when the    *)
(* restoring is about to begin, the list holds every dependent whose stop  *)
(* this worker caused, however its wait ended, and none that another       *)
(* process was stopping; only those are started afterwards.                *)
OwnRestored ==
    at \in Starting =>
        /\ {cur} \cup Range(stopped) \subseteq ours \cup {Term}
        /\ cur = Term => ours \subseteq Range(stopped) \cup {Term}

(* Every restart ends with a usable window.                                *)
RestartEnds == restarting ~> ~restarting /\ buttons

=============================================================================
