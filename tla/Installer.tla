------------------------------ MODULE Installer ------------------------------
(***************************************************************************)
(* RDPWInst.exe (src-installer/RDPWInst.cpp): the commands -i, -u, -u -k,  *)
(* -w and -r as processes that share one machine: the ServiceDll value,    *)
(* the wrapper's files, the scheduled updater, the firewall rules and the  *)
(* service control manager.  Nothing in the program locks the machine, so  *)
(* a step of one process may fall between any two calls of another; any    *)
(* call may fail, and a process may die or the machine restart between two *)
(* calls.                                                                  *)
(***************************************************************************)
EXTENDS Naturals, FiniteSets

CONSTANTS
    Operators,    \* processes started by a person or a script
    Updaters,     \* processes that only run -w (the scheduled task, the UI)
    OpCommands,   \* the commands operators run, a subset of AllCommands
    Locs, Home,   \* where -i can install; Home is %ProgramFiles%\RDP Wrapper
    Termsrv,      \* the system's termsrv.dll
    Shared,       \* other services hosted in TermService's svchost process
    MaxDate,      \* INI dates are 1..MaxDate
    NeedsRegAdd,  \* 64-bit Windows 6.0, where setWrapperDll also runs reg.exe
    Faults,       \* the kinds of call that may fail
    MaxFaults,    \* bound on failures, crashes and restarts in a behaviour
    MaxCommands   \* bound on the commands one operator runs

AllCommands == {"install", "uninstall", "uninstallKeep", "update", "restart"}
FaultKinds  == {"query", "registry", "kill", "start", "stop", "file", "netsh",
                "updater", "crash", "reboot"}
Procs       == Operators \cup Updaters
NoDll       == "nodll"    \* nothing is mapped

ASSUME ProcsAssumption  == Operators \cap Updaters = {}
ASSUME LocsAssumption   == Home \in Locs /\ Termsrv \notin Locs /\ NoDll \notin Locs
ASSUME BoundsAssumption ==
    /\ MaxDate \in Nat \ {0} /\ MaxFaults \in Nat /\ MaxCommands \in Nat
    /\ NeedsRegAdd \in BOOLEAN
    /\ OpCommands \subseteq AllCommands /\ Faults \subseteq FaultKinds

VARIABLES
    \* the registry
    serviceDll,   \* Parameters\ServiceDll: Termsrv or the wrapper at a location
    denyTS,       \* fDenyTSConnections = 1
    addins,       \* the AddIns key: "absent", "partial" or "whole"
    \* files, the task and the firewall
    dll,          \* rdpwrap.dll at each location: "none", "partial", "whole"
    ini,          \* the INI at each location: a date, Absent or Torn
    homeDir,      \* the directory Home exists
    updExe,       \* Home\RDPWInst.exe exists
    updTask,      \* the task that runs it with -w exists
    delOnBoot,    \* its deletion is queued for the next restart
    rules,        \* firewall rules of each name; 2 stands for several
    \* the service control manager
    term,         \* the state of TermService
    shared,       \* the running ones of Shared
    um,           \* UmRdpService, a dependent of TermService, runs
    loaded,       \* what TermService has mapped: NoDll, Termsrv or a location
    loadedIni,    \* the date of the INI the wrapper read when it was loaded
    autoStart,    \* TermService starts with the machine
    \* the processes
    pc, phase,    \* the next call, and the command it belongs to
    wrap,         \* wrapPath of -i, termServicePath of the others
    self,         \* the processes that run from Home\RDPWInst.exe
    fresh,        \* those whose termServicePid is still TermService's process
    todo,         \* captured sharedServices not started yet
    okay,         \* those whose flags ok, servicesOk, saved, ... all hold
    date,         \* oldDate, then newDate
    result,       \* how the last command ended
    left,         \* commands the process may still start
    faults        \* failures so far

registryVars == <<serviceDll, denyTS, addins>>
fileVars     == <<dll, ini, homeDir, updExe, updTask, delOnBoot, rules>>
scmVars      == <<term, shared, um, loaded, loadedIni, autoStart>>
localVars    == <<wrap, self, fresh, todo, okay, date, left>>
vars == <<registryVars, fileVars, scmVars, localVars, pc, phase, result, faults>>

Absent  == 0
Torn    == MaxDate + 1    \* created but not completely written
Dates   == 1 .. MaxDate
Rules   == {"tcp", "udp"}

Usable(l)      == dll[l] = "whole" /\ ini[l] \in Dates
Installed      == serviceDll \in Locs
DirExists(l)   == l = Home => homeDir
Commands(p)    == IF p \in Operators THEN OpCommands ELSE {"update"}
Budget(p)      == IF p \in Operators THEN MaxCommands ELSE 1
Removing       == {"uninstall", "uninstallKeep"}
Resting        == {"idle", "done"}

(* RDPWInst's own directory goes when nothing is left in it.               *)
HomeEmpty(dlls, inis, exe) == dlls[Home] = "none" /\ inis[Home] = Absent /\ ~exe

-----------------------------------------------------------------------------
(* Control flow.  A call either works, and the process goes on, or is one  *)
(* of at most MaxFaults failures of the kinds in Faults.                   *)

Works == UNCHANGED faults

Fails(kind) ==
    /\ kind \in Faults
    /\ faults < MaxFaults
    /\ faults' = faults + 1

Goto(p, label) ==
    /\ pc' = [pc EXCEPT ![p] = label]
    /\ UNCHANGED <<phase, result>>

Exit(p, outcome) ==
    /\ pc' = [pc EXCEPT ![p] = "done"]
    /\ result' = [result EXCEPT ![p] = outcome]
    /\ UNCHANGED phase

(* halt() throws: inside the try block of -i it runs the rollback.         *)
TryBlock_AfterRestart == {"registry", "fwUndo"}

TryBlock == {"kill", "settle", "registry", "fwUndo"}

Halt(p) ==
    IF phase[p] = "install" /\ pc[p] \in TryBlock
    THEN /\ pc' = [pc EXCEPT ![p] = "restoreDll"]
         /\ phase' = [phase EXCEPT ![p] = "rollback"]
         /\ UNCHANGED result
    ELSE Exit(p, "failed")

NotOkay(p) == okay' = okay \ {p}

-----------------------------------------------------------------------------
(* wmain: checkInstall, the guards of each command and its first step.     *)

FirstStep(c) == IF c = "update" THEN "readDate" ELSE "check"

Begin(p) == \E c \in Commands(p) :
    /\ pc[p] \in Resting
    /\ left[p] > 0
    /\ left' = [left EXCEPT ![p] = @ - 1]
    /\ phase' = [phase EXCEPT ![p] = c]
    /\ okay' = okay \cup {p}
    /\ date' = [date EXCEPT ![p] = 0]
    /\ fresh' = fresh \ {p}
    /\ todo' = [todo EXCEPT ![p] = {}]
    /\ \/ self' = self \ {p}
       \/ updExe /\ c \in Removing \cup {"install"} /\ self' = self \cup {p}
    /\ \E l \in Locs \cup {Termsrv} :
          /\ IF c = "install" THEN l \in Locs ELSE l = serviceDll
          /\ wrap' = [wrap EXCEPT ![p] = l]
    /\ \/ /\ c = "restart" \/ (Installed <=> c # "install")
          /\ pc' = [pc EXCEPT ![p] = FirstStep(c)]
          /\ UNCHANGED result
       \/ /\ c # "restart" /\ (Installed <=> c = "install")
          /\ pc' = [pc EXCEPT ![p] = "done"]
          /\ result' = [result EXCEPT ![p] = "refused"]
    /\ UNCHANGED <<registryVars, fileVars, scmVars, faults>>

(* checkTermsrvProcess: capture the process of TermService and the         *)
(* services it hosts; a stopped TermService is started once and looked at  *)
(* again.                                                                  *)
AfterCheck_KeepServiceDll(c) ==
    CASE c = "install" -> "makeDir" [] c = "update" -> "stopUm" [] OTHER -> "kill"

AfterCheck(c) ==
    CASE c = "install"    -> "makeDir"
      [] c = "update"     -> "stopUm"
      [] c \in Removing   -> "resetDll"
      [] OTHER            -> "kill"

Capture_NotShared(p) ==
    /\ pc[p] \in {"check", "recheck"} /\ term # "stopped"
    /\ fresh' = fresh \cup {p}
    /\ Goto(p, AfterCheck(phase[p]))
    /\ UNCHANGED <<registryVars, fileVars, scmVars, wrap, self, todo, okay, date, left, faults>>

Capture(p) ==
    /\ pc[p] \in {"check", "recheck"}
    /\ \/ /\ term # "stopped"
          /\ fresh' = fresh \cup {p}
          /\ todo' = [todo EXCEPT ![p] = shared]
          /\ Goto(p, AfterCheck(phase[p]))
          /\ Works
       \/ /\ Fails("query")          \* enumerateServices
          /\ Halt(p)
          /\ UNCHANGED <<fresh, todo>>
    /\ UNCHANGED <<registryVars, fileVars, scmVars, wrap, self, okay, date, left>>

(* configureServiceStart only prints that it failed.                       *)
CheckStopped(p) ==
    /\ term = "stopped"
    /\ \/ /\ pc[p] = "check"
          /\ \/ autoStart' = TRUE /\ Works
             \/ Fails("query") /\ UNCHANGED autoStart
          /\ Goto(p, "checkStart")
       \/ /\ pc[p] = "recheck"
          /\ Halt(p)
          /\ Works
          /\ UNCHANGED autoStart
    /\ UNCHANGED <<registryVars, fileVars, term, shared, um, loaded, loadedIni, localVars>>

-----------------------------------------------------------------------------
(* startService(TermService): ask, then poll until it leaves the pending   *)
(* state or the time is up.                                                *)

Started(p, ok) ==
    IF pc[p] \in {"checkStart", "checkWait"}
    THEN /\ IF ok THEN Goto(p, "recheck") ELSE Halt(p)
         /\ UNCHANGED okay
    ELSE /\ okay' = IF ok THEN okay ELSE okay \ {p}
         /\ Goto(p, "settle")

StartTerm(p) ==
    /\ pc[p] \in {"checkStart", "start"}
    /\ \/ /\ term \in {"stopped", "starting"}
          /\ term' = "starting"
          /\ Goto(p, IF pc[p] = "start" THEN "wait" ELSE "checkWait")
          /\ Works
          /\ UNCHANGED okay
       \/ /\ term \in {"running", "stopping"}
          /\ Started(p, term = "running")
          /\ Works
          /\ UNCHANGED term
       \/ /\ Fails("start")
          /\ Started(p, FALSE)
          /\ UNCHANGED term
    /\ UNCHANGED <<registryVars, fileVars, shared, um, loaded, loadedIni, autoStart,
                   wrap, self, fresh, todo, date, left>>

WaitTerm(p) ==
    /\ pc[p] \in {"checkWait", "wait"}
    /\ \/ /\ term # "starting"
          /\ Started(p, term = "running")
          /\ Works
       \/ /\ term = "starting"
          /\ Fails("start")
          /\ Started(p, FALSE)
    /\ UNCHANGED <<registryVars, fileVars, scmVars, wrap, self, fresh, todo, date, left>>

(* killProcess(termServicePid) ends everything the process hosts.  A       *)
(* process that is gone cannot be opened.                                  *)
KillProcess_GoneIsFine(p) ==
    /\ pc[p] = "kill"
    /\ Goto(p, IF phase[p] \in Removing THEN "deleteIni" ELSE "shared")
    /\ IF p \in fresh
       THEN /\ term' = "stopped" /\ shared' = {} /\ loaded' = NoDll /\ loadedIni' = Absent
            /\ fresh' = {}
       ELSE UNCHANGED <<term, shared, loaded, loadedIni, fresh>>
    /\ UNCHANGED <<registryVars, fileVars, um, autoStart, wrap, self, todo, okay, date,
                   left, faults>>

KillProcess(p) ==
    /\ pc[p] = "kill"
    /\ okay' = okay \cup {p}
    /\ \/ /\ p \in fresh
          /\ term' = "stopped"
          /\ shared' = {}
          /\ loaded' = NoDll
          /\ loadedIni' = Absent
          /\ fresh' = {}
          /\ \/ /\ Works
                /\ Goto(p, IF phase[p] \in Removing THEN "deleteIni" ELSE "shared")
             \/ Fails("kill") /\ Halt(p)          \* the wait timed out
       \/ /\ IF p \in fresh THEN Fails("kill") ELSE Works
          /\ Halt(p)
          /\ UNCHANGED <<term, shared, loaded, loadedIni, fresh>>
    /\ UNCHANGED <<registryVars, fileVars, um, autoStart, wrap, self, todo, date, left>>

(* startService for each captured service; then the command's next step.   *)
AfterShared_SkipSave(c) == "start"

AfterShared(c) == IF c = "update" THEN "saveIni" ELSE "start"

StartShared(p) ==
    /\ pc[p] = "shared"
    /\ \/ \E s \in todo[p] :
            /\ todo' = [todo EXCEPT ![p] = @ \ {s}]
            /\ \/ shared' = shared \cup {s} /\ Works /\ UNCHANGED okay
               \/ Fails("start") /\ NotOkay(p) /\ UNCHANGED shared
            /\ UNCHANGED <<pc, phase, result>>
       \/ /\ todo[p] = {}
          /\ Goto(p, AfterShared(phase[p]))
          /\ Works
          /\ UNCHANGED <<todo, okay, shared>>
    /\ UNCHANGED <<registryVars, fileVars, term, um, loaded, loadedIni, autoStart,
                   wrap, self, fresh, date, left>>

(* What follows the start of TermService in each command.                  *)
Settle(p) ==
    /\ pc[p] = "settle"
    /\ \/ /\ phase[p] \in Removing
          /\ Goto(p, IF phase[p] = "uninstall" THEN "registry" ELSE "verdict")
       \/ /\ phase[p] = "install"
          /\ IF p \in okay THEN Goto(p, "registry") ELSE Halt(p)
       \/ /\ phase[p] = "rollback"
          /\ Exit(p, "failed")
       \/ /\ phase[p] \in {"update", "restart"}
          /\ IF p \in okay THEN Exit(p, "ok") ELSE Halt(p)
    /\ UNCHANGED <<registryVars, fileVars, scmVars, localVars, faults>>

-----------------------------------------------------------------------------
(* -i: extractFiles.  An online or adjacent INI goes through writeBytes,   *)
(* the built-in one and the DLL are created in place and deleted when the  *)
(* extraction fails.                                                       *)

MakeDir(p) ==
    /\ pc[p] = "makeDir"
    /\ \/ /\ homeDir' = (homeDir \/ wrap[p] = Home)
          /\ Goto(p, "extractIni")
          /\ Works
       \/ /\ Fails("file")
          /\ ~DirExists(wrap[p])
          /\ Halt(p)
          /\ UNCHANGED homeDir
    /\ UNCHANGED <<registryVars, dll, ini, updExe, updTask, delOnBoot, rules,
                   scmVars, localVars>>

ExtractIni(p) ==
    /\ pc[p] = "extractIni"
    /\ Works
    /\ \/ \E d \in Dates :
            /\ ini' = [ini EXCEPT ![wrap[p]] = d]
            /\ Goto(p, "extractDll")
       \/ /\ ini' = [ini EXCEPT ![wrap[p]] = Torn]
          /\ Goto(p, "fillIni")
    /\ UNCHANGED <<registryVars, dll, homeDir, updExe, updTask, delOnBoot, rules,
                   scmVars, localVars>>

FillIni(p) ==
    /\ pc[p] = "fillIni"
    /\ \/ /\ ini' = [ini EXCEPT ![wrap[p]] = 1]
          /\ Goto(p, "extractDll")
          /\ Works
       \/ /\ Fails("file")
          /\ ini' = [ini EXCEPT ![wrap[p]] = Absent]
          /\ Halt(p)
    /\ UNCHANGED <<registryVars, dll, homeDir, updExe, updTask, delOnBoot, rules,
                   scmVars, localVars>>

(* A mapped DLL can be neither created over nor deleted.                   *)
ExtractDll(p) ==
    /\ pc[p] = "extractDll"
    /\ \/ /\ loaded # wrap[p]
          /\ dll' = [dll EXCEPT ![wrap[p]] = "partial"]
          /\ Goto(p, "fillDll")
       \/ /\ loaded = wrap[p]
          /\ Halt(p)
          /\ UNCHANGED dll
    /\ UNCHANGED <<registryVars, ini, homeDir, updExe, updTask, delOnBoot, rules,
                   scmVars, localVars, faults>>

FillDll(p) ==
    /\ pc[p] = "fillDll"
    /\ \/ /\ dll' = [dll EXCEPT ![wrap[p]] = "whole"]
          /\ Goto(p, "setDll")
          /\ Works
       \/ /\ Fails("file")
          /\ dll' = [dll EXCEPT ![wrap[p]] = "none"]
          /\ Halt(p)
    /\ UNCHANGED <<registryVars, ini, homeDir, updExe, updTask, delOnBoot, rules,
                   scmVars, localVars>>

(* setWrapperDll, outside the try block of -i: the registry write, and on  *)
(* 64-bit Windows 6.0 reg.exe writing the same value again.                *)
SetWrapperDll(p) ==
    /\ pc[p] \in {"setDll", "regAdd"}
    /\ \/ /\ serviceDll' = wrap[p]
          /\ Goto(p, IF pc[p] = "setDll" /\ NeedsRegAdd THEN "regAdd" ELSE "kill")
          /\ Works
       \/ /\ Fails("registry")
          /\ Halt(p)
          /\ UNCHANGED serviceDll
    /\ UNCHANGED <<denyTS, addins, fileVars, scmVars, localVars>>

(* The catch block of -i.  originalServiceDll is termsrv.dll: -i refused   *)
(* to start on an installed wrapper.                                       *)
RestoreServiceDll(p) ==
    /\ pc[p] = "restoreDll"
    /\ \/ /\ serviceDll' = Termsrv
          /\ Goto(p, "check")
          /\ Works
       \/ /\ Fails("registry")
          /\ Halt(p)
          /\ UNCHANGED serviceDll
    /\ UNCHANGED <<denyTS, addins, fileVars, scmVars, localVars>>

(* configureTerminalServicesRegistry and configureFirewall.                *)
ConfigureRegistry(p) ==
    /\ pc[p] = "registry"
    /\ LET enable == phase[p] = "install" IN
       \/ /\ Works
          /\ denyTS' = ~enable
          /\ addins' = IF enable /\ addins = "absent" THEN "whole" ELSE addins
          /\ Goto(p, "fwClear")
       \/ /\ Fails("registry")
          /\ denyTS' \in {denyTS, denyTS /\ ~enable}
          /\ addins' \in {addins} \cup
                {a \in {"partial"} : enable /\ addins = "absent" /\ ~denyTS'}
          /\ Halt(p)
    /\ UNCHANGED <<serviceDll, fileVars, scmVars, localVars>>

(* netsh fails to delete a rule that does not exist: -i ignores it, -u     *)
(* does not.                                                               *)
ClearFirewall_OnlyOnUninstall(p) ==
    /\ pc[p] = "fwClear"
    /\ rules' = IF phase[p] = "install" THEN rules ELSE [r \in Rules |-> 0]
    /\ Goto(p, IF phase[p] = "install" THEN "fwTcp" ELSE "verdict")
    /\ UNCHANGED <<registryVars, dll, ini, homeDir, updExe, updTask, delOnBoot,
                   scmVars, localVars, faults>>

ClearFirewall(p) ==
    /\ pc[p] = "fwClear"
    /\ \E kept \in SUBSET Rules :
          /\ IF kept = {} THEN Works ELSE Fails("netsh")
          /\ rules' = [r \in Rules |-> IF r \in kept THEN rules[r] ELSE 0]
          /\ \/ phase[p] = "install" /\ Goto(p, "fwTcp")
             \/ /\ phase[p] # "install"
                /\ IF kept = {} /\ \A r \in Rules : rules[r] > 0
                   THEN Goto(p, "verdict") ELSE Halt(p)
    /\ UNCHANGED <<registryVars, dll, ini, homeDir, updExe, updTask, delOnBoot,
                   scmVars, localVars>>

AddRule(p, r, here, next) ==
    /\ pc[p] = here
    /\ \/ /\ rules' = [rules EXCEPT ![r] = IF @ = 0 THEN 1 ELSE 2]
          /\ Goto(p, next)
          /\ Works
       \/ /\ Fails("netsh")
          /\ Goto(p, "fwUndo")
          /\ UNCHANGED rules
    /\ UNCHANGED <<registryVars, dll, ini, homeDir, updExe, updTask, delOnBoot,
                   scmVars, localVars>>

AddRules_TcpOnly(p) == AddRule(p, "tcp", "fwTcp", "deploy")

AddRules(p) == AddRule(p, "tcp", "fwTcp", "fwUdp") \/ AddRule(p, "udp", "fwUdp", "deploy")

(* What these deletions return is not looked at.                           *)
UndoFirewall(p) ==
    /\ pc[p] = "fwUndo"
    /\ \E kept \in SUBSET Rules :
          /\ IF kept = {} THEN Works ELSE Fails("netsh")
          /\ rules' = [r \in Rules |-> IF r \in kept THEN rules[r] ELSE 0]
    /\ Halt(p)
    /\ UNCHANGED <<registryVars, dll, ini, homeDir, updExe, updTask, delOnBoot,
                   scmVars, localVars>>

(* deployUpdater: copy the program, then create the task; if schtasks      *)
(* fails the copy is deleted again, unless it is the running program.      *)
CopyUpdater(p) ==
    /\ pc[p] = "deploy"
    /\ \/ /\ homeDir' = TRUE
          /\ updExe' = (updExe \/ p \notin self)
          /\ Goto(p, "schedule")
          /\ Works
       \/ /\ Fails("updater")
          /\ homeDir' = TRUE \/ UNCHANGED homeDir
          /\ Halt(p)
          /\ UNCHANGED updExe
    /\ UNCHANGED <<registryVars, dll, ini, updTask, delOnBoot, rules, scmVars, localVars>>

ScheduleUpdater(p) ==
    /\ pc[p] = "schedule"
    /\ \/ /\ updTask' = TRUE
          /\ Exit(p, "ok")
          /\ Works
          /\ UNCHANGED updExe
       \/ /\ Fails("updater")
          /\ updExe' = (updExe /\ p \in self)
          /\ Halt(p)
          /\ UNCHANGED updTask
    /\ UNCHANGED <<registryVars, dll, ini, homeDir, delOnBoot, rules, scmVars, localVars>>

-----------------------------------------------------------------------------
(* -u: resetServiceDll, killProcess, then deleteFiles.                     *)

ResetServiceDll(p) ==
    /\ pc[p] = "resetDll"
    /\ \/ /\ serviceDll' = Termsrv
          /\ Goto(p, "kill")
          /\ Works
       \/ /\ Fails("registry")
          /\ Halt(p)
          /\ UNCHANGED serviceDll
    /\ UNCHANGED <<denyTS, addins, fileVars, scmVars, localVars>>

DeleteIni(p) ==
    /\ pc[p] = "deleteIni"
    /\ \/ /\ ini' = [ini EXCEPT ![wrap[p]] = Absent]
          /\ Works
          /\ UNCHANGED okay
       \/ /\ Fails("file")
          /\ NotOkay(p)
          /\ UNCHANGED ini
    /\ Goto(p, "deleteDll")
    /\ UNCHANGED <<registryVars, dll, homeDir, updExe, updTask, delOnBoot, rules,
                   scmVars, wrap, self, fresh, todo, date, left>>

DeleteDll(p) ==
    /\ pc[p] = "deleteDll"
    /\ \/ /\ loaded # wrap[p]
          /\ dll' = [dll EXCEPT ![wrap[p]] = "none"]
          /\ homeDir' = (homeDir /\ ~(wrap[p] = Home /\ HomeEmpty(dll', ini, updExe)))
          /\ Works
          /\ UNCHANGED okay
       \/ /\ IF loaded = wrap[p] THEN Works ELSE Fails("file")
          /\ NotOkay(p)
          /\ UNCHANGED <<dll, homeDir>>
    /\ Goto(p, "shared")
    /\ UNCHANGED <<registryVars, ini, updExe, updTask, delOnBoot, rules, scmVars,
                   wrap, self, fresh, todo, date, left>>

Verdict_IgnoreFiles(p) ==
    /\ pc[p] = "verdict"
    /\ Goto(p, "removeTask")
    /\ UNCHANGED <<registryVars, fileVars, scmVars, localVars, faults>>

Verdict(p) ==
    /\ pc[p] = "verdict"
    /\ IF p \in okay THEN Goto(p, "removeTask") ELSE Halt(p)
    /\ UNCHANGED <<registryVars, fileVars, scmVars, localVars, faults>>

(* removeUpdater: every failure is at most printed.                        *)
RemoveTask(p) ==
    /\ pc[p] = "removeTask"
    /\ \/ updTask' = FALSE /\ Works
       \/ Fails("updater") /\ UNCHANGED updTask
    /\ Goto(p, "removeExe")
    /\ UNCHANGED <<registryVars, dll, ini, homeDir, updExe, delOnBoot, rules,
                   scmVars, localVars>>

RemoveExe(p) ==
    /\ pc[p] = "removeExe"
    /\ \/ /\ Works
          /\ updExe' = (updExe /\ p \in self)
          /\ delOnBoot' = (delOnBoot \/ (updExe /\ p \in self))
       \/ /\ updExe
          /\ Fails("updater")
          /\ UNCHANGED <<updExe, delOnBoot>>
    /\ homeDir' = (homeDir /\ ~HomeEmpty(dll, ini, updExe'))
    /\ Exit(p, "ok")
    /\ UNCHANGED <<registryVars, dll, ini, updTask, rules, scmVars, localVars>>

-----------------------------------------------------------------------------
(* -w: checkUpdate.                                                        *)

(* A torn INI may still show the date line it begins with.                 *)
ReadDate_AnyFile(p) ==
    /\ pc[p] = "readDate"
    /\ date' = [date EXCEPT ![p] = ini[wrap[p]]]
    /\ Goto(p, "download")
    /\ UNCHANGED <<registryVars, fileVars, scmVars, wrap, self, fresh, todo, okay,
                   left, faults>>

ReadDate(p) ==
    /\ pc[p] = "readDate"
    /\ \/ /\ ini[wrap[p]] # Absent
          /\ date' = [date EXCEPT ![p] = IF ini[wrap[p]] = Torn THEN 1 ELSE ini[wrap[p]]]
          /\ Goto(p, "download")
       \/ /\ ini[wrap[p]] \in {Absent, Torn}
          /\ Halt(p)
          /\ UNCHANGED date
    /\ UNCHANGED <<registryVars, fileVars, scmVars, wrap, self, fresh, todo, okay,
                   left, faults>>

Download(p) ==
    /\ pc[p] = "download"
    /\ \/ \E d \in Dates :
            \/ d > date[p] /\ date' = [date EXCEPT ![p] = d] /\ Goto(p, "check")
            \/ d <= date[p] /\ Exit(p, "current") /\ UNCHANGED date
       \/ Halt(p) /\ UNCHANGED date
    /\ UNCHANGED <<registryVars, fileVars, scmVars, wrap, self, fresh, todo, okay,
                   left, faults>>

StopUm(p) ==
    /\ pc[p] = "stopUm"
    /\ \/ um' = FALSE /\ Works
       \/ um /\ Fails("stop") /\ UNCHANGED um
    /\ Goto(p, "stopTerm")
    /\ UNCHANGED <<registryVars, fileVars, term, shared, loaded, loadedIni, autoStart,
                   localVars>>

(* The manager refuses to stop a service that has a running dependent or   *)
(* is between two states.                                                  *)
StopTerm(p) ==
    /\ pc[p] = "stopTerm"
    /\ \/ /\ term = "stopped"
          /\ Goto(p, "shared")
          /\ Works
          /\ UNCHANGED term
       \/ /\ term = "running" /\ ~um
          /\ term' = "stopping"
          /\ Goto(p, "stopWait")
          /\ Works
       \/ /\ IF term \in {"starting", "stopping"} \/ (term = "running" /\ um)
             THEN Works ELSE Fails("stop")
          /\ Goto(p, "restartUm")
          /\ UNCHANGED term
    /\ UNCHANGED <<registryVars, fileVars, shared, um, loaded, loadedIni, autoStart,
                   localVars>>

StopWait_NoTimeout(p) ==
    /\ pc[p] = "stopWait" /\ term = "stopped"
    /\ Goto(p, "shared")
    /\ UNCHANGED <<registryVars, fileVars, scmVars, localVars, faults>>

StopWait(p) ==
    /\ pc[p] = "stopWait"
    /\ \/ term = "stopped" /\ Goto(p, "shared") /\ Works
       \/ /\ term # "stopped"
          /\ IF term = "stopping" THEN Fails("stop") ELSE Works
          /\ Goto(p, "restartUm")
    /\ UNCHANGED <<registryVars, fileVars, scmVars, localVars>>

(* UmRdpService is started if this process stopped it (umStopped, which is *)
(* either here); the manager then starts a stopped TermService first.      *)
RestartUm(p) ==
    /\ pc[p] = "restartUm"
    /\ \/ /\ um' = (um \/ term = "running")
          /\ term' = IF term = "stopped" THEN "starting" ELSE term
          /\ Works
       \/ Works /\ UNCHANGED <<um, term>>
       \/ Fails("start") /\ UNCHANGED <<um, term>>
    /\ Halt(p)
    /\ UNCHANGED <<registryVars, fileVars, shared, loaded, loadedIni, autoStart, localVars>>

(* writeBytes: the new content is complete before it replaces the old.     *)
SaveIni_InPlace(p) ==
    /\ pc[p] = "saveIni" /\ DirExists(wrap[p])
    /\ IF ini[wrap[p]] = Torn
       THEN ini' = [ini EXCEPT ![wrap[p]] = date[p]] /\ Goto(p, "start")
       ELSE ini' = [ini EXCEPT ![wrap[p]] = Torn] /\ UNCHANGED <<pc, phase, result>>
    /\ UNCHANGED <<registryVars, dll, homeDir, updExe, updTask, delOnBoot, rules,
                   scmVars, localVars, faults>>

SaveIni_NoStart(p) ==
    /\ pc[p] = "saveIni" /\ DirExists(wrap[p])
    /\ ini' = [ini EXCEPT ![wrap[p]] = date[p]]
    /\ Goto(p, "settle")
    /\ UNCHANGED <<registryVars, dll, homeDir, updExe, updTask, delOnBoot, rules,
                   scmVars, localVars, faults>>

SaveIni(p) ==
    /\ pc[p] = "saveIni"
    /\ \/ /\ DirExists(wrap[p])
          /\ ini' = [ini EXCEPT ![wrap[p]] = date[p]]
          /\ Works
          /\ UNCHANGED okay
       \/ /\ IF DirExists(wrap[p]) THEN Fails("file") ELSE Works
          /\ NotOkay(p)
          /\ UNCHANGED ini
    /\ Goto(p, "start")
    /\ UNCHANGED <<registryVars, dll, homeDir, updExe, updTask, delOnBoot, rules,
                   scmVars, wrap, self, fresh, todo, date, left>>

-----------------------------------------------------------------------------
(* The service control manager.  svchost lives as long as it hosts a       *)
(* running service; a PID captured earlier is stale once it is gone.       *)

HostEnds == fresh' = {}

TermStarts ==
    /\ term = "starting"
    /\ Installed => Usable(serviceDll)
    /\ term' = "running"
    /\ loaded' = serviceDll
    /\ loadedIni' = IF Installed THEN ini[serviceDll] ELSE Absent
    /\ UNCHANGED <<registryVars, fileVars, shared, um, autoStart, localVars,
                   pc, phase, result, faults>>

TermGone ==
    /\ term' = "stopped"
    /\ loaded' = NoDll
    /\ loadedIni' = Absent
    /\ IF shared = {} THEN HostEnds ELSE UNCHANGED fresh
    /\ UNCHANGED <<registryVars, fileVars, shared, um, autoStart, wrap, self, todo,
                   okay, date, left, pc, phase, result>>

TermStops == term = "stopping" /\ TermGone /\ Works

(* Its library cannot be loaded, or the start fails for another reason.    *)
TermFails ==
    /\ term = "starting"
    /\ TermGone
    /\ IF Installed /\ ~Usable(serviceDll) THEN Works ELSE Fails("start")

-----------------------------------------------------------------------------
(* A process dies between two calls; the machine restarts.                 *)

Crash(p) ==
    /\ pc[p] \notin Resting
    /\ Fails("crash")
    /\ Exit(p, "crashed")
    /\ UNCHANGED <<registryVars, fileVars, scmVars, localVars>>

Reboot ==
    /\ Fails("reboot")
    /\ pc' = [p \in Procs |-> IF pc[p] \in Resting THEN pc[p] ELSE "done"]
    /\ result' = [p \in Procs |-> IF pc[p] \in Resting THEN result[p] ELSE "crashed"]
    /\ HostEnds
    /\ updExe' = (updExe /\ ~delOnBoot)
    /\ homeDir' = (homeDir /\ ~(delOnBoot /\ HomeEmpty(dll, ini, updExe')))
    /\ delOnBoot' = FALSE
    /\ term' = IF autoStart THEN "starting" ELSE "stopped"
    /\ shared' = Shared
    /\ um' = FALSE
    /\ loaded' = NoDll
    /\ loadedIni' = Absent
    /\ UNCHANGED <<registryVars, dll, ini, updTask, rules, autoStart, wrap, self, todo,
                   okay, date, left, phase>>

-----------------------------------------------------------------------------
(* A machine without the wrapper, or with one installed by -i.             *)

CleanMachine ==
    /\ serviceDll = Termsrv
    /\ denyTS = TRUE
    /\ addins \in {"absent", "whole"}
    /\ dll = [l \in Locs |-> "none"]
    /\ ini = [l \in Locs |-> Absent]
    /\ homeDir = FALSE
    /\ updExe = FALSE
    /\ updTask = FALSE
    /\ rules = [r \in Rules |-> 0]

InstalledMachine ==
    /\ serviceDll \in Locs
    /\ denyTS = FALSE
    /\ addins = "whole"
    /\ dll = [l \in Locs |-> IF l = serviceDll THEN "whole" ELSE "none"]
    /\ \E d \in Dates : ini = [l \in Locs |-> IF l = serviceDll THEN d ELSE Absent]
    /\ homeDir = TRUE
    /\ updExe = TRUE
    /\ updTask = TRUE
    /\ rules = [r \in Rules |-> 1]

Init ==
    /\ CleanMachine \/ InstalledMachine
    /\ delOnBoot = FALSE
    /\ term = "running"
    /\ shared = Shared
    /\ um = TRUE
    /\ loaded = serviceDll
    /\ loadedIni = IF Installed THEN ini[serviceDll] ELSE Absent
    /\ autoStart = FALSE
    /\ pc = [p \in Procs |-> "idle"]
    /\ phase = [p \in Procs |-> "restart"]
    /\ wrap = [p \in Procs |-> Termsrv]
    /\ self = {}
    /\ fresh = {}
    /\ todo = [p \in Procs |-> {}]
    /\ okay = Procs
    /\ date = [p \in Procs |-> 0]
    /\ result = [p \in Procs |-> "none"]
    /\ left = [p \in Procs |-> Budget(p)]
    /\ faults = 0

Services(p) == Capture(p) \/ CheckStopped(p) \/ StartTerm(p) \/ WaitTerm(p)
               \/ KillProcess(p) \/ StartShared(p) \/ Settle(p)

Install(p)  == MakeDir(p) \/ ExtractIni(p) \/ FillIni(p) \/ ExtractDll(p) \/ FillDll(p)
               \/ SetWrapperDll(p) \/ RestoreServiceDll(p)
               \/ ConfigureRegistry(p) \/ ClearFirewall(p) \/ AddRules(p)
               \/ UndoFirewall(p) \/ CopyUpdater(p) \/ ScheduleUpdater(p)

Uninstall(p) == ResetServiceDll(p) \/ DeleteIni(p) \/ DeleteDll(p) \/ Verdict(p)
               \/ RemoveTask(p) \/ RemoveExe(p)

Update(p)   == ReadDate(p) \/ Download(p) \/ StopUm(p) \/ StopTerm(p) \/ StopWait(p)
               \/ RestartUm(p) \/ SaveIni(p)

Step(p) == Services(p) \/ Install(p) \/ Uninstall(p) \/ Update(p)

Manager == TermStarts \/ TermStops \/ TermFails

AllResting == \A p \in Procs : pc[p] \in Resting
Finished   == AllResting /\ (\A p \in Procs : left[p] = 0) /\ term \in {"stopped", "running"}

Next ==
    \/ \E p \in Procs : Begin(p) \/ Step(p) \/ Crash(p)
    \/ Manager
    \/ Reboot
    \/ Finished /\ UNCHANGED vars

Spec == Init /\ [][Next]_vars

(* A process that has not died makes its next call, and the service        *)
(* control manager completes a pending transition.                         *)
Fairness ==
    /\ \A p \in Procs : WF_vars(Step(p))
    /\ WF_vars(Manager)

FairSpec == Spec /\ Fairness

-----------------------------------------------------------------------------
(* Properties.                                                             *)

Steps == {"idle", "done", "check", "recheck", "checkStart", "checkWait", "start",
          "wait", "settle", "kill", "shared", "makeDir", "extractIni", "fillIni",
          "extractDll", "fillDll", "setDll", "regAdd", "restoreDll", "registry",
          "fwClear", "fwTcp", "fwUdp", "fwUndo", "deploy", "schedule", "resetDll",
          "deleteIni", "deleteDll", "verdict", "removeTask", "removeExe",
          "readDate", "download", "stopUm", "stopTerm", "stopWait", "restartUm",
          "saveIni"}

RegistryOK ==
    /\ serviceDll \in Locs \cup {Termsrv}
    /\ addins \in {"absent", "partial", "whole"}

FilesOK ==
    /\ dll \in [Locs -> {"none", "partial", "whole"}]
    /\ ini \in [Locs -> 0 .. Torn]
    /\ rules \in [Rules -> 0 .. 2]

ManagerOK ==
    /\ term \in {"stopped", "starting", "running", "stopping"}
    /\ shared \in SUBSET Shared
    /\ loaded \in Locs \cup {Termsrv, NoDll}
    /\ loadedIni \in 0 .. Torn

ProcessesOK ==
    /\ pc \in [Procs -> Steps]
    /\ phase \in [Procs -> AllCommands \cup {"rollback"}]
    /\ wrap \in [Procs -> Locs \cup {Termsrv}]
    /\ self \in SUBSET Procs /\ fresh \in SUBSET Procs /\ okay \in SUBSET Procs
    /\ todo \in [Procs -> SUBSET Shared]
    /\ date \in [Procs -> 0 .. MaxDate]
    /\ result \in [Procs -> {"none", "refused", "ok", "current", "failed", "crashed"}]
    /\ left \in [Procs -> Nat]
    /\ faults \in 0 .. MaxFaults

FlagsOK ==
    /\ denyTS \in BOOLEAN /\ homeDir \in BOOLEAN /\ updExe \in BOOLEAN
    /\ updTask \in BOOLEAN /\ delOnBoot \in BOOLEAN
    /\ um \in BOOLEAN /\ autoStart \in BOOLEAN

(* The types of the variables.                                             *)
TypeOK == RegistryOK /\ FilesOK /\ ManagerOK /\ ProcessesOK /\ FlagsOK

(* ServiceDll never names a wrapper whose DLL or INI is missing or only    *)
(* partly written: whatever command is cut off at whatever call, TermService*)
(* can be started.  (The orders extractFiles before setWrapperDll, and     *)
(* resetServiceDll before deleteFiles, and the atomic writeBytes.)         *)
WrapperResolvable == Installed => Usable(serviceDll)

Ended(p, commands, outcomes) ==
    pc[p] = "done" /\ phase[p] \in commands /\ result[p] \in outcomes

(* "[+] Successfully installed." is printed only when the wrapper is       *)
(* registered and whole, connections are allowed, both firewall rules      *)
(* exist, and the updater and its task are in place.                       *)
InstallComplete == \A p \in Operators :
    Ended(p, {"install"}, {"ok"}) =>
        /\ serviceDll = wrap[p] /\ Usable(serviceDll)
        /\ ~denyTS
        /\ \A r \in Rules : rules[r] > 0
        /\ updTask /\ updExe

(* An -i that failed leaves the original ServiceDll: one failed call never *)
(* defeats the rollback, only a second one, of the write that restores the *)
(* value.  (deployUpdater, whose failure leaves the wrapper installed by   *)
(* design, is taken to work, and reg.exe not to be needed.)                *)
RollbackRestores == \A p \in Operators :
    Ended(p, {"install", "rollback"}, {"failed"}) /\ faults < 2 => serviceDll = Termsrv

(* The README's claim (src-installer/README.md:63): an -i that set out to  *)
(* install and failed leaves the original ServiceDll.                      *)
FailedInstallRestores == \A p \in Operators :
    Ended(p, {"install", "rollback"}, {"failed"}) => serviceDll = Termsrv

(* The deployed updater (src-installer/README.md:69): a task that runs at  *)
(* every start of the machine has a program to run.                        *)
TaskHasProgram == updTask => updExe

(* "[+] Successfully uninstalled.": the system library is registered, the  *)
(* wrapper's files and the updater are gone (the running program at the    *)
(* next restart), and without -k the machine refuses connections again and *)
(* the rules are deleted.                                                  *)
UninstallComplete == \A p \in Operators :
    Ended(p, Removing, {"ok"}) =>
        /\ serviceDll = Termsrv
        /\ dll[wrap[p]] = "none" /\ ini[wrap[p]] = Absent
        /\ ~updTask /\ (updExe => delOnBoot)
        /\ phase[p] = "uninstall" =>
              denyTS /\ \A r \in Rules : rules[r] = 0

(* However often -i is cut off and run again, no firewall rule accumulates *)
(* copies ("Make retries idempotent").                                     *)
NoDuplicateRules == \A r \in Rules : rules[r] < 2

(* When -u comes to delete the DLL no process maps it any more, even if    *)
(* others stopped and started the service since the PID was captured.      *)
DllUnmappedWhenDeleted == \A p \in Operators :
    pc[p] = "deleteDll" => loaded # wrap[p]

(* When every process has ended and no call failed, TermService and the    *)
(* services that shared its process run again.                             *)
ServicesRestored ==
    AllResting /\ faults = 0 /\ term # "starting" =>
        term = "running" /\ shared = Shared

(* "[+] Update completed." of a -w that ran alone: TermService runs with   *)
(* the new INI.                                                            *)
UpdateActivates == \A p \in Updaters :
    /\ Ended(p, {"update"}, {"ok"})
    /\ \A q \in Procs \ {p} : left[q] = Budget(q)
    /\ faults = 0
    => term = "running" /\ loadedIni = date[p]

(* Every command comes to an end: the polls have timeouts, and no order of *)
(* two processes' steps makes one wait for the other for ever.             *)
CommandsEnd == \A p \in Procs : pc[p] \notin Resting ~> pc[p] \in Resting

(* Whoever stops TermService, some process starts it again.                *)
TermReturns == term = "stopped" ~> term = "running"

-----------------------------------------------------------------------------
(* Why WrapperResolvable holds when at most one operator runs a command at *)
(* a time: which command each call belongs to, and what each call that     *)
(* registers, deletes or rewrites may rely on.                             *)

SoleOperator == \A a, b \in Operators : a = b

InstallSteps == {"makeDir", "extractIni", "fillIni", "extractDll", "fillDll",
                 "setDll", "regAdd"}
Unregistered == {"check", "recheck", "checkStart", "checkWait", "makeDir",
                 "extractIni", "fillIni", "extractDll", "fillDll", "setDll"}

PhaseInv == \A p \in Procs :
    /\ pc[p] \in InstallSteps => phase[p] = "install"
    /\ pc[p] \in {"resetDll", "deleteIni", "deleteDll"} => phase[p] \in Removing
    /\ pc[p] \in {"readDate", "download", "saveIni"} => phase[p] = "update"
    /\ p \in Updaters /\ pc[p] \notin Resting => phase[p] = "update"
    /\ pc[p] \notin Resting /\ phase[p] \in Removing \cup {"install", "update"} =>
          wrap[p] \in Locs
    /\ pc[p] \notin Resting \cup {"readDate", "download"} /\ phase[p] = "update" =>
          date[p] \in Dates

OrderInv == \A p \in Procs :
    /\ phase[p] = "install" /\ pc[p] \in Unregistered => serviceDll = Termsrv
    /\ pc[p] \in {"extractDll", "fillDll", "setDll", "regAdd"} => ini[wrap[p]] \in Dates
    /\ pc[p] \in {"setDll", "regAdd"} => dll[wrap[p]] = "whole"
    /\ phase[p] \in Removing /\ pc[p] \in {"kill", "deleteIni", "deleteDll"} =>
          serviceDll = Termsrv

IInv == TypeOK /\ PhaseInv /\ OrderInv /\ WrapperResolvable

-----------------------------------------------------------------------------
(* The value ServiceDll and the complete installations, step by step,      *)
(* behave as module Registration promises.                                 *)

Promise == INSTANCE Registration
    WITH reg <- serviceDll, usable <- {l \in Locs : Usable(l)}

ImplementsRegistration == Promise!Spec

=============================================================================
