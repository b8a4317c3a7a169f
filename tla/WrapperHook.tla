---------------------------- MODULE WrapperHook ----------------------------
(***************************************************************************)
(* rdpwrap.dll in TermService's process (src-multiarch): the first call of *)
(* an export hooks and patches termsrv.dll and slc.dll while it holds the  *)
(* other threads of the process; afterwards threads query policies through *)
(* a function that takes its own hook off to call the original.            *)
(* Addresses are offsets in termsrv.dll, of a width where sums overflow.   *)
(***************************************************************************)
EXTENDS Naturals, FiniteSets

CONSTANTS
    Threads,      \* threads the process may ever have
    NoThread,     \* what owns a lock, or runs Hook, when no thread does
    Versions,     \* the Windows versions considered
    Width,        \* addresses are below 2^Width
    ModuleSize,   \* SizeOfImage of termsrv.dll
    JumpSize,     \* sizeof(FARJMP)
    MaxPatch,     \* the longest patch code
    Faults, MaxFaults, MaxQueries

(* The configuration cannot be read; termsrv.dll cannot be loaded; it has  *)
(* no version; no snapshot of the threads; a thread cannot be opened;      *)
(* slc.dll or its function is missing; memory cannot be read or written;   *)
(* the stub cannot be put back.                                            *)
FaultKinds == {"config", "library", "version", "snapshot", "open", "slc",
               "read", "write", "restore"}

ASSUME ThreadsAssumption == NoThread \notin Threads
ASSUME AddressAssumption ==
    /\ Width \in Nat /\ ModuleSize \in 1 .. 2 ^ Width - 1
    /\ JumpSize \in Nat \ {0} /\ MaxPatch \in Nat
ASSUME BoundsAssumption ==
    /\ MaxFaults \in Nat /\ MaxQueries \in Nat /\ Faults \subseteq FaultKinds
    /\ Versions \subseteq {"6.0", "6.1", "6.2", "later"}

VARIABLES
    alive,      \* threads of the process
    held,       \* held[t]: SuspendThread calls less ResumeThread calls
    heap,       \* owner of the lock every allocation takes
    \* Hook
    at,         \* its next step: "idle" before, "done" after
    hooker,     \* the thread that runs it
    snapshot,   \* threads found and not yet looked at
    seen,       \* threads found when it froze them (history)
    missed,     \* those the last walk could not open (history)
    version,
    patches,    \* configured patches still to apply
    range,      \* the last range written into termsrv.dll: first, length
    \* the policy function
    code,       \* its first bytes: "original" or "stub"
    call,       \* call[t]: where thread t is in the replacement, or "out"
    depth,      \* depth[t]: calls of the replacement below that one
    queries,
    faults      \* kinds of fault met

threadVars == <<alive, held, heap>>
hookVars   == <<at, hooker, snapshot, seen, missed, version, patches, range>>
policyVars == <<code, call, depth, queries>>
vars == <<threadVars, hookVars, policyVars, faults>>

Works == UNCHANGED faults

Fails(kind) ==
    /\ kind \in Faults
    /\ Cardinality(faults \cup {kind}) <= MaxFaults
    /\ faults' = faults \cup {kind}

Runs(t) == t \in alive /\ held[t] = 0

Addresses == 0 .. 2 ^ Width - 1
Nowhere   == <<0, 0>>

Init ==
    /\ alive \in SUBSET Threads \ {{}}
    /\ held = [t \in Threads |-> 0]
    /\ heap = NoThread
    /\ at = "idle" /\ hooker = NoThread
    /\ snapshot = {} /\ seen = {} /\ missed = {}
    /\ version = "unknown" /\ patches = 3 /\ range = Nowhere
    /\ code = "original" /\ queries = 0
    /\ call = [t \in Threads |-> "out"]
    /\ depth = [t \in Threads |-> 0]
    /\ faults = {}

-----------------------------------------------------------------------------
(* The process: its threads come and go and use the heap.                  *)

ThreadBegins ==
    /\ \E t \in Threads : Runs(t)
    /\ \E t \in Threads \ alive :
          /\ alive' = alive \cup {t}
          /\ held' = [held EXCEPT ![t] = 0]
    /\ UNCHANGED <<heap, hookVars, policyVars, faults>>

ThreadEnds == \E t \in Threads :
    /\ Runs(t) /\ heap # t /\ call[t] = "out"
    /\ t = hooker => at = "done"
    /\ alive' = alive \ {t}
    /\ UNCHANGED <<held, heap, hookVars, policyVars, faults>>

TakeHeap == \E t \in Threads \ {hooker} :
    /\ Runs(t) /\ heap = NoThread
    /\ heap' = t
    /\ UNCHANGED <<alive, held, hookVars, policyVars, faults>>

ReleaseHeap(t) ==
    /\ Runs(t) /\ heap = t
    /\ heap' = NoThread
    /\ UNCHANGED <<alive, held, hookVars, policyVars, faults>>

-----------------------------------------------------------------------------
(* Hook.  Its steps allocate, except the two walks over the threads.       *)

Step(from, to) == at = from /\ at' = to
Allocates == heap = NoThread

(* ServiceMain or SvchostPushServiceGlobals: AlreadyHooked is exchanged.   *)
EnterExport == \E t \in Threads :
    /\ Runs(t) /\ call[t] = "out" /\ heap # t
    /\ Step("idle", "config")
    /\ hooker' = t
    /\ UNCHANGED <<threadVars, snapshot, seen, missed, version, patches, range,
                   policyVars, faults>>

(* The configuration, termsrv.dll and its version; a failure leaves the    *)
(* process unhooked.                                                       *)
Load ==
    /\ Allocates
    /\ \/ Step("config", "library") /\ Works /\ UNCHANGED version
       \/ Step("config", "done") /\ Fails("config") /\ UNCHANGED version
       \/ Step("library", "version") /\ Works /\ UNCHANGED version
       \/ Step("library", "done") /\ Fails("library") /\ UNCHANGED version
       \/ Step("version", "freeze") /\ Works /\ version' \in Versions
       \/ Step("version", "done") /\ Fails("version") /\ UNCHANGED version
    /\ UNCHANGED <<threadVars, hooker, snapshot, seen, missed, patches, range, policyVars>>

(* SetThreadsState: a snapshot, then one thread after the other.  A thread *)
(* that ended since cannot be opened; a name it left may be a new thread's.*)
Walk(from, to, over) ==
    \/ /\ Step(from, to)
       /\ snapshot' = alive \ {hooker}
       /\ missed' = {}
       /\ Works
    \/ /\ Step(from, over)
       /\ Fails("snapshot")
       /\ missed' = alive \ {hooker}
       /\ UNCHANGED snapshot

Freeze ==
    /\ Walk("freeze", "freezing", "slc")
    /\ seen' = alive \ {hooker}
    /\ UNCHANGED <<threadVars, hooker, version, patches, range, policyVars>>

Open(t) == t \in alive /\ Works /\ UNCHANGED missed

CannotOpen(t) ==
    /\ IF t \in alive THEN Fails("open") ELSE Works
    /\ missed' = missed \cup {t}

FreezeThread_StaysAtOpened ==
    /\ at = "freezing"
    /\ \/ \E t \in snapshot : Open(t) /\ held' = [held EXCEPT ![t] = @ + 1]
       \/ snapshot = {} /\ UNCHANGED <<missed, held, faults>>
    /\ UNCHANGED <<alive, heap, at, hooker, snapshot, seen, version, patches, range, policyVars>>

FreezeThread_EndsAtUnopened ==
    /\ at = "freezing"
    /\ \/ \E t \in snapshot :
            \/ /\ Open(t)
               /\ snapshot' = snapshot \ {t}
               /\ held' = [held EXCEPT ![t] = @ + 1]
            \/ CannotOpen(t) /\ snapshot' = {} /\ UNCHANGED held
       \/ snapshot = {} /\ UNCHANGED <<snapshot, missed, held, faults>>
    /\ at' = IF snapshot = {} THEN "slc" ELSE at
    /\ UNCHANGED <<alive, heap, hooker, seen, version, patches, range, policyVars>>

FreezeThread ==
    /\ at = "freezing"
    /\ \/ \E t \in snapshot :
            /\ snapshot' = snapshot \ {t}
            /\ \/ Open(t) /\ held' = [held EXCEPT ![t] = @ + 1]
               \/ CannotOpen(t) /\ UNCHANGED held
            /\ UNCHANGED at
       \/ /\ snapshot = {}
          /\ at' = "slc"
          /\ UNCHANGED <<snapshot, missed, held, faults>>
    /\ UNCHANGED <<alive, heap, hooker, seen, version, patches, range, policyVars>>

(* On 6.0 and 6.1, unless the configuration says no: the hook of           *)
(* SLGetWindowsInformationDWORD.  On 6.2 its address only.  A failure to   *)
(* do either releases the threads and is the end; a missing function of    *)
(* 6.0 or 6.1 is passed over.                                              *)
HookPolicy_LeavesThemHeld ==
    /\ Allocates
    /\ \/ Step("slc", "patch") /\ Works /\ UNCHANGED code
       \/ Step("slc", "done") /\ Fails("read") /\ UNCHANGED code
    /\ UNCHANGED <<threadVars, hooker, snapshot, seen, missed, version, patches, range,
                   call, depth, queries>>

HookPolicy ==
    /\ Allocates
    /\ \/ /\ Step("slc", "patch")
          /\ UNCHANGED code
          /\ Works
       \/ /\ Step("slc", "patch")
          /\ version \in {"6.0", "6.1"}
          /\ code' = "stub"
          /\ Works
       \/ /\ Step("slc", "patch")
          /\ version \in {"6.0", "6.1"}
          /\ Fails("slc")
          /\ UNCHANGED code
       \/ /\ Step("slc", "thaw")
          /\ \/ version \in {"6.0", "6.1"} /\ (Fails("read") \/ Fails("write"))
             \/ version = "6.2" /\ Fails("slc")
          /\ UNCHANGED code
    /\ UNCHANGED <<threadVars, hooker, snapshot, seen, missed, version, patches, range,
                   call, depth, queries>>

(* A range the configuration names is inside termsrv.dll, by differences   *)
(* that cannot overflow.                                                   *)
Inside_BySum(offset, size) ==
    /\ offset # 0
    /\ (offset + size) % 2 ^ Width <= ModuleSize

Inside(offset, size) ==
    /\ offset # 0
    /\ offset < ModuleSize
    /\ size <= ModuleSize - offset

Writes(sizes) == \E offset \in Addresses, size \in sizes :
    /\ Inside(offset, size)
    /\ range' = <<offset, size>>

(* ApplyConfiguredPatch, three times: written, or not enabled, incomplete, *)
(* out of range or failed; the threads stay held in every case.            *)
ApplyPatch ==
    /\ at = "patch" /\ Allocates
    /\ patches > 0
    /\ patches' = patches - 1
    /\ Writes(1 .. MaxPatch) \/ UNCHANGED range
    /\ Works
    /\ UNCHANGED <<threadVars, at, hooker, snapshot, seen, missed, version, policyVars>>

(* No section for this build, or all patches applied.                      *)
PatchesOver ==
    /\ Allocates
    /\ \/ patches = 3 /\ Step("patch", "thaw")
       \/ patches = 0 /\ Step("patch", "policyJump")
    /\ Works
    /\ UNCHANGED <<threadVars, hooker, snapshot, seen, missed, version, patches, range, policyVars>>

(* Where the build is for ARM and the section asks for it, two more        *)
(* functions of termsrv.dll get a jump.                                    *)
HookInternal ==
    /\ Allocates
    /\ Step("policyJump", "initJump") \/ Step("initJump", "thaw")
    /\ Writes({JumpSize}) \/ UNCHANGED range
    /\ Works
    /\ UNCHANGED <<threadVars, hooker, snapshot, seen, missed, version, patches, policyVars>>

(* SetThreadsState(true), over the threads there are now; what was written *)
(* is not followed any further.                                            *)
Thaw ==
    /\ Allocates
    /\ Walk("thaw", "thawing", "done")
    /\ range' = Nowhere /\ patches' = 3
    /\ UNCHANGED <<threadVars, hooker, seen, version, policyVars>>

ThawThread_AwaitsAll ==
    /\ at = "thawing"
    /\ \/ \E t \in snapshot \cap alive :
            /\ snapshot' = snapshot \ {t}
            /\ held' = [held EXCEPT ![t] = IF @ > 0 THEN @ - 1 ELSE 0]
            /\ UNCHANGED at
       \/ snapshot = {} /\ at' = "done" /\ UNCHANGED <<snapshot, held>>
    /\ Works
    /\ UNCHANGED <<alive, heap, hooker, seen, missed, version, patches, range, policyVars>>

ThawThread ==
    /\ at = "thawing"
    /\ \/ \E t \in snapshot :
            /\ snapshot' = snapshot \ {t}
            /\ \/ Open(t) /\ held' = [held EXCEPT ![t] = IF @ > 0 THEN @ - 1 ELSE 0]
               \/ CannotOpen(t) /\ UNCHANGED held
            /\ UNCHANGED at
       \/ /\ snapshot = {}
          /\ at' = "done"
          /\ UNCHANGED <<snapshot, missed, held, faults>>
    /\ UNCHANGED <<alive, heap, hooker, seen, version, patches, range, policyVars>>

Hook == Load \/ Freeze \/ FreezeThread \/ HookPolicy \/ ApplyPatch \/ PatchesOver
        \/ HookInternal \/ Thaw \/ ThawThread

-----------------------------------------------------------------------------
(* New_SLGetWindowsInformationDWORD, for a name that OverrideSL does not   *)
(* answer: the hook is taken off, the original called, the hook put back.  *)
(* Another thread may have put it back or taken it off meanwhile.          *)

Query(t) ==
    /\ Runs(t) /\ call[t] = "out" /\ heap # t
    /\ t = hooker => at = "done"
    /\ code = "stub"
    /\ queries < MaxQueries
    /\ queries' = queries + 1
    /\ call' = [call EXCEPT ![t] = "unhook"]
    /\ Works
    /\ UNCHANGED <<threadVars, hookVars, code, depth>>

(* A call returns to the caller's, which goes on by hooking again.         *)
Leave(t) ==
    IF depth[t] = 0
    THEN call' = [call EXCEPT ![t] = "out"] /\ UNCHANGED depth
    ELSE call' = [call EXCEPT ![t] = "rehook"] /\ depth' = [depth EXCEPT ![t] = @ - 1]

Unhook(t) ==
    /\ Runs(t) /\ call[t] = "unhook"
    /\ \/ code' = "original" /\ call' = [call EXCEPT ![t] = "original"] /\ Works /\ UNCHANGED depth
       \/ Fails("write") /\ Leave(t) /\ UNCHANGED code
    /\ UNCHANGED <<threadVars, hookVars, queries>>

CallOriginal(t) ==
    /\ Runs(t) /\ call[t] = "original"
    /\ IF code = "original"
       THEN call' = [call EXCEPT ![t] = "rehook"] /\ UNCHANGED depth
       ELSE call' = [call EXCEPT ![t] = "unhook"] /\ depth' = [depth EXCEPT ![t] = @ + 1]
    /\ Works
    /\ UNCHANGED <<threadVars, hookVars, code, queries>>

Rehook_OutermostOnly(t) ==
    /\ Runs(t) /\ call[t] = "rehook"
    /\ Leave(t)
    /\ code' = IF \E u \in Threads \ {t} : call[u] # "out" THEN code ELSE "stub"
    /\ Works
    /\ UNCHANGED <<threadVars, hookVars, queries>>

Rehook(t) ==
    /\ Runs(t) /\ call[t] = "rehook"
    /\ Leave(t)
    /\ \/ code' = "stub" /\ Works
       \/ Fails("restore") /\ UNCHANGED code
    /\ UNCHANGED <<threadVars, hookVars, queries>>

Policy(t) == Unhook(t) \/ CallOriginal(t) \/ Rehook(t)

Next ==
    \/ ThreadBegins \/ ThreadEnds \/ TakeHeap
    \/ EnterExport \/ Hook
    \/ \E t \in Threads : ReleaseHeap(t) \/ Query(t) \/ Policy(t)

Spec == Init /\ [][Next]_vars

(* A thread that may run does, and the lock is fair: whoever waits for it  *)
(* while it is free again and again gets it.                               *)
Fairness ==
    /\ SF_vars(Hook)
    /\ \A t \in Threads : WF_vars(ReleaseHeap(t))

FairSpec == Spec /\ Fairness

-----------------------------------------------------------------------------
Writing == {"slc", "patch", "policyJump", "initJump"}

(* Every variable has its type; a thread is suspended at most once, so the *)
(* one walk that resumes them is enough.                                   *)
TypeOK ==
    /\ alive \subseteq Threads
    /\ held \in [Threads -> 0 .. 1]
    /\ heap \in Threads \cup {NoThread} /\ hooker \in Threads \cup {NoThread}
    /\ at \in Writing \cup {"idle", "config", "library", "version", "freeze", "freezing",
                            "thaw", "thawing", "done"}
    /\ snapshot \subseteq Threads /\ seen \subseteq Threads /\ missed \subseteq Threads
    /\ version \in {"unknown", "6.0", "6.1", "6.2", "later"}
    /\ patches \in 0 .. 3 /\ range \in Addresses \X Nat
    /\ code \in {"original", "stub"}
    /\ call \in [Threads -> {"out", "unhook", "original", "rehook"}]
    /\ depth \in [Threads -> Nat]
    /\ queries \in 0 .. MaxQueries
    /\ faults \subseteq Faults

(* While Hook may write code, every thread it found when it froze them is  *)
(* suspended, but for those it could not open: they cannot run code that   *)
(* is half written.                                                        *)
FrozenWhileWriting ==
    at \in Writing => \A t \in (alive \cap seen) \ missed : held[t] = 1

(* However Hook ends, it leaves no thread suspended but one it could not   *)
(* open to resume it: TermService goes on.                                 *)
NoThreadLeft == at = "done" => \A t \in alive \ missed : held[t] = 0

(* What Hook writes into termsrv.dll is inside the module, whatever the    *)
(* configuration says: also for offsets near the end of the addresses.     *)
WritesInside == range # Nowhere => range[1] > 0 /\ range[1] + range[2] <= ModuleSize

(* When no thread is in the replacement of the policy function any more,   *)
(* the hook is back in place, however their calls interleaved and nested,  *)
(* unless putting it back failed.                                          *)
StubBack ==
    queries > 0 /\ "restore" \notin faults /\ (\A t \in Threads : call[t] = "out")
        => code = "stub"

(* Hook ends, or has suspended the owner of a lock that it needs itself:   *)
(* the export never returns then.                                          *)
HookEnds ==
    at = "config" ~> at = "done" \/ (heap # NoThread /\ held[heap] > 0)

=============================================================================
