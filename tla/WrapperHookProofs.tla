------------------------- MODULE WrapperHookProofs -------------------------
(***************************************************************************)
(* What the wrapper promises the process it is loaded in, for any threads, *)
(* versions, module, patches, faults and numbers of queries: code is only  *)
(* written while the threads that were found stand still, all that could   *)
(* be opened run again afterwards, nothing is written outside the module,  *)
(* and the policy hook is in place whenever nobody is in it.               *)
(***************************************************************************)
EXTENDS WrapperHook, TLAPS

Before == {"idle", "config", "library", "version", "freeze"}

(* Only a thread of the process is suspended, and never the one that runs  *)
(* Hook: neither walk visits it.                                           *)
HeldAlive == \A t \in Threads : held[t] = 1 => t \in alive /\ t # hooker
HookerApart == at = "freezing" => hooker \notin snapshot

(* The first walk suspends what it has taken from the snapshot; a name it  *)
(* was given may have ended and begun again, but not after it was held.    *)
FreezeWalk ==
    /\ at \in Before => \A t \in Threads : held[t] = 0
    /\ at = "freezing" => /\ \A t \in snapshot : held[t] = 0
                          /\ \A t \in (seen \ snapshot) \ missed : held[t] = 1
    /\ at \in Writing => \A t \in seen \ missed : held[t] = 1

(* The second walk leaves behind it only threads that run, or that it      *)
(* could not open.                                                         *)
ThawWalk ==
    /\ at = "thawing" => \A t \in (alive \ snapshot) \ missed : held[t] = 0
    /\ at = "done" => \A t \in alive \ missed : held[t] = 0

(* Whoever took the hook off is still to put it back.                      *)
StubOwed ==
    queries > 0 /\ "restore" \notin faults
        => code = "stub" \/ \E t \in Threads : call[t] \in {"original", "rehook"}

(* TypeOK and Walks are inductive together; WritesInside alone, and        *)
(* StubOwed with TypeOK.                                                   *)
Walks == HeldAlive /\ HookerApart /\ FreezeWalk /\ ThawWalk

-----------------------------------------------------------------------------
(* Type correctness, action by action.                                     *)

(* The end of the address space is a number, and no address is past it.    *)
LEMMA AddressesTyped ==
    /\ 2 ^ Width \in Nat /\ 0 \in Addresses /\ Addresses \subseteq Nat
    /\ Nowhere \in Addresses \X Nat
<1>1. 2 ^ Width \in Nat /\ 2 ^ Width - 1 >= 1
  BY AddressAssumption
<1> QED  BY <1>1 DEF Addresses, Nowhere

LEMMA TypeInit == Init => TypeOK
BY AddressesTyped, BoundsAssumption DEF Init, TypeOK

(* What is written is a range of addresses, inside the module.             *)
LEMMA WritesRange ==
    ASSUME NEW sizes \in SUBSET Nat, Writes(sizes)
    PROVE  range' \in Addresses \X Nat /\ range'[1] > 0 /\ range'[1] + range'[2] <= ModuleSize
<1>1. PICK offset \in Addresses, size \in sizes :
        Inside(offset, size) /\ range' = <<offset, size>>
  BY DEF Writes
<1>2. offset \in Nat /\ size \in Nat /\ ModuleSize \in Nat
  BY AddressesTyped, AddressAssumption
<1> QED  BY <1>1, <1>2 DEF Inside

(* A call that works or fails adds only faults there are to those met.     *)
LEMMA FaultsTyped ==
    ASSUME faults \subseteq Faults, NEW kind, Works \/ Fails(kind)
    PROVE  faults' \subseteq Faults
BY DEF Works, Fails

LEMMA TypeProcess ==
    TypeOK /\ (ThreadBegins \/ ThreadEnds \/ TakeHeap \/ EnterExport) => TypeOK'
<1> SUFFICES ASSUME TypeOK, ThreadBegins \/ ThreadEnds \/ TakeHeap \/ EnterExport
             PROVE  TypeOK'
  OBVIOUS
<1> USE DEF TypeOK, threadVars, hookVars, policyVars, Step
<1>1. CASE ThreadBegins
  BY <1>1 DEF ThreadBegins
<1>2. CASE ThreadEnds
  BY <1>2 DEF ThreadEnds
<1>3. CASE TakeHeap
  BY <1>3 DEF TakeHeap
<1>4. CASE EnterExport
  BY <1>4 DEF EnterExport
<1> QED  BY <1>1, <1>2, <1>3, <1>4

(* The walk that suspends finds the threads it has not visited running.    *)
LEMMA TypeHook == TypeOK /\ FreezeWalk /\ Hook => TypeOK'
<1> SUFFICES ASSUME TypeOK, FreezeWalk, Hook PROVE TypeOK'
  OBVIOUS
<1> USE DEF TypeOK, threadVars, policyVars, Step, Writing
<1>1. CASE Load
  BY <1>1, BoundsAssumption, FaultsTyped DEF Load
<1>2. CASE Freeze
  BY <1>2, FaultsTyped DEF Freeze, Walk
<1>3. CASE FreezeThread
  BY <1>3 DEF FreezeWalk, FreezeThread, Open, CannotOpen, Works, Fails
<1>4. CASE HookPolicy
  BY <1>4, FaultsTyped DEF HookPolicy
<1>5. CASE ApplyPatch
  BY <1>5, WritesRange, AddressAssumption DEF ApplyPatch, Works
<1>6. CASE PatchesOver
  BY <1>6 DEF PatchesOver, Works
<1>7. CASE HookInternal
  BY <1>7, WritesRange, AddressAssumption DEF HookInternal, Works
<1>8. CASE Thaw
  BY <1>8, FaultsTyped, AddressesTyped DEF Thaw, Walk
<1>9. CASE ThawThread
  BY <1>9 DEF ThawThread, Open, CannotOpen, Works, Fails
<1> QED  BY <1>1, <1>2, <1>3, <1>4, <1>5, <1>6, <1>7, <1>8, <1>9 DEF Hook

LEMMA TypePolicy ==
    ASSUME TypeOK, NEW t \in Threads, ReleaseHeap(t) \/ Query(t) \/ Policy(t)
    PROVE  TypeOK'
<1> USE DEF TypeOK, threadVars, hookVars, policyVars
<1>1. CASE ReleaseHeap(t)
  BY <1>1 DEF ReleaseHeap
<1>2. CASE Query(t)
  BY <1>2, BoundsAssumption DEF Query, Works
<1>3. CASE Unhook(t)
  BY <1>3, FaultsTyped DEF Unhook, Leave
<1>4. CASE CallOriginal(t)
  BY <1>4 DEF CallOriginal, Works
<1>5. CASE Rehook(t)
  BY <1>5, FaultsTyped DEF Rehook, Leave
<1> QED  BY <1>1, <1>2, <1>3, <1>4, <1>5 DEF Policy

LEMMA TypeStep == TypeOK /\ FreezeWalk /\ [Next]_vars => TypeOK'
<1>1. TypeOK /\ UNCHANGED vars => TypeOK'
  BY DEF TypeOK, vars, threadVars, hookVars, policyVars
<1> QED  BY <1>1, TypeProcess, TypeHook, TypePolicy DEF Next

-----------------------------------------------------------------------------
(* The walks over the threads.                                             *)

LEMMA WalksProcess ==
    TypeOK /\ Walks /\ (ThreadBegins \/ ThreadEnds \/ TakeHeap \/ EnterExport) => Walks'
<1> SUFFICES ASSUME TypeOK, Walks, ThreadBegins \/ ThreadEnds \/ TakeHeap \/ EnterExport
             PROVE  Walks'
  OBVIOUS
<1> USE DEF TypeOK, Walks, HeldAlive, HookerApart, FreezeWalk, ThawWalk,
            threadVars, hookVars, policyVars
<1>1. CASE ThreadBegins
  BY <1>1 DEF ThreadBegins
<1>2. CASE ThreadEnds
  BY <1>2 DEF ThreadEnds, Runs
<1>3. CASE TakeHeap
  BY <1>3 DEF TakeHeap
<1>4. CASE EnterExport
  BY <1>4 DEF EnterExport, Step, Runs, Before, Writing
<1> QED  BY <1>1, <1>2, <1>3, <1>4

LEMMA WalksHook == TypeOK /\ Walks /\ Hook => Walks'
<1> SUFFICES ASSUME TypeOK, Walks, Hook PROVE Walks'
  OBVIOUS
<1> USE DEF TypeOK, Walks, HeldAlive, HookerApart, FreezeWalk, ThawWalk, Before, Writing,
            threadVars, policyVars, Step
<1>1. CASE Load
  BY <1>1 DEF Load
<1>2. CASE Freeze
  BY <1>2 DEF Freeze, Walk
<1>3. CASE FreezeThread
  BY <1>3 DEF FreezeThread, Open, CannotOpen
<1>4. CASE HookPolicy
  BY <1>4 DEF HookPolicy
<1>5. CASE ApplyPatch
  BY <1>5 DEF ApplyPatch
<1>6. CASE PatchesOver
  BY <1>6 DEF PatchesOver
<1>7. CASE HookInternal
  BY <1>7 DEF HookInternal
<1>8. CASE Thaw
  BY <1>8 DEF Thaw, Walk
<1>9. CASE ThawThread
  BY <1>9 DEF ThawThread, Open, CannotOpen
<1> QED  BY <1>1, <1>2, <1>3, <1>4, <1>5, <1>6, <1>7, <1>8, <1>9 DEF Hook

(* Nothing else changes a thread, or where Hook is.                        *)
LEMMA WalksPolicy ==
    ASSUME Walks, NEW t \in Threads, ReleaseHeap(t) \/ Query(t) \/ Policy(t)
    PROVE  Walks'
BY DEF ReleaseHeap, Query, Policy, Unhook, CallOriginal, Rehook, threadVars, hookVars,
       Walks, HeldAlive, HookerApart, FreezeWalk, ThawWalk

LEMMA WalksStep == TypeOK /\ Walks /\ [Next]_vars => Walks'
<1>1. Walks /\ UNCHANGED vars => Walks'
  BY DEF Walks, HeldAlive, HookerApart, FreezeWalk, ThawWalk, vars, threadVars, hookVars
<1> QED  BY <1>1, WalksProcess, WalksHook, WalksPolicy DEF Next

LEMMA WalksInit == Init => Walks
BY DEF Init, Walks, HeldAlive, HookerApart, FreezeWalk, ThawWalk, Before, Writing

(* Both walks go as they should, whatever cannot be opened and whichever   *)
(* threads begin and end meanwhile.                                        *)
LEMMA Walked == Spec => [](TypeOK /\ Walks)
<1>1. Walks => FreezeWalk
  BY DEF Walks
<1> QED  BY <1>1, TypeInit, TypeStep, WalksInit, WalksStep, PTL DEF Spec

(* Every variable keeps its type, and no thread is ever suspended twice:   *)
(* the walk that suspends comes to each thread once, and to it running.    *)
THEOREM TypeCorrect == Spec => []TypeOK
BY Walked, PTL

(* Hook writes code only while all the threads it found stand still, but   *)
(* for those it could not open.                                            *)
THEOREM Frozen == Spec => []FrozenWhileWriting
<1>1. Walks => FrozenWhileWriting
  BY DEF Walks, FreezeWalk, FrozenWhileWriting
<1> QED  BY <1>1, Walked, PTL

(* Once Hook has ended, on whichever path, only a thread it could not open *)
(* again may still be suspended.                                           *)
THEOREM Released == Spec => []NoThreadLeft
<1>1. Walks => NoThreadLeft
  BY DEF Walks, ThawWalk, NoThreadLeft
<1> QED  BY <1>1, Walked, PTL

-----------------------------------------------------------------------------
(* What is written, and the hook of the policy function.                   *)

LEMMA WritesStep == WritesInside /\ [Next]_vars => WritesInside'
<1> SUFFICES ASSUME WritesInside, [Next]_vars PROVE WritesInside'
  OBVIOUS
<1>1. CASE UNCHANGED range
  BY <1>1 DEF WritesInside
<1>2. CASE range' = Nowhere
  BY <1>2 DEF WritesInside
<1>3. CASE Writes(1 .. MaxPatch)
  BY <1>3, WritesRange, AddressAssumption DEF WritesInside
<1>4. CASE Writes({JumpSize})
  BY <1>4, WritesRange, AddressAssumption DEF WritesInside
<1> QED  BY <1>1, <1>2, <1>3, <1>4
         DEF Next, vars, threadVars, hookVars, policyVars, ThreadBegins, ThreadEnds, TakeHeap,
             EnterExport, Hook, Load, Freeze, FreezeThread, HookPolicy, ApplyPatch, PatchesOver,
             HookInternal, Thaw, ThawThread, ReleaseHeap, Query, Policy, Unhook, CallOriginal,
             Rehook

(* No offset and no length that the configuration gives leads Hook to      *)
(* write outside termsrv.dll, for addresses of any width.                  *)
THEOREM WrittenInside == Spec => []WritesInside
<1>1. Init => WritesInside
  BY DEF Init, WritesInside
<1> QED  BY <1>1, WritesStep, PTL DEF Spec

(* Only the policy function's own steps and HookPolicy touch its hook.     *)
LEMMA StubElsewhere ==
    ASSUME StubOwed, UNCHANGED <<call, queries>>, faults \subseteq faults',
           code' = code \/ code' = "stub"
    PROVE  StubOwed'
BY DEF StubOwed

LEMMA StubPolicy ==
    ASSUME TypeOK, StubOwed, NEW t \in Threads, Query(t) \/ Policy(t)
    PROVE  StubOwed'
<1> USE DEF TypeOK, StubOwed
<1>1. CASE Query(t)
  BY <1>1 DEF Query
<1>2. CASE Unhook(t)
  BY <1>2 DEF Unhook, Leave, Works, Fails
<1>3. CASE CallOriginal(t)
  BY <1>3 DEF CallOriginal, Works
<1>4. CASE Rehook(t)
  BY <1>4 DEF Rehook, Works, Fails
<1> QED  BY <1>1, <1>2, <1>3, <1>4 DEF Policy

LEMMA StubStep == TypeOK /\ StubOwed /\ [Next]_vars => StubOwed'
<1> SUFFICES ASSUME TypeOK, StubOwed, [Next]_vars PROVE StubOwed'
  OBVIOUS
<1>1. CASE \E t \in Threads : Query(t) \/ Policy(t)
  BY <1>1, StubPolicy
<1>2. CASE Hook
  <2>1. UNCHANGED <<call, queries>> /\ faults \subseteq faults' /\ (code' = code \/ code' = "stub")
    BY <1>2 DEF Hook, Load, Freeze, FreezeThread, HookPolicy, ApplyPatch, PatchesOver,
                HookInternal, Thaw, ThawThread, Walk, Open, CannotOpen, Works, Fails, policyVars
  <2> QED  BY <2>1, StubElsewhere
<1>3. CASE ThreadBegins \/ ThreadEnds \/ TakeHeap \/ EnterExport \/ UNCHANGED vars
           \/ \E t \in Threads : ReleaseHeap(t)
  <2>1. UNCHANGED <<call, queries, code, faults>>
    BY <1>3 DEF ThreadBegins, ThreadEnds, TakeHeap, EnterExport, ReleaseHeap, vars, policyVars
  <2> QED  BY <2>1, StubElsewhere
<1> QED  BY <1>1, <1>2, <1>3 DEF Next

(* However many threads query the policy at once, and however deep their   *)
(* calls nest, the hook is back when the last of them has left, unless it  *)
(* could not be put back.                                                  *)
THEOREM HookedAgain == Spec => []StubBack
<1>1. Init => StubOwed
  BY DEF Init, StubOwed
<1>2. StubOwed => StubBack
  BY DEF StubOwed, StubBack
<1> QED  BY <1>1, <1>2, StubStep, TypeCorrect, PTL DEF Spec
=============================================================================
