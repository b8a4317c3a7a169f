------------------------- MODULE RegistrationProofs -------------------------
(***************************************************************************)
(* Why the order publish, register, unregister, retire is enough, whatever *)
(* the set of locations: the value and the files never change together.    *)
(* It is the order of extractFiles, setWrapperDll, resetServiceDll and     *)
(* deleteFiles in RDPWInst.cpp.                                            *)
(***************************************************************************)
EXTENDS Registration, TLAPS

(* A new value names what is complete already, and no file changes.        *)
LEMMA NamesComplete ==
    ASSUME Next, reg' # reg
    PROVE  usable' = usable /\ reg' \in usable \cup {Termsrv}
<1>1. CASE Unregister
  BY <1>1 DEF Unregister
<1>2. CASE \E l \in Locs : Register(l)
  BY <1>2 DEF Register
<1> QED  BY <1>1, <1>2 DEF Next, Publish, Retire

(* While the value stays, what it names does, and only locations come.     *)
LEMMA SparesNamed ==
    ASSUME Next, reg' = reg
    PROVE  /\ usable' \subseteq usable \cup Locs
           /\ reg \in usable => reg \in usable'
<1> SUFFICES ASSUME usable' # usable
             PROVE  usable' \subseteq usable \cup Locs /\ usable \ usable' \subseteq Locs \ {reg}
  OBVIOUS
<1>1. PICK l \in Locs : Publish(l) \/ Retire(l)
  BY DEF Next, Register, Unregister
<1> QED  BY <1>1 DEF Publish, Retire

(* The registered library can always be loaded.                            *)
THEOREM Loadable == Spec => []Resolvable
<1>1. ASSUME Resolvable, Next PROVE Resolvable'
  <2>1. CASE reg' # reg
    BY <1>1, <2>1, NamesComplete DEF Resolvable
  <2>2. CASE reg' = reg
    BY <1>1, <2>2, SparesNamed DEF Resolvable
  <2> QED  BY <2>1, <2>2
<1>2. Resolvable /\ UNCHANGED vars => Resolvable'
  BY DEF Resolvable, vars
<1> QED
  <2>1. Init => Resolvable
    BY DEF Init, Resolvable
  <2> QED  BY <1>1, <1>2, <2>1, PTL DEF Spec

=============================================================================
