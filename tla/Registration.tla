---------------------------- MODULE Registration ----------------------------
(***************************************************************************)
(* What the installer promises about the ServiceDll value of TermService,  *)
(* whatever command runs, fails or is cut off: the value names either the  *)
(* system's own library or a wrapper whose files are all in place.  The    *)
(* promise is kept by an order of operations: files are published before   *)
(* the value names them, and retired only while the value names something  *)
(* else.  Module Installer implements this specification.                  *)
(***************************************************************************)

CONSTANTS
    Locs,      \* directories a wrapper can be installed in
    Termsrv    \* the system's termsrv.dll

VARIABLES
    reg,       \* what ServiceDll names: Termsrv or a location
    usable     \* locations holding a complete wrapper and configuration

vars == <<reg, usable>>

Init ==
    /\ usable \in SUBSET Locs
    /\ reg \in usable \cup {Termsrv}

Publish(l) ==
    /\ usable' = usable \cup {l}
    /\ UNCHANGED reg

Register(l) ==
    /\ l \in usable
    /\ reg' = l
    /\ UNCHANGED usable

Unregister ==
    /\ reg' = Termsrv
    /\ UNCHANGED usable

Retire(l) ==
    /\ reg # l
    /\ usable' = usable \ {l}
    /\ UNCHANGED reg

Next ==
    \/ \E l \in Locs : Publish(l) \/ Register(l) \/ Retire(l)
    \/ Unregister

Spec == Init /\ [][Next]_vars

(* The service can always find the library it is told to load.             *)
Resolvable == usable \subseteq Locs /\ reg \in usable \cup {Termsrv}

=============================================================================
