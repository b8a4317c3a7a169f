---------------------------- MODULE MCCncSettings ----------------------------
(* Two windows, two ports and one that is not valid, and the modes that    *)
(* differ in how they are written.                                         *)
EXTENDS CncSettings, TLC

CONSTANTS w1, w2

Control(port, nla, shadow) == [port |-> port, nla |-> nla, shadow |-> shadow]

MCChoices == {Control(3389, 1, 0), Control(3390, 2, 1), Control(0, 0, 0)}

Value(port, layer, auth, shadow) ==
    [port |-> port, layer |-> layer, auth |-> auth, shadow |-> shadow, policy |-> 0]

MCStored == {Value(3389, 1, 0, 0), Value(0, 2, 0, 7)}

Limits(w, r, i, f) == [windows |-> w, rounds |-> r, installs |-> i, faults |-> f]

MCBudgets == {Limits(2, 2, 0, 1), Limits(2, 2, 1, 0), Limits(1, 3, 1, 1)}

TwoWindows == {w1, w2}
Alike      == Permutations(TwoWindows)

=============================================================================
