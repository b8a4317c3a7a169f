---------------------------- MODULE MCCncRestart ----------------------------
(* Values for the bounded instances of CncRestart that TLC checks.         *)
EXTENDS CncRestart, TLC

CONSTANTS um, user    \* UmRdpService, and a service that depends on it

Chain     == {Term, um, user}
ChainTree == (Term :> {um, user}) @@ (um :> {user}) @@ (user :> {})

(* Failures of all but opening TermService and starting; failures of all   *)
(* but the post of the message, whose result the code does not look at.    *)
StopFault == FaultKinds \ {"connect", "start", "startWait"}
AnyFault  == FaultKinds \ {"post"}

=============================================================================
