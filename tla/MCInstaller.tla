----------------------------- MODULE MCInstaller -----------------------------
(* Values for the bounded instances of Installer that TLC checks.          *)
EXTENDS Installer

(* Everything may fail; everything but the netsh calls (the rules of the   *)
(* firewall properties take them to work), the removals whose failure -u   *)
(* ignores, and the restart that carries out a queued removal.             *)
AnyFault     == FaultKinds
HarmfulFault == FaultKinds \ {"netsh", "updater", "reboot"}
NoFault      == {}

(* Every command but -w, which the updaters run.                           *)
NoUpdate     == AllCommands \ {"update"}

=============================================================================
