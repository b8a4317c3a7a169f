--------------------------- MODULE InstallerProofs ---------------------------
(***************************************************************************)
(* Theorems about module Installer, for every number of updaters,          *)
(* locations, dates, failures, crashes and restarts.  The types and the    *)
(* phase of each call (Types) need no assumption; the promise about        *)
(* ServiceDll needs that one operator at a time runs -i or -u, because     *)
(* nothing in the program keeps two of them apart.                         *)
(***************************************************************************)
EXTENDS Installer, TLAPS

Types == RegistryOK /\ FilesOK /\ ManagerOK /\ ProcessesOK /\ PhaseInv

(* Every variable but the Boolean ones keeps its type, and every call      *)
(* belongs to the command it was reached from.                             *)
LEMMA Typing == Spec => []Types
<1>1. Init => Types
  BY LocsAssumption, BoundsAssumption
     DEF Init, CleanMachine, InstalledMachine, Budget, Installed,
         Types, RegistryOK, FilesOK, ManagerOK, ProcessesOK, PhaseInv, Procs, Steps,
         Resting, AllCommands, Removing, InstallSteps, Rules, Dates, Torn, Absent,
         NoDll, registryVars, fileVars, scmVars, localVars
<1>2. Types /\ [Next]_vars => Types'
  <2> SUFFICES ASSUME Types, [Next]_vars PROVE Types'
    OBVIOUS
  <2> USE LocsAssumption, BoundsAssumption, ProcsAssumption
          DEF Works, Fails, Goto, Exit, Halt, TryBlock, NotOkay,
              Types, RegistryOK, FilesOK, ManagerOK, ProcessesOK, PhaseInv, Procs, Steps,
              Resting, AllCommands, Removing, InstallSteps, Rules, Dates, Torn, Absent,
              NoDll, registryVars, fileVars, scmVars, localVars
  <2>1. ASSUME NEW p \in Procs, Begin(p) PROVE Types'
    BY <2>1 DEF Begin, Commands, FirstStep, Installed
  <2>2. ASSUME NEW p \in Procs, Capture(p) PROVE Types'
    BY <2>2 DEF Capture, AfterCheck
  <2>3. ASSUME NEW p \in Procs, CheckStopped(p) PROVE Types'
    BY <2>3 DEF CheckStopped
  <2>4. ASSUME NEW p \in Procs, StartTerm(p) PROVE Types'
    BY <2>4 DEF StartTerm, Started
  <2>5. ASSUME NEW p \in Procs, WaitTerm(p) PROVE Types'
    BY <2>5 DEF WaitTerm, Started
  <2>6. ASSUME NEW p \in Procs, KillProcess(p) PROVE Types'
    BY <2>6 DEF KillProcess
  <2>7. ASSUME NEW p \in Procs, StartShared(p) PROVE Types'
    BY <2>7 DEF StartShared, AfterShared
  <2>8. ASSUME NEW p \in Procs, Settle(p) PROVE Types'
    BY <2>8 DEF Settle
  <2>9. ASSUME NEW p \in Procs, MakeDir(p) PROVE Types'
    BY <2>9 DEF MakeDir
  <2>10. ASSUME NEW p \in Procs, ExtractIni(p) PROVE Types'
    BY <2>10 DEF ExtractIni
  <2>11. ASSUME NEW p \in Procs, FillIni(p) PROVE Types'
    BY <2>11 DEF FillIni
  <2>12. ASSUME NEW p \in Procs, ExtractDll(p) PROVE Types'
    BY <2>12 DEF ExtractDll
  <2>13. ASSUME NEW p \in Procs, FillDll(p) PROVE Types'
    BY <2>13 DEF FillDll
  <2>14. ASSUME NEW p \in Procs, SetWrapperDll(p) PROVE Types'
    BY <2>14 DEF SetWrapperDll
  <2>15. ASSUME NEW p \in Procs, RestoreServiceDll(p) PROVE Types'
    BY <2>15 DEF RestoreServiceDll
  <2>16. ASSUME NEW p \in Procs, ConfigureRegistry(p) PROVE Types'
    BY <2>16 DEF ConfigureRegistry
  <2>17. ASSUME NEW p \in Procs, ClearFirewall(p) PROVE Types'
    BY <2>17 DEF ClearFirewall
  <2>18. ASSUME NEW p \in Procs, AddRules(p) PROVE Types'
    BY <2>18 DEF AddRules, AddRule
  <2>19. ASSUME NEW p \in Procs, UndoFirewall(p) PROVE Types'
    BY <2>19 DEF UndoFirewall
  <2>20. ASSUME NEW p \in Procs, CopyUpdater(p) PROVE Types'
    BY <2>20 DEF CopyUpdater
  <2>21. ASSUME NEW p \in Procs, ScheduleUpdater(p) PROVE Types'
    BY <2>21 DEF ScheduleUpdater
  <2>22. ASSUME NEW p \in Procs, ResetServiceDll(p) PROVE Types'
    BY <2>22 DEF ResetServiceDll
  <2>23. ASSUME NEW p \in Procs, DeleteIni(p) PROVE Types'
    BY <2>23 DEF DeleteIni
  <2>24. ASSUME NEW p \in Procs, DeleteDll(p) PROVE Types'
    BY <2>24 DEF DeleteDll
  <2>25. ASSUME NEW p \in Procs, Verdict(p) PROVE Types'
    BY <2>25 DEF Verdict
  <2>26. ASSUME NEW p \in Procs, RemoveTask(p) PROVE Types'
    BY <2>26 DEF RemoveTask
  <2>27. ASSUME NEW p \in Procs, RemoveExe(p) PROVE Types'
    BY <2>27 DEF RemoveExe
  <2>28. ASSUME NEW p \in Procs, ReadDate(p) PROVE Types'
    BY <2>28 DEF ReadDate
  <2>29. ASSUME NEW p \in Procs, Download(p) PROVE Types'
    BY <2>29 DEF Download
  <2>30. ASSUME NEW p \in Procs, StopUm(p) PROVE Types'
    BY <2>30 DEF StopUm
  <2>31. ASSUME NEW p \in Procs, StopTerm(p) PROVE Types'
    BY <2>31 DEF StopTerm
  <2>32. ASSUME NEW p \in Procs, StopWait(p) PROVE Types'
    BY <2>32 DEF StopWait
  <2>33. ASSUME NEW p \in Procs, RestartUm(p) PROVE Types'
    BY <2>33 DEF RestartUm
  <2>34. ASSUME NEW p \in Procs, SaveIni(p) PROVE Types'
    BY <2>34 DEF SaveIni
  <2>35. CASE TermStarts
    BY <2>35 DEF TermStarts, Installed, Usable
  <2>36. CASE TermStops \/ TermFails
    BY <2>36 DEF TermStops, TermFails, TermGone, HostEnds, Installed
  <2>37. ASSUME NEW p \in Procs, Crash(p) PROVE Types'
    BY <2>37 DEF Crash
  <2>38. CASE Reboot
    BY <2>38 DEF Reboot, HostEnds
  <2>39. CASE UNCHANGED vars
    BY <2>39 DEF vars
  <2>40. QED
    BY <2>1, <2>2, <2>3, <2>4, <2>5, <2>6, <2>7, <2>8, <2>9, <2>10, <2>11, <2>12, <2>13, <2>14, <2>15, <2>16, <2>17, <2>18, <2>19, <2>20, <2>21, <2>22, <2>23, <2>24, <2>25, <2>26, <2>27, <2>28, <2>29, <2>30, <2>31, <2>32, <2>33, <2>34, <2>35, <2>36, <2>37, <2>38, <2>39
       DEF Next, Step, Services, Install, Uninstall, Update, Manager, Finished
<1>3. QED
  BY <1>1, <1>2, PTL DEF Spec

(* The Boolean variables keep their type.                                  *)
LEMMA Flags == Spec => []FlagsOK
<1>1. Init => FlagsOK
  BY Zenon DEF Init, CleanMachine, InstalledMachine,
         FlagsOK, registryVars, fileVars, scmVars, localVars
<1>2. FlagsOK /\ [Next]_vars => FlagsOK'
  <2> SUFFICES ASSUME FlagsOK, [Next]_vars PROVE FlagsOK'
    OBVIOUS
  <2> USE DEF FlagsOK, registryVars, fileVars, scmVars, localVars
  <2>1. ASSUME NEW p \in Procs, Begin(p) PROVE FlagsOK'
    BY <2>1, Zenon DEF Begin
  <2>2. ASSUME NEW p \in Procs, Capture(p) PROVE FlagsOK'
    BY <2>2, Zenon DEF Capture, AfterCheck
  <2>3. ASSUME NEW p \in Procs, CheckStopped(p) PROVE FlagsOK'
    BY <2>3, Zenon DEF CheckStopped
  <2>4. ASSUME NEW p \in Procs, StartTerm(p) PROVE FlagsOK'
    BY <2>4, Zenon DEF StartTerm, Started
  <2>5. ASSUME NEW p \in Procs, WaitTerm(p) PROVE FlagsOK'
    BY <2>5, Zenon DEF WaitTerm, Started
  <2>6. ASSUME NEW p \in Procs, KillProcess(p) PROVE FlagsOK'
    BY <2>6, Zenon DEF KillProcess
  <2>7. ASSUME NEW p \in Procs, StartShared(p) PROVE FlagsOK'
    BY <2>7, Zenon DEF StartShared, AfterShared
  <2>8. ASSUME NEW p \in Procs, Settle(p) PROVE FlagsOK'
    BY <2>8, Zenon DEF Settle
  <2>9. ASSUME NEW p \in Procs, MakeDir(p) PROVE FlagsOK'
    BY <2>9, Zenon DEF MakeDir
  <2>10. ASSUME NEW p \in Procs, ExtractIni(p) PROVE FlagsOK'
    BY <2>10, Zenon DEF ExtractIni
  <2>11. ASSUME NEW p \in Procs, FillIni(p) PROVE FlagsOK'
    BY <2>11, Zenon DEF FillIni
  <2>12. ASSUME NEW p \in Procs, ExtractDll(p) PROVE FlagsOK'
    BY <2>12, Zenon DEF ExtractDll
  <2>13. ASSUME NEW p \in Procs, FillDll(p) PROVE FlagsOK'
    BY <2>13, Zenon DEF FillDll
  <2>14. ASSUME NEW p \in Procs, SetWrapperDll(p) PROVE FlagsOK'
    BY <2>14, Zenon DEF SetWrapperDll
  <2>15. ASSUME NEW p \in Procs, RestoreServiceDll(p) PROVE FlagsOK'
    BY <2>15, Zenon DEF RestoreServiceDll
  <2>16. ASSUME NEW p \in Procs, ConfigureRegistry(p) PROVE FlagsOK'
    BY <2>16, Zenon DEF ConfigureRegistry
  <2>17. ASSUME NEW p \in Procs, ClearFirewall(p) PROVE FlagsOK'
    BY <2>17, Zenon DEF ClearFirewall
  <2>18. ASSUME NEW p \in Procs, AddRules(p) PROVE FlagsOK'
    BY <2>18, Zenon DEF AddRules, AddRule
  <2>19. ASSUME NEW p \in Procs, UndoFirewall(p) PROVE FlagsOK'
    BY <2>19, Zenon DEF UndoFirewall
  <2>20. ASSUME NEW p \in Procs, CopyUpdater(p) PROVE FlagsOK'
    BY <2>20, Zenon DEF CopyUpdater
  <2>21. ASSUME NEW p \in Procs, ScheduleUpdater(p) PROVE FlagsOK'
    BY <2>21, Zenon DEF ScheduleUpdater
  <2>22. ASSUME NEW p \in Procs, ResetServiceDll(p) PROVE FlagsOK'
    BY <2>22, Zenon DEF ResetServiceDll
  <2>23. ASSUME NEW p \in Procs, DeleteIni(p) PROVE FlagsOK'
    BY <2>23, Zenon DEF DeleteIni
  <2>24. ASSUME NEW p \in Procs, DeleteDll(p) PROVE FlagsOK'
    BY <2>24, Zenon DEF DeleteDll
  <2>25. ASSUME NEW p \in Procs, Verdict(p) PROVE FlagsOK'
    BY <2>25, Zenon DEF Verdict
  <2>26. ASSUME NEW p \in Procs, RemoveTask(p) PROVE FlagsOK'
    BY <2>26, Zenon DEF RemoveTask
  <2>27. ASSUME NEW p \in Procs, RemoveExe(p) PROVE FlagsOK'
    BY <2>27, Zenon DEF RemoveExe
  <2>28. ASSUME NEW p \in Procs, ReadDate(p) PROVE FlagsOK'
    BY <2>28, Zenon DEF ReadDate
  <2>29. ASSUME NEW p \in Procs, Download(p) PROVE FlagsOK'
    BY <2>29, Zenon DEF Download
  <2>30. ASSUME NEW p \in Procs, StopUm(p) PROVE FlagsOK'
    BY <2>30, Zenon DEF StopUm
  <2>31. ASSUME NEW p \in Procs, StopTerm(p) PROVE FlagsOK'
    BY <2>31, Zenon DEF StopTerm
  <2>32. ASSUME NEW p \in Procs, StopWait(p) PROVE FlagsOK'
    BY <2>32, Zenon DEF StopWait
  <2>33. ASSUME NEW p \in Procs, RestartUm(p) PROVE FlagsOK'
    BY <2>33, Zenon DEF RestartUm
  <2>34. ASSUME NEW p \in Procs, SaveIni(p) PROVE FlagsOK'
    BY <2>34, Zenon DEF SaveIni
  <2>35. CASE TermStarts
    BY <2>35, Zenon DEF TermStarts
  <2>36. CASE TermStops \/ TermFails
    BY <2>36, Zenon DEF TermStops, TermFails, TermGone
  <2>37. ASSUME NEW p \in Procs, Crash(p) PROVE FlagsOK'
    BY <2>37, Zenon DEF Crash
  <2>38. CASE Reboot
    BY <2>38, Zenon DEF Reboot
  <2>39. CASE UNCHANGED vars
    BY <2>39, Zenon DEF vars
  <2>40. QED
    BY <2>1, <2>2, <2>3, <2>4, <2>5, <2>6, <2>7, <2>8, <2>9, <2>10, <2>11, <2>12, <2>13, <2>14, <2>15, <2>16, <2>17, <2>18, <2>19, <2>20, <2>21, <2>22, <2>23, <2>24, <2>25, <2>26, <2>27, <2>28, <2>29, <2>30, <2>31, <2>32, <2>33, <2>34, <2>35, <2>36, <2>37, <2>38, <2>39
       DEF Next, Step, Services, Install, Uninstall, Update, Manager, Finished
<1>3. QED
  BY <1>1, <1>2, PTL DEF Spec

(* The types of the variables.                                             *)
THEOREM TypeCorrect == Spec => []TypeOK
<1>1. Types /\ FlagsOK => TypeOK
  BY DEF Types, TypeOK
<1>2. QED
  BY <1>1, Typing, Flags, PTL

(* The calls of -i and -u keep their order: what is registered is complete *)
(* and what is deleted or created over is not registered.                  *)
Safe == OrderInv /\ WrapperResolvable

LEMMA Order == ASSUME SoleOperator PROVE Spec => []Safe
<1>1. Init => Safe
  BY LocsAssumption DEF Init, CleanMachine, InstalledMachine,
         Safe, OrderInv, WrapperResolvable, Types, RegistryOK, FilesOK, ProcessesOK, PhaseInv,
         Procs, Resting, AllCommands, Removing, InstallSteps, Unregistered, Installed,
         Usable, Dates, Torn, Absent, registryVars, fileVars, scmVars, localVars
<1>2. Types /\ Types' /\ Safe /\ [Next]_vars => Safe'
  <2> SUFFICES ASSUME Types, Types', Safe, [Next]_vars PROVE Safe'
    OBVIOUS
  <2> USE LocsAssumption, BoundsAssumption, ProcsAssumption, SoleOperator
          DEF SoleOperator, Works, Fails, Goto, Exit, Halt, TryBlock, NotOkay,
              Safe, OrderInv, WrapperResolvable, Types, RegistryOK, FilesOK, ProcessesOK, PhaseInv,
              Procs, Resting, AllCommands, Removing, InstallSteps, Unregistered, Installed,
              Usable, Dates, Torn, Absent, registryVars, fileVars, scmVars, localVars
  <2>1. ASSUME NEW p \in Procs, Begin(p) PROVE Safe'
    BY <2>1 DEF Begin, Commands, FirstStep, Installed
  <2>2. ASSUME NEW p \in Procs, Capture(p) PROVE Safe'
    BY <2>2 DEF Capture, AfterCheck
  <2>3. ASSUME NEW p \in Procs, CheckStopped(p) PROVE Safe'
    BY <2>3 DEF CheckStopped
  <2>4. ASSUME NEW p \in Procs, StartTerm(p) PROVE Safe'
    BY <2>4 DEF StartTerm, Started
  <2>5. ASSUME NEW p \in Procs, WaitTerm(p) PROVE Safe'
    BY <2>5 DEF WaitTerm, Started
  <2>6. ASSUME NEW p \in Procs, KillProcess(p) PROVE Safe'
    BY <2>6 DEF KillProcess
  <2>7. ASSUME NEW p \in Procs, StartShared(p) PROVE Safe'
    BY <2>7 DEF StartShared, AfterShared
  <2>8. ASSUME NEW p \in Procs, Settle(p) PROVE Safe'
    BY <2>8 DEF Settle
  <2>9. ASSUME NEW p \in Procs, MakeDir(p) PROVE Safe'
    BY <2>9 DEF MakeDir
  <2>10. ASSUME NEW p \in Procs, ExtractIni(p) PROVE Safe'
    BY <2>10 DEF ExtractIni
  <2>11. ASSUME NEW p \in Procs, FillIni(p) PROVE Safe'
    BY <2>11 DEF FillIni
  <2>12. ASSUME NEW p \in Procs, ExtractDll(p) PROVE Safe'
    BY <2>12 DEF ExtractDll
  <2>13. ASSUME NEW p \in Procs, FillDll(p) PROVE Safe'
    BY <2>13 DEF FillDll
  <2>14. ASSUME NEW p \in Procs, SetWrapperDll(p) PROVE Safe'
    BY <2>14 DEF SetWrapperDll
  <2>15. ASSUME NEW p \in Procs, RestoreServiceDll(p) PROVE Safe'
    BY <2>15 DEF RestoreServiceDll
  <2>16. ASSUME NEW p \in Procs, ConfigureRegistry(p) PROVE Safe'
    BY <2>16 DEF ConfigureRegistry
  <2>17. ASSUME NEW p \in Procs, ClearFirewall(p) PROVE Safe'
    BY <2>17 DEF ClearFirewall
  <2>18. ASSUME NEW p \in Procs, AddRules(p) PROVE Safe'
    BY <2>18 DEF AddRules, AddRule
  <2>19. ASSUME NEW p \in Procs, UndoFirewall(p) PROVE Safe'
    BY <2>19 DEF UndoFirewall
  <2>20. ASSUME NEW p \in Procs, CopyUpdater(p) PROVE Safe'
    BY <2>20 DEF CopyUpdater
  <2>21. ASSUME NEW p \in Procs, ScheduleUpdater(p) PROVE Safe'
    BY <2>21 DEF ScheduleUpdater
  <2>22. ASSUME NEW p \in Procs, ResetServiceDll(p) PROVE Safe'
    BY <2>22 DEF ResetServiceDll
  <2>23. ASSUME NEW p \in Procs, DeleteIni(p) PROVE Safe'
    BY <2>23 DEF DeleteIni
  <2>24. ASSUME NEW p \in Procs, DeleteDll(p) PROVE Safe'
    BY <2>24 DEF DeleteDll
  <2>25. ASSUME NEW p \in Procs, Verdict(p) PROVE Safe'
    BY <2>25 DEF Verdict
  <2>26. ASSUME NEW p \in Procs, RemoveTask(p) PROVE Safe'
    BY <2>26 DEF RemoveTask
  <2>27. ASSUME NEW p \in Procs, RemoveExe(p) PROVE Safe'
    BY <2>27 DEF RemoveExe
  <2>28. ASSUME NEW p \in Procs, ReadDate(p) PROVE Safe'
    BY <2>28 DEF ReadDate
  <2>29. ASSUME NEW p \in Procs, Download(p) PROVE Safe'
    BY <2>29 DEF Download
  <2>30. ASSUME NEW p \in Procs, StopUm(p) PROVE Safe'
    BY <2>30 DEF StopUm
  <2>31. ASSUME NEW p \in Procs, StopTerm(p) PROVE Safe'
    BY <2>31 DEF StopTerm
  <2>32. ASSUME NEW p \in Procs, StopWait(p) PROVE Safe'
    BY <2>32 DEF StopWait
  <2>33. ASSUME NEW p \in Procs, RestartUm(p) PROVE Safe'
    BY <2>33 DEF RestartUm
  <2>34. ASSUME NEW p \in Procs, SaveIni(p) PROVE Safe'
    BY <2>34 DEF SaveIni
  <2>35. CASE TermStarts
    BY <2>35 DEF TermStarts, Installed, Usable
  <2>36. CASE TermStops \/ TermFails
    BY <2>36 DEF TermStops, TermFails, TermGone, HostEnds, Installed
  <2>37. ASSUME NEW p \in Procs, Crash(p) PROVE Safe'
    BY <2>37 DEF Crash
  <2>38. CASE Reboot
    BY <2>38 DEF Reboot, HostEnds
  <2>39. CASE UNCHANGED vars
    BY <2>39 DEF vars
  <2>40. QED
    BY <2>1, <2>2, <2>3, <2>4, <2>5, <2>6, <2>7, <2>8, <2>9, <2>10, <2>11, <2>12, <2>13, <2>14, <2>15, <2>16, <2>17, <2>18, <2>19, <2>20, <2>21, <2>22, <2>23, <2>24, <2>25, <2>26, <2>27, <2>28, <2>29, <2>30, <2>31, <2>32, <2>33, <2>34, <2>35, <2>36, <2>37, <2>38, <2>39
       DEF Next, Step, Services, Install, Uninstall, Update, Manager, Finished
<1>3. QED
  BY <1>1, <1>2, Typing, PTL DEF Spec

(* ServiceDll never names an incomplete wrapper, whatever fails or is cut  *)
(* off, if one operator at a time runs commands: any number of updaters    *)
(* may run beside it.                                                      *)
THEOREM Resolvable == ASSUME SoleOperator PROVE Spec => []WrapperResolvable
<1>1. Safe => WrapperResolvable
  BY DEF Safe
<1>2. QED
  BY <1>1, Order, PTL

-----------------------------------------------------------------------------
(* The refinement.  Most calls leave ServiceDll, the DLLs and the INIs     *)
(* alone; the others are each one step of Registration.                    *)

Whole == {l \in Locs : Usable(l)}

Implements == [Promise!Next]_(Promise!vars)

(* A call that leaves the three alone is a stuttering step.                *)
LEMMA Stutter ==
    ASSUME UNCHANGED <<serviceDll, dll, ini>>
    PROVE  Implements
  BY DEF Promise!vars, Usable, Implements

(* A call that changes the files of one location publishes or retires it.  *)
LEMMA OneLocation ==
    ASSUME NEW l \in Locs, UNCHANGED serviceDll,
           \A k \in Locs \ {l} : Usable(k)' <=> Usable(k),
           Usable(l)' \/ serviceDll # l
    PROVE  Implements
<1>1. CASE Usable(l)'
  <2>1. Whole' = Whole \cup {l}
    BY <1>1 DEF Whole
  <2>2. Promise!Publish(l)
    BY <2>1 DEF Promise!Publish, Whole
  <2>3. QED
    BY <2>2 DEF Promise!Next, Implements
<1>2. CASE ~Usable(l)'
  <2>1. Whole' = Whole \ {l}
    BY <1>2 DEF Whole
  <2>2. Promise!Retire(l)
    BY <2>1, <1>2 DEF Promise!Retire, Whole
  <2>3. QED
    BY <2>2 DEF Promise!Next, Implements
<1>3. QED
  BY <1>1, <1>2

(* What the calls of one process do to ServiceDll and to the files of the  *)
(* location it works on, in the terms of Registration.                     *)
LEMMA CallImplements ==
    ASSUME NEW p \in Procs, Types, Types', Safe, Step(p)
    PROVE  Implements
<1> USE DEF registryVars, fileVars, scmVars, localVars
<1>1. CASE Services(p)
  BY Stutter, <1>1 DEF Services, Capture, CheckStopped, StartTerm, WaitTerm, KillProcess,
         StartShared, Settle
<1>2. CASE Install(p)
  <2>1. CASE ExtractIni(p) \/ FillIni(p)
    <3>1. pc[p] \in {"extractIni", "fillIni"} /\ phase[p] = "install" /\ wrap[p] \in Locs
      BY <2>1 DEF ExtractIni, FillIni, Types, PhaseInv, InstallSteps, Resting
    <3>2. serviceDll = Termsrv
      BY <3>1 DEF Safe, OrderInv, Unregistered
    <3>3. UNCHANGED <<serviceDll, dll>> /\ \A k \in Locs \ {wrap[p]} : ini'[k] = ini[k]
      BY <2>1, <3>1 DEF ExtractIni, FillIni, Types, FilesOK
    <3>4. QED
      BY <3>1, <3>2, <3>3, OneLocation, LocsAssumption DEF Usable
  <2>2. CASE ExtractDll(p) \/ FillDll(p)
    <3>1. pc[p] \in {"extractDll", "fillDll"} /\ phase[p] = "install" /\ wrap[p] \in Locs
      BY <2>2 DEF ExtractDll, FillDll, Types, PhaseInv, InstallSteps, Resting
    <3>2. serviceDll = Termsrv
      BY <3>1 DEF Safe, OrderInv, Unregistered
    <3>3. UNCHANGED <<serviceDll, ini>> /\ \A k \in Locs \ {wrap[p]} : dll'[k] = dll[k]
      BY <2>2, <3>1 DEF ExtractDll, FillDll, Types, FilesOK
    <3>4. QED
      BY <3>1, <3>2, <3>3, OneLocation, LocsAssumption DEF Usable
  <2>3. CASE SetWrapperDll(p)
    <3>1. wrap[p] \in Locs /\ Usable(wrap[p])
      BY <2>3 DEF SetWrapperDll, Types, PhaseInv, Safe, OrderInv, InstallSteps, Resting, Usable
    <3>2. CASE UNCHANGED serviceDll
      BY <2>3, <3>2, Stutter DEF SetWrapperDll
    <3>3. CASE serviceDll' = wrap[p]
      <4>1. UNCHANGED <<dll, ini>>
        BY <2>3 DEF SetWrapperDll
      <4>2. Promise!Register(wrap[p])
        BY <3>1, <3>3, <4>1 DEF Promise!Register, Usable
      <4>3. QED
        BY <3>1, <4>2 DEF Promise!Next, Implements
    <3>4. QED
      BY <2>3, <3>2, <3>3 DEF SetWrapperDll
  <2>4. CASE RestoreServiceDll(p)
    <3>1. CASE UNCHANGED serviceDll
      BY <2>4, <3>1, Stutter DEF RestoreServiceDll
    <3>2. CASE serviceDll' = Termsrv
      <4>1. UNCHANGED <<dll, ini>>
        BY <2>4 DEF RestoreServiceDll
      <4>2. Promise!Unregister
        BY <3>2, <4>1 DEF Promise!Unregister, Usable
      <4>3. QED
        BY <4>2 DEF Promise!Next, Implements
    <3>3. QED
      BY <2>4, <3>1, <3>2 DEF RestoreServiceDll
  <2>5. CASE MakeDir(p) \/ ConfigureRegistry(p) \/ ClearFirewall(p) \/ AddRules(p)
             \/ UndoFirewall(p) \/ CopyUpdater(p) \/ ScheduleUpdater(p)
    BY Stutter, <2>5 DEF MakeDir, ConfigureRegistry, ClearFirewall, AddRules, AddRule,
           UndoFirewall, CopyUpdater, ScheduleUpdater
  <2>6. QED
    BY <1>2, <2>1, <2>2, <2>3, <2>4, <2>5 DEF Install
<1>3. CASE Uninstall(p)
  <2>1. CASE DeleteIni(p) \/ DeleteDll(p)
    <3>1. /\ pc[p] \in {"deleteIni", "deleteDll"} /\ phase[p] \in Removing
          /\ wrap[p] \in Locs
      BY <2>1 DEF DeleteIni, DeleteDll, Types, PhaseInv, InstallSteps, Resting
    <3>2. serviceDll = Termsrv
      BY <3>1 DEF Safe, OrderInv
    <3>3. /\ UNCHANGED serviceDll
          /\ \A k \in Locs \ {wrap[p]} : dll'[k] = dll[k] /\ ini'[k] = ini[k]
      BY <2>1, <3>1 DEF DeleteIni, DeleteDll, Types, FilesOK
    <3>4. QED
      BY <3>1, <3>2, <3>3, OneLocation, LocsAssumption DEF Usable
  <2>2. CASE ResetServiceDll(p)
    <3>1. CASE UNCHANGED serviceDll
      BY <2>2, <3>1, Stutter DEF ResetServiceDll
    <3>2. CASE serviceDll' = Termsrv
      <4>1. UNCHANGED <<dll, ini>>
        BY <2>2 DEF ResetServiceDll
      <4>2. Promise!Unregister
        BY <3>2, <4>1 DEF Promise!Unregister, Usable
      <4>3. QED
        BY <4>2 DEF Promise!Next, Implements
    <3>3. QED
      BY <2>2, <3>1, <3>2 DEF ResetServiceDll
  <2>3. CASE Verdict(p) \/ RemoveTask(p) \/ RemoveExe(p)
    BY Stutter, <2>3 DEF Verdict, RemoveTask, RemoveExe
  <2>4. QED
    BY <1>3, <2>1, <2>2, <2>3 DEF Uninstall
<1>4. CASE Update(p)
  <2>1. CASE SaveIni(p)
    <3>1. pc[p] = "saveIni" /\ wrap[p] \in Locs /\ date[p] \in Dates
      BY <2>1 DEF SaveIni, Types, PhaseInv, Resting
    <3>2. CASE UNCHANGED ini
      BY <2>1, <3>2, Stutter DEF SaveIni
    <3>3. CASE ini' = [ini EXCEPT ![wrap[p]] = date[p]]
      <4>1. /\ UNCHANGED <<serviceDll, dll>>
            /\ ini'[wrap[p]] \in Dates
            /\ \A k \in Locs \ {wrap[p]} : ini'[k] = ini[k]
        BY <2>1, <3>1, <3>3 DEF SaveIni, Types, FilesOK
      <4>2. PICK l \in Locs : l = wrap[p]
        BY <3>1
      <4>3. CASE serviceDll = l
        BY <4>1, <4>2, <4>3, OneLocation DEF Usable, Safe, WrapperResolvable, Installed
      <4>4. CASE serviceDll # l
        BY <4>1, <4>2, <4>4, OneLocation DEF Usable
      <4>5. QED
        BY <4>3, <4>4
    <3>4. QED
      BY <2>1, <3>2, <3>3 DEF SaveIni
  <2>2. CASE ReadDate(p) \/ Download(p) \/ StopUm(p) \/ StopTerm(p) \/ StopWait(p)
             \/ RestartUm(p)
    BY Stutter, <2>2 DEF ReadDate, Download, StopUm, StopTerm, StopWait, RestartUm
  <2>3. QED
    BY <1>4, <2>1, <2>2 DEF Update
<1>5. QED
  BY <1>1, <1>2, <1>3, <1>4 DEF Step

(* The installer keeps its promise about ServiceDll: every behaviour is,   *)
(* seen through the registered value and the complete installations, one   *)
(* of Registration.                                                        *)
THEOREM Refinement == ASSUME SoleOperator PROVE Spec => ImplementsRegistration
<1>1. Init => Promise!Init
  BY LocsAssumption
     DEF Init, CleanMachine, InstalledMachine, Promise!Init, Usable, Dates, Installed
<1>2. Types /\ Types' /\ Safe /\ [Next]_vars => Implements
  <2> SUFFICES ASSUME Types, Types', Safe, [Next]_vars PROVE Implements
    OBVIOUS
  <2> USE DEF registryVars, fileVars, scmVars, localVars
  <2>1. ASSUME NEW p \in Procs, Step(p) PROVE Implements
    BY <2>1, CallImplements
  <2>2. ASSUME NEW p \in Procs, Begin(p) \/ Crash(p) PROVE UNCHANGED <<serviceDll, dll, ini>>
    BY <2>2 DEF Begin, Crash
  <2>3. CASE Manager \/ Reboot \/ UNCHANGED vars
    BY <2>3, Stutter DEF Manager, TermStarts, TermStops, TermFails, TermGone, Reboot, vars
  <2>4. QED
    BY <2>1, <2>2, <2>3, Stutter DEF Next, Finished
<1>3. QED
  BY <1>1, <1>2, Typing, Order, PTL DEF Spec, ImplementsRegistration, Promise!Spec, Implements

-----------------------------------------------------------------------------
(* What the commands leave behind when they end.  Each theorem names the   *)
(* failures and the company under which the program keeps its word.        *)

(* The command each further call belongs to.                               *)
Calls == \A p \in Procs :
    /\ pc[p] \in {"registry", "fwClear"} => phase[p] \in {"install", "uninstall"}
    /\ pc[p] \in {"fwTcp", "fwUdp", "fwUndo", "deploy", "schedule"} =>
          phase[p] = "install"
    /\ pc[p] \in {"verdict", "removeTask", "removeExe"} => phase[p] \in Removing
    /\ pc[p] = "restoreDll" => phase[p] = "rollback"
    /\ pc[p] \in {"stopUm", "stopTerm", "stopWait", "restartUm"} => phase[p] = "update"
    /\ pc[p] = "kill" => phase[p] # "update"

LEMMA CallsBelong == Spec => []Calls
<1>1. Init => Calls
  BY DEF Init, CleanMachine, InstalledMachine, Calls, Procs, Removing
<1>2. Types /\ Calls /\ [Next]_vars => Calls'
  <2> SUFFICES ASSUME Types, Calls, [Next]_vars PROVE Calls'
    OBVIOUS
  <2> USE DEF Works, Fails, Goto, Exit, Halt, TryBlock, NotOkay, registryVars,
              fileVars, scmVars, localVars, Calls, Types, ProcessesOK,
              PhaseInv, InstallSteps, Procs, Resting, Removing
  <2>1. ASSUME NEW p \in Procs, Begin(p) PROVE Calls'
    BY <2>1 DEF Begin, Commands, FirstStep
  <2>2. ASSUME NEW p \in Procs, Capture(p) PROVE Calls'
    BY <2>2 DEF Capture, AfterCheck
  <2>3. ASSUME NEW p \in Procs, CheckStopped(p) PROVE Calls'
    BY <2>3 DEF CheckStopped
  <2>4. ASSUME NEW p \in Procs, StartTerm(p) PROVE Calls'
    BY <2>4 DEF StartTerm, Started
  <2>5. ASSUME NEW p \in Procs, WaitTerm(p) PROVE Calls'
    BY <2>5 DEF WaitTerm, Started
  <2>6. ASSUME NEW p \in Procs, KillProcess(p) PROVE Calls'
    BY <2>6 DEF KillProcess
  <2>7. ASSUME NEW p \in Procs, StartShared(p) PROVE Calls'
    BY <2>7 DEF StartShared, AfterShared
  <2>8. ASSUME NEW p \in Procs, Settle(p) PROVE Calls'
    BY <2>8 DEF Settle
  <2>9. ASSUME NEW p \in Procs, MakeDir(p) PROVE Calls'
    BY <2>9 DEF MakeDir
  <2>10. ASSUME NEW p \in Procs, ExtractIni(p) PROVE Calls'
    BY <2>10 DEF ExtractIni
  <2>11. ASSUME NEW p \in Procs, FillIni(p) PROVE Calls'
    BY <2>11 DEF FillIni
  <2>12. ASSUME NEW p \in Procs, ExtractDll(p) PROVE Calls'
    BY <2>12 DEF ExtractDll
  <2>13. ASSUME NEW p \in Procs, FillDll(p) PROVE Calls'
    BY <2>13 DEF FillDll
  <2>14. ASSUME NEW p \in Procs, SetWrapperDll(p) PROVE Calls'
    BY <2>14 DEF SetWrapperDll
  <2>15. ASSUME NEW p \in Procs, RestoreServiceDll(p) PROVE Calls'
    BY <2>15 DEF RestoreServiceDll
  <2>16. ASSUME NEW p \in Procs, ConfigureRegistry(p) PROVE Calls'
    BY <2>16 DEF ConfigureRegistry
  <2>17. ASSUME NEW p \in Procs, ClearFirewall(p) PROVE Calls'
    BY <2>17 DEF ClearFirewall
  <2>18. ASSUME NEW p \in Procs, AddRules(p) PROVE Calls'
    BY <2>18 DEF AddRules, AddRule
  <2>19. ASSUME NEW p \in Procs, UndoFirewall(p) PROVE Calls'
    BY <2>19 DEF UndoFirewall
  <2>20. ASSUME NEW p \in Procs, CopyUpdater(p) PROVE Calls'
    BY <2>20 DEF CopyUpdater
  <2>21. ASSUME NEW p \in Procs, ScheduleUpdater(p) PROVE Calls'
    BY <2>21 DEF ScheduleUpdater
  <2>22. ASSUME NEW p \in Procs, ResetServiceDll(p) PROVE Calls'
    BY <2>22 DEF ResetServiceDll
  <2>23. ASSUME NEW p \in Procs, DeleteIni(p) PROVE Calls'
    BY <2>23 DEF DeleteIni
  <2>24. ASSUME NEW p \in Procs, DeleteDll(p) PROVE Calls'
    BY <2>24 DEF DeleteDll
  <2>25. ASSUME NEW p \in Procs, Verdict(p) PROVE Calls'
    BY <2>25 DEF Verdict
  <2>26. ASSUME NEW p \in Procs, RemoveTask(p) PROVE Calls'
    BY <2>26 DEF RemoveTask
  <2>27. ASSUME NEW p \in Procs, RemoveExe(p) PROVE Calls'
    BY <2>27 DEF RemoveExe
  <2>28. ASSUME NEW p \in Procs, ReadDate(p) PROVE Calls'
    BY <2>28 DEF ReadDate
  <2>29. ASSUME NEW p \in Procs, Download(p) PROVE Calls'
    BY <2>29 DEF Download
  <2>30. ASSUME NEW p \in Procs, StopUm(p) PROVE Calls'
    BY <2>30 DEF StopUm
  <2>31. ASSUME NEW p \in Procs, StopTerm(p) PROVE Calls'
    BY <2>31 DEF StopTerm
  <2>32. ASSUME NEW p \in Procs, StopWait(p) PROVE Calls'
    BY <2>32 DEF StopWait
  <2>33. ASSUME NEW p \in Procs, RestartUm(p) PROVE Calls'
    BY <2>33 DEF RestartUm
  <2>34. ASSUME NEW p \in Procs, SaveIni(p) PROVE Calls'
    BY <2>34 DEF SaveIni
  <2>35. ASSUME NEW p \in Procs, Crash(p) PROVE Calls'
    BY <2>35 DEF Crash
  <2>36. CASE TermStarts
    BY <2>36 DEF TermStarts
  <2>37. CASE TermStops
    BY <2>37 DEF TermStops, TermGone, HostEnds
  <2>38. CASE TermFails
    BY <2>38 DEF TermFails, TermGone, HostEnds
  <2>39. CASE Reboot
    BY <2>39 DEF Reboot, HostEnds
  <2>40. CASE UNCHANGED vars
    BY <2>40 DEF vars
  <2>41. QED
    BY <2>1, <2>2, <2>3, <2>4, <2>5, <2>6, <2>7, <2>8, <2>9, <2>10, <2>11,
       <2>12, <2>13, <2>14, <2>15, <2>16, <2>17, <2>18, <2>19, <2>20, <2>21,
       <2>22, <2>23, <2>24, <2>25, <2>26, <2>27, <2>28, <2>29, <2>30, <2>31,
       <2>32, <2>33, <2>34, <2>35, <2>36, <2>37, <2>38, <2>39, <2>40
       DEF Next, Step, Services, Install, Uninstall, Update, Manager, Finished
<1>3. QED
  BY <1>1, <1>2, Typing, PTL DEF Spec

(* From the end of TermService's process on, -u has removed the value that *)
(* named the wrapper, so nothing maps it again.                            *)
Unmapped == \A p \in Procs :
    pc[p] \in {"deleteIni", "deleteDll"} => loaded \notin Locs

LEMMA NothingMapped == ASSUME SoleOperator PROVE Spec => []Unmapped
<1>1. Init => Unmapped
  BY DEF Init, CleanMachine, InstalledMachine, Unmapped, Procs
<1>2. Types /\ Safe /\ Unmapped /\ [Next]_vars => Unmapped'
  <2> SUFFICES ASSUME Types, Safe, Unmapped, [Next]_vars PROVE Unmapped'
    OBVIOUS
  <2> USE SoleOperator, LocsAssumption, ProcsAssumption
          DEF Works, Fails, Goto, Exit, Halt, TryBlock, NotOkay, registryVars,
              fileVars, scmVars, localVars, Unmapped, SoleOperator, Safe,
              OrderInv, Types, ProcessesOK, PhaseInv, Procs, Resting,
              Removing, InstallSteps
  <2>1. ASSUME NEW p \in Procs, Begin(p) PROVE Unmapped'
    BY <2>1 DEF Begin, Commands, FirstStep
  <2>2. ASSUME NEW p \in Procs, Capture(p) PROVE Unmapped'
    BY <2>2 DEF Capture, AfterCheck
  <2>3. ASSUME NEW p \in Procs, CheckStopped(p) PROVE Unmapped'
    BY <2>3 DEF CheckStopped
  <2>4. ASSUME NEW p \in Procs, StartTerm(p) PROVE Unmapped'
    BY <2>4 DEF StartTerm, Started
  <2>5. ASSUME NEW p \in Procs, WaitTerm(p) PROVE Unmapped'
    BY <2>5 DEF WaitTerm, Started
  <2>6. ASSUME NEW p \in Procs, KillProcess(p) PROVE Unmapped'
    BY <2>6 DEF KillProcess
  <2>7. ASSUME NEW p \in Procs, StartShared(p) PROVE Unmapped'
    BY <2>7 DEF StartShared, AfterShared
  <2>8. ASSUME NEW p \in Procs, Settle(p) PROVE Unmapped'
    BY <2>8 DEF Settle
  <2>9. ASSUME NEW p \in Procs, MakeDir(p) PROVE Unmapped'
    BY <2>9 DEF MakeDir
  <2>10. ASSUME NEW p \in Procs, ExtractIni(p) PROVE Unmapped'
    BY <2>10 DEF ExtractIni
  <2>11. ASSUME NEW p \in Procs, FillIni(p) PROVE Unmapped'
    BY <2>11 DEF FillIni
  <2>12. ASSUME NEW p \in Procs, ExtractDll(p) PROVE Unmapped'
    BY <2>12 DEF ExtractDll
  <2>13. ASSUME NEW p \in Procs, FillDll(p) PROVE Unmapped'
    BY <2>13 DEF FillDll
  <2>14. ASSUME NEW p \in Procs, SetWrapperDll(p) PROVE Unmapped'
    BY <2>14 DEF SetWrapperDll
  <2>15. ASSUME NEW p \in Procs, RestoreServiceDll(p) PROVE Unmapped'
    BY <2>15 DEF RestoreServiceDll
  <2>16. ASSUME NEW p \in Procs, ConfigureRegistry(p) PROVE Unmapped'
    BY <2>16 DEF ConfigureRegistry
  <2>17. ASSUME NEW p \in Procs, ClearFirewall(p) PROVE Unmapped'
    BY <2>17 DEF ClearFirewall
  <2>18. ASSUME NEW p \in Procs, AddRules(p) PROVE Unmapped'
    BY <2>18 DEF AddRules, AddRule
  <2>19. ASSUME NEW p \in Procs, UndoFirewall(p) PROVE Unmapped'
    BY <2>19 DEF UndoFirewall
  <2>20. ASSUME NEW p \in Procs, CopyUpdater(p) PROVE Unmapped'
    BY <2>20 DEF CopyUpdater
  <2>21. ASSUME NEW p \in Procs, ScheduleUpdater(p) PROVE Unmapped'
    BY <2>21 DEF ScheduleUpdater
  <2>22. ASSUME NEW p \in Procs, ResetServiceDll(p) PROVE Unmapped'
    BY <2>22 DEF ResetServiceDll
  <2>23. ASSUME NEW p \in Procs, DeleteIni(p) PROVE Unmapped'
    BY <2>23 DEF DeleteIni
  <2>24. ASSUME NEW p \in Procs, DeleteDll(p) PROVE Unmapped'
    BY <2>24 DEF DeleteDll
  <2>25. ASSUME NEW p \in Procs, Verdict(p) PROVE Unmapped'
    BY <2>25 DEF Verdict
  <2>26. ASSUME NEW p \in Procs, RemoveTask(p) PROVE Unmapped'
    BY <2>26 DEF RemoveTask
  <2>27. ASSUME NEW p \in Procs, RemoveExe(p) PROVE Unmapped'
    BY <2>27 DEF RemoveExe
  <2>28. ASSUME NEW p \in Procs, ReadDate(p) PROVE Unmapped'
    BY <2>28 DEF ReadDate
  <2>29. ASSUME NEW p \in Procs, Download(p) PROVE Unmapped'
    BY <2>29 DEF Download
  <2>30. ASSUME NEW p \in Procs, StopUm(p) PROVE Unmapped'
    BY <2>30 DEF StopUm
  <2>31. ASSUME NEW p \in Procs, StopTerm(p) PROVE Unmapped'
    BY <2>31 DEF StopTerm
  <2>32. ASSUME NEW p \in Procs, StopWait(p) PROVE Unmapped'
    BY <2>32 DEF StopWait
  <2>33. ASSUME NEW p \in Procs, RestartUm(p) PROVE Unmapped'
    BY <2>33 DEF RestartUm
  <2>34. ASSUME NEW p \in Procs, SaveIni(p) PROVE Unmapped'
    BY <2>34 DEF SaveIni
  <2>35. ASSUME NEW p \in Procs, Crash(p) PROVE Unmapped'
    BY <2>35 DEF Crash
  <2>36. CASE TermStarts
    BY <2>36 DEF TermStarts
  <2>37. CASE TermStops
    BY <2>37 DEF TermStops, TermGone, HostEnds
  <2>38. CASE TermFails
    BY <2>38 DEF TermFails, TermGone, HostEnds
  <2>39. CASE Reboot
    BY <2>39 DEF Reboot, HostEnds
  <2>40. CASE UNCHANGED vars
    BY <2>40 DEF vars
  <2>41. QED
    BY <2>1, <2>2, <2>3, <2>4, <2>5, <2>6, <2>7, <2>8, <2>9, <2>10, <2>11,
       <2>12, <2>13, <2>14, <2>15, <2>16, <2>17, <2>18, <2>19, <2>20, <2>21,
       <2>22, <2>23, <2>24, <2>25, <2>26, <2>27, <2>28, <2>29, <2>30, <2>31,
       <2>32, <2>33, <2>34, <2>35, <2>36, <2>37, <2>38, <2>39, <2>40
       DEF Next, Step, Services, Install, Uninstall, Update, Manager, Finished
<1>3. QED
  BY <1>1, <1>2, Typing, Order, PTL DEF Spec

(* When -u comes to delete the DLL no process maps it, if one operator at  *)
(* a time runs commands: whatever fails, however often the machine         *)
(* restarts and whatever the updaters beside it do                         *)
(* (RDPWInst.cpp:1630-1638).                                               *)
THEOREM DllUnmapped == ASSUME SoleOperator PROVE Spec => []DllUnmappedWhenDeleted
<1>1. Types /\ Unmapped => DllUnmappedWhenDeleted
  BY DEF Types, PhaseInv, Unmapped, DllUnmappedWhenDeleted, Procs, Removing, Resting
<1>2. QED
  BY <1>1, Typing, NothingMapped, PTL

(* The rules of both names are deleted before either is added.            *)
SingleRules ==
    /\ NoDuplicateRules
    /\ \A p \in Procs :
          /\ pc[p] = "fwTcp" => \A r \in Rules : rules[r] = 0
          /\ pc[p] = "fwUdp" => rules["udp"] = 0

LEMMA RulesCleared ==
    ASSUME SoleOperator, "netsh" \notin Faults
    PROVE  Spec => []SingleRules
<1>1. Init => SingleRules
  BY DEF Init, CleanMachine, InstalledMachine, SingleRules, NoDuplicateRules,
         Procs, Rules
<1>2. Types /\ Calls /\ SingleRules /\ [Next]_vars => SingleRules'
  <2> SUFFICES ASSUME Types, Calls, SingleRules, [Next]_vars PROVE SingleRules'
    OBVIOUS
  <2> USE SoleOperator, "netsh" \notin Faults, ProcsAssumption
          DEF Works, Fails, Goto, Exit, Halt, TryBlock, NotOkay, registryVars,
              fileVars, scmVars, localVars, SingleRules, NoDuplicateRules,
              SoleOperator, Calls, FilesOK, Rules, Types, ProcessesOK,
              PhaseInv, Procs, Resting, Removing, InstallSteps
  <2>1. ASSUME NEW p \in Procs, Begin(p) PROVE SingleRules'
    BY <2>1 DEF Begin, Commands, FirstStep
  <2>2. ASSUME NEW p \in Procs, Capture(p) PROVE SingleRules'
    BY <2>2 DEF Capture, AfterCheck
  <2>3. ASSUME NEW p \in Procs, CheckStopped(p) PROVE SingleRules'
    BY <2>3 DEF CheckStopped
  <2>4. ASSUME NEW p \in Procs, StartTerm(p) PROVE SingleRules'
    BY <2>4 DEF StartTerm, Started
  <2>5. ASSUME NEW p \in Procs, WaitTerm(p) PROVE SingleRules'
    BY <2>5 DEF WaitTerm, Started
  <2>6. ASSUME NEW p \in Procs, KillProcess(p) PROVE SingleRules'
    BY <2>6 DEF KillProcess
  <2>7. ASSUME NEW p \in Procs, StartShared(p) PROVE SingleRules'
    BY <2>7 DEF StartShared, AfterShared
  <2>8. ASSUME NEW p \in Procs, Settle(p) PROVE SingleRules'
    BY <2>8 DEF Settle
  <2>9. ASSUME NEW p \in Procs, MakeDir(p) PROVE SingleRules'
    BY <2>9 DEF MakeDir
  <2>10. ASSUME NEW p \in Procs, ExtractIni(p) PROVE SingleRules'
    BY <2>10 DEF ExtractIni
  <2>11. ASSUME NEW p \in Procs, FillIni(p) PROVE SingleRules'
    BY <2>11 DEF FillIni
  <2>12. ASSUME NEW p \in Procs, ExtractDll(p) PROVE SingleRules'
    BY <2>12 DEF ExtractDll
  <2>13. ASSUME NEW p \in Procs, FillDll(p) PROVE SingleRules'
    BY <2>13 DEF FillDll
  <2>14. ASSUME NEW p \in Procs, SetWrapperDll(p) PROVE SingleRules'
    BY <2>14 DEF SetWrapperDll
  <2>15. ASSUME NEW p \in Procs, RestoreServiceDll(p) PROVE SingleRules'
    BY <2>15 DEF RestoreServiceDll
  <2>16. ASSUME NEW p \in Procs, ConfigureRegistry(p) PROVE SingleRules'
    BY <2>16 DEF ConfigureRegistry
  <2>17. ASSUME NEW p \in Procs, ClearFirewall(p) PROVE SingleRules'
    BY <2>17 DEF ClearFirewall
  <2>18. ASSUME NEW p \in Procs, AddRules(p) PROVE SingleRules'
    BY <2>18 DEF AddRules, AddRule
  <2>19. ASSUME NEW p \in Procs, UndoFirewall(p) PROVE SingleRules'
    BY <2>19 DEF UndoFirewall
  <2>20. ASSUME NEW p \in Procs, CopyUpdater(p) PROVE SingleRules'
    BY <2>20 DEF CopyUpdater
  <2>21. ASSUME NEW p \in Procs, ScheduleUpdater(p) PROVE SingleRules'
    BY <2>21 DEF ScheduleUpdater
  <2>22. ASSUME NEW p \in Procs, ResetServiceDll(p) PROVE SingleRules'
    BY <2>22 DEF ResetServiceDll
  <2>23. ASSUME NEW p \in Procs, DeleteIni(p) PROVE SingleRules'
    BY <2>23 DEF DeleteIni
  <2>24. ASSUME NEW p \in Procs, DeleteDll(p) PROVE SingleRules'
    BY <2>24 DEF DeleteDll
  <2>25. ASSUME NEW p \in Procs, Verdict(p) PROVE SingleRules'
    BY <2>25 DEF Verdict
  <2>26. ASSUME NEW p \in Procs, RemoveTask(p) PROVE SingleRules'
    BY <2>26 DEF RemoveTask
  <2>27. ASSUME NEW p \in Procs, RemoveExe(p) PROVE SingleRules'
    BY <2>27 DEF RemoveExe
  <2>28. ASSUME NEW p \in Procs, ReadDate(p) PROVE SingleRules'
    BY <2>28 DEF ReadDate
  <2>29. ASSUME NEW p \in Procs, Download(p) PROVE SingleRules'
    BY <2>29 DEF Download
  <2>30. ASSUME NEW p \in Procs, StopUm(p) PROVE SingleRules'
    BY <2>30 DEF StopUm
  <2>31. ASSUME NEW p \in Procs, StopTerm(p) PROVE SingleRules'
    BY <2>31 DEF StopTerm
  <2>32. ASSUME NEW p \in Procs, StopWait(p) PROVE SingleRules'
    BY <2>32 DEF StopWait
  <2>33. ASSUME NEW p \in Procs, RestartUm(p) PROVE SingleRules'
    BY <2>33 DEF RestartUm
  <2>34. ASSUME NEW p \in Procs, SaveIni(p) PROVE SingleRules'
    BY <2>34 DEF SaveIni
  <2>35. ASSUME NEW p \in Procs, Crash(p) PROVE SingleRules'
    BY <2>35 DEF Crash
  <2>36. CASE TermStarts
    BY <2>36 DEF TermStarts
  <2>37. CASE TermStops
    BY <2>37 DEF TermStops, TermGone, HostEnds
  <2>38. CASE TermFails
    BY <2>38 DEF TermFails, TermGone, HostEnds
  <2>39. CASE Reboot
    BY <2>39 DEF Reboot, HostEnds
  <2>40. CASE UNCHANGED vars
    BY <2>40 DEF vars
  <2>41. QED
    BY <2>1, <2>2, <2>3, <2>4, <2>5, <2>6, <2>7, <2>8, <2>9, <2>10, <2>11,
       <2>12, <2>13, <2>14, <2>15, <2>16, <2>17, <2>18, <2>19, <2>20, <2>21,
       <2>22, <2>23, <2>24, <2>25, <2>26, <2>27, <2>28, <2>29, <2>30, <2>31,
       <2>32, <2>33, <2>34, <2>35, <2>36, <2>37, <2>38, <2>39, <2>40
       DEF Next, Step, Services, Install, Uninstall, Update, Manager, Finished
<1>3. QED
  BY <1>1, <1>2, Typing, CallsBelong, PTL DEF Spec

(* However often -i is cut off and run again, no firewall rule accumulates *)
(* copies, if netsh works and one operator at a time runs commands         *)
(* (RDPWInst.cpp:1023-1047).                                               *)
THEOREM RulesSingle ==
    ASSUME SoleOperator, "netsh" \notin Faults PROVE Spec => []NoDuplicateRules
<1>1. SingleRules => NoDuplicateRules
  BY DEF SingleRules
<1>2. QED
  BY <1>1, RulesCleared, PTL

(* Which process brings back what is stopped, if no call has failed.       *)
BeforeKill == InstallSteps \cup {"resetDll", "kill"}
AfterKill  == {"deleteIni", "deleteDll", "shared"}
Restarting == AfterKill \cup {"stopWait", "saveIni", "start"}

TermOwed ==
    /\ term = "stopping" => \E p \in Procs : pc[p] = "stopWait"
    /\ term = "stopped" => \E p \in Procs : pc[p] \in Restarting

SharedOwed ==
    /\ \A s \in Shared \ shared : \E p \in Procs :
          pc[p] \in AfterKill /\ phase[p] # "update" /\ s \in todo[p]
    /\ \A p \in Procs : pc[p] \in BeforeKill => todo[p] = Shared

TermBack   == faults = 0 => TermOwed
SharedBack == faults = 0 => SharedOwed

(* TermService stops, or is stopped, only on behalf of a process that      *)
(* comes to its start.                                                     *)
LEMMA TermReturned == ASSUME SoleOperator PROVE Spec => []TermBack
<1>1. Init => TermBack
  BY DEF Init, CleanMachine, InstalledMachine, TermBack, TermOwed, Procs
<1>2. Types /\ Safe /\ Calls /\ TermBack /\ [Next]_vars => TermBack'
  <2> SUFFICES ASSUME Types, Safe, Calls, TermBack, [Next]_vars PROVE TermBack'
    OBVIOUS
  <2> USE SoleOperator, BoundsAssumption, ProcsAssumption
          DEF Works, Fails, Goto, Exit, Halt, TryBlock, NotOkay, registryVars,
              fileVars, scmVars, localVars, TermBack, TermOwed, Restarting,
              AfterKill, Safe, WrapperResolvable, Calls, Types, ProcessesOK,
              PhaseInv, Procs, Resting, Removing, InstallSteps
  <2>1. ASSUME NEW p \in Procs, Begin(p) PROVE TermBack'
    BY <2>1 DEF Begin, Commands, FirstStep
  <2>2. ASSUME NEW p \in Procs, Capture(p) PROVE TermBack'
    BY <2>2 DEF Capture, AfterCheck
  <2>3. ASSUME NEW p \in Procs, CheckStopped(p) PROVE TermBack'
    BY <2>3 DEF CheckStopped
  <2>4. ASSUME NEW p \in Procs, StartTerm(p) PROVE TermBack'
    BY <2>4 DEF StartTerm, Started
  <2>5. ASSUME NEW p \in Procs, WaitTerm(p) PROVE TermBack'
    BY <2>5 DEF WaitTerm, Started
  <2>6. ASSUME NEW p \in Procs, KillProcess(p) PROVE TermBack'
    BY <2>6 DEF KillProcess
  <2>7. ASSUME NEW p \in Procs, StartShared(p) PROVE TermBack'
    BY <2>7 DEF StartShared, AfterShared
  <2>8. ASSUME NEW p \in Procs, Settle(p) PROVE TermBack'
    BY <2>8 DEF Settle
  <2>9. ASSUME NEW p \in Procs, MakeDir(p) PROVE TermBack'
    BY <2>9 DEF MakeDir
  <2>10. ASSUME NEW p \in Procs, ExtractIni(p) PROVE TermBack'
    BY <2>10 DEF ExtractIni
  <2>11. ASSUME NEW p \in Procs, FillIni(p) PROVE TermBack'
    BY <2>11 DEF FillIni
  <2>12. ASSUME NEW p \in Procs, ExtractDll(p) PROVE TermBack'
    BY <2>12 DEF ExtractDll
  <2>13. ASSUME NEW p \in Procs, FillDll(p) PROVE TermBack'
    BY <2>13 DEF FillDll
  <2>14. ASSUME NEW p \in Procs, SetWrapperDll(p) PROVE TermBack'
    BY <2>14 DEF SetWrapperDll
  <2>15. ASSUME NEW p \in Procs, RestoreServiceDll(p) PROVE TermBack'
    BY <2>15 DEF RestoreServiceDll
  <2>16. ASSUME NEW p \in Procs, ConfigureRegistry(p) PROVE TermBack'
    BY <2>16 DEF ConfigureRegistry
  <2>17. ASSUME NEW p \in Procs, ClearFirewall(p) PROVE TermBack'
    BY <2>17 DEF ClearFirewall
  <2>18. ASSUME NEW p \in Procs, AddRules(p) PROVE TermBack'
    BY <2>18 DEF AddRules, AddRule
  <2>19. ASSUME NEW p \in Procs, UndoFirewall(p) PROVE TermBack'
    BY <2>19 DEF UndoFirewall
  <2>20. ASSUME NEW p \in Procs, CopyUpdater(p) PROVE TermBack'
    BY <2>20 DEF CopyUpdater
  <2>21. ASSUME NEW p \in Procs, ScheduleUpdater(p) PROVE TermBack'
    BY <2>21 DEF ScheduleUpdater
  <2>22. ASSUME NEW p \in Procs, ResetServiceDll(p) PROVE TermBack'
    BY <2>22 DEF ResetServiceDll
  <2>23. ASSUME NEW p \in Procs, DeleteIni(p) PROVE TermBack'
    BY <2>23 DEF DeleteIni
  <2>24. ASSUME NEW p \in Procs, DeleteDll(p) PROVE TermBack'
    BY <2>24 DEF DeleteDll
  <2>25. ASSUME NEW p \in Procs, Verdict(p) PROVE TermBack'
    BY <2>25 DEF Verdict
  <2>26. ASSUME NEW p \in Procs, RemoveTask(p) PROVE TermBack'
    BY <2>26 DEF RemoveTask
  <2>27. ASSUME NEW p \in Procs, RemoveExe(p) PROVE TermBack'
    BY <2>27 DEF RemoveExe
  <2>28. ASSUME NEW p \in Procs, ReadDate(p) PROVE TermBack'
    BY <2>28 DEF ReadDate
  <2>29. ASSUME NEW p \in Procs, Download(p) PROVE TermBack'
    BY <2>29 DEF Download
  <2>30. ASSUME NEW p \in Procs, StopUm(p) PROVE TermBack'
    BY <2>30 DEF StopUm
  <2>31. ASSUME NEW p \in Procs, StopTerm(p) PROVE TermBack'
    BY <2>31 DEF StopTerm
  <2>32. ASSUME NEW p \in Procs, StopWait(p) PROVE TermBack'
    BY <2>32 DEF StopWait
  <2>33. ASSUME NEW p \in Procs, RestartUm(p) PROVE TermBack'
    BY <2>33 DEF RestartUm
  <2>34. ASSUME NEW p \in Procs, SaveIni(p) PROVE TermBack'
    BY <2>34 DEF SaveIni
  <2>35. ASSUME NEW p \in Procs, Crash(p) PROVE TermBack'
    BY <2>35 DEF Crash
  <2>36. CASE TermStarts
    BY <2>36 DEF TermStarts
  <2>37. CASE TermStops
    BY <2>37 DEF TermStops, TermGone, HostEnds
  <2>38. CASE TermFails
    BY <2>38 DEF TermFails, TermGone, HostEnds
  <2>39. CASE Reboot
    BY <2>39 DEF Reboot, HostEnds
  <2>40. CASE UNCHANGED vars
    BY <2>40 DEF vars
  <2>41. QED
    BY <2>1, <2>2, <2>3, <2>4, <2>5, <2>6, <2>7, <2>8, <2>9, <2>10, <2>11,
       <2>12, <2>13, <2>14, <2>15, <2>16, <2>17, <2>18, <2>19, <2>20, <2>21,
       <2>22, <2>23, <2>24, <2>25, <2>26, <2>27, <2>28, <2>29, <2>30, <2>31,
       <2>32, <2>33, <2>34, <2>35, <2>36, <2>37, <2>38, <2>39, <2>40
       DEF Next, Step, Services, Install, Uninstall, Update, Manager, Finished
<1>3. QED
  BY <1>1, <1>2, Typing, Order, CallsBelong, PTL DEF Spec

(* What the process of TermService hosted is captured whole, and started   *)
(* again after the end of the process.                                     *)
LEMMA SharedReturned == ASSUME SoleOperator PROVE Spec => []SharedBack
<1>1. Init => SharedBack
  BY DEF Init, CleanMachine, InstalledMachine, SharedBack, SharedOwed, BeforeKill,
         AfterKill, InstallSteps, Procs
<1>2. Types /\ Calls /\ SharedBack /\ [Next]_vars => SharedBack'
  <2> SUFFICES ASSUME Types, Calls, SharedBack, [Next]_vars PROVE SharedBack'
    OBVIOUS
  <2> USE SoleOperator, BoundsAssumption, ProcsAssumption
          DEF Works, Fails, Goto, Exit, Halt, TryBlock, NotOkay, registryVars,
              fileVars, scmVars, localVars, SoleOperator, SharedBack,
              SharedOwed, BeforeKill, AfterKill, Calls, ManagerOK, Types,
              ProcessesOK, PhaseInv, Procs, Resting, Removing, InstallSteps
  <2>1. ASSUME NEW p \in Procs, Begin(p) PROVE SharedBack'
    BY <2>1 DEF Begin, Commands, FirstStep
  <2>2. ASSUME NEW p \in Procs, Capture(p) PROVE SharedBack'
    <3>1. \A q \in Procs : pc[q] \in AfterKill /\ phase[q] # "update" => q # p
      BY <2>2 DEF Capture
    <3>2. CASE phase[p] = "update"
      BY <2>2, <3>1, <3>2 DEF Capture, AfterCheck
    <3>3. CASE phase[p] # "update" /\ faults = 0
      <4>1. p \in Operators
        BY <2>2, <3>3 DEF Capture
      <4>2. \A q \in Procs : ~(pc[q] \in AfterKill /\ phase[q] # "update")
        <5>1. ASSUME NEW q \in Procs, pc[q] \in AfterKill, phase[q] # "update"
              PROVE  FALSE
          <6>1. q \in Operators
            BY <5>1
          <6>2. q = p
            BY <6>1, <4>1
          <6>3. QED
            BY <6>2, <5>1, <3>1
        <5>2. QED
          BY <5>1
      <4>3. shared = Shared
        <5>1. Shared \ shared = {}
          BY <4>2, <3>3
        <5>2. shared \subseteq Shared
          BY DEF Types, ManagerOK
        <5>3. QED
          BY <5>1, <5>2
      <4>4. QED
        BY <2>2, <4>3, <3>3 DEF Capture, AfterCheck
    <3>4. CASE faults # 0
      BY <2>2, <3>4 DEF Capture
    <3>5. QED
      BY <3>2, <3>3, <3>4
  <2>3. ASSUME NEW p \in Procs, CheckStopped(p) PROVE SharedBack'
    BY <2>3 DEF CheckStopped
  <2>4. ASSUME NEW p \in Procs, StartTerm(p) PROVE SharedBack'
    BY <2>4 DEF StartTerm, Started
  <2>5. ASSUME NEW p \in Procs, WaitTerm(p) PROVE SharedBack'
    BY <2>5 DEF WaitTerm, Started
  <2>6. ASSUME NEW p \in Procs, KillProcess(p) PROVE SharedBack'
    BY <2>6 DEF KillProcess
  <2>7. ASSUME NEW p \in Procs, StartShared(p) PROVE SharedBack'
    BY <2>7 DEF StartShared, AfterShared
  <2>8. ASSUME NEW p \in Procs, Settle(p) PROVE SharedBack'
    BY <2>8 DEF Settle
  <2>9. ASSUME NEW p \in Procs, MakeDir(p) PROVE SharedBack'
    BY <2>9 DEF MakeDir
  <2>10. ASSUME NEW p \in Procs, ExtractIni(p) PROVE SharedBack'
    BY <2>10 DEF ExtractIni
  <2>11. ASSUME NEW p \in Procs, FillIni(p) PROVE SharedBack'
    BY <2>11 DEF FillIni
  <2>12. ASSUME NEW p \in Procs, ExtractDll(p) PROVE SharedBack'
    BY <2>12 DEF ExtractDll
  <2>13. ASSUME NEW p \in Procs, FillDll(p) PROVE SharedBack'
    BY <2>13 DEF FillDll
  <2>14. ASSUME NEW p \in Procs, SetWrapperDll(p) PROVE SharedBack'
    BY <2>14 DEF SetWrapperDll
  <2>15. ASSUME NEW p \in Procs, RestoreServiceDll(p) PROVE SharedBack'
    BY <2>15 DEF RestoreServiceDll
  <2>16. ASSUME NEW p \in Procs, ConfigureRegistry(p) PROVE SharedBack'
    BY <2>16 DEF ConfigureRegistry
  <2>17. ASSUME NEW p \in Procs, ClearFirewall(p) PROVE SharedBack'
    BY <2>17 DEF ClearFirewall
  <2>18. ASSUME NEW p \in Procs, AddRules(p) PROVE SharedBack'
    BY <2>18 DEF AddRules, AddRule
  <2>19. ASSUME NEW p \in Procs, UndoFirewall(p) PROVE SharedBack'
    BY <2>19 DEF UndoFirewall
  <2>20. ASSUME NEW p \in Procs, CopyUpdater(p) PROVE SharedBack'
    BY <2>20 DEF CopyUpdater
  <2>21. ASSUME NEW p \in Procs, ScheduleUpdater(p) PROVE SharedBack'
    BY <2>21 DEF ScheduleUpdater
  <2>22. ASSUME NEW p \in Procs, ResetServiceDll(p) PROVE SharedBack'
    BY <2>22 DEF ResetServiceDll
  <2>23. ASSUME NEW p \in Procs, DeleteIni(p) PROVE SharedBack'
    BY <2>23 DEF DeleteIni
  <2>24. ASSUME NEW p \in Procs, DeleteDll(p) PROVE SharedBack'
    BY <2>24 DEF DeleteDll
  <2>25. ASSUME NEW p \in Procs, Verdict(p) PROVE SharedBack'
    BY <2>25 DEF Verdict
  <2>26. ASSUME NEW p \in Procs, RemoveTask(p) PROVE SharedBack'
    BY <2>26 DEF RemoveTask
  <2>27. ASSUME NEW p \in Procs, RemoveExe(p) PROVE SharedBack'
    BY <2>27 DEF RemoveExe
  <2>28. ASSUME NEW p \in Procs, ReadDate(p) PROVE SharedBack'
    BY <2>28 DEF ReadDate
  <2>29. ASSUME NEW p \in Procs, Download(p) PROVE SharedBack'
    BY <2>29 DEF Download
  <2>30. ASSUME NEW p \in Procs, StopUm(p) PROVE SharedBack'
    BY <2>30 DEF StopUm
  <2>31. ASSUME NEW p \in Procs, StopTerm(p) PROVE SharedBack'
    BY <2>31 DEF StopTerm
  <2>32. ASSUME NEW p \in Procs, StopWait(p) PROVE SharedBack'
    BY <2>32 DEF StopWait
  <2>33. ASSUME NEW p \in Procs, RestartUm(p) PROVE SharedBack'
    BY <2>33 DEF RestartUm
  <2>34. ASSUME NEW p \in Procs, SaveIni(p) PROVE SharedBack'
    BY <2>34 DEF SaveIni
  <2>35. ASSUME NEW p \in Procs, Crash(p) PROVE SharedBack'
    BY <2>35 DEF Crash
  <2>36. CASE TermStarts
    BY <2>36 DEF TermStarts
  <2>37. CASE TermStops
    BY <2>37 DEF TermStops, TermGone, HostEnds
  <2>38. CASE TermFails
    BY <2>38 DEF TermFails, TermGone, HostEnds
  <2>39. CASE Reboot
    BY <2>39 DEF Reboot, HostEnds
  <2>40. CASE UNCHANGED vars
    BY <2>40 DEF vars
  <2>41. QED
    BY <2>1, <2>2, <2>3, <2>4, <2>5, <2>6, <2>7, <2>8, <2>9, <2>10, <2>11,
       <2>12, <2>13, <2>14, <2>15, <2>16, <2>17, <2>18, <2>19, <2>20, <2>21,
       <2>22, <2>23, <2>24, <2>25, <2>26, <2>27, <2>28, <2>29, <2>30, <2>31,
       <2>32, <2>33, <2>34, <2>35, <2>36, <2>37, <2>38, <2>39, <2>40
       DEF Next, Step, Services, Install, Uninstall, Update, Manager, Finished
<1>3. QED
  BY <1>1, <1>2, Typing, CallsBelong, PTL DEF Spec

(* When every command has ended and no call failed, TermService and the    *)
(* services that shared its process run again, for any number of updaters  *)
(* beside one operator (RDPWInst.cpp:1118-1157, 1630-1644).                *)
THEOREM ServicesBack == ASSUME SoleOperator PROVE Spec => []ServicesRestored
<1>1. Types /\ TermBack /\ SharedBack => ServicesRestored
  BY DEF Types, ManagerOK, TermBack, TermOwed, Restarting, SharedBack, SharedOwed,
         AfterKill, ServicesRestored, AllResting, Resting
<1>2. QED
  BY <1>1, Typing, TermReturned, SharedReturned, PTL

(* No process ever has more commands left than it was given.               *)
Budgeted == \A p \in Procs : left[p] <= Budget(p)

LEMMA BudgetKept == Spec => []Budgeted
<1>1. Init => Budgeted
  BY BoundsAssumption DEF Init, Budgeted, Budget
<1>2. Types /\ Budgeted /\ [Next]_vars => Budgeted'
  <2> SUFFICES ASSUME Types, Budgeted, [Next]_vars PROVE Budgeted'
    OBVIOUS
  <2> USE BoundsAssumption DEF Budgeted, Budget
  <2>1. ASSUME NEW p \in Procs, Begin(p) PROVE Budgeted'
    BY <2>1 DEF Begin, Types, ProcessesOK
  <2>2. CASE UNCHANGED left
    BY <2>2
  <2>3. ASSUME NEW p \in Procs, Step(p) \/ Crash(p) PROVE UNCHANGED left
    <3> USE DEF localVars
    <3>1. CASE Services(p)
      BY <3>1 DEF Services, Capture, CheckStopped, StartTerm, WaitTerm, KillProcess,
                  StartShared, Settle
    <3>2. CASE Install(p)
      BY <3>2 DEF Install, MakeDir, ExtractIni, FillIni, ExtractDll, FillDll,
                  SetWrapperDll, RestoreServiceDll, ConfigureRegistry, ClearFirewall,
                  AddRules, AddRule, UndoFirewall, CopyUpdater, ScheduleUpdater
    <3>3. CASE Uninstall(p)
      BY <3>3 DEF Uninstall, ResetServiceDll, DeleteIni, DeleteDll, Verdict, RemoveTask,
                  RemoveExe
    <3>4. CASE Update(p)
      BY <3>4 DEF Update, ReadDate, Download, StopUm, StopTerm, StopWait, RestartUm,
                  SaveIni
    <3>5. CASE Crash(p)
      BY <3>5 DEF Crash
    <3>6. QED
      BY <2>3, <3>1, <3>2, <3>3, <3>4, <3>5 DEF Step
  <2>4. CASE Manager \/ Reboot \/ UNCHANGED vars
    BY <2>4 DEF Manager, TermStarts, TermStops, TermFails, TermGone, Reboot, vars,
                localVars
  <2>5. QED
    BY <2>1, <2>2, <2>3, <2>4 DEF Next, Finished
<1>3. QED
  BY <1>1, <1>2, Typing, PTL DEF Spec

(* A -w beside which nothing else has begun and no call has failed.        *)
Alone(p) == faults = 0 /\ \A q \in Procs \ {p} : left[q] = Budget(q)

Straight == {"idle", "readDate", "download", "check", "stopUm", "stopTerm",
             "stopWait", "shared", "saveIni", "start", "wait", "settle", "done"}

Undisturbed(p) ==
    /\ \A q \in Procs \ {p} : pc[q] = "idle"
    /\ pc[p] \in Straight
    /\ IF pc[p] = "idle" THEN left[p] = 1 ELSE left[p] = 0 /\ phase[p] = "update"
    /\ pc[p] \notin Resting => serviceDll = wrap[p]
    /\ WrapperResolvable

Activates(p) ==
    /\ pc[p] \in {"idle", "readDate", "download", "check", "stopUm", "stopTerm"} =>
          term = "running"
    /\ pc[p] = "stopTerm" => um = FALSE
    /\ pc[p] = "stopWait" => term \in {"stopping", "stopped"}
    /\ pc[p] \in {"shared", "saveIni", "start"} => term = "stopped"
    /\ pc[p] = "wait" => term \in {"starting", "running"}
    /\ pc[p] \in {"start", "wait"} /\ p \in okay => ini[wrap[p]] = date[p]
    /\ pc[p] = "wait" /\ p \in okay /\ term = "running" => loadedIni = date[p]
    /\ (pc[p] = "settle" /\ p \in okay) \/ (pc[p] = "done" /\ result[p] = "ok") =>
          term = "running" /\ loadedIni = date[p]

Activating == \A p \in Updaters : Alone(p) => Undisturbed(p) /\ Activates(p)

LEMMA UpdateAlone == Spec => []Activating
<1>1. Init => Activating
  BY ProcsAssumption, LocsAssumption
     DEF Init, CleanMachine, InstalledMachine, Activating, Alone, Undisturbed,
         Activates, Straight, WrapperResolvable, Installed, Usable, Budget,
         Resting, Procs, Dates
<1>2. Types /\ Budgeted /\ Activating /\ [Next]_vars => Activating'
  <2> SUFFICES ASSUME Types, Budgeted, Activating, [Next]_vars PROVE Activating'
    OBVIOUS
  <2> USE LocsAssumption, BoundsAssumption, ProcsAssumption
          DEF Works, Fails, Goto, Exit, Halt, TryBlock, NotOkay, registryVars,
              fileVars, scmVars, localVars, Activating, Alone, Undisturbed,
              Activates, Straight, WrapperResolvable, Installed, Usable,
              Budgeted, Budget, Dates, FilesOK, Types, ProcessesOK, PhaseInv,
              Procs, Resting, Removing, InstallSteps
  <2>1. ASSUME NEW p \in Procs, Begin(p) PROVE Activating'
    BY <2>1 DEF Begin, Commands, FirstStep
  <2>2. ASSUME NEW p \in Procs, Capture(p) PROVE Activating'
    BY <2>2 DEF Capture, AfterCheck
  <2>3. ASSUME NEW p \in Procs, CheckStopped(p) PROVE Activating'
    BY <2>3 DEF CheckStopped
  <2>4. ASSUME NEW p \in Procs, StartTerm(p) PROVE Activating'
    BY <2>4 DEF StartTerm, Started
  <2>5. ASSUME NEW p \in Procs, WaitTerm(p) PROVE Activating'
    BY <2>5 DEF WaitTerm, Started
  <2>6. ASSUME NEW p \in Procs, KillProcess(p) PROVE Activating'
    BY <2>6 DEF KillProcess
  <2>7. ASSUME NEW p \in Procs, StartShared(p) PROVE Activating'
    BY <2>7 DEF StartShared, AfterShared
  <2>8. ASSUME NEW p \in Procs, Settle(p) PROVE Activating'
    BY <2>8 DEF Settle
  <2>9. ASSUME NEW p \in Procs, MakeDir(p) PROVE Activating'
    BY <2>9 DEF MakeDir
  <2>10. ASSUME NEW p \in Procs, ExtractIni(p) PROVE Activating'
    BY <2>10 DEF ExtractIni
  <2>11. ASSUME NEW p \in Procs, FillIni(p) PROVE Activating'
    BY <2>11 DEF FillIni
  <2>12. ASSUME NEW p \in Procs, ExtractDll(p) PROVE Activating'
    BY <2>12 DEF ExtractDll
  <2>13. ASSUME NEW p \in Procs, FillDll(p) PROVE Activating'
    BY <2>13 DEF FillDll
  <2>14. ASSUME NEW p \in Procs, SetWrapperDll(p) PROVE Activating'
    BY <2>14 DEF SetWrapperDll
  <2>15. ASSUME NEW p \in Procs, RestoreServiceDll(p) PROVE Activating'
    BY <2>15 DEF RestoreServiceDll
  <2>16. ASSUME NEW p \in Procs, ConfigureRegistry(p) PROVE Activating'
    BY <2>16 DEF ConfigureRegistry
  <2>17. ASSUME NEW p \in Procs, ClearFirewall(p) PROVE Activating'
    BY <2>17 DEF ClearFirewall
  <2>18. ASSUME NEW p \in Procs, AddRules(p) PROVE Activating'
    BY <2>18 DEF AddRules, AddRule
  <2>19. ASSUME NEW p \in Procs, UndoFirewall(p) PROVE Activating'
    BY <2>19 DEF UndoFirewall
  <2>20. ASSUME NEW p \in Procs, CopyUpdater(p) PROVE Activating'
    BY <2>20 DEF CopyUpdater
  <2>21. ASSUME NEW p \in Procs, ScheduleUpdater(p) PROVE Activating'
    BY <2>21 DEF ScheduleUpdater
  <2>22. ASSUME NEW p \in Procs, ResetServiceDll(p) PROVE Activating'
    BY <2>22 DEF ResetServiceDll
  <2>23. ASSUME NEW p \in Procs, DeleteIni(p) PROVE Activating'
    BY <2>23 DEF DeleteIni
  <2>24. ASSUME NEW p \in Procs, DeleteDll(p) PROVE Activating'
    BY <2>24 DEF DeleteDll
  <2>25. ASSUME NEW p \in Procs, Verdict(p) PROVE Activating'
    BY <2>25 DEF Verdict
  <2>26. ASSUME NEW p \in Procs, RemoveTask(p) PROVE Activating'
    BY <2>26 DEF RemoveTask
  <2>27. ASSUME NEW p \in Procs, RemoveExe(p) PROVE Activating'
    BY <2>27 DEF RemoveExe
  <2>28. ASSUME NEW p \in Procs, ReadDate(p) PROVE Activating'
    BY <2>28 DEF ReadDate
  <2>29. ASSUME NEW p \in Procs, Download(p) PROVE Activating'
    BY <2>29 DEF Download
  <2>30. ASSUME NEW p \in Procs, StopUm(p) PROVE Activating'
    BY <2>30 DEF StopUm
  <2>31. ASSUME NEW p \in Procs, StopTerm(p) PROVE Activating'
    BY <2>31 DEF StopTerm
  <2>32. ASSUME NEW p \in Procs, StopWait(p) PROVE Activating'
    BY <2>32 DEF StopWait
  <2>33. ASSUME NEW p \in Procs, RestartUm(p) PROVE Activating'
    BY <2>33 DEF RestartUm
  <2>34. ASSUME NEW p \in Procs, SaveIni(p) PROVE Activating'
    <3> SUFFICES ASSUME NEW u \in Updaters, Alone(u)'
                 PROVE  Undisturbed(u)' /\ Activates(u)'
      BY DEF Activating
    <3>1. /\ Alone(u) /\ Undisturbed(u) /\ Activates(u)
          /\ u = p /\ pc[p] = "saveIni"
      BY <2>34 DEF SaveIni
    <3>2. wrap[p] \in Locs /\ date[p] \in Dates /\ serviceDll = wrap[p]
      BY <3>1
    <3>3. Undisturbed(p)'
      BY <2>34, <3>1, <3>2 DEF SaveIni
    <3>4. Activates(p)'
      BY <2>34, <3>1, <3>2 DEF SaveIni
    <3>5. QED
      BY <3>1, <3>3, <3>4
  <2>35. ASSUME NEW p \in Procs, Crash(p) PROVE Activating'
    BY <2>35 DEF Crash
  <2>36. CASE TermStarts
    BY <2>36 DEF TermStarts
  <2>37. CASE TermStops
    BY <2>37 DEF TermStops, TermGone, HostEnds
  <2>38. CASE TermFails
    BY <2>38 DEF TermFails, TermGone, HostEnds
  <2>39. CASE Reboot
    BY <2>39 DEF Reboot, HostEnds
  <2>40. CASE UNCHANGED vars
    BY <2>40 DEF vars
  <2>41. QED
    BY <2>1, <2>2, <2>3, <2>4, <2>5, <2>6, <2>7, <2>8, <2>9, <2>10, <2>11,
       <2>12, <2>13, <2>14, <2>15, <2>16, <2>17, <2>18, <2>19, <2>20, <2>21,
       <2>22, <2>23, <2>24, <2>25, <2>26, <2>27, <2>28, <2>29, <2>30, <2>31,
       <2>32, <2>33, <2>34, <2>35, <2>36, <2>37, <2>38, <2>39, <2>40
       DEF Next, Step, Services, Install, Uninstall, Update, Manager, Finished
<1>3. QED
  BY <1>1, <1>2, Typing, BudgetKept, PTL DEF Spec

(* "[+] Update completed." of a -w beside which nothing else ran and no    *)
(* call failed: TermService runs with the INI that was downloaded          *)
(* (RDPWInst.cpp:1091-1142).                                               *)
THEOREM UpdateTakesEffect == Spec => []UpdateActivates
<1>1. Activating => UpdateActivates
  BY DEF Activating, Alone, Activates, UpdateActivates, Ended
<1>2. QED
  BY <1>1, UpdateAlone, PTL

Succeeded(p) == pc[p] = "done" /\ result[p] = "ok"

(* What a command of -i has put in place by the time it makes each call.   *)
Registered == {"kill", "shared", "start", "wait", "settle", "registry", "fwClear",
               "fwTcp", "fwUdp", "fwUndo", "deploy", "schedule"}
Allowed    == {"fwClear", "fwTcp", "fwUdp", "fwUndo", "deploy", "schedule"}

Placed(p) ==
    /\ wrap[p] \in Locs
    /\ pc[p] \in Registered \/ Succeeded(p) => serviceDll = wrap[p]
    /\ pc[p] \in Allowed \/ Succeeded(p) => denyTS = FALSE
    /\ pc[p] \in {"fwUdp", "deploy", "schedule"} \/ Succeeded(p) => rules["tcp"] > 0
    /\ pc[p] \in {"deploy", "schedule"} \/ Succeeded(p) => rules["udp"] > 0
    /\ pc[p] = "schedule" \/ Succeeded(p) => updExe = TRUE
    /\ pc[p] \notin Resting /\ p \in self => updExe = TRUE
    /\ Succeeded(p) => updTask = TRUE

Installing == \A p \in Operators : phase[p] = "install" => Placed(p)

LEMMA InstallStages ==
    ASSUME SoleOperator, "reboot" \notin Faults
    PROVE  Spec => []Installing
<1>1. Init => Installing
  BY DEF Init, CleanMachine, InstalledMachine, Installing, Placed, Registered,
         Allowed, Succeeded, Procs
<1>2. Types /\ FlagsOK /\ Calls /\ Installing /\ [Next]_vars => Installing'
  <2> SUFFICES ASSUME Types, FlagsOK, Calls, Installing, [Next]_vars
               PROVE  Installing'
    OBVIOUS
  <2> USE SoleOperator, "reboot" \notin Faults, ProcsAssumption
          DEF Works, Fails, Goto, Exit, Halt, TryBlock, NotOkay, registryVars,
              fileVars, scmVars, localVars, SoleOperator, Installing, Placed,
              Registered, Allowed, Succeeded, Calls, FlagsOK, FilesOK, Rules,
              Types, ProcessesOK, PhaseInv, Procs, Resting, Removing,
              InstallSteps
  <2>1. ASSUME NEW p \in Procs, Begin(p) PROVE Installing'
    BY <2>1 DEF Begin, Commands, FirstStep
  <2>2. ASSUME NEW p \in Procs, Capture(p) PROVE Installing'
    BY <2>2 DEF Capture, AfterCheck
  <2>3. ASSUME NEW p \in Procs, CheckStopped(p) PROVE Installing'
    BY <2>3 DEF CheckStopped
  <2>4. ASSUME NEW p \in Procs, StartTerm(p) PROVE Installing'
    BY <2>4 DEF StartTerm, Started
  <2>5. ASSUME NEW p \in Procs, WaitTerm(p) PROVE Installing'
    BY <2>5 DEF WaitTerm, Started
  <2>6. ASSUME NEW p \in Procs, KillProcess(p) PROVE Installing'
    BY <2>6 DEF KillProcess
  <2>7. ASSUME NEW p \in Procs, StartShared(p) PROVE Installing'
    BY <2>7 DEF StartShared, AfterShared
  <2>8. ASSUME NEW p \in Procs, Settle(p) PROVE Installing'
    BY <2>8 DEF Settle
  <2>9. ASSUME NEW p \in Procs, MakeDir(p) PROVE Installing'
    BY <2>9 DEF MakeDir
  <2>10. ASSUME NEW p \in Procs, ExtractIni(p) PROVE Installing'
    BY <2>10 DEF ExtractIni
  <2>11. ASSUME NEW p \in Procs, FillIni(p) PROVE Installing'
    BY <2>11 DEF FillIni
  <2>12. ASSUME NEW p \in Procs, ExtractDll(p) PROVE Installing'
    BY <2>12 DEF ExtractDll
  <2>13. ASSUME NEW p \in Procs, FillDll(p) PROVE Installing'
    BY <2>13 DEF FillDll
  <2>14. ASSUME NEW p \in Procs, SetWrapperDll(p) PROVE Installing'
    BY <2>14 DEF SetWrapperDll
  <2>15. ASSUME NEW p \in Procs, RestoreServiceDll(p) PROVE Installing'
    BY <2>15 DEF RestoreServiceDll
  <2>16. ASSUME NEW p \in Procs, ConfigureRegistry(p) PROVE Installing'
    <3>1. pc'[p] = "fwClear" /\ phase[p] = "install" => denyTS' = FALSE
      <4>1. pc'[p] = "fwClear" => denyTS' = (phase[p] # "install")
        BY <2>16 DEF ConfigureRegistry
      <4>2. QED
        BY <4>1, Zenon
    <3>2. QED
      BY <2>16, <3>1 DEF ConfigureRegistry
  <2>17. ASSUME NEW p \in Procs, ClearFirewall(p) PROVE Installing'
    BY <2>17 DEF ClearFirewall
  <2>18. ASSUME NEW p \in Procs, AddRules(p) PROVE Installing'
    BY <2>18 DEF AddRules, AddRule
  <2>19. ASSUME NEW p \in Procs, UndoFirewall(p) PROVE Installing'
    BY <2>19 DEF UndoFirewall
  <2>20. ASSUME NEW p \in Procs, CopyUpdater(p) PROVE Installing'
    <3>1. pc'[p] = "schedule" => updExe' = TRUE
      <4>1. pc'[p] = "schedule" => updExe' = (updExe \/ p \notin self)
        BY <2>20 DEF CopyUpdater
      <4>2. p \in self => updExe = TRUE
        BY <2>20 DEF CopyUpdater
      <4>3. QED
        BY <4>1, <4>2, Zenon
    <3>2. updExe = TRUE => updExe' = TRUE
      BY <2>20, Zenon DEF CopyUpdater
    <3>3. QED
      BY <2>20, <3>1, <3>2 DEF CopyUpdater
  <2>21. ASSUME NEW p \in Procs, ScheduleUpdater(p) PROVE Installing'
    BY <2>21 DEF ScheduleUpdater
  <2>22. ASSUME NEW p \in Procs, ResetServiceDll(p) PROVE Installing'
    BY <2>22 DEF ResetServiceDll
  <2>23. ASSUME NEW p \in Procs, DeleteIni(p) PROVE Installing'
    BY <2>23 DEF DeleteIni
  <2>24. ASSUME NEW p \in Procs, DeleteDll(p) PROVE Installing'
    BY <2>24 DEF DeleteDll
  <2>25. ASSUME NEW p \in Procs, Verdict(p) PROVE Installing'
    BY <2>25 DEF Verdict
  <2>26. ASSUME NEW p \in Procs, RemoveTask(p) PROVE Installing'
    BY <2>26 DEF RemoveTask
  <2>27. ASSUME NEW p \in Procs, RemoveExe(p) PROVE Installing'
    BY <2>27 DEF RemoveExe
  <2>28. ASSUME NEW p \in Procs, ReadDate(p) PROVE Installing'
    BY <2>28 DEF ReadDate
  <2>29. ASSUME NEW p \in Procs, Download(p) PROVE Installing'
    BY <2>29 DEF Download
  <2>30. ASSUME NEW p \in Procs, StopUm(p) PROVE Installing'
    BY <2>30 DEF StopUm
  <2>31. ASSUME NEW p \in Procs, StopTerm(p) PROVE Installing'
    BY <2>31 DEF StopTerm
  <2>32. ASSUME NEW p \in Procs, StopWait(p) PROVE Installing'
    BY <2>32 DEF StopWait
  <2>33. ASSUME NEW p \in Procs, RestartUm(p) PROVE Installing'
    BY <2>33 DEF RestartUm
  <2>34. ASSUME NEW p \in Procs, SaveIni(p) PROVE Installing'
    BY <2>34 DEF SaveIni
  <2>35. ASSUME NEW p \in Procs, Crash(p) PROVE Installing'
    BY <2>35 DEF Crash
  <2>36. CASE TermStarts
    BY <2>36 DEF TermStarts
  <2>37. CASE TermStops
    BY <2>37 DEF TermStops, TermGone, HostEnds
  <2>38. CASE TermFails
    BY <2>38 DEF TermFails, TermGone, HostEnds
  <2>39. CASE Reboot
    BY <2>39 DEF Reboot, HostEnds
  <2>40. CASE UNCHANGED vars
    BY <2>40 DEF vars
  <2>41. QED
    BY <2>1, <2>2, <2>3, <2>4, <2>5, <2>6, <2>7, <2>8, <2>9, <2>10, <2>11,
       <2>12, <2>13, <2>14, <2>15, <2>16, <2>17, <2>18, <2>19, <2>20, <2>21,
       <2>22, <2>23, <2>24, <2>25, <2>26, <2>27, <2>28, <2>29, <2>30, <2>31,
       <2>32, <2>33, <2>34, <2>35, <2>36, <2>37, <2>38, <2>39, <2>40
       DEF Next, Step, Services, Install, Uninstall, Update, Manager, Finished
<1>3. QED
  BY <1>1, <1>2, Typing, Flags, CallsBelong, PTL DEF Spec

(* "[+] Successfully installed." of -i means that the wrapper is whole and *)
(* registered, connections are allowed, both rules exist, and the updater  *)
(* and its task are in place, with any number of updaters running beside   *)
(* it, until the machine restarts (which may carry out a removal queued by *)
(* an earlier -u) (RDPWInst.cpp:1561-1626).                                *)
THEOREM InstallsAll ==
    ASSUME SoleOperator, "reboot" \notin Faults PROVE Spec => []InstallComplete
<1>1. Types /\ Installing /\ WrapperResolvable => InstallComplete
  <2> SUFFICES ASSUME Types, Installing, WrapperResolvable,
                      NEW p \in Operators, Ended(p, {"install"}, {"ok"})
               PROVE  /\ serviceDll = wrap[p] /\ Usable(serviceDll)
                      /\ ~denyTS
                      /\ \A r \in Rules : rules[r] > 0
                      /\ updTask /\ updExe
    BY DEF InstallComplete
  <2>1. Placed(p) /\ Succeeded(p)
    BY DEF Installing, Ended, Succeeded
  <2>2. QED
    BY <2>1 DEF Placed, Rules, WrapperResolvable, Installed, Types, RegistryOK
<1>2. QED
  BY <1>1, Typing, InstallStages, Resolvable, PTL

(* A process that meets no failure gets from -i to its end; the rollback   *)
(* begins after a first failure, and only a second one defeats it.         *)
Smooth(p) ==
    /\ pc[p] \in InstallSteps \cup {"kill"} => p \in fresh
    /\ pc[p] \in {"shared", "start", "wait", "settle"} => p \in okay
    /\ pc[p] = "wait" => term \in {"starting", "running"}

Rolling == \A p \in Operators :
    /\ faults = 0 /\ phase[p] = "install" => Smooth(p)
    /\ pc[p] \in {"fwUndo", "restoreDll"} => faults > 0
    /\ pc[p] # "regAdd"
    /\ phase[p] = "install" /\ pc[p] = "done" /\ result[p] = "failed" =>
          serviceDll = Termsrv
    /\ phase[p] = "rollback" /\ pc[p] # "restoreDll" =>
          serviceDll = Termsrv \/ (faults > 1 /\ pc[p] = "done")

LEMMA RollbackStages ==
    ASSUME SoleOperator, Updaters = {}, ~NeedsRegAdd, "updater" \notin Faults
    PROVE  Spec => []Rolling
<1>1. Init => Rolling
  BY DEF Init, CleanMachine, InstalledMachine, Rolling, Smooth, InstallSteps, Procs
<1>2. Types /\ Safe /\ Calls /\ TermBack /\ Rolling /\ [Next]_vars => Rolling'
  <2> SUFFICES ASSUME Types, Safe, Calls, TermBack, Rolling, [Next]_vars
               PROVE  Rolling'
    OBVIOUS
  <2> USE SoleOperator, Updaters = {}, ~NeedsRegAdd, "updater" \notin Faults,
          BoundsAssumption
          DEF Works, Fails, Goto, Exit, Halt, TryBlock, NotOkay, registryVars,
              fileVars, scmVars, localVars, SoleOperator, AllCommands,
              Rolling, Smooth, Calls, Safe, OrderInv, Unregistered,
              WrapperResolvable, TermBack, TermOwed, Types, ProcessesOK,
              PhaseInv, Procs, Resting, Removing, InstallSteps
  <2>1. ASSUME NEW p \in Procs, Begin(p) PROVE Rolling'
    BY <2>1 DEF Begin, Commands, FirstStep
  <2>2. ASSUME NEW p \in Procs, Capture(p) PROVE Rolling'
    BY <2>2 DEF Capture, AfterCheck
  <2>3. ASSUME NEW p \in Procs, CheckStopped(p) PROVE Rolling'
    BY <2>3 DEF CheckStopped
  <2>4. ASSUME NEW p \in Procs, StartTerm(p) PROVE Rolling'
    BY <2>4 DEF StartTerm, Started
  <2>5. ASSUME NEW p \in Procs, WaitTerm(p) PROVE Rolling'
    BY <2>5 DEF WaitTerm, Started
  <2>6. ASSUME NEW p \in Procs, KillProcess(p) PROVE Rolling'
    BY <2>6 DEF KillProcess
  <2>7. ASSUME NEW p \in Procs, StartShared(p) PROVE Rolling'
    BY <2>7 DEF StartShared, AfterShared
  <2>8. ASSUME NEW p \in Procs, Settle(p) PROVE Rolling'
    BY <2>8 DEF Settle
  <2>9. ASSUME NEW p \in Procs, MakeDir(p) PROVE Rolling'
    BY <2>9 DEF MakeDir
  <2>10. ASSUME NEW p \in Procs, ExtractIni(p) PROVE Rolling'
    BY <2>10 DEF ExtractIni
  <2>11. ASSUME NEW p \in Procs, FillIni(p) PROVE Rolling'
    BY <2>11 DEF FillIni
  <2>12. ASSUME NEW p \in Procs, ExtractDll(p) PROVE Rolling'
    BY <2>12 DEF ExtractDll
  <2>13. ASSUME NEW p \in Procs, FillDll(p) PROVE Rolling'
    BY <2>13 DEF FillDll
  <2>14. ASSUME NEW p \in Procs, SetWrapperDll(p) PROVE Rolling'
    BY <2>14 DEF SetWrapperDll
  <2>15. ASSUME NEW p \in Procs, RestoreServiceDll(p) PROVE Rolling'
    BY <2>15 DEF RestoreServiceDll
  <2>16. ASSUME NEW p \in Procs, ConfigureRegistry(p) PROVE Rolling'
    BY <2>16 DEF ConfigureRegistry
  <2>17. ASSUME NEW p \in Procs, ClearFirewall(p) PROVE Rolling'
    BY <2>17 DEF ClearFirewall
  <2>18. ASSUME NEW p \in Procs, AddRules(p) PROVE Rolling'
    BY <2>18 DEF AddRules, AddRule
  <2>19. ASSUME NEW p \in Procs, UndoFirewall(p) PROVE Rolling'
    BY <2>19 DEF UndoFirewall
  <2>20. ASSUME NEW p \in Procs, CopyUpdater(p) PROVE Rolling'
    BY <2>20 DEF CopyUpdater
  <2>21. ASSUME NEW p \in Procs, ScheduleUpdater(p) PROVE Rolling'
    BY <2>21 DEF ScheduleUpdater
  <2>22. ASSUME NEW p \in Procs, ResetServiceDll(p) PROVE Rolling'
    BY <2>22 DEF ResetServiceDll
  <2>23. ASSUME NEW p \in Procs, DeleteIni(p) PROVE Rolling'
    BY <2>23 DEF DeleteIni
  <2>24. ASSUME NEW p \in Procs, DeleteDll(p) PROVE Rolling'
    BY <2>24 DEF DeleteDll
  <2>25. ASSUME NEW p \in Procs, Verdict(p) PROVE Rolling'
    BY <2>25 DEF Verdict
  <2>26. ASSUME NEW p \in Procs, RemoveTask(p) PROVE Rolling'
    BY <2>26 DEF RemoveTask
  <2>27. ASSUME NEW p \in Procs, RemoveExe(p) PROVE Rolling'
    BY <2>27 DEF RemoveExe
  <2>28. ASSUME NEW p \in Procs, ReadDate(p) PROVE Rolling'
    BY <2>28 DEF ReadDate
  <2>29. ASSUME NEW p \in Procs, Download(p) PROVE Rolling'
    BY <2>29 DEF Download
  <2>30. ASSUME NEW p \in Procs, StopUm(p) PROVE Rolling'
    BY <2>30 DEF StopUm
  <2>31. ASSUME NEW p \in Procs, StopTerm(p) PROVE Rolling'
    BY <2>31 DEF StopTerm
  <2>32. ASSUME NEW p \in Procs, StopWait(p) PROVE Rolling'
    BY <2>32 DEF StopWait
  <2>33. ASSUME NEW p \in Procs, RestartUm(p) PROVE Rolling'
    BY <2>33 DEF RestartUm
  <2>34. ASSUME NEW p \in Procs, SaveIni(p) PROVE Rolling'
    BY <2>34 DEF SaveIni
  <2>35. ASSUME NEW p \in Procs, Crash(p) PROVE Rolling'
    BY <2>35 DEF Crash
  <2>36. CASE TermStarts
    BY <2>36 DEF TermStarts
  <2>37. CASE TermStops
    BY <2>37 DEF TermStops, TermGone, HostEnds
  <2>38. CASE TermFails
    BY <2>38 DEF TermFails, TermGone, HostEnds
  <2>39. CASE Reboot
    BY <2>39 DEF Reboot, HostEnds
  <2>40. CASE UNCHANGED vars
    BY <2>40 DEF vars
  <2>41. QED
    BY <2>1, <2>2, <2>3, <2>4, <2>5, <2>6, <2>7, <2>8, <2>9, <2>10, <2>11,
       <2>12, <2>13, <2>14, <2>15, <2>16, <2>17, <2>18, <2>19, <2>20, <2>21,
       <2>22, <2>23, <2>24, <2>25, <2>26, <2>27, <2>28, <2>29, <2>30, <2>31,
       <2>32, <2>33, <2>34, <2>35, <2>36, <2>37, <2>38, <2>39, <2>40
       DEF Next, Step, Services, Install, Uninstall, Update, Manager, Finished
<1>3. QED
  BY <1>1, <1>2, Typing, Order, CallsBelong, TermReturned, PTL DEF Spec

(* An -i that failed leaves the original ServiceDll unless two calls       *)
(* failed, the second one that of the rollback, if no updater stops the    *)
(* service beside it, reg.exe is not needed and the updater is deployed    *)
(* (RDPWInst.cpp:1592-1620).                                               *)
THEOREM RollsBack ==
    ASSUME SoleOperator, Updaters = {}, ~NeedsRegAdd, "updater" \notin Faults
    PROVE  Spec => []RollbackRestores
<1>1. Rolling /\ Types => RollbackRestores
  BY DEF Rolling, RollbackRestores, Ended, Types, ProcessesOK
<1>2. QED
  BY <1>1, Typing, RollbackStages, PTL

(* What -u has undone by the time it makes each call.                      *)
AfterFiles == {"shared", "start", "wait", "settle", "registry", "fwClear", "verdict"}
Clearing   == {"removeTask", "removeExe"}

Removed(p) ==
    /\ pc[p] \in {"kill", "deleteIni", "deleteDll"} \cup AfterFiles \cup Clearing
          \/ Succeeded(p) => serviceDll = Termsrv
    /\ pc[p] = "deleteDll" /\ p \in okay => ini[wrap[p]] = Absent
    /\ (pc[p] \in AfterFiles /\ p \in okay) \/ pc[p] \in Clearing \/ Succeeded(p) =>
          ini[wrap[p]] = Absent /\ dll[wrap[p]] = "none"
    /\ pc[p] = "removeExe" \/ Succeeded(p) => updTask = FALSE
    /\ Succeeded(p) => updExe = FALSE \/ delOnBoot = TRUE

Refused(p) ==
    /\ pc[p] \in {"fwClear", "verdict"} \cup Clearing \/ Succeeded(p) => denyTS = TRUE
    /\ pc[p] \in {"verdict"} \cup Clearing \/ Succeeded(p) =>
          \A r \in Rules : rules[r] = 0

Uninstalling == \A p \in Operators :
    /\ phase[p] \in Removing => Removed(p)
    /\ phase[p] = "uninstall" => Refused(p)

LEMMA UninstallStages ==
    ASSUME SoleOperator, Updaters = {}, "updater" \notin Faults
    PROVE  Spec => []Uninstalling
<1>1. Init => Uninstalling
  BY DEF Init, CleanMachine, InstalledMachine, Uninstalling, Removed, Refused,
         AfterFiles, Clearing, Succeeded, Removing, Procs
<1>2. Types /\ FlagsOK /\ Calls /\ Uninstalling /\ [Next]_vars => Uninstalling'
  <2> SUFFICES ASSUME Types, FlagsOK, Calls, Uninstalling, [Next]_vars
               PROVE  Uninstalling'
    OBVIOUS
  <2> USE SoleOperator, Updaters = {}, "updater" \notin Faults,
          BoundsAssumption
          DEF Works, Fails, Goto, Exit, Halt, TryBlock, NotOkay, registryVars,
              fileVars, scmVars, localVars, SoleOperator, Uninstalling,
              Removed, Refused, AfterFiles, Clearing, Succeeded, Calls,
              FlagsOK, FilesOK, Rules, Types, ProcessesOK, PhaseInv, Procs,
              Resting, Removing, InstallSteps
  <2>1. ASSUME NEW p \in Procs, Begin(p) PROVE Uninstalling'
    BY <2>1 DEF Begin, Commands, FirstStep
  <2>2. ASSUME NEW p \in Procs, Capture(p) PROVE Uninstalling'
    BY <2>2 DEF Capture, AfterCheck
  <2>3. ASSUME NEW p \in Procs, CheckStopped(p) PROVE Uninstalling'
    BY <2>3 DEF CheckStopped
  <2>4. ASSUME NEW p \in Procs, StartTerm(p) PROVE Uninstalling'
    BY <2>4 DEF StartTerm, Started
  <2>5. ASSUME NEW p \in Procs, WaitTerm(p) PROVE Uninstalling'
    BY <2>5 DEF WaitTerm, Started
  <2>6. ASSUME NEW p \in Procs, KillProcess(p) PROVE Uninstalling'
    BY <2>6 DEF KillProcess
  <2>7. ASSUME NEW p \in Procs, StartShared(p) PROVE Uninstalling'
    BY <2>7 DEF StartShared, AfterShared
  <2>8. ASSUME NEW p \in Procs, Settle(p) PROVE Uninstalling'
    BY <2>8 DEF Settle
  <2>9. ASSUME NEW p \in Procs, MakeDir(p) PROVE Uninstalling'
    BY <2>9 DEF MakeDir
  <2>10. ASSUME NEW p \in Procs, ExtractIni(p) PROVE Uninstalling'
    BY <2>10 DEF ExtractIni
  <2>11. ASSUME NEW p \in Procs, FillIni(p) PROVE Uninstalling'
    BY <2>11 DEF FillIni
  <2>12. ASSUME NEW p \in Procs, ExtractDll(p) PROVE Uninstalling'
    BY <2>12 DEF ExtractDll
  <2>13. ASSUME NEW p \in Procs, FillDll(p) PROVE Uninstalling'
    BY <2>13 DEF FillDll
  <2>14. ASSUME NEW p \in Procs, SetWrapperDll(p) PROVE Uninstalling'
    BY <2>14 DEF SetWrapperDll
  <2>15. ASSUME NEW p \in Procs, RestoreServiceDll(p) PROVE Uninstalling'
    BY <2>15 DEF RestoreServiceDll
  <2>16. ASSUME NEW p \in Procs, ConfigureRegistry(p) PROVE Uninstalling'
    <3>1. pc'[p] = "fwClear" /\ phase[p] # "install" => denyTS' = TRUE
      <4>1. pc'[p] = "fwClear" => denyTS' = (phase[p] # "install")
        BY <2>16 DEF ConfigureRegistry
      <4>2. QED
        BY <4>1, Zenon
    <3>2. QED
      BY <2>16, <3>1 DEF ConfigureRegistry
  <2>17. ASSUME NEW p \in Procs, ClearFirewall(p) PROVE Uninstalling'
    BY <2>17 DEF ClearFirewall
  <2>18. ASSUME NEW p \in Procs, AddRules(p) PROVE Uninstalling'
    BY <2>18 DEF AddRules, AddRule
  <2>19. ASSUME NEW p \in Procs, UndoFirewall(p) PROVE Uninstalling'
    BY <2>19 DEF UndoFirewall
  <2>20. ASSUME NEW p \in Procs, CopyUpdater(p) PROVE Uninstalling'
    BY <2>20 DEF CopyUpdater
  <2>21. ASSUME NEW p \in Procs, ScheduleUpdater(p) PROVE Uninstalling'
    BY <2>21 DEF ScheduleUpdater
  <2>22. ASSUME NEW p \in Procs, ResetServiceDll(p) PROVE Uninstalling'
    BY <2>22 DEF ResetServiceDll
  <2>23. ASSUME NEW p \in Procs, DeleteIni(p) PROVE Uninstalling'
    BY <2>23 DEF DeleteIni
  <2>24. ASSUME NEW p \in Procs, DeleteDll(p) PROVE Uninstalling'
    BY <2>24 DEF DeleteDll
  <2>25. ASSUME NEW p \in Procs, Verdict(p) PROVE Uninstalling'
    BY <2>25 DEF Verdict
  <2>26. ASSUME NEW p \in Procs, RemoveTask(p) PROVE Uninstalling'
    BY <2>26 DEF RemoveTask
  <2>27. ASSUME NEW p \in Procs, RemoveExe(p) PROVE Uninstalling'
    BY <2>27 DEF RemoveExe
  <2>28. ASSUME NEW p \in Procs, ReadDate(p) PROVE Uninstalling'
    BY <2>28 DEF ReadDate
  <2>29. ASSUME NEW p \in Procs, Download(p) PROVE Uninstalling'
    BY <2>29 DEF Download
  <2>30. ASSUME NEW p \in Procs, StopUm(p) PROVE Uninstalling'
    BY <2>30 DEF StopUm
  <2>31. ASSUME NEW p \in Procs, StopTerm(p) PROVE Uninstalling'
    BY <2>31 DEF StopTerm
  <2>32. ASSUME NEW p \in Procs, StopWait(p) PROVE Uninstalling'
    BY <2>32 DEF StopWait
  <2>33. ASSUME NEW p \in Procs, RestartUm(p) PROVE Uninstalling'
    BY <2>33 DEF RestartUm
  <2>34. ASSUME NEW p \in Procs, SaveIni(p) PROVE Uninstalling'
    BY <2>34 DEF SaveIni
  <2>35. ASSUME NEW p \in Procs, Crash(p) PROVE Uninstalling'
    BY <2>35 DEF Crash
  <2>36. CASE TermStarts
    BY <2>36 DEF TermStarts
  <2>37. CASE TermStops
    BY <2>37 DEF TermStops, TermGone, HostEnds
  <2>38. CASE TermFails
    BY <2>38 DEF TermFails, TermGone, HostEnds
  <2>39. CASE Reboot
    BY <2>39 DEF Reboot, HostEnds
  <2>40. CASE UNCHANGED vars
    BY <2>40 DEF vars
  <2>41. QED
    BY <2>1, <2>2, <2>3, <2>4, <2>5, <2>6, <2>7, <2>8, <2>9, <2>10, <2>11,
       <2>12, <2>13, <2>14, <2>15, <2>16, <2>17, <2>18, <2>19, <2>20, <2>21,
       <2>22, <2>23, <2>24, <2>25, <2>26, <2>27, <2>28, <2>29, <2>30, <2>31,
       <2>32, <2>33, <2>34, <2>35, <2>36, <2>37, <2>38, <2>39, <2>40
       DEF Next, Step, Services, Install, Uninstall, Update, Manager, Finished
<1>3. QED
  BY <1>1, <1>2, Typing, Flags, CallsBelong, PTL DEF Spec

(* "[+] Successfully uninstalled." of -u means that the system library is  *)
(* registered, the files, the task and the program are gone (the running   *)
(* program at the next restart of the machine) and, without -k, that       *)
(* connections are refused and the rules deleted; if no -w saves its INI   *)
(* meanwhile and the updater's removal works (RDPWInst.cpp:1627-1655).     *)
THEOREM UninstallsAll ==
    ASSUME SoleOperator, Updaters = {}, "updater" \notin Faults
    PROVE  Spec => []UninstallComplete
<1>1. Types /\ Uninstalling => UninstallComplete
  <2> SUFFICES ASSUME Uninstalling, NEW p \in Operators, Ended(p, Removing, {"ok"})
               PROVE  /\ serviceDll = Termsrv
                      /\ dll[wrap[p]] = "none" /\ ini[wrap[p]] = Absent
                      /\ ~updTask /\ (updExe => delOnBoot)
                      /\ phase[p] = "uninstall" =>
                            denyTS /\ \A r \in Rules : rules[r] = 0
    BY DEF UninstallComplete
  <2>1. Removed(p) /\ Succeeded(p) /\ (phase[p] = "uninstall" => Refused(p))
    BY DEF Uninstalling, Ended, Succeeded
  <2>2. QED
    BY <2>1 DEF Removed, Refused
<1>2. QED
  BY <1>1, Typing, UninstallStages, PTL

=============================================================================
