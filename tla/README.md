# A TLA+ model of RDP Wrapper

RDP Wrapper makes Windows' TermService load `rdpwrap.dll` in place of `termsrv.dll`.
This directory models the programs of the repository, checks the models with TLC and
proves the central results with TLAPS.

## The system

| component | source | state | operations |
|---|---|---|---|
| Installer | `src-installer/RDPWInst.cpp` | the `ServiceDll` value, the DLL and INI of an installation, the scheduled updater, firewall rules, the services it stops and starts; per process: the captured PID and services, flags, dates | `-i`, `-u [-k]`, `-w`, `-r`; `halt` (an exception) and the rollback of `-i` |
| Elevation and output pipe | `RDPWInst.cpp` 1200-1501 | a pipe, the child process, its command line, the odd byte carried over | `quoteArgument`, `relaunchElevated`, `forwardPipeToOriginalOutput`, `redirectOutputToPipe` |
| Wrapper | `src-multiarch/rdpwrap_entry.cpp`, `_hook.cpp`, `_policy.cpp`, `_utils.cpp` | `AlreadyHooked`, `_ServiceMain`, suspended threads, patched code, saved bytes of the hooked function | `ServiceMain`, `SvchostPushServiceGlobals`, `Hook`, the policy hooks |
| Configuration parser | `src-multiarch/cpp_configparser` | sections and options in order | `parse_line`, `interpolate`, `set`, `remove_*`, `write_to_string` |
| Configuration tool | `src-RDP_CnC/main.cpp` | the window's saved settings, the restart worker, the dependents it stopped | restart, firewall port, settings, update |
| Build and release | `.github`, `resource_patcher.cpp`, `manifest_embedder.cpp`, `bin/*.bat` | the version, the release | build, next version, publish |

The programs meet only in the machine: the installer writes the value, the DLL and the
INI the wrapper lives on; the task the installer creates runs `RDPWInst -w`; the
configuration tool starts `RDPWInst -w` and restarts the service itself. There is no
lock between them. What makes the code hard is therefore not one program's data but
the order of its calls on shared state, each of which can fail, be followed by the
death of the process or a restart of Windows, or fall between two calls of another
process. `PROJECT.json` lists the hazards line by line.

## Modules

- **Registration**: the abstract specification. State: which library `ServiceDll`
  names, and which locations hold a complete wrapper. Four actions: publish, register,
  unregister, retire.
- **Installer**: the four commands as processes over the machine's state. One action per
  Windows call that changes state or whose outcome is tested, but for three that stand for
  a row of calls, with every outcome the row may have (`ConfigureRegistry`,
  `ClearFirewall`, `UndoFirewall`); `pc` is the next call,
  `phase` the command (or the rollback) it belongs to, so `checkTermsrvProcess`,
  `startService` and `killProcess` are written once and shared by all commands as in
  the code. It EXTENDS nothing of its own and INSTANCEs Registration.
- **MCInstaller**: the fault sets and command sets of the TLC instances.
- **CncRestart**: the window thread of RDP_CnC, its restart worker, the service control
  manager with the states a service goes through, and other processes that meddle.
- **MCCncRestart**: a chain of TermService, UmRdpService and a dependent of that.
- **OutputRelay**: the launcher, the pipe and the elevated child as two processes.
- **WrapperHook**: the threads of TermService's process, the one that runs `Hook`, and
  the replacement of the policy function they call later.
- **CommandLine**: the arguments on their way to the elevated child, which OutputRelay
  EXTENDS: what `wmain` takes out, `quoteArgument` makes of the rest, the C runtime reads.
- **MCOutputRelay**: the arguments it is tried with.
- **IniParser**: the configuration parser as an object with its operations, and the three
  places that read the same text without it.
- **MCIniParser**: the options of the wrapper, the parser's defaults and the rest, each
  with the lines that make a difference to it.
- **CncSettings**: any number of settings windows of RDP_CnC and the installer's
  `configureFirewall`, over the registry's values and the two firewall rules.
- **MCCncSettings**: two windows, the values and the bounds.
- **InstallerProofs** (the state at every call, then what complete commands achieve),
  **RegistrationProofs**, **CncRestartProofs** (the window, then the services),
  **CncSettingsProofs**, **OutputRelayProofs** (with the arguments of CommandLine),
  **WrapperHookProofs**, **IniParserProofs**: the theorems.
- **SequenceLemmas**: induction on numbers and sequences, and what concatenation, flattening
  and a loop over a sequence compute; OutputRelayProofs and IniParserProofs EXTEND it.

How `Installer` corresponds to the code:

| code | model |
|---|---|
| `wmain`, `checkInstall` | `Begin`: the guard "installed" is read once; a wrong one refuses the command |
| `checkTermsrvProcess` | `Capture`, `CheckStopped` (a stopped service is started once and looked at again) |
| `startService`, `stopService` | a request (`StartTerm`, `StopTerm`) and a poll (`WaitTerm`, `StopWait`) whose timeout is a fault |
| `killProcess(termServicePid)` | `KillProcess`; `fresh` says whether the captured PID is still the service's process |
| `extractFiles`, `extractResource`, `writeBytes` | `MakeDir` ... `FillDll`; a file created in place is `partial`/`Torn` between two calls, `writeBytes` replaces atomically |
| `setWrapperDll` and the `try` block of `-i` | `SetWrapperDll`, `TryBlock`, `Halt`, `RestoreServiceDll` |
| `configureTerminalServicesRegistry`, `configureFirewall` | `ConfigureRegistry`, `ClearFirewall`, `AddRules`, `UndoFirewall` |
| `deployUpdater`, `removeUpdater` | `CopyUpdater`, `ScheduleUpdater`, `RemoveTask`, `RemoveExe` |
| `resetServiceDll`, `deleteFiles` | `ResetServiceDll`, `DeleteIni`, `DeleteDll`, `Verdict` |
| `checkUpdate` | `ReadDate`, `Download`, `StopUm`, `StopTerm`, `StopWait`, `RestartUm`, `SaveIni` |
| Windows (external) | `TermStarts`, `TermStops`, `TermFails`; `Crash`, `Reboot` |

A call that may fail has a disjunct guarded by `Fails(kind)`: it counts one of at most
`MaxFaults` failures of the kinds in `Faults`. Outcomes that are the environment's free
choice and harmless to repeat (which INI a download returns, or that it fails) are not
counted.

`ConfigureRegistry` is up to eight registry writes: a failing one leaves what those before
it did. `ClearFirewall` and `UndoFirewall` are two netsh calls each, of which any
may fail; nothing of the model runs between the two. `RestartUm` allows both values of
`umStopped`, which is not kept. A start of `UmRdpService` counts as done when it is asked
for, though TermService, which it depends on, may still fail to start.

Abstractions: the log and all messages; the content of an INI (a date, absent or torn);
`rdpwrap.txt` and `RDP_CnC.exe`, whose failed deletion is the file fault of `DeleteDll`;
the start types of CertPropSvc and SessionEnv; `rdpclip.exe` and `rfxvmt.dll`;
`checkTermsrvVersion`, elevation and argument checks, which change nothing; a reused
PID; a slow stop of UmRdpService; a failure to open a file for writing is one with a
failure to fill it. TermService shares its process with the services in `Shared`; its
process ends with the last of them.

How `CncRestart` corresponds to `src-RDP_CnC/main.cpp`:

| code | model |
|---|---|
| `wndProc`: IDC_RESTART, WM_CLOSE, WM_RESTART_COMPLETE | `AskRestart`, `Decline`, `Close`, `RestartComplete`; `ui` is where the window's thread is, since a message box dispatches messages too |
| `beginTermServiceRestart`, `setRestartUi` | `BeginRestart`; `restarting`, `buttons` |
| `restartTermServiceWorker`, `restartTermService` | `OpenTerm`, `AfterStopping`, `PostComplete`; `at` is the worker's next call |
| `stopActiveDependents`, `activeDependents` | `Enumerate`, `Visit`, `StopReturns`; the recursion is the sequence `path`, each frame's list is `names[s]` |
| `stopService`, `startService`, `waitService` | `StopService`, `StopWait`; `StartService`, `DownWait`, `RequestStart`, `StartWait`: a query, a request and a wait are separate steps |
| `restoreServices` | `NextToStart`, `StartReturns` |
| `runInstallerUpdate` | `LaunchUpdate`, `UpdateEnds`, `UpdateOutlivesWait` |
| Windows (external) | `CanStop`, `CanStart`, `ServiceStops`, `ServiceStarts`, `Meddle` |

The query and the control request of `stopService` are one step, because each way the
state can change between them ends in one of the outcomes of that step: the code looks
again after a refusal. Left out: paused services; the wait hints and checkpoints, which
only decide how long a wait lasts; the question about unsaved settings before closing,
which is taken as answered at once, so nothing is dispatched between the guard of
WM_CLOSE and the end of the window; the 1 s status timer, which changes nothing modelled;
the OK command (`IDC_OK`), for which the window creates no button.

How `OutputRelay` corresponds to `RDPWInst.cpp`:

| code | model |
|---|---|
| `relaunchElevated` | `CreatePipe`, `Launch`, `ClosePipe`, `AwaitChild`; `at` is the launcher's next call |
| its `parameters`, `quoteArgument`; `effectiveArguments` of `wmain` | `CommandLine!Parameters`, `QuoteArgument` (the loop is a recursive function of the number of characters taken); `Effective` |
| `connectOutputPipe` | `Connect` (a client is there already, was there, or is awaited), `AwaitClient` |
| `readOutputPipe`, `forwardPipeToOriginalOutput` | `ReadOutput`: any number of bytes up to the buffer; `pending` keeps the byte `Rest` leaves |
| `redirectOutputToPipe`, `reconnectToConsole` | `OpenOutput` |
| `WidePipeBuffer` | `WriteText` byte by byte, waiting for room; `Flush` is `sync` at the program's end |
| `wmain` of the child | `Return`, after any number of characters, with success or an error |
| Windows (external) | `InPipe`, `ChildEnds`, `Killed`; `TakeApart`, the C runtime's rule for a command line |

Bytes are numbered as they are written, so that a shown character tells which bytes it
was made of. The code also waits for the launcher wherever a stream is flushed in mid-run
(`sync`); the model waits only at the end, where most is left in the pipe.
Left out: surrogate pairs (one character is one UTF-16 unit); a `runas`
that returns no handle; a child that finds itself not elevated; what is shown on the
fallback console, which bypasses the launcher. The two hidden arguments begin with one
character each instead of `--rdpw-console-pid=` and `--rdpw-output-pipe=`; a space stands
for all white space.

How `WrapperHook` corresponds to `src-multiarch`:

| code | model |
|---|---|
| `ServiceMain`, `SvchostPushServiceGlobals` | `EnterExport`: the first call runs `Hook`; a later one changes nothing modelled |
| `Hook` up to the version | `Load`, with the three early returns before the threads are held |
| `SetThreadsState` | `Freeze`, `FreezeThread`, `Thaw`, `ThawThread`: the snapshot, then a step for each thread in it |
| `Hook`, slc.dll | `HookPolicy`, with the returns that resume the threads first |
| `ApplyConfiguredPatch`, the ARM jumps, `PatchMemoryWrite` | `ApplyPatch`, `HookInternal`, `Writes`; `Inside` is the range check |
| `New_SLGetWindowsInformationDWORD` | `Query`, `Unhook`, `CallOriginal`, `Rehook`; a call that comes back into the hook adds one to `depth` |
| Windows (external) | `ThreadBegins`, `ThreadEnds`; `TakeHeap`, `ReleaseHeap`: one lock stands for those of the heap and the loader |

A query takes part when `OverrideSL` does not answer it, which is when the name cannot
be converted: an unlisted name is answered with 0. What the other queries do changes
nothing. `PatchMemoryWrite` (unprotect, write, protect again) is one step: no
thread runs into half a jump, which the code does not exclude either. The configuration
is read as any outcome it may have: a patch enabled or not,
any offset, any size. A step of `Hook` that allocates needs the lock; the two walks do
not, which is what lets `Hook` suspend its owner and stop.

How `IniParser` corresponds to `cpp_configparser` and its rivals:

| code | model |
|---|---|
| `Parser`: `defaults_`, `sections_`, `section_index_`, `options_` | `ini`, `opts` |
| `read_string`, `parse_line`, `finish_multiline`, `join_lines` | `ReadString`, `ReadLine`, `EndRead`; `ParseLine(p, r, line)` takes the object and the local variables `r` and returns both |
| `add_section`, `set`, `remove_option`, `remove_section`, `clear` | `AddSection`, `SetOption`, `RemoveOption`, `RemoveSection`, `Clear` |
| `get_raw`, `has_option`, `items`, `get` | `GetRaw`, `HasOption`, `AllItems`, `Get` |
| `interpolate`, `_basic`, `_extended` | `Interpolate`: a recursive function of depth, section and value |
| `write_to_string` | `WriteToString` |
| `supportLevel` (RDP_CnC), `validIniContent`, `iniDate` (RDPWInst) | `SupportLevel`, `ValidIniContent`, `IniDate` |

A line is a token, what `strip_comment` leaves of it, with a flag for white space before
it; a comment keeps what the scanners would find in it. A value is the sequence of the
cleaned lines it was made of, an interpolation one piece. `SupportLevel` keeps 2, "fully
supported", apart from the rest. Left out: the characters of a name, and with them the
`InvalidWrite` errors of writing (parser.cpp:704-711, 727-734) and keys or continued lines
that begin like a comment or with white space, which only `set` could store; a reference
with an empty section before the colon, which here is one to the own section; how a date
may be spelled and the case of `Updated=`; inline comments (off by
default and in the wrapper), `get_int`, `get_float` and `get_bool`, files with
single carriage returns. The wrapper reads with `get_raw`, so a value continued on the
next line is not a number and gives the default, which is `GetRaw` here.

The three readers do not agree on every file. A line without a delimiter, an empty header
or an option above all headers makes the parser throw (parser.cpp:302, 325, 414), and
`Hook` returns with nothing hooked (rdpwrap_hook.cpp:238-241). `supportLevel` still finds
the version's header and shows "Fully supported", and `validIniContent`, by which the
installer "validates its structure" (README.md:203) before it saves a download, accepts
the file. `ScannersAgree` is stated of every read, those that throw included, and names
what may make the readers differ: such a file, a header that stands below a value and is
part of it, and, for the installer, a comment that mentions a section. All three occur in
the run. DEFAULT and the unnamed section are left out, which no version is called.

The reference definitions share no code with the machine: `WellFormed`, `SectionAt` and
`ValueAt` say what a whole text means, by quantifiers over its lines, given the options
and what the object held before; `Meaning` rewrites all references of a value at once, as
often as the limit allows. Two losses are the code's own and are named where a property
leaves them out: without `empty_lines_in_values` an empty line ends a value without
`finish_multiline` (`Interrupted`), and some objects cannot be written. `Writable` names
what can: names that are not empty, default values of one line, an unnamed section only
where it comes first and has options (it is written without a header, so a later one would
join the section above it), a missing value only if the parser would take one, and, without
`empty_lines_in_values`, only continuations an empty line does not cut off. The wrapper
sets that option and never writes.

How `CncSettings` corresponds to `src-RDP_CnC/main.cpp` and `configureFirewall`:

| code | model |
|---|---|
| `readSettings`, `wWinMain` | `ReadSettings`, `Shown`, `Open` |
| notifications of the controls | `Change`: any of them enables Apply |
| `wndProc`: IDC_APPLY; `writeSettings`, `setDword` | `Apply`, `WriteValue` (one per value, all tried), `GiveUp`, `BeginRules`, `Saved`; `pc` and `at` are the window's next write |
| `updateWrapperFirewallPort` | `UpdateRule` |
| WM_CLOSE; the end of the process | `Close`; `Kill` |
| `configureFirewall` of RDPWInst | `EnableFirewall`, `DisableFirewall`, `RunNetsh` with the commands left in `netsh` |

`g_settings` is what the controls show during a round, of `g_saved` only the port is
used. "shadow" stands for the four checkboxes too, which are written and read alike (three of
them before the port and one after it). A control's notification enables Apply also when
its value is what it was; what a user sets it to is one of `Choices`. A failure to reach
the firewall's rules at all (`CoCreateInstance`, `get_Rules`) fails both updates, which are
two failures here. A message box only delays the step after it. Deletions that fail are in Installer.

The firewall is written only if the port differs from the one this window saved last
(`main.cpp:762`), so it can be left behind. `PortOpen` says that it is not, unless what
`blame` records happened: a rule could not be changed and the user was warned, but
applying again does not try again; a failed round that had written the port was
abandoned or killed; the window showed what another had overwritten since; or two
programs were at work at once. The last includes one that takes three steps: a round
that fails after writing 3390, an `-i` that sets the rules to 3390, and a second round
that goes back to 3389, which the window takes for no change.

## Runs

| run | question | instance |
|---|---|---|
| Operator | is every intermediate state of `-i`, `-u`, `-r` safe, and does success mean what it says? | one operator, 3 commands, 2 locations, 2 failures |
| Race | the scheduled `-w` beside an operator | 1 operator (2 commands), 1 updater, 1 failure, reg.exe needed |
| Live | does every command end and the service return? | 1 operator, 1 updater, no failures |
| CncStop | does everything run again when the stopping fails anywhere, and is the window held? | 3 services in a chain, 2 restarts, 3 failures of the thread, the stopping half and the message |
| CncAny | is a reported success true, are exactly the stopped services restored, does a restart end? | the same chain, 2 failures of any call but the post, 2 interventions of other processes |
| Relay | is the child's output shown whole, once and in order, do its arguments arrive, and do both processes end? | 4 characters, 3405 lists of one argument of up to 4 characters or two of up to 2, reads of 1 to 3 bytes, a pipe of 5, 2 failures of all 8 kinds |
| Wrapper | who is suspended when code is written, is anyone left so, what is written where, does the hook survive its callers, does `Hook` end? | 3 threads, 2 queries, addresses of 2 bits, 1 failure of 9 kinds |
| Ini | does the line machine read what the text says, survive edits, write what it reads, expand references exactly, and do the other readers agree? | 4 lines (2 and 2 edits), references 2 deep, 7 pairs of options and lines |
| Settings | do the page, the registry and the firewall agree after rounds, failures and installer runs? | 2 windows and 2 rounds with a failure or an installer run; 1 window, 3 rounds with both |
| RegAdd, LateSave, Reinstall | three statements of `src-installer/README.md` that the code does not keep | the smallest instance that shows each |

Properties of the runs, with the code behaviour each is about, are commented in
the modules. The fault sets of Operator leave out netsh failures (`InstallComplete`
and `UninstallComplete` speak of the rules; that netsh deletions fail silently is in
Race), failures of the removals `removeUpdater` ignores, and restarts (Race has all).

Bounds. Two failures are needed to reach a failed rollback, three commands to reach
install, uninstall and install again, two locations to install elsewhere than the old
files; two dates distinguish old from new; one shared service distinguishes a process
that hosts others. An updater runs once: a second `-w` differs from the first only in
the INI it finds. In `CncRestart` a chain of three has a dependent of a dependent, which
the recursion meets twice; two restarts let the second begin while a service of the
first is still stopping; two interventions let another process start a service the
worker stopped and stop it again. CncStop has no interventions: what another process
stops is not for the worker to bring back. A lost message leaves the window waiting for
ever, which the model shows as the stutter `Over`; CncAny leaves that fault out.
In Ini four lines are a header, an option and two continuations or an empty line before
one, and a second read meets what the first left; two edits remove a section and use
another by its position; a chain of references longer than two, and one that returns,
both pass the limit. The wrapper's own limit of 10 is only a longer chain. In Settings
two ports and an invalid one are all the port check tells apart, the modes those that
are written differently; two rounds are a failed one and its repetition or reversal,
three include one after it. The two windows are symmetric.
In `OutputRelay` arguments of up to four of the characters quoting tells apart hold every
run of backslashes that matters before a mark, a letter and the end; three bytes at once
end inside a character and five bytes of room are fewer than the text, so the child
waits for the launcher; two characters fit, so it can end before the launcher connects.
In `WrapperHook` a third thread can hold the lock or begin while the second is held;
two queries nest; with 2-bit addresses and a module of 3 a sum of offset and size
overflows. Versions 6.0 and 6.2 take the two ways through slc.dll (6.1 goes as 6.0, a
later one as 6.2 without the failure). Deadlock is not checked in Wrapper: the program
really stops when `Hook` has suspended the owner of a lock it needs.

Fairness. A process that has not died makes its next call (Windows schedules it; every
poll of the code has a timeout) and the service control manager completes a pending
start or stop: weak fairness of `Step(p)` for each process and of `Manager`. Nothing is
assumed about commands being started, failures or restarts. The Live run has no
failures, so a pending start succeeds: a service that never starts again after a failed
start is no fault of these programs. In CncRestart the worker thread runs, the manager
completes transitions, the window's thread dispatches a posted message (it is in a
message loop whenever a restart is under way) and its wait for an update is bounded by
the 120 seconds of the code: weak fairness of each of the four. Users need not act.
In OutputRelay both processes are scheduled and nobody holds up the console (weak
fairness of each). In WrapperHook a thread that owns the lock and is not suspended
releases it (weak), and the lock is fair: `Hook` gets it if it is free again and again
(strong fairness of `Hook`, whose steps it needs it for). Threads need not begin, end
or query.

## Findings

1. `README.md:63` of the installer promises that a failed installation restores
   `ServiceDll`; a failing `reg.exe` on 64-bit Windows 6.0 is outside the `try` block.
2. `README.md:46` promises that `-u` removes the managed files; a `-w` that passed its
   guard earlier writes the INI again, and `-u` still reports success.
3. `README.md:69`: a deletion queued by `-u` from the installed program hits the program
   a later `-i` deploys, and the task that starts it stays.

No run, but a difference worth knowing: RDP_CnC and the installer accept files the
wrapper's parser throws on (see IniParser above). No line says that they do not.

Two operators at a time break `WrapperResolvable` as well (one deletes the files the
other registers). No line of the repository promises that they do not, so it is the
assumption `SoleOperator` of the theorems and the shape of the runs, and is recorded
as a hazard.

## Proofs

Every safety invariant of the runs is a theorem for every set of processes, locations,
services, threads, controls, addresses, texts or arguments, every bound and every fault
set. Each is proved from an inductive invariant of named parts, which TLC checked on an
instance before it was proved, but for `ArgumentsArrive`, which needs none: what it says of
the launch holds for any pipe.

Assumptions on constants, beside their types: `LocsAssumption` (a location is neither of
the two values that stand for no library, `Termsrv` and `NoDll`); `ControlsAssumption` and
`StoredAssumption` of CncSettings (what the user chooses the controls can show, what the
registry starts with are values of it); `TreeAssumption` of CncRestart (`Below` is the
transitive dependency order); `LinesAssumption` of IniParser (lines, options and values
are of their types, and the names the code knows are strings: the provers do not know a
literal for one); `TextAssumption` of OutputRelay (arguments are of any characters, the
number of a process is of digits); the rest are types of bounds.

Induction. The library states its induction rules with an operator for the property, which
the provers cannot instantiate. SequenceLemmas states them with a set instead:
`LeastNumber` gets the least element of a set of numbers from the library's well-founded
order on finite sets; from it follow `ByCounting` (a set that holds 0 and with n also
n + 1 holds every number) and `ByAppending` (a set that holds the empty sequence and is
kept by Append holds all sequences). What a recursive function computes is proved with
them: the function is shown to exist step by step, and two that satisfy the same equations
to agree (`LoopExists`, `LoopOnly`), so the CHOOSE behind it finds that one.

**Installer**, the state (InstallerProofs)

- `TypeCorrect`. Its lemma `Typing` carries `PhaseInv` along: which command each call
  belongs to, without which `wrap[p]` and `date[p]` have no type worth the name at the
  calls that use them.
- `Resolvable`: `Spec => []WrapperResolvable`, if one operator runs at a time
  (`SoleOperator`); updaters are unbounded. `WrapperResolvable` is not inductive:
  `DeleteDll` keeps it only because `ServiceDll` was reset before, `SetWrapperDll` only
  because the files are complete, and `SaveIni` only because the date is a real one.
  `OrderInv` states those three facts for every call between.
- `Refinement`: `Spec => ImplementsRegistration` under the same assumption. Each call
  publishes or retires one location (`OneLocation`), registers, unregisters, or changes
  nothing Registration sees (`Stutter`). `Loadable`: Registration keeps the registered
  library loadable, since the value and the files never change together: a new value names
  what is complete already (`NamesComplete`), and while it stays, what it names does
  (`SparesNamed`).

**Installer**, the outcomes (the second part of InstallerProofs). The common lemma `CallsBelong` says
which command each further call belongs to (`Calls`). The inductive invariants say what
the command has achieved by each of its calls, and what a later call still owes.

| theorem | property | assumes | invariant |
|---|---|---|---|
| `DllUnmapped` | `DllUnmappedWhenDeleted` | `SoleOperator` | `Unmapped`: from the end of the process on, the value is reset and nothing maps a wrapper |
| `RulesSingle` | `NoDuplicateRules` | `SoleOperator`, no netsh fault | `SingleRules`: no rule of the name is left when one is added |
| `ServicesBack` | `ServicesRestored` | `SoleOperator` | `TermBack`, `SharedBack`: without a failure, a stopped service has a process that comes to its start |
| `UpdateTakesEffect` | `UpdateActivates` | - | `Activating`: what the updater holds while no one else has worked and nothing failed |
| `InstallsAll` | `InstallComplete` | `SoleOperator`, no restart | `Installing` (`Placed`) |
| `RollsBack` | `RollbackRestores` | `SoleOperator`, no updater, no `reg.exe` step, no updater fault | `Rolling` (`Smooth`) |
| `UninstallsAll` | `UninstallComplete` | `SoleOperator`, no updater, no updater fault | `Uninstalling` (`Removed`, `Refused`) |

Each of these assumptions is needed: for every one of them TLC finds a counterexample
when it is dropped alone. They are what the properties say about the code, and no more:
a failing `reg.exe`, a late `-w` and a deletion queued for the next restart are the three
findings above, and a netsh deletion that fails leaves a rule beside the one added next.
Operator checks four of these properties on an instance that keeps their assumptions, Race
the other three with every kind of fault.

**RDP_CnC**

- `CncRestartProofs!TypeCorrect`, for every dependency tree; its content is that the
  recursion's path never becomes empty. `Guarded`: the window's commands are held while a
  restart is under way. Its strengthening says that the worker's message is its last step
  (`PostedLast`), without which `RestartComplete` could free the window too early.
  `UpdateKeptApart`: no update and restart at once, because an update is awaited only by
  a thread that handles no command (`AwaitsUpdate`).
- `RestoresOwn` (`OwnRestored`): the services a restart stopped, and no other, are
  restored, whatever fails and whoever meddles. `Listed`: while it stops, the list is what
  it stopped; while it starts, a part of that.
- `SuccessTrue` (`SuccessIsTrue`), whatever fails: `Accounted` says that a service that ran
  runs or was stopped by the worker, and, if nothing failed, that all it stopped run but
  those still listed. `KeepsRunning` (`RunningKept`) also when stopping fails anywhere. It
  assumes `OnlyStopping`: no call of the starting half fails, since the code has nothing
  left to try after such a failure. `Restored` adds why starting then succeeds: the list
  is in an order that starts a service after what it depends on (`Ordered`), and what it
  depends on runs by then (`Depend`, `Between`).
- `CncSettingsProofs`: `TypeCorrect`, `NothingHidden` (`ShownIsSaved`), `OthersKeptWritten`
  (`OthersWritten`), `RulesFollow` (`PortOpen`), for any number of windows and rounds.
  `InStep(w)` says what a window whose values no other has overwritten `Knows` of the
  registry, and during a round that every value it is past was refused or is what it
  shows. The firewall follows because `blame = {}` leaves the programs `Orderly`: one at
  work at a time, and the rules at the port it saved last until it changes them.

**OutputRelay**: `TypeCorrect`, `ShownFaithfully` (`Faithful`), `ExitCode`
(`ExitFollowsChild`), `Forwarded` (`AllForwarded`), for any length of the text, size of the
pipe and of a read. `HalfPending`: the byte carried over between two reads is the first
half of the character under way, and there exactly when an odd number of bytes was read.
`Stages` relates the launcher's call to the child and the pipe's ends. `Forwarding` says
what holds as long as nothing failed: among the rest, that the child ends only when all it
wrote was read, and that every character read has been shown.

`ArgumentsKept` (`ArgumentsArrive`), for any arguments of any characters. `Mirrors` goes
along the loop of `quoteArgument`: what it has put out so far is read by the C runtime as
what it was given so far, inside a quotation, but for the backslashes it holds back, which
it may still have to double (`MirrorsNext`, one case per kind of character). At the end
they are doubled before the closing mark, so the argument is complete and outside the
quotation (`QuotedRead`; `PlainRead` for one that needs none). `Through` says so of a line
of arguments, since a space ends the one before it (`ThroughNext`, `TakesApart`). No
argument `wmain` passes on looks like a hidden one (`EffectiveTaken`), so the child takes
out exactly the two the launcher added (`WordsTaken`).

**WrapperHook**: `TypeCorrect`, `Frozen` (`FrozenWhileWriting`), `Released`
(`NoThreadLeft`), `WrittenInside` (`WritesInside`), `HookedAgain` (`StubBack`), for any
number of threads. `Walks` says of both walks over the snapshot which threads are held at
which step: after `FreezeWalk` all it has taken from the snapshot, after `ThawWalk` none
it has taken, but for those it could not open; never the one that walks (`HookerApart`),
and only live ones (`HeldAlive`).
`StubOwed`: whoever took the hook out is still inside the query that puts it back.
The type invariant once bounded `depth` by the number of queries; its proof failed at a
thread that enters the hook again from the call it makes, and TLC reached depth 5 with 4
queries of 4 threads. `depth` is a natural number now.

**IniParser**, for any files, edits, options, object and limit of interpolation:

- `TypeCorrect`. `Typed` has, beside the types, that the object is in order (`Sound`:
  `section_index_` is the inverse of the list of names, no option is listed twice), also
  in the middle of a read that will fail, and that an open value has its place in the
  object (`Tracks`), without which `finish_multiline` could write to no option.
- `ReadsRight` (`ReadsAsWritten`). The invariant `Meant` says of every state of a read
  (`Reads`) that the section, option and value in the local variables are those of the
  lines so far (`Follows`) and the object holds what those lines say over what it held
  before (`Contents`, `Known`), but for the value that is still open: the object has it
  only when `finish_multiline` runs. One lemma for each thing a line can do (`AssignReads`,
  `OptionReads`, `HeaderReads`, together `LineReads`) rests on what one more line changes
  of the reference definitions, which are quantifiers over the whole text.
- `LookupsRight` (`ExpandsExactly`). The code recurses into each piece of a value until
  the limit; `Meaning` rewrites the whole value again and again. They agree because
  replacing every element of a sequence by a sequence (`Over`) composes: one level less
  is one rewriting more. What is left after the last rewriting is an error of the
  recursion, and an error anywhere is one of the whole.
- `ScannersRight` (`ScannersAgree`), for reads that end either way: a read ends well exactly
  if the text is well-formed (`ReadsAsWritten`), and then a header that continues no value
  is a section (`HeaderHere`), and a section not there before has a header
  (`HeaderSomewhere`).
- `WritesBack` (`WriteReadBack`). `Leads` is reading as a way from one state of object and
  local variables to another, so ways follow one another. Between two options the state is
  `Between`: finishing the open value would give the object written so far; where an empty
  line may follow it is also `Calm`. One option leads from there to there with the option
  added (line by line `Inside` its value), so do all options of a section, one section, and
  all sections by `ByAppending`, and the end of the read gives the object.

Two reference definitions were wrong where no instance had looked, and the proofs failed
there: `WellFormed` did not tell a section called `<UNNAMED_SECTION>` in a header from the
lines above all headers, and `Writable` allowed an unnamed section without options and
names that are empty. MCIniParser now has the options and the lines for such texts
(`Nameless`).

Only model-checked: liveness (`CommandsEnd`, `TermReturns`, `RestartEnds`, `RelayEnds`,
`HookEnds`), which rests on fairness and ENABLED, outside the prover's reach.

## Not modelled

- `New_CSLQuery_Initialize` (ARM builds): it stores eight constants at addresses the
  configuration names. It keeps no state and checks no range; what it writes is right
  if the shipped configuration is.
- `New_Win8SL`, the other readers of values in `rdpwrap_utils.cpp`: pure conversions.
- The download (WinHTTP): any result, as `Download` of Installer has it.
- The status lines and drawing of RDP_CnC, the licence, usage and version texts.
- Resource and manifest tools, the parser's smoke test, batch files: straight-line
  programs that call what is modelled, or nothing of it. `release.yml` is one
  job of steps in a fixed order, one at a time by its concurrency group.

## Plan

1. *Done*: Registration, Installer, CncRestart with the first proofs of each;
   OutputRelay with CommandLine, WrapperHook, IniParser, CncSettings.
2. *Done*: every safety invariant and action property of the runs as a theorem, the
   refinement of Registration among them.
3. *Left*: the hazards of `PROJECT.json` without a property, each with its reason there.
