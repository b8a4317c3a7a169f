---------------------------- MODULE OutputRelay ----------------------------
(***************************************************************************)
(* RDPWInst.exe (src-installer/RDPWInst.cpp) started without elevation:    *)
(* the launcher creates a named pipe, starts itself again elevated, with   *)
(* its arguments and two hidden ones, and shows what that child writes     *)
(* into the pipe until the child has ended.                                *)
(* Text is UTF-16; the pipe carries bytes and a read may end inside a      *)
(* character.  Bytes are numbered in the order they are written.           *)
(***************************************************************************)
EXTENDS CommandLine

CONSTANTS
    Length,      \* characters a command prints at most
    Capacity,    \* bytes the launcher reads at most at once
    PipeSize,    \* bytes the pipe holds
    Given,       \* the lists of arguments the program may be started with
    Pid,         \* the launcher's process, as a number is written
    PipeName,
    Faults,      \* the kinds of call that may fail
    MaxFaults

(* No pipe; the child is refused; no event; a wait, a read, the showing of *)
(* text fails; the child cannot open the pipe; a process is terminated.    *)
FaultKinds == {"pipe", "refused", "event", "wait", "read", "show", "open", "kill"}

ASSUME RelayAssumption ==
    /\ Length \in Nat /\ Capacity \in Nat \ {0} /\ PipeSize \in Nat \ {0}
    /\ Faults \subseteq FaultKinds /\ MaxFaults \in Nat

(* Arguments are of any characters, but a process's number is of digits.   *)
ASSUME TextAssumption ==
    Given \subseteq Seq(Seq(STRING)) /\ Pid \in Seq({Digit}) /\ PipeName \in Seq(STRING)

VARIABLES
    at,        \* the launcher's next call, or "exited" or "killed"
    server,    \* its end of the pipe: "none", "open" or "closed"
    pending,   \* the vector of that name: bytes read and not yet shown
    shown,     \* characters shown, each the pair of bytes it was made of
    got,       \* bytes read from the pipe
    result,    \* the launcher's exit code
    child,     \* "none", "starting", "runs", "flushes" or "ended"
    client,    \* its end of the pipe: "none", "open" or "closed"
    out,       \* where its text goes: "pipe", "console" or "nowhere"
    printed,   \* bytes it has printed, wherever they went
    sent,      \* bytes it has put into the pipe
    code,      \* its exit code
    faults

launcherVars == <<at, server, pending, shown, got, result>>
childVars    == <<child, client, out, printed, sent, code>>
vars == <<launcherVars, childVars, faults>>

NoCode == "none"

Works == UNCHANGED faults

Fails(kind) ==
    /\ kind \in Faults
    /\ faults < MaxFaults
    /\ faults' = faults + 1

Alive == at \notin {"exited", "killed"}

(* Bytes in the pipe; they can be read after the writing end is closed,    *)
(* and are gone when the reading end is.                                   *)
InPipe == IF server = "open" THEN sent - got ELSE 0

-----------------------------------------------------------------------------
(* The launcher: relaunchElevated.                                         *)

CreatePipe ==
    /\ at = "create"
    /\ at' = "launch"
    /\ \/ server' = "open" /\ Works
       \/ server' = "none" /\ Fails("pipe")
    /\ UNCHANGED <<pending, shown, got, result, childVars>>

(* The user may refuse the elevation.                                      *)
Launch ==
    /\ at = "launch"
    /\ \/ /\ child' = "starting"
          /\ at' = IF server = "open" THEN "connect" ELSE "await"
          /\ Works
          /\ UNCHANGED <<server, result>>
       \/ /\ Fails("refused")
          /\ at' = "exited"
          /\ result' = "refused"
          /\ server' = IF server = "open" THEN "closed" ELSE server
          /\ UNCHANGED child
    /\ UNCHANGED <<pending, shown, got, client, out, printed, sent, code>>

(* connectOutputPipe.  A child that has opened the pipe is connected       *)
(* already; one that has closed it again is not taken for connected.       *)
Connect ==
    /\ at = "connect"
    /\ \/ /\ at' = CASE client = "open"   -> "read"
                     [] client = "closed" -> "close"
                     [] client = "none"   -> "pending"
          /\ Works
       \/ /\ Fails("event")
          /\ at' = "close"
    /\ UNCHANGED <<server, pending, shown, got, result, childVars>>

AwaitClient_PipeOnly ==
    /\ at = "pending"
    /\ at' = IF client = "none" THEN "pending" ELSE "read"
    /\ Works
    /\ UNCHANGED <<server, pending, shown, got, result, childVars>>

(* It waits for a connection and for the end of the child, which may never *)
(* open the pipe.                                                          *)
AwaitClient ==
    /\ at = "pending"
    /\ \/ client # "none" /\ at' = "read" /\ Works
       \/ client = "none" /\ child = "ended" /\ at' = "close" /\ Works
       \/ Fails("wait") /\ at' = "close"
    /\ UNCHANGED <<server, pending, shown, got, result, childVars>>

(* The characters that whole pairs of bytes make, and what they leave.     *)
Characters(bytes) == [i \in 1 .. Len(bytes) \div 2 |-> <<bytes[2 * i - 1], bytes[2 * i]>>]
Rest_Cleared(bytes) == <<>>
Rest_NotErased(bytes) == bytes
Rest(bytes) == SubSeq(bytes, 2 * (Len(bytes) \div 2) + 1, Len(bytes))

(* readOutputPipe, and the text of what was read; text that cannot be      *)
(* shown is dropped, and the reading goes on.                              *)
ReadOutput ==
    /\ at = "read"
    /\ \/ \E n \in 1 .. Capacity :
            LET bytes == pending \o [i \in 1 .. n |-> got + i]
            IN  /\ n <= InPipe
                /\ got' = got + n
                /\ pending' = Rest(bytes)
                /\ \/ shown' = shown \o Characters(bytes) /\ Works
                   \/ \E m \in 0 .. Len(Characters(bytes)) - 1 :
                        shown' = shown \o SubSeq(Characters(bytes), 1, m) /\ Fails("show")
          /\ UNCHANGED at
       \/ /\ InPipe = 0 /\ client = "closed"
          /\ at' = "close"
          /\ Works
          /\ UNCHANGED <<pending, shown, got>>
       \/ /\ Fails("read")
          /\ at' = "close"
          /\ UNCHANGED <<pending, shown, got>>
    /\ UNCHANGED <<server, result, childVars>>

ClosePipe ==
    /\ at = "close"
    /\ server' = "closed"
    /\ at' = "await"
    /\ Works
    /\ UNCHANGED <<pending, shown, got, result, childVars>>

AwaitChild_Detach ==
    /\ at = "await" /\ at' = "exited"
    /\ result' = code
    /\ UNCHANGED <<server, pending, shown, got, childVars, faults>>

(* A wait that fails ends the launcher while the child goes on.            *)
AwaitChild ==
    /\ at = "await"
    /\ \/ child = "ended" /\ result' = code /\ Works
       \/ Fails("wait") /\ result' = "failed"
    /\ at' = "exited"
    /\ UNCHANGED <<server, pending, shown, got, childVars>>

Launcher == CreatePipe \/ Launch \/ Connect \/ AwaitClient \/ ReadOutput
            \/ ClosePipe \/ AwaitChild

-----------------------------------------------------------------------------
(* The elevated child.                                                     *)

(* redirectOutputToPipe, or the launcher's console if that is still there. *)
OpenOutput ==
    /\ child = "starting"
    /\ child' = "runs"
    /\ \/ /\ server = "open"
          /\ client' = "open"
          /\ out' = "pipe"
          /\ Works
       \/ /\ IF server = "open" THEN Fails("open") ELSE Works
          /\ out' = IF Alive THEN "console" ELSE "nowhere"
          /\ UNCHANGED client
    /\ UNCHANGED <<launcherVars, printed, sent, code>>

(* WidePipeBuffer::write: it waits for room; a pipe nobody reads any more  *)
(* breaks the stream, and the command goes on without output.              *)
WriteText ==
    /\ child = "runs"
    /\ printed < 2 * Length
    /\ printed' = printed + 1
    /\ IF out = "pipe" /\ server = "open"
       THEN /\ InPipe < PipeSize
            /\ sent' = sent + 1
            /\ UNCHANGED out
       ELSE /\ out' = IF out = "pipe" THEN "nowhere" ELSE out
            /\ UNCHANGED sent
    /\ Works
    /\ UNCHANGED <<launcherVars, child, client, code>>

(* wmain returns, after as many whole characters as the command prints.    *)
Return ==
    /\ child = "runs"
    /\ printed % 2 = 0
    /\ child' = "flushes"
    /\ code' \in {"ok", "error"}
    /\ Works
    /\ UNCHANGED <<launcherVars, client, out, printed, sent>>

ChildEnds ==
    /\ child' = "ended"
    /\ client' = IF client = "open" THEN "closed" ELSE client
    /\ UNCHANGED <<launcherVars, out, printed, sent>>

(* The streams are flushed when the program ends: FlushFileBuffers returns *)
(* when the launcher has read all there is.                                *)
Flush_AtOnce ==
    /\ child = "flushes" /\ ChildEnds
    /\ UNCHANGED <<code, faults>>

Flush ==
    /\ child = "flushes"
    /\ out = "pipe" => InPipe = 0
    /\ ChildEnds
    /\ Works
    /\ UNCHANGED code

Child == OpenOutput \/ WriteText \/ Return \/ Flush

(* Windows closes the handles of a process that is terminated.             *)
Killed ==
    /\ Fails("kill")
    /\ \/ /\ Alive
          /\ at' = "killed"
          /\ server' = IF server = "open" THEN "closed" ELSE server
          /\ UNCHANGED <<pending, shown, got, result, childVars>>
       \/ /\ child \notin {"none", "ended"}
          /\ ChildEnds
          /\ code' = "killed"

-----------------------------------------------------------------------------

Init ==
    /\ at = "create" /\ server = "none" /\ pending = <<>> /\ shown = <<>> /\ got = 0
    /\ result = NoCode
    /\ child = "none" /\ client = "none" /\ out = "nowhere" /\ printed = 0 /\ sent = 0
    /\ code = NoCode
    /\ faults = 0

Over == ~Alive /\ child \in {"none", "ended"} /\ UNCHANGED vars

Next == Launcher \/ Child \/ Killed \/ Over

Spec == Init /\ [][Next]_vars

(* Both processes run; nobody holds up the console.                        *)
FairSpec == Spec /\ WF_vars(Launcher) /\ WF_vars(Child)

-----------------------------------------------------------------------------
(* Properties.                                                             *)

(* The types of the variables; no more is in the pipe than it holds.       *)
TypeOK ==
    /\ at \in {"create", "launch", "connect", "pending", "read", "close", "await",
               "exited", "killed"}
    /\ server \in {"none", "open", "closed"} /\ client \in {"none", "open", "closed"}
    /\ child \in {"none", "starting", "runs", "flushes", "ended"}
    /\ out \in {"pipe", "console", "nowhere"}
    /\ result \in {NoCode, "refused", "failed", "ok", "error", "killed"}
    /\ code \in {NoCode, "ok", "error", "killed"}
    /\ pending \in Seq(Nat) /\ Len(pending) <= 1
    /\ shown \in Seq(Nat \X Nat)
    /\ printed \in 0 .. 2 * Length /\ sent \in 0 .. printed /\ got \in 0 .. sent
    /\ InPipe <= PipeSize
    /\ faults \in 0 .. MaxFaults

(* Whatever fails, the launcher shows characters the child has written, in *)
(* their order, none twice, and none made of the halves of two.            *)
Faithful ==
    /\ \A i \in DOMAIN shown : shown[i][1] % 2 = 1 /\ shown[i][2] = shown[i][1] + 1
    /\ \A i, j \in DOMAIN shown : i < j => shown[i][1] < shown[j][1]
    /\ \A i \in DOMAIN shown : shown[i][2] <= got

(* "the elevated child writes its wide output to that pipe, and the parent *)
(* forwards it to the original CMD" (src-installer/README.md:25): when no  *)
(* call fails, all of it, however early the child ends.                    *)
AllForwarded ==
    at = "exited" /\ faults = 0 => 2 * Len(shown) = printed /\ pending = <<>>

(* The launcher ends after the child, "remains blocked" for the console    *)
(* the child may have attached to (RDPWInst.cpp:1475), and its exit code   *)
(* is the child's.                                                         *)
ExitFollowsChild ==
    at = "exited" /\ result \notin {"refused", "failed"} => child = "ended" /\ result = code

(* The child reads from its command line the arguments the launcher was    *)
(* given, whatever characters they are made of, the launcher's process and *)
(* its pipe, none if there is none, also when it was given hidden ones     *)
(* itself (RDPWInst.cpp:1364-1412 against 1513-1525).                      *)
ArgumentsArrive ==
    at = "launch" => \A given \in Given :
        LET arguments == Effective(given).arguments
            pipe == IF server = "open" THEN PipeName ELSE <<>>
        IN  Effective(TakeApart(Parameters(arguments, Pid, pipe))) =
              [arguments |-> arguments, consolePid |-> Pid, outputPipe |-> pipe]

(* The command the child runs and the launcher end in every interleaving,  *)
(* whether or not the pipe is ever connected, read or shown.               *)
RelayEnds == child = "starting" ~> child = "ended" /\ ~Alive

=============================================================================
