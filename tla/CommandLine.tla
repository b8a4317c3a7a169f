----------------------------- MODULE CommandLine -----------------------------
(***************************************************************************)
(* How RDPWInst.exe hands its arguments to the elevated child: wmain takes *)
(* the two hidden arguments out, relaunchElevated quotes the others and    *)
(* adds hidden ones of its own, the C runtime takes the line apart, and    *)
(* wmain runs again.  An argument is a sequence of characters; a hidden    *)
(* one begins with a mark, the rest of it is a number or a name.           *)
(***************************************************************************)
EXTENDS Integers, SequencesExt

Space == " "      \* stands for all the white space that find_first_of looks for
Quote == "\""
Slash == "\\"

PidMark  == "="   \* kConsolePidArgument
PipeMark == "@"   \* kOutputPipeArgument
Digit    == "1"

Repeat(ch, n) == [i \in 1 .. n |-> ch]

-----------------------------------------------------------------------------
(* quoteArgument.                                                          *)

Plain(argument) == argument # <<>> /\ ToSet(argument) \cap {Space, Quote} = {}

PutQuoted_AsOthers(q, ch) ==
    IF ch = Slash
    THEN [q EXCEPT !.slashes = @ + 1]
    ELSE [text |-> q.text \o Repeat(Slash, q.slashes) \o (IF ch = Quote THEN <<Slash, ch>> ELSE <<ch>>),
          slashes |-> 0]

PutQuoted(q, ch) ==
    CASE ch = Slash -> [q EXCEPT !.slashes = @ + 1]
      [] ch = Quote -> [text |-> q.text \o Repeat(Slash, 2 * q.slashes + 1) \o <<ch>>, slashes |-> 0]
      [] OTHER      -> [text |-> q.text \o Repeat(Slash, q.slashes) \o <<ch>>, slashes |-> 0]

QuoteArgument(argument) ==
    LET q[n \in 0 .. Len(argument)] ==
          IF n = 0 THEN [text |-> <<Quote>>, slashes |-> 0] ELSE PutQuoted(q[n - 1], argument[n])
        end == q[Len(argument)]
    IN  IF Plain(argument) THEN argument
        ELSE end.text \o Repeat(Slash, 2 * end.slashes) \o <<Quote>>

(* The parameters of relaunchElevated; an empty pipe name is no pipe.      *)
Parameters(arguments, pid, pipe) ==
    LET hidden == <<<<PidMark>> \o pid>>
                    \o IF pipe = <<>> THEN <<>> ELSE <<QuoteArgument(<<PipeMark>> \o pipe)>>
        words == [i \in DOMAIN arguments |-> QuoteArgument(arguments[i])] \o hidden
    IN  FlattenSeq([i \in DOMAIN words |-> IF i = 1 THEN words[i] ELSE <<Space>> \o words[i]])

-----------------------------------------------------------------------------
(* The C runtime's rule for a line: slashes are themselves, but before a   *)
(* quotation mark two make one, and an odd one makes the mark a character; *)
(* other marks open and close a quotation, outside which spaces separate.  *)

Reading(words, word, slashes, quoted, begun) ==
    [words |-> words, word |-> word, slashes |-> slashes, quoted |-> quoted, begun |-> begun]

Between(words) == Reading(words, <<>>, 0, FALSE, FALSE)

Flushed(s) == s.word \o Repeat(Slash, s.slashes)
Halved(s)  == s.word \o Repeat(Slash, s.slashes \div 2)
WordsOf(s) == IF s.begun THEN Append(s.words, Flushed(s)) ELSE s.words

Take(s, ch) ==
    CASE ch = Slash -> Reading(s.words, s.word, s.slashes + 1, s.quoted, TRUE)
      [] ch = Quote /\ s.slashes % 2 = 1 -> Reading(s.words, Append(Halved(s), Quote), 0, s.quoted, s.begun)
      [] ch = Quote /\ s.slashes % 2 = 0 -> Reading(s.words, Halved(s), 0, ~s.quoted, TRUE)
      [] ch = Space /\ ~s.quoted -> Between(WordsOf(s))
      [] OTHER -> Reading(s.words, Append(Flushed(s), ch), 0, s.quoted, TRUE)

TakeApart(line) ==
    LET s[n \in 0 .. Len(line)] == IF n = 0 THEN Between(<<>>) ELSE Take(s[n - 1], line[n])
    IN  WordsOf(s[Len(line)])

-----------------------------------------------------------------------------
(* wmain: the effective arguments and what the hidden ones say; the last   *)
(* of each kind counts, and a number that is not one is passed over.       *)

Begins(argument, mark) == argument # <<>> /\ Head(argument) = mark

NoPid == <<>>

TakeOut(e, argument) ==
    CASE Begins(argument, PidMark) ->
           IF ToSet(Tail(argument)) \subseteq {Digit} THEN [e EXCEPT !.consolePid = Tail(argument)] ELSE e
      [] Begins(argument, PipeMark) -> [e EXCEPT !.outputPipe = Tail(argument)]
      [] OTHER -> [e EXCEPT !.arguments = Append(@, argument)]

Effective(arguments) ==
    LET e[n \in 0 .. Len(arguments)] ==
          IF n = 0 THEN [arguments |-> <<>>, consolePid |-> NoPid, outputPipe |-> <<>>]
          ELSE TakeOut(e[n - 1], arguments[n])
    IN  e[Len(arguments)]

=============================================================================
