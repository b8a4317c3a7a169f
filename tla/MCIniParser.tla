----------------------------- MODULE MCIniParser -----------------------------
(* The options of the wrapper, the parser's own defaults and the rest,     *)
(* each with the lines that make a difference to it.                       *)
EXTENDS IniParser

Options(strict, emptyLines, noValue, unnamed, interpolation) ==
    [strict |-> strict, emptyLines |-> emptyLines, noValue |-> noValue,
     unnamed |-> unnamed, interpolation |-> interpolation]

\* rdpwrap_hook.cpp:230-233
WrapperOptions == Options(FALSE, TRUE, FALSE, FALSE, "none")
\* ParseOptions as declared
DefaultOptions == Options(TRUE, TRUE, FALSE, FALSE, "basic")
OtherOptions   == Options(FALSE, FALSE, TRUE, TRUE, "extended")
\* strict, with a section for what stands above all headers
UnnamedOptions == Options(TRUE, TRUE, FALSE, TRUE, "none")

Layout == {Line(Blank), Line(Header("A")), Line(Header("B")), Line(Option("k", Word("v"))),
           Line(Option("k", Blank)), Line(Option("", Word("v"))), Line(Word("v")),
           Line(Header("")), Indented(Word("v")), Indented(Header("A")), Indented(Option("k", Word("w")))}

Nameless == {Line(Header("A")), Line(Header(Unnamed)), Line(Header("")), Line(Blank),
             Line(Option("k", Word("v"))), Line(Option("l", Word("v"))), Indented(Word("w"))}

References == {Line(Header(Default)), Line(Header("A")), Line(Blank), Line(Option("k", Ref("", "l"))),
               Line(Option("l", Ref("", "k"))), Line(Option("k", Word("v"))), Line(Option("l", Bad)),
               Indented(Ref("", "l"))}

Extended == {Line(Header("A")), Line(Header("B")), Line(Option("k", Ref("B", "k"))), Line(Blank),
             Line(Option("k", Ref("", "l"))), Line(Option("l", Word("v"))), Line(Word("l")),
             Indented(Ref("A", "l"))}

Published == {Line(Header("Main")), Line(Header("SLPolicy")), Line(Option("updated", Word("day"))),
              Line(Option("updated", Word("v"))), Comment({"Main", "updated"}), Line(Word("v")),
              Indented(Header("Main")), Indented(Option("updated", Word("day")))}

Case(o, ls, size, edits) == [opts |-> o, lines |-> ls, size |-> size, edits |-> edits]

MCCases == {Case(WrapperOptions, Layout, 4, 0), Case(WrapperOptions, Published, 4, 0),
            Case(UnnamedOptions, Nameless, 4, 0), Case(WrapperOptions, Nameless, 4, 0),
            Case(DefaultOptions, References, 4, 1), Case(OtherOptions, Extended, 4, 0),
            Case(OtherOptions, Extended, 2, 2)}

MCNames  == {Default, "A", "B"}
MCKeys   == {"k", "l"}
MCValues == {<<Word("v"), Blank, Ref("", "k")>>, NoValue}
MCDates  == {"day"}

=============================================================================
