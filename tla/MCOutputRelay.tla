---------------------------- MODULE MCOutputRelay ----------------------------
(* Arguments of the characters that quoting tells apart and of the marks.  *)
EXTENDS OutputRelay

Alphabet == {"a", Space, Quote, Slash, PidMark, PipeMark}

MCGiven == {<<a>> : a \in BoundedSeq(Alphabet, 4)}
             \cup {<<a, b>> : a, b \in BoundedSeq(Alphabet, 2)} \cup {<<>>}

MCPid      == <<Digit>>
MCPipeName == <<Slash, Slash, "a">>

=============================================================================
