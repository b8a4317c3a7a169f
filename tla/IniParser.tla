------------------------------ MODULE IniParser ------------------------------
(***************************************************************************)
(* The configuration parser (src-multiarch/cpp_configparser): its object,  *)
(* the line machine of read_string, the edits, the lookups with            *)
(* interpolation, and write_to_string.  A line is one token: what          *)
(* strip_comment leaves of it, and whether it began with white space.      *)
(* Three other programs look at the same text without the parser;          *)
(* SupportLevel, ValidIniContent and IniDate are what they make of it.     *)
(***************************************************************************)
EXTENDS Integers, SequencesExt

CONSTANTS
    Cases,        \* [opts |-> ParseOptions, lines |-> the lines of its files, and bounds:
                  \*  size |-> lines read and edits |-> edits made in one behaviour]
    Names,        \* sections a lookup or an edit may name
    Keys,         \* options a lookup or an edit may name
    Values,       \* values set() is given
    Dates,        \* the words that are dates
    MaxDepth      \* max_interpolation_depth

ASSUME IniBounds ==
    MaxDepth \in Nat \ {0} /\ \A c \in Cases : c.size \in Nat /\ c.edits \in Nat

Default == "DEFAULT"
Unnamed == "<UNNAMED_SECTION>"
\* the empty string
NoName  == ""

(* Cleaned lines.  A value is the sequence of the cleaned lines it was     *)
(* made of; a "ref" is an interpolation, a "bad" one an unfinished one.    *)
Blank        == [kind |-> "blank"]
Header(s)    == [kind |-> "header", name |-> s]
Option(k, c) == [kind |-> "option", key |-> k, value |-> c]
Word(w)      == [kind |-> "word", word |-> w]
Ref(s, k)    == [kind |-> "ref", sec |-> s, key |-> k]
Bad          == [kind |-> "bad"]

NoValue == <<[kind |-> "none"]>>

(* What can be the text of a value, and what a whole line; options have    *)
(* values as stored ones do.                                               *)
Pieces == {Blank, Bad} \cup [kind : {"word"}, word : STRING \ {NoName}]
                       \cup [kind : {"ref"}, sec : STRING, key : STRING]
Cleaned == Pieces \cup [kind : {"header"}, name : STRING]
                  \cup [kind : {"option"}, key : STRING, value : Pieces]
Stored == {NoValue} \cup Seq(Cleaned)

(* A line: cleaned, whether it is indented, and what a comment mentions.   *)
Raw(c, i)    == [clean |-> c, indented |-> i, says |-> {}]
Line(c)      == Raw(c, FALSE)
Indented(c)  == Raw(c, TRUE)
Comment(ms)  == [clean |-> Blank, indented |-> FALSE, says |-> ms]

Lines == [clean : Cleaned, indented : BOOLEAN, says : SUBSET STRING]

ParseOptions == [strict : BOOLEAN, emptyLines : BOOLEAN, noValue : BOOLEAN, unnamed : BOOLEAN,
                 interpolation : {"none", "basic", "extended"}]

ASSUME LinesAssumption ==
    /\ \A c \in Cases : c.opts \in ParseOptions /\ c.lines \subseteq Lines
    /\ Names \cup Keys \cup {Default, Unnamed, Bad.kind, "ref"} \subseteq STRING
    /\ Values \subseteq Stored

VARIABLES
    opts,         \* options_, fixed when the object is made
    lines,        \* the lines of the files this instance reads
    ini,          \* defaults_, sections_, section_index_
    rd,           \* the local variables of read_string
    reading,      \* it is in its loop
    \* history and bounds
    text,         \* what the last read_string has read
    base,         \* what the object held before it
    result,       \* how it ended: "none", "ok" or "failed"
    toEdit, toRead    \* what is left of the bounds

vars == <<opts, lines, ini, rd, reading, text, base, result, toEdit, toRead>>

-----------------------------------------------------------------------------
(* Sections and their options.                                             *)

Empty == [defaults |-> <<>>, sections |-> <<>>, index |-> <<>>]

HasSection(p, s) == s = Default \/ s \in DOMAIN p.index

Items(p, s) == IF s = Default THEN p.defaults ELSE p.sections[p.index[s]].items

WithItems(p, s, items) ==
    IF s = Default THEN [p EXCEPT !.defaults = items]
                   ELSE [p EXCEPT !.sections[p.index[s]].items = items]

NewSection(p, s) ==
    [p EXCEPT !.sections = Append(@, [name |-> s, items |-> <<>>]),
              !.index = [n \in DOMAIN @ \cup {s} |->
                           IF n = s THEN Len(p.sections) + 1 ELSE @[n]]]

Listed(items) == {items[i].key : i \in DOMAIN items}

Place(items, k) == CHOOSE i \in DOMAIN items : items[i].key = k

ValueIn(items, k) == items[Place(items, k)].value

Put(items, k, v) ==
    IF k \in Listed(items)
    THEN [i \in DOMAIN items |-> IF items[i].key = k THEN [key |-> k, value |-> v] ELSE items[i]]
    ELSE Append(items, [key |-> k, value |-> v])

(* join_lines: white space at the end goes, empty lines included.          *)
Trimmed(v) ==
    SubSeq(v, 1, CHOOSE n \in 0 .. Len(v) :
                    /\ \A i \in n + 1 .. Len(v) : v[i] = Blank
                    /\ n = 0 \/ v[n] # Blank)

-----------------------------------------------------------------------------
(* read_string: its local variables and what a line does to them and to    *)
(* the object.  An operator takes and returns both, since write_to_string  *)
(* is checked by reading its result again.                                 *)

Reader == [section |-> NoName, option |-> NoName, accum |-> <<>>, multi |-> FALSE,
           errors |-> FALSE, thrown |-> FALSE]

(* finish_multiline.                                                       *)
FinishMultiline_NotJoined(p, r) ==
    IF r.option \in Listed(Items(p, r.section))
    THEN WithItems(p, r.section, Put(Items(p, r.section), r.option, <<Head(r.accum)>>))
    ELSE p

FinishMultiline(p, r) ==
    IF r.option \in Listed(Items(p, r.section))
    THEN WithItems(p, r.section, Put(Items(p, r.section), r.option, Trimmed(r.accum)))
    ELSE p

Throw(p, r)       == <<p, [r EXCEPT !.thrown = TRUE]>>
RecordError(p, r) == <<p, [r EXCEPT !.errors = TRUE]>>

ReadHeader(p, r, s) ==
    LET q == [r EXCEPT !.section = s, !.option = NoName]
    IN  CASE s = NoName                                      -> RecordError(p, q)
          [] s # NoName /\ ~HasSection(p, s)             -> <<NewSection(p, s), q>>
          [] s # NoName /\ HasSection(p, s) /\ s # Default /\ opts.strict -> Throw(p, q)
          [] OTHER                                       -> <<p, q>>

Assign(p, r, k, v) ==
    IF opts.strict /\ k \in Listed(Items(p, r.section))
    THEN Throw(p, r)
    ELSE <<WithItems(p, r.section, Put(Items(p, r.section), k, IF v = NoValue THEN v ELSE Trimmed(v))),
           [r EXCEPT !.option = k,
                     !.accum = IF v = NoValue THEN <<>> ELSE v,
                     !.multi = v # NoValue]>>

(* A line without a delimiter is an option without a value, if those are   *)
(* allowed; its text is the option's name.                                 *)
AsKey(c) == IF c.kind = "word" THEN c.word ELSE c.kind

ReadOption(p, r, c) ==
    CASE c.kind = "option" /\ c.key # NoName   -> Assign(p, r, c.key, <<c.value>>)
      [] c.kind # "option" /\ opts.noValue     -> Assign(p, r, AsKey(c), NoValue)
      [] OTHER                                 -> RecordError(p, r)

OutsideSection(p, r, c) ==
    IF ~opts.unnamed
    THEN Throw(p, r)
    ELSE ReadOption(IF HasSection(p, Unnamed) THEN p ELSE NewSection(p, Unnamed),
                    [r EXCEPT !.section = Unnamed], c)

ReadNew(p, r, c) ==
    CASE c.kind = "header"                       -> ReadHeader(p, r, c.name)
      [] c.kind # "header" /\ r.section = NoName -> OutsideSection(p, r, c)
      [] OTHER                                   -> ReadOption(p, r, c)

(* parse_line.  An empty line inside a value belongs to it, or, without    *)
(* empty_lines_in_values, ends it with what was gathered forgotten.        *)
ParseLine(p, r, line) ==
    LET c == line.clean
        inside == r.multi /\ r.option # NoName
        more == [r EXCEPT !.accum = Append(@, c)]
    IN  CASE c = Blank /\ r.multi /\ opts.emptyLines      -> <<p, more>>
          [] c = Blank /\ ~(r.multi /\ opts.emptyLines)   -> <<p, [r EXCEPT !.multi = FALSE]>>
          [] c # Blank /\ inside /\ line.indented         -> <<p, more>>
          [] c # Blank /\ inside /\ ~line.indented        ->
               ReadNew(FinishMultiline(p, r), [r EXCEPT !.multi = FALSE, !.accum = <<>>], c)
          [] c # Blank /\ ~inside                         -> ReadNew(p, r, c)

(* What read_string does after its loop.                                   *)
EndOfText(p, r) == IF r.multi /\ r.option # NoName THEN FinishMultiline(p, r) ELSE p

Accepted(r) == ~r.errors /\ ~r.thrown

ReadLines(p, ls) ==
    LET after[i \in 0 .. Len(ls)] ==
          IF i = 0 THEN <<p, Reader>>
          ELSE IF after[i - 1][2].thrown THEN after[i - 1]
               ELSE ParseLine(after[i - 1][1], after[i - 1][2], ls[i])
        end == after[Len(ls)]
    IN  [ini |-> EndOfText(end[1], end[2]), ok |-> Accepted(end[2])]

-----------------------------------------------------------------------------
(* The object's operations.                                                *)

ReadString ==
    /\ ~reading
    /\ reading' = TRUE
    /\ rd' = Reader
    /\ text' = <<>>
    /\ base' = ini
    /\ result' = "none"
    /\ UNCHANGED <<opts, lines, ini, toEdit, toRead>>

ReadLine ==
    /\ reading /\ ~rd.thrown
    /\ toRead > 0
    /\ \E line \in lines :
         LET next == ParseLine(ini, rd, line)
         IN  /\ ini' = next[1]
             /\ rd' = next[2]
             /\ text' = Append(text, line)
    /\ toRead' = toRead - 1
    /\ UNCHANGED <<opts, lines, reading, base, result, toEdit>>

(* An exception leaves the loop at once, with what was read in the object. *)
EndRead ==
    /\ reading
    /\ reading' = FALSE
    /\ ini' = IF rd.thrown THEN ini ELSE EndOfText(ini, rd)
    /\ rd' = Reader
    /\ result' = IF Accepted(rd) THEN "ok" ELSE "failed"
    /\ UNCHANGED <<opts, lines, text, base, toEdit, toRead>>

Edit(p) ==
    /\ ~reading
    /\ toEdit > 0
    /\ toEdit' = toEdit - 1
    /\ ini' = p
    /\ text' = <<>>
    /\ base' = Empty
    /\ result' = "none"
    /\ UNCHANGED <<opts, lines, rd, reading, toRead>>

AddSection == \E s \in Names :
    /\ ~HasSection(ini, s)
    /\ Edit(NewSection(ini, s))

(* set(): an empty section name means the default section.                 *)
SetOption == \E s \in Names, k \in Keys, v \in Values :
    /\ HasSection(ini, s)
    /\ Edit(WithItems(ini, s, Put(Items(ini, s), k, v)))

(* erase(remove_if): one, since no option is listed twice.                 *)
Without(items, k) == RemoveAt(items, Place(items, k))

RemoveOption == \E s \in Names, k \in Keys :
    /\ HasSection(ini, s)
    /\ k \in Listed(Items(ini, s))
    /\ Edit(WithItems(ini, s, Without(Items(ini, s), k)))

(* remove_section builds section_index_ anew.                              *)
Unlisted_KeepPositions(p, s) ==
    [p EXCEPT !.sections = RemoveAt(@, p.index[s]),
              !.index = [n \in DOMAIN @ \ {s} |-> @[n]]]

Unlisted(p, s) ==
    LET rest == RemoveAt(p.sections, p.index[s])
    IN  [p EXCEPT !.sections = rest,
                  !.index = [n \in {rest[i].name : i \in DOMAIN rest} |->
                               CHOOSE i \in DOMAIN rest : rest[i].name = n]]

RemoveSection == \E s \in Names :
    /\ s \in DOMAIN ini.index
    /\ Edit(Unlisted(ini, s))

Clear == Edit(Empty)

-----------------------------------------------------------------------------
(* Lookups.  A set of values is empty (an error) or holds the one found.   *)

GetRaw(p, s, k) ==
    LET own == HasSection(p, s) /\ k \in Listed(Items(p, s))
    IN  IF own THEN {ValueIn(Items(p, s), k)}
        ELSE {ValueIn(p.defaults, x) : x \in Listed(p.defaults) \cap {k}}

HasOption(p, s, k) == HasSection(p, s) /\ k \in Listed(Items(p, s)) \cup Listed(p.defaults)

(* items(): the section's own options, then the defaults it lacks.         *)
AllItems(p, s) ==
    LET out[i \in 0 .. Len(p.defaults)] ==
          IF i = 0 THEN Items(p, s)
          ELSE IF p.defaults[i].key \in Listed(out[i - 1]) THEN out[i - 1]
               ELSE Append(out[i - 1], p.defaults[i])
    IN  IF s = Default THEN Items(p, s) ELSE out[Len(p.defaults)]

IsReference(c) ==
    \/ opts.interpolation = "extended" /\ c.kind = "ref"
    \/ opts.interpolation = "basic" /\ c.kind = "ref" /\ c.sec = NoName

(* An extended reference may name another section, and what it finds is    *)
(* interpolated there.                                                     *)
TargetSection(s, c) == IF c.sec = NoName THEN s ELSE c.sec

(* interpolate, interpolate_basic, interpolate_extended: depth counts from *)
(* 1 at get() to the limit.  An error is the piece Bad in the result.      *)
DepthExceeded_OffByOne(depth) == depth >= MaxDepth

DepthExceeded(depth) == depth > MaxDepth

\* deeper[t][v] is what the value v found in section t expands to
Substitute(p, t, v, deeper) ==
    FlattenSeq([i \in DOMAIN v |->
        IF ~IsReference(v[i]) THEN <<v[i]>>
        ELSE LET target == TargetSection(t, v[i])
                 found == GetRaw(p, target, v[i].key)
                 w == CHOOSE w \in found : TRUE
             IN  IF found = {} THEN <<Bad>> ELSE IF w = NoValue THEN <<>> ELSE deeper[target][w]])

Interpolate(p, s, k) ==
    LET at[d \in 1 .. MaxDepth + 1] ==
          [t \in STRING |-> [v \in Stored |->
             IF DepthExceeded(d) THEN <<Bad>> ELSE Substitute(p, t, v, at[d + 1])]]
        raw == CHOOSE v \in GetRaw(p, s, k) : TRUE
    IN  IF raw = NoValue \/ opts.interpolation = "none" THEN raw ELSE at[1][s][raw]

Get(p, s, k) == IF Interpolate(p, s, k) = NoValue THEN <<>> ELSE Interpolate(p, s, k)

-----------------------------------------------------------------------------
(* write_to_string.  Only the lines of a value in a section of its own are *)
(* indented.                                                               *)

WriteItem(e, indent) ==
    CASE e.value = NoValue -> <<Line(IF opts.noValue THEN Word(e.key) ELSE Option(e.key, Blank))>>
      [] e.value = <<>>    -> <<Line(Option(e.key, Blank))>>
      [] OTHER             -> <<Line(Option(e.key, Head(e.value)))>>
                                \o [i \in DOMAIN Tail(e.value) |-> Raw(e.value[i + 1], indent)]

WriteItems(items, indent) ==
    FlattenSeq([i \in DOMAIN items |-> WriteItem(items[i], indent)]) \o <<Line(Blank)>>

WriteSection_NoIndent(sec) ==
    (IF sec.name = Unnamed THEN <<>> ELSE <<Line(Header(sec.name))>>) \o WriteItems(sec.items, FALSE)

WriteSection(sec) ==
    (IF sec.name = Unnamed THEN <<>> ELSE <<Line(Header(sec.name))>>) \o WriteItems(sec.items, TRUE)

WriteToString(p) ==
    (IF p.defaults = <<>> THEN <<>>
     ELSE <<Line(Header(Default))>> \o WriteItems(p.defaults, FALSE))
    \o FlattenSeq([i \in DOMAIN p.sections |-> WriteSection(p.sections[i])])

-----------------------------------------------------------------------------
(* Those who read the text without the parser.                             *)

(* supportLevel of RDP_CnC: 2, "fully supported", is a line that is the    *)
(* header of the version.                                                  *)
SupportLevel_Anywhere(t, version) ==
    IF \E i \in DOMAIN t : t[i].clean = Header(version) \/ version \in t[i].says THEN 2 ELSE 0

SupportLevel(t, version) == IF \E i \in DOMAIN t : t[i].clean = Header(version) THEN 2 ELSE 0

IsUpdated(c) == c.kind = "option" /\ c.key = "updated"

Mentions(line, s) == line.clean = Header(s) \/ s \in line.says

MentionsUpdated(line) == IsUpdated(line.clean) \/ "updated" \in line.says

IsDate(c) == c.kind = "word" /\ c.word \in Dates

(* validIniContent of RDPWInst: the two headers occur anywhere, and the    *)
(* first "Updated=" begins a line and has a date.                          *)
ValidIniContent(t) ==
    /\ \E i \in DOMAIN t : Mentions(t[i], "Main")
    /\ \E i \in DOMAIN t : Mentions(t[i], "SLPolicy")
    /\ \E i \in DOMAIN t :
         /\ IsUpdated(t[i].clean) /\ ~t[i].indented /\ IsDate(t[i].clean.value)
         /\ \A j \in 1 .. i - 1 : ~MentionsUpdated(t[j])

(* iniDate of RDPWInst: the value of the first line that begins with       *)
(* "Updated=", Bad if it is not a date or there is none.                   *)
IniDate(t) ==
    LET at == {i \in DOMAIN t : IsUpdated(t[i].clean) /\ ~t[i].indented}
    IN  IF at = {} THEN Bad
        ELSE LET c == t[Min(at)].clean.value
             IN  IF IsDate(c) THEN c ELSE Bad

-----------------------------------------------------------------------------

Init ==
    /\ \E c \in Cases :
         opts = c.opts /\ lines = c.lines /\ toEdit = c.edits /\ toRead = c.size
    /\ ini = Empty
    /\ rd = Reader
    /\ reading = FALSE
    /\ text = <<>> /\ base = Empty /\ result = "none"

Next == ReadString \/ ReadLine \/ EndRead \/ AddSection \/ SetOption \/ RemoveOption
        \/ RemoveSection \/ Clear

Spec == Init /\ [][Next]_vars

-----------------------------------------------------------------------------
(* What a text means, line by line of the whole instead of by a machine    *)
(* that remembers: a line continues a value if it is indented and what is  *)
(* before it, empty lines aside, opens or continues one.  o is the         *)
(* parser's options and b the object before the text.                      *)

Opens(c) == c.kind = "option" /\ c.key # NoName

(* A value is open after the first i lines.                                *)
InValue(o, t, i) ==
    \E j \in 1 .. i :
        /\ Opens(t[j].clean)
        /\ \A n \in j + 1 .. i :
             IF t[n].clean = Blank THEN o.emptyLines ELSE t[n].indented

Continues(o, t) == {i \in DOMAIN t : t[i].clean # Blank /\ t[i].indented /\ InValue(o, t, i - 1)}

(* The lines that are read as headers or options of their own.             *)
Heads(o, t) == {i \in DOMAIN t : t[i].clean # Blank} \ Continues(o, t)

HeadersIn(o, t) == {i \in Heads(o, t) : t[i].clean.kind = "header"}

OptionsIn(o, t) == Heads(o, t) \ HeadersIn(o, t)

NameAt(o, t, i) ==
    LET above == {j \in HeadersIn(o, t) : j < i}
    IN  IF above = {} THEN NoName ELSE t[Max(above)].clean.name

SectionAt(o, t, i) == IF NameAt(o, t, i) = NoName THEN Unnamed ELSE NameAt(o, t, i)

KeyAt(t, i) == IF t[i].clean.kind = "option" THEN t[i].clean.key ELSE AsKey(t[i].clean)

Assigns(o, t, s, k) == {i \in OptionsIn(o, t) : SectionAt(o, t, i) = s /\ KeyAt(t, i) = k}

KeysOf(o, t, s) == {KeyAt(t, i) : i \in {j \in OptionsIn(o, t) : SectionAt(o, t, j) = s}}

ValueAt(o, t, i) ==
    LET over == {j \in Heads(o, t) : j > i}
        end == IF over = {} THEN Len(t) ELSE Min(over) - 1
    IN  IF t[i].clean.kind # "option" THEN NoValue
        ELSE Trimmed(<<t[i].clean.value>> \o [n \in 1 .. end - i |-> t[i + n].clean])

SectionsOf(o, t) ==
    ({t[i].clean.name : i \in HeadersIn(o, t)} \cup {SectionAt(o, t, i) : i \in OptionsIn(o, t)})
        \ {Default}

ItemsBefore(b, s) == IF HasSection(b, s) THEN Items(b, s) ELSE <<>>

(* No line that is neither header nor option, no option outside a section, *)
(* nothing twice if the parser is strict.                                  *)
WellFormed(o, b, t) ==
    /\ \A i \in HeadersIn(o, t) :
         /\ t[i].clean.name # NoName
         /\ o.strict /\ t[i].clean.name # Default =>
              t[i].clean.name \notin DOMAIN b.index \cup SectionsOf(o, SubSeq(t, 1, i - 1))
    /\ \A i \in OptionsIn(o, t) :
         /\ Opens(t[i].clean) \/ (o.noValue /\ t[i].clean.kind # "option")
         /\ NameAt(o, t, i) = NoName => o.unnamed
         /\ o.strict =>
              LET s == SectionAt(o, t, i)
                  k == KeyAt(t, i)
              IN  Assigns(o, t, s, k) = {i} /\ k \notin Listed(ItemsBefore(b, s))

(* Without empty_lines_in_values the code forgets the lines a value got    *)
(* before an empty line; those values are left out.                        *)
Interrupted(o, t, i) ==
    ~o.emptyLines /\ \E j \in i + 1 .. Len(t) :
        t[j].clean = Blank /\ \A n \in i + 1 .. j - 1 : n \notin Heads(o, t)

-----------------------------------------------------------------------------
(* Properties.                                                             *)

(* The object: section_index_ is the place of every section, under its own *)
(* name and no other (lookups go through it alone, parser.cpp:115-135);    *)
(* no option is listed twice; nothing is read outside read_string.         *)
TypeOK ==
    /\ DOMAIN ini.index = {ini.sections[i].name : i \in DOMAIN ini.sections}
    /\ \A s \in DOMAIN ini.index :
         ini.index[s] \in DOMAIN ini.sections /\ ini.sections[ini.index[s]].name = s
    /\ \A s \in {Default} \cup DOMAIN ini.index : \A i, j \in DOMAIN Items(ini, s) :
         Items(ini, s)[i].key = Items(ini, s)[j].key => i = j
    /\ rd.section \in {NoName, Default} \cup DOMAIN ini.index
    /\ rd.multi => rd.option \in Listed(Items(ini, rd.section)) /\ rd.accum # <<>>
    /\ ~reading => rd = Reader
    /\ result \in {"none", "ok", "failed"}
    /\ toEdit \in Nat /\ toRead \in Nat

(* read_string accepts exactly the well-formed texts, and then every       *)
(* option has the value of its last line in the text with the lines that   *)
(* continue it, or else the one it had before (parse_line and              *)
(* finish_multiline, parser.cpp:218-406, line by line).                    *)
ReadsAsWritten ==
    result # "none" =>
        /\ result = "ok" <=> WellFormed(opts, base, text)
        /\ result = "ok" =>
             /\ DOMAIN ini.index = DOMAIN base.index \cup SectionsOf(opts, text)
             /\ \A s \in {Default} \cup DOMAIN ini.index :
                  LET old == ItemsBefore(base, s)
                      new == KeysOf(opts, text, s)
                      now == Items(ini, s)
                  IN  /\ Listed(now) = Listed(old) \cup new
                      /\ \A k \in new :
                           LET last == Max(Assigns(opts, text, s, k))
                           IN  Interrupted(opts, text, last) \/ ValueIn(now, k) = ValueAt(opts, text, last)
                      /\ \A k \in Listed(old) \ new : ValueIn(now, k) = ValueIn(old, k)

(* What write_to_string can express: names that are not empty, a default   *)
(* value of one line, an unnamed section that comes first and is not       *)
(* empty, no missing value if those are not allowed.  Without              *)
(* empty_lines_in_values an empty line loses what continues the value      *)
(* above it, the line written after a section too.                         *)
Writable(p) ==
    /\ NoName \notin DOMAIN p.index
    /\ \A i \in DOMAIN p.defaults : Len(p.defaults[i].value) <= 1
    /\ Unnamed \in DOMAIN p.index =>
         /\ opts.unnamed /\ p.index[Unnamed] = 1 /\ p.defaults = <<>>
         /\ Items(p, Unnamed) # <<>>
    /\ \A s \in {Default} \cup DOMAIN p.index : \A i \in DOMAIN Items(p, s) :
         LET v == Items(p, s)[i].value
         IN  /\ Items(p, s)[i].key # NoName
             /\ v = NoValue => opts.noValue
             /\ v = Trimmed(v)
             /\ opts.emptyLines \/ Len(v) <= 1
                  \/ (i # Len(Items(p, s)) /\ \A n \in 2 .. Len(v) : v[n] # Blank)

(* Reading what write_to_string wrote gives the same object, whatever      *)
(* reads, failed reads and edits made it (parser.cpp:693-750 against       *)
(* 240-372).                                                               *)
WriteReadBack ==
    ~reading /\ Writable(ini) =>
        LET again == ReadLines(Empty, WriteToString(ini))
        IN  again.ok /\ again.ini = ini

(* The meaning of an interpolated value: rewrite all its references at     *)
(* once, as often as the limit allows; one is left over if the chain of    *)
(* references is longer, or never ends.                                    *)
Placed(t, v) == [i \in DOMAIN v |-> [sec |-> t, piece |-> v[i]]]

FoundBy(p, e) == GetRaw(p, TargetSection(e.sec, e.piece), e.piece.key)

Rewrite(p, e) ==
    IF ~IsReference(e.piece) THEN <<e>>
    ELSE IF FoundBy(p, e) = {} THEN Placed(e.sec, <<Bad>>)
    ELSE LET v == CHOOSE v \in FoundBy(p, e) : TRUE
         IN  IF v = NoValue THEN <<>> ELSE Placed(TargetSection(e.sec, e.piece), v)

Meaning(p, s, k) ==
    LET after[n \in 0 .. MaxDepth] ==
          IF n = 0 THEN Placed(s, CHOOSE v \in GetRaw(p, s, k) : TRUE)
          ELSE FlattenSeq([i \in DOMAIN after[n - 1] |-> Rewrite(p, after[n - 1][i])])
        endless == \E i \in DOMAIN after[MaxDepth - 1] :
                      LET e == after[MaxDepth - 1][i]
                      IN  IsReference(e.piece) /\ FoundBy(p, e) \notin {{}, {NoValue}}
    IN  IF endless THEN <<Bad>> ELSE [i \in DOMAIN after[MaxDepth] |-> after[MaxDepth][i].piece]

Same(v, w) == Bad \in ToSet(v) \cap ToSet(w) \/ v = w

(* A lookup ends: with the value all references stand for, or in an error  *)
(* exactly if one of them leads nowhere, is not closed, or a chain of them *)
(* is longer than the limit, above all one that returns to itself; and     *)
(* items() lists what has_option() and get() find (parser.cpp:430-561).    *)
ExpandsExactly ==
    ~reading => \A s \in {n \in Names : HasSection(ini, n)} :
        LET listed == AllItems(ini, s)
        IN  /\ Listed(listed) = {k \in Keys \cup Listed(listed) : HasOption(ini, s, k)}
            /\ \A i \in DOMAIN listed :
                 LET k == listed[i].key
                 IN  /\ GetRaw(ini, s, k) = {listed[i].value}
                     /\ opts.interpolation # "none" /\ listed[i].value # NoValue =>
                          Same(Get(ini, s, k), Meaning(ini, s, k))

(* What outlives a read: Hook goes on with the sections there are, or, if  *)
(* read_file threw, returns with nothing hooked (rdpwrap_hook.cpp:236-241).*)
Loaded(s) == result = "ok" /\ HasSection(ini, s)

(* The header of s stands where the parser continues a value.              *)
HeaderInValue(o, t, s) == \E i \in Continues(o, t) : t[i].clean = Header(s)

NamesIn(t) == UNION {l.says : l \in ToSet(t)}
                \cup {t[i].clean.name : i \in {j \in DOMAIN t : t[j].clean.kind = "header"}}

(* Three programs read one file, whether the read ends well or throws.  A  *)
(* version RDP_CnC calls supported is loaded by the wrapper, but in two    *)
(* cases: the file has a line the parser throws on, and Hook hooks nothing *)
(* at all; or the header stands below a value and belongs to it.  Content  *)
(* the installer accepts has a date for -w to compare, and each of its two *)
(* sections is loaded but in these two cases and one more: only a comment  *)
(* mentions it.  A section that is loaded is called supported, if it was   *)
(* not there before, and the file has no such line (main.cpp:791-823,      *)
(* RDPWInst.cpp:734-752, 1074-1088; parser.cpp:272-336, 407-415).  DEFAULT *)
(* and the unnamed section are not versions.                               *)
ScannersAgree ==
    result # "none" =>
        LET malformed == ~WellFormed(opts, base, text)
        IN  /\ \A s \in (NamesIn(text) \cup DOMAIN ini.index) \ {Default, Unnamed} :
                 /\ SupportLevel(text, s) = 2 =>
                      Loaded(s) \/ malformed \/ HeaderInValue(opts, text, s)
                 /\ Loaded(s) =>
                      ~malformed /\ (SupportLevel(text, s) = 2 \/ s \in DOMAIN base.index)
            /\ ValidIniContent(text) =>
                 /\ IniDate(text) # Bad
                 /\ \A s \in {"Main", "SLPolicy"} :
                      \/ Loaded(s) \/ malformed \/ HeaderInValue(opts, text, s)
                      \/ \E l \in ToSet(text) : s \in l.says

=============================================================================
