--------------------------- MODULE IniParserProofs ---------------------------
(***************************************************************************)
(* Theorems about the configuration parser, for any files, edits, options  *)
(* and limit of interpolation: the object stays in order; what is read is  *)
(* what the text says; lookups give what the references stand for; the     *)
(* programs that scan the text agree with the parser; what is written is   *)
(* read back.                                                              *)
(***************************************************************************)
EXTENDS IniParser, SequenceLemmas

Entries  == [key : STRING, value : Stored]
Sections == [name : STRING, items : Seq(Entries)]
Indices  == UNION {[D -> Nat \ {0}] : D \in SUBSET (STRING \ {Default})}
Objects  == [defaults : Seq(Entries), sections : Seq(Sections), index : Indices]

Unique(items) == \A i, j \in DOMAIN items : items[i].key = items[j].key => i = j

(* An object: section_index_ is the inverse of the list of the names.      *)
Sound(p) ==
    /\ p \in Objects
    /\ \A s \in DOMAIN p.index : p.index[s] \in DOMAIN p.sections /\ p.sections[p.index[s]].name = s
    /\ \A i \in DOMAIN p.sections :
         /\ p.sections[i].name \in DOMAIN p.index /\ p.index[p.sections[i].name] = i
         /\ Unique(p.sections[i].items)
    /\ Unique(p.defaults)

Homes(p) == {Default} \cup DOMAIN p.index

(* Max and Min of sets of positions.                                       *)
LEMMA MinOf ==
    ASSUME NEW S \in SUBSET Nat, S # {}
    PROVE  Min(S) \in S /\ \A x \in S : Min(S) <= x
BY LeastNumber DEF Min

LEMMA MinIs ==
    ASSUME NEW S \in SUBSET Nat, NEW m \in S, \A x \in S : m <= x
    PROVE  Min(S) = m
<1>1. S # {} /\ m \in Nat
  OBVIOUS
<1>2. Min(S) \in S /\ \A x \in S : Min(S) <= x
  BY <1>1, MinOf
<1>3. Min(S) <= m /\ m <= Min(S) /\ Min(S) \in Nat
  BY <1>2
<1> QED  BY <1>1, <1>3

LEMMA MaxOf ==
    ASSUME NEW n \in Nat, NEW S \in SUBSET (1 .. n), S # {}
    PROVE  Max(S) \in S /\ \A x \in S : x <= Max(S)
<1> DEFINE T == {k \in 0 .. n : n - k \in S}
<1>0. T \in SUBSET Nat
  OBVIOUS
<1>1. T # {}
  <2>1. PICK x \in S : TRUE
    OBVIOUS
  <2>2. x \in 1 .. n /\ n - x \in 0 .. n /\ n - (n - x) = x
    BY <2>1
  <2>3. n - x \in T
    BY <2>1, <2>2
  <2> QED  BY <2>3
<1>2. PICK k \in T : \A m \in T : k <= m
  BY <1>0, <1>1, LeastNumber
<1>3. ASSUME NEW x \in S PROVE x <= n - k
  <2>1. n - x \in T
    OBVIOUS
  <2> QED  BY <1>2, <2>1
<1>4. \E x \in S : \A y \in S : x >= y
  BY <1>2, <1>3
<1> QED  BY <1>4 DEF Max

LEMMA MaxIs ==
    ASSUME NEW n \in Nat, NEW S \in SUBSET (1 .. n), NEW m \in S, \A x \in S : x <= m
    PROVE  Max(S) = m
<1>1. S # {} /\ m \in Nat
  OBVIOUS
<1>2. Max(S) \in S /\ m <= Max(S)
  BY <1>1, MaxOf
<1>3. Max(S) <= m
  BY <1>2
<1>4. Max(S) \in 1 .. n
  BY <1>2
<1> QED  BY <1>1, <1>2, <1>3, <1>4

-----------------------------------------------------------------------------
LEMMA ValueAtPlace ==
    ASSUME NEW items \in Seq(Entries), Unique(items), NEW i \in DOMAIN items
    PROVE  ValueIn(items, items[i].key) = items[i].value
BY DEF ValueIn, Place, Unique

LEMMA PutItem ==
    ASSUME NEW items \in Seq(Entries), Unique(items), NEW k \in STRING, NEW v \in Stored
    PROVE  LET put == Put(items, k, v)
           IN  /\ put \in Seq(Entries) /\ Unique(put)
               /\ Listed(put) = Listed(items) \cup {k}
               /\ ValueIn(put, k) = v
               /\ \A x \in Listed(items) \ {k} : ValueIn(put, x) = ValueIn(items, x)
<1> DEFINE put == Put(items, k, v)
           e == [key |-> k, value |-> v]
<1>0. e \in Entries /\ e.key = k /\ e.value = v
  BY DEF Entries
<1>1. CASE k \in Listed(items)
  <2>1. put = [i \in DOMAIN items |-> IF items[i].key = k THEN e ELSE items[i]]
    BY <1>1 DEF Put
  <2>2. put \in Seq(Entries) /\ DOMAIN put = DOMAIN items
    BY <2>1, <1>0
  <2>3. \A i \in DOMAIN items : put[i].key = items[i].key
    BY <2>1, <1>0
  <2>4. Unique(put)
    BY <2>2, <2>3 DEF Unique
  <2>5. Listed(put) = Listed(items) \cup {k}
    BY <2>2, <2>3, <1>1 DEF Listed
  <2>6. PICK j \in DOMAIN items : items[j].key = k
    BY <1>1 DEF Listed
  <2>7. ValueIn(put, k) = v
    BY <2>2, <2>3, <2>4, <2>6, <2>1, <1>0, ValueAtPlace
  <2>8. ASSUME NEW x \in Listed(items) \ {k} PROVE ValueIn(put, x) = ValueIn(items, x)
    <3>1. PICK i \in DOMAIN items : items[i].key = x
      BY DEF Listed
    <3> QED  BY <3>1, <2>1, <2>2, <2>3, <2>4, ValueAtPlace
  <2> QED  BY <2>2, <2>4, <2>5, <2>7, <2>8
<1>2. CASE k \notin Listed(items)
  <2>1. put = Append(items, e)
    BY <1>2 DEF Put
  <2>2. /\ put \in Seq(Entries) /\ DOMAIN items = 1 .. Len(items) /\ DOMAIN put = 1 .. Len(items) + 1
        /\ \A i \in DOMAIN items : put[i] = items[i] /\ items[i].key # k
        /\ put[Len(items) + 1] = e
    BY <2>1, <1>0, <1>2 DEF Listed
  <2>4. Unique(put)
    BY <2>2, <1>0 DEF Unique
  <2>5. Listed(put) = Listed(items) \cup {k}
    BY <2>2, <1>0 DEF Listed
  <2>7. ValueIn(put, k) = v
    <3>1. Len(items) + 1 \in DOMAIN put
      BY <2>2
    <3> QED  BY <3>1, <2>2, <2>4, <1>0, ValueAtPlace
  <2>8. ASSUME NEW x \in Listed(items) \ {k} PROVE ValueIn(put, x) = ValueIn(items, x)
    <3>1. PICK i \in DOMAIN items : items[i].key = x
      BY DEF Listed
    <3>2. i \in DOMAIN put
      BY <2>2
    <3> QED  BY <3>1, <3>2, <2>2, <2>4, ValueAtPlace
  <2> QED  BY <2>2, <2>4, <2>5, <2>7, <2>8
<1> QED  BY <1>1, <1>2

(* RemoveAt: those behind the place move up.                               *)
LEMMA Removed ==
    ASSUME NEW S, NEW s \in Seq(S), NEW n \in 1 .. Len(s)
    PROVE  LET rest == RemoveAt(s, n)
               from(i) == IF i < n THEN i ELSE i + 1
           IN  /\ rest \in Seq(S) /\ Len(rest) = Len(s) - 1 /\ DOMAIN rest = 1 .. Len(s) - 1
               /\ \A i \in DOMAIN rest : rest[i] = s[from(i)] /\ from(i) \in DOMAIN s \ {n}
               /\ \A i, j \in DOMAIN rest : from(i) = from(j) => i = j
               /\ \A j \in DOMAIN s \ {n} : \E i \in DOMAIN rest : from(i) = j
<1> DEFINE rest == RemoveAt(s, n)
           from(i) == IF i < n THEN i ELSE i + 1
           a == SubSeq(s, 1, n - 1)
           b == SubSeq(s, n + 1, Len(s))
<1>0. Len(s) \in Nat /\ n \in Nat /\ n >= 1 /\ n <= Len(s) /\ DOMAIN s = 1 .. Len(s)
  OBVIOUS
<1>1. a \in Seq(S) /\ Len(a) = n - 1 /\ \A i \in 1 .. n - 1 : a[i] = s[i]
  BY <1>0, Cut
<1>2. b \in Seq(S) /\ Len(b) = Len(s) - n /\ \A i \in 1 .. Len(s) - n : b[i] = s[n + i]
  <2>0. n + 1 \in 1 .. Len(s) + 1 /\ Len(s) \in Nat /\ (n + 1) - 1 <= Len(s) /\ Len(s) <= Len(s)
    BY <1>0
  <2>1. /\ b \in Seq(S) /\ Len(b) = Len(s) - (n + 1) + 1
        /\ \A i \in 1 .. Len(s) - (n + 1) + 1 : b[i] = s[(n + 1) + i - 1]
    BY <2>0, Cut
  <2>2. Len(s) - (n + 1) + 1 = Len(s) - n
    BY <1>0
  <2>3. ASSUME NEW i \in 1 .. Len(s) - n PROVE (n + 1) + i - 1 = n + i
    BY <1>0
  <2> HIDE DEF b
  <2> QED  BY <2>1, <2>2, <2>3
<1>3. rest = a \o b
  BY DEF RemoveAt
<1> HIDE DEF a, b, rest
<1>4. rest \in Seq(S) /\ Len(rest) = Len(s) - 1 /\ DOMAIN rest = 1 .. Len(s) - 1
  <2>1. a \o b \in Seq(S) /\ Len(a \o b) = Len(a) + Len(b)
    BY <1>1, <1>2, ConcatProperties
  <2>2. Len(a) + Len(b) = Len(s) - 1
    BY <1>0, <1>1, <1>2
  <2>3. rest \in Seq(S) /\ Len(rest) = Len(s) - 1
    BY <1>3, <2>1, <2>2
  <2> QED  BY <2>3, LenProperties
<1>5. ASSUME NEW i \in 1 .. Len(s) - 1 PROVE rest[i] = s[from(i)]
  <2>1. CASE i < n
    <3>1. i \in 1 .. n - 1
      BY <2>1, <1>0
    <3>2. rest[i] = a[i]
      BY <3>1, <1>1, <1>2, <1>3
    <3> QED  BY <3>1, <3>2, <1>1, <2>1
  <2>2. CASE i >= n
    <3>1. i - (n - 1) \in 1 .. Len(s) - n /\ n + (i - (n - 1)) = i + 1 /\ ~(i < n)
      BY <2>2, <1>0
    <3>2. rest[i] = b[i - (n - 1)]
      BY <2>2, <1>0, <1>1, <1>2, <1>3, <3>1
    <3> QED  BY <3>1, <3>2, <1>2
  <2> QED  BY <1>0, <2>1, <2>2
<1>6. \A i \in 1 .. Len(s) - 1 : from(i) \in 1 .. Len(s) /\ from(i) # n
  BY <1>0
<1>7. ASSUME NEW j \in 1 .. Len(s), j # n PROVE \E i \in 1 .. Len(s) - 1 : from(i) = j
  <2>1. j < n => from(j) = j /\ j \in 1 .. Len(s) - 1
    BY <1>0
  <2>2. j > n => from(j - 1) = j /\ j - 1 \in 1 .. Len(s) - 1
    BY <1>0
  <2> QED  BY <1>0, <1>7, <2>1, <2>2
<1>8. \A i, j \in 1 .. Len(s) - 1 : from(i) = from(j) => i = j
  BY <1>0
<1> QED  BY <1>0, <1>4, <1>5, <1>6, <1>7, <1>8 DEF rest

LEMMA WithoutItem ==
    ASSUME NEW items \in Seq(Entries), Unique(items), NEW k \in Listed(items)
    PROVE  LET rest == Without(items, k)
           IN  /\ rest \in Seq(Entries) /\ Unique(rest)
               /\ Listed(rest) = Listed(items) \ {k}
               /\ \A x \in Listed(rest) : ValueIn(rest, x) = ValueIn(items, x)
<1> DEFINE n == Place(items, k)
           rest == Without(items, k)
           from(i) == IF i < n THEN i ELSE i + 1
<1>1. n \in 1 .. Len(items) /\ items[n].key = k
  BY DEF Place, Listed
<1>0. rest = RemoveAt(items, n)
  BY DEF Without
<1> HIDE DEF n, rest
<1>2. /\ rest \in Seq(Entries)
      /\ \A i \in DOMAIN rest : rest[i] = items[from(i)] /\ from(i) \in DOMAIN items \ {n}
      /\ \A i, j \in DOMAIN rest : from(i) = from(j) => i = j
      /\ \A j \in DOMAIN items \ {n} : \E i \in DOMAIN rest : from(i) = j
  BY <1>0, <1>1, Removed
<1> HIDE DEF from
<1>6. Unique(rest)
  BY <1>2 DEF Unique
<1>7. Listed(rest) = Listed(items) \ {k}
  <2>2. \A j \in DOMAIN items : items[j].key = k <=> j = n
    BY <1>1 DEF Unique
  <2>3. Listed(rest) \subseteq Listed(items) \ {k}
    BY <1>2, <2>2 DEF Listed
  <2>4. ASSUME NEW x \in Listed(items) \ {k} PROVE x \in Listed(rest)
    <3>1. PICK j \in DOMAIN items : items[j].key = x
      BY DEF Listed
    <3>2. PICK i \in DOMAIN rest : from(i) = j
      BY <1>2, <2>2, <3>1
    <3> QED  BY <3>1, <3>2, <1>2 DEF Listed
  <2> QED  BY <2>3, <2>4
<1>8. ASSUME NEW x \in Listed(rest) PROVE ValueIn(rest, x) = ValueIn(items, x)
  <2>1. PICK i \in DOMAIN rest : rest[i].key = x
    BY DEF Listed
  <2>2. from(i) \in DOMAIN items /\ rest[i] = items[from(i)]
    BY <1>2
  <2> QED  BY <2>1, <2>2, <1>2, <1>6, ValueAtPlace
<1> QED  BY <1>2, <1>6, <1>7, <1>8 DEF rest

-----------------------------------------------------------------------------
(* The object.                                                             *)
LEMMA HomeItems ==
    ASSUME NEW p, Sound(p), NEW s \in Homes(p)
    PROVE  s \in STRING /\ Items(p, s) \in Seq(Entries) /\ Unique(Items(p, s))
<1>1. CASE s = Default
  <2>1. Default \in STRING
    BY LinesAssumption
  <2>2. Items(p, s) = p.defaults
    BY <1>1 DEF Items
  <2> QED  BY <1>1, <2>1, <2>2 DEF Sound, Objects
<1>2. CASE s # Default
  <2>1. s \in DOMAIN p.index /\ p.index \in Indices /\ p.sections \in Seq(Sections)
    BY <1>2 DEF Homes, Sound, Objects
  <2>2. s \in STRING
    BY <2>1 DEF Indices
  <2>3. p.index[s] \in DOMAIN p.sections
    BY <2>1 DEF Sound
  <2>4. p.sections[p.index[s]] \in Sections
    BY <2>1, <2>3
  <2> QED  BY <1>2, <2>2, <2>3, <2>4 DEF Sound, Items, Sections
<1> QED  BY <1>1, <1>2

LEMMA HomeIs ==
    ASSUME NEW p, NEW s
    PROVE  HasSection(p, s) <=> s \in Homes(p)
BY DEF HasSection, Homes

LEMMA NotASection ==
    ASSUME NEW p, Sound(p)
    PROVE  Default \notin DOMAIN p.index /\ DOMAIN p.index \subseteq STRING
BY DEF Sound, Objects, Indices

LEMMA EmptyObject == Sound(Empty)
<1>1. Empty.index = <<>> /\ Empty.sections = <<>> /\ Empty.defaults = <<>> /\ DOMAIN <<>> = {}
  BY DEF Empty
<1>2. <<>> \in Indices
  <2>1. <<>> \in [{} -> Nat \ {0}]
    OBVIOUS
  <2> QED  BY <2>1 DEF Indices
<1>3. Empty \in Objects
  BY <1>2 DEF Empty, Objects
<1> QED  BY <1>1, <1>3 DEF Sound, Unique

LEMMA Replaced ==
    ASSUME NEW p, Sound(p), NEW s \in Homes(p), NEW items \in Seq(Entries), Unique(items)
    PROVE  LET q == WithItems(p, s, items)
           IN  /\ Sound(q) /\ DOMAIN q.index = DOMAIN p.index
               /\ Items(q, s) = items
               /\ \A t \in Homes(p) \ {s} : Items(q, t) = Items(p, t)
<1> DEFINE q == WithItems(p, s, items)
<1>0. /\ p \in Objects /\ p.defaults \in Seq(Entries) /\ p.sections \in Seq(Sections) /\ p.index \in Indices
      /\ p = [defaults |-> p.defaults, sections |-> p.sections, index |-> p.index]
  BY DEF Sound, Objects
<1>1. CASE s = Default
  <2>1. q = [defaults |-> items, sections |-> p.sections, index |-> p.index]
    BY <1>0, <1>1 DEF WithItems
  <2> HIDE DEF q
  <2>2. Sound(q)
    BY <1>0, <2>1 DEF Sound, Objects
  <2>3. Items(q, s) = items /\ \A t \in Homes(p) \ {s} : Items(q, t) = Items(p, t)
    BY <1>1, <2>1 DEF Items
  <2> QED  BY <2>1, <2>2, <2>3 DEF q
<1>2. CASE s # Default
  <2> DEFINE n == p.index[s]
             changed == [p.sections EXCEPT ![n].items = items]
  <2>1. s \in DOMAIN p.index /\ n \in DOMAIN p.sections /\ p.sections[n].name = s
    BY <1>2 DEF Homes, Sound
  <2>2. q = [defaults |-> p.defaults, sections |-> changed, index |-> p.index]
    BY <1>0, <1>2 DEF WithItems
  <2>3. p.sections[n] \in Sections
    BY <1>0, <2>1
  <2>4. /\ changed[n] = [name |-> s, items |-> items] /\ DOMAIN changed = DOMAIN p.sections
        /\ \A i \in DOMAIN p.sections \ {n} : changed[i] = p.sections[i]
    BY <2>1, <2>3, <1>0 DEF Sections
  <2>5. s \in STRING
    BY HomeItems
  <2>6. [name |-> s, items |-> items] \in Sections
    BY <2>5 DEF Sections
  <2>7. changed \in Seq(Sections)
    <3>1. changed = [p.sections EXCEPT ![n] = [name |-> s, items |-> items]]
      BY <2>1, <2>3, <1>0 DEF Sections
    <3>2. n \in 1 .. Len(p.sections)
      BY <1>0, <2>1
    <3> HIDE DEF changed, n
    <3> QED  BY <1>0, <2>6, <3>1, <3>2, ExceptSeq
  <2> HIDE DEF changed, q
  <2>8. Sound(q)
    <3>1. q \in Objects /\ Unique(q.defaults) /\ q.index = p.index /\ q.sections = changed
      BY <1>0, <2>2, <2>7 DEF Sound, Objects
    <3>2. \A i \in DOMAIN changed : changed[i].name = p.sections[i].name
      BY <2>1, <2>4
    <3>3. \A i \in DOMAIN changed : Unique(changed[i].items)
      BY <2>4 DEF Sound
    <3> HIDE DEF n
    <3> QED  BY <3>1, <3>2, <3>3, <2>4 DEF Sound
  <2>9. Items(q, s) = items
    BY <2>2, <2>4, <1>2 DEF Items
  <2>10. ASSUME NEW t \in Homes(p) \ {s} PROVE Items(q, t) = Items(p, t)
    <3>1. t # Default => t \in DOMAIN p.index /\ p.index[t] \in DOMAIN p.sections \ {n}
      BY <2>1 DEF Homes, Sound
    <3> HIDE DEF n
    <3> QED  BY <3>1, <2>2, <2>4 DEF Items
  <2> QED  BY <2>2, <2>8, <2>9, <2>10 DEF q
<1> QED  BY <1>1, <1>2

LEMMA Added ==
    ASSUME NEW p, Sound(p), NEW s \in STRING, s \notin Homes(p)
    PROVE  LET q == NewSection(p, s)
           IN  /\ Sound(q) /\ DOMAIN q.index = DOMAIN p.index \cup {s}
               /\ Items(q, s) = <<>>
               /\ \A t \in Homes(p) : Items(q, t) = Items(p, t)
<1> DEFINE q == NewSection(p, s)
           n == Len(p.sections) + 1
           e == [name |-> s, items |-> <<>>]
           longer == Append(p.sections, e)
           D == DOMAIN p.index \cup {s}
           at == [x \in D |-> IF x = s THEN n ELSE p.index[x]]
<1>0. /\ p \in Objects /\ p.defaults \in Seq(Entries) /\ p.sections \in Seq(Sections) /\ p.index \in Indices
      /\ p = [defaults |-> p.defaults, sections |-> p.sections, index |-> p.index]
  BY DEF Sound, Objects
<1>1. q = [defaults |-> p.defaults, sections |-> longer, index |-> at]
  <2>1. q = [p EXCEPT !.sections = longer, !.index = at]
    BY Zenon DEF NewSection
  <2> HIDE DEF longer, at, q
  <2> QED  BY <1>0, <2>1
<1>2. s # Default /\ s \notin DOMAIN p.index /\ Default \notin D /\ D \subseteq STRING
  BY NotASection DEF Homes
<1>3. e \in Sections /\ e.name = s /\ e.items = <<>>
  BY DEF Sections
<1>4. /\ longer \in Seq(Sections) /\ DOMAIN longer = 1 .. n /\ DOMAIN p.sections = 1 .. n - 1 /\ n \in Nat \ {0}
      /\ longer[n] = e /\ \A i \in 1 .. n - 1 : longer[i] = p.sections[i]
  BY <1>0, <1>3
<1>5. DOMAIN at = D /\ at[s] = n /\ \A x \in DOMAIN p.index : at[x] = p.index[x]
  BY <1>2
<1>6. at \in Indices
  <2>1. at \in [D -> Nat \ {0}]
    <3>1. \A x \in DOMAIN p.index : p.index[x] \in Nat \ {0}
      BY <1>0 DEF Indices
    <3> QED  BY <3>1, <1>4
  <2> HIDE DEF at
  <2> QED  BY <2>1, <1>2 DEF Indices
<1> HIDE DEF at, longer, D, q, e, n
<1>7. Sound(q)
  <2>1. q \in Objects /\ Unique(q.defaults) /\ q.index = at /\ q.sections = longer
    BY <1>0, <1>1, <1>4, <1>6 DEF Sound, Objects
  <2>2. ASSUME NEW x \in DOMAIN at PROVE at[x] \in DOMAIN longer /\ longer[at[x]].name = x
    <3>1. CASE x = s
      BY <3>1, <1>3, <1>4, <1>5
    <3>2. CASE x \in DOMAIN p.index
      <4>1. at[x] = p.index[x] /\ p.index[x] \in 1 .. n - 1 /\ p.sections[p.index[x]].name = x
        BY <3>2, <1>4, <1>5 DEF Sound
      <4> QED  BY <4>1, <1>4
    <3> QED  BY <3>1, <3>2, <1>5 DEF D
  <2>3. ASSUME NEW i \in DOMAIN longer
        PROVE  longer[i].name \in DOMAIN at /\ at[longer[i].name] = i /\ Unique(longer[i].items)
    <3>1. CASE i = n
      <4>1. Unique(<<>>)
        BY DEF Unique
      <4> QED  BY <3>1, <4>1, <1>3, <1>4, <1>5 DEF D
    <3>2. CASE i \in 1 .. n - 1
      BY <3>2, <1>4, <1>5 DEF Sound, D
    <3> QED  BY <3>1, <3>2, <1>4
  <2> QED  BY <2>1, <2>2, <2>3 DEF Sound
<1>8. Items(q, s) = <<>>
  BY <1>1, <1>2, <1>3, <1>4, <1>5 DEF Items
<1>9. ASSUME NEW t \in Homes(p) PROVE Items(q, t) = Items(p, t)
  <2>1. CASE t = Default
    BY <2>1, <1>1 DEF Items
  <2>2. CASE t # Default
    <3>1. t \in DOMAIN p.index /\ p.index[t] \in 1 .. n - 1 /\ at[t] = p.index[t]
      BY <2>2, <1>4, <1>5 DEF Homes, Sound
    <3> QED  BY <2>2, <3>1, <1>1, <1>4 DEF Items
  <2> QED  BY <2>1, <2>2
<1> QED  BY <1>1, <1>5, <1>7, <1>8, <1>9 DEF D, q

LEMMA Dropped ==
    ASSUME NEW p, Sound(p), NEW s \in DOMAIN p.index
    PROVE  Sound(Unlisted(p, s))
<1> DEFINE q == Unlisted(p, s)
           n == p.index[s]
           rest == RemoveAt(p.sections, n)
           from(i) == IF i < n THEN i ELSE i + 1
           D == {rest[i].name : i \in DOMAIN rest}
           at == [x \in D |-> CHOOSE i \in DOMAIN rest : rest[i].name = x]
<1>0. /\ p \in Objects /\ p.defaults \in Seq(Entries) /\ p.sections \in Seq(Sections) /\ p.index \in Indices
      /\ p = [defaults |-> p.defaults, sections |-> p.sections, index |-> p.index]
  BY DEF Sound, Objects
<1>1. q = [defaults |-> p.defaults, sections |-> rest, index |-> at]
  <2>1. q = [p EXCEPT !.sections = rest, !.index = at]
    BY Zenon DEF Unlisted
  <2> HIDE DEF rest, at, q
  <2> QED  BY <1>0, <2>1
<1>2. n \in 1 .. Len(p.sections)
  BY <1>0 DEF Sound
<1>3. /\ rest \in Seq(Sections) /\ DOMAIN rest \subseteq Nat \ {0}
      /\ \A i \in DOMAIN rest : rest[i] = p.sections[from(i)] /\ from(i) \in DOMAIN p.sections \ {n}
      /\ \A i, j \in DOMAIN rest : from(i) = from(j) => i = j
  <2> HIDE DEF n
  <2> QED  BY <1>0, <1>2, Removed
<1> HIDE DEF rest, n, from
<1>4. ASSUME NEW i \in DOMAIN rest, NEW j \in DOMAIN rest, rest[i].name = rest[j].name PROVE i = j
  <2>1. from(i) = from(j)
    BY <1>3, <1>4 DEF Sound
  <2> QED  BY <1>3, <2>1
<1>5. \A x \in D : at[x] \in DOMAIN rest /\ rest[at[x]].name = x
  OBVIOUS
<1>6. \A i \in DOMAIN rest : rest[i].name \in D /\ at[rest[i].name] = i
  BY <1>4, <1>5
<1>7. D \subseteq STRING \ {Default}
  <2>1. ASSUME NEW i \in DOMAIN rest PROVE rest[i].name \in STRING \ {Default}
    <3>1. rest[i].name \in DOMAIN p.index
      BY <1>3 DEF Sound
    <3> QED  BY <3>1, NotASection
  <2> QED  BY <2>1
<1>8. at \in [D -> Nat \ {0}] /\ DOMAIN at = D
  BY <1>3, <1>5
<1> HIDE DEF at, D, q
<1>9. at \in Indices
  BY <1>7, <1>8 DEF Indices
<1>10. \A i \in DOMAIN rest : Unique(rest[i].items)
  BY <1>3 DEF Sound
<1>11. q \in Objects /\ Unique(q.defaults)
  BY <1>0, <1>1, <1>3, <1>9 DEF Objects, Sound
<1> QED  BY <1>1, <1>5, <1>6, <1>8, <1>10, <1>11 DEF Sound, q

(* Trimmed: what is cut off is blank.                                      *)
LEMMA TrimmedEnd ==
    ASSUME NEW v \in Seq(Cleaned)
    PROVE  \E n \in 0 .. Len(v) : Trimmed(v) = SubSeq(v, 1, n)
<1> DEFINE Q(n) == (\A i \in n + 1 .. Len(v) : v[i] = Blank) /\ (n = 0 \/ v[n] # Blank)
           T == {n \in 0 .. Len(v) : \A i \in n + 1 .. Len(v) : v[i] = Blank}
<1>0. Len(v) \in Nat
  OBVIOUS
<1>1. Len(v) \in T /\ T \in SUBSET Nat
  BY <1>0
<1>2. PICK n \in T : \A m \in T : n <= m
  BY <1>1, LeastNumber
<1>3. n \in 0 .. Len(v) /\ Q(n)
  <2>1. ASSUME n # 0, v[n] = Blank PROVE FALSE
    <3>1. n - 1 \in 0 .. Len(v) /\ ~(n <= n - 1)
      BY <1>0, <1>2, <2>1
    <3>2. \A i \in (n - 1) + 1 .. Len(v) : v[i] = Blank
      BY <1>0, <1>2, <2>1
    <3> QED  BY <3>1, <3>2, <1>2
  <2> QED  BY <1>2, <2>1
<1>4. Trimmed(v) = SubSeq(v, 1, CHOOSE k \in 0 .. Len(v) : Q(k))
  BY DEF Trimmed
<1> HIDE DEF Q
<1> QED  BY <1>3, <1>4

LEMMA TrimmedIsStored ==
    ASSUME NEW v \in Seq(Cleaned)
    PROVE  Trimmed(v) \in Stored
<1>1. PICK n \in 0 .. Len(v) : Trimmed(v) = SubSeq(v, 1, n)
  BY TrimmedEnd
<1>2. 1 \in Int /\ n \in Int /\ \A i \in 1 .. n : v[i] \in Cleaned
  BY <1>1
<1>3. SubSeq(v, 1, n) \in Seq(Cleaned)
  BY <1>2, SubSeqProperties
<1> QED  BY <1>1, <1>3 DEF Stored

-----------------------------------------------------------------------------
(* What one more line makes of a text.                                     *)
NewHead(o, t, l) == l.clean # Blank /\ ~(l.indented /\ InValue(o, t, Len(t)))

Gathered(t, i) == <<t[i].clean.value>> \o [n \in 1 .. Len(t) - i |-> t[i + n].clean]

LEMMA OneMore ==
    ASSUME NEW t \in Seq(Lines), NEW l \in Lines
    PROVE  LET u == Append(t, l)
               n == Len(t) + 1
           IN  /\ u \in Seq(Lines) /\ Len(u) = n /\ n \in Nat \ {0}
               /\ DOMAIN t = 1 .. n - 1 /\ DOMAIN u = 1 .. n
               /\ u[n] = l /\ \A i \in 1 .. n - 1 : u[i] = t[i]
               /\ SubSeq(u, 1, n - 1) = t
<1> DEFINE u == Append(t, l)
           n == Len(t) + 1
<1>1. /\ u \in Seq(Lines) /\ Len(u) = n /\ n \in Nat \ {0}
      /\ DOMAIN t = 1 .. n - 1 /\ DOMAIN u = 1 .. n
      /\ u[n] = l /\ \A i \in 1 .. n - 1 : u[i] = t[i]
  OBVIOUS
<1>2. n - 1 = Len(t) /\ 1 \in 1 .. Len(u) + 1 /\ n - 1 \in Nat /\ 1 - 1 <= n - 1 /\ n - 1 <= Len(u)
  BY <1>1
<1>3. /\ SubSeq(u, 1, n - 1) \in Seq(Lines) /\ Len(SubSeq(u, 1, n - 1)) = n - 1 - 1 + 1
      /\ \A i \in 1 .. n - 1 - 1 + 1 : SubSeq(u, 1, n - 1)[i] = u[1 + i - 1]
  <2> HIDE DEF u, n
  <2> QED  BY <1>1, <1>2, Cut
<1> HIDE DEF u
<1>4. Len(SubSeq(u, 1, n - 1)) = Len(t)
  BY <1>2, <1>3
<1>5. ASSUME NEW i \in 1 .. Len(t) PROVE SubSeq(u, 1, n - 1)[i] = t[i]
  <2>1. i \in 1 .. n - 1 - 1 + 1 /\ 1 + i - 1 = i /\ i \in 1 .. n - 1
    BY <1>2
  <2> QED  BY <1>1, <1>3, <2>1
<1>6. SubSeq(u, 1, n - 1) = t
  BY <1>3, <1>4, <1>5, SeqEqual
<1> QED  BY <1>1, <1>6 DEF u

LEMMA ValuesGrow ==
    ASSUME NEW o \in ParseOptions, NEW t \in Seq(Lines), NEW l \in Lines
    PROVE  LET u == Append(t, l)
               n == Len(t) + 1
           IN  /\ \A i \in 0 .. n - 1 : InValue(o, u, i) <=> InValue(o, t, i)
               /\ InValue(o, u, n) <=>
                    \/ Opens(l.clean)
                    \/ InValue(o, t, n - 1) /\ IF l.clean = Blank THEN o.emptyLines ELSE l.indented
<1> DEFINE u == Append(t, l)
           n == Len(t) + 1
           Stays(x, j) == IF x[j].clean = Blank THEN o.emptyLines ELSE x[j].indented
<1>1. /\ n \in Nat \ {0} /\ u[n] = l /\ \A i \in 1 .. n - 1 : u[i] = t[i]
  BY OneMore
<1> HIDE DEF u, n
<1>2. ASSUME NEW i \in 0 .. n - 1 PROVE InValue(o, u, i) <=> InValue(o, t, i)
  <2>1. \A j \in 1 .. i : j \in 1 .. n - 1 /\ \A m \in j + 1 .. i : m \in 1 .. n - 1
    BY <1>1
  <2> QED  BY <1>1, <2>1 DEF InValue
<1>3. InValue(o, u, n) <=> Opens(l.clean) \/ (InValue(o, u, n - 1) /\ Stays(u, n))
  <2>1. \A j \in 1 .. n : j = n \/ j \in 1 .. n - 1
    BY <1>1
  <2>2. \A m \in n + 1 .. n : FALSE
    BY <1>1
  <2>3. \A j \in 1 .. n - 1 : n \in j + 1 .. n /\ \A m \in j + 1 .. n : m = n \/ m \in j + 1 .. n - 1
    BY <1>1
  <2>4. \A j \in 1 .. n - 1 : j \in 1 .. n /\ \A m \in j + 1 .. n - 1 : m \in j + 1 .. n
    BY <1>1
  <2>5. n \in 1 .. n
    BY <1>1
  <2>6. InValue(o, u, n) <=> \E j \in 1 .. n : Opens(u[j].clean) /\ \A m \in j + 1 .. n : Stays(u, m)
    BY DEF InValue
  <2>7. InValue(o, u, n - 1) <=> \E j \in 1 .. n - 1 : Opens(u[j].clean) /\ \A m \in j + 1 .. n - 1 : Stays(u, m)
    BY DEF InValue
  <2> HIDE DEF Stays
  <2>8. ASSUME InValue(o, u, n) PROVE Opens(l.clean) \/ (InValue(o, u, n - 1) /\ Stays(u, n))
    BY <1>1, <2>8, <2>1, <2>3, <2>4, <2>6, <2>7
  <2>9. ASSUME Opens(l.clean) PROVE InValue(o, u, n)
    BY <1>1, <2>9, <2>2, <2>5, <2>6
  <2>10. ASSUME InValue(o, u, n - 1), Stays(u, n) PROVE InValue(o, u, n)
    BY <2>10, <2>3, <2>4, <2>6, <2>7
  <2> QED  BY <2>8, <2>9, <2>10
<1>4. n - 1 \in 0 .. n - 1
  BY <1>1
<1>5. InValue(o, u, n) <=> Opens(l.clean) \/ (InValue(o, t, n - 1) /\ Stays(u, n))
  BY <1>2, <1>3, <1>4
<1>6. Stays(u, n) <=> (IF l.clean = Blank THEN o.emptyLines ELSE l.indented)
  BY <1>1
<1> HIDE DEF Stays
<1> QED  BY <1>2, <1>5, <1>6 DEF u, n

LEMMA HeadsGrow ==
    ASSUME NEW o \in ParseOptions, NEW t \in Seq(Lines), NEW l \in Lines
    PROVE  LET u == Append(t, l)
               n == Len(t) + 1
           IN  /\ Heads(o, t) \subseteq 1 .. n - 1
               /\ Heads(o, u) = Heads(o, t) \cup (IF NewHead(o, t, l) THEN {n} ELSE {})
               /\ HeadersIn(o, u) = HeadersIn(o, t)
                    \cup (IF NewHead(o, t, l) /\ l.clean.kind = "header" THEN {n} ELSE {})
               /\ OptionsIn(o, u) = OptionsIn(o, t)
                    \cup (IF NewHead(o, t, l) /\ l.clean.kind # "header" THEN {n} ELSE {})
<1> DEFINE u == Append(t, l)
           n == Len(t) + 1
<1>1. /\ n \in Nat \ {0} /\ u[n] = l /\ \A i \in 1 .. n - 1 : u[i] = t[i]
      /\ DOMAIN t = 1 .. n - 1 /\ DOMAIN u = 1 .. n
  BY OneMore
<1>2. \A i \in 0 .. n - 1 : InValue(o, u, i) <=> InValue(o, t, i)
  BY ValuesGrow
<1>3. NewHead(o, t, l) <=> l.clean # Blank /\ ~(l.indented /\ InValue(o, t, n - 1))
  BY DEF NewHead
<1> HIDE DEF u, n
<1>4. \A i : i \in Heads(o, t) <=>
        i \in 1 .. n - 1 /\ t[i].clean # Blank /\ ~(t[i].indented /\ InValue(o, t, i - 1))
  BY <1>1 DEF Heads, Continues
<1>5. \A i : i \in Heads(o, u) <=>
        i \in 1 .. n /\ u[i].clean # Blank /\ ~(u[i].indented /\ InValue(o, u, i - 1))
  BY <1>1 DEF Heads, Continues
<1>6. \A i \in 1 .. n : i - 1 \in 0 .. n - 1 /\ (i = n \/ i \in 1 .. n - 1)
  BY <1>1
<1>7. \A i \in 1 .. n - 1 : i \in 1 .. n /\ i # n
  BY <1>1
<1>8. n \in 1 .. n
  BY <1>1
<1>9. \A i : i \in Heads(o, u) <=> i \in Heads(o, t) \/ (i = n /\ NewHead(o, t, l))
  BY <1>1, <1>2, <1>3, <1>4, <1>5, <1>6, <1>7, <1>8
<1>10. Heads(o, t) \subseteq 1 .. n - 1
  BY <1>4
<1>11. \A i : i \in HeadersIn(o, u) <=>
         i \in HeadersIn(o, t) \/ (i = n /\ NewHead(o, t, l) /\ l.clean.kind = "header")
  BY <1>1, <1>9, <1>10 DEF HeadersIn
<1>12. \A i : i \in OptionsIn(o, u) <=>
         i \in OptionsIn(o, t) \/ (i = n /\ NewHead(o, t, l) /\ l.clean.kind # "header")
  BY <1>1, <1>7, <1>9, <1>10 DEF HeadersIn, OptionsIn
<1>13. Heads(o, u) = Heads(o, t) \cup (IF NewHead(o, t, l) THEN {n} ELSE {})
  BY <1>9
<1>14. HeadersIn(o, u) = HeadersIn(o, t)
         \cup (IF NewHead(o, t, l) /\ l.clean.kind = "header" THEN {n} ELSE {})
  BY <1>11
<1>15. OptionsIn(o, u) = OptionsIn(o, t)
         \cup (IF NewHead(o, t, l) /\ l.clean.kind # "header" THEN {n} ELSE {})
  BY <1>12
<1> QED  BY <1>10, <1>13, <1>14, <1>15 DEF u, n

LEMMA NamesGrow ==
    ASSUME NEW o \in ParseOptions, NEW t \in Seq(Lines), NEW l \in Lines
    PROVE  LET u == Append(t, l)
               n == Len(t) + 1
           IN  \A i \in 1 .. n : NameAt(o, u, i) = NameAt(o, t, i) /\ SectionAt(o, u, i) = SectionAt(o, t, i)
<1> DEFINE u == Append(t, l)
           n == Len(t) + 1
           above(x, i) == {j \in HeadersIn(o, x) : j < i}
<1> SUFFICES ASSUME NEW i \in 1 .. n PROVE NameAt(o, u, i) = NameAt(o, t, i)
  BY DEF SectionAt
<1>1. /\ n \in Nat \ {0} /\ u[n] = l /\ \A j \in 1 .. n - 1 : u[j] = t[j]
  BY OneMore
<1>2. /\ Heads(o, t) \subseteq 1 .. n - 1
      /\ HeadersIn(o, u) = HeadersIn(o, t)
           \cup (IF NewHead(o, t, l) /\ l.clean.kind = "header" THEN {n} ELSE {})
  BY HeadsGrow
<1> HIDE DEF u, n
<1>3. above(u, i) = above(t, i)
  BY <1>1, <1>2
<1>4. above(t, i) \in SUBSET (1 .. n - 1) /\ n - 1 \in Nat
  BY <1>1, <1>2 DEF HeadersIn
<1>5. ASSUME above(t, i) # {} PROVE u[Max(above(t, i))] = t[Max(above(t, i))]
  <2>1. Max(above(t, i)) \in above(t, i)
    <3> HIDE DEF above
    <3> QED  BY <1>4, <1>5, MaxOf
  <2> QED  BY <1>1, <1>4, <2>1
<1>6. \A x : NameAt(o, x, i) = IF above(x, i) = {} THEN NoName ELSE x[Max(above(x, i))].clean.name
  BY DEF NameAt
<1> HIDE DEF above
<1> QED  BY <1>3, <1>5, <1>6

KeyOf(c) == IF c.kind = "option" THEN c.key ELSE AsKey(c)

NewOption(o, t, l) == NewHead(o, t, l) /\ l.clean.kind # "header"

LEMMA KeysGrow ==
    ASSUME NEW o \in ParseOptions, NEW t \in Seq(Lines), NEW l \in Lines, NEW s
    PROVE  LET u == Append(t, l)
               n == Len(t) + 1
               here == NewOption(o, t, l) /\ SectionAt(o, t, n) = s
           IN  /\ \A k : Assigns(o, u, s, k) = Assigns(o, t, s, k)
                           \cup (IF here /\ KeyOf(l.clean) = k THEN {n} ELSE {})
               /\ KeysOf(o, u, s) = KeysOf(o, t, s) \cup (IF here THEN {KeyOf(l.clean)} ELSE {})
               /\ \A k : Assigns(o, t, s, k) \subseteq 1 .. n - 1
               /\ \A k : k \in KeysOf(o, t, s) <=> Assigns(o, t, s, k) # {}
<1> DEFINE u == Append(t, l)
           n == Len(t) + 1
           here == NewOption(o, t, l) /\ SectionAt(o, t, n) = s
<1>1. /\ n \in Nat \ {0} /\ u[n] = l /\ \A j \in 1 .. n - 1 : u[j] = t[j]
  BY OneMore
<1>2. /\ Heads(o, t) \subseteq 1 .. n - 1
      /\ OptionsIn(o, u) = OptionsIn(o, t) \cup (IF NewOption(o, t, l) THEN {n} ELSE {})
  BY HeadsGrow DEF NewOption
<1>3. OptionsIn(o, t) \subseteq 1 .. n - 1
  BY <1>2 DEF OptionsIn
<1>4. \A i \in 1 .. n : SectionAt(o, u, i) = SectionAt(o, t, i)
  BY NamesGrow
<1> HIDE DEF u, n
<1>5. \A i \in 1 .. n - 1 : KeyAt(u, i) = KeyAt(t, i) /\ i \in 1 .. n /\ i # n
  BY <1>1 DEF KeyAt
<1>6. KeyAt(u, n) = KeyOf(l.clean) /\ n \in 1 .. n
  BY <1>1 DEF KeyAt, KeyOf
<1>7. \A k, i : i \in Assigns(o, u, s, k) <=>
        i \in Assigns(o, t, s, k) \/ (i = n /\ here /\ KeyOf(l.clean) = k)
  BY <1>2, <1>3, <1>4, <1>5, <1>6 DEF Assigns
<1>8. \A k : Assigns(o, t, s, k) \subseteq 1 .. n - 1
  BY <1>3 DEF Assigns
<1>9. \A x, k : k \in KeysOf(o, x, s) <=> Assigns(o, x, s, k) # {}
  BY DEF KeysOf, Assigns
<1>10. \A k : k \in KeysOf(o, u, s) <=> k \in KeysOf(o, t, s) \/ (here /\ KeyOf(l.clean) = k)
  BY <1>7, <1>9
<1> HIDE DEF here
<1>11. ASSUME NEW k PROVE Assigns(o, u, s, k) = Assigns(o, t, s, k)
                           \cup (IF here /\ KeyOf(l.clean) = k THEN {n} ELSE {})
  BY <1>7
<1>12. KeysOf(o, u, s) = KeysOf(o, t, s) \cup (IF here THEN {KeyOf(l.clean)} ELSE {})
  BY <1>10
<1> QED  BY <1>8, <1>9, <1>11, <1>12 DEF u, n, here

LEMMA SectionsGrow ==
    ASSUME NEW o \in ParseOptions, NEW t \in Seq(Lines), NEW l \in Lines
    PROVE  LET u == Append(t, l)
               n == Len(t) + 1
           IN  SectionsOf(o, u) = (SectionsOf(o, t)
                 \cup (IF NewHead(o, t, l) /\ l.clean.kind = "header" THEN {l.clean.name} ELSE {})
                 \cup (IF NewOption(o, t, l) THEN {SectionAt(o, t, n)} ELSE {})) \ {Default}
<1> DEFINE u == Append(t, l)
           n == Len(t) + 1
           H == NewHead(o, t, l) /\ l.clean.kind = "header"
<1>1. /\ n \in Nat \ {0} /\ u[n] = l /\ \A j \in 1 .. n - 1 : u[j] = t[j]
  BY OneMore
<1>2. /\ Heads(o, t) \subseteq 1 .. n - 1
      /\ HeadersIn(o, u) = HeadersIn(o, t) \cup (IF H THEN {n} ELSE {})
      /\ OptionsIn(o, u) = OptionsIn(o, t) \cup (IF NewOption(o, t, l) THEN {n} ELSE {})
  BY HeadsGrow DEF NewOption
<1>3. HeadersIn(o, t) \subseteq 1 .. n - 1 /\ OptionsIn(o, t) \subseteq 1 .. n - 1
  BY <1>2 DEF HeadersIn, OptionsIn
<1>4. \A i \in 1 .. n : SectionAt(o, u, i) = SectionAt(o, t, i)
  BY NamesGrow
<1> HIDE DEF u, n, H
<1>5. \A i \in 1 .. n - 1 : i \in 1 .. n /\ i # n
  BY <1>1
<1>6. n \in 1 .. n
  BY <1>1
<1>7. {u[i].clean.name : i \in HeadersIn(o, u)} =
        {t[i].clean.name : i \in HeadersIn(o, t)} \cup (IF H THEN {l.clean.name} ELSE {})
  BY <1>1, <1>2, <1>3, <1>5
<1>8. {SectionAt(o, u, i) : i \in OptionsIn(o, u)} =
        {SectionAt(o, t, i) : i \in OptionsIn(o, t)} \cup (IF NewOption(o, t, l) THEN {SectionAt(o, t, n)} ELSE {})
  BY <1>2, <1>3, <1>4, <1>5, <1>6
<1>9. \A x : SectionsOf(o, x) =
        ({x[i].clean.name : i \in HeadersIn(o, x)} \cup {SectionAt(o, x, i) : i \in OptionsIn(o, x)}) \ {Default}
  BY DEF SectionsOf
<1>10. SectionsOf(o, u) = (SectionsOf(o, t) \cup (IF H THEN {l.clean.name} ELSE {})
                 \cup (IF NewOption(o, t, l) THEN {SectionAt(o, t, n)} ELSE {})) \ {Default}
  BY <1>7, <1>8, <1>9
<1> QED  BY <1>10 DEF u, n, H

(* What a new head must be for the text to stay well-formed.               *)
Fits(o, b, t, l) ==
    LET c == l.clean
        s == SectionAt(o, t, Len(t) + 1)
    IN  IF c.kind = "header"
        THEN /\ c.name # NoName
             /\ o.strict /\ c.name # Default => c.name \notin DOMAIN b.index \cup SectionsOf(o, t)
        ELSE /\ Opens(c) \/ (o.noValue /\ c.kind # "option")
             /\ NameAt(o, t, Len(t) + 1) = NoName => o.unnamed
             /\ o.strict => KeyOf(c) \notin KeysOf(o, t, s) \cup Listed(ItemsBefore(b, s))

LEMMA BeginsAlike ==
    ASSUME NEW t \in Seq(Lines), NEW l \in Lines, NEW i \in 1 .. Len(t)
    PROVE  SubSeq(Append(t, l), 1, i - 1) = SubSeq(t, 1, i - 1)
<1> DEFINE u == Append(t, l)
<1>1. u \in Seq(Lines) /\ Len(u) = Len(t) + 1 /\ Len(t) \in Nat /\ \A j \in 1 .. Len(t) : u[j] = t[j]
  OBVIOUS
<1> HIDE DEF u
<1>2. /\ i - 1 \in Nat /\ 1 - 1 <= i - 1 /\ i - 1 <= Len(t) /\ i - 1 <= Len(u)
      /\ 1 \in 1 .. Len(t) + 1 /\ 1 \in 1 .. Len(u) + 1
  BY <1>1
<1> DEFINE v == SubSeq(u, 1, i - 1)
           w == SubSeq(t, 1, i - 1)
           m == i - 1 - 1 + 1
<1>3. v \in Seq(Lines) /\ Len(v) = m /\ \A j \in 1 .. m : v[j] = u[1 + j - 1]
  BY <1>1, <1>2, Cut
<1>4. w \in Seq(Lines) /\ Len(w) = m /\ \A j \in 1 .. m : w[j] = t[1 + j - 1]
  BY <1>1, <1>2, Cut
<1>5. \A j \in 1 .. m : 1 + j - 1 \in 1 .. Len(t)
  BY <1>1
<1> HIDE DEF v, w, m
<1>6. v = w
  BY <1>1, <1>3, <1>4, <1>5, SeqEqual
<1> QED  BY <1>6 DEF v, w, u

LEMMA WellFormedGrows ==
    ASSUME NEW o \in ParseOptions, NEW t \in Seq(Lines), NEW l \in Lines, NEW b
    PROVE  WellFormed(o, b, Append(t, l)) <=>
             WellFormed(o, b, t) /\ (NewHead(o, t, l) => Fits(o, b, t, l))
<1> DEFINE u == Append(t, l)
           n == Len(t) + 1
           HeaderOK(x, i) ==
             /\ x[i].clean.name # NoName
             /\ o.strict /\ x[i].clean.name # Default =>
                  x[i].clean.name \notin DOMAIN b.index \cup SectionsOf(o, SubSeq(x, 1, i - 1))
           Alone(x, i) ==
             LET s == SectionAt(o, x, i)
                 k == KeyAt(x, i)
             IN  Assigns(o, x, s, k) = {i} /\ k \notin Listed(ItemsBefore(b, s))
           OptionOK(x, i) ==
             /\ Opens(x[i].clean) \/ (o.noValue /\ x[i].clean.kind # "option")
             /\ NameAt(o, x, i) = NoName => o.unnamed
             /\ o.strict => Alone(x, i)
<1>0. \A x : WellFormed(o, b, x) <=>
        (\A i \in HeadersIn(o, x) : HeaderOK(x, i)) /\ (\A i \in OptionsIn(o, x) : OptionOK(x, i))
  BY DEF WellFormed
<1>1. /\ n \in Nat \ {0} /\ u[n] = l /\ \A j \in 1 .. n - 1 : u[j] = t[j]
  BY OneMore
<1>1s. SubSeq(u, 1, n - 1) = t
  BY OneMore
<1>2. /\ Heads(o, t) \subseteq 1 .. n - 1
      /\ HeadersIn(o, u) = HeadersIn(o, t) \cup (IF NewHead(o, t, l) /\ l.clean.kind = "header" THEN {n} ELSE {})
      /\ OptionsIn(o, u) = OptionsIn(o, t) \cup (IF NewOption(o, t, l) THEN {n} ELSE {})
  BY HeadsGrow DEF NewOption
<1>3. HeadersIn(o, t) \subseteq 1 .. n - 1 /\ OptionsIn(o, t) \subseteq 1 .. n - 1
  BY <1>2 DEF HeadersIn, OptionsIn
<1>4. \A i \in 1 .. n : NameAt(o, u, i) = NameAt(o, t, i) /\ SectionAt(o, u, i) = SectionAt(o, t, i)
  BY NamesGrow
<1>5. \A s, k : /\ Assigns(o, u, s, k) = Assigns(o, t, s, k)
                     \cup (IF NewOption(o, t, l) /\ SectionAt(o, t, n) = s /\ KeyOf(l.clean) = k THEN {n} ELSE {})
                /\ Assigns(o, t, s, k) \subseteq 1 .. n - 1
                /\ k \in KeysOf(o, t, s) <=> Assigns(o, t, s, k) # {}
  BY KeysGrow
<1>6. \A i \in 1 .. n - 1 : SubSeq(u, 1, i - 1) = SubSeq(t, 1, i - 1)
  BY BeginsAlike
<1> HIDE DEF u, n
<1>7. \A i \in 1 .. n - 1 : KeyAt(u, i) = KeyAt(t, i) /\ i \in 1 .. n /\ i # n
  BY <1>1 DEF KeyAt
<1>8. KeyAt(u, n) = KeyOf(l.clean) /\ n \in 1 .. n /\ n \notin 1 .. n - 1
  BY <1>1 DEF KeyAt, KeyOf
<1>9. ASSUME NEW i \in HeadersIn(o, t) PROVE HeaderOK(u, i) <=> HeaderOK(t, i)
  BY <1>1, <1>3, <1>6
<1>10. ASSUME NewHead(o, t, l), l.clean.kind = "header" PROVE HeaderOK(u, n) <=> Fits(o, b, t, l)
  BY <1>1, <1>1s, <1>10 DEF Fits
<1>11. ASSUME NEW i \in OptionsIn(o, t) PROVE Alone(u, i) =>  Alone(t, i)
  <2>1. i \in 1 .. n - 1 /\ SectionAt(o, u, i) = SectionAt(o, t, i) /\ KeyAt(u, i) = KeyAt(t, i)
    BY <1>3, <1>4, <1>7
  <2>2. i \in Assigns(o, t, SectionAt(o, t, i), KeyAt(t, i))
    BY DEF Assigns
  <2> QED  BY <1>5, <2>1, <2>2
<1>12. ASSUME NEW i \in OptionsIn(o, t), Alone(t, i), ~Alone(u, i)
       PROVE  NewOption(o, t, l) /\ KeyOf(l.clean) \in KeysOf(o, t, SectionAt(o, t, n))
  <2>1. i \in 1 .. n - 1 /\ SectionAt(o, u, i) = SectionAt(o, t, i) /\ KeyAt(u, i) = KeyAt(t, i)
    BY <1>3, <1>4, <1>7
  <2> QED  BY <1>5, <1>12, <2>1
<1>13. ASSUME NewOption(o, t, l)
       PROVE  Alone(u, n) <=> KeyOf(l.clean) \notin KeysOf(o, t, SectionAt(o, t, n))
                                \cup Listed(ItemsBefore(b, SectionAt(o, t, n)))
  <2> DEFINE s == SectionAt(o, t, n)
             k == KeyOf(l.clean)
  <2>1. Alone(u, n) <=> Assigns(o, u, s, k) = {n} /\ k \notin Listed(ItemsBefore(b, s))
    BY <1>4, <1>8
  <2>2. Assigns(o, u, s, k) = Assigns(o, t, s, k) \cup {n} /\ n \notin Assigns(o, t, s, k)
    BY <1>5, <1>8, <1>13
  <2>3. k \in KeysOf(o, t, s) <=> Assigns(o, t, s, k) # {}
    BY <1>5
  <2> HIDE DEF s, k, Alone
  <2>4. Assigns(o, u, s, k) = {n} <=> Assigns(o, t, s, k) = {}
    BY <2>2
  <2>5. Alone(u, n) <=> k \notin KeysOf(o, t, s) \cup Listed(ItemsBefore(b, s))
    BY <2>1, <2>3, <2>4
  <2> QED  BY <2>5 DEF s, k
<1> HIDE DEF HeaderOK, Alone
<1>14. ASSUME NEW i \in OptionsIn(o, t) PROVE OptionOK(u, i) => OptionOK(t, i)
  BY <1>1, <1>3, <1>4, <1>7, <1>11
<1>15. ASSUME NEW i \in OptionsIn(o, t), OptionOK(t, i), NewOption(o, t, l) => Fits(o, b, t, l)
       PROVE  OptionOK(u, i)
  <2>1. o.strict => Alone(u, i)
    <3>1. NewOption(o, t, l) /\ o.strict => KeyOf(l.clean) \notin KeysOf(o, t, SectionAt(o, t, n))
      BY <1>15 DEF Fits, NewOption, n
    <3> QED  BY <1>12, <1>15, <3>1
  <2> QED  BY <1>1, <1>3, <1>4, <1>7, <1>15, <2>1
<1>16. ASSUME NewOption(o, t, l) PROVE OptionOK(u, n) <=> Fits(o, b, t, l)
  <2>1. Fits(o, b, t, l) <=>
          /\ Opens(l.clean) \/ (o.noValue /\ l.clean.kind # "option")
          /\ NameAt(o, t, n) = NoName => o.unnamed
          /\ o.strict => KeyOf(l.clean) \notin KeysOf(o, t, SectionAt(o, t, n)) \cup Listed(ItemsBefore(b, SectionAt(o, t, n)))
    BY <1>16 DEF Fits, NewOption, n
  <2>2. NameAt(o, u, n) = NameAt(o, t, n) /\ u[n] = l
    BY <1>1, <1>4, <1>8
  <2> QED  BY <1>13, <1>16, <2>1, <2>2
<1> HIDE DEF OptionOK
<1>17. NewHead(o, t, l) => NewOption(o, t, l) \/ l.clean.kind = "header"
  BY DEF NewOption
<1>18. NewOption(o, t, l) => NewHead(o, t, l) /\ l.clean.kind # "header"
  BY DEF NewOption
<1>19. ASSUME WellFormed(o, b, u) PROVE WellFormed(o, b, t) /\ (NewHead(o, t, l) => Fits(o, b, t, l))
  <2>1. \A i \in HeadersIn(o, t) : HeaderOK(t, i)
    BY <1>0, <1>2, <1>9, <1>19
  <2>2. \A i \in OptionsIn(o, t) : OptionOK(t, i)
    BY <1>0, <1>2, <1>14, <1>19
  <2>3. NewOption(o, t, l) => Fits(o, b, t, l)
    BY <1>0, <1>2, <1>16, <1>19
  <2>4. NewHead(o, t, l) /\ l.clean.kind = "header" => Fits(o, b, t, l)
    BY <1>0, <1>2, <1>10, <1>19
  <2> QED  BY <1>0, <1>17, <2>1, <2>2, <2>3, <2>4
<1>20. ASSUME WellFormed(o, b, t), NewHead(o, t, l) => Fits(o, b, t, l) PROVE WellFormed(o, b, u)
  <2>1. ASSUME NEW i \in HeadersIn(o, u) PROVE HeaderOK(u, i)
    BY <1>0, <1>2, <1>9, <1>10, <1>20
  <2>2. ASSUME NEW i \in OptionsIn(o, u) PROVE OptionOK(u, i)
    BY <1>0, <1>2, <1>15, <1>16, <1>18, <1>20
  <2> QED  BY <1>0, <2>1, <2>2
<1>21. WellFormed(o, b, u) <=> WellFormed(o, b, t) /\ (NewHead(o, t, l) => Fits(o, b, t, l))
  BY <1>19, <1>20
<1> QED  BY <1>21 DEF u

LEMMA PieceOf ==
    ASSUME NEW c \in Cleaned, c.kind = "option"
    PROVE  c.value \in Pieces /\ c.value \in Cleaned /\ c.key \in STRING
<1>1. ASSUME NEW d \in Pieces PROVE d.kind # "option"
  <2>1. CASE d \in {Blank, Bad}
    BY <2>1 DEF Blank, Bad
  <2>2. CASE d \in [kind : {"word"}, word : STRING \ {NoName}]
    BY <2>2
  <2>3. CASE d \in [kind : {"ref"}, sec : STRING, key : STRING]
    BY <2>3
  <2> QED  BY <2>1, <2>2, <2>3 DEF Pieces
<1>2. c \in [kind : {"option"}, key : STRING, value : Pieces]
  <2>1. \A d \in [kind : {"header"}, name : STRING] : d.kind # "option"
    OBVIOUS
  <2> QED  BY <1>1, <2>1 DEF Cleaned
<1>3. Pieces \subseteq Cleaned
  BY DEF Cleaned
<1> QED  BY <1>2, <1>3

LEMMA Gathers ==
    ASSUME NEW t \in Seq(Lines), NEW i \in 1 .. Len(t), t[i].clean.kind = "option"
    PROVE  /\ Gathered(t, i) \in Seq(Cleaned) /\ Len(Gathered(t, i)) = Len(t) - i + 1
           /\ Gathered(t, i)[1] = t[i].clean.value
           /\ \A n \in 1 .. Len(t) - i : Gathered(t, i)[n + 1] = t[i + n].clean
<1> DEFINE a == <<t[i].clean.value>>
           m == Len(t) - i
           b == [n \in 1 .. m |-> t[i + n].clean]
<1>1. m \in Nat /\ i \in Nat \ {0} /\ \A n \in 1 .. m : i + n \in 1 .. Len(t)
  OBVIOUS
<1>2. ASSUME NEW j \in 1 .. Len(t) PROVE t[j].clean \in Cleaned
  <2>1. t[j] \in Lines
    BY ElementOfSeq
  <2> QED  BY <2>1 DEF Lines
<1>3. a \in Seq(Cleaned) /\ Len(a) = 1 /\ a[1] = t[i].clean.value
  BY <1>2, PieceOf
<1>4. b \in Seq(Cleaned) /\ Len(b) = m /\ \A n \in 1 .. m : b[n] = t[i + n].clean
  <2>1. \A n \in 1 .. m : t[i + n].clean \in Cleaned
    BY <1>1, <1>2
  <2> HIDE DEF m
  <2> QED  BY <1>1, <2>1
<1>5. Gathered(t, i) = a \o b
  BY DEF Gathered
<1> HIDE DEF a, b, m
<1>6. /\ a \o b \in Seq(Cleaned) /\ Len(a \o b) = Len(a) + Len(b)
      /\ \A j \in 1 .. Len(a) + Len(b) : (a \o b)[j] = IF j <= Len(a) THEN a[j] ELSE b[j - Len(a)]
  BY <1>3, <1>4, ConcatProperties
<1>7. Len(a) + Len(b) = m + 1 /\ 1 \in 1 .. m + 1 /\ 1 <= Len(a)
  BY <1>1, <1>3, <1>4
<1>8. Gathered(t, i)[1] = t[i].clean.value
  BY <1>3, <1>5, <1>6, <1>7
<1>9. ASSUME NEW n \in 1 .. m PROVE Gathered(t, i)[n + 1] = t[i + n].clean
  <2>1. n + 1 \in 1 .. m + 1 /\ ~(n + 1 <= Len(a)) /\ (n + 1) - Len(a) = n
    BY <1>1, <1>3
  <2> QED  BY <1>4, <1>5, <1>6, <1>7, <2>1
<1> QED  BY <1>5, <1>6, <1>7, <1>8, <1>9 DEF m

LEMMA GathersMore ==
    ASSUME NEW t \in Seq(Lines), NEW l \in Lines, NEW i \in 1 .. Len(t), t[i].clean.kind = "option"
    PROVE  Gathered(Append(t, l), i) = Append(Gathered(t, i), l.clean)
<1> DEFINE u == Append(t, l)
           g == Gathered(t, i)
           h == Gathered(u, i)
           m == Len(t) - i + 1
<1>1. u \in Seq(Lines) /\ Len(u) = Len(t) + 1 /\ Len(t) \in Nat /\ u[Len(t) + 1] = l /\ \A j \in 1 .. Len(t) : u[j] = t[j]
  OBVIOUS
<1> HIDE DEF u
<1>2. i \in 1 .. Len(u) /\ u[i].clean.kind = "option"
  BY <1>1
<1>3. /\ g \in Seq(Cleaned) /\ Len(g) = m /\ g[1] = t[i].clean.value
      /\ \A n \in 1 .. Len(t) - i : g[n + 1] = t[i + n].clean
  BY Gathers
<1>4. /\ h \in Seq(Cleaned) /\ Len(h) = Len(u) - i + 1 /\ h[1] = u[i].clean.value
      /\ \A n \in 1 .. Len(u) - i : h[n + 1] = u[i + n].clean
  BY <1>1, <1>2, Gathers
<1>5. l.clean \in Cleaned /\ m \in Nat \ {0} /\ Len(u) - i + 1 = m + 1 /\ Len(t) - i = m - 1 /\ Len(u) - i = m
  BY <1>1 DEF Lines
<1>a. i + m = Len(t) + 1
  BY <1>1
<1>b. \A n \in 1 .. m - 1 : i + n \in 1 .. Len(t)
  BY <1>1
<1> HIDE DEF g, h, m
<1>6. /\ Append(g, l.clean) \in Seq(Cleaned) /\ Len(Append(g, l.clean)) = m + 1
      /\ Append(g, l.clean)[m + 1] = l.clean /\ \A j \in 1 .. m : Append(g, l.clean)[j] = g[j]
  BY <1>3, <1>5, AppendProperties
<1>7. ASSUME NEW j \in 1 .. m + 1 PROVE h[j] = Append(g, l.clean)[j]
  <2>1. CASE j = 1
    <3>1. 1 \in 1 .. m
      BY <1>5
    <3> QED  BY <1>1, <1>3, <1>4, <1>6, <2>1, <3>1
  <2>2. CASE j = m + 1
    <3>1. h[m + 1] = u[i + m].clean
      BY <1>4, <1>5
    <3> QED  BY <1>1, <1>6, <1>a, <2>2, <3>1
  <2>3. CASE j # 1 /\ j # m + 1
    <3>1. j - 1 \in 1 .. m - 1 /\ j - 1 \in 1 .. m /\ (j - 1) + 1 = j /\ j \in 1 .. m
      BY <1>5, <2>3
    <3>2. h[j] = u[i + (j - 1)].clean
      BY <1>4, <1>5, <3>1
    <3>3. g[j] = t[i + (j - 1)].clean
      BY <1>3, <1>5, <3>1
    <3>4. u[i + (j - 1)] = t[i + (j - 1)]
      BY <1>1, <1>b, <3>1
    <3> QED  BY <1>6, <3>1, <3>2, <3>3, <3>4
  <2> QED  BY <2>1, <2>2, <2>3
<1>8. h = Append(g, l.clean)
  BY <1>4, <1>5, <1>6, <1>7, SeqEqual
<1> QED  BY <1>8 DEF g, h, u

(* The last head has the value that has been gathered for it.              *)
LEMMA LastValue ==
    ASSUME NEW o, NEW t \in Seq(Lines), NEW i \in 1 .. Len(t),
           \A j \in Heads(o, t) : j <= i, t[i].clean.kind = "option"
    PROVE  ValueAt(o, t, i) = Trimmed(Gathered(t, i))
<1>1. {j \in Heads(o, t) : j > i} = {}
  <2>1. Heads(o, t) \subseteq 1 .. Len(t)
    BY DEF Heads
  <2>2. ASSUME NEW j \in Heads(o, t), j > i PROVE FALSE
    BY <2>1, <2>2
  <2> QED  BY <2>2
<1> QED  BY <1>1 DEF ValueAt, Gathered

(* A value with a head below it is complete, and the first such head       *)
(* completes it.                                                           *)
LEMMA ValueKept ==
    ASSUME NEW o \in ParseOptions, NEW t \in Seq(Lines), NEW l \in Lines, NEW i \in 1 .. Len(t),
           NewHead(o, t, l) \/ \E j \in Heads(o, t) : j > i
    PROVE  ValueAt(o, Append(t, l), i) = ValueAt(o, t, i)
<1> DEFINE u == Append(t, l)
           n == Len(t) + 1
           over(x) == {j \in Heads(o, x) : j > i}
           end(x) == IF over(x) = {} THEN Len(x) ELSE Min(over(x)) - 1
           V(x, m) == IF x[i].clean.kind # "option" THEN NoValue
                      ELSE Trimmed(<<x[i].clean.value>> \o [k \in 1 .. m - i |-> x[i + k].clean])
<1>1. /\ n \in Nat \ {0} /\ u[n] = l /\ Len(u) = n /\ Len(t) = n - 1
      /\ \A j \in 1 .. n - 1 : u[j] = t[j]
  BY OneMore
<1>2. /\ Heads(o, t) \subseteq 1 .. n - 1
      /\ Heads(o, u) = Heads(o, t) \cup (IF NewHead(o, t, l) THEN {n} ELSE {})
  BY HeadsGrow
<1>3. i \in 1 .. n - 1 /\ n > i
  BY <1>1
<1>4. \A x : ValueAt(o, x, i) = V(x, end(x))
  BY DEF ValueAt
<1> HIDE DEF u, n
<1>5. end(u) = end(t) /\ end(t) \in i .. n - 1
  <2>1. CASE over(t) = {}
    <3>1. NewHead(o, t, l)
      BY <2>1, <1>2, <1>3 DEF u, n
    <3>2. over(u) = {n}
      BY <2>1, <3>1, <1>2, <1>3
    <3>3. Min({n}) = n
      <4>1. {n} \in SUBSET Nat /\ n \in {n} /\ \A x \in {n} : n <= x
        BY <1>1
      <4> QED  BY <4>1, MinIs
    <3>4. end(u) = n - 1 /\ end(t) = n - 1
      <4>1. over(u) # {} /\ Min(over(u)) = n
        BY <3>2, <3>3
      <4> HIDE DEF over
      <4> QED  BY <2>1, <4>1, <1>1
    <3> HIDE DEF end
    <3> QED  BY <3>4, <1>1, <1>3
  <2>2. CASE over(t) # {}
    <3>1. over(t) \in SUBSET Nat /\ over(u) \in SUBSET Nat
      BY <1>1, <1>2
    <3>2. Min(over(t)) \in over(t) /\ \A x \in over(t) : Min(over(t)) <= x
      <4> HIDE DEF over
      <4> QED  BY <2>2, <3>1, MinOf
    <3> DEFINE m == Min(over(t))
    <3>m. m \in over(t) /\ \A x \in over(t) : m <= x
      BY <3>2
    <3>3. m \in over(u) /\ \A x \in over(u) : m <= x
      <4> HIDE DEF m
      <4> QED  BY <3>m, <1>1, <1>2
    <3>4. Min(over(u)) = Min(over(t))
      <4> HIDE DEF over
      <4> QED  BY <3>1, <3>3, MinIs
    <3>5. Min(over(t)) \in 1 .. n - 1 /\ Min(over(t)) > i
      <4> HIDE DEF m
      <4>1. m \in 1 .. n - 1 /\ m > i
        BY <1>2, <3>m
      <4> QED  BY <4>1 DEF m
    <3>6. over(u) # {}
      BY <3>3
    <3>7. end(u) = Min(over(t)) - 1 /\ end(t) = Min(over(t)) - 1
      <4> HIDE DEF over
      <4> QED  BY <2>2, <3>4, <3>6
    <3> HIDE DEF end
    <3> QED  BY <3>5, <3>7, <1>1, <1>3
  <2> QED  BY <2>1, <2>2
<1> HIDE DEF end
<1>6. u[i] = t[i] /\ [k \in 1 .. end(t) - i |-> u[i + k].clean] = [k \in 1 .. end(t) - i |-> t[i + k].clean]
  <2>1. \A k \in 1 .. end(t) - i : i + k \in 1 .. n - 1
    BY <1>1, <1>3, <1>5
  <2> QED  BY <1>1, <1>3, <2>1
<1>7. V(u, end(t)) = V(t, end(t))
  BY <1>6
<1> HIDE DEF V
<1> QED  BY <1>4, <1>5, <1>7 DEF u

(* A value of no text is the same in every text.                           *)
LEMMA NoValueAt ==
    ASSUME NEW o, NEW t, NEW i, t[i].clean.kind # "option"
    PROVE  ValueAt(o, t, i) = NoValue
BY DEF ValueAt

LEMMA StaysInterrupted ==
    ASSUME NEW o \in ParseOptions, NEW t \in Seq(Lines), NEW l \in Lines, NEW i \in 1 .. Len(t)
    PROVE  /\ Interrupted(o, t, i) => Interrupted(o, Append(t, l), i)
           /\ ~o.emptyLines /\ l.clean = Blank /\ (\A j \in Heads(o, t) : j <= i) => Interrupted(o, Append(t, l), i)
<1> DEFINE u == Append(t, l)
           n == Len(t) + 1
<1>1. /\ n \in Nat \ {0} /\ u[n] = l /\ Len(u) = n /\ Len(t) = n - 1
      /\ \A j \in 1 .. n - 1 : u[j] = t[j]
  BY OneMore
<1>2. /\ Heads(o, t) \subseteq 1 .. n - 1
      /\ Heads(o, u) = Heads(o, t) \cup (IF NewHead(o, t, l) THEN {n} ELSE {})
  BY HeadsGrow
<1>p. i \in 1 .. n - 1 /\ n > i
  BY <1>1
<1> HIDE DEF u, n
<1>3. ASSUME Interrupted(o, t, i) PROVE Interrupted(o, u, i)
  <2>1. PICK j \in i + 1 .. n - 1 : t[j].clean = Blank /\ \A m \in i + 1 .. j - 1 : m \notin Heads(o, t)
    BY <1>1, <1>3 DEF Interrupted
  <2>2. j \in i + 1 .. n /\ j \in 1 .. n - 1 /\ u[j].clean = Blank
    BY <1>1, <1>p, <2>1
  <2>3. \A m \in i + 1 .. j - 1 : m # n
    BY <1>1, <2>1
  <2>4. \A m \in i + 1 .. j - 1 : m \notin Heads(o, u)
    BY <1>2, <2>1, <2>3
  <2> QED  BY <1>1, <1>3, <2>2, <2>4 DEF Interrupted
<1>4. ASSUME ~o.emptyLines, l.clean = Blank, \A j \in Heads(o, t) : j <= i PROVE Interrupted(o, u, i)
  <2>1. n \in i + 1 .. n
    BY <1>1, <1>p
  <2>2. ASSUME NEW m \in i + 1 .. n - 1, m \in Heads(o, u) PROVE FALSE
    <3>1. m # n /\ m > i
      BY <1>1
    <3>2. m \in Heads(o, t)
      BY <1>2, <2>2, <3>1
    <3> QED  BY <1>4, <3>1, <3>2
  <2> QED  BY <1>1, <1>4, <2>1, <2>2 DEF Interrupted
<1> QED  BY <1>3, <1>4 DEF u

-----------------------------------------------------------------------------
(* What the object holds of a text read so far.                            *)
IsLast(o, t, i) == \A j \in Heads(o, t) : j <= i

Settled(o, t, open, i, v) == Interrupted(o, t, i) \/ v = ValueAt(o, t, i) \/ (open /\ IsLast(o, t, i))

Contents(o, b, p, t, open) ==
    \A s \in Homes(p) :
        LET old == ItemsBefore(b, s)
            new == KeysOf(o, t, s)
            now == Items(p, s)
        IN  /\ Listed(now) = Listed(old) \cup new
            /\ \A k \in new : Settled(o, t, open, Max(Assigns(o, t, s, k)), ValueIn(now, k))
            /\ \A k \in Listed(old) \ new : ValueIn(now, k) = ValueIn(old, k)

Known(o, b, p, t) == DOMAIN p.index = DOMAIN b.index \cup SectionsOf(o, t)

(* A value is set where it is set and nowhere else.                        *)
LEMMA Assigning ==
    ASSUME NEW p, Sound(p), NEW s \in Homes(p), NEW k \in STRING, NEW v \in Stored
    PROVE  LET q == WithItems(p, s, Put(Items(p, s), k, v))
           IN  /\ Sound(q) /\ DOMAIN q.index = DOMAIN p.index
               /\ Listed(Items(q, s)) = Listed(Items(p, s)) \cup {k}
               /\ ValueIn(Items(q, s), k) = v
               /\ \A x \in Listed(Items(p, s)) \ {k} : ValueIn(Items(q, s), x) = ValueIn(Items(p, s), x)
               /\ \A x \in Homes(p) \ {s} : Items(q, x) = Items(p, x)
<1> DEFINE put == Put(Items(p, s), k, v)
           q == WithItems(p, s, put)
<1>1. Items(p, s) \in Seq(Entries) /\ Unique(Items(p, s))
  BY HomeItems
<1>2. /\ put \in Seq(Entries) /\ Unique(put)
      /\ Listed(put) = Listed(Items(p, s)) \cup {k}
      /\ ValueIn(put, k) = v
      /\ \A x \in Listed(Items(p, s)) \ {k} : ValueIn(put, x) = ValueIn(Items(p, s), x)
  BY <1>1, PutItem
<1> HIDE DEF put
<1>3. /\ Sound(q) /\ DOMAIN q.index = DOMAIN p.index
      /\ Items(q, s) = put
      /\ \A x \in Homes(p) \ {s} : Items(q, x) = Items(p, x)
  BY <1>2, Replaced
<1> HIDE DEF q
<1> QED  BY <1>2, <1>3 DEF q, put

LEMMA KeySections ==
    ASSUME NEW o \in ParseOptions, NEW t \in Seq(Lines), NEW s, KeysOf(o, t, s) # {}, s # Default
    PROVE  s \in SectionsOf(o, t)
BY DEF KeysOf, SectionsOf

(* A section that is new has nothing to hold.                              *)
LEMMA ContentsAdded ==
    ASSUME NEW o \in ParseOptions, NEW b, NEW t \in Seq(Lines), NEW open \in BOOLEAN,
           NEW p, Sound(p), Known(o, b, p, t), Contents(o, b, p, t, open),
           NEW s \in STRING, s \notin Homes(p)
    PROVE  Contents(o, b, NewSection(p, s), t, open)
<1> DEFINE q == NewSection(p, s)
<1>1. /\ DOMAIN q.index = DOMAIN p.index \cup {s} /\ Items(q, s) = <<>>
      /\ \A x \in Homes(p) : Items(q, x) = Items(p, x)
  BY Added
<1>2. s # Default /\ s \notin DOMAIN b.index /\ s \notin SectionsOf(o, t)
  BY DEF Known, Homes
<1>3. KeysOf(o, t, s) = {}
  BY <1>2, KeySections
<1>4. ItemsBefore(b, s) = <<>>
  BY <1>2 DEF ItemsBefore, HasSection
<1>5. Listed(<<>>) = {}
  BY DEF Listed
<1>6. Homes(q) = Homes(p) \cup {s}
  BY <1>1 DEF Homes
<1> HIDE DEF q
<1>7. Contents(o, b, q, t, open)
  <2> SUFFICES ASSUME NEW x \in Homes(q)
               PROVE  LET old == ItemsBefore(b, x)
                          new == KeysOf(o, t, x)
                          now == Items(q, x)
                      IN  /\ Listed(now) = Listed(old) \cup new
                          /\ \A k \in new : Settled(o, t, open, Max(Assigns(o, t, x, k)), ValueIn(now, k))
                          /\ \A k \in Listed(old) \ new : ValueIn(now, k) = ValueIn(old, k)
    BY DEF Contents
  <2>1. CASE x = s
    BY <2>1, <1>1, <1>3, <1>4, <1>5
  <2>2. CASE x # s
    BY <2>2, <1>1, <1>6 DEF Contents
  <2> QED  BY <2>1, <2>2
<1> QED  BY <1>7 DEF q

(* Its last line for an option is one of the text's.                       *)
LEMMA LastAssign ==
    ASSUME NEW o, NEW t \in Seq(Lines), NEW s, NEW k \in KeysOf(o, t, s)
    PROVE  LET i == Max(Assigns(o, t, s, k))
           IN  /\ i \in Assigns(o, t, s, k) /\ i \in OptionsIn(o, t) /\ i \in 1 .. Len(t)
               /\ \A j \in Assigns(o, t, s, k) : j <= i
<1>1. Assigns(o, t, s, k) # {}
  BY DEF Assigns, KeysOf
<1>2. Assigns(o, t, s, k) \subseteq OptionsIn(o, t) /\ OptionsIn(o, t) \subseteq 1 .. Len(t) /\ Len(t) \in Nat
  BY DEF Assigns, OptionsIn, Heads
<1> QED  BY <1>1, <1>2, MaxOf

(* A line that is no head leaves everything as it is, except the value it  *)
(* continues or cuts off.                                                  *)
LEMMA ContentsContinue ==
    ASSUME NEW o \in ParseOptions, NEW b, NEW t \in Seq(Lines), NEW l \in Lines, NEW p,
           NEW open \in BOOLEAN, NEW still \in BOOLEAN, Contents(o, b, p, t, open), ~NewHead(o, t, l),
           \A i \in OptionsIn(o, t) : IsLast(o, t, i) =>
              still \/ Interrupted(o, Append(t, l), i) \/ (~open /\ t[i].clean.kind # "option")
    PROVE  Contents(o, b, p, Append(t, l), still)
<1> DEFINE u == Append(t, l)
<1>1. Heads(o, u) = Heads(o, t)
  <2>1. Heads(o, u) = Heads(o, t) \cup (IF NewHead(o, t, l) THEN {Len(t) + 1} ELSE {})
    BY HeadsGrow
  <2> HIDE DEF u
  <2> QED  BY <2>1
<1>2. ASSUME NEW s PROVE KeysOf(o, u, s) = KeysOf(o, t, s) /\ \A k : Assigns(o, u, s, k) = Assigns(o, t, s, k)
  <2> DEFINE here == NewOption(o, t, l) /\ SectionAt(o, t, Len(t) + 1) = s
  <2>1. ~here
    BY DEF NewOption
  <2>2. /\ KeysOf(o, u, s) = KeysOf(o, t, s) \cup (IF here THEN {KeyOf(l.clean)} ELSE {})
        /\ \A k : Assigns(o, u, s, k) = Assigns(o, t, s, k)
                    \cup (IF here /\ KeyOf(l.clean) = k THEN {Len(t) + 1} ELSE {})
    BY KeysGrow
  <2> HIDE DEF u, here
  <2> QED  BY <2>1, <2>2
<1>3. ASSUME NEW i \in OptionsIn(o, t), i \in 1 .. Len(t), NEW v, Settled(o, t, open, i, v)
      PROVE  Settled(o, u, still, i, v)
  <2>1. CASE Interrupted(o, t, i)
    BY <1>3, <2>1, StaysInterrupted DEF Settled
  <2>2. CASE ~Interrupted(o, t, i) /\ IsLast(o, t, i)
    <3>1. IsLast(o, u, i)
      BY <1>1, <2>2 DEF IsLast
    <3>2. still \/ Interrupted(o, u, i) \/ (~open /\ t[i].clean.kind # "option")
      BY <2>2
    <3>3. ASSUME ~open, t[i].clean.kind # "option" PROVE v = ValueAt(o, u, i)
      <4>1. v = ValueAt(o, t, i)
        BY <1>3, <2>2, <3>3 DEF Settled
      <4>2. u[i] = t[i]
        BY <1>3, OneMore
      <4> QED  BY <3>3, <4>1, <4>2, NoValueAt
    <3> HIDE DEF u
    <3> QED  BY <3>1, <3>2, <3>3 DEF Settled
  <2>3. CASE ~Interrupted(o, t, i) /\ ~IsLast(o, t, i)
    <3>0. Heads(o, t) \subseteq 1 .. Len(t) /\ Len(t) \in Nat
      BY DEF Heads
    <3>1. \E j \in Heads(o, t) : j > i
      BY <1>3, <2>3, <3>0 DEF IsLast
    <3>2. ValueAt(o, u, i) = ValueAt(o, t, i)
      BY <1>3, <3>1, ValueKept
    <3> HIDE DEF u
    <3> QED  BY <1>3, <2>3, <3>2 DEF Settled
  <2> QED  BY <2>1, <2>2, <2>3
<1> HIDE DEF u
<1>4. Contents(o, b, p, u, still)
  BY <1>2, <1>3, LastAssign DEF Contents
<1> QED  BY <1>4 DEF u

(* The end of a value gives it to its option.                              *)
LEMMA ContentsFinished ==
    ASSUME NEW o \in ParseOptions, NEW b, NEW t \in Seq(Lines), NEW p, Sound(p),
           Contents(o, b, p, t, TRUE), NEW s \in Homes(p), NEW k \in STRING,
           NEW h \in Assigns(o, t, s, k), IsLast(o, t, h), t[h].clean.kind = "option",
           Trimmed(Gathered(t, h)) \in Stored
    PROVE  Contents(o, b, WithItems(p, s, Put(Items(p, s), k, Trimmed(Gathered(t, h)))), t, FALSE)
<1> DEFINE v == Trimmed(Gathered(t, h))
           q == WithItems(p, s, Put(Items(p, s), k, v))
<1>1. /\ DOMAIN q.index = DOMAIN p.index
      /\ Listed(Items(q, s)) = Listed(Items(p, s)) \cup {k}
      /\ ValueIn(Items(q, s), k) = v
      /\ \A x \in Listed(Items(p, s)) \ {k} : ValueIn(Items(q, s), x) = ValueIn(Items(p, s), x)
      /\ \A x \in Homes(p) \ {s} : Items(q, x) = Items(p, x)
  <2> HIDE DEF v
  <2>1. v \in Stored
    BY DEF v
  <2> QED  BY <2>1, Assigning
<1>2. h \in OptionsIn(o, t) /\ h \in Heads(o, t) /\ h \in 1 .. Len(t)
  BY DEF Assigns, OptionsIn, Heads
<1>3. v = ValueAt(o, t, h)
  BY <1>2, LastValue DEF IsLast
<1>4. k \in KeysOf(o, t, s)
  BY DEF KeysOf, Assigns
<1>5. Max(Assigns(o, t, s, k)) = h
  <2>1. Assigns(o, t, s, k) \in SUBSET (1 .. Len(t)) /\ Len(t) \in Nat
    BY DEF Assigns, OptionsIn, Heads
  <2>2. \A j \in Assigns(o, t, s, k) : j <= h
    BY DEF Assigns, OptionsIn, IsLast
  <2> QED  BY <2>1, <2>2, MaxIs
<1>6. ASSUME NEW y, NEW x \in KeysOf(o, t, y), IsLast(o, t, Max(Assigns(o, t, y, x))) PROVE y = s /\ x = k
  <2> DEFINE i == Max(Assigns(o, t, y, x))
  <2>1. i \in Assigns(o, t, y, x) /\ i \in OptionsIn(o, t) /\ i \in 1 .. Len(t)
    BY LastAssign
  <2>2. i \in Heads(o, t)
    BY <2>1 DEF OptionsIn
  <2>3. i = h
    <3>1. i <= h /\ h <= i
      BY <1>2, <1>6, <2>2 DEF IsLast
    <3> HIDE DEF i
    <3> QED  BY <1>2, <2>1, <3>1
  <2> HIDE DEF i
  <2> QED  BY <2>1, <2>3 DEF Assigns
<1> HIDE DEF v, q
<1>7. Homes(q) = Homes(p)
  BY <1>1 DEF Homes
<1>8. Contents(o, b, q, t, FALSE)
  <2> SUFFICES ASSUME NEW x \in Homes(p)
               PROVE  LET old == ItemsBefore(b, x)
                          new == KeysOf(o, t, x)
                          now == Items(q, x)
                      IN  /\ Listed(now) = Listed(old) \cup new
                          /\ \A y \in new : Settled(o, t, FALSE, Max(Assigns(o, t, x, y)), ValueIn(now, y))
                          /\ \A y \in Listed(old) \ new : ValueIn(now, y) = ValueIn(old, y)
    BY <1>7 DEF Contents
  <2> DEFINE old == ItemsBefore(b, x)
             new == KeysOf(o, t, x)
             now == Items(q, x)
  <2>1. /\ Listed(Items(p, x)) = Listed(old) \cup new
        /\ \A y \in new : Settled(o, t, TRUE, Max(Assigns(o, t, x, y)), ValueIn(Items(p, x), y))
        /\ \A y \in Listed(old) \ new : ValueIn(Items(p, x), y) = ValueIn(old, y)
    BY DEF Contents
  <2>2. Listed(now) = Listed(Items(p, x))
    BY <1>1, <1>4, <2>1
  <2>3. ASSUME NEW y \in new PROVE Settled(o, t, FALSE, Max(Assigns(o, t, x, y)), ValueIn(now, y))
    <3>1. CASE x = s /\ y = k
      BY <3>1, <1>1, <1>3, <1>5 DEF Settled
    <3>2. CASE ~(x = s /\ y = k)
      <4>1. ValueIn(now, y) = ValueIn(Items(p, x), y)
        BY <3>2, <1>1, <2>1
      <4>2. ~IsLast(o, t, Max(Assigns(o, t, x, y)))
        BY <3>2, <1>6
      <4> QED  BY <2>1, <4>1, <4>2 DEF Settled
    <3> QED  BY <3>1, <3>2
  <2>4. ASSUME NEW y \in Listed(old) \ new PROVE ValueIn(now, y) = ValueIn(old, y)
    BY <1>1, <1>4, <2>1
  <2> QED  BY <2>1, <2>2, <2>3, <2>4
<1> QED  BY <1>8 DEF q, v

(* A new head completes the values above it.                               *)
LEMMA SettledByHead ==
    ASSUME NEW o \in ParseOptions, NEW t \in Seq(Lines), NEW l \in Lines, NewHead(o, t, l),
           NEW i \in 1 .. Len(t), NEW v, Settled(o, t, FALSE, i, v)
    PROVE  \A open : Settled(o, Append(t, l), open, i, v)
<1>1. ValueAt(o, Append(t, l), i) = ValueAt(o, t, i)
  BY ValueKept
<1>2. Interrupted(o, t, i) => Interrupted(o, Append(t, l), i)
  BY StaysInterrupted
<1> QED  BY <1>1, <1>2 DEF Settled

LEMMA ContentsHeader ==
    ASSUME NEW o \in ParseOptions, NEW b, NEW t \in Seq(Lines), NEW l \in Lines, NEW p,
           Contents(o, b, p, t, FALSE), NewHead(o, t, l), l.clean.kind = "header"
    PROVE  Contents(o, b, p, Append(t, l), FALSE)
<1> DEFINE u == Append(t, l)
<1>1. ASSUME NEW s PROVE KeysOf(o, u, s) = KeysOf(o, t, s) /\ \A k : Assigns(o, u, s, k) = Assigns(o, t, s, k)
  <2> DEFINE here == NewOption(o, t, l) /\ SectionAt(o, t, Len(t) + 1) = s
  <2>1. ~here
    BY DEF NewOption
  <2>2. /\ KeysOf(o, u, s) = KeysOf(o, t, s) \cup (IF here THEN {KeyOf(l.clean)} ELSE {})
        /\ \A k : Assigns(o, u, s, k) = Assigns(o, t, s, k)
                    \cup (IF here /\ KeyOf(l.clean) = k THEN {Len(t) + 1} ELSE {})
    BY KeysGrow
  <2> HIDE DEF u, here
  <2> QED  BY <2>1, <2>2
<1>2. ASSUME NEW i \in 1 .. Len(t), NEW v, Settled(o, t, FALSE, i, v) PROVE Settled(o, u, FALSE, i, v)
  BY <1>2, SettledByHead
<1> HIDE DEF u
<1>3. Contents(o, b, p, u, FALSE)
  BY <1>1, <1>2, LastAssign DEF Contents
<1> QED  BY <1>3 DEF u

LEMMA ContentsOption ==
    ASSUME NEW o \in ParseOptions, NEW b, NEW t \in Seq(Lines), NEW l \in Lines, NEW p, Sound(p),
           Contents(o, b, p, t, FALSE), NewOption(o, t, l), NEW s \in Homes(p), s = SectionAt(o, t, Len(t) + 1),
           NEW k \in STRING, k = KeyOf(l.clean), NEW v \in Stored, NEW open \in BOOLEAN,
           open \/ v = ValueAt(o, Append(t, l), Len(t) + 1)
    PROVE  Contents(o, b, WithItems(p, s, Put(Items(p, s), k, v)), Append(t, l), open)
<1> DEFINE u == Append(t, l)
           n == Len(t) + 1
           q == WithItems(p, s, Put(Items(p, s), k, v))
<1>1. /\ DOMAIN q.index = DOMAIN p.index
      /\ Listed(Items(q, s)) = Listed(Items(p, s)) \cup {k}
      /\ ValueIn(Items(q, s), k) = v
      /\ \A x \in Listed(Items(p, s)) \ {k} : ValueIn(Items(q, s), x) = ValueIn(Items(p, s), x)
      /\ \A x \in Homes(p) \ {s} : Items(q, x) = Items(p, x)
  BY Assigning
<1>2. \A x : /\ \A y : Assigns(o, u, x, y) = Assigns(o, t, x, y) \cup (IF x = s /\ y = k THEN {n} ELSE {})
             /\ KeysOf(o, u, x) = KeysOf(o, t, x) \cup (IF x = s THEN {k} ELSE {})
             /\ \A y : Assigns(o, t, x, y) \subseteq 1 .. n - 1
  <2> SUFFICES ASSUME NEW x
               PROVE  /\ \A y : Assigns(o, u, x, y) = Assigns(o, t, x, y) \cup (IF x = s /\ y = k THEN {n} ELSE {})
                      /\ KeysOf(o, u, x) = KeysOf(o, t, x) \cup (IF x = s THEN {k} ELSE {})
                      /\ \A y : Assigns(o, t, x, y) \subseteq 1 .. n - 1
    OBVIOUS
  <2> DEFINE here == NewOption(o, t, l) /\ SectionAt(o, t, n) = x
  <2>1. /\ KeysOf(o, u, x) = KeysOf(o, t, x) \cup (IF here THEN {KeyOf(l.clean)} ELSE {})
        /\ \A y : Assigns(o, u, x, y) = Assigns(o, t, x, y) \cup (IF here /\ KeyOf(l.clean) = y THEN {n} ELSE {})
        /\ \A y : Assigns(o, t, x, y) \subseteq 1 .. n - 1
    BY KeysGrow
  <2>2. here <=> x = s
    OBVIOUS
  <2> HIDE DEF u, n, here
  <2> QED  BY <2>1, <2>2
<1>3. ASSUME NEW i \in 1 .. Len(t), NEW w, Settled(o, t, FALSE, i, w) PROVE Settled(o, u, open, i, w)
  BY <1>3, SettledByHead DEF NewOption
<1>4. Max(Assigns(o, u, s, k)) = n
  <2>1. n \in Nat /\ n >= 1
    OBVIOUS
  <2> HIDE DEF u, n
  <2>0. Assigns(o, u, s, k) = Assigns(o, t, s, k) \cup {n} /\ Assigns(o, t, s, k) \subseteq 1 .. n - 1
    BY <1>2
  <2>2. Assigns(o, u, s, k) \in SUBSET (1 .. n) /\ n \in Assigns(o, u, s, k)
    <3>1. n \in 1 .. n /\ 1 .. n - 1 \subseteq 1 .. n
      BY <2>1
    <3> QED  BY <2>0, <3>1
  <2>3. \A j \in Assigns(o, u, s, k) : j <= n
    BY <2>1, <2>2
  <2> QED  BY <2>1, <2>2, <2>3, MaxIs
<1>5. Settled(o, u, open, n, v)
  <2>1. n \in Nat /\ Heads(o, t) \subseteq 1 .. n - 1 /\ Heads(o, u) = Heads(o, t) \cup {n}
    <3>1. /\ n \in Nat /\ Heads(o, t) \subseteq 1 .. n - 1
          /\ Heads(o, u) = Heads(o, t) \cup (IF NewHead(o, t, l) THEN {n} ELSE {})
      BY HeadsGrow
    <3> HIDE DEF u, n
    <3> QED  BY <3>1 DEF NewOption
  <2> HIDE DEF u, n
  <2>2. IsLast(o, u, n)
    BY <2>1 DEF IsLast
  <2> QED  BY <2>2 DEF Settled, u, n
<1> HIDE DEF u, n, q
<1>6. Homes(q) = Homes(p)
  BY <1>1 DEF Homes
<1>7. Contents(o, b, q, u, open)
  <2> SUFFICES ASSUME NEW x \in Homes(p)
               PROVE  LET old == ItemsBefore(b, x)
                          new == KeysOf(o, u, x)
                          now == Items(q, x)
                      IN  /\ Listed(now) = Listed(old) \cup new
                          /\ \A y \in new : Settled(o, u, open, Max(Assigns(o, u, x, y)), ValueIn(now, y))
                          /\ \A y \in Listed(old) \ new : ValueIn(now, y) = ValueIn(old, y)
    BY <1>6 DEF Contents
  <2> DEFINE old == ItemsBefore(b, x)
             new == KeysOf(o, u, x)
             now == Items(q, x)
  <2>1. /\ Listed(Items(p, x)) = Listed(old) \cup KeysOf(o, t, x)
        /\ \A y \in KeysOf(o, t, x) : Settled(o, t, FALSE, Max(Assigns(o, t, x, y)), ValueIn(Items(p, x), y))
        /\ \A y \in Listed(old) \ KeysOf(o, t, x) : ValueIn(Items(p, x), y) = ValueIn(old, y)
    BY DEF Contents
  <2>2. Listed(now) = Listed(old) \cup new
    BY <1>1, <1>2, <2>1
  <2>3. ASSUME NEW y \in new PROVE Settled(o, u, open, Max(Assigns(o, u, x, y)), ValueIn(now, y))
    <3>1. CASE x = s /\ y = k
      BY <3>1, <1>1, <1>4, <1>5
    <3>2. CASE ~(x = s /\ y = k)
      <4>1. y \in KeysOf(o, t, x) /\ Assigns(o, u, x, y) = Assigns(o, t, x, y)
        <5>1. /\ Assigns(o, u, x, y) = Assigns(o, t, x, y) \cup (IF x = s /\ y = k THEN {n} ELSE {})
              /\ KeysOf(o, u, x) = KeysOf(o, t, x) \cup (IF x = s THEN {k} ELSE {})
          BY <1>2
        <5> QED  BY <3>2, <5>1
      <4>2. ValueIn(now, y) = ValueIn(Items(p, x), y)
        BY <3>2, <1>1, <2>1, <4>1
      <4>3. Max(Assigns(o, t, x, y)) \in 1 .. Len(t)
        BY <4>1, LastAssign
      <4> QED  BY <1>3, <2>1, <4>1, <4>2, <4>3
    <3> QED  BY <3>1, <3>2
  <2>4. ASSUME NEW y \in Listed(old) \ new PROVE ValueIn(now, y) = ValueIn(old, y)
    <3>1. ~(x = s /\ y = k) /\ y \in Listed(old) \ KeysOf(o, t, x)
      BY <1>2
    <3> QED  BY <3>1, <1>1, <2>1
  <2> QED  BY <2>2, <2>3, <2>4
<1> QED  BY <1>7 DEF q, u

-----------------------------------------------------------------------------
(* The local variables of read_string.                                     *)
Readers == [section : STRING \cup {NoName}, option : STRING \cup {NoName}, accum : Seq(Cleaned),
            multi : BOOLEAN, errors : BOOLEAN, thrown : BOOLEAN]

(* What they say of the object: an open value has a place in it.           *)
Tracks(p, r) ==
    /\ r \in Readers
    /\ r.section \in {NoName} \cup Homes(p)
    /\ r.multi => /\ r.section \in Homes(p) /\ r.option # NoName /\ r.accum # <<>>
                  /\ r.option \in Listed(Items(p, r.section))

(* What they say of the text.                                              *)
CurrentSection(o, t) ==
    IF NameAt(o, t, Len(t) + 1) # NoName THEN NameAt(o, t, Len(t) + 1)
    ELSE IF OptionsIn(o, t) = {} THEN NoName ELSE Unnamed

Follows(o, r, t) ==
    /\ r.section = CurrentSection(o, t)
    /\ r.multi <=> InValue(o, t, Len(t))
    /\ r.multi => \E h \in OptionsIn(o, t) :
                    /\ IsLast(o, t, h) /\ t[h].clean.kind = "option"
                    /\ r.option = KeyAt(t, h) /\ r.section = SectionAt(o, t, h)
                    /\ r.accum = Gathered(t, h)

(* The state of a read: what is in the object is what the text says, as    *)
(* long as the text is well-formed.                                        *)
Reads(o, b, p, r, t) ==
    IF Accepted(r)
    THEN WellFormed(o, b, t) /\ Follows(o, r, t) /\ Known(o, b, p, t) /\ Contents(o, b, p, t, r.multi)
    ELSE ~WellFormed(o, b, t)

LEMMA Finishing ==
    ASSUME NEW p, Sound(p), NEW r, Tracks(p, r), r.multi
    PROVE  LET q == FinishMultiline(p, r)
           IN  /\ Sound(q) /\ DOMAIN q.index = DOMAIN p.index
               /\ q = WithItems(p, r.section, Put(Items(p, r.section), r.option, Trimmed(r.accum)))
               /\ r.section \in Homes(p) /\ r.option \in STRING /\ Trimmed(r.accum) \in Stored
<1>1. /\ r.section \in Homes(p) /\ r.option # NoName /\ r.option \in Listed(Items(p, r.section))
      /\ r \in Readers
  BY DEF Tracks
<1>2. r.option \in STRING /\ r.accum \in Seq(Cleaned)
  <2>1. Items(p, r.section) \in Seq(Entries)
    BY <1>1, HomeItems
  <2>2. PICK i \in DOMAIN Items(p, r.section) : Items(p, r.section)[i].key = r.option
    BY <1>1 DEF Listed
  <2>3. Items(p, r.section)[i] \in Entries
    BY <2>1, <2>2
  <2> QED  BY <1>1, <2>2, <2>3 DEF Readers, Entries
<1>3. Trimmed(r.accum) \in Stored
  BY <1>2, TrimmedIsStored
<1>4. FinishMultiline(p, r) = WithItems(p, r.section, Put(Items(p, r.section), r.option, Trimmed(r.accum)))
  BY <1>1 DEF FinishMultiline
<1> DEFINE q == WithItems(p, r.section, Put(Items(p, r.section), r.option, Trimmed(r.accum)))
<1>5. Sound(q) /\ DOMAIN q.index = DOMAIN p.index
  <2> DEFINE v == Trimmed(r.accum)
             k == r.option
             s == r.section
  <2>1. s \in Homes(p) /\ k \in STRING /\ v \in Stored
    BY <1>1, <1>2, <1>3
  <2> HIDE DEF v, k, s
  <2>2. /\ Sound(WithItems(p, s, Put(Items(p, s), k, v)))
        /\ DOMAIN WithItems(p, s, Put(Items(p, s), k, v)).index = DOMAIN p.index
    BY <2>1, Assigning
  <2> QED  BY <2>2 DEF v, k, s
<1> HIDE DEF q
<1> QED  BY <1>1, <1>2, <1>3, <1>4, <1>5 DEF q

(* Copies of the local variables that differ in one of them.               *)
LEMMA Fails ==
    ASSUME NEW r \in Readers, NEW s, s = [r EXCEPT !.thrown = TRUE] \/ s = [r EXCEPT !.errors = TRUE]
    PROVE  s \in Readers /\ s.section = r.section /\ s.multi = r.multi /\ ~Accepted(s)
BY DEF Readers, Accepted

LEMMA Stops ==
    ASSUME NEW r \in Readers, NEW s,
           s = [r EXCEPT !.multi = FALSE] \/ s = [r EXCEPT !.multi = FALSE, !.accum = <<>>]
    PROVE  /\ s \in Readers /\ s.section = r.section /\ s.multi = FALSE
           /\ s.errors = r.errors /\ s.thrown = r.thrown
<1>1. CASE s = [r EXCEPT !.multi = FALSE]
  BY <1>1 DEF Readers
<1>2. CASE s = [r EXCEPT !.multi = FALSE, !.accum = <<>>]
  <2> DEFINE a == <<>>
  <2>1. a \in Seq(Cleaned) /\ s = [r EXCEPT !.multi = FALSE, !.accum = a]
    BY <1>2
  <2> HIDE DEF a
  <2> QED  BY <2>1 DEF Readers
<1> QED  BY <1>1, <1>2

LEMMA Gains ==
    ASSUME NEW r \in Readers, NEW c \in Cleaned, NEW s, s = [r EXCEPT !.accum = Append(@, c)]
    PROVE  /\ s \in Readers /\ s.section = r.section /\ s.multi = r.multi /\ s.option = r.option
           /\ s.accum = Append(r.accum, c) /\ s.accum # <<>>
           /\ s.errors = r.errors /\ s.thrown = r.thrown
<1> DEFINE a == Append(r.accum, c)
<1>1. r.accum \in Seq(Cleaned)
  BY DEF Readers
<1>2. a \in Seq(Cleaned) /\ a # <<>>
  BY <1>1, AppendProperties
<1>3. s = [r EXCEPT !.accum = a]
  OBVIOUS
<1> HIDE DEF a
<1>4. s \in Readers /\ s.section = r.section /\ s.multi = r.multi /\ s.option = r.option /\ s.accum = a
  BY <1>2, <1>3 DEF Readers
<1>5. s.errors = r.errors /\ s.thrown = r.thrown
  BY <1>3 DEF Readers
<1> QED  BY <1>2, <1>4, <1>5 DEF a

LEMMA Alike ==
    ASSUME NEW r, NEW s, s.errors = r.errors, s.thrown = r.thrown
    PROVE  Accepted(s) <=> Accepted(r)
BY DEF Accepted

LEMMA Idle ==
    ASSUME NEW p, NEW r \in Readers, r.multi = FALSE, r.section \in {NoName} \cup Homes(p)
    PROVE  Tracks(p, r)
BY DEF Tracks

(* What Assign is given: no value, or one of one line.                     *)
ReadValues == {NoValue} \cup {<<x>> : x \in Pieces}

LEMMA PieceIsText ==
    ASSUME NEW x \in Pieces
    PROVE  /\ x \in Cleaned /\ x.kind \notin {"none", "option", "header"}
           /\ <<x>> # NoValue /\ <<x>> \in Seq(Cleaned) /\ <<x>> # <<>>
<1>1. x.kind \notin {"none", "option", "header"}
  <2>1. CASE x \in {Blank, Bad}
    BY <2>1 DEF Blank, Bad
  <2>2. CASE x \in [kind : {"word"}, word : STRING \ {NoName}]
    BY <2>2
  <2>3. CASE x \in [kind : {"ref"}, sec : STRING, key : STRING]
    BY <2>3
  <2> QED  BY <2>1, <2>2, <2>3 DEF Pieces
<1>2. x \in Cleaned
  BY DEF Cleaned
<1>3. <<x>> # NoValue
  <2>1. <<x>>[1] = x /\ NoValue[1] = [kind |-> "none"]
    BY DEF NoValue
  <2>2. NoValue[1].kind = "none"
    BY <2>1
  <2> HIDE DEF NoValue
  <2> QED  BY <2>1, <2>2, <1>1
<1>4. <<x>> \in Seq(Cleaned) /\ <<x>> # <<>>
  BY <1>2
<1> QED  BY <1>1, <1>2, <1>3, <1>4

(* The name of an option is a name.                                        *)
LEMMA KeyIsName ==
    ASSUME NEW c \in Cleaned, c # Blank, c.kind # "header"
    PROVE  /\ KeyOf(c) \in STRING
           /\ c.kind = "option" => KeyOf(c) = c.key /\ c.value \in Pieces
           /\ c.kind # "option" => KeyOf(c) = AsKey(c)
<1>1. CASE c.kind = "option"
  BY <1>1, PieceOf DEF KeyOf
<1>2. CASE c.kind # "option"
  <2>1. c \in Pieces
    <3>1. c \notin [kind : {"option"}, key : STRING, value : Pieces]
      BY <1>2
    <3>2. c \notin [kind : {"header"}, name : STRING]
      OBVIOUS
    <3> QED  BY <3>1, <3>2 DEF Cleaned
  <2>2. AsKey(c) \in STRING
    <3>1. CASE c = Bad
      BY <3>1, LinesAssumption DEF AsKey, Bad
    <3>2. CASE c \in [kind : {"word"}, word : STRING \ {NoName}]
      BY <3>2 DEF AsKey
    <3>3. CASE c \in [kind : {"ref"}, sec : STRING, key : STRING]
      BY <3>3, LinesAssumption DEF AsKey
    <3> QED  BY <2>1, <3>1, <3>2, <3>3 DEF Pieces
  <2> QED  BY <1>2, <2>2 DEF KeyOf
<1> QED  BY <1>1, <1>2

LEMMA AssignTyped ==
    ASSUME NEW p, Sound(p), NEW r \in Readers, ~r.multi, r.section \in Homes(p),
           NEW k \in STRING, NEW v \in ReadValues, v # NoValue => k # NoName
    PROVE  LET to == Assign(p, r, k, v)
           IN  Sound(to[1]) /\ Tracks(to[1], to[2]) /\ (Accepted(to[2]) => Accepted(r))
<1> SUFFICES ASSUME NEW to, to = Assign(p, r, k, v)
             PROVE  Sound(to[1]) /\ Tracks(to[1], to[2]) /\ (Accepted(to[2]) => Accepted(r))
  OBVIOUS
<1>1. v # NoValue => v \in Seq(Cleaned) /\ v # <<>>
  BY PieceIsText DEF ReadValues
<1>w. PICK w : w = IF v = NoValue THEN v ELSE Trimmed(v)
  OBVIOUS
<1>2. w \in Stored
  BY <1>1, <1>w, TrimmedIsStored DEF Stored
<1>3. CASE opts.strict /\ k \in Listed(Items(p, r.section))
  <2>e. PICK e : e = [r EXCEPT !.thrown = TRUE]
    OBVIOUS
  <2>1. to = <<p, e>>
    BY <1>3, <2>e DEF Assign, Throw
  <2>2. e \in Readers /\ e.section = r.section /\ e.multi = FALSE /\ ~Accepted(e)
    BY <2>e, Fails DEF Readers
  <2>3. Tracks(p, e)
    BY <2>2, Idle
  <2> QED  BY <2>1, <2>2, <2>3
<1>4. CASE ~(opts.strict /\ k \in Listed(Items(p, r.section)))
  <2>a. PICK acc : acc = IF v = NoValue THEN <<>> ELSE v
    OBVIOUS
  <2>m. PICK mul : mul = (v # NoValue)
    OBVIOUS
  <2>s. PICK s : s = [r EXCEPT !.option = k, !.accum = acc, !.multi = mul]
    OBVIOUS
  <2>q. PICK q : q = WithItems(p, r.section, Put(Items(p, r.section), k, w))
    OBVIOUS
  <2>1. to = <<q, s>>
    BY <1>4, <1>w, <2>a, <2>m, <2>s, <2>q DEF Assign
  <2>2. acc \in Seq(Cleaned) /\ mul \in BOOLEAN
    <3>1. CASE v = NoValue
      BY <3>1, <2>a, <2>m
    <3>2. CASE v # NoValue
      BY <3>2, <1>1, <2>a, <2>m
    <3> QED  BY <3>1, <3>2
  <2>3. s \in Readers /\ s.section = r.section /\ s.option = k /\ s.multi = mul /\ s.accum = acc
    BY <2>2, <2>s DEF Readers
  <2>4. s.errors = r.errors /\ s.thrown = r.thrown
    BY <2>s DEF Readers
  <2>5. Accepted(s) <=> Accepted(r)
    BY <2>4, Alike
  <2>6. Sound(q) /\ DOMAIN q.index = DOMAIN p.index /\ Listed(Items(q, r.section)) = Listed(Items(p, r.section)) \cup {k}
    BY <1>2, <2>q, Assigning
  <2>7. Tracks(q, s)
    <3>1. s.multi => v # NoValue
      BY <2>3, <2>m
    <3> QED  BY <1>1, <2>3, <2>6, <2>a, <3>1 DEF Tracks, Homes
  <2> QED  BY <2>1, <2>5, <2>6, <2>7
<1> QED  BY <1>3, <1>4

LEMMA OptionTyped ==
    ASSUME opts \in ParseOptions, NEW p, Sound(p), NEW r \in Readers, ~r.multi, r.section \in Homes(p),
           NEW c \in Cleaned, c # Blank, c.kind # "header"
    PROVE  LET to == ReadOption(p, r, c)
           IN  Sound(to[1]) /\ Tracks(to[1], to[2]) /\ (Accepted(to[2]) => Accepted(r))
<1>1. CASE c.kind = "option" /\ c.key # NoName
  <2>1. ReadOption(p, r, c) = Assign(p, r, c.key, <<c.value>>)
    BY <1>1 DEF ReadOption
  <2>2. c.key \in STRING /\ <<c.value>> \in ReadValues
    BY <1>1, PieceOf DEF ReadValues
  <2> QED  BY <1>1, <2>1, <2>2, AssignTyped
<1>2. CASE c.kind # "option" /\ opts.noValue
  <2>1. ReadOption(p, r, c) = Assign(p, r, AsKey(c), NoValue)
    BY <1>2 DEF ReadOption
  <2>2. AsKey(c) \in STRING /\ NoValue \in ReadValues
    BY <1>2, KeyIsName DEF ReadValues
  <2> QED  BY <2>1, <2>2, AssignTyped
<1>3. CASE ~(c.kind = "option" /\ c.key # NoName) /\ ~(c.kind # "option" /\ opts.noValue)
  <2>1. ReadOption(p, r, c) = <<p, [r EXCEPT !.errors = TRUE]>>
    BY <1>3 DEF ReadOption, RecordError
  <2> DEFINE e == [r EXCEPT !.errors = TRUE]
  <2>2. e \in Readers /\ e.section = r.section /\ e.multi = FALSE /\ ~Accepted(e)
    BY Fails DEF Readers
  <2>3. ReadOption(p, r, c) = <<p, e>>
    BY <2>1
  <2> HIDE DEF e
  <2>4. Tracks(p, e)
    BY <2>2, Idle
  <2> QED  BY <2>2, <2>3, <2>4
<1> QED  BY <1>1, <1>2, <1>3

LEMMA NewTyped ==
    ASSUME opts \in ParseOptions, NEW p, Sound(p), NEW r, Tracks(p, r), ~r.multi,
           NEW c \in Cleaned, c # Blank
    PROVE  LET to == ReadNew(p, r, c)
           IN  Sound(to[1]) /\ Tracks(to[1], to[2]) /\ (Accepted(to[2]) => Accepted(r))
<1>0. r \in Readers /\ r.section \in {NoName} \cup Homes(p)
  BY DEF Tracks
<1>1. CASE c.kind = "header"
  <2> DEFINE name == c.name
             q == [r EXCEPT !.section = name, !.option = NoName]
  <2>0. name \in STRING
    <3>1. c \notin Pieces
      BY <1>1, PieceIsText
    <3> QED  BY <1>1, <3>1 DEF Cleaned
  <2>1. q \in Readers /\ q.section = name /\ q.multi = FALSE /\ (Accepted(q) <=> Accepted(r))
    <3>1. r.multi = FALSE
      BY <1>0 DEF Readers
    <3> HIDE DEF name
    <3>2. name \in STRING \cup {NoName}
      BY <2>0
    <3>3. q \in Readers /\ q.section = name /\ q.multi = FALSE /\ q.errors = r.errors /\ q.thrown = r.thrown
      BY <1>0, <3>1, <3>2 DEF Readers
    <3> HIDE DEF q
    <3> QED  BY <3>3, Alike
  <2>2. ReadNew(p, r, c) = ReadHeader(p, r, name)
    BY <1>1 DEF ReadNew
  <2>3. CASE name = NoName
    <3>1. ReadNew(p, r, c) = <<p, [q EXCEPT !.errors = TRUE]>>
      BY <2>2, <2>3 DEF ReadHeader, RecordError
    <3> HIDE DEF q, name
    <3>e. PICK e : e = [q EXCEPT !.errors = TRUE]
      OBVIOUS
    <3>2. e \in Readers /\ e.section = NoName /\ e.multi = FALSE /\ ~Accepted(e)
      BY <2>1, <2>3, <3>e, Fails
    <3>3. ReadNew(p, r, c) = <<p, e>>
      BY <3>1, <3>e
    <3>4. Tracks(p, e)
      BY <3>2, Idle
    <3> QED  BY <3>2, <3>3, <3>4
  <2>4. CASE name # NoName /\ ~HasSection(p, name)
    <3>1. ReadNew(p, r, c) = <<NewSection(p, name), q>>
      BY <2>2, <2>4 DEF ReadHeader
    <3>2. Sound(NewSection(p, name)) /\ DOMAIN NewSection(p, name).index = DOMAIN p.index \cup {name}
      <4> HIDE DEF name
      <4> QED  BY <2>0, <2>4, Added, HomeIs
    <3> HIDE DEF q, name
    <3>3. name \in Homes(NewSection(p, name))
      BY <3>2 DEF Homes
    <3>4. Tracks(NewSection(p, name), q)
      BY <2>1, <3>3, Idle
    <3> QED  BY <2>1, <3>1, <3>2, <3>4
  <2>5. CASE name # NoName /\ HasSection(p, name) /\ name # Default /\ opts.strict
    <3>1. ReadNew(p, r, c) = <<p, [q EXCEPT !.thrown = TRUE]>>
      BY <2>2, <2>5 DEF ReadHeader, Throw
    <3>2. name \in Homes(p)
      BY <2>5, HomeIs
    <3> HIDE DEF q, name
    <3>e. PICK e : e = [q EXCEPT !.thrown = TRUE]
      OBVIOUS
    <3>3. e \in Readers /\ e.section = name /\ e.multi = FALSE /\ ~Accepted(e)
      BY <2>1, <3>e, Fails
    <3>4. ReadNew(p, r, c) = <<p, e>>
      BY <3>1, <3>e
    <3>5. Tracks(p, e)
      BY <3>2, <3>3, Idle
    <3> QED  BY <3>3, <3>4, <3>5
  <2>6. CASE name # NoName /\ HasSection(p, name) /\ ~(name # Default /\ opts.strict)
    <3>1. ReadNew(p, r, c) = <<p, q>>
      BY <2>2, <2>6 DEF ReadHeader
    <3>2. name \in Homes(p)
      BY <2>6, HomeIs
    <3> HIDE DEF q, name
    <3>3. Tracks(p, q)
      BY <2>1, <3>2, Idle
    <3> QED  BY <2>1, <3>1, <3>3
  <2> QED  BY <2>3, <2>4, <2>5, <2>6
<1>2. CASE c.kind # "header" /\ r.section = NoName
  <2>1. ReadNew(p, r, c) = OutsideSection(p, r, c)
    BY <1>2 DEF ReadNew
  <2>2. CASE ~opts.unnamed
    <3>1. ReadNew(p, r, c) = <<p, [r EXCEPT !.thrown = TRUE]>>
      BY <2>1, <2>2 DEF OutsideSection, Throw
    <3> DEFINE e == [r EXCEPT !.thrown = TRUE]
    <3>2. e \in Readers /\ e.section = r.section /\ e.multi = FALSE /\ ~Accepted(e)
      BY <1>0, Fails DEF Readers
    <3>3. ReadNew(p, r, c) = <<p, e>>
      BY <3>1
    <3> HIDE DEF e
    <3>4. Tracks(p, e)
      BY <1>0, <3>2, Idle
    <3> QED  BY <3>2, <3>3, <3>4
  <2>3. CASE opts.unnamed
    <3> DEFINE p2 == IF HasSection(p, Unnamed) THEN p ELSE NewSection(p, Unnamed)
               r2 == [r EXCEPT !.section = Unnamed]
    <3>1. ReadNew(p, r, c) = ReadOption(p2, r2, c)
      BY <2>1, <2>3 DEF OutsideSection
    <3>2. Unnamed \in STRING
      BY LinesAssumption
    <3>3. Sound(p2) /\ Unnamed \in Homes(p2)
      BY <3>2, Added, HomeIs DEF Homes
    <3>4. r2 \in Readers /\ ~r2.multi /\ r2.section = Unnamed /\ (Accepted(r2) <=> Accepted(r))
      <4>1. r2 \in Readers /\ r2.multi = r.multi /\ r2.section = Unnamed /\ r2.errors = r.errors /\ r2.thrown = r.thrown
        BY <1>0, <3>2 DEF Readers
      <4> HIDE DEF r2
      <4> QED  BY <4>1, Alike
    <3> HIDE DEF p2, r2
    <3> QED  BY <1>2, <3>1, <3>3, <3>4, OptionTyped
  <2> QED  BY <2>2, <2>3
<1>3. CASE c.kind # "header" /\ r.section # NoName
  <2>1. ReadNew(p, r, c) = ReadOption(p, r, c)
    BY <1>3 DEF ReadNew
  <2>2. r.section \in Homes(p)
    BY <1>0, <1>3
  <2> QED  BY <1>0, <1>3, <2>1, <2>2, OptionTyped
<1> QED  BY <1>1, <1>2, <1>3

(* parse_line keeps the object and the local variables in order.           *)
LEMMA LineTyped ==
    ASSUME opts \in ParseOptions, NEW p, Sound(p), NEW r, Tracks(p, r), NEW l \in Lines
    PROVE  LET to == ParseLine(p, r, l)
           IN  Sound(to[1]) /\ Tracks(to[1], to[2]) /\ (Accepted(to[2]) => Accepted(r))
<1> DEFINE c == l.clean
           inside == r.multi /\ r.option # NoName
<1>0. r \in Readers /\ c \in Cleaned /\ (r.multi => r.option # NoName)
  BY DEF Tracks, Lines
<1>1. CASE (c = Blank /\ r.multi /\ opts.emptyLines) \/ (c # Blank /\ inside /\ l.indented)
  <2>1. ParseLine(p, r, l) = <<p, [r EXCEPT !.accum = Append(@, c)]>>
    BY <1>1 DEF ParseLine
  <2> DEFINE s == [r EXCEPT !.accum = Append(@, c)]
  <2>2. /\ s \in Readers /\ s.section = r.section /\ s.multi = r.multi /\ s.option = r.option
        /\ s.accum # <<>> /\ s.errors = r.errors /\ s.thrown = r.thrown
    BY <1>0, Gains
  <2>3. ParseLine(p, r, l) = <<p, s>>
    BY <2>1
  <2> HIDE DEF s
  <2>4. Tracks(p, s)
    BY <2>2 DEF Tracks
  <2>5. Accepted(s) <=> Accepted(r)
    BY <2>2, Alike
  <2> QED  BY <2>3, <2>4, <2>5
<1>2. CASE c = Blank /\ ~(r.multi /\ opts.emptyLines)
  <2>1. ParseLine(p, r, l) = <<p, [r EXCEPT !.multi = FALSE]>>
    BY <1>2 DEF ParseLine
  <2> DEFINE s == [r EXCEPT !.multi = FALSE]
  <2>2. s \in Readers /\ s.section = r.section /\ s.multi = FALSE /\ s.errors = r.errors /\ s.thrown = r.thrown
    BY <1>0, Stops
  <2>3. ParseLine(p, r, l) = <<p, s>>
    BY <2>1
  <2>4. r.section \in {NoName} \cup Homes(p)
    BY DEF Tracks
  <2> HIDE DEF s
  <2>5. Tracks(p, s)
    BY <2>2, <2>4, Idle
  <2>6. Accepted(s) <=> Accepted(r)
    BY <2>2, Alike
  <2> QED  BY <2>3, <2>5, <2>6
<1>3. CASE c # Blank /\ inside /\ ~l.indented
  <2> DEFINE q == FinishMultiline(p, r)
             s == [r EXCEPT !.multi = FALSE, !.accum = <<>>]
  <2>1. ParseLine(p, r, l) = ReadNew(q, s, c)
    BY <1>3 DEF ParseLine
  <2>2. Sound(q) /\ DOMAIN q.index = DOMAIN p.index
    BY <1>3, Finishing
  <2>3. Tracks(q, s) /\ ~s.multi /\ (Accepted(s) <=> Accepted(r))
    <3>1. s \in Readers /\ s.section = r.section /\ s.multi = FALSE /\ s.errors = r.errors /\ s.thrown = r.thrown
      BY <1>0, Stops
    <3>2. r.section \in {NoName} \cup Homes(q)
      BY <2>2 DEF Tracks, Homes
    <3> HIDE DEF q, s
    <3> QED  BY <3>1, <3>2, Idle, Alike
  <2> HIDE DEF q, s, c
  <2> QED  BY <1>0, <1>3, <2>1, <2>2, <2>3, NewTyped DEF c
<1>4. CASE c # Blank /\ ~inside
  <2>1. ParseLine(p, r, l) = ReadNew(p, r, c)
    BY <1>4 DEF ParseLine
  <2> QED  BY <1>0, <1>4, <2>1, NewTyped
<1> QED  BY <1>0, <1>1, <1>2, <1>3, <1>4

-----------------------------------------------------------------------------
(* The types of the variables, with the object and the local variables of  *)
(* read_string in order: the part of the invariant that needs no text.     *)
Typed ==
    /\ opts \in ParseOptions /\ lines \subseteq Lines
    /\ Sound(ini) /\ Tracks(ini, rd)
    /\ text \in Seq(Lines)
    /\ reading \in BOOLEAN /\ (reading = FALSE => rd = Reader)
    /\ result \in {"none", "ok", "failed"} /\ (reading = TRUE => result = "none")
    /\ toEdit \in Nat /\ toRead \in Nat

LEMMA AtRest ==
    ASSUME NEW p
    PROVE  Tracks(p, Reader) /\ Accepted(Reader) /\ Reader.multi = FALSE /\ Reader.section = NoName
<1>1. Reader \in Readers /\ Reader.multi = FALSE /\ Reader.section = NoName
  BY DEF Reader, Readers
<1>2. Accepted(Reader)
  BY DEF Reader, Accepted
<1> QED  BY <1>1, <1>2, Idle

LEMMA TypedInit == Init => Typed
<1> SUFFICES ASSUME Init PROVE Typed
  OBVIOUS
<1>1. Sound(ini) /\ Tracks(ini, rd)
  BY EmptyObject, AtRest DEF Init
<1>2. text \in Seq(Lines)
  BY DEF Init
<1>3. /\ opts \in ParseOptions /\ lines \subseteq Lines
      /\ toEdit \in Nat /\ toRead \in Nat
  BY IniBounds, LinesAssumption DEF Init
<1>4. reading = FALSE /\ rd = Reader /\ result = "none"
  BY DEF Init
<1> QED  BY <1>1, <1>2, <1>3, <1>4 DEF Typed

(* Whatever becomes of the object in an edit, the rest stays in order.     *)
LEMMA EditTyped ==
    ASSUME Typed, NEW p, Sound(p), Edit(p)
    PROVE  Typed'
<1>1. /\ ini' = p /\ reading = FALSE /\ reading' = reading /\ rd' = Reader
      /\ text' = <<>> /\ result' = "none" /\ opts' = opts /\ lines' = lines
      /\ toEdit' = toEdit - 1 /\ toEdit > 0 /\ toRead' = toRead
  BY DEF Edit, Typed
<1>2. Sound(ini)' /\ Tracks(ini, rd)'
  BY <1>1, AtRest
<1>3. (text \in Seq(Lines))'
  BY <1>1
<1>4. toEdit' \in Nat
  BY <1>1 DEF Typed
<1> QED  BY <1>1, <1>2, <1>3, <1>4 DEF Typed

LEMMA TypedNext == Typed /\ [Next]_vars => Typed'
<1> SUFFICES ASSUME Typed, [Next]_vars PROVE Typed'
  OBVIOUS
<1>1. CASE ReadString
  <2>1. Tracks(ini, rd)' /\ Sound(ini)'
    BY <1>1, AtRest DEF ReadString, Typed
  <2>2. (text \in Seq(Lines))'
    BY <1>1 DEF ReadString
  <2>3. /\ reading' = TRUE /\ result' = "none" /\ opts' = opts /\ lines' = lines
        /\ toEdit' = toEdit /\ toRead' = toRead
    BY <1>1 DEF ReadString
  <2> QED  BY <2>1, <2>2, <2>3 DEF Typed
<1>2. CASE ReadLine
  <2>1. PICK l \in lines : /\ ini' = ParseLine(ini, rd, l)[1] /\ rd' = ParseLine(ini, rd, l)[2]
                           /\ text' = Append(text, l)
    BY <1>2 DEF ReadLine
  <2>2. l \in Lines
    BY DEF Typed
  <2>3. Sound(ini)' /\ Tracks(ini, rd)'
    BY <2>1, <2>2, LineTyped DEF Typed
  <2>4. text' \in Seq(Lines)
    BY <2>1, <2>2, AppendProperties DEF Typed
  <2>5. /\ reading = TRUE /\ reading' = reading /\ result' = result /\ opts' = opts /\ lines' = lines
        /\ toEdit' = toEdit /\ toRead' = toRead - 1 /\ toRead > 0
    BY <1>2 DEF ReadLine, Typed
  <2>6. toRead' \in Nat
    BY <2>5 DEF Typed
  <2> QED  BY <2>3, <2>4, <2>5, <2>6 DEF Typed
<1>3. CASE EndRead
  <2>1. Sound(ini)'
    <3>1. Sound(EndOfText(ini, rd))
      BY Finishing DEF EndOfText, Typed
    <3> QED  BY <1>3, <3>1 DEF EndRead, Typed
  <2>2. Tracks(ini, rd)' /\ rd' = Reader
    BY <1>3, AtRest DEF EndRead
  <2>3. /\ reading' = FALSE /\ result' \in {"ok", "failed"} /\ opts' = opts /\ lines' = lines
        /\ text' = text /\ toEdit' = toEdit /\ toRead' = toRead
    BY <1>3 DEF EndRead
  <2> QED  BY <2>1, <2>2, <2>3 DEF Typed
<1>4. CASE AddSection
  <2>1. PICK s \in Names : ~HasSection(ini, s) /\ Edit(NewSection(ini, s))
    BY <1>4 DEF AddSection
  <2>2. Sound(NewSection(ini, s))
    BY <2>1, HomeIs, Added, LinesAssumption DEF Typed
  <2> QED  BY <2>1, <2>2, EditTyped
<1>5. CASE SetOption
  <2>1. PICK s \in Names, k \in Keys, v \in Values :
           HasSection(ini, s) /\ Edit(WithItems(ini, s, Put(Items(ini, s), k, v)))
    BY <1>5 DEF SetOption
  <2>2. s \in Homes(ini) /\ k \in STRING /\ v \in Stored
    BY <2>1, HomeIs, LinesAssumption
  <2>3. Sound(WithItems(ini, s, Put(Items(ini, s), k, v)))
    BY <2>2, Assigning DEF Typed
  <2> QED  BY <2>1, <2>3, EditTyped
<1>6. CASE RemoveOption
  <2>1. PICK s \in Names, k \in Keys :
           /\ HasSection(ini, s) /\ k \in Listed(Items(ini, s))
           /\ Edit(WithItems(ini, s, Without(Items(ini, s), k)))
    BY <1>6 DEF RemoveOption
  <2>2. s \in Homes(ini)
    BY <2>1, HomeIs
  <2>3. Items(ini, s) \in Seq(Entries) /\ Unique(Items(ini, s))
    BY <2>2, HomeItems DEF Typed
  <2>4. Without(Items(ini, s), k) \in Seq(Entries) /\ Unique(Without(Items(ini, s), k))
    BY <2>1, <2>3, WithoutItem
  <2>5. Sound(WithItems(ini, s, Without(Items(ini, s), k)))
    BY <2>2, <2>4, Replaced DEF Typed
  <2> QED  BY <2>1, <2>5, EditTyped
<1>7. CASE RemoveSection
  <2>1. PICK s \in Names : s \in DOMAIN ini.index /\ Edit(Unlisted(ini, s))
    BY <1>7 DEF RemoveSection
  <2>2. Sound(Unlisted(ini, s))
    BY <2>1, Dropped DEF Typed
  <2> QED  BY <2>1, <2>2, EditTyped
<1>8. CASE Clear
  BY <1>8, EmptyObject, EditTyped DEF Clear
<1>9. CASE UNCHANGED vars
  BY <1>9 DEF vars, Typed
<1> QED  BY <1>1, <1>2, <1>3, <1>4, <1>5, <1>6, <1>7, <1>8, <1>9 DEF Next

LEMMA TypedIsType == Typed => TypeOK
<1> SUFFICES ASSUME Typed PROVE TypeOK
  OBVIOUS
<1>1. /\ \A s \in DOMAIN ini.index :
             ini.index[s] \in DOMAIN ini.sections /\ ini.sections[ini.index[s]].name = s
      /\ \A i \in DOMAIN ini.sections : ini.sections[i].name \in DOMAIN ini.index
  BY DEF Typed, Sound
<1>2. DOMAIN ini.index = {ini.sections[i].name : i \in DOMAIN ini.sections}
  BY <1>1
<1>3. \A s \in {Default} \cup DOMAIN ini.index : \A i, j \in DOMAIN Items(ini, s) :
         Items(ini, s)[i].key = Items(ini, s)[j].key => i = j
  BY HomeItems DEF Typed, Homes, Unique
<1>4. /\ rd.section \in {NoName, Default} \cup DOMAIN ini.index
      /\ rd.multi => rd.option \in Listed(Items(ini, rd.section)) /\ rd.accum # <<>>
  BY DEF Typed, Tracks, Homes
<1>5. /\ ~reading => rd = Reader
      /\ result \in {"none", "ok", "failed"} /\ toEdit \in Nat /\ toRead \in Nat
  BY DEF Typed
<1> QED  BY <1>1, <1>2, <1>3, <1>4, <1>5 DEF TypeOK

(* Whatever is read, added, set and removed in any order, and also after a *)
(* read that failed half way, section_index_ leads to every section under  *)
(* its own name, no option is listed twice (parser.cpp:96-135, 272-371,    *)
(* 631-691).                                                               *)
THEOREM TypeCorrect == Spec => []TypeOK
<1>1. Init => Typed
  BY TypedInit
<1>2. Typed /\ [Next]_vars => Typed'
  BY TypedNext
<1>3. Typed => TypeOK
  BY TypedIsType
<1> QED  BY <1>1, <1>2, <1>3, PTL DEF Spec

-----------------------------------------------------------------------------
(* The section in force after one more line.                               *)
LEMMA CurrentGrows ==
    ASSUME NEW o \in ParseOptions, NEW t \in Seq(Lines), NEW l \in Lines
    PROVE  LET u == Append(t, l)
               n == Len(t) + 1
           IN  /\ NewHead(o, t, l) /\ l.clean.kind = "header" /\ l.clean.name # NoName
                    => CurrentSection(o, u) = l.clean.name
               /\ NewOption(o, t, l) => CurrentSection(o, u) = SectionAt(o, t, n)
               /\ ~NewHead(o, t, l) => CurrentSection(o, u) = CurrentSection(o, t)
<1> DEFINE u == Append(t, l)
           n == Len(t) + 1
           news == NewHead(o, t, l) /\ l.clean.kind = "header"
           above == {j \in HeadersIn(o, u) : j < n + 1}
           before == {j \in HeadersIn(o, t) : j < n}
<1>1. /\ n \in Nat /\ Len(u) = n /\ u[n] = l /\ \A i \in 1 .. n - 1 : u[i] = t[i]
  BY OneMore
<1>2. /\ HeadersIn(o, t) \subseteq 1 .. n - 1
      /\ HeadersIn(o, u) = HeadersIn(o, t) \cup (IF news THEN {n} ELSE {})
      /\ OptionsIn(o, u) = OptionsIn(o, t) \cup (IF NewOption(o, t, l) THEN {n} ELSE {})
  <2>1. HeadersIn(o, t) \subseteq Heads(o, t)
    BY DEF HeadersIn
  <2> QED  BY <2>1, HeadsGrow DEF NewOption
<1>3. NameAt(o, u, n + 1) = IF above = {} THEN NoName ELSE u[Max(above)].clean.name
  BY DEF NameAt
<1>4. NameAt(o, t, n) = IF before = {} THEN NoName ELSE t[Max(before)].clean.name
  BY DEF NameAt
<1>5. CurrentSection(o, u) = IF NameAt(o, u, n + 1) # NoName THEN NameAt(o, u, n + 1)
                             ELSE IF OptionsIn(o, u) = {} THEN NoName ELSE Unnamed
  BY <1>1 DEF CurrentSection
<1>6. CurrentSection(o, t) = IF NameAt(o, t, n) # NoName THEN NameAt(o, t, n)
                             ELSE IF OptionsIn(o, t) = {} THEN NoName ELSE Unnamed
  BY DEF CurrentSection
<1>7. SectionAt(o, t, n) = IF NameAt(o, t, n) = NoName THEN Unnamed ELSE NameAt(o, t, n)
  BY DEF SectionAt
<1>8. NewOption(o, t, l) => ~news
  BY DEF NewOption
<1>9. before = HeadersIn(o, t)
  <2> HIDE DEF n
  <2> QED  BY <1>1, <1>2
<1>10. CASE news
  <2>1. n \in above /\ above \subseteq 1 .. n /\ \A j \in above : j <= n
    <3> HIDE DEF n, news
    <3> QED  BY <1>1, <1>2, <1>10
  <2> HIDE DEF above, n, u
  <2>2. Max(above) = n
    BY <1>1, <2>1, MaxIs
  <2>3. NameAt(o, u, n + 1) = l.clean.name
    BY <1>1, <1>3, <2>1, <2>2
  <2> QED  BY <1>5, <1>8, <1>10, <2>3 DEF u, n
<1>11. CASE ~news
  <2>1. above = HeadersIn(o, t)
    <3> HIDE DEF n, news
    <3> QED  BY <1>1, <1>2, <1>11
  <2>2. before # {} => Max(before) \in 1 .. n - 1
    <3> HIDE DEF before
    <3>1. Len(t) \in Nat /\ n - 1 = Len(t) /\ before \subseteq 1 .. Len(t)
      BY <1>1, <1>2, <1>9
    <3> QED  BY <3>1, <1>2, <1>9, MaxOf
  <2>3. NameAt(o, u, n + 1) = NameAt(o, t, n)
    <3> HIDE DEF above, before, n, u
    <3> QED  BY <1>1, <1>3, <1>4, <1>9, <2>1, <2>2
  <2> HIDE DEF above, before, n, u, news
  <2>4. ~NewOption(o, t, l) => OptionsIn(o, u) = OptionsIn(o, t)
    BY <1>2
  <2>5. NewOption(o, t, l) => OptionsIn(o, u) # {}
    BY <1>2
  <2>6. NewOption(o, t, l) => CurrentSection(o, u) = SectionAt(o, t, n)
    BY <1>5, <1>7, <2>3, <2>5
  <2>7. ~NewHead(o, t, l) => CurrentSection(o, u) = CurrentSection(o, t)
    BY <1>5, <1>6, <2>3, <2>4 DEF NewOption
  <2> QED  BY <1>11, <2>6, <2>7 DEF u, n, news
<1> QED  BY <1>10, <1>11

(* A value of one line.                                                    *)
LEMMA GathersOne ==
    ASSUME NEW t \in Seq(Lines), NEW n \in 1 .. Len(t), n = Len(t), t[n].clean.kind = "option"
    PROVE  Gathered(t, n) = <<t[n].clean.value>>
<1> DEFINE g == Gathered(t, n)
           v == t[n].clean.value
<1>0. Len(t) \in Nat /\ Len(t) - n + 1 = 1 /\ t[n] \in Lines
  BY ElementOfSeq, LenProperties
<1>1. g \in Seq(Cleaned) /\ Len(g) = 1 /\ g[1] = v
  BY <1>0, Gathers
<1>2. v \in Cleaned
  <2>1. t[n].clean \in Cleaned
    BY <1>0 DEF Lines
  <2> QED  BY <2>1, PieceOf
<1>3. <<v>> \in Seq(Cleaned) /\ Len(<<v>>) = 1 /\ <<v>>[1] = v
  <2> HIDE DEF v
  <2> QED  BY <1>2
<1> HIDE DEF g, v
<1>4. g = <<v>>
  BY <1>1, <1>3, SeqEqual
<1> QED  BY <1>4 DEF g, v

(* An assignment: what an option of its own in the text does.              *)
LEMMA AssignReads ==
    ASSUME opts \in ParseOptions, NEW b, NEW t \in Seq(Lines), NEW l \in Lines, NewOption(opts, t, l),
           WellFormed(opts, b, t), NameAt(opts, t, Len(t) + 1) = NoName => opts.unnamed,
           NEW p, Sound(p), NEW r \in Readers, ~r.multi, Accepted(r),
           NEW s \in Homes(p), s = SectionAt(opts, t, Len(t) + 1), r.section = s,
           Contents(opts, b, p, t, FALSE),
           DOMAIN p.index = DOMAIN b.index \cup SectionsOf(opts, t) \cup ({s} \ {Default}),
           NEW k \in STRING, k = KeyOf(l.clean), NEW v \in ReadValues,
           \/ Opens(l.clean) /\ v = <<l.clean.value>>
           \/ opts.noValue /\ l.clean.kind # "option" /\ v = NoValue,
           NEW to, to = Assign(p, r, k, v)
    PROVE  Reads(opts, b, to[1], to[2], Append(t, l))
<1> DEFINE u == Append(t, l)
           n == Len(t) + 1
<1>1. /\ u \in Seq(Lines) /\ n \in Nat \ {0} /\ Len(u) = n /\ u[n] = l
      /\ n \in 1 .. Len(u)
  BY OneMore
<1>2. NewHead(opts, t, l) /\ l.clean.kind # "header" /\ l.clean # Blank
  BY DEF NewOption, NewHead
<1>3. Listed(Items(p, s)) = Listed(ItemsBefore(b, s)) \cup KeysOf(opts, t, s)
  BY DEF Contents
<1>4. WellFormed(opts, b, u) <=> ~(opts.strict /\ k \in Listed(Items(p, s)))
  <2>1. WellFormed(opts, b, u) <=> Fits(opts, b, t, l)
    BY <1>2, WellFormedGrows
  <2>2. Fits(opts, b, t, l) <=> (opts.strict => k \notin KeysOf(opts, t, s) \cup Listed(ItemsBefore(b, s)))
    BY <1>2 DEF Fits
  <2> QED  BY <1>3, <2>1, <2>2
<1>5. CASE opts.strict /\ k \in Listed(Items(p, s))
  <2>1. PICK e : e = [r EXCEPT !.thrown = TRUE]
    OBVIOUS
  <2>2. to = <<p, e>>
    BY <1>5, <2>1 DEF Assign, Throw
  <2>3. ~Accepted(e)
    BY <2>1, Fails
  <2>4. to[2] = e
    BY <2>2
  <2> QED  BY <1>4, <1>5, <2>3, <2>4 DEF Reads
<1>6. CASE ~(opts.strict /\ k \in Listed(Items(p, s)))
  <2> DEFINE w == IF v = NoValue THEN v ELSE Trimmed(v)
             open == v # NoValue
             q == WithItems(p, s, Put(Items(p, s), k, w))
  <2>1. PICK e : e = [r EXCEPT !.option = k, !.accum = IF v = NoValue THEN <<>> ELSE v, !.multi = v # NoValue]
    OBVIOUS
  <2>2. /\ e.section = s /\ e.option = k /\ e.accum = (IF v = NoValue THEN <<>> ELSE v)
        /\ e.multi = (v # NoValue) /\ e.errors = r.errors /\ e.thrown = r.thrown
    BY <2>1 DEF Readers
  <2>3. to = <<q, e>>
    BY <1>6, <2>1 DEF Assign
  <2>4. Accepted(e)
    BY <2>2, Alike
  <2>5. w \in Stored
    <3>1. CASE v = NoValue
      BY <3>1 DEF Stored
    <3>2. CASE v # NoValue
      <4>1. PICK x \in Pieces : v = <<x>>
        BY <3>2 DEF ReadValues
      <4>2. v \in Seq(Cleaned)
        BY <4>1, PieceIsText
      <4> QED  BY <3>2, <4>2, TrimmedIsStored
    <3> QED  BY <3>1, <3>2
  <2>6. open <=> Opens(l.clean)
    <3>1. CASE Opens(l.clean) /\ v = <<l.clean.value>>
      <4>1. l.clean.value \in Pieces
        BY <3>1, PieceOf DEF Lines, Opens
      <4> QED  BY <3>1, <4>1, PieceIsText
    <3>2. CASE l.clean.kind # "option" /\ v = NoValue
      BY <3>2 DEF Opens
    <3> QED  BY <3>1, <3>2
  <2>7. Contents(opts, b, q, u, open)
    <3>1. open \/ w = ValueAt(opts, u, n)
      <4> SUFFICES ASSUME v = NoValue PROVE w = ValueAt(opts, u, n)
        OBVIOUS
      <4>1. l.clean.kind # "option"
        <5> HIDE DEF w, u, n
        <5> QED  BY <2>6 DEF Opens
      <4> QED  BY <1>1, <4>1, NoValueAt
    <3>2. open \in BOOLEAN
      OBVIOUS
    <3>3. PICK z \in BOOLEAN : z = open
      BY <3>2
    <3>4. z \/ w = ValueAt(opts, Append(t, l), Len(t) + 1)
      BY <3>1, <3>3
    <3>5. Contents(opts, b, WithItems(p, s, Put(Items(p, s), k, w)), Append(t, l), z)
      <4> HIDE DEF w, open
      <4>1. CASE z = TRUE
        <5>1. Contents(opts, b, WithItems(p, s, Put(Items(p, s), k, w)), Append(t, l), TRUE)
          BY <2>5, ContentsOption
        <5> QED  BY <4>1, <5>1
      <4>2. CASE z = FALSE
        <5>1. w = ValueAt(opts, Append(t, l), Len(t) + 1)
          BY <3>4, <4>2
        <5>2. Contents(opts, b, WithItems(p, s, Put(Items(p, s), k, w)), Append(t, l), FALSE)
          BY <2>5, <5>1, ContentsOption
        <5> QED  BY <4>2, <5>2
      <4> QED  BY <4>1, <4>2
    <3> QED  BY <3>3, <3>5
  <2>8. Known(opts, b, q, u)
    <3>1. DOMAIN q.index = DOMAIN p.index
      <4> HIDE DEF w
      <4> QED  BY <2>5, Assigning
    <3>2. SectionsOf(opts, u) = (SectionsOf(opts, t) \cup {s}) \ {Default}
      BY <1>2, SectionsGrow
    <3>3. Default \notin SectionsOf(opts, t)
      BY DEF SectionsOf
    <3> HIDE DEF q, u
    <3> QED  BY <3>1, <3>2, <3>3 DEF Known
  <2>9. Follows(opts, e, u)
    <3>1. CurrentSection(opts, u) = s
      BY CurrentGrows
    <3>2. InValue(opts, u, n) <=> Opens(l.clean)
      BY <1>2, ValuesGrow DEF NewHead
    <3>3. ASSUME e.multi PROVE \E h \in OptionsIn(opts, u) :
                    /\ IsLast(opts, u, h) /\ u[h].clean.kind = "option"
                    /\ e.option = KeyAt(u, h) /\ e.section = SectionAt(opts, u, h)
                    /\ e.accum = Gathered(u, h)
      <4>1. v # NoValue
        BY <2>2, <3>3
      <4>2. n \in OptionsIn(opts, u)
        BY <1>2, HeadsGrow
      <4>3. IsLast(opts, u, n)
        <5>1. Heads(opts, u) \subseteq 1 .. n
          BY HeadsGrow
        <5> HIDE DEF n, u
        <5> QED  BY <1>1, <5>1 DEF IsLast
      <4>4. u[n].clean.kind = "option" /\ v = <<u[n].clean.value>>
        <5>1. Opens(l.clean)
          BY <2>6, <4>1
        <5> QED  BY <1>1, <4>1, <5>1 DEF Opens
      <4>5. KeyAt(u, n) = k
        BY <1>1, <4>4 DEF KeyAt, KeyOf
      <4>6. SectionAt(opts, u, n) = s
        <5>1. n \in 1 .. n
          BY <1>1
        <5> QED  BY <5>1, NamesGrow
      <4>7. Gathered(u, n) = v
        <5> HIDE DEF n, u
        <5> QED  BY <1>1, <4>4, GathersOne
      <4>8. e.accum = v
        BY <2>2, <4>1
      <4> HIDE DEF n, u
      <4> QED  BY <2>2, <4>2, <4>3, <4>4, <4>5, <4>6, <4>7, <4>8
    <3>4. e.multi <=> InValue(opts, u, Len(u))
      <4> HIDE DEF u, n
      <4> QED  BY <1>1, <2>2, <2>6, <3>2
    <3> HIDE DEF u
    <3> QED  BY <2>2, <3>1, <3>3, <3>4 DEF Follows
  <2>10. WellFormed(opts, b, u)
    BY <1>4, <1>6
  <2>11. to[1] = q /\ to[2] = e /\ e.multi = open
    BY <2>2, <2>3
  <2> HIDE DEF q, u, open
  <2> QED  BY <2>4, <2>7, <2>8, <2>9, <2>10, <2>11 DEF Reads, u
<1> QED  BY <1>5, <1>6
(* An option line in a section that exists.                                *)
LEMMA OptionReads ==
    ASSUME opts \in ParseOptions, NEW b, NEW t \in Seq(Lines), NEW l \in Lines, NewOption(opts, t, l),
           WellFormed(opts, b, t), NameAt(opts, t, Len(t) + 1) = NoName => opts.unnamed,
           NEW p, Sound(p), NEW r \in Readers, ~r.multi, Accepted(r),
           NEW s \in Homes(p), s = SectionAt(opts, t, Len(t) + 1), r.section = s,
           Contents(opts, b, p, t, FALSE),
           DOMAIN p.index = DOMAIN b.index \cup SectionsOf(opts, t) \cup ({s} \ {Default}),
           NEW to, to = ReadOption(p, r, l.clean)
    PROVE  Reads(opts, b, to[1], to[2], Append(t, l))
<1> DEFINE c == l.clean
<1>1. NewHead(opts, t, l) /\ c # Blank /\ c.kind # "header" /\ c \in Cleaned
  BY DEF NewOption, NewHead, Lines
<1>2. /\ KeyOf(c) \in STRING
      /\ c.kind = "option" => KeyOf(c) = c.key /\ c.value \in Pieces
      /\ c.kind # "option" => KeyOf(c) = AsKey(c)
  <2> HIDE DEF c
  <2> QED  BY <1>1, KeyIsName
<1>3. CASE Opens(c)
  <2>1. to = Assign(p, r, KeyOf(c), <<c.value>>)
    BY <1>2, <1>3 DEF ReadOption, Opens
  <2>2. <<c.value>> \in ReadValues
    BY <1>2, <1>3 DEF ReadValues, Opens
  <2> QED  BY <1>2, <1>3, <2>1, <2>2, AssignReads
<1>4. CASE opts.noValue /\ c.kind # "option"
  <2>1. to = Assign(p, r, KeyOf(c), NoValue)
    BY <1>2, <1>4 DEF ReadOption
  <2>2. NoValue \in ReadValues
    BY DEF ReadValues
  <2> QED  BY <1>2, <1>4, <2>1, <2>2, AssignReads
<1>5. CASE ~Opens(c) /\ ~(opts.noValue /\ c.kind # "option")
  <2>1. PICK e : e = [r EXCEPT !.errors = TRUE]
    OBVIOUS
  <2>2. to = <<p, e>>
    BY <1>5, <2>1 DEF ReadOption, RecordError, Opens
  <2>3. ~Accepted(e) /\ to[2] = e
    BY <2>1, <2>2, Fails
  <2>4. ~Fits(opts, b, t, l)
    BY <1>1, <1>5 DEF Fits
  <2>5. ~WellFormed(opts, b, Append(t, l))
    BY <1>1, <2>4, WellFormedGrows
  <2> QED  BY <2>3, <2>5 DEF Reads
<1> QED  BY <1>3, <1>4, <1>5

(* A header line: a section begins, or begins again.                       *)
LEMMA HeaderReads ==
    ASSUME opts \in ParseOptions, NEW b, NEW t \in Seq(Lines), NEW l \in Lines, NewHead(opts, t, l),
           l.clean.kind = "header", WellFormed(opts, b, t),
           NEW p, Sound(p), NEW r \in Readers, ~r.multi, Accepted(r),
           Known(opts, b, p, t), Contents(opts, b, p, t, FALSE),
           NEW to, to = ReadHeader(p, r, l.clean.name)
    PROVE  Reads(opts, b, to[1], to[2], Append(t, l))
<1> DEFINE u == Append(t, l)
           s == l.clean.name
           n == Len(t) + 1
<1>1. Len(u) = n
  BY OneMore
<1>2. s \in STRING
  <2>1. l.clean \in Cleaned
    BY DEF Lines
  <2> QED  BY <2>1 DEF Cleaned, Pieces, Blank, Bad
<1>3. WellFormed(opts, b, u) <=> Fits(opts, b, t, l)
  BY WellFormedGrows
<1>4. Fits(opts, b, t, l) <=>
        s # NoName /\ ~(opts.strict /\ s # Default /\ s \in DOMAIN b.index \cup SectionsOf(opts, t))
  BY DEF Fits
<1>5. HasSection(p, s) <=> s = Default \/ s \in DOMAIN b.index \cup SectionsOf(opts, t)
  BY DEF HasSection, Known
<1>6. PICK e : e = [r EXCEPT !.section = s, !.option = NoName]
  OBVIOUS
<1>7. /\ e.section = s /\ e.multi = FALSE /\ e.errors = r.errors /\ e.thrown = r.thrown
      /\ e \in Readers
  <2> HIDE DEF s
  <2> QED  BY <1>2, <1>6 DEF Readers
<1>8. CASE s = NoName
  <2>1. PICK f : f = [e EXCEPT !.errors = TRUE]
    OBVIOUS
  <2>2. to = <<p, f>>
    BY <1>6, <1>8, <2>1 DEF ReadHeader, RecordError
  <2>3. ~Accepted(f) /\ to[2] = f
    BY <1>7, <2>1, <2>2, Fails
  <2> QED  BY <1>3, <1>4, <1>8, <2>3 DEF Reads
<1>9. CASE s # NoName /\ HasSection(p, s) /\ s # Default /\ opts.strict
  <2>1. PICK f : f = [e EXCEPT !.thrown = TRUE]
    OBVIOUS
  <2>2. to = <<p, f>>
    BY <1>6, <1>9, <2>1 DEF ReadHeader, Throw
  <2>3. ~Accepted(f) /\ to[2] = f
    BY <1>7, <2>1, <2>2, Fails
  <2> QED  BY <1>3, <1>4, <1>5, <1>9, <2>3 DEF Reads
<1>10. ASSUME s # NoName, ~(HasSection(p, s) /\ s # Default /\ opts.strict),
              NEW q, to = <<q, e>>, Contents(opts, b, q, t, FALSE), DOMAIN q.index = DOMAIN p.index \cup ({s} \ {Default})
       PROVE  Reads(opts, b, q, e, u)
  <2>1. WellFormed(opts, b, u)
    BY <1>3, <1>4, <1>5, <1>10
  <2>2. Contents(opts, b, q, u, FALSE)
    BY <1>10, ContentsHeader
  <2>3. Known(opts, b, q, u)
    <3>1. SectionsOf(opts, u) = (SectionsOf(opts, t) \cup {s}) \ {Default}
      BY SectionsGrow DEF NewOption
    <3>2. Default \notin SectionsOf(opts, t)
      BY DEF SectionsOf
    <3> HIDE DEF u, s
    <3> QED  BY <1>10, <3>1, <3>2 DEF Known
  <2>4. Follows(opts, e, u)
    <3>1. CurrentSection(opts, u) = s
      BY <1>10, CurrentGrows
    <3>2. ~InValue(opts, u, n)
      <4>1. ~Opens(l.clean)
        BY DEF Opens
      <4> QED  BY <4>1, ValuesGrow DEF NewHead
    <3> HIDE DEF u, s, n
    <3> QED  BY <1>1, <1>7, <3>1, <3>2 DEF Follows
  <2>5. Accepted(e)
    BY <1>7, Alike
  <2> QED  BY <1>7, <2>1, <2>2, <2>3, <2>4, <2>5 DEF Reads
<1>11. CASE s # NoName /\ ~HasSection(p, s)
  <2>1. to = <<NewSection(p, s), e>>
    BY <1>6, <1>11 DEF ReadHeader
  <2>2. s \notin Homes(p)
    BY <1>11, HomeIs
  <2>3. DOMAIN NewSection(p, s).index = DOMAIN p.index \cup ({s} \ {Default})
    <3> HIDE DEF s
    <3> QED  BY <1>2, <2>2, Added DEF Homes
  <2>4. Contents(opts, b, NewSection(p, s), t, FALSE)
    <3> HIDE DEF s
    <3> QED  BY <1>2, <2>2, ContentsAdded
  <2>5. Reads(opts, b, NewSection(p, s), e, u)
    <3> HIDE DEF s, u
    <3> QED  BY <1>10, <1>11, <2>1, <2>3, <2>4
  <2>6. to[1] = NewSection(p, s) /\ to[2] = e
    BY <2>1
  <2> QED  BY <2>5, <2>6
<1>12. CASE s # NoName /\ HasSection(p, s) /\ ~(s # Default /\ opts.strict)
  <2>1. to = <<p, e>>
    BY <1>6, <1>12 DEF ReadHeader
  <2>2. DOMAIN p.index = DOMAIN p.index \cup ({s} \ {Default})
    BY <1>12 DEF HasSection
  <2>3. Reads(opts, b, p, e, u)
    <3> HIDE DEF s, u
    <3> QED  BY <1>10, <1>12, <2>1, <2>2
  <2>4. to[1] = p /\ to[2] = e
    BY <2>1
  <2> QED  BY <2>3, <2>4
<1> QED  BY <1>8, <1>9, <1>11, <1>12

(* A line that continues nothing.                                          *)
LEMMA NewReads ==
    ASSUME opts \in ParseOptions, NEW b, NEW t \in Seq(Lines), NEW l \in Lines, NewHead(opts, t, l),
           WellFormed(opts, b, t),
           NEW p, Sound(p), NEW r, Tracks(p, r), ~r.multi, Accepted(r),
           r.section = CurrentSection(opts, t), Known(opts, b, p, t), Contents(opts, b, p, t, FALSE),
           NEW to, to = ReadNew(p, r, l.clean)
    PROVE  Reads(opts, b, to[1], to[2], Append(t, l))
<1> DEFINE c == l.clean
           n == Len(t) + 1
           s == SectionAt(opts, t, n)
<1>1. r \in Readers /\ r.section \in {NoName} \cup Homes(p)
  BY DEF Tracks
<1>2. /\ r.section = IF NameAt(opts, t, n) # NoName THEN NameAt(opts, t, n)
                     ELSE IF OptionsIn(opts, t) = {} THEN NoName ELSE Unnamed
      /\ s = IF NameAt(opts, t, n) = NoName THEN Unnamed ELSE NameAt(opts, t, n)
  BY DEF CurrentSection, SectionAt
<1>3. Unnamed # NoName /\ Unnamed # Default /\ Unnamed \in STRING
  <2>1. Unnamed # NoName /\ Unnamed # Default
    BY Zenon DEF Unnamed, NoName, Default
  <2> QED  BY <2>1, LinesAssumption
<1>4. CASE c.kind = "header"
  <2>1. to = ReadHeader(p, r, c.name)
    BY <1>4 DEF ReadNew
  <2> QED  BY <1>1, <1>4, <2>1, HeaderReads
<1>5. c.kind # "header" => NewOption(opts, t, l)
  BY DEF NewOption
<1>6. CASE c.kind # "header" /\ r.section = NoName
  <2>0. NameAt(opts, t, n) = NoName /\ s = Unnamed
    BY <1>2, <1>6
  <2>1. CASE ~opts.unnamed
    <3>1. PICK e : e = [r EXCEPT !.thrown = TRUE]
      OBVIOUS
    <3>2. to = <<p, e>>
      BY <1>6, <2>1, <3>1 DEF ReadNew, OutsideSection, Throw
    <3>3. ~Accepted(e) /\ to[2] = e
      BY <1>1, <3>1, <3>2, Fails
    <3>4. ~Fits(opts, b, t, l)
      BY <1>6, <2>0, <2>1 DEF Fits
    <3>5. ~WellFormed(opts, b, Append(t, l))
      BY <3>4, WellFormedGrows
    <3> QED  BY <3>3, <3>5 DEF Reads
  <2>2. CASE opts.unnamed
    <3>1. PICK q : q = IF HasSection(p, Unnamed) THEN p ELSE NewSection(p, Unnamed)
      OBVIOUS
    <3>2. PICK e : e = [r EXCEPT !.section = Unnamed]
      OBVIOUS
    <3>3. to = ReadOption(q, e, c)
      BY <1>6, <2>2, <3>1, <3>2 DEF ReadNew, OutsideSection
    <3>4. e \in Readers /\ e.section = Unnamed /\ ~e.multi /\ e.errors = r.errors /\ e.thrown = r.thrown
      BY <1>1, <1>3, <3>2 DEF Readers
    <3>5. Accepted(e)
      BY <3>4, Alike
    <3>6. /\ Sound(q) /\ DOMAIN q.index = DOMAIN p.index \cup {Unnamed}
          /\ Contents(opts, b, q, t, FALSE)
      <4>1. CASE HasSection(p, Unnamed)
        BY <1>3, <3>1, <4>1 DEF HasSection
      <4>2. CASE ~HasSection(p, Unnamed)
        <5>1. Unnamed \notin Homes(p)
          BY <4>2, HomeIs
        <5> QED  BY <1>3, <3>1, <4>2, <5>1, Added, ContentsAdded
      <4> QED  BY <4>1, <4>2
    <3>7. Unnamed \in Homes(q)
      BY <3>6 DEF Homes
    <3>8. DOMAIN q.index = DOMAIN b.index \cup SectionsOf(opts, t) \cup ({Unnamed} \ {Default})
      BY <1>3, <3>6 DEF Known
    <3>9. Unnamed = SectionAt(opts, t, Len(t) + 1)
      BY <2>0
    <3> QED  BY <1>5, <1>6, <2>2, <3>3, <3>4, <3>5, <3>6, <3>7, <3>8, <3>9, OptionReads
  <2> QED  BY <2>1, <2>2
<1>7. CASE c.kind # "header" /\ r.section # NoName
  <2>1. to = ReadOption(p, r, c)
    BY <1>7 DEF ReadNew
  <2>2. r.section \in Homes(p) /\ r.section = s
    BY <1>1, <1>2, <1>7
  <2>3. ASSUME NameAt(opts, t, n) = NoName PROVE opts.unnamed
    <3>1. PICK i \in OptionsIn(opts, t) : TRUE
      BY <1>2, <1>7, <2>3
    <3>2. HeadersIn(opts, t) = {}
      <4> DEFINE above == {j \in HeadersIn(opts, t) : j < n}
      <4>1. HeadersIn(opts, t) \subseteq 1 .. Len(t) /\ Len(t) \in Nat
        BY HeadsGrow DEF HeadersIn
      <4>2. above = HeadersIn(opts, t)
        BY <4>1
      <4> SUFFICES ASSUME HeadersIn(opts, t) # {} PROVE FALSE
        OBVIOUS
      <4>3. NameAt(opts, t, n) = t[Max(above)].clean.name
        BY <4>2 DEF NameAt
      <4>4. Max(above) \in HeadersIn(opts, t)
        <5> HIDE DEF above
        <5> QED  BY <4>1, <4>2, MaxOf
      <4> QED  BY <2>3, <4>3, <4>4 DEF WellFormed
    <3>3. NameAt(opts, t, i) = NoName
      BY <3>2 DEF NameAt
    <3> QED  BY <3>1, <3>3 DEF WellFormed
  <2>4. DOMAIN p.index = DOMAIN b.index \cup SectionsOf(opts, t) \cup ({s} \ {Default})
    <3> HIDE DEF s
    <3> QED  BY <2>2 DEF Known, Homes
  <2>5. s \in Homes(p) /\ r.section = SectionAt(opts, t, Len(t) + 1)
    BY <2>2
  <2> QED  BY <1>1, <1>5, <1>7, <2>1, <2>2, <2>3, <2>4, <2>5, OptionReads
<1> QED  BY <1>4, <1>6, <1>7
(* A value that is open and one that is not, when nothing more is read for *)
(* it: with empty_lines_in_values the last option has no value then.       *)
LEMMA NotOpen ==
    ASSUME NEW o \in ParseOptions, NEW b, NEW t \in Seq(Lines), WellFormed(o, b, t),
           o.emptyLines, ~InValue(o, t, Len(t)), NEW i \in OptionsIn(o, t), IsLast(o, t, i)
    PROVE  t[i].clean.kind # "option"
<1> SUFFICES ASSUME t[i].clean.kind = "option" PROVE FALSE
  OBVIOUS
<1>1. Opens(t[i].clean)
  BY DEF WellFormed
<1>2. Len(t) \in Nat /\ DOMAIN t = 1 .. Len(t) /\ i \in 1 .. Len(t)
  BY LenProperties DEF OptionsIn, Heads
<1>3. ASSUME NEW n \in i + 1 .. Len(t), t[n].clean # Blank PROVE t[n].indented
  <2>1. n \in 1 .. Len(t) /\ ~(n <= i)
    BY <1>2
  <2>2. n \notin Heads(o, t)
    BY <2>1 DEF IsLast
  <2> QED  BY <1>2, <1>3, <2>1, <2>2 DEF Heads, Continues
<1> QED  BY <1>1, <1>2, <1>3 DEF InValue

(* One line keeps what is in the object true to the text.                  *)
LEMMA LineReads ==
    ASSUME opts \in ParseOptions, NEW b, NEW t \in Seq(Lines), NEW l \in Lines,
           NEW p, Sound(p), NEW r, Tracks(p, r), Reads(opts, b, p, r, t),
           NEW to, to = ParseLine(p, r, l)
    PROVE  Reads(opts, b, to[1], to[2], Append(t, l))
<1> DEFINE c == l.clean
           u == Append(t, l)
           n == Len(t) + 1
           inside == r.multi /\ r.option # NoName
<1>0. r \in Readers /\ c \in Cleaned /\ (r.multi => r.option # NoName)
  BY DEF Tracks, Lines
<1>1. /\ n \in Nat \ {0} /\ Len(u) = n /\ u[n] = l /\ Len(t) = n - 1
      /\ \A i \in 1 .. n - 1 : u[i] = t[i]
  BY OneMore
<1>2. CASE ~Accepted(r)
  <2>1. ~WellFormed(opts, b, u)
    BY <1>2, WellFormedGrows DEF Reads
  <2>2. ~Accepted(to[2])
    BY <1>2, LineTyped
  <2> QED  BY <2>1, <2>2 DEF Reads
<1>3. CASE Accepted(r)
  <2>0. /\ WellFormed(opts, b, t) /\ Follows(opts, r, t) /\ Known(opts, b, p, t)
        /\ Contents(opts, b, p, t, r.multi)
    BY <1>3 DEF Reads
  <2>1. r.section = CurrentSection(opts, t) /\ (r.multi <=> InValue(opts, t, Len(t)))
    BY <2>0 DEF Follows
  <2>2. ASSUME ~NewHead(opts, t, l)
        PROVE  /\ WellFormed(opts, b, u) /\ CurrentSection(opts, u) = CurrentSection(opts, t)
               /\ Known(opts, b, p, u)
               /\ Heads(opts, u) = Heads(opts, t) /\ OptionsIn(opts, u) = OptionsIn(opts, t)
    <3>1. SectionsOf(opts, u) = SectionsOf(opts, t)
      <4>1. SectionsOf(opts, u) = SectionsOf(opts, t) \ {Default}
        BY <2>2, SectionsGrow DEF NewOption
      <4> QED  BY <4>1 DEF SectionsOf
    <3>2. Known(opts, b, p, u)
      BY <2>0, <3>1 DEF Known
    <3>3. WellFormed(opts, b, u)
      BY <2>0, <2>2, WellFormedGrows
    <3>4. Heads(opts, u) = Heads(opts, t) /\ OptionsIn(opts, u) = OptionsIn(opts, t)
      <4>1. /\ Heads(opts, u) = Heads(opts, t) \cup {}
            /\ OptionsIn(opts, u) = OptionsIn(opts, t) \cup {}
        BY <2>2, HeadsGrow
      <4> QED  BY <4>1
    <3> QED  BY <2>2, <3>2, <3>3, <3>4, CurrentGrows
  <2>3. CASE (c = Blank /\ r.multi /\ opts.emptyLines) \/ (c # Blank /\ inside /\ l.indented)
    <3>1. PICK e : e = [r EXCEPT !.accum = Append(@, c)]
      OBVIOUS
    <3>2. to = <<p, e>>
      BY <2>3, <3>1 DEF ParseLine
    <3>3. /\ e.section = r.section /\ e.multi = r.multi /\ e.option = r.option
          /\ e.accum = Append(r.accum, c) /\ e.errors = r.errors /\ e.thrown = r.thrown
      BY <1>0, <3>1, Gains
    <3>4. ~NewHead(opts, t, l)
      BY <2>1, <2>3 DEF NewHead
    <3>5. r.multi = TRUE
      BY <1>0, <2>3 DEF Readers
    <3>6. PICK h \in OptionsIn(opts, t) :
             /\ IsLast(opts, t, h) /\ t[h].clean.kind = "option"
             /\ r.option = KeyAt(t, h) /\ r.section = SectionAt(opts, t, h)
             /\ r.accum = Gathered(t, h)
      BY <2>0, <3>5 DEF Follows
    <3>7. h \in 1 .. Len(t) /\ h \in 1 .. n
      BY <1>1, HeadsGrow DEF OptionsIn
    <3>8. InValue(opts, u, Len(u))
      <4>1. InValue(opts, t, n - 1)
        BY <1>1, <2>1, <3>5
      <4> QED  BY <1>1, <2>3, <4>1, ValuesGrow
    <3>9. Follows(opts, e, u)
      <4>1. KeyAt(u, h) = KeyAt(t, h) /\ u[h].clean.kind = "option"
        BY <1>1, <3>6, <3>7 DEF KeyAt
      <4>2. SectionAt(opts, u, h) = SectionAt(opts, t, h)
        BY <3>7, NamesGrow
      <4>3. e.accum = Gathered(u, h)
        BY <3>3, <3>6, <3>7, GathersMore
      <4>4. h \in OptionsIn(opts, u) /\ IsLast(opts, u, h)
        BY <2>2, <3>4, <3>6 DEF IsLast
      <4>5. e.section = CurrentSection(opts, u)
        BY <2>1, <2>2, <3>3, <3>4
      <4> HIDE DEF u
      <4> QED  BY <3>3, <3>5, <3>6, <3>8, <4>1, <4>2, <4>3, <4>4, <4>5 DEF Follows
    <3>10. Contents(opts, b, p, u, TRUE)
      <4>1. Contents(opts, b, p, t, TRUE)
        BY <2>0, <3>5
      <4> QED  BY <3>4, <4>1, ContentsContinue
    <3>11. Accepted(e)
      BY <1>3, <3>3, Alike
    <3>12. Contents(opts, b, p, u, e.multi)
      BY <3>3, <3>5, <3>10
    <3>13. to[1] = p /\ to[2] = e
      BY <3>2
    <3> QED  BY <2>2, <3>4, <3>9, <3>11, <3>12, <3>13 DEF Reads
  <2>4. CASE c = Blank /\ ~(r.multi /\ opts.emptyLines)
    <3>1. PICK e : e = [r EXCEPT !.multi = FALSE]
      OBVIOUS
    <3>2. to = <<p, e>>
      BY <2>4, <3>1 DEF ParseLine
    <3>3. e.section = r.section /\ e.multi = FALSE /\ e.errors = r.errors /\ e.thrown = r.thrown
      BY <1>0, <3>1, Stops
    <3>4. ~NewHead(opts, t, l)
      BY <2>4 DEF NewHead
    <3>5. ~InValue(opts, u, Len(u))
      <4>1. ~Opens(l.clean)
        BY <2>4 DEF Opens, Blank
      <4>2. ~(InValue(opts, t, n - 1) /\ opts.emptyLines)
        BY <1>1, <2>1, <2>4
      <4> QED  BY <1>1, <2>4, <4>1, <4>2, ValuesGrow
    <3>6. Follows(opts, e, u)
      BY <2>1, <2>2, <3>3, <3>4, <3>5 DEF Follows
    <3>7. Contents(opts, b, p, u, FALSE)
      <4>1. CASE opts.emptyLines
        <5>1. ~InValue(opts, t, Len(t)) /\ r.multi = FALSE
          BY <1>0, <2>1, <2>4, <4>1 DEF Readers
        <5>2. Contents(opts, b, p, t, FALSE)
          BY <2>0, <5>1
        <5>3. \A i \in OptionsIn(opts, t) : IsLast(opts, t, i) => t[i].clean.kind # "option"
          BY <2>0, <4>1, <5>1, NotOpen
        <5> QED  BY <3>4, <5>2, <5>3, ContentsContinue
      <4>2. CASE ~opts.emptyLines
        <5>1. \A i \in OptionsIn(opts, t) : IsLast(opts, t, i) => Interrupted(opts, u, i)
          <6> TAKE i \in OptionsIn(opts, t)
          <6>1. i \in 1 .. Len(t)
            BY <1>1, HeadsGrow DEF OptionsIn
          <6> QED  BY <2>4, <4>2, <6>1, StaysInterrupted DEF IsLast
        <5>2. CASE r.multi = TRUE
          <6>1. Contents(opts, b, p, t, TRUE)
            BY <2>0, <5>2
          <6> QED  BY <3>4, <5>1, <6>1, ContentsContinue
        <5>3. CASE r.multi = FALSE
          <6>1. Contents(opts, b, p, t, FALSE)
            BY <2>0, <5>3
          <6> QED  BY <3>4, <5>1, <6>1, ContentsContinue
        <5>4. r.multi \in BOOLEAN
          BY <1>0 DEF Readers
        <5> QED  BY <5>2, <5>3, <5>4
      <4> QED  BY <4>1, <4>2
    <3>8. Contents(opts, b, p, u, e.multi)
      BY <3>3, <3>7
    <3>9. Accepted(e)
      BY <1>3, <3>3, Alike
    <3>10. to[1] = p /\ to[2] = e
      BY <3>2
    <3> QED  BY <2>2, <3>4, <3>6, <3>8, <3>9, <3>10 DEF Reads
  <2>5. CASE c # Blank /\ inside /\ ~l.indented
    <3>1. PICK q : q = FinishMultiline(p, r)
      OBVIOUS
    <3>2. PICK e : e = [r EXCEPT !.multi = FALSE, !.accum = <<>>]
      OBVIOUS
    <3>3. to = ReadNew(q, e, c)
      BY <2>5, <3>1, <3>2 DEF ParseLine
    <3>4. /\ Sound(q) /\ DOMAIN q.index = DOMAIN p.index
          /\ q = WithItems(p, r.section, Put(Items(p, r.section), r.option, Trimmed(r.accum)))
          /\ r.section \in Homes(p) /\ r.option \in STRING /\ Trimmed(r.accum) \in Stored
      BY <2>5, <3>1, Finishing
    <3>5. /\ e \in Readers /\ e.section = r.section /\ e.multi = FALSE
          /\ e.errors = r.errors /\ e.thrown = r.thrown
      BY <1>0, <3>2, Stops
    <3>6. Tracks(q, e) /\ Accepted(e)
      <4>1. e.section \in {NoName} \cup Homes(q)
        BY <3>4, <3>5 DEF Homes
      <4> QED  BY <1>3, <3>5, <4>1, Idle, Alike
    <3>7. Contents(opts, b, q, t, FALSE)
      <4>1. PICK h \in OptionsIn(opts, t) :
               /\ IsLast(opts, t, h) /\ t[h].clean.kind = "option"
               /\ r.option = KeyAt(t, h) /\ r.section = SectionAt(opts, t, h)
               /\ r.accum = Gathered(t, h)
        BY <2>0, <2>5 DEF Follows
      <4>2. h \in Assigns(opts, t, r.section, r.option)
        BY <4>1 DEF Assigns
      <4>3. Contents(opts, b, p, t, TRUE)
        <5>1. r.multi = TRUE
          BY <1>0, <2>5 DEF Readers
        <5> QED  BY <2>0, <5>1
      <4> QED  BY <3>4, <4>1, <4>2, <4>3, ContentsFinished
    <3>8. Known(opts, b, q, t)
      BY <2>0, <3>4 DEF Known
    <3>9. NewHead(opts, t, l)
      BY <2>5 DEF NewHead
    <3>10. e.section = CurrentSection(opts, t) /\ ~e.multi
      BY <2>1, <3>5
    <3> QED  BY <2>0, <3>3, <3>4, <3>6, <3>7, <3>8, <3>9, <3>10, NewReads
  <2>6. CASE c # Blank /\ ~inside
    <3>1. to = ReadNew(p, r, c)
      BY <2>6 DEF ParseLine
    <3>2. r.multi = FALSE
      BY <1>0, <2>6 DEF Readers
    <3>3. NewHead(opts, t, l)
      BY <2>1, <2>6, <3>2 DEF NewHead
    <3>4. Contents(opts, b, p, t, FALSE)
      BY <2>0, <3>2
    <3> QED  BY <1>3, <2>0, <2>1, <3>1, <3>2, <3>3, <3>4, NewReads
  <2> QED  BY <1>0, <2>3, <2>4, <2>5, <2>6
<1> QED  BY <1>2, <1>3
(* Nothing read yet.                                                       *)
LEMMA BeginReads ==
    ASSUME NEW o \in ParseOptions, NEW p
    PROVE  Reads(o, p, p, Reader, <<>>)
<1>1. /\ Heads(o, <<>>) = {} /\ HeadersIn(o, <<>>) = {} /\ OptionsIn(o, <<>>) = {}
  BY DEF Heads, HeadersIn, OptionsIn
<1>2. WellFormed(o, p, <<>>)
  BY <1>1 DEF WellFormed
<1>3. SectionsOf(o, <<>>) = {} /\ \A s : KeysOf(o, <<>>, s) = {}
  BY <1>1 DEF SectionsOf, KeysOf
<1>4. Known(o, p, p, <<>>)
  BY <1>3 DEF Known
<1>5. Contents(o, p, p, <<>>, FALSE)
  <2>1. \A s \in Homes(p) : ItemsBefore(p, s) = Items(p, s)
    BY HomeIs DEF ItemsBefore
  <2> QED  BY <1>3, <2>1 DEF Contents
<1>6. Follows(o, Reader, <<>>)
  <2>1. NameAt(o, <<>>, Len(<<>>) + 1) = NoName
    BY <1>1 DEF NameAt
  <2>2. CurrentSection(o, <<>>) = NoName
    BY <1>1, <2>1 DEF CurrentSection
  <2>3. ~InValue(o, <<>>, Len(<<>>))
    <3>1. Len(<<>>) = 0 /\ 1 .. 0 = {}
      OBVIOUS
    <3> QED  BY <3>1 DEF InValue
  <2> QED  BY <2>2, <2>3, AtRest DEF Follows
<1> QED  BY <1>2, <1>4, <1>5, <1>6, AtRest DEF Reads

(* The value that is open at the end is finished there.                    *)
LEMMA EndReads ==
    ASSUME opts \in ParseOptions, NEW b, NEW t \in Seq(Lines),
           NEW p, Sound(p), NEW r, Tracks(p, r), Reads(opts, b, p, r, t), Accepted(r),
           NEW q, q = EndOfText(p, r)
    PROVE  Known(opts, b, q, t) /\ Contents(opts, b, q, t, FALSE)
<1>1. /\ Follows(opts, r, t) /\ Known(opts, b, p, t) /\ Contents(opts, b, p, t, r.multi)
      /\ r.multi \in BOOLEAN /\ (r.multi => r.option # NoName)
  BY DEF Reads, Tracks, Readers
<1>2. CASE r.multi = FALSE
  <2>1. q = p
    BY <1>2 DEF EndOfText
  <2>2. Contents(opts, b, p, t, FALSE)
    BY <1>1, <1>2
  <2> QED  BY <1>1, <2>1, <2>2
<1>3. CASE r.multi = TRUE
  <2>1. q = FinishMultiline(p, r)
    BY <1>1, <1>3 DEF EndOfText
  <2>2. /\ DOMAIN q.index = DOMAIN p.index
        /\ q = WithItems(p, r.section, Put(Items(p, r.section), r.option, Trimmed(r.accum)))
        /\ r.section \in Homes(p) /\ r.option \in STRING /\ Trimmed(r.accum) \in Stored
    BY <1>3, <2>1, Finishing
  <2>3. PICK h \in OptionsIn(opts, t) :
           /\ IsLast(opts, t, h) /\ t[h].clean.kind = "option"
           /\ r.option = KeyAt(t, h) /\ r.section = SectionAt(opts, t, h)
           /\ r.accum = Gathered(t, h)
    BY <1>1, <1>3 DEF Follows
  <2>4. h \in Assigns(opts, t, r.section, r.option)
    BY <2>3 DEF Assigns
  <2>5. Contents(opts, b, p, t, TRUE)
    BY <1>1, <1>3
  <2>6. Contents(opts, b, q, t, FALSE)
    BY <2>2, <2>3, <2>4, <2>5, ContentsFinished
  <2>7. Known(opts, b, q, t)
    BY <1>1, <2>2 DEF Known
  <2> QED  BY <2>6, <2>7
<1> QED  BY <1>1, <1>2, <1>3

(* The invariant: during a read the object is what the text so far says,   *)
(* but for the value that is open; after it, what the whole text says.     *)
Meant == (reading = TRUE => Reads(opts, base, ini, rd, text)) /\ ReadsAsWritten

LEMMA MeantNext == Typed /\ Meant /\ [Next]_vars => Meant'
<1> SUFFICES ASSUME Typed, Meant, [Next]_vars PROVE Meant'
  OBVIOUS
<1>1. ASSUME NEW p, Edit(p) PROVE Meant'
  <2>1. reading' # TRUE /\ result' = "none"
    BY <1>1 DEF Edit, Typed
  <2> QED  BY <2>1 DEF Meant, ReadsAsWritten
<1>2. CASE ReadString
  <2>1. /\ opts' = opts /\ ini' = ini /\ base' = ini /\ rd' = Reader /\ text' = <<>>
        /\ result' = "none"
    BY <1>2 DEF ReadString
  <2>2. Reads(opts, ini, ini, Reader, <<>>)
    BY BeginReads DEF Typed
  <2>3. Reads(opts, base, ini, rd, text)'
    BY <2>1, <2>2
  <2>4. ReadsAsWritten'
    BY <2>1 DEF ReadsAsWritten
  <2> QED  BY <2>3, <2>4 DEF Meant
<1>3. CASE ReadLine
  <2>1. PICK l \in lines : /\ ini' = ParseLine(ini, rd, l)[1] /\ rd' = ParseLine(ini, rd, l)[2]
                           /\ text' = Append(text, l)
    BY <1>3 DEF ReadLine
  <2>2. /\ reading = TRUE /\ opts' = opts /\ base' = base /\ result' = result /\ result = "none"
    BY <1>3 DEF ReadLine, Typed
  <2>3. l \in Lines /\ Reads(opts, base, ini, rd, text)
    BY <2>2 DEF Typed, Meant
  <2>4. PICK to : to = ParseLine(ini, rd, l)
    OBVIOUS
  <2>5. Reads(opts, base, to[1], to[2], Append(text, l))
    BY <2>3, <2>4, LineReads DEF Typed
  <2>6. Reads(opts, base, ini, rd, text)'
    BY <2>1, <2>2, <2>4, <2>5
  <2>7. ReadsAsWritten'
    BY <2>2 DEF ReadsAsWritten
  <2> QED  BY <2>6, <2>7 DEF Meant
<1>4. CASE EndRead
  <2>1. /\ reading = TRUE /\ reading' = FALSE /\ opts' = opts /\ base' = base /\ text' = text
        /\ ini' = (IF rd.thrown THEN ini ELSE EndOfText(ini, rd))
        /\ result' = (IF Accepted(rd) THEN "ok" ELSE "failed")
    BY <1>4 DEF EndRead, Typed
  <2>2. Reads(opts, base, ini, rd, text)
    BY <2>1 DEF Meant
  <2>3. Accepted(rd) <=> WellFormed(opts, base, text)
    BY <2>2 DEF Reads
  <2>4. result' = "ok" <=> WellFormed(opts, base, text)
    BY <2>1, <2>3
  <2>5. ASSUME result' = "ok"
        PROVE  Known(opts, base, ini', text) /\ Contents(opts, base, ini', text, FALSE)
    <3>1. Accepted(rd) /\ ini' = EndOfText(ini, rd)
      BY <2>1, <2>5 DEF Accepted
    <3> QED  BY <2>2, <3>1, EndReads DEF Typed
  <2>6. ReadsAsWritten'
    BY <2>1, <2>4, <2>5 DEF ReadsAsWritten, Known, Contents, Homes, Settled
  <2> QED  BY <2>1, <2>6 DEF Meant
<1>5. CASE AddSection
  BY <1>1, <1>5 DEF AddSection
<1>6. CASE SetOption
  BY <1>1, <1>6 DEF SetOption
<1>7. CASE RemoveOption
  BY <1>1, <1>7 DEF RemoveOption
<1>8. CASE RemoveSection
  BY <1>1, <1>8 DEF RemoveSection
<1>9. CASE Clear
  BY <1>1, <1>9 DEF Clear
<1>10. CASE UNCHANGED vars
  BY <1>10 DEF vars, Meant, ReadsAsWritten
<1> QED  BY <1>2, <1>3, <1>4, <1>5, <1>6, <1>7, <1>8, <1>9, <1>10 DEF Next

(* read_string accepts exactly the well-formed texts, and then holds what  *)
(* they say over what it held before (parser.cpp:218-406), whatever reads  *)
(* and edits came before.                                                  *)
THEOREM ReadsRight == Spec => []ReadsAsWritten
<1>1. Init => Typed
  BY TypedInit
<1>2. Init => Meant
  BY DEF Init, Meant, ReadsAsWritten
<1>3. Typed /\ [Next]_vars => Typed'
  BY TypedNext
<1>4. Typed /\ Meant /\ [Next]_vars => Meant'
  BY MeantNext
<1>5. Meant => ReadsAsWritten
  BY DEF Meant
<1> QED  BY <1>1, <1>2, <1>3, <1>4, <1>5, PTL DEF Spec

-----------------------------------------------------------------------------
(* A header on a line of its own opens a section, and a section has one.   *)
LEMMA HeaderHere ==
    ASSUME NEW o \in ParseOptions, NEW t \in Seq(Lines), NEW i \in Heads(o, t), NEW s, s # Default,
           t[i].clean = Header(s)
    PROVE  s \in SectionsOf(o, t)
<1>1. t[i].clean.kind = "header" /\ t[i].clean.name = s
  BY DEF Header
<1>2. i \in HeadersIn(o, t)
  BY <1>1 DEF HeadersIn
<1> QED  BY <1>1, <1>2 DEF SectionsOf

LEMMA HeaderSomewhere ==
    ASSUME NEW o \in ParseOptions, NEW t \in Seq(Lines), NEW s \in SectionsOf(o, t), s # Unnamed
    PROVE  \E i \in DOMAIN t : t[i].clean = Header(s)
<1>1. ASSUME NEW i \in HeadersIn(o, t) PROVE i \in DOMAIN t /\ t[i].clean = Header(t[i].clean.name)
  <2>1. i \in DOMAIN t /\ t[i].clean.kind = "header"
    BY <1>1 DEF HeadersIn, Heads
  <2>2. t[i] \in Lines
    BY <2>1, ElementOfSeq, LenProperties
  <2>3. t[i].clean \in Cleaned
    BY <2>2 DEF Lines
  <2> DEFINE c == t[i].clean
  <2> HIDE DEF c
  <2>4. c \in Cleaned /\ c.kind = "header" => c = Header(c.name)
    BY DEF Cleaned, Pieces, Blank, Bad, Header
  <2> QED  BY <2>1, <2>3, <2>4 DEF c
<1>2. CASE \E i \in HeadersIn(o, t) : t[i].clean.name = s
  BY <1>1, <1>2
<1>3. CASE \E i \in OptionsIn(o, t) : SectionAt(o, t, i) = s
  <2>1. PICK i \in OptionsIn(o, t) : SectionAt(o, t, i) = s
    BY <1>3
  <2> DEFINE above == {j \in HeadersIn(o, t) : j < i}
  <2>2. NameAt(o, t, i) # NoName /\ NameAt(o, t, i) = s
    BY <2>1 DEF SectionAt
  <2>3. above # {} /\ s = t[Max(above)].clean.name
    BY <2>2 DEF NameAt
  <2>4. HeadersIn(o, t) \subseteq 1 .. Len(t) /\ Len(t) \in Nat
    BY HeadsGrow, LenProperties DEF HeadersIn, Heads
  <2>5. Max(above) \in HeadersIn(o, t)
    <3>1. above \in SUBSET (1 .. Len(t)) /\ above \subseteq HeadersIn(o, t)
      BY <2>4
    <3> HIDE DEF above
    <3> QED  BY <2>3, <2>4, <3>1, MaxOf
  <2> HIDE DEF above
  <2> QED  BY <1>1, <2>3, <2>5
<1> QED  BY <1>2, <1>3 DEF SectionsOf

LEMMA ScannersFollow == Typed /\ ReadsAsWritten => ScannersAgree
<1> DEFINE malformed == ~WellFormed(opts, base, text)
<1> SUFFICES ASSUME Typed, ReadsAsWritten, result # "none" PROVE ScannersAgree
  BY DEF ScannersAgree
<1>1. opts \in ParseOptions /\ text \in Seq(Lines) /\ Len(text) \in Nat /\ DOMAIN text = 1 .. Len(text)
  BY LenProperties DEF Typed
<1>2. /\ result = "ok" <=> ~malformed
      /\ result = "ok" => DOMAIN ini.index = DOMAIN base.index \cup SectionsOf(opts, text)
  BY DEF ReadsAsWritten
<1> HIDE DEF malformed
<1>3. \A s : SupportLevel(text, s) = 2 <=> \E i \in DOMAIN text : text[i].clean = Header(s)
  BY DEF SupportLevel
<1>4. ASSUME NEW s, s # Default, NEW i \in DOMAIN text, text[i].clean = Header(s),
             ~malformed, ~HeaderInValue(opts, text, s)
      PROVE  Loaded(s)
  <2>1. i \notin Continues(opts, text)
    BY <1>4 DEF HeaderInValue
  <2>2. text[i].clean # Blank
    BY <1>4 DEF Header, Blank
  <2>3. i \in Heads(opts, text)
    BY <1>4, <2>1, <2>2 DEF Heads
  <2> QED  BY <1>1, <1>2, <1>4, <2>3, HeaderHere DEF HasSection, Loaded
<1>5. ASSUME NEW s, s \notin {Default, Unnamed}
      PROVE  /\ SupportLevel(text, s) = 2 =>
                  Loaded(s) \/ malformed \/ HeaderInValue(opts, text, s)
             /\ Loaded(s) =>
                  ~malformed /\ (SupportLevel(text, s) = 2 \/ s \in DOMAIN base.index)
  <2>1. SupportLevel(text, s) = 2 => Loaded(s) \/ malformed \/ HeaderInValue(opts, text, s)
    BY <1>3, <1>4, <1>5
  <2>2. ASSUME Loaded(s), s \notin DOMAIN base.index PROVE SupportLevel(text, s) = 2
    <3>1. s \in SectionsOf(opts, text)
      BY <1>2, <1>5, <2>2 DEF Loaded, HasSection
    <3> QED  BY <1>1, <1>3, <1>5, <3>1, HeaderSomewhere
  <2>3. Loaded(s) => ~malformed
    BY <1>2 DEF Loaded
  <2> QED  BY <2>1, <2>2, <2>3
<1>6. ASSUME ValidIniContent(text) PROVE IniDate(text) # Bad
  <2>1. PICK i \in DOMAIN text :
           /\ IsUpdated(text[i].clean) /\ ~text[i].indented /\ IsDate(text[i].clean.value)
           /\ \A j \in 1 .. i - 1 : ~MentionsUpdated(text[j])
    BY <1>6 DEF ValidIniContent
  <2> DEFINE at == {j \in DOMAIN text : IsUpdated(text[j].clean) /\ ~text[j].indented}
  <2>2. i \in at /\ at \in SUBSET Nat
    BY <1>1, <2>1
  <2>3. \A j \in at : i <= j
    BY <1>1, <2>1 DEF MentionsUpdated
  <2>4. Min(at) = i
    <3> HIDE DEF at
    <3> QED  BY <2>2, <2>3, MinIs
  <2>5. IniDate(text) = text[i].clean.value
    BY <2>1, <2>2, <2>4 DEF IniDate
  <2>6. text[i].clean.value # Bad
    BY <2>1 DEF IsDate, Bad
  <2> QED  BY <2>5, <2>6
<1>7. ASSUME ValidIniContent(text), NEW s \in {"Main", "SLPolicy"}
      PROVE  \/ Loaded(s) \/ malformed \/ HeaderInValue(opts, text, s)
             \/ \E l \in ToSet(text) : s \in l.says
  <2>1. PICK i \in DOMAIN text : Mentions(text[i], s)
    BY <1>7 DEF ValidIniContent
  <2>2. text[i].clean = Header(s) \/ s \in text[i].says
    BY <2>1 DEF Mentions
  <2>3. s # Default
    BY <1>7, Zenon DEF Default
  <2>4. CASE text[i].clean = Header(s)
    BY <1>4, <2>3, <2>4
  <2>5. CASE s \in text[i].says
    <3>1. text[i] \in ToSet(text)
      BY DEF ToSet
    <3> QED  BY <2>5, <3>1
  <2> QED  BY <2>2, <2>4, <2>5
<1> QED  BY <1>5, <1>6, <1>7 DEF ScannersAgree, malformed

(* However a read ends: a version with a header in the text is loaded, or  *)
(* the parser threw, which hooks nothing, or the header belongs to a       *)
(* value; what is loaded has its header; and content the installer accepts *)
(* has a date (main.cpp:791-823, RDPWInst.cpp:734-752).                    *)
THEOREM ScannersRight == Spec => []ScannersAgree
<1>1. Typed /\ ReadsAsWritten => ScannersAgree
  BY ScannersFollow
<1>2. Spec => []Typed
  BY TypedInit, TypedNext, PTL DEF Spec
<1> QED  BY <1>1, <1>2, ReadsRight, PTL
-----------------------------------------------------------------------------
(* A sequence with every element replaced by a sequence.                   *)
Maps(Y, X) == [Y -> Seq(X)]

Over(h, x) == FlattenSeq([i \in DOMAIN x |-> h[x[i]]])

LEMMA OverNone == ASSUME NEW h PROVE Over(h, <<>>) = <<>>
<1>1. [i \in DOMAIN <<>> |-> h[<<>>[i]]] = <<>>
  OBVIOUS
<1> QED  BY <1>1, FlattenNone DEF Over

LEMMA OverMap ==
    ASSUME NEW X, NEW Y, NEW h \in Maps(Y, X), NEW x \in Seq(Y)
    PROVE  [i \in DOMAIN x |-> h[x[i]]] \in Seq(Seq(X)) /\ Over(h, x) \in Seq(X)
<1>1. DOMAIN x = 1 .. Len(x) /\ Len(x) \in Nat /\ \A i \in 1 .. Len(x) : x[i] \in Y
  BY LenProperties, ElementOfSeq
<1>2. [i \in 1 .. Len(x) |-> h[x[i]]] \in [1 .. Len(x) -> Seq(X)]
  BY <1>1 DEF Maps
<1>3. [i \in DOMAIN x |-> h[x[i]]] \in Seq(Seq(X))
  BY <1>1, <1>2, SeqDef
<1> QED  BY <1>3, FlattenTyped DEF Over

LEMMA OverAppend ==
    ASSUME NEW X, NEW Y, NEW h \in Maps(Y, X), NEW x \in Seq(Y), NEW y \in Y
    PROVE  Over(h, Append(x, y)) = Over(h, x) \o h[y]
<1>1. PICK z : z = Append(x, y)
  OBVIOUS
<1>2. PICK a : a = [i \in DOMAIN x |-> h[x[i]]]
  OBVIOUS
<1>3. PICK b : b = [i \in DOMAIN z |-> h[z[i]]]
  OBVIOUS
<1>4. PICK c : c = Append(a, h[y])
  OBVIOUS
<1>5. /\ DOMAIN x = 1 .. Len(x) /\ Len(x) \in Nat /\ z \in Seq(Y)
      /\ DOMAIN z = 1 .. Len(x) + 1 /\ z[Len(x) + 1] = y /\ \A i \in 1 .. Len(x) : z[i] = x[i]
  BY <1>1, AppendProperties, LenProperties
<1>6. a \in Seq(Seq(X)) /\ b \in Seq(Seq(X)) /\ h[y] \in Seq(X)
  BY <1>2, <1>3, <1>5, OverMap DEF Maps
<1>7. Len(a) = Len(x)
  BY <1>2, <1>5, <1>6, LenProperties
<1>8. /\ c \in Seq(Seq(X)) /\ Len(c) = Len(x) + 1 /\ c[Len(x) + 1] = h[y]
      /\ \A i \in 1 .. Len(x) : c[i] = a[i]
  BY <1>4, <1>6, <1>7, AppendProperties
<1>9. Len(b) = Len(x) + 1
  BY <1>3, <1>5, <1>6, LenProperties
<1>10. ASSUME NEW i \in 1 .. Len(x) + 1 PROVE b[i] = c[i]
  <2>1. i = Len(x) + 1 \/ i \in 1 .. Len(x)
    BY <1>5
  <2>2. b[i] = h[z[i]]
    BY <1>3, <1>5
  <2>3. i \in 1 .. Len(x) => a[i] = h[x[i]]
    BY <1>2, <1>5
  <2> QED  BY <1>5, <1>8, <2>1, <2>2, <2>3
<1>11. b = c
  BY <1>6, <1>8, <1>9, <1>10, SeqEqual
<1>12. FlattenSeq(b) = FlattenSeq(a) \o h[y]
  BY <1>4, <1>6, <1>11, FlattenAppend
<1> QED  BY <1>1, <1>2, <1>3, <1>12 DEF Over

LEMMA OverOne ==
    ASSUME NEW X, NEW Y, NEW h \in Maps(Y, X), NEW y \in Y
    PROVE  Over(h, <<y>>) = h[y]
<1>0. <<>> \in Seq(Y)
  BY EmptySeq
<1>1. PICK e \in Seq(Y) : e = <<>>
  BY <1>0
<1>2. Over(h, Append(e, y)) = Over(h, e) \o h[y]
  BY OverAppend
<1>3. PICK a \in Seq(X) : a = h[y]
  BY DEF Maps
<1>4. <<>> \o a = a
  OBVIOUS
<1>5. Append(e, y) = <<y>>
  BY <1>1
<1> QED  BY <1>1, <1>2, <1>3, <1>4, <1>5, OverNone

LEMMA OverConcat ==
    ASSUME NEW X, NEW Y, NEW h \in Maps(Y, X), NEW x \in Seq(Y), NEW z \in Seq(Y)
    PROVE  Over(h, x \o z) = Over(h, x) \o Over(h, z)
<1> DEFINE G == {w \in Seq(Y) : Over(h, x \o w) = Over(h, x) \o Over(h, w)}
<1>0. Over(h, x) \in Seq(X)
  BY OverMap
<1>1. <<>> \in G
  <2>1. PICK a \in Seq(X) : a = Over(h, x)
    BY <1>0
  <2>2. x \o <<>> = x /\ a \o <<>> = a /\ <<>> \in Seq(Y)
    OBVIOUS
  <2> QED  BY <2>1, <2>2, OverNone
<1>2. ASSUME NEW w \in G, NEW y \in Y PROVE Append(w, y) \in G
  <2>1. w \in Seq(Y) /\ Over(h, x \o w) = Over(h, x) \o Over(h, w)
    OBVIOUS
  <2> HIDE DEF G
  <2>2. Append(w, y) \in Seq(Y) /\ x \o w \in Seq(Y) /\ x \o Append(w, y) = Append(x \o w, y)
    BY <2>1
  <2>3. PICK a \in Seq(X) : a = Over(h, x)
    BY <1>0
  <2>4. PICK b \in Seq(X) : b = Over(h, w)
    BY <2>1, OverMap
  <2>5. PICK c \in Seq(X) : c = h[y]
    BY DEF Maps
  <2>6. Over(h, x \o Append(w, y)) = (a \o b) \o c
    <3>1. PICK xw \in Seq(Y) : xw = x \o w
      BY <2>2
    <3>2. Over(h, Append(xw, y)) = Over(h, xw) \o h[y]
      BY OverAppend
    <3> QED  BY <2>1, <2>2, <2>3, <2>4, <2>5, <3>1, <3>2
  <2>7. Over(h, Append(w, y)) = b \o c
    <3>1. Over(h, Append(w, y)) = Over(h, w) \o h[y]
      BY <2>1, OverAppend
    <3> QED  BY <2>4, <2>5, <3>1
  <2>8. (a \o b) \o c = a \o (b \o c)
    BY ConcatAssociative
  <2> QED  BY <2>2, <2>3, <2>6, <2>7, <2>8 DEF G
<1>3. G = Seq(Y)
  <2> HIDE DEF G
  <2>1. G \in SUBSET Seq(Y)
    BY DEF G
  <2> QED  BY <1>1, <1>2, <2>1, ByAppending
<1> QED  BY <1>3

LEMMA OverOver ==
    ASSUME NEW X, NEW Y, NEW h \in Maps(Y, X), NEW g \in Maps(Y, Y), NEW x \in Seq(Y)
    PROVE  Over(h, Over(g, x)) = Over([y \in Y |-> Over(h, g[y])], x)
<1>1. PICK k : k = [y \in Y |-> Over(h, g[y])]
  OBVIOUS
<1>2. k \in Maps(Y, X)
  <2>1. \A y \in Y : Over(h, g[y]) \in Seq(X)
    BY OverMap DEF Maps
  <2> QED  BY <1>1, <2>1 DEF Maps
<1> DEFINE G == {w \in Seq(Y) : Over(h, Over(g, w)) = Over(k, w)}
<1>3. <<>> \in G
  BY OverNone
<1>4. ASSUME NEW w \in G, NEW y \in Y PROVE Append(w, y) \in G
  <2>1. w \in Seq(Y) /\ Over(h, Over(g, w)) = Over(k, w)
    OBVIOUS
  <2> HIDE DEF G
  <2>0. Over(g, w) \in Seq(Y)
    BY <2>1, OverMap
  <2>2. PICK a \in Seq(Y) : a = Over(g, w)
    BY <2>0
  <2>3. Over(g, Append(w, y)) = a \o g[y]
    <3>1. Over(g, Append(w, y)) = Over(g, w) \o g[y]
      BY <2>1, OverAppend
    <3> QED  BY <2>2, <3>1
  <2>4. Over(h, a \o g[y]) = Over(h, a) \o Over(h, g[y])
    <3>1. PICK q \in Seq(Y) : q = g[y]
      BY DEF Maps
    <3>2. Over(h, a \o q) = Over(h, a) \o Over(h, q)
      BY OverConcat
    <3> QED  BY <3>1, <3>2
  <2>5. Over(k, Append(w, y)) = Over(k, w) \o k[y]
    BY <1>2, <2>1, OverAppend
  <2>6. k[y] = Over(h, g[y])
    BY <1>1
  <2>7. Append(w, y) \in Seq(Y)
    BY <2>1
  <2> QED  BY <2>1, <2>2, <2>3, <2>4, <2>5, <2>6, <2>7 DEF G
<1>5. G = Seq(Y)
  <2> HIDE DEF G
  <2>1. G \in SUBSET Seq(Y)
    BY DEF G
  <2> QED  BY <1>3, <1>4, <2>1, ByAppending
<1> QED  BY <1>1, <1>5

-----------------------------------------------------------------------------
(* Interpolation.  A value in place: each piece with the section it is     *)
(* looked up from.                                                         *)
\* named, for a set the provers need not look into
Texts == STRING

Pieced == [sec : Texts, piece : Cleaned]

LEMMA FoundOne ==
    ASSUME NEW p, Sound(p), NEW s, NEW k
    PROVE  /\ GetRaw(p, s, k) \subseteq Stored
           /\ GetRaw(p, s, k) = {} \/ \E v \in Stored : GetRaw(p, s, k) = {v}
<1>1. ASSUME NEW t \in Homes(p), k \in Listed(Items(p, t)) PROVE ValueIn(Items(p, t), k) \in Stored
  <2>1. PICK items : items = Items(p, t)
    OBVIOUS
  <2>2. items \in Seq(Entries) /\ Unique(items)
    BY <2>1, HomeItems
  <2>3. PICK i \in DOMAIN items : items[i].key = k
    BY <1>1, <2>1 DEF Listed
  <2>4. items[i] \in Entries
    BY <2>2, LenProperties, ElementOfSeq
  <2>5. ValueIn(items, k) = items[i].value
    BY <2>2, <2>3, ValueAtPlace
  <2> QED  BY <2>1, <2>4, <2>5 DEF Entries
<1>2. CASE HasSection(p, s) /\ k \in Listed(Items(p, s))
  <2>1. GetRaw(p, s, k) = {ValueIn(Items(p, s), k)}
    BY <1>2 DEF GetRaw
  <2> QED  BY <1>1, <1>2, <2>1, HomeIs
<1>3. CASE ~(HasSection(p, s) /\ k \in Listed(Items(p, s)))
  <2>1. GetRaw(p, s, k) = {ValueIn(p.defaults, x) : x \in Listed(p.defaults) \cap {k}}
    BY <1>3 DEF GetRaw
  <2>2. CASE k \in Listed(p.defaults)
    <3>1. Default \in Homes(p) /\ Items(p, Default) = p.defaults
      BY DEF Homes, Items
    <3>2. ValueIn(p.defaults, k) \in Stored
      BY <1>1, <2>2, <3>1
    <3>3. GetRaw(p, s, k) = {ValueIn(p.defaults, k)}
      BY <2>1, <2>2
    <3> QED  BY <3>2, <3>3
  <2>3. CASE k \notin Listed(p.defaults)
    BY <2>1, <2>3
  <2> QED  BY <2>2, <2>3
<1> QED  BY <1>2, <1>3

(* What a piece stands for, with deeper as for Substitute.                 *)
Out(p, deeper, e) ==
    IF ~IsReference(e.piece) THEN <<e.piece>>
    ELSE IF FoundBy(p, e) = {} THEN <<Bad>>
    ELSE LET w == CHOOSE w \in FoundBy(p, e) : TRUE
         IN  IF w = NoValue THEN <<>> ELSE deeper[TargetSection(e.sec, e.piece)][w]

Outs(p, deeper) == [e \in Pieced |-> Out(p, deeper, e)]

Rewrites(p) == [e \in Pieced |-> Rewrite(p, e)]

Strips == [e \in Pieced |-> <<e.piece>>]

Expands(deeper) == \A t \in Texts : \A v \in Seq(Cleaned) : deeper[t][v] \in Seq(Cleaned)

LEMMA BadPiece == Bad \in Cleaned /\ ~IsReference(Bad)
  BY DEF Bad, Cleaned, Pieces, IsReference

LEMMA PlacedTyped ==
    ASSUME NEW t \in Texts, NEW v \in Seq(Cleaned)
    PROVE  /\ Placed(t, v) \in Seq(Pieced) /\ DOMAIN Placed(t, v) = DOMAIN v
           /\ \A i \in DOMAIN v : Placed(t, v)[i] = [sec |-> t, piece |-> v[i]] /\ Placed(t, v)[i] \in Pieced
<1>1. DOMAIN v = 1 .. Len(v) /\ Len(v) \in Nat /\ \A i \in 1 .. Len(v) : v[i] \in Cleaned
  BY LenProperties, ElementOfSeq
<1>2. \A i \in 1 .. Len(v) : [sec |-> t, piece |-> v[i]] \in Pieced
  BY <1>1 DEF Pieced
<1>3. Placed(t, v) \in [1 .. Len(v) -> Pieced]
  BY <1>1, <1>2 DEF Placed
<1>4. Placed(t, v) \in Seq(Pieced)
  BY <1>1, <1>3, SeqDef
<1> QED  BY <1>1, <1>2, <1>3, <1>4 DEF Placed

LEMMA FoundTyped ==
    ASSUME NEW p, Sound(p), NEW e \in Pieced, IsReference(e.piece)
    PROVE  /\ TargetSection(e.sec, e.piece) \in Texts
           /\ FoundBy(p, e) \subseteq Stored
           /\ FoundBy(p, e) = {} \/ \E v \in Stored : FoundBy(p, e) = {v}
<1>1. e.piece.kind = "ref" /\ e.piece \in Cleaned /\ e.sec \in Texts
  BY DEF IsReference, Pieced
<1>2. e.piece.sec \in Texts
  <2>1. PICK c : c = e.piece
    OBVIOUS
  <2>2. c \in Cleaned /\ c.kind = "ref"
    BY <1>1, <2>1
  <2>3. c \in [kind : {"ref"}, sec : Texts, key : Texts]
    BY <2>2 DEF Cleaned, Pieces, Blank, Bad, Texts
  <2> QED  BY <2>1, <2>3
<1> QED  BY <1>1, <1>2, FoundOne DEF FoundBy, TargetSection

LEMMA OutsTyped ==
    ASSUME NEW p, Sound(p), NEW deeper, Expands(deeper)
    PROVE  Outs(p, deeper) \in Maps(Pieced, Cleaned)
<1> SUFFICES ASSUME NEW e \in Pieced PROVE Out(p, deeper, e) \in Seq(Cleaned)
  BY DEF Outs, Maps
<1>1. PICK c : c = e.piece
  OBVIOUS
<1>2. c \in Cleaned
  BY <1>1 DEF Pieced
<1>3. <<c>> \in Seq(Cleaned) /\ <<Bad>> \in Seq(Cleaned) /\ <<>> \in Seq(Cleaned)
  BY <1>2, BadPiece
<1>4. CASE IsReference(e.piece) /\ FoundBy(p, e) # {}
  <2>1. PICK w : w = CHOOSE x \in FoundBy(p, e) : TRUE
    OBVIOUS
  <2>2. w \in Stored
    BY <1>4, <2>1, FoundTyped
  <2>3. w # NoValue => w \in Seq(Cleaned)
    BY <2>2 DEF Stored
  <2>4. w # NoValue => deeper[TargetSection(e.sec, e.piece)][w] \in Seq(Cleaned)
    BY <1>4, <2>3, FoundTyped DEF Expands
  <2>5. Out(p, deeper, e) = IF w = NoValue THEN <<>> ELSE deeper[TargetSection(e.sec, e.piece)][w]
    BY <1>4, <2>1 DEF Out
  <2> QED  BY <1>3, <2>4, <2>5
<1>5. CASE ~(IsReference(e.piece) /\ FoundBy(p, e) # {})
  BY <1>1, <1>3, <1>5 DEF Out
<1> QED  BY <1>4, <1>5

LEMMA RewritesTyped ==
    ASSUME NEW p, Sound(p)
    PROVE  Rewrites(p) \in Maps(Pieced, Pieced)
<1> SUFFICES ASSUME NEW e \in Pieced PROVE Rewrite(p, e) \in Seq(Pieced)
  BY DEF Rewrites, Maps
<1>1. e.sec \in Texts /\ <<e>> \in Seq(Pieced) /\ <<Bad>> \in Seq(Cleaned) /\ <<>> \in Seq(Pieced)
  BY BadPiece DEF Pieced
<1>2. Placed(e.sec, <<Bad>>) \in Seq(Pieced)
  BY <1>1, PlacedTyped
<1>3. CASE IsReference(e.piece) /\ FoundBy(p, e) # {}
  <2>1. PICK w : w = CHOOSE x \in FoundBy(p, e) : TRUE
    OBVIOUS
  <2>2. w \in Stored
    BY <1>3, <2>1, FoundTyped
  <2>3. w # NoValue => Placed(TargetSection(e.sec, e.piece), w) \in Seq(Pieced)
    BY <1>3, <2>2, FoundTyped, PlacedTyped DEF Stored
  <2>4. Rewrite(p, e) = IF w = NoValue THEN <<>> ELSE Placed(TargetSection(e.sec, e.piece), w)
    BY <1>3, <2>1 DEF Rewrite
  <2> QED  BY <1>1, <2>3, <2>4
<1>4. CASE ~(IsReference(e.piece) /\ FoundBy(p, e) # {})
  BY <1>1, <1>2, <1>4 DEF Rewrite
<1> QED  BY <1>3, <1>4

LEMMA SubstituteIs ==
    ASSUME NEW p, NEW deeper, NEW t \in Texts, NEW v \in Seq(Cleaned)
    PROVE  Substitute(p, t, v, deeper) = Over(Outs(p, deeper), Placed(t, v))
<1> DEFINE piece(i) == IF ~IsReference(v[i]) THEN <<v[i]>>
                       ELSE LET target == TargetSection(t, v[i])
                                found == GetRaw(p, target, v[i].key)
                                w == CHOOSE w \in found : TRUE
                            IN  IF found = {} THEN <<Bad>> ELSE IF w = NoValue THEN <<>> ELSE deeper[target][w]
<1>1. \A i \in DOMAIN v : Outs(p, deeper)[Placed(t, v)[i]] = piece(i)
  <2> TAKE i \in DOMAIN v
  <2>0. Placed(t, v)[i] = [sec |-> t, piece |-> v[i]] /\ Placed(t, v)[i] \in Pieced
    BY PlacedTyped
  <2>1. PICK e \in Pieced : e = Placed(t, v)[i] /\ e = [sec |-> t, piece |-> v[i]]
    BY <2>0
  <2>2. Outs(p, deeper)[e] = Out(p, deeper, e)
    BY DEF Outs
  <2>3. Out(p, deeper, e) = piece(i)
    BY <2>1 DEF Out, FoundBy
  <2> QED  BY <2>1, <2>2, <2>3
<1>2. Substitute(p, t, v, deeper) = FlattenSeq([i \in DOMAIN v |-> piece(i)])
  BY DEF Substitute
<1> HIDE DEF piece
<1>3. [i \in DOMAIN Placed(t, v) |-> Outs(p, deeper)[Placed(t, v)[i]]] = [i \in DOMAIN v |-> piece(i)]
  BY <1>1, PlacedTyped
<1> QED  BY <1>2, <1>3 DEF Over

(* The levels of interpolate, from 1 at get() to the one that is refused.  *)
Level(p, d, deeper) ==
    [t \in Texts |-> [v \in Stored |->
       IF DepthExceeded(d) THEN <<Bad>> ELSE Substitute(p, t, v, deeper)]]

Levels(p, at) == at = [d \in 1 .. MaxDepth + 1 |-> Level(p, d, at[d + 1])]

LEMMA LevelsExist ==
    ASSUME NEW p
    PROVE  \E at : Levels(p, at)
<1> DEFINE top == MaxDepth + 1
           T == {n \in Nat : n <= MaxDepth =>
                   \E g : \A d \in top - n .. top : g[d] = Level(p, d, g[d + 1])}
<1>0. MaxDepth \in Nat \ {0}
  BY IniBounds
<1>1. 0 \in T
  <2>1. \A a, b : Level(p, top, a) = Level(p, top, b)
    <3>1. DepthExceeded(top)
      BY <1>0 DEF DepthExceeded
    <3> QED  BY <3>1 DEF Level
  <2>2. PICK g : g = [d \in {top} |-> Level(p, top, 0)]
    OBVIOUS
  <2>3. \A d \in top - 0 .. top : d = top
    BY <1>0
  <2>4. g[top] = Level(p, top, g[top + 1])
    BY <2>1, <2>2
  <2>5. \A d \in top - 0 .. top : g[d] = Level(p, d, g[d + 1])
    BY <2>3, <2>4
  <2> QED  BY <2>5
<1>2. ASSUME NEW n \in T PROVE n + 1 \in T
  <2> SUFFICES ASSUME n + 1 <= MaxDepth
               PROVE  \E g : \A d \in top - (n + 1) .. top : g[d] = Level(p, d, g[d + 1])
    OBVIOUS
  <2>1. PICK g : \A d \in top - n .. top : g[d] = Level(p, d, g[d + 1])
    BY <1>0
  <2>2. PICK m : m = top - (n + 1)
    OBVIOUS
  <2>3. n \in Nat /\ top \in Nat /\ m \in Nat /\ m + 1 = top - n
    BY <1>0, <2>2
  <2>4. PICK h : h = [d \in m .. top + 1 |-> IF d = m THEN Level(p, m, g[m + 1]) ELSE g[d]]
    OBVIOUS
  <2> HIDE DEF T, top
  <2>5. \A d \in m .. top + 1 : h[d] = IF d = m THEN Level(p, m, g[m + 1]) ELSE g[d]
    BY <2>4
  <2>6. ASSUME NEW d \in m .. top PROVE h[d] = Level(p, d, h[d + 1])
    <3>1. d \in m .. top + 1 /\ d + 1 \in m .. top + 1 /\ d + 1 # m
      BY <2>3
    <3>2. h[d + 1] = g[d + 1]
      BY <2>5, <3>1
    <3>3. d # m => d \in top - n .. top
      BY <2>3
    <3> QED  BY <2>1, <2>5, <3>1, <3>2, <3>3
  <2> QED  BY <2>2, <2>6
<1>3. MaxDepth \in T
  <2> HIDE DEF T
  <2>1. T \in SUBSET Nat
    BY DEF T
  <2> QED  BY <1>0, <1>1, <1>2, <2>1, ByCounting
<1>4. PICK g : \A d \in 1 .. top : g[d] = Level(p, d, g[d + 1])
  BY <1>0, <1>3
<1>5. PICK h : h = [d \in 1 .. top |-> g[d]]
  OBVIOUS
<1>6. \A d \in 1 .. top : h[d] = Level(p, d, h[d + 1])
  <2> TAKE d \in 1 .. top
  <2>1. h[d] = g[d]
    BY <1>5
  <2>2. CASE d = top
    <3>1. DepthExceeded(d)
      BY <1>0, <2>2 DEF DepthExceeded
    <3>2. \A a, b : Level(p, d, a) = Level(p, d, b)
      BY <3>1 DEF Level
    <3> QED  BY <1>4, <2>1, <3>2
  <2>3. CASE d # top
    <3>1. d + 1 \in 1 .. top
      BY <1>0, <2>3
    <3>2. h[d + 1] = g[d + 1]
      BY <1>5, <3>1
    <3> QED  BY <1>4, <2>1, <3>2
  <2> QED  BY <2>2, <2>3
<1> QED  BY <1>5, <1>6 DEF Levels

LEMMA LevelIs ==
    ASSUME NEW p, NEW at, Levels(p, at), NEW d \in 1 .. MaxDepth + 1,
           NEW t \in Texts, NEW v \in Seq(Cleaned)
    PROVE  /\ d = MaxDepth + 1 => at[d][t][v] = <<Bad>>
           /\ d # MaxDepth + 1 => at[d][t][v] = Over(Outs(p, at[d + 1]), Placed(t, v))
<1>1. MaxDepth \in Nat \ {0} /\ v \in Stored
  BY IniBounds DEF Stored
<1>2. at[d] = Level(p, d, at[d + 1])
  BY DEF Levels
<1>3. at[d][t][v] = IF DepthExceeded(d) THEN <<Bad>> ELSE Substitute(p, t, v, at[d + 1])
  BY <1>1, <1>2 DEF Level
<1>4. DepthExceeded(d) <=> d = MaxDepth + 1
  BY <1>1 DEF DepthExceeded
<1>5. PICK deeper : deeper = at[d + 1]
  OBVIOUS
<1>6. Substitute(p, t, v, deeper) = Over(Outs(p, deeper), Placed(t, v))
  BY SubstituteIs
<1> QED  BY <1>3, <1>4, <1>5, <1>6

LEMMA LevelsExpand ==
    ASSUME NEW p, Sound(p), NEW at, Levels(p, at)
    PROVE  \A d \in 1 .. MaxDepth + 1 : Expands(at[d])
<1> DEFINE T == {n \in Nat : n <= MaxDepth => Expands(at[MaxDepth + 1 - n])}
<1>0. MaxDepth \in Nat \ {0}
  BY IniBounds
<1>1. 0 \in T
  <2>1. ASSUME NEW t \in Texts, NEW v \in Seq(Cleaned) PROVE at[MaxDepth + 1][t][v] \in Seq(Cleaned)
    <3>0. PICK d \in 1 .. MaxDepth + 1 : d = MaxDepth + 1
      BY <1>0
    <3>1. at[d][t][v] = <<Bad>>
      BY <3>0, LevelIs
    <3> QED  BY <3>0, <3>1, BadPiece
  <2>2. MaxDepth + 1 - 0 = MaxDepth + 1
    BY <1>0
  <2>3. Expands(at[MaxDepth + 1 - 0])
    BY <2>1, <2>2 DEF Expands
  <2> QED  BY <2>3
<1>2. ASSUME NEW n \in T PROVE n + 1 \in T
  <2> SUFFICES ASSUME n + 1 <= MaxDepth PROVE Expands(at[MaxDepth + 1 - (n + 1)])
    OBVIOUS
  <2>1. PICK d : d = MaxDepth + 1 - (n + 1)
    OBVIOUS
  <2>2. d \in 1 .. MaxDepth + 1 /\ d # MaxDepth + 1 /\ d + 1 = MaxDepth + 1 - n
    BY <1>0, <2>1
  <2>3. Expands(at[d + 1])
    BY <1>0, <2>2
  <2> HIDE DEF T
  <2>4. ASSUME NEW t \in Texts, NEW v \in Seq(Cleaned) PROVE at[d][t][v] \in Seq(Cleaned)
    <3>1. at[d][t][v] = Over(Outs(p, at[d + 1]), Placed(t, v))
      BY <2>2, LevelIs
    <3>2. PICK x \in Seq(Pieced) : x = Placed(t, v)
      BY PlacedTyped
    <3>3. PICK h \in Maps(Pieced, Cleaned) : h = Outs(p, at[d + 1])
      BY <2>3, OutsTyped
    <3>4. Over(h, x) \in Seq(Cleaned)
      BY OverMap
    <3> QED  BY <3>1, <3>2, <3>3, <3>4
  <2> QED  BY <2>1, <2>4 DEF Expands
<1>3. ASSUME NEW d \in 1 .. MaxDepth + 1 PROVE Expands(at[d])
  <2>1. T \in SUBSET Nat
    OBVIOUS
  <2>2. PICK n \in Nat : n = MaxDepth + 1 - d
    BY <1>0
  <2>3. n <= MaxDepth /\ MaxDepth + 1 - n = d
    BY <1>0, <2>2
  <2>4. n \in T
    <3> HIDE DEF T
    <3> QED  BY <1>1, <1>2, <2>1, ByCounting
  <2> QED  BY <2>3, <2>4
<1> QED  BY <1>3

(* One level less is one rewriting more.                                   *)
LEMMA OneLevel ==
    ASSUME NEW p, Sound(p), NEW at, Levels(p, at), NEW d \in 1 .. MaxDepth, NEW x \in Seq(Pieced)
    PROVE  Over(Outs(p, at[d]), x) = Over(Outs(p, at[d + 1]), Over(Rewrites(p), x))
<1>0. MaxDepth \in Nat \ {0} /\ d \in 1 .. MaxDepth + 1 /\ d + 1 \in 1 .. MaxDepth + 1 /\ d # MaxDepth + 1
  BY IniBounds
<1>1. PICK h \in Maps(Pieced, Cleaned) : h = Outs(p, at[d + 1])
  BY <1>0, LevelsExpand, OutsTyped
<1>2. PICK g \in Maps(Pieced, Pieced) : g = Rewrites(p)
  BY RewritesTyped
<1>3. ASSUME NEW e \in Pieced PROVE Out(p, at[d], e) = Over(h, Rewrite(p, e))
  <2>1. PICK c : c = e.piece
    OBVIOUS
  <2>2. c \in Cleaned /\ e.sec \in Texts
    BY <2>1 DEF Pieced
  <2>3. CASE ~IsReference(c)
    <3>1. Rewrite(p, e) = <<e>> /\ Out(p, at[d], e) = <<c>>
      BY <2>1, <2>3 DEF Rewrite, Out
    <3>2. h[e] = <<c>>
      BY <1>1, <2>1, <2>3 DEF Outs, Out
    <3> QED  BY <3>1, <3>2, OverOne
  <2>4. CASE IsReference(c) /\ FoundBy(p, e) = {}
    <3>1. PICK b \in Pieced : b = [sec |-> e.sec, piece |-> Bad]
      BY <2>2, BadPiece DEF Pieced
    <3>2. Placed(e.sec, <<Bad>>) = <<b>>
      BY <3>1 DEF Placed
    <3>3. Rewrite(p, e) = <<b>> /\ Out(p, at[d], e) = <<Bad>>
      BY <2>1, <2>4, <3>2 DEF Rewrite, Out
    <3>4. h[b] = <<Bad>>
      BY <1>1, <3>1, BadPiece DEF Outs, Out
    <3> QED  BY <3>3, <3>4, OverOne
  <2>5. CASE IsReference(c) /\ FoundBy(p, e) # {}
    <3>1. PICK w : w = CHOOSE y \in FoundBy(p, e) : TRUE
      OBVIOUS
    <3>2. PICK s \in Texts : s = TargetSection(e.sec, e.piece)
      BY <2>1, <2>5, FoundTyped
    <3>3. w \in Stored
      BY <2>1, <2>5, <3>1, FoundTyped
    <3>4. /\ Rewrite(p, e) = IF w = NoValue THEN <<>> ELSE Placed(s, w)
          /\ Out(p, at[d], e) = IF w = NoValue THEN <<>> ELSE at[d][s][w]
      BY <2>1, <2>5, <3>1, <3>2 DEF Rewrite, Out
    <3>5. CASE w = NoValue
      BY <3>4, <3>5, OverNone
    <3>6. CASE w # NoValue
      <4>1. w \in Seq(Cleaned)
        BY <3>3, <3>6 DEF Stored
      <4>2. at[d][s][w] = Over(h, Placed(s, w))
        BY <1>0, <1>1, <4>1, LevelIs
      <4> QED  BY <3>4, <3>6, <4>2
    <3> QED  BY <3>5, <3>6
  <2> QED  BY <2>1, <2>3, <2>4, <2>5
<1>4. [e \in Pieced |-> Over(h, g[e])] = Outs(p, at[d])
  <2>1. \A e \in Pieced : g[e] = Rewrite(p, e)
    BY <1>2 DEF Rewrites
  <2> QED  BY <1>3, <2>1 DEF Outs
<1>5. Over(h, Over(g, x)) = Over([e \in Pieced |-> Over(h, g[e])], x)
  BY OverOver
<1> QED  BY <1>1, <1>2, <1>4, <1>5
LEMMA StripsTyped == Strips \in Maps(Pieced, Cleaned)
  BY DEF Strips, Maps, Pieced

LEMMA StripIs ==
    ASSUME NEW x \in Seq(Pieced)
    PROVE  Over(Strips, x) = [i \in DOMAIN x |-> x[i].piece]
<1> DEFINE G == {y \in Seq(Pieced) : Over(Strips, y) = [i \in DOMAIN y |-> y[i].piece]}
<1>0. Strips \in Maps(Pieced, Cleaned)
  BY StripsTyped
<1>1. <<>> \in G
  <2>1. [i \in DOMAIN <<>> |-> <<>>[i].piece] = <<>> /\ <<>> \in Seq(Pieced)
    OBVIOUS
  <2>2. Over(Strips, <<>>) = <<>>
    BY OverNone
  <2> QED  BY <2>1, <2>2
<1>2. ASSUME NEW y \in G, NEW e \in Pieced PROVE Append(y, e) \in G
  <2>1. y \in Seq(Pieced) /\ Over(Strips, y) = [i \in DOMAIN y |-> y[i].piece]
    OBVIOUS
  <2> HIDE DEF G
  <2>2. PICK z \in Seq(Pieced) : z = Append(y, e)
    BY <2>1, AppendProperties
  <2>3. /\ DOMAIN y = 1 .. Len(y) /\ Len(y) \in Nat /\ DOMAIN z = 1 .. Len(y) + 1
        /\ z[Len(y) + 1] = e /\ \A i \in 1 .. Len(y) : z[i] = y[i]
    BY <2>1, <2>2, AppendProperties, LenProperties
  <2>4. PICK c \in Cleaned : c = e.piece
    BY DEF Pieced
  <2>5. Strips[e] = <<c>>
    BY <2>4 DEF Strips
  <2>6. PICK a \in Seq(Cleaned) : a = Over(Strips, y)
    BY <1>0, <2>1, OverMap
  <2>7. Over(Strips, z) = a \o <<c>>
    <3>1. PICK h \in Maps(Pieced, Cleaned) : h = Strips
      BY <1>0
    <3>2. PICK w \in Seq(Pieced) : w = y
      BY <2>1
    <3>3. Over(h, Append(w, e)) = Over(h, w) \o h[e]
      BY OverAppend
    <3> QED  BY <2>2, <2>5, <2>6, <3>1, <3>2, <3>3
  <2>8. Len(a) = Len(y) /\ \A i \in 1 .. Len(y) : a[i] = y[i].piece
    BY <2>1, <2>3, <2>6, LenProperties
  <2>9. PICK b : b = [i \in DOMAIN z |-> z[i].piece]
    OBVIOUS
  <2>10. b \in [1 .. Len(y) + 1 -> Cleaned]
    <3>1. \A i \in DOMAIN z : z[i] \in Pieced
      BY ElementOfSeq, LenProperties
    <3>2. \A i \in DOMAIN z : z[i].piece \in Cleaned
      BY <3>1 DEF Pieced
    <3> QED  BY <2>3, <2>9, <3>2
  <2>11. b \in Seq(Cleaned) /\ Len(b) = Len(y) + 1
    <3>1. b \in Seq(Cleaned)
      BY <2>3, <2>10, SeqDef
    <3>2. DOMAIN b = 1 .. Len(y) + 1 /\ DOMAIN b = 1 .. Len(b) /\ Len(b) \in Nat
      BY <2>10, <3>1, LenProperties
    <3> QED  BY <2>3, <3>1, <3>2
  <2>12. PICK d \in Seq(Cleaned) : d = a \o <<c>>
    <3>0. <<c>> \in Seq(Cleaned)
      OBVIOUS
    <3>1. PICK q \in Seq(Cleaned) : q = <<c>>
      BY <3>0
    <3>2. a \o q \in Seq(Cleaned)
      BY ConcatProperties
    <3> QED  BY <3>1, <3>2
  <2>13. Len(d) = Len(y) + 1 /\ \A i \in 1 .. Len(y) + 1 : d[i] = IF i <= Len(y) THEN a[i] ELSE c
    BY <2>3, <2>8, <2>12
  <2>14. \A i \in 1 .. Len(y) + 1 : b[i] = d[i]
    <3> TAKE i \in 1 .. Len(y) + 1
    <3>1. i \in 1 .. Len(y) \/ (i = Len(y) + 1 /\ ~(i <= Len(y)))
      BY <2>3
    <3>2. i \in 1 .. Len(y) => i <= Len(y)
      BY <2>3
    <3> QED  BY <2>3, <2>4, <2>8, <2>9, <2>13, <3>1, <3>2
  <2>15. b = d
    BY <2>11, <2>13, <2>14, SeqEqual
  <2> QED  BY <2>2, <2>7, <2>9, <2>12, <2>15 DEF G
<1>3. G = Seq(Pieced)
  <2> HIDE DEF G
  <2>1. G \in SUBSET Seq(Pieced)
    BY DEF G
  <2> QED  BY <1>1, <1>2, <2>1, ByAppending
<1> QED  BY <1>3

(* A recursion over numbers: from x0 on, f[i] is what step i makes of      *)
(* f[i - 1].                                                               *)
Steps(S) == [Nat -> [S -> S]]

Paths(S, n) == [0 .. n -> S]

LEMMA Iterates ==
    ASSUME NEW S, NEW step \in Steps(S), NEW x0 \in S, NEW n \in Nat
    PROVE  \E f \in Paths(S, n) : f[0] = x0 /\ \A i \in 1 .. n : f[i] = step[i][f[i - 1]]
<1> DEFINE T == {m \in Nat : \E f \in [0 .. m -> S] :
                                f[0] = x0 /\ \A i \in 1 .. m : f[i] = step[i][f[i - 1]]}
<1>1. 0 \in T
  <2>1. PICK f : f = [i \in 0 .. 0 |-> x0]
    OBVIOUS
  <2>2. f \in [0 .. 0 -> S] /\ f[0] = x0 /\ \A i \in 1 .. 0 : FALSE
    BY <2>1
  <2> QED  BY <2>2
<1>2. ASSUME NEW m \in T PROVE m + 1 \in T
  <2>1. m \in Nat
    OBVIOUS
  <2>2. PICK g \in [0 .. m -> S] : g[0] = x0 /\ \A i \in 1 .. m : g[i] = step[i][g[i - 1]]
    OBVIOUS
  <2> HIDE DEF T
  <2>3. m \in 0 .. m /\ m + 1 \in Nat
    BY <2>1
  <2>4. PICK y \in S : y = step[m + 1][g[m]]
    BY <2>2, <2>3 DEF Steps
  <2>5. PICK f : f = [i \in 0 .. m + 1 |-> IF i <= m THEN g[i] ELSE y]
    OBVIOUS
  <2>6. \A i \in 0 .. m + 1 : i <= m => i \in 0 .. m
    BY <2>1
  <2>7. f \in [0 .. m + 1 -> S]
    BY <2>2, <2>4, <2>5, <2>6
  <2>8. f[0] = x0
    BY <2>1, <2>2, <2>5
  <2>9. ASSUME NEW i \in 1 .. m + 1 PROVE f[i] = step[i][f[i - 1]]
    <3>1. i \in 0 .. m + 1 /\ i - 1 \in 0 .. m + 1 /\ i - 1 <= m
      BY <2>1
    <3>2. f[i - 1] = g[i - 1]
      BY <2>5, <3>1
    <3>3. CASE i \in 1 .. m
      <4>1. i <= m
        BY <2>1, <3>3
      <4> QED  BY <2>2, <2>5, <3>1, <3>2, <3>3, <4>1
    <3>4. CASE i \notin 1 .. m
      <4>1. i = m + 1 /\ i - 1 = m /\ ~(i <= m)
        BY <2>1, <3>4
      <4> QED  BY <2>4, <2>5, <3>1, <3>2, <4>1
    <3> QED  BY <3>3, <3>4
  <2>10. m + 1 \in T <=> \E h \in [0 .. m + 1 -> S] :
                            h[0] = x0 /\ \A i \in 1 .. m + 1 : h[i] = step[i][h[i - 1]]
    BY <2>3 DEF T
  <2> QED  BY <2>7, <2>8, <2>9, <2>10
<1>3. n \in T
  <2> HIDE DEF T
  <2>1. T \in SUBSET Nat
    BY DEF T
  <2> QED  BY <1>1, <1>2, <2>1, ByCounting
<1> QED  BY <1>3 DEF Paths

(* The rewritings of Meaning.                                              *)
Rewritten(p, f, x0) ==
    /\ f \in [0 .. MaxDepth -> Seq(Pieced)]
    /\ f[0] = x0
    /\ \A n \in 1 .. MaxDepth : f[n] = Over(Rewrites(p), f[n - 1])

LeftOver(p, e) == IsReference(e.piece) /\ FoundBy(p, e) \notin {{}, {NoValue}}

Endless(p, x) == \E i \in DOMAIN x : LeftOver(p, x[i])

LEMMA RewriteAll ==
    ASSUME NEW p, NEW x \in Seq(Pieced)
    PROVE  FlattenSeq([i \in DOMAIN x |-> Rewrite(p, x[i])]) = Over(Rewrites(p), x)
<1>1. \A i \in DOMAIN x : x[i] \in Pieced
  BY ElementOfSeq, LenProperties
<1>2. \A i \in DOMAIN x : Rewrites(p)[x[i]] = Rewrite(p, x[i])
  BY <1>1 DEF Rewrites
<1>3. [i \in DOMAIN x |-> Rewrite(p, x[i])] = [i \in DOMAIN x |-> Rewrites(p)[x[i]]]
  BY <1>2
<1> QED  BY <1>3 DEF Over

LEMMA MeaningIs ==
    ASSUME NEW p, Sound(p), NEW s \in Texts, NEW k, NEW v \in Seq(Cleaned), GetRaw(p, s, k) = {v}
    PROVE  \E f : /\ Rewritten(p, f, Placed(s, v))
                  /\ Meaning(p, s, k) = IF Endless(p, f[MaxDepth - 1]) THEN <<Bad>>
                                        ELSE Over(Strips, f[MaxDepth])
<1>0. MaxDepth \in Nat \ {0}
  BY IniBounds
<1> DEFINE S == Seq(Pieced)
           round(f) == [n \in 0 .. MaxDepth |->
                          IF n = 0 THEN Placed(s, CHOOSE w \in GetRaw(p, s, k) : TRUE)
                          ELSE FlattenSeq([i \in DOMAIN f[n - 1] |-> Rewrite(p, f[n - 1][i])])]
           after == CHOOSE f : f = round(f)
<1>1. PICK x0 \in S : x0 = Placed(s, v)
  BY PlacedTyped
<1>2. (CHOOSE w \in GetRaw(p, s, k) : TRUE) = v
  OBVIOUS
<1>3. PICK over : over = [x \in S |-> Over(Rewrites(p), x)]
  OBVIOUS
<1>4. over \in [S -> S]
  <2>1. \A x \in S : Over(Rewrites(p), x) \in S
    BY RewritesTyped, OverMap
  <2> QED  BY <1>3, <2>1
<1>5. PICK step \in Steps(S) : step = [n \in Nat |-> over]
  BY <1>4 DEF Steps
<1>6. PICK g \in [0 .. MaxDepth -> S] : g[0] = x0 /\ \A i \in 1 .. MaxDepth : g[i] = step[i][g[i - 1]]
  <2> HIDE DEF S
  <2>1. PICK m \in Nat : m = MaxDepth
    BY <1>0
  <2>2. \E g \in Paths(S, m) : g[0] = x0 /\ \A i \in 1 .. m : g[i] = step[i][g[i - 1]]
    BY Iterates
  <2> QED  BY <2>1, <2>2 DEF Paths
<1>7. ASSUME NEW n \in 1 .. MaxDepth PROVE n - 1 \in 0 .. MaxDepth /\ n \in 0 .. MaxDepth /\ n \in Nat /\ n # 0
  BY <1>0
<1>8. \A n \in 1 .. MaxDepth : g[n] = Over(Rewrites(p), g[n - 1])
  BY <1>3, <1>5, <1>6, <1>7
<1>9. g = round(g)
  <2>1. ASSUME NEW n \in 1 .. MaxDepth
        PROVE  g[n] = FlattenSeq([i \in DOMAIN g[n - 1] |-> Rewrite(p, g[n - 1][i])])
    <3>1. PICK x \in S : x = g[n - 1]
      BY <1>7
    <3> QED  BY <1>8, <3>1, RewriteAll
  <2>2. ASSUME NEW n \in 0 .. MaxDepth PROVE n = 0 \/ n \in 1 .. MaxDepth
    BY <1>0
  <2> QED  BY <1>1, <1>2, <1>6, <2>1, <2>2
<1>10. after = round(after)
  BY <1>9
<1>11. /\ after[0] = x0
       /\ \A n \in 1 .. MaxDepth :
             after[n] = FlattenSeq([i \in DOMAIN after[n - 1] |-> Rewrite(p, after[n - 1][i])])
  <2>1. 0 \in 0 .. MaxDepth
    BY <1>0
  <2> HIDE DEF after
  <2> QED  BY <1>1, <1>2, <1>7, <1>10, <2>1
<1>12. after = [n \in 0 .. MaxDepth |-> after[n]]
  <2>1. DOMAIN after = 0 .. MaxDepth
    <3> HIDE DEF after
    <3> QED  BY <1>10
  <2>2. \E F : after = [n \in 0 .. MaxDepth |-> F[n]]
    <3> HIDE DEF after
    <3> QED  BY <1>10
  <2> HIDE DEF after
  <2> QED  BY <2>1, <2>2
<1>13. Meaning(p, s, k) =
         IF \E i \in DOMAIN after[MaxDepth - 1] :
               LET e == after[MaxDepth - 1][i]
               IN  IsReference(e.piece) /\ FoundBy(p, e) \notin {{}, {NoValue}}
         THEN <<Bad>> ELSE [i \in DOMAIN after[MaxDepth] |-> after[MaxDepth][i].piece]
  BY DEF Meaning
<1> HIDE DEF after
<1>14. after = g
  <2> DEFINE T == {n \in Nat : n <= MaxDepth => after[n] = g[n]}
  <2>1. 0 \in T
    BY <1>6, <1>11
  <2>2. ASSUME NEW n \in T PROVE n + 1 \in T
    <3> SUFFICES ASSUME n + 1 <= MaxDepth PROVE after[n + 1] = g[n + 1]
      OBVIOUS
    <3>1. n + 1 \in 1 .. MaxDepth /\ (n + 1) - 1 = n /\ after[n] = g[n] /\ n \in 0 .. MaxDepth
      BY <1>0
    <3>2. PICK x \in S : x = g[n]
      BY <3>1
    <3>3. after[n + 1] = FlattenSeq([i \in DOMAIN x |-> Rewrite(p, x[i])])
      BY <1>11, <3>1, <3>2
    <3> QED  BY <1>8, <3>1, <3>2, <3>3, RewriteAll
  <2>3. \A n \in 0 .. MaxDepth : after[n] = g[n]
    <3> TAKE n \in 0 .. MaxDepth
    <3>1. T \in SUBSET Nat /\ n \in Nat /\ n <= MaxDepth
      BY <1>0
    <3>2. n \in T
      <4> HIDE DEF T
      <4> QED  BY <2>1, <2>2, <3>1, ByCounting
    <3> QED  BY <3>1, <3>2
  <2> QED  BY <1>6, <1>12, <2>3
<1>15. Rewritten(p, g, Placed(s, v))
  BY <1>1, <1>6, <1>8 DEF Rewritten
<1>16. PICK x : x = g[MaxDepth - 1]
  OBVIOUS
<1>17. PICK y \in S : y = g[MaxDepth]
  BY <1>0
<1>18. Over(Strips, y) = [i \in DOMAIN y |-> y[i].piece]
  BY StripIs
<1>19. Meaning(p, s, k) = IF Endless(p, x) THEN <<Bad>> ELSE Over(Strips, y)
  BY <1>13, <1>14, <1>16, <1>17, <1>18, Zenon DEF Endless, LeftOver
<1> QED  BY <1>15, <1>16, <1>17, <1>19
LEMMA NotStoredValue == NoValue \notin Seq(Cleaned)
<1>1. [kind |-> "none"] \notin Cleaned
  BY DEF Cleaned, Pieces, Blank, Bad
<1>2. NoValue[1] = [kind |-> "none"] /\ 1 \in DOMAIN NoValue
  BY DEF NoValue
<1> SUFFICES ASSUME NoValue \in Seq(Cleaned) PROVE FALSE
  OBVIOUS
<1>3. PICK w \in Seq(Cleaned) : w = NoValue
  OBVIOUS
<1>4. w[1] \in Cleaned
  BY <1>2, <1>3, LenProperties, ElementOfSeq
<1> QED  BY <1>1, <1>2, <1>3, <1>4

LEMMA InterpolateIs ==
    ASSUME NEW p, NEW s \in Texts, NEW k, NEW v \in Seq(Cleaned), GetRaw(p, s, k) = {v},
           opts.interpolation # "none"
    PROVE  \E at : Levels(p, at) /\ Interpolate(p, s, k) = at[1][s][v]
<1> DEFINE level(f) == [d \in 1 .. MaxDepth + 1 |->
                          [t \in STRING |-> [x \in Stored |->
                             IF DepthExceeded(d) THEN <<Bad>> ELSE Substitute(p, t, x, f[d + 1])]]]
           at == CHOOSE f : f = level(f)
<1>1. (CHOOSE w \in GetRaw(p, s, k) : TRUE) = v
  OBVIOUS
<1>2. v # NoValue
  BY NotStoredValue
<1>3. Interpolate(p, s, k) = at[1][s][v]
  BY <1>1, <1>2 DEF Interpolate
<1>4. \A f : level(f) = [d \in 1 .. MaxDepth + 1 |-> Level(p, d, f[d + 1])]
  BY Zenon DEF Level, Texts
<1>5. \E f : f = level(f)
  <2>1. PICK f : Levels(p, f)
    BY LevelsExist
  <2>2. f = [d \in 1 .. MaxDepth + 1 |-> Level(p, d, f[d + 1])]
    BY <2>1 DEF Levels
  <2> HIDE DEF level
  <2>3. f = level(f)
    BY <1>4, <2>2
  <2> QED  BY <2>3
<1>6. at = level(at)
  <2> HIDE DEF level
  <2> QED  BY <1>5
<1>7. Levels(p, at)
  <2> HIDE DEF at, level
  <2> QED  BY <1>4, <1>6 DEF Levels
<1> HIDE DEF at
<1> QED  BY <1>3, <1>7

(* What the top level makes of a value is what the last one makes of its   *)
(* rewritings.                                                             *)
LEMMA ManyLevels ==
    ASSUME NEW p, Sound(p), NEW at, Levels(p, at), NEW s \in Texts, NEW v \in Seq(Cleaned),
           NEW f, Rewritten(p, f, Placed(s, v))
    PROVE  at[1][s][v] = Over(Outs(p, at[MaxDepth + 1]), f[MaxDepth - 1])
<1>0. MaxDepth \in Nat \ {0}
  BY IniBounds
<1>1. /\ f[0] = Placed(s, v) /\ \A n \in 0 .. MaxDepth : f[n] \in Seq(Pieced)
      /\ \A n \in 1 .. MaxDepth : f[n] = Over(Rewrites(p), f[n - 1])
  BY DEF Rewritten
<1> DEFINE T == {n \in Nat : n <= MaxDepth - 1 => at[1][s][v] = Over(Outs(p, at[n + 2]), f[n])}
<1>2. 0 \in T
  <2>1. PICK d \in 1 .. MaxDepth + 1 : d = 1 /\ d # MaxDepth + 1 /\ d + 1 = 0 + 2
    BY <1>0
  <2>2. at[d][s][v] = Over(Outs(p, at[d + 1]), Placed(s, v))
    BY <2>1, LevelIs
  <2>3. at[1][s][v] = Over(Outs(p, at[0 + 2]), f[0])
    BY <1>1, <2>1, <2>2
  <2> QED  BY <2>3
<1>3. ASSUME NEW n \in T PROVE n + 1 \in T
  <2> SUFFICES ASSUME n + 1 <= MaxDepth - 1
               PROVE  at[1][s][v] = Over(Outs(p, at[(n + 1) + 2]), f[n + 1])
    OBVIOUS
  <2>1. n \in Nat /\ at[1][s][v] = Over(Outs(p, at[n + 2]), f[n])
    BY <1>0
  <2> HIDE DEF T
  <2>2. PICK d \in 1 .. MaxDepth : d = n + 2 /\ d + 1 = (n + 1) + 2
    BY <1>0, <2>1
  <2>3. n \in 0 .. MaxDepth /\ n + 1 \in 1 .. MaxDepth /\ (n + 1) - 1 = n
    BY <1>0, <2>1
  <2>4. PICK x \in Seq(Pieced) : x = f[n]
    BY <1>1, <2>3
  <2>5. Over(Outs(p, at[d]), x) = Over(Outs(p, at[d + 1]), Over(Rewrites(p), x))
    BY OneLevel
  <2>6. f[n + 1] = Over(Rewrites(p), x)
    BY <1>1, <2>3, <2>4
  <2> QED  BY <2>1, <2>2, <2>4, <2>5, <2>6
<1>4. MaxDepth - 1 \in T
  <2>1. T \in SUBSET Nat /\ MaxDepth - 1 \in Nat
    BY <1>0
  <2> HIDE DEF T
  <2> QED  BY <1>2, <1>3, <2>1, ByCounting
<1>5. (MaxDepth - 1) + 2 = MaxDepth + 1
  BY <1>0
<1> QED  BY <1>0, <1>4, <1>5

LEMMA OverSame ==
    ASSUME NEW h, NEW g, NEW x, \A i \in DOMAIN x : h[x[i]] = g[x[i]]
    PROVE  Over(h, x) = Over(g, x)
<1>1. [i \in DOMAIN x |-> h[x[i]]] = [i \in DOMAIN x |-> g[x[i]]]
  OBVIOUS
<1> QED  BY <1>1 DEF Over

(* The last level, which expands nothing, is the last rewriting, unless    *)
(* something is left to expand; then it is an error.                       *)
LEMMA LastLevel ==
    ASSUME NEW p, Sound(p), NEW at, Levels(p, at), NEW x \in Seq(Pieced)
    PROVE  LET got == Over(Outs(p, at[MaxDepth + 1]), x)
           IN  /\ got \in Seq(Cleaned)
               /\ IF Endless(p, x) THEN Bad \in ToSet(got) ELSE got = Over(Strips, Over(Rewrites(p), x))
<1>0. MaxDepth \in Nat \ {0}
  BY IniBounds
<1>1. PICK d \in 1 .. MaxDepth + 1 : d = MaxDepth + 1
  BY <1>0
<1>2. PICK deeper : deeper = at[MaxDepth + 1]
  OBVIOUS
<1>3. Expands(deeper) /\ \A t \in Texts : \A w \in Seq(Cleaned) : deeper[t][w] = <<Bad>>
  <2>1. Expands(at[d])
    BY LevelsExpand
  <2>2. ASSUME NEW t \in Texts, NEW w \in Seq(Cleaned) PROVE at[d][t][w] = <<Bad>>
    BY <1>1, LevelIs
  <2> QED  BY <1>1, <1>2, <2>1, <2>2
<1>4. PICK h \in Maps(Pieced, Cleaned) : h = Outs(p, deeper)
  BY <1>3, OutsTyped
<1>5. PICK got \in Seq(Cleaned) : got = Over(h, x)
  BY OverMap
<1>6. ASSUME NEW e \in Pieced, LeftOver(p, e) PROVE h[e] = <<Bad>>
  <2>1. IsReference(e.piece) /\ FoundBy(p, e) # {} /\ FoundBy(p, e) # {NoValue}
    BY <1>6 DEF LeftOver
  <2>2. PICK w \in Stored : FoundBy(p, e) = {w}
    BY <2>1, FoundTyped
  <2>3. w # NoValue /\ w \in Seq(Cleaned)
    BY <2>1, <2>2 DEF Stored
  <2>4. (CHOOSE y \in FoundBy(p, e) : TRUE) = w
    BY <2>2
  <2>5. deeper[TargetSection(e.sec, e.piece)][w] = <<Bad>>
    BY <1>3, <2>1, <2>3, FoundTyped
  <2>6. Out(p, deeper, e) = <<Bad>>
    BY <2>1, <2>3, <2>4, <2>5 DEF Out
  <2> QED  BY <1>4, <2>6 DEF Outs
<1>7. ASSUME NEW e \in Pieced, ~LeftOver(p, e) PROVE h[e] = Over(Strips, Rewrite(p, e))
  <2>0. PICK c : c = e.piece
    OBVIOUS
  <2>00. c \in Cleaned /\ e.sec \in Texts
    BY <2>0 DEF Pieced
  <2>01. PICK strips \in Maps(Pieced, Cleaned) : strips = Strips
    BY StripsTyped
  <2>02. h[e] = Out(p, deeper, e)
    BY <1>4 DEF Outs
  <2>1. CASE ~IsReference(c)
    <3>1. Rewrite(p, e) = <<e>> /\ Out(p, deeper, e) = <<c>>
      BY <2>0, <2>1 DEF Rewrite, Out
    <3>2. strips[e] = <<c>>
      BY <2>0, <2>01 DEF Strips
    <3> QED  BY <2>01, <2>02, <3>1, <3>2, OverOne
  <2>2. CASE IsReference(c) /\ FoundBy(p, e) = {}
    <3>1. PICK b \in Pieced : b = [sec |-> e.sec, piece |-> Bad]
      BY <2>00, BadPiece DEF Pieced
    <3>2. Placed(e.sec, <<Bad>>) = <<b>>
      BY <3>1 DEF Placed
    <3>3. Rewrite(p, e) = <<b>> /\ Out(p, deeper, e) = <<Bad>>
      BY <2>0, <2>2, <3>2 DEF Rewrite, Out
    <3>4. strips[b] = <<Bad>>
      BY <2>01, <3>1 DEF Strips
    <3> QED  BY <2>01, <2>02, <3>3, <3>4, OverOne
  <2>3. CASE IsReference(c) /\ FoundBy(p, e) = {NoValue}
    <3>1. (CHOOSE y \in FoundBy(p, e) : TRUE) = NoValue
      BY <2>3
    <3>2. Rewrite(p, e) = <<>> /\ Out(p, deeper, e) = <<>>
      BY <2>0, <2>3, <3>1 DEF Rewrite, Out
    <3> QED  BY <2>02, <3>2, OverNone
  <2> QED  BY <1>7, <2>0, <2>1, <2>2, <2>3 DEF LeftOver
<1>8. \A i \in DOMAIN x : x[i] \in Pieced
  BY ElementOfSeq, LenProperties
<1>9. CASE Endless(p, x)
  <2>1. PICK i \in DOMAIN x : LeftOver(p, x[i])
    BY <1>9 DEF Endless
  <2>2. h[x[i]] = <<Bad>>
    BY <1>6, <1>8, <2>1
  <2>3. PICK ss \in Seq(Seq(Cleaned)) : ss = [j \in DOMAIN x |-> h[x[j]]]
    BY OverMap
  <2>4. i \in DOMAIN ss /\ ss[i] = <<Bad>>
    BY <2>2, <2>3
  <2>5. ToSet(ss[i]) \subseteq ToSet(FlattenSeq(ss))
    BY <2>4, FlattenHas
  <2>6. Bad \in ToSet(<<Bad>>)
    BY DEF ToSet
  <2>7. FlattenSeq(ss) = got
    BY <1>5, <2>3 DEF Over
  <2> QED  BY <1>2, <1>4, <1>5, <1>9, <2>4, <2>5, <2>6, <2>7
<1>10. CASE ~Endless(p, x)
  <2>1. PICK strips \in Maps(Pieced, Cleaned) : strips = Strips
    BY StripsTyped
  <2>2. PICK g \in Maps(Pieced, Pieced) : g = Rewrites(p)
    BY RewritesTyped
  <2>3. PICK both : both = [e \in Pieced |-> Over(strips, g[e])]
    OBVIOUS
  <2>4. Over(strips, Over(g, x)) = Over(both, x)
    BY <2>3, OverOver
  <2>5. ASSUME NEW i \in DOMAIN x PROVE h[x[i]] = both[x[i]]
    <3>1. PICK e \in Pieced : e = x[i] /\ ~LeftOver(p, e)
      BY <1>8, <1>10 DEF Endless
    <3>2. g[e] = Rewrite(p, e)
      BY <2>2 DEF Rewrites
    <3>3. both[e] = Over(Strips, Rewrite(p, e))
      BY <2>1, <2>3, <3>2
    <3> QED  BY <1>7, <3>1, <3>3
  <2>6. Over(h, x) = Over(both, x)
    BY <2>5, OverSame
  <2> QED  BY <1>2, <1>4, <1>5, <1>10, <2>1, <2>2, <2>4, <2>6
<1> QED  BY <1>9, <1>10

(* A lookup gives what its references stand for.                           *)
LEMMA GetsMeaning ==
    ASSUME NEW p, Sound(p), NEW s \in Texts, NEW k, NEW v \in Stored, v # NoValue,
           GetRaw(p, s, k) = {v}, opts.interpolation # "none"
    PROVE  Same(Get(p, s, k), Meaning(p, s, k))
<1>0. v \in Seq(Cleaned) /\ MaxDepth \in Nat \ {0}
  BY IniBounds DEF Stored
<1>1. PICK at : Levels(p, at) /\ Interpolate(p, s, k) = at[1][s][v]
  BY <1>0, InterpolateIs
<1>2. PICK f : /\ Rewritten(p, f, Placed(s, v))
               /\ Meaning(p, s, k) = IF Endless(p, f[MaxDepth - 1]) THEN <<Bad>>
                                     ELSE Over(Strips, f[MaxDepth])
  BY <1>0, MeaningIs
<1>3. MaxDepth - 1 \in 0 .. MaxDepth /\ MaxDepth \in 1 .. MaxDepth
  BY <1>0
<1>4. PICK x \in Seq(Pieced) : x = f[MaxDepth - 1]
  BY <1>2, <1>3 DEF Rewritten
<1>5. f[MaxDepth] = Over(Rewrites(p), x)
  BY <1>2, <1>3, <1>4 DEF Rewritten
<1>6. PICK got : got = Over(Outs(p, at[MaxDepth + 1]), x)
  OBVIOUS
<1>7. got \in Seq(Cleaned) /\ IF Endless(p, x) THEN Bad \in ToSet(got) ELSE got = Over(Strips, f[MaxDepth])
  BY <1>1, <1>5, <1>6, LastLevel
<1>8. at[1][s][v] = got
  BY <1>0, <1>1, <1>2, <1>4, <1>6, ManyLevels
<1>9. Get(p, s, k) = got
  BY <1>1, <1>7, <1>8, NotStoredValue DEF Get
<1>10. Bad \in ToSet(<<Bad>>)
  BY DEF ToSet
<1>11. CASE Endless(p, x)
  BY <1>2, <1>4, <1>7, <1>9, <1>10, <1>11 DEF Same
<1>12. CASE ~Endless(p, x)
  BY <1>2, <1>4, <1>7, <1>9, <1>12 DEF Same
<1> QED  BY <1>11, <1>12
-----------------------------------------------------------------------------
(* items(): x, what is out after the first n defaults, holds the section's *)
(* own options and the defaults among those n that it lacks.               *)
OwnOrDefault(p, s, e) ==
    \/ \E m \in DOMAIN Items(p, s) : e = Items(p, s)[m]
    \/ e.key \notin Listed(Items(p, s)) /\ \E m \in DOMAIN p.defaults : e = p.defaults[m]

Lists(p, s, n, x) ==
    /\ x \in Seq(Entries)
    /\ \A j \in DOMAIN x : OwnOrDefault(p, s, x[j])
    /\ Listed(Items(p, s)) \subseteq Listed(x)
    /\ \A m \in 1 .. n : p.defaults[m].key \in Listed(x)

WithDefault(p, x, n) ==
    IF p.defaults[n].key \in Listed(x) THEN x ELSE Append(x, p.defaults[n])

LEMMA ListsNext ==
    ASSUME NEW p, Sound(p), NEW s \in Homes(p), NEW n \in Nat, n + 1 \in DOMAIN p.defaults,
           NEW x, Lists(p, s, n, x)
    PROVE  Lists(p, s, n + 1, WithDefault(p, x, n + 1))
<1>1. Default \in Homes(p) /\ Items(p, Default) = p.defaults
  BY DEF Homes, Items
<1>2. p.defaults \in Seq(Entries)
  BY <1>1, HomeItems
<1>3. PICK e \in Entries : e = p.defaults[n + 1]
  BY <1>2, ElementOfSeq, LenProperties
<1>4. x \in Seq(Entries)
  BY DEF Lists
<1>5. \A m \in 1 .. n + 1 : m \in 1 .. n \/ m = n + 1
  OBVIOUS
<1>6. CASE e.key \in Listed(x)
  <2>1. WithDefault(p, x, n + 1) = x
    BY <1>3, <1>6 DEF WithDefault
  <2> QED  BY <1>3, <1>5, <1>6, <2>1 DEF Lists
<1>7. CASE e.key \notin Listed(x)
  <2>1. PICK z : z = Append(x, e)
    OBVIOUS
  <2>2. WithDefault(p, x, n + 1) = z
    BY <1>3, <1>7, <2>1 DEF WithDefault
  <2>3. /\ z \in Seq(Entries) /\ DOMAIN z = 1 .. Len(x) + 1 /\ DOMAIN x = 1 .. Len(x) /\ Len(x) \in Nat
        /\ z[Len(x) + 1] = e /\ \A j \in 1 .. Len(x) : z[j] = x[j]
    BY <1>4, <2>1, AppendProperties, LenProperties
  <2>4. OwnOrDefault(p, s, e)
    BY <1>3, <1>7 DEF OwnOrDefault, Lists
  <2>5. ASSUME NEW j \in DOMAIN z PROVE OwnOrDefault(p, s, z[j])
    <3>1. j = Len(x) + 1 \/ j \in DOMAIN x
      BY <2>3
    <3> QED  BY <2>3, <2>4, <3>1 DEF Lists
  <2>6. Listed(z) = Listed(x) \cup {e.key}
    <3>1. \A j \in DOMAIN z : j = Len(x) + 1 \/ j \in DOMAIN x
      BY <2>3
    <3>2. Len(x) + 1 \in DOMAIN z /\ DOMAIN x \subseteq DOMAIN z
      BY <2>3
    <3> QED  BY <2>3, <3>1, <3>2 DEF Listed
  <2> QED  BY <1>3, <1>5, <2>2, <2>3, <2>5, <2>6 DEF Lists
<1> QED  BY <1>6, <1>7

LEMMA ListsAll ==
    ASSUME NEW p, Sound(p), NEW s \in Homes(p)
    PROVE  Lists(p, s, Len(p.defaults), AllItems(p, s))
<1>1. Default \in Homes(p) /\ Items(p, Default) = p.defaults
  BY DEF Homes, Items
<1>2. p.defaults \in Seq(Entries) /\ Items(p, s) \in Seq(Entries)
  BY <1>1, HomeItems
<1>3. DOMAIN p.defaults = 1 .. Len(p.defaults) /\ Len(p.defaults) \in Nat
  BY <1>2, LenProperties
<1>4. CASE s = Default
  <2>1. AllItems(p, s) = p.defaults /\ Items(p, s) = p.defaults
    BY <1>1, <1>4 DEF AllItems
  <2>2. \A j \in DOMAIN p.defaults : OwnOrDefault(p, s, p.defaults[j])
    BY <2>1 DEF OwnOrDefault
  <2>3. \A m \in DOMAIN p.defaults : p.defaults[m].key \in Listed(p.defaults)
    BY DEF Listed
  <2> QED  BY <1>2, <1>3, <2>1, <2>2, <2>3 DEF Lists
<1>5. CASE s # Default
  <2> DEFINE n == Len(p.defaults)
             loop(f) == [i \in 0 .. n |->
                           IF i = 0 THEN Items(p, s)
                           ELSE IF p.defaults[i].key \in Listed(f[i - 1]) THEN f[i - 1]
                                ELSE Append(f[i - 1], p.defaults[i])]
             out == CHOOSE f : f = loop(f)
  <2>1. AllItems(p, s) = out[n]
    BY <1>5 DEF AllItems
  <2>2. \E f : f = loop(f)
    <3>1. PICK S : S = Seq(Entries)
      OBVIOUS
    <3>2. PICK step : step = [i \in Nat |-> [x \in S |-> IF i \in DOMAIN p.defaults THEN WithDefault(p, x, i) ELSE x]]
      OBVIOUS
    <3>3. step \in Steps(S)
      <4>1. ASSUME NEW i \in DOMAIN p.defaults, NEW x \in S PROVE WithDefault(p, x, i) \in S
        <5>1. p.defaults[i] \in Entries
          BY <1>2, <1>3, ElementOfSeq
        <5> QED  BY <3>1, <5>1, AppendProperties DEF WithDefault
      <4> QED  BY <3>2, <4>1 DEF Steps
    <3>4. PICK x0 \in S : x0 = Items(p, s)
      BY <1>2, <3>1
    <3>5. PICK m \in Nat : m = n
      BY <1>3
    <3>6. PICK f \in Paths(S, m) : f[0] = x0 /\ \A i \in 1 .. m : f[i] = step[i][f[i - 1]]
      BY <3>3, Iterates
    <3>7. f \in [0 .. m -> S]
      BY <3>6 DEF Paths
    <3>8. ASSUME NEW i \in 1 .. m PROVE f[i] = WithDefault(p, f[i - 1], i)
      <4>1. i \in Nat /\ i \in DOMAIN p.defaults /\ i - 1 \in 0 .. m
        BY <1>3, <3>5
      <4> QED  BY <3>2, <3>6, <3>7, <4>1
    <3>9. \A i \in 0 .. m : i = 0 \/ i \in 1 .. m
      OBVIOUS
    <3>10. f = [i \in 0 .. m |-> IF i = 0 THEN Items(p, s) ELSE WithDefault(p, f[i - 1], i)]
      BY <3>4, <3>6, <3>7, <3>8, <3>9
    <3>11. f = loop(f)
      BY <3>5, <3>10, Zenon DEF WithDefault
    <3> HIDE DEF loop
    <3> QED  BY <3>11
  <2>3. out = loop(out)
    <3> HIDE DEF loop
    <3> QED  BY <2>2
  <2>4. /\ out[0] = Items(p, s)
        /\ \A i \in 1 .. n : out[i] = WithDefault(p, out[i - 1], i)
    <3>1. 0 \in 0 .. n /\ \A i \in 1 .. n : i \in 0 .. n /\ i # 0
      BY <1>3
    <3> HIDE DEF out
    <3> QED  BY <2>3, <3>1 DEF WithDefault
  <2> HIDE DEF out
  <2> DEFINE T == {i \in Nat : i <= n => Lists(p, s, i, out[i])}
  <2>5. 0 \in T
    <3>1. \A j \in DOMAIN Items(p, s) : OwnOrDefault(p, s, Items(p, s)[j])
      BY DEF OwnOrDefault
    <3>2. \A m \in 1 .. 0 : FALSE
      OBVIOUS
    <3>3. Lists(p, s, 0, out[0])
      BY <1>2, <2>4, <3>1, <3>2 DEF Lists
    <3> QED  BY <3>3
  <2>6. ASSUME NEW i \in T PROVE i + 1 \in T
    <3> SUFFICES ASSUME i + 1 <= n PROVE Lists(p, s, i + 1, out[i + 1])
      OBVIOUS
    <3>1. i \in Nat /\ i + 1 \in 1 .. n /\ (i + 1) - 1 = i /\ Lists(p, s, i, out[i])
      BY <1>3
    <3>2. i + 1 \in DOMAIN p.defaults
      BY <1>3, <3>1
    <3>3. out[i + 1] = WithDefault(p, out[i], i + 1)
      BY <2>4, <3>1
    <3> HIDE DEF T
    <3> QED  BY <3>1, <3>2, <3>3, ListsNext
  <2>7. n \in T
    <3>1. T \in SUBSET Nat /\ n \in Nat
      BY <1>3
    <3> HIDE DEF T
    <3> QED  BY <2>5, <2>6, <3>1, ByCounting
  <2> QED  BY <1>3, <2>1, <2>7
<1> QED  BY <1>4, <1>5

(* What items() lists is what has_option() and get() find.                 *)
LEMMA ItemsAgree ==
    ASSUME NEW p, Sound(p), NEW s \in Homes(p)
    PROVE  /\ Listed(AllItems(p, s)) = Listed(Items(p, s)) \cup Listed(p.defaults)
           /\ \A i \in DOMAIN AllItems(p, s) :
                LET e == AllItems(p, s)[i]
                IN  e.value \in Stored /\ GetRaw(p, s, e.key) = {e.value}
<1>1. Default \in Homes(p) /\ Items(p, Default) = p.defaults
  BY DEF Homes, Items
<1>2. /\ p.defaults \in Seq(Entries) /\ Unique(p.defaults)
      /\ Items(p, s) \in Seq(Entries) /\ Unique(Items(p, s))
  BY <1>1, HomeItems
<1>3. DOMAIN p.defaults = 1 .. Len(p.defaults)
  BY <1>2, LenProperties
<1>4. PICK x : x = AllItems(p, s)
  OBVIOUS
<1>5. Lists(p, s, Len(p.defaults), x)
  BY <1>4, ListsAll
<1>6. Listed(x) = Listed(Items(p, s)) \cup Listed(p.defaults)
  <2>1. Listed(Items(p, s)) \cup Listed(p.defaults) \subseteq Listed(x)
    BY <1>3, <1>5 DEF Lists, Listed
  <2>2. ASSUME NEW j \in DOMAIN x PROVE x[j].key \in Listed(Items(p, s)) \cup Listed(p.defaults)
    <3>1. OwnOrDefault(p, s, x[j])
      BY <1>5 DEF Lists
    <3> QED  BY <3>1 DEF OwnOrDefault, Listed
  <2> QED  BY <2>1, <2>2 DEF Listed
<1>7. ASSUME NEW i \in DOMAIN x PROVE x[i].value \in Stored /\ GetRaw(p, s, x[i].key) = {x[i].value}
  <2>1. PICK e : e = x[i]
    OBVIOUS
  <2>2. e \in Entries /\ OwnOrDefault(p, s, e)
    BY <1>5, <2>1, LenProperties, ElementOfSeq DEF Lists
  <2>3. e.value \in Stored
    BY <2>2 DEF Entries
  <2>4. CASE \E m \in DOMAIN Items(p, s) : e = Items(p, s)[m]
    <3>1. e.key \in Listed(Items(p, s)) /\ ValueIn(Items(p, s), e.key) = e.value
      BY <1>2, <2>4, ValueAtPlace DEF Listed
    <3>2. HasSection(p, s)
      BY HomeIs
    <3> QED  BY <2>1, <2>3, <3>1, <3>2 DEF GetRaw
  <2>5. CASE e.key \notin Listed(Items(p, s)) /\ \E m \in DOMAIN p.defaults : e = p.defaults[m]
    <3>1. e.key \in Listed(p.defaults) /\ ValueIn(p.defaults, e.key) = e.value
      BY <1>2, <2>5, ValueAtPlace DEF Listed
    <3>2. GetRaw(p, s, e.key) = {ValueIn(p.defaults, y) : y \in Listed(p.defaults) \cap {e.key}}
      BY <2>5 DEF GetRaw
    <3>3. Listed(p.defaults) \cap {e.key} = {e.key}
      BY <3>1
    <3>4. GetRaw(p, s, e.key) = {ValueIn(p.defaults, e.key)}
      BY <3>2, <3>3
    <3> QED  BY <2>1, <2>3, <3>1, <3>4
  <2> QED  BY <2>2, <2>4, <2>5 DEF OwnOrDefault
<1> QED  BY <1>4, <1>6, <1>7

LEMMA ExpandsInvariant ==
    ASSUME Typed
    PROVE  ExpandsExactly
<1>1. Sound(ini)
  BY DEF Typed
<1> SUFFICES ASSUME NEW s \in Names, HasSection(ini, s)
             PROVE  /\ Listed(AllItems(ini, s)) =
                         {k \in Keys \cup Listed(AllItems(ini, s)) : HasOption(ini, s, k)}
                    /\ \A i \in DOMAIN AllItems(ini, s) :
                         LET k == AllItems(ini, s)[i].key
                         IN  /\ GetRaw(ini, s, k) = {AllItems(ini, s)[i].value}
                             /\ opts.interpolation # "none" /\ AllItems(ini, s)[i].value # NoValue =>
                                  Same(Get(ini, s, k), Meaning(ini, s, k))
  BY Zenon DEF ExpandsExactly
<1>2. s \in Homes(ini)
  BY HomeIs
<1>3. s \in Texts
  BY <1>1, <1>2, HomeItems DEF Texts
<1>4. PICK x : x = AllItems(ini, s)
  OBVIOUS
<1>5. /\ Listed(x) = Listed(Items(ini, s)) \cup Listed(ini.defaults)
      /\ \A i \in DOMAIN x : x[i].value \in Stored /\ GetRaw(ini, s, x[i].key) = {x[i].value}
  BY <1>1, <1>2, <1>4, ItemsAgree
<1>6. Listed(x) = {k \in Keys \cup Listed(x) : HasOption(ini, s, k)}
  BY <1>5 DEF HasOption
<1>7. ASSUME NEW i \in DOMAIN x, opts.interpolation # "none", x[i].value # NoValue
      PROVE  Same(Get(ini, s, x[i].key), Meaning(ini, s, x[i].key))
  <2>1. PICK v \in Stored : v = x[i].value /\ GetRaw(ini, s, x[i].key) = {v}
    BY <1>5
  <2> QED  BY <1>1, <1>3, <1>7, <2>1, GetsMeaning
<1> QED  BY <1>4, <1>5, <1>6, <1>7

(* A lookup ends, in the value all its references stand for or in an       *)
(* error, exactly as Meaning says, and items() lists what has_option() and *)
(* get() find (parser.cpp:430-561, 602-629), whatever the object holds.    *)
THEOREM LookupsRight == Spec => []ExpandsExactly
<1>1. Typed => ExpandsExactly
  BY ExpandsInvariant
<1> QED  BY <1>1, TypedInit, TypedNext, PTL DEF Spec

-----------------------------------------------------------------------------
(* Writing and reading again.  ReadLines goes from state to state, an      *)
(* object with the local variables of read_string, line by line.           *)
ReadOne(x, l) == IF x[2].thrown THEN x ELSE ParseLine(x[1], x[2], l)

Leads(x, ls, y) ==
    \E f : f[0] = x /\ f[Len(ls)] = y /\ \A i \in 1 .. Len(ls) : f[i] = ReadOne(f[i - 1], ls[i])

LEMMA LeadsNone == ASSUME NEW x PROVE Leads(x, <<>>, x)
<1>1. PICK f : f = [i \in {0} |-> x]
  OBVIOUS
<1>2. f[0] = x /\ Len(<<>>) = 0 /\ \A i \in 1 .. 0 : FALSE
  BY <1>1
<1> QED  BY <1>2 DEF Leads

LEMMA LeadsOn ==
    ASSUME NEW S, NEW a \in Seq(S), NEW b \in Seq(S), NEW x, NEW y, NEW z,
           Leads(x, a, y), Leads(y, b, z)
    PROVE  Leads(x, a \o b, z)
<1>1. PICK f : f[0] = x /\ f[Len(a)] = y /\ \A i \in 1 .. Len(a) : f[i] = ReadOne(f[i - 1], a[i])
  BY DEF Leads
<1>2. PICK g : g[0] = y /\ g[Len(b)] = z /\ \A i \in 1 .. Len(b) : g[i] = ReadOne(g[i - 1], b[i])
  BY DEF Leads
<1>3. PICK m \in Nat : m = Len(a)
  BY LenProperties
<1>4. PICK n \in Nat : n = Len(b)
  BY LenProperties
<1>5. PICK c : c = a \o b
  OBVIOUS
<1>6. Len(c) = m + n /\ \A i \in 1 .. m + n : c[i] = IF i <= m THEN a[i] ELSE b[i - m]
  BY <1>3, <1>4, <1>5, ConcatProperties
<1>7. PICK h : h = [i \in 0 .. m + n |-> IF i <= m THEN f[i] ELSE g[i - m]]
  OBVIOUS
<1>8. \A i \in 0 .. m + n : h[i] = IF i <= m THEN f[i] ELSE g[i - m]
  BY <1>7
<1>9. h[0] = x
  <2>1. 0 \in 0 .. m + n /\ 0 <= m
    OBVIOUS
  <2> QED  BY <1>1, <1>8, <2>1
<1>10. h[m + n] = z
  <2>1. m + n \in 0 .. m + n /\ (m + n <= m <=> n = 0) /\ (m + n) - m = n
    OBVIOUS
  <2>2. CASE n = 0
    <3>1. z = y /\ m + n = m /\ m \in 0 .. m + n
      BY <1>2, <1>4, <2>2
    <3>2. h[m] = f[m]
      BY <1>8, <3>1
    <3> QED  BY <1>1, <1>3, <3>1, <3>2
  <2>3. CASE n # 0
    BY <1>2, <1>4, <1>8, <2>1, <2>3
  <2> QED  BY <2>2, <2>3
<1>11. ASSUME NEW i \in 1 .. m + n PROVE h[i] = ReadOne(h[i - 1], c[i])
  <2>1. i \in 0 .. m + n /\ i - 1 \in 0 .. m + n
    OBVIOUS
  <2>2. CASE i <= m
    <3>1. i \in 1 .. m /\ i - 1 <= m
      BY <2>2
    <3>2. h[i] = f[i] /\ h[i - 1] = f[i - 1] /\ c[i] = a[i]
      BY <1>6, <1>8, <2>1, <2>2, <3>1
    <3> QED  BY <1>1, <1>3, <3>1, <3>2
  <2>3. CASE ~(i <= m)
    <3>1. i - m \in 1 .. n /\ (i - 1) - m = (i - m) - 1
      BY <2>3
    <3>2. h[i] = g[i - m] /\ c[i] = b[i - m]
      BY <1>6, <1>8, <2>1, <2>3
    <3>3. h[i - 1] = g[(i - m) - 1]
      <4>1. CASE i - 1 <= m
        <5>1. i - 1 = m /\ (i - m) - 1 = 0
          BY <2>3, <4>1
        <5> QED  BY <1>1, <1>2, <1>3, <1>8, <2>1, <4>1, <5>1
      <4>2. CASE ~(i - 1 <= m)
        BY <1>8, <2>1, <3>1, <4>2
      <4> QED  BY <4>1, <4>2
    <3> QED  BY <1>2, <1>4, <3>1, <3>2, <3>3
  <2> QED  BY <2>2, <2>3
<1>12. Leads(x, c, z)
  BY <1>6, <1>9, <1>10, <1>11 DEF Leads
<1> QED  BY <1>5, <1>12

LEMMA LeadsOne == ASSUME NEW x, NEW l PROVE Leads(x, <<l>>, ReadOne(x, l))
<1>1. PICK f : f = [i \in 0 .. 1 |-> IF i = 0 THEN x ELSE ReadOne(x, l)]
  OBVIOUS
<1>2. f[0] = x /\ f[1] = ReadOne(x, l)
  BY <1>1
<1>3. PICK ls : ls = <<l>>
  OBVIOUS
<1>4. Len(ls) = 1 /\ ls[1] = l
  BY <1>3
<1>5. \A i \in 1 .. 1 : i = 1 /\ i - 1 = 0
  OBVIOUS
<1>6. \A i \in 1 .. Len(ls) : f[i] = ReadOne(f[i - 1], ls[i])
  BY <1>2, <1>4, <1>5
<1>7. Leads(x, ls, ReadOne(x, l))
  BY <1>2, <1>4, <1>6 DEF Leads
<1> QED  BY <1>3, <1>7

(* A first line that does the same from another state.                     *)
LEMMA LeadsAlike ==
    ASSUME NEW x, NEW y, NEW z, NEW S, NEW ls \in Seq(S), ls # <<>>, Leads(y, ls, z),
           ReadOne(x, ls[1]) = ReadOne(y, ls[1])
    PROVE  Leads(x, ls, z)
<1>1. PICK f : f[0] = y /\ f[Len(ls)] = z /\ \A i \in 1 .. Len(ls) : f[i] = ReadOne(f[i - 1], ls[i])
  BY DEF Leads
<1>2. PICK n \in Nat : n = Len(ls) /\ n # 0
  BY LenProperties, EmptySeq
<1>3. PICK g : g = [i \in 0 .. n |-> IF i = 0 THEN x ELSE f[i]]
  OBVIOUS
<1>4. g[0] = x /\ \A i \in 1 .. n : g[i] = f[i]
  BY <1>3
<1>5. n \in 1 .. n /\ 1 \in 1 .. n /\ 1 - 1 = 0
  BY <1>2
<1>6. ASSUME NEW i \in 1 .. n PROVE g[i] = ReadOne(g[i - 1], ls[i])
  <2>1. CASE i = 1
    BY <1>1, <1>2, <1>4, <1>5, <2>1
  <2>2. CASE i # 1
    <3>1. i - 1 \in 1 .. n
      BY <2>2
    <3> QED  BY <1>1, <1>2, <1>4, <3>1
  <2> QED  BY <2>1, <2>2
<1> QED  BY <1>1, <1>2, <1>4, <1>5, <1>6 DEF Leads

LEMMA LeadsEnd ==
    ASSUME NEW S, NEW ls \in Seq(S), NEW p, NEW y, Leads(<<p, Reader>>, ls, y)
    PROVE  ReadLines(p, ls) = [ini |-> EndOfText(y[1], y[2]), ok |-> Accepted(y[2])]
<1> DEFINE loop(f) == [i \in 0 .. Len(ls) |->
                         IF i = 0 THEN <<p, Reader>>
                         ELSE IF f[i - 1][2].thrown THEN f[i - 1]
                              ELSE ParseLine(f[i - 1][1], f[i - 1][2], ls[i])]
           after == CHOOSE f : f = loop(f)
<1>0. Len(ls) \in Nat
  BY LenProperties
<1>1. ReadLines(p, ls) = [ini |-> EndOfText(after[Len(ls)][1], after[Len(ls)][2]),
                          ok |-> Accepted(after[Len(ls)][2])]
  BY DEF ReadLines
<1>2. PICK f : f[0] = <<p, Reader>> /\ f[Len(ls)] = y
               /\ \A i \in 1 .. Len(ls) : f[i] = ReadOne(f[i - 1], ls[i])
  BY DEF Leads
<1>3. PICK g : g = [i \in 0 .. Len(ls) |-> f[i]]
  OBVIOUS
<1>4. \A i \in 0 .. Len(ls) : g[i] = f[i] /\ (i # 0 => i \in 1 .. Len(ls) /\ i - 1 \in 0 .. Len(ls))
  BY <1>0, <1>3
<1>5. g = [i \in 0 .. Len(ls) |-> IF i = 0 THEN <<p, Reader>> ELSE ReadOne(g[i - 1], ls[i])]
  BY <1>2, <1>3, <1>4
<1>6. \A h : loop(h) = [i \in 0 .. Len(ls) |-> IF i = 0 THEN <<p, Reader>> ELSE ReadOne(h[i - 1], ls[i])]
  BY DEF ReadOne
<1>7. after = loop(after)
  <2>1. g = loop(g)
    BY <1>5, <1>6
  <2> HIDE DEF loop
  <2> QED  BY <2>1
<1>8. /\ after[0] = <<p, Reader>>
      /\ \A i \in 1 .. Len(ls) : after[i] = ReadOne(after[i - 1], ls[i])
  <2> HIDE DEF after, loop
  <2>1. 0 \in 0 .. Len(ls) /\ \A i \in 1 .. Len(ls) : i \in 0 .. Len(ls) /\ i # 0
    BY <1>0
  <2> QED  BY <1>6, <1>7, <2>1
<1> HIDE DEF after, loop
<1> DEFINE T == {n \in Nat : n <= Len(ls) => after[n] = f[n]}
<1>9. Len(ls) \in T
  <2>1. 0 \in T
    BY <1>2, <1>8
  <2>2. ASSUME NEW n \in T PROVE n + 1 \in T
    <3> SUFFICES ASSUME n + 1 <= Len(ls) PROVE after[n + 1] = f[n + 1]
      OBVIOUS
    <3>1. n + 1 \in 1 .. Len(ls) /\ (n + 1) - 1 = n /\ after[n] = f[n]
      BY <1>0
    <3> QED  BY <1>2, <1>8, <3>1
  <2>3. T \in SUBSET Nat
    OBVIOUS
  <2> HIDE DEF T
  <2> QED  BY <1>0, <2>1, <2>2, <2>3, ByCounting
<1>10. after[Len(ls)] = y
  BY <1>2, <1>9
<1> QED  BY <1>1, <1>10
-----------------------------------------------------------------------------
(* What is trimmed.                                                        *)
LEMMA TrimmedAt ==
    ASSUME NEW v \in Seq(Cleaned)
    PROVE  /\ \E n \in 0 .. Len(v) : (\A i \in n + 1 .. Len(v) : v[i] = Blank) /\ (n = 0 \/ v[n] # Blank)
           /\ \A n \in 0 .. Len(v) :
                 (\A i \in n + 1 .. Len(v) : v[i] = Blank) /\ (n = 0 \/ v[n] # Blank)
                   => Trimmed(v) = SubSeq(v, 1, n)
<1> DEFINE Q(n) == (\A i \in n + 1 .. Len(v) : v[i] = Blank) /\ (n = 0 \/ v[n] # Blank)
           T == {n \in 0 .. Len(v) : \A i \in n + 1 .. Len(v) : v[i] = Blank}
<1>0. Len(v) \in Nat
  BY LenProperties
<1>1. Len(v) \in T /\ T \in SUBSET Nat
  BY <1>0
<1>2. PICK n \in T : \A m \in T : n <= m
  BY <1>1, LeastNumber
<1>3. n \in 0 .. Len(v) /\ Q(n)
  <2>1. ASSUME n # 0, v[n] = Blank PROVE FALSE
    <3>1. n - 1 \in 0 .. Len(v) /\ ~(n <= n - 1)
      BY <1>0, <1>2, <2>1
    <3>2. \A i \in (n - 1) + 1 .. Len(v) : v[i] = Blank
      BY <1>0, <1>2, <2>1
    <3> QED  BY <3>1, <3>2, <1>2
  <2> QED  BY <1>2, <2>1
<1>4. ASSUME NEW m \in 0 .. Len(v), NEW k \in 0 .. Len(v), Q(m), Q(k) PROVE m = k
  <2>1. CASE m < k
    <3>1. k \in m + 1 .. Len(v) /\ k # 0
      BY <1>0, <2>1
    <3> QED  BY <1>4, <3>1
  <2>2. CASE k < m
    <3>1. m \in k + 1 .. Len(v) /\ m # 0
      BY <1>0, <2>2
    <3> QED  BY <1>4, <3>1
  <2> QED  BY <1>0, <2>1, <2>2
<1>5. Trimmed(v) = SubSeq(v, 1, CHOOSE k \in 0 .. Len(v) : Q(k))
  BY DEF Trimmed
<1>6. ASSUME NEW m \in 0 .. Len(v), Q(m) PROVE Trimmed(v) = SubSeq(v, 1, m)
  <2> HIDE DEF Q
  <2>1. (CHOOSE k \in 0 .. Len(v) : Q(k)) = m
    BY <1>4, <1>6
  <2> QED  BY <1>5, <2>1
<1> QED  BY <1>3, <1>6

LEMMA Beginning ==
    ASSUME NEW S, NEW v \in Seq(S), NEW n \in 0 .. Len(v)
    PROVE  LET a == SubSeq(v, 1, n)
           IN  a \in Seq(S) /\ Len(a) = n /\ DOMAIN a = 1 .. n /\ \A i \in 1 .. n : a[i] = v[i]
<1>1. /\ 1 \in 1 .. Len(v) + 1 /\ n \in Nat /\ 1 - 1 <= n /\ n <= Len(v) /\ n - 1 + 1 = n
      /\ \A i \in 1 .. n : 1 + i - 1 = i
  BY LenProperties
<1> QED  BY <1>1, Cut

LEMMA BeginAlike ==
    ASSUME NEW S, NEW u \in Seq(S), NEW v \in Seq(S), NEW n \in 0 .. Len(v), n <= Len(u),
           \A i \in 1 .. n : u[i] = v[i]
    PROVE  SubSeq(u, 1, n) = SubSeq(v, 1, n)
<1>0. n \in 0 .. Len(u)
  BY LenProperties
<1>1. PICK a : a = SubSeq(u, 1, n)
  OBVIOUS
<1>2. PICK b : b = SubSeq(v, 1, n)
  OBVIOUS
<1>3. a \in Seq(S) /\ Len(a) = n /\ \A i \in 1 .. n : a[i] = u[i]
  BY <1>0, <1>1, Beginning
<1>4. b \in Seq(S) /\ Len(b) = n /\ \A i \in 1 .. n : b[i] = v[i]
  BY <1>2, Beginning
<1>5. a = b
  BY <1>3, <1>4, SeqEqual
<1> QED  BY <1>1, <1>2, <1>5

LEMMA TrimmedBlank ==
    ASSUME NEW v \in Seq(Cleaned)
    PROVE  Append(v, Blank) \in Seq(Cleaned) /\ Trimmed(Append(v, Blank)) = Trimmed(v)
<1>2. Blank \in Cleaned
  BY DEF Cleaned, Pieces
<1>1. PICK u \in Seq(Cleaned) : u = Append(v, Blank)
  BY <1>2, AppendProperties
<1>3. /\ u \in Seq(Cleaned) /\ Len(u) = Len(v) + 1 /\ Len(v) \in Nat /\ u[Len(v) + 1] = Blank
      /\ \A i \in 1 .. Len(v) : u[i] = v[i]
  BY <1>1, <1>2, AppendProperties, LenProperties
<1>4. PICK n \in 0 .. Len(v) : (\A i \in n + 1 .. Len(v) : v[i] = Blank) /\ (n = 0 \/ v[n] # Blank)
  BY TrimmedAt
<1>5. Trimmed(v) = SubSeq(v, 1, n)
  BY <1>4, TrimmedAt
<1>6. Trimmed(u) = SubSeq(u, 1, n)
  <2>1. n \in 0 .. Len(u) /\ (n # 0 => n \in 1 .. Len(v))
    BY <1>3
  <2>2. \A i \in n + 1 .. Len(u) : u[i] = Blank
    <3> TAKE i \in n + 1 .. Len(u)
    <3>1. i = Len(v) + 1 \/ (i \in n + 1 .. Len(v) /\ i \in 1 .. Len(v))
      BY <1>3
    <3> QED  BY <1>3, <1>4, <3>1
  <2>3. n = 0 \/ u[n] # Blank
    BY <1>3, <1>4, <2>1
  <2> QED  BY <1>3, <2>1, <2>2, <2>3, TrimmedAt
<1>7. SubSeq(u, 1, n) = SubSeq(v, 1, n)
  <2>1. n <= Len(u) /\ \A i \in 1 .. n : u[i] = v[i]
    BY <1>3
  <2> QED  BY <2>1, BeginAlike
<1> QED  BY <1>1, <1>3, <1>5, <1>6, <1>7

LEMMA TrimmedBlankOnly == <<Blank>> \in Seq(Cleaned) /\ Trimmed(<<Blank>>) = <<>>
<1>1. <<>> \in Seq(Cleaned) /\ Append(<<>>, Blank) = <<Blank>>
  OBVIOUS
<1>2. Len(<<>>) = 0
  OBVIOUS
<1>3. Trimmed(<<>>) = <<>>
  <2>1. PICK e \in Seq(Cleaned) : e = <<>> /\ Len(e) = 0
    BY <1>1, <1>2
  <2>2. Trimmed(e) = SubSeq(e, 1, 0)
    <3>1. 0 \in 0 .. Len(e) /\ \A i \in 0 + 1 .. Len(e) : FALSE
      BY <2>1
    <3> QED  BY <3>1, TrimmedAt
  <2>3. SubSeq(e, 1, 0) = <<>>
    OBVIOUS
  <2> QED  BY <2>1, <2>2, <2>3
<1> QED  BY <1>1, <1>3, TrimmedBlank

-----------------------------------------------------------------------------
(* Between two options: what is read makes P once the value that is open   *)
(* is finished; and then an empty line changes nothing.                    *)
Between(x, P, sec) ==
    /\ x[2] \in Readers /\ x[2].section = sec
    /\ x[2].errors = FALSE /\ x[2].thrown = FALSE
    /\ x[2].multi = TRUE => x[2].option # NoName
    /\ P = IF x[2].multi = TRUE THEN FinishMultiline(x[1], x[2]) ELSE x[1]

Calm(x, P, sec) == Between(x, P, sec) /\ (x[2].multi = TRUE /\ ~opts.emptyLines => x[1] = P)

Ready(r, sec) ==
    r \in Readers /\ r.section = sec /\ r.multi = FALSE /\ r.errors = FALSE /\ r.thrown = FALSE

(* A line that is not indented is read as one of its own.                  *)
LEMMA NextLine ==
    ASSUME NEW x, NEW P, NEW sec, Between(x, P, sec),
           NEW c, c # Blank
    PROVE  \E r : Ready(r, sec) /\ ReadOne(x, Line(c)) = ReadNew(P, r, c)
<1>1. PICK p : p = x[1]
  OBVIOUS
<1>2. PICK r \in Readers : r = x[2]
  BY DEF Between
<1>3. /\ r.section = sec /\ r.errors = FALSE /\ r.thrown = FALSE /\ r.multi \in BOOLEAN
      /\ r.multi = TRUE => r.option # NoName
      /\ P = IF r.multi = TRUE THEN FinishMultiline(p, r) ELSE p
  BY <1>1, <1>2 DEF Between, Readers
<1>k. PICK l : l = Line(c)
  OBVIOUS
<1>l. l = Line(c) /\ l.clean = c /\ ~l.indented
  <2>1. l = [clean |-> c, indented |-> FALSE, says |-> {}]
    BY <1>k DEF Line, Raw
  <2>2. l.clean = c
    BY <2>1
  <2>3. l.indented = FALSE
    BY <2>1
  <2> QED  BY <1>k, <2>2, <2>3
<1>4. ReadOne(x, l) = ParseLine(p, r, l)
  BY <1>1, <1>2, <1>3 DEF ReadOne
<1>5. CASE r.multi = TRUE
  <2>1. PICK s : s = [r EXCEPT !.multi = FALSE, !.accum = <<>>]
    OBVIOUS
  <2>2. s \in Readers /\ s.section = r.section /\ s.multi = FALSE /\ s.errors = r.errors /\ s.thrown = r.thrown
    BY <2>1, Stops
  <2>3. ParseLine(p, r, l) = ReadNew(P, s, c)
    BY <1>3, <1>5, <1>l, <2>1 DEF ParseLine
  <2>4. Ready(s, sec)
    BY <1>3, <2>2 DEF Ready
  <2> QED  BY <1>4, <1>l, <2>3, <2>4
<1>6. CASE r.multi = FALSE
  <2>1. ParseLine(p, r, l) = ReadNew(P, r, c)
    BY <1>3, <1>6, <1>l DEF ParseLine
  <2>2. Ready(r, sec)
    BY <1>3, <1>6 DEF Ready
  <2> QED  BY <1>4, <1>l, <2>1, <2>2
<1> QED  BY <1>3, <1>5, <1>6

LEMMA BlankLine ==
    ASSUME opts \in ParseOptions, NEW x, NEW P, NEW sec, Calm(x, P, sec)
    PROVE  Calm(ReadOne(x, Line(Blank)), P, sec)
<1>1. PICK p : p = x[1]
  OBVIOUS
<1>2. PICK r \in Readers : r = x[2]
  BY DEF Calm, Between
<1>3. /\ r.section = sec /\ r.errors = FALSE /\ r.thrown = FALSE /\ r.multi \in BOOLEAN
      /\ r.multi = TRUE => r.option # NoName
      /\ P = IF r.multi = TRUE THEN FinishMultiline(p, r) ELSE p
      /\ r.multi = TRUE /\ ~opts.emptyLines => p = P
  BY <1>1, <1>2 DEF Calm, Between, Readers
<1>4. PICK l : l = Line(Blank)
  OBVIOUS
<1>5. l.clean = Blank
  BY <1>4 DEF Line, Raw
<1>6. ReadOne(x, l) = ParseLine(p, r, l)
  BY <1>1, <1>2, <1>3 DEF ReadOne
<1>7. opts.emptyLines \in BOOLEAN
  BY DEF ParseOptions
<1>8. CASE r.multi = TRUE /\ opts.emptyLines = TRUE
  <2>1. PICK s : s = [r EXCEPT !.accum = Append(@, Blank)]
    OBVIOUS
  <2>2. Blank \in Cleaned /\ r.accum \in Seq(Cleaned)
    BY DEF Cleaned, Pieces, Readers
  <2>3. /\ s \in Readers /\ s.section = r.section /\ s.multi = r.multi /\ s.option = r.option
        /\ s.accum = Append(r.accum, Blank) /\ s.errors = r.errors /\ s.thrown = r.thrown
    BY <2>1, <2>2, Gains
  <2>4. ParseLine(p, r, l) = <<p, s>>
    BY <1>5, <1>8, <2>1 DEF ParseLine
  <2>5. Trimmed(s.accum) = Trimmed(r.accum)
    BY <2>2, <2>3, TrimmedBlank
  <2>6. FinishMultiline(p, s) = FinishMultiline(p, r)
    BY <2>3, <2>5 DEF FinishMultiline
  <2> QED  BY <1>3, <1>4, <1>6, <1>8, <2>3, <2>4, <2>6 DEF Calm, Between
<1>9. CASE ~(r.multi = TRUE /\ opts.emptyLines = TRUE)
  <2>1. PICK s : s = [r EXCEPT !.multi = FALSE]
    OBVIOUS
  <2>2. /\ s \in Readers /\ s.section = r.section /\ s.multi = FALSE
        /\ s.errors = r.errors /\ s.thrown = r.thrown
    BY <2>1, Stops
  <2>3. ParseLine(p, r, l) = <<p, s>>
    BY <1>3, <1>5, <1>7, <1>9, <2>1 DEF ParseLine
  <2>4. p = P
    BY <1>3, <1>7, <1>9
  <2>5. PICK y : y = ReadOne(x, l) /\ y[1] = P /\ y[2] = s
    BY <1>6, <2>3, <2>4
  <2>6. Calm(y, P, sec)
    BY <1>3, <2>2, <2>5 DEF Calm, Between
  <2> QED  BY <1>4, <2>5, <2>6
<1> QED  BY <1>8, <1>9

LEMMA HeaderLine ==
    ASSUME NEW x, NEW P, NEW sec, Between(x, P, sec), NEW s \in Texts, s # NoName
    PROVE  /\ ~HasSection(P, s) => Calm(ReadOne(x, Line(Header(s))), NewSection(P, s), s)
           /\ s = Default => Calm(ReadOne(x, Line(Header(s))), P, s)
<1>1. PICK c : c = Header(s)
  OBVIOUS
<1>2. c # Blank /\ c.kind = "header" /\ c.name = s
  BY <1>1 DEF Header, Blank
<1>a. PICK r : Ready(r, sec) /\ ReadOne(x, Line(c)) = ReadNew(P, r, c)
  BY <1>2, NextLine
<1>3. /\ r \in Readers /\ r.section = sec /\ r.multi = FALSE /\ r.errors = FALSE /\ r.thrown = FALSE
      /\ ReadOne(x, Line(c)) = ReadNew(P, r, c)
  BY <1>a DEF Ready
<1>4. PICK q : q = [r EXCEPT !.section = s, !.option = NoName]
  OBVIOUS
<1>5. /\ q \in Readers /\ q.section = s /\ q.multi = FALSE /\ q.errors = FALSE /\ q.thrown = FALSE
  BY <1>3, <1>4 DEF Readers, Texts
<1>6. ReadOne(x, Line(c)) = ReadHeader(P, r, s)
  BY <1>2, <1>3 DEF ReadNew
<1>7. ASSUME ~HasSection(P, s) PROVE ReadHeader(P, r, s) = <<NewSection(P, s), q>>
  BY <1>4, <1>7 DEF ReadHeader
<1>8. ASSUME s = Default PROVE ReadHeader(P, r, s) = <<P, q>>
  BY <1>4, <1>8 DEF ReadHeader, HasSection
<1> QED  BY <1>1, <1>5, <1>6, <1>7, <1>8 DEF Calm, Between

(* Items that are put into a section twice.                                *)
LEMMA Twice ==
    ASSUME NEW p, Sound(p), NEW s \in Homes(p), NEW a \in Seq(Entries), NEW b \in Seq(Entries)
    PROVE  WithItems(WithItems(p, s, a), s, b) = WithItems(p, s, b)
<1>0. /\ p \in Objects /\ p.sections \in Seq(Sections)
      /\ p = [defaults |-> p.defaults, sections |-> p.sections, index |-> p.index]
  BY DEF Sound, Objects
<1>1. CASE s = Default
  <2>1. PICK q : q = WithItems(p, s, a)
    OBVIOUS
  <2>2. q = [defaults |-> a, sections |-> p.sections, index |-> p.index]
    BY <1>0, <1>1, <2>1 DEF WithItems
  <2>3. WithItems(q, s, b) = [defaults |-> b, sections |-> p.sections, index |-> p.index]
    BY <1>1, <2>2 DEF WithItems
  <2>4. WithItems(p, s, b) = [defaults |-> b, sections |-> p.sections, index |-> p.index]
    BY <1>0, <1>1 DEF WithItems
  <2> QED  BY <2>1, <2>3, <2>4
<1>2. CASE s # Default
  <2>0. PICK n : n = p.index[s]
    OBVIOUS
  <2>1. n \in DOMAIN p.sections
    BY <1>2, <2>0 DEF Homes, Sound
  <2>2. PICK c : c = [p.sections EXCEPT ![n].items = a]
    OBVIOUS
  <2>3. PICK q : q = WithItems(p, s, a)
    OBVIOUS
  <2>4. q = [defaults |-> p.defaults, sections |-> c, index |-> p.index]
    BY <1>0, <1>2, <2>0, <2>2, <2>3 DEF WithItems
  <2>5. WithItems(q, s, b) = [defaults |-> p.defaults, sections |-> [c EXCEPT ![n].items = b], index |-> p.index]
    BY <1>2, <2>0, <2>4 DEF WithItems
  <2>6. WithItems(p, s, b)
          = [defaults |-> p.defaults, sections |-> [p.sections EXCEPT ![n].items = b], index |-> p.index]
    BY <1>0, <1>2, <2>0 DEF WithItems
  <2>7. [c EXCEPT ![n].items = b] = [p.sections EXCEPT ![n].items = b]
    <3>1. PICK e \in Sections : e = p.sections[n]
      BY <1>0, <2>1
    <3>2. c = [p.sections EXCEPT ![n] = [name |-> e.name, items |-> a]]
      BY <2>2, <3>1 DEF Sections
    <3>3. c[n] = [name |-> e.name, items |-> a]
      BY <2>1, <3>2
    <3>4. [c EXCEPT ![n].items = b] = [c EXCEPT ![n] = [name |-> e.name, items |-> b]]
      <4>1. [c[n] EXCEPT !.items = b] = [name |-> e.name, items |-> b]
        BY <3>3
      <4>2. [c EXCEPT ![n].items = b] = [c EXCEPT ![n] = [c[n] EXCEPT !.items = b]]
        BY Zenon
      <4> QED  BY <4>1, <4>2, Zenon
    <3>5. [p.sections EXCEPT ![n].items = b] = [p.sections EXCEPT ![n] = [name |-> e.name, items |-> b]]
      BY <3>1 DEF Sections
    <3> QED  BY <1>0, <3>2, <3>4, <3>5
  <2> QED  BY <2>3, <2>5, <2>6, <2>7
<1> QED  BY <1>1, <1>2

LEMMA Itself ==
    ASSUME NEW p, Sound(p), NEW s \in Homes(p)
    PROVE  WithItems(p, s, Items(p, s)) = p
<1>0. /\ p \in Objects /\ p.sections \in Seq(Sections)
      /\ p = [defaults |-> p.defaults, sections |-> p.sections, index |-> p.index]
  BY DEF Sound, Objects
<1>1. CASE s = Default
  BY <1>0, <1>1 DEF WithItems, Items
<1>2. CASE s # Default
  <2>0. PICK n : n = p.index[s]
    OBVIOUS
  <2>1. n \in DOMAIN p.sections
    BY <1>2, <2>0 DEF Homes, Sound
  <2>2. PICK e \in Sections : e = p.sections[n]
    BY <1>0, <2>1
  <2>3. Items(p, s) = e.items
    BY <1>2, <2>0, <2>2 DEF Items
  <2>4. [p.sections EXCEPT ![n].items = e.items] = p.sections
    <3>1. e = [name |-> e.name, items |-> e.items]
      BY DEF Sections
    <3>2. [p.sections EXCEPT ![n].items = e.items] = [p.sections EXCEPT ![n] = [name |-> e.name, items |-> e.items]]
      BY <2>2 DEF Sections
    <3>3. [p.sections EXCEPT ![n] = e] = p.sections
      BY <1>0, <2>1, <2>2
    <3> QED  BY <3>1, <3>2, <3>3
  <2>5. WithItems(p, s, e.items)
          = [defaults |-> p.defaults, sections |-> [p.sections EXCEPT ![n].items = e.items], index |-> p.index]
    BY <1>0, <1>2, <2>0 DEF WithItems
  <2> QED  BY <1>0, <2>3, <2>4, <2>5
<1> QED  BY <1>1, <1>2

(* An option its section does not have yet.                                *)
Lacks(p, s, k) ==
    /\ Sound(p) /\ s \in Homes(p) /\ s # NoName
    /\ k \in Texts /\ k # NoName /\ k \notin Listed(Items(p, s))

Entry(k, v) == [key |-> k, value |-> v]

Having(p, s, k, v) == WithItems(p, s, Append(Items(p, s), Entry(k, v)))

LEMMA EntryTyped ==
    ASSUME NEW k \in STRING, NEW v \in Stored
    PROVE  Entry(k, v) \in Entries /\ Entry(k, v).key = k /\ Entry(k, v).value = v
  BY DEF Entry, Entries

LEMMA PutNew ==
    ASSUME NEW items \in Seq(Entries), NEW k \in Texts, k \notin Listed(items),
           NEW v \in Stored, NEW w \in Stored
    PROVE  /\ Put(items, k, v) = Append(items, Entry(k, v))
           /\ Put(Append(items, Entry(k, w)), k, v) = Append(items, Entry(k, v))
<1>0. /\ Entry(k, v) \in Entries /\ Entry(k, v).key = k
      /\ Entry(k, w) \in Entries /\ Entry(k, w).key = k
  BY EntryTyped DEF Texts
<1>1. PICK e : e = Entry(k, v) /\ e \in Entries /\ e.key = k
  BY <1>0
<1>2. PICK f : f = Entry(k, w) /\ f \in Entries /\ f.key = k
  BY <1>0
<1>3. Put(items, k, v) = Append(items, e)
  BY <1>1 DEF Put, Entry
<1>4. PICK a : a = Append(items, f)
  OBVIOUS
<1>5. PICK b : b = Append(items, e)
  OBVIOUS
<1>6. PICK n \in Nat : n = Len(items)
  BY LenProperties
<1>7. a \in Seq(Entries) /\ DOMAIN a = 1 .. n + 1 /\ a[n + 1] = f /\ \A i \in 1 .. n : a[i] = items[i]
  BY <1>2, <1>4, <1>6, AppendProperties, LenProperties
<1>8. b \in Seq(Entries) /\ DOMAIN b = 1 .. n + 1 /\ Len(b) = n + 1 /\ b[n + 1] = e /\ \A i \in 1 .. n : b[i] = items[i]
  BY <1>1, <1>5, <1>6, AppendProperties, LenProperties
<1>9. \A i \in 1 .. n : items[i].key # k
  BY <1>6, LenProperties DEF Listed
<1>10. k \in Listed(a)
  <2>1. n + 1 \in DOMAIN a
    BY <1>7
  <2> QED  BY <2>1, <1>2, <1>7 DEF Listed
<1>11. Put(a, k, v) = [i \in DOMAIN a |-> IF a[i].key = k THEN e ELSE a[i]]
  BY <1>1, <1>10 DEF Put, Entry
<1>12. PICK c : c = [i \in 1 .. n + 1 |-> IF a[i].key = k THEN e ELSE a[i]]
  OBVIOUS
<1>13. ASSUME NEW i \in 1 .. n + 1 PROVE c[i] = b[i]
  <2>1. i = n + 1 \/ i \in 1 .. n
    OBVIOUS
  <2>2. c[i] = IF a[i].key = k THEN e ELSE a[i]
    BY <1>12
  <2> QED  BY <2>1, <2>2, <1>2, <1>7, <1>8, <1>9
<1>14. c = b
  <2>1. b = [i \in 1 .. n + 1 |-> b[i]]
    BY <1>8
  <2>2. c = [i \in 1 .. n + 1 |-> c[i]]
    BY <1>12
  <2> QED  BY <1>13, <2>1, <2>2
<1> QED  BY <1>1, <1>2, <1>3, <1>4, <1>5, <1>7, <1>11, <1>12, <1>14

LEMMA Overwritten ==
    ASSUME NEW p, NEW s, NEW k, Lacks(p, s, k), NEW v \in Stored, NEW w \in Stored
    PROVE  LET q == Having(p, s, k, w)
           IN  /\ k \in Listed(Items(q, s))
               /\ WithItems(q, s, Put(Items(q, s), k, v)) = Having(p, s, k, v)
<1>1. PICK items \in Seq(Entries) : items = Items(p, s) /\ Unique(items)
  BY HomeItems DEF Lacks
<1>2. Entry(k, v) \in Entries /\ Entry(k, w) \in Entries /\ Entry(k, w).key = k
  BY DEF Entry, Entries, Texts, Lacks
<1>3. PICK a : a = Append(items, Entry(k, w))
  OBVIOUS
<1>4. PICK b : b = Append(items, Entry(k, v))
  OBVIOUS
<1>5. a \in Seq(Entries) /\ b \in Seq(Entries)
  BY <1>2, <1>3, <1>4, AppendProperties
<1>n. k \in Texts /\ k \notin Listed(items)
  BY <1>1 DEF Lacks
<1>6. Put(items, k, w) = a /\ Put(a, k, v) = b
  BY <1>n, <1>3, <1>4, PutNew
<1>t. k \in STRING
  BY <1>n DEF Texts
<1>7. Unique(a) /\ k \in Listed(a)
  <2>1. items \in Seq(Entries) /\ Unique(items)
    BY <1>1
  <2>2. Unique(Put(items, k, w)) /\ Listed(Put(items, k, w)) = Listed(items) \cup {k}
    BY <1>t, <2>1, PutItem
  <2> QED  BY <1>6, <2>2
<1>8. PICK q : q = Having(p, s, k, w)
  OBVIOUS
<1>9. q = WithItems(p, s, a)
  BY <1>1, <1>3, <1>8 DEF Having
<1>10. Items(q, s) = a
  BY <1>5, <1>7, <1>9, Replaced DEF Lacks
<1>11. WithItems(q, s, b) = WithItems(p, s, b)
  BY <1>5, <1>9, Twice DEF Lacks
<1>12. Having(p, s, k, v) = WithItems(p, s, b)
  BY <1>1, <1>4 DEF Having
<1> QED  BY <1>6, <1>7, <1>8, <1>10, <1>11, <1>12

(* Inside a value: what was read of it, which the object has the first     *)
(* line of.                                                                *)
Inside(x, p, s, k, a) ==
    /\ x[2] \in Readers /\ x[2].section = s /\ x[2].option = k /\ x[2].accum = a
    /\ x[2].multi = TRUE /\ x[2].errors = FALSE /\ x[2].thrown = FALSE
    /\ x[1] = Having(p, s, k, Trimmed(<<a[1]>>))

LEMMA InsideEnds ==
    ASSUME NEW p, NEW s, NEW k, Lacks(p, s, k), NEW a \in Seq(Cleaned), a # <<>>,
           NEW x, Inside(x, p, s, k, a)
    PROVE  /\ Between(x, Having(p, s, k, Trimmed(a)), s)
           /\ opts.emptyLines = TRUE \/ Len(a) = 1 => Calm(x, Having(p, s, k, Trimmed(a)), s)
<1>1. PICK r : r = x[2]
  OBVIOUS
<1>2. PICK q : q = x[1]
  OBVIOUS
<1>3. /\ r \in Readers /\ r.section = s /\ r.option = k /\ r.accum = a
      /\ r.multi = TRUE /\ r.errors = FALSE /\ r.thrown = FALSE
      /\ q = Having(p, s, k, Trimmed(<<a[1]>>))
  BY <1>1, <1>2 DEF Inside
<1>4. a[1] \in Cleaned /\ <<a[1]>> \in Seq(Cleaned)
  <2>1. 1 \in 1 .. Len(a)
    BY EmptySeq, LenProperties
  <2> QED  BY <2>1, ElementOfSeq
<1>5. PICK v \in Stored : v = Trimmed(a)
  BY TrimmedIsStored
<1>6. PICK w \in Stored : w = Trimmed(<<a[1]>>)
  BY <1>4, TrimmedIsStored
<1>7. k \in Listed(Items(q, s)) /\ WithItems(q, s, Put(Items(q, s), k, v)) = Having(p, s, k, v)
  BY <1>3, <1>6, Overwritten
<1>8. FinishMultiline(q, r) = Having(p, s, k, v)
  BY <1>3, <1>5, <1>7 DEF FinishMultiline
<1>9. k # NoName
  BY DEF Lacks
<1>10. Between(x, Having(p, s, k, v), s)
  BY <1>1, <1>2, <1>3, <1>8, <1>9 DEF Between
<1>11. ASSUME Len(a) = 1 PROVE q = Having(p, s, k, v)
  <2>1. a = <<a[1]>>
    BY <1>11, LenProperties
  <2> QED  BY <1>3, <1>5, <2>1
<1>12. ASSUME opts.emptyLines = TRUE \/ Len(a) = 1 PROVE Calm(x, Having(p, s, k, v), s)
  BY <1>2, <1>10, <1>11, <1>12 DEF Calm
<1> QED  BY <1>5, <1>10, <1>12

(* The line of an option, and those that continue it.                      *)
LEMMA OptionLine ==
    ASSUME NEW p, NEW s, NEW k, Lacks(p, s, k), NEW x, Between(x, p, s), NEW c \in Cleaned
    PROVE  Inside(ReadOne(x, Line(Option(k, c))), p, s, k, <<c>>)
<1>1. PICK d : d = Option(k, c)
  OBVIOUS
<1>2. d # Blank /\ d.kind = "option" /\ d.key = k /\ d.value = c
  BY <1>1 DEF Option, Blank
<1>3. PICK r : Ready(r, s) /\ ReadOne(x, Line(d)) = ReadNew(p, r, d)
  BY <1>2, NextLine
<1>4. /\ r \in Readers /\ r.section = s /\ r.multi = FALSE /\ r.errors = FALSE /\ r.thrown = FALSE
  BY <1>3 DEF Ready
<1>5. s # NoName /\ k # NoName /\ k \notin Listed(Items(p, s)) /\ k \in Texts
  BY DEF Lacks
<1>6. ReadNew(p, r, d) = ReadOption(p, r, d)
  BY <1>2, <1>4, <1>5 DEF ReadNew
<1>7. ReadOption(p, r, d) = Assign(p, r, k, <<c>>)
  <2>1. d.kind = "option" /\ d.key # NoName
    BY <1>2, <1>5
  <2>2. ReadOption(p, r, d) = Assign(p, r, d.key, <<d.value>>)
    BY <2>1 DEF ReadOption
  <2> QED  BY <1>2, <2>2
<1>a. <<c>> \in Seq(Cleaned) /\ <<c>>[1] = c
  OBVIOUS
<1>8. PICK a \in Seq(Cleaned) : a = <<c>> /\ a[1] = c
  BY <1>a, Zenon
<1>9. a # NoValue
  BY NotStoredValue
<1>10. PICK w \in Stored : w = Trimmed(a)
  BY TrimmedIsStored
<1>11. PICK q : q = WithItems(p, s, Put(Items(p, s), k, w))
  OBVIOUS
<1>12. PICK m : m = [r EXCEPT !.option = k, !.accum = a, !.multi = TRUE]
  OBVIOUS
<1>13. Assign(p, r, k, a) = <<q, m>>
  <2>1. (a # NoValue) = TRUE
    BY <1>9
  <2> QED  BY <1>4, <1>5, <1>9, <1>10, <1>11, <1>12, <2>1 DEF Assign
<1>14. /\ m \in Readers /\ m.section = s /\ m.option = k /\ m.accum = a
       /\ m.multi = TRUE /\ m.errors = FALSE /\ m.thrown = FALSE
  BY <1>4, <1>5, <1>12 DEF Readers, Texts
<1>15. q = Having(p, s, k, w)
  <2>1. PICK items \in Seq(Entries) : items = Items(p, s)
    BY HomeItems DEF Lacks
  <2>2. Put(items, k, w) = Append(items, Entry(k, w))
    BY <1>5, <2>1, PutNew
  <2> QED  BY <1>11, <2>1, <2>2 DEF Having
<1>16. PICK y : y = ReadOne(x, Line(d)) /\ y[1] = q /\ y[2] = m
  BY <1>3, <1>6, <1>7, <1>8, <1>13
<1>17. Inside(y, p, s, k, a)
  BY <1>8, <1>10, <1>14, <1>15, <1>16 DEF Inside
<1> QED  BY <1>1, <1>8, <1>16, <1>17

LEMMA KeyLine ==
    ASSUME opts.noValue, NEW p, NEW s, NEW k, Lacks(p, s, k), NEW x, Between(x, p, s)
    PROVE  Calm(ReadOne(x, Line(Word(k))), Having(p, s, k, NoValue), s)
<1>1. PICK d : d = Word(k)
  OBVIOUS
<1>2. d # Blank /\ d.kind = "word" /\ d.word = k
  BY <1>1 DEF Word, Blank
<1>3. PICK r : Ready(r, s) /\ ReadOne(x, Line(d)) = ReadNew(p, r, d)
  BY <1>2, NextLine
<1>4. /\ r \in Readers /\ r.section = s /\ r.multi = FALSE /\ r.errors = FALSE /\ r.thrown = FALSE
  BY <1>3 DEF Ready
<1>5. s # NoName /\ k # NoName /\ k \notin Listed(Items(p, s)) /\ k \in Texts
  BY DEF Lacks
<1>6. ReadNew(p, r, d) = ReadOption(p, r, d)
  BY <1>2, <1>4, <1>5 DEF ReadNew
<1>7. ReadOption(p, r, d) = Assign(p, r, k, NoValue)
  <2>1. d.kind # "option" /\ opts.noValue
    BY <1>2
  <2>2. ReadOption(p, r, d) = Assign(p, r, AsKey(d), NoValue)
    BY <2>1 DEF ReadOption
  <2>3. AsKey(d) = k
    BY <1>2 DEF AsKey
  <2> QED  BY <2>2, <2>3
<1>e. <<>> \in Seq(Cleaned)
  BY EmptySeq
<1>8. PICK e \in Seq(Cleaned) : e = <<>>
  BY <1>e, Zenon
<1>9. PICK v \in Stored : v = NoValue
  BY DEF Stored
<1>11. PICK q : q = WithItems(p, s, Put(Items(p, s), k, v))
  OBVIOUS
<1>12. PICK m : m = [r EXCEPT !.option = k, !.accum = e, !.multi = FALSE]
  OBVIOUS
<1>13. Assign(p, r, k, v) = <<q, m>>
  <2>1. (v # NoValue) = FALSE
    BY <1>9
  <2> QED  BY <1>4, <1>5, <1>8, <1>9, <1>11, <1>12, <2>1 DEF Assign
<1>14. /\ m \in Readers /\ m.section = s
       /\ m.multi = FALSE /\ m.errors = FALSE /\ m.thrown = FALSE
  BY <1>4, <1>5, <1>12 DEF Readers, Texts
<1>15. q = Having(p, s, k, v)
  <2>1. PICK items \in Seq(Entries) : items = Items(p, s)
    BY HomeItems DEF Lacks
  <2>2. Put(items, k, v) = Append(items, Entry(k, v))
    BY <1>5, <2>1, PutNew
  <2> QED  BY <1>11, <2>1, <2>2 DEF Having
<1>16. PICK y : y = ReadOne(x, Line(d)) /\ y[1] = q /\ y[2] = m
  BY <1>3, <1>6, <1>7, <1>9, <1>13
<1>17. Calm(y, q, s)
  BY <1>14, <1>16 DEF Calm, Between
<1> QED  BY <1>1, <1>9, <1>15, <1>16, <1>17

LEMMA MoreLine ==
    ASSUME NEW p, NEW s, NEW k, k # NoName, NEW a \in Seq(Cleaned), a # <<>>, NEW x, Inside(x, p, s, k, a),
           NEW c \in Cleaned, c # Blank \/ opts.emptyLines = TRUE
    PROVE  Inside(ReadOne(x, Indented(c)), p, s, k, Append(a, c))
<1>1. PICK r : r = x[2]
  OBVIOUS
<1>2. PICK q : q = x[1]
  OBVIOUS
<1>3. /\ r \in Readers /\ r.section = s /\ r.option = k /\ r.accum = a
      /\ r.multi = TRUE /\ r.errors = FALSE /\ r.thrown = FALSE
      /\ q = Having(p, s, k, Trimmed(<<a[1]>>))
  BY <1>1, <1>2 DEF Inside
<1>4. PICK l : l = Indented(c)
  OBVIOUS
<1>5. l.clean = c /\ l.indented
  <2>1. l = [clean |-> c, indented |-> TRUE, says |-> {}]
    BY <1>4 DEF Indented, Raw
  <2>2. l.clean = c
    BY <2>1
  <2>3. l.indented = TRUE
    BY <2>1
  <2> QED  BY <2>2, <2>3
<1>6. ReadOne(x, l) = ParseLine(q, r, l)
  BY <1>1, <1>2, <1>3 DEF ReadOne
<1>7. PICK m : m = [r EXCEPT !.accum = Append(@, c)]
  OBVIOUS
<1>8. /\ m \in Readers /\ m.section = s /\ m.multi = r.multi /\ m.option = k
      /\ m.accum = Append(a, c) /\ m.errors = r.errors /\ m.thrown = r.thrown
  BY <1>3, <1>7, Gains
<1>9. ParseLine(q, r, l) = <<q, m>>
  <2>1. CASE c = Blank
    BY <1>3, <1>5, <1>7, <2>1 DEF ParseLine
  <2>2. CASE c # Blank
    BY <1>3, <1>5, <1>7, <2>2 DEF ParseLine
  <2> QED  BY <2>1, <2>2
<1>10. PICK b : b = Append(a, c)
  OBVIOUS
<1>11. b[1] = a[1]
  <2>1. 1 \in 1 .. Len(a)
    BY EmptySeq, LenProperties
  <2> QED  BY <1>10, <2>1, AppendProperties
<1>12. PICK y : y = ReadOne(x, l) /\ y[1] = q /\ y[2] = m
  BY <1>6, <1>9
<1>13. m.multi = TRUE /\ m.errors = FALSE /\ m.thrown = FALSE
  BY <1>3, <1>8
<1>14. Inside(y, p, s, k, b)
  BY <1>3, <1>8, <1>10, <1>11, <1>12, <1>13 DEF Inside
<1> QED  BY <1>4, <1>10, <1>12, <1>14

(* The lines write_to_string may write.                                    *)
Texted == Cleaned \cup {Option(k, d) : k \in Texts, d \in Cleaned}
                  \cup {Word(k) : k \in Texts} \cup {Header(s) : s \in Texts}

Written == {Raw(c, i) : c \in Texted, i \in BOOLEAN}

Marked(w, i) == [n \in DOMAIN w |-> Raw(w[n], i)]

LEMMA RawWritten ==
    ASSUME NEW c \in Texted
    PROVE  Line(c) \in Written /\ Indented(c) \in Written /\ \A i \in BOOLEAN : Raw(c, i) \in Written
<1>1. \A i \in BOOLEAN : Raw(c, i) \in Written
  BY DEF Written
<1>2. TRUE \in BOOLEAN /\ FALSE \in BOOLEAN
  OBVIOUS
<1> QED  BY <1>1, <1>2, Zenon DEF Line, Indented

LEMMA MarkedTyped ==
    ASSUME NEW w \in Seq(Cleaned), NEW i \in BOOLEAN
    PROVE  Marked(w, i) \in Seq(Written)
<1>1. DOMAIN w = 1 .. Len(w) /\ Len(w) \in Nat /\ \A n \in 1 .. Len(w) : w[n] \in Cleaned
  BY LenProperties, ElementOfSeq
<1>2. \A n \in 1 .. Len(w) : w[n] \in Texted
  BY <1>1 DEF Texted
<1>3. \A n \in 1 .. Len(w) : Raw(w[n], i) \in Written
  BY <1>2, RawWritten
<1>4. PICK m : m = [n \in 1 .. Len(w) |-> Raw(w[n], i)]
  OBVIOUS
<1>5. m \in [1 .. Len(w) -> Written]
  BY <1>3, <1>4
<1>6. m \in Seq(Written)
  BY <1>1, <1>5, SeqDef
<1>7. Marked(w, i) = m
  BY <1>1, <1>4 DEF Marked
<1> QED  BY <1>6, <1>7

LEMMA MarkedMore ==
    ASSUME NEW w \in Seq(Cleaned), NEW c \in Cleaned
    PROVE  Marked(Append(w, c), TRUE) = Marked(w, TRUE) \o <<Indented(c)>>
<1>1. PICK u : u = Append(w, c)
  OBVIOUS
<1>2. PICK n \in Nat : n = Len(w)
  BY LenProperties
<1>3. /\ u \in Seq(Cleaned) /\ DOMAIN u = 1 .. n + 1 /\ u[n + 1] = c /\ \A j \in 1 .. n : u[j] = w[j]
      /\ DOMAIN w = 1 .. n
  BY <1>1, <1>2, AppendProperties, LenProperties
<1>i. PICK i \in BOOLEAN : i = TRUE
  OBVIOUS
<1>4. PICK a \in Seq(Written) : a = Marked(w, i)
  BY MarkedTyped
<1>5. PICK b \in Seq(Written) : b = Marked(u, i)
  BY <1>3, MarkedTyped
<1>6. PICK l \in Written : l = Raw(c, i)
  BY RawWritten DEF Texted
<1>7. Len(a) = n /\ \A j \in 1 .. n : a[j] = Raw(w[j], i)
  <2>1. DOMAIN a = 1 .. n /\ \A j \in 1 .. n : a[j] = Raw(w[j], i)
    BY <1>3, <1>4 DEF Marked
  <2> QED  BY <2>1, <1>2, LenProperties
<1>8. Len(b) = n + 1 /\ \A j \in 1 .. n + 1 : b[j] = Raw(u[j], i)
  <2>1. DOMAIN b = 1 .. n + 1 /\ \A j \in 1 .. n + 1 : b[j] = Raw(u[j], i)
    BY <1>3, <1>5 DEF Marked
  <2> QED  BY <2>1, <1>2, LenProperties
<1>9. PICK d : d = a \o <<l>>
  OBVIOUS
<1>10. d \in Seq(Written) /\ Len(d) = n + 1 /\ d[n + 1] = l /\ \A j \in 1 .. n : d[j] = a[j]
  <2>1. a \o <<l>> = Append(a, l)
    OBVIOUS
  <2>2. PICK t : t = Append(a, l)
    OBVIOUS
  <2>3. /\ t \in Seq(Written) /\ Len(t) = Len(a) + 1 /\ t[Len(a) + 1] = l
        /\ \A j \in 1 .. Len(a) : t[j] = a[j]
    BY <2>2, AppendProperties
  <2>4. d = t
    BY <1>9, <2>1, <2>2
  <2> QED  BY <1>7, <2>3, <2>4
<1>11. ASSUME NEW j \in 1 .. n + 1 PROVE b[j] = d[j]
  <2>1. j = n + 1 \/ j \in 1 .. n
    OBVIOUS
  <2> QED  BY <2>1, <1>3, <1>6, <1>7, <1>8, <1>10
<1>12. b = d
  BY <1>5, <1>8, <1>10, <1>11, SeqEqual
<1>13. l = Indented(c)
  BY <1>i, <1>6, Zenon DEF Indented
<1> QED  BY <1>i, <1>1, <1>4, <1>5, <1>9, <1>12, <1>13

LEMMA ValueLines ==
    ASSUME NEW p, NEW s, NEW k, k # NoName, NEW a \in Seq(Cleaned), a # <<>>, NEW x, Inside(x, p, s, k, a),
           NEW w \in Seq(Cleaned), \A i \in DOMAIN w : w[i] # Blank \/ opts.emptyLines = TRUE
    PROVE  \E y : Leads(x, Marked(w, TRUE), y) /\ Inside(y, p, s, k, a \o w)
<1> DEFINE Full(u) == \A i \in DOMAIN u : u[i] # Blank \/ opts.emptyLines = TRUE
           G == {u \in Seq(Cleaned) :
                   Full(u) => \E y : Leads(x, Marked(u, TRUE), y) /\ Inside(y, p, s, k, a \o u)}
<1>1. <<>> \in G
  <2>1. <<>> \in Seq(Cleaned)
    BY EmptySeq
  <2>2. Marked(<<>>, TRUE) = <<>>
    BY DEF Marked
  <2>3. a \o <<>> = a
    OBVIOUS
  <2> HIDE DEF Full
  <2> QED  BY <2>1, <2>2, <2>3, LeadsNone
<1>2. ASSUME NEW u \in G, NEW c \in Cleaned PROVE Append(u, c) \in G
  <2>1. u \in Seq(Cleaned) /\ (Full(u) => \E y : Leads(x, Marked(u, TRUE), y) /\ Inside(y, p, s, k, a \o u))
    OBVIOUS
  <2>2. PICK z : z = Append(u, c)
    OBVIOUS
  <2>3. /\ z \in Seq(Cleaned) /\ DOMAIN z = 1 .. Len(u) + 1 /\ z[Len(u) + 1] = c /\ Len(u) \in Nat
        /\ DOMAIN u = 1 .. Len(u) /\ \A j \in 1 .. Len(u) : z[j] = u[j]
    BY <2>1, <2>2, AppendProperties, LenProperties
  <2>4. ASSUME Full(z) PROVE \E y : Leads(x, Marked(z, TRUE), y) /\ Inside(y, p, s, k, a \o z)
    <3>1. Full(u) /\ (c # Blank \/ opts.emptyLines = TRUE)
      <4>1. \A j \in DOMAIN u : j \in DOMAIN z /\ z[j] = u[j]
        BY <2>3
      <4>2. Len(u) + 1 \in DOMAIN z
        BY <2>3
      <4> QED  BY <2>3, <2>4, <4>1, <4>2
    <3> HIDE DEF Full, G
    <3>2. PICK y : Leads(x, Marked(u, TRUE), y) /\ Inside(y, p, s, k, a \o u)
      BY <2>1, <3>1
    <3>3. PICK b : b = a \o u
      OBVIOUS
    <3>4. b \in Seq(Cleaned) /\ b # <<>> /\ a \o z = Append(b, c)
      <4>1. b \in Seq(Cleaned) /\ Len(b) = Len(a) + Len(u) /\ Len(a) \in Nat \ {0}
        BY <2>1, <3>3, ConcatProperties, LenProperties, EmptySeq
      <4>2. Len(b) # 0
        BY <2>3, <4>1
      <4>3. b # <<>>
        BY <4>1, <4>2, EmptySeq
      <4>4. a \o z = Append(b, c)
        BY <2>1, <2>2, <3>3
      <4> QED  BY <4>1, <4>3, <4>4
    <3>5. Inside(ReadOne(y, Indented(c)), p, s, k, Append(b, c))
      BY <3>1, <3>2, <3>3, <3>4, MoreLine
    <3>6. Leads(y, <<Indented(c)>>, ReadOne(y, Indented(c)))
      BY LeadsOne
    <3>7. Marked(u, TRUE) \in Seq(Written)
      BY <2>1, MarkedTyped
    <3>8. <<Indented(c)>> \in Seq(Written)
      <4>1. Indented(c) \in Written
        BY RawWritten DEF Texted
      <4> QED  BY <4>1
    <3>9. Leads(x, Marked(u, TRUE) \o <<Indented(c)>>, ReadOne(y, Indented(c)))
      BY <3>2, <3>6, <3>7, <3>8, LeadsOn
    <3>10. Marked(z, TRUE) = Marked(u, TRUE) \o <<Indented(c)>>
      BY <2>1, <2>2, MarkedMore
    <3> QED  BY <3>4, <3>5, <3>9, <3>10
  <2> HIDE DEF Full
  <2> QED  BY <2>2, <2>3, <2>4
<1>3. w \in G
  <2>1. G \in SUBSET Seq(Cleaned)
    OBVIOUS
  <2> HIDE DEF G
  <2>2. G = Seq(Cleaned)
    BY <1>1, <1>2, <2>1, ByAppending
  <2> QED  BY <2>2
<1> QED  BY <1>3

(* What write_to_string can write of an option, and what an empty line     *)
(* after it does no harm to.                                               *)
Fine(e) ==
    /\ e.key # NoName
    /\ e.value = NoValue => opts.noValue
    /\ e.value = Trimmed(e.value)
    /\ opts.emptyLines = TRUE \/ \A n \in 2 .. Len(e.value) : e.value[n] # Blank

Short(e) == opts.emptyLines = TRUE \/ Len(e.value) <= 1

FirstOf(v) == IF v = <<>> THEN Blank ELSE Head(v)

RestOf(v) == IF v = <<>> THEN <<>> ELSE Tail(v)

LEMMA HeadThenTail ==
    ASSUME NEW S, NEW v \in Seq(S), v # <<>>
    PROVE  Head(v) \in S /\ Tail(v) \in Seq(S) /\ <<Head(v)>> \o Tail(v) = v
<1>1. PICK h : h = Head(v)
  OBVIOUS
<1>2. PICK t : t = Tail(v)
  OBVIOUS
<1>3. h \in S /\ t \in Seq(S) /\ Len(t) = Len(v) - 1 /\ \A i \in 1 .. Len(t) : t[i] = v[i + 1]
  BY <1>1, <1>2, HeadTailProperties
<1>4. Len(v) \in Nat /\ Len(v) # 0 /\ h = v[1]
  BY <1>1, EmptySeq, LenProperties
<1>5. PICK u : u = <<h>> \o t
  OBVIOUS
<1>6. <<h>> \in Seq(S) /\ Len(<<h>>) = 1 /\ <<h>>[1] = h
  BY <1>3
<1>7. PICK o \in Seq(S) : o = <<h>> /\ Len(o) = 1 /\ o[1] = h
  BY <1>6, Zenon
<1>8. u \in Seq(S) /\ Len(u) = 1 + Len(t) /\ \A i \in 1 .. 1 + Len(t) : u[i] = IF i <= 1 THEN o[i] ELSE t[i - 1]
  BY <1>3, <1>5, <1>7, ConcatProperties
<1>9. Len(u) = Len(v)
  BY <1>3, <1>4, <1>8
<1>10. ASSUME NEW i \in 1 .. Len(v) PROVE u[i] = v[i]
  <2>1. CASE i = 1
    BY <1>3, <1>4, <1>7, <1>8, <2>1
  <2>2. CASE i # 1
    <3>1. i - 1 \in 1 .. Len(t) /\ ~(i <= 1) /\ (i - 1) + 1 = i /\ i \in 1 .. 1 + Len(t)
      BY <1>3, <1>4, <2>2
    <3>2. t[i - 1] = v[(i - 1) + 1]
      BY <1>3, <3>1
    <3> QED  BY <1>8, <3>1, <3>2
  <2> QED  BY <2>1, <2>2
<1>11. u = v
  BY <1>8, <1>9, <1>10, SeqEqual
<1> QED  BY <1>1, <1>2, <1>3, <1>5, <1>11

LEMMA FirstAndRest ==
    ASSUME NEW v \in Seq(Cleaned)
    PROVE  /\ FirstOf(v) \in Cleaned /\ RestOf(v) \in Seq(Cleaned)
           /\ v # <<>> => <<FirstOf(v)>> \o RestOf(v) = v
           /\ v = <<>> => <<FirstOf(v)>> \o RestOf(v) = <<Blank>>
           /\ Len(<<FirstOf(v)>> \o RestOf(v)) = IF v = <<>> THEN 1 ELSE Len(v)
           /\ Len(v) <= 1 => RestOf(v) = <<>>
           /\ DOMAIN RestOf(v) = 1 .. Len(v) - 1
           /\ \A i \in DOMAIN RestOf(v) : RestOf(v)[i] = v[i + 1]
<1>1. CASE v = <<>>
  <2>1. Blank \in Cleaned
    BY DEF Cleaned, Pieces
  <2>2. FirstOf(v) = Blank /\ RestOf(v) = <<>>
    BY <1>1 DEF FirstOf, RestOf
  <2>3. <<Blank>> \o <<>> = <<Blank>> /\ Len(<<Blank>>) = 1 /\ Len(v) = 0 /\ DOMAIN <<>> = 1 .. 0 - 1
    BY <1>1
  <2>4. <<>> \in Seq(Cleaned)
    BY EmptySeq
  <2>5. <<FirstOf(v)>> \o RestOf(v) = <<Blank>>
    BY <2>2, <2>3
  <2>6. FirstOf(v) \in Cleaned /\ RestOf(v) \in Seq(Cleaned)
    BY <2>1, <2>2, <2>4
  <2>7. Len(<<FirstOf(v)>> \o RestOf(v)) = 1
    BY <2>3, <2>5
  <2>8. DOMAIN RestOf(v) = 1 .. Len(v) - 1 /\ \A i \in DOMAIN RestOf(v) : FALSE
    BY <2>2, <2>3
  <2> QED  BY <1>1, <2>2, <2>5, <2>6, <2>7, <2>8
<1>2. CASE v # <<>>
  <2>1. PICK h : h = Head(v)
    OBVIOUS
  <2>2. PICK t : t = Tail(v)
    OBVIOUS
  <2>3. FirstOf(v) = h /\ RestOf(v) = t
    BY <1>2, <2>1, <2>2 DEF FirstOf, RestOf
  <2>4. h \in Cleaned /\ t \in Seq(Cleaned) /\ Len(t) = Len(v) - 1 /\ \A i \in 1 .. Len(t) : t[i] = v[i + 1]
    BY <1>2, <2>1, <2>2, HeadTailProperties
  <2>5. Len(v) \in Nat /\ Len(v) # 0 /\ h = v[1] /\ DOMAIN t = 1 .. Len(t)
    BY <1>2, <2>1, <2>4, EmptySeq, LenProperties
  <2>6. <<h>> \o t = v
    BY <1>2, <2>1, <2>2, HeadThenTail
  <2>7. Len(v) <= 1 => t = <<>>
    BY <2>4, <2>5, EmptySeq
  <2> QED  BY <1>2, <2>3, <2>4, <2>5, <2>6, <2>7
<1> QED  BY <1>1, <1>2

LEMMA WrittenItem ==
    ASSUME NEW e, NEW i \in BOOLEAN
    PROVE  /\ e.value = NoValue /\ opts.noValue => WriteItem(e, i) = <<Line(Word(e.key))>>
           /\ e.value = NoValue /\ ~opts.noValue => WriteItem(e, i) = <<Line(Option(e.key, Blank))>>
           /\ e.value # NoValue /\ e.value \in Seq(Cleaned) =>
                WriteItem(e, i) = <<Line(Option(e.key, FirstOf(e.value)))>> \o Marked(RestOf(e.value), i)
<1>1. PICK v : v = e.value
  OBVIOUS
<1>2. ASSUME v = NoValue, opts.noValue PROVE WriteItem(e, i) = <<Line(Word(e.key))>>
  <2>1. NoValue # <<>>
    BY DEF NoValue
  <2>2. WriteItem(e, i) = <<Line(IF opts.noValue THEN Word(e.key) ELSE Option(e.key, Blank))>>
    BY <1>1, <1>2, <2>1 DEF WriteItem
  <2>3. (IF opts.noValue THEN Word(e.key) ELSE Option(e.key, Blank)) = Word(e.key)
    BY <1>2, Zenon
  <2> QED  BY <2>2, <2>3, Zenon
<1>3. ASSUME v = NoValue, ~opts.noValue PROVE WriteItem(e, i) = <<Line(Option(e.key, Blank))>>
  BY <1>1, <1>3 DEF WriteItem
<1>4. ASSUME v # NoValue, v \in Seq(Cleaned)
      PROVE  WriteItem(e, i) = <<Line(Option(e.key, FirstOf(v)))>> \o Marked(RestOf(v), i)
  <2>1. PICK l : l = Line(Option(e.key, FirstOf(v)))
    OBVIOUS
  <2>2. CASE v = <<>>
    <3>1. FirstOf(v) = Blank /\ Marked(RestOf(v), i) = <<>>
      BY <2>2 DEF FirstOf, RestOf, Marked
    <3>2. WriteItem(e, i) = <<Line(Option(e.key, Blank))>>
      BY <1>1, <1>4, <2>2 DEF WriteItem
    <3>3. <<l>> \o <<>> = <<l>>
      OBVIOUS
    <3> QED  BY <2>1, <3>1, <3>2, <3>3
  <2>3. CASE v # <<>>
    <3>1. FirstOf(v) = Head(v) /\ RestOf(v) = Tail(v)
      BY <2>3 DEF FirstOf, RestOf
    <3>2. WriteItem(e, i) = <<Line(Option(e.key, Head(v)))>> \o [n \in DOMAIN Tail(v) |-> Raw(v[n + 1], i)]
      BY <1>1, <1>4, <2>3 DEF WriteItem
    <3>3. \A n \in DOMAIN Tail(v) : Tail(v)[n] = v[n + 1]
      BY <1>4, <2>3, HeadTailProperties, LenProperties
    <3>4. Marked(Tail(v), i) = [n \in DOMAIN Tail(v) |-> Raw(v[n + 1], i)]
      BY <3>3 DEF Marked
    <3> QED  BY <3>1, <3>2, <3>4
  <2> QED  BY <2>2, <2>3
<1> QED  BY <1>1, <1>2, <1>3, <1>4

LEMMA WriteItemTyped ==
    ASSUME NEW e \in Entries, NEW i \in BOOLEAN
    PROVE  WriteItem(e, i) \in Seq(Written)
<1>1. e.key \in Texts /\ e.value \in Stored
  BY DEF Entries, Texts
<1>2. \A l \in Written : <<l>> \in Seq(Written)
  OBVIOUS
<1>3. Blank \in Cleaned
  BY DEF Cleaned, Pieces
<1>4. CASE e.value = NoValue
  <2>1. Word(e.key) \in Texted /\ Option(e.key, Blank) \in Texted
    BY <1>1, <1>3 DEF Texted
  <2>2. Line(Word(e.key)) \in Written /\ Line(Option(e.key, Blank)) \in Written
    BY <2>1, RawWritten
  <2> QED  BY <1>2, <1>4, <2>2, WrittenItem
<1>5. CASE e.value # NoValue
  <2>1. e.value \in Seq(Cleaned)
    BY <1>1, <1>5 DEF Stored
  <2>2. FirstOf(e.value) \in Cleaned /\ RestOf(e.value) \in Seq(Cleaned)
    BY <2>1, FirstAndRest
  <2>3. Line(Option(e.key, FirstOf(e.value))) \in Written
    BY <1>1, <2>2, RawWritten DEF Texted
  <2>4. Marked(RestOf(e.value), i) \in Seq(Written)
    BY <2>2, MarkedTyped
  <2>5. PICK a \in Seq(Written) : a = <<Line(Option(e.key, FirstOf(e.value)))>>
    BY <1>2, <2>3
  <2>6. a \o Marked(RestOf(e.value), i) \in Seq(Written)
    BY <2>4, ConcatProperties
  <2> QED  BY <1>5, <2>1, <2>5, <2>6, WrittenItem
<1> QED  BY <1>4, <1>5

(* The lines of one option; more than one only if they are indented.       *)
Kept(e, i) == i = TRUE \/ Len(e.value) <= 1

LEMMA ItemLines ==
    ASSUME NEW p, NEW s, NEW e \in Entries, Lacks(p, s, e.key), Fine(e), NEW x, Between(x, p, s),
           NEW i \in BOOLEAN, Kept(e, i)
    PROVE  \E y : /\ Leads(x, WriteItem(e, i), y)
                  /\ Between(y, Having(p, s, e.key, e.value), s)
                  /\ Short(e) => Calm(y, Having(p, s, e.key, e.value), s)
<1>1. PICK k : k = e.key
  OBVIOUS
<1>2. PICK v \in Stored : v = e.value
  BY DEF Entries
<1>3. k \in Texts /\ Lacks(p, s, k) /\ k # NoName
  BY <1>1 DEF Entries, Texts, Lacks
<1>4. CASE v = NoValue
  <2>1. opts.noValue
    BY <1>2, <1>4 DEF Fine
  <2>2. WriteItem(e, i) = <<Line(Word(k))>>
    BY <1>1, <1>2, <1>4, <2>1, WrittenItem
  <2>3. Calm(ReadOne(x, Line(Word(k))), Having(p, s, k, NoValue), s)
    BY <1>3, <2>1, KeyLine
  <2>4. Leads(x, <<Line(Word(k))>>, ReadOne(x, Line(Word(k))))
    BY LeadsOne
  <2>5. PICK y : y = ReadOne(x, Line(Word(k)))
    OBVIOUS
  <2>6. Leads(x, WriteItem(e, i), y) /\ Calm(y, Having(p, s, k, v), s)
    BY <1>4, <2>2, <2>3, <2>4, <2>5
  <2>7. Between(y, Having(p, s, k, v), s)
    BY <2>6 DEF Calm
  <2> QED  BY <1>1, <1>2, <2>6, <2>7
<1>5. CASE v # NoValue
  <2>1. v \in Seq(Cleaned)
    BY <1>5 DEF Stored
  <2>2. PICK c \in Cleaned : c = FirstOf(v)
    BY <2>1, FirstAndRest
  <2>3. PICK w \in Seq(Cleaned) : w = RestOf(v)
    BY <2>1, FirstAndRest
  <2>4. WriteItem(e, i) = <<Line(Option(k, c))>> \o Marked(w, i)
    BY <1>1, <1>2, <1>5, <2>1, <2>2, <2>3, WrittenItem
  <2>5. Marked(w, i) = Marked(w, TRUE)
    <3>1. CASE i = TRUE
      BY <3>1
    <3>2. CASE Len(v) <= 1
      <4>1. w = <<>>
        BY <2>1, <2>3, <3>2, FirstAndRest
      <4> QED  BY <4>1 DEF Marked
    <3> QED  BY <1>2, <3>1, <3>2 DEF Kept
  <2>a. <<c>> \in Seq(Cleaned) /\ <<c>> # <<>>
    OBVIOUS
  <2>6. PICK a \in Seq(Cleaned) : a = <<c>>
    BY <2>a, Zenon
  <2>7. PICK z : z = ReadOne(x, Line(Option(k, c)))
    OBVIOUS
  <2>8. Inside(z, p, s, k, a)
    BY <1>3, <2>6, <2>7, OptionLine
  <2>9. Leads(x, <<Line(Option(k, c))>>, z)
    BY <2>7, LeadsOne
  <2>10. \A n \in DOMAIN w : w[n] # Blank \/ opts.emptyLines = TRUE
    <3> TAKE n \in DOMAIN w
    <3>1. w[n] = v[n + 1] /\ n \in 1 .. Len(v) - 1 /\ Len(v) \in Nat
      BY <2>1, <2>3, FirstAndRest, LenProperties
    <3>2. n + 1 \in 2 .. Len(v)
      BY <3>1
    <3>3. opts.emptyLines = TRUE \/ \A m \in 2 .. Len(v) : v[m] # Blank
      BY <1>2 DEF Fine
    <3> QED  BY <3>1, <3>2, <3>3
  <2>b. a # <<>>
    BY <2>6, <2>a
  <2>11. PICK y : Leads(z, Marked(w, TRUE), y) /\ Inside(y, p, s, k, a \o w)
    BY <1>3, <2>b, <2>8, <2>10, ValueLines
  <2>12. Leads(x, WriteItem(e, i), y)
    <3>1. Option(k, c) \in Texted
      BY <1>3 DEF Texted
    <3>2. Line(Option(k, c)) \in Written
      BY <3>1, RawWritten
    <3>3. PICK l \in Written : l = Line(Option(k, c))
      BY <3>2
    <3>4. <<l>> \in Seq(Written)
      OBVIOUS
    <3>5. PICK o \in Seq(Written) : o = <<l>>
      BY <3>4, Zenon
    <3>6. PICK m \in Seq(Written) : m = Marked(w, TRUE)
      BY MarkedTyped
    <3>7. Leads(x, o, z) /\ Leads(z, m, y)
      BY <2>9, <2>11, <3>3, <3>5, <3>6
    <3>8. Leads(x, o \o m, y)
      BY <3>7, LeadsOn
    <3> QED  BY <2>4, <2>5, <3>3, <3>5, <3>6, <3>8
  <2>13. PICK b : b = a \o w
    OBVIOUS
  <2>14. b \in Seq(Cleaned) /\ Len(b) = (IF v = <<>> THEN 1 ELSE Len(v))
         /\ (v # <<>> => b = v) /\ (v = <<>> => b = <<Blank>>)
    <3>1. b = <<FirstOf(v)>> \o RestOf(v)
      BY <2>2, <2>3, <2>6, <2>13
    <3>2. b \in Seq(Cleaned)
      BY <2>13, ConcatProperties
    <3> QED  BY <2>1, <3>1, <3>2, FirstAndRest
  <2>15. Trimmed(b) = v
    <3>1. v = Trimmed(v)
      BY <1>2 DEF Fine
    <3> QED  BY <2>14, <3>1, TrimmedBlankOnly
  <2>16. b # <<>>
    <3>1. Len(b) # 0
      BY <2>1, <2>14, EmptySeq, LenProperties
    <3> QED  BY <2>14, <3>1, EmptySeq
  <2>17. /\ Between(y, Having(p, s, k, v), s)
         /\ opts.emptyLines = TRUE \/ Len(b) = 1 => Calm(y, Having(p, s, k, v), s)
    BY <1>3, <2>11, <2>13, <2>14, <2>15, <2>16, InsideEnds
  <2>18. Short(e) => opts.emptyLines = TRUE \/ Len(b) = 1
    <3>1. Short(e) => opts.emptyLines = TRUE \/ Len(v) <= 1
      BY <1>2 DEF Short
    <3>2. Len(v) <= 1 => Len(b) = 1
      <4>1. Len(v) \in Nat /\ (v # <<>> => Len(v) # 0)
        BY <2>1, EmptySeq, LenProperties
      <4>2. Len(b) = (IF v = <<>> THEN 1 ELSE Len(v))
        BY <2>14
      <4>3. CASE v = <<>>
        BY <4>2, <4>3
      <4>4. CASE v # <<>>
        <5>1. Len(b) = Len(v)
          BY <4>2, <4>4
        <5>2. PICK n \in Nat : n = Len(v) /\ n # 0
          BY <4>1, <4>4
        <5>3. n <= 1 => n = 1
          BY <5>2
        <5> QED  BY <5>1, <5>2, <5>3
      <4> QED  BY <4>3, <4>4
    <3> QED  BY <3>1, <3>2
  <2> QED  BY <1>1, <1>2, <2>12, <2>17, <2>18
<1> QED  BY <1>4, <1>5

(* Of all options of a section, and the empty line after them.             *)
WritesOf(i) == [e \in Entries |-> WriteItem(e, i)]

ItemsFine(it, i) ==
    Unique(it) /\ \A n \in DOMAIN it : Fine(it[n]) /\ Kept(it[n], i)

LEMMA WritesTyped ==
    ASSUME NEW i \in BOOLEAN
    PROVE  WritesOf(i) \in Maps(Entries, Written)
BY WriteItemTyped DEF WritesOf, Maps

LEMMA FineBefore ==
    ASSUME NEW it \in Seq(Entries), NEW e \in Entries, NEW i \in BOOLEAN, ItemsFine(Append(it, e), i)
    PROVE  ItemsFine(it, i) /\ Fine(e) /\ Kept(e, i) /\ e.key \notin Listed(it)
<1>1. PICK u : u = Append(it, e)
  OBVIOUS
<1>2. PICK n \in Nat : n = Len(it)
  BY LenProperties
<1>3. /\ DOMAIN it = 1 .. n /\ DOMAIN u = 1 .. n + 1 /\ u[n + 1] = e /\ \A j \in 1 .. n : u[j] = it[j]
  BY <1>1, <1>2, AppendProperties, LenProperties
<1>4. Unique(u) /\ \A j \in DOMAIN u : Fine(u[j]) /\ Kept(u[j], i)
  BY <1>1 DEF ItemsFine
<1>5. n + 1 \in DOMAIN u /\ \A j \in DOMAIN it : j \in DOMAIN u /\ u[j] = it[j] /\ j # n + 1
  BY <1>3
<1>6. Unique(it)
  BY <1>4, <1>5 DEF Unique
<1>7. \A j \in DOMAIN it : Fine(it[j]) /\ Kept(it[j], i)
  BY <1>4, <1>5
<1>8. Fine(e) /\ Kept(e, i)
  BY <1>3, <1>4, <1>5
<1>9. e.key \notin Listed(it)
  <2>1. SUFFICES ASSUME NEW j \in DOMAIN it, it[j].key = e.key PROVE FALSE
    BY DEF Listed
  <2> QED  BY <1>3, <1>4, <1>5, <2>1 DEF Unique
<1> QED  BY <1>6, <1>7, <1>8, <1>9 DEF ItemsFine

LEMMA ItemsLines ==
    ASSUME NEW p, Sound(p), NEW s \in Homes(p), s # NoName, Items(p, s) = <<>>, NEW x, Calm(x, p, s),
           NEW i \in BOOLEAN, NEW it \in Seq(Entries), ItemsFine(it, i)
    PROVE  \E y : /\ Leads(x, Over(WritesOf(i), it), y)
                  /\ Between(y, WithItems(p, s, it), s)
                  /\ it = <<>> \/ Short(it[Len(it)]) => Calm(y, WithItems(p, s, it), s)
<1> DEFINE Holds(u) == \E y : /\ Leads(x, Over(WritesOf(i), u), y)
                              /\ Between(y, WithItems(p, s, u), s)
                              /\ u = <<>> \/ Short(u[Len(u)]) => Calm(y, WithItems(p, s, u), s)
           G == {u \in Seq(Entries) : ItemsFine(u, i) => Holds(u)}
<1>1. <<>> \in G
  <2>1. <<>> \in Seq(Entries)
    BY EmptySeq
  <2>2. PICK u \in Seq(Entries) : u = <<>>
    BY <2>1, Zenon
  <2>3. WithItems(p, s, u) = p
    BY <2>2, Itself
  <2>4. Over(WritesOf(i), u) = <<>>
    BY <2>2, OverNone
  <2>5. Leads(x, <<>>, x)
    BY LeadsNone
  <2>6. Between(x, p, s)
    BY DEF Calm
  <2>7. Holds(u)
    BY <2>3, <2>4, <2>5, <2>6
  <2> HIDE DEF Holds
  <2> QED  BY <2>1, <2>2, <2>7
<1>2. ASSUME NEW u \in G, NEW e \in Entries PROVE Append(u, e) \in G
  <2>1. u \in Seq(Entries) /\ (ItemsFine(u, i) => Holds(u))
    OBVIOUS
  <2>2. PICK z : z = Append(u, e)
    OBVIOUS
  <2>3. z \in Seq(Entries) /\ z[Len(z)] = e
    <3>1. z \in Seq(Entries) /\ Len(z) = Len(u) + 1 /\ z[Len(u) + 1] = e
      BY <2>1, <2>2, AppendProperties
    <3> QED  BY <3>1
  <2>4. ASSUME ItemsFine(z, i) PROVE Holds(z)
    <3>1. ItemsFine(u, i) /\ Fine(e) /\ Kept(e, i) /\ e.key \notin Listed(u)
      <4>1. u \in Seq(Entries) /\ ItemsFine(Append(u, e), i)
        BY <2>1, <2>2, <2>4
      <4> HIDE DEF Holds, G
      <4> QED  BY <4>1, FineBefore
    <3>2. Holds(u)
      BY <2>1, <3>1
    <3>3. PICK y : Leads(x, Over(WritesOf(i), u), y) /\ Between(y, WithItems(p, s, u), s)
      BY <3>2
    <3> HIDE DEF Holds, G
    <3>4. Unique(u)
      BY <3>1 DEF ItemsFine
    <3>5. PICK q : q = WithItems(p, s, u)
      OBVIOUS
    <3>6. Sound(q) /\ s \in Homes(q) /\ Items(q, s) = u
      BY <2>1, <3>4, <3>5, Replaced DEF Homes
    <3>7. Lacks(q, s, e.key)
      <4>1. e.key \in Texts /\ e.key # NoName
        BY <3>1 DEF Entries, Texts, Fine
      <4> QED  BY <3>1, <3>6, <4>1 DEF Lacks
    <3>8. PICK t : /\ Leads(y, WriteItem(e, i), t)
                   /\ Between(t, Having(q, s, e.key, e.value), s)
                   /\ Short(e) => Calm(t, Having(q, s, e.key, e.value), s)
      BY <3>1, <3>3, <3>5, <3>7, ItemLines
    <3>9. Having(q, s, e.key, e.value) = WithItems(p, s, z)
      <4>1. Entry(e.key, e.value) = e
        BY DEF Entry, Entries
      <4>2. Having(q, s, e.key, e.value) = WithItems(q, s, z)
        BY <2>2, <3>6, <4>1 DEF Having
      <4> QED  BY <2>1, <2>3, <3>5, <4>2, Twice
    <3>10. Leads(x, Over(WritesOf(i), z), t)
      <4>1. WritesOf(i) \in Maps(Entries, Written)
        BY WritesTyped
      <4>2. Over(WritesOf(i), u) \in Seq(Written)
        BY <2>1, <4>1, OverMap
      <4>3. WritesOf(i)[e] = WriteItem(e, i)
        BY DEF WritesOf
      <4>4. Over(WritesOf(i), z) = Over(WritesOf(i), u) \o WriteItem(e, i)
        <5>1. PICK h \in Maps(Entries, Written) : h = WritesOf(i)
          BY <4>1
        <5>2. Over(h, Append(u, e)) = Over(h, u) \o h[e]
          BY <2>1, OverAppend
        <5> QED  BY <2>2, <4>3, <5>1, <5>2
      <4>5. WriteItem(e, i) \in Seq(Written)
        BY WriteItemTyped
      <4> QED  BY <3>3, <3>8, <4>2, <4>4, <4>5, LeadsOn
    <3> QED  BY <2>2, <2>3, <3>8, <3>9, <3>10 DEF Holds
  <2> HIDE DEF Holds
  <2> QED  BY <2>2, <2>3, <2>4
<1>3. it \in G
  <2>1. G \in SUBSET Seq(Entries)
    OBVIOUS
  <2> HIDE DEF G
  <2>2. G = Seq(Entries)
    BY <1>1, <1>2, <2>1, ByAppending
  <2> QED  BY <2>2
<1> QED  BY <1>3

LEMMA WrittenItems ==
    ASSUME NEW i \in BOOLEAN, NEW it \in Seq(Entries)
    PROVE  /\ WriteItems(it, i) = Over(WritesOf(i), it) \o <<Line(Blank)>>
           /\ Over(WritesOf(i), it) \in Seq(Written) /\ <<Line(Blank)>> \in Seq(Written)
           /\ WriteItems(it, i) \in Seq(Written)
<1>1. \A n \in DOMAIN it : WritesOf(i)[it[n]] = WriteItem(it[n], i)
  BY DEF WritesOf
<1>2. [n \in DOMAIN it |-> WritesOf(i)[it[n]]] = [n \in DOMAIN it |-> WriteItem(it[n], i)]
  BY <1>1
<1>3. WriteItems(it, i) = Over(WritesOf(i), it) \o <<Line(Blank)>>
  BY <1>2 DEF WriteItems, Over
<1>4. Over(WritesOf(i), it) \in Seq(Written)
  BY WritesTyped, OverMap
<1>5. Blank \in Texted
  BY DEF Cleaned, Pieces, Texted
<1>6. Line(Blank) \in Written
  BY <1>5, RawWritten
<1>7. PICK l \in Written : l = Line(Blank)
  BY <1>6
<1>8. <<l>> \in Seq(Written)
  OBVIOUS
<1>9. Over(WritesOf(i), it) \o <<l>> \in Seq(Written)
  BY <1>4, <1>8, ConcatProperties
<1> QED  BY <1>3, <1>4, <1>7, <1>8, <1>9

LEMMA SectionLines ==
    ASSUME opts \in ParseOptions,
           NEW p, Sound(p), NEW s \in Homes(p), s # NoName, Items(p, s) = <<>>, NEW x, Calm(x, p, s),
           NEW i \in BOOLEAN, NEW it \in Seq(Entries), ItemsFine(it, i), it = <<>> \/ Short(it[Len(it)])
    PROVE  \E y : Leads(x, WriteItems(it, i), y) /\ Calm(y, WithItems(p, s, it), s)
<1>1. PICK y : Leads(x, Over(WritesOf(i), it), y) /\ Calm(y, WithItems(p, s, it), s)
  BY ItemsLines
<1>2. Calm(ReadOne(y, Line(Blank)), WithItems(p, s, it), s)
  BY <1>1, BlankLine
<1>3. Leads(y, <<Line(Blank)>>, ReadOne(y, Line(Blank)))
  BY LeadsOne
<1>4. PICK a \in Seq(Written) : a = Over(WritesOf(i), it)
  BY WrittenItems
<1>5. PICK b \in Seq(Written) : b = <<Line(Blank)>>
  BY WrittenItems
<1>6. Leads(x, a \o b, ReadOne(y, Line(Blank)))
  BY <1>1, <1>3, <1>4, <1>5, LeadsOn
<1> QED  BY <1>2, <1>4, <1>5, <1>6, WrittenItems

(* An object is what its defaults and its list of sections make it.        *)
Distinct(ss) == \A i, j \in DOMAIN ss : ss[i].name = ss[j].name => i = j

NamesOf(ss) == {ss[i].name : i \in DOMAIN ss}

ObjectOf(d, ss) ==
    [defaults |-> d, sections |-> ss,
     index |-> [n \in NamesOf(ss) |-> CHOOSE i \in DOMAIN ss : ss[i].name = n]]

LEMMA ObjectIs ==
    ASSUME NEW p, Sound(p)
    PROVE  /\ p = ObjectOf(p.defaults, p.sections)
           /\ Distinct(p.sections) /\ DOMAIN p.index = NamesOf(p.sections)
<1>0. /\ p \in Objects /\ p.sections \in Seq(Sections) /\ p.index \in Indices
      /\ p = [defaults |-> p.defaults, sections |-> p.sections, index |-> p.index]
  BY DEF Sound, Objects
<1>1. PICK ss : ss = p.sections
  OBVIOUS
<1>2. PICK at : at = p.index
  OBVIOUS
<1>3. /\ \A n \in DOMAIN at : at[n] \in DOMAIN ss /\ ss[at[n]].name = n
      /\ \A i \in DOMAIN ss : ss[i].name \in DOMAIN at /\ at[ss[i].name] = i
  BY <1>1, <1>2 DEF Sound
<1>4. DOMAIN at = NamesOf(ss)
  BY <1>3 DEF NamesOf
<1>5. at = [n \in DOMAIN at |-> at[n]]
  BY <1>0, <1>2 DEF Indices
<1>6. ASSUME NEW n \in DOMAIN at PROVE at[n] = CHOOSE i \in DOMAIN ss : ss[i].name = n
  <2>1. \A i \in DOMAIN ss : ss[i].name = n => i = at[n]
    BY <1>3
  <2> QED  BY <1>3, <2>1
<1>7. at = [n \in NamesOf(ss) |-> CHOOSE i \in DOMAIN ss : ss[i].name = n]
  BY <1>4, <1>5, <1>6
<1>8. Distinct(ss)
  <2> SUFFICES ASSUME NEW i \in DOMAIN ss, NEW j \in DOMAIN ss, ss[i].name = ss[j].name PROVE i = j
    BY DEF Distinct
  <2> QED  BY <1>3
<1> QED  BY <1>0, <1>1, <1>2, <1>4, <1>7, <1>8 DEF ObjectOf

LEMMA Built ==
    ASSUME NEW d, NEW ss, Sound(ObjectOf(d, ss)), NEW e \in Sections,
           e.name \notin Homes(ObjectOf(d, ss)), Unique(e.items)
    PROVE  /\ WithItems(NewSection(ObjectOf(d, ss), e.name), e.name, e.items) = ObjectOf(d, Append(ss, e))
           /\ Sound(ObjectOf(d, Append(ss, e)))
<1>1. PICK p : p = ObjectOf(d, ss)
  OBVIOUS
<1>2. PICK s \in STRING : s = e.name
  BY DEF Sections
<1>3. PICK it \in Seq(Entries) : it = e.items
  BY DEF Sections
<1>4. p.defaults = d /\ p.sections = ss
  BY <1>1 DEF ObjectOf
<1>5. Sound(p) /\ s \notin Homes(p) /\ Unique(it)
  BY <1>1, <1>2, <1>3
<1>6. PICK q : q = NewSection(p, s)
  OBVIOUS
<1>7. Sound(q) /\ DOMAIN q.index = DOMAIN p.index \cup {s}
  BY <1>5, <1>6, Added
<1>8. s \in Homes(q) /\ s # Default
  BY <1>5, <1>7 DEF Homes
<1>9. PICK r : r = WithItems(q, s, it)
  OBVIOUS
<1>10. Sound(r)
  BY <1>5, <1>7, <1>8, <1>9, Replaced
<1>11. PICK f : f = [name |-> s, items |-> <<>>]
  OBVIOUS
<1>12. PICK n \in Nat : n = Len(ss)
  <2>1. ss \in Seq(Sections)
    BY <1>4, <1>5 DEF Sound, Objects
  <2> QED  BY <2>1, LenProperties
<1>13. PICK t : t = Append(ss, f)
  OBVIOUS
<1>14. ss \in Seq(Sections) /\ f \in Sections
  BY <1>4, <1>5, <1>11 DEF Sound, Objects, Sections
<1>15. /\ t \in Seq(Sections) /\ DOMAIN t = 1 .. n + 1 /\ t[n + 1] = f /\ \A i \in 1 .. n : t[i] = ss[i]
  BY <1>12, <1>13, <1>14, AppendProperties, LenProperties
<1>16. q.defaults = d /\ q.sections = t /\ q.index[s] = n + 1
  <2>1. p = [defaults |-> p.defaults, sections |-> p.sections, index |-> p.index]
    BY <1>5 DEF Sound, Objects
  <2>2. PICK at : at = [x \in DOMAIN p.index \cup {s} |-> IF x = s THEN Len(p.sections) + 1 ELSE p.index[x]]
    OBVIOUS
  <2>3. q = [p EXCEPT !.sections = t, !.index = at]
    BY <1>4, <1>6, <1>11, <1>13, <2>2, Zenon DEF NewSection
  <2>4. q.defaults = p.defaults /\ q.sections = t /\ q.index = at
    BY <2>1, <2>3
  <2>5. at[s] = n + 1
    BY <1>4, <1>12, <2>2
  <2> QED  BY <1>4, <2>4, <2>5
<1>17. PICK u : u = [t EXCEPT ![n + 1].items = it]
  OBVIOUS
<1>18. r.defaults = d /\ r.sections = u
  <2>1. q = [defaults |-> q.defaults, sections |-> q.sections, index |-> q.index]
    BY <1>7 DEF Sound, Objects
  <2>2. r = [q EXCEPT !.sections[n + 1].items = it]
    BY <1>8, <1>9, <1>16 DEF WithItems
  <2> QED  BY <1>16, <1>17, <2>1, <2>2
<1>19. u = Append(ss, e)
  <2>1. e = [name |-> s, items |-> it]
    BY <1>2, <1>3 DEF Sections
  <2>2. u = [t EXCEPT ![n + 1] = e]
    <3>1. u = [t EXCEPT ![n + 1] = [t[n + 1] EXCEPT !.items = it]]
      BY <1>17, Zenon
    <3>2. [t[n + 1] EXCEPT !.items = it] = e
      BY <1>11, <1>15, <2>1
    <3> QED  BY <3>1, <3>2, Zenon
  <2>3. DOMAIN u = 1 .. n + 1 /\ u[n + 1] = e /\ \A i \in 1 .. n : u[i] = ss[i]
    BY <1>15, <2>2
  <2>4. PICK w : w = Append(ss, e)
    OBVIOUS
  <2>5. w \in Seq(Sections) /\ Len(w) = n + 1 /\ w[n + 1] = e /\ \A i \in 1 .. n : w[i] = ss[i]
    BY <1>12, <1>14, <2>4, AppendProperties
  <2>6. u \in Seq(Sections)
    BY <1>10, <1>18 DEF Sound, Objects
  <2>7. Len(u) = n + 1
    BY <1>12, <2>3, <2>6, LenProperties
  <2>8. \A i \in 1 .. n + 1 : u[i] = w[i]
    <3> TAKE i \in 1 .. n + 1
    <3>1. i = n + 1 \/ i \in 1 .. n
      OBVIOUS
    <3> QED  BY <2>3, <2>5, <3>1
  <2>9. u = w
    BY <2>5, <2>6, <2>7, <2>8, SeqEqual
  <2> QED  BY <2>4, <2>9
<1>20. r = ObjectOf(d, Append(ss, e))
  BY <1>10, <1>18, <1>19, ObjectIs
<1> QED  BY <1>1, <1>2, <1>3, <1>6, <1>9, <1>10, <1>20

-----------------------------------------------------------------------------
(* What write_to_string can write of a section.                            *)
SectionFine(e) ==
    /\ e \in Sections /\ e.name # NoName /\ e.name # Default
    /\ ItemsFine(e.items, TRUE)
    /\ e.items = <<>> \/ Short(e.items[Len(e.items)])

LEMMA NamesApart == NoName # Unnamed /\ NoName # Default /\ Unnamed # Default
  BY Zenon DEF NoName, Unnamed, Default

LEMMA NamedSection ==
    ASSUME opts \in ParseOptions, NEW p, Sound(p), NEW x, NEW sec, Calm(x, p, sec),
           NEW e, SectionFine(e), e.name # Unnamed, e.name \notin Homes(p)
    PROVE  \E y : /\ Leads(x, WriteSection(e), y)
                  /\ Calm(y, WithItems(NewSection(p, e.name), e.name, e.items), e.name)
<1>1. PICK s \in STRING : s = e.name
  BY DEF SectionFine, Sections
<1>2. PICK it \in Seq(Entries) : it = e.items
  BY DEF SectionFine, Sections
<1>t. PICK i \in BOOLEAN : i = TRUE
  OBVIOUS
<1>3. ItemsFine(it, i) /\ (it = <<>> \/ Short(it[Len(it)])) /\ s # NoName
  BY <1>t, <1>1, <1>2 DEF SectionFine
<1>4. PICK q : q = NewSection(p, s)
  OBVIOUS
<1>5. Sound(q) /\ DOMAIN q.index = DOMAIN p.index \cup {s} /\ Items(q, s) = <<>>
  BY <1>1, <1>4, Added
<1>6. s \in Homes(q)
  BY <1>5 DEF Homes
<1>7. PICK z : z = ReadOne(x, Line(Header(s)))
  OBVIOUS
<1>8. Calm(z, q, s)
  <2>1. ~HasSection(p, s)
    BY <1>1, HomeIs
  <2>2. Between(x, p, sec)
    BY DEF Calm
  <2>3. s \in Texts
    BY DEF Texts
  <2> QED  BY <1>3, <1>4, <1>7, <2>1, <2>2, <2>3, HeaderLine
<1>9. PICK y : Leads(z, WriteItems(it, i), y) /\ Calm(y, WithItems(q, s, it), s)
  BY <1>3, <1>5, <1>6, <1>8, SectionLines
<1>10. Leads(x, <<Line(Header(s))>>, z)
  BY <1>7, LeadsOne
<1>11. PICK l \in Written : l = Line(Header(s))
  <2>1. Header(s) \in Texted
    BY DEF Texted, Texts
  <2>2. Line(Header(s)) \in Written
    BY <2>1, RawWritten
  <2> QED  BY <2>2
<1>12. <<l>> \in Seq(Written)
  OBVIOUS
<1>13. PICK a \in Seq(Written) : a = <<l>>
  BY <1>12, Zenon
<1>14. PICK b \in Seq(Written) : b = WriteItems(it, i)
  BY WrittenItems
<1>15. Leads(x, a \o b, y)
  <2>1. Leads(x, a, z) /\ Leads(z, b, y)
    BY <1>9, <1>10, <1>11, <1>13, <1>14
  <2> QED  BY <2>1, LeadsOn
<1>16. WriteSection(e) = a \o b
  <2>1. WriteSection(e) = <<Line(Header(s))>> \o WriteItems(it, TRUE)
    BY <1>1, <1>2 DEF WriteSection
  <2> QED  BY <1>t, <1>11, <1>13, <1>14, <2>1
<1> QED  BY <1>1, <1>2, <1>4, <1>9, <1>15, <1>16

(* The first line that is written of an option starts it.                  *)
LEMMA FirstLine ==
    ASSUME NEW e \in Entries, NEW i \in BOOLEAN
    PROVE  /\ WriteItem(e, i) # <<>>
           /\ \E c : WriteItem(e, i)[1] = Line(c) /\ c # Blank /\ c.kind # "header"
<1>1. PICK v \in Stored : v = e.value
  BY DEF Entries
<1>2. \A l : <<l>> # <<>> /\ <<l>>[1] = l
  OBVIOUS
<1>3. Word(e.key) # Blank /\ Word(e.key).kind # "header"
  BY DEF Word, Blank
<1>4. \A c : Option(e.key, c) # Blank /\ Option(e.key, c).kind # "header"
  BY DEF Option, Blank
<1>5. CASE v = NoValue /\ opts.noValue
  <2>1. WriteItem(e, i) = <<Line(Word(e.key))>>
    BY <1>1, <1>5, WrittenItem
  <2> QED  BY <1>2, <1>3, <2>1
<1>6. CASE v = NoValue /\ ~opts.noValue
  <2>1. WriteItem(e, i) = <<Line(Option(e.key, Blank))>>
    BY <1>1, <1>6, WrittenItem
  <2> QED  BY <1>2, <1>4, <2>1
<1>7. CASE v # NoValue
  <2>1. v \in Seq(Cleaned)
    BY <1>7 DEF Stored
  <2>2. PICK l : l = Line(Option(e.key, FirstOf(v)))
    OBVIOUS
  <2>3. PICK m \in Seq(Written) : m = Marked(RestOf(v), i)
    BY <2>1, FirstAndRest, MarkedTyped
  <2>4. WriteItem(e, i) = <<l>> \o m
    BY <1>1, <1>7, <2>1, <2>2, <2>3, WrittenItem
  <2>5. l \in Written
    <3>0. e.key \in Texts /\ FirstOf(v) \in Cleaned
      BY <2>1, FirstAndRest DEF Entries, Texts
    <3>1. Option(e.key, FirstOf(v)) \in Texted
      BY <3>0 DEF Texted
    <3> QED  BY <2>2, <3>1, RawWritten
  <2>6. <<l>> \in Seq(Written) /\ Len(<<l>>) = 1 /\ <<l>>[1] = l
    BY <2>5
  <2>7. PICK o \in Seq(Written) : o = <<l>> /\ Len(o) = 1 /\ o[1] = l
    BY <2>6, Zenon
  <2>8. PICK u : u = o \o m
    OBVIOUS
  <2>9. u \in Seq(Written) /\ Len(u) = 1 + Len(m) /\ \A j \in 1 .. 1 + Len(m) : u[j] = IF j <= 1 THEN o[j] ELSE m[j - 1]
    BY <2>7, <2>8, ConcatProperties
  <2>10. 1 \in 1 .. 1 + Len(m) /\ 1 + Len(m) # 0
    BY LenProperties
  <2>11. u[1] = l /\ u # <<>>
    BY <2>7, <2>9, <2>10, EmptySeq
  <2> QED  BY <1>4, <2>2, <2>4, <2>7, <2>8, <2>11
<1> QED  BY <1>1, <1>5, <1>6, <1>7

LEMMA FirstOfItems ==
    ASSUME NEW it \in Seq(Entries), it # <<>>, NEW i \in BOOLEAN
    PROVE  /\ WriteItems(it, i) # <<>>
           /\ \E c : WriteItems(it, i)[1] = Line(c) /\ c # Blank /\ c.kind # "header"
<1>1. PICK e \in Entries : e = Head(it)
  BY HeadThenTail
<1>2. PICK t \in Seq(Entries) : t = Tail(it)
  BY HeadThenTail
<1>3. <<e>> \o t = it
  BY <1>1, <1>2, HeadThenTail
<1>4. PICK h \in Maps(Entries, Written) : h = WritesOf(i)
  BY WritesTyped
<1>5. PICK a \in Seq(Written) : a = WriteItem(e, i)
  BY WriteItemTyped
<1>6. PICK b \in Seq(Written) : b = Over(h, t)
  BY OverMap
<1>7. <<e>> \in Seq(Entries)
  OBVIOUS
<1>8. PICK o \in Seq(Entries) : o = <<e>>
  BY <1>7, Zenon
<1>9. Over(h, it) = a \o b
  <2>1. Over(h, o \o t) = Over(h, o) \o Over(h, t)
    BY OverConcat
  <2>2. Over(h, <<e>>) = h[e]
    BY OverOne
  <2>3. h[e] = a
    BY <1>4, <1>5 DEF WritesOf
  <2> QED  BY <1>3, <1>6, <1>8, <2>1, <2>2, <2>3
<1>10. PICK c \in Seq(Written) : c = <<Line(Blank)>>
  BY WrittenItems
<1>11. WriteItems(it, i) = (a \o b) \o c
  BY <1>4, <1>9, <1>10, WrittenItems
<1>12. a # <<>> /\ \E d : a[1] = Line(d) /\ d # Blank /\ d.kind # "header"
  BY <1>5, FirstLine
<1>13. 1 \in 1 .. Len(a) /\ Len(a) \in Nat /\ Len(b) \in Nat /\ Len(c) \in Nat
  BY <1>12, EmptySeq, LenProperties
<1>14. PICK u \in Seq(Written) : u = a \o b
  BY ConcatProperties
<1>15. u \in Seq(Written) /\ Len(u) = Len(a) + Len(b) /\ u[1] = a[1]
  <2>1. u \in Seq(Written) /\ Len(u) = Len(a) + Len(b)
        /\ \A j \in 1 .. Len(a) + Len(b) : u[j] = IF j <= Len(a) THEN a[j] ELSE b[j - Len(a)]
    BY <1>14, ConcatProperties
  <2>2. 1 \in 1 .. Len(a) + Len(b) /\ 1 <= Len(a)
    BY <1>13
  <2> QED  BY <2>1, <2>2
<1>16. PICK w : w = u \o c
  OBVIOUS
<1>17. w[1] = u[1] /\ w # <<>>
  <2>1. w \in Seq(Written) /\ Len(w) = Len(u) + Len(c)
        /\ \A j \in 1 .. Len(u) + Len(c) : w[j] = IF j <= Len(u) THEN u[j] ELSE c[j - Len(u)]
    BY <1>16, ConcatProperties
  <2>2. 1 \in 1 .. Len(u) + Len(c) /\ 1 <= Len(u) /\ Len(u) + Len(c) # 0
    BY <1>13, <1>15
  <2> QED  BY <2>1, <2>2, EmptySeq
<1> QED  BY <1>11, <1>12, <1>14, <1>15, <1>16, <1>17

(* Before any section: the start of the text.                              *)
Start == <<Empty, Reader>>

LEMMA StartIsCalm ==
    /\ Calm(Start, Empty, NoName) /\ Sound(Empty)
    /\ Empty = ObjectOf(<<>>, <<>>) /\ DOMAIN Empty.index = {} /\ Items(Empty, Default) = <<>>
<1>1. Start[1] = Empty /\ Start[2] = Reader
  BY DEF Start
<1>2. Reader \in Readers /\ Reader.section = NoName /\ Reader.multi = FALSE
  BY AtRest DEF Tracks
<1>3. Reader.errors = FALSE /\ Reader.thrown = FALSE
  BY DEF Reader
<1>4. Calm(Start, Empty, NoName)
  BY <1>1, <1>2, <1>3 DEF Calm, Between
<1>5. Sound(Empty)
  BY EmptyObject
<1>6. Empty.defaults = <<>> /\ Empty.sections = <<>> /\ Empty.index = <<>>
  BY DEF Empty
<1>7. Items(Empty, Default) = <<>>
  BY <1>6 DEF Items
<1>8. Empty = ObjectOf(<<>>, <<>>)
  BY <1>5, <1>6, ObjectIs
<1>9. DOMAIN Empty.index = {}
  BY <1>6
<1> QED  BY <1>4, <1>5, <1>7, <1>8, <1>9

LEMMA UnnamedSection ==
    ASSUME opts \in ParseOptions, opts.unnamed, NEW e, SectionFine(e), e.name = Unnamed, e.items # <<>>
    PROVE  \E y : /\ Leads(Start, WriteSection(e), y)
                  /\ Calm(y, WithItems(NewSection(Empty, e.name), e.name, e.items), e.name)
<1>1. PICK s \in STRING : s = e.name /\ s = Unnamed
  BY DEF SectionFine, Sections
<1>2. PICK it \in Seq(Entries) : it = e.items
  BY DEF SectionFine, Sections
<1>t. PICK i \in BOOLEAN : i = TRUE
  OBVIOUS
<1>3. ItemsFine(it, i) /\ (it = <<>> \/ Short(it[Len(it)])) /\ s # NoName /\ s # Default /\ it # <<>>
  BY <1>t, <1>1, <1>2 DEF SectionFine
<1>4. PICK q : q = NewSection(Empty, s)
  OBVIOUS
<1>5. Sound(q) /\ DOMAIN q.index = {s} /\ Items(q, s) = <<>>
  <2>1. s \notin Homes(Empty)
    BY <1>3, StartIsCalm DEF Homes
  <2>2. Sound(q) /\ DOMAIN q.index = DOMAIN Empty.index \cup {s} /\ Items(q, s) = <<>>
    BY <1>4, <2>1, StartIsCalm, Added
  <2> QED  BY <2>2, StartIsCalm
<1>6. s \in Homes(q)
  BY <1>5 DEF Homes
<1>7. PICK r : r = [Reader EXCEPT !.section = s]
  OBVIOUS
<1>8. /\ r \in Readers /\ r.section = s /\ r.multi = FALSE /\ r.errors = FALSE /\ r.thrown = FALSE
  <2>1. Reader \in Readers /\ Reader.multi = FALSE
    BY AtRest DEF Tracks
  <2>2. Reader.errors = FALSE /\ Reader.thrown = FALSE
    BY DEF Reader
  <2> QED  BY <1>7, <2>1, <2>2 DEF Readers
<1>9. PICK z : z = <<q, r>>
  OBVIOUS
<1>10. Calm(z, q, s)
  BY <1>8, <1>9 DEF Calm, Between
<1>11. PICK y : Leads(z, WriteItems(it, i), y) /\ Calm(y, WithItems(q, s, it), s)
  BY <1>3, <1>5, <1>6, <1>10, SectionLines
<1>12. PICK ls \in Seq(Written) : ls = WriteItems(it, i)
  BY WrittenItems
<1>13. PICK c : ls # <<>> /\ ls[1] = Line(c) /\ c # Blank /\ c.kind # "header"
  BY <1>3, <1>12, FirstOfItems
<1>14. ReadOne(Start, Line(c)) = ReadOne(z, Line(c))
  <2>1. PICK l : l = Line(c)
    OBVIOUS
  <2>2. l.clean = c
    BY <2>1 DEF Line, Raw
  <2>3. ReadOne(Start, l) = ReadNew(Empty, Reader, c)
    <3>1. Reader.multi = FALSE /\ Reader.thrown = FALSE
      BY DEF Reader
    <3>2. ReadOne(Start, l) = ParseLine(Empty, Reader, l)
      BY <3>1 DEF ReadOne, Start
    <3>3. ParseLine(Empty, Reader, l) = ReadNew(Empty, Reader, c)
      BY <1>13, <2>2, <3>1 DEF ParseLine
    <3> QED  BY <3>2, <3>3
  <2>4. ReadOne(z, l) = ReadNew(q, r, c)
    <3>1. z[1] = q /\ z[2] = r
      BY <1>9
    <3>2. ReadOne(z, l) = ParseLine(q, r, l)
      BY <1>8, <3>1 DEF ReadOne
    <3>3. ParseLine(q, r, l) = ReadNew(q, r, c)
      BY <1>8, <1>13, <2>2 DEF ParseLine
    <3> QED  BY <3>2, <3>3
  <2>5. ReadNew(q, r, c) = ReadOption(q, r, c)
    BY <1>3, <1>8, <1>13 DEF ReadNew
  <2>6. ReadNew(Empty, Reader, c) = OutsideSection(Empty, Reader, c)
    <3>1. Reader.section = NoName
      BY AtRest
    <3> QED  BY <1>13, <3>1 DEF ReadNew
  <2>7. OutsideSection(Empty, Reader, c) = ReadOption(q, r, c)
    <3>1. ~HasSection(Empty, Unnamed)
      BY <1>1, <1>3, StartIsCalm DEF HasSection
    <3>2. q = NewSection(Empty, Unnamed) /\ r = [Reader EXCEPT !.section = Unnamed]
      BY <1>1, <1>4, <1>7
    <3> QED  BY <3>1, <3>2 DEF OutsideSection
  <2> QED  BY <2>1, <2>3, <2>4, <2>5, <2>6, <2>7
<1>15. Leads(Start, ls, y)
  <2>1. Leads(z, ls, y) /\ ReadOne(Start, ls[1]) = ReadOne(z, ls[1])
    BY <1>11, <1>12, <1>13, <1>14
  <2> QED  BY <1>13, <2>1, LeadsAlike
<1>16. WriteSection(e) = ls
  <2>1. WriteSection(e) = <<>> \o WriteItems(it, TRUE)
    BY <1>1, <1>2 DEF WriteSection
  <2>2. <<>> \o ls = ls
    OBVIOUS
  <2> QED  BY <1>t, <1>12, <2>1, <2>2
<1> QED  BY <1>1, <1>2, <1>4, <1>11, <1>15, <1>16

(* The section of the defaults, which is not written if it is empty.       *)
DefaultLines(d) == IF d = <<>> THEN <<>> ELSE <<Line(Header(Default))>> \o WriteItems(d, FALSE)

DefaultsFine(d) == d \in Seq(Entries) /\ ItemsFine(d, FALSE)

LEMMA DefaultSection ==
    ASSUME opts \in ParseOptions, NEW d, DefaultsFine(d)
    PROVE  /\ DefaultLines(d) \in Seq(Written)
           /\ \E y, sec : Leads(Start, DefaultLines(d), y) /\ Calm(y, ObjectOf(d, <<>>), sec)
           /\ Sound(ObjectOf(d, <<>>))
<1>1. CASE d = <<>>
  <2>1. DefaultLines(d) = <<>>
    BY <1>1 DEF DefaultLines
  <2>2. <<>> \in Seq(Written)
    BY EmptySeq
  <2> QED  BY <1>1, <2>1, <2>2, StartIsCalm, LeadsNone
<1>2. CASE d # <<>>
  <2>t. PICK i \in BOOLEAN : i = FALSE
    OBVIOUS
  <2>1. d \in Seq(Entries) /\ ItemsFine(d, i) /\ Unique(d)
    BY <2>t DEF DefaultsFine, ItemsFine
  <2>2. Short(d[Len(d)])
    <3>1. Len(d) \in DOMAIN d
      BY <1>2, <2>1, EmptySeq, LenProperties
    <3>2. Kept(d[Len(d)], FALSE)
      BY <3>1 DEF DefaultsFine, ItemsFine
    <3> QED  BY <3>2 DEF Kept, Short
  <2>3. PICK s \in STRING : s = Default /\ s # NoName
    BY LinesAssumption, NamesApart
  <2>4. PICK z : z = ReadOne(Start, Line(Header(s)))
    OBVIOUS
  <2>5. Calm(z, Empty, s)
    <3>1. Between(Start, Empty, NoName)
      BY StartIsCalm DEF Calm
    <3>2. s \in Texts
      BY DEF Texts
    <3> QED  BY <2>3, <2>4, <3>1, <3>2, HeaderLine
  <2>6. s \in Homes(Empty) /\ Items(Empty, s) = <<>> /\ Sound(Empty)
    BY <2>3, StartIsCalm DEF Homes
  <2>7. PICK y : Leads(z, WriteItems(d, i), y) /\ Calm(y, WithItems(Empty, s, d), s)
    BY <2>1, <2>2, <2>3, <2>5, <2>6, SectionLines
  <2>8. Leads(Start, <<Line(Header(s))>>, z)
    BY <2>4, LeadsOne
  <2>9. PICK l \in Written : l = Line(Header(s))
    <3>1. Header(s) \in Texted
      BY DEF Texted, Texts
    <3>2. Line(Header(s)) \in Written
      BY <3>1, RawWritten
    <3> QED  BY <3>2
  <2>10. <<l>> \in Seq(Written)
    OBVIOUS
  <2>11. PICK a \in Seq(Written) : a = <<l>>
    BY <2>10, Zenon
  <2>12. PICK b \in Seq(Written) : b = WriteItems(d, i)
    BY <2>1, WrittenItems
  <2>13. Leads(Start, a \o b, y)
    <3>1. Leads(Start, a, z) /\ Leads(z, b, y)
      BY <2>7, <2>8, <2>9, <2>11, <2>12
    <3> QED  BY <3>1, LeadsOn
  <2>14. DefaultLines(d) = a \o b
    <3>1. DefaultLines(d) = <<Line(Header(s))>> \o WriteItems(d, FALSE)
      BY <1>2, <2>3 DEF DefaultLines
    <3> QED  BY <2>t, <2>9, <2>11, <2>12, <3>1
  <2>15. a \o b \in Seq(Written)
    BY ConcatProperties
  <2>16. PICK q : q = WithItems(Empty, s, d)
    OBVIOUS
  <2>17. Sound(q)
    BY <2>1, <2>6, <2>16, Replaced
  <2>18. q.defaults = d /\ q.sections = <<>>
    BY <2>3, <2>16 DEF WithItems, Empty
  <2>19. q = ObjectOf(d, <<>>)
    BY <2>17, <2>18, ObjectIs
  <2> QED  BY <2>7, <2>13, <2>14, <2>15, <2>16, <2>17, <2>19
<1> QED  BY <1>1, <1>2

(* All sections.                                                           *)
WritesOfSections == [e \in Sections |-> WriteSection(e)]

SectionsFine(d, ss) ==
    /\ Distinct(ss)
    /\ \A i \in DOMAIN ss : SectionFine(ss[i])
    /\ \A i \in DOMAIN ss : ss[i].name = Unnamed => i = 1 /\ d = <<>> /\ opts.unnamed /\ ss[i].items # <<>>

LEMMA WriteSectionTyped == WritesOfSections \in Maps(Sections, Written)
<1> SUFFICES ASSUME NEW e \in Sections PROVE WriteSection(e) \in Seq(Written)
  BY DEF WritesOfSections, Maps
<1>1. e.name \in Texts /\ e.items \in Seq(Entries)
  BY DEF Sections, Texts
<1>t. PICK i \in BOOLEAN : i = TRUE
  OBVIOUS
<1>2. PICK b \in Seq(Written) : b = WriteItems(e.items, i)
  BY <1>1, WrittenItems
<1>3. Line(Header(e.name)) \in Written
  <2>1. Header(e.name) \in Texted
    BY <1>1 DEF Texted
  <2> QED  BY <2>1, RawWritten
<1>4. PICK a \in Seq(Written) : a = IF e.name = Unnamed THEN <<>> ELSE <<Line(Header(e.name))>>
  <2>1. \A l \in Written : <<l>> \in Seq(Written)
    OBVIOUS
  <2>2. <<>> \in Seq(Written)
    BY EmptySeq
  <2>3. (IF e.name = Unnamed THEN <<>> ELSE <<Line(Header(e.name))>>) \in Seq(Written)
    BY <1>3, <2>1, <2>2
  <2> QED  BY <2>3, Zenon
<1>5. WriteSection(e) = a \o b
  BY <1>t, <1>2, <1>4 DEF WriteSection
<1> QED  BY <1>5, ConcatProperties

LEMMA SectionsBefore ==
    ASSUME NEW d, NEW ss \in Seq(Sections), NEW e \in Sections, SectionsFine(d, Append(ss, e))
    PROVE  /\ SectionsFine(d, ss) /\ SectionFine(e) /\ e.name \notin NamesOf(ss)
           /\ e.name = Unnamed => ss = <<>> /\ d = <<>> /\ opts.unnamed /\ e.items # <<>>
<1>1. PICK u : u = Append(ss, e)
  OBVIOUS
<1>2. PICK n \in Nat : n = Len(ss)
  BY LenProperties
<1>3. /\ DOMAIN ss = 1 .. n /\ DOMAIN u = 1 .. n + 1 /\ u[n + 1] = e /\ \A j \in 1 .. n : u[j] = ss[j]
  BY <1>1, <1>2, AppendProperties, LenProperties
<1>4. /\ Distinct(u) /\ \A j \in DOMAIN u : SectionFine(u[j])
      /\ \A j \in DOMAIN u : u[j].name = Unnamed => j = 1 /\ d = <<>> /\ opts.unnamed /\ u[j].items # <<>>
  BY <1>1 DEF SectionsFine
<1>5. n + 1 \in DOMAIN u /\ \A j \in DOMAIN ss : j \in DOMAIN u /\ u[j] = ss[j] /\ j # n + 1
  BY <1>3
<1>6. Distinct(ss)
  BY <1>4, <1>5 DEF Distinct
<1>7. SectionsFine(d, ss)
  BY <1>4, <1>5, <1>6 DEF SectionsFine
<1>8. SectionFine(e) /\ (e.name = Unnamed => n + 1 = 1 /\ d = <<>> /\ opts.unnamed /\ e.items # <<>>)
  BY <1>3, <1>4, <1>5
<1>9. n + 1 = 1 => ss = <<>>
  BY <1>2, EmptySeq
<1>10. e.name \notin NamesOf(ss)
  <2> SUFFICES ASSUME NEW j \in DOMAIN ss, ss[j].name = e.name PROVE FALSE
    BY DEF NamesOf
  <2> QED  BY <1>3, <1>4, <1>5 DEF Distinct
<1> QED  BY <1>7, <1>8, <1>9, <1>10

LEMMA SectionsLines ==
    ASSUME opts \in ParseOptions, NEW d, DefaultsFine(d), NEW ss \in Seq(Sections), SectionsFine(d, ss)
    PROVE  \E y, sec : /\ Leads(Start, DefaultLines(d) \o Over(WritesOfSections, ss), y)
                       /\ Calm(y, ObjectOf(d, ss), sec)
<1> DEFINE Holds(u) == /\ Sound(ObjectOf(d, u))
                       /\ \E y, sec : /\ Leads(Start, DefaultLines(d) \o Over(WritesOfSections, u), y)
                                      /\ Calm(y, ObjectOf(d, u), sec)
           G == {u \in Seq(Sections) : SectionsFine(d, u) => Holds(u)}
<1>0. PICK D \in Seq(Written) : D = DefaultLines(d)
  BY DefaultSection
<1>1. <<>> \in G
  <2>1. <<>> \in Seq(Sections)
    BY EmptySeq
  <2>2. Over(WritesOfSections, <<>>) = <<>>
    BY OverNone
  <2>3. D \o <<>> = D
    OBVIOUS
  <2>4. Holds(<<>>)
    BY <1>0, <2>2, <2>3, DefaultSection
  <2> HIDE DEF Holds
  <2> QED  BY <2>1, <2>4
<1>2. ASSUME NEW u \in G, NEW e \in Sections PROVE Append(u, e) \in G
  <2>1. u \in Seq(Sections) /\ (SectionsFine(d, u) => Holds(u))
    OBVIOUS
  <2> HIDE DEF G
  <2>2. PICK z : z = Append(u, e)
    OBVIOUS
  <2>3. z \in Seq(Sections)
    BY <2>1, <2>2, AppendProperties
  <2>4. ASSUME SectionsFine(d, z) PROVE Holds(z)
    <3>1. /\ SectionsFine(d, u) /\ SectionFine(e) /\ e.name \notin NamesOf(u)
          /\ e.name = Unnamed => u = <<>> /\ d = <<>> /\ opts.unnamed /\ e.items # <<>>
      <4>1. SectionsFine(d, Append(u, e))
        BY <2>2, <2>4
      <4> HIDE DEF Holds
      <4> QED  BY <2>1, <4>1, SectionsBefore
    <3>2. Sound(ObjectOf(d, u))
      BY <2>1, <3>1
    <3>3. PICK y, sec : /\ Leads(Start, DefaultLines(d) \o Over(WritesOfSections, u), y)
                        /\ Calm(y, ObjectOf(d, u), sec)
      BY <2>1, <3>1
    <3> HIDE DEF Holds
    <3>4. PICK p : p = ObjectOf(d, u)
      OBVIOUS
    <3>5. e.name \notin Homes(p)
      <4>1. DOMAIN p.index = NamesOf(u)
        BY <3>4 DEF ObjectOf
      <4> QED  BY <3>1, <4>1 DEF Homes, SectionFine
    <3>6. /\ WithItems(NewSection(p, e.name), e.name, e.items) = ObjectOf(d, z)
          /\ Sound(ObjectOf(d, z))
      <4>1. Unique(e.items)
        BY <3>1 DEF SectionFine, ItemsFine
      <4> QED  BY <2>2, <3>2, <3>4, <3>5, <4>1, Built
    <3>7. PICK b \in Seq(Written) : b = WriteSection(e)
      BY WriteSectionTyped DEF WritesOfSections, Maps
    <3>8. PICK a \in Seq(Written) : a = Over(WritesOfSections, u)
      BY <2>1, WriteSectionTyped, OverMap
    <3>9. Over(WritesOfSections, z) = a \o b
      <4>1. PICK h \in Maps(Sections, Written) : h = WritesOfSections
        BY WriteSectionTyped
      <4>2. Over(h, Append(u, e)) = Over(h, u) \o h[e]
        BY <2>1, OverAppend
      <4>3. h[e] = WriteSection(e)
        BY <4>1 DEF WritesOfSections
      <4> QED  BY <2>2, <3>7, <3>8, <4>1, <4>2, <4>3
    <3>10. CASE e.name # Unnamed
      <4>1. PICK t : Leads(y, b, t) /\ Calm(t, ObjectOf(d, z), e.name)
        BY <3>1, <3>2, <3>3, <3>4, <3>5, <3>6, <3>7, <3>10, NamedSection
      <4>2. PICK c \in Seq(Written) : c = D \o a
        BY ConcatProperties
      <4>3. Leads(Start, c, y)
        BY <1>0, <3>3, <3>8, <4>2
      <4>4. Leads(Start, c \o b, t)
        BY <4>1, <4>3, LeadsOn
      <4>5. (D \o a) \o b = D \o (a \o b)
        OBVIOUS
      <4> QED  BY <1>0, <3>6, <3>9, <4>1, <4>2, <4>4, <4>5 DEF Holds
    <3>11. CASE e.name = Unnamed
      <4>1. u = <<>> /\ d = <<>> /\ opts.unnamed /\ e.items # <<>>
        BY <3>1, <3>11
      <4>2. p = Empty
        BY <3>4, <4>1, StartIsCalm
      <4>3. PICK t : Leads(Start, b, t) /\ Calm(t, ObjectOf(d, z), e.name)
        BY <3>1, <3>6, <3>7, <3>11, <4>1, <4>2, UnnamedSection
      <4>4. D = <<>> /\ a = <<>>
        BY <1>0, <3>8, <4>1, OverNone DEF DefaultLines
      <4>5. <<>> \o (<<>> \o b) = b
        OBVIOUS
      <4> QED  BY <1>0, <3>6, <3>9, <4>3, <4>4, <4>5 DEF Holds
    <3> QED  BY <3>10, <3>11
  <2> HIDE DEF Holds
  <2> QED  BY <2>2, <2>3, <2>4 DEF G
<1>3. ss \in G
  <2>1. G \in SUBSET Seq(Sections)
    OBVIOUS
  <2> HIDE DEF G
  <2>2. G = Seq(Sections)
    BY <1>1, <1>2, <2>1, ByAppending
  <2> QED  BY <2>2
<1> QED  BY <1>3

(* What can be written is of that form.                                    *)
LEMMA WritableParts ==
    ASSUME opts \in ParseOptions, NEW p, Sound(p), Writable(p)
    PROVE  DefaultsFine(p.defaults) /\ SectionsFine(p.defaults, p.sections)
<1>0. p.defaults \in Seq(Entries) /\ p.sections \in Seq(Sections)
  BY DEF Sound, Objects
<1>1. opts.emptyLines \in BOOLEAN
  BY DEF ParseOptions
<1>2. ASSUME NEW s \in Homes(p), NEW i \in DOMAIN Items(p, s)
      PROVE  Fine(Items(p, s)[i]) /\ (i = Len(Items(p, s)) => Short(Items(p, s)[i]))
  <2>1. PICK e : e = Items(p, s)[i]
    OBVIOUS
  <2>2. PICK v \in Stored : v = e.value
    <3>1. Items(p, s) \in Seq(Entries)
      BY HomeItems
    <3>2. e \in Entries
      BY <2>1, <3>1
    <3> QED  BY <3>2 DEF Entries
  <2>3. /\ e.key # NoName
        /\ v = NoValue => opts.noValue
        /\ v = Trimmed(v)
        /\ opts.emptyLines \/ Len(v) <= 1
             \/ (i # Len(Items(p, s)) /\ \A n \in 2 .. Len(v) : v[n] # Blank)
    BY <2>1, <2>2 DEF Writable, Homes
  <2>4. opts.emptyLines = TRUE \/ Len(v) <= 1
          \/ (i # Len(Items(p, s)) /\ \A n \in 2 .. Len(v) : v[n] # Blank)
    BY <1>1, <2>3
  <2>5. Len(v) <= 1 => \A n \in 2 .. Len(v) : FALSE
    <3>1. Len(v) \in Nat
      <4>1. Len(NoValue) = 1
        BY DEF NoValue
      <4> QED  BY <4>1, LenProperties DEF Stored
    <3> QED  BY <3>1
  <2>6. opts.emptyLines = TRUE \/ \A n \in 2 .. Len(v) : v[n] # Blank
    BY <2>4, <2>5
  <2>7. Fine(e)
    BY <2>2, <2>3, <2>6 DEF Fine
  <2>8. i = Len(Items(p, s)) => Short(e)
    BY <2>2, <2>4 DEF Short
  <2> QED  BY <2>1, <2>7, <2>8
<1>3. DefaultsFine(p.defaults)
  <2>1. Default \in Homes(p) /\ Items(p, Default) = p.defaults
    BY DEF Homes, Items
  <2>2. Unique(p.defaults)
    BY DEF Sound
  <2>3. \A i \in DOMAIN p.defaults : Kept(p.defaults[i], FALSE)
    BY DEF Writable, Kept
  <2> QED  BY <1>0, <1>2, <2>1, <2>2, <2>3 DEF DefaultsFine, ItemsFine
<1>4. ASSUME NEW i \in DOMAIN p.sections
      PROVE  /\ SectionFine(p.sections[i])
             /\ p.sections[i].name = Unnamed =>
                  i = 1 /\ p.defaults = <<>> /\ opts.unnamed /\ p.sections[i].items # <<>>
  <2>1. PICK e \in Sections : e = p.sections[i]
    BY <1>0
  <2>2. PICK s : s = e.name
    OBVIOUS
  <2>3. s \in DOMAIN p.index /\ p.index[s] = i /\ Unique(e.items)
    BY <2>1, <2>2 DEF Sound
  <2>4. s # Default /\ s # NoName
    BY <2>3, NotASection DEF Writable
  <2>5. s \in Homes(p) /\ Items(p, s) = e.items
    BY <2>1, <2>3, <2>4 DEF Homes, Items
  <2>6. e.items \in Seq(Entries)
    BY DEF Sections
  <2>7. ItemsFine(e.items, TRUE)
    BY <1>2, <2>3, <2>5 DEF ItemsFine, Kept
  <2>8. e.items = <<>> \/ Short(e.items[Len(e.items)])
    <3>1. e.items # <<>> => Len(e.items) \in DOMAIN e.items
      BY <2>6, EmptySeq, LenProperties
    <3> QED  BY <1>2, <2>5, <3>1
  <2>9. SectionFine(e)
    BY <2>2, <2>4, <2>7, <2>8 DEF SectionFine
  <2>10. s = Unnamed => i = 1 /\ p.defaults = <<>> /\ opts.unnamed /\ e.items # <<>>
    BY <2>3, <2>5 DEF Writable
  <2> QED  BY <2>1, <2>2, <2>9, <2>10
<1>5. Distinct(p.sections)
  BY ObjectIs
<1> QED  BY <1>3, <1>4, <1>5 DEF SectionsFine

LEMMA WrittenAndRead ==
    ASSUME opts \in ParseOptions, NEW p, Sound(p), Writable(p)
    PROVE  ReadLines(Empty, WriteToString(p)) = [ini |-> p, ok |-> TRUE]
<1>1. PICK d : d = p.defaults
  OBVIOUS
<1>2. PICK ss \in Seq(Sections) : ss = p.sections
  BY DEF Sound, Objects
<1>3. DefaultsFine(d) /\ SectionsFine(d, ss) /\ p = ObjectOf(d, ss)
  BY <1>1, <1>2, WritableParts, ObjectIs
<1>4. PICK ls : ls = DefaultLines(d) \o Over(WritesOfSections, ss)
  OBVIOUS
<1>5. ls \in Seq(Written)
  <2>1. DefaultLines(d) \in Seq(Written)
    BY <1>3, DefaultSection
  <2>2. Over(WritesOfSections, ss) \in Seq(Written)
    BY WriteSectionTyped, OverMap
  <2> QED  BY <1>4, <2>1, <2>2, ConcatProperties
<1>6. PICK y, sec : Leads(Start, ls, y) /\ Calm(y, p, sec)
  BY <1>3, <1>4, SectionsLines
<1>7. WriteToString(p) = ls
  <2>1. \A i \in DOMAIN ss : WritesOfSections[ss[i]] = WriteSection(ss[i])
    BY DEF WritesOfSections
  <2>2. [i \in DOMAIN ss |-> WritesOfSections[ss[i]]] = [i \in DOMAIN ss |-> WriteSection(ss[i])]
    BY <2>1
  <2>3. Over(WritesOfSections, ss) = FlattenSeq([i \in DOMAIN ss |-> WriteSection(ss[i])])
    BY <2>2 DEF Over
  <2>4. WriteToString(p) = DefaultLines(d) \o FlattenSeq([i \in DOMAIN ss |-> WriteSection(ss[i])])
    BY <1>1, <1>2 DEF WriteToString, DefaultLines
  <2> QED  BY <1>4, <2>3, <2>4
<1>8. ReadLines(Empty, ls) = [ini |-> EndOfText(y[1], y[2]), ok |-> Accepted(y[2])]
  <2>1. Leads(<<Empty, Reader>>, ls, y)
    BY <1>6 DEF Start
  <2> QED  BY <1>5, <2>1, LeadsEnd
<1>9. /\ y[2].multi = TRUE => y[2].option # NoName
      /\ p = IF y[2].multi = TRUE THEN FinishMultiline(y[1], y[2]) ELSE y[1]
      /\ y[2] \in Readers /\ y[2].errors = FALSE /\ y[2].thrown = FALSE
  BY <1>6 DEF Calm, Between
<1>10. EndOfText(y[1], y[2]) = p
  <2>1. PICK r \in Readers : r = y[2]
    BY <1>9
  <2>2. CASE r.multi = TRUE
    BY <1>9, <2>1, <2>2 DEF EndOfText
  <2>3. CASE r.multi = FALSE
    BY <1>9, <2>1, <2>3 DEF EndOfText
  <2> QED  BY <2>2, <2>3 DEF Readers
<1>11. Accepted(y[2]) = TRUE
  BY <1>9 DEF Accepted
<1> QED  BY <1>7, <1>8, <1>10, <1>11

(* Reading what write_to_string wrote gives the same object, for every     *)
(* object the operations can make and write_to_string can express          *)
(* (parser.cpp:693-750 against 240-372).                                   *)
THEOREM WritesBack == Spec => []WriteReadBack
<1>1. Typed => WriteReadBack
  <2> SUFFICES ASSUME Typed, Writable(ini)
               PROVE  LET again == ReadLines(Empty, WriteToString(ini)) IN again.ok /\ again.ini = ini
    BY DEF WriteReadBack
  <2>1. opts \in ParseOptions /\ Sound(ini)
    BY DEF Typed
  <2>2. ReadLines(Empty, WriteToString(ini)) = [ini |-> ini, ok |-> TRUE]
    BY <2>1, WrittenAndRead
  <2> QED  BY <2>2
<1> QED  BY TypedInit, TypedNext, <1>1, PTL DEF Spec
==============================================================================
