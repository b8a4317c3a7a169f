--------------------------- MODULE SequenceLemmas ---------------------------
(***************************************************************************)
(* Induction on numbers and on sequences, and what the operators that go   *)
(* through a sequence compute.  The induction rules speak of sets, which   *)
(* a proof can instantiate, and rest on well-founded sets of the library.  *)
(***************************************************************************)
EXTENDS Integers, SequencesExt, TLAPS, FiniteSetTheorems, SequenceTheorems

(* Every nonempty set of natural numbers has a least element.              *)
LEMMA LeastNumber ==
    ASSUME NEW T \in SUBSET Nat, T # {}
    PROVE  \E n \in T : \A m \in T : n <= m
<1> DEFINE Segments == {0 .. n - 1 : n \in T}
           Order    == StrictSubsetOrdering(Nat)
<1>1. Segments \subseteq FiniteSubsetsOf(Nat)
  <2>1. ASSUME NEW n \in T PROVE 0 .. n - 1 \in FiniteSubsetsOf(Nat)
    <3>1. IsFiniteSet(0 .. n - 1)
      BY FS_Interval
    <3> QED  BY <3>1 DEF FiniteSubsetsOf
  <2> QED  BY <2>1
<1>2. \E s \in Segments : \A r \in Segments : <<r, s>> \notin Order
  <2>1. Segments # {}
    OBVIOUS
  <2>2. IsWellFoundedOn(Order, FiniteSubsetsOf(Nat))
    BY FS_StrictSubsetOrderingWellFounded
  <2> HIDE DEF Segments, Order
  <2> QED  BY <1>1, <2>1, <2>2, WFMin
<1>3. PICK n \in T : \A r \in Segments : <<r, 0 .. n - 1>> \notin Order
  BY <1>2
<1>4. ASSUME NEW m \in T, m < n PROVE FALSE
  <2>1. 0 .. m - 1 \subseteq 0 .. n - 1 /\ m \in 0 .. n - 1 /\ m \notin 0 .. m - 1
    BY <1>4
  <2>2. <<0 .. m - 1, 0 .. n - 1>> \in Order
    BY <2>1 DEF StrictSubsetOrdering
  <2> QED  BY <2>2, <1>3
<1> QED  BY <1>3, <1>4

(* What holds of 0 and of the number after every one it holds of.          *)
LEMMA ByCounting ==
    ASSUME NEW T \in SUBSET Nat, 0 \in T, \A n \in T : n + 1 \in T
    PROVE  \A n \in Nat : n \in T
<1> SUFFICES ASSUME NEW x \in Nat PROVE x \in T
  OBVIOUS
<1> SUFFICES ASSUME x \notin T PROVE FALSE
  OBVIOUS
<1>1. Nat \ T \in SUBSET Nat /\ Nat \ T # {}
  OBVIOUS
<1>2. PICK n \in Nat \ T : \A m \in Nat \ T : n <= m
  BY <1>1, LeastNumber
<1>3. n # 0 /\ n - 1 \in Nat /\ ~(n <= n - 1)
  BY <1>2
<1>4. n - 1 \in T
  BY <1>2, <1>3
<1>5. (n - 1) + 1 \in T
  BY <1>4
<1>6. (n - 1) + 1 = n
  BY <1>3
<1>7. n \in T
  BY <1>5, <1>6, Zenon
<1> QED  BY <1>2, <1>7

LEMMA Cut ==
    ASSUME NEW S, NEW s \in Seq(S), NEW m \in 1 .. Len(s) + 1, NEW n \in Nat, m - 1 <= n, n <= Len(s)
    PROVE  LET c == SubSeq(s, m, n)
           IN  /\ c \in Seq(S) /\ Len(c) = n - m + 1 /\ DOMAIN c = 1 .. n - m + 1
               /\ \A i \in 1 .. n - m + 1 : c[i] = s[m + i - 1]
<1>1. m \in Int /\ n \in Int /\ \A i \in m .. n : s[i] \in S
  BY ElementOfSeq
<1>2. IF m <= n THEN TRUE ELSE n - m + 1 = 0
  BY <1>1
<1>3. Len(s) \in Nat
  BY LenProperties
<1> QED  BY <1>1, <1>2, SubSeqProperties, LenProperties

(* Induction on the length of a sequence: what holds of the empty one and  *)
(* is kept by Append holds of all.                                         *)
LEMMA ByAppending ==
    ASSUME NEW X, NEW G \in SUBSET Seq(X), <<>> \in G,
           \A s \in G : \A x \in X : Append(s, x) \in G
    PROVE  G = Seq(X)
<1> DEFINE T == {n \in Nat : \A s \in Seq(X) : Len(s) = n => s \in G}
<1>1. 0 \in T
  BY EmptySeq
<1>2. ASSUME NEW n \in T PROVE n + 1 \in T
  <2> SUFFICES ASSUME NEW s \in Seq(X), Len(s) = n + 1 PROVE s \in G
    OBVIOUS
  <2>1. s # <<>>
    BY EmptySeq
  <2>2. /\ SubSeq(s, 1, n) \in Seq(X) /\ Len(SubSeq(s, 1, n)) = n
        /\ \A i \in 1 .. n : SubSeq(s, 1, n)[i] = s[i]
    BY Cut
  <2>3. s[n + 1] \in X
    BY ElementOfSeq
  <2>4. PICK front : front = SubSeq(s, 1, n)
    OBVIOUS
  <2>5. front \in G
    BY <2>2, <2>4
  <2>6. PICK w : w = Append(front, s[n + 1])
    OBVIOUS
  <2>7. w \in G /\ w \in Seq(X)
    BY <2>3, <2>5, <2>6
  <2>8. Len(w) = n + 1 /\ \A i \in 1 .. n + 1 : w[i] = s[i]
    <3>1. /\ front \in Seq(X) /\ Len(front) = n /\ n \in Nat
          /\ \A i \in 1 .. n : front[i] = s[i]
      BY <2>2, <2>4
    <3> HIDE DEF T
    <3>2. Len(w) = n + 1 /\ w[n + 1] = s[n + 1] /\ \A i \in 1 .. n : w[i] = front[i]
      BY <2>3, <2>6, <3>1, AppendProperties
    <3>3. ASSUME NEW i \in 1 .. n + 1 PROVE w[i] = s[i]
      <4>1. i = n + 1 \/ i \in 1 .. n
        BY <3>1
      <4> QED  BY <3>1, <3>2, <4>1
    <3> QED  BY <3>2, <3>3
  <2>9. w = s
    BY <2>7, <2>8, SeqEqual
  <2> QED  BY <2>7, <2>9
<1>3. ASSUME NEW s \in Seq(X) PROVE s \in G
  <2>1. T \in SUBSET Nat /\ Len(s) \in Nat
    BY LenProperties
  <2>2. Len(s) \in T
    <3> HIDE DEF T
    <3> QED  BY <1>1, <1>2, <2>1, ByCounting
  <2> QED  BY <2>2
<1> QED  BY <1>3

-----------------------------------------------------------------------------
(* FlattenSeq appends sequences one by one.                                *)
Chains(ss, f) ==
    /\ f = [i \in 1 .. Len(ss) |-> f[i]]
    /\ \A i \in 1 .. Len(ss) : f[i] = IF i = 1 THEN ss[i] ELSE f[i - 1] \o ss[i]

LEMMA ChainExists ==
    ASSUME NEW ss, Len(ss) \in Nat
    PROVE  \E f : Chains(ss, f)
<1> DEFINE T == {n \in Nat : n <= Len(ss) =>
                   \E g : \A i \in 1 .. n : g[i] = IF i = 1 THEN ss[i] ELSE g[i - 1] \o ss[i]}
<1>1. 0 \in T
  <2>1. \A i \in 1 .. 0 : FALSE
    OBVIOUS
  <2> QED  BY <2>1
<1>2. ASSUME NEW n \in T PROVE n + 1 \in T
  <2> SUFFICES ASSUME n + 1 <= Len(ss)
               PROVE  \E g : \A i \in 1 .. n + 1 : g[i] = IF i = 1 THEN ss[i] ELSE g[i - 1] \o ss[i]
    OBVIOUS
  <2>1. PICK g : \A i \in 1 .. n : g[i] = IF i = 1 THEN ss[i] ELSE g[i - 1] \o ss[i]
    OBVIOUS
  <2>2. PICK h : h = [i \in 1 .. n + 1 |->
                        IF i <= n THEN g[i] ELSE IF i = 1 THEN ss[i] ELSE g[n] \o ss[i]]
    OBVIOUS
  <2>3. \A i \in 1 .. n + 1 : h[i] = IF i <= n THEN g[i] ELSE IF i = 1 THEN ss[i] ELSE g[n] \o ss[i]
    BY <2>2
  <2>0. n \in Nat
    OBVIOUS
  <2> HIDE DEF T
  <2>4. ASSUME NEW i \in 1 .. n + 1 PROVE h[i] = IF i = 1 THEN ss[i] ELSE h[i - 1] \o ss[i]
    <3>1. CASE i <= n
      <4>0. i # 1 => i - 1 \in 1 .. n + 1 /\ i - 1 <= n
        BY <2>0, <3>1
      <4>1. h[i] = g[i] /\ (i # 1 => h[i - 1] = g[i - 1])
        BY <2>3, <3>1, <4>0
      <4> QED  BY <2>1, <3>1, <4>1
    <3>2. CASE ~(i <= n)
      <4>0. i = n + 1 /\ (i # 1 => i - 1 = n /\ n \in 1 .. n + 1 /\ n <= n)
        BY <2>0, <3>2
      <4>1. i = n + 1 /\ (i # 1 => h[i - 1] = g[n])
        BY <2>3, <4>0
      <4> QED  BY <2>3, <3>2, <4>1
    <3> QED  BY <3>1, <3>2
  <2> QED  BY <2>4
<1>3. Len(ss) \in T
  <2> HIDE DEF T
  <2>1. T \in SUBSET Nat
    BY DEF T
  <2> QED  BY <1>1, <1>2, <2>1, ByCounting
<1>4. PICK g : \A i \in 1 .. Len(ss) : g[i] = IF i = 1 THEN ss[i] ELSE g[i - 1] \o ss[i]
  BY <1>3
<1>5. PICK f : f = [i \in 1 .. Len(ss) |-> g[i]]
  OBVIOUS
<1>6. \A i \in 1 .. Len(ss) : f[i] = g[i] /\ (i # 1 => i - 1 \in 1 .. Len(ss))
  BY <1>5
<1> QED  BY <1>4, <1>5, <1>6 DEF Chains

LEMMA FlattenBy ==
    ASSUME NEW ss, Len(ss) \in Nat \ {0}, NEW f, Chains(ss, f)
    PROVE  FlattenSeq(ss) = f[Len(ss)]
<1> DEFINE g == CHOOSE g : g = [i \in 1 .. Len(ss) |-> IF i = 1 THEN ss[i] ELSE g[i - 1] \o ss[i]]
<1>1. f = [i \in 1 .. Len(ss) |-> IF i = 1 THEN ss[i] ELSE f[i - 1] \o ss[i]]
  BY DEF Chains
<1>2. g = [i \in 1 .. Len(ss) |-> IF i = 1 THEN ss[i] ELSE g[i - 1] \o ss[i]]
  BY <1>1
<1>3. FlattenSeq(ss) = g[Len(ss)]
  BY DEF FlattenSeq
<1> HIDE DEF g
<1> DEFINE T == {n \in Nat : n + 1 <= Len(ss) => g[n + 1] = f[n + 1]}
<1>4. \A i \in 1 .. Len(ss) : /\ g[i] = IF i = 1 THEN ss[i] ELSE g[i - 1] \o ss[i]
                              /\ f[i] = IF i = 1 THEN ss[i] ELSE f[i - 1] \o ss[i]
  BY <1>1, <1>2
<1>5. 0 \in T
  BY <1>4
<1>6. ASSUME NEW n \in T PROVE n + 1 \in T
  <2> SUFFICES ASSUME (n + 1) + 1 <= Len(ss) PROVE g[(n + 1) + 1] = f[(n + 1) + 1]
    OBVIOUS
  <2>1. /\ (n + 1) + 1 \in 1 .. Len(ss) /\ (n + 1) + 1 # 1 /\ (n + 1) + 1 - 1 = n + 1
        /\ g[n + 1] = f[n + 1]
    OBVIOUS
  <2> QED  BY <1>4, <2>1
<1>7. Len(ss) - 1 \in T
  <2> HIDE DEF T
  <2>1. T \in SUBSET Nat
    BY DEF T
  <2> QED  BY <1>5, <1>6, <2>1, ByCounting
<1> QED  BY <1>3, <1>7

LEMMA FlattenNone == FlattenSeq(<<>>) = <<>>
  BY DEF FlattenSeq

LEMMA FlattenMore ==
    ASSUME NEW X, NEW ss \in Seq(Seq(X)), FlattenSeq(ss) \in Seq(X), NEW x \in Seq(X)
    PROVE  FlattenSeq(Append(ss, x)) = FlattenSeq(ss) \o x
<1> DEFINE tt == Append(ss, x)
           n == Len(ss)
<1>1. n \in Nat /\ Len(tt) = n + 1 /\ tt[n + 1] = x /\ \A i \in 1 .. n : tt[i] = ss[i]
  BY AppendProperties, LenProperties
<1>2. PICK f : Chains(ss, f)
  BY <1>1, ChainExists
<1>3. PICK h : h = [i \in 1 .. n + 1 |-> IF i <= n THEN f[i] ELSE IF i = 1 THEN x ELSE f[n] \o x]
  OBVIOUS
<1>4. /\ \A i \in 1 .. n : h[i] = f[i]
      /\ h[n + 1] = IF n = 0 THEN x ELSE f[n] \o x
  BY <1>1, <1>3
<1> HIDE DEF tt
<1>5. Chains(tt, h)
  <2>1. h = [i \in 1 .. Len(tt) |-> h[i]]
    BY <1>1, <1>3
  <2>2. ASSUME NEW i \in 1 .. Len(tt) PROVE h[i] = IF i = 1 THEN tt[i] ELSE h[i - 1] \o tt[i]
    <3>1. CASE i <= n
      <4>1. i \in 1 .. n /\ (i # 1 => i - 1 \in 1 .. n)
        BY <1>1, <3>1
      <4>2. f[i] = IF i = 1 THEN ss[i] ELSE f[i - 1] \o ss[i]
        BY <1>2, <4>1 DEF Chains
      <4> QED  BY <1>1, <1>4, <4>1, <4>2
    <3>2. CASE i = n + 1
      <4>1. i - 1 = n /\ (i = 1 <=> n = 0) /\ (n # 0 => n \in 1 .. n)
        BY <1>1, <3>2
      <4>2. tt[i] = x /\ h[i] = IF n = 0 THEN x ELSE f[n] \o x
        BY <1>1, <1>4, <3>2
      <4>3. n # 0 => h[i - 1] = f[n]
        BY <1>4, <4>1
      <4> QED  BY <4>1, <4>2, <4>3
    <3> QED  BY <1>1, <3>1, <3>2
  <2> QED  BY <2>1, <2>2 DEF Chains
<1>6. FlattenSeq(tt) = h[n + 1]
  BY <1>1, <1>5, FlattenBy
<1>7. CASE n = 0
  <2>1. ss = <<>>
    BY <1>7, EmptySeq
  <2>2. FlattenSeq(tt) = x
    BY <1>4, <1>6, <1>7
  <2>3. <<>> \o x = x
    OBVIOUS
  <2> QED  BY <2>1, <2>2, <2>3, FlattenNone DEF tt
<1>8. CASE n # 0
  <2>1. FlattenSeq(ss) = f[n]
    BY <1>1, <1>2, <1>8, FlattenBy
  <2> QED  BY <1>4, <1>6, <1>8, <2>1 DEF tt
<1> QED  BY <1>7, <1>8

LEMMA FlattenTyped ==
    ASSUME NEW X, NEW ss \in Seq(Seq(X))
    PROVE  FlattenSeq(ss) \in Seq(X)
<1> DEFINE G == {tt \in Seq(Seq(X)) : FlattenSeq(tt) \in Seq(X)}
<1>1. <<>> \in G
  <2>1. FlattenSeq(<<>>) \in Seq(X)
    BY FlattenNone, EmptySeq
  <2> QED  BY <2>1
<1>2. ASSUME NEW tt \in G, NEW x \in Seq(X) PROVE Append(tt, x) \in G
  <2>1. Append(tt, x) \in Seq(Seq(X))
    BY AppendProperties
  <2>2. FlattenSeq(Append(tt, x)) = FlattenSeq(tt) \o x
    BY FlattenMore
  <2>3. FlattenSeq(tt) \o x \in Seq(X)
    BY ConcatProperties
  <2> QED  BY <2>1, <2>2, <2>3
<1>3. G = Seq(Seq(X))
  <2> HIDE DEF G
  <2>1. G \in SUBSET Seq(Seq(X))
    BY DEF G
  <2> QED  BY <1>1, <1>2, <2>1, ByAppending
<1> QED  BY <1>3

LEMMA FlattenAppend ==
    ASSUME NEW X, NEW ss \in Seq(Seq(X)), NEW x \in Seq(X)
    PROVE  FlattenSeq(Append(ss, x)) = FlattenSeq(ss) \o x
  BY FlattenTyped, FlattenMore

(* What is in one of the sequences is in what they make together.          *)
LEMMA FlattenHas ==
    ASSUME NEW X, NEW ss \in Seq(Seq(X)), NEW i \in DOMAIN ss
    PROVE  ToSet(ss[i]) \subseteq ToSet(FlattenSeq(ss))
<1> DEFINE G == {tt \in Seq(Seq(X)) : \A j \in DOMAIN tt : ToSet(tt[j]) \subseteq ToSet(FlattenSeq(tt))}
<1>1. <<>> \in G
  OBVIOUS
<1>2. ASSUME NEW tt \in G, NEW x \in Seq(X) PROVE Append(tt, x) \in G
  <2>1. PICK u : u = Append(tt, x)
    OBVIOUS
  <2>2. /\ u \in Seq(Seq(X)) /\ DOMAIN u = 1 .. Len(tt) + 1 /\ DOMAIN tt = 1 .. Len(tt) /\ Len(tt) \in Nat
        /\ u[Len(tt) + 1] = x /\ \A j \in 1 .. Len(tt) : u[j] = tt[j]
    BY <2>1, AppendProperties, LenProperties
  <2>3. PICK a \in Seq(X) : a = FlattenSeq(tt)
    BY FlattenTyped
  <2>4. FlattenSeq(u) = a \o x
    BY <2>1, <2>3, FlattenAppend
  <2>5. ToSet(a) \subseteq ToSet(a \o x) /\ ToSet(x) \subseteq ToSet(a \o x)
    <3>1. PICK c : c = a \o x
      OBVIOUS
    <3>2. /\ DOMAIN c = 1 .. Len(a) + Len(x) /\ Len(a) \in Nat /\ Len(x) \in Nat
          /\ DOMAIN a = 1 .. Len(a) /\ DOMAIN x = 1 .. Len(x)
          /\ \A j \in 1 .. Len(a) + Len(x) : c[j] = IF j <= Len(a) THEN a[j] ELSE x[j - Len(a)]
      BY <3>1, ConcatProperties, LenProperties
    <3>3. \A j \in DOMAIN a : j \in DOMAIN c /\ c[j] = a[j]
      BY <3>2
    <3>4. ASSUME NEW j \in DOMAIN x PROVE j + Len(a) \in DOMAIN c /\ c[j + Len(a)] = x[j]
      <4>1. j + Len(a) \in 1 .. Len(a) + Len(x) /\ ~(j + Len(a) <= Len(a)) /\ (j + Len(a)) - Len(a) = j
        BY <3>2
      <4> QED  BY <3>2, <4>1
    <3> QED  BY <3>1, <3>3, <3>4 DEF ToSet
  <2>6. ASSUME NEW j \in DOMAIN u PROVE ToSet(u[j]) \subseteq ToSet(FlattenSeq(u))
    <3>1. CASE j = Len(tt) + 1
      BY <2>2, <2>4, <2>5, <3>1
    <3>2. CASE j \in 1 .. Len(tt)
      <4>1. ToSet(tt[j]) \subseteq ToSet(a)
        BY <2>2, <2>3, <3>2
      <4> QED  BY <2>2, <2>4, <2>5, <3>2, <4>1
    <3> QED  BY <2>2, <3>1, <3>2
  <2> QED  BY <2>1, <2>2, <2>6
<1>3. G = Seq(Seq(X))
  <2> HIDE DEF G
  <2>1. G \in SUBSET Seq(Seq(X))
    BY DEF G
  <2> QED  BY <1>1, <1>2, <2>1, ByAppending
<1> QED  BY <1>3

-----------------------------------------------------------------------------
(* A loop over a sequence, its body given as a function.                   *)
On(step, state, e) == step[<<state, e>>]

Loop(step, base, x, f) ==
    /\ f = [n \in 0 .. Len(x) |-> f[n]]
    /\ f[0] = base
    /\ \A n \in 1 .. Len(x) : f[n] = On(step, f[n - 1], x[n])

Runs(step, base, x) == (CHOOSE f : Loop(step, base, x, f))[Len(x)]

LEMMA LoopOnly ==
    ASSUME NEW step, NEW base, NEW x, Len(x) \in Nat, NEW f, Loop(step, base, x, f),
           NEW g, Loop(step, base, x, g), NEW m \in 0 .. Len(x)
    PROVE  f[m] = g[m]
<1> DEFINE T == {n \in Nat : n <= Len(x) => f[n] = g[n]}
<1>1. 0 \in T
  BY DEF Loop
<1>2. ASSUME NEW n \in T PROVE n + 1 \in T
  <2> SUFFICES ASSUME n + 1 <= Len(x) PROVE f[n + 1] = g[n + 1]
    OBVIOUS
  <2>1. n + 1 \in 1 .. Len(x) /\ (n + 1) - 1 = n /\ f[n] = g[n]
    OBVIOUS
  <2> HIDE DEF T
  <2> QED  BY <2>1 DEF Loop
<1>3. m \in T
  <2>1. T \in SUBSET Nat
    OBVIOUS
  <2> HIDE DEF T
  <2> QED  BY <1>1, <1>2, <2>1, ByCounting
<1> QED  BY <1>3

LEMMA RunsTo ==
    ASSUME NEW step, NEW base, NEW x, Len(x) \in Nat, NEW f, Loop(step, base, x, f)
    PROVE  Runs(step, base, x) = f[Len(x)]
<1>1. PICK g : g = CHOOSE h : Loop(step, base, x, h)
  OBVIOUS
<1>2. Loop(step, base, x, g)
  BY <1>1
<1>3. Runs(step, base, x) = g[Len(x)]
  BY <1>1 DEF Runs
<1> QED  BY <1>2, <1>3, LoopOnly

LEMMA LoopNone == ASSUME NEW step, NEW base PROVE Runs(step, base, <<>>) = base
<1>1. PICK f : f = [n \in 0 .. Len(<<>>) |-> base]
  OBVIOUS
<1>2. Len(<<>>) = 0 /\ f[0] = base /\ f = [n \in 0 .. Len(<<>>) |-> f[n]] /\ \A n \in 1 .. 0 : FALSE
  BY <1>1
<1>3. Loop(step, base, <<>>, f)
  BY <1>2 DEF Loop
<1> QED  BY <1>2, <1>3, RunsTo

LEMMA LoopMore ==
    ASSUME NEW X, NEW step, NEW base, NEW x \in Seq(X), NEW e \in X, NEW f, Loop(step, base, x, f)
    PROVE  \E g : /\ Loop(step, base, Append(x, e), g)
                 /\ g[Len(x) + 1] = On(step, f[Len(x)], e)
<1>1. PICK y : y = Append(x, e)
  OBVIOUS
<1>2. PICK m \in Nat : m = Len(x)
  BY LenProperties
<1>3. Len(y) = m + 1 /\ y[m + 1] = e /\ \A n \in 1 .. m : y[n] = x[n]
  BY <1>1, <1>2, AppendProperties
<1>4. PICK g : g = [n \in 0 .. m + 1 |-> IF n <= m THEN f[n] ELSE On(step, f[m], e)]
  OBVIOUS
<1>5. g[m + 1] = On(step, f[m], e) /\ \A n \in 0 .. m : g[n] = f[n]
  BY <1>4
<1>6. ASSUME NEW n \in 1 .. m + 1 PROVE g[n] = On(step, g[n - 1], y[n])
  <2>1. n - 1 \in 0 .. m
    OBVIOUS
  <2>2. g[n - 1] = f[n - 1]
    BY <1>5, <2>1
  <2>3. CASE n = m + 1
    <3>1. n - 1 = m
      BY <2>3
    <3> QED  BY <1>3, <1>5, <2>2, <2>3, <3>1
  <2>4. CASE n # m + 1
    <3>1. n \in 1 .. m /\ n \in 0 .. m
      BY <2>4
    <3>2. f[n] = On(step, f[n - 1], x[n])
      BY <1>2, <3>1 DEF Loop
    <3> QED  BY <1>3, <1>5, <2>2, <3>1, <3>2
  <2> QED  BY <2>3, <2>4
<1>7. Loop(step, base, y, g)
  <2>1. g = [n \in 0 .. m + 1 |-> g[n]] /\ 0 \in 0 .. m
    BY <1>4
  <2>2. g[0] = base
    BY <1>5, <2>1 DEF Loop
  <2> QED  BY <1>3, <1>6, <2>1, <2>2 DEF Loop
<1> QED  BY <1>1, <1>2, <1>5, <1>7

LEMMA LoopExists ==
    ASSUME NEW X, NEW step, NEW base, NEW x \in Seq(X)
    PROVE  \E f : Loop(step, base, x, f)
<1> DEFINE G == {y \in Seq(X) : \E f : Loop(step, base, y, f)}
<1>1. <<>> \in G
  <2>1. PICK f : f = [n \in 0 .. Len(<<>>) |-> base]
    OBVIOUS
  <2>2. Len(<<>>) = 0 /\ f[0] = base /\ f = [n \in 0 .. Len(<<>>) |-> f[n]] /\ \A n \in 1 .. 0 : FALSE
    BY <2>1
  <2>3. Loop(step, base, <<>>, f)
    BY <2>2 DEF Loop
  <2> QED  BY <2>3, EmptySeq
<1>2. ASSUME NEW y \in G, NEW e \in X PROVE Append(y, e) \in G
  <2>1. PICK f : Loop(step, base, y, f)
    OBVIOUS
  <2>2. \E g : Loop(step, base, Append(y, e), g)
    BY <2>1, LoopMore
  <2> QED  BY <2>2, AppendProperties
<1>3. G \in SUBSET Seq(X)
  OBVIOUS
<1> HIDE DEF G
<1>4. G = Seq(X)
  BY <1>1, <1>2, <1>3, ByAppending
<1> QED  BY <1>4 DEF G

(* One more element is one more step.                                      *)
LEMMA LoopAppend ==
    ASSUME NEW X, NEW step, NEW base, NEW x \in Seq(X), NEW e \in X
    PROVE  Runs(step, base, Append(x, e)) = On(step, Runs(step, base, x), e)
<1>1. PICK f : Loop(step, base, x, f)
  BY LoopExists
<1>2. PICK g : Loop(step, base, Append(x, e), g) /\ g[Len(x) + 1] = On(step, f[Len(x)], e)
  BY <1>1, LoopMore
<1>3. PICK y : y = Append(x, e)
  OBVIOUS
<1>4. PICK m \in Nat : m = Len(x)
  BY LenProperties
<1>5. Len(y) = m + 1 /\ Len(y) \in Nat
  BY <1>3, <1>4, AppendProperties
<1>6. Loop(step, base, y, g)
  BY <1>2, <1>3, Zenon
<1>7. Runs(step, base, x) = f[m]
  BY <1>1, <1>4, RunsTo
<1>8. Runs(step, base, y) = g[m + 1]
  BY <1>5, <1>6, RunsTo
<1> QED  BY <1>2, <1>3, <1>4, <1>7, <1>8

LEMMA AppendConcat ==
    ASSUME NEW X, NEW x \in Seq(X), NEW y \in Seq(X), NEW e \in X
    PROVE  x \o Append(y, e) = Append(x \o y, e)
  OBVIOUS

(* A loop over two sequences is one after the other.                       *)
LEMMA LoopConcat ==
    ASSUME NEW X, NEW step, NEW base, NEW x \in Seq(X), NEW y \in Seq(X)
    PROVE  Runs(step, base, x \o y) = Runs(step, Runs(step, base, x), y)
<1> DEFINE G == {z \in Seq(X) : Runs(step, base, x \o z) = Runs(step, Runs(step, base, x), z)}
<1>1. <<>> \in G
  <2>1. x \o <<>> = x
    OBVIOUS
  <2> QED  BY <2>1, LoopNone, EmptySeq
<1>2. ASSUME NEW z \in G, NEW e \in X PROVE Append(z, e) \in G
  <2>1. z \in Seq(X) /\ Runs(step, base, x \o z) = Runs(step, Runs(step, base, x), z)
    OBVIOUS
  <2> HIDE DEF G
  <2>0. x \o z \in Seq(X) /\ x \o Append(z, e) = Append(x \o z, e)
    BY <2>1, AppendConcat, ConcatProperties
  <2>2. PICK xz \in Seq(X) : xz = x \o z /\ x \o Append(z, e) = Append(xz, e)
    BY <2>0
  <2>3. Runs(step, base, Append(xz, e)) = On(step, Runs(step, base, xz), e)
    BY LoopAppend
  <2>4. Runs(step, Runs(step, base, x), Append(z, e)) = On(step, Runs(step, Runs(step, base, x), z), e)
    BY <2>1, LoopAppend
  <2> QED  BY <2>1, <2>2, <2>3, <2>4, AppendProperties DEF G
<1>3. G \in SUBSET Seq(X)
  OBVIOUS
<1> HIDE DEF G
<1>4. G = Seq(X)
  BY <1>1, <1>2, <1>3, ByAppending
<1> QED  BY <1>4 DEF G

(* What the body keeps in a set stays in it.                               *)
LEMMA LoopStays ==
    ASSUME NEW X, NEW S, NEW step, NEW base \in S, \A s \in S, e \in X : On(step, s, e) \in S,
           NEW x \in Seq(X), NEW f, Loop(step, base, x, f), NEW m \in 0 .. Len(x)
    PROVE  f[m] \in S
<1> DEFINE T == {n \in Nat : n <= Len(x) => f[n] \in S}
<1>0. Len(x) \in Nat
  BY LenProperties
<1>1. 0 \in T
  BY DEF Loop
<1>2. ASSUME NEW n \in T PROVE n + 1 \in T
  <2> SUFFICES ASSUME n + 1 <= Len(x) PROVE f[n + 1] \in S
    OBVIOUS
  <2>1. n + 1 \in 1 .. Len(x) /\ (n + 1) - 1 = n /\ f[n] \in S
    BY <1>0
  <2> HIDE DEF T
  <2>2. x[n + 1] \in X
    BY <2>1, ElementOfSeq
  <2>3. f[n + 1] = On(step, f[n], x[n + 1])
    BY <2>1 DEF Loop
  <2> QED  BY <2>1, <2>2, <2>3
<1>3. m \in T
  <2>1. T \in SUBSET Nat /\ m \in Nat
    BY <1>0
  <2> HIDE DEF T
  <2> QED  BY <1>1, <1>2, <2>1, ByCounting
<1> QED  BY <1>0, <1>3

LEMMA RunsStay ==
    ASSUME NEW X, NEW S, NEW step, NEW base \in S, \A s \in S, e \in X : On(step, s, e) \in S,
           NEW x \in Seq(X)
    PROVE  Runs(step, base, x) \in S
<1>1. PICK f : Loop(step, base, x, f)
  BY LoopExists
<1>2. Len(x) \in Nat
  BY LenProperties
<1>3. Len(x) \in 0 .. Len(x) /\ Runs(step, base, x) = f[Len(x)]
  BY <1>1, <1>2, RunsTo
<1> QED  BY <1>1, <1>3, LoopStays

=============================================================================
