---------------------------- MODULE WgConfigProofs ----------------------------
(***************************************************************************)
(* Theorems about the rewriting of configs, for configs of any length. The *)
(* two functions go through the lines once, or insert behind some of them: *)
(* each is described by what it does when a line is appended to its input, *)
(* and its effect on whole configs follows by induction.                   *)
(***************************************************************************)
EXTENDS WgConfig, SequenceTheorems, WellFoundedInduction, TLAPS

-----------------------------------------------------------------------------
(* Induction. *)

\* Induction up to n, for a set of numbers.
LEMMA UpTo ==
    ASSUME NEW n \in Nat, NEW S, 0 \in S, \A k \in 1 .. n : k - 1 \in S => k \in S
    PROVE  \A k \in 0 .. n : k \in S
<1> DEFINE T == {k \in 0 .. n : k \notin S}
           R == OpToRel(<, Nat)
<1>1. SUFFICES ASSUME T /= {} PROVE FALSE
  BY <1>1
<1>2. \A x, y \in Nat : <<y, x>> \in R <=> y < x
  BY DEF OpToRel
<1>3. T \subseteq Nat
  OBVIOUS
<1> HIDE DEF R
<1>4. IsWellFoundedOn(R, Nat)
  BY NatLessThanWellFounded DEF R
<1>5. PICK x \in T : \A y \in T : <<y, x>> \notin R
  <2> HIDE DEF T
  <2> QED
    BY <1>1, <1>3, <1>4, WFMin
<1>6. x \in 1 .. n /\ x - 1 \in Nat /\ x - 1 < x
  BY <1>5
<1>7. <<x - 1, x>> \in R
  BY <1>2, <1>6
<1>8. x - 1 \notin T
  BY <1>5, <1>7
<1> QED
  BY <1>5, <1>6, <1>8

\* Induction over sequences, for a set of sequences.
LEMMA BySeq ==
    ASSUME NEW S, NEW T, <<>> \in T,
           \A s \in Seq(S) : \A e \in S : s \in T => Append(s, e) \in T
    PROVE  Seq(S) \subseteq T
<1> SUFFICES ASSUME NEW s \in Seq(S) PROVE s \in T
  OBVIOUS
<1> DEFINE K == {k \in Nat : \A q \in Seq(S) : Len(q) = k => q \in T}
<1>1. 0 \in K
  <2>1. \A q \in Seq(S) : Len(q) = 0 => q = <<>>
    OBVIOUS
  <2> QED
    BY <2>1
<1>2. ASSUME NEW k \in 1 .. Len(s), k - 1 \in K PROVE k \in K
  <2>1. ASSUME NEW q \in Seq(S), Len(q) = k PROVE q \in T
    <3> DEFINE front == SubSeq(q, 1, Len(q) - 1)
               last == q[Len(q)]
    <3>1. q /= <<>>
      BY <2>1
    <3>2. front \in Seq(S) /\ Len(front) = k - 1 /\ last \in S /\ q = Append(front, last)
      BY <2>1, <3>1
    <3>3. front \in T
      BY <1>2, <3>2
    <3> HIDE DEF front, last
    <3> QED
      BY <3>2, <3>3
  <2> QED
    BY <2>1
<1> HIDE DEF K
<1> DEFINE n == Len(s)
<1>3. n \in Nat
  OBVIOUS
<1>4. \A k \in 1 .. n : k - 1 \in K => k \in K
  BY <1>2
<1> HIDE DEF n
<1>5. \A k \in 0 .. n : k \in K
  BY <1>1, <1>3, <1>4, UpTo
<1>6. n \in K
  BY <1>3, <1>5
<1> QED
  BY <1>6 DEF K, n

-----------------------------------------------------------------------------
(* Flattening. *)

\* What flattening the first 1, 2, .. n sequences gives.
FlattenedBy(seqs, n, f) ==
    f = [i \in 1 .. n |-> IF i = 1 THEN seqs[i] ELSE f[i - 1] \o seqs[i]]

Extended(more, n, f) ==
    [i \in 1 .. n + 1 |->
        IF i <= n THEN f[i] ELSE IF n = 0 THEN more[1] ELSE f[n] \o more[n + 1]]

LEMMA ExtendFlattened ==
    ASSUME NEW seqs, NEW n \in Nat, NEW f, FlattenedBy(seqs, n, f),
           NEW more, \A i \in 1 .. n : more[i] = seqs[i]
    PROVE  FlattenedBy(more, n + 1, Extended(more, n, f))
<1> DEFINE last == IF n = 0 THEN more[1] ELSE f[n] \o more[n + 1]
           h == [i \in 1 .. n + 1 |-> IF i <= n THEN f[i] ELSE last]
           e == [i \in 1 .. n + 1 |-> IF i = 1 THEN more[i] ELSE h[i - 1] \o more[i]]
<1>1. ASSUME NEW i \in 1 .. n + 1 PROVE h[i] = e[i]
  <2>1. CASE i <= n
    <3>1. i \in 1 .. n /\ (i /= 1 => i - 1 \in 1 .. n /\ i - 1 \in 1 .. n + 1 /\ i - 1 <= n)
      BY <2>1
    <3>2. f[i] = IF i = 1 THEN seqs[i] ELSE f[i - 1] \o seqs[i]
      BY <3>1 DEF FlattenedBy
    <3>3. h[i] = f[i] /\ (i /= 1 => h[i - 1] = f[i - 1])
      BY <2>1, <3>1
    <3> HIDE DEF last, h
    <3> QED
      BY <3>1, <3>2, <3>3
  <2>2. CASE i > n
    <3>1. i = n + 1 /\ (n /= 0 => n \in 1 .. n + 1 /\ i /= 1 /\ i - 1 = n)
      BY <2>2
    <3>2. h[i] = last /\ (n /= 0 => h[n] = f[n])
      BY <2>2, <3>1
    <3>3. CASE n = 0
      BY <3>1, <3>2, <3>3
    <3>4. CASE n /= 0
      <4> HIDE DEF h
      <4> QED
        BY <3>1, <3>2, <3>4
    <3> QED
      BY <3>3, <3>4
  <2> QED
    BY <2>1, <2>2
<1>2. h = [i \in 1 .. n + 1 |-> h[i]] /\ e = [i \in 1 .. n + 1 |-> e[i]]
  OBVIOUS
<1>3. h = e
  <2> HIDE DEF h, e
  <2> QED
    BY <1>1, <1>2
<1> QED
  BY <1>3 DEF FlattenedBy, Extended

LEMMA FlattenedExists ==
    ASSUME NEW seqs, NEW n \in Nat
    PROVE  \E f : FlattenedBy(seqs, n, f)
<1> DEFINE S == {m \in Nat : \E f : FlattenedBy(seqs, m, f)}
<1>1. 0 \in S
  <2> DEFINE f == [i \in 1 .. 0 |-> <<>>]
  <2>1. FlattenedBy(seqs, 0, f)
    BY DEF FlattenedBy
  <2> QED
    BY <2>1
<1>2. ASSUME NEW m \in 1 .. n, m - 1 \in S PROVE m \in S
  <2>1. PICK f : FlattenedBy(seqs, m - 1, f)
    BY <1>2
  <2>2. m - 1 \in Nat /\ m - 1 + 1 = m
    OBVIOUS
  <2>3. \E h : FlattenedBy(seqs, m - 1 + 1, h)
    BY <2>1, <2>2, ExtendFlattened
  <2> QED
    BY <2>2, <2>3
<1> HIDE DEF S
<1>3. \A m \in 0 .. n : m \in S
  BY <1>1, <1>2, UpTo
<1> QED
  BY <1>3 DEF S

\* The recursion has one solution.
LEMMA FlattenedUnique ==
    ASSUME NEW seqs, NEW n \in Nat, NEW f, NEW g,
           FlattenedBy(seqs, n, f), FlattenedBy(seqs, n, g)
    PROVE  f = g
<1> DEFINE S == {m \in 0 .. n : m = 0 \/ f[m] = g[m]}
<1>1. /\ \A i \in 1 .. n : f[i] = IF i = 1 THEN seqs[i] ELSE f[i - 1] \o seqs[i]
      /\ \A i \in 1 .. n : g[i] = IF i = 1 THEN seqs[i] ELSE g[i - 1] \o seqs[i]
  BY DEF FlattenedBy
<1>2. 0 \in S
  OBVIOUS
<1>3. ASSUME NEW m \in 1 .. n, m - 1 \in S PROVE m \in S
  <2>1. m \in 0 .. n /\ (m /= 1 => m - 1 /= 0)
    OBVIOUS
  <2>2. f[m] = g[m]
    BY <1>1, <1>3, <2>1
  <2> QED
    BY <2>1, <2>2
<1>4. \A m \in 1 .. n : f[m] = g[m]
  <2> HIDE DEF S
  <2>1. \A m \in 0 .. n : m \in S
    BY <1>2, <1>3, UpTo
  <2> QED
    BY <2>1 DEF S
<1>5. f = [i \in 1 .. n |-> f[i]] /\ g = [i \in 1 .. n |-> g[i]]
  BY DEF FlattenedBy
<1> QED
  BY <1>4, <1>5

LEMMA FlattenIs ==
    ASSUME NEW seqs, Len(seqs) \in Nat \ {0}, NEW f, FlattenedBy(seqs, Len(seqs), f)
    PROVE  FlattenSeq(seqs) = f[Len(seqs)]
<1> DEFINE g == CHOOSE h : FlattenedBy(seqs, Len(seqs), h)
<1>1. FlattenSeq(seqs) = g[Len(seqs)]
  BY Zenon DEF FlattenSeq, FlattenedBy
<1>2. FlattenedBy(seqs, Len(seqs), g)
  BY FlattenedExists
<1>3. g = f
  <2> HIDE DEF g
  <2> QED
    BY <1>2, FlattenedUnique
<1> QED
  BY <1>1, <1>3

\* Flattening goes on where it was when a sequence is appended.
LEMMA FlattenAppend ==
    ASSUME NEW S, NEW seqs \in Seq(Seq(S)), NEW s \in Seq(S)
    PROVE  FlattenSeq(Append(seqs, s)) = FlattenSeq(seqs) \o s
<1> DEFINE n == Len(seqs)
           more == Append(seqs, s)
<1>1. /\ n \in Nat /\ Len(more) = n + 1 /\ more[n + 1] = s
      /\ \A i \in 1 .. n : more[i] = seqs[i]
  OBVIOUS
<1> HIDE DEF n, more
<1>2. PICK f : FlattenedBy(seqs, n, f)
  BY <1>1, FlattenedExists
<1> DEFINE h == Extended(more, n, f)
<1>3. FlattenedBy(more, n + 1, h)
  <2>1. \A i \in 1 .. n : more[i] = seqs[i]
    BY <1>1
  <2>2. n \in Nat
    BY <1>1
  <2> QED
    BY <1>2, <2>1, <2>2, ExtendFlattened
<1>4. h[n + 1] = IF n = 0 THEN s ELSE f[n] \o s
  BY <1>1 DEF Extended
<1>5. FlattenSeq(more) = h[n + 1]
  <2> HIDE DEF h
  <2>1. Len(more) \in Nat \ {0}
    BY <1>1
  <2> QED
    BY <1>1, <1>3, <2>1, FlattenIs
<1>6. CASE n = 0
  <2>1. seqs = <<>>
    BY <1>6 DEF n
  <2>2. FlattenSeq(seqs) = <<>>
    BY <2>1 DEF FlattenSeq
  <2> QED
    BY <1>4, <1>5, <1>6, <2>2 DEF more
<1>7. CASE n /= 0
  <2>1. FlattenSeq(seqs) = f[n]
    BY <1>1, <1>2, <1>7, FlattenIs DEF n
  <2> QED
    BY <1>4, <1>5, <1>7, <2>1 DEF more
<1> QED
  BY <1>6, <1>7

LEMMA FlattenMore ==
    ASSUME NEW S, NEW n \in Nat, NEW seqs \in [1 .. n -> Seq(S)],
           NEW more \in [1 .. n + 1 -> Seq(S)], \A i \in 1 .. n : more[i] = seqs[i]
    PROVE  FlattenSeq(more) = FlattenSeq(seqs) \o more[n + 1]
<1> DEFINE Q == Seq(S)
           m == n + 1
           s == more[n + 1]
           t == Append(seqs, s)
<1>1. seqs \in Seq(Q) /\ Len(seqs) = n
  OBVIOUS
<1>2. m \in Nat /\ m \in 1 .. m /\ n + 1 = m /\ \A i \in 1 .. m : i \in 1 .. n \/ i = m
  OBVIOUS
<1>3. more \in Seq(Q) /\ Len(more) = m
  <2> HIDE DEF m, Q
  <2>1. more \in [1 .. m -> Q]
    BY <1>2 DEF Q
  <2> QED
    BY <1>2, <2>1
<1>4. s \in Q
  BY <1>2
<1> HIDE DEF Q, m, s
<1>5. t \in Seq(Q) /\ Len(t) = m /\ t[m] = s /\ \A i \in 1 .. n : t[i] = seqs[i]
  BY <1>1, <1>2, <1>4, AppendProperties
<1> HIDE DEF t
<1>6. \A i \in 1 .. m : more[i] = t[i]
  BY <1>2, <1>5 DEF s
<1>7. more = t
  BY <1>3, <1>5, <1>6, SeqEqual
<1>8. FlattenSeq(t) = FlattenSeq(seqs) \o s
  BY <1>1, <1>4, FlattenAppend DEF t, Q
<1> QED
  BY <1>7, <1>8 DEF s

LEMMA FlattenEmpty == FlattenSeq(<<>>) = <<>>
  BY DEF FlattenSeq

-----------------------------------------------------------------------------
(* Sections. *)

LEMMA MaxExists ==
    ASSUME NEW n \in Nat, NEW S \in SUBSET (1 .. n), S /= {}
    PROVE  Max(S) \in S /\ \A y \in S : Max(S) >= y
<1> DEFINE HasMax(Q) == \E x \in Q : \A y \in Q : x >= y
           K == {k \in 0 .. n : \A Q \in SUBSET (1 .. k) : Q /= {} => HasMax(Q)}
<1>1. 0 \in K
  <2>1. 1 .. 0 = {} /\ 0 \in 0 .. n
    OBVIOUS
  <2>2. \A Q \in SUBSET (1 .. 0) : Q = {}
    BY <2>1
  <2> HIDE DEF HasMax
  <2> QED
    BY <2>1, <2>2
<1>2. ASSUME NEW k \in 1 .. n, k - 1 \in K PROVE k \in K
  <2>1. ASSUME NEW Q \in SUBSET (1 .. k), Q /= {} PROVE HasMax(Q)
    <3>1. CASE k \in Q
      BY <3>1
    <3>2. CASE k \notin Q
      <4>1. Q \in SUBSET (1 .. k - 1)
        BY <3>2
      <4> QED
        BY <1>2, <2>1, <4>1
    <3> QED
      BY <3>1, <3>2
  <2> QED
    BY <2>1
<1>3. \A k \in 1 .. n : k - 1 \in K => k \in K
  BY <1>2
<1>4. n \in K
  <2> HIDE DEF K
  <2>1. \A k \in 0 .. n : k \in K
    BY <1>1, <1>3, UpTo
  <2> QED
    BY <2>1
<1>5. HasMax(S)
  BY <1>4
<1> QED
  BY <1>5 DEF Max

Sections == {"none"} \cup Headers

\* The section of a line, if it is said which one the line before it is in.
After(section, line) == IF line \in Headers THEN line ELSE section

\* The section at the end of a config.
Now(lines) == Section(lines, Len(lines))

LEMMA SectionOfHeader ==
    ASSUME NEW s \in Seq(Lines), NEW i \in 1 .. Len(s), s[i] \in Headers
    PROVE  Section(s, i) = s[i]
<1> DEFINE above == {j \in 1 .. i : s[j] \in Headers}
<1>1. above \in SUBSET (1 .. i) /\ i \in above /\ i \in Nat
  OBVIOUS
<1>2. Section(s, i) = s[Max(above)]
  BY <1>1 DEF Section
<1> HIDE DEF above
<1>3. Max(above) \in above /\ Max(above) >= i
  BY <1>1, MaxExists
<1>4. Max(above) \in 1 .. i
  BY <1>1, <1>3
<1>5. Max(above) = i
  BY <1>1, <1>3, <1>4
<1> QED
  BY <1>2, <1>5

LEMMA SectionAppend ==
    ASSUME NEW s \in Seq(Lines), NEW e \in Lines
    PROVE  /\ \A i \in 0 .. Len(s) : Section(Append(s, e), i) = Section(s, i)
           /\ Now(Append(s, e)) = After(Now(s), e)
<1> DEFINE n == Len(s)
           t == Append(s, e)
           above(q, i) == {j \in 1 .. i : q[j] \in Headers}
<1>1. /\ n \in Nat /\ t \in Seq(Lines) /\ Len(t) = n + 1 /\ t[n + 1] = e
      /\ \A j \in 1 .. n : t[j] = s[j]
  OBVIOUS
<1> HIDE DEF n, t
<1>2. \A q, i : Section(q, i) = IF above(q, i) = {} THEN "none" ELSE q[Max(above(q, i))]
  BY DEF Section
<1>3. ASSUME NEW i \in 0 .. n PROVE Section(t, i) = Section(s, i)
  <2>1. above(t, i) = above(s, i) /\ above(s, i) \in SUBSET (1 .. i)
    BY <1>1
  <2>2. above(s, i) /= {} => Max(above(s, i)) \in 1 .. n
    <3> HIDE DEF above
    <3>1. i \in Nat /\ 1 .. i \subseteq 1 .. n
      BY <1>1
    <3> QED
      BY <2>1, <3>1, MaxExists
  <2> HIDE DEF above
  <2> QED
    BY <1>1, <1>2, <2>1, <2>2
<1>4. Section(t, n + 1) = After(Section(s, n), e)
  <2>1. CASE e \in Headers
    <3>1. n + 1 \in 1 .. Len(t) /\ t[n + 1] \in Headers
      BY <1>1, <2>1
    <3> QED
      BY <1>1, <2>1, <3>1, SectionOfHeader DEF After
  <2>2. CASE e \notin Headers
    <3>1. above(t, n + 1) = above(t, n)
      BY <1>1, <2>2
    <3> HIDE DEF above
    <3>2. Section(t, n + 1) = Section(t, n)
      BY <1>2, <3>1
    <3>3. n \in 0 .. n
      BY <1>1
    <3> QED
      BY <1>3, <2>2, <3>2, <3>3 DEF After
  <2> QED
    BY <2>1, <2>2
<1> QED
  BY <1>1, <1>3, <1>4 DEF Now, n, t

LEMMA NowEmpty == Now(<<>>) = "none"
  BY DEF Now, Section

LEMMA NowTyped ==
    ASSUME NEW s \in Seq(Lines)
    PROVE  Now(s) \in Sections
<1> DEFINE T == {q \in Seq(Lines) : Now(q) \in Sections}
<1>1. <<>> \in T
  BY NowEmpty DEF Sections
<1>2. \A q \in Seq(Lines) : \A e \in Lines : q \in T => Append(q, e) \in T
  BY SectionAppend DEF Sections, After
<1> HIDE DEF T
<1>3. s \in T
  BY <1>1, <1>2, BySeq
<1> QED
  BY <1>3 DEF T

-----------------------------------------------------------------------------
(* The lines of a section. *)

LEMMA LinesInEmpty ==
    ASSUME NEW section
    PROVE  LinesIn(<<>>, section) = {}
  BY DEF LinesIn

LEMMA LinesInAppend ==
    ASSUME NEW s \in Seq(Lines), NEW e \in Lines, NEW section
    PROVE  LinesIn(Append(s, e), section)
             = LinesIn(s, section) \cup IF After(Now(s), e) = section THEN {e} ELSE {}
<1> DEFINE n == Len(s)
           t == Append(s, e)
<1>1. /\ n \in Nat /\ DOMAIN t = 1 .. n + 1 /\ t[n + 1] = e /\ Len(t) = n + 1
      /\ DOMAIN s = 1 .. n
      /\ \A j \in 1 .. n : t[j] = s[j]
  OBVIOUS
<1>2. /\ \A i \in 1 .. n : Section(t, i) = Section(s, i)
      /\ Section(t, n + 1) = After(Now(s), e)
  BY <1>1, SectionAppend DEF Now
<1>3. \A x : x \in LinesIn(t, section)
                <=> \E i \in 1 .. n + 1 : Section(t, i) = section /\ x = t[i]
  BY <1>1 DEF LinesIn
<1>4. \A x : x \in LinesIn(s, section)
                <=> \E i \in 1 .. n : Section(s, i) = section /\ x = s[i]
  BY <1>1 DEF LinesIn
<1> HIDE DEF n, t
<1>5. \A i \in 1 .. n + 1 : i \in 1 .. n \/ i = n + 1
  BY <1>1
<1>6. 1 .. n \subseteq 1 .. n + 1 /\ n + 1 \in 1 .. n + 1
  BY <1>1
<1>7. ASSUME NEW x
      PROVE  x \in LinesIn(t, section)
               <=> x \in LinesIn(s, section) \/ (After(Now(s), e) = section /\ x = e)
  BY <1>1, <1>2, <1>3, <1>4, <1>5, <1>6
<1> QED
  BY <1>7 DEF t

LEMMA LinesInTyped ==
    ASSUME NEW s \in Seq(Lines), NEW section
    PROVE  LinesIn(s, section) \subseteq Lines
  BY DEF LinesIn

\* Every line is in a section, and what the flags say is what there is in one.
LEMMA HasMeans ==
    ASSUME NEW s \in Seq(Lines), NEW section, NEW kind
    PROVE  Has(s, section, kind) <=> \E x \in LinesIn(s, section) : x \in kind
  BY DEF Has, LinesIn

LEMMA ContainsMeans ==
    ASSUME NEW s \in Seq(Lines), NEW x
    PROVE  Contains(s, x) <=> \E section \in Sections : x \in LinesIn(s, section)
<1> DEFINE T == {q \in Seq(Lines) :
                    (\E i \in 1 .. Len(q) : q[i] = x)
                        <=> \E section \in Sections : x \in LinesIn(q, section)}
<1>1. <<>> \in T
  BY LinesInEmpty
<1>2. ASSUME NEW q \in Seq(Lines), NEW e \in Lines, q \in T PROVE Append(q, e) \in T
  <2>1. Append(q, e) \in Seq(Lines)
    OBVIOUS
  <2>2. (\E i \in 1 .. Len(Append(q, e)) : Append(q, e)[i] = x)
          <=> x = e \/ \E i \in 1 .. Len(q) : q[i] = x
    <3>1. /\ Len(Append(q, e)) = Len(q) + 1 /\ Len(q) \in Nat /\ Append(q, e)[Len(q) + 1] = e
          /\ \A i \in 1 .. Len(q) : Append(q, e)[i] = q[i]
      OBVIOUS
    <3>2. ASSUME NEW i \in 1 .. Len(q) + 1 PROVE i \in 1 .. Len(q) \/ i = Len(q) + 1
      BY <3>1
    <3>3. 1 .. Len(q) \subseteq 1 .. Len(q) + 1 /\ Len(q) + 1 \in 1 .. Len(q) + 1
      BY <3>1
    <3> QED
      BY <3>1, <3>2, <3>3
  <2>3. After(Now(q), e) \in Sections
    BY NowTyped DEF After, Sections
  <2>4. (\E section \in Sections : x \in LinesIn(Append(q, e), section))
          <=> x = e \/ \E section \in Sections : x \in LinesIn(q, section)
    BY <2>3, LinesInAppend
  <2> QED
    BY <1>2, <2>1, <2>2, <2>4
<1> HIDE DEF T
<1>3. s \in T
  BY <1>1, <1>2, BySeq
<1> QED
  BY <1>3 DEF T, Contains

\* A header is in the section it begins.
LEMMA HeaderIsOwn ==
    ASSUME NEW s \in Seq(Lines), NEW section, NEW h \in Headers
    PROVE  /\ h \in LinesIn(s, section) => h = section
           /\ (\E i \in 1 .. Len(s) : s[i] = h) <=> h \in LinesIn(s, h)
  BY SectionOfHeader DEF LinesIn

-----------------------------------------------------------------------------
(* The pass. *)

\* What the pass writes for a line of a section.
PassLine(section, line, endpoint) ==
    IF section = "[Interface]" /\ line \in Mtu THEN <<"MTU 1280">>
    ELSE IF section = "[Peer]" /\ line \in Ips THEN <<"AllowedIPs VK">>
    ELSE IF section = "[Peer]" /\ line \in Endpoint THEN endpoint
    ELSE <<line>>

\* What the two functions write for an endpoint.
Endpoints == {<<>>, <<"Endpoint local">>}

LEMMA RewrittenIs ==
    ASSUME NEW lines, NEW i, NEW endpoint
    PROVE  Rewritten(lines, i, endpoint) = PassLine(Section(lines, i), lines[i], endpoint)
<1>1. CASE Section(lines, i) = "[Interface]" /\ lines[i] \in Mtu
  BY <1>1 DEF Rewritten, PassLine
<1>2. CASE Section(lines, i) = "[Peer]" /\ lines[i] \in Ips
  BY <1>2 DEF Rewritten, PassLine, Ips, Endpoint
<1>3. CASE Section(lines, i) = "[Peer]" /\ lines[i] \in Endpoint
  BY <1>3 DEF Rewritten, PassLine, Ips, Endpoint
<1>4. CASE ~ \/ Section(lines, i) = "[Interface]" /\ lines[i] \in Mtu
             \/ Section(lines, i) = "[Peer]" /\ lines[i] \in Ips
             \/ Section(lines, i) = "[Peer]" /\ lines[i] \in Endpoint
  BY <1>4 DEF Rewritten, PassLine
<1> QED
  BY <1>1, <1>2, <1>3, <1>4

\* For one line there is one or none, and a header is kept.
LEMMA PassLineIs ==
    ASSUME NEW section, NEW line \in Lines, NEW endpoint \in Endpoints
    PROVE  /\ \/ PassLine(section, line, endpoint) = <<>> /\ line \notin Headers
              \/ \E x \in Lines : /\ PassLine(section, line, endpoint) = <<x>>
                                  /\ IF line \in Headers THEN x = line ELSE x \notin Headers
           /\ PassLine(section, line, endpoint) \in Seq(Lines)
<1>1. /\ "MTU 1280" \in Lines \ Headers /\ "AllowedIPs VK" \in Lines \ Headers
      /\ "Endpoint local" \in Lines \ Headers
      /\ Headers \cap Mtu = {} /\ Headers \cap Ips = {} /\ Headers \cap Endpoint = {}
  BY DEF Lines, Headers, Mtu, Ips, Endpoint
<1>2. \/ PassLine(section, line, endpoint) = <<>> /\ line \notin Headers
      \/ \E x \in Lines : /\ PassLine(section, line, endpoint) = <<x>>
                          /\ IF line \in Headers THEN x = line ELSE x \notin Headers
  BY <1>1 DEF PassLine, Endpoints
<1>3. <<>> \in Seq(Lines) /\ \A x \in Lines : <<x>> \in Seq(Lines)
  OBVIOUS
<1> QED
  BY <1>2, <1>3

LEMMA PassEmpty ==
    ASSUME NEW endpoint
    PROVE  Pass(<<>>, endpoint) = <<>>
<1>1. [i \in DOMAIN <<>> |-> Rewritten(<<>>, i, endpoint)] = <<>>
  OBVIOUS
<1> QED
  BY <1>1, FlattenEmpty DEF Pass

LEMMA PassAppend ==
    ASSUME NEW s \in Seq(Lines), NEW e \in Lines, NEW endpoint \in Endpoints
    PROVE  Pass(Append(s, e), endpoint)
             = Pass(s, endpoint) \o PassLine(After(Now(s), e), e, endpoint)
<1> DEFINE n == Len(s)
           t == Append(s, e)
           last == PassLine(After(Now(s), e), e, endpoint)
           chunks(q) == [i \in DOMAIN q |-> Rewritten(q, i, endpoint)]
<1>1. /\ n \in Nat /\ DOMAIN t = 1 .. n + 1 /\ t[n + 1] = e /\ DOMAIN s = 1 .. n
      /\ Len(t) = n + 1
      /\ \A j \in 1 .. n : t[j] = s[j] /\ s[j] \in Lines
  OBVIOUS
<1>2. /\ \A i \in 1 .. n : Section(t, i) = Section(s, i)
      /\ Section(t, n + 1) = After(Now(s), e)
  BY <1>1, SectionAppend DEF Now
<1> HIDE DEF n, t, last
<1>3. \A i \in 1 .. n : /\ Rewritten(t, i, endpoint) = Rewritten(s, i, endpoint)
                        /\ Rewritten(s, i, endpoint) \in Seq(Lines)
  BY <1>1, <1>2, RewrittenIs, PassLineIs
<1>4. Rewritten(t, n + 1, endpoint) = last
  BY <1>1, <1>2, RewrittenIs DEF last
<1>5. last \in Seq(Lines)
  BY PassLineIs DEF last
<1>6. chunks(s) \in [1 .. n -> Seq(Lines)] /\ chunks(t) \in [1 .. n + 1 -> Seq(Lines)]
  <2>1. \A i \in 1 .. n + 1 : i \in 1 .. n \/ i = n + 1
    BY <1>1
  <2> QED
    BY <1>1, <1>3, <1>4, <1>5, <2>1
<1>7. chunks(t)[n + 1] = last /\ \A i \in 1 .. n : chunks(t)[i] = chunks(s)[i]
  BY <1>1, <1>3, <1>4
<1>8. FlattenSeq(chunks(t)) = FlattenSeq(chunks(s)) \o last
  <2> HIDE DEF chunks
  <2> QED
    BY <1>1, <1>6, <1>7, FlattenMore
<1> QED
  BY <1>8 DEF Pass, t, last

LEMMA PassTyped ==
    ASSUME NEW s \in Seq(Lines), NEW endpoint \in Endpoints
    PROVE  Pass(s, endpoint) \in Seq(Lines) /\ Now(Pass(s, endpoint)) = Now(s)
<1> DEFINE Good(q) == Pass(q, endpoint) \in Seq(Lines) /\ Now(Pass(q, endpoint)) = Now(q)
           T == {q \in Seq(Lines) : Good(q)}
<1>1. <<>> \in T
  <2>1. <<>> \in Seq(Lines) /\ Pass(<<>>, endpoint) = <<>>
    BY PassEmpty
  <2> QED
    BY <2>1
<1>2. ASSUME NEW q \in Seq(Lines), NEW e \in Lines, q \in T PROVE Append(q, e) \in T
  <2> DEFINE p == Pass(q, endpoint)
             chunk == PassLine(After(Now(q), e), e, endpoint)
  <2>1. p \in Seq(Lines) /\ Now(p) = Now(q) /\ Append(q, e) \in Seq(Lines)
    BY <1>2
  <2>2. Pass(Append(q, e), endpoint) = p \o chunk
    BY PassAppend
  <2>3. Now(Append(q, e)) = After(Now(q), e)
    BY SectionAppend
  <2>4. CASE chunk = <<>> /\ e \notin Headers
    <3>1. p \o chunk = p
      BY <2>1, <2>4
    <3> QED
      BY <2>1, <2>2, <2>3, <2>4, <3>1 DEF After
  <2>5. CASE \E x \in Lines : chunk = <<x>> /\ IF e \in Headers THEN x = e ELSE x \notin Headers
    <3>1. PICK x \in Lines : chunk = <<x>> /\ IF e \in Headers THEN x = e ELSE x \notin Headers
      BY <2>5
    <3> HIDE DEF p, chunk
    <3>2. p \o chunk = Append(p, x) /\ Append(p, x) \in Seq(Lines)
      BY <2>1, <3>1
    <3>3. Now(Append(p, x)) = After(Now(p), x)
      BY <2>1, SectionAppend
    <3>4. After(Now(p), x) = After(Now(q), e)
      BY <2>1, <3>1 DEF After
    <3>5. Good(Append(q, e))
      BY <2>2, <2>3, <3>2, <3>3, <3>4
    <3> QED
      BY <2>1, <3>5
  <2> QED
    BY <2>4, <2>5, PassLineIs
<1> HIDE DEF T
<1>3. s \in T
  BY <1>1, <1>2, BySeq
<1> QED
  BY <1>3 DEF T

\* The sections of the result hold what the pass writes for their lines.
LEMMA PassLines ==
    ASSUME NEW s \in Seq(Lines), NEW endpoint \in Endpoints, NEW section
    PROVE  \A x : x \in LinesIn(Pass(s, endpoint), section)
                     <=> \E e \in LinesIn(s, section) : PassLine(section, e, endpoint) = <<x>>
<1> DEFINE Good(q) == \A x : x \in LinesIn(Pass(q, endpoint), section)
                       <=> \E e \in LinesIn(q, section) : PassLine(section, e, endpoint) = <<x>>
           T == {q \in Seq(Lines) : Good(q)}
<1>1. <<>> \in T
  BY PassEmpty, LinesInEmpty
<1>2. ASSUME NEW q \in Seq(Lines), NEW e \in Lines, q \in T PROVE Append(q, e) \in T
  <2> DEFINE p == Pass(q, endpoint)
             where == After(Now(q), e)
             chunk == PassLine(where, e, endpoint)
  <2>1. p \in Seq(Lines) /\ Now(p) = Now(q) /\ Append(q, e) \in Seq(Lines)
    BY PassTyped
  <2>2. Pass(Append(q, e), endpoint) = p \o chunk
    BY PassAppend
  <2>3. LinesIn(Append(q, e), section)
          = LinesIn(q, section) \cup IF where = section THEN {e} ELSE {}
    BY LinesInAppend
  <2>4. \A x : x \in LinesIn(p, section)
                 <=> \E d \in LinesIn(q, section) : PassLine(section, d, endpoint) = <<x>>
    BY <1>2
  <2>5. CASE chunk = <<>> /\ e \notin Headers
    <3>1. p \o chunk = p
      BY <2>1, <2>5
    <3>2. \A x : <<x>> /= <<>>
      OBVIOUS
    <3>3. where = section => \A x : PassLine(section, e, endpoint) /= <<x>>
      BY <2>5, <3>2
    <3> HIDE DEF p, where, chunk
    <3>4. Good(Append(q, e))
      BY <2>2, <2>3, <2>4, <3>1, <3>3
    <3> QED
      BY <2>1, <3>4
  <2>6. CASE \E y \in Lines : chunk = <<y>> /\ IF e \in Headers THEN y = e ELSE y \notin Headers
    <3>1. PICK y \in Lines : chunk = <<y>> /\ IF e \in Headers THEN y = e ELSE y \notin Headers
      BY <2>6
    <3>2. where = section => PassLine(section, e, endpoint) = <<y>>
      BY <3>1
    <3>3. After(Now(p), y) = where
      BY <2>1, <3>1 DEF After
    <3> HIDE DEF p, where, chunk
    <3>4. p \o chunk = Append(p, y)
      BY <2>1, <3>1
    <3>5. LinesIn(Append(p, y), section)
            = LinesIn(p, section) \cup IF where = section THEN {y} ELSE {}
      BY <2>1, <3>3, LinesInAppend
    <3>6. \A x : <<x>> = <<y>> <=> x = y
      OBVIOUS
    <3>7. Good(Append(q, e))
      BY <2>2, <2>3, <2>4, <3>2, <3>4, <3>5, <3>6
    <3> QED
      BY <2>1, <3>7
  <2> QED
    BY <2>5, <2>6, PassLineIs
<1> HIDE DEF T
<1>3. s \in T
  BY <1>1, <1>2, BySeq
<1> QED
  BY <1>3 DEF T

\* A pass that would write every line as it is changes nothing.
Unchanging(lines, endpoint) ==
    \A section \in Sections : \A e \in LinesIn(lines, section) :
        PassLine(section, e, endpoint) = <<e>>

LEMMA UnchangingBefore ==
    ASSUME NEW s \in Seq(Lines), NEW e \in Lines, NEW endpoint,
           Unchanging(Append(s, e), endpoint)
    PROVE  /\ Unchanging(s, endpoint)
           /\ PassLine(After(Now(s), e), e, endpoint) = <<e>>
<1>1. After(Now(s), e) \in Sections
  BY NowTyped DEF After, Sections
<1> QED
  BY <1>1, LinesInAppend DEF Unchanging

LEMMA PassKeeps ==
    ASSUME NEW s \in Seq(Lines), NEW endpoint \in Endpoints, Unchanging(s, endpoint)
    PROVE  Pass(s, endpoint) = s
<1> DEFINE T == {q \in Seq(Lines) : Unchanging(q, endpoint) => Pass(q, endpoint) = q}
<1>1. <<>> \in T
  <2>1. <<>> \in Seq(Lines) /\ Pass(<<>>, endpoint) = <<>>
    BY PassEmpty
  <2> QED
    BY <2>1
<1>2. ASSUME NEW q \in Seq(Lines), NEW e \in Lines, q \in T PROVE Append(q, e) \in T
  <2>1. Append(q, e) \in Seq(Lines) /\ q \o <<e>> = Append(q, e)
    OBVIOUS
  <2>2. Unchanging(Append(q, e), endpoint) => Pass(Append(q, e), endpoint) = Append(q, e)
    <3> SUFFICES ASSUME Unchanging(Append(q, e), endpoint)
                 PROVE  Pass(Append(q, e), endpoint) = Append(q, e)
      OBVIOUS
    <3>1. Unchanging(q, endpoint) /\ PassLine(After(Now(q), e), e, endpoint) = <<e>>
      BY UnchangingBefore
    <3>2. Pass(q, endpoint) = q
      BY <1>2, <3>1
    <3>3. Pass(Append(q, e), endpoint)
            = Pass(q, endpoint) \o PassLine(After(Now(q), e), e, endpoint)
      BY PassAppend
    <3> QED
      BY <2>1, <3>1, <3>2, <3>3
  <2> QED
    BY <2>1, <2>2
<1> HIDE DEF T
<1>3. s \in T
  BY <1>1, <1>2, BySeq
<1> QED
  BY <1>3 DEF T

-----------------------------------------------------------------------------
(* The insertions. *)

\* What is written for a line when another goes behind a header.
InsertLine(e, header, line) == IF e = header THEN <<header, line>> ELSE <<e>>

LEMMA InsertEmpty ==
    ASSUME NEW header, NEW line
    PROVE  /\ InsertAfterAll(<<>>, header, line) = <<>>
           /\ InsertAfterFirst(<<>>, header, line) = <<>>
<1> DEFINE all == [i \in DOMAIN <<>> |->
               IF <<>>[i] = header THEN <<header, line>> ELSE <<<<>>[i]>>]
           one == [i \in DOMAIN <<>> |->
               IF <<>>[i] = header /\ \A j \in 1 .. i - 1 : <<>>[j] /= header
               THEN <<header, line>> ELSE <<<<>>[i]>>]
<1>1. all = <<>> /\ one = <<>>
  OBVIOUS
<1> QED
  BY <1>1, FlattenEmpty DEF InsertAfterAll, InsertAfterFirst

LEMMA InsertAllAppend ==
    ASSUME NEW s \in Seq(Lines), NEW e \in Lines, NEW header \in Lines, NEW line \in Lines
    PROVE  InsertAfterAll(Append(s, e), header, line)
             = InsertAfterAll(s, header, line) \o InsertLine(e, header, line)
<1> DEFINE n == Len(s)
           t == Append(s, e)
           chunks(q) == [i \in DOMAIN q |->
                           IF q[i] = header THEN <<header, line>> ELSE <<q[i]>>]
<1>1. /\ n \in Nat /\ DOMAIN t = 1 .. n + 1 /\ t[n + 1] = e /\ DOMAIN s = 1 .. n
      /\ \A j \in 1 .. n : t[j] = s[j] /\ s[j] \in Lines /\ j \in 1 .. n + 1
      /\ n + 1 \in 1 .. n + 1
      /\ \A i \in 1 .. n + 1 : t[i] \in Lines
  OBVIOUS
<1> HIDE DEF n, t
<1>2. <<header, line>> \in Seq(Lines) /\ \A x \in Lines : <<x>> \in Seq(Lines)
  OBVIOUS
<1>3. chunks(s) \in [1 .. n -> Seq(Lines)] /\ chunks(t) \in [1 .. n + 1 -> Seq(Lines)]
  BY <1>1, <1>2
<1>4. chunks(t)[n + 1] = InsertLine(e, header, line)
  BY <1>1 DEF InsertLine
<1>5. \A i \in 1 .. n : chunks(t)[i] = chunks(s)[i]
  BY <1>1
<1>6. FlattenSeq(chunks(t)) = FlattenSeq(chunks(s)) \o InsertLine(e, header, line)
  <2> HIDE DEF chunks
  <2> QED
    BY <1>1, <1>3, <1>4, <1>5, FlattenMore
<1> QED
  BY <1>6 DEF InsertAfterAll, t

LEMMA InsertFirstAppend ==
    ASSUME NEW s \in Seq(Lines), NEW e \in Lines, NEW header \in Lines, NEW line \in Lines
    PROVE  InsertAfterFirst(Append(s, e), header, line)
             = InsertAfterFirst(s, header, line)
                 \o IF \E j \in 1 .. Len(s) : s[j] = header THEN <<e>>
                    ELSE InsertLine(e, header, line)
<1> DEFINE n == Len(s)
           t == Append(s, e)
           first(q, i) == q[i] = header /\ \A j \in 1 .. i - 1 : q[j] /= header
           chunks(q) == [i \in DOMAIN q |->
                           IF first(q, i) THEN <<header, line>> ELSE <<q[i]>>]
           last == IF \E j \in 1 .. n : s[j] = header THEN <<e>>
                   ELSE InsertLine(e, header, line)
<1>1. /\ n \in Nat /\ DOMAIN t = 1 .. n + 1 /\ t[n + 1] = e /\ DOMAIN s = 1 .. n
      /\ \A j \in 1 .. n : t[j] = s[j] /\ s[j] \in Lines /\ j \in 1 .. n + 1
      /\ n + 1 \in 1 .. n + 1 /\ n + 1 - 1 = n
      /\ \A i \in 1 .. n + 1 : t[i] \in Lines
      /\ \A i \in 1 .. n : \A j \in 1 .. i - 1 : j \in 1 .. n
  OBVIOUS
<1> HIDE DEF n, t
<1>2. <<header, line>> \in Seq(Lines) /\ \A x \in Lines : <<x>> \in Seq(Lines)
  OBVIOUS
<1>3. /\ \A i \in 1 .. n : first(t, i) <=> first(s, i)
      /\ first(t, n + 1) <=> e = header /\ ~ \E j \in 1 .. n : s[j] = header
  BY <1>1
<1> HIDE DEF first
<1>4. chunks(s) \in [1 .. n -> Seq(Lines)] /\ chunks(t) \in [1 .. n + 1 -> Seq(Lines)]
  BY <1>1, <1>2
<1>5. chunks(t)[n + 1] = last
  BY <1>1, <1>3 DEF InsertLine
<1>6. \A i \in 1 .. n : chunks(t)[i] = chunks(s)[i]
  BY <1>1, <1>3
<1>7. FlattenSeq(chunks(t)) = FlattenSeq(chunks(s)) \o last
  <2> HIDE DEF chunks, last
  <2> QED
    BY <1>1, <1>4, <1>5, <1>6, FlattenMore
<1> QED
  BY <1>7 DEF InsertAfterFirst, t, n, first

\* The config after is the one before with a line more in the section of a header.
Grown(before, after, header, line) ==
    /\ after \in Seq(Lines)
    /\ Now(after) = Now(before)
    /\ \A section \in Sections :
         LinesIn(after, section) = LinesIn(before, section)
           \cup IF section = header /\ header \in LinesIn(before, header) THEN {line} ELSE {}

LEMMA GrownOn ==
    ASSUME NEW before \in Seq(Lines), NEW after, NEW header \in Headers,
           NEW line \in Lines \ Headers, Grown(before, after, header, line),
           NEW e \in Lines, NEW chunk,
           \/ chunk = <<e>> /\ (e = header => header \in LinesIn(before, header))
           \/ chunk = <<header, line>> /\ e = header
    PROVE  Grown(Append(before, e), after \o chunk, header, line)
<1> DEFINE where == After(Now(before), e)
           q == Append(before, e)
<1>1. /\ after \in Seq(Lines) /\ Now(after) = Now(before)
      /\ q \in Seq(Lines) /\ Append(after, e) \in Seq(Lines)
      /\ header \in Lines /\ line \in Lines
  BY DEF Grown, Lines
<1>2. /\ Now(q) = where /\ Now(Append(after, e)) = where
      /\ where \in Sections
  <2>1. Now(before) \in Sections
    BY NowTyped
  <2> QED
    BY <1>1, <2>1, SectionAppend DEF After, Sections
<1>3. \A section : LinesIn(q, section)
        = LinesIn(before, section) \cup IF where = section THEN {e} ELSE {}
  BY LinesInAppend
<1>4. \A section : LinesIn(Append(after, e), section)
        = LinesIn(after, section) \cup IF where = section THEN {e} ELSE {}
  BY <1>1, LinesInAppend
<1>5. \A section \in Sections :
         LinesIn(after, section) = LinesIn(before, section)
           \cup IF section = header /\ header \in LinesIn(before, header) THEN {line} ELSE {}
  BY DEF Grown
<1>6. e = header => where = header
  BY DEF After
<1> HIDE DEF q, where
<1>7. CASE chunk = <<e>> /\ (e = header => header \in LinesIn(before, header))
  <2>1. after \o chunk = Append(after, e)
    BY <1>1, <1>7
  <2>2. header \in LinesIn(q, header) <=> header \in LinesIn(before, header)
    BY <1>3, <1>7
  <2>3. \A section \in Sections :
         LinesIn(Append(after, e), section) = LinesIn(q, section)
           \cup IF section = header /\ header \in LinesIn(q, header) THEN {line} ELSE {}
    BY <1>3, <1>4, <1>5, <2>2
  <2> QED
    BY <1>1, <1>2, <2>1, <2>3 DEF Grown, q
<1>8. CASE chunk = <<header, line>> /\ e = header
  <2> DEFINE a == Append(after, e)
             b == Append(a, line)
  <2>1. a \in Seq(Lines) /\ b \in Seq(Lines) /\ after \o chunk = b
    BY <1>1, <1>8
  <2>2. After(Now(a), line) = header
    BY <1>2, <1>6, <1>8 DEF After
  <2>3. Now(b) = header
    BY <1>1, <2>1, <2>2, SectionAppend
  <2>4. \A section : LinesIn(b, section)
          = LinesIn(a, section) \cup IF header = section THEN {line} ELSE {}
    BY <1>1, <2>1, <2>2, LinesInAppend
  <2>5. \A section : LinesIn(a, section)
          = LinesIn(after, section) \cup IF header = section THEN {header} ELSE {}
    BY <1>4, <1>6, <1>8
  <2>6. header \in LinesIn(q, header)
    BY <1>3, <1>6, <1>8
  <2> HIDE DEF a, b
  <2>7. \A section \in Sections :
         LinesIn(b, section) = LinesIn(q, section)
           \cup IF section = header /\ header \in LinesIn(q, header) THEN {line} ELSE {}
    BY <1>3, <1>5, <1>6, <1>8, <2>4, <2>5, <2>6
  <2> QED
    BY <1>2, <1>6, <1>8, <2>1, <2>3, <2>7 DEF Grown, q
<1> QED
  BY <1>7, <1>8

\* Both insertions put the line into the section, if there is one, and leave the
\* others alone.
LEMMA InsertGrows ==
    ASSUME NEW s \in Seq(Lines), NEW header \in Headers, NEW line \in Lines \ Headers
    PROVE  /\ Grown(s, InsertAfterAll(s, header, line), header, line)
           /\ Grown(s, InsertAfterFirst(s, header, line), header, line)
<1> DEFINE all(q) == InsertAfterAll(q, header, line)
           one(q) == InsertAfterFirst(q, header, line)
           T == {q \in Seq(Lines) : /\ Grown(q, all(q), header, line)
                                    /\ Grown(q, one(q), header, line)}
<1>1. <<>> \in T
  <2>1. all(<<>>) = <<>> /\ one(<<>>) = <<>> /\ <<>> \in Seq(Lines)
    BY InsertEmpty
  <2>2. Grown(<<>>, <<>>, header, line)
    BY LinesInEmpty DEF Grown
  <2> QED
    BY <2>1, <2>2
<1>2. ASSUME NEW q \in Seq(Lines), NEW e \in Lines, q \in T PROVE Append(q, e) \in T
  <2>1. Append(q, e) \in Seq(Lines) /\ header \in Lines /\ line \in Lines
    BY DEF Lines
  <2>2. (\E i \in 1 .. Len(q) : q[i] = header) <=> header \in LinesIn(q, header)
    BY HeaderIsOwn
  <2>3. Grown(q, all(q), header, line) /\ Grown(q, one(q), header, line)
    BY <1>2
  <2> DEFINE chunkAll == InsertLine(e, header, line)
             chunkOne == IF \E i \in 1 .. Len(q) : q[i] = header THEN <<e>>
                         ELSE InsertLine(e, header, line)
  <2>4. all(Append(q, e)) = all(q) \o chunkAll
    BY <2>1, InsertAllAppend
  <2>5. one(Append(q, e)) = one(q) \o chunkOne
    BY <2>1, InsertFirstAppend
  <2>6. \/ chunkAll = <<e>> /\ (e = header => header \in LinesIn(q, header))
        \/ chunkAll = <<header, line>> /\ e = header
    BY DEF InsertLine
  <2>7. \/ chunkOne = <<e>> /\ (e = header => header \in LinesIn(q, header))
        \/ chunkOne = <<header, line>> /\ e = header
    BY <2>2 DEF InsertLine
  <2> HIDE DEF all, one, chunkAll, chunkOne
  <2>8. Grown(Append(q, e), all(q) \o chunkAll, header, line)
    BY <2>3, <2>6, GrownOn
  <2>9. Grown(Append(q, e), one(q) \o chunkOne, header, line)
    BY <2>3, <2>7, GrownOn
  <2> QED
    BY <2>1, <2>4, <2>5, <2>8, <2>9
<1> HIDE DEF T
<1>3. s \in T
  BY <1>1, <1>2, BySeq
<1> QED
  BY <1>3 DEF T

\* Without such a header nothing is inserted.
LEMMA InsertNothing ==
    ASSUME NEW s \in Seq(Lines), NEW header \in Headers, NEW line \in Lines,
           header \notin LinesIn(s, header)
    PROVE  /\ InsertAfterAll(s, header, line) = s
           /\ InsertAfterFirst(s, header, line) = s
<1> DEFINE T == {q \in Seq(Lines) : header \notin LinesIn(q, header) =>
                    /\ InsertAfterAll(q, header, line) = q
                    /\ InsertAfterFirst(q, header, line) = q}
<1>1. <<>> \in T
  <2>1. <<>> \in Seq(Lines)
    OBVIOUS
  <2> QED
    BY <2>1, InsertEmpty
<1>2. ASSUME NEW q \in Seq(Lines), NEW e \in Lines, q \in T PROVE Append(q, e) \in T
  <2>1. Append(q, e) \in Seq(Lines) /\ header \in Lines /\ q \o <<e>> = Append(q, e)
    BY DEF Lines
  <2>2. header \notin LinesIn(Append(q, e), header)
          => header \notin LinesIn(q, header) /\ e /= header
    BY LinesInAppend DEF After
  <2>3. InsertAfterAll(Append(q, e), header, line)
          = InsertAfterAll(q, header, line) \o InsertLine(e, header, line)
    BY <2>1, InsertAllAppend
  <2>4. InsertAfterFirst(Append(q, e), header, line)
          = InsertAfterFirst(q, header, line)
              \o IF \E j \in 1 .. Len(q) : q[j] = header THEN <<e>>
                 ELSE InsertLine(e, header, line)
    BY <2>1, InsertFirstAppend
  <2>5. e /= header => InsertLine(e, header, line) = <<e>>
    BY DEF InsertLine
  <2> QED
    BY <1>2, <2>1, <2>2, <2>3, <2>4, <2>5
<1> HIDE DEF T
<1>3. s \in T
  BY <1>1, <1>2, BySeq
<1> QED
  BY <1>3 DEF T


-----------------------------------------------------------------------------
(* What is in the sections of the results. *)

\* A section that has lines has its header among them.
LEMMA SectionBegins ==
    ASSUME NEW s \in Seq(Lines), NEW header \in Headers, LinesIn(s, header) /= {}
    PROVE  header \in LinesIn(s, header)
<1> DEFINE Good(q) == Now(q) = header \/ LinesIn(q, header) /= {} => header \in LinesIn(q, header)
           T == {q \in Seq(Lines) : Good(q)}
<1>1. <<>> \in T
  <2>1. <<>> \in Seq(Lines) /\ Now(<<>>) /= header
    BY NowEmpty DEF Headers
  <2> QED
    BY <2>1, LinesInEmpty
<1>2. ASSUME NEW q \in Seq(Lines), NEW e \in Lines, q \in T PROVE Append(q, e) \in T
  <2>1. Append(q, e) \in Seq(Lines) /\ Now(Append(q, e)) = After(Now(q), e)
    BY SectionAppend
  <2>2. LinesIn(Append(q, e), header)
          = LinesIn(q, header) \cup IF After(Now(q), e) = header THEN {e} ELSE {}
    BY LinesInAppend
  <2>3. After(Now(q), e) = header => Now(q) = header \/ e = header
    BY DEF After
  <2>4. Good(q)
    BY <1>2
  <2>5. Good(Append(q, e))
    BY <2>1, <2>2, <2>3, <2>4
  <2> QED
    BY <2>1, <2>5
<1> HIDE DEF T
<1>3. s \in T
  BY <1>1, <1>2, BySeq
<1> QED
  BY <1>3 DEF T

\* The kinds are apart from each other.
LEMMA Kinds ==
    /\ Headers \subseteq Lines /\ Mtu \subseteq Lines /\ Ips \subseteq Lines
    /\ Endpoint \subseteq Lines
    /\ "MTU 1280" \in Mtu /\ "AllowedIPs VK" \in Ips /\ "Endpoint local" \in Endpoint
    /\ Headers \cap Mtu = {} /\ Headers \cap Ips = {} /\ Headers \cap Endpoint = {}
    /\ Mtu \cap Ips = {} /\ Mtu \cap Endpoint = {} /\ Ips \cap Endpoint = {}
    /\ "[Interface]" \in Headers /\ "[Peer]" \in Headers
    /\ Sections = {"none", "[Interface]", "[Peer]"}
    /\ "#local" \notin Headers \cup Mtu \cup Ips \cup Endpoint
  BY DEF Headers, Mtu, Ips, Endpoint, Lines, Sections

\* The set of the lines that a pass leaves of a section's.
Passed(section, lines, endpoint) ==
    IF section = "[Interface]" /\ lines \cap Mtu /= {} THEN (lines \ Mtu) \cup {"MTU 1280"}
    ELSE IF section = "[Peer]"
         THEN (lines \ (Ips \cup Endpoint))
                 \cup (IF lines \cap Ips /= {} THEN {"AllowedIPs VK"} ELSE {})
                 \cup (IF lines \cap Endpoint /= {} /\ endpoint = <<"Endpoint local">>
                       THEN {"Endpoint local"} ELSE {})
         ELSE lines

LEMMA PassedLines ==
    ASSUME NEW s \in Seq(Lines), NEW endpoint \in Endpoints, NEW section \in Sections
    PROVE  LinesIn(Pass(s, endpoint), section) = Passed(section, LinesIn(s, section), endpoint)
<1> DEFINE L == LinesIn(s, section)
           P == LinesIn(Pass(s, endpoint), section)
           One(x) == <<x>>
           Nothing == <<>>
           Line(e) == PassLine(section, e, endpoint)
<1>1. \A x : x \in P <=> \E e \in L : Line(e) = One(x)
  BY PassLines
<1>2. (\A x, y : One(x) = One(y) <=> x = y) /\ (\A x : One(x) /= Nothing)
  OBVIOUS
<1>3. /\ endpoint = Nothing \/ endpoint = One("Endpoint local")
      /\ Passed(section, L, endpoint) =
           IF section = "[Interface]" /\ L \cap Mtu /= {} THEN (L \ Mtu) \cup {"MTU 1280"}
           ELSE IF section = "[Peer]"
                THEN (L \ (Ips \cup Endpoint))
                        \cup (IF L \cap Ips /= {} THEN {"AllowedIPs VK"} ELSE {})
                        \cup (IF L \cap Endpoint /= {} /\ endpoint = One("Endpoint local")
                              THEN {"Endpoint local"} ELSE {})
                ELSE L
  BY DEF Endpoints, Passed
<1>4. \A e : Line(e) = IF section = "[Interface]" /\ e \in Mtu THEN One("MTU 1280")
                      ELSE IF section = "[Peer]" /\ e \in Ips THEN One("AllowedIPs VK")
                      ELSE IF section = "[Peer]" /\ e \in Endpoint THEN endpoint
                      ELSE One(e)
  BY DEF PassLine
<1> HIDE DEF L, P, One, Nothing, Line
<1>5. CASE section = "none"
  <2>1. \A x : x \in P <=> x \in L
    BY <1>1, <1>2, <1>4, <1>5
  <2> QED
    BY <1>3, <1>5, <2>1 DEF L, P
<1>6. CASE section = "[Interface]"
  <2> DEFINE mtu == "MTU 1280"
  <2>1. \A e \in L : Line(e) = IF e \in Mtu THEN One(mtu) ELSE One(e)
    BY <1>4, <1>6
  <2>2. Passed(section, L, endpoint) = IF L \cap Mtu /= {} THEN (L \ Mtu) \cup {mtu} ELSE L
    BY <1>3, <1>6
  <2> HIDE DEF mtu
  <2>3. ASSUME NEW x \in P PROVE x \in L \ Mtu \/ (x = mtu /\ L \cap Mtu /= {})
    <3>1. PICK e \in L : Line(e) = One(x)
      BY <1>1
    <3>2. CASE e \in Mtu
      <4>1. x = mtu
        BY <1>2, <2>1, <3>1, <3>2
      <4> QED
        BY <3>1, <3>2, <4>1
    <3>3. CASE e \notin Mtu
      <4>1. x = e
        BY <1>2, <2>1, <3>1, <3>3
      <4> QED
        BY <3>1, <3>3, <4>1
    <3> QED
      BY <3>2, <3>3
  <2>4. L \ Mtu \subseteq P /\ (L \cap Mtu /= {} => mtu \in P)
    BY <1>1, <2>1
  <2>5. P = Passed(section, L, endpoint)
    BY <2>2, <2>3, <2>4
  <2> QED
    BY <2>5 DEF L, P
<1>7. CASE section = "[Peer]"
  <2> DEFINE A == L \ (Ips \cup Endpoint)
             B == IF L \cap Ips /= {} THEN {"AllowedIPs VK"} ELSE {}
             C == IF L \cap Endpoint /= {} /\ endpoint = One("Endpoint local")
                  THEN {"Endpoint local"} ELSE {}
  <2>1. \A e \in L : \/ e \in Ips /\ Line(e) = One("AllowedIPs VK")
                     \/ e \in Endpoint /\ e \notin Ips /\ Line(e) = endpoint
                     \/ e \notin Ips \cup Endpoint /\ Line(e) = One(e)
    BY <1>4, <1>7
  <2>2. ASSUME NEW x \in P PROVE x \in A \cup B \cup C
    <3>1. PICK e \in L : Line(e) = One(x)
      BY <1>1
    <3>2. CASE e \in Ips /\ Line(e) = One("AllowedIPs VK")
      BY <1>2, <3>1, <3>2
    <3>3. CASE e \in Endpoint /\ Line(e) = endpoint
      <4>1. endpoint = One("Endpoint local") /\ x = "Endpoint local"
        BY <1>2, <1>3, <3>1, <3>3
      <4> QED
        BY <3>1, <3>3, <4>1
    <3>4. CASE e \notin Ips \cup Endpoint /\ Line(e) = One(e)
      <4>1. x = e /\ e \in L
        BY <1>2, <3>1, <3>4
      <4> QED
        BY <3>4, <4>1
    <3> QED
      BY <2>1, <3>1, <3>2, <3>3, <3>4
  <2>3. A \subseteq P
    BY <1>1, <1>2, <2>1
  <2>4. B \subseteq P
    BY <1>1, <2>1, Kinds
  <2>5. C \subseteq P
    BY <1>1, <2>1, Kinds
  <2>6. Passed(section, L, endpoint) = A \cup B \cup C
    BY <1>3, <1>7
  <2> HIDE DEF A, B, C
  <2>7. P = Passed(section, L, endpoint)
    BY <2>2, <2>3, <2>4, <2>5, <2>6
  <2> QED
    BY <2>7 DEF L, P
<1> QED
  BY <1>5, <1>6, <1>7, Kinds

\* The set of the lines of a section in which a setting has been made.
Set(header, lines, kind, line) ==
    IF header \in lines THEN (lines \ kind) \cup {line} ELSE {}

LEMMA WithMtuLines ==
    ASSUME NEW s \in Seq(Lines), NEW endpoint \in Endpoints
    PROVE  /\ WithMtu(s, Pass(s, endpoint)) \in Seq(Lines)
           /\ LinesIn(WithMtu(s, Pass(s, endpoint)), "none") = LinesIn(s, "none")
           /\ LinesIn(WithMtu(s, Pass(s, endpoint)), "[Interface]")
                = Set("[Interface]", LinesIn(s, "[Interface]"), Mtu, "MTU 1280")
           /\ LinesIn(WithMtu(s, Pass(s, endpoint)), "[Peer]")
                = Passed("[Peer]", LinesIn(s, "[Peer]"), endpoint)
<1> DEFINE p == Pass(s, endpoint)
           w == WithMtu(s, p)
           L == LinesIn(s, "[Interface]")
<1>1. /\ p \in Seq(Lines)
      /\ LinesIn(p, "none") = LinesIn(s, "none")
      /\ LinesIn(p, "[Interface]")
           = IF L \cap Mtu /= {} THEN (L \ Mtu) \cup {"MTU 1280"} ELSE L
      /\ LinesIn(p, "[Peer]") = Passed("[Peer]", LinesIn(s, "[Peer]"), endpoint)
  <2>1. p \in Seq(Lines)
    BY PassTyped
  <2>2. /\ LinesIn(p, "none") = Passed("none", LinesIn(s, "none"), endpoint)
        /\ LinesIn(p, "[Interface]") = Passed("[Interface]", L, endpoint)
        /\ LinesIn(p, "[Peer]") = Passed("[Peer]", LinesIn(s, "[Peer]"), endpoint)
    BY PassedLines, Kinds
  <2> HIDE DEF p, L
  <2>3. Passed("none", LinesIn(s, "none"), endpoint) = LinesIn(s, "none")
    BY DEF Passed
  <2>4. Passed("[Interface]", L, endpoint)
          = IF L \cap Mtu /= {} THEN (L \ Mtu) \cup {"MTU 1280"} ELSE L
    BY DEF Passed
  <2> QED
    BY <2>1, <2>2, <2>3, <2>4
<1>2. L /= {} => "[Interface]" \in L
  BY SectionBegins, Kinds
<1>3. Has(s, "[Interface]", Mtu) <=> L \cap Mtu /= {}
  BY HasMeans
<1> HIDE DEF p, L
<1>4. CASE L \cap Mtu /= {}
  <2>1. w = p
    BY <1>3, <1>4 DEF WithMtu
  <2>2. LinesIn(p, "[Interface]") = Set("[Interface]", L, Mtu, "MTU 1280")
    BY <1>1, <1>2, <1>4 DEF Set
  <2> QED
    BY <1>1, <2>1, <2>2 DEF p, L
<1>5. CASE L \cap Mtu = {}
  <2>1. w = InsertAfterAll(p, "[Interface]", "MTU 1280")
    BY <1>3, <1>5 DEF WithMtu
  <2>2. Grown(p, InsertAfterAll(p, "[Interface]", "MTU 1280"), "[Interface]", "MTU 1280")
    <3>1. "[Interface]" \in Headers /\ "MTU 1280" \in Lines \ Headers
      BY Kinds
    <3> QED
      BY <1>1, <3>1, InsertGrows
  <2>3. LinesIn(p, "[Interface]") = L
    BY <1>1, <1>5
  <2> HIDE DEF w
  <2>4. /\ w \in Seq(Lines)
        /\ \A section \in Sections : LinesIn(w, section) = LinesIn(p, section)
             \cup IF section = "[Interface]" /\ "[Interface]" \in L THEN {"MTU 1280"} ELSE {}
    BY <2>1, <2>2, <2>3 DEF Grown
  <2>5. LinesIn(w, "[Interface]") = L \cup IF "[Interface]" \in L THEN {"MTU 1280"} ELSE {}
    BY <2>3, <2>4, Kinds
  <2>6. LinesIn(w, "[Interface]") = Set("[Interface]", L, Mtu, "MTU 1280")
    BY <1>2, <1>5, <2>5 DEF Set
  <2>7. LinesIn(w, "none") = LinesIn(p, "none") /\ LinesIn(w, "[Peer]") = LinesIn(p, "[Peer]")
    BY <2>4, Kinds
  <2> QED
    BY <1>1, <2>4, <2>6, <2>7 DEF w, p, L
<1> QED
  BY <1>4, <1>5

\* What save_config_to_file makes of the lines of a peer.
MainPeer(lines) ==
    Set("[Peer]", lines, Ips \cup Endpoint, "Endpoint local")
      \cup IF lines \cap Ips /= {} THEN {"AllowedIPs VK"} ELSE {}

LEMMA MainLines ==
    ASSUME NEW s \in Seq(Lines)
    PROVE  /\ save_config_to_file(s) \in Seq(Lines)
           /\ LinesIn(save_config_to_file(s), "none") = LinesIn(s, "none")
           /\ LinesIn(save_config_to_file(s), "[Interface]")
                = Set("[Interface]", LinesIn(s, "[Interface]"), Mtu, "MTU 1280")
           /\ LinesIn(save_config_to_file(s), "[Peer]") = MainPeer(LinesIn(s, "[Peer]"))
<1> DEFINE w == WithMtu(s, Pass(s, <<"Endpoint local">>))
           out == save_config_to_file(s)
           P == LinesIn(s, "[Peer]")
<1>1. /\ w \in Seq(Lines)
      /\ LinesIn(w, "none") = LinesIn(s, "none")
      /\ LinesIn(w, "[Interface]")
           = Set("[Interface]", LinesIn(s, "[Interface]"), Mtu, "MTU 1280")
      /\ LinesIn(w, "[Peer]") = Passed("[Peer]", P, <<"Endpoint local">>)
  <2>1. <<"Endpoint local">> \in Endpoints
    BY DEF Endpoints
  <2> QED
    BY <2>1, WithMtuLines
<1>2. P /= {} => "[Peer]" \in P
  BY SectionBegins, Kinds
<1>3. Has(s, "[Peer]", Endpoint) <=> P \cap Endpoint /= {}
  BY HasMeans
<1>4. out = IF Has(s, "[Peer]", Endpoint) THEN w
            ELSE InsertAfterFirst(w, "[Peer]", "Endpoint local")
  BY DEF save_config_to_file
<1>5. LinesIn(w, "[Peer]") = (P \ (Ips \cup Endpoint))
          \cup (IF P \cap Ips /= {} THEN {"AllowedIPs VK"} ELSE {})
          \cup (IF P \cap Endpoint /= {} THEN {"Endpoint local"} ELSE {})
  <2> HIDE DEF w, P
  <2>1. Passed("[Peer]", P, <<"Endpoint local">>) = (P \ (Ips \cup Endpoint))
          \cup (IF P \cap Ips /= {} THEN {"AllowedIPs VK"} ELSE {})
          \cup (IF P \cap Endpoint /= {} THEN {"Endpoint local"} ELSE {})
    BY DEF Passed
  <2> QED
    BY <1>1, <2>1
<1> HIDE DEF w, P, out
<1>6. CASE P \cap Endpoint /= {}
  <2>1. out = w
    BY <1>3, <1>4, <1>6
  <2>2. LinesIn(w, "[Peer]") = MainPeer(P)
    BY <1>2, <1>5, <1>6 DEF MainPeer, Set
  <2> QED
    BY <1>1, <2>1, <2>2 DEF out, P
<1>7. CASE P \cap Endpoint = {}
  <2>1. out = InsertAfterFirst(w, "[Peer]", "Endpoint local")
    BY <1>3, <1>4, <1>7
  <2>2. Grown(w, out, "[Peer]", "Endpoint local")
    <3>1. "[Peer]" \in Headers /\ "Endpoint local" \in Lines \ Headers
      BY Kinds
    <3> QED
      BY <1>1, <2>1, <3>1, InsertGrows
  <2>3. "[Peer]" \in LinesIn(w, "[Peer]") <=> "[Peer]" \in P
    BY <1>5, <1>7, Kinds
  <2>4. /\ out \in Seq(Lines)
        /\ \A section \in Sections : LinesIn(out, section) = LinesIn(w, section)
             \cup IF section = "[Peer]" /\ "[Peer]" \in P THEN {"Endpoint local"} ELSE {}
    BY <2>2, <2>3 DEF Grown
  <2>5. /\ LinesIn(out, "none") = LinesIn(w, "none")
        /\ LinesIn(out, "[Interface]") = LinesIn(w, "[Interface]")
        /\ LinesIn(out, "[Peer]") = LinesIn(w, "[Peer]")
             \cup IF "[Peer]" \in P THEN {"Endpoint local"} ELSE {}
    BY <2>4, Kinds
  <2>6. LinesIn(out, "[Peer]") = MainPeer(P)
    BY <1>2, <1>5, <1>7, <2>5, Kinds DEF MainPeer, Set
  <2> QED
    BY <1>1, <2>4, <2>5, <2>6 DEF out, P
<1> QED
  BY <1>6, <1>7


\* process_wireguard_config before it looks for the local endpoint.
Full(lines) ==
    IF Has(lines, "[Peer]", Ips) THEN WithMtu(lines, Pass(lines, <<>>))
    ELSE InsertAfterAll(WithMtu(lines, Pass(lines, <<>>)), "[Peer]", "AllowedIPs VK")

Found(lines) == Contains(lines, "Endpoint local") \/ Contains(lines, "#local")

LEMMA LibIs ==
    ASSUME NEW s
    PROVE  process_wireguard_config(s)
             = IF Found(Full(s)) THEN Full(s)
               ELSE InsertAfterAll(Full(s), "[Peer]", "Endpoint local")
  BY Zenon DEF process_wireguard_config, Full, Found

LEMMA FullLines ==
    ASSUME NEW s \in Seq(Lines)
    PROVE  /\ Full(s) \in Seq(Lines)
           /\ LinesIn(Full(s), "none") = LinesIn(s, "none")
           /\ LinesIn(Full(s), "[Interface]")
                = Set("[Interface]", LinesIn(s, "[Interface]"), Mtu, "MTU 1280")
           /\ LinesIn(Full(s), "[Peer]")
                = Set("[Peer]", LinesIn(s, "[Peer]"), Ips \cup Endpoint, "AllowedIPs VK")
<1> DEFINE w == WithMtu(s, Pass(s, <<>>))
           out == Full(s)
           P == LinesIn(s, "[Peer]")
<1>1. /\ w \in Seq(Lines)
      /\ LinesIn(w, "none") = LinesIn(s, "none")
      /\ LinesIn(w, "[Interface]")
           = Set("[Interface]", LinesIn(s, "[Interface]"), Mtu, "MTU 1280")
      /\ LinesIn(w, "[Peer]") = Passed("[Peer]", P, <<>>)
  <2>1. <<>> \in Endpoints
    BY DEF Endpoints
  <2> QED
    BY <2>1, WithMtuLines
<1>2. P /= {} => "[Peer]" \in P
  BY SectionBegins, Kinds
<1>3. Has(s, "[Peer]", Ips) <=> P \cap Ips /= {}
  BY HasMeans
<1>4. out = IF Has(s, "[Peer]", Ips) THEN w
            ELSE InsertAfterAll(w, "[Peer]", "AllowedIPs VK")
  BY DEF Full
<1>5. LinesIn(w, "[Peer]") = (P \ (Ips \cup Endpoint))
          \cup (IF P \cap Ips /= {} THEN {"AllowedIPs VK"} ELSE {})
  <2> HIDE DEF w, P
  <2>1. <<>> /= <<"Endpoint local">>
    OBVIOUS
  <2>2. Passed("[Peer]", P, <<>>) = (P \ (Ips \cup Endpoint))
          \cup (IF P \cap Ips /= {} THEN {"AllowedIPs VK"} ELSE {})
    BY <2>1 DEF Passed
  <2> QED
    BY <1>1, <2>2
<1> HIDE DEF w, P, out
<1>6. CASE P \cap Ips /= {}
  <2>1. out = w
    BY <1>3, <1>4, <1>6
  <2>2. LinesIn(w, "[Peer]") = Set("[Peer]", P, Ips \cup Endpoint, "AllowedIPs VK")
    BY <1>2, <1>5, <1>6 DEF Set
  <2> QED
    BY <1>1, <2>1, <2>2 DEF out, P
<1>7. CASE P \cap Ips = {}
  <2>1. out = InsertAfterAll(w, "[Peer]", "AllowedIPs VK")
    BY <1>3, <1>4, <1>7
  <2>2. Grown(w, out, "[Peer]", "AllowedIPs VK")
    <3>1. "[Peer]" \in Headers /\ "AllowedIPs VK" \in Lines \ Headers
      BY Kinds
    <3> QED
      BY <1>1, <2>1, <3>1, InsertGrows
  <2>3. "[Peer]" \in LinesIn(w, "[Peer]") <=> "[Peer]" \in P
    BY <1>5, <1>7, Kinds
  <2>4. /\ out \in Seq(Lines)
        /\ \A section \in Sections : LinesIn(out, section) = LinesIn(w, section)
             \cup IF section = "[Peer]" /\ "[Peer]" \in P THEN {"AllowedIPs VK"} ELSE {}
    BY <2>2, <2>3 DEF Grown
  <2>5. /\ LinesIn(out, "none") = LinesIn(w, "none")
        /\ LinesIn(out, "[Interface]") = LinesIn(w, "[Interface]")
        /\ LinesIn(out, "[Peer]") = LinesIn(w, "[Peer]")
             \cup IF "[Peer]" \in P THEN {"AllowedIPs VK"} ELSE {}
    BY <2>4, Kinds
  <2>6. LinesIn(out, "[Peer]") = Set("[Peer]", P, Ips \cup Endpoint, "AllowedIPs VK")
    BY <1>2, <1>5, <1>7, <2>5, Kinds DEF Set
  <2> QED
    BY <1>1, <2>4, <2>5, <2>6 DEF out, P
<1> QED
  BY <1>6, <1>7

LEMMA LibLines ==
    ASSUME NEW s \in Seq(Lines)
    PROVE  /\ process_wireguard_config(s) \in Seq(Lines)
           /\ LinesIn(process_wireguard_config(s), "none") = LinesIn(s, "none")
           /\ LinesIn(process_wireguard_config(s), "[Interface]")
                = Set("[Interface]", LinesIn(s, "[Interface]"), Mtu, "MTU 1280")
           /\ LinesIn(process_wireguard_config(s), "[Peer]")
                = Set("[Peer]", LinesIn(s, "[Peer]"), Ips \cup Endpoint, "AllowedIPs VK")
                    \cup IF "[Peer]" \in LinesIn(s, "[Peer]") /\ ~Found(Full(s))
                         THEN {"Endpoint local"} ELSE {}
<1> DEFINE full == Full(s)
           out == process_wireguard_config(s)
           P == LinesIn(s, "[Peer]")
<1>1. /\ full \in Seq(Lines)
      /\ LinesIn(full, "none") = LinesIn(s, "none")
      /\ LinesIn(full, "[Interface]")
           = Set("[Interface]", LinesIn(s, "[Interface]"), Mtu, "MTU 1280")
      /\ LinesIn(full, "[Peer]") = Set("[Peer]", P, Ips \cup Endpoint, "AllowedIPs VK")
  BY FullLines
<1>2. out = IF Found(full) THEN full ELSE InsertAfterAll(full, "[Peer]", "Endpoint local")
  BY LibIs
<1> HIDE DEF full, out, P
<1>3. CASE Found(full)
  BY <1>1, <1>2, <1>3 DEF full, out, P
<1>4. CASE ~Found(full)
  <2>1. Grown(full, out, "[Peer]", "Endpoint local")
    <3>1. "[Peer]" \in Headers /\ "Endpoint local" \in Lines \ Headers
      BY Kinds
    <3> QED
      BY <1>1, <1>2, <1>4, <3>1, InsertGrows
  <2>2. "[Peer]" \in LinesIn(full, "[Peer]") <=> "[Peer]" \in P
    BY <1>1, Kinds DEF Set
  <2>3. /\ out \in Seq(Lines)
        /\ \A section \in Sections : LinesIn(out, section) = LinesIn(full, section)
             \cup IF section = "[Peer]" /\ "[Peer]" \in P THEN {"Endpoint local"} ELSE {}
    BY <2>1, <2>2 DEF Grown
  <2>4. /\ LinesIn(out, "none") = LinesIn(full, "none")
        /\ LinesIn(out, "[Interface]") = LinesIn(full, "[Interface]")
        /\ LinesIn(out, "[Peer]") = LinesIn(full, "[Peer]")
             \cup IF "[Peer]" \in P THEN {"Endpoint local"} ELSE {}
    BY <2>3, Kinds
  <2> QED
    BY <1>1, <1>4, <2>3, <2>4 DEF full, out, P
<1> QED
  BY <1>3, <1>4

-----------------------------------------------------------------------------
(* Saving twice. *)

\* The pass takes out again what an insertion has put in, if it drops such lines.
LEMMA PassUndoesInsert ==
    ASSUME NEW s \in Seq(Lines), NEW header \in Headers, NEW line \in Lines \ Headers,
           NEW endpoint \in Endpoints, Unchanging(s, endpoint),
           PassLine(header, line, endpoint) = <<>>
    PROVE  Pass(InsertAfterAll(s, header, line), endpoint) = s
<1> DEFINE ins(q) == InsertAfterAll(q, header, line)
           Good(q) == Unchanging(q, endpoint) => Pass(ins(q), endpoint) = q
           T == {q \in Seq(Lines) : Good(q)}
<1>1. <<>> \in T
  <2>1. <<>> \in Seq(Lines)
    OBVIOUS
  <2>2. ins(<<>>) = <<>>
    BY InsertEmpty
  <2>3. Pass(<<>>, endpoint) = <<>>
    BY PassEmpty
  <2> QED
    BY <2>1, <2>2, <2>3
<1>2. ASSUME NEW q \in Seq(Lines), NEW e \in Lines, q \in T PROVE Append(q, e) \in T
  <2>1. header \in Lines
    BY Kinds
  <2>2. /\ Append(q, e) \in Seq(Lines) /\ q \o <<e>> = Append(q, e)
        /\ \A x \in Seq(Lines) : x \o <<>> = x
    OBVIOUS
  <2>3. ASSUME Unchanging(Append(q, e), endpoint)
        PROVE  Pass(ins(Append(q, e)), endpoint) = Append(q, e)
    <3> DEFINE p == ins(q)
               a == Append(p, e)
               b == Append(a, line)
    <3>1. /\ Unchanging(q, endpoint)
          /\ PassLine(After(Now(q), e), e, endpoint) = <<e>>
      BY <2>3, UnchangingBefore
    <3>2. Pass(p, endpoint) = q
      BY <1>2, <3>1
    <3>3. p \in Seq(Lines) /\ Now(p) = Now(q)
      <4>1. Grown(q, p, header, line)
        BY InsertGrows
      <4> QED
        BY <4>1 DEF Grown
    <3>4. ins(Append(q, e)) = p \o InsertLine(e, header, line)
      BY <2>1, InsertAllAppend
    <3> HIDE DEF ins, p
    <3>5. Pass(a, endpoint) = Append(q, e)
      <4>1. Pass(a, endpoint) = Pass(p, endpoint) \o PassLine(After(Now(p), e), e, endpoint)
        BY <3>3, PassAppend
      <4> QED
        BY <2>2, <3>1, <3>2, <3>3, <4>1
    <3>6. CASE e /= header
      <4>1. ins(Append(q, e)) = a
        BY <3>3, <3>4, <3>6 DEF InsertLine
      <4> QED
        BY <3>5, <4>1
    <3>7. CASE e = header
      <4>1. p \o <<header, line>> = b /\ a \in Seq(Lines)
        BY <2>1, <3>3, <3>7
      <4>2. ins(Append(q, e)) = b
        BY <3>4, <3>7, <4>1 DEF InsertLine
      <4>3. Now(a) = header
        BY <3>3, <3>7, SectionAppend DEF After
      <4>4. After(Now(a), line) = header
        BY <4>3 DEF After
      <4> HIDE DEF a
      <4>5. Pass(b, endpoint) = Pass(a, endpoint) \o <<>>
        BY <4>1, <4>4, PassAppend
      <4> HIDE DEF b
      <4> QED
        BY <2>2, <3>5, <4>2, <4>5
    <3> QED
      BY <3>6, <3>7
  <2> QED
    BY <2>2, <2>3
<1> HIDE DEF T
<1>3. s \in T
  BY <1>1, <1>2, BySeq
<1> QED
  BY <1>3 DEF T


\* After a setting has been made, the flag is set or there is no header.
LEMMA SetOnce ==
    ASSUME NEW header, NEW lines, NEW kind, NEW line \in kind, header \notin kind
    PROVE  /\ \/ \E x \in Set(header, lines, kind, line) : x \in kind
              \/ header \notin Set(header, lines, kind, line)
           /\ \A x \in Set(header, lines, kind, line) : x \in kind => x = line
  BY DEF Set

LEMMA OneMtu ==
    ASSUME NEW lines, NEW x \in Set("[Interface]", lines, Mtu, "MTU 1280"), x \in Mtu
    PROVE  x = "MTU 1280"
<1> DEFINE interface == "[Interface]"
           mtu == "MTU 1280"
<1>1. mtu \in Mtu /\ interface \notin Mtu /\ x \in Set(interface, lines, Mtu, mtu)
  BY Kinds
<1> HIDE DEF interface, mtu
<1>2. x = mtu
  BY <1>1, SetOnce
<1> QED
  BY <1>2 DEF mtu

LEMMA WithMtuAgain ==
    ASSUME NEW s \in Seq(Lines), NEW lines,
           LinesIn(s, "[Interface]") = Set("[Interface]", lines, Mtu, "MTU 1280")
    PROVE  WithMtu(s, s) = s
<1>1. /\ "[Interface]" \in Headers /\ "MTU 1280" \in Lines /\ "MTU 1280" \in Mtu
      /\ "[Interface]" \notin Mtu
  BY Kinds
<1>2. \/ \E x \in LinesIn(s, "[Interface]") : x \in Mtu
      \/ "[Interface]" \notin LinesIn(s, "[Interface]")
  BY <1>1, SetOnce
<1>3. Has(s, "[Interface]", Mtu) \/ InsertAfterAll(s, "[Interface]", "MTU 1280") = s
  BY <1>1, <1>2, HasMeans, InsertNothing
<1> QED
  BY <1>3 DEF WithMtu

\* What keeps the pass from changing a config.
LEMMA UnchangingIf ==
    ASSUME NEW s \in Seq(Lines), NEW endpoint \in Endpoints,
           \A x \in LinesIn(s, "[Interface]") : x \in Mtu => x = "MTU 1280",
           \A x \in LinesIn(s, "[Peer]") : x \in Ips => x = "AllowedIPs VK",
           \A x \in LinesIn(s, "[Peer]") : x \in Endpoint => endpoint = <<x>>
    PROVE  Unchanging(s, endpoint)
  BY Kinds DEF Unchanging, PassLine

LEMMA MainAgain ==
    ASSUME NEW s \in Seq(Lines)
    PROVE  save_config_to_file(save_config_to_file(s)) = save_config_to_file(s)
<1> DEFINE out == save_config_to_file(s)
           I == LinesIn(s, "[Interface]")
           P == LinesIn(s, "[Peer]")
<1>1. /\ out \in Seq(Lines)
      /\ LinesIn(out, "[Interface]") = Set("[Interface]", I, Mtu, "MTU 1280")
      /\ LinesIn(out, "[Peer]") = MainPeer(P)
  BY MainLines
<1>2. P /= {} => "[Peer]" \in P
  BY SectionBegins, Kinds
<1> HIDE DEF out, I, P
<1>3. \A x \in LinesIn(out, "[Interface]") : x \in Mtu => x = "MTU 1280"
  BY <1>1, OneMtu
<1>4. /\ \A x \in MainPeer(P) : x \in Ips => x = "AllowedIPs VK"
      /\ \A x \in MainPeer(P) : x \in Endpoint => x = "Endpoint local"
      /\ (\E x \in MainPeer(P) : x \in Endpoint) \/ "[Peer]" \notin MainPeer(P)
  <2> DEFINE peer == "[Peer]"
             vk == "AllowedIPs VK"
             local == "Endpoint local"
  <2>1. /\ peer \notin Ips /\ peer \notin Endpoint /\ Ips \cap Endpoint = {}
        /\ vk \in Ips /\ local \in Endpoint
    BY Kinds
  <2>2. MainPeer(P) = (IF peer \in P THEN (P \ (Ips \cup Endpoint)) \cup {local} ELSE {})
                         \cup IF P \cap Ips /= {} THEN {vk} ELSE {}
    BY DEF MainPeer, Set
  <2>3. P /= {} => peer \in P
    BY <1>2
  <2> HIDE DEF peer, vk, local
  <2>4. \A x \in MainPeer(P) : x \in Ips => x = vk
    BY <2>1, <2>2
  <2>5. \A x \in MainPeer(P) : x \in Endpoint => x = local
    BY <2>1, <2>2
  <2>6. (\E x \in MainPeer(P) : x \in Endpoint) \/ peer \notin MainPeer(P)
    BY <2>1, <2>2
  <2> QED
    BY <2>4, <2>5, <2>6 DEF peer, vk, local
<1>5. Pass(out, <<"Endpoint local">>) = out
  <2>1. <<"Endpoint local">> \in Endpoints
    BY DEF Endpoints
  <2>2. \A x \in LinesIn(out, "[Peer]") : x \in Endpoint => <<"Endpoint local">> = <<x>>
    BY <1>1, <1>4
  <2>3. Unchanging(out, <<"Endpoint local">>)
    BY <1>1, <1>3, <1>4, <2>1, <2>2, UnchangingIf
  <2> QED
    BY <1>1, <2>1, <2>3, PassKeeps
<1>6. WithMtu(out, out) = out
  BY <1>1, WithMtuAgain
<1>7. Has(out, "[Peer]", Endpoint) \/ InsertAfterFirst(out, "[Peer]", "Endpoint local") = out
  <2>1. Has(out, "[Peer]", Endpoint) <=> \E x \in LinesIn(out, "[Peer]") : x \in Endpoint
    BY <1>1, HasMeans
  <2>2. "[Peer]" \in Headers /\ "Endpoint local" \in Lines
    BY Kinds
  <2>3. "[Peer]" \notin LinesIn(out, "[Peer]")
          => InsertAfterFirst(out, "[Peer]", "Endpoint local") = out
    BY <1>1, <2>2, InsertNothing
  <2> QED
    BY <1>1, <1>4, <2>1, <2>3
<1>8. save_config_to_file(out) = out
  BY <1>5, <1>6, <1>7 DEF save_config_to_file
<1> QED
  BY <1>8 DEF out

\* A config that has all the library's settings but the local endpoint.
LEMMA FullAgain ==
    ASSUME NEW s \in Seq(Lines)
    PROVE  /\ Unchanging(Full(s), <<>>)
           /\ \A t \in Seq(Lines) :
                /\ Pass(t, <<>>) = Full(s)
                /\ Has(t, "[Interface]", Mtu) <=> Has(Full(s), "[Interface]", Mtu)
                /\ Has(t, "[Peer]", Ips) <=> Has(Full(s), "[Peer]", Ips)
                => Full(t) = Full(s)
<1> DEFINE full == Full(s)
           I == LinesIn(s, "[Interface]")
           P == LinesIn(s, "[Peer]")
<1>1. /\ full \in Seq(Lines)
      /\ LinesIn(full, "[Interface]") = Set("[Interface]", I, Mtu, "MTU 1280")
      /\ LinesIn(full, "[Peer]") = Set("[Peer]", P, Ips \cup Endpoint, "AllowedIPs VK")
  BY FullLines
<1> HIDE DEF full, I, P
<1>2. \A x \in LinesIn(full, "[Interface]") : x \in Mtu => x = "MTU 1280"
  BY <1>1, OneMtu
<1>3. /\ \A x \in LinesIn(full, "[Peer]") : x \in Ips => x = "AllowedIPs VK"
      /\ \A x \in LinesIn(full, "[Peer]") : x \notin Endpoint
      /\ (\E x \in LinesIn(full, "[Peer]") : x \in Ips) \/ "[Peer]" \notin LinesIn(full, "[Peer]")
  <2> DEFINE peer == "[Peer]"
             vk == "AllowedIPs VK"
             M == LinesIn(full, peer)
  <2>1. peer \notin Ips /\ Ips \cap Endpoint = {} /\ vk \in Ips
    BY Kinds
  <2>2. M = IF peer \in P THEN (P \ (Ips \cup Endpoint)) \cup {vk} ELSE {}
    BY <1>1 DEF Set
  <2> HIDE DEF peer, vk, M
  <2>3. \A x \in M : x \in Ips => x = vk
    BY <2>1, <2>2
  <2>4. \A x \in M : x \notin Endpoint
    BY <2>1, <2>2
  <2>5. (\E x \in M : x \in Ips) \/ peer \notin M
    BY <2>1, <2>2
  <2> QED
    BY <2>3, <2>4, <2>5 DEF peer, vk, M
<1>4. Unchanging(full, <<>>)
  <2>1. <<>> \in Endpoints
    BY DEF Endpoints
  <2>2. \A x \in LinesIn(full, "[Peer]") : x \in Endpoint => <<>> = <<x>>
    BY <1>3
  <2>3. full \in Seq(Lines)
    BY <1>1
  <2>4. \A x \in LinesIn(full, "[Peer]") : x \in Ips => x = "AllowedIPs VK"
    BY <1>3
  <2> QED
    BY <1>2, <2>1, <2>2, <2>3, <2>4, UnchangingIf
<1>5. WithMtu(full, full) = full
  BY <1>1, WithMtuAgain
<1>6. Has(full, "[Peer]", Ips) \/ InsertAfterAll(full, "[Peer]", "AllowedIPs VK") = full
  <2>1. Has(full, "[Peer]", Ips) <=> \E x \in LinesIn(full, "[Peer]") : x \in Ips
    BY <1>1, HasMeans
  <2>2. "[Peer]" \in Headers /\ "AllowedIPs VK" \in Lines
    BY Kinds
  <2>3. "[Peer]" \notin LinesIn(full, "[Peer]")
          => InsertAfterAll(full, "[Peer]", "AllowedIPs VK") = full
    BY <1>1, <2>2, InsertNothing
  <2> QED
    BY <1>3, <2>1, <2>3
<1>7. ASSUME NEW t \in Seq(Lines), Pass(t, <<>>) = full,
             Has(t, "[Interface]", Mtu) <=> Has(full, "[Interface]", Mtu),
             Has(t, "[Peer]", Ips) <=> Has(full, "[Peer]", Ips)
      PROVE  Full(t) = full
  <2>1. WithMtu(t, full) = full
    BY <1>5, <1>7 DEF WithMtu
  <2> QED
    BY <1>6, <1>7, <2>1 DEF Full
<1> QED
  BY <1>4, <1>7 DEF full

LEMMA LibAgain ==
    ASSUME NEW s \in Seq(Lines)
    PROVE  process_wireguard_config(process_wireguard_config(s)) = process_wireguard_config(s)
<1> DEFINE full == Full(s)
           out == process_wireguard_config(s)
<1>1. full \in Seq(Lines) /\ out \in Seq(Lines)
  BY FullLines, LibLines
<1>2. out = IF Found(full) THEN full ELSE InsertAfterAll(full, "[Peer]", "Endpoint local")
  BY LibIs
<1>3. process_wireguard_config(out)
        = IF Found(Full(out)) THEN Full(out)
          ELSE InsertAfterAll(Full(out), "[Peer]", "Endpoint local")
  BY LibIs
<1>4. /\ Unchanging(full, <<>>)
      /\ \A t \in Seq(Lines) :
           /\ Pass(t, <<>>) = full
           /\ Has(t, "[Interface]", Mtu) <=> Has(full, "[Interface]", Mtu)
           /\ Has(t, "[Peer]", Ips) <=> Has(full, "[Peer]", Ips)
           => Full(t) = full
  BY FullAgain
<1> HIDE DEF full, out
<1>5. <<>> \in Endpoints
  BY DEF Endpoints
<1>6. CASE Found(full)
  <2>1. Pass(full, <<>>) = full
    BY <1>1, <1>4, <1>5, PassKeeps
  <2>2. Full(full) = full
    BY <1>1, <1>4, <2>1
  <2> QED
    BY <1>2, <1>3, <1>6, <2>2 DEF out
<1>7. CASE ~Found(full)
  <2>1. out = InsertAfterAll(full, "[Peer]", "Endpoint local")
    BY <1>2, <1>7
  <2>2. "[Peer]" \in Headers /\ "Endpoint local" \in Lines \ Headers
    BY Kinds
  <2>3. PassLine("[Peer]", "Endpoint local", <<>>) = <<>>
    BY Kinds DEF PassLine
  <2>4. Pass(out, <<>>) = full
    BY <1>1, <1>4, <1>5, <2>1, <2>2, <2>3, PassUndoesInsert
  <2>5. Grown(full, out, "[Peer]", "Endpoint local")
    BY <1>1, <2>1, <2>2, InsertGrows
  <2>6. Has(out, "[Interface]", Mtu) <=> Has(full, "[Interface]", Mtu)
    <3>1. LinesIn(out, "[Interface]") = LinesIn(full, "[Interface]")
      BY <2>5, Kinds DEF Grown
    <3> QED
      BY <1>1, <3>1, HasMeans
  <2>7. Has(out, "[Peer]", Ips) <=> Has(full, "[Peer]", Ips)
    <3>1. \A x \in Ips : x \in LinesIn(out, "[Peer]") <=> x \in LinesIn(full, "[Peer]")
      BY <2>5, Kinds DEF Grown
    <3> QED
      BY <1>1, <3>1, HasMeans
  <2>8. Full(out) = full
    BY <1>1, <1>4, <2>4, <2>6, <2>7
  <2> QED
    BY <1>2, <1>3, <1>7, <2>8 DEF out
<1> QED
  BY <1>6, <1>7


-----------------------------------------------------------------------------
(* Usual configs. *)

LEMMA SpeltIn ==
    ASSUME NEW s \in Seq(Lines), WellSpelt(s), NEW section
    PROVE  "#local" \notin LinesIn(s, section)
<1>1. "#local" \in Misspelt
  BY DEF Misspelt
<1> QED
  BY <1>1 DEF WellSpelt, LinesIn

LEMMA UsualIs ==
    ASSUME NEW s \in Seq(Lines), Usual(s)
    PROVE  /\ "[Interface]" \in LinesIn(s, "[Interface]")
           /\ "[Peer]" \in LinesIn(s, "[Peer]")
           /\ \A section : section /= "[Peer]" => "Endpoint local" \notin LinesIn(s, section)
<1>1. ASSUME NEW h \in Headers, Single(s, h) PROVE h \in LinesIn(s, h)
  <2>1. \E i \in 1 .. Len(s) : s[i] = h
    BY <1>1 DEF Single
  <2> QED
    BY <2>1, HeaderIsOwn
<1>2. "[Interface]" \in LinesIn(s, "[Interface]")
  BY <1>1, Kinds DEF Usual
<1>3. "[Peer]" \in LinesIn(s, "[Peer]")
  BY <1>1, Kinds DEF Usual
<1>4. ASSUME NEW section, "Endpoint local" \in LinesIn(s, section) PROVE section = "[Peer]"
  <2>1. PICK i \in DOMAIN s : Section(s, i) = section /\ s[i] = "Endpoint local"
    BY <1>4 DEF LinesIn
  <2>2. s[i] \in Endpoint
    BY <2>1, Kinds
  <2> QED
    BY <2>1, <2>2 DEF Usual
<1> QED
  BY <1>2, <1>3, <1>4

\* The library finds no local endpoint in a usual config, and so inserts one.
LEMMA UsualNotFound ==
    ASSUME NEW s \in Seq(Lines), Usual(s)
    PROVE  ~Found(Full(s))
<1> DEFINE full == Full(s)
           local == "Endpoint local"
           comment == "#local"
           none == "none"
           interface == "[Interface]"
           peer == "[Peer]"
           vk == "AllowedIPs VK"
           mtu == "MTU 1280"
<1>1. /\ LinesIn(full, none) = LinesIn(s, none)
      /\ LinesIn(full, interface) = Set(interface, LinesIn(s, interface), Mtu, mtu)
      /\ LinesIn(full, peer) = Set(peer, LinesIn(s, peer), Ips \cup Endpoint, vk)
      /\ full \in Seq(Lines)
  BY FullLines
<1>2. /\ local \in Endpoint /\ comment \notin Ips \cup Endpoint /\ comment \notin Mtu
      /\ mtu \in Mtu /\ vk \in Ips /\ Mtu \cap Endpoint = {} /\ Ips \cap Endpoint = {}
      /\ Sections = {none, interface, peer} /\ none /= peer /\ interface /= peer
  BY Kinds
<1>3. \A section : comment \notin LinesIn(s, section)
  BY SpeltIn DEF Usual
<1>4. \A section : section /= peer => local \notin LinesIn(s, section)
  BY UsualIs
<1> HIDE DEF full, local, comment, none, interface, peer, vk, mtu
<1>5. local \notin LinesIn(full, none) /\ comment \notin LinesIn(full, none)
  BY <1>1, <1>2, <1>3, <1>4
<1>6. local \notin LinesIn(full, interface) /\ comment \notin LinesIn(full, interface)
  BY <1>1, <1>2, <1>3, <1>4 DEF Set
<1>7. local \notin LinesIn(full, peer) /\ comment \notin LinesIn(full, peer)
  BY <1>1, <1>2, <1>3 DEF Set
<1>8. \A section \in Sections : local \notin LinesIn(full, section)
                               /\ comment \notin LinesIn(full, section)
  BY <1>2, <1>5, <1>6, <1>7
<1>9. ~Contains(full, local) /\ ~Contains(full, comment)
  BY <1>1, <1>8, ContainsMeans
<1> QED
  BY <1>9 DEF Found, full, local, comment

-----------------------------------------------------------------------------
(* The specification. *)

\* What a writer makes of a config.
Result(who, lines) ==
    IF who = "main" THEN save_config_to_file(lines) ELSE process_wireguard_config(lines)

LEMMA ResultTyped ==
    ASSUME NEW who, NEW s \in Seq(Lines)
    PROVE  Result(who, s) \in Seq(Lines) /\ Result(who, Result(who, s)) = Result(who, s)
<1>1. CASE who = "main"
  BY <1>1, MainLines, MainAgain DEF Result
<1>2. CASE who /= "main"
  BY <1>2, LibLines, LibAgain DEF Result
<1> QED
  BY <1>1, <1>2

LEMMA WrittenIs ==
    ASSUME NEW who
    PROVE  Written(who) = Result(who, given)
  BY DEF Written, Result

\* The configs stay sequences of lines, those that fs::write cut off included.
THEOREM TypeCorrect == Spec => []TypeOK
<1>1. Init => TypeOK
  BY WgConfigAssumption DEF Init, TypeOK
<1>2. TypeOK /\ [Next]_vars => TypeOK'
  <2> SUFFICES ASSUME TypeOK, [Next]_vars PROVE TypeOK'
    OBVIOUS
  <2>1. \A who : Written(who) \in Seq(Lines)
    BY WrittenIs, ResultTyped DEF TypeOK
  <2>2. ASSUME NEW who \in {"main", "lib"}, Save(who) PROVE TypeOK'
    BY <2>1, <2>2 DEF TypeOK, Save
  <2>3. ASSUME NEW who \in {"main", "lib"}, SaveFails(who) PROVE TypeOK'
    <3>1. file' \in Seq(Lines)
      <4>1. CASE file' = file
        BY <4>1 DEF TypeOK
      <4>2. CASE \E n \in 0 .. Len(Written(who)) : file' = SubSeq(Written(who), 1, n)
        <5>1. PICK n \in 0 .. Len(Written(who)) : file' = SubSeq(Written(who), 1, n)
          BY <4>2
        <5> DEFINE w == Written(who)
        <5>2. w \in Seq(Lines) /\ n \in 0 .. Len(w) /\ file' = SubSeq(w, 1, n)
          BY <2>1, <5>1
        <5> HIDE DEF w
        <5>3. SubSeq(w, 1, n) \in Seq(Lines)
          BY <5>2
        <5> QED
          BY <5>2, <5>3
      <4> QED
        BY <2>3, <4>1, <4>2 DEF SaveFails
    <3> QED
      BY <2>3, <3>1 DEF TypeOK, SaveFails
  <2>4. CASE SaveAgain
    BY <2>4, WgConfigAssumption DEF TypeOK, SaveAgain
  <2>5. CASE UNCHANGED vars
    BY <2>5 DEF TypeOK, vars
  <2> QED
    BY <2>2, <2>3, <2>4, <2>5 DEF Next
<1> QED
  BY <1>1, <1>2, PTL DEF Spec

\* What the file holds: what its writer made of the config that was given, which is,
\* when the saved one is supplied again, something that writer has made before.
Provenance ==
    /\ state = "saved" => file = Written(writer)
    /\ state = "given" /\ round > 1 => /\ given = file
                                       /\ \E g \in Seq(Lines) : file = Result(writer, g)

THEOREM ProvenanceKept == Spec => []Provenance
<1>1. Init => Provenance
  BY DEF Init, Provenance
<1>2. TypeOK /\ Provenance /\ [Next]_vars => Provenance'
  <2> SUFFICES ASSUME TypeOK, Provenance, [Next]_vars PROVE Provenance'
    OBVIOUS
  <2>1. \A who : Written(who) = Result(who, given)
    BY WrittenIs
  <2>2. \A who : Written(who)' = Result(who, given')
    BY DEF Written, Result
  <2>3. ASSUME NEW who \in {"main", "lib"}, Save(who) PROVE Provenance'
    BY <2>1, <2>2, <2>3 DEF Save, Provenance
  <2>4. ASSUME NEW who \in {"main", "lib"}, SaveFails(who) PROVE Provenance'
    BY <2>4 DEF SaveFails, Provenance
  <2>5. CASE SaveAgain
    <3>1. given \in Seq(Lines) /\ file = Result(writer, given)
      BY <2>1, <2>5 DEF SaveAgain, Provenance, TypeOK
    <3> QED
      BY <2>5, <3>1 DEF SaveAgain, Provenance
  <2>6. CASE UNCHANGED vars
    <3>1. UNCHANGED Written(writer)
      BY <2>6 DEF vars, Written
    <3> QED
      BY <2>6, <3>1 DEF vars, Provenance
  <2> QED
    BY <2>3, <2>4, <2>5, <2>6 DEF Next
<1> QED
  BY <1>1, <1>2, TypeCorrect, PTL DEF Spec


\* What a saved config must be, of the config it was made of.
Leads(g, f) ==
    WellSpelt(g) =>
        /\ "Endpoint" \notin LinesIn(f, "[Peer]")
        /\ "MTU" \notin LinesIn(f, "[Interface]")
        /\ Usual(g) => /\ "Endpoint local" \in LinesIn(f, "[Peer]")
                       /\ "MTU 1280" \in LinesIn(f, "[Interface]")

LEMMA ResultLeads ==
    ASSUME NEW g \in Seq(Lines), NEW who
    PROVE  Leads(g, Result(who, g))
<1> DEFINE f == Result(who, g)
           local == "Endpoint local"
           endpoint == "Endpoint"
           interface == "[Interface]"
           peer == "[Peer]"
           vk == "AllowedIPs VK"
           old == "MTU"
           mtu == "MTU 1280"
           P == LinesIn(g, peer)
<1>1. LinesIn(f, interface) = Set(interface, LinesIn(g, interface), Mtu, mtu)
  BY MainLines, LibLines DEF Result
<1>2. \/ LinesIn(f, peer) = Set(peer, P, Ips \cup Endpoint, local)
                              \cup IF P \cap Ips /= {} THEN {vk} ELSE {}
      \/ LinesIn(f, peer) = Set(peer, P, Ips \cup Endpoint, vk)
                              \cup IF peer \in P /\ ~Found(Full(g)) THEN {local} ELSE {}
  BY MainLines, LibLines DEF Result, MainPeer
<1>3. /\ endpoint \in Endpoint /\ endpoint /= local /\ endpoint /= vk
      /\ old \in Mtu /\ old /= mtu
  BY DEF Endpoint, Mtu
<1>4. Usual(g) => interface \in LinesIn(g, interface) /\ peer \in P /\ ~Found(Full(g))
  BY UsualIs, UsualNotFound
<1> HIDE DEF f, local, endpoint, interface, peer, vk, old, mtu, P
<1>5. endpoint \notin LinesIn(f, peer)
  BY <1>2, <1>3 DEF Set
<1>6. old \notin LinesIn(f, interface)
  BY <1>1, <1>3 DEF Set
<1>7. Usual(g) => local \in LinesIn(f, peer)
  BY <1>2, <1>4 DEF Set
<1>8. Usual(g) => mtu \in LinesIn(f, interface)
  BY <1>1, <1>4 DEF Set
<1> QED
  BY <1>5, <1>6, <1>7, <1>8 DEF Leads, f, local, endpoint, interface, peer, old, mtu

\* Whatever config is given, of however many lines, interfaces and peers: what is
\* saved, by either function, leads into the tunnel.
THEOREM SavedLeadsIntoTunnel == Spec => []LeadsIntoTunnel
<1>1. TypeOK /\ Provenance => LeadsIntoTunnel
  <2> SUFFICES ASSUME TypeOK, Provenance, state = "saved" PROVE Leads(given, file)
    BY DEF LeadsIntoTunnel, Leads
  <2>1. file = Result(writer, given)
    BY WrittenIs DEF Provenance
  <2> QED
    BY <2>1, ResultLeads DEF TypeOK
<1> QED
  BY <1>1, TypeCorrect, ProvenanceKept, PTL

\* For every usual config with AllowedIPs the two functions say the same.
THEOREM VariantsAlwaysAgree == Spec => []VariantsAgree
<1>1. TypeOK => VariantsAgree
  <2> SUFFICES ASSUME TypeOK, Usual(given), Has(given, "[Peer]", Ips),
                      NEW section \in Sections
               PROVE  LinesIn(save_config_to_file(given), section)
                        = LinesIn(process_wireguard_config(given), section)
    BY DEF VariantsAgree, Sections
  <2> DEFINE m == save_config_to_file(given)
             l == process_wireguard_config(given)
             peer == "[Peer]"
             local == "Endpoint local"
             vk == "AllowedIPs VK"
             P == LinesIn(given, peer)
  <2>1. /\ LinesIn(m, "none") = LinesIn(l, "none")
        /\ LinesIn(m, "[Interface]") = LinesIn(l, "[Interface]")
    BY MainLines, LibLines DEF TypeOK
  <2>2. /\ LinesIn(m, peer) = Set(peer, P, Ips \cup Endpoint, local)
                                \cup IF P \cap Ips /= {} THEN {vk} ELSE {}
        /\ LinesIn(l, peer) = Set(peer, P, Ips \cup Endpoint, vk)
                                \cup IF peer \in P /\ ~Found(Full(given)) THEN {local} ELSE {}
    BY MainLines, LibLines DEF TypeOK, MainPeer
  <2>3. P \cap Ips /= {}
    BY HasMeans DEF TypeOK
  <2>4. peer \in P /\ ~Found(Full(given))
    BY UsualIs, UsualNotFound DEF TypeOK
  <2>5. LinesIn(m, peer) = LinesIn(l, peer)
    <3> HIDE DEF m, l, peer, local, vk, P
    <3> QED
      BY <2>2, <2>3, <2>4 DEF Set
  <2> QED
    BY <2>1, <2>5, Kinds
<1> QED
  BY <1>1, TypeCorrect, PTL

\* A config that has been saved is saved again as it is, whatever is in it: each
\* function is idempotent, and a file that is given again is one it has written.
THEOREM SavingIsIdempotent == Spec => SavedAgainUnchanged
<1>1. TypeOK /\ Provenance /\ [Next]_vars
        => [state = "given" /\ state' = "saved" /\ round > 1 /\ writer' = writer
            => file' = file]_vars
  <2> SUFFICES ASSUME TypeOK, Provenance, [Next]_vars, state = "given", state' = "saved",
                      round > 1, writer' = writer
               PROVE  file' = file
    OBVIOUS
  <2>1. PICK who \in {"main", "lib"} : Save(who)
    BY DEF Next, SaveFails, SaveAgain, vars
  <2>2. file' = Result(writer, given) /\ given = file
    BY <2>1, WrittenIs DEF Save, Provenance
  <2>3. PICK g \in Seq(Lines) : file = Result(writer, g)
    BY DEF Provenance
  <2>4. Result(writer, Result(writer, g)) = Result(writer, g)
    BY <2>3, ResultTyped
  <2> QED
    BY <2>2, <2>3, <2>4
<1> QED
  BY <1>1, TypeCorrect, ProvenanceKept, PTL DEF Spec, SavedAgainUnchanged


=============================================================================
