------------------------- MODULE SliderPuzzleProofs -------------------------
(***************************************************************************)
(* Proofs about the operators of SliderPuzzle, for puzzles of any size and *)
(* with any number of candidates.                                          *)
(***************************************************************************)
EXTENDS SliderPuzzle, FiniteSetTheorems, WellFoundedInduction, TLAPS

\* Induction up to n, for a set of numbers.
LEMMA UpTo ==
    ASSUME NEW n \in Nat, NEW S, 0 \in S, \A k \in 1 .. n : k - 1 \in S => k \in S
    PROVE  \A k \in 0 .. n : k \in S
<1> DEFINE T == {k \in 0 .. n : k \notin S}
           R == OpToRel(<, Nat)
<1>1. SUFFICES ASSUME T /= {} PROVE FALSE
  BY <1>1
<1>2. \A x, y \in Nat : <<y, x>> \in R <=> y < x
  BY DEF OpToRel
<1>3. T \subseteq Nat
  OBVIOUS
<1> HIDE DEF R
<1>4. IsWellFoundedOn(R, Nat)
  BY NatLessThanWellFounded DEF R
<1>5. PICK x \in T : \A y \in T : <<y, x>> \notin R
  <2> HIDE DEF T
  <2> QED
    BY <1>1, <1>3, <1>4, WFMin
<1>6. x \in 1 .. n /\ x - 1 \in Nat /\ x - 1 < x
  BY <1>5
<1>7. <<x - 1, x>> \in R
  BY <1>2, <1>6
<1>8. x - 1 \notin T
  BY <1>5, <1>7
<1> QED
  BY <1>5, <1>6, <1>8

-----------------------------------------------------------------------------
(* Strict total orders R on a finite set C: the number of elements below one   *)
(* is its place in the order, and every place is taken once.                   *)

StrictOrder(C, R) ==
    /\ \A x \in C : <<x, x>> \notin R
    /\ \A x, y, z \in C : <<x, y>> \in R /\ <<y, z>> \in R => <<x, z>> \in R
    /\ \A x, y \in C : x /= y => <<x, y>> \in R \/ <<y, x>> \in R

Below(C, R, x) == {d \in C : <<d, x>> \in R}

LEMMA BelowInRange ==
    ASSUME NEW C, IsFiniteSet(C), NEW R, StrictOrder(C, R), NEW x \in C
    PROVE  Cardinality(Below(C, R, x)) \in 0 .. Cardinality(C) - 1
<1>1. Below(C, R, x) \in SUBSET C /\ x \notin Below(C, R, x)
  BY DEF Below, StrictOrder
<1>2. /\ IsFiniteSet(Below(C, R, x)) /\ Cardinality(Below(C, R, x)) <= Cardinality(C)
      /\ Cardinality(C) = Cardinality(Below(C, R, x)) => C = Below(C, R, x)
  BY <1>1, FS_Subset
<1>3. Cardinality(Below(C, R, x)) \in Nat /\ Cardinality(C) \in Nat
  BY <1>2, FS_CardinalityType
<1> QED
  BY <1>1, <1>2, <1>3

LEMMA BelowGrows ==
    ASSUME NEW C, IsFiniteSet(C), NEW R, StrictOrder(C, R),
           NEW x \in C, NEW y \in C, <<x, y>> \in R
    PROVE  Cardinality(Below(C, R, x)) < Cardinality(Below(C, R, y))
<1>1. Below(C, R, x) \in SUBSET Below(C, R, y)
  BY DEF Below, StrictOrder
<1>2. x \in Below(C, R, y) /\ x \notin Below(C, R, x)
  BY DEF Below, StrictOrder
<1>3. IsFiniteSet(Below(C, R, y))
  <2>1. Below(C, R, y) \in SUBSET C
    BY DEF Below
  <2> QED
    BY <2>1, FS_Subset
<1>4. /\ IsFiniteSet(Below(C, R, x))
      /\ Cardinality(Below(C, R, x)) <= Cardinality(Below(C, R, y))
      /\ Cardinality(Below(C, R, y)) = Cardinality(Below(C, R, x))
           => Below(C, R, y) = Below(C, R, x)
  BY <1>1, <1>3, FS_Subset
<1>5. Cardinality(Below(C, R, x)) \in Nat /\ Cardinality(Below(C, R, y)) \in Nat
  BY <1>3, <1>4, FS_CardinalityType
<1> QED
  BY <1>2, <1>4, <1>5

LEMMA PlacesCount ==
    ASSUME NEW C, IsFiniteSet(C), NEW R, StrictOrder(C, R), NEW r \in 0 .. Cardinality(C)
    PROVE  Cardinality({x \in C : Cardinality(Below(C, R, x)) < r}) = r
<1> DEFINE n == Cardinality(C)
           place == [x \in C |-> Cardinality(Below(C, R, x))]
           first == {x \in C : place[x] < r}
           part == [x \in first |-> place[x]]
<1>1. n \in Nat /\ r \in Nat /\ r <= n
  BY FS_CardinalityType
<1>2. place \in [C -> 0 .. n - 1]
  BY BelowInRange
<1>3. \A x, y \in C : place[x] = place[y] => x = y
  <2>1. ASSUME NEW x \in C, NEW y \in C, x /= y PROVE place[x] /= place[y]
    <3>1. <<x, y>> \in R \/ <<y, x>> \in R
      BY <2>1 DEF StrictOrder
    <3>2. place[x] < place[y] \/ place[y] < place[x]
      BY <3>1, BelowGrows
    <3>3. place[x] \in Nat /\ place[y] \in Nat
      BY <1>1, <1>2
    <3> HIDE DEF place
    <3> QED
      BY <3>2, <3>3
  <2> QED
    BY <2>1
<1> HIDE DEF place
<1>4. ASSUME NEW m \in Nat
      PROVE  IsFiniteSet(0 .. m - 1) /\ Cardinality(0 .. m - 1) = m
  <2>1. 0 \in Int /\ m - 1 \in Int
    OBVIOUS
  <2>2. /\ IsFiniteSet(0 .. m - 1)
        /\ Cardinality(0 .. m - 1) = IF 0 > m - 1 THEN 0 ELSE (m - 1) - 0 + 1
    BY <2>1, FS_Interval
  <2> QED
    BY <2>2
<1>5. IsFiniteSet(0 .. r - 1) /\ Cardinality(0 .. r - 1) = r
  BY <1>1, <1>4
<1>6. place \in Injection(C, 0 .. n - 1)
  BY <1>2, <1>3 DEF Injection, IsInjective
<1>7. place \in Surjection(C, 0 .. n - 1)
  <2> HIDE DEF n
  <2>1. Cardinality(C) = Cardinality(0 .. n - 1)
    BY <1>1, <1>4 DEF n
  <2> QED
    BY <1>1, <1>4, <1>6, <2>1, FS_Injection
<1>8. part \in [first -> 0 .. r - 1]
  BY <1>1, <1>2
<1>9. part \in Injection(first, 0 .. r - 1)
  BY <1>3, <1>8 DEF Injection, IsInjective
<1>10. part \in Surjection(first, 0 .. r - 1)
  <2>1. \A j \in 0 .. r - 1 : \E x \in first : part[x] = j
    <3>1. \A j \in 0 .. r - 1 : j \in 0 .. n - 1 /\ j < r
      BY <1>1
    <3>2. \A j \in 0 .. n - 1 : \E x \in C : place[x] = j
      BY <1>7 DEF Surjection
    <3> QED
      BY <3>1, <3>2
  <2> QED
    BY <1>8, <2>1 DEF Surjection
<1>11. Cardinality(first) = r
  <2> HIDE DEF first, part
  <2> QED
    BY <1>5, <1>9, <1>10, FS_Injection
<1> QED
  BY <1>11 DEF place

-----------------------------------------------------------------------------
(* The ranking. *)

ScoreOrder(C, score) ==
    {p \in C \X C : score[p[1]] < score[p[2]] \/ (score[p[1]] = score[p[2]] /\ p[1] < p[2])}

LEMMA RankIsPlace ==
    ASSUME NEW C \in SUBSET Int, NEW score, \A c \in C : score[c] \in Int
    PROVE  /\ StrictOrder(C, ScoreOrder(C, score))
           /\ \A c \in C : RankIn(C, score, c) = Cardinality(Below(C, ScoreOrder(C, score), c))
<1>1. \A c, d \in C : <<c, d>> \in ScoreOrder(C, score)
                        <=> score[c] < score[d] \/ (score[c] = score[d] /\ c < d)
  BY DEF ScoreOrder
<1>2. StrictOrder(C, ScoreOrder(C, score))
  BY <1>1 DEF StrictOrder
<1>3. ASSUME NEW c \in C
      PROVE  {d \in C : score[d] < score[c] \/ (score[d] = score[c] /\ d < c)}
               = Below(C, ScoreOrder(C, score), c)
  BY <1>1 DEF Below
<1> QED
  BY <1>2, <1>3 DEF RankIn

\* A lower score is a lower rank; ranks are smaller than the number of candidates.
LEMMA RankFollowsScore ==
    ASSUME NEW C \in SUBSET Int, IsFiniteSet(C), NEW score, \A c \in C : score[c] \in Int,
           NEW c \in C
    PROVE  /\ RankIn(C, score, c) \in 0 .. Cardinality(C) - 1
           /\ \A d \in C : score[c] < score[d] => RankIn(C, score, c) < RankIn(C, score, d)
<1>1. RankIn(C, score, c) \in 0 .. Cardinality(C) - 1
  <2>1. /\ StrictOrder(C, ScoreOrder(C, score))
        /\ RankIn(C, score, c) = Cardinality(Below(C, ScoreOrder(C, score), c))
    BY RankIsPlace
  <2> QED
    BY <2>1, BelowInRange
<1>2. ASSUME NEW d \in C, score[c] < score[d] PROVE RankIn(C, score, c) < RankIn(C, score, d)
  <2>1. <<c, d>> \in ScoreOrder(C, score)
    BY <1>2 DEF ScoreOrder
  <2> QED
    BY <2>1, RankIsPlace, BelowGrows
<1> QED
  BY <1>1, <1>2

\* The scores of n candidates.
AreScores(scores, n) ==
    /\ n \in Nat
    /\ scores.luma \in [1 .. n -> Nat]
    /\ scores.rgb \in [1 .. n -> Nat]
    /\ scores.text \in [1 .. n -> Nat]

LEMMA CandidatesFinite ==
    ASSUME NEW scores, NEW n, AreScores(scores, n)
    PROVE  /\ Candidates(scores) = 1 .. n /\ Candidates(scores) \in SUBSET Int
           /\ IsFiniteSet(Candidates(scores)) /\ Cardinality(Candidates(scores)) = n
           /\ n \in Nat
           /\ \A c \in Candidates(scores) : /\ scores.luma[c] \in Nat /\ scores.rgb[c] \in Nat
                                            /\ scores.text[c] \in Nat
<1>1. Candidates(scores) = 1 .. n /\ n \in Nat
  BY DEF AreScores, Candidates
<1>2. IsFiniteSet(1 .. n) /\ Cardinality(1 .. n) = IF 1 > n THEN 0 ELSE n - 1 + 1
  BY <1>1, FS_Interval
<1>3. \A c \in 1 .. n : /\ scores.luma[c] \in Nat /\ scores.rgb[c] \in Nat
                         /\ scores.text[c] \in Nat
  BY DEF AreScores
<1> QED
  BY <1>1, <1>2, <1>3

\* No more than Stage2Count candidates get a second look.
LEMMA Stage2Size ==
    ASSUME NEW scores, NEW n, AreScores(scores, n)
    PROVE  /\ Stage2(scores) \in SUBSET Candidates(scores) /\ IsFiniteSet(Stage2(scores))
           /\ Cardinality(Stage2(scores)) \in 0 .. Stage2Count
<1> DEFINE C == Candidates(scores)
           R == ScoreOrder(C, scores.luma)
           k == IF Stage2Count <= n THEN Stage2Count ELSE n
<1>1. /\ C \in SUBSET Int /\ IsFiniteSet(C) /\ Cardinality(C) = n /\ n \in Nat
      /\ \A c \in C : scores.luma[c] \in Int
  BY CandidatesFinite
<1>2. Stage2(scores) \in SUBSET C
  BY DEF Stage2
<1>3. StrictOrder(C, R) /\ \A c \in C : LumaRank(scores, c) = Cardinality(Below(C, R, c))
  BY <1>1, RankIsPlace DEF LumaRank
<1>4. \A c \in C : Cardinality(Below(C, R, c)) \in 0 .. n - 1
  BY <1>1, <1>3, BelowInRange
<1> HIDE DEF C, R
<1>5. Stage2(scores) = {c \in C : Cardinality(Below(C, R, c)) < k}
  BY <1>1, <1>3, <1>4, SliderPuzzleAssumption DEF Stage2, C
<1>6. k \in 0 .. n /\ k \in 0 .. Stage2Count
  BY <1>1, SliderPuzzleAssumption
<1> HIDE DEF k
<1>7. Cardinality(Stage2(scores)) = k
  BY <1>1, <1>3, <1>5, <1>6, PlacesCount
<1> QED
  BY <1>1, <1>2, <1>6, <1>7, FS_Subset DEF C

LEMMA ConsensusTyped ==
    ASSUME NEW scores, NEW n, AreScores(scores, n), NEW c \in Candidates(scores)
    PROVE  ConsensusRank(scores, c) \in Nat
<1>1. /\ Candidates(scores) \in SUBSET Int /\ IsFiniteSet(Candidates(scores))
      /\ Cardinality(Candidates(scores)) \in Nat
      /\ Stage2(scores) \in SUBSET Candidates(scores) /\ IsFiniteSet(Stage2(scores))
      /\ Cardinality(Stage2(scores)) \in Nat
  BY CandidatesFinite, Stage2Size, SliderPuzzleAssumption
<1>2. \A d \in Candidates(scores) : /\ scores.luma[d] \in Int /\ scores.rgb[d] \in Int
                                    /\ scores.text[d] \in Int
  BY CandidatesFinite
<1>3. LumaRank(scores, c) \in Nat
  BY <1>1, <1>2, RankFollowsScore DEF LumaRank
<1>4. c \in Stage2(scores) => /\ RankIn(Stage2(scores), scores.rgb, c) \in Nat
                              /\ RankIn(Stage2(scores), scores.text, c) \in Nat
  BY <1>1, <1>2, RankFollowsScore
<1> QED
  BY <1>1, <1>3, <1>4 DEF ConsensusRank

-----------------------------------------------------------------------------
(* The order in which the candidates are tried. *)

TryOrder(scores) ==
    {p \in Candidates(scores) \X Candidates(scores) : Before(scores, p[1], p[2])}

LEMMA PositionIsPlace ==
    ASSUME NEW scores, NEW n, AreScores(scores, n)
    PROVE  /\ StrictOrder(Candidates(scores), TryOrder(scores))
           /\ \A c \in Candidates(scores) :
                 Position(scores, c) = Cardinality(Below(Candidates(scores), TryOrder(scores), c))
<1> DEFINE C == Candidates(scores)
           rank == [c \in C |-> ConsensusRank(scores, c)]
<1>1. /\ C \in SUBSET Int
      /\ \A c \in C : rank[c] \in Int /\ scores.luma[c] \in Int
  <2>1. C \in SUBSET Int /\ \A c \in C : scores.luma[c] \in Int
    BY CandidatesFinite
  <2>2. \A c \in C : ConsensusRank(scores, c) \in Nat
    BY ConsensusTyped
  <2> QED
    BY <2>1, <2>2
<1>2. \A c, d \in C : <<c, d>> \in TryOrder(scores) <=> Before(scores, c, d)
  BY DEF TryOrder
<1>3. \A c, d \in C : Before(scores, c, d) <=>
          \/ rank[c] < rank[d]
          \/ rank[c] = rank[d] /\ scores.luma[c] < scores.luma[d]
          \/ rank[c] = rank[d] /\ scores.luma[c] = scores.luma[d] /\ c < d
  BY DEF Before
<1>4. ASSUME NEW c \in C
      PROVE  {d \in C : Before(scores, d, c)} = Below(C, TryOrder(scores), c)
  BY <1>2 DEF Below
<1> HIDE DEF C, rank
<1>5. StrictOrder(C, TryOrder(scores))
  BY <1>1, <1>2, <1>3 DEF StrictOrder
<1> QED
  BY <1>4, <1>5 DEF Position, C

\* Exactly one candidate is at each position: the first r are r.
LEMMA FirstOnes ==
    ASSUME NEW scores, NEW n, AreScores(scores, n), NEW r \in 0 .. n
    PROVE  Cardinality({c \in Candidates(scores) : Position(scores, c) < r}) = r
<1> DEFINE C == Candidates(scores)
           R == TryOrder(scores)
<1>1. IsFiniteSet(C) /\ Cardinality(C) = n
  BY CandidatesFinite
<1>2. StrictOrder(C, R) /\ \A c \in C : Position(scores, c) = Cardinality(Below(C, R, c))
  BY PositionIsPlace
<1> HIDE DEF C, R
<1>3. Cardinality({c \in C : Cardinality(Below(C, R, c)) < r}) = r
  BY <1>1, <1>2, PlacesCount
<1>4. {c \in C : Position(scores, c) < r} = {c \in C : Cardinality(Below(C, R, c)) < r}
  BY <1>2
<1> QED
  BY <1>3, <1>4 DEF C

LEMMA BeforeIsEarlier ==
    ASSUME NEW scores, NEW n, AreScores(scores, n),
           NEW c \in Candidates(scores), NEW d \in Candidates(scores), Before(scores, c, d)
    PROVE  /\ Position(scores, c) \in Nat /\ Position(scores, d) \in Nat
           /\ Position(scores, c) < Position(scores, d)
<1> DEFINE C == Candidates(scores)
           R == TryOrder(scores)
<1>1. IsFiniteSet(C) /\ Cardinality(C) \in Nat
  BY CandidatesFinite
<1>2. /\ StrictOrder(C, R) /\ <<c, d>> \in R
      /\ Position(scores, c) = Cardinality(Below(C, R, c))
      /\ Position(scores, d) = Cardinality(Below(C, R, d))
  BY PositionIsPlace DEF TryOrder
<1> HIDE DEF C, R
<1>3. c \in C /\ d \in C
  BY DEF C
<1>4. /\ Cardinality(Below(C, R, c)) \in 0 .. Cardinality(C) - 1
      /\ Cardinality(Below(C, R, d)) \in 0 .. Cardinality(C) - 1
  BY <1>1, <1>2, <1>3, BelowInRange
<1>5. Cardinality(Below(C, R, c)) < Cardinality(Below(C, R, d))
  BY <1>1, <1>2, <1>3, BelowGrows
<1> QED
  BY <1>1, <1>2, <1>4, <1>5

-----------------------------------------------------------------------------
(* The swaps. *)

\* The mappings after 0, 1, .. n swaps.
MappedBy(size, swaps, n, g) ==
    g = [k \in 0 .. n |-> IF k = 0 THEN [t \in Tiles(size) |-> t]
                          ELSE Swapped(g[k - 1], swaps[2 * k - 1], swaps[2 * k])]

LEMMA MappingsExist ==
    ASSUME NEW size, NEW swaps, NEW n \in Nat
    PROVE  \E g : MappedBy(size, swaps, n, g)
<1> DEFINE S == {m \in Nat : \E g : MappedBy(size, swaps, m, g)}
<1>1. 0 \in S
  <2> DEFINE g == [k \in 0 .. 0 |-> [t \in Tiles(size) |-> t]]
  <2>1. MappedBy(size, swaps, 0, g)
    BY DEF MappedBy
  <2> QED
    BY <2>1
<1>2. ASSUME NEW m \in 1 .. n, m - 1 \in S PROVE m \in S
  <2>1. PICK g : MappedBy(size, swaps, m - 1, g)
    BY <1>2
  <2> DEFINE last == Swapped(g[m - 1], swaps[2 * m - 1], swaps[2 * m])
             h == [k \in 0 .. m |-> IF k = m THEN last ELSE g[k]]
  <2>2. \A k \in 0 .. m : k /= m => k \in 0 .. m - 1 /\ (k /= 0 => k - 1 \in 0 .. m /\ k - 1 /= m)
    BY <1>2
  <2>3. \A k \in 0 .. m : h[k] = IF k = 0 THEN [t \in Tiles(size) |-> t]
                                 ELSE Swapped(h[k - 1], swaps[2 * k - 1], swaps[2 * k])
    <3>1. ASSUME NEW k \in 0 .. m, k /= m
          PROVE  h[k] = IF k = 0 THEN [t \in Tiles(size) |-> t]
                        ELSE Swapped(h[k - 1], swaps[2 * k - 1], swaps[2 * k])
      <4> HIDE DEF last
      <4>1. h[k] = g[k] /\ (k /= 0 => h[k - 1] = g[k - 1])
        BY <2>2, <3>1
      <4>2. g[k] = IF k = 0 THEN [t \in Tiles(size) |-> t]
                   ELSE Swapped(g[k - 1], swaps[2 * k - 1], swaps[2 * k])
        BY <2>1, <2>2, <3>1 DEF MappedBy
      <4> QED
        BY <4>1, <4>2
    <3>2. m /= 0 /\ m \in 0 .. m /\ h[m] = last /\ h[m - 1] = g[m - 1]
      BY <1>2
    <3> QED
      BY <3>1, <3>2
  <2>4. MappedBy(size, swaps, m, h)
    <3> DEFINE e == [k \in 0 .. m |-> IF k = 0 THEN [t \in Tiles(size) |-> t]
                                 ELSE Swapped(h[k - 1], swaps[2 * k - 1], swaps[2 * k])]
    <3>1. DOMAIN h = 0 .. m /\ DOMAIN e = 0 .. m /\ \A k \in 0 .. m : h[k] = e[k]
      BY <2>3
    <3>2. h = [k \in 0 .. m |-> h[k]]
      OBVIOUS
    <3>3. e = [k \in 0 .. m |-> e[k]]
      OBVIOUS
    <3>4. h = e
      <4> HIDE DEF h, e
      <4> QED
        BY <3>1, <3>2, <3>3
    <3> QED
      BY <3>4 DEF MappedBy
  <2> QED
    BY <1>2, <2>4
<1> HIDE DEF S
<1>3. \A m \in 0 .. n : m \in S
  BY <1>1, <1>2, UpTo
<1> QED
  BY <1>3 DEF S

\* A mapping shows every tile once.
IsPermutation(size, m) ==
    /\ m \in [Tiles(size) -> Tiles(size)]
    /\ {m[t] : t \in Tiles(size)} = Tiles(size)

LEMMA SwapPermutes ==
    ASSUME NEW size, NEW m, IsPermutation(size, m), NEW i \in Tiles(size), NEW j \in Tiles(size)
    PROVE  IsPermutation(size, Swapped(m, i, j))
<1> DEFINE s == Swapped(m, i, j)
<1>1. /\ s \in [Tiles(size) -> Tiles(size)]
      /\ \A t \in Tiles(size) : s[t] = IF t = j THEN m[i] ELSE IF t = i THEN m[j] ELSE m[t]
  BY DEF IsPermutation, Swapped
<1>2. ASSUME NEW u \in Tiles(size) PROVE \E t \in Tiles(size) : s[t] = u
  <2>1. PICK t \in Tiles(size) : m[t] = u
    BY DEF IsPermutation
  <2> HIDE DEF s
  <2>2. s[IF t = i THEN j ELSE IF t = j THEN i ELSE t] = u
    BY <1>1, <2>1
  <2> QED
    BY <2>2
<1> HIDE DEF s
<1> QED
  BY <1>1, <1>2 DEF IsPermutation, s

\* Swaps within the grid, whichever they are, make a permutation.
LEMMA MappingPermutes ==
    ASSUME NEW size, NEW swaps \in Seq(Nat), ~StrayIn(size, swaps)
    PROVE  IsPermutation(size, Mapping(size, swaps))
<1> DEFINE n == Len(swaps) \div 2
           g == CHOOSE f : MappedBy(size, swaps, n, f)
           S == {k \in 0 .. n : IsPermutation(size, g[k])}
<1>1. n \in Nat /\ \A k \in 1 .. n : {2 * k - 1, 2 * k} \subseteq DOMAIN swaps
  OBVIOUS
<1>2. Mapping(size, swaps) = g[n]
  BY Zenon DEF Mapping, MappedBy
<1> HIDE DEF n
<1>3. MappedBy(size, swaps, n, g)
  BY <1>1, MappingsExist
<1> HIDE DEF g
<1>4. \A k \in 0 .. n : g[k] = IF k = 0 THEN [t \in Tiles(size) |-> t]
                               ELSE Swapped(g[k - 1], swaps[2 * k - 1], swaps[2 * k])
  BY <1>3 DEF MappedBy
<1>5. 0 \in S
  <2>1. IsPermutation(size, [t \in Tiles(size) |-> t])
    BY DEF IsPermutation
  <2> QED
    BY <1>1, <1>4, <2>1
<1>6. ASSUME NEW k \in 1 .. n, k - 1 \in S PROVE k \in S
  <2>1. swaps[2 * k - 1] \in Tiles(size) /\ swaps[2 * k] \in Tiles(size)
    BY <1>1, <1>6 DEF StrayIn
  <2>2. IsPermutation(size, Swapped(g[k - 1], swaps[2 * k - 1], swaps[2 * k]))
    BY <1>6, <2>1, SwapPermutes
  <2>3. k \in 0 .. n /\ k /= 0
    BY <1>1, <1>6
  <2> QED
    BY <1>4, <2>2, <2>3
<1>7. n \in S
  <2> HIDE DEF S
  <2>1. \A k \in 0 .. n : k \in S
    BY <1>1, <1>5, <1>6, UpTo
  <2> QED
    BY <1>1, <2>1
<1> QED
  BY <1>2, <1>7

-----------------------------------------------------------------------------
(* The tiles. *)

LEMMA ProductGrows ==
    ASSUME NEW a \in Nat, NEW b \in Nat, NEW m \in Nat, a <= b
    PROVE  a * m <= b * m
  BY SMT

LEMMA QuotientTyped ==
    ASSUME NEW a \in Nat, NEW m \in Nat \ {0}
    PROVE  a \div m \in Nat
  OBVIOUS

LEMMA QuotientBelow ==
    ASSUME NEW a \in Nat, NEW m \in Nat \ {0}
    PROVE  (a \div m) * m <= a
  OBVIOUS

LEMMA QuotientAtLeast ==
    ASSUME NEW a \in Nat, NEW m \in Nat \ {0}, NEW q \in Nat, q * m <= a
    PROVE  q <= a \div m
  OBVIOUS

LEMMA QuotientLess ==
    ASSUME NEW a \in Nat, NEW m \in Nat \ {0}, NEW q \in Nat, a < q * m
    PROVE  a \div m < q
  OBVIOUS

LEMMA EdgeTyped ==
    ASSUME NEW w \in Nat, NEW size \in Nat \ {0}, NEW i \in Nat
    PROVE  Edge(w, size, i) \in Nat
<1>1. i * w \in Nat
  OBVIOUS
<1> QED
  BY <1>1, QuotientTyped DEF Edge

LEMMA EdgesTyped ==
    ASSUME NEW w \in Nat, NEW size \in Nat \ {0}, NEW i \in Nat
    PROVE  Edge(w, size, i) \in Nat /\ Edge(w, size, i + 1) \in Nat
<1> DEFINE j == i + 1
<1>1. j \in Nat
  OBVIOUS
<1> HIDE DEF j
<1>2. Edge(w, size, j) \in Nat
  BY <1>1, EdgeTyped
<1>3. Edge(w, size, i) \in Nat
  BY EdgeTyped
<1> QED
  BY <1>2, <1>3 DEF j

\* Edges are places where tiles begin: the tiles before one fit on the left of it.
LEMMA EdgeFits ==
    ASSUME NEW w \in Nat, NEW size \in Nat \ {0}, NEW i \in Nat
    PROVE  Edge(w, size, i) * size <= i * w
<1>1. i * w \in Nat
  OBVIOUS
<1> DEFINE a == i * w
<1> HIDE DEF a
<1>2. (a \div size) * size <= a
  BY <1>1, QuotientBelow DEF a
<1> QED
  BY <1>2 DEF Edge, a

\* An image with a pixel for every tile gives each tile one.
LEMMA TileNotEmpty ==
    ASSUME NEW w \in Nat, NEW size \in Nat \ {0}, w >= size, NEW i \in Nat
    PROVE  TileWidth(w, size, i) \in Nat \ {0}
<1> DEFINE e == Edge(w, size, i)
           a == i * w
           b == (i + 1) * w
<1>1. e \in Nat /\ Edge(w, size, i + 1) \in Nat
  BY EdgesTyped
<1>2. a \in Nat /\ b \in Nat /\ b = a + w
  OBVIOUS
<1>3. e * size <= a
  BY EdgeFits
<1>4. Edge(w, size, i + 1) = b \div size
  BY DEF Edge
<1> HIDE DEF e, a, b
<1>5. (e + 1) * size = e * size + size /\ e * size \in Nat
  BY <1>1
<1>6. (e + 1) * size <= b
  BY <1>2, <1>3, <1>5
<1>7. e + 1 \in Nat
  BY <1>1
<1>8. e + 1 <= b \div size
  BY <1>2, <1>6, <1>7, QuotientAtLeast
<1>9. TileWidth(w, size, i) = Edge(w, size, i + 1) - e
  BY DEF TileWidth, e
<1> QED
  BY <1>1, <1>4, <1>8, <1>9

\* The pixel sampled for a place belongs to the tile that is shown there.
LEMMA SampleInTile ==
    ASSUME NEW w \in Nat, NEW size \in Nat \ {0}, w >= size,
           NEW dst \in Nat, NEW src \in Nat, NEW k \in 0 .. TileWidth(w, size, dst) - 1
    PROVE  Sample(w, size, dst, src, k) \in Edge(w, size, src) .. Edge(w, size, src + 1) - 1
<1> DEFINE ws == TileWidth(w, size, src)
           wd == TileWidth(w, size, dst)
<1>1. ws \in Nat \ {0} /\ wd \in Nat \ {0} /\ k \in Nat /\ k + 1 <= wd
  <2>1. ws \in Nat \ {0}
    BY TileNotEmpty
  <2>2. wd \in Nat \ {0} /\ k \in 0 .. wd - 1
    BY TileNotEmpty
  <2> HIDE DEF ws, wd
  <2> QED
    BY <2>1, <2>2
<1>2. Sample(w, size, dst, src, k) = Edge(w, size, src) + (k * ws) \div wd
  <2>1. (IF wd > 1 THEN wd ELSE 1) = wd
    BY <1>1
  <2> QED
    BY <2>1 DEF Sample
<1>3. Edge(w, size, src + 1) = Edge(w, size, src) + ws /\ Edge(w, size, src) \in Nat
  <2>1. ws = Edge(w, size, src + 1) - Edge(w, size, src)
    BY DEF TileWidth
  <2>2. Edge(w, size, src) \in Nat /\ Edge(w, size, src + 1) \in Nat
    BY EdgesTyped
  <2> HIDE DEF ws
  <2> QED
    BY <2>1, <2>2
<1> HIDE DEF ws, wd
<1>4. (k + 1) * ws <= wd * ws
  BY <1>1, ProductGrows
<1>5. (k + 1) * ws = k * ws + ws /\ wd * ws = ws * wd /\ k * ws \in Nat /\ ws * wd \in Nat
  BY <1>1
<1>6. k * ws < ws * wd
  BY <1>1, <1>4, <1>5
<1>7. (k * ws) \div wd \in Nat /\ (k * ws) \div wd < ws
  BY <1>1, <1>5, <1>6, QuotientTyped, QuotientLess
<1> QED
  BY <1>1, <1>2, <1>3, <1>7

=============================================================================
