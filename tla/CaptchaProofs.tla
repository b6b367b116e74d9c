---------------------------- MODULE CaptchaProofs ----------------------------
(***************************************************************************)
(* Theorems about the captcha solver, for any puzzles the server may send: *)
(* any size, any number of candidates and of attempts, images of any width *)
(* and any scores.                                                         *)
(***************************************************************************)
EXTENDS Captcha, SliderPuzzleProofs, SequenceTheorems

LEMMA RemainderTyped ==
    ASSUME NEW a \in Int, NEW m \in Nat \ {0}
    PROVE  a % m \in Nat
  OBVIOUS

LEMMA StepsTyped ==
    ASSUME NEW steps \in Steps
    PROVE  steps \in Seq(Nat)
<1>1. PICK p \in Payloads : steps = [i \in DOMAIN p |-> p[i] % UsizeMod]
  BY DEF Steps, AsUsize
<1>2. p \in Seq(Int)
  BY <1>1, CaptchaAssumption
<1>3. DOMAIN p = 1 .. Len(p) /\ Len(p) \in Nat /\ \A i \in DOMAIN p : p[i] \in Int
  BY <1>2
<1>4. \A i \in DOMAIN p : p[i] % UsizeMod \in Nat
  BY <1>3, RemainderTyped, SliderPuzzleAssumption
<1>5. steps \in [1 .. Len(p) -> Nat]
  BY <1>1, <1>3, <1>4
<1> QED
  BY <1>3, <1>5

LEMMA HalfTyped ==
    ASSUME NEW a \in Nat
    PROVE  a \div 2 \in Nat
  OBVIOUS

LEMMA SwapsTyped ==
    ASSUME NEW steps \in Steps
    PROVE  SwapsOf(steps) \in Seq(Nat)
<1> DEFINE k == 1 + 2 * ((Len(steps) - 1) \div 2)
<1>1. steps \in Seq(Nat) /\ Len(steps) \in Nat
  BY StepsTyped
<1>2. k \in Int /\ k <= Len(steps)
  BY <1>1
<1> HIDE DEF k
<1>3. \A i \in 2 .. k : steps[i] \in Nat
  BY <1>1, <1>2
<1>4. 2 \in Int
  OBVIOUS
<1>5. SubSeq(steps, 2, k) \in Seq(Nat)
  BY <1>2, <1>3, <1>4, SubSeqProperties
<1> QED
  BY <1>5 DEF SwapsOf, k

LEMMA CandidateCountTyped ==
    ASSUME NEW steps \in Steps
    PROVE  CandidateCount(steps) \in Nat
<1>1. Len(SwapsOf(steps)) \in Nat
  BY SwapsTyped
<1> QED
  BY <1>1, HalfTyped DEF CandidateCount

LEMMA AttemptsTyped ==
    ASSUME NEW steps \in Steps, Splits(steps)
    PROVE  AttemptsOf(steps) \in Nat
<1>1. steps \in Seq(Nat) /\ Len(steps) \in Nat /\ Len(steps) >= 3
  BY StepsTyped DEF Splits
<1>2. steps[Len(steps)] \in Nat
  BY <1>1
<1> QED
  BY <1>2 DEF AttemptsOf

-----------------------------------------------------------------------------
(* Types. *)

\* The ways in which a step changes the variables.
Change ==
    /\ pc' = "solve" /\ showType' = "slider"
    /\ puzzle' = NoPuzzle /\ rejected' = 0
    /\ UNCHANGED <<attempt, sliderKnown, token, ended>>

LEMMA FailTyped ==
    TypeOK /\ Fail => TypeOK'
  BY DEF TypeOK, Fail, Pcs

LEMMA SolvingFailsTyped ==
    ASSUME NEW mentionsBot \in BOOLEAN
    PROVE  TypeOK /\ SolvingFails(mentionsBot) => TypeOK'
<1>1. SolvingFails(mentionsBot) => Fail \/ Change
  BY DEF SolvingFails, Change
<1>2. "slider" \in ShowTypes
  BY DEF ShowTypes
<1>3. TypeOK /\ Change => TypeOK'
  BY <1>2 DEF TypeOK, Change, Pcs, Solving
<1> QED
  BY <1>1, <1>3, FailTyped

LEMMA SolvedTyped ==
    TypeOK /\ Solved => TypeOK'
  BY DEF TypeOK, Solved, Pcs

LEMMA AttemptsAreSome ==
    Attempts \in Nat /\ Attempts >= 1
<1>1. MaxAttempts \in Nat
  BY CaptchaAssumption
<1> QED
  BY <1>1 DEF Attempts

LEMMA ArrivalTyped ==
    TypeOK /\ PuzzleArrives => TypeOK'
<1> SUFFICES ASSUME TypeOK, PuzzleArrives PROVE TypeOK'
  OBVIOUS
<1>1. PICK steps \in Steps, w \in Widths :
          Splits(steps) /\ \E scores \in ScoresOf(steps) :
             puzzle' = [steps |-> steps, width |-> w, scores |-> scores]
  BY DEF PuzzleArrives
<1>2. IsPuzzle(puzzle')
  BY <1>1 DEF IsPuzzle
<1>3. /\ pc' = "sliderDone"
      /\ UNCHANGED <<attempt, showType, sliderKnown, rejected, token, ended>>
  BY DEF PuzzleArrives
<1> QED
  BY <1>2, <1>3 DEF TypeOK, Pcs, Solving

LEMMA TypeStep ==
    TypeOK /\ [Next]_vars => TypeOK'
<1> SUFFICES ASSUME TypeOK, [Next]_vars PROVE TypeOK'
  OBVIOUS
<1> USE DEF TypeOK, Pcs, Prepare, Solving
<1>0. Attempts \in Nat /\ Attempts >= 1
  BY AttemptsAreSome
<1>1. CASE Begin
  BY <1>0, <1>1 DEF Begin
<1>2. CASE NoSession
  BY <1>2 DEF NoSession
<1>3. CASE Retry
  BY <1>0, <1>3 DEF Retry
<1>4. CASE GiveUp
  BY <1>4 DEF GiveUp
<1>5. CASE PageReady
  BY <1>5 DEF PageReady
<1>6. CASE SettingsDone
  BY <1>6 DEF SettingsDone
<1>7. CASE DebugInfoReady
  BY <1>7 DEF DebugInfoReady
<1>8. CASE PrepareFails
  BY <1>8, FailTyped DEF PrepareFails
<1>9. CASE ChooseSolver
  BY <1>9 DEF ChooseSolver
<1>10. CASE UnknownType
  BY <1>10, FailTyped DEF UnknownType
<1>11. CASE SolverRequestFails
  BY <1>11, SolvingFailsTyped DEF SolverRequestFails, SomehowFails
<1>12. CASE EndSession
  BY <1>12 DEF EndSession
<1>13. CASE BoxDone
  BY <1>13 DEF BoxDone
<1>14. CASE BoxAnswer
  BY <1>14, SolvingFailsTyped, SolvedTyped DEF BoxAnswer, SomehowFails
<1>15. CASE PuzzleArrives
  BY <1>15, ArrivalTyped
<1>16. CASE PuzzlePanics
  BY <1>16 DEF PuzzlePanics
<1>17. CASE SliderDone
  BY <1>17 DEF SliderDone
<1>18. CASE SliderAnswer
  <2>1. CASE Solved
    BY <2>1, SolvedTyped
  <2>2. CASE SolvingFails(FALSE)
    BY <2>2, SolvingFailsTyped
  <2>3. CASE /\ rejected' = rejected + 1
             /\ UNCHANGED <<pc, attempt, showType, sliderKnown, puzzle, token, ended>>
    BY <2>3
  <2> QED
    BY <1>18, <2>1, <2>2, <2>3 DEF SliderAnswer
<1>19. CASE SliderExhausted
  BY <1>19, SolvingFailsTyped DEF SliderExhausted
<1>20. CASE UNCHANGED vars
  BY <1>20 DEF vars
<1> QED
  BY <1>1, <1>2, <1>3, <1>4, <1>5, <1>6, <1>7, <1>8, <1>9, <1>10, <1>11, <1>12, <1>13,
     <1>14, <1>15, <1>16, <1>17, <1>18, <1>19, <1>20 DEF Next, Step, Over

\* Every variable of the solver keeps its type: a puzzle that is being solved has
\* at least one swap and a size, and scores that fit its candidates.
THEOREM TypeCorrect == Spec => []TypeOK
<1>1. Init => TypeOK
  <2>1. Init => showType \in ShowTypes
    BY DEF Init, ShowTypes
  <2>2. Init => /\ pc = "idle" /\ attempt = 0 /\ sliderKnown = FALSE /\ puzzle = NoPuzzle
                /\ rejected = 0 /\ token = FALSE /\ ended = FALSE
    BY DEF Init
  <2>3. 0 \in 0 .. Attempts /\ 0 \in Nat
    BY AttemptsAreSome
  <2> QED
    BY <2>1, <2>2, <2>3, Zenon DEF TypeOK, Pcs
<1> QED
  BY <1>1, TypeStep, PTL DEF Spec

LEMMA PuzzleScores ==
    ASSUME TypeOK, Puzzled
    PROVE  /\ CandidateCount(puzzle.steps) \in Nat
           /\ AttemptsOf(puzzle.steps) \in Nat
           /\ AreScores(puzzle.scores, CandidateCount(puzzle.steps))
<1>1. puzzle.steps \in Steps /\ Splits(puzzle.steps) /\ puzzle.scores \in ScoresOf(puzzle.steps)
  BY DEF TypeOK, Puzzled, IsPuzzle
<1>2. CandidateCount(puzzle.steps) \in Nat /\ AttemptsOf(puzzle.steps) \in Nat
  BY <1>1, CandidateCountTyped, AttemptsTyped
<1> DEFINE C == 1 .. CandidateCount(puzzle.steps)
           s == puzzle.scores
<1>3. s \in [luma : [C -> ScoreRange], rgb : [C -> ScoreRange], text : [C -> ScoreRange]]
  BY <1>1 DEF ScoresOf
<1>4. s.luma \in [C -> Nat] /\ s.rgb \in [C -> Nat] /\ s.text \in [C -> Nat]
  BY <1>3, CaptchaAssumption
<1> QED
  BY <1>2, <1>4 DEF AreScores

-----------------------------------------------------------------------------
(* The pixels. *)

\* The pixels that score a seam belong to the two tiles that meet there, for grids
\* and images of any size with at least one pixel per tile.
THEOREM TilesAreSampled == Spec => []SamplesOwnTile
<1>1. TypeOK => SamplesOwnTile
  <2> SUFFICES ASSUME TypeOK, Puzzled, puzzle.width >= puzzle.steps[1]
               PROVE  SamplesOwnTile
    BY DEF SamplesOwnTile
  <2> DEFINE size == puzzle.steps[1]
             w == puzzle.width
  <2>1. puzzle.steps \in Steps /\ Splits(puzzle.steps) /\ w \in Widths
    BY DEF TypeOK, Puzzled, IsPuzzle
  <2>2. size \in Nat \ {0}
    BY <2>1, StepsTyped DEF Splits
  <2>3. w \in Nat /\ w >= size
    BY <2>1, CaptchaAssumption
  <2>4. SamplesOwnTile <=>
          \A dst, src \in 0 .. size - 1 :
             \A k \in 0 .. TileWidth(w, size, dst) - 1 :
                Sample(w, size, dst, src, k) \in Edge(w, size, src) .. Edge(w, size, src + 1) - 1
    BY DEF SamplesOwnTile
  <2> HIDE DEF size, w
  <2>5. 0 .. size - 1 \subseteq Nat
    BY <2>2
  <2> QED
    BY <2>2, <2>3, <2>4, <2>5, SampleInTile
<1> QED
  BY <1>1, TypeCorrect, PTL

-----------------------------------------------------------------------------
(* The images. *)

\* The swaps of a candidate are among those of the puzzle.
LEMMA ActiveSwapsTyped ==
    ASSUME NEW steps \in Steps, NEW c \in 1 .. CandidateCount(steps)
    PROVE  /\ ActiveSwaps(steps, c) \in Seq(Nat)
           /\ \A i \in DOMAIN ActiveSwaps(steps, c) : i \in DOMAIN SwapsOf(steps)
                  /\ ActiveSwaps(steps, c)[i] = SwapsOf(steps)[i]
<1> DEFINE swaps == SwapsOf(steps)
           k == 2 * c
<1>1. swaps \in Seq(Nat)
  BY SwapsTyped
<1>2. k \in Int /\ k <= Len(swaps) /\ Len(swaps) \in Nat
  <2>1. Len(swaps) \in Nat
    BY <1>1
  <2>2. CandidateCount(steps) = Len(swaps) \div 2
    BY DEF CandidateCount
  <2> HIDE DEF swaps
  <2> QED
    BY <2>1, <2>2
<1> HIDE DEF swaps, k
<1>3. \A i \in 1 .. k : i \in DOMAIN swaps /\ swaps[i] \in Nat
  BY <1>1, <1>2
<1>4. /\ SubSeq(swaps, 1, k) \in Seq(Nat)
      /\ Len(SubSeq(swaps, 1, k)) = IF 1 <= k THEN k - 1 + 1 ELSE 0
      /\ \A i \in 1 .. k - 1 + 1 : SubSeq(swaps, 1, k)[i] = swaps[1 + i - 1]
  BY <1>2, <1>3, SubSeqProperties
<1>5. DOMAIN SubSeq(swaps, 1, k) \subseteq 1 .. k
  BY <1>2, <1>4
<1>6. \A i \in 1 .. k : SubSeq(swaps, 1, k)[i] = swaps[i]
  BY <1>2, <1>4
<1>7. ActiveSwaps(steps, c) = SubSeq(swaps, 1, k)
  BY DEF ActiveSwaps, swaps, k
<1> QED
  BY <1>3, <1>4, <1>5, <1>6, <1>7 DEF swaps

\* Every image the solver scores shows each tile once, for grids of any size and
\* any swaps within them.
THEOREM GuessesArePermutations == Spec => []EveryGuessIsAPermutation
<1>1. TypeOK => EveryGuessIsAPermutation
  <2> SUFFICES ASSUME TypeOK, Puzzled, ~StrayIn(puzzle.steps[1], SwapsOf(puzzle.steps)),
                      NEW c \in Candidates(puzzle.scores)
               PROVE  LET m == Mapping(puzzle.steps[1], ActiveSwaps(puzzle.steps, c))
                      IN  {m[t] : t \in DOMAIN m} = Tiles(puzzle.steps[1])
    BY DEF EveryGuessIsAPermutation
  <2> DEFINE size == puzzle.steps[1]
             swaps == ActiveSwaps(puzzle.steps, c)
             m == Mapping(size, swaps)
  <2>1. puzzle.steps \in Steps
    BY DEF TypeOK, Puzzled, IsPuzzle
  <2>2. c \in 1 .. CandidateCount(puzzle.steps)
    BY PuzzleScores, CandidatesFinite
  <2>3. swaps \in Seq(Nat) /\ ~StrayIn(size, swaps)
    BY <2>1, <2>2, ActiveSwapsTyped DEF StrayIn
  <2> HIDE DEF size, swaps
  <2>4. IsPermutation(size, m)
    BY <2>3, MappingPermutes
  <2> HIDE DEF m
  <2>5. {m[t] : t \in DOMAIN m} = Tiles(size)
    BY <2>4 DEF IsPermutation
  <2> QED
    BY <2>5 DEF m, swaps, size
<1> QED
  BY <1>1, TypeCorrect, PTL

-----------------------------------------------------------------------------
(* The guesses. *)

\* Guesses are counted for a puzzle and only up to its limit; while none is being
\* solved, there is none and the count is zero.
Guessing ==
    /\ pc \notin {"sliderDone", "sliderCheck", "end", "returned", "panicked"} => puzzle = NoPuzzle
    /\ pc \in {"sliderDone", "sliderCheck"} => puzzle /= NoPuzzle
    /\ puzzle = NoPuzzle => rejected = 0
    /\ puzzle /= NoPuzzle => rejected <= Limit

LEMMA LimitTyped ==
    ASSUME TypeOK, Puzzled
    PROVE  /\ Limit \in Nat /\ Limit <= AttemptsOf(puzzle.steps)
           /\ Limit <= CandidateCount(puzzle.steps)
  BY PuzzleScores DEF Limit

LEMMA FailGuessing ==
    Guessing /\ Fail => Guessing'
  BY DEF Guessing, Fail

LEMMA SolvingFailsGuessing ==
    ASSUME NEW mentionsBot \in BOOLEAN
    PROVE  Guessing /\ SolvingFails(mentionsBot) => Guessing'
<1>1. SolvingFails(mentionsBot) => Fail \/ Change
  BY DEF SolvingFails, Change
<1> QED
  BY <1>1, FailGuessing DEF Guessing, Change

LEMMA NewPuzzleGuessing ==
    ASSUME TypeOK', rejected = 0, PuzzleArrives
    PROVE  Guessing'
<1>1. ASSUME puzzle' /= NoPuzzle PROVE 0 <= Limit'
  <2>1. /\ puzzle'.steps \in Steps /\ Splits(puzzle'.steps)
    BY <1>1 DEF TypeOK, IsPuzzle
  <2>2. CandidateCount(puzzle'.steps) \in Nat /\ AttemptsOf(puzzle'.steps) \in Nat
    BY <2>1, CandidateCountTyped, AttemptsTyped
  <2> QED
    BY <2>2 DEF Limit
<1>2. puzzle' /= NoPuzzle
  <2>1. \A s, w, c : [steps |-> s, width |-> w, scores |-> c] /= NoPuzzle
    BY DEF NoPuzzle
  <2> QED
    BY <2>1 DEF PuzzleArrives
<1>3. pc' = "sliderDone" /\ rejected' = 0
  BY DEF PuzzleArrives
<1> QED
  BY <1>1, <1>2, <1>3 DEF Guessing

LEMMA GuessingStep ==
    TypeOK /\ TypeOK' /\ Guessing /\ [Next]_vars => Guessing'
<1> SUFFICES ASSUME TypeOK, TypeOK', Guessing, [Next]_vars PROVE Guessing'
  OBVIOUS
<1> DEFINE Keeps == UNCHANGED <<puzzle, rejected>>
<1>0. ASSUME Keeps,
             \/ /\ pc \notin {"sliderDone", "sliderCheck", "end", "returned", "panicked"}
                /\ pc' \notin {"sliderDone", "sliderCheck"}
             \/ pc' \in {"end", "returned", "panicked"}
             \/ pc = "sliderDone" /\ pc' = "sliderCheck"
      PROVE  Guessing'
  BY <1>0 DEF Guessing, Limit
<1>1. CASE Begin \/ NoSession
  BY <1>0, <1>1 DEF Begin, NoSession
<1>2. CASE Retry \/ GiveUp
  BY <1>0, <1>2 DEF Retry, GiveUp
<1>3. CASE PageReady \/ SettingsDone \/ DebugInfoReady
  BY <1>0, <1>3 DEF PageReady, SettingsDone, DebugInfoReady
<1>4. CASE PrepareFails \/ UnknownType
  BY <1>4, FailGuessing DEF PrepareFails, UnknownType
<1>5. CASE ChooseSolver \/ BoxDone
  BY <1>0, <1>5 DEF ChooseSolver, BoxDone
<1>6. CASE SolverRequestFails
  BY <1>6, SolvingFailsGuessing DEF SolverRequestFails, SomehowFails
<1>7. CASE EndSession
  BY <1>0, <1>7 DEF EndSession
<1>8. ASSUME Solved PROVE Guessing'
  BY <1>0, <1>8 DEF Solved
<1>9. CASE BoxAnswer
  BY <1>8, <1>9, SolvingFailsGuessing DEF BoxAnswer, SomehowFails
<1>10. CASE PuzzleArrives
  <2>1. rejected = 0
    BY <1>10 DEF PuzzleArrives, Guessing
  <2> QED
    BY <1>10, <2>1, NewPuzzleGuessing
<1>11. CASE PuzzlePanics
  BY <1>0, <1>11 DEF PuzzlePanics
<1>12. CASE SliderDone
  BY <1>0, <1>12 DEF SliderDone
<1>13. CASE SliderAnswer
  <2>1. CASE SolvingFails(FALSE)
    BY <2>1, SolvingFailsGuessing
  <2>2. CASE /\ rejected' = rejected + 1
             /\ UNCHANGED <<pc, attempt, showType, sliderKnown, puzzle, token, ended>>
    <3>1. rejected < Limit /\ pc = "sliderCheck" /\ Limit' = Limit
      BY <1>13, <2>2 DEF SliderAnswer, Limit
    <3>2. puzzle /= NoPuzzle
      BY <3>1 DEF Guessing
    <3>3. Limit \in Nat /\ rejected \in Nat
      BY <3>2, LimitTyped DEF Puzzled, TypeOK
    <3> QED
      BY <2>2, <3>1, <3>2, <3>3 DEF Guessing
  <2> QED
    BY <1>8, <1>13, <2>1, <2>2 DEF SliderAnswer
<1>14. CASE SliderExhausted
  BY <1>14, SolvingFailsGuessing DEF SliderExhausted
<1>15. CASE UNCHANGED vars
  BY <1>15 DEF vars, Guessing, Limit
<1> QED
  BY <1>1, <1>2, <1>3, <1>4, <1>5, <1>6, <1>7, <1>9, <1>10, <1>11, <1>12, <1>13, <1>14,
     <1>15 DEF Next, Step, Over

\* The guesses sent for a puzzle are different ones and no more than the server
\* allows, whatever its number of candidates and their scores.
THEOREM GuessesCounted == Spec => []GuessesWithinLimit
<1>1. Init => Guessing
  BY DEF Init, Guessing
<1>2. TypeOK /\ Guessing => GuessesWithinLimit
  <2> SUFFICES ASSUME TypeOK, Guessing, Puzzled PROVE GuessesWithinLimit
    BY DEF GuessesWithinLimit
  <2>1. rejected \in Nat /\ rejected <= Limit
    BY DEF TypeOK, Guessing, Puzzled
  <2>2. /\ rejected <= AttemptsOf(puzzle.steps)
        /\ rejected \in 0 .. CandidateCount(puzzle.steps)
    BY <2>1, LimitTyped, PuzzleScores
  <2>3. Cardinality(Tried) = rejected
    BY <2>2, PuzzleScores, FirstOnes DEF Tried
  <2> QED
    BY <2>2, <2>3 DEF GuessesWithinLimit
<1> QED
  BY <1>1, <1>2, GuessingStep, TypeCorrect, PTL DEF Spec

\* A candidate that the scores call better is tried first.
LEMMA BetterIsBefore ==
    ASSUME NEW scores, NEW n, AreScores(scores, n),
           NEW c \in Candidates(scores), NEW d \in Candidates(scores), Better(scores, c, d)
    PROVE  Before(scores, c, d)
<1> DEFINE C == Candidates(scores)
           S == Stage2(scores)
<1>1. /\ C \in SUBSET Int /\ IsFiniteSet(C) /\ Cardinality(C) \in Nat
      /\ S \in SUBSET C /\ IsFiniteSet(S) /\ S \in SUBSET Int
      /\ Cardinality(S) \in Nat /\ Cardinality(S) <= Stage2Count
  BY CandidatesFinite, Stage2Size, SliderPuzzleAssumption
<1>2. \A x \in C : scores.luma[x] \in Int /\ scores.rgb[x] \in Int /\ scores.text[x] \in Int
  BY CandidatesFinite
<1>3. ASSUME NEW x \in C
      PROVE  /\ LumaRank(scores, x) \in 0 .. Cardinality(C) - 1
             /\ \A y \in C : scores.luma[x] < scores.luma[y]
                               => LumaRank(scores, x) < LumaRank(scores, y)
  BY <1>1, <1>2, RankFollowsScore DEF LumaRank
<1>4. ASSUME NEW x \in S
      PROVE  /\ RankIn(S, scores.rgb, x) \in 0 .. Cardinality(S) - 1
             /\ \A y \in S : scores.rgb[x] < scores.rgb[y]
                               => RankIn(S, scores.rgb, x) < RankIn(S, scores.rgb, y)
             /\ RankIn(S, scores.text, x) \in 0 .. Cardinality(S) - 1
             /\ \A y \in S : scores.text[x] < scores.text[y]
                               => RankIn(S, scores.text, x) < RankIn(S, scores.text, y)
  BY <1>1, <1>2, RankFollowsScore
<1>5. \A x \in C : ConsensusRank(scores, x) =
          LumaRank(scores, x)
            + IF x \in S THEN RankIn(S, scores.rgb, x) + RankIn(S, scores.text, x)
              ELSE Cardinality(C)
  BY DEF ConsensusRank
<1>6. \A x \in C : x \in S <=> LumaRank(scores, x) < Stage2Count
  BY DEF Stage2
<1>7. ConsensusRank(scores, c) < ConsensusRank(scores, d)
  <2>1. CASE /\ c \in S /\ d \in S
             /\ scores.luma[c] < scores.luma[d]
             /\ scores.rgb[c] < scores.rgb[d] /\ scores.text[c] < scores.text[d]
    BY <1>1, <1>3, <1>4, <1>5, <2>1
  <2>2. CASE c \notin S /\ d \notin S /\ scores.luma[c] < scores.luma[d]
    BY <1>1, <1>3, <1>5, <2>2
  <2>3. CASE c \in S /\ d \notin S /\ Cardinality(C) >= 2 * Stage2Count - 2
    <3>1. /\ LumaRank(scores, c) \in Nat /\ LumaRank(scores, c) <= Stage2Count - 1
          /\ LumaRank(scores, d) \in Nat /\ LumaRank(scores, d) >= Stage2Count
      BY <1>1, <1>3, <1>6, <2>3, SliderPuzzleAssumption
    <3>2. /\ RankIn(S, scores.rgb, c) \in Nat /\ RankIn(S, scores.rgb, c) <= Stage2Count - 1
          /\ RankIn(S, scores.text, c) \in Nat /\ RankIn(S, scores.text, c) <= Stage2Count - 1
      BY <1>1, <1>4, <2>3, SliderPuzzleAssumption
    <3>3. ConsensusRank(scores, d) = LumaRank(scores, d) + Cardinality(C)
      BY <1>5, <2>3
    <3>4. ConsensusRank(scores, c)
            = LumaRank(scores, c) + (RankIn(S, scores.rgb, c) + RankIn(S, scores.text, c))
      BY <1>5, <2>3
    <3> QED
      BY <1>1, <2>3, <3>1, <3>2, <3>3, <3>4, SliderPuzzleAssumption
  <2> QED
    BY <2>1, <2>2, <2>3 DEF Better
<1> QED
  BY <1>7 DEF Before

\* No check is spent on a guess while a better one is left, for any number of
\* candidates and any size of the second stage.
THEOREM BestGuessesFirst == Spec => []BetterGuessesFirst
<1>1. TypeOK => BetterGuessesFirst
  <2> SUFFICES ASSUME TypeOK, Puzzled,
                      NEW c \in Candidates(puzzle.scores), NEW d \in Candidates(puzzle.scores),
                      d \in Tried, Better(puzzle.scores, c, d)
               PROVE  c \in Tried
    BY DEF BetterGuessesFirst
  <2>1. AreScores(puzzle.scores, CandidateCount(puzzle.steps))
    BY PuzzleScores
  <2>2. Before(puzzle.scores, c, d)
    BY <2>1, BetterIsBefore
  <2>3. /\ Position(puzzle.scores, c) \in Nat /\ Position(puzzle.scores, d) \in Nat
        /\ Position(puzzle.scores, c) < Position(puzzle.scores, d)
    BY <2>1, <2>2, BeforeIsEarlier
  <2>4. rejected \in Nat /\ Position(puzzle.scores, d) < rejected
    BY DEF TypeOK, Tried
  <2>5. Position(puzzle.scores, c) < rejected
    BY <2>3, <2>4
  <2> QED
    BY <2>5 DEF Tried
<1> QED
  BY <1>1, TypeCorrect, PTL

-----------------------------------------------------------------------------
(* The way of a call. *)

\* The attempts are counted from nothing, and the slider is being solved only under
\* its own show type.
OnTheWay ==
    /\ pc = "idle" => attempt = 0
    /\ pc \in {"content", "sliderDone", "sliderCheck"} => showType = "slider"

LEMMA OnTheWayKept == Spec => []OnTheWay
<1>1. Init => OnTheWay
  BY DEF Init, OnTheWay
<1>2. OnTheWay /\ [Next]_vars => OnTheWay'
  <2> SUFFICES ASSUME OnTheWay, [Next]_vars PROVE OnTheWay'
    OBVIOUS
  <2>1. \A mentionsBot : SolvingFails(mentionsBot) => OnTheWay'
    BY DEF SolvingFails, Fail, OnTheWay
  <2>2. Fail => OnTheWay'
    BY DEF Fail, OnTheWay
  <2>3. Solved => OnTheWay'
    BY DEF Solved, OnTheWay
  <2>4. CASE Begin \/ NoSession \/ Retry \/ GiveUp
    BY <2>4 DEF Begin, NoSession, Retry, GiveUp, OnTheWay
  <2>5. CASE PageReady \/ SettingsDone \/ DebugInfoReady
    BY <2>5 DEF PageReady, SettingsDone, DebugInfoReady, OnTheWay
  <2>6. CASE PrepareFails \/ UnknownType
    BY <2>2, <2>6 DEF PrepareFails, UnknownType
  <2>7. CASE ChooseSolver
    BY <2>7 DEF ChooseSolver, OnTheWay
  <2>8. CASE SolverRequestFails
    BY <2>1, <2>8 DEF SolverRequestFails, SomehowFails
  <2>9. CASE EndSession \/ BoxDone
    BY <2>9 DEF EndSession, BoxDone, OnTheWay
  <2>10. CASE BoxAnswer
    BY <2>1, <2>3, <2>10 DEF BoxAnswer, SomehowFails
  <2>11. CASE PuzzleArrives \/ PuzzlePanics \/ SliderDone
    BY <2>11 DEF PuzzleArrives, PuzzlePanics, SliderDone, OnTheWay
  <2>12. CASE SliderAnswer
    <3>1. CASE UNCHANGED <<pc, attempt, showType>>
      BY <3>1 DEF OnTheWay
    <3> QED
      BY <2>1, <2>3, <2>12, <3>1 DEF SliderAnswer
  <2>13. CASE SliderExhausted
    BY <2>1, <2>13 DEF SliderExhausted
  <2>14. CASE UNCHANGED vars
    BY <2>14 DEF vars, OnTheWay
  <2> QED
    BY <2>4, <2>5, <2>6, <2>7, <2>8, <2>9, <2>10, <2>11, <2>12, <2>13, <2>14
       DEF Next, Step, Over
<1> QED
  BY <1>1, <1>2, PTL DEF Spec

\* What a step of GoesForward may do.
Forward ==
    \/ attempt' > attempt
    \/ attempt' = attempt /\ Place' > Place
    \/ /\ pc = "sliderCheck" /\ UNCHANGED <<pc, attempt, showType, puzzle>>
       /\ rejected < Limit /\ rejected' = rejected + 1

LEMMA FailForward ==
    ASSUME pc \in Prepare \cup Solving, Fail
    PROVE  Forward
<1>1. Place \in Int /\ Place < 11
  BY DEF Prepare, Solving, Place, PlaceOf
<1>2. Place' = 11 /\ attempt' = attempt
  BY DEF Fail, Place, PlaceOf
<1> QED
  BY <1>1, <1>2 DEF Forward

LEMMA SolvedForward ==
    ASSUME pc \in Solving, Solved
    PROVE  Forward
<1>1. Place \in Int /\ Place < 12
  BY DEF Solving, Place, PlaceOf
<1>2. Place' = 12 /\ attempt' = attempt
  BY DEF Solved, Place, PlaceOf
<1> QED
  BY <1>1, <1>2 DEF Forward

\* A change to the slider leads on, too: it is made from the checkbox.
LEMMA SolvingFailsForward ==
    ASSUME OnTheWay, pc \in Solving \ {"solve"}, NEW mentionsBot, SolvingFails(mentionsBot)
    PROVE  Forward
<1>1. CASE Fail
  BY <1>1, FailForward
<1>2. CASE showType /= "slider" /\ pc' = "solve" /\ showType' = "slider" /\ attempt' = attempt
  <2>1. pc \in {"boxDone", "boxCheck"}
    BY <1>2 DEF Solving, OnTheWay
  <2>2. Place \in Int /\ Place < 7
    BY <2>1 DEF Place, PlaceOf
  <2>3. Place' = 7
    BY <1>2 DEF Place
  <2> QED
    BY <1>2, <2>2, <2>3 DEF Forward
<1> QED
  BY <1>1, <1>2 DEF SolvingFails

\* For any number of attempts, any puzzles and any answers a call goes forward; as
\* attempts and guesses are limited, it cannot go on for ever.
THEOREM CallGoesForward == Spec => GoesForward
<1>1. TypeOK /\ OnTheWay /\ Step => Forward
  <2> SUFFICES ASSUME TypeOK, OnTheWay, Step PROVE Forward
    OBVIOUS
  <2>1. attempt \in Nat
    BY CaptchaAssumption DEF TypeOK, Attempts
  <2>2. CASE Begin \/ Retry
    <3>1. attempt' > attempt
      BY <2>1, <2>2 DEF Begin, Retry, OnTheWay
    <3> QED
      BY <3>1 DEF Forward
  <2>3. CASE NoSession \/ GiveUp
    BY <2>3 DEF NoSession, GiveUp, Forward, Place, PlaceOf
  <2>4. CASE PageReady \/ SettingsDone \/ DebugInfoReady
    BY <2>4 DEF PageReady, SettingsDone, DebugInfoReady, Forward, Place, PlaceOf
  <2>5. CASE PrepareFails \/ UnknownType
    BY <2>5, FailForward DEF PrepareFails, UnknownType, Solving
  <2>6. CASE ChooseSolver
    BY <2>6 DEF ChooseSolver, Forward, Place, PlaceOf
  <2>7. CASE SolverRequestFails
    BY <2>7, SolvingFailsForward DEF SolverRequestFails, SomehowFails
  <2>8. CASE EndSession \/ BoxDone
    BY <2>8 DEF EndSession, BoxDone, Forward, Place, PlaceOf
  <2>9. CASE BoxAnswer
    <3>1. pc \in Solving \ {"solve"}
      BY <2>9 DEF BoxAnswer, Solving
    <3> QED
      BY <2>9, <3>1, SolvedForward, SolvingFailsForward DEF BoxAnswer, SomehowFails
  <2>10. CASE PuzzleArrives \/ PuzzlePanics \/ SliderDone
    BY <2>10 DEF PuzzleArrives, PuzzlePanics, SliderDone, Forward, Place, PlaceOf
  <2>11. CASE SliderAnswer
    <3>1. pc \in Solving \ {"solve"}
      BY <2>11 DEF SliderAnswer, Solving
    <3>2. CASE rejected' = rejected + 1 /\ UNCHANGED <<pc, attempt, showType, puzzle>>
      BY <2>11, <3>2 DEF SliderAnswer, Forward
    <3>3. CASE Solved
      BY <3>1, <3>3, SolvedForward
    <3>4. CASE SolvingFails(FALSE)
      BY <3>1, <3>4, SolvingFailsForward
    <3> QED
      BY <2>11, <3>2, <3>3, <3>4 DEF SliderAnswer
  <2>12. CASE SliderExhausted
    <3>1. pc \in Solving \ {"solve"}
      BY <2>12 DEF SliderExhausted, Solving
    <3> QED
      BY <2>12, <3>1, SolvingFailsForward DEF SliderExhausted
  <2> QED
    BY <2>2, <2>3, <2>4, <2>5, <2>6, <2>7, <2>8, <2>9, <2>10, <2>11, <2>12 DEF Step
<1>2. TypeOK /\ OnTheWay /\ [Next]_vars => [Forward]_vars
  BY <1>1 DEF Next, Over
<1>3. Forward =>
        \/ attempt' > attempt
        \/ attempt' = attempt /\ Place' > Place
        \/ /\ pc = "sliderCheck" /\ UNCHANGED <<pc, attempt, showType, puzzle>>
           /\ rejected < Limit /\ rejected' = rejected + 1
  BY DEF Forward
<1> QED
  BY <1>2, <1>3, TypeCorrect, OnTheWayKept, PTL DEF Spec, GoesForward

=============================================================================
