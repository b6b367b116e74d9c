---------------------------- MODULE SliderPuzzle ----------------------------
(***************************************************************************)
(* The slider puzzle of captcha_v2_slider: what the server's "steps" mean, *)
(* the candidates they describe and the order in which they are tried. A   *)
(* puzzle is an image cut into size x size tiles and a list of swaps of    *)
(* two tiles; candidate i is the image after the first i swaps.            *)
(*                                                                         *)
(* All operators are functions of their arguments. How well the edges of   *)
(* the tiles match is a score, a number; what it is computed from are the  *)
(* pixels that Sample picks.                                               *)
(***************************************************************************)
EXTENDS Integers, Sequences, FiniteSets

CONSTANTS
    Stage2Count,  \* how many candidates get a second look (12)
    UsizeMod      \* 2^64, the range of usize

ASSUME SliderPuzzleAssumption ==
    /\ Stage2Count \in Nat \ {0}
    /\ UsizeMod \in Nat \ {0}

-----------------------------------------------------------------------------
(* Steps and swaps. *)

\* parseSliderPuzzleV2 casts every number ("as usize"): a negative one becomes
\* very large.
AsUsize(numbers) == [i \in DOMAIN numbers |-> numbers[i] % UsizeMod]

\* A payload splitSliderStepsV2 takes: a size, at least one swap.
Splits(steps) ==
    /\ Len(steps) >= 3
    /\ steps[1] /= 0

\* The numbers between the size and the number of attempts, an even number.
SwapsOf(steps) == SubSeq(steps, 2, 1 + 2 * ((Len(steps) - 1) \div 2))

\* A last number without a partner is the number of attempts; 4 if there is
\* none or if it is zero.
AttemptsOf(steps) ==
    IF Len(steps) % 2 = 0 /\ steps[Len(steps)] /= 0 THEN steps[Len(steps)] ELSE 4

CandidateCount(steps) == Len(SwapsOf(steps)) \div 2

\* activeSwapsForIndexV2
ActiveSwaps(steps, index) == SubSeq(SwapsOf(steps), 1, 2 * index)

Tiles(size) == 0 .. size * size - 1

\* Some swap names a tile outside the grid: applySliderSwapsV2 fails.
StrayIn(size, swaps) == \E i \in DOMAIN swaps : swaps[i] \notin Tiles(size)

\* Fault: the second half of the swap reads what the first half wrote.
Swapped_InPlace(m, i, j) == [[m EXCEPT ![i] = m[j]] EXCEPT ![j] = m[j]]

Swapped(m, i, j) == [m EXCEPT ![i] = m[j], ![j] = m[i]]

\* applySliderSwapsV2: the tile that is shown at each place.
Mapping(size, swaps) ==
    LET after[k \in 0 .. Len(swaps) \div 2] ==
            IF k = 0 THEN [t \in Tiles(size) |-> t]
            ELSE Swapped(after[k - 1], swaps[2 * k - 1], swaps[2 * k])
    IN  after[Len(swaps) \div 2]

-----------------------------------------------------------------------------
(* rankSliderGuessesV2. A record of scores has three functions on the       *)
(* candidates: luma, rgb and text; the lower the better.                    *)

Candidates(scores) == DOMAIN scores.luma

\* How many members of C are before c: by their score, then by their index.
RankIn(C, score, c) ==
    Cardinality({d \in C : score[d] < score[c] \/ (score[d] = score[c] /\ d < c)})

LumaRank(scores, c) == RankIn(Candidates(scores), scores.luma, c)

\* The candidates with the best luma scores are scored for rgb and text, too.
Stage2(scores) == {c \in Candidates(scores) : LumaRank(scores, c) < Stage2Count}

\* Fault: a candidate that was not looked at twice gets no penalty.
ConsensusRank_NoPenalty(scores, c) ==
    LET S == Stage2(scores)
    IN  LumaRank(scores, c)
            + IF c \in S THEN RankIn(S, scores.rgb, c) + RankIn(S, scores.text, c) ELSE 0

ConsensusRank(scores, c) ==
    LET S == Stage2(scores)
    IN  LumaRank(scores, c)
            + IF c \in S THEN RankIn(S, scores.rgb, c) + RankIn(S, scores.text, c)
              ELSE Cardinality(Candidates(scores))

\* Whether c is tried before d: by consensus, then luma score, then index.
Before(scores, c, d) ==
    LET rc == ConsensusRank(scores, c)
        rd == ConsensusRank(scores, d)
    IN  \/ rc < rd
        \/ rc = rd /\ scores.luma[c] < scores.luma[d]
        \/ rc = rd /\ scores.luma[c] = scores.luma[d] /\ c < d

\* How many candidates are tried before c.
Position(scores, c) == Cardinality({d \in Candidates(scores) : Before(scores, d, c)})

-----------------------------------------------------------------------------
(* sliderTileRect and the sampling of pixels, in one dimension: both work   *)
(* on x and y alike.                                                        *)

\* Where the i-th tile of an image of width w begins.
Edge(w, size, i) == (i * w) \div size

TileWidth(w, size, i) == Edge(w, size, i + 1) - Edge(w, size, i)

\* Fault: the offset is scaled with the tile of the place, not of its source.
Sample_Unscaled(w, size, dst, src, k) == Edge(w, size, src) + k

\* sampleColorMappedV2: the pixel of tile src that is shown at offset k of place
\* dst. Tiles differ by a pixel when the width is no multiple of the size.
Sample(w, size, dst, src, k) ==
    Edge(w, size, src)
        + (k * TileWidth(w, size, src))
              \div (IF TileWidth(w, size, dst) > 1 THEN TileWidth(w, size, dst) ELSE 1)

=============================================================================
