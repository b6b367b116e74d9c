------------------------------- MODULE Captcha -------------------------------
(***************************************************************************)
(* The solver of captcha_v2: one call of solveVkCaptchaV2Attempts, its     *)
(* attempts, the two ways of solving within an attempt, and the change     *)
(* from the first to the second. The caller supplies the HTTP client; the  *)
(* server may answer anything, and each request may fail.                  *)
(*                                                                         *)
(* A failure in the solving of a captcha is a message, and the solver      *)
(* changes to the slider if the message contains "bot". That is so for the *)
(* status "bot", and also for messages that quote the address of a request *)
(* to captchaNotRobot or the answer itself, which they may do or not.      *)
(***************************************************************************)
EXTENDS SliderPuzzle

CONSTANTS
    MaxAttempts,  \* max_attempts (10)
    Payloads,     \* the "steps" the server may send
    Widths,       \* the widths of the images it may send
    ScoreRange    \* scores that matching the edges may yield

ASSUME CaptchaAssumption ==
    /\ MaxAttempts \in Nat
    /\ Payloads \subseteq Seq(Int)
    /\ Widths \subseteq Nat
    /\ ScoreRange \subseteq Nat /\ 0 \in ScoreRange

VARIABLES
    pc,           \* the request the call waits for, or where else it is
    attempt,      \* the number of the attempt
    showType,     \* show_type
    sliderKnown,  \* slider_settings is not empty
    puzzle,       \* the puzzle being solved, or NoPuzzle
    rejected,     \* how many guesses the server has rejected
    token,        \* the server granted a success token and it was taken
    ended         \* endSession has been requested

vars == <<pc, attempt, showType, sliderKnown, puzzle, rejected, token, ended>>

Attempts   == IF MaxAttempts > 1 THEN MaxAttempts ELSE 1
ShowTypes  == {"", "checkbox", "slider", "unknown"}
Statuses   == {"ok", "bot", "error_limit", "other"}
Prepare    == {"page", "settings", "debug"}
Solving    == {"solve", "boxDone", "boxCheck", "content", "sliderDone", "sliderCheck"}
Pcs        == {"idle", "backoff", "end", "returned", "panicked"} \cup Prepare \cup Solving
NoPuzzle   == [width |-> 0]

Steps == {AsUsize(p) : p \in Payloads}

\* What matching the edges of the candidates' images may yield. Equal images have
\* equal scores, a single tile has no seams, and rgb and text are computed only
\* for the second stage.
ScoresOf(steps) ==
    LET C == 1 .. CandidateCount(steps)
        image == [c \in C |-> Mapping(steps[1], ActiveSwaps(steps, c))]
        same(c, d) == steps[1] > 1 /\ image[c] = image[d]
    IN  {s \in [luma : [C -> ScoreRange], rgb : [C -> ScoreRange], text : [C -> ScoreRange]] :
            /\ \A c \in C \ Stage2(s) : s.rgb[c] = 0 /\ s.text[c] = 0
            /\ \A c, d \in C : same(c, d) => s.luma[c] = s.luma[d]
            /\ \A c, d \in Stage2(s) :
                  same(c, d) => s.rgb[c] = s.rgb[d] /\ s.text[c] = s.text[d]
            /\ steps[1] = 1 => \A c \in C : {s.luma[c], s.rgb[c], s.text[c]} = {0}}

IsPuzzle(p) ==
    /\ p.steps \in Steps /\ Splits(p.steps)
    /\ p.width \in Widths
    /\ p.scores \in ScoresOf(p.steps)

TypeOK ==
    /\ pc \in Pcs
    /\ attempt \in 0 .. Attempts
    /\ showType \in ShowTypes
    /\ sliderKnown \in BOOLEAN
    /\ puzzle = NoPuzzle \/ IsPuzzle(puzzle)
    /\ rejected \in Nat
    /\ token \in BOOLEAN /\ ended \in BOOLEAN

Init ==
    /\ pc = "idle"
    /\ attempt = 0
    /\ showType = ""
    /\ sliderKnown = FALSE
    /\ puzzle = NoPuzzle
    /\ rejected = 0
    /\ token = FALSE /\ ended = FALSE

-----------------------------------------------------------------------------
(* solveVkCaptchaV2Attempts *)

Begin ==
    /\ pc = "idle"
    /\ pc' = "page"
    /\ attempt' = 1
    /\ UNCHANGED <<showType, sliderKnown, puzzle, rejected, token, ended>>

\* There is no session token in the redirect_uri.
NoSession ==
    /\ pc = "idle"
    /\ pc' = "returned"
    /\ UNCHANGED <<attempt, showType, sliderKnown, puzzle, rejected, token, ended>>

\* The attempt failed; the call sleeps, also after the last attempt.
Fail ==
    /\ pc' = "backoff"
    /\ puzzle' = NoPuzzle
    /\ rejected' = 0
    /\ UNCHANGED <<attempt, showType, sliderKnown, token, ended>>

\* Fault: the bound of the loop is off by one.
Retry_OneMore ==
    /\ pc = "backoff"
    /\ attempt <= Attempts
    /\ pc' = "page"
    /\ attempt' = attempt + 1
    /\ UNCHANGED <<showType, sliderKnown, puzzle, rejected, token, ended>>

Retry ==
    /\ pc = "backoff"
    /\ attempt < Attempts
    /\ pc' = "page"
    /\ attempt' = attempt + 1
    /\ UNCHANGED <<showType, sliderKnown, puzzle, rejected, token, ended>>

GiveUp ==
    /\ pc = "backoff"
    /\ attempt = Attempts
    /\ pc' = "returned"
    /\ UNCHANGED <<attempt, showType, sliderKnown, puzzle, rejected, token, ended>>

-----------------------------------------------------------------------------
(* solve_vk_captcha_once, up to its loop *)

\* The page is there, and with it the PoW, which is computed at once.
PageReady ==
    /\ pc = "page"
    /\ pc' = "settings"
    /\ showType' \in ShowTypes
    /\ sliderKnown' \in BOOLEAN
    /\ UNCHANGED <<attempt, puzzle, rejected, token, ended>>

SettingsDone ==
    /\ pc = "settings"
    /\ pc' = "debug"
    /\ UNCHANGED <<attempt, showType, sliderKnown, puzzle, rejected, token, ended>>

DebugInfoReady ==
    /\ pc = "debug"
    /\ pc' = "solve"
    /\ UNCHANGED <<attempt, showType, sliderKnown, puzzle, rejected, token, ended>>

\* A request fails, the page cannot be parsed, it names no PoW input or no
\* positive difficulty, no nonce is found, or the script has no debug_info.
PrepareFails ==
    /\ pc \in Prepare
    /\ Fail

-----------------------------------------------------------------------------
(* The loop of solve_vk_captcha_once *)

\* Fault: the change is made again when the slider itself was rejected.
SolvingFails_Again(mentionsBot) ==
    \/ /\ mentionsBot /\ sliderKnown
       /\ pc' = "solve" /\ showType' = "slider"
       /\ puzzle' = NoPuzzle /\ rejected' = 0
       /\ UNCHANGED <<attempt, sliderKnown, token, ended>>
    \/ /\ ~(mentionsBot /\ sliderKnown)
       /\ Fail

\* The first failure that mentions "bot" changes to the slider, if the page had
\* settings for it; any other ends the attempt.
SolvingFails(mentionsBot) ==
    LET change == mentionsBot /\ showType /= "slider" /\ sliderKnown
    IN  \/ /\ change
           /\ pc' = "solve" /\ showType' = "slider"
           /\ puzzle' = NoPuzzle /\ rejected' = 0
           /\ UNCHANGED <<attempt, sliderKnown, token, ended>>
        \/ ~change /\ Fail

\* The message of the error may or may not contain "bot".
SomehowFails == \E mentionsBot \in BOOLEAN : SolvingFails(mentionsBot)

ChooseSolver ==
    /\ pc = "solve"
    /\ showType /= "unknown"
    /\ pc' = IF showType = "slider" THEN "content" ELSE "boxDone"
    /\ UNCHANGED <<attempt, showType, sliderKnown, puzzle, rejected, token, ended>>

UnknownType ==
    /\ pc = "solve"
    /\ showType = "unknown"
    /\ Fail

Solved ==
    /\ pc' = "end"
    /\ token' = TRUE
    /\ UNCHANGED <<attempt, showType, sliderKnown, puzzle, rejected, ended>>

\* endSession is requested, with or without success, and the token returned.
EndSession ==
    /\ pc = "end"
    /\ pc' = "returned"
    /\ ended' = TRUE
    /\ UNCHANGED <<attempt, showType, sliderKnown, puzzle, rejected, token>>

\* A request of the solver in use fails, or its answer cannot be parsed, as for a
\* puzzle whose steps splitSliderStepsV2 refuses.
SolverRequestFails ==
    /\ pc \in Solving \ {"solve"}
    /\ SomehowFails

-----------------------------------------------------------------------------
(* solveCheckboxCaptcha *)

BoxDone ==
    /\ pc = "boxDone"
    /\ pc' = "boxCheck"
    /\ UNCHANGED <<attempt, showType, sliderKnown, puzzle, rejected, token, ended>>

\* A show type other than the checkbox counts before the status does, even if the
\* answer grants a token. The error quotes a show type or a status that it rejects,
\* as the server spelt it: "BOT" is the status "bot" and does not contain "bot", and
\* what the code does not know may contain it.
BoxAnswer ==
    /\ pc = "boxCheck"
    /\ \E status \in Statuses, asks \in ShowTypes, granted \in BOOLEAN :
          \/ asks = "slider" /\ SolvingFails(FALSE)
          \/ asks = "unknown" /\ SomehowFails
          \/ /\ asks \in {"", "checkbox"}
             /\ \/ status = "ok" /\ granted /\ Solved
                \/ status = "ok" /\ ~granted /\ SolvingFails(FALSE)
                \/ status = "error_limit" /\ SolvingFails(FALSE)
                \/ status \in {"bot", "other"} /\ SomehowFails

-----------------------------------------------------------------------------
(* solveSliderCaptcha *)

\* Fault: the number of checks the server allows is not looked at.
Limit_AllGuesses == CandidateCount(puzzle.steps)

Limit ==
    IF AttemptsOf(puzzle.steps) < CandidateCount(puzzle.steps)
    THEN AttemptsOf(puzzle.steps) ELSE CandidateCount(puzzle.steps)

\* Scoring a stray swap indexes an empty mapping, except in a grid of one tile,
\* which has no seams.
ScoringPanics(steps) == steps[1] > 1 /\ StrayIn(steps[1], SwapsOf(steps))

\* A puzzle arrives, is parsed, and its candidates are ranked.
PuzzleArrives ==
    /\ pc = "content"
    /\ \E steps \in Steps, w \in Widths :
          /\ Splits(steps)
          /\ ~ScoringPanics(steps)
          /\ \E scores \in ScoresOf(steps) :
                puzzle' = [steps |-> steps, width |-> w, scores |-> scores]
    /\ pc' = "sliderDone"
    /\ UNCHANGED <<attempt, showType, sliderKnown, rejected, token, ended>>

\* The scoring panics, and with it the task that called the solver. An image with
\* fewer pixels than tiles may do that, too.
PuzzlePanics ==
    /\ pc = "content"
    /\ \E steps \in Steps, w \in Widths :
          Splits(steps) /\ (ScoringPanics(steps) \/ w < steps[1])
    /\ pc' = "panicked"
    /\ UNCHANGED <<attempt, showType, sliderKnown, puzzle, rejected, token, ended>>

SliderDone ==
    /\ pc = "sliderDone"
    /\ pc' = "sliderCheck"
    /\ UNCHANGED <<attempt, showType, sliderKnown, puzzle, rejected, token, ended>>

\* The next guess in order is checked. Every status but the three that end the
\* solving, "bot" included, leads on to the guess after it.
SliderAnswer ==
    /\ pc = "sliderCheck"
    /\ rejected < Limit
    /\ \E status \in Statuses, granted \in BOOLEAN :
          \/ status = "ok" /\ granted /\ Solved
          \/ (status = "error_limit" \/ (status = "ok" /\ ~granted)) /\ SolvingFails(FALSE)
          \/ /\ status \in {"bot", "other"}
             /\ rejected' = rejected + 1
             /\ UNCHANGED <<pc, attempt, showType, sliderKnown, puzzle, token, ended>>

SliderExhausted ==
    /\ pc = "sliderCheck"
    /\ rejected = Limit
    /\ SolvingFails(FALSE)

-----------------------------------------------------------------------------
Step ==
    \/ Begin \/ NoSession \/ Retry \/ GiveUp
    \/ PageReady \/ SettingsDone \/ DebugInfoReady \/ PrepareFails
    \/ ChooseSolver \/ UnknownType \/ SolverRequestFails \/ EndSession
    \/ BoxDone \/ BoxAnswer
    \/ PuzzleArrives \/ PuzzlePanics \/ SliderDone \/ SliderAnswer \/ SliderExhausted

\* The call is over.
Over == pc \in {"returned", "panicked"} /\ UNCHANGED vars

Next == Step \/ Over

Spec == Init /\ [][Next]_vars

\* Every request ends, with an answer or an error: the client that the caller
\* supplies has a timeout, as those of creds_vkcalls have.
FairSpec == Spec /\ WF_vars(Step)

-----------------------------------------------------------------------------
(* Properties. *)

Puzzled == puzzle /= NoPuzzle

\* The mapping of every candidate shows each tile of the image exactly once, also
\* when swaps overlap or repeat or swap a tile with itself; stray ones excepted.
EveryGuessIsAPermutation ==
    Puzzled /\ ~StrayIn(puzzle.steps[1], SwapsOf(puzzle.steps)) =>
        \A c \in Candidates(puzzle.scores) :
            LET m == Mapping(puzzle.steps[1], ActiveSwaps(puzzle.steps, c))
            IN  {m[t] : t \in DOMAIN m} = Tiles(puzzle.steps[1])

\* A seam is scored with pixels of the tiles that meet there, and of no others,
\* although tiles differ in width when the image's is no multiple of the grid's:
\* the sampling neither leaves the source tile nor the image.
SamplesOwnTile ==
    Puzzled /\ puzzle.width >= puzzle.steps[1] =>
        LET size == puzzle.steps[1]
            w == puzzle.width
        IN  \A dst, src \in 0 .. size - 1 :
                \A k \in 0 .. TileWidth(w, size, dst) - 1 :
                    Sample(w, size, dst, src, k) \in Edge(w, size, src) .. Edge(w, size, src + 1) - 1

\* The guesses the server has rejected.
Tried == {c \in Candidates(puzzle.scores) : Position(puzzle.scores, c) < rejected}

\* No guess is sent twice, whatever scores are equal, and never more guesses than
\* the server said it would look at.
GuessesWithinLimit ==
    Puzzled => /\ Cardinality(Tried) = rejected
               /\ rejected <= AttemptsOf(puzzle.steps)

\* Scores say that c is the better guess: both were looked at twice and c is better
\* each time; neither was and c is better in luma; or only c was, and there are
\* so many candidates that the second look cannot cost it its advantage.
Better(scores, c, d) ==
    LET S == Stage2(scores)
    IN  \/ /\ c \in S /\ d \in S
           /\ scores.luma[c] < scores.luma[d]
           /\ scores.rgb[c] < scores.rgb[d] /\ scores.text[c] < scores.text[d]
        \/ c \notin S /\ d \notin S /\ scores.luma[c] < scores.luma[d]
        \/ /\ c \in S /\ d \notin S
           /\ Cardinality(Candidates(scores)) >= 2 * Stage2Count - 2

\* The few checks go to the best guesses: none is spent on a guess while a better
\* one is left.
BetterGuessesFirst ==
    Puzzled => \A c, d \in Candidates(puzzle.scores) :
                   d \in Tried /\ Better(puzzle.scores, c, d) => c \in Tried

\* The places of an attempt in the order in which it may come to them. With the
\* change to the slider it begins to solve anew, behind the checkbox.
PlaceOf == [idle |-> 0, page |-> 1, settings |-> 2, debug |-> 3, solve |-> 4,
            boxDone |-> 5, boxCheck |-> 6, content |-> 8, sliderDone |-> 9,
            sliderCheck |-> 10, backoff |-> 11, end |-> 12, returned |-> 13, panicked |-> 13]

Place == IF pc = "solve" /\ showType = "slider" THEN 7 ELSE PlaceOf[pc]

\* No step of a call leads back, whichever of its loops it is in: it comes to a
\* later attempt, or to a later place of the same one, or has one guess less to
\* try. So a captcha is changed to the slider once in an attempt and never from it.
GoesForward ==
    [][\/ attempt' > attempt
       \/ attempt' = attempt /\ Place' > Place
       \/ /\ pc = "sliderCheck" /\ UNCHANGED <<pc, attempt, showType, puzzle>>
          /\ rejected < Limit /\ rejected' = rejected + 1]_vars

\* A call ends, although an attempt may change its solver and start again: with a
\* token after the server's session was ended, with an error and without ending
\* it, or by the panic of a puzzle that makes no sense.
CallReturns ==
    pc = "page" ~> pc = "panicked" \/ (pc = "returned" /\ (ended <=> token))

=============================================================================
