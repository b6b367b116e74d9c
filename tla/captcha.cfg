\* Two attempts; puzzles of up to three candidates, two of which get a second look.
SPECIFICATION FairSpec
CONSTANTS
    Stage2Count = 2
    UsizeMod = 256
    MaxAttempts = 2
    Payloads <- MCPayloads
    Widths = {2, 7}
    ScoreRange = {0, 1}
INVARIANTS
    TypeOK
    EveryGuessIsAPermutation
    SamplesOwnTile
    GuessesWithinLimit
    BetterGuessesFirst
PROPERTIES
    GoesForward
    CallReturns
