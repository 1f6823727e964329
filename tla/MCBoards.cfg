SPECIFICATION Spec
CONSTANTS
    Puzzles <- MCPuzzles
    DigitCeiling = 9
    NodeBudget = 647
    Seeds <- MCSeeds
    Requests <- MCRequests
    HighestDigit = 9
    MaxCageCells = 4
    GivenCells = 2
    Vocabulary <- MCVocabulary
    Filler <- MCFiller
    Authored <- MCAuthored
INVARIANTS
    VerdictIsRight
    BudgetOnlyWhenOpen
    OnlyUniquenessIsInDoubt
CHECK_DEADLOCK FALSE
