SPECIFICATION ContentSpec
CONSTANTS
    Declarations <- MCDeclarations
    Trees <- MCTrees
    SeedMin = 0
    SeedMax = 5
    Drawn <- MCDrawn
    Explained = {"subtracted_in_reverse", "added_instead_of_subtracting"}
    Answers <- MCAnswers
    NoPlan = NoPlan
    Paths = {"starter"}
INVARIANTS
    ArtifactIsWhole
    GradesWhatWasAsked
    DiagnosisNamesTheSlip
