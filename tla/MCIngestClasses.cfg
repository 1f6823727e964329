SPECIFICATION Spec
CONSTANTS
    Players = {p1, p2}
    Packs = {"k1", "k2", "gone"}
    Former = {"gone"}
    Items <- MCItems
    Sessions = {1, 2, 3}
    Requests = {r1, r2}
    Answers <- MCAnswers
    Batches <- MCBatches
    PackOf <- MCPackOf
    SkillOf <- MCSkillOf
    StepOf <- MCStepOf
    NoStep = 0
    BatchMax = 3
    NoPlayer = NoPlayer
    Gone = Gone
    MaxFaults = 1
INVARIANTS ClassesKeepEveryGame
CHECK_DEADLOCK FALSE
