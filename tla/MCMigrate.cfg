SPECIFICATION FairSpec
CONSTANTS
    r1 = r1
    r2 = r2
    Runners = {r1, r2}
    Names = {1, 2, 3}
    Contents = {"a", "b"}
    Directories <- MCDirectories
    Raising <- MCRaising
    NoRunner = NoRunner
    NoFile = NoFile
    NoDirectory = NoDirectory
    MaxStarts = 5
INVARIANTS
    RecordedIsBuilt
PROPERTIES
    OnlyOntoItsOwnPast
    EveryRunEnds
CHECK_DEADLOCK FALSE
