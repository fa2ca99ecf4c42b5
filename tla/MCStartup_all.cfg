CONSTANTS
    N = 3
    BoardsVersion = 2
    Boards = {"Welcome", "Test"}
    File <- TwoFiles
    MaxPosts = 3
    MaxCrashes = 2
    MaxImports = 1
SPECIFICATION FairSpec
INVARIANTS
    MigratedInOrder
    SeededOnce
    SeededTogether
PROPERTIES
    EditsSurvive
    ServerComesUp
CHECK_DEADLOCK FALSE
