CONSTANTS
    w1 = w1
    w2 = w2
    Windows = {w1, w2}
    PrefCount = 1
    Texts = {"t1"}
    MaxTargets = 2
SYMMETRY Symmetry
SPECIFICATION Spec
INVARIANTS
    ListFollowsOwnWrites
    PrefsFollowOwnWrites
    CursorOnRow
PROPERTIES
    EditKeepsEnabled
CHECK_DEADLOCK FALSE
