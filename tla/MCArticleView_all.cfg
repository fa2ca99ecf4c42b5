CONSTANTS
    a = a
    m = m
    n = n
    t1 = t1
    t2 = t2
    Users = {a, m, n}
    role <- SomeRoles
    Texts = {t1, t2}
    MaxArticles = 2
    MaxPushes = 2
    Sessions = {a, m, n}
    owner <- OneEach
    NoArticle = NoArticle
SPECIFICATION Spec
INVARIANTS
    NoOrphanPushes
    ScoreMatchesPushes
    OpenListsComplete
    OpenViewsCurrent
PROPERTIES
    CommentsModeRespected
SYMMETRY Symmetry
CONSTRAINT
    TwoOrThree
CHECK_DEADLOCK FALSE
