CONSTANTS
    a = a
    m = m
    n = n
    t1 = t1
    t2 = t2
    Users = {a, m}
    role <- SomeRoles
    Texts = {t1}
    MaxArticles = 1
    MaxPushes = 2
    Sessions = {a, m}
    owner <- OneEach
    NoArticle = NoArticle
SPECIFICATION Spec
INVARIANTS
    ConfirmDeletesTarget
CHECK_DEADLOCK FALSE
