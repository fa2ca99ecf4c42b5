CONSTANTS
    a = a
    b = b
    s1 = s1
    s2 = s2
    Sessions = {s1, s2}
    Users = {a, b}
    owner <- TwoUsers
    NoSession = NoSession
    InboxLimit = 2
    MaxMails = 3
    MaxCrashes = 1
SPECIFICATION Spec
INVARIANTS
    TypeOK
    ReadMeansOpened
    UnfiledInert
PROPERTIES
    ThreadsSpec
CHECK_DEADLOCK FALSE
