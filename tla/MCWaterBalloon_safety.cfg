CONSTANTS
    s1 = s1
    s2 = s2
    s3 = s3
    a = a
    b = b
    Sessions = {s1, s2, s3}
    Users = {a, b}
    owner <- TwoUsers
    NoUser = NoUser
    Typists = {s1}
    Readers = {s2}
    Droppers = {s2}
    Limit = 2
    MaxBalloons = 2
SPECIFICATION Spec
INVARIANTS
    NothingStranded
    LostOnlyToEndedSessions
PROPERTIES
    RegistrySpec
CHECK_DEADLOCK FALSE
