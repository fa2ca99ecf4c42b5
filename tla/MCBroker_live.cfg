CONSTANTS
    s1 = s1
    s2 = s2
    s3 = s3
    a = a
    b = b
    w1 = w1
    Sessions <- Pair
    Users = {a, b}
    owner <- TwoUsers
    Workers = {w1}
    Typists = {s1}
    Droppers = {s1}
    Viewers = {s2}
    MaxSends = 1
SPECIFICATION FairSpec
PROPERTIES
    PresenceAnswered
    GoneSessionsLeave
    ShutdownReturns
CHECK_DEADLOCK FALSE
