CONSTANTS
    s1 = s1
    s2 = s2
    s3 = s3
    a = a
    b = b
    w1 = w1
    Sessions <- Pair
    Users = {a, b}
    owner <- TwoUsers
    Workers = {}
    Typists = {s1, s2}
    Droppers = {}
    Viewers = {}
    MaxSends = 1
SPECIFICATION FairSpec
PROPERTY
    EveryUpdateReturns
CHECK_DEADLOCK FALSE
