CONSTANTS
    s1 = s1
    s2 = s2
    s3 = s3
    a = a
    b = b
    Sessions = {s1, s2}
    Users = {a, b}
    owner <- TwoUsers
    NoUser = NoUser
    Typists = {s1}
    Readers = {}
    Droppers = {s2}
    Limit = 2
    MaxBalloons = 2
SPECIFICATION FairSpec
PROPERTY
    OnlineUserGetsBalloon
CHECK_DEADLOCK FALSE
