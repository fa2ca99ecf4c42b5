CONSTANTS
    s1 = s1
    s2 = s2
    s3 = s3
    a = a
    b = b
    w1 = w1
    Sessions <- Three
    Users = {a, b}
    owner <- TwoUsers
    Workers = {}
    Typists = {s1, s2}
    Droppers = {s2, s3}
    Viewers = {s2}
    MaxSends = 1
SPECIFICATION Spec
INVARIANTS
    RegistryMatchesLifecycle
    LockOnlyInsideCalls
    IterationIsStable
PROPERTIES
    RegistrySpec
CHECK_DEADLOCK FALSE
