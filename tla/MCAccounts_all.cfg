CONSTANTS
    s1 = s1
    s2 = s2
    Sessions = {s1, s2}
    Names = {"alice"}
    Passwords = {"p1", "p2"}
    DefaultAdminPassword = "p1"
    Bios = {"", "bio"}
    Locales = {"zh-TW", "en"}
    DefaultLocale = "en"
    NoUser = NoUser
    MaxWrites = 3
SPECIFICATION Spec
INVARIANTS
    AdminUnlessRaced
    CopyFollowsOwnWrites
PROPERTIES
    RotationRotates
    PasswordsSetByTheirOwner
CHECK_DEADLOCK FALSE
