\* Two pages of one account sign in, open, renew, replace and log out.
SPECIFICATION FairSpec
CONSTANTS
    u1 = u1
    t1 = t1
    t2 = t2
    s1 = s1
    s2 = s2
    Users <- OneUser
    Tabs <- TwoTabs
    Owner <- Owners
    Sids <- TwoSids
    NoSid = NoSid
    NoUser = NoUser
    NoTab = NoTab
    LeaseSeconds = 1
    MaxOpens = 1
    MaxFailures = 1
    Window = 1
    MaxTime = 2
    MaxVersion = 2
INVARIANTS
    NoIndexConflict
    BurstBounded
PROPERTIES
    ReplacedNeverReturns
    OpenEnds
CHECK_DEADLOCK FALSE
