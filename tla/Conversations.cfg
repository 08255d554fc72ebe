\* Alice's list, while Bob starts conversations too, and news of two handlers overlaps.
CONSTANTS
    alice = alice
    bob = bob
    a1 = a1
    b1 = b1
    Users = {alice, bob}
    Clients = {a1, b1}
    Mounted = {a1}
    UserOf <- MCUserOf
    Movers = {bob}
    MaxConvs = 2
    MaxStarts = 2
    MaxNews = 2
    MayFail = TRUE
SPECIFICATION Spec
INVARIANTS
    TypeOK
    ListIsMine
    StartGivesTheAsked
    OneToOneIsReused
    ListIsCurrent
    StatusIsCurrent
CHECK_DEADLOCK FALSE
