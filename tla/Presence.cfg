\* Alice's two tabs collide in every order; Bob's shows that users do not mix.
CONSTANTS
    alice = alice
    bob = bob
    a1 = a1
    a2 = a2
    b1 = b1
    Users = {alice, bob}
    Sockets = {a1, a2, b1}
    UserOf <- MCUserOf
    MayFail = TRUE
    MayCrash = TRUE
SPECIFICATION FairSpec
INVARIANTS
    TypeOK
    TrackingIsExact
    PresenceConverges
PROPERTIES
    GoneUserIsAnnounced
    OpenTabIsAnnounced
CHECK_DEADLOCK FALSE
