CONSTANTS
    alice = alice
    bob = bob
    a1 = a1
    a2 = a2
    b1 = b1
    Users = {alice, bob}
    Sockets = {a1, a2}
    UserOf <- MCUserOf
    MayFail = FALSE
    MayCrash = FALSE
SPECIFICATION Spec
INVARIANTS
    TrackedSocketsAreConnected
CHECK_DEADLOCK FALSE
