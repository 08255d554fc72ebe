\* One user is enough for the bounds; two show that users are independent.
CONSTANTS
    Users = {u1, u2}
    SendMax = 2
    Window = 2
    MaxTime = 5
    MaxSends = 5
SPECIFICATION Spec
INVARIANTS
    TypeOK
    BurstBound
    RefusedOnlyAfterBurst
CHECK_DEADLOCK FALSE
