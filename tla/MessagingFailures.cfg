\* Every call may fail and the server may restart, which also resets the
\* rate limit, so a user sends again within the one instant there is.
CONSTANTS
    Users = {u1, u2}
    Conversations = {c1}
    Members <- MCMembers
    Slots = {s1, s2}
    MaxMsgs = 2
    MaxTime = 0
    SendMax = 1
    Window = 1
    MayFail = TRUE
SPECIFICATION Spec
SYMMETRY SlotSymmetry
INVARIANTS
    TypeOK
    PointerSurvivesLaterSends
    PointerIsStored
PROPERTIES
    ImplementsDurableBroadcast
CHECK_DEADLOCK FALSE
