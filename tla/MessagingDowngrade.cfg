CONSTANTS
    Users = {u1, u2}
    Conversations = {c1}
    Members <- MCMembers
    Slots = {s1, s2}
    MaxMsgs = 1
    MaxTime = 0
    SendMax = 1
    Window = 1
    MayFail = FALSE
SPECIFICATION Spec
PROPERTIES
    ReadIsNeverDowngraded

CHECK_DEADLOCK FALSE
