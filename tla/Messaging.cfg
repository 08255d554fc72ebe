\* No failures, two instants: an outage would excuse the pipeline from
\* announcing.  A window of two ticks leaves each user one send.
CONSTANTS
    Users = {u1, u2}
    Conversations = {c1}
    Members <- MCMembers
    Slots = {s1, s2}
    MaxMsgs = 2
    MaxTime = 1
    SendMax = 1
    Window = 2
    MayFail = FALSE
SPECIFICATION FairSpec
INVARIANTS
    ReadOnlyByOtherMembers
    PagingMissesOnlyTies
PROPERTIES
    DowngradeOnlyByStaleReceipt
    StoredIsEventuallyShown
CHECK_DEADLOCK FALSE
