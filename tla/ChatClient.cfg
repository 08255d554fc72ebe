CONSTANTS
    alice = alice
    a1 = a1
    c1 = c1
    c2 = c2
    Users = {alice}
    Sockets = {a1}
    UserOf <- MCUserOf
    Conversations = {c1, c2}
    Members <- MCMembers
    None = None
    MaxOpens <- MCMaxOpens
    MaxMsgs = 1
    MayFail = TRUE
SPECIFICATION Spec
INVARIANTS
    TypeOK
    ThreadIsOfView
    DueIsShown
    ReadIsShown
    LoadingIsBacked
CHECK_DEADLOCK FALSE
