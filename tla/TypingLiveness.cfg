CONSTANTS
    alice = alice
    bob = bob
    a1 = a1
    a2 = a2
    b1 = b1
    ab = ab
    ab2 = ab2
    Opens = 1
    Strokes = 1
    Users = {alice, bob}
    Sockets = {a1, b1}
    UserOf <- MCUserOf
    Conversations = {ab, ab2}
    Members <- MCMembers
    None = None
    MaxOpens <- MCMaxOpens
    MaxStrokes <- MCMaxStrokes
    MayFail = FALSE
SPECIFICATION FairSpec
PROPERTIES
    IndicatorEnds
