CONSTANTS
    ann = ann
    bob = bob
    x = x
    X = X
    y = y
    p = p
    q = q
    t1 = t1
    t2 = t2
    None = None
    Tabs = {t1, t2}
    Forms <- MCForms
    LowerCase <- MCLowerCase
    Lifetime = 1
    MaxNow = 2
SPECIFICATION FairSpec
INVARIANTS
    TypeOK
    SessionAgrees
    StorageAgrees
    ConflictNamesField
PROPERTIES
    IsRegistry
    SessionSettles
CHECK_DEADLOCK FALSE
