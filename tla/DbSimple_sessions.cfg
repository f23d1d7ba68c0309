CHECK_DEADLOCK FALSE
CONSTANTS
    s1 = s1
    s2 = s2
    c1 = c1
    c2 = c2
    zone = zone
    policy = policy
    hsmkey = hsmkey
    z1 = z1
    p1 = p1
    p2 = p2
    h1 = h1
    noz = noz
    nop = nop
    noh = noh
    new = new
    a = a
    b = b
    NULL = NULL
    Session = {s1, s2}
    Connection = {c1, c2}
    Id = {z1, p1, p2, h1, noz, nop, noh}
    Fresh = {new}
    Type = {zone, policy, hsmkey}
    TypeOf <- Types
    MinusOne <- Minus
    RefType <- Refers
    BackType <- Backs
    Unique = {zone, policy, hsmkey}
    Name = {a, b}
    Setups <- AllSetups
    Stored <- Tables
    MaxRev = 1
SPECIFICATION FairSpec
INVARIANTS
    DbInv
PROPERTIES
    RevisionsGrow
    RemovedOnlyOnPurpose
    WholeCommits
    LockReleased
