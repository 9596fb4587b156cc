CONSTANTS
    u1 = u1  u2 = u2
    s1 = s1  s2 = s2  s3 = s3
    r1 = r1  r2 = r2  r3 = r3
    NoUser = NoUser
    NoSession = NoSession
    Users = {u1, u2}
    SessionIds = {s1, s2}
    Requests = {r1, r2}
    MaxSessions <- MixedTiers
    Ops <- EveryOp
    Events <- EveryEvent
SPECIFICATION Spec
SYMMETRY Sym
INVARIANTS TypeOK OwnersAgree
PROPERTIES ImplementsLedger OnlyOwnerRemoves
