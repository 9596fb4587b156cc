CONSTANTS
    u1 = u1  u2 = u2
    s1 = s1  s2 = s2  s3 = s3
    r1 = r1  r2 = r2  r3 = r3
    NoUser = NoUser
    NoSession = NoSession
    Users = {u1}
    SessionIds = {s1, s2}
    Requests = {r1, r2}
    MaxSessions <- FreeTier
    Ops <- LoginOps
    Events <- NoEvents
SPECIFICATION Spec
INVARIANTS WithinLimit
