CONSTANTS
    c1 = c1  c2 = c2  c3 = c3
    g1 = g1
    r1 = r1  r2 = r2
    NoCode = NoCode
    NoGrant = NoGrant
    Codes = {c1}
    Grants = {g1}
    Requests = {r1, r2}
    Events = {}
SPECIFICATION Spec
INVARIANT OneTimeUse
