CONSTANTS
    i1 = i1  i2 = i2
    e1 = e1  e2 = e2
    n1 = n1
    p1 = p1  p2 = p2
    r1 = r1  r2 = r2
    NoId = NoId
    NoText = NoText
    Ids = {i1, i2}
    Emails = {e1, e2}
    Names = {n1}
    Identities = {p1, p2}
    Requests = {r1, r2}
    Ops <- EveryOp
    Events = {"abort"}
SPECIFICATION Spec
INVARIANTS TypeOK DistinctAccounts SignedInAsLinked WelcomedOnce
PROPERTY ImplementsDirectory
SYMMETRY Sym
