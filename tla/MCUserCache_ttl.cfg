CONSTANTS
    r1 = r1  r2 = r2
    Requests = {r1, r2}
    Ops <- EveryOp
    Events <- AbortOnly
SPECIFICATION Spec
INVARIANTS TypeOK StaleAtMostTTL
SYMMETRY Sym
