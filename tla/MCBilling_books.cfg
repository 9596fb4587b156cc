CONSTANTS
    u1 = u1  u2 = u2
    x1 = x1  x2 = x2
    r1 = r1  r2 = r2
    NoUser = NoUser
    NoSub = NoSub
    Users = {u1}
    Subs = {x1, x2}
    Requests = {r1}
    Ops <- NoConfirmOps
    Events <- NoEvents
    Changes <- EveryChange
    Ordered = TRUE
    MaxEvents = 5
    MaxWeek = 4
SPECIFICATION Spec
SYMMETRY Sym
INVARIANTS TypeOK PaymentsComplete MailedOnce Converges
PROPERTIES ImplementsBillingLedger
