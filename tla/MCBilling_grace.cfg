CONSTANTS
    u1 = u1  u2 = u2
    x1 = x1  x2 = x2
    r1 = r1  r2 = r2
    NoUser = NoUser
    NoSub = NoSub
    Users = {u1}
    Subs = {x1}
    Requests = {r1}
    Ops <- WebhookOps
    Events <- NoEvents
    Changes <- OnlyFails
    Ordered = FALSE
    MaxEvents = 3
    MaxWeek = 2
SPECIFICATION Spec
PROPERTY GraceRespected
