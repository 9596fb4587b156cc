CONSTANTS
    u1 = u1  u2 = u2
    x1 = x1  x2 = x2
    r1 = r1  r2 = r2
    NoUser = NoUser
    NoSub = NoSub
    Users = {u1, u2}
    Subs = {x1}
    Requests = {r1, r2}
    Ops <- FulfilOps
    Events <- AbortOnly
    Changes <- OnlyCancels
    Ordered = FALSE
    MaxEvents = 3
    MaxWeek = 0
SPECIFICATION FairSpec
INVARIANTS PremiumBacked ActiveRowPremium
PROPERTY EventsProcessed
