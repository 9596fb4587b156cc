CONSTANTS
    u1 = u1  u2 = u2
    o1 = o1  o2 = o2  o3 = o3
    r1 = r1  r2 = r2
    NoUser = NoUser
    NoObject = NoObject
    Users = {u1, u2}
    Objects = {o1, o2, o3}
    Requests = {r1, r2}
    Events = {"abort"}
SPECIFICATION Spec
INVARIANTS TypeOK OwnAvatar
SYMMETRY Sym
