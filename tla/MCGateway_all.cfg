CONSTANTS
    w1 = w1  w2 = w2  queue = queue
    a = a  b = b
    mail = mail  cleanup = cleanup
    ip1 = ip1  u = u
    NoProc = NoProc  NoToken = NoToken  NoKey = NoKey
    Web = {w1, w2}
    Queue = queue
    Requests = {a, b}
    Jobs = {mail, cleanup}
    Daily = {cleanup}
    Stuck = {a}
    Bounds <- Scenarios
    IPs = {ip1}
    Users = {u}
    Routes <- OneOfEach
    Authorities <- BothTiers
    AuthMax = 1
    TierMax <- OneAndTwo
    MaxWindow = 1
SPECIFICATION FairSpec
INVARIANTS GatewayTypeOK AdmittedWithinLimit
PROPERTIES Terminates Respawned AllAnswered JobsWorkedOff
CHECK_DEADLOCK FALSE
