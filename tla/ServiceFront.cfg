SPECIFICATION FairSpec
CONSTANTS
    NoId = NoId
    r1 = r1
    r2 = r2
    r3 = r3
    alice = alice
    bob = bob
    address = address
    Requests <- MCRequests
    Clients <- MCClients
    Traffic <- MCTraffic
    AuthMode = "both"
    Limit = 1
    Workers = 2
    MaxWindows = 2
INVARIANTS
    TypeOK
    QuotaIsKept
    RefusalsAreFree
    TaskIsToldOnce
    RecordsCarryOwnId
    ResponsesEchoTheId
PROPERTY
    EveryRequestAnswered
