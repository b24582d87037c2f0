\* Two invocations, two messages for one notification or for none, batches of two.
CONSTANTS
    w1 = w1
    w2 = w2
    m1 = m1
    m2 = m2
    e1 = e1
    NoMessage = NoMessage
    Unusable = Unusable
    Workers <- TwoWorkers
    Messages <- TwoMessages
    Events <- OneEvent
    Budget = 2
    MaxReceives = 2
    BatchSize = 2
    Timeout = 1
    Lease = 2
    Visibility = 4
SPECIFICATION Spec
INVARIANTS
    TypeOK
    DeletedMeansAccepted
    OneInvocationPerMessage
    RedeliveryFindsLeaseOver
    StrandedForACause
    LedgerAllowsHandler
PROPERTIES
    ImplementsCustody
    EveryMessageLeaves
