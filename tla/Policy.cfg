\* Two invocations, two events of one key, packages, scope and bindings changing.
CONSTANTS
    w1 = w1
    w2 = w2
    k1 = k1
    v1 = v1
    v2 = v2
    billing = billing
    paid = paid
    ops = ops
    main = main
    backup = backup
    None = None
    Workers <- TwoWorkers
    Events <- TwoEvents
    Descriptors <- FiveDescriptors
    Connections <- BothConnections
    Production = TRUE
    MaxWrites = 4
SYMMETRY Symmetry
SPECIFICATION Spec
INVARIANTS
    TypeOK
    AttemptedAsPublished
    OnePinPerKey
    AttemptedUnderCurrentScope
