\* Two invocations over one notification, every fault.
CONSTANTS
    w1 = w1
    w2 = w2
    e1 = e1
    e2 = e2
    smtp2go = smtp2go
    NoEvent = NoEvent
    Workers <- TwoWorkers
    Events <- OneEvent
    Circuits <- OneCircuit
    CircuitOf <- SharedCircuit
    MaxAttempts = 2
    SendingLease = 2
    Timeout = 1
    MaxSkew = 0
    MaxClock = 4
    SmtpOutcomes <- AllSmtpOutcomes
    Faults <- FaultKinds
SYMMETRY WorkerSymmetry
SPECIFICATION Spec
INVARIANTS
    TypeOK
    NoBlindDuplicate
    SendsWithinBudget
    OneAttemptPerReview
    AckedMeansAccepted
    FieldDiscipline
    IInv
PROPERTIES
    SendsUnderClaim
    UncertainWaitsForOperator
    FinalRecordsStay
    ImplementsLifecycle
