\* Two invocations over one notification, no faults, one instant.
CONSTANTS
    w1 = w1
    w2 = w2
    e1 = e1
    e2 = e2
    smtp2go = smtp2go
    NoEvent = NoEvent
    Workers <- TwoWorkers
    Events <- OneEvent
    Circuits <- OneCircuit
    CircuitOf <- SharedCircuit
    MaxAttempts = 2
    SendingLease = 2
    Timeout = 1
    MaxSkew = 0
    MaxClock = 0
    SmtpOutcomes <- AllSmtpOutcomes
    Faults <- NoFaults
SYMMETRY WorkerSymmetry
SPECIFICATION Spec
INVARIANT
    FailedNeverDelivered
