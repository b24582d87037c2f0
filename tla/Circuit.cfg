\* Two invocations over two notifications of one connection, at one instant.
CONSTANTS
    w1 = w1
    w2 = w2
    e1 = e1
    e2 = e2
    smtp2go = smtp2go
    NoEvent = NoEvent
    Workers <- TwoWorkers
    Events <- TwoEvents
    Circuits <- OneCircuit
    CircuitOf <- SharedCircuit
    MaxAttempts = 3
    SendingLease = 1
    Timeout = 0
    MaxSkew = 0
    MaxClock = 0
    SmtpOutcomes <- CircuitOutcomes
    Faults <- NoFaults
SYMMETRY Symmetry
SPECIFICATION Spec
INVARIANTS
    LateSendsBounded
