\* Two invocations, two drafts on one connection, the turn of a minute, skewed
\* clocks, every fault.
CONSTANTS
    w1 = w1
    w2 = w2
    d1 = d1
    d2 = d2
    smtp2go = smtp2go
    Workers <- TwoWorkers
    Drafts <- TwoDrafts
    Namespaces <- OneNamespace
    DraftLimit = 2
    ConnectionLimit = 1
    Minute = 4
    Timeout = 1
    MaxSkew = 1
    Retries = 2
    MaxClock = 4
    Faults <- FaultKinds
SYMMETRY Symmetry
SPECIFICATION Spec
INVARIANTS
    TypeOK
    TokensAreCounted
    LimitHoldsInsideMinutes
    DraftsPayFirst
