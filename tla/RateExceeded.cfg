\* Two invocations of one draft across the turn of a minute, one attempt each
\* minute allowed, no fault and no skew.
CONSTANTS
    w1 = w1
    w2 = w2
    d1 = d1
    d2 = d2
    smtp2go = smtp2go
    Workers <- TwoWorkers
    Drafts <- OneDraft
    Namespaces <- OneNamespace
    DraftLimit = 1
    ConnectionLimit = 1
    Minute = 2
    Timeout = 1
    MaxSkew = 0
    Retries = 0
    MaxClock = 3
    Faults <- NoFaults
SPECIFICATION Spec
INVARIANT AttemptsWithinLimit
