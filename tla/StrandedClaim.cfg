\* One invocation at a time, one message; invocations run on unless they die.
CONSTANTS
    w1 = w1
    w2 = w2
    m1 = m1
    m2 = m2
    e1 = e1
    NoMessage = NoMessage
    Unusable = Unusable
    Workers <- OneWorker
    Messages <- OneMessage
    Events <- OneEvent
    Budget = 2
    MaxReceives = 2
    BatchSize = 1
    Timeout = 1
    Lease = 2
    Visibility = 4
SPECIFICATION LiveSpec
PROPERTIES
    CrashBecomesUncertain
