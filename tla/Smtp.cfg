\* One session, every reply, silence and a stop at every point.
CONSTANTS
    Recipient = Recipient
    Sender = Sender
    Codes <- AllClasses
SPECIFICATION Spec
INVARIANTS
    TypeOK
    VerdictIsTrue
    HeardIsReported
    ClosedAtTheEnd
PROPERTIES
    CallEnds
    ImplementsProviderCall
CHECK_DEADLOCK FALSE
