\* Two invocations for one recipient version, two addresses it might be given.
CONSTANTS
    w1 = w1
    w2 = w2
    ops = ops
    alice = alice
    bob = bob
    password = password
    Smtp = Smtp
    Malformed = Malformed
    Workers <- TwoWorkers
    Recipients <- OneRecipient
    Addresses <- TwoAddresses
    Credentials <- OnePassword
SYMMETRY Symmetry
SPECIFICATION Spec
INVARIANTS
    TypeOK
    OneAddressPerVersion
    RevocationHolds
    FailedForACause
