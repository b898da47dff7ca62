\* One stream, three descriptors, two failures.
SPECIFICATION FairSpec
CONSTANTS
    s1 = s1
    Streams = {s1}
    EncOf <- OwnEncoder
    NumFd = 3
    QueCap = 2
    MaxFault = 2
CHECK_DEADLOCK FALSE
INVARIANTS
    TypeOK
    Settled
PROPERTIES
    StaleGoes
    Reconnects
