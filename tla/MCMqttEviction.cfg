SPECIFICATION Spec
CONSTANTS
    a1 = a1
    a2 = a2
    a3 = a3
    c1 = c1
    t1 = t1
    t2 = t2
    NoMessage = NoMessage
    KeyOf <- MCSameKey
    Adapters <- MCThree
    Valid <- MCThree
    Clients <- MCClient
    Topics <- MCOneTopic
    QueueLimit = 1
    BatchLimit = 1
    MaxVersion = 0
INVARIANTS
    UniqueClientIds
