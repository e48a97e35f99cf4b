SPECIFICATION FairSpec
CONSTANTS
    a1 = a1
    a2 = a2
    a3 = a3
    c1 = c1
    t1 = t1
    t2 = t2
    NoMessage = NoMessage
    KeyOf <- MCSameKey
    Adapters <- MCOne
    Valid <- MCOne
    Clients <- MCClient
    Topics <- MCOneTopic
    QueueLimit = 2
    BatchLimit = 2
    MaxVersion = 3
INVARIANTS
    TypeOK
    LatestWins
PROPERTIES
    NoRegression
    LossIsNoticed
    CallsReturn
