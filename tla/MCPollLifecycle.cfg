SPECIFICATION FairSpec
CONSTANTS
    c1 = c1
    c2 = c2
    k1 = k1
    k2 = k2
    short = short
    long = long
    Worker = Worker
    Controllers <- MCControllers
    Clients <- MCClients
    Intervals <- MCIntervals
INVARIANTS
    TypeOK
    NeverAborts
    StoppedMeansGone
    PassIsExclusive
PROPERTIES
    StopReturns
    KeepsPolling
    IntervalTakesEffect
    StoppedWorkerEnds
CHECK_DEADLOCK FALSE
