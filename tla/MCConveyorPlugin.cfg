\* A plugin without its belt link does nothing once the products have come and gone.
CONSTANTS
    NotANumber = NaN
    NaN = NaN
    Requests <- AskedSpeeds
    DefaultSpeed = 2
    StartAt = 2
    StopAt = 4
    MaxEntities = 3
SPECIFICATION Spec
INVARIANT TypeOK
PROPERTIES BeltObeysOrders ProductFollowsBelt
CHECK_DEADLOCK FALSE
