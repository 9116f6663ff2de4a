CONSTANTS
    Readers = {}
    Specials = {special}
    Writers = {writer}
    RetryTime = 2
    ResendLimit = 1
    MaxInvokeId = 3
    Capacity = 3
    MaxInFlight = 2
SPECIFICATION Spec
CONSTRAINT Undisturbed
INVARIANTS
    TypeOK
    SuccessHasCause
    WaitersDistinct
    NoReplyIsForAnother
    MarkedStaysOffScreen
PROPERTIES
    EveryStepCounts
