CONSTANTS
    Readers = {reader}
    Specials = {special}
    Writers = {}
    RetryTime = 1
    ResendLimit = 2
    MaxInvokeId = 3
    Capacity = 3
    MaxInFlight = 2
SPECIFICATION Spec
INVARIANTS
    SuccessIsAnswered
