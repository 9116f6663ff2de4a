CONSTANTS
    BlockReaders = {poll}
    OneReaders = {}
    Writers = {}
    Addresses = {a1, a2}
    RetryTimes = 2
    MaxBacklog = 1
    None = None
SPECIFICATION Spec
INVARIANTS
    ReadsWhatWasAsked
