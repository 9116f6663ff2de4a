CONSTANTS
    BlockReaders = {poll}
    OneReaders = {view}
    Writers = {dialog}
    Addresses = {a1, a2}
    RetryTimes = 2
    MaxBacklog = 0
    None = None
SPECIFICATION FairSpec
INVARIANTS
    TypeOK
    InStep
PROPERTIES
    SectionIsReleased
