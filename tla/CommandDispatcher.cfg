CONSTANTS
    WriteOnes = {one}
    WriteOneLists = {list}
    WriteLists = {block}
    Reads = {read}
    Limit = 1
SPECIFICATION FairSpec
CHECK_DEADLOCK FALSE
INVARIANTS
    TypeOK
    QueueBounded
    DealtInOrder
    DealtAtMostOnce
    NothingLost
    LookHolds
PROPERTIES
    DealtUnlessCleared
