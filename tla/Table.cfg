CONSTANTS
    MaxTransactions = 4
    MaxInvokeId = 4
    ApduTimeout = 2
    ApduRetries = 1
SPECIFICATION ReuseSpec
INVARIANTS
    TypeOK
    UniqueInvokeIds
    SearchEnds
PROPERTIES
    PoolSpec
    OldestIdFirst
