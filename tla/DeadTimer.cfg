CONSTANTS
    MaxTransactions = 2
    MaxInvokeId = 2
    ApduTimeout = 2
    ApduRetries = 1
SPECIFICATION TimedSpec
PROPERTIES UnansweredFails
