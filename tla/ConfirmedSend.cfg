CONSTANTS
    Senders = {gui, refresh}
    Requests = {r1, r2, r3}
    MaxTransactions = 2
    MaxInvokeId = 2
    None = None
SYMMETRY SomeSymmetry
CONSTRAINT SearchesApart
SPECIFICATION Spec
INVARIANTS
    TypeOK
    UniqueInvokeIds
    OneRequestPerPdu
