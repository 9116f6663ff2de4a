CONSTANTS
    Devices = {d1, d2}
    Chosen = d1
    Product <- SameProduct
    None = None
    d1 = d1
    d2 = d2
    CheckFirmware = TRUE
    Packages = 1
    CommandTries = 2
    DhcpTries = 2
    DoneTries = 2
    Retries = 2
    MaxSessions = 1
SPECIFICATION Spec
INVARIANTS OnlyTheChosen
CHECK_DEADLOCK FALSE
