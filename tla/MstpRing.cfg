CONSTANTS
    Stations = {0, 1, 2}
    Nmax_master = 2
    Setups <- ScanOrConnect
    Npoll = 2
    Nretry_token = 1
    Tno_token = 10
    Tslot = 1
    Tusage_timeout = 2
    Treply_delay = 5
    Treply_timeout = 7
    Treply_wait = 6
    FrameTime = 1
    MaxHeard = 1
    Nmax_info_frames = 1
    DEFAULT_MAX_INFO_FRAMES = 2
    Announcers = {0, 1}
    Requesters = {0}
    MaxFaults = 1
SPECIFICATION Spec
INVARIANTS TypeOK OneToken
PROPERTIES T3000sTurn WithoutT3000 EverybodysTurn Resolved
CHECK_DEADLOCK FALSE
