SPECIFICATION StoresSpec
CONSTANTS
    a1 = a1
    a2 = a2
    q1 = q1
    Dictations = 2
    Crashes = 1
    Faults = 1
    VolumeRaces = {}
    Texts = 2
    Late <- MCLate
    Keep = 2
    QueueSize = 2
    Troubles = 1
    ExitRaces = FALSE
    MaxPastes = 3
    Pending = 2
    LoanRaces = {}
    Savers <- MCSavers
    Askers <- MCAskers
    Clears <- MCAskers
    WritesLimit = 2
    BatchCap = 2
    WriteFaults = 1
INVARIANTS
    VolumeIsBack
    LoweredIsRecorded
    FlushedIsOnDisk
    QuietIsSaved
    LoansAreReturned
    StoresTypeOK
PROPERTIES
    AcceptedIsSettled
    CallsReturn
CHECK_DEADLOCK FALSE
