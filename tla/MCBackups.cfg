CONSTANTS
    Worker = {w1, w2}
    KeepLast = 1
    MaxBackups = 3
    MaxWrites = 1
    MaxDiscards = 1
    Idle = Idle
    Absent = Absent
    Partial = Partial
SPECIFICATION Spec
SYMMETRY Workers
INVARIANTS TypeOK SafetyKept SuccessIsWhole RecentBackupExists
CONSTRAINT Bounded
