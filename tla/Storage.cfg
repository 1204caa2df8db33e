CONSTANTS
    Member = {m1, m2}
    Chunks = 3
    Concurrency = 2
    MaxAttempts = 2
    MaxRenewals = 1
    Aggregators = 2
    Epochs = 1
    Secret <- MCSecret
    Coefficient <- MCCoefficient
    MaxEpoch = 2
    MaxUploads = 2
    MaxFaults = 2
SPECIFICATION FairSpec
INVARIANTS StorageTypeOK ReadIsWritten
CHECK_DEADLOCK FALSE
PROPERTIES JobsSettle
