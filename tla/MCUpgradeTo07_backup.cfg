\* One policy and two backups of every old shape; two runs, one failure.
CONSTANTS
    p1 = p1
    p2 = p2
    b1 = b1
    b2 = b2
    POLICY <- MCPolicy
    BACKUP <- MCBackup
    MaxRuns = 2
    MaxFaults = 1
SPECIFICATION Spec
\* A finished run, or a failed last run, is the end of the upgrade.
CHECK_DEADLOCK FALSE
INVARIANT
    BackupsMigrated
