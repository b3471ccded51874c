\* A seller edits, submits, deletes and publishes a launchpad while one admin approves and
\* another rejects it; a second launchpad of the product follows.  The expire jobs fail now and
\* then, less often than they have attempts, and a worker dies over one.
SPECIFICATION FairSpec
CHECK_DEADLOCK FALSE

CONSTANTS
    Launchpads = {"l1", "l2"}
    Requests = {"create1", "update1", "delete1", "submit1", "approve1", "reject1", "publish1", "create2", "submit2", "approve2", "publish2"}
    Initial = Initial
    Attempts = 3
    FailureBudget = 2
    StallBudget = 1
    KeepCompleted = 1
    KeepFailed = 2
    ProductOf <- MCProductOf
    OpOf <- MCOpOf
    TargetOf <- MCTargetOf

INVARIANTS
    TypeOK
    EndedOnlyAfterEndTime
    LiveOnlyIfApproved
    CompletedJobEnded
PROPERTIES
    FrozenOnceDeleted
    ExpiredLaunchpadEnds
