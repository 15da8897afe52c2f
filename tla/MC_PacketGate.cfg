SPECIFICATION Spec
CONSTANTS
    None = None
    Repos <- MCRepos
    Good <- MCGood
    Variants <- MCVariants
    Locks <- MCLocks
    FirstLock <- MCFirstLock
    MaxEdits <- MCMaxEdits
INVARIANTS
    MasterClaimsHold
    MasterReplayedUnderLock
    MasterPinned
    CheckersAgree
    EveryRewriteReplayed
CHECK_DEADLOCK FALSE
