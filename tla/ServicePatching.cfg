SPECIFICATION FairSpec
CONSTANTS
    Units = {u1, u2}
    Limit <- PatchLimit
INVARIANTS UpgradedWithoutBalancer
PROPERTIES EventuallyPatched BalancerGone
CHECK_DEADLOCK FALSE
