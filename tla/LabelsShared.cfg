SPECIFICATION FairSpec
CONSTANTS
    Units = {u1, u2}
    Labels = {l1}
    Foreign = {f1}
    Limit <- SharedLimit
INVARIANTS TypeOK ForeignKept
PROPERTIES LabelsApplied
CHECK_DEADLOCK FALSE
