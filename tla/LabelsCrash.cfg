SPECIFICATION Spec
CONSTANTS
    Units = {u1}
    Labels = {l1, l2}
    Foreign = {f1}
    Limit <- CrashLimit
INVARIANTS QuietLabels
CHECK_DEADLOCK FALSE
