SPECIFICATION Spec
CONSTANTS
    Units = {u1, u2}
    Limit <- ScaleDownLimit
INVARIANTS ServiceOutlivesUnits
CHECK_DEADLOCK FALSE
