SPECIFICATION Spec
CONSTANTS
    Viewer = {v1, v2, v3}
    Width <- Widths
    ById = FALSE
    NULL = NULL
SYMMETRY Symmetry
INVARIANTS
    TypeOK
    OneResponder
    SizeFollowsUse
    NoGhostFocus
CHECK_DEADLOCK FALSE
