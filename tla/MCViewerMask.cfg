SPECIFICATION Spec
CONSTANTS
    Viewer = {v1, v2}
    Width <- Widths
    ById = FALSE
    NULL = NULL
SYMMETRY Symmetry
INVARIANTS
    LoneViewerIsUnmasked
CHECK_DEADLOCK FALSE
