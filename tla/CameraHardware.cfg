\* Recording and preview, which may get no memory: one caller, whose preview
\* callback calls back.
CONSTANTS
    c1 = c1
    p1 = p1
    p2 = p2
    Callers = {c1}
    Pictures = {}
    Previews = {p1, p2}
    Sizes <- TwoSizes
    Fmts = {"yuv422i-yuyv", "yuv420p"}
    Msgs = {"preview", "video"}
    MayFail = {"preview"}
    Reentrant = TRUE
    MaxQueued = 4
    NB_BUFFER = 2
    NULL = NULL
SPECIFICATION Spec
SYMMETRY Symmetry
CHECK_DEADLOCK FALSE
INVARIANTS
    TypeOK
    PreviewHeapAlive
    CapturesRecordedSize
    FramesFit
    WindowHasCapturedSize
