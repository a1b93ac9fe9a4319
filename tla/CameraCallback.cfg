\* A preview callback calls the device.
CONSTANTS
    c1 = c1
    k1 = k1
    p1 = p1
    p2 = p2
    Callers = {c1}
    Pictures = {}
    Previews = {p1, p2}
    Sizes <- TwoSizes
    Fmts = {"yuv422sp"}
    Msgs = {"preview"}
    MayFail = {}
    Reentrant = TRUE
    MaxQueued = 4
    NB_BUFFER = 2
    NULL = NULL
SPECIFICATION Spec
SYMMETRY Symmetry
INVARIANT CallbackMayCallUs
