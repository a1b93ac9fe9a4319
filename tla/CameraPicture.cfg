\* A picture is taken and delivered while the caller goes on.
CONSTANTS
    c1 = c1
    k1 = k1
    p1 = p1
    p2 = p2
    Callers = {c1}
    Pictures = {k1}
    Previews = {p1, p2}
    Sizes <- TwoSizes
    Fmts = {"yuv422sp"}
    Msgs = {"raw"}
    MayFail = {}
    Reentrant = FALSE
    MaxQueued = 4
    NB_BUFFER = 2
    NULL = NULL
SPECIFICATION Spec
SYMMETRY Symmetry
INVARIANT PictureHeapAlive
