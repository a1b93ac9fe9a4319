\* Preview and pictures while the device fails; every thread is scheduled, and
\* callbacks return and do not call back.
CONSTANTS
    c1 = c1
    k1 = k1
    p1 = p1
    p2 = p2
    Callers = {c1}
    Pictures = {k1}
    Previews = {p1, p2}
    Sizes <- TurnedSizes
    Fmts = {"yuv422sp"}
    Msgs = {"preview"}
    MayFail = {"open", "qbuf", "stream"}
    Reentrant = FALSE
    MaxQueued = 3
    NB_BUFFER = 2
    NULL = NULL
SPECIFICATION FairSpec
INVARIANTS
    PreviewHasDevice
    CountCoversDriver
PROPERTY StopEnds
