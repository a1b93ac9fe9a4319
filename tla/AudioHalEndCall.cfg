\* start_call() may fail: the smallest instance that ends such a call.
CONSTANTS
    t1 = t1
    o1 = o1
    i1 = i1
    r1 = r1
    r2 = r2
    Threads = {t1}
    Outs = {o1}
    Ins = {i1}
    Refs = {r1, r2}
    NORMAL = NORMAL
    RINGTONE = RINGTONE
    IN_CALL = IN_CALL
    Modes = {NORMAL, RINGTONE, IN_CALL}
    MayFail = {"modem"}
    MaxOuts = 1
    ADEV = ADEV
    NULL = NULL
SPECIFICATION Spec
PROPERTY EndCallClosesOpenPcms
