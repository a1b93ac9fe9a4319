\* Two threads, one output, two inputs, every external call may fail.
CONSTANTS
    t1 = t1
    t2 = t2
    o1 = o1
    i1 = i1
    i2 = i2
    r1 = r1
    r2 = r2
    Threads = {t1, t2}
    Outs = {o1}
    Ins = {i1, i2}
    Refs = {r1, r2}
    NORMAL = NORMAL
    IN_CALL = IN_CALL
    Modes = {NORMAL, IN_CALL}
    MayFail = {"pcm", "modem", "echo"}
    MaxOuts = 1
    ADEV = ADEV
    NULL = NULL
SPECIFICATION Spec
SYMMETRY Symmetry
INVARIANTS
    TypeOK
    LockOrder
    StreamsAlive
    ActiveIsRunning
    IoPcmOpen
    EchoSafe
    EchoFed
    CallState
PROPERTY CallStartsInStandby
