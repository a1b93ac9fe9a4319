\* Two threads under weak fairness; create_echo_reference() succeeds.
CONSTANTS
    t1 = t1
    t2 = t2
    o1 = o1
    i1 = i1
    r1 = r1
    r2 = r2
    Threads = {t1, t2}
    Outs = {o1}
    Ins = {i1}
    Refs = {r1, r2}
    NORMAL = NORMAL
    RINGTONE = RINGTONE
    IN_CALL = IN_CALL
    Modes = {NORMAL, RINGTONE, IN_CALL}
    MayFail = {"pcm", "modem"}
    MaxOuts = 1
    ADEV = ADEV
    NULL = NULL
SPECIFICATION FairSpec
INVARIANT VoiceGetsEcho
PROPERTIES
    DeviceReleased
    KeepsSessions
