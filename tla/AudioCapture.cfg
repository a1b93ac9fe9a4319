\* Periods of three frames, requests of one period and of a frame less.
CONSTANTS
    Period = 3
    Ratio = 2
    Requests = {2, 3}
    Effects = {"AEC", "NS"}
    MAX_PREPROCESSORS = 3
    MaxHold = 1
    MaxFrame = 10
SPECIFICATION Spec
INVARIANTS
    TypeOK
    InOrder
    Fresh
    DelayIsAge
