\* The output stage at the end of a call.
SPECIFICATION Spec
CONSTANTS
    Boards <- AllBoards
    Modes <- SomeModes
    OutSets <- SomeOutSets
    InDevices <- SomeInDevices
    Sources <- SomeSources
PROPERTY CallEndTurnsStageOff
