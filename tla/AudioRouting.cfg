\* Every board, 2 modes, 4 selections of outputs, 3 inputs, 3 sources.
SPECIFICATION Spec
CONSTANTS
    Boards <- AllBoards
    Modes <- SomeModes
    OutSets <- SomeOutSets
    InDevices <- SomeInDevices
    Sources <- SomeSources
INVARIANTS
    TypeOK
    OutputRouted
    VoiceOnlyInCall
    CallRouted
    MicFollowsSpeaker
    InputRouted
    VolumeForSource
