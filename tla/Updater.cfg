SPECIFICATION Spec
CONSTANTS
    Devices <- MCDevices
    ImageSizes <- MCImageSizes
    NumSectors = 100
    Blksize = 10
    OldBlklen = 57
    WORD = 128
    MaxTrouble = 3
INVARIANT TypeOK
INVARIANT DoneIsComplete
INVARIANT FooterFits
CHECK_DEADLOCK FALSE
