\* Every pixel format, alone and behind one that cannot be cropped.
CONSTANTS
    Sizes <- DriverSizes
    Extra <- CroppedSizes
    Rates = {30}
    Drivers <- SomeDrivers
SPECIFICATION Spec
INVARIANTS
    TypeOK
    DefaultsAreBest
    CaptureIsClosest
    FrameConverted
    FrameDelivered
