SPECIFICATION Spec
CONSTANTS
    Blobs = {1, 2, 3, 4, 5}
    Size <- TheSizes
    Compressible = {3, 4}
    FrameCap = 2
    CacheFrames = 1
    MaxFaults = 1
    Irs <- TheIrs
    Workers = 2
    Window = 3
    MaxChanges = 1
PROPERTY
    StoresBlobs
CHECK_DEADLOCK FALSE
