CONSTANTS
    X = X
    Y = Y
    Cells <- MCCells
    Chunks <- MCChunks
    Texts = {"", "go"}
    SkipsAnnouncement = TRUE
    MaxEvents = 7
SPECIFICATION Spec
INVARIANTS
    TypeOK
    OpenUploadHasPayload
    EveryByteKept
    UploadsAreFiles
    PayloadsInCaptureOrder
CHECK_DEADLOCK FALSE
