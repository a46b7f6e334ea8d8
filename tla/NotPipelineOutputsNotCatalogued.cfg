SPECIFICATION Spec
CONSTANTS
    h1 = h1
    h2 = h2
    Handlers = {h1, h2}
    Keys <- MCKeys
    Escaped <- MCEscaped
    Unescaped <- MCUnescaped
    ChunkKeys = {}
    Objects <- UploadAndOutput
    EventTypes = {"upload.started"}
    Videos = {"v1"}
    VideoIds = {"v1"}
    Filenames = {"", "a", "seg"}
    UploadName = "a"
    NoVideo = NoVideo
    NoObject = NoObject
    Fields = {"transcode"}
    Values = {"h264"}
    Absent = Absent
    UniqueIndex = TRUE
    MayLose = FALSE
    MaxEvents = 0
    MaxFaults = 0
    MaxCrashes = 0
SYMMETRY Symmetry
INVARIANTS
    PipelineOutputsNotCatalogued
