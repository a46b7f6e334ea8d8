SPECIFICATION Spec
CONSTANTS
    h1 = h1
    h2 = h2
    s1 = s1
    s2 = s2
    v1 = v1
    v2 = v2
    Handlers = {h1, h2}
    Sessions = {s1, s2}
    Videos = {v1, v2}
    VideoOf <- OneVideo
    VideoIdOf <- OtherVideo
    Patches <- SomePatches
    NoDoc = NoDoc
    NoSession = NoSession
    NoVideo = NoVideo
    MaxRev = 2
    MaxFaults = 1
    MaxCrashes = 1
SYMMETRY Symmetry
INVARIANTS
    TypeOK
    SessionHasVideo
    VideoNotOlderThanSession
    AcknowledgedIsStored
    PatchIsVisible
PROPERTIES
    ConfirmationKept
