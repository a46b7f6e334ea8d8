SPECIFICATION FairSpec
CONSTANTS
    h1 = h1
    h2 = h2
    j1 = j1
    s1 = s1
    Handlers = {h1, h2}
    Jobs = {j1}
    NoJob = NoJob
    Sessions = {s1}
    Event = Event
    Collections = {"transcode_runs", "videos_catalog"}
    Attempts = 2
    MaxFaults = 2
    MaxKills = 1
    MaxSent = 2
INVARIANTS
    TypeOK
    IndexedIsUnique
    AcknowledgedIsKept
    RunsWerePublished
    PublishedIsAccepted
PROPERTIES
    ProductionRunsAreFinal
    ViewsAreStable
    ServesAgain
