------------------------------- MODULE Ingest --------------------------------
(***************************************************************************)
(* The event gateway's write paths: the front-end events handler           *)
(* (internal/events), the storage webhook (internal/webhooks) and the      *)
(* listing that re-imports the bucket (internal/videos), all running       *)
(* concurrently over the same MongoDB collections and RabbitMQ exchange.   *)
(*                                                                         *)
(* A handler is one fiber request in flight.  Every call it makes to       *)
(* MongoDB, to the store or to the publisher is one step, which may        *)
(* succeed or fail, and other requests run between two steps.  A crash     *)
(* forgets every request and keeps what the services hold.                 *)
(***************************************************************************)
EXTENDS StorageAdapters

CONSTANTS Handlers,    \* requests that may be in flight at once
          Objects,     \* what may be uploaded: [provider, key] records
          EventTypes,  \* the eventType values front ends send; "" is none
          Videos,      \* the video ids front ends send
          VideoIds,    \* every video id: Videos and those parsed from keys
          Filenames, UploadName,   \* file names; the one upload.started carries
          NoVideo, NoObject,
          Fields, Values, Absent,  \* the selection: rawVideo, subtitles, transcode
          UniqueIndex, \* whether videos_catalog has its index on video_id
          MayLose,     \* whether a publish may succeed and reach nobody
          MaxEvents, MaxFaults, MaxCrashes    \* bounds of the model

Selections  == [Fields -> Values \cup {Absent}]
NoSelection == [f \in Fields |-> Absent]

ASSUME IngestAssumption ==
    /\ Videos \subseteq VideoIds /\ NoVideo \notin VideoIds
    /\ NoObject \notin Objects
    /\ UploadName \in Filenames /\ "" \in Filenames
    /\ Absent \notin Values
    /\ UniqueIndex \in BOOLEAN /\ MayLose \in BOOLEAN
    /\ MaxEvents \in Nat /\ MaxFaults \in Nat /\ MaxCrashes \in Nat

(* Objects live in the stores main has adapters for, and their keys parse  *)
(* to known ids and names.                                                 *)
ASSUME ObjectsAssumption ==
    /\ \A o \in Objects : /\ o.provider \in storageAdapters
                          /\ o.key \in DOMAIN Escaped
                          /\ ListedVideo(o.key).videoId \in VideoIds
                          /\ ListedVideo(o.key).filename \in Filenames
    /\ \A o \in Objects : \A n \in CreationNotices(o.provider, o.key) :
          LET e == ParseWebhook(o.provider, n)
          IN  e.result = "event" => /\ e.videoId \in VideoIds
                                    /\ e.filename \in Filenames

VARIABLES
    catalog,   \* videos_catalog, in insertion order
    events,    \* the events collection: how many of each type and video
    stage,     \* storage_confirmed_at of the upload-state document, if any
    runs,      \* transcode_runs: the videos whose job has a run
    exchange,  \* what video_events accepted, in order
    bucket,    \* the stored objects
    owed,      \* the objects whose notification has not been answered 200
    req,       \* the request each handler works on
    excused,   \* history: why stage 3 of each video was skipped or withdrawn
    sent, faults, crashes   \* how much of each bound is used

services == <<catalog, events, stage, runs, exchange>>
stores   == <<bucket, owed>>
vars     == <<catalog, events, stage, runs, exchange, bucket, owed, req,
              excused, sent, faults, crashes>>

-----------------------------------------------------------------------------
(* The catalog repository (videos.MongoRepository). *)

Doc(v, name, status, sel) ==
    [videoId |-> v, filename |-> name, status |-> status, sel |-> sel]

Found(v) == {i \in DOMAIN catalog : catalog[i].videoId = v}

(* Mutant: without the omitempty tags an absent field erases the stored one. *)
SetWithoutOmitEmpty(old, new) == new

(* $set of a struct whose pointers are omitempty: an absent field stays.   *)
SetOmitEmpty(old, new) ==
    [f \in Fields |-> IF new[f] = Absent THEN old[f] ELSE new[f]]

(* Mutant: mongoindex without SetUnique(true). *)
DuplicateKeyWithoutIndex(v) == FALSE

DuplicateKey(v) == UniqueIndex /\ Found(v) # {}

(* Mutant: Create as an upsert, which MemoryRepository does in the tests.  *)
CreateByUpsert(d) ==
    \/ Found(d.videoId) = {} /\ catalog' = Append(catalog, d)
    \/ \E i \in Found(d.videoId) :
          catalog' = [catalog EXCEPT ![i] = [d EXCEPT !.sel = catalog[i].sel]]

(* Create: InsertOne, refused by the unique index if the video has a row.  *)
Create(d) == /\ ~DuplicateKey(d.videoId)
             /\ catalog' = Append(catalog, d)

(* Save: UpdateOne with $set and upsert, on one matching document.  The    *)
(* unique index makes it one step; without it, an upsert of h that has     *)
(* matched nothing inserts, whatever was inserted meanwhile.               *)
Save(h, d) ==
    \/ /\ req[h].missed = NoVideo /\ Found(d.videoId) = {}
       /\ catalog' = Append(catalog, d)
    \/ /\ req[h].missed = d.videoId
       /\ catalog' = Append(catalog, d)
    \/ /\ req[h].missed = NoVideo
       /\ \E i \in Found(d.videoId) :
             catalog' = [catalog EXCEPT
                ![i] = [d EXCEPT !.sel = SetOmitEmpty(catalog[i].sel, d.sel)]]

-----------------------------------------------------------------------------
(* The publisher seen by its callers.  Publisher.tla refines this port.    *)

Fault == faults < MaxFaults /\ faults' = faults + 1
Fine  == UNCHANGED faults

PublishOk(m) == \/ Fine /\ exchange' = Append(exchange, m)
                \/ MayLose /\ Fault /\ UNCHANGED exchange
PublishErr   == Fault /\ UNCHANGED exchange

-----------------------------------------------------------------------------
(* Requests. *)

PCs == {"idle", "saveEvent", "createVideo", "publishEvent", "writeRun",
        "lookup", "saveVideo", "confirm", "publishCompleted",
        "listBucket", "saveListed", "replying"}

Statuses == {0, 200, 202, 400, 500}

Idle == [pc |-> "idle", type |-> "", videoId |-> NoVideo, filename |-> "",
         key |-> NoKey, sel |-> NoSelection, found |-> FALSE,
         missed |-> NoVideo, obj |-> NoObject, todo |-> {}, left |-> {},
         status |-> 0]

Goto(h, pc)  == req' = [req EXCEPT ![h].pc = pc]
Answer(h, s) == req' = [req EXCEPT ![h].pc = "replying", ![h].status = s]

At(h, pc) == req[h].pc = pc

(* POST /events.  Only upload.started carries a selection; NoVideo is a    *)
(* payload without a videoId or a filename.                                *)
ReceiveEvent(h) ==
    /\ At(h, "idle")
    /\ sent < MaxEvents
    /\ sent' = sent + 1
    /\ \E type \in EventTypes, v \in Videos \cup {NoVideo}, sel \in Selections :
          /\ type # "upload.started" => sel = NoSelection
          /\ req' = [req EXCEPT ![h] =
                IF type = ""
                THEN [Idle EXCEPT !.pc = "replying", !.status = 400]
                ELSE [Idle EXCEPT !.pc = "saveEvent", !.type = type,
                         !.videoId = v, !.filename = UploadName, !.sel = sel]]
    /\ UNCHANGED <<services, stores, excused, faults, crashes>>

InsertEvent(e) == events' = [events EXCEPT ![<<e.type, e.videoId>>] = @ + 1]

(* Mutant: the events record is best effort, like the run. *)
SaveEventBestEffort(h) ==
    /\ At(h, "saveEvent")
    /\ \/ Fine /\ InsertEvent(req[h])
       \/ Fault /\ UNCHANGED events
    /\ Goto(h, IF req[h].type = "upload.started" THEN "createVideo" ELSE "publishEvent")
    /\ UNCHANGED <<catalog, stage, runs, exchange, stores, excused, sent, crashes>>

(* events.Service.ProcessEvent, one step per call.  A failed write may     *)
(* have been applied all the same: only its answer was lost.               *)
SaveEvent(h) ==
    LET e == req[h]
    IN  /\ At(h, "saveEvent")
        /\ \/ /\ Fine
              /\ InsertEvent(e)
              /\ IF e.type # "upload.started" THEN Goto(h, "publishEvent")
                 ELSE IF e.videoId = NoVideo THEN Answer(h, 500)
                 ELSE Goto(h, "createVideo")
           \/ /\ Fault
              /\ InsertEvent(e) \/ UNCHANGED events
              /\ Answer(h, 500)
        /\ UNCHANGED <<catalog, stage, runs, exchange, stores, excused, sent, crashes>>

(* Mutant: a duplicate key is taken for success, as a retry of the insert. *)
CreateVideoTolerant(h) ==
    LET e == req[h]
    IN  /\ At(h, "createVideo")
        /\ Fine
        /\ \/ Create(Doc(e.videoId, e.filename, "uploading", e.sel))
           \/ DuplicateKey(e.videoId) /\ UNCHANGED catalog
        /\ Goto(h, "publishEvent")
        /\ UNCHANGED <<events, stage, runs, exchange, stores, excused, sent, crashes>>

CreateVideo(h) ==
    LET e == req[h]
    IN  /\ At(h, "createVideo")
        /\ \/ /\ Fine
              /\ Create(Doc(e.videoId, e.filename, "uploading", e.sel))
              /\ Goto(h, "publishEvent")
           \/ /\ Fine
              /\ DuplicateKey(e.videoId)
              /\ UNCHANGED catalog
              /\ Answer(h, 500)
           \/ /\ Fault
              /\ \/ UNCHANGED catalog
                 \/ Create(Doc(e.videoId, e.filename, "uploading", e.sel))
              /\ Answer(h, 500)
        /\ UNCHANGED <<events, stage, runs, exchange, stores, excused, sent, crashes>>

Message(source, type, e) ==
    [source |-> source, type |-> type, videoId |-> e.videoId, key |-> e.key,
     sel |-> e.sel, found |-> e.found]

PublishEvent(h) ==
    LET e == req[h]
    IN  /\ At(h, "publishEvent")
        /\ \/ /\ PublishOk(Message("event", e.type, e))
              /\ IF e.type = "transcode.completed" THEN Goto(h, "writeRun")
                                                   ELSE Answer(h, 202)
           \/ PublishErr /\ Answer(h, 500)
        /\ UNCHANGED <<catalog, events, stage, runs, stores, excused, sent, crashes>>

(* Mutant: a payload without a job id is upserted too. *)
WriteRunWithoutJob(h) ==
    /\ At(h, "writeRun")
    /\ Fine /\ runs' = runs \cup {req[h].videoId}
    /\ Answer(h, 202)
    /\ UNCHANGED <<catalog, events, stage, exchange, stores, excused, sent, crashes>>

(* runs.Service.UpsertFromEvent, best effort; no job id, no run. *)
WriteRun(h) ==
    /\ At(h, "writeRun")
    /\ \/ /\ Fine \/ Fault
          /\ runs' = runs \cup ({req[h].videoId} \ {NoVideo})
       \/ Fault /\ UNCHANGED runs
    /\ Answer(h, 202)
    /\ UNCHANGED <<catalog, events, stage, exchange, stores, excused, sent, crashes>>

-----------------------------------------------------------------------------
(* POST /webhooks/storage/:provider.  The store delivers a notification    *)
(* until it is answered 200, and may deliver it again meanwhile.           *)
ReceiveWebhook(h, o) ==
    /\ At(h, "idle")
    /\ o \in owed
    /\ \E n \in CreationNotices(o.provider, o.key) :
          LET e == ParseWebhook(o.provider, n)
          IN  req' = [req EXCEPT ![h] =
                 IF e.result = "event"
                 THEN [Idle EXCEPT !.pc = "lookup", !.obj = o,
                          !.videoId = e.videoId, !.filename = e.filename,
                          !.key = e.objectKey]
                 ELSE [Idle EXCEPT !.pc = "replying", !.obj = o,
                          !.status = IF e.result = "ignored" THEN 200 ELSE 400]]
    /\ UNCHANGED <<services, stores, excused, sent, faults, crashes>>

(* Mutant: the found document's selection is not copied to the event. *)
LookupVideoForgets(h) ==
    /\ At(h, "lookup") /\ Fine
    /\ req' = [req EXCEPT ![h].pc = "saveVideo",
                          ![h].found = (Found(req[h].videoId) # {})]
    /\ UNCHANGED <<services, stores, excused, sent, crashes>>

(* FindByVideoID.  A failed lookup is taken for a missing document. *)
LookupVideo(h) ==
    /\ At(h, "lookup")
    /\ \/ /\ Fine
          /\ \E i \in Found(req[h].videoId) :
                req' = [req EXCEPT ![h].pc = "saveVideo", ![h].found = TRUE,
                                   ![h].sel = catalog[i].sel]
       \/ /\ Fine /\ Found(req[h].videoId) = {} /\ Goto(h, "saveVideo")
       \/ Fault /\ Goto(h, "saveVideo")
    /\ UNCHANGED <<services, stores, excused, sent, crashes>>

(* The videos whose document the next call of h upserts. *)
Upserted(h) ==
    IF At(h, "saveVideo") THEN {req[h].videoId}
    ELSE IF At(h, "saveListed") THEN {ListedVideo(o.key).videoId : o \in req[h].todo}
    ELSE {}

(* Without the unique index other writers run between the match of an      *)
(* upsert and its insert.                                                  *)
MatchNothing(h) ==
    /\ ~UniqueIndex /\ req[h].missed = NoVideo
    /\ \E v \in Upserted(h) : /\ Found(v) = {}
                              /\ req' = [req EXCEPT ![h].missed = v]
    /\ UNCHANGED <<services, stores, excused, sent, faults, crashes>>

(* Mutants: a failed Save is passed over like a failed patch; the message  *)
(* is published without the patch that must precede it.                    *)
SaveVideoBestEffort(h) ==
    LET e == req[h]
    IN  /\ At(h, "saveVideo")
        /\ \/ Fine /\ Save(h, Doc(e.videoId, e.filename, "uploaded", e.sel))
           \/ Fault /\ UNCHANGED catalog
        /\ Goto(h, "confirm")
        /\ UNCHANGED <<events, stage, runs, exchange, stores, excused, sent, crashes>>

SaveVideoThenPublish(h) ==
    LET e == req[h]
    IN  /\ At(h, "saveVideo") /\ Fine
        /\ Save(h, Doc(e.videoId, e.filename, "uploaded", e.sel))
        /\ Goto(h, "publishCompleted")
        /\ UNCHANGED <<events, stage, runs, exchange, stores, excused, sent, crashes>>

SaveVideo(h) ==
    LET e == req[h]
    IN  /\ At(h, "saveVideo")
        /\ \/ /\ Fine
              /\ Save(h, Doc(e.videoId, e.filename, "uploaded", e.sel))
              /\ req' = [req EXCEPT ![h].pc = "confirm", ![h].missed = NoVideo]
           \/ /\ Fault
              /\ \/ UNCHANGED catalog
                 \/ Save(h, Doc(e.videoId, e.filename, "uploaded", e.sel))
              /\ Answer(h, 400)
        /\ UNCHANGED <<events, stage, runs, exchange, stores, excused, sent, crashes>>

Excuse(v, why) == excused' = [excused EXCEPT ![v] = @ \cup {why}]

(* PatchVideo(storage_confirmed_at): never an upsert; a missing document   *)
(* and an error are both passed over.                                      *)
ConfirmStorage(h) ==
    LET v == req[h].videoId
    IN  /\ At(h, "confirm")
        /\ \/ /\ Fine \/ Fault
              /\ stage[v] # "none"
              /\ stage' = [stage EXCEPT ![v] = "confirmed"]
              /\ UNCHANGED excused
           \/ /\ Fine \/ Fault
              /\ stage[v] = "none"
              /\ Excuse(v, "missing") /\ UNCHANGED stage
           \/ /\ Fault
              /\ stage[v] # "none"
              /\ Excuse(v, "failed") /\ UNCHANGED stage
        /\ Goto(h, "publishCompleted")
        /\ UNCHANGED <<catalog, events, runs, exchange, stores, sent, crashes>>

(* Mutant: the store is told 200 although the publish failed. *)
PublishCompletedAlways200(h) ==
    /\ At(h, "publishCompleted")
    /\ \/ PublishOk(Message("webhook", "upload.completed", req[h]))
       \/ PublishErr
    /\ Answer(h, 200)
    /\ UNCHANGED <<catalog, events, stage, runs, stores, excused, sent, crashes>>

PublishCompleted(h) ==
    /\ At(h, "publishCompleted")
    /\ \/ PublishOk(Message("webhook", "upload.completed", req[h])) /\ Answer(h, 200)
       \/ PublishErr /\ Answer(h, 400)
    /\ UNCHANGED <<catalog, events, stage, runs, stores, excused, sent, crashes>>

-----------------------------------------------------------------------------
(* GET /videos: ListAllVideos reads the catalog, then collectStorageVideos *)
(* saves every object of every adapter as "ready".                         *)
StartListing(h) ==
    /\ At(h, "idle")
    /\ \/ Fine /\ req' = [req EXCEPT ![h] = [Idle EXCEPT !.pc = "listBucket",
                                                         !.left = storageAdapters]]
       \/ Fault /\ req' = [req EXCEPT ![h] = [Idle EXCEPT !.pc = "replying",
                                                          !.status = 500]]
    /\ UNCHANGED <<services, stores, excused, sent, crashes>>

(* "minio" is listed first.  A provider that cannot be listed is skipped.  *)
ListBucket(h) ==
    LET p == IF "minio" \in req[h].left THEN "minio" ELSE "aws-s3"
    IN  /\ At(h, "listBucket")
        /\ req[h].left # {}
        /\ \/ /\ Fine
              /\ req' = [req EXCEPT ![h].pc = "saveListed", ![h].left = @ \ {p},
                   ![h].todo = {o \in bucket : o.provider = p /\ isListed(o.key)}]
           \/ Fault /\ req' = [req EXCEPT ![h].left = @ \ {p}]
        /\ UNCHANGED <<services, stores, excused, sent, crashes>>

(* One Save of the loop; a failed one ends the listing, and ListAllVideos  *)
(* answers from the catalog all the same.                                  *)
SaveListed(h) ==
    /\ At(h, "saveListed")
    /\ \E o \in req[h].todo :
          LET v   == ListedVideo(o.key)
              doc == Doc(v.videoId, v.filename, "ready", NoSelection)
          IN  \/ /\ Fine /\ Save(h, doc)
                 /\ req' = [req EXCEPT ![h].todo = @ \ {o}, ![h].missed = NoVideo]
              \/ Fault /\ (UNCHANGED catalog \/ Save(h, doc)) /\ Answer(h, 200)
    /\ UNCHANGED <<events, stage, runs, exchange, stores, excused, sent, crashes>>

NextProvider(h) ==
    /\ At(h, "saveListed") /\ req[h].todo = {}
    /\ Goto(h, "listBucket")
    /\ UNCHANGED <<services, stores, excused, sent, faults, crashes>>

EndListing(h) ==
    /\ At(h, "listBucket") /\ req[h].left = {}
    /\ Answer(h, 200)
    /\ UNCHANGED <<services, stores, excused, sent, faults, crashes>>

-----------------------------------------------------------------------------
(* The response reaches the client; a store told 200 stops delivering.     *)
Reply(h) ==
    /\ At(h, "replying")
    /\ owed' = IF req[h].status = 200 THEN owed \ {req[h].obj} ELSE owed
    /\ req' = [req EXCEPT ![h] = Idle]
    /\ UNCHANGED <<services, bucket, excused, sent, faults, crashes>>

(* The process stops and main starts it again: every request is forgotten. *)
Crash ==
    /\ crashes < MaxCrashes
    /\ crashes' = crashes + 1
    /\ req' = [h \in Handlers |-> Idle]
    /\ UNCHANGED <<services, stores, excused, sent, faults>>

(* The outside world: a front end or the pipeline writes an object; the    *)
(* upload UI creates and deletes upload-state documents.                   *)
PutObject(o) ==
    /\ o \notin bucket
    /\ bucket' = bucket \cup {o}
    /\ owed' = owed \cup {o}
    /\ UNCHANGED <<services, req, excused, sent, faults, crashes>>

UIPutVideo(v) ==
    /\ stage[v] = "none"
    /\ stage' = [stage EXCEPT ![v] = "pending"]
    /\ UNCHANGED <<catalog, events, runs, exchange, stores, req, excused,
                   sent, faults, crashes>>

UIDeleteVideo(v) ==
    /\ stage[v] # "none"
    /\ stage' = [stage EXCEPT ![v] = "none"]
    /\ Excuse(v, "missing")
    /\ UNCHANGED <<catalog, events, runs, exchange, stores, req, sent, faults, crashes>>

-----------------------------------------------------------------------------
Init ==
    /\ catalog = <<>> /\ exchange = <<>>
    /\ events = [e \in EventTypes \X (VideoIds \cup {NoVideo}) |-> 0]
    /\ stage = [v \in VideoIds |-> "none"]
    /\ runs = {} /\ bucket = {} /\ owed = {}
    /\ excused = [v \in VideoIds |-> {}]
    /\ req = [h \in Handlers |-> Idle]
    /\ sent = 0 /\ faults = 0 /\ crashes = 0

(* The steps a request takes once it has been received. *)
HandlerStep(h) ==
    \/ SaveEvent(h) \/ CreateVideo(h) \/ PublishEvent(h) \/ WriteRun(h)
    \/ LookupVideo(h) \/ SaveVideo(h) \/ ConfirmStorage(h) \/ PublishCompleted(h)
    \/ ListBucket(h) \/ SaveListed(h) \/ NextProvider(h) \/ EndListing(h)
    \/ MatchNothing(h) \/ Reply(h)

Deliver(o) == \E h \in Handlers : ReceiveWebhook(h, o)

Environment ==
    \/ \E o \in Objects : PutObject(o)
    \/ \E v \in VideoIds : UIPutVideo(v) \/ UIDeleteVideo(v)
    \/ Crash

Next ==
    \/ \E h \in Handlers : ReceiveEvent(h) \/ StartListing(h) \/ HandlerStep(h)
    \/ \E o \in Objects : Deliver(o)
    \/ Environment

Spec == Init /\ [][Next]_vars

(* fiber runs every request to its end, and the store redelivers what was  *)
(* not answered 200 until some request slot takes it.                      *)
Fairness == /\ \A h \in Handlers : WF_vars(HandlerStep(h))
            /\ \A o \in Objects : SF_vars(Deliver(o))

FairSpec == Spec /\ Fairness
=============================================================================
