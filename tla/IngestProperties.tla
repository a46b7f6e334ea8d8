-------------------------- MODULE IngestProperties ---------------------------
(***************************************************************************)
(* What the gateway's write paths are meant to guarantee, whatever the     *)
(* interleaving of requests, the failures of the services and the crashes. *)
(***************************************************************************)
EXTENDS Ingest, FiniteSets

Docs     == [videoId : VideoIds, filename : Filenames,
             status : {"uploading", "uploaded", "ready"}, sel : Selections]

Messages == [source : {"event", "webhook"}, type : EventTypes \cup {"upload.completed"},
             videoId : VideoIds \cup {NoVideo}, key : Keys \cup {NoKey},
             sel : Selections, found : BOOLEAN]

Requests == [pc : PCs, type : EventTypes \cup {""}, videoId : VideoIds \cup {NoVideo},
             filename : Filenames, key : Keys \cup {NoKey}, sel : Selections,
             found : BOOLEAN, missed : VideoIds \cup {NoVideo},
             obj : Objects \cup {NoObject},
             todo : SUBSET Objects, left : SUBSET storageAdapters, status : Statuses]

(* The type invariant.  A run is only ever recorded for a real video id:   *)
(* UpsertFromEvent ignores a payload without a job id.                     *)
TypeOK ==
    /\ catalog \in Seq(Docs)
    /\ events \in [EventTypes \X (VideoIds \cup {NoVideo}) -> Nat]
    /\ stage \in [VideoIds -> {"none", "pending", "confirmed"}]
    /\ runs \subseteq VideoIds
    /\ exchange \in Seq(Messages)
    /\ bucket \subseteq Objects /\ owed \subseteq bucket
    /\ req \in [Handlers -> Requests]
    /\ excused \in [VideoIds -> SUBSET {"missing", "failed"}]
    /\ sent \in 0..MaxEvents /\ faults \in 0..MaxFaults /\ crashes \in 0..MaxCrashes

-----------------------------------------------------------------------------
(* The videos_catalog collection *)

(* One document per video (mongoindex/indexes.go:22-25): events insert,    *)
(* webhooks and listings upsert, and they race on a new video id.          *)
OneDocPerVideo ==
    \A i, j \in DOMAIN catalog : catalog[i].videoId = catalog[j].videoId => i = j

(* The selection stored with a document never changes again: neither a     *)
(* webhook whose lookup came too early or failed, nor a listing, nor a     *)
(* second upload.started erases or replaces it (webhooks/service.go:54-56, *)
(* and the omitempty tags of videos/repository.go:24-30).                  *)
SelectionFrozen ==
    [][\A i \in DOMAIN catalog : /\ i \in DOMAIN catalog'
                                 /\ catalog'[i].sel = catalog[i].sel]_catalog

(* Once its object is known to be stored a document never falls back to    *)
(* "uploading", however late the upload.started event arrives.             *)
StatusNeverRegresses ==
    [][\A i \in DOMAIN catalog :
          catalog'[i].status = "uploading" => catalog[i].status = "uploading"]_catalog

-----------------------------------------------------------------------------
(* What is published                                                       *)
(*                                                                         *)
(* Consumers see routing keys, not sources: an upload.completed that a     *)
(* front end posts goes out as video.upload.completed too, with whatever   *)
(* payload it has and nothing checked (events/service.go:44-64, 78-83).    *)
(* What is said of Webhooked is said of the messages of the storage        *)
(* webhook alone.                                                          *)

Webhooked == {i \in DOMAIN exchange : exchange[i].source = "webhook"}

(* The storage webhook only announces a video whose catalog document       *)
(* already says that the object is stored: Save failing stops the webhook. *)
(* A front end's own upload.completed has no such check.                   *)
StoredBeforeCompleted ==
    \A i \in Webhooked : \E d \in DOMAIN catalog :
        /\ catalog[d].videoId = exchange[i].videoId
        /\ catalog[d].status # "uploading"

(* The selection forwarded to the transcoder is the one the document holds *)
(* now, if the lookup found the document, and none otherwise: no webhook   *)
(* forwards a stale or a mixed selection.                                  *)
ForwardedSelection ==
    \A i \in Webhooked : \E d \in DOMAIN catalog :
        /\ catalog[d].videoId = exchange[i].videoId
        /\ exchange[i].sel = IF exchange[i].found THEN catalog[d].sel ELSE NoSelection

(* video.upload.started is announced at most once per video, whatever the  *)
(* front end retries: the insert that precedes it succeeds once.           *)
StartedOnce ==
    \A i, j \in DOMAIN exchange :
        /\ exchange[i].type = "upload.started" /\ exchange[j].type = "upload.started"
        /\ exchange[i].videoId = exchange[j].videoId
        => i = j

(* The start of a video is announced by the request whose insert made its  *)
(* document, or never: once that request is over, by an answer or by a     *)
(* crash, no retry announces it, neither a second time nor to make good a  *)
(* publish that failed (events/service.go:56-64).                          *)
StartsOf(v) == {i \in DOMAIN exchange : /\ exchange[i].type = "upload.started"
                                        /\ exchange[i].videoId = v}

Starting(h) == At(h, "publishEvent") /\ req[h].type = "upload.started"

Settled(v) == /\ Found(v) # {}
              /\ \A h \in Handlers : ~(Starting(h) /\ req[h].videoId = v)

StartSettles ==
    [][\A v \in VideoIds : Settled(v) => Settled(v)' /\ StartsOf(v)' = StartsOf(v)]_vars

(* Every front-end message on the exchange has its own record in the       *)
(* events collection (ProcessEvent saves first and stops if it cannot).    *)
FrontEndMessages(t, v) ==
    {i \in DOMAIN exchange : /\ exchange[i].source = "event"
                             /\ exchange[i].type = t /\ exchange[i].videoId = v}

EventsAreRecorded ==
    \A t \in EventTypes, v \in VideoIds \cup {NoVideo} :
        Cardinality(FrontEndMessages(t, v)) <= events[<<t, v>>]

(* A video that the webhook announces, which starts stage 4, is confirmed  *)
(* in its upload-state document, which is stage 3, except when there was   *)
(* no document, the UI deleted it, or the patch failed: no step skips or   *)
(* withdraws the confirmation otherwise, no later PUT and no retry.  That  *)
(* a failed patch is excused is the code's doing (webhooks/service.go:     *)
(* 94-97); see StageThreeBeforeFour.                                       *)
StageThreeUnlessFailed ==
    \A i \in Webhooked : \/ stage[exchange[i].videoId] = "confirmed"
                         \/ excused[exchange[i].videoId] # {}

(* The webhook never announces a pipeline output as a completed upload,    *)
(* however its key is encoded (adapters/common_storage.go:14-24).          *)
PipelineOutputsNotAnnounced ==
    \A i \in Webhooked : ~isPipelineOutputKey(exchange[i].key)

(* An upload whose notification was answered 200 has been announced by the *)
(* webhook: the store stops delivering only after Publish returned.        *)
IsUpload(o) == ~isPipelineOutputKey(o.key)

Announced(o) == \E i \in Webhooked : exchange[i].key \in {o.key, Escaped[o.key]}

AnsweredMeansAnnounced ==
    \A o \in bucket \ owed : IsUpload(o) => Announced(o)

(* Every upload stored in MinIO is eventually announced, through transient *)
(* failures and crashes, because MinIO redelivers what was not answered    *)
(* 200.  EventBridge gives up after its window (docs/upload-status-        *)
(* stages.md:105-108), so nothing is claimed of uploads to S3.             *)
EveryUploadAnnounced ==
    \A o \in Objects : IsUpload(o) => (o \in bucket ~> Announced(o))

-----------------------------------------------------------------------------
(* The inductive invariant: what a webhook in flight, and the message it   *)
(* leaves, still owe to the catalog and to the upload-state document.      *)
(* Only what is said of selections, and of one document, needs the index.  *)

Holds(v, sel) ==
    \E d \in DOMAIN catalog : catalog[d].videoId = v /\ catalog[d].sel = sel

Stored(v) ==
    \E d \in DOMAIN catalog : catalog[d].videoId = v /\ catalog[d].status # "uploading"

Carried(found, v, sel) ==
    IF found THEN UniqueIndex => Holds(v, sel) ELSE sel = NoSelection

Staged(v) == stage[v] = "confirmed" \/ excused[v] # {}

RequestInv(h) ==
    LET r == req[h]
    IN  /\ r.pc \in {"saveEvent", "createVideo", "publishEvent", "writeRun"} =>
              r.type \in EventTypes
        /\ r.pc = "createVideo" => r.videoId \in VideoIds
        /\ r.pc \in {"lookup", "saveVideo", "confirm", "publishCompleted"} =>
              r.videoId \in VideoIds /\ ~isPipelineOutputKey(r.key)
        /\ r.pc = "lookup" => r.sel = NoSelection /\ ~r.found
        /\ r.pc \in {"saveVideo", "confirm", "publishCompleted"} =>
              Carried(r.found, r.videoId, r.sel)
        /\ r.pc \in {"confirm", "publishCompleted"} => Stored(r.videoId)
        /\ r.pc = "publishCompleted" => Staged(r.videoId)

IndexKept == UniqueIndex => OneDocPerVideo

(* The index leaves no time between the match of an upsert and its insert. *)
NoneMissed == UniqueIndex => \A h \in Handlers : req[h].missed = NoVideo

MessageInv(m) ==
    m.source = "webhook" =>
        /\ m.videoId \in VideoIds /\ ~isPipelineOutputKey(m.key)
        /\ Carried(m.found, m.videoId, m.sel)
        /\ Stored(m.videoId) /\ Staged(m.videoId)

IngestInv ==
    /\ TypeOK
    /\ IndexKept /\ NoneMissed
    /\ \A h \in Handlers : RequestInv(h)
    /\ \A i \in DOMAIN exchange : MessageInv(exchange[i])

-----------------------------------------------------------------------------
(* The inductive invariants of the messages: what a request in flight owes *)
(* to the event log, to the other requests and to the store.               *)

Started(v) == \E i \in DOMAIN exchange :
    exchange[i].type = "upload.started" /\ exchange[i].videoId = v

(* Only the request whose insert made the document announces its start.    *)
StartInv ==
    /\ StartedOnce
    /\ \A v \in VideoIds \cup {NoVideo} : Started(v) => Found(v) # {}
    /\ \A h \in Handlers : At(h, "createVideo") => req[h].type = "upload.started"
    /\ \A h \in Handlers : Starting(h) => /\ Found(req[h].videoId) # {}
                                          /\ ~Started(req[h].videoId)
    /\ \A g, h \in Handlers :
          Starting(g) /\ Starting(h) /\ req[g].videoId = req[h].videoId => g = h

(* A webhook works on a stored object under one of its two keys, and only  *)
(* answers 200 once an upload has been announced.                          *)
AnswerOk(r) ==
    /\ r.obj # NoObject => r.obj \in bucket
    /\ r.pc \in {"saveEvent", "createVideo", "publishEvent", "writeRun",
                 "listBucket", "saveListed"} => r.obj = NoObject
    /\ r.pc \in {"lookup", "saveVideo", "confirm", "publishCompleted"} =>
          r.obj # NoObject /\ r.key \in {r.obj.key, Escaped[r.obj.key]}
    /\ r.pc = "replying" /\ r.status = 200 /\ r.obj # NoObject =>
          (IsUpload(r.obj) => Announced(r.obj))

AnswerInv ==
    /\ AnsweredMeansAnnounced
    /\ \A h \in Handlers : AnswerOk(req[h])

(* The requests whose event is recorded and not yet published. *)
Unpublished(t, v) ==
    {h \in Handlers : /\ req[h].pc \in {"createVideo", "publishEvent"}
                      /\ req[h].type = t /\ req[h].videoId = v}

RecordInv ==
    \A t \in EventTypes, v \in VideoIds \cup {NoVideo} :
        /\ IsFiniteSet(Unpublished(t, v))
        /\ Cardinality(FrontEndMessages(t, v)) + Cardinality(Unpublished(t, v))
              <= events[<<t, v>>]

-----------------------------------------------------------------------------
(* What the documentation says and the code does not do; each is refuted   *)
(* by a run of its own.                                                    *)

(* docs/transcode-selection-propagation.md:67-68: replayed webhooks forward *)
(* the same selection.                                                     *)
ReplaysForwardSameSelection ==
    \A i, j \in Webhooked :
        exchange[i].videoId = exchange[j].videoId => exchange[i].sel = exchange[j].sel

(* SPEC.md:41-43 and docs/upload-status-stages.md:19-22: patching before   *)
(* publishing guarantees that stage 3 is seen before stage 4, and only a   *)
(* missing document is tolerated (lines 44-49).                            *)
StageThreeBeforeFour ==
    \A i \in Webhooked :
        \/ stage[exchange[i].videoId] = "confirmed"
        \/ "missing" \in excused[exchange[i].videoId]

(* adapters/common_storage.go:20-24: pipeline outputs are never ingested   *)
(* as new video uploads, so none of them is a video of the catalog.        *)
PipelineOutputsNotCatalogued ==
    \A d \in DOMAIN catalog, o \in bucket :
        isPipelineOutputKey(o.key) =>
            parseStorageKey(o.key) # [videoId  |-> catalog[d].videoId,
                                      filename |-> catalog[d].filename]

-----------------------------------------------------------------------------
(* The abstract specification.  A video's phase is read off its document.  *)
TheDoc(v) == catalog[CHOOSE i \in DOMAIN catalog : catalog[i].videoId = v]

PhaseOf(v) == IF Found(v) = {} THEN "absent"
              ELSE IF TheDoc(v).status = "uploading" THEN "uploading" ELSE "stored"

SelectionOf(v) == IF Found(v) = {} THEN NoSelection ELSE TheDoc(v).sel

Lifecycle == INSTANCE UploadLifecycle WITH
    phase     <- [v \in VideoIds |-> PhaseOf(v)],
    selection <- [v \in VideoIds |-> SelectionOf(v)],
    announced <- exchange

(* The gateway implements it: every step of a handler registers, stores or *)
(* announces one video, or changes nothing a consumer relies on.           *)
ImplementsLifecycle == Lifecycle!Spec
=============================================================================
