---------------------------- MODULE IngestProofs -----------------------------
(***************************************************************************)
(* Theorems about Ingest, for every set of handlers, objects, videos and   *)
(* selections and whatever the bounds.                                     *)
(***************************************************************************)
EXTENDS IngestProperties, TLAPS

LEMMA NoSelectionType == NoSelection \in Selections
BY DEF NoSelection, Selections

LEMMA LabelType ==
    /\ "idle" \in PCs /\ "saveEvent" \in PCs /\ "createVideo" \in PCs
    /\ "publishEvent" \in PCs /\ "writeRun" \in PCs /\ "lookup" \in PCs
    /\ "saveVideo" \in PCs /\ "confirm" \in PCs /\ "publishCompleted" \in PCs
    /\ "listBucket" \in PCs /\ "saveListed" \in PCs /\ "replying" \in PCs
    /\ 0 \in Statuses /\ 200 \in Statuses /\ 202 \in Statuses
    /\ 400 \in Statuses /\ 500 \in Statuses
BY DEF PCs, Statuses

LEMMA IdleType == Idle \in Requests
BY IngestAssumption, NoSelectionType
   DEF Idle, Requests, PCs, Statuses, NoKey, IngestAssumption

LEMMA AnsweredAtOnceType ==
    ASSUME NEW s \in Statuses
    PROVE  /\ [Idle EXCEPT !.pc = "replying", !.status = s] \in Requests
           /\ \A o \in Objects :
                 [Idle EXCEPT !.pc = "replying", !.obj = o, !.status = s] \in Requests
<1>1. "replying" \in PCs
  BY LabelType
<1> QED
  BY <1>1, IdleType DEF Requests

LEMMA SetOmitEmptyType ==
    ASSUME NEW old \in Selections, NEW new \in Selections
    PROVE  SetOmitEmpty(old, new) \in Selections
BY DEF SetOmitEmpty, Selections

LEMMA DocType ==
    ASSUME catalog \in Seq(Docs), NEW i \in DOMAIN catalog
    PROVE  /\ catalog[i] \in Docs /\ catalog[i].sel \in Selections
           /\ catalog[i].videoId \in VideoIds
<1>1. catalog[i] \in Docs
  OBVIOUS
<1> QED
  BY <1>1 DEF Docs

LEMMA SaveType ==
    ASSUME catalog \in Seq(Docs), NEW h \in Handlers, NEW d \in Docs, Save(h, d)
    PROVE  catalog' \in Seq(Docs)
<1>1. CASE catalog' = Append(catalog, d)
  BY <1>1
<1>2. ASSUME NEW i \in Found(d.videoId),
             catalog' = [catalog EXCEPT
                ![i] = [d EXCEPT !.sel = SetOmitEmpty(catalog[i].sel, d.sel)]]
      PROVE  catalog' \in Seq(Docs)
  <2>1. i \in DOMAIN catalog /\ catalog[i] \in Docs
    BY <1>2 DEF Found
  <2>2. SetOmitEmpty(catalog[i].sel, d.sel) \in Selections
    BY <2>1, SetOmitEmptyType DEF Docs
  <2>3. [d EXCEPT !.sel = SetOmitEmpty(catalog[i].sel, d.sel)] \in Docs
    BY <2>2 DEF Docs
  <2> QED
    BY <1>2, <2>1, <2>3
<1> QED
  BY <1>1, <1>2 DEF Save

LEMMA CreateType ==
    ASSUME catalog \in Seq(Docs), NEW d \in Docs, Create(d)
    PROVE  catalog' \in Seq(Docs)
BY DEF Create

LEMMA BoundsType == MaxEvents \in Nat /\ MaxFaults \in Nat /\ MaxCrashes \in Nat
BY IngestAssumption, Zenon DEF IngestAssumption

LEMMA FaultType ==
    ASSUME faults \in 0..MaxFaults, Fine \/ Fault
    PROVE  faults' \in 0..MaxFaults
<1>1. CASE Fine
  BY <1>1 DEF Fine
<1>2. CASE Fault
  BY <1>2, BoundsType DEF Fault
<1> QED
  BY <1>1, <1>2

LEMMA GotoType ==
    ASSUME req \in [Handlers -> Requests], NEW h \in Handlers,
           NEW pc \in PCs, Goto(h, pc)
    PROVE  req' \in [Handlers -> Requests]
<1>1. req[h] \in Requests
  OBVIOUS
<1>2. [req[h] EXCEPT !.pc = pc] \in Requests
  BY <1>1 DEF Requests
<1>3. req' = [req EXCEPT ![h] = [req[h] EXCEPT !.pc = pc]]
  BY DEF Goto
<1> QED
  BY <1>2, <1>3

LEMMA AnswerType ==
    ASSUME req \in [Handlers -> Requests], NEW h \in Handlers,
           NEW s \in Statuses, Answer(h, s)
    PROVE  req' \in [Handlers -> Requests]
<1>1. req[h] \in Requests /\ "replying" \in PCs
  BY DEF PCs
<1>2. [req[h] EXCEPT !.pc = "replying", !.status = s] \in Requests
  BY <1>1 DEF Requests
<1>3. req' = [req EXCEPT ![h] = [req[h] EXCEPT !.pc = "replying", !.status = s]]
  BY <1>1 DEF Answer
<1> QED
  BY <1>2, <1>3

LEMMA MessageType ==
    ASSUME NEW e \in Requests, NEW t \in EventTypes \cup {"upload.completed"},
           NEW source \in {"event", "webhook"}
    PROVE  Message(source, t, e) \in Messages
BY DEF Message, Messages, Requests

(* What a creation notice parses to is typed. *)
LEMMA NoticeType ==
    ASSUME NEW o \in Objects, NEW n \in CreationNotices(o.provider, o.key),
           ParseWebhook(o.provider, n).result = "event"
    PROVE  /\ ParseWebhook(o.provider, n).videoId \in VideoIds
           /\ ParseWebhook(o.provider, n).filename \in Filenames
           /\ ParseWebhook(o.provider, n).objectKey \in Keys
           /\ ParseWebhook(o.provider, n).objectKey = n.key
           /\ ~isPipelineOutputKey(n.key)
<1>1. n.key \in Keys
  BY ObjectsAssumption, KeysAssumption
     DEF ObjectsAssumption, KeysAssumption, CreationNotices
<1>2. /\ ParseWebhook(o.provider, n).objectKey = n.key
      /\ ~isPipelineOutputKey(n.key)
  BY DEF ParseWebhook, MinioParseEvent, S3ParseEvent, newStorageDomainEvent,
         ParseError, Ignored
<1> QED
  BY <1>1, <1>2, ObjectsAssumption DEF ObjectsAssumption

-----------------------------------------------------------------------------
(* Type correctness, one lemma per kind of step. *)

LEMMA InitType == Init => TypeOK
<1> SUFFICES ASSUME Init PROVE TypeOK
  OBVIOUS
<1>1. req \in [Handlers -> Requests]
  BY IdleType DEF Init
<1>2. /\ sent \in 0..MaxEvents /\ faults \in 0..MaxFaults
      /\ crashes \in 0..MaxCrashes
  BY BoundsType DEF Init
<1>3. catalog \in Seq(Docs) /\ exchange \in Seq(Messages)
  BY DEF Init
<1>4. /\ events \in [EventTypes \X (VideoIds \cup {NoVideo}) -> Nat]
      /\ stage \in [VideoIds -> {"none", "pending", "confirmed"}]
      /\ runs \subseteq VideoIds /\ bucket \subseteq Objects
      /\ owed \subseteq bucket
      /\ excused \in [VideoIds -> SUBSET {"missing", "failed"}]
  BY DEF Init
<1> QED
  BY <1>1, <1>2, <1>3, <1>4 DEF TypeOK

LEMMA ReceiveEventType ==
    ASSUME TypeOK, NEW h \in Handlers, ReceiveEvent(h)
    PROVE  TypeOK'
<1>0. /\ req \in [Handlers -> Requests] /\ sent \in 0..MaxEvents
      /\ sent < MaxEvents /\ sent' = sent + 1
  BY DEF TypeOK, ReceiveEvent
<1>1. PICK type \in EventTypes, v \in Videos \cup {NoVideo}, sel \in Selections :
         req' = [req EXCEPT ![h] =
                IF type = ""
                THEN [Idle EXCEPT !.pc = "replying", !.status = 400]
                ELSE [Idle EXCEPT !.pc = "saveEvent", !.type = type,
                         !.videoId = v, !.filename = UploadName, !.sel = sel]]
  BY DEF ReceiveEvent
<1>2. v \in VideoIds \cup {NoVideo} /\ UploadName \in Filenames
  BY IngestAssumption DEF IngestAssumption
<1>3. [Idle EXCEPT !.pc = "replying", !.status = 400] \in Requests
  BY AnsweredAtOnceType, LabelType
<1>4. [Idle EXCEPT !.pc = "saveEvent", !.type = type, !.videoId = v,
                   !.filename = UploadName, !.sel = sel] \in Requests
  BY IdleType, LabelType, <1>2, ZenonT(60) DEF Requests
<1>5. req' \in [Handlers -> Requests]
  BY <1>0, <1>1, <1>3, <1>4
<1>6. sent' \in 0..MaxEvents
  BY <1>0, BoundsType
<1> QED
  BY <1>5, <1>6 DEF ReceiveEvent, services, stores, TypeOK

LEMMA SaveEventType ==
    ASSUME TypeOK, NEW h \in Handlers, RequestInv(h), SaveEvent(h)
    PROVE  TypeOK'
<1> USE DEF TypeOK
<1>1. req[h] \in Requests /\ req[h].type \in EventTypes
  BY DEF SaveEvent, At, RequestInv
<1>2. <<req[h].type, req[h].videoId>> \in EventTypes \X (VideoIds \cup {NoVideo})
  BY <1>1 DEF Requests
<1> DEFINE k == <<req[h].type, req[h].videoId>>
           Counts == [EventTypes \X (VideoIds \cup {NoVideo}) -> Nat]
<1>3. events' \in Counts
  <2>1. events \in Counts
    BY DEF TypeOK
  <2>2. events' = [events EXCEPT ![k] = @ + 1] \/ events' = events
    BY DEF SaveEvent, InsertEvent
  <2>3. events[k] + 1 \in Nat
    BY <2>1, <1>2
  <2> QED
    BY <2>1, <2>2, <2>3
<1>4. \/ Goto(h, "publishEvent") \/ Goto(h, "createVideo") \/ Answer(h, 500)
  BY DEF SaveEvent
<1>5. req' \in [Handlers -> Requests]
  BY <1>4, GotoType, AnswerType, LabelType
<1>6. faults' \in 0..MaxFaults
  BY FaultType DEF SaveEvent
<1> QED
  BY <1>3, <1>5, <1>6 DEF SaveEvent, stores

LEMMA CreateVideoType ==
    ASSUME TypeOK, NEW h \in Handlers, RequestInv(h), CreateVideo(h)
    PROVE  TypeOK'
<1> USE DEF TypeOK
<1>1. req[h] \in Requests /\ req[h].videoId \in VideoIds
  BY DEF CreateVideo, At, RequestInv
<1> DEFINE doc == Doc(req[h].videoId, req[h].filename, "uploading", req[h].sel)
<1>2. doc \in Docs
  BY <1>1 DEF Doc, Docs, Requests
<1>3. Create(doc) \/ UNCHANGED catalog
  BY DEF CreateVideo
<1>4. catalog' \in Seq(Docs)
  BY <1>2, <1>3, CreateType
<1>5. Goto(h, "publishEvent") \/ Answer(h, 500)
  BY DEF CreateVideo
<1>6. req' \in [Handlers -> Requests]
  BY <1>5, GotoType, AnswerType, LabelType
<1>7. faults' \in 0..MaxFaults
  BY FaultType DEF CreateVideo
<1> QED
  BY <1>4, <1>6, <1>7 DEF CreateVideo, stores

LEMMA PublishType ==
    ASSUME TypeOK, NEW m \in Messages, PublishOk(m) \/ PublishErr
    PROVE  exchange' \in Seq(Messages) /\ faults' \in 0..MaxFaults
<1>1. CASE PublishErr
  BY <1>1, FaultType DEF PublishErr, TypeOK
<1>2. CASE PublishOk(m)
  <2>1. Fine \/ Fault
    BY <1>2 DEF PublishOk
  <2>2. exchange' = Append(exchange, m) \/ exchange' = exchange
    BY <1>2 DEF PublishOk
  <2>3. exchange \in Seq(Messages) /\ faults \in 0..MaxFaults
    BY DEF TypeOK
  <2>4. exchange' \in Seq(Messages)
    BY <2>2, <2>3
  <2> QED
    BY <2>1, <2>3, <2>4, FaultType
<1> QED
  BY <1>1, <1>2

LEMMA PublishEventType ==
    ASSUME TypeOK, NEW h \in Handlers, RequestInv(h), PublishEvent(h)
    PROVE  TypeOK'
<1> USE DEF TypeOK
<1>1. req[h] \in Requests /\ req[h].type \in EventTypes
  BY DEF PublishEvent, At, RequestInv
<1>2. Message("event", req[h].type, req[h]) \in Messages
  BY <1>1, MessageType
<1>3. PublishOk(Message("event", req[h].type, req[h])) \/ PublishErr
  BY DEF PublishEvent
<1>4. exchange' \in Seq(Messages) /\ faults' \in 0..MaxFaults
  BY <1>2, <1>3, PublishType
<1>5. Goto(h, "writeRun") \/ Answer(h, 202) \/ Answer(h, 500)
  BY DEF PublishEvent
<1>6. req' \in [Handlers -> Requests]
  BY <1>5, GotoType, AnswerType, LabelType
<1> QED
  BY <1>4, <1>6 DEF PublishEvent, stores

LEMMA WriteRunType ==
    ASSUME TypeOK, NEW h \in Handlers, WriteRun(h)
    PROVE  TypeOK'
<1> USE DEF TypeOK
<1>1. runs' \subseteq VideoIds
  <2>1. req[h].videoId \in VideoIds \cup {NoVideo}
    BY DEF Requests
  <2>2. runs' = runs \cup ({req[h].videoId} \ {NoVideo}) \/ runs' = runs
    BY DEF WriteRun
  <2> QED
    BY <2>1, <2>2
<1>2. req' \in [Handlers -> Requests]
  BY AnswerType, LabelType DEF WriteRun
<1>3. faults' \in 0..MaxFaults
  BY FaultType DEF WriteRun
<1> QED
  BY <1>1, <1>2, <1>3 DEF WriteRun, stores

LEMMA ReceiveWebhookType ==
    ASSUME TypeOK, NEW h \in Handlers, NEW o \in Objects, ReceiveWebhook(h, o)
    PROVE  TypeOK'
<1>1. PICK n \in CreationNotices(o.provider, o.key) :
         req' = [req EXCEPT ![h] =
            IF ParseWebhook(o.provider, n).result = "event"
            THEN [Idle EXCEPT !.pc = "lookup", !.obj = o,
                     !.videoId = ParseWebhook(o.provider, n).videoId,
                     !.filename = ParseWebhook(o.provider, n).filename,
                     !.key = ParseWebhook(o.provider, n).objectKey]
            ELSE [Idle EXCEPT !.pc = "replying", !.obj = o,
                     !.status = IF ParseWebhook(o.provider, n).result = "ignored"
                                THEN 200 ELSE 400]]
  BY DEF ReceiveWebhook
<1> DEFINE e == ParseWebhook(o.provider, n)
           s == IF e.result = "ignored" THEN 200 ELSE 400
           asked    == [Idle EXCEPT !.pc = "lookup", !.obj = o, !.videoId = e.videoId,
                           !.filename = e.filename, !.key = e.objectKey]
           answered == [Idle EXCEPT !.pc = "replying", !.obj = o, !.status = s]
<1>2. s \in Statuses
  BY LabelType
<1>3. answered \in Requests
  BY <1>2, AnsweredAtOnceType, ZenonT(60)
<1>4. ASSUME e.result = "event" PROVE asked \in Requests
  <2>1. e.videoId \in VideoIds /\ e.filename \in Filenames /\ e.objectKey \in Keys
    BY <1>4, NoticeType
  <2>2. "lookup" \in PCs
    BY LabelType
  <2> HIDE DEF e
  <2> QED
    BY <2>1, <2>2, IdleType DEF Requests
<1>5. req' = [req EXCEPT ![h] = IF e.result = "event" THEN asked ELSE answered]
  BY <1>1
<1> HIDE DEF e, s, asked, answered
<1>6. req \in [Handlers -> Requests]
  BY DEF TypeOK
<1>7. req' \in [Handlers -> Requests]
  BY <1>3, <1>4, <1>5, <1>6
<1>8. UNCHANGED <<services, stores, excused, sent, faults, crashes>>
  BY DEF ReceiveWebhook
<1> QED
  BY <1>7, <1>8 DEF services, stores, TypeOK

LEMMA LookupVideoType ==
    ASSUME TypeOK, NEW h \in Handlers, LookupVideo(h)
    PROVE  TypeOK'
<1>1. /\ req \in [Handlers -> Requests] /\ faults \in 0..MaxFaults
      /\ catalog \in Seq(Docs) /\ req[h] \in Requests
  BY DEF TypeOK
<1>2. ASSUME Goto(h, "saveVideo") PROVE req' \in [Handlers -> Requests]
  BY <1>1, <1>2, GotoType, LabelType
<1>3. ASSUME NEW i \in Found(req[h].videoId),
             req' = [req EXCEPT ![h].pc = "saveVideo", ![h].found = TRUE,
                                ![h].sel = catalog[i].sel]
      PROVE  req' \in [Handlers -> Requests]
  <2>0. i \in DOMAIN catalog
    BY <1>3 DEF Found
  <2>1. catalog[i].sel \in Selections /\ "saveVideo" \in PCs
    BY <1>1, <2>0, DocType, LabelType
  <2>2. [req[h] EXCEPT !.pc = "saveVideo", !.found = TRUE, !.sel = catalog[i].sel]
            \in Requests
    BY <1>1, <2>1 DEF Requests
  <2>3. req' = [req EXCEPT ![h] = [req[h] EXCEPT
                  !.pc = "saveVideo", !.found = TRUE, !.sel = catalog[i].sel]]
    BY <1>1, <1>3
  <2> QED
    BY <1>1, <2>2, <2>3
<1>4. req' \in [Handlers -> Requests]
  <2>1. \/ Goto(h, "saveVideo")
        \/ \E i \in Found(req[h].videoId) :
              req' = [req EXCEPT ![h].pc = "saveVideo", ![h].found = TRUE,
                                 ![h].sel = catalog[i].sel]
    BY DEF LookupVideo
  <2> QED
    BY <1>2, <1>3, <2>1
<1>5. faults' \in 0..MaxFaults
  BY <1>1, FaultType DEF LookupVideo
<1> QED
  BY <1>4, <1>5 DEF LookupVideo, services, stores, TypeOK

LEMMA SaveVideoType ==
    ASSUME TypeOK, NEW h \in Handlers, RequestInv(h), SaveVideo(h)
    PROVE  TypeOK'
<1>1. /\ req \in [Handlers -> Requests] /\ faults \in 0..MaxFaults
      /\ catalog \in Seq(Docs) /\ req[h] \in Requests
  BY DEF TypeOK
<1> DEFINE doc == Doc(req[h].videoId, req[h].filename, "uploaded", req[h].sel)
<1>2. req[h].videoId \in VideoIds
  BY DEF SaveVideo, At, RequestInv
<1>3. doc \in Docs
  BY <1>1, <1>2 DEF Doc, Docs, Requests
<1>4. Save(h, doc) \/ UNCHANGED catalog
  BY DEF SaveVideo
<1>5. catalog' \in Seq(Docs)
  BY <1>1, <1>3, <1>4, SaveType
<1>6. \/ req' = [req EXCEPT ![h].pc = "confirm", ![h].missed = NoVideo]
      \/ Answer(h, 400)
  BY DEF SaveVideo
<1>7. req' \in [Handlers -> Requests]
  <2>1. [req[h] EXCEPT !.pc = "confirm", !.missed = NoVideo] \in Requests
    BY <1>1, LabelType DEF Requests
  <2>2. CASE req' = [req EXCEPT ![h].pc = "confirm", ![h].missed = NoVideo]
    <3>1. req' = [req EXCEPT ![h] = [req[h] EXCEPT !.pc = "confirm", !.missed = NoVideo]]
      BY <1>1, <2>2
    <3> QED
      BY <1>1, <2>1, <3>1
  <2> QED
    BY <1>1, <1>6, <2>2, AnswerType, LabelType
<1>8. faults' \in 0..MaxFaults
  BY <1>1, FaultType DEF SaveVideo
<1> QED
  BY <1>5, <1>7, <1>8 DEF SaveVideo, stores, TypeOK

LEMMA ExcuseType ==
    ASSUME excused \in [VideoIds -> SUBSET {"missing", "failed"}],
           NEW v \in VideoIds, NEW why \in {"missing", "failed"}, Excuse(v, why)
    PROVE  excused' \in [VideoIds -> SUBSET {"missing", "failed"}]
BY DEF Excuse

LEMMA ConfirmStorageType ==
    ASSUME TypeOK, NEW h \in Handlers, RequestInv(h), ConfirmStorage(h)
    PROVE  TypeOK'
<1>1. /\ req \in [Handlers -> Requests] /\ faults \in 0..MaxFaults
      /\ stage \in [VideoIds -> {"none", "pending", "confirmed"}]
      /\ excused \in [VideoIds -> SUBSET {"missing", "failed"}]
  BY DEF TypeOK
<1>2. req[h].videoId \in VideoIds
  BY DEF ConfirmStorage, At, RequestInv
<1>3. stage' \in [VideoIds -> {"none", "pending", "confirmed"}]
  <2>1. \/ stage' = stage
        \/ stage' = [stage EXCEPT ![req[h].videoId] = "confirmed"]
    BY DEF ConfirmStorage
  <2> QED
    BY <1>1, <2>1
<1>4. excused' \in [VideoIds -> SUBSET {"missing", "failed"}]
  <2>1. \/ excused' = excused
        \/ \E why \in {"missing", "failed"} : Excuse(req[h].videoId, why)
    BY DEF ConfirmStorage
  <2> QED
    BY <1>1, <1>2, <2>1, ExcuseType
<1>5. req' \in [Handlers -> Requests]
  BY <1>1, GotoType, LabelType DEF ConfirmStorage
<1>6. faults' \in 0..MaxFaults
  BY <1>1, FaultType DEF ConfirmStorage
<1> QED
  BY <1>3, <1>4, <1>5, <1>6 DEF ConfirmStorage, stores, TypeOK

LEMMA PublishCompletedType ==
    ASSUME TypeOK, NEW h \in Handlers, PublishCompleted(h)
    PROVE  TypeOK'
<1>1. req \in [Handlers -> Requests] /\ req[h] \in Requests
  BY DEF TypeOK
<1>2. Message("webhook", "upload.completed", req[h]) \in Messages
  BY <1>1, MessageType
<1>3. PublishOk(Message("webhook", "upload.completed", req[h])) \/ PublishErr
  BY DEF PublishCompleted
<1>4. exchange' \in Seq(Messages) /\ faults' \in 0..MaxFaults
  BY <1>2, <1>3, PublishType
<1>5. Answer(h, 200) \/ Answer(h, 400)
  BY DEF PublishCompleted
<1>6. req' \in [Handlers -> Requests]
  BY <1>1, <1>5, AnswerType, LabelType
<1> QED
  BY <1>4, <1>6 DEF PublishCompleted, stores, TypeOK

LEMMA StartListingType ==
    ASSUME TypeOK, NEW h \in Handlers, StartListing(h)
    PROVE  TypeOK'
<1>1. req \in [Handlers -> Requests] /\ faults \in 0..MaxFaults
  BY DEF TypeOK
<1> DEFINE begun  == [Idle EXCEPT !.pc = "listBucket", !.left = storageAdapters]
           failed == [Idle EXCEPT !.pc = "replying", !.status = 500]
<1>2. begun \in Requests
  BY IdleType, LabelType, ZenonT(60) DEF Requests
<1>3. failed \in Requests
  BY AnsweredAtOnceType, LabelType
<1>4. req' = [req EXCEPT ![h] = begun] \/ req' = [req EXCEPT ![h] = failed]
  BY DEF StartListing
<1> HIDE DEF begun, failed
<1>5. req' \in [Handlers -> Requests]
  BY <1>1, <1>2, <1>3, <1>4
<1>6. faults' \in 0..MaxFaults
  BY <1>1, FaultType DEF StartListing
<1>7. UNCHANGED <<services, stores, excused, sent, crashes>>
  BY DEF StartListing
<1> QED
  BY <1>5, <1>6, <1>7 DEF services, stores, TypeOK

LEMMA ListBucketType ==
    ASSUME TypeOK, NEW h \in Handlers, ListBucket(h)
    PROVE  TypeOK'
<1>1. /\ req \in [Handlers -> Requests] /\ req[h] \in Requests
      /\ faults \in 0..MaxFaults /\ bucket \subseteq Objects
  BY DEF TypeOK
<1> DEFINE p == IF "minio" \in req[h].left THEN "minio" ELSE "aws-s3"
           T == {o \in bucket : o.provider = p /\ isListed(o.key)}
           L == req[h].left \ {p}
<1>2. T \subseteq Objects /\ L \subseteq storageAdapters
  BY <1>1 DEF Requests
<1>3. \/ req' = [req EXCEPT ![h] = [req[h] EXCEPT !.pc = "saveListed", !.left = L, !.todo = T]]
      \/ req' = [req EXCEPT ![h] = [req[h] EXCEPT !.left = L]]
  BY <1>1 DEF ListBucket
<1> HIDE DEF p, T, L
<1>4. /\ [req[h] EXCEPT !.pc = "saveListed", !.left = L, !.todo = T] \in Requests
      /\ [req[h] EXCEPT !.left = L] \in Requests
  BY <1>1, <1>2, LabelType, ZenonT(60) DEF Requests
<1>5. req' \in [Handlers -> Requests]
  BY <1>1, <1>3, <1>4
<1>6. faults' \in 0..MaxFaults
  BY <1>1, FaultType DEF ListBucket
<1>7. UNCHANGED <<services, stores, excused, sent, crashes>>
  BY DEF ListBucket
<1> QED
  BY <1>5, <1>6, <1>7 DEF services, stores, TypeOK

LEMMA ListedDocType ==
    ASSUME NEW o \in Objects
    PROVE  Doc(ListedVideo(o.key).videoId, ListedVideo(o.key).filename,
               "ready", NoSelection) \in Docs
<1>1. /\ ListedVideo(o.key).videoId \in VideoIds
      /\ ListedVideo(o.key).filename \in Filenames
  BY ObjectsAssumption DEF ObjectsAssumption
<1> QED
  BY <1>1, NoSelectionType DEF Doc, Docs

LEMMA SaveListedType ==
    ASSUME TypeOK, NEW h \in Handlers, SaveListed(h)
    PROVE  TypeOK'
<1>1. /\ req \in [Handlers -> Requests] /\ req[h] \in Requests
      /\ faults \in 0..MaxFaults /\ catalog \in Seq(Docs)
  BY DEF TypeOK
<1>2. PICK o \in req[h].todo :
        LET doc == Doc(ListedVideo(o.key).videoId, ListedVideo(o.key).filename,
                       "ready", NoSelection)
        IN  /\ Save(h, doc) \/ UNCHANGED catalog
            /\ \/ req' = [req EXCEPT ![h].todo = @ \ {o}, ![h].missed = NoVideo]
               \/ Answer(h, 200)
  BY DEF SaveListed
<1>3. o \in Objects
  BY <1>1 DEF Requests
<1>4. catalog' \in Seq(Docs)
  BY <1>1, <1>2, <1>3, ListedDocType, SaveType
<1>5. [req[h] EXCEPT !.todo = req[h].todo \ {o}, !.missed = NoVideo] \in Requests
  BY <1>1 DEF Requests
<1>6. ASSUME req' = [req EXCEPT ![h].todo = @ \ {o}, ![h].missed = NoVideo]
      PROVE  req' \in [Handlers -> Requests]
  <2>1. req' = [req EXCEPT ![h] = [req[h] EXCEPT !.todo = req[h].todo \ {o},
                                                 !.missed = NoVideo]]
    BY <1>1, <1>6
  <2> QED
    BY <1>1, <1>5, <2>1
<1>7. req' \in [Handlers -> Requests]
  BY <1>1, <1>2, <1>6, AnswerType, LabelType
<1>8. Fine \/ Fault
  BY DEF SaveListed
<1>9. faults' \in 0..MaxFaults
  BY <1>1, <1>8, FaultType
<1>10. UNCHANGED <<events, stage, runs, exchange, stores, excused, sent, crashes>>
  BY DEF SaveListed
<1> QED
  BY <1>4, <1>7, <1>9, <1>10 DEF stores, TypeOK

LEMMA ListingControlType ==
    ASSUME TypeOK, NEW h \in Handlers, NextProvider(h) \/ EndListing(h)
    PROVE  TypeOK'
<1>1. req \in [Handlers -> Requests]
  BY DEF TypeOK
<1>2. Goto(h, "listBucket") \/ Answer(h, 200)
  BY DEF NextProvider, EndListing
<1>3. req' \in [Handlers -> Requests]
  BY <1>1, <1>2, GotoType, AnswerType, LabelType
<1>4. UNCHANGED <<services, stores, excused, sent, faults, crashes>>
  BY DEF NextProvider, EndListing
<1> QED
  BY <1>3, <1>4 DEF services, stores, TypeOK

LEMMA MatchNothingType ==
    ASSUME TypeOK, NEW h \in Handlers, RequestInv(h), MatchNothing(h)
    PROVE  TypeOK'
<1>1. req \in [Handlers -> Requests] /\ req[h] \in Requests
  BY DEF TypeOK
<1>2. PICK v \in Upserted(h) : req' = [req EXCEPT ![h].missed = v]
  BY DEF MatchNothing
<1>3. v \in VideoIds
  <2>1. CASE At(h, "saveVideo")
    BY <1>2, <2>1 DEF Upserted, At, RequestInv
  <2>2. CASE ~At(h, "saveVideo")
    <3>1. PICK o \in req[h].todo : v = ListedVideo(o.key).videoId
      BY <1>2, <2>2 DEF Upserted
    <3>2. o \in Objects
      BY <1>1 DEF Requests
    <3> QED
      BY <3>1, <3>2, ObjectsAssumption DEF ObjectsAssumption
  <2> QED
    BY <2>1, <2>2
<1>4. [req[h] EXCEPT !.missed = v] \in Requests
  BY <1>1, <1>3 DEF Requests
<1>5. req' = [req EXCEPT ![h] = [req[h] EXCEPT !.missed = v]]
  BY <1>1, <1>2
<1>6. req' \in [Handlers -> Requests]
  BY <1>1, <1>4, <1>5
<1>7. UNCHANGED <<services, stores, excused, sent, faults, crashes>>
  BY DEF MatchNothing
<1> QED
  BY <1>6, <1>7 DEF services, stores, TypeOK

LEMMA ReplyType ==
    ASSUME TypeOK, NEW h \in Handlers, Reply(h)
    PROVE  TypeOK'
<1>1. req' \in [Handlers -> Requests]
  BY IdleType DEF Reply, TypeOK
<1>2. owed' \subseteq owed
  BY DEF Reply
<1>3. UNCHANGED <<services, bucket, excused, sent, faults, crashes>>
  BY DEF Reply
<1> QED
  BY <1>1, <1>2, <1>3 DEF services, TypeOK

LEMMA EnvironmentType ==
    ASSUME TypeOK, Environment
    PROVE  TypeOK'
<1>1. CASE Crash
  <2>1. req' \in [Handlers -> Requests]
    BY <1>1, IdleType DEF Crash
  <2>2. crashes' \in 0..MaxCrashes
    <3>1. crashes \in 0..MaxCrashes /\ crashes < MaxCrashes /\ crashes' = crashes + 1
      BY <1>1 DEF Crash, TypeOK
    <3> QED
      BY <3>1, BoundsType
  <2>3. UNCHANGED <<services, stores, excused, sent, faults>>
    BY <1>1 DEF Crash
  <2> QED
    BY <2>1, <2>2, <2>3 DEF services, stores, TypeOK
<1>2. ASSUME NEW o \in Objects, PutObject(o) PROVE TypeOK'
  <2>1. bucket' \subseteq Objects /\ owed' \subseteq bucket'
    BY <1>2 DEF PutObject, TypeOK
  <2>2. UNCHANGED <<services, req, excused, sent, faults, crashes>>
    BY <1>2 DEF PutObject
  <2> QED
    BY <2>1, <2>2 DEF services, TypeOK
<1>3. ASSUME NEW v \in VideoIds, UIPutVideo(v) \/ UIDeleteVideo(v) PROVE TypeOK'
  <2>1. \E s \in {"none", "pending"} : stage' = [stage EXCEPT ![v] = s]
    BY <1>3 DEF UIPutVideo, UIDeleteVideo
  <2>2. stage' \in [VideoIds -> {"none", "pending", "confirmed"}]
    BY <2>1 DEF TypeOK
  <2>3. excused' \in [VideoIds -> SUBSET {"missing", "failed"}]
    BY <1>3, ExcuseType DEF UIPutVideo, UIDeleteVideo, TypeOK
  <2>4. UNCHANGED <<catalog, events, runs, exchange, stores, req, sent, faults, crashes>>
    BY <1>3 DEF UIPutVideo, UIDeleteVideo
  <2> QED
    BY <2>2, <2>3, <2>4 DEF stores, TypeOK
<1> QED
  BY <1>1, <1>2, <1>3 DEF Environment

LEMMA TypeStep == ASSUME IngestInv, [Next]_vars PROVE TypeOK'
<1>1. TypeOK /\ \A h \in Handlers : RequestInv(h)
  BY DEF IngestInv
<1>2. CASE UNCHANGED vars
  BY <1>1, <1>2 DEF vars, TypeOK
<1>3. ASSUME NEW h \in Handlers, ReceiveEvent(h) \/ StartListing(h)
      PROVE  TypeOK'
  BY <1>1, <1>3, ReceiveEventType, StartListingType
<1>4. ASSUME NEW h \in Handlers, HandlerStep(h) PROVE TypeOK'
  BY <1>1, <1>4, SaveEventType, CreateVideoType, PublishEventType, WriteRunType,
     LookupVideoType, SaveVideoType, ConfirmStorageType, PublishCompletedType,
     ListBucketType, SaveListedType, ListingControlType, MatchNothingType, ReplyType
     DEF HandlerStep
<1>5. ASSUME NEW o \in Objects, Deliver(o) PROVE TypeOK'
  BY <1>1, <1>5, ReceiveWebhookType DEF Deliver
<1>6. CASE Environment
  BY <1>1, <1>6, EnvironmentType
<1> QED
  BY <1>2, <1>3, <1>4, <1>5, <1>6 DEF Next

-----------------------------------------------------------------------------
(* What every step leaves of the catalog and of the upload-state documents *)

CatalogGrows ==
    \A i \in DOMAIN catalog :
        /\ i \in DOMAIN catalog'
        /\ catalog'[i].videoId = catalog[i].videoId
        /\ UniqueIndex => catalog'[i].sel = catalog[i].sel
        /\ catalog'[i].status = "uploading" => catalog[i].status = "uploading"

StagesKept == \A v \in VideoIds : Staged(v) => Staged(v)'

LEMMA SetOmitEmptyKeeps ==
    ASSUME NEW s \in Selections
    PROVE  SetOmitEmpty(s, s) = s /\ SetOmitEmpty(s, NoSelection) = s
BY DEF SetOmitEmpty, Selections, NoSelection

(* An insert keeps the documents there are, and with the index it is of a  *)
(* video that has none.                                                    *)
LEMMA AppendGrows ==
    ASSUME catalog \in Seq(Docs), NEW d \in Docs, IndexKept,
           UniqueIndex => Found(d.videoId) = {}, catalog' = Append(catalog, d)
    PROVE  /\ CatalogGrows /\ IndexKept'
           /\ d.status # "uploading" => Stored(d.videoId)'
<1> DEFINE n == Len(catalog) + 1
<1>1. /\ DOMAIN catalog = 1..Len(catalog) /\ Len(catalog) \in Nat
      /\ DOMAIN catalog' = 1..n
      /\ catalog'[n] = d
      /\ \A i \in DOMAIN catalog : catalog'[i] = catalog[i]
  OBVIOUS
<1>2. CatalogGrows
  BY <1>1 DEF CatalogGrows
<1>3. ASSUME UniqueIndex PROVE OneDocPerVideo'
  <2>1. \A i \in DOMAIN catalog : catalog[i].videoId # d.videoId
    BY <1>3 DEF Found
  <2>2. ASSUME NEW i \in DOMAIN catalog', NEW j \in DOMAIN catalog',
               catalog'[i].videoId = catalog'[j].videoId
        PROVE  i = j
    <3>1. (i \in DOMAIN catalog \/ i = n) /\ (j \in DOMAIN catalog \/ j = n)
      BY <1>1
    <3> QED
      BY <1>1, <1>3, <2>1, <2>2, <3>1 DEF IndexKept, OneDocPerVideo
  <2> QED
    BY <2>2 DEF OneDocPerVideo
<1>4. d.status # "uploading" => Stored(d.videoId)'
  BY <1>1 DEF Stored
<1> QED
  BY <1>2, <1>3, <1>4 DEF IndexKept

(* An upsert of the selection its own lookup carried changes no selection, *)
(* if the document it meets is the one that was looked up.                 *)
LEMMA SaveGrows ==
    ASSUME catalog \in Seq(Docs), IndexKept, NoneMissed, NEW h \in Handlers,
           NEW d \in Docs, d.status # "uploading",
           d.sel = NoSelection \/ (UniqueIndex => Holds(d.videoId, d.sel)),
           Save(h, d)
    PROVE  CatalogGrows /\ IndexKept' /\ Stored(d.videoId)'
<1>0. d.videoId \in VideoIds /\ (req[h].missed = d.videoId => ~UniqueIndex)
  BY IngestAssumption DEF IngestAssumption, NoneMissed, Docs
<1>1. CASE /\ Found(d.videoId) = {} \/ req[h].missed = d.videoId
           /\ catalog' = Append(catalog, d)
  BY <1>0, <1>1, AppendGrows
<1>2. ASSUME NEW i \in Found(d.videoId),
             catalog' = [catalog EXCEPT
                ![i] = [d EXCEPT !.sel = SetOmitEmpty(catalog[i].sel, d.sel)]]
      PROVE  CatalogGrows /\ IndexKept' /\ Stored(d.videoId)'
  <2>1. /\ i \in DOMAIN catalog /\ catalog[i].videoId = d.videoId
        /\ catalog[i].sel \in Selections
    BY <1>2, DocType DEF Found
  <2>2. UniqueIndex => d.sel = NoSelection \/ d.sel = catalog[i].sel
    BY <2>1 DEF Holds, IndexKept, OneDocPerVideo
  <2>3. UniqueIndex => SetOmitEmpty(catalog[i].sel, d.sel) = catalog[i].sel
    BY <2>1, <2>2, SetOmitEmptyKeeps
  <2> DEFINE new == [d EXCEPT !.sel = SetOmitEmpty(catalog[i].sel, d.sel)]
  <2>4. /\ new.videoId = catalog[i].videoId /\ new.status # "uploading"
        /\ UniqueIndex => new.sel = catalog[i].sel
    BY <2>1, <2>3 DEF Docs
  <2>5. catalog' = [catalog EXCEPT ![i] = new]
    BY <1>2
  <2> HIDE DEF new
  <2>6. /\ DOMAIN catalog' = DOMAIN catalog /\ catalog'[i] = new
        /\ \A j \in DOMAIN catalog : j # i => catalog'[j] = catalog[j]
    BY <2>1, <2>5
  <2>7. CatalogGrows
    BY <2>4, <2>6 DEF CatalogGrows
  <2>8. IndexKept'
    BY <2>4, <2>6 DEF IndexKept, OneDocPerVideo
  <2>9. Stored(d.videoId)'
    BY <2>1, <2>4, <2>6 DEF Stored
  <2> QED
    BY <2>7, <2>8, <2>9
<1> QED
  BY <1>1, <1>2 DEF Save

LEMMA SameCatalog ==
    ASSUME IndexKept, UNCHANGED catalog
    PROVE  CatalogGrows /\ IndexKept'
BY DEF CatalogGrows, IndexKept, OneDocPerVideo

LEMMA SameStages ==
    ASSUME UNCHANGED <<stage, excused>>
    PROVE  StagesKept
BY DEF StagesKept, Staged

(* The three actions that write the catalog. *)
LEMMA CreateVideoGrows ==
    ASSUME IngestInv, NEW h \in Handlers, CreateVideo(h)
    PROVE  CatalogGrows /\ IndexKept'
<1>1. /\ TypeOK /\ IndexKept /\ catalog \in Seq(Docs) /\ req[h] \in Requests
      /\ req[h].videoId \in VideoIds
  BY DEF IngestInv, TypeOK, CreateVideo, At, RequestInv
<1> DEFINE doc == Doc(req[h].videoId, req[h].filename, "uploading", req[h].sel)
<1>2. doc \in Docs
  BY <1>1 DEF Doc, Docs, Requests
<1>3. Create(doc) \/ UNCHANGED catalog
  BY DEF CreateVideo
<1> HIDE DEF doc
<1>4. CASE Create(doc)
  <2>1. /\ UniqueIndex => Found(doc.videoId) = {}
        /\ catalog' = Append(catalog, doc)
    BY <1>4 DEF Create, DuplicateKey
  <2> QED
    BY <1>1, <1>2, <2>1, AppendGrows
<1> QED
  BY <1>1, <1>3, <1>4, SameCatalog

LEMMA SaveVideoGrows ==
    ASSUME IngestInv, NEW h \in Handlers, SaveVideo(h)
    PROVE  /\ CatalogGrows /\ IndexKept'
           /\ At(h, "confirm")' => Stored(req[h].videoId)'
<1>1. /\ TypeOK /\ IndexKept /\ NoneMissed /\ catalog \in Seq(Docs)
      /\ req[h] \in Requests /\ req \in [Handlers -> Requests]
  BY DEF IngestInv, TypeOK
<1>2. /\ req[h].videoId \in VideoIds
      /\ Carried(req[h].found, req[h].videoId, req[h].sel)
  BY DEF IngestInv, SaveVideo, At, RequestInv
<1>3. Doc(req[h].videoId, req[h].filename, "uploaded", req[h].sel) \in Docs
  BY <1>1, <1>2 DEF Doc, Docs, Requests
<1>4. PICK d \in Docs :
         d = Doc(req[h].videoId, req[h].filename, "uploaded", req[h].sel)
  BY <1>3
<1>5. d.status # "uploading" /\ d.videoId = req[h].videoId /\ d.sel = req[h].sel
  BY <1>4 DEF Doc
<1> DEFINE Saved == req' = [req EXCEPT ![h].pc = "confirm", ![h].missed = NoVideo]
<1>6. \/ Save(h, d) /\ Saved
      \/ (Save(h, d) \/ UNCHANGED catalog) /\ Answer(h, 400)
  BY <1>4 DEF SaveVideo
<1>7. d.sel = NoSelection \/ (UniqueIndex => Holds(d.videoId, d.sel))
  BY <1>2, <1>5 DEF Carried
<1>8. ASSUME Save(h, d) PROVE CatalogGrows /\ IndexKept' /\ Stored(d.videoId)'
  BY <1>1, <1>5, <1>7, <1>8, SaveGrows
<1>9. ASSUME Answer(h, 400) PROVE ~At(h, "confirm")'
  BY <1>1, <1>9 DEF Answer, At
<1>10. ASSUME Saved PROVE req'[h].videoId = d.videoId
  BY <1>1, <1>5, <1>10 DEF Requests
<1>11. ASSUME Save(h, d), Saved PROVE Stored(req[h].videoId)'
  BY <1>8, <1>10, <1>11 DEF Stored
<1>12. CatalogGrows /\ IndexKept'
  BY <1>1, <1>6, <1>8, SameCatalog
<1>13. At(h, "confirm")' => Stored(req[h].videoId)'
  BY <1>6, <1>9, <1>11
<1> QED
  BY <1>12, <1>13

LEMMA SaveListedGrows ==
    ASSUME IngestInv, NEW h \in Handlers, SaveListed(h)
    PROVE  CatalogGrows /\ IndexKept'
<1>1. /\ IndexKept /\ NoneMissed /\ catalog \in Seq(Docs) /\ req[h] \in Requests
  BY DEF IngestInv, TypeOK
<1> DEFINE doc(o) == Doc(ListedVideo(o.key).videoId, ListedVideo(o.key).filename,
                         "ready", NoSelection)
<1>2. PICK o \in req[h].todo : Save(h, doc(o)) \/ UNCHANGED catalog
  BY DEF SaveListed
<1>3. o \in Objects
  BY <1>1 DEF Requests
<1>4. doc(o) \in Docs /\ doc(o).status # "uploading" /\ doc(o).sel = NoSelection
  BY <1>3, ListedDocType DEF Doc
<1> HIDE DEF doc
<1> QED
  BY <1>1, <1>2, <1>4, SaveGrows, SameCatalog

(* The one handler step, and the steps of the upload UI, that write stages. *)
LEMMA ConfirmStorageKeeps ==
    ASSUME IngestInv, NEW h \in Handlers, ConfirmStorage(h)
    PROVE  StagesKept /\ Staged(req[h].videoId)'
<1>1. /\ stage \in [VideoIds -> {"none", "pending", "confirmed"}]
      /\ excused \in [VideoIds -> SUBSET {"missing", "failed"}]
      /\ req[h].videoId \in VideoIds
  BY DEF IngestInv, TypeOK, ConfirmStorage, At, RequestInv
<1>2. /\ req \in [Handlers -> Requests] /\ Goto(h, "publishCompleted")
  BY DEF IngestInv, TypeOK, ConfirmStorage
<1>3. req'[h].videoId = req[h].videoId
  BY <1>2 DEF Goto
<1> DEFINE v == req[h].videoId
<1>4. \/ stage' = [stage EXCEPT ![v] = "confirmed"] /\ excused' = excused
      \/ stage' = stage /\ \E why : Excuse(v, why)
  BY DEF ConfirmStorage
<1>5. \A w \in VideoIds : Staged(w) => Staged(w)'
  BY <1>1, <1>4 DEF Staged, Excuse
<1>6. stage'[v] = "confirmed" \/ excused'[v] # {}
  BY <1>1, <1>4 DEF Excuse
<1> QED
  BY <1>3, <1>5, <1>6 DEF StagesKept, Staged

LEMMA UIKeepsStages ==
    ASSUME IngestInv, NEW v \in VideoIds, UIPutVideo(v) \/ UIDeleteVideo(v)
    PROVE  StagesKept
<1>1. /\ stage \in [VideoIds -> {"none", "pending", "confirmed"}]
      /\ excused \in [VideoIds -> SUBSET {"missing", "failed"}]
  BY DEF IngestInv, TypeOK
<1>2. CASE UIPutVideo(v)
  BY <1>1, <1>2 DEF UIPutVideo, StagesKept, Staged
<1>3. CASE UIDeleteVideo(v)
  BY <1>1, <1>3 DEF UIDeleteVideo, Excuse, StagesKept, Staged
<1> QED
  BY <1>2, <1>3

LEMMA StepEffects ==
    ASSUME IngestInv, [Next]_vars
    PROVE  CatalogGrows /\ IndexKept' /\ StagesKept
<1>0. IndexKept
  BY DEF IngestInv
<1>1. ASSUME UNCHANGED catalog, UNCHANGED <<stage, excused>>
      PROVE  CatalogGrows /\ IndexKept' /\ StagesKept
  BY <1>0, <1>1, SameCatalog, SameStages
<1>2. CASE UNCHANGED vars
  BY <1>1, <1>2 DEF vars
<1>3. ASSUME NEW h \in Handlers, CreateVideo(h) \/ SaveVideo(h) \/ SaveListed(h)
      PROVE  CatalogGrows /\ IndexKept' /\ StagesKept
  <2>1. UNCHANGED <<stage, excused>>
    BY <1>3 DEF CreateVideo, SaveVideo, SaveListed
  <2> QED
    BY <1>3, <2>1, CreateVideoGrows, SaveVideoGrows, SaveListedGrows, SameStages
<1>4. ASSUME NEW h \in Handlers, ConfirmStorage(h)
      PROVE  CatalogGrows /\ IndexKept' /\ StagesKept
  BY <1>0, <1>4, ConfirmStorageKeeps, SameCatalog DEF ConfirmStorage
<1>5. ASSUME NEW h \in Handlers,
             \/ ReceiveEvent(h) \/ StartListing(h) \/ SaveEvent(h) \/ PublishEvent(h)
             \/ WriteRun(h) \/ LookupVideo(h) \/ PublishCompleted(h) \/ ListBucket(h)
             \/ NextProvider(h) \/ EndListing(h) \/ MatchNothing(h) \/ Reply(h)
      PROVE  UNCHANGED catalog /\ UNCHANGED <<stage, excused>>
  BY <1>5 DEF ReceiveEvent, StartListing, SaveEvent, PublishEvent, WriteRun,
     LookupVideo, PublishCompleted, ListBucket, NextProvider, EndListing, MatchNothing,
     Reply, services
<1>6. ASSUME NEW h \in Handlers, ReceiveEvent(h) \/ StartListing(h) \/ HandlerStep(h)
      PROVE  CatalogGrows /\ IndexKept' /\ StagesKept
  BY <1>1, <1>3, <1>4, <1>5, <1>6 DEF HandlerStep
<1>7. ASSUME NEW o \in Objects, Deliver(o)
      PROVE  CatalogGrows /\ IndexKept' /\ StagesKept
  BY <1>1, <1>7 DEF Deliver, ReceiveWebhook, services
<1>8. ASSUME NEW v \in VideoIds, UIPutVideo(v) \/ UIDeleteVideo(v)
      PROVE  CatalogGrows /\ IndexKept' /\ StagesKept
  <2>1. UNCHANGED catalog
    BY <1>8 DEF UIPutVideo, UIDeleteVideo
  <2> QED
    BY <1>0, <1>8, <2>1, SameCatalog, UIKeepsStages
<1>9. ASSUME NEW o \in Objects, PutObject(o)
      PROVE  CatalogGrows /\ IndexKept' /\ StagesKept
  BY <1>1, <1>9 DEF PutObject, services
<1>10. CASE Crash
  BY <1>1, <1>10 DEF Crash, services
<1> QED
  BY <1>2, <1>6, <1>7, <1>8, <1>9, <1>10 DEF Next, Environment

-----------------------------------------------------------------------------
(* So what a request or a message has been promised stays true.            *)

LEMMA PromisesKept ==
    ASSUME CatalogGrows, StagesKept, NEW v \in VideoIds, NEW s, NEW f
    PROVE  /\ Stored(v) => Stored(v)'
           /\ Carried(f, v, s) => Carried(f, v, s)'
           /\ Staged(v) => Staged(v)'
<1>1. Stored(v) => Stored(v)'
  BY DEF Stored, CatalogGrows
<1>2. UniqueIndex /\ Holds(v, s) => Holds(v, s)'
  BY DEF Holds, CatalogGrows
<1> QED
  BY <1>1, <1>2 DEF Carried, StagesKept

LEMMA MessageKept ==
    ASSUME CatalogGrows, StagesKept, NEW m, MessageInv(m)
    PROVE  MessageInv(m)'
<1> SUFFICES ASSUME m.source = "webhook"
             PROVE  /\ m.videoId \in VideoIds /\ ~isPipelineOutputKey(m.key)
                    /\ Carried(m.found, m.videoId, m.sel)'
                    /\ Stored(m.videoId)' /\ Staged(m.videoId)'
  BY DEF MessageInv
<1> QED
  BY PromisesKept DEF MessageInv

(* The request invariant speaks of the request and of these promises only. *)
RequestOk(r) ==
    /\ r.pc \in {"saveEvent", "createVideo", "publishEvent", "writeRun"} =>
          r.type \in EventTypes
    /\ r.pc = "createVideo" => r.videoId \in VideoIds
    /\ r.pc \in {"lookup", "saveVideo", "confirm", "publishCompleted"} =>
          r.videoId \in VideoIds /\ ~isPipelineOutputKey(r.key)
    /\ r.pc = "lookup" => r.sel = NoSelection /\ ~r.found
    /\ r.pc \in {"saveVideo", "confirm", "publishCompleted"} =>
          Carried(r.found, r.videoId, r.sel)
    /\ r.pc \in {"confirm", "publishCompleted"} => Stored(r.videoId)
    /\ r.pc = "publishCompleted" => Staged(r.videoId)

LEMMA RequestIsOk == \A h \in Handlers : RequestInv(h) <=> RequestOk(req[h])
BY DEF RequestInv, RequestOk

LEMMA RequestKept ==
    ASSUME CatalogGrows, StagesKept, NEW r, RequestOk(r)
    PROVE  RequestOk(r)'
<1>1. ASSUME r.pc \in {"saveVideo", "confirm", "publishCompleted"}
      PROVE  /\ Carried(r.found, r.videoId, r.sel)'
             /\ r.pc \in {"confirm", "publishCompleted"} => Stored(r.videoId)'
             /\ r.pc = "publishCompleted" => Staged(r.videoId)'
  BY <1>1, PromisesKept DEF RequestOk
<1> QED
  BY <1>1 DEF RequestOk

LEMMA OthersKept ==
    ASSUME CatalogGrows, StagesKept, NEW g \in Handlers, RequestInv(g),
           UNCHANGED req[g]
    PROVE  RequestInv(g)'
<1>1. PICK r : r = req[g]
  OBVIOUS
<1>2. RequestOk(r)
  BY <1>1, RequestIsOk
<1>3. RequestOk(r)'
  BY <1>2, RequestKept
<1>4. r = req'[g]
  BY <1>1
<1> QED
  BY <1>3, <1>4 DEF RequestOk, RequestInv

LEMMA GotoEffect ==
    ASSUME req \in [Handlers -> Requests], NEW h \in Handlers, NEW pc, Goto(h, pc)
    PROVE  /\ req'[h].pc = pc /\ req'[h].type = req[h].type
           /\ req'[h].videoId = req[h].videoId /\ req'[h].key = req[h].key
           /\ req'[h].sel = req[h].sel /\ req'[h].found = req[h].found
           /\ \A g \in Handlers \ {h} : req'[g] = req[g]
<1>1. req[h] \in Requests
  OBVIOUS
<1> QED
  BY <1>1 DEF Goto, Requests

LEMMA AnswerEffect ==
    ASSUME req \in [Handlers -> Requests], NEW h \in Handlers, NEW s, Answer(h, s)
    PROVE  /\ RequestInv(h)'
           /\ \A g \in Handlers \ {h} : req'[g] = req[g]
<1>1. req[h] \in Requests
  OBVIOUS
<1>2. req'[h].pc = "replying" /\ \A g \in Handlers \ {h} : req'[g] = req[g]
  BY <1>1 DEF Answer, Requests
<1> QED
  BY <1>2 DEF RequestInv

(* The request of the handler that steps, for each step of an events       *)
(* request and of a webhook.                                               *)
LEMMA ReceiveEventRequest ==
    ASSUME IngestInv, NEW h \in Handlers, ReceiveEvent(h)
    PROVE  RequestInv(h)' /\ \A g \in Handlers \ {h} : req'[g] = req[g]
<1>0. req \in [Handlers -> Requests]
  BY DEF IngestInv, TypeOK
<1>1. PICK type \in EventTypes, v \in Videos \cup {NoVideo}, sel \in Selections :
         req' = [req EXCEPT ![h] =
                IF type = ""
                THEN [Idle EXCEPT !.pc = "replying", !.status = 400]
                ELSE [Idle EXCEPT !.pc = "saveEvent", !.type = type,
                         !.videoId = v, !.filename = UploadName, !.sel = sel]]
  BY DEF ReceiveEvent
<1>2. CASE type = ""
  <2>1. req'[h].pc = "replying"
    BY <1>0, <1>1, <1>2 DEF Idle
  <2> QED
    BY <1>0, <1>1, <2>1 DEF RequestInv
<1>3. CASE type # ""
  <2>1. req'[h].pc = "saveEvent" /\ req'[h].type = type
    BY <1>0, <1>1, <1>3 DEF Idle
  <2> QED
    BY <1>0, <1>1, <2>1 DEF RequestInv
<1> QED
  BY <1>2, <1>3

LEMMA EventRequest ==
    ASSUME IngestInv, NEW h \in Handlers,
           SaveEvent(h) \/ CreateVideo(h) \/ PublishEvent(h) \/ WriteRun(h)
    PROVE  RequestInv(h)' /\ \A g \in Handlers \ {h} : req'[g] = req[g]
<1>0. /\ req \in [Handlers -> Requests] /\ req[h] \in Requests
      /\ req[h].videoId \in VideoIds \cup {NoVideo} /\ RequestInv(h)
  BY DEF IngestInv, TypeOK, Requests
<1>1. req[h].pc \in {"saveEvent", "createVideo", "publishEvent", "writeRun"}
  BY DEF SaveEvent, CreateVideo, PublishEvent, WriteRun, At
<1>2. req[h].type \in EventTypes
  BY <1>0, <1>1 DEF RequestInv
<1>3. ASSUME NEW pc \in {"publishEvent", "writeRun"}, Goto(h, pc)
      PROVE  RequestInv(h)' /\ \A g \in Handlers \ {h} : req'[g] = req[g]
  <2>1. /\ req'[h].pc = pc /\ req'[h].type = req[h].type
        /\ \A g \in Handlers \ {h} : req'[g] = req[g]
    BY <1>0, <1>3, GotoEffect
  <2> QED
    BY <1>2, <1>3, <2>1 DEF RequestInv
<1>4. ASSUME Goto(h, "createVideo"), req[h].videoId # NoVideo
      PROVE  RequestInv(h)' /\ \A g \in Handlers \ {h} : req'[g] = req[g]
  <2>1. /\ req'[h].pc = "createVideo" /\ req'[h].type = req[h].type
        /\ req'[h].videoId = req[h].videoId
        /\ \A g \in Handlers \ {h} : req'[g] = req[g]
    BY <1>0, <1>4, GotoEffect
  <2> QED
    BY <1>0, <1>2, <1>4, <2>1 DEF RequestInv
<1>5. \/ Goto(h, "publishEvent") \/ Goto(h, "writeRun")
      \/ Goto(h, "createVideo") /\ req[h].videoId # NoVideo
      \/ \E s \in Statuses : Answer(h, s)
  <2>1. CASE SaveEvent(h)
    BY <2>1, LabelType DEF SaveEvent
  <2>2. CASE CreateVideo(h)
    BY <2>2, LabelType DEF CreateVideo
  <2>3. CASE PublishEvent(h)
    BY <2>3, LabelType DEF PublishEvent
  <2>4. CASE WriteRun(h)
    BY <2>4, LabelType DEF WriteRun
  <2> QED
    BY <2>1, <2>2, <2>3, <2>4
<1> QED
  BY <1>0, <1>3, <1>4, <1>5, AnswerEffect

LEMMA ReceiveWebhookRequest ==
    ASSUME IngestInv, NEW h \in Handlers, NEW o \in Objects, ReceiveWebhook(h, o)
    PROVE  RequestInv(h)' /\ \A g \in Handlers \ {h} : req'[g] = req[g]
<1>0. req \in [Handlers -> Requests]
  BY DEF IngestInv, TypeOK
<1>1. PICK n \in CreationNotices(o.provider, o.key) :
         req' = [req EXCEPT ![h] =
            IF ParseWebhook(o.provider, n).result = "event"
            THEN [Idle EXCEPT !.pc = "lookup", !.obj = o,
                     !.videoId = ParseWebhook(o.provider, n).videoId,
                     !.filename = ParseWebhook(o.provider, n).filename,
                     !.key = ParseWebhook(o.provider, n).objectKey]
            ELSE [Idle EXCEPT !.pc = "replying", !.obj = o,
                     !.status = IF ParseWebhook(o.provider, n).result = "ignored"
                                THEN 200 ELSE 400]]
  BY DEF ReceiveWebhook
<1>2. \A g \in Handlers \ {h} : req'[g] = req[g]
  BY <1>0, <1>1
<1>3. CASE ParseWebhook(o.provider, n).result = "event"
  <2>1. /\ ParseWebhook(o.provider, n).videoId \in VideoIds
        /\ ~isPipelineOutputKey(ParseWebhook(o.provider, n).objectKey)
    BY <1>3, NoticeType
  <2>2. PICK v, k, f : /\ v = ParseWebhook(o.provider, n).videoId
                       /\ k = ParseWebhook(o.provider, n).objectKey
                       /\ f = ParseWebhook(o.provider, n).filename
    OBVIOUS
  <2>3. req' = [req EXCEPT ![h] = [Idle EXCEPT !.pc = "lookup", !.obj = o,
                   !.videoId = v, !.filename = f, !.key = k]]
    BY <1>1, <1>3, <2>2
  <2>4. /\ req'[h].pc = "lookup" /\ req'[h].videoId = v /\ req'[h].key = k
        /\ req'[h].sel = NoSelection /\ ~req'[h].found
    BY <1>0, <2>3 DEF Idle
  <2> QED
    BY <1>2, <2>1, <2>2, <2>4 DEF RequestInv
<1>4. CASE ParseWebhook(o.provider, n).result # "event"
  <2>1. req'[h].pc = "replying"
    BY <1>0, <1>1, <1>4 DEF Idle
  <2> QED
    BY <1>2, <2>1 DEF RequestInv
<1> QED
  BY <1>3, <1>4

LEMMA LookupVideoRequest ==
    ASSUME IngestInv, NEW h \in Handlers, LookupVideo(h)
    PROVE  RequestInv(h)' /\ \A g \in Handlers \ {h} : req'[g] = req[g]
<1>0. /\ req \in [Handlers -> Requests] /\ req[h] \in Requests
      /\ UNCHANGED catalog
  BY DEF IngestInv, TypeOK, LookupVideo, services
<1>1. /\ req[h].videoId \in VideoIds /\ ~isPipelineOutputKey(req[h].key)
      /\ req[h].sel = NoSelection /\ ~req[h].found
  BY DEF IngestInv, RequestInv, LookupVideo, At
<1>2. ASSUME Goto(h, "saveVideo")
      PROVE  RequestInv(h)' /\ \A g \in Handlers \ {h} : req'[g] = req[g]
  <2>1. /\ req'[h].pc = "saveVideo" /\ req'[h].videoId = req[h].videoId
        /\ req'[h].key = req[h].key /\ req'[h].sel = req[h].sel
        /\ req'[h].found = req[h].found
        /\ \A g \in Handlers \ {h} : req'[g] = req[g]
    BY <1>0, <1>2, GotoEffect
  <2> QED
    BY <1>1, <2>1 DEF RequestInv, Carried
<1>3. ASSUME NEW i \in Found(req[h].videoId),
             req' = [req EXCEPT ![h].pc = "saveVideo", ![h].found = TRUE,
                                ![h].sel = catalog[i].sel]
      PROVE  RequestInv(h)' /\ \A g \in Handlers \ {h} : req'[g] = req[g]
  <2>1. /\ req'[h].pc = "saveVideo" /\ req'[h].videoId = req[h].videoId
        /\ req'[h].key = req[h].key /\ req'[h].sel = catalog[i].sel
        /\ req'[h].found
        /\ \A g \in Handlers \ {h} : req'[g] = req[g]
    BY <1>0, <1>3 DEF Requests
  <2>2. i \in DOMAIN catalog' /\ catalog'[i].videoId = req[h].videoId
        /\ catalog'[i].sel = catalog[i].sel
    BY <1>0, <1>3 DEF Found
  <2>3. Carried(req[h].found, req[h].videoId, req[h].sel)'
    BY <2>1, <2>2 DEF Carried, Holds
  <2> QED
    BY <1>1, <2>1, <2>3 DEF RequestInv
<1>4. \/ Goto(h, "saveVideo")
      \/ \E i \in Found(req[h].videoId) :
            req' = [req EXCEPT ![h].pc = "saveVideo", ![h].found = TRUE,
                               ![h].sel = catalog[i].sel]
  BY DEF LookupVideo
<1> QED
  BY <1>2, <1>3, <1>4

LEMMA SaveVideoRequest ==
    ASSUME IngestInv, CatalogGrows, StagesKept, NEW h \in Handlers, SaveVideo(h)
    PROVE  RequestInv(h)' /\ \A g \in Handlers \ {h} : req'[g] = req[g]
<1>0. /\ req \in [Handlers -> Requests] /\ req[h] \in Requests
  BY DEF IngestInv, TypeOK
<1>1. /\ req[h].videoId \in VideoIds /\ ~isPipelineOutputKey(req[h].key)
      /\ Carried(req[h].found, req[h].videoId, req[h].sel)
  BY DEF IngestInv, RequestInv, SaveVideo, At
<1>2. ASSUME req' = [req EXCEPT ![h].pc = "confirm", ![h].missed = NoVideo]
      PROVE  RequestInv(h)' /\ \A g \in Handlers \ {h} : req'[g] = req[g]
  <2>1. PICK v, s, f : v = req[h].videoId /\ s = req[h].sel /\ f = req[h].found
    OBVIOUS
  <2>2. /\ req'[h].pc = "confirm" /\ req'[h].videoId = v
        /\ req'[h].key = req[h].key /\ req'[h].sel = s /\ req'[h].found = f
        /\ \A g \in Handlers \ {h} : req'[g] = req[g]
    BY <1>0, <1>2, <2>1 DEF Requests
  <2>3. Carried(f, v, s)'
    BY <1>1, <2>1, PromisesKept
  <2>4. Carried(req[h].found, req[h].videoId, req[h].sel)'
    BY <2>2, <2>3 DEF Carried, Holds
  <2>5. Stored(req[h].videoId)'
    BY <2>2, SaveVideoGrows DEF At
  <2> QED
    BY <1>1, <2>1, <2>2, <2>4, <2>5 DEF RequestInv
<1>3. \/ req' = [req EXCEPT ![h].pc = "confirm", ![h].missed = NoVideo]
      \/ Answer(h, 400)
  BY DEF SaveVideo
<1> QED
  BY <1>0, <1>2, <1>3, AnswerEffect

LEMMA ConfirmStorageRequest ==
    ASSUME IngestInv, CatalogGrows, StagesKept, NEW h \in Handlers, ConfirmStorage(h)
    PROVE  RequestInv(h)' /\ \A g \in Handlers \ {h} : req'[g] = req[g]
<1>0. /\ req \in [Handlers -> Requests] /\ Goto(h, "publishCompleted")
  BY DEF IngestInv, TypeOK, ConfirmStorage
<1>1. /\ req[h].videoId \in VideoIds /\ ~isPipelineOutputKey(req[h].key)
      /\ Carried(req[h].found, req[h].videoId, req[h].sel) /\ Stored(req[h].videoId)
  BY DEF IngestInv, RequestInv, ConfirmStorage, At
<1>2. PICK v, s, f : v = req[h].videoId /\ s = req[h].sel /\ f = req[h].found
  OBVIOUS
<1>3. /\ req'[h].pc = "publishCompleted" /\ req'[h].videoId = v
      /\ req'[h].key = req[h].key /\ req'[h].sel = s /\ req'[h].found = f
      /\ \A g \in Handlers \ {h} : req'[g] = req[g]
  BY <1>0, <1>2, GotoEffect
<1>4. Carried(f, v, s)' /\ Stored(v)'
  BY <1>1, <1>2, PromisesKept
<1>5. Carried(req[h].found, req[h].videoId, req[h].sel)' /\ Stored(req[h].videoId)'
  BY <1>3, <1>4 DEF Carried, Holds, Stored
<1>6. Staged(req[h].videoId)'
  BY ConfirmStorageKeeps
<1> QED
  BY <1>1, <1>2, <1>3, <1>5, <1>6 DEF RequestInv

LEMMA PublishCompletedRequest ==
    ASSUME IngestInv, NEW h \in Handlers, PublishCompleted(h)
    PROVE  RequestInv(h)' /\ \A g \in Handlers \ {h} : req'[g] = req[g]
<1>1. req \in [Handlers -> Requests]
  BY DEF IngestInv, TypeOK
<1>2. Answer(h, 200) \/ Answer(h, 400)
  BY DEF PublishCompleted
<1> QED
  BY <1>1, <1>2, AnswerEffect

(* A handler that is handed a record without a debt has none. *)
LEMMA ReplaceEffect ==
    ASSUME req \in [Handlers -> Requests], NEW h \in Handlers, NEW r,
           req' = [req EXCEPT ![h] = r], r.pc \in {"idle", "listBucket", "replying"}
    PROVE  RequestInv(h)' /\ \A g \in Handlers \ {h} : req'[g] = req[g]
<1>1. req'[h] = r /\ \A g \in Handlers \ {h} : req'[g] = req[g]
  OBVIOUS
<1>2. req'[h].pc \in {"idle", "listBucket", "replying"}
  BY <1>1
<1> QED
  BY <1>1, <1>2 DEF RequestInv

(* A listing and an answered request owe nothing. *)
LEMMA ListingRequest ==
    ASSUME IngestInv, NEW h \in Handlers,
           \/ StartListing(h) \/ ListBucket(h) \/ SaveListed(h)
           \/ NextProvider(h) \/ EndListing(h) \/ Reply(h)
    PROVE  RequestInv(h)' /\ \A g \in Handlers \ {h} : req'[g] = req[g]
<1>0. req \in [Handlers -> Requests] /\ req[h] \in Requests
  BY DEF IngestInv, TypeOK
<1>1. CASE StartListing(h)
  <2> DEFINE started == [Idle EXCEPT !.pc = "listBucket", !.left = storageAdapters]
             refused == [Idle EXCEPT !.pc = "replying", !.status = 500]
  <2>1. started.pc = "listBucket" /\ refused.pc = "replying"
    BY DEF Idle
  <2>2. \E r \in {started, refused} : req' = [req EXCEPT ![h] = r]
    BY <1>1 DEF StartListing
  <2> HIDE DEF started, refused
  <2> QED
    BY <1>0, <2>1, <2>2, ReplaceEffect
<1>2. CASE ListBucket(h)
  <2> DEFINE p == IF "minio" \in req[h].left THEN "minio" ELSE "aws-s3"
             T == {o \in bucket : o.provider = p /\ isListed(o.key)}
  <2>0. /\ req[h].pc = "listBucket"
        /\ \/ req' = [req EXCEPT ![h].pc = "saveListed", ![h].left = @ \ {p}, ![h].todo = T]
           \/ req' = [req EXCEPT ![h].left = @ \ {p}]
    BY <1>2 DEF ListBucket, At
  <2> HIDE DEF p, T
  <2>1. req'[h].pc \in {"listBucket", "saveListed"}
    BY <1>0, <2>0, ZenonT(60) DEF Requests
  <2> QED
    BY <1>0, <1>2, <2>1 DEF ListBucket, RequestInv
<1>3. CASE SaveListed(h)
  <2>1. \/ Answer(h, 200)
        \/ \E o \in req[h].todo :
              req' = [req EXCEPT ![h].todo = @ \ {o}, ![h].missed = NoVideo]
    BY <1>3 DEF SaveListed
  <2>2. ASSUME NEW o \in req[h].todo,
               req' = [req EXCEPT ![h].todo = @ \ {o}, ![h].missed = NoVideo]
        PROVE  RequestInv(h)' /\ \A g \in Handlers \ {h} : req'[g] = req[g]
    <3>1. req'[h].pc = "saveListed"
      BY <1>0, <1>3, <2>2 DEF SaveListed, At, Requests
    <3> QED
      BY <1>0, <2>2, <3>1 DEF RequestInv
  <2> QED
    BY <1>0, <2>1, <2>2, AnswerEffect
<1>4. CASE NextProvider(h)
  <2>1. req'[h].pc = "listBucket" /\ \A g \in Handlers \ {h} : req'[g] = req[g]
    BY <1>0, <1>4, GotoEffect DEF NextProvider
  <2> QED
    BY <2>1 DEF RequestInv
<1>5. CASE EndListing(h)
  BY <1>0, <1>5, AnswerEffect DEF EndListing
<1>6. CASE Reply(h)
  <2>1. req' = [req EXCEPT ![h] = Idle]
    BY <1>6 DEF Reply
  <2>2. Idle.pc = "idle"
    BY DEF Idle
  <2> QED
    BY <1>0, <2>1, <2>2, ReplaceEffect
<1> QED
  BY <1>1, <1>2, <1>3, <1>4, <1>5, <1>6

LEMMA MatchNothingRequest ==
    ASSUME IngestInv, CatalogGrows, StagesKept, NEW h \in Handlers, MatchNothing(h)
    PROVE  RequestInv(h)' /\ \A g \in Handlers \ {h} : req'[g] = req[g]
<1>0. /\ req \in [Handlers -> Requests] /\ req[h] \in Requests /\ RequestInv(h)
  BY DEF IngestInv, TypeOK
<1>1. PICK v : req' = [req EXCEPT ![h].missed = v]
  BY DEF MatchNothing
<1>2. /\ req'[h] = [req[h] EXCEPT !.missed = v]
      /\ \A g \in Handlers \ {h} : req'[g] = req[g]
  BY <1>0, <1>1
<1>3. /\ RequestOk(req[h])
      /\ RequestOk([req[h] EXCEPT !.missed = v]) <=> RequestOk(req[h])
  BY <1>0, RequestIsOk DEF RequestOk, Requests
<1>4. PICK r : r = [req[h] EXCEPT !.missed = v]
  OBVIOUS
<1>5. RequestOk(r)'
  BY <1>3, <1>4, RequestKept
<1>6. r = req'[h]
  BY <1>2, <1>4
<1> QED
  BY <1>2, <1>5, <1>6 DEF RequestOk, RequestInv

(* With the index no upsert ever waits between its match and its insert.   *)
LEMMA NoneMissedStep ==
    ASSUME IngestInv, [Next]_vars
    PROVE  NoneMissed'
<1> SUFFICES ASSUME UniqueIndex
             PROVE  \A g \in Handlers : req'[g].missed = NoVideo
  BY DEF NoneMissed
<1>0. /\ req \in [Handlers -> Requests]
      /\ \A g \in Handlers : req[g] \in Requests /\ req[g].missed = NoVideo
  BY DEF IngestInv, TypeOK, NoneMissed
<1> DEFINE Goal == \A g \in Handlers : req'[g].missed = NoVideo
<1>1. ASSUME UNCHANGED req PROVE Goal
  BY <1>0, <1>1
<1>2. ASSUME NEW h \in Handlers, NEW r, r.missed = NoVideo, req' = [req EXCEPT ![h] = r]
      PROVE  Goal
  BY <1>0, <1>2
<1>3. ASSUME NEW h \in Handlers, NEW pc, Goto(h, pc) PROVE Goal
  BY <1>0, <1>3 DEF Goto, Requests
<1>4. ASSUME NEW h \in Handlers, NEW s, Answer(h, s) PROVE Goal
  BY <1>0, <1>4 DEF Answer, Requests
<1>5. ASSUME NEW h \in Handlers, ReceiveEvent(h) PROVE Goal
  <2>1. PICK type, v, sel :
           req' = [req EXCEPT ![h] =
                IF type = ""
                THEN [Idle EXCEPT !.pc = "replying", !.status = 400]
                ELSE [Idle EXCEPT !.pc = "saveEvent", !.type = type,
                         !.videoId = v, !.filename = UploadName, !.sel = sel]]
    BY <1>5 DEF ReceiveEvent
  <2>2. /\ [Idle EXCEPT !.pc = "replying", !.status = 400].missed = NoVideo
        /\ [Idle EXCEPT !.pc = "saveEvent", !.type = type, !.videoId = v,
                        !.filename = UploadName, !.sel = sel].missed = NoVideo
    BY DEF Idle
  <2> QED
    BY <1>2, <2>1, <2>2
<1>6. ASSUME NEW h \in Handlers, StartListing(h) PROVE Goal
  <2>1. /\ [Idle EXCEPT !.pc = "listBucket", !.left = storageAdapters].missed = NoVideo
        /\ [Idle EXCEPT !.pc = "replying", !.status = 500].missed = NoVideo
    BY DEF Idle
  <2> QED
    BY <1>2, <1>6, <2>1 DEF StartListing
<1>7. ASSUME NEW h \in Handlers, NEW o \in Objects, ReceiveWebhook(h, o) PROVE Goal
  <2>1. \E r : r.missed = NoVideo /\ req' = [req EXCEPT ![h] = r]
    <3>1. PICK n \in CreationNotices(o.provider, o.key) :
             req' = [req EXCEPT ![h] =
                IF ParseWebhook(o.provider, n).result = "event"
                THEN [Idle EXCEPT !.pc = "lookup", !.obj = o,
                         !.videoId = ParseWebhook(o.provider, n).videoId,
                         !.filename = ParseWebhook(o.provider, n).filename,
                         !.key = ParseWebhook(o.provider, n).objectKey]
                ELSE [Idle EXCEPT !.pc = "replying", !.obj = o,
                         !.status = IF ParseWebhook(o.provider, n).result = "ignored"
                                    THEN 200 ELSE 400]]
      BY <1>7 DEF ReceiveWebhook
    <3> DEFINE e == ParseWebhook(o.provider, n)
               asked(v, f, k) == [Idle EXCEPT !.pc = "lookup", !.obj = o, !.videoId = v,
                                              !.filename = f, !.key = k]
               answered(s) == [Idle EXCEPT !.pc = "replying", !.obj = o, !.status = s]
    <3>2. \A v, f, k, s : asked(v, f, k).missed = NoVideo /\ answered(s).missed = NoVideo
      BY DEF Idle
    <3>3. req' = [req EXCEPT ![h] =
             IF e.result = "event" THEN asked(e.videoId, e.filename, e.objectKey)
             ELSE answered(IF e.result = "ignored" THEN 200 ELSE 400)]
      BY <3>1
    <3> HIDE DEF e, asked, answered
    <3> QED
      BY <3>2, <3>3
  <2> QED
    BY <1>2, <2>1
<1>8. ASSUME NEW h \in Handlers,
             \/ SaveEvent(h) \/ CreateVideo(h) \/ PublishEvent(h) \/ WriteRun(h)
             \/ ConfirmStorage(h) \/ PublishCompleted(h)
             \/ NextProvider(h) \/ EndListing(h)
      PROVE  Goal
  BY <1>3, <1>4, <1>8 DEF SaveEvent, CreateVideo, PublishEvent, WriteRun,
     ConfirmStorage, PublishCompleted, NextProvider, EndListing
<1>9. ASSUME NEW h \in Handlers, LookupVideo(h) PROVE Goal
  <2>1. \/ Goto(h, "saveVideo")
        \/ \E s : req' = [req EXCEPT ![h].pc = "saveVideo", ![h].found = TRUE,
                                     ![h].sel = s]
    BY <1>9 DEF LookupVideo
  <2>2. ASSUME NEW s, req' = [req EXCEPT ![h].pc = "saveVideo", ![h].found = TRUE,
                                         ![h].sel = s]
        PROVE  Goal
    BY <1>0, <2>2 DEF Requests
  <2> QED
    BY <1>3, <2>1, <2>2
<1>10. ASSUME NEW h \in Handlers, SaveVideo(h) PROVE Goal
  <2>1. \/ Answer(h, 400)
        \/ req' = [req EXCEPT ![h].pc = "confirm", ![h].missed = NoVideo]
    BY <1>10 DEF SaveVideo
  <2>2. CASE req' = [req EXCEPT ![h].pc = "confirm", ![h].missed = NoVideo]
    BY <1>0, <2>2 DEF Requests
  <2> QED
    BY <1>4, <2>1, <2>2
<1>11. ASSUME NEW h \in Handlers, ListBucket(h) PROVE Goal
  <2> DEFINE p == IF "minio" \in req[h].left THEN "minio" ELSE "aws-s3"
             T == {o \in bucket : o.provider = p /\ isListed(o.key)}
  <2>1. \/ req' = [req EXCEPT ![h].pc = "saveListed", ![h].left = @ \ {p}, ![h].todo = T]
        \/ req' = [req EXCEPT ![h].left = @ \ {p}]
    BY <1>11 DEF ListBucket
  <2> HIDE DEF p, T
  <2>2. req'[h].missed = req[h].missed /\ \A g \in Handlers \ {h} : req'[g] = req[g]
    BY <1>0, <2>1 DEF Requests
  <2> QED
    BY <1>0, <2>2
<1>12. ASSUME NEW h \in Handlers, SaveListed(h) PROVE Goal
  <2>1. \/ Answer(h, 200)
        \/ \E t : req' = [req EXCEPT ![h].todo = t, ![h].missed = NoVideo]
    BY <1>12 DEF SaveListed
  <2>2. ASSUME NEW t, req' = [req EXCEPT ![h].todo = t, ![h].missed = NoVideo]
        PROVE  Goal
    BY <1>0, <2>2 DEF Requests
  <2> QED
    BY <1>4, <2>1, <2>2
<1>13. ASSUME NEW h \in Handlers, Reply(h) PROVE Goal
  <2>1. Idle.missed = NoVideo
    BY DEF Idle
  <2> QED
    BY <1>2, <1>13, <2>1 DEF Reply
<1>14. \A h \in Handlers : ~MatchNothing(h)
  BY DEF MatchNothing
<1>15. CASE Crash
  BY <1>15 DEF Crash, Idle
<1>16. CASE Environment /\ ~Crash
  BY <1>1, <1>16 DEF Environment, PutObject, UIPutVideo, UIDeleteVideo
<1>17. CASE UNCHANGED vars
  BY <1>1, <1>17 DEF vars
<1> QED
  BY <1>5, <1>6, <1>7, <1>8, <1>9, <1>10, <1>11, <1>12, <1>13, <1>14, <1>15, <1>16, <1>17
     DEF Next, HandlerStep, Deliver

LEMMA RequestStep ==
    ASSUME IngestInv, [Next]_vars
    PROVE  \A h \in Handlers : RequestInv(h)'
<1>0. /\ CatalogGrows /\ StagesKept /\ \A h \in Handlers : RequestInv(h)
      /\ req \in [Handlers -> Requests]
  BY StepEffects DEF IngestInv, TypeOK
<1>1. ASSUME UNCHANGED req PROVE \A h \in Handlers : RequestInv(h)'
  BY <1>0, <1>1, OthersKept
<1>2. ASSUME NEW h \in Handlers, RequestInv(h)', \A g \in Handlers \ {h} : req'[g] = req[g]
      PROVE  \A g \in Handlers : RequestInv(g)'
  BY <1>0, <1>2, OthersKept
<1>3. CASE UNCHANGED vars
  BY <1>1, <1>3 DEF vars
<1>4. ASSUME NEW h \in Handlers, ReceiveEvent(h) \/ StartListing(h) \/ HandlerStep(h)
      PROVE  RequestInv(h)' /\ \A g \in Handlers \ {h} : req'[g] = req[g]
  BY <1>0, <1>4, ReceiveEventRequest, EventRequest, LookupVideoRequest,
     SaveVideoRequest, ConfirmStorageRequest, PublishCompletedRequest, ListingRequest,
     MatchNothingRequest
     DEF HandlerStep
<1>5. ASSUME NEW o \in Objects, Deliver(o)
      PROVE  \E h \in Handlers :
                RequestInv(h)' /\ \A g \in Handlers \ {h} : req'[g] = req[g]
  BY <1>0, <1>5, ReceiveWebhookRequest DEF Deliver
<1>6. CASE Environment
  <2>1. CASE Crash
    <3>1. \A h \in Handlers : req'[h].pc = "idle"
      BY <2>1 DEF Crash, Idle
    <3> QED
      BY <3>1 DEF RequestInv
  <2>2. CASE ~Crash
    <3>1. UNCHANGED req
      BY <1>6, <2>2 DEF Environment, PutObject, UIPutVideo, UIDeleteVideo
    <3> QED
      BY <1>1, <3>1
  <2> QED
    BY <2>1, <2>2
<1> QED
  BY <1>2, <1>3, <1>4, <1>5, <1>6 DEF Next

(* A message is published with the promises its request has obtained. *)
MessagesInv == \A i \in DOMAIN exchange : MessageInv(exchange[i])

LEMMA MessageStep ==
    ASSUME IngestInv, [Next]_vars
    PROVE  MessagesInv'
<1>0. /\ CatalogGrows /\ StagesKept /\ exchange \in Seq(Messages)
      /\ \A i \in DOMAIN exchange : MessageInv(exchange[i])
  BY StepEffects DEF IngestInv, TypeOK
<1>1. ASSUME NEW i \in DOMAIN exchange
      PROVE  \A m : m = exchange[i] => MessageInv(m)'
  BY <1>0, MessageKept
<1>2. ASSUME UNCHANGED exchange
      PROVE  MessagesInv'
  <2>1. ASSUME NEW i \in DOMAIN exchange' PROVE MessageInv(exchange[i])'
    <3>1. PICK m : m = exchange[i] /\ m = exchange'[i]
      BY <1>2
    <3>2. MessageInv(m)'
      BY <1>1, <1>2, <2>1, <3>1
    <3> QED
      BY <3>1, <3>2 DEF MessageInv
  <2> QED
    BY <2>1 DEF MessagesInv
<1>3. ASSUME NEW m \in Messages, MessageInv(m)', PublishOk(m) \/ PublishErr
      PROVE  MessagesInv'
  <2>1. exchange' = exchange \/ exchange' = Append(exchange, m)
    BY <1>3 DEF PublishOk, PublishErr
  <2>2. CASE exchange' = exchange
    BY <1>2, <2>2
  <2>3. CASE exchange' = Append(exchange, m)
    <3>1. \A i \in DOMAIN exchange' :
             \/ i \in DOMAIN exchange /\ exchange'[i] = exchange[i]
             \/ exchange'[i] = m
      BY <1>0, <2>3
    <3>2. ASSUME NEW i \in DOMAIN exchange' PROVE MessageInv(exchange[i])'
      <4>1. PICK n : n = exchange'[i] /\ MessageInv(n)'
        BY <1>1, <1>3, <3>1, <3>2
      <4> QED
        BY <4>1 DEF MessageInv
    <3> QED
      BY <3>2 DEF MessagesInv
  <2> QED
    BY <2>1, <2>2, <2>3
<1>4. ASSUME NEW h \in Handlers, PublishEvent(h)
      PROVE  MessagesInv'
  <2>1. req[h] \in Requests /\ req[h].type \in EventTypes
    BY <1>4 DEF IngestInv, TypeOK, RequestInv, PublishEvent, At
  <2>2. PICK m \in Messages : m = Message("event", req[h].type, req[h])
    BY <2>1, MessageType
  <2>3. m.source = "event"
    BY <2>2 DEF Message
  <2>4. MessageInv(m)'
    BY <2>3 DEF MessageInv
  <2>5. PublishOk(m) \/ PublishErr
    BY <1>4, <2>2 DEF PublishEvent
  <2> QED
    BY <1>3, <2>4, <2>5
<1>5. ASSUME NEW h \in Handlers, PublishCompleted(h)
      PROVE  MessagesInv'
  <2>1. req[h] \in Requests
    BY DEF IngestInv, TypeOK
  <2>2. PICK m \in Messages : m = Message("webhook", "upload.completed", req[h])
    BY <2>1, MessageType
  <2>3. MessageInv(m)
    BY <1>5, <2>2 DEF IngestInv, RequestInv, PublishCompleted, At, Message, MessageInv
  <2>4. MessageInv(m)'
    BY <1>0, <2>3, MessageKept
  <2>5. PublishOk(m) \/ PublishErr
    BY <1>5, <2>2 DEF PublishCompleted
  <2> QED
    BY <1>3, <2>4, <2>5
<1>6. ASSUME NEW h \in Handlers,
             ReceiveEvent(h) \/ StartListing(h)
                 \/ (HandlerStep(h) /\ ~PublishEvent(h) /\ ~PublishCompleted(h))
      PROVE  UNCHANGED exchange
  BY <1>6 DEF HandlerStep, ReceiveEvent, StartListing, SaveEvent, CreateVideo, WriteRun,
     LookupVideo, SaveVideo, ConfirmStorage, ListBucket, SaveListed, NextProvider,
     EndListing, MatchNothing, Reply, services
<1>7. ASSUME \/ UNCHANGED vars \/ Environment \/ \E o \in Objects : Deliver(o)
      PROVE  UNCHANGED exchange
  BY <1>7 DEF vars, Environment, PutObject, UIPutVideo, UIDeleteVideo, Crash, Deliver,
     ReceiveWebhook, services
<1> QED
  BY <1>2, <1>4, <1>5, <1>6, <1>7 DEF Next

-----------------------------------------------------------------------------
(* The theorems.  Those that speak of one document, or of its selection,   *)
(* assume the unique index on video_id that main.go creates at startup;    *)
(* the others hold of a gateway that has started without it as well.       *)

LEMMA InitInv == Init => IngestInv
<1> SUFFICES ASSUME Init PROVE IngestInv
  OBVIOUS
<1>1. TypeOK
  BY InitType
<1>2. IndexKept
  BY DEF Init, IndexKept, OneDocPerVideo
<1>5. NoneMissed
  <2>1. Idle.missed = NoVideo
    BY DEF Idle
  <2> QED
    BY <2>1 DEF Init, NoneMissed
<1>3. \A h \in Handlers : RequestInv(h)
  <2>1. \A h \in Handlers : req[h].pc = "idle"
    BY DEF Init, Idle
  <2> QED
    BY <2>1 DEF RequestInv
<1>4. \A i \in DOMAIN exchange : MessageInv(exchange[i])
  BY DEF Init
<1> QED
  BY <1>1, <1>2, <1>3, <1>4, <1>5 DEF IngestInv

LEMMA StepInv ==
    ASSUME IngestInv, [Next]_vars
    PROVE  IngestInv'
<1>1. TypeOK' /\ IndexKept' /\ NoneMissed'
  BY TypeStep, StepEffects, NoneMissedStep
<1>2. (\A h \in Handlers : RequestInv(h))'
  BY RequestStep
<1>3. MessagesInv'
  BY MessageStep
<1> QED
  BY <1>1, <1>2, <1>3 DEF IngestInv, MessagesInv

(* The inductive invariant holds of every reachable state: every webhook   *)
(* in flight, and every message it published, is backed by a stored        *)
(* document and by a confirmed (or excused) upload-state document; with    *)
(* the index the catalog has one document per video, no upsert waits       *)
(* between its match and its insert, and the webhook's selection is that   *)
(* document's.                                                             *)
THEOREM IngestInvariant == Spec => []IngestInv
<1>1. Init => IngestInv
  BY InitInv
<1>2. IngestInv /\ [Next]_vars => IngestInv'
  BY StepInv
<1> QED
  BY <1>1, <1>2, PTL DEF Spec

(* The variables keep their types, and a notification is only ever owed    *)
(* for an object that is stored.                                           *)
THEOREM TypeCorrect == Spec => []TypeOK
<1>1. IngestInv => TypeOK
  BY DEF IngestInv
<1> QED
  BY <1>1, IngestInvariant, PTL

(* However events, webhooks and listings race on a new video id, the       *)
(* catalog ends with one document for it (videos/repository.go).           *)
THEOREM CatalogIsUnique == ASSUME UniqueIndex PROVE Spec => []OneDocPerVideo
<1>1. IngestInv => OneDocPerVideo
  BY DEF IngestInv, IndexKept
<1> QED
  BY <1>1, IngestInvariant, PTL

(* No write of any handler ever changes the selection of a document.       *)
THEOREM SelectionsAreFrozen == ASSUME UniqueIndex PROVE Spec => SelectionFrozen
<1> DEFINE A == \A i \in DOMAIN catalog : /\ i \in DOMAIN catalog'
                                          /\ catalog'[i].sel = catalog[i].sel
<1>1. IngestInv /\ [Next]_vars => [A]_catalog
  <2>1. ASSUME IngestInv, [Next]_vars PROVE A
    BY <2>1, StepEffects DEF CatalogGrows
  <2> QED
    BY <2>1
<1>2. Spec => [][A]_catalog
  BY <1>1, IngestInvariant, PTL DEF Spec
<1> QED
  BY <1>2 DEF SelectionFrozen

(* A document known to be stored is never taken for an upload in progress  *)
(* again.                                                                  *)
THEOREM StatusIsMonotone == Spec => StatusNeverRegresses
<1> DEFINE A == \A i \in DOMAIN catalog :
                  catalog'[i].status = "uploading" => catalog[i].status = "uploading"
<1>1. IngestInv /\ [Next]_vars => [A]_catalog
  <2>1. ASSUME IngestInv, [Next]_vars PROVE A
    BY <2>1, StepEffects DEF CatalogGrows
  <2> QED
    BY <2>1
<1>2. Spec => [][A]_catalog
  BY <1>1, IngestInvariant, PTL DEF Spec
<1> QED
  BY <1>2 DEF StatusNeverRegresses

(* What the storage webhook publishes is of a stored video: its document   *)
(* says so.  Of an upload.completed that a front end posts nothing is      *)
(* claimed (events/service.go:44-64 checks nothing).                       *)
THEOREM AnnouncedIsStored == Spec => []StoredBeforeCompleted
<1>1. IngestInv => StoredBeforeCompleted
  <2> SUFFICES ASSUME IngestInv, NEW i \in Webhooked
               PROVE  Stored(exchange[i].videoId)
    BY DEF StoredBeforeCompleted, Stored
  <2> QED
    BY DEF IngestInv, MessageInv, Webhooked
<1> QED
  BY <1>1, IngestInvariant, PTL

(* The selection the webhook forwards is its document's own.               *)
THEOREM SelectionIsForwarded == ASSUME UniqueIndex PROVE Spec => []ForwardedSelection
<1>1. IngestInv => ForwardedSelection
  <2> SUFFICES ASSUME IngestInv, NEW i \in Webhooked
               PROVE  \E d \in DOMAIN catalog :
                        /\ catalog[d].videoId = exchange[i].videoId
                        /\ exchange[i].sel = IF exchange[i].found THEN catalog[d].sel
                                                                 ELSE NoSelection
    BY DEF ForwardedSelection
  <2>1. /\ Carried(exchange[i].found, exchange[i].videoId, exchange[i].sel)
        /\ Stored(exchange[i].videoId)
    BY DEF IngestInv, MessageInv, Webhooked
  <2>2. CASE exchange[i].found
    BY <2>1, <2>2 DEF Carried, Holds
  <2>3. CASE ~exchange[i].found
    BY <2>1, <2>3 DEF Carried, Stored
  <2> QED
    BY <2>2, <2>3
<1> QED
  BY <1>1, IngestInvariant, PTL

(* Stage 3 (storage confirmed) precedes the stage 4 that the webhook       *)
(* starts, unless there was no document to confirm or the patch failed.    *)
THEOREM ConfirmedIsFirst == Spec => []StageThreeUnlessFailed
<1>1. IngestInv => StageThreeUnlessFailed
  BY DEF IngestInv, MessageInv, Webhooked, StageThreeUnlessFailed, Staged
<1> QED
  BY <1>1, IngestInvariant, PTL

(* Neither notification format gets a pipeline output announced by the     *)
(* webhook, for any key and any percent-encoding of it.                    *)
THEOREM OutputsStaySilent == Spec => []PipelineOutputsNotAnnounced
<1>1. IngestInv => PipelineOutputsNotAnnounced
  BY DEF IngestInv, MessageInv, Webhooked, PipelineOutputsNotAnnounced
<1> QED
  BY <1>1, IngestInvariant, PTL
=============================================================================
