------------------------- MODULE IngestAnnouncements --------------------------
(***************************************************************************)
(* Theorems about what Ingest publishes: the start of an upload is         *)
(* announced once, by the request that made its document, every front-end  *)
(* message has its record, and a store is told 200 only about what has     *)
(* been announced.                                                         *)
(***************************************************************************)
EXTENDS IngestProofs, FiniteSetTheorems

-----------------------------------------------------------------------------
(* How each step moves the request it works on *)

Others(h) == \A g \in Handlers \ {h} : req'[g] = req[g]

Keeps(h) == /\ req'[h].type = req[h].type /\ req'[h].videoId = req[h].videoId
            /\ req'[h].key = req[h].key /\ req'[h].obj = req[h].obj

Requesting == req \in [Handlers -> Requests]

LEMMA GotoMove ==
    ASSUME Requesting, NEW h \in Handlers, NEW pc, Goto(h, pc)
    PROVE  Others(h) /\ Keeps(h) /\ req'[h].pc = pc
<1>1. req[h] \in Requests
  BY DEF Requesting
<1> QED
  BY <1>1 DEF Requesting, Goto, Requests, Others, Keeps

LEMMA AnswerMove ==
    ASSUME Requesting, NEW h \in Handlers, NEW s, Answer(h, s)
    PROVE  Others(h) /\ Keeps(h) /\ req'[h].pc = "replying" /\ req'[h].status = s
<1>1. req[h] \in Requests
  BY DEF Requesting
<1> QED
  BY <1>1 DEF Requesting, Answer, Requests, Others, Keeps

LEMMA ReplaceMove ==
    ASSUME Requesting, NEW h \in Handlers, NEW r, req' = [req EXCEPT ![h] = r]
    PROVE  Others(h) /\ req'[h] = r
BY DEF Requesting, Others

(* A request is received without an object, and not in the middle. *)
LEMMA ReceiveEventMove ==
    ASSUME Requesting, NEW h \in Handlers, ReceiveEvent(h)
    PROVE  /\ Others(h) /\ req[h].pc = "idle" /\ req'[h].obj = NoObject
           /\ req'[h].pc \in {"saveEvent", "replying"}
<1>1. PICK type \in EventTypes, v \in Videos \cup {NoVideo}, sel \in Selections :
         req' = [req EXCEPT ![h] =
                IF type = ""
                THEN [Idle EXCEPT !.pc = "replying", !.status = 400]
                ELSE [Idle EXCEPT !.pc = "saveEvent", !.type = type,
                         !.videoId = v, !.filename = UploadName, !.sel = sel]]
  BY DEF ReceiveEvent
<1> DEFINE refused == [Idle EXCEPT !.pc = "replying", !.status = 400]
           taken == [Idle EXCEPT !.pc = "saveEvent", !.type = type,
                         !.videoId = v, !.filename = UploadName, !.sel = sel]
<1>2. /\ refused.obj = NoObject /\ refused.pc = "replying"
      /\ taken.obj = NoObject /\ taken.pc = "saveEvent"
  BY DEF Idle
<1>3. \E r \in {refused, taken} : req' = [req EXCEPT ![h] = r]
  BY <1>1
<1> HIDE DEF refused, taken
<1>4. req[h].pc = "idle"
  BY DEF ReceiveEvent, At
<1> QED
  BY <1>2, <1>3, <1>4, ReplaceMove

LEMMA SaveEventMove ==
    ASSUME Requesting, NEW h \in Handlers, SaveEvent(h)
    PROVE  /\ Others(h) /\ Keeps(h) /\ req[h].pc = "saveEvent"
           /\ \/ req'[h].pc = "publishEvent" /\ req[h].type # "upload.started"
              \/ req'[h].pc = "createVideo" /\ req[h].type = "upload.started"
              \/ req'[h].pc = "replying" /\ req'[h].status = 500
<1>1. \/ Goto(h, "publishEvent") /\ req[h].type # "upload.started"
      \/ Goto(h, "createVideo") /\ req[h].type = "upload.started"
      \/ Answer(h, 500)
  BY DEF SaveEvent
<1>2. req[h].pc = "saveEvent"
  BY DEF SaveEvent, At
<1> QED
  BY <1>1, <1>2, GotoMove, AnswerMove

LEMMA CreateVideoMove ==
    ASSUME Requesting, NEW h \in Handlers, CreateVideo(h)
    PROVE  /\ Others(h) /\ Keeps(h) /\ req[h].pc = "createVideo"
           /\ \/ /\ req'[h].pc = "publishEvent"
                 /\ Create(Doc(req[h].videoId, req[h].filename, "uploading", req[h].sel))
              \/ req'[h].pc = "replying" /\ req'[h].status = 500
<1>1. \/ /\ Goto(h, "publishEvent")
         /\ Create(Doc(req[h].videoId, req[h].filename, "uploading", req[h].sel))
      \/ Answer(h, 500)
  BY DEF CreateVideo
<1>2. req[h].pc = "createVideo"
  BY DEF CreateVideo, At
<1> QED
  BY <1>1, <1>2, GotoMove, AnswerMove

LEMMA PublishEventMove ==
    ASSUME Requesting, NEW h \in Handlers, PublishEvent(h)
    PROVE  /\ Others(h) /\ Keeps(h) /\ req[h].pc = "publishEvent"
           /\ \/ req'[h].pc = "writeRun"
              \/ req'[h].pc = "replying" /\ req'[h].status \in {202, 500}
           /\ \/ exchange' = Append(exchange, Message("event", req[h].type, req[h]))
              \/ exchange' = exchange
<1>1. Goto(h, "writeRun") \/ Answer(h, 202) \/ Answer(h, 500)
  BY DEF PublishEvent
<1>2. req[h].pc = "publishEvent"
  BY DEF PublishEvent, At
<1>3. \/ exchange' = Append(exchange, Message("event", req[h].type, req[h]))
      \/ exchange' = exchange
  BY DEF PublishEvent, PublishOk, PublishErr
<1> QED
  BY <1>1, <1>2, <1>3, GotoMove, AnswerMove

LEMMA WriteRunMove ==
    ASSUME Requesting, NEW h \in Handlers, WriteRun(h)
    PROVE  /\ Others(h) /\ Keeps(h) /\ req[h].pc = "writeRun"
           /\ req'[h].pc = "replying" /\ req'[h].status = 202
BY AnswerMove DEF WriteRun, At

(* A webhook starts with its object and one of its two keys, or is         *)
(* answered at once, and only an output is answered 200.                   *)
LEMMA IgnoredIsOutput ==
    ASSUME NEW o \in Objects, NEW n \in CreationNotices(o.provider, o.key),
           ParseWebhook(o.provider, n).result = "ignored"
    PROVE  ~IsUpload(o)
<1>1. isPipelineOutputKey(n.key) /\ n.key \in {o.key, Escaped[o.key]}
  BY DEF ParseWebhook, MinioParseEvent, S3ParseEvent, newStorageDomainEvent,
         ParseError, Ignored, CreationNotices
<1>2. CASE n.key = o.key
  BY <1>1, <1>2 DEF IsUpload
<1>3. CASE n.key = Escaped[o.key]
  <2>1. Decoded(n.key) = o.key
    BY <1>3, ObjectsAssumption, KeysAssumption
       DEF ObjectsAssumption, KeysAssumption, Decoded
  <2>2. Len(o.key) > 1 /\ o.key[1] \in pipelineOutputPrefixes
    BY <1>1, <2>1 DEF isPipelineOutputKey
  <2>3. Len(Decoded(o.key)) > 1 /\ Decoded(o.key)[1] \in pipelineOutputPrefixes
    BY <2>2, DecodingAssumption DEF DecodingAssumption, Decoded
  <2> QED
    BY <2>3 DEF IsUpload, isPipelineOutputKey
<1> QED
  BY <1>1, <1>2, <1>3

LEMMA ReceiveWebhookMove ==
    ASSUME Requesting, NEW h \in Handlers, NEW o \in Objects, ReceiveWebhook(h, o)
    PROVE  /\ Others(h) /\ req[h].pc = "idle" /\ o \in owed /\ req'[h].obj = o
           /\ \/ /\ req'[h].pc = "lookup"
                 /\ req'[h].key \in {o.key, Escaped[o.key]}
              \/ /\ req'[h].pc = "replying"
                 /\ req'[h].status = 200 => ~IsUpload(o)
<1>1. PICK n \in CreationNotices(o.provider, o.key) :
         req' = [req EXCEPT ![h] =
            IF ParseWebhook(o.provider, n).result = "event"
            THEN [Idle EXCEPT !.pc = "lookup", !.obj = o,
                     !.videoId = ParseWebhook(o.provider, n).videoId,
                     !.filename = ParseWebhook(o.provider, n).filename,
                     !.key = ParseWebhook(o.provider, n).objectKey]
            ELSE [Idle EXCEPT !.pc = "replying", !.obj = o,
                     !.status = IF ParseWebhook(o.provider, n).result = "ignored"
                                THEN 200 ELSE 400]]
  BY DEF ReceiveWebhook
<1>0. req[h].pc = "idle" /\ o \in owed
  BY DEF ReceiveWebhook, At
<1>2. PICK v, k, f : /\ v = ParseWebhook(o.provider, n).videoId
                     /\ k = ParseWebhook(o.provider, n).objectKey
                     /\ f = ParseWebhook(o.provider, n).filename
  OBVIOUS
<1> DEFINE taken == [Idle EXCEPT !.pc = "lookup", !.obj = o,
                        !.videoId = v, !.filename = f, !.key = k]
           refused(s) == [Idle EXCEPT !.pc = "replying", !.obj = o, !.status = s]
<1>3. /\ taken.pc = "lookup" /\ taken.obj = o /\ taken.key = k
      /\ \A s : refused(s).pc = "replying" /\ refused(s).obj = o /\ refused(s).status = s
  BY DEF Idle
<1>4. \/ ParseWebhook(o.provider, n).result = "event" /\ req' = [req EXCEPT ![h] = taken]
      \/ ParseWebhook(o.provider, n).result = "ignored" /\ req' = [req EXCEPT ![h] = refused(200)]
      \/ req' = [req EXCEPT ![h] = refused(400)]
  BY <1>1, <1>2
<1> HIDE DEF taken, refused
<1>5. CASE ParseWebhook(o.provider, n).result = "event" /\ req' = [req EXCEPT ![h] = taken]
  <2>1. k = n.key
    BY <1>2, <1>5, NoticeType
  <2>2. n.key \in {o.key, Escaped[o.key]}
    BY DEF CreationNotices
  <2> QED
    BY <1>0, <1>3, <1>5, <2>1, <2>2, ReplaceMove
<1>6. CASE ParseWebhook(o.provider, n).result = "ignored" /\ req' = [req EXCEPT ![h] = refused(200)]
  <2>1. req'[h] = refused(200) /\ Others(h)
    BY <1>6, ReplaceMove
  <2>2. req'[h].pc = "replying" /\ req'[h].obj = o
    BY <1>3, <2>1
  <2>3. ~IsUpload(o)
    BY <1>6, IgnoredIsOutput
  <2> QED
    BY <1>0, <2>1, <2>2, <2>3
<1>7. CASE req' = [req EXCEPT ![h] = refused(400)]
  <2>1. req'[h] = refused(400) /\ Others(h)
    BY <1>7, ReplaceMove
  <2>2. req'[h].pc = "replying" /\ req'[h].obj = o /\ req'[h].status = 400
    BY <1>3, <2>1
  <2>3. req'[h].status # 200
    BY <2>2, SMT
  <2> QED
    BY <1>0, <2>1, <2>2, <2>3, Zenon
<1> QED
  BY <1>4, <1>5, <1>6, <1>7

LEMMA LookupVideoMove ==
    ASSUME Requesting, NEW h \in Handlers, LookupVideo(h)
    PROVE  /\ Others(h) /\ Keeps(h) /\ req[h].pc = "lookup" /\ req'[h].pc = "saveVideo"
<1>1. \/ Goto(h, "saveVideo")
      \/ \E i \in Found(req[h].videoId) :
            req' = [req EXCEPT ![h].pc = "saveVideo", ![h].found = TRUE,
                               ![h].sel = catalog[i].sel]
  BY DEF LookupVideo
<1>2. req[h].pc = "lookup"
  BY DEF LookupVideo, At
<1>3. ASSUME NEW s, req' = [req EXCEPT ![h].pc = "saveVideo", ![h].found = TRUE, ![h].sel = s]
      PROVE  Others(h) /\ Keeps(h) /\ req'[h].pc = "saveVideo"
  <2>1. req[h] \in Requests
    BY DEF Requesting
  <2> QED
    BY <1>3, <2>1 DEF Requesting, Requests, Others, Keeps
<1> QED
  BY <1>1, <1>2, <1>3, GotoMove

LEMMA SaveVideoMove ==
    ASSUME Requesting, NEW h \in Handlers, SaveVideo(h)
    PROVE  /\ Others(h) /\ Keeps(h) /\ req[h].pc = "saveVideo"
           /\ \/ req'[h].pc = "confirm"
              \/ req'[h].pc = "replying" /\ req'[h].status = 400
<1>0. req[h] \in Requests
  BY DEF Requesting
<1>1. \/ req' = [req EXCEPT ![h].pc = "confirm", ![h].missed = NoVideo]
      \/ Answer(h, 400)
  BY DEF SaveVideo
<1>2. req[h].pc = "saveVideo"
  BY DEF SaveVideo, At
<1>3. ASSUME req' = [req EXCEPT ![h].pc = "confirm", ![h].missed = NoVideo]
      PROVE  Others(h) /\ Keeps(h) /\ req'[h].pc = "confirm"
  BY <1>0, <1>3 DEF Requesting, Requests, Others, Keeps
<1> QED
  BY <1>1, <1>2, <1>3, AnswerMove

(* The step of an upsert that finds nothing leaves the request where it is. *)
LEMMA MatchNothingMove ==
    ASSUME Requesting, NEW h \in Handlers, MatchNothing(h)
    PROVE  /\ Others(h) /\ Keeps(h) /\ req'[h].pc = req[h].pc
           /\ req[h].pc \in {"saveVideo", "saveListed"}
<1>0. req[h] \in Requests
  BY DEF Requesting
<1>1. PICK v \in Upserted(h) : req' = [req EXCEPT ![h].missed = v]
  BY DEF MatchNothing
<1>2. Others(h) /\ Keeps(h) /\ req'[h].pc = req[h].pc
  BY <1>0, <1>1 DEF Requesting, Requests, Others, Keeps
<1>3. req[h].pc \in {"saveVideo", "saveListed"}
  BY <1>1 DEF Upserted, At
<1> QED
  BY <1>2, <1>3

LEMMA ConfirmStorageMove ==
    ASSUME Requesting, NEW h \in Handlers, ConfirmStorage(h)
    PROVE  Others(h) /\ Keeps(h) /\ req[h].pc = "confirm" /\ req'[h].pc = "publishCompleted"
BY GotoMove DEF ConfirmStorage, At

LEMMA PublishCompletedMove ==
    ASSUME Requesting, NEW h \in Handlers, PublishCompleted(h)
    PROVE  /\ Others(h) /\ Keeps(h) /\ req[h].pc = "publishCompleted"
           /\ req'[h].pc = "replying"
           /\ \/ /\ exchange' = Append(exchange, Message("webhook", "upload.completed", req[h]))
                 /\ req'[h].status = 200
              \/ exchange' = exchange /\ req'[h].status = 400
              \/ MayLose /\ exchange' = exchange /\ req'[h].status = 200
<1>1. \/ /\ exchange' = Append(exchange, Message("webhook", "upload.completed", req[h]))
         /\ Answer(h, 200)
      \/ MayLose /\ exchange' = exchange /\ Answer(h, 200)
      \/ exchange' = exchange /\ Answer(h, 400)
  BY DEF PublishCompleted, PublishOk, PublishErr
<1>2. req[h].pc = "publishCompleted"
  BY DEF PublishCompleted, At
<1> QED
  BY <1>1, <1>2, AnswerMove

(* A listing has no object of its own. *)
LEMMA ListingMove ==
    ASSUME Requesting, NEW h \in Handlers,
           StartListing(h) \/ ListBucket(h) \/ SaveListed(h) \/ NextProvider(h) \/ EndListing(h)
    PROVE  /\ Others(h) /\ req[h].pc \in {"idle", "listBucket", "saveListed"}
           /\ req'[h].pc \in {"listBucket", "saveListed", "replying"}
           /\ req'[h].obj = NoObject \/ (req[h].pc # "idle" /\ req'[h].obj = req[h].obj)
<1>0. req[h] \in Requests
  BY DEF Requesting
<1>1. CASE StartListing(h)
  <2> DEFINE started == [Idle EXCEPT !.pc = "listBucket", !.left = storageAdapters]
             refused == [Idle EXCEPT !.pc = "replying", !.status = 500]
  <2>1. /\ started.pc = "listBucket" /\ started.obj = NoObject
        /\ refused.pc = "replying" /\ refused.obj = NoObject
    BY DEF Idle
  <2>2. req[h].pc = "idle" /\ \E r \in {started, refused} : req' = [req EXCEPT ![h] = r]
    BY <1>1 DEF StartListing, At
  <2> HIDE DEF started, refused
  <2> QED
    BY <2>1, <2>2, ReplaceMove
<1>2. CASE ListBucket(h)
  <2> DEFINE p == IF "minio" \in req[h].left THEN "minio" ELSE "aws-s3"
             T == {o \in bucket : o.provider = p /\ isListed(o.key)}
  <2>0. /\ req[h].pc = "listBucket"
        /\ \/ req' = [req EXCEPT ![h].pc = "saveListed", ![h].left = @ \ {p}, ![h].todo = T]
           \/ req' = [req EXCEPT ![h].left = @ \ {p}]
    BY <1>2 DEF ListBucket, At
  <2> HIDE DEF p, T
  <2>1. req'[h].pc \in {"listBucket", "saveListed"} /\ req'[h].obj = req[h].obj
    BY <1>0, <2>0, ZenonT(60) DEF Requests, Requesting
  <2>2. Others(h)
    BY <2>0 DEF Requesting, Others
  <2> QED
    BY <2>0, <2>1, <2>2
<1>3. CASE SaveListed(h)
  <2>1. /\ req[h].pc = "saveListed"
        /\ \/ Answer(h, 200)
           \/ \E o \in req[h].todo :
                 req' = [req EXCEPT ![h].todo = @ \ {o}, ![h].missed = NoVideo]
    BY <1>3 DEF SaveListed, At
  <2>2. ASSUME NEW o \in req[h].todo,
               req' = [req EXCEPT ![h].todo = @ \ {o}, ![h].missed = NoVideo]
        PROVE  req'[h].pc = "saveListed" /\ req'[h].obj = req[h].obj /\ Others(h)
    BY <1>0, <2>1, <2>2 DEF Requests, Requesting, Others
  <2> QED
    BY <2>1, <2>2, AnswerMove DEF Keeps
<1>4. CASE NextProvider(h)
  BY <1>4, GotoMove DEF NextProvider, At, Keeps
<1>5. CASE EndListing(h)
  BY <1>5, AnswerMove DEF EndListing, At, Keeps
<1> QED
  BY <1>1, <1>2, <1>3, <1>4, <1>5

LEMMA ReplyMove ==
    ASSUME Requesting, NEW h \in Handlers, Reply(h)
    PROVE  /\ Others(h) /\ req[h].pc = "replying" /\ req'[h].pc = "idle"
           /\ req'[h].obj = NoObject
<1>1. req' = [req EXCEPT ![h] = Idle] /\ req[h].pc = "replying"
  BY DEF Reply, At
<1>2. Idle.pc = "idle" /\ Idle.obj = NoObject
  BY DEF Idle
<1> QED
  BY <1>1, <1>2, ReplaceMove

LEMMA CrashMove ==
    ASSUME Crash, NEW h \in Handlers
    PROVE  req'[h].pc = "idle" /\ req'[h].obj = NoObject
BY DEF Crash, Idle

(* The steps that publish nothing. *)
LEMMA OnlyTwoPublish ==
    ASSUME [Next]_vars,
           ~ \E h \in Handlers : PublishEvent(h) \/ PublishCompleted(h)
    PROVE  UNCHANGED exchange
<1>1. ASSUME NEW h \in Handlers,
             ReceiveEvent(h) \/ StartListing(h)
                 \/ (HandlerStep(h) /\ ~PublishEvent(h) /\ ~PublishCompleted(h))
      PROVE  UNCHANGED exchange
  BY <1>1 DEF HandlerStep, ReceiveEvent, StartListing, SaveEvent, CreateVideo, WriteRun,
     LookupVideo, SaveVideo, ConfirmStorage, ListBucket, SaveListed, NextProvider,
     EndListing, MatchNothing, Reply, services
<1>2. ASSUME \/ UNCHANGED vars \/ Environment \/ \E o \in Objects : Deliver(o)
      PROVE  UNCHANGED exchange
  BY <1>2 DEF vars, Environment, PutObject, UIPutVideo, UIDeleteVideo, Crash, Deliver,
     ReceiveWebhook, services
<1> QED
  BY <1>1, <1>2 DEF Next

-----------------------------------------------------------------------------
(* The start of an upload is announced once *)

LEMMA FoundStays ==
    ASSUME CatalogGrows, NEW v, Found(v) # {}
    PROVE  Found(v)' # {}
<1>1. PICK i \in DOMAIN catalog : catalog[i].videoId = v
  BY DEF Found
<1>2. i \in DOMAIN catalog' /\ catalog'[i].videoId = v
  BY <1>1 DEF CatalogGrows
<1> QED
  BY <1>2 DEF Found

LEMMA StartedAfter ==
    ASSUME exchange \in Seq(Messages), NEW m \in Messages,
           exchange' = Append(exchange, m), NEW v
    PROVE  Started(v)' <=> \/ Started(v)
                           \/ m.type = "upload.started" /\ m.videoId = v
<1>1. /\ DOMAIN exchange' = DOMAIN exchange \cup {Len(exchange) + 1}
      /\ exchange'[Len(exchange) + 1] = m
      /\ \A i \in DOMAIN exchange : exchange'[i] = exchange[i]
  OBVIOUS
<1> QED
  BY <1>1 DEF Started

(* Nothing is published and no request comes to announce a start.          *)
NoneStarts ==
    /\ UNCHANGED exchange
    /\ \A h \in Handlers :
          /\ At(h, "createVideo")' => req'[h].type = "upload.started"
          /\ Starting(h)' => Starting(h) /\ req'[h].videoId = req[h].videoId

LEMMA StartKept ==
    ASSUME StartInv, CatalogGrows, NoneStarts
    PROVE  StartInv'
<1> USE DEF NoneStarts
<1>1. \A v : Started(v)' <=> Started(v)
  BY DEF Started
<1>2. StartedOnce'
  BY DEF StartInv, StartedOnce
<1>3. \A v \in VideoIds \cup {NoVideo} : Started(v)' => Found(v)' # {}
  BY <1>1, FoundStays DEF StartInv
<1>4. ASSUME NEW h \in Handlers, Starting(h)'
      PROVE  (Found(req[h].videoId) # {} /\ ~Started(req[h].videoId))'
  <2>1. PICK v : v = req[h].videoId /\ v = req'[h].videoId
    BY <1>4
  <2>2. Found(v) # {} /\ ~Started(v)
    BY <1>4, <2>1 DEF StartInv
  <2>3. Found(v)' # {} /\ ~Started(v)'
    BY <1>1, <2>2, FoundStays
  <2> QED
    BY <2>1, <2>3 DEF Found, Started
<1>5. \A g, h \in Handlers :
         Starting(g)' /\ Starting(h)' /\ req'[g].videoId = req'[h].videoId => g = h
  BY DEF StartInv
<1>6. (\A v \in VideoIds \cup {NoVideo} : Started(v) => Found(v) # {})'
  BY <1>3
<1>7. (\A h \in Handlers : At(h, "createVideo") => req[h].type = "upload.started")'
  OBVIOUS
<1>8. (\A h \in Handlers : Starting(h) => /\ Found(req[h].videoId) # {}
                                          /\ ~Started(req[h].videoId))'
  BY <1>4
<1>9. (\A g, h \in Handlers :
          Starting(g) /\ Starting(h) /\ req[g].videoId = req[h].videoId => g = h)'
  BY <1>5
<1> QED
  BY <1>2, <1>6, <1>7, <1>8, <1>9 DEF StartInv

(* The steps of a handler that neither insert nor publish.                 *)
LEMMA QuietHandlerStart ==
    ASSUME StartInv, Requesting, NEW h \in Handlers,
           ReceiveEvent(h) \/ StartListing(h) \/ HandlerStep(h),
           ~CreateVideo(h), ~PublishEvent(h), ~PublishCompleted(h), UNCHANGED exchange
    PROVE  NoneStarts
<1>1. /\ Others(h)
      /\ \/ req'[h].pc \notin {"createVideo", "publishEvent"}
         \/ /\ req'[h].pc \in {"createVideo", "publishEvent"} /\ req'[h].type = req[h].type
            /\ req'[h].pc = "createVideo" <=> req[h].type = "upload.started"
  <2>0. CASE MatchNothing(h)
    BY <2>0, MatchNothingMove
  <2>1. CASE SaveEvent(h)
    BY <2>1, SaveEventMove DEF Keeps
  <2>2. CASE ReceiveEvent(h)
    BY <2>2, ReceiveEventMove
  <2>3. CASE WriteRun(h) \/ LookupVideo(h) \/ SaveVideo(h) \/ ConfirmStorage(h) \/ Reply(h)
    BY <2>3, WriteRunMove, LookupVideoMove, SaveVideoMove, ConfirmStorageMove, ReplyMove
  <2>4. CASE StartListing(h) \/ ListBucket(h) \/ SaveListed(h) \/ NextProvider(h) \/ EndListing(h)
    BY <2>4, ListingMove
  <2> QED
    BY <2>0, <2>1, <2>2, <2>3, <2>4 DEF HandlerStep
<1>2. ASSUME NEW g \in Handlers
      PROVE  /\ At(g, "createVideo")' => req'[g].type = "upload.started"
             /\ Starting(g)' => Starting(g) /\ req'[g].videoId = req[g].videoId
  <2>1. CASE g = h
    BY <1>1, <2>1 DEF At, Starting
  <2>2. CASE g # h
    BY <1>1, <2>2 DEF Others, StartInv, At, Starting
  <2> QED
    BY <2>1, <2>2
<1> QED
  BY <1>2 DEF NoneStarts

(* The request whose insert succeeds is the only one of its video.         *)
LEMMA CreateVideoStart ==
    ASSUME UniqueIndex, StartInv, IngestInv, CatalogGrows, NEW h \in Handlers, CreateVideo(h)
    PROVE  StartInv'
<1>0. /\ Requesting /\ catalog \in Seq(Docs) /\ UNCHANGED exchange
      /\ req[h].videoId \in VideoIds
  BY DEF IngestInv, TypeOK, Requesting, CreateVideo, RequestInv, At
<1>1. /\ Others(h) /\ Keeps(h) /\ req[h].pc = "createVideo"
      /\ \/ /\ req'[h].pc = "publishEvent"
            /\ Create(Doc(req[h].videoId, req[h].filename, "uploading", req[h].sel))
         \/ req'[h].pc = "replying"
  BY <1>0, CreateVideoMove
<1>2. CASE req'[h].pc = "replying"
  <2>1. ASSUME NEW g \in Handlers
        PROVE  /\ At(g, "createVideo")' => req'[g].type = "upload.started"
               /\ Starting(g)' => Starting(g) /\ req'[g].videoId = req[g].videoId
    BY <1>1, <1>2 DEF Others, StartInv, At, Starting
  <2> QED
    BY <1>0, <2>1, StartKept DEF NoneStarts
<1>3. CASE /\ req'[h].pc = "publishEvent"
           /\ Create(Doc(req[h].videoId, req[h].filename, "uploading", req[h].sel))
  <2> DEFINE d == Doc(req[h].videoId, req[h].filename, "uploading", req[h].sel)
  <2>1. PICK v \in VideoIds : v = req[h].videoId /\ v = req'[h].videoId /\ d.videoId = v
    BY <1>0, <1>1 DEF Keeps, Doc
  <2>2. Found(v) = {} /\ catalog' = Append(catalog, d)
    BY <1>3, <2>1 DEF Create, DuplicateKey
  <2> HIDE DEF d
  <2>3. Found(v)' # {}
    <3>1. Len(catalog) + 1 \in DOMAIN catalog' /\ catalog'[Len(catalog) + 1] = d
      BY <1>0, <2>2
    <3> QED
      BY <2>1, <3>1 DEF Found
  <2>4. ~Started(v)
    BY <2>2 DEF StartInv
  <2>5. \A g \in Handlers : Starting(g) => req[g].videoId # v
    BY <2>2 DEF StartInv
  <2>6. \A u : Started(u)' <=> Started(u)
    BY <1>0 DEF Started
  <2>7. \A g \in Handlers \ {h} : /\ Starting(g)' <=> Starting(g)
                                  /\ req'[g] = req[g]
    BY <1>1 DEF Others, Starting, At
  <2>8. StartedOnce'
    BY <1>0 DEF StartInv, StartedOnce
  <2>9. (\A u \in VideoIds \cup {NoVideo} : Started(u) => Found(u) # {})'
    BY <2>6, FoundStays DEF StartInv
  <2>10. (\A g \in Handlers : At(g, "createVideo") => req[g].type = "upload.started")'
    BY <1>1, <1>3 DEF Others, StartInv, At
  <2>11. (\A g \in Handlers : Starting(g) => /\ Found(req[g].videoId) # {}
                                             /\ ~Started(req[g].videoId))'
    <3>1. ASSUME NEW g \in Handlers, Starting(g)'
          PROVE  (Found(req[g].videoId) # {} /\ ~Started(req[g].videoId))'
      <4>1. PICK u : u = req'[g].videoId /\ (u = v \/ (Starting(g) /\ u = req[g].videoId))
        BY <2>1, <2>7, <3>1
      <4>2. Found(u)' # {} /\ ~Started(u)'
        BY <2>3, <2>4, <2>6, <4>1, FoundStays DEF StartInv
      <4> QED
        BY <4>1, <4>2 DEF Found, Started
    <3> QED
      BY <3>1
  <2>12. (\A g, k \in Handlers :
            Starting(g) /\ Starting(k) /\ req[g].videoId = req[k].videoId => g = k)'
    <3>1. ASSUME NEW g \in Handlers, NEW k \in Handlers, Starting(g)', Starting(k)',
                 req'[g].videoId = req'[k].videoId
          PROVE  g = k
      BY <2>1, <2>5, <2>7, <3>1 DEF StartInv
    <3> QED
      BY <3>1
  <2> QED
    BY <2>8, <2>9, <2>10, <2>11, <2>12 DEF StartInv
<1> QED
  BY <1>1, <1>2, <1>3

(* A published message is the start of an upload only if its request was   *)
(* the one about to announce it, which it then no longer is.               *)
LEMMA PublishStart ==
    ASSUME StartInv, IngestInv, CatalogGrows, NEW h \in Handlers,
           PublishEvent(h) \/ PublishCompleted(h)
    PROVE  StartInv'
<1>0. /\ Requesting /\ exchange \in Seq(Messages) /\ req[h] \in Requests
      /\ UNCHANGED catalog
  BY DEF IngestInv, TypeOK, Requesting, PublishEvent, PublishCompleted
<1>1. /\ Others(h) /\ req'[h].pc \in {"writeRun", "replying"}
      /\ req[h].pc \in {"publishEvent", "publishCompleted"}
  BY <1>0, PublishEventMove, PublishCompletedMove
<1>2. ASSUME NEW g \in Handlers
      PROVE  /\ At(g, "createVideo")' => req'[g].type = "upload.started"
             /\ Starting(g)' => /\ g # h /\ Starting(g) /\ req'[g].videoId = req[g].videoId
  BY <1>1 DEF Others, StartInv, At, Starting
<1>3. CASE exchange' = exchange
  BY <1>2, <1>3, StartKept DEF NoneStarts
<1>4. ASSUME NEW m \in Messages, exchange' = Append(exchange, m),
             m.type = "upload.started" => Starting(h) /\ m.videoId = req[h].videoId
      PROVE  StartInv'
  <2>0. /\ DOMAIN exchange' = DOMAIN exchange \cup {Len(exchange) + 1}
        /\ exchange'[Len(exchange) + 1] = m
        /\ \A i \in DOMAIN exchange : exchange'[i] = exchange[i]
    BY <1>0, <1>4
  <2>1. \A u : Started(u)' <=> Started(u) \/ (m.type = "upload.started" /\ m.videoId = u)
    BY <1>0, <1>4, StartedAfter
  <2>2. m.type = "upload.started" => ~Started(m.videoId) /\ Found(m.videoId) # {}
    BY <1>4 DEF StartInv
  <2>3. StartedOnce'
    <3>1. ASSUME NEW i \in DOMAIN exchange', NEW j \in DOMAIN exchange',
                 exchange'[i].type = "upload.started", exchange'[j].type = "upload.started",
                 exchange'[i].videoId = exchange'[j].videoId
          PROVE  i = j
      BY <2>0, <2>2, <3>1 DEF Started, StartInv, StartedOnce
    <3> QED
      BY <3>1 DEF StartedOnce
  <2>4. (\A u \in VideoIds \cup {NoVideo} : Started(u) => Found(u) # {})'
    BY <2>1, <2>2, FoundStays DEF StartInv
  <2>5. (\A g \in Handlers : At(g, "createVideo") => req[g].type = "upload.started")'
    BY <1>2
  <2>6. (\A g \in Handlers : Starting(g) => /\ Found(req[g].videoId) # {}
                                            /\ ~Started(req[g].videoId))'
    <3>1. ASSUME NEW g \in Handlers, Starting(g)'
          PROVE  (Found(req[g].videoId) # {} /\ ~Started(req[g].videoId))'
      <4>1. PICK u : u = req'[g].videoId /\ u = req[g].videoId
        BY <1>2, <3>1
      <4>2. g # h /\ Starting(g) /\ Found(u) # {} /\ ~Started(u)
        BY <1>2, <3>1, <4>1 DEF StartInv
      <4>3. m.type = "upload.started" => m.videoId # u
        BY <1>4, <4>1, <4>2 DEF StartInv
      <4>4. Found(u)' # {} /\ ~Started(u)'
        BY <2>1, <4>2, <4>3, FoundStays
      <4> QED
        BY <4>1, <4>4 DEF Found, Started
    <3> QED
      BY <3>1
  <2>7. (\A g, k \in Handlers :
            Starting(g) /\ Starting(k) /\ req[g].videoId = req[k].videoId => g = k)'
    <3>1. ASSUME NEW g \in Handlers, NEW k \in Handlers, Starting(g)', Starting(k)',
                 req'[g].videoId = req'[k].videoId
          PROVE  g = k
      BY <1>2, <3>1 DEF StartInv
    <3> QED
      BY <3>1
  <2> QED
    BY <2>3, <2>4, <2>5, <2>6, <2>7 DEF StartInv
<1>5. CASE PublishEvent(h) /\ exchange' # exchange
  <2>1. PICK m \in Messages : m = Message("event", req[h].type, req[h])
    BY <1>0, <1>5, MessageType DEF IngestInv, RequestInv, PublishEvent, At
  <2>2. exchange' = Append(exchange, m) /\ req[h].pc = "publishEvent"
    BY <1>0, <1>5, <2>1, PublishEventMove
  <2>3. m.type = req[h].type /\ m.videoId = req[h].videoId
    BY <2>1 DEF Message
  <2> QED
    BY <1>4, <2>2, <2>3 DEF Starting, At
<1>6. CASE PublishCompleted(h) /\ exchange' # exchange
  <2>1. PICK m \in Messages : m = Message("webhook", "upload.completed", req[h])
    BY <1>0, MessageType
  <2>2. exchange' = Append(exchange, m)
    BY <1>0, <1>6, <2>1, PublishCompletedMove
  <2>3. m.type = "upload.completed"
    BY <2>1 DEF Message
  <2> QED
    BY <1>4, <2>2, <2>3
<1> QED
  BY <1>3, <1>5, <1>6

(* Only inserts and publishes bear on the starts.                          *)
LEMMA QuietStart ==
    ASSUME IngestInv, StartInv, [Next]_vars,
           ~ \E h \in Handlers : CreateVideo(h) \/ PublishEvent(h) \/ PublishCompleted(h)
    PROVE  NoneStarts
<1>0. Requesting
  BY DEF IngestInv, TypeOK, Requesting
<1>1. ASSUME UNCHANGED <<req, exchange>> PROVE NoneStarts
  BY <1>1 DEF StartInv, At, Starting, NoneStarts
<1>2. CASE UNCHANGED vars
  BY <1>1, <1>2 DEF vars
<1>3. ASSUME NEW h \in Handlers, ReceiveEvent(h) \/ StartListing(h) \/ HandlerStep(h)
      PROVE  NoneStarts
  <2>1. UNCHANGED exchange
    BY <1>3 DEF HandlerStep, ReceiveEvent, StartListing, SaveEvent, WriteRun,
       LookupVideo, SaveVideo, ConfirmStorage, ListBucket, SaveListed, NextProvider,
       EndListing, MatchNothing, Reply, services
  <2> QED
    BY <1>0, <1>3, <2>1, QuietHandlerStart
<1>4. ASSUME NEW o \in Objects, Deliver(o) PROVE NoneStarts
  <2>1. PICK h \in Handlers : ReceiveWebhook(h, o)
    BY <1>4 DEF Deliver
  <2>2. Others(h) /\ req'[h].pc \in {"lookup", "replying"} /\ UNCHANGED exchange
    BY <1>0, <2>1, ReceiveWebhookMove DEF ReceiveWebhook, services
  <2> QED
    BY <2>2 DEF Others, StartInv, At, Starting, NoneStarts
<1>5. CASE Environment
  <2>1. CASE Crash
    <3>1. \A g \in Handlers : ~At(g, "createVideo")' /\ ~Starting(g)'
      BY <2>1, CrashMove DEF At, Starting
    <3> QED
      BY <2>1, <3>1 DEF Crash, services, NoneStarts
  <2>2. CASE ~Crash
    BY <1>1, <1>5, <2>2 DEF Environment, PutObject, UIPutVideo, UIDeleteVideo, services
  <2> QED
    BY <2>1, <2>2
<1> QED
  BY <1>2, <1>3, <1>4, <1>5 DEF Next

LEMMA StartStep ==
    ASSUME UniqueIndex, IngestInv, StartInv, [Next]_vars
    PROVE  StartInv'
<1>0. CatalogGrows
  BY StepEffects
<1>1. CASE \E h \in Handlers : CreateVideo(h)
  BY <1>0, <1>1, CreateVideoStart
<1>2. CASE \E h \in Handlers : PublishEvent(h) \/ PublishCompleted(h)
  BY <1>0, <1>2, PublishStart
<1>3. CASE ~ \E h \in Handlers : CreateVideo(h) \/ PublishEvent(h) \/ PublishCompleted(h)
  BY <1>0, <1>3, QuietStart, StartKept
<1> QED
  BY <1>1, <1>2, <1>3

LEMMA StartInit == Init => StartInv
<1> SUFFICES ASSUME Init PROVE StartInv
  OBVIOUS
<1>1. \A h \in Handlers : req[h].pc = "idle"
  BY DEF Init, Idle
<1>2. DOMAIN exchange = {}
  BY DEF Init
<1> QED
  BY <1>1, <1>2 DEF StartInv, StartedOnce, Started, Starting, At

(* Only the request that made a video's document announces its start, and  *)
(* only once.                                                              *)
THEOREM StartInvariant == ASSUME UniqueIndex PROVE Spec => [](IngestInv /\ StartInv)
<1>1. Init => IngestInv /\ StartInv
  BY InitInv, StartInit
<1>2. IngestInv /\ StartInv /\ [Next]_vars => (IngestInv /\ StartInv)'
  BY StepInv, StartStep
<1> QED
  BY <1>1, <1>2, PTL DEF Spec

(* video.upload.started is announced at most once per video, whatever the  *)
(* front end retries and whatever is lost or crashes meanwhile.            *)
THEOREM StartedIsOnce == ASSUME UniqueIndex PROVE Spec => []StartedOnce
<1>1. IngestInv /\ StartInv => StartedOnce
  BY DEF StartInv
<1> QED
  BY <1>1, StartInvariant, PTL

(* A step that announces no start and lets no request come to announce one *)
(* but the one that has just made the document.                            *)
NoLateStart ==
    \A v \in VideoIds :
        Settled(v) =>
            /\ StartsOf(v)' = StartsOf(v)
            /\ \A h \in Handlers : ~(Starting(h)' /\ req'[h].videoId = v)

LEMMA CreateVideoSettled ==
    ASSUME UniqueIndex, IngestInv, StartInv, NEW h \in Handlers, CreateVideo(h)
    PROVE  NoLateStart
<1>0. Requesting /\ UNCHANGED exchange
  BY DEF IngestInv, TypeOK, Requesting, CreateVideo
<1>1. /\ Others(h) /\ req'[h].videoId = req[h].videoId
      /\ \/ Create(Doc(req[h].videoId, req[h].filename, "uploading", req[h].sel))
         \/ req'[h].pc = "replying"
  BY <1>0, CreateVideoMove DEF Keeps
<1>2. Starting(h)' => Found(req[h].videoId) = {}
  <2>1. Doc(req[h].videoId, req[h].filename, "uploading", req[h].sel).videoId = req[h].videoId
    BY DEF Doc
  <2> QED
    BY <1>1, <2>1 DEF Create, DuplicateKey, Starting, At
<1>3. \A g \in Handlers \ {h} : req'[g] = req[g] /\ (Starting(g)' => Starting(g))
  BY <1>1 DEF Others, Starting, At
<1>4. \A v \in VideoIds : StartsOf(v)' = StartsOf(v)
  BY <1>0 DEF StartsOf
<1> QED
  BY <1>1, <1>2, <1>3, <1>4 DEF NoLateStart, Settled

LEMMA PublishSettled ==
    ASSUME IngestInv, NEW h \in Handlers, PublishEvent(h) \/ PublishCompleted(h)
    PROVE  NoLateStart
<1>0. Requesting /\ exchange \in Seq(Messages)
  BY DEF IngestInv, TypeOK, Requesting
<1>1. \A g \in Handlers : Starting(g)' => Starting(g) /\ req'[g] = req[g]
  BY <1>0, PublishEventMove, PublishCompletedMove DEF Others, Starting, At
<1>2. ASSUME NEW m, exchange' = Append(exchange, m),
             m.type = "upload.started" => Starting(h) /\ m.videoId = req[h].videoId
      PROVE  NoLateStart
  <2>1. /\ DOMAIN exchange' = DOMAIN exchange \cup {Len(exchange) + 1}
        /\ exchange'[Len(exchange) + 1] = m
        /\ \A i \in DOMAIN exchange : exchange'[i] = exchange[i]
    BY <1>0, <1>2
  <2>2. ASSUME NEW v \in VideoIds, ~(Starting(h) /\ req[h].videoId = v)
        PROVE  StartsOf(v)' = StartsOf(v)
    BY <1>2, <2>1, <2>2 DEF StartsOf
  <2> QED
    BY <1>1, <2>2 DEF NoLateStart, Settled
<1>3. CASE exchange' = exchange
  BY <1>1, <1>3 DEF NoLateStart, StartsOf, Settled
<1>4. CASE PublishEvent(h) /\ exchange' # exchange
  <2>1. /\ exchange' = Append(exchange, Message("event", req[h].type, req[h]))
        /\ req[h].pc = "publishEvent"
    BY <1>0, <1>4, PublishEventMove
  <2>2. /\ Message("event", req[h].type, req[h]).type = req[h].type
        /\ Message("event", req[h].type, req[h]).videoId = req[h].videoId
    BY DEF Message
  <2> QED
    BY <1>2, <2>1, <2>2 DEF Starting, At
<1>5. CASE PublishCompleted(h) /\ exchange' # exchange
  <2>1. exchange' = Append(exchange, Message("webhook", "upload.completed", req[h]))
    BY <1>0, <1>5, PublishCompletedMove
  <2>2. Message("webhook", "upload.completed", req[h]).type = "upload.completed"
    BY DEF Message
  <2> QED
    BY <1>2, <2>1, <2>2
<1> QED
  BY <1>3, <1>4, <1>5

(* Once the request that made a video's document is over, no retry ever    *)
(* announces its start: a failed publish is not made good, and a           *)
(* successful one is not repeated.                                         *)
THEOREM StartsSettle == ASSUME UniqueIndex PROVE Spec => StartSettles
<1>1. ASSUME IngestInv, StartInv, [Next]_vars
      PROVE  \A v \in VideoIds : Settled(v) => Settled(v)' /\ StartsOf(v)' = StartsOf(v)
  <2>1. CatalogGrows
    BY <1>1, StepEffects
  <2>2. NoLateStart
    <3>1. CASE NoneStarts
      BY <3>1 DEF NoneStarts, NoLateStart, StartsOf, Settled
    <3> QED
      BY <1>1, <3>1, QuietStart, CreateVideoSettled, PublishSettled
  <2>3. ASSUME NEW v \in VideoIds, Settled(v)
        PROVE  Settled(v)' /\ StartsOf(v)' = StartsOf(v)
    <3>1. Found(v)' # {}
      BY <2>1, <2>3, FoundStays DEF Settled
    <3> QED
      BY <2>2, <2>3, <3>1 DEF NoLateStart, Settled, Found, StartsOf, Starting, At
  <2> QED
    BY <2>3
<1>2. IngestInv /\ StartInv /\ [Next]_vars
        => [\A v \in VideoIds : Settled(v) => Settled(v)' /\ StartsOf(v)' = StartsOf(v)]_vars
  BY <1>1
<1> QED
  BY <1>2, StartInvariant, PTL DEF Spec, StartSettles

-----------------------------------------------------------------------------
(* A store is told 200 only about what has been announced *)

(* Messages and objects are never taken back. *)
Grows == /\ bucket \subseteq bucket'
         /\ \/ UNCHANGED exchange
            \/ \E m \in Messages : exchange' = Append(exchange, m)

LEMMA StepGrows == ASSUME IngestInv, [Next]_vars PROVE Grows
<1>1. bucket \subseteq bucket'
  <2>1. ASSUME NEW h \in Handlers, ReceiveEvent(h) \/ StartListing(h) \/ HandlerStep(h)
        PROVE  UNCHANGED bucket
    BY <2>1 DEF HandlerStep, ReceiveEvent, StartListing, SaveEvent, CreateVideo,
       PublishEvent, WriteRun, LookupVideo, SaveVideo, ConfirmStorage, PublishCompleted,
       ListBucket, SaveListed, NextProvider, EndListing, MatchNothing, Reply, stores
  <2>2. ASSUME NEW o \in Objects, Deliver(o) PROVE UNCHANGED bucket
    BY <2>2 DEF Deliver, ReceiveWebhook, stores
  <2>3. ASSUME Environment PROVE bucket \subseteq bucket'
    BY <2>3 DEF Environment, PutObject, UIPutVideo, UIDeleteVideo, Crash, stores
  <2>4. ASSUME UNCHANGED vars PROVE UNCHANGED bucket
    BY <2>4 DEF vars
  <2> QED
    BY <2>1, <2>2, <2>3, <2>4 DEF Next
<1>2. UNCHANGED exchange \/ \E m \in Messages : exchange' = Append(exchange, m)
  <2>1. ASSUME NEW h \in Handlers, PublishEvent(h)
        PROVE  UNCHANGED exchange \/ \E m \in Messages : exchange' = Append(exchange, m)
    <3>1. Message("event", req[h].type, req[h]) \in Messages
      BY <2>1, MessageType DEF IngestInv, TypeOK, RequestInv, PublishEvent, At
    <3> QED
      BY <2>1, <3>1 DEF PublishEvent, PublishOk, PublishErr
  <2>2. ASSUME NEW h \in Handlers, PublishCompleted(h)
        PROVE  UNCHANGED exchange \/ \E m \in Messages : exchange' = Append(exchange, m)
    <3>1. Message("webhook", "upload.completed", req[h]) \in Messages
      BY <2>2, MessageType DEF IngestInv, TypeOK
    <3> QED
      BY <2>2, <3>1 DEF PublishCompleted, PublishOk, PublishErr
  <2> QED
    BY <2>1, <2>2, OnlyTwoPublish
<1> QED
  BY <1>1, <1>2 DEF Grows

LEMMA AnnouncedStays ==
    ASSUME exchange \in Seq(Messages), Grows, NEW o, Announced(o)
    PROVE  Announced(o)'
<1>1. PICK i \in DOMAIN exchange : /\ exchange[i].source = "webhook"
                                   /\ exchange[i].key \in {o.key, Escaped[o.key]}
  BY DEF Announced, Webhooked
<1>2. i \in DOMAIN exchange' /\ exchange'[i] = exchange[i]
  BY <1>1 DEF Grows
<1> QED
  BY <1>1, <1>2 DEF Announced, Webhooked

LEMMA AnswerStays ==
    ASSUME exchange \in Seq(Messages), Grows, NEW r, AnswerOk(r)
    PROVE  AnswerOk(r)'
<1>1. IsUpload(r.obj) /\ Announced(r.obj) => Announced(r.obj)'
  BY AnnouncedStays
<1>2. r.obj # NoObject => r.obj \in bucket'
  BY DEF AnswerOk, Grows
<1> QED
  BY <1>1, <1>2 DEF AnswerOk

(* One request moves, to one that is in order; a store stops delivering    *)
(* only what the request it was told about allows.                         *)
LEMMA AnswerMoves ==
    ASSUME IngestInv, AnswerInv, Grows, NEW h \in Handlers, Others(h), AnswerOk(req[h])',
           \A o \in bucket' \ owed' : o \in bucket \ owed \/ (IsUpload(o) => Announced(o))
    PROVE  AnswerInv'
<1>0. exchange \in Seq(Messages)
  BY DEF IngestInv, TypeOK
<1>1. AnsweredMeansAnnounced'
  BY <1>0, AnnouncedStays DEF AnswerInv, AnsweredMeansAnnounced
<1>2. ASSUME NEW g \in Handlers PROVE AnswerOk(req[g])'
  <2>1. CASE g = h
    BY <2>1
  <2>2. CASE g # h
    <3>1. PICK r : r = req[g] /\ r = req'[g]
      BY <2>2 DEF Others
    <3>2. AnswerOk(r)'
      BY <1>0, <3>1, AnswerStays DEF AnswerInv
    <3> QED
      BY <3>1, <3>2 DEF AnswerOk, IsUpload, Announced, Webhooked
  <2> QED
    BY <2>1, <2>2
<1> QED
  BY <1>1, <1>2 DEF AnswerInv

WebhookPCs == {"lookup", "saveVideo", "confirm", "publishCompleted"}

LEMMA NothingToAnswer ==
    ASSUME NEW h \in Handlers, req'[h].obj = NoObject, req'[h].pc \notin WebhookPCs
    PROVE  AnswerOk(req[h])'
BY DEF AnswerOk, WebhookPCs

(* A request of the front end, of a listing, or answered: no object.       *)
LEMMA ObjectlessAnswer ==
    ASSUME Requesting, AnswerInv, NEW h \in Handlers,
           \/ ReceiveEvent(h) \/ StartListing(h) \/ SaveEvent(h) \/ CreateVideo(h)
           \/ PublishEvent(h) \/ WriteRun(h) \/ ListBucket(h) \/ SaveListed(h)
           \/ NextProvider(h) \/ EndListing(h) \/ Reply(h)
    PROVE  AnswerOk(req[h])' /\ Others(h)
<1>1. req[h].pc \in {"saveEvent", "createVideo", "publishEvent", "writeRun",
                     "listBucket", "saveListed"} => req[h].obj = NoObject
  BY DEF AnswerInv, AnswerOk
<1>2. CASE ReceiveEvent(h) \/ Reply(h)
  <2>1. Others(h) /\ req'[h].obj = NoObject /\ req'[h].pc \notin WebhookPCs
    BY <1>2, ReceiveEventMove, ReplyMove DEF WebhookPCs
  <2> QED
    BY <2>1, NothingToAnswer
<1>3. CASE SaveEvent(h) \/ CreateVideo(h) \/ PublishEvent(h) \/ WriteRun(h)
  <2>1. Others(h) /\ req'[h].obj = NoObject /\ req'[h].pc \notin WebhookPCs
    BY <1>1, <1>3, SaveEventMove, CreateVideoMove, PublishEventMove, WriteRunMove
       DEF WebhookPCs, Keeps
  <2> QED
    BY <2>1, NothingToAnswer
<1>4. CASE StartListing(h) \/ ListBucket(h) \/ SaveListed(h) \/ NextProvider(h) \/ EndListing(h)
  <2>1. Others(h) /\ req'[h].obj = NoObject /\ req'[h].pc \notin WebhookPCs
    BY <1>1, <1>4, ListingMove DEF WebhookPCs
  <2> QED
    BY <2>1, NothingToAnswer
<1> QED
  BY <1>2, <1>3, <1>4

(* A webhook keeps its object and its key, and is answered 200 only once   *)
(* its message is on the exchange.                                         *)
LEMMA WebhookAnswer ==
    ASSUME ~MayLose, IngestInv, AnswerInv, Grows, NEW h \in Handlers,
           LookupVideo(h) \/ SaveVideo(h) \/ ConfirmStorage(h) \/ PublishCompleted(h)
    PROVE  AnswerOk(req[h])' /\ Others(h)
<1>0. /\ Requesting /\ exchange \in Seq(Messages) /\ req[h] \in Requests
  BY DEF IngestInv, TypeOK, Requesting
<1>1. /\ Others(h) /\ Keeps(h) /\ req[h].pc \in WebhookPCs
      /\ \/ req'[h].pc \in {"saveVideo", "confirm", "publishCompleted"}
         \/ /\ req'[h].pc = "replying"
            /\ \/ req'[h].status = 400
               \/ exchange' = Append(exchange, Message("webhook", "upload.completed", req[h]))
  BY <1>0, LookupVideoMove, SaveVideoMove, ConfirmStorageMove, PublishCompletedMove
     DEF WebhookPCs
<1>2. PICK o, k : /\ o = req[h].obj /\ k = req[h].key
                  /\ o = req'[h].obj /\ k = req'[h].key
  BY <1>1 DEF Keeps
<1>3. o # NoObject /\ o \in bucket' /\ k \in {o.key, Escaped[o.key]}
  BY <1>1, <1>2 DEF AnswerInv, AnswerOk, WebhookPCs, Grows
<1>4. CASE req'[h].pc \in {"saveVideo", "confirm", "publishCompleted"}
  BY <1>1, <1>2, <1>3, <1>4 DEF AnswerOk
<1>5. CASE req'[h].pc = "replying" /\ req'[h].status = 400
  <2>1. req'[h].status # 200
    BY <1>5, SMT
  <2> QED
    BY <1>1, <1>2, <1>3, <1>5, <2>1 DEF AnswerOk
<1>6. CASE /\ req'[h].pc = "replying"
           /\ exchange' = Append(exchange, Message("webhook", "upload.completed", req[h]))
  <2>1. PICK m : m = Message("webhook", "upload.completed", req[h])
    OBVIOUS
  <2>2. m.source = "webhook" /\ m.key = k
    BY <1>2, <2>1 DEF Message
  <2>3. Len(exchange) + 1 \in DOMAIN exchange' /\ exchange'[Len(exchange) + 1] = m
    BY <1>0, <1>6, <2>1
  <2>4. Announced(o)'
    BY <1>3, <2>2, <2>3 DEF Announced, Webhooked
  <2>5. Announced(req[h].obj)'
    BY <1>2, <2>4 DEF Announced, Webhooked
  <2> QED
    BY <1>1, <1>2, <1>3, <1>6, <2>5 DEF AnswerOk
<1> QED
  BY <1>1, <1>4, <1>5, <1>6

LEMMA MatchNothingAnswer ==
    ASSUME Requesting, AnswerInv, Grows, NEW h \in Handlers, MatchNothing(h)
    PROVE  AnswerOk(req[h])' /\ Others(h)
<1>1. /\ Others(h) /\ Keeps(h) /\ req'[h].pc = req[h].pc
      /\ req[h].pc \in {"saveVideo", "saveListed"}
  BY MatchNothingMove
<1>2. AnswerOk(req[h])
  BY DEF AnswerInv
<1>3. bucket \subseteq bucket' /\ req'[h].pc # "replying"
  BY <1>1 DEF Grows
<1> QED
  BY <1>1, <1>2, <1>3 DEF AnswerOk, Keeps

LEMMA ReceiveWebhookAnswer ==
    ASSUME IngestInv, AnswerInv, Grows, NEW h \in Handlers, NEW o \in Objects,
           ReceiveWebhook(h, o)
    PROVE  AnswerOk(req[h])' /\ Others(h)
<1>0. Requesting /\ owed \subseteq bucket
  BY DEF IngestInv, TypeOK, Requesting
<1>1. /\ Others(h) /\ o \in owed /\ req'[h].obj = o
      /\ \/ req'[h].pc = "lookup" /\ req'[h].key \in {o.key, Escaped[o.key]}
         \/ req'[h].pc = "replying" /\ (req'[h].status = 200 => ~IsUpload(o))
  BY <1>0, ReceiveWebhookMove
<1>2. o \in bucket' /\ o # NoObject
  BY <1>0, <1>1, IngestAssumption DEF Grows, IngestAssumption
<1> QED
  BY <1>1, <1>2 DEF AnswerOk

LEMMA AnswerStep ==
    ASSUME ~MayLose, IngestInv, AnswerInv, [Next]_vars
    PROVE  AnswerInv'
<1>0. /\ Grows /\ Requesting /\ exchange \in Seq(Messages)
      /\ bucket \subseteq Objects /\ owed \subseteq bucket
  BY StepGrows DEF IngestInv, TypeOK, Requesting
<1>1. ASSUME UNCHANGED req,
             \A o \in bucket' \ owed' : o \in bucket \ owed
      PROVE  AnswerInv'
  <2>1. AnsweredMeansAnnounced'
    BY <1>0, <1>1, AnnouncedStays DEF AnswerInv, AnsweredMeansAnnounced
  <2>2. ASSUME NEW g \in Handlers PROVE AnswerOk(req[g])'
    <3>1. PICK r : r = req[g] /\ r = req'[g]
      BY <1>1
    <3>2. AnswerOk(r)'
      BY <1>0, <3>1, AnswerStays DEF AnswerInv
    <3> QED
      BY <3>1, <3>2 DEF AnswerOk, IsUpload, Announced, Webhooked
  <2> QED
    BY <2>1, <2>2 DEF AnswerInv
<1>2. CASE UNCHANGED vars
  BY <1>1, <1>2 DEF vars
<1>3. ASSUME NEW h \in Handlers, ReceiveEvent(h) \/ StartListing(h) \/ HandlerStep(h)
      PROVE  AnswerInv'
  <2>1. AnswerOk(req[h])' /\ Others(h)
    BY <1>0, <1>3, ObjectlessAnswer, WebhookAnswer, MatchNothingAnswer DEF HandlerStep
  <2>2. CASE Reply(h)
    <3>1. /\ UNCHANGED bucket /\ req[h].pc = "replying"
          /\ owed' = IF req[h].status = 200 THEN owed \ {req[h].obj} ELSE owed
      BY <2>2 DEF Reply, At
    <3>2. ASSUME NEW o \in bucket', o \notin owed', o \in owed
          PROVE  IsUpload(o) => Announced(o)
      <4>1. req[h].status = 200 /\ o = req[h].obj
        BY <3>1, <3>2
      <4>2. o # NoObject
        BY <1>0, <3>2, IngestAssumption DEF IngestAssumption
      <4> QED
        BY <3>1, <4>1, <4>2 DEF AnswerInv, AnswerOk
    <3>3. \A o \in bucket' \ owed' : o \in bucket \ owed \/ (IsUpload(o) => Announced(o))
      BY <3>1, <3>2
    <3> QED
      BY <1>0, <2>1, <3>3, AnswerMoves
  <2>3. CASE ~Reply(h)
    <3>1. UNCHANGED <<bucket, owed>>
      BY <1>3, <2>3 DEF HandlerStep, ReceiveEvent, StartListing, SaveEvent, CreateVideo,
         PublishEvent, WriteRun, LookupVideo, SaveVideo, ConfirmStorage, PublishCompleted,
         ListBucket, SaveListed, NextProvider, EndListing, MatchNothing, stores
    <3> QED
      BY <1>0, <2>1, <3>1, AnswerMoves
  <2> QED
    BY <2>2, <2>3
<1>4. ASSUME NEW o \in Objects, Deliver(o) PROVE AnswerInv'
  <2>1. PICK h \in Handlers : ReceiveWebhook(h, o)
    BY <1>4 DEF Deliver
  <2>2. UNCHANGED <<bucket, owed>>
    BY <2>1 DEF ReceiveWebhook, stores
  <2>3. AnswerOk(req[h])' /\ Others(h)
    BY <1>0, <2>1, ReceiveWebhookAnswer
  <2> QED
    BY <1>0, <2>2, <2>3, AnswerMoves
<1>5. CASE Environment
  <2>1. CASE Crash
    <3>1. \A g \in Handlers : AnswerOk(req[g])'
      BY <2>1, CrashMove, NothingToAnswer DEF WebhookPCs
    <3>2. UNCHANGED <<bucket, owed, exchange>>
      BY <2>1 DEF Crash, services, stores
    <3>3. AnsweredMeansAnnounced'
      BY <1>0, <3>2, AnnouncedStays DEF AnswerInv, AnsweredMeansAnnounced
    <3> QED
      BY <3>1, <3>3 DEF AnswerInv
  <2>2. ASSUME NEW o \in Objects, PutObject(o) PROVE AnswerInv'
    BY <1>1, <2>2 DEF PutObject
  <2>3. ASSUME NEW v \in VideoIds, UIPutVideo(v) \/ UIDeleteVideo(v) PROVE AnswerInv'
    BY <1>1, <2>3 DEF UIPutVideo, UIDeleteVideo, stores
  <2> QED
    BY <1>5, <2>1, <2>2, <2>3 DEF Environment
<1> QED
  BY <1>2, <1>3, <1>4, <1>5 DEF Next

LEMMA AnswerInit == Init => AnswerInv
<1> SUFFICES ASSUME Init PROVE AnswerInv
  OBVIOUS
<1>1. \A h \in Handlers : req[h].pc = "idle" /\ req[h].obj = NoObject
  BY DEF Init, Idle
<1> QED
  BY <1>1 DEF Init, AnswerInv, AnsweredMeansAnnounced, AnswerOk

(* When no accepted publish is lost, a store is told 200 about an upload   *)
(* only once the webhook has announced it: what the store never redelivers *)
(* reached the queue.                                                      *)
THEOREM AnsweredIsAnnounced ==
    ASSUME ~MayLose PROVE Spec => []AnsweredMeansAnnounced
<1>1. Init => IngestInv /\ AnswerInv
  BY InitInv, AnswerInit
<1>2. IngestInv /\ AnswerInv /\ [Next]_vars => (IngestInv /\ AnswerInv)'
  BY StepInv, AnswerStep
<1>3. IngestInv /\ AnswerInv => AnsweredMeansAnnounced
  BY DEF AnswerInv
<1> QED
  BY <1>1, <1>2, <1>3, PTL DEF Spec

-----------------------------------------------------------------------------
(* Every front-end message has its record *)

RecordOk(t, v) ==
    /\ IsFiniteSet(Unpublished(t, v))
    /\ Cardinality(FrontEndMessages(t, v)) + Cardinality(Unpublished(t, v))
          <= events[<<t, v>>]

LEMMA MessagesAreFinite ==
    ASSUME exchange \in Seq(Messages), NEW t, NEW v
    PROVE  /\ IsFiniteSet(FrontEndMessages(t, v))
           /\ Cardinality(FrontEndMessages(t, v)) \in Nat
<1>1. DOMAIN exchange = 1..Len(exchange) /\ Len(exchange) \in Int /\ 1 \in Int
  OBVIOUS
<1>2. IsFiniteSet(DOMAIN exchange)
  BY <1>1, FS_Interval
<1>3. FrontEndMessages(t, v) \subseteq DOMAIN exchange
  BY DEF FrontEndMessages
<1> QED
  BY <1>2, <1>3, FS_Subset, FS_CardinalityType

LEMMA OneMore ==
    ASSUME NEW S, IsFiniteSet(S), NEW x
    PROVE  /\ IsFiniteSet(S \cup {x}) /\ Cardinality(S) \in Nat
           /\ Cardinality(S \cup {x}) <= Cardinality(S) + 1
<1>1. IsFiniteSet(S \cup {x}) /\ Cardinality(S) \in Nat
  BY FS_AddElement, FS_CardinalityType
<1>2. Cardinality(S \cup {x}) \in {Cardinality(S), Cardinality(S) + 1}
  BY FS_AddElement, Zenon
<1> DEFINE n == Cardinality(S \cup {x})
           k == Cardinality(S)
<1> HIDE DEF n, k
<1>3. k \in Nat /\ n \in {k, k + 1}
  BY <1>1, <1>2 DEF n, k
<1>4. n <= k + 1
  BY <1>3
<1> QED
  BY <1>1, <1>4 DEF n, k

(* Nothing of the kind is published, and no request takes it up.           *)
LEMMA RecordKept ==
    ASSUME exchange \in Seq(Messages), NEW t, NEW v, RecordOk(t, v),
           FrontEndMessages(t, v)' = FrontEndMessages(t, v),
           Unpublished(t, v)' \subseteq Unpublished(t, v),
           events[<<t, v>>] \in Nat, events'[<<t, v>>] \in Nat,
           events[<<t, v>>] <= events'[<<t, v>>]
    PROVE  RecordOk(t, v)'
<1>1. PICK M, U, V : /\ M = FrontEndMessages(t, v) /\ M = FrontEndMessages(t, v)'
                     /\ U = Unpublished(t, v) /\ V = Unpublished(t, v)'
  OBVIOUS
<1>2. IsFiniteSet(V) /\ Cardinality(V) <= Cardinality(U)
  BY <1>1, FS_Subset DEF RecordOk
<1>3. Cardinality(M) \in Nat /\ Cardinality(U) \in Nat /\ Cardinality(V) \in Nat
  BY <1>1, <1>2, MessagesAreFinite, FS_CardinalityType DEF RecordOk
<1>4. Cardinality(M) + Cardinality(U) <= events[<<t, v>>]
  BY <1>1 DEF RecordOk
<1>5. Cardinality(M) + Cardinality(V) <= events'[<<t, v>>]
  BY <1>2, <1>3, <1>4
<1> QED
  BY <1>1, <1>2, <1>5 DEF RecordOk

(* A recorded event is taken up by the request that recorded it.           *)
LEMMA RecordTaken ==
    ASSUME exchange \in Seq(Messages), NEW t, NEW v, RecordOk(t, v), NEW h,
           FrontEndMessages(t, v)' = FrontEndMessages(t, v),
           Unpublished(t, v)' \subseteq Unpublished(t, v) \cup {h},
           events[<<t, v>>] \in Nat, events'[<<t, v>>] = events[<<t, v>>] + 1
    PROVE  RecordOk(t, v)'
<1>1. PICK M, U, V : /\ M = FrontEndMessages(t, v) /\ M = FrontEndMessages(t, v)'
                     /\ U = Unpublished(t, v) /\ V = Unpublished(t, v)'
  OBVIOUS
<1>2. /\ IsFiniteSet(U \cup {h}) /\ Cardinality(U) \in Nat
      /\ Cardinality(U \cup {h}) <= Cardinality(U) + 1
  BY <1>1, OneMore DEF RecordOk
<1>3. /\ IsFiniteSet(V) /\ Cardinality(V) <= Cardinality(U \cup {h})
      /\ Cardinality(U \cup {h}) \in Nat
  BY <1>1, <1>2, FS_Subset, FS_CardinalityType
<1>4. Cardinality(M) \in Nat /\ Cardinality(V) \in Nat
  BY <1>1, <1>3, MessagesAreFinite, FS_CardinalityType
<1>5. Cardinality(M) + Cardinality(U) <= events[<<t, v>>]
  BY <1>1 DEF RecordOk
<1>6. Cardinality(M) + Cardinality(V) <= events'[<<t, v>>]
  BY <1>2, <1>3, <1>4, <1>5
<1> QED
  BY <1>1, <1>3, <1>6 DEF RecordOk

(* The request that publishes it lets go of it.                            *)
LEMMA RecordPublished ==
    ASSUME exchange \in Seq(Messages), NEW t, NEW v, RecordOk(t, v),
           NEW h \in Unpublished(t, v), NEW n,
           FrontEndMessages(t, v)' \subseteq FrontEndMessages(t, v) \cup {n},
           Unpublished(t, v)' \subseteq Unpublished(t, v) \ {h},
           events[<<t, v>>] \in Nat, UNCHANGED events
    PROVE  RecordOk(t, v)'
<1>1. PICK M, N, U, V : /\ M = FrontEndMessages(t, v) /\ N = FrontEndMessages(t, v)'
                        /\ U = Unpublished(t, v) /\ V = Unpublished(t, v)'
  OBVIOUS
<1>2. /\ IsFiniteSet(U \ {h}) /\ Cardinality(U) \in Nat
      /\ Cardinality(U \ {h}) = Cardinality(U) - 1
  BY <1>1, FS_RemoveElement, FS_CardinalityType DEF RecordOk
<1>3. /\ IsFiniteSet(V) /\ Cardinality(V) <= Cardinality(U \ {h}) /\ Cardinality(V) \in Nat
  BY <1>1, <1>2, FS_Subset, FS_CardinalityType
<1>4. IsFiniteSet(M) /\ Cardinality(M) \in Nat
  BY <1>1, MessagesAreFinite
<1>5. IsFiniteSet(M \cup {n}) /\ Cardinality(M \cup {n}) <= Cardinality(M) + 1
  BY <1>4, OneMore
<1>6. /\ IsFiniteSet(N) /\ Cardinality(N) <= Cardinality(M \cup {n})
      /\ Cardinality(N) \in Nat /\ Cardinality(M \cup {n}) \in Nat
  BY <1>1, <1>5, FS_Subset, FS_CardinalityType
<1>7. Cardinality(M) + Cardinality(U) <= events[<<t, v>>]
  BY <1>1 DEF RecordOk
<1>8. Cardinality(N) + Cardinality(V) <= events'[<<t, v>>]
  BY <1>2, <1>3, <1>4, <1>5, <1>6, <1>7
<1> QED
  BY <1>1, <1>3, <1>8 DEF RecordOk

(* What one request takes up or lets go of.                                *)
LEMMA UnpublishedMoves ==
    ASSUME NEW h \in Handlers, Others(h), NEW t, NEW v
    PROVE  /\ Unpublished(t, v)' \subseteq Unpublished(t, v) \cup {h}
           /\ req'[h].pc \notin {"createVideo", "publishEvent"} =>
                 Unpublished(t, v)' \subseteq Unpublished(t, v) \ {h}
           /\ req'[h].type # t \/ req'[h].videoId # v =>
                 Unpublished(t, v)' \subseteq Unpublished(t, v)
           /\ h \in Unpublished(t, v) => Unpublished(t, v)' \subseteq Unpublished(t, v)
BY DEF Others, Unpublished

LEMMA MessagesSame ==
    ASSUME UNCHANGED exchange, NEW t, NEW v
    PROVE  FrontEndMessages(t, v)' = FrontEndMessages(t, v)
BY DEF FrontEndMessages

LEMMA MessagesAppend ==
    ASSUME exchange \in Seq(Messages), NEW m \in Messages,
           exchange' = Append(exchange, m), NEW t, NEW v
    PROVE  /\ FrontEndMessages(t, v)' \subseteq FrontEndMessages(t, v) \cup {Len(exchange) + 1}
           /\ m.source # "event" \/ m.type # t \/ m.videoId # v =>
                 FrontEndMessages(t, v)' = FrontEndMessages(t, v)
<1>1. /\ DOMAIN exchange' = DOMAIN exchange \cup {Len(exchange) + 1}
      /\ Len(exchange) + 1 \notin DOMAIN exchange
      /\ exchange'[Len(exchange) + 1] = m
      /\ \A i \in DOMAIN exchange : exchange'[i] = exchange[i]
  OBVIOUS
<1> QED
  BY <1>1 DEF FrontEndMessages

LEMMA SaveEventRecord ==
    ASSUME IngestInv, NEW h \in Handlers, SaveEvent(h),
           NEW t \in EventTypes, NEW v \in VideoIds \cup {NoVideo}, RecordOk(t, v)
    PROVE  RecordOk(t, v)'
<1>0. /\ Requesting /\ exchange \in Seq(Messages) /\ UNCHANGED exchange
      /\ events \in [EventTypes \X (VideoIds \cup {NoVideo}) -> Nat]
      /\ req[h].type \in EventTypes /\ req[h].videoId \in VideoIds \cup {NoVideo}
  BY DEF IngestInv, TypeOK, Requesting, Requests, SaveEvent, RequestInv, At
<1>1. /\ Others(h) /\ Keeps(h) /\ req[h].pc = "saveEvent"
  BY <1>0, SaveEventMove
<1>2. PICK u, w : /\ u = req[h].type /\ w = req[h].videoId
                  /\ u = req'[h].type /\ w = req'[h].videoId
                  /\ u \in EventTypes /\ w \in VideoIds \cup {NoVideo}
  BY <1>0, <1>1 DEF Keeps
<1>3. \/ events' = [events EXCEPT ![<<u, w>>] = @ + 1]
      \/ events' = events /\ Answer(h, 500)
  BY <1>2 DEF SaveEvent, InsertEvent
<1>4. events[<<t, v>>] \in Nat
  BY <1>0
<1>5. FrontEndMessages(t, v)' = FrontEndMessages(t, v)
  BY <1>0, MessagesSame
<1>6. CASE events' = events /\ Answer(h, 500)
  <2>1. req'[h].pc = "replying"
    BY <1>0, <1>6, AnswerMove
  <2>2. Unpublished(t, v)' \subseteq Unpublished(t, v)
    BY <1>1, <2>1, UnpublishedMoves
  <2> QED
    BY <1>0, <1>4, <1>5, <1>6, <2>2, RecordKept
<1>7. CASE events' = [events EXCEPT ![<<u, w>>] = @ + 1] /\ t = u /\ v = w
  <2>1. events'[<<t, v>>] = events[<<t, v>>] + 1
    BY <1>0, <1>7
  <2>2. Unpublished(t, v)' \subseteq Unpublished(t, v) \cup {h}
    BY <1>1, UnpublishedMoves
  <2> QED
    BY <1>0, <1>4, <1>5, <2>1, <2>2, RecordTaken
<1>8. CASE events' = [events EXCEPT ![<<u, w>>] = @ + 1] /\ (t # u \/ v # w)
  <2>1. events'[<<t, v>>] = events[<<t, v>>]
    BY <1>0, <1>8
  <2>2. Unpublished(t, v)' \subseteq Unpublished(t, v)
    BY <1>1, <1>2, <1>8, UnpublishedMoves
  <2> QED
    BY <1>0, <1>4, <1>5, <2>1, <2>2, RecordKept
<1> QED
  BY <1>3, <1>6, <1>7, <1>8

LEMMA PublishEventRecord ==
    ASSUME IngestInv, NEW h \in Handlers, PublishEvent(h),
           NEW t \in EventTypes, NEW v \in VideoIds \cup {NoVideo}, RecordOk(t, v)
    PROVE  RecordOk(t, v)'
<1>0. /\ Requesting /\ exchange \in Seq(Messages) /\ UNCHANGED events
      /\ events \in [EventTypes \X (VideoIds \cup {NoVideo}) -> Nat]
      /\ req[h] \in Requests /\ req[h].type \in EventTypes
  BY DEF IngestInv, TypeOK, Requesting, Requests, PublishEvent, RequestInv, At
<1>1. /\ Others(h) /\ req[h].pc = "publishEvent"
      /\ req'[h].pc \notin {"createVideo", "publishEvent"}
      /\ \/ exchange' = Append(exchange, Message("event", req[h].type, req[h]))
         \/ exchange' = exchange
  BY <1>0, PublishEventMove
<1>2. events[<<t, v>>] \in Nat /\ events'[<<t, v>>] = events[<<t, v>>]
  BY <1>0
<1>3. Unpublished(t, v)' \subseteq Unpublished(t, v) \ {h}
  BY <1>1, UnpublishedMoves
<1>4. PICK m \in Messages : m = Message("event", req[h].type, req[h])
  BY <1>0, MessageType
<1>5. m.type = req[h].type /\ m.videoId = req[h].videoId
  BY <1>4 DEF Message
<1>6. CASE exchange' = exchange
  BY <1>0, <1>2, <1>3, <1>6, MessagesSame, RecordKept
<1>7. CASE exchange' = Append(exchange, m) /\ m.type = t /\ m.videoId = v
  <2>1. h \in Unpublished(t, v)
    BY <1>1, <1>5, <1>7 DEF Unpublished
  <2>2. FrontEndMessages(t, v)' \subseteq FrontEndMessages(t, v) \cup {Len(exchange) + 1}
    BY <1>0, <1>7, MessagesAppend
  <2> QED
    BY <1>0, <1>2, <1>3, <2>1, <2>2, RecordPublished
<1>8. CASE exchange' = Append(exchange, m) /\ (m.type # t \/ m.videoId # v)
  <2>1. FrontEndMessages(t, v)' = FrontEndMessages(t, v)
    BY <1>0, <1>8, MessagesAppend
  <2> QED
    BY <1>0, <1>2, <1>3, <2>1, RecordKept
<1> QED
  BY <1>1, <1>4, <1>6, <1>7, <1>8

(* No other step of a handler takes an event up.                           *)
LEMMA OtherRecord ==
    ASSUME IngestInv, NEW h \in Handlers,
           ReceiveEvent(h) \/ StartListing(h) \/ HandlerStep(h),
           ~SaveEvent(h), ~PublishEvent(h),
           NEW t \in EventTypes, NEW v \in VideoIds \cup {NoVideo}, RecordOk(t, v)
    PROVE  RecordOk(t, v)'
<1>0. /\ Requesting /\ exchange \in Seq(Messages)
      /\ events \in [EventTypes \X (VideoIds \cup {NoVideo}) -> Nat]
  BY DEF IngestInv, TypeOK, Requesting
<1>1. UNCHANGED events
  BY DEF HandlerStep, ReceiveEvent, StartListing, CreateVideo, WriteRun, LookupVideo,
     SaveVideo, ConfirmStorage, PublishCompleted, ListBucket, SaveListed, NextProvider,
     EndListing, MatchNothing, Reply, services
<1>2. Unpublished(t, v)' \subseteq Unpublished(t, v)
  <2>1. CASE CreateVideo(h)
    <3>1. Others(h) /\ Keeps(h) /\ req[h].pc = "createVideo"
      BY <1>0, <2>1, CreateVideoMove
    <3>2. CASE h \in Unpublished(t, v)
      BY <3>1, <3>2, UnpublishedMoves
    <3>3. CASE h \notin Unpublished(t, v)
      <4>1. req'[h].type # t \/ req'[h].videoId # v
        BY <3>1, <3>3 DEF Unpublished, Keeps
      <4> QED
        BY <3>1, <4>1, UnpublishedMoves
    <3> QED
      BY <3>2, <3>3
  <2>2. CASE ~CreateVideo(h)
    <3>1. Others(h) /\ req'[h].pc \notin {"createVideo", "publishEvent"}
      BY <1>0, <2>2, ReceiveEventMove, WriteRunMove, LookupVideoMove, SaveVideoMove,
         ConfirmStorageMove, PublishCompletedMove, ListingMove, MatchNothingMove, ReplyMove
         DEF HandlerStep
    <3> QED
      BY <3>1, UnpublishedMoves
  <2> QED
    BY <2>1, <2>2
<1>3. FrontEndMessages(t, v)' = FrontEndMessages(t, v)
  <2>1. CASE PublishCompleted(h)
    <3>1. PICK m \in Messages : m = Message("webhook", "upload.completed", req[h])
      BY MessageType DEF IngestInv, TypeOK
    <3>2. exchange' = exchange \/ exchange' = Append(exchange, m)
      BY <1>0, <2>1, <3>1, PublishCompletedMove
    <3>3. m.source # "event"
      BY <3>1 DEF Message
    <3> QED
      BY <1>0, <3>2, <3>3, MessagesSame, MessagesAppend
  <2>2. CASE ~PublishCompleted(h)
    <3>1. UNCHANGED exchange
      BY <2>2 DEF HandlerStep, ReceiveEvent, StartListing, CreateVideo, WriteRun,
         LookupVideo, SaveVideo, ConfirmStorage, ListBucket, SaveListed, NextProvider,
         EndListing, MatchNothing, Reply, services
    <3> QED
      BY <3>1, MessagesSame
  <2> QED
    BY <2>1, <2>2
<1>4. events[<<t, v>>] \in Nat /\ events'[<<t, v>>] = events[<<t, v>>]
  BY <1>0, <1>1
<1> QED
  BY <1>0, <1>2, <1>3, <1>4, RecordKept

LEMMA RecordStep ==
    ASSUME IngestInv, RecordInv, [Next]_vars
    PROVE  RecordInv'
<1> SUFFICES ASSUME NEW t \in EventTypes, NEW v \in VideoIds \cup {NoVideo}
             PROVE  RecordOk(t, v)'
  BY DEF RecordInv, RecordOk
<1>0. /\ RecordOk(t, v) /\ Requesting /\ exchange \in Seq(Messages)
      /\ events[<<t, v>>] \in Nat
  BY DEF IngestInv, TypeOK, Requesting, RecordInv, RecordOk
<1>1. ASSUME UNCHANGED <<exchange, events>>,
             Unpublished(t, v)' \subseteq Unpublished(t, v)
      PROVE  RecordOk(t, v)'
  BY <1>0, <1>1, MessagesSame, RecordKept
<1>2. CASE UNCHANGED vars
  BY <1>1, <1>2 DEF vars, Unpublished
<1>3. ASSUME NEW h \in Handlers, ReceiveEvent(h) \/ StartListing(h) \/ HandlerStep(h)
      PROVE  RecordOk(t, v)'
  BY <1>0, <1>3, SaveEventRecord, PublishEventRecord, OtherRecord
<1>4. ASSUME NEW o \in Objects, Deliver(o) PROVE RecordOk(t, v)'
  <2>1. PICK h \in Handlers : ReceiveWebhook(h, o)
    BY <1>4 DEF Deliver
  <2>2. Others(h) /\ req'[h].pc \notin {"createVideo", "publishEvent"}
    BY <1>0, <2>1, ReceiveWebhookMove
  <2>3. UNCHANGED <<exchange, events>>
    BY <2>1 DEF ReceiveWebhook, services
  <2> QED
    BY <1>1, <2>2, <2>3, UnpublishedMoves
<1>5. CASE Environment
  <2>1. CASE Crash
    <3>1. Unpublished(t, v)' = {}
      BY <2>1, CrashMove DEF Unpublished
    <3> QED
      BY <1>1, <2>1, <3>1 DEF Crash, services
  <2>2. CASE ~Crash
    BY <1>1, <1>5, <2>2
       DEF Environment, PutObject, UIPutVideo, UIDeleteVideo, services, Unpublished
  <2> QED
    BY <2>1, <2>2
<1> QED
  BY <1>2, <1>3, <1>4, <1>5 DEF Next

LEMMA RecordInit == Init => RecordInv
<1> SUFFICES ASSUME Init, NEW t \in EventTypes, NEW v \in VideoIds \cup {NoVideo}
             PROVE  RecordOk(t, v)
  BY DEF RecordInv, RecordOk
<1>1. Unpublished(t, v) = {}
  BY DEF Init, Idle, Unpublished
<1>2. FrontEndMessages(t, v) = {}
  BY DEF Init, FrontEndMessages
<1>3. events[<<t, v>>] = 0
  BY DEF Init
<1> QED
  BY <1>1, <1>2, <1>3, FS_EmptySet DEF RecordOk

(* ProcessEvent saves before it publishes, so the events collection counts *)
(* at least as many events of a type and a video as the exchange carries,  *)
(* however many requests, faults and crashes there are.                    *)
THEOREM EventsHaveRecords == Spec => []EventsAreRecorded
<1>1. Init => IngestInv /\ RecordInv
  BY InitInv, RecordInit
<1>2. IngestInv /\ RecordInv /\ [Next]_vars => (IngestInv /\ RecordInv)'
  BY StepInv, RecordStep
<1>3. IngestInv /\ RecordInv => EventsAreRecorded
  <2> SUFFICES ASSUME IngestInv, RecordInv,
                      NEW t \in EventTypes, NEW v \in VideoIds \cup {NoVideo}
               PROVE  Cardinality(FrontEndMessages(t, v)) <= events[<<t, v>>]
    BY DEF EventsAreRecorded
  <2>1. /\ Cardinality(FrontEndMessages(t, v)) \in Nat
        /\ Cardinality(Unpublished(t, v)) \in Nat /\ events[<<t, v>>] \in Nat
    BY MessagesAreFinite, FS_CardinalityType DEF IngestInv, TypeOK, RecordInv
  <2>2. Cardinality(FrontEndMessages(t, v)) + Cardinality(Unpublished(t, v))
           <= events[<<t, v>>]
    BY DEF RecordInv
  <2> QED
    BY <2>1, <2>2
<1> QED
  BY <1>1, <1>2, <1>3, PTL DEF Spec
=============================================================================
