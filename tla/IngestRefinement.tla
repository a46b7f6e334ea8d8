--------------------------- MODULE IngestRefinement ---------------------------
(***************************************************************************)
(* Ingest implements UploadLifecycle, for every set of handlers, objects,  *)
(* videos and selections: every step of a handler registers, stores or     *)
(* announces one video, or leaves the three of them alone.                 *)
(***************************************************************************)
EXTENDS IngestAnnouncements

Phase     == [v \in VideoIds |-> PhaseOf(v)]
Selection == [v \in VideoIds |-> SelectionOf(v)]

RowPhase(d) == IF d.status = "uploading" THEN "uploading" ELSE "stored"

LifecycleStep == [Lifecycle!Next]_(Lifecycle!vars)

-----------------------------------------------------------------------------
(* What is read off the catalog *)

LEMMA ChosenRow ==
    ASSUME NEW c, NEW i \in DOMAIN c,
           \A j, k \in DOMAIN c : c[j].videoId = c[k].videoId => j = k
    PROVE  c[CHOOSE j \in DOMAIN c : c[j].videoId = c[i].videoId] = c[i]
OBVIOUS

LEMMA PhaseRead ==
    ASSUME OneDocPerVideo, NEW i \in DOMAIN catalog
    PROVE  /\ PhaseOf(catalog[i].videoId) = RowPhase(catalog[i])
           /\ SelectionOf(catalog[i].videoId) = catalog[i].sel
<1>1. PICK v : v = catalog[i].videoId
  OBVIOUS
<1>2. TheDoc(v) = catalog[i]
  BY <1>1, ChosenRow DEF OneDocPerVideo, TheDoc
<1>3. Found(v) # {}
  BY <1>1 DEF Found
<1> QED
  BY <1>1, <1>2, <1>3 DEF PhaseOf, SelectionOf, RowPhase

LEMMA PhaseReadAfter ==
    ASSUME OneDocPerVideo', NEW i \in DOMAIN catalog', NEW v, catalog'[i].videoId = v
    PROVE  /\ PhaseOf(v)' = RowPhase(catalog'[i])
           /\ SelectionOf(v)' = catalog'[i].sel
<1>1. TheDoc(v)' = catalog'[i]
  BY ChosenRow DEF OneDocPerVideo, TheDoc
<1>2. Found(v)' # {}
  BY DEF Found
<1> QED
  BY <1>1, <1>2 DEF PhaseOf, SelectionOf, RowPhase

LEMMA Unregistered ==
    ASSUME NEW v, Found(v) = {}
    PROVE  PhaseOf(v) = "absent" /\ SelectionOf(v) = NoSelection
BY DEF PhaseOf, SelectionOf

LEMMA UnregisteredAfter ==
    ASSUME NEW v, Found(v)' = {}
    PROVE  PhaseOf(v)' = "absent" /\ SelectionOf(v)' = NoSelection
BY DEF PhaseOf, SelectionOf

(* A video none of whose rows is touched keeps its phase and selection.    *)
LEMMA Untouched ==
    ASSUME OneDocPerVideo, OneDocPerVideo', NEW v,
           \A i \in DOMAIN catalog : catalog[i].videoId = v =>
              i \in DOMAIN catalog' /\ catalog'[i] = catalog[i],
           \A i \in DOMAIN catalog' : catalog'[i].videoId = v =>
              i \in DOMAIN catalog
              /\ catalog'[i] = catalog[i]
    PROVE  PhaseOf(v)' = PhaseOf(v) /\ SelectionOf(v)' = SelectionOf(v)
<1>1. CASE Found(v) = {}
  <2>1. Found(v)' = {}
    BY <1>1 DEF Found
  <2> QED
    BY <1>1, <2>1, Unregistered, UnregisteredAfter
<1>2. CASE Found(v) # {}
  <2>1. PICK i \in DOMAIN catalog : catalog[i].videoId = v
    BY <1>2 DEF Found
  <2>2. i \in DOMAIN catalog' /\ catalog'[i] = catalog[i] /\ catalog'[i].videoId = v
    BY <2>1
  <2>3. /\ PhaseOf(v) = RowPhase(catalog[i]) /\ SelectionOf(v) = catalog[i].sel
    BY <2>1, PhaseRead
  <2>4. PhaseOf(v)' = RowPhase(catalog'[i]) /\ SelectionOf(v)' = catalog'[i].sel
    BY <2>2, PhaseReadAfter
  <2> QED
    BY <2>2, <2>3, <2>4
<1> QED
  BY <1>1, <1>2

(* A new row: its video leaves "absent".                                   *)
LEMMA AppendMaps ==
    ASSUME catalog \in Seq(Docs), OneDocPerVideo, OneDocPerVideo', NEW d \in Docs,
           Found(d.videoId) = {}, catalog' = Append(catalog, d)
    PROVE  /\ Phase[d.videoId] = "absent" /\ Selection[d.videoId] = NoSelection
           /\ Phase' = [Phase EXCEPT ![d.videoId] = RowPhase(d)]
           /\ Selection' = [Selection EXCEPT ![d.videoId] = d.sel]
<1> DEFINE n == Len(catalog) + 1
<1>1. /\ DOMAIN catalog' = DOMAIN catalog \cup {n} /\ n \notin DOMAIN catalog
      /\ catalog'[n] = d
      /\ \A i \in DOMAIN catalog : catalog'[i] = catalog[i]
  OBVIOUS
<1>2. PICK w \in VideoIds : w = d.videoId
  BY DEF Docs
<1> HIDE DEF n
<1>3. PhaseOf(w)' = RowPhase(d) /\ SelectionOf(w)' = d.sel
  BY <1>1, <1>2, PhaseReadAfter
<1>4. PhaseOf(w) = "absent" /\ SelectionOf(w) = NoSelection
  BY <1>2, Unregistered
<1>5. ASSUME NEW v \in VideoIds, v # w
      PROVE  PhaseOf(v)' = PhaseOf(v) /\ SelectionOf(v)' = SelectionOf(v)
  BY <1>1, <1>2, <1>5, Untouched
<1> QED
  BY <1>2, <1>3, <1>4, <1>5 DEF Phase, Selection

(* A row is replaced: its video is stored from now on, with its selection. *)
LEMMA ReplaceMaps ==
    ASSUME catalog \in Seq(Docs), OneDocPerVideo, OneDocPerVideo',
           NEW i \in DOMAIN catalog, NEW new, catalog' = [catalog EXCEPT ![i] = new],
           new.videoId = catalog[i].videoId, new.sel = catalog[i].sel,
           new.status # "uploading"
    PROVE  /\ catalog[i].videoId \in VideoIds
           /\ Phase' = [Phase EXCEPT ![catalog[i].videoId] = "stored"]
           /\ Selection' = Selection
<1>1. /\ DOMAIN catalog' = DOMAIN catalog /\ catalog'[i] = new
      /\ \A j \in DOMAIN catalog : j # i => catalog'[j] = catalog[j]
  OBVIOUS
<1>2. PICK w \in VideoIds : w = catalog[i].videoId
  BY DocType
<1>3. PhaseOf(w)' = "stored" /\ SelectionOf(w)' = catalog[i].sel
  BY <1>1, <1>2, PhaseReadAfter DEF RowPhase
<1>4. SelectionOf(w) = catalog[i].sel
  BY <1>2, PhaseRead
<1>5. ASSUME NEW v \in VideoIds, v # w
      PROVE  PhaseOf(v)' = PhaseOf(v) /\ SelectionOf(v)' = SelectionOf(v)
  BY <1>1, <1>2, <1>5, Untouched
<1> QED
  BY <1>2, <1>3, <1>4, <1>5 DEF Phase, Selection

-----------------------------------------------------------------------------
(* The steps of the lifecycle, over what they are read off *)

LEMMA Stutters ==
    ASSUME Phase' = Phase, Selection' = Selection, UNCHANGED exchange
    PROVE  LifecycleStep
BY DEF LifecycleStep, Lifecycle!vars, Phase, Selection

LEMMA Registers ==
    ASSUME NEW v \in VideoIds, NEW sel \in Selections, Phase[v] = "absent",
           Phase' = [Phase EXCEPT ![v] = "uploading"],
           Selection' = [Selection EXCEPT ![v] = sel], UNCHANGED exchange
    PROVE  LifecycleStep
<1>1. Lifecycle!Register(v, sel)
  BY DEF Lifecycle!Register, Phase, Selection
<1> QED
  BY <1>1 DEF LifecycleStep, Lifecycle!Next

LEMMA Stores ==
    ASSUME NEW v \in VideoIds, Phase' = [Phase EXCEPT ![v] = "stored"],
           Selection' = Selection, UNCHANGED exchange
    PROVE  LifecycleStep
<1>1. CASE Phase[v] = "stored"
  <2>1. Phase' = Phase
    BY <1>1 DEF Phase
  <2> QED
    BY <2>1, Stutters
<1>2. CASE Phase[v] # "stored"
  <2>1. Lifecycle!Store(v)
    BY <1>2 DEF Lifecycle!Store, Phase, Selection
  <2> QED
    BY <2>1 DEF LifecycleStep, Lifecycle!Next
<1> QED
  BY <1>1, <1>2

LEMMA Announces ==
    ASSUME NEW m \in Messages, exchange' = Append(exchange, m),
           Phase' = Phase, Selection' = Selection,
           m.type = "upload.started" => /\ m.videoId \in VideoIds
                                        /\ Phase[m.videoId] # "absent"
                                        /\ ~Started(m.videoId),
           m.source = "webhook" => /\ m.videoId \in VideoIds
                                   /\ Phase[m.videoId] = "stored"
                                   /\ m.sel \in {Selection[m.videoId], NoSelection}
    PROVE  LifecycleStep
<1>1. Lifecycle!Justified(m)
  BY DEF Lifecycle!Justified, Lifecycle!StartAnnounced, Started, Phase, Selection
<1>2. Lifecycle!Announce(m)
  BY <1>1 DEF Lifecycle!Announce, Phase, Selection
<1> QED
  BY <1>2 DEF LifecycleStep, Lifecycle!Next

-----------------------------------------------------------------------------
(* One lemma per action that does something a consumer can see *)

LEMMA SameCatalogMaps ==
    ASSUME UNCHANGED catalog
    PROVE  Phase' = Phase /\ Selection' = Selection
BY DEF Phase, Selection, PhaseOf, SelectionOf, TheDoc, Found

(* An upsert stores its video: a new row carries no selection of its own,  *)
(* because the request that found no row carries none.                     *)
LEMMA SaveStores ==
    ASSUME catalog \in Seq(Docs), OneDocPerVideo, OneDocPerVideo', NEW d \in Docs,
           d.status # "uploading", d.sel = NoSelection \/ Holds(d.videoId, d.sel),
           NEW h \in Handlers, req[h].missed = NoVideo, Save(h, d), UNCHANGED exchange
    PROVE  LifecycleStep
<1>0. req[h].missed # d.videoId
  BY IngestAssumption DEF IngestAssumption, Docs
<1>1. CASE Found(d.videoId) = {} /\ catalog' = Append(catalog, d)
  <2>1. d.videoId \in VideoIds /\ RowPhase(d) = "stored"
    BY DEF Docs, RowPhase
  <2>2. d.sel = NoSelection
    BY <1>1 DEF Holds, Found
  <2>3. /\ Selection[d.videoId] = NoSelection
        /\ Phase' = [Phase EXCEPT ![d.videoId] = "stored"]
        /\ Selection' = [Selection EXCEPT ![d.videoId] = NoSelection]
    BY <1>1, <2>1, <2>2, AppendMaps
  <2>4. Selection' = Selection
    BY <2>1, <2>3 DEF Selection
  <2> QED
    BY <2>1, <2>3, <2>4, Stores
<1>2. ASSUME NEW i \in Found(d.videoId),
             catalog' = [catalog EXCEPT
                ![i] = [d EXCEPT !.sel = SetOmitEmpty(catalog[i].sel, d.sel)]]
      PROVE  LifecycleStep
  <2>1. /\ i \in DOMAIN catalog /\ catalog[i].videoId = d.videoId
        /\ catalog[i].sel \in Selections
    BY <1>2, DocType DEF Found
  <2>2. d.sel = NoSelection \/ d.sel = catalog[i].sel
    BY <2>1 DEF Holds, OneDocPerVideo
  <2>3. SetOmitEmpty(catalog[i].sel, d.sel) = catalog[i].sel
    BY <2>1, <2>2, SetOmitEmptyKeeps
  <2> DEFINE new == [d EXCEPT !.sel = catalog[i].sel]
  <2>4. /\ new.videoId = catalog[i].videoId /\ new.sel = catalog[i].sel
        /\ new.status # "uploading"
    BY <2>1 DEF Docs
  <2>5. catalog' = [catalog EXCEPT ![i] = new]
    BY <1>2, <2>3
  <2> HIDE DEF new
  <2>6. /\ catalog[i].videoId \in VideoIds /\ Selection' = Selection
        /\ Phase' = [Phase EXCEPT ![catalog[i].videoId] = "stored"]
    BY <2>1, <2>4, <2>5, ReplaceMaps
  <2> QED
    BY <2>6, Stores
<1> QED
  BY <1>0, <1>1, <1>2 DEF Save

LEMMA CreateVideoRegisters ==
    ASSUME UniqueIndex, IngestInv, OneDocPerVideo', NEW h \in Handlers, CreateVideo(h)
    PROVE  LifecycleStep
<1>1. /\ OneDocPerVideo /\ catalog \in Seq(Docs) /\ req[h] \in Requests
      /\ req[h].videoId \in VideoIds /\ UNCHANGED exchange
  BY DEF IngestInv, IndexKept, TypeOK, CreateVideo, At, RequestInv
<1> DEFINE doc == Doc(req[h].videoId, req[h].filename, "uploading", req[h].sel)
<1>2. doc \in Docs /\ doc.status = "uploading"
  BY <1>1 DEF Doc, Docs, Requests
<1>3. Create(doc) \/ UNCHANGED catalog
  BY DEF CreateVideo
<1> HIDE DEF doc
<1>4. CASE Create(doc)
  <2>1. Found(doc.videoId) = {} /\ catalog' = Append(catalog, doc)
    BY <1>4 DEF Create, DuplicateKey
  <2>2. /\ Phase[doc.videoId] = "absent"
        /\ Phase' = [Phase EXCEPT ![doc.videoId] = "uploading"]
        /\ Selection' = [Selection EXCEPT ![doc.videoId] = doc.sel]
    BY <1>1, <1>2, <2>1, AppendMaps DEF RowPhase
  <2>3. doc.videoId \in VideoIds /\ doc.sel \in Selections
    BY <1>2 DEF Docs
  <2> QED
    BY <1>1, <2>2, <2>3, Registers
<1> QED
  BY <1>1, <1>3, <1>4, SameCatalogMaps, Stutters

LEMMA SaveVideoStores ==
    ASSUME UniqueIndex, IngestInv, OneDocPerVideo', NEW h \in Handlers, SaveVideo(h)
    PROVE  LifecycleStep
<1>1. /\ OneDocPerVideo /\ catalog \in Seq(Docs) /\ req[h] \in Requests
      /\ req[h].videoId \in VideoIds /\ UNCHANGED exchange
      /\ req[h].missed = NoVideo
      /\ Carried(req[h].found, req[h].videoId, req[h].sel)
  BY DEF IngestInv, IndexKept, NoneMissed, TypeOK, SaveVideo, At, RequestInv
<1>2. Doc(req[h].videoId, req[h].filename, "uploaded", req[h].sel) \in Docs
  BY <1>1 DEF Doc, Docs, Requests
<1>3. PICK d \in Docs :
         d = Doc(req[h].videoId, req[h].filename, "uploaded", req[h].sel)
  BY <1>2
<1>4. d.status # "uploading" /\ d.videoId = req[h].videoId /\ d.sel = req[h].sel
  BY <1>3 DEF Doc
<1>5. d.sel = NoSelection \/ Holds(d.videoId, d.sel)
  BY <1>1, <1>4 DEF Carried
<1>6. Save(h, d) \/ UNCHANGED catalog
  BY <1>3 DEF SaveVideo
<1> QED
  BY <1>1, <1>4, <1>5, <1>6, SaveStores, SameCatalogMaps, Stutters

LEMMA SaveListedStores ==
    ASSUME UniqueIndex, IngestInv, OneDocPerVideo', NEW h \in Handlers, SaveListed(h)
    PROVE  LifecycleStep
<1>1. /\ OneDocPerVideo /\ catalog \in Seq(Docs) /\ req[h] \in Requests
      /\ req[h].missed = NoVideo /\ UNCHANGED exchange
  BY DEF IngestInv, IndexKept, NoneMissed, TypeOK, SaveListed
<1> DEFINE doc(o) == Doc(ListedVideo(o.key).videoId, ListedVideo(o.key).filename,
                         "ready", NoSelection)
<1>2. PICK o \in req[h].todo : Save(h, doc(o)) \/ UNCHANGED catalog
  BY DEF SaveListed
<1>3. o \in Objects
  BY <1>1 DEF Requests
<1>4. doc(o) \in Docs /\ doc(o).status # "uploading" /\ doc(o).sel = NoSelection
  BY <1>3, ListedDocType DEF Doc
<1> HIDE DEF doc
<1> QED
  BY <1>1, <1>2, <1>4, SaveStores, SameCatalogMaps, Stutters

LEMMA PublishEventAnnounces ==
    ASSUME UniqueIndex, IngestInv, StartInv, NEW h \in Handlers, PublishEvent(h)
    PROVE  LifecycleStep
<1>1. /\ Requesting /\ req[h] \in Requests /\ req[h].type \in EventTypes
      /\ OneDocPerVideo /\ catalog \in Seq(Docs) /\ UNCHANGED catalog
  BY DEF IngestInv, IndexKept, TypeOK, Requesting, PublishEvent, RequestInv, At
<1>2. Phase' = Phase /\ Selection' = Selection
  BY <1>1, SameCatalogMaps
<1>3. PICK m \in Messages : m = Message("event", req[h].type, req[h])
  BY <1>1, MessageType
<1>4. m.source = "event" /\ m.type = req[h].type /\ m.videoId = req[h].videoId
  BY <1>3 DEF Message
<1>5. exchange' = Append(exchange, m) \/ UNCHANGED exchange
  BY <1>1, <1>3, PublishEventMove
<1>6. ASSUME m.type = "upload.started"
      PROVE  /\ m.videoId \in VideoIds /\ Phase[m.videoId] # "absent"
             /\ ~Started(m.videoId)
  <2>1. Found(m.videoId) # {} /\ ~Started(m.videoId)
    BY <1>4, <1>6 DEF StartInv, Starting, PublishEvent, At
  <2>2. PICK i \in DOMAIN catalog : catalog[i].videoId = m.videoId
    BY <2>1 DEF Found
  <2>3. PhaseOf(m.videoId) \in {"uploading", "stored"} /\ m.videoId \in VideoIds
    BY <1>1, <2>2, PhaseRead, DocType DEF RowPhase
  <2> QED
    BY <2>1, <2>3 DEF Phase
<1> QED
  BY <1>2, <1>4, <1>5, <1>6, Announces, Stutters

LEMMA PublishCompletedAnnounces ==
    ASSUME UniqueIndex, IngestInv, NEW h \in Handlers, PublishCompleted(h)
    PROVE  LifecycleStep
<1>1. /\ Requesting /\ req[h] \in Requests /\ req[h].videoId \in VideoIds
      /\ OneDocPerVideo /\ catalog \in Seq(Docs) /\ UNCHANGED catalog
      /\ Carried(req[h].found, req[h].videoId, req[h].sel) /\ Stored(req[h].videoId)
  BY DEF IngestInv, IndexKept, TypeOK, Requesting, PublishCompleted, RequestInv, At
<1>2. Phase' = Phase /\ Selection' = Selection
  BY <1>1, SameCatalogMaps
<1>3. PICK m \in Messages : m = Message("webhook", "upload.completed", req[h])
  BY <1>1, MessageType
<1>4. m.type = "upload.completed" /\ m.videoId = req[h].videoId /\ m.sel = req[h].sel
  BY <1>3 DEF Message
<1>5. exchange' = Append(exchange, m) \/ UNCHANGED exchange
  BY <1>1, <1>3, PublishCompletedMove
<1>6. Phase[m.videoId] = "stored"
  <2>1. PICK i \in DOMAIN catalog : catalog[i].videoId = m.videoId
                                    /\ catalog[i].status # "uploading"
    BY <1>1, <1>4 DEF Stored
  <2>2. PhaseOf(m.videoId) = "stored"
    BY <1>1, <2>1, PhaseRead DEF RowPhase
  <2> QED
    BY <1>1, <1>4, <2>2 DEF Phase
<1>7. m.sel \in {Selection[m.videoId], NoSelection}
  <2>1. CASE m.sel = NoSelection
    BY <2>1
  <2>2. CASE m.sel # NoSelection
    <3>1. PICK i \in DOMAIN catalog : catalog[i].videoId = m.videoId
                                      /\ catalog[i].sel = m.sel
      BY <1>1, <1>4, <2>2 DEF Carried, Holds
    <3>2. SelectionOf(m.videoId) = m.sel
      BY <1>1, <3>1, PhaseRead
    <3> QED
      BY <1>1, <1>4, <3>2 DEF Selection
  <2> QED
    BY <2>1, <2>2
<1> QED
  BY <1>1, <1>2, <1>4, <1>5, <1>6, <1>7, Announces, Stutters

LEMMA RefinementStep ==
    ASSUME UniqueIndex, IngestInv, StartInv, [Next]_vars
    PROVE  LifecycleStep
<1>0. OneDocPerVideo'
  BY StepEffects DEF IndexKept
<1>1. ASSUME UNCHANGED <<catalog, exchange>> PROVE LifecycleStep
  BY <1>1, SameCatalogMaps, Stutters
<1>2. CASE UNCHANGED vars
  BY <1>1, <1>2 DEF vars
<1>3. ASSUME NEW h \in Handlers, ReceiveEvent(h) \/ StartListing(h) \/ HandlerStep(h)
      PROVE  LifecycleStep
  <2>1. CASE CreateVideo(h) \/ SaveVideo(h) \/ SaveListed(h)
    BY <1>0, <2>1, CreateVideoRegisters, SaveVideoStores, SaveListedStores
  <2>2. CASE PublishEvent(h) \/ PublishCompleted(h)
    BY <2>2, PublishEventAnnounces, PublishCompletedAnnounces
  <2>3. CASE ~ (CreateVideo(h) \/ SaveVideo(h) \/ SaveListed(h)
                  \/ PublishEvent(h) \/ PublishCompleted(h))
    <3>1. UNCHANGED <<catalog, exchange>>
      BY <1>3, <2>3 DEF HandlerStep, ReceiveEvent, StartListing, SaveEvent, WriteRun,
         LookupVideo, ConfirmStorage, ListBucket, NextProvider, EndListing,
         MatchNothing, Reply, services
    <3> QED
      BY <1>1, <3>1
  <2> QED
    BY <2>1, <2>2, <2>3
<1>4. ASSUME Environment \/ \E o \in Objects : Deliver(o) PROVE LifecycleStep
  <2>1. UNCHANGED <<catalog, exchange>>
    BY <1>4 DEF Environment, PutObject, UIPutVideo, UIDeleteVideo, Crash, Deliver,
       ReceiveWebhook, services
  <2> QED
    BY <1>1, <2>1
<1> QED
  BY <1>2, <1>3, <1>4 DEF Next

(* Consumers of the gateway see the lifecycle of an upload and nothing     *)
(* else, whatever the interleaving, the faults and the crashes: a video is *)
(* registered and stored once, with one selection throughout, its start is *)
(* announced once, and what the storage webhook announces is stored        *)
(* (events/service.go:44-75, webhooks/service.go:37-106, videos/           *)
(* service.go:36-112).                                                     *)
THEOREM IngestImplementsLifecycle ==
    ASSUME UniqueIndex PROVE Spec => ImplementsLifecycle
<1>1. Init => Lifecycle!Init
  <2>1. ASSUME Init PROVE \A v : Found(v) = {}
    BY <2>1 DEF Init, Found
  <2> QED
    BY <2>1 DEF Init, Lifecycle!Init, PhaseOf, SelectionOf
<1>2. IngestInv /\ StartInv /\ [Next]_vars => [Lifecycle!Next]_(Lifecycle!vars)
  BY RefinementStep DEF LifecycleStep
<1> QED
  BY <1>1, <1>2, StartInvariant, PTL DEF Spec, ImplementsLifecycle, Lifecycle!Spec
=============================================================================
