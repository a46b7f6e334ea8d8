# A verification model of streaming-ingest

`streaming-ingest` is the event gateway of a video platform: a Go/fiber HTTP
service over MongoDB, RabbitMQ and object stores (MinIO, AWS S3). Front ends
post events, the stores post notifications about uploaded objects, the upload
UI keeps the state of multipart uploads, and the gateway announces uploads to
the transcoder on the RabbitMQ exchange `video_events`.

This directory holds TLA+ modules that model it, TLC configurations that check
them on small instances, and proofs checked by TLAPS.

    tlc -workers 2 -config IngestRetries.cfg MCIngest     # one run
    tlapm IngestProofs.tla                                # the proofs

`PROJECT.json` lists the runs, the mutants that show each property can fail,
the source lines each definition stands for, the hazards and the theorems.

## 1. The system

| Component | State | Operations | Talks to |
|---|---|---|---|
| Front-end events (`internal/events`) | `events` collection | `POST /events` | catalog, publisher, runs |
| Storage webhook (`internal/webhooks`) | none of its own | `POST /webhooks/storage/:provider` | adapters, catalog, upload-state, publisher |
| Storage adapters (`internal/adapters`) | none | `ParseEvent`, `ListVideos`, `GenerateURL` | MinIO, S3 |
| Catalogue repository (`internal/videos/repository.go`) | `videos_catalog` | `Create`, `Save`, `FindByVideoID`, `ListAll`, `Search` | MongoDB |
| Listing (`internal/videos/service.go`) | none of its own | `GET /videos`: lists the buckets and saves what it finds | adapters, catalog |
| Publisher (`internal/rabbitmq`) | one connection, one channel, a mutex | `NewPublisher`, `Publish`, `reconnect`, `Close` | RabbitMQ |
| Upload state (`internal/uploadstate`) | `upload_sessions`, `videos` | save, read, patch, delete | MongoDB, webhook |
| Runs (`internal/runs`) | `transcode_runs` | upsert from `transcode.completed`, benchmark insert, list | MongoDB |
| Sessions (`internal/sessions`) | `benchmark_sessions` | insert, list | MongoDB |
| Indexes (`internal/mongoindex`) | the indexes of the collections | `EnsureIndexes` at start | MongoDB |
| Process (`cmd/api/main.go`) | the wiring | start with retries, serve, close | all |

There is one process. fiber runs every request in a goroutine of its own and
nothing but the publisher is locked, so requests interleave between any two
calls to a service. The services outlive the process; nothing in memory does.

**What is hard.**

* *Interleaving.* Three writers (the event, the webhook, the listing) race to
  create the catalog document of one video id: one inserts, two upsert.
* *Ordering.* A notification or a listing may come before `upload.started`.
* *Stale reads.* The webhook reads the transcoding selection before it saves,
  patches and publishes.
* *Partial failure.* Each handler makes two to four calls and no transaction
  spans two of them. A call that returns an error may have been applied.
* *Crashes and redelivery.* A store sends a notification again until it is
  answered 200; the front end retries after a 500.
* *Shared documents.* The event of a finished transcode and a benchmark may write
  one job id; only an index that a start may fail to build keeps them apart.
* *The life of the process.* It starts with retries over collections that may
  hold duplicates, stops on a signal without waiting for requests, and is killed.
* *Overlapping saves.* Nothing serialises the saves of an upload's state, and
  its documents carry no version to compare.
* *A shared connection.* Requests share one AMQP channel, and one of them
  replaces it while the others wait; `Close` does not wait for anybody.
* *Encodings.* Keys arrive percent-encoded or not, and are filtered, split and
  forwarded after or before decoding.

**What makes each component correct.**

* events: nothing is published that was not recorded; the start of an upload is
  announced once.
* webhook: it announces a completion only for a stored document, with the
  registered selection or none, after it has tried the upload-state patch; and it
  *does* announce it before the store is told 200.
* adapters: an object is filed under its own names; pipeline outputs never pass.
* catalog: one document per video; a selection never changes once it is stored.
* listing: it takes nothing back from what the others wrote.
* publisher: no lost connection, no retry on a foreign one, at most one copy of
  a message and none with an error, no caller stuck.
* upload state: an acknowledged save is in both documents or was overwritten by one
  that did not end before it began; a read never pairs a session with the video of
  a save that was over before the session's began; a confirmation survives later
  saves; the answer to a patch shows what nobody has written since.
* runs: one document per job once the index is there; a production run is final
  and belongs to a published event; an acknowledged measurement stays.
* listing answers: every document, with all it has; what a failed call missed is
  made good by the next.
* process: it serves again after every crash, whatever the collections hold.

## 2. The modules

| Module | Models |
|---|---|
| `StorageAdapters` | the adapters, as pure operators over keys made of segments |
| `Ingest` | events, webhook and listing over the catalog, the events collection, the confirmation of upload-state, the runs and the exchange (EXTENDS `StorageAdapters`) |
| `IngestProperties` | the properties of `Ingest`, its inductive invariant, and the refinement mapping to `UploadLifecycle` |
| `UploadLifecycle` | abstract specification: a phase and a selection per video, and what may be announced |
| `IngestProofs`, `IngestAnnouncements`, `IngestRefinement` | the theorems about `Ingest`: its invariant; what it publishes and answers; that it implements `UploadLifecycle` |
| `Catalogue` | the answers of `GET /videos` and `GET /videos/database` as functions: listing, merge, links (EXTENDS `StorageAdapters`) |
| `AdapterCalls` | one call of the adapters or of the listing as a state: any input, what fails, and the properties of what becomes of it |
| `AdapterProofs` | the theorems about `AdapterCalls` |
| `Publisher` | the RabbitMQ publisher, one step per network call, with its properties |
| `PublisherPort` | abstract specification: what a caller of `Publish` is promised |
| `PublisherProofs`, `PublisherRefinement` | the theorems about `Publisher`, and that it implements `PublisherPort` |
| `UploadState` | the upload-state store and its handlers, with its properties |
| `UploadStateProofs` | the theorems about `UploadState` |
| `Startup` | the life of the process: connecting, indexes, dialling, serving, stopping, being killed |
| `Runs` | transcode runs and benchmark sessions inside that life (EXTENDS `Startup`), with its properties |
| `RunsProofs` | the theorems about `Runs` |
| `MC*` | the constants TLC needs |

Operators called *Mutant* in a comment are not part of a specification. Each is
a plausible bug in the definition below it, and TLC refutes a property when it
takes that definition's place.

### Ingest

`req[h]` is a fiber request in flight: `pc` is the call it makes next, the other
fields are the handler's local variables. `ReceiveEvent`, `SaveEvent`,
`CreateVideo`, `PublishEvent`, `WriteRun` are `Handler.ReceiveEvent`
and `Service.ProcessEvent` of events; `ReceiveWebhook`, `LookupVideo`, `SaveVideo`,
`ConfirmStorage`, `PublishCompleted` are `ProcessWebhook`; `StartListing`,
`ListBucket`, `SaveListed`, `NextProvider`, `EndListing` are the writing part
of `ListAllVideos`. `Reply` is the answer leaving, which is when a store learns
that it need not send again. `catalog` is a sequence, not a function, so that a
duplicate document is expressible. `Create` is `InsertOne`, refused by the
unique index; `Save` is `UpdateOne` with `$set` and upsert, where an absent
selection field leaves the stored one alone (`omitempty`). With the unique index
an upsert is one step, since a second insert would be refused and retried; without
it the server may match nothing (`MatchNothing`, remembered in `missed`), let
others write, and then insert all the same. Every call may fail
(`Fault`), and a write that fails may have been applied. `excused` is a
history variable: of each video, whether a patch failed, and whether one met no
document or was undone by a delete.

A front end may post `upload.completed` itself, and `ProcessEvent` publishes it on
the webhook's routing key `video.upload.completed` with nothing looked up or
checked (`events/service.go:44-64`). `source` in a message tells the two apart
in the model only. The properties that speak of `Webhooked` messages, and what
`UploadLifecycle` demands of an announcement (`Justified`), are promises of the
storage webhook; no such promise can be made of what a front end says.

Abstracted: the three selection fields (`rawVideo`, `subtitles`, `transcode`)
are values of a set, timestamps and durations are left out, event payloads are
reduced to a video id. An upload-state document is reduced to its stage.

### Publisher

`links` holds every connection ever dialled, with its channel; `pConn` and
`pChannel` are the two fields of the struct, set by two assignments and hence
by two steps, because `Close` reads them without the mutex; the old channel and
the old connection are closed by two steps as well (`CloseOldChannel`,
`CloseOldConn`). A `dead` connection
is one the broker has dropped and the client may or may not have noticed: a
publish on it either fails or is lost without an error, as the channel has no
confirms. `outage` is a history variable: the callers whose reconnect was
refused or cut off.

`PublisherPort` is what callers see of it: a call is asked, ends by `Send`,
`Lose` or `Fail`, and returns; an error means that nothing was sent, success that
one copy was, or that it was lost on a dead connection. `ImplementsPort` checks
that every step of `Publisher` is one of the port or none, and the theorem
`PublisherImplementsPort` proves it. `PublishOk` and `PublishErr` are how
`Ingest` takes a whole call of the port as one step (`Send` or, with `MayLose`,
`Lose`; and `Fail`).
`leaked` holds the connections that a failed `NewPublisher` left open.

### UploadState

Any number of saves of a video may overlap, those of one session too: the code
has no lock and no versions, and a handler goes on after its client gave up. A
session is reduced to the number of the save that wrote it (`rev`). A video is
reduced to that number, which stands for all that only saves write, and to two
fields that a PATCH may write as well: `status`, which every save overwrites, as
it does `title` and `progress`, and `storage_confirmed_at`, which a save does not
send and `omitempty` protects. A PATCH has any of the two, with any value, null
included. `SaveState` writes the video and then the session, `GetState` reads the
session and then the video it names, each as two steps. A session names a video
of its own (`VideoIdOf`), which no handler compares with the one it is saved with
(`VideoOf`); the properties of the pair are about sessions where they agree.
A read with an empty patch, and the GET of a video, are the last step of
`PatchVideo` alone.

History variables: `after[n]`, the saves that were over when save `n` began (one
is over when it was answered or its process died); `ackedSession` and
`ackedVideo`, the saves answered 204; `deleted`; `kept` and `due`, the requests
whose patch was applied and the fields of it that nobody has written since.
With them the properties say of a document what is said of a regular register: an
operation never meets what was already overwritten when it began.

### Startup and Runs

`Startup` has one action per call of `main`: `Connect` and `Dial` are attempts of
the two retry loops, and the last failed one is `log.Fatalf`; `CreateMany` is one
collection of `EnsureIndexes`, in any order because Go's map has none, and its
first error ends it without ending the process. `built` outlives the process.
`Interrupt` is the signal: the listener closes and the deferred calls run while
accepted requests go on, so in phase `stopping` any of their calls may fail.

`Runs` puts `transcode_runs` and `benchmark_sessions` inside that life.
MongoDB's upsert is two steps, `MatchRun` and `InsertRun`, because that is how two
upserts of one job come to race: both match nothing, both insert, and the index,
if it is there, refuses the second. A benchmark is a plain insert that may
carry any job id. `WriteDuplicate` stands for the other components' writes into
a collection that has no index yet. The events before the publish are `Ingest`'s.

### Catalogue and AdapterCalls

`GET /videos` writes and then answers; the writes race with the webhook and are
steps of `Ingest`, the answer is a function of what was read and is given here:
`collectStorageVideos` (the stores in order, one that is down is skipped, a save
that fails ends it), `mergeVideosByMatch` and `enrichVideos`. The documents of the
answer are those read *before* the synchronisation, as in the code. A match key is
the provider and the two names joined by `|`, which names may hold themselves
(`Barred`), so objects of other names may share the key of a document.

The adapters and these functions keep no state, so a state of `AdapterCalls` is one
call of them: a post to `/webhooks/storage/:provider` about a stored object, or a
`GET /videos` with everything that may fail in it, and a second one after it. The
keys, their encodings, the catalogues and the buckets are its constants.

## 3. The runs

| Run | Instance | Shows |
|---|---|---|
| `adapters` | 15 keys of every shape, both providers and a wrong one; catalogues of at most 2 documents, small buckets, stores down, a save that fails | objects are filed under their names, outputs dropped, listing and webhook agree; the answer is the catalogue, and a failed listing is made good by the next |
| `ingest_retries` | 2 handlers, 2 `upload.started`, webhook, listing, 1 fault, lost publishes | one document, frozen and rightly forwarded selection, monotone status, no message unrecorded, no start announced late, `UploadLifecycle` implemented |
| `ingest_webhooks` | an upload and an output, 1 event of any type, 2 faults | types; what the webhook announces is stored, and confirmed unless the patch failed or had no document; outputs silent |
| `ingest_live` | 1 upload, fair requests and store, 1 fault, 1 crash, no unique index | every stored upload is announced, and answered 200 only then |
| `publisher` | 2 callers, 3 calls, 2 start attempts | the publisher's safety, a bounded number of connections, `PublisherPort` implemented, and every call returns |
| `upload_state` | 2 handlers, 2 sessions of a video of which one names another video, 2 saves, 2 patches, 1 fault, 1 crash | the upload-state properties |
| `runs` | 2 handlers, 2 requests for 1 job, 2 collections, 2 attempts, 2 faults, 1 kill | the properties of the runs, and the gateway serves again |

The five remaining runs each refute something the repository says (section 6).

**Bounds.** Two handlers are the least that race, and every property is about
a pair of writers and one video; a third would repeat the second's role.
Two events let the front end retry once, and the retry meets every state the
first try left. One fault, at any step, reaches every intermediate state: a
crash leaves no more behind than a failed call and an answer that is lost, which
is why only `ingest_live` has one, where what matters is that the request is gone.
(The theorems are about any number of either.)
`ingest_webhooks` has two faults, so that a redelivered notification or a
second handler meets a failure of its own. The retry that follows the last fault is
the worst case for `EveryUploadAnnounced` (an unbounded number of faults would let
nothing ever finish). In the publisher three calls are a caller that finishes and
comes back while another waits. Two saves are all it takes to overlap or to
follow one another, with the video deleted, patched or read between any two writes,
and every upload-state property compares two saves; the theorems have no bound.
In `runs` two requests are the two writers of one job; a third could only repeat one of them, and the theorems of
`RunsProofs` cover it. Two faults exhaust a retry loop of two attempts, or fail a
call in each of two places; a kill besides the interrupts leaves a start or a
request half done. One collection beside `transcode_runs` is one whose index may
be refused. The two documents of a `Catalogue` listing may share a video id
(the index may be missing) or differ only in the case of a name, and the
synchronisation is cut before the first save, after one, or not at all.
Handlers are interchangeable, so the safety runs of `Ingest` and
`UploadState` declare symmetry; `ingest_live`,
`publisher` and `runs` do not, since they check liveness. `publisher` says
`CHECK_DEADLOCK FALSE` because the process really stops.

**Fairness.** `Ingest`: fiber runs a request it has accepted to its end, and a
call to a service returns, with an answer or with the driver's server-selection
or connection error (the handlers pass `context.Background()`, so no deadline of
their own helps), so each handler's steps are weakly fair. MinIO
sends a notification until it gets a 200, whatever else occupies the
handlers, so `Deliver(o)` is strongly fair. EventBridge gives up after its window
(`docs/upload-status-stages.md:105-108`), which is why the run has an upload to MinIO
only. Nothing is assumed of front ends,
listings, the UI, faults or crashes. `Publisher`: dialling has a timeout and
heartbeats end a silent connection, so a caller inside the mutex goes on
(`WF`); Go's `sync.Mutex` switches to hand-over in starvation mode, so a waiter
gets it in the end (`SF`). The broker never has to behave. `Runs`: each call of a
start has a timeout (15 s to connect, 30 s for the indexes, the dialler's own), so
`StartStep` is weakly fair; that a gateway which is down is launched again
(`LaunchStep`) is an assumption on whoever runs it. Requests need none, and since
faults and kills are bounded, `ServesAgain` says that none of them is for good.

## 4. The proofs

TLAPS proves these for every value of the constants: any number of handlers,
callers, objects, keys, video ids, selections, and any bounds.

`IngestProofs`:

* `IngestInvariant`: `Spec => []IngestInv`;
* with the unique index or without it: `TypeCorrect`, `StatusIsMonotone`,
  `AnnouncedIsStored`, `ConfirmedIsFirst`, `OutputsStaySilent`;
* under `UniqueIndex`: `CatalogIsUnique`, `SelectionsAreFrozen`,
  `SelectionIsForwarded`.

`main` starts the service without the index and says that lookups degrade to a
slower scan (`cmd/api/main.go:210`). The theorems say what is really at stake.
Without the index there are duplicates, an upsert may write to either of them,
and the selection of a document may change; but no document ever goes back to
`uploading`, nothing is announced before it is stored, and, in
`IngestAnnouncements`, every message still has its record and every answered
upload is announced. Each theorem under `UniqueIndex` needs it: with the constant
`FALSE`, TLC finds a counterexample to its property on the constants of
`IngestRetries`.

`StoredBeforeCompleted` and its companions are not inductive: they speak of what
has been published and say nothing of the webhook about to publish. `IngestInv`
adds what a webhook in flight owes to the state at each of its calls
(`RequestInv`): after its lookup the selection it carries is that of a document
(`Carried`), after its save the document is stored (`Stored`), after its patch
the video is confirmed or excused (`Staged`); `MessageInv` says the same of each
message. These facts survive the steps of the *other* requests because no step
erases a selection, unstores a document, or withdraws a confirmation without
recording it. `IndexKept`, `NoneMissed` and `Carried` are the only parts that speak of
the index: with it there is one document per video, no upsert inserts beside
another's document, and "the document" means one. The two
action properties follow from the same invariant: `Save` could only change a
selection to a non-absent one carried by a webhook, and with the index the
invariant says that this is the document's own.

`IngestAnnouncements` has the properties that relate
messages to the requests that are about to send them; each comes with an invariant
of its own beside `IngestInv`, checked by TLC on the ingest runs' constants before
it was proved:

* `StartInvariant`, `StartedIsOnce`, `StartsSettle`, under `UniqueIndex`. `StartInv`:
  a request about to announce a start (`Starting`) has inserted its document,
  nobody has announced that video, and no other request is about to. A second
  `upload.started` cannot get there, because its insert meets the document that either an announced start or a `Starting`
  request has left behind. Without the index this fails. `StartSettles` is the other
  side of it: when the request that made the document is over (`Settled`), by an
  answer, a crash or a failed publish, the window has closed for good. Only an
  insert makes a request `Starting`, and it needs that there is no document yet.
* `AnsweredIsAnnounced`, under `~MayLose`: on a dead connection a publish
  succeeds and reaches nobody. `AnswerInv` follows the object of a notification
  through its request: it is stored, the key that came with it is one of its two,
  and an answer 200 is either of an announced upload or of a pipeline output. The
  latter needs `DecodingAssumption`: that no encoding makes an upload look like an
  output or the reverse.
* `EventsHaveRecords`. "At least as many records as messages" is not inductive: a
  publish adds a message and no record. `RecordInv` counts the recorded and unpublished
  requests with the messages (`Unpublished`): a publish moves one from there to the
  exchange, a failure or a crash only takes some away, which is why it is an
  inequality.

`IngestRefinement`: `IngestImplementsLifecycle`, `Spec => ImplementsLifecycle`, under
`UniqueIndex`. A video's phase and selection are those of *the* document
(`TheDoc`), which is one by `OneDocPerVideo`. An insert is `Register` or `Store` of
one video, an upsert is `Store` and keeps the selection by the argument of
`SelectionsAreFrozen`, a publish is an announcement whose guards `StartInv` and
`RequestInv` supply, and all other steps leave the three variables alone.

`PublisherProofs`:

* `PublisherInvariant`: `Spec => []PublisherInv`;
* `PublisherTypes`, `NothingLeaks`, `RetriesAreOwn`, `ErrorsAreClean`,
  `ConnectionsAreBounded`, `PublisherStaysWhole`, `HiccupsAreHidden`.

`PublisherInv` joins the type invariant and `NoConnectionLeak` with the mutex
(`MutexInv`: a caller past `Lock` holds it) and `CallOk`, which says how far each
call has come: nothing is published until the call is about to unlock, a
reconnect that got past `dial` has a link of its own, the old connection is
closed before `p.conn` is overwritten, and a call that unlocks has either
installed its link or closed it. `StartIsQuiet` is proved first: while the
process starts, no caller is inside.

`ConnectionsAreBounded` adds `LeakInv`: every leaked connection is of a failed
attempt, and while there is a publisher one attempt has not failed.

`PublisherStaysWhole` says what the next caller of a mutex finds, and is proved
from `WholeInv`, which says what happens to the pair of fields while the mutex is
held: they are a pair except between the close of the old connection and the last
assignment (`Swapping`), the new link is not the one it replaces, and it is ready
before the old one is touched (`SwapOk`). Only the caller inside can disturb this
(`AloneInside`), so each step of `reconnect` has one proof obligation about itself.
`HiccupsAreHidden` needs it too: the retry of a caller can only fail on a ready
link that has died, and `HiccupInv` says that whoever holds a link that died
while it was being set up is in `outage`, as are all whose call ended in an error.

`AdapterProofs` (for every set of keys, every encoding, every catalogue and bucket):
`NoticesNameObjects`, `OutputsAreIgnored`, `ListingAgrees`, `AnswersTheCatalog`,
`ListingsResume`. There is no induction over steps here, `CallInv` only says what a
call is; the work is in the lemmas. `NoticeKey`: what a store sends decodes to the
object's key, or is that key. `ListedIsSeq`: however many chunks are left out and
stores are down, the listing is a finite sequence. `MaxIsIn`: the last match exists;
it is proved by well-founded induction (`WFMin`). `MergeKeepsDocuments`: a document
is answered as it is, or with what it lacks from an object of its match key, and
nothing else. That this object has the same names is shown of names without a `|`
(`UnbarredNames`), where the joined key has three parts, and is not true of others.
That the status and the time are never what is lacking rests on `CallsAssumption`:
every writer of the catalogue gives its document both
(`events/service.go:107-112`, `webhooks/service.go:75-80`, `videos/service.go:99-101`).
`OutputsIgnored` is as strong as it is true: EventBridge does not encode keys and the
adapter decodes them all the same, so an object whose *name* holds an encoded slash
(`slash` in `MCStorageAdapters`) may be taken for an output.

`ListingsResume` is about the loop of saves, `SaveAll`, a recursive function. That it
exists and what it computes are shown by induction over the number of saves, with
`AllNumbers` (a set of numbers closed under successor has all of them, from `WFMin`
again) in place of the library's induction theorem. What the loop leaves is said by
`Leaves(c, s, m, r)`: of each id among the first `m` videos of `s`, the first
document of `c`, or else exactly one that is added, is the *last* video of that id,
and no other document of `c` is touched. One save keeps it (`SaveReplaces`,
`SaveAdds`); it absorbs an earlier loop whose ids the later one has (`LeavesAgain`);
and two catalogues it says the same of hold every document equally often, by an
injection each way (`NoMoreCopies`). The order of what is added may differ, which
is why the property counts documents and does not compare catalogues.

`PublisherRefinement`: `PublisherImplementsPort`, `Spec => Port!Spec`. Every step
moves at most one call (`OneCallMoves`), and `ResultInv`, that a call has a
result exactly when it is about to unlock, makes each move a step of the port.

`RunsProofs`:

* `RunsInvariant`: `Spec => []RunsInv`;
* `RunsTypes`, `RunsAreUnique`, `MeasurementsAreKept`, `RunsFollowPublishes`,
  `PublishedAreAccepted`, `ProductionIsFinal`, `RunsKeepTheirView`.

Only four kinds of step touch `transcode_runs` (`RunsEffect`): an event rewrites a
document it matched, or inserts, or a benchmark inserts, or nothing happens. With
the index both inserts need that no document has the job, and `BuiltEffect` says
that an index is built only over a collection without duplicates: together they
give uniqueness, in this start and in all later ones. What is not inductive is
that a production run is of a published event: `RequestInv` says of a request
between its calls that it has published (`done`), and `DocInv` that a production
run is the event's own, so that rewriting it changes nothing.

`UploadStateProofs`:

* `UploadStateInvariant`: `Spec => []UploadStateInv`;
* `UploadStateTypes`, `SessionsHaveVideos`, `ReadsAreConsistent`,
  `AcknowledgedSavesAreKept`, `PatchesAreVisible`, `ConfirmationsAreKept`.

The properties compare the save that wrote what is stored, or was read, with those
that were over (`after[n]`) when another save `n` began, for any overlapping of any
number of saves. The key is `SaverOk`: a save in flight is in no `after[n]`, so
what it writes is never one of those, whoever wrote before it; and `after[n]` never
changes once `n` has begun. `RequestInv` then says what a request may count on
between its two calls: a save that has written its video, and a read that has its
session, that the video is gone or `Current`, written by no save over before that of
the session began; a patch that was applied (`Fulfils`), that the document has every
field that is still `due`. A delete ends what is claimed of a document (`There`), and
a later save makes it anew.

Assumptions: the named ASSUMEs `KeysAssumption` (a key is a non-empty sequence of
names, and an encoded key decodes to the key it came from), `DecodingAssumption`
(decoding leaves the prefix of an output alone, since it has no character that is
encoded), `IngestAssumption`, `ObjectsAssumption` (stored keys parse to known ids),
`CallsAssumption`, `PublisherAssumption`, `StartupAssumption`, `RunsAssumption`
and `UploadStateAssumption`. TLC evaluates them.

Only model-checked: liveness (`EveryUploadAnnounced`, `EveryCallReturns`,
`ServesAgain`), which is out of the prover's reach, as are ENABLED and fairness.
Every safety and action property of a passing run, and both refinements, are
theorems.

## 5. Limits of the model

* A write whose call timed out, or whose process died, is applied at once or never;
  one that reaches MongoDB after later writes is not modelled.
* A publish that returns an error was not delivered. (The broker may have taken
  the bytes of a channel that dies during the call.)
* A PATCH sets fields of a video; one that changes its `video_id`, or gives a field a
  value of a type that no longer decodes, is not modelled. `updated_at`, which every
  write sets, is left out.
* A notification is about one object, as MinIO, S3 and EventBridge send them: of
  `Records[]` the adapters read the first only (`minio_adapter.go:56`,
  `s3_adapter.go:44`), and would answer 200 with the others unread.
* Who wins of two overlapping saves is left open by the code and by the properties:
  the later write does, in each document for itself, so that afterwards a session
  and its video may be of different saves. Clients that need more than
  the register the properties describe must not overlap their saves.
* The number of times a connection can die is bounded by the dials, the other
  bounds are the constants `Max*` and `Attempts`.
* Two `transcode.completed` events of one job carry the same measurements
  (`Event`), as redeliveries do; a transcode repeated under its old job id would
  overwrite the run.
* The upsert of a run may give up on the duplicate key or match again; which of
  the two the server does is left open.
* `Search` filters the catalogue by a regular expression, and `GET /runs` and the
  sessions list filter by equalities besides `benchmark`: reads without a
  decision worth a property.
* `Startup` has the unique indexes only; one that merely speeds a query changes
  no result.

Not modelled: the in-memory repository serves tests only (its `Create` is an
upsert, so a test over it never sees the duplicate key of a retried
`upload.started`); the telemetry middleware formats a log line; the formats of
requests and responses, and the configuration read from the environment.

## 6. Where the documents and the code differ

Each of these has a run that shows it:

* Replays may forward different selections: the webhook looks the record up once,
  before its own save, and takes an error for a missing record
  (`not_replays_same_selection`; `docs/transcode-selection-propagation.md:67-68`).
* Without the unique index the service is not merely slower, it duplicates
  documents: an insert, or a second upsert, goes beside the first
  (`not_one_doc_without_index`; `cmd/api/main.go:210`).
* Stage 4 may be reached without stage 3: any error of the patch is only logged, not
  just a missing document (`not_stage_three_first`, hence the name
  `StageThreeUnlessFailed` of what does hold; `SPEC.md:41-43`,
  `docs/upload-status-stages.md:19-22`, `44-49`).
* `GET /videos` catalogues pipeline outputs as videos
  (`not_outputs_uncatalogued`; `adapters/common_storage.go:20-24`).
* The forwarded `objectKey` is the encoded one (`not_object_key_stored`;
  `adapters/storage_port.go:10-12`).

Noticed while modelling, without a run:

* A front end's `upload.completed` goes out on the webhook's routing key with
  whatever payload it has; consumers cannot rely on it for a stored object.
* `session.videoId` may differ from `video.id` in one save (`uploadstate/handler.go:22`
  asks only that two ids are there); GET then reads a video that the save did not
  write, or none.
* `SPEC.md:28` and `docs/upload-status-stages.md:74` call the provider `s3`; `main`
  registers `aws-s3`, so a post to `/webhooks/storage/s3` is answered 400.
* The links of `GET /videos` are to `<videoId>/<filename>`, without the `raw/` that
  `docs/object-key-preservation.md:5` says every source object has.
* `GET /videos` answers the documents it read before it synchronised: a new
  object shows in the next call. `SPEC.md:48` calls its records
  `DomainEvent`-shaped; they are `VideoResponse`s.
* An absent `benchmark` does not filter `GET /runs`; `SPEC.md:93` makes `false` the
  default.
* `GET /runs/:videoId` answers 200 and a list, where `docs/transcode-runs.md:93`
  has one document or a 404; an event without `completedAt` is stored with the
  zero time, where the same document has the server's.
* A benchmark without a job id gets a new one per request, so a retry after a
  500 that was applied stores the measurement twice.
* `connectMongo` leaves its client behind when the ping fails.
* The webhook answers 400 to every failure, also a transient one of MongoDB or
  RabbitMQ (`webhooks/handler.go:24`, `SPEC.md:35`).
* The run recorded from `transcode.completed` drops `protocols`,
  `segmentSeconds` and `bitrateKbps`, which `SPEC.md:260-274` lists.
* `NewPublisher` forgets a connection whose channel or exchange could not be set
  up; `reconnect` closes it.
* When the publish of `upload.started` fails, the retry meets its own document's
  duplicate key, and the start is never announced (`StartSettles`).

## 7. Plan

Done: `Ingest` with its abstract specification, its proofs and the proof that it
implements it; the adapters and the catalogue's answers, and their proofs; the
publisher, its proofs, its port and the refinement; the upload state and its
proofs; the process, the runs and the sessions, and their proofs.

Next, to extend the model:

1. `Ingest` composed with `UploadState` in place of `stage`.
2. `Ingest` inside `Startup`, which gives `UniqueIndex` its value step by step
   instead of by a constant.

Next, to prove:

3. The writes of one listing as steps of `Ingest` leave what `Catalogue` computes,
   when nothing runs beside it.
