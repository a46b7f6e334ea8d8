--------------------------------- MODULE Runs ---------------------------------
(***************************************************************************)
(* The transcode runs (internal/runs) and the benchmark sessions           *)
(* (internal/sessions), inside the life of the process that serves them.   *)
(* Two writers share transcode_runs: the transcode.completed event upserts *)
(* by job id after it has been published, a benchmark posts plain inserts. *)
(* Only the unique index on job_id, which a start may fail to build, keeps *)
(* them from leaving two documents for one job.                            *)
(***************************************************************************)
EXTENDS Startup, Sequences

CONSTANTS Handlers,
          Jobs, NoJob,  \* the job ids clients send; NoJob is an absent one
          Sessions,     \* the ids of benchmark sessions
          Event,        \* the measurements a job's transcode.completed carries
          MaxSent       \* bound of the model: requests

ASSUME RunsAssumption ==
    /\ "transcode_runs" \in Collections
    /\ NoJob \notin Jobs /\ Event \notin Nat
    /\ Jobs \cap Nat = {} /\ NoJob \notin Nat
    /\ MaxSent \in Nat

VARIABLES
    runs,      \* transcode_runs, in insertion order
    sessions,  \* benchmark_sessions: the posts that are stored for each id
    dirty,     \* the other collections that hold duplicates
    req,       \* the request each handler works on
    sent,      \* requests so far; the number of a request is also its time
    done,      \* history: jobs whose transcode.completed has been published
    acked      \* history: posts that were answered 202

data == <<runs, sessions, dirty>>
vars == <<processVars, data, req, sent, done, acked>>

-----------------------------------------------------------------------------
(* The runs repository *)

(* A benchmark post without a jobId gets a new one, "bench-" + ObjectID.   *)
JobIds == Jobs \cup (1..MaxSent)

Run(job, data_, created, benchmark) ==
    [job |-> job, data |-> data_, created |-> created, benchmark |-> benchmark]

Found(job) == {i \in DOMAIN runs : runs[i].job = job}

UniqueJobs == \A i, j \in DOMAIN runs : runs[i].job = runs[j].job => i = j

Duplicated(c) == IF c = "transcode_runs" THEN ~UniqueJobs ELSE c \in dirty

(* Mutant: mongoindex without SetUnique(true) on job_id. *)
DuplicateKeyNotUnique(job) == FALSE

DuplicateKey(job) == "transcode_runs" \in built /\ Found(job) # {}

(* The run UpsertFromEvent makes of a payload: the measurements of the     *)
(* event, the time of the request, no benchmark flag.                      *)
RunFromEvent(e) == Run(e.job, Event, e.n, FALSE)

(* Mutants: created_at among the fields of $set; benchmark without its     *)
(* omitempty, so that the event's false is written.                        *)
UpdatedCreated(old, e) == [RunFromEvent(e) EXCEPT !.benchmark = old.benchmark]
UpdatedBenchmark(old, e) == [RunFromEvent(e) EXCEPT !.created = old.created]

(* What Upsert leaves of a document that exists: $set of all the event's   *)
(* fields but created_at; a false benchmark is omitted.                    *)
Updated(old, e) ==
    [RunFromEvent(e) EXCEPT !.created = old.created, !.benchmark = old.benchmark]

-----------------------------------------------------------------------------
(* Requests *)

PCs == {"idle", "publish", "matchRun", "insertRun", "insertBenchmark",
        "insertSession", "replying"}

Idle == [pc |-> "idle", n |-> 0, job |-> NoJob, published |-> FALSE, status |-> 0]

At(h, pc)    == Running /\ req[h].pc = pc
Goto(h, pc)  == req' = [req EXCEPT ![h].pc = pc]
Answer(h, s) == req' = [req EXCEPT ![h].pc = "replying", ![h].status = s]

(* A call fails; while main disconnects, any call may. *)
CallFails == Fault \/ (phase = "stopping" /\ UNCHANGED faults)

unmoved == <<phase, tries, todo, built, kills>>

Receive(h) ==
    /\ phase = "serving" /\ req[h].pc = "idle" /\ sent < MaxSent
    /\ sent' = sent + 1

(* A transcode.completed event, from the publish on; Ingest has the steps  *)
(* before it.                                                              *)
ReceiveCompleted(h) ==
    /\ Receive(h)
    /\ \E j \in Jobs \cup {NoJob} :
          req' = [req EXCEPT ![h] = [Idle EXCEPT !.pc = "publish", !.n = sent', !.job = j]]
    /\ UNCHANGED <<processVars, data, done, acked>>

(* Mutant: the error of the publish does not end ProcessEvent. *)
PublishOrGoOn(h) ==
    /\ At(h, "publish")
    /\ Goto(h, "matchRun")
    /\ \/ Fine /\ done' = done \cup {req[h].job}
       \/ CallFails /\ UNCHANGED done
    /\ UNCHANGED <<unmoved, data, sent, acked>>

PublishCompleted(h) ==
    /\ At(h, "publish")
    /\ \/ /\ Fine
          /\ req' = [req EXCEPT ![h].pc = "matchRun", ![h].published = TRUE]
          /\ done' = done \cup {req[h].job}
       \/ CallFails /\ Answer(h, 500) /\ UNCHANGED done
    /\ UNCHANGED <<unmoved, data, sent, acked>>

(* Mutant: the run's error is returned and fails the request. *)
MatchRunOrFail(h) ==
    /\ At(h, "matchRun")
    /\ \/ Fine /\ Goto(h, "insertRun")
       \/ CallFails /\ Answer(h, 500)
    /\ UNCHANGED <<unmoved, data, sent, done, acked>>

(* Mutant: an empty jobId is upserted like any other. *)
MatchAnyRun(h) ==
    /\ At(h, "matchRun") /\ Fine
    /\ IF Found(req[h].job) = {} THEN Goto(h, "insertRun") ELSE Answer(h, 202)
    /\ UNCHANGED <<unmoved, data, sent, done, acked>>

(* UpsertFromEvent: no job id, no run.  MongoDB's upsert updates one       *)
(* document of the job, or finds none and goes on to insert; an error is   *)
(* only logged.                                                            *)
MatchRun(h) ==
    LET e == req[h]
    IN  /\ At(h, "matchRun")
        /\ \/ /\ Fine /\ e.job = NoJob
              /\ Answer(h, 202) /\ UNCHANGED runs
           \/ /\ Fine /\ e.job # NoJob /\ Found(e.job) = {}
              /\ Goto(h, "insertRun") /\ UNCHANGED runs
           \/ /\ e.job # NoJob
              /\ Fine \/ CallFails
              /\ \E i \in Found(e.job) : runs' = [runs EXCEPT ![i] = Updated(@, e)]
              /\ Answer(h, 202)
           \/ CallFails /\ UNCHANGED runs /\ Answer(h, 202)
        /\ UNCHANGED <<unmoved, sessions, dirty, sent, done, acked>>

(* The insert half of the upsert.  When a concurrent writer has inserted   *)
(* the job meanwhile the unique index refuses it, and MongoDB either       *)
(* matches again or reports the duplicate key, which is logged.            *)
InsertRun(h) ==
    LET e == req[h]
    IN  /\ At(h, "insertRun")
        /\ \/ /\ Fine \/ CallFails
              /\ ~DuplicateKey(e.job)
              /\ runs' = Append(runs, RunFromEvent(e))
              /\ Answer(h, 202)
           \/ /\ Fine /\ DuplicateKey(e.job)
              /\ Goto(h, "matchRun") \/ Answer(h, 202)
              /\ UNCHANGED runs
           \/ CallFails /\ UNCHANGED runs /\ Answer(h, 202)
        /\ UNCHANGED <<unmoved, sessions, dirty, sent, done, acked>>

(* POST /benchmark-runs; a body that does not parse is answered 400.       *)
PostBenchmark(h) ==
    /\ Receive(h)
    /\ \/ \E j \in Jobs \cup {NoJob} :
             req' = [req EXCEPT ![h] = [Idle EXCEPT !.pc = "insertBenchmark", !.n = sent',
                        !.job = IF j = NoJob THEN sent' ELSE j]]
       \/ req' = [req EXCEPT ![h] = [Idle EXCEPT !.pc = "replying", !.n = sent', !.status = 400]]
    /\ UNCHANGED <<processVars, data, done, acked>>

(* Mutant: RecordBenchmarkRun upserts like the event. *)
InsertBenchmarkUpserts(h) ==
    LET e == req[h]
    IN  /\ At(h, "insertBenchmark") /\ Fine
        /\ \/ /\ Found(e.job) = {}
              /\ runs' = Append(runs, Run(e.job, e.n, e.n, TRUE))
           \/ \E i \in Found(e.job) :
                 runs' = [runs EXCEPT ![i] = Run(e.job, e.n, @.created, TRUE)]
        /\ acked' = acked \cup {e.n}
        /\ Answer(h, 202)
        /\ UNCHANGED <<unmoved, sessions, dirty, sent, done>>

(* RecordBenchmarkRun: one InsertOne, refused if the job has a document.   *)
InsertBenchmark(h) ==
    LET e     == req[h]
        write == /\ ~DuplicateKey(e.job)
                 /\ runs' = Append(runs, Run(e.job, e.n, e.n, TRUE))
    IN  /\ At(h, "insertBenchmark")
        /\ \/ Fine /\ write /\ Answer(h, 202) /\ acked' = acked \cup {e.n}
           \/ /\ Fine /\ DuplicateKey(e.job)
              /\ Answer(h, 500) /\ UNCHANGED <<runs, acked>>
           \/ /\ CallFails
              /\ write \/ UNCHANGED runs
              /\ Answer(h, 500) /\ UNCHANGED acked
        /\ UNCHANGED <<unmoved, sessions, dirty, sent, done>>

(* POST /benchmark-sessions: an InsertOne into a collection without any    *)
(* unique index.                                                           *)
PostSession(h) ==
    /\ Receive(h)
    /\ req' = [req EXCEPT ![h] = [Idle EXCEPT !.pc = "insertSession", !.n = sent']]
    /\ UNCHANGED <<processVars, data, done, acked>>

InsertSession(h) ==
    /\ At(h, "insertSession")
    /\ \E s \in Sessions :
          LET write == sessions' = [sessions EXCEPT ![s] = @ \cup {req[h].n}]
          IN  \/ Fine /\ write /\ Answer(h, 202) /\ acked' = acked \cup {req[h].n}
              \/ /\ CallFails
                 /\ write \/ UNCHANGED sessions
                 /\ Answer(h, 500) /\ UNCHANGED acked
    /\ UNCHANGED <<unmoved, runs, dirty, sent, done>>

Reply(h) ==
    /\ At(h, "replying")
    /\ req' = [req EXCEPT ![h] = Idle]
    /\ UNCHANGED <<processVars, data, sent, done, acked>>

(* A write of the other components to a collection that has no index.      *)
WriteDuplicate(c) ==
    /\ Running /\ c \notin built \cup dirty
    /\ dirty' = dirty \cup {c}
    /\ UNCHANGED <<processVars, runs, sessions, req, sent, done, acked>>

-----------------------------------------------------------------------------
(* The reads: GET /runs with its filter, where an absent benchmark does    *)
(* not filter.                                                             *)
Listed(benchmark) ==
    CASE benchmark = "true"  -> {i \in DOMAIN runs : runs[i].benchmark}
      [] benchmark = "false" -> {i \in DOMAIN runs : ~runs[i].benchmark}
      [] OTHER               -> DOMAIN runs

-----------------------------------------------------------------------------
Init ==
    /\ ProcessInit
    /\ runs = <<>> /\ sessions = [s \in Sessions |-> {}]
    /\ dirty \in SUBSET (Collections \ {"transcode_runs"})
    /\ req = [h \in Handlers |-> Idle]
    /\ sent = 0 /\ done = {} /\ acked = {}

(* The process starts; no request is there yet. *)
StartStep ==
    /\ Connect \/ Dial \/ \E c \in Collections : CreateMany(c, Duplicated(c))
    /\ UNCHANGED <<data, req, sent, done, acked>>

(* The process ends, and with it every request. *)
EndStep ==
    /\ Exit \/ Kill
    /\ req' = [h \in Handlers |-> Idle]
    /\ UNCHANGED <<data, sent, done, acked>>

LaunchStep    == Launch /\ UNCHANGED <<data, req, sent, done, acked>>
InterruptStep == Interrupt /\ UNCHANGED <<data, req, sent, done, acked>>

RequestStep(h) ==
    \/ ReceiveCompleted(h) \/ PublishCompleted(h) \/ MatchRun(h) \/ InsertRun(h)
    \/ PostBenchmark(h) \/ InsertBenchmark(h)
    \/ PostSession(h) \/ InsertSession(h)
    \/ Reply(h)

Next ==
    \/ LaunchStep \/ StartStep \/ InterruptStep \/ EndStep
    \/ \E h \in Handlers : RequestStep(h)
    \/ \E c \in Collections \ {"transcode_runs"} : WriteDuplicate(c)

Spec == Init /\ [][Next]_vars

(* Every call of the start returns (each has a timeout), and whoever runs  *)
(* the gateway launches it again.                                          *)
Fairness == WF_vars(LaunchStep) /\ WF_vars(StartStep)

FairSpec == Spec /\ Fairness

-----------------------------------------------------------------------------
Statuses == {0, 202, 400, 500}

Requests == [pc : PCs, n : 0..MaxSent, job : JobIds \cup {NoJob},
             published : BOOLEAN, status : Statuses]

Docs == [job : JobIds, data : (1..MaxSent) \cup {Event}, created : 1..MaxSent,
         benchmark : BOOLEAN]

(* The type invariant.  UpsertFromEvent ignores a payload without a jobId, *)
(* and a benchmark without one gets its own: no document lacks a job.      *)
TypeOK ==
    /\ ProcessTypeOK
    /\ runs \in Seq(Docs)
    /\ sessions \in [Sessions -> SUBSET (1..MaxSent)]
    /\ dirty \subseteq Collections \ {"transcode_runs"}
    /\ req \in [Handlers -> Requests]
    /\ sent \in 0..MaxSent
    /\ done \subseteq Jobs \cup {NoJob} /\ acked \subseteq 1..MaxSent

(* Once a start has built the index, one run per job, whatever the events, *)
(* the benchmarks and their retries do, in this start and in every later   *)
(* one, even if its EnsureIndexes fails (mongoindex/indexes.go:39-44).     *)
IndexedIsUnique == "transcode_runs" \in built => UniqueJobs

(* A production run is written once: redelivered events, the race of two   *)
(* deliveries and colliding benchmarks leave it as it is, created_at       *)
(* included (docs/transcode-runs.md, Idempotency).                         *)
ProductionRunsAreFinal ==
    [][\A i \in Listed("false") : i \in DOMAIN runs' /\ runs'[i] = runs[i]]_runs

(* A run never moves from the benchmark view to the production view or     *)
(* back, although both writers may use its job id: the event leaves the    *)
(* flag of a document it meets alone (runs/repository.go, omitempty).      *)
ViewsAreStable ==
    [][/\ Listed("true") \subseteq Listed("true")'
       /\ Listed("false") \subseteq Listed("false")']_runs

(* Every measurement and every session that was answered 202 has its own   *)
(* document, through crashes and retries; only a transcode.completed of    *)
(* the same job may have replaced the numbers of a measurement.            *)
AcknowledgedIsKept ==
    \A n \in acked :
        \/ \E s \in Sessions : n \in sessions[s]
        \/ \E i \in Listed("true") :
              /\ runs[i].created = n
              /\ runs[i].data = n \/ runs[i].job \in done

(* A production run exists only for an event that was published: the run   *)
(* is the last call of ProcessEvent.                                       *)
RunsWerePublished == \A i \in Listed("false") : runs[i].job \in done

(* The run is best effort: an event that has been published is never       *)
(* answered with an error, which would make the worker publish it again.   *)
PublishedIsAccepted ==
    \A h \in Handlers : req[h].published => req[h].status \in {0, 202}

(* Duplicates that keep an index from being built are no outage            *)
(* (main.go:209-210): the gateway serves again after every crash, whatever *)
(* its collections hold.                                                   *)
ServesAgain == phase = "down" ~> phase = "serving"
=============================================================================
