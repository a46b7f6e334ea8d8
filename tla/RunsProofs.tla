------------------------------ MODULE RunsProofs -------------------------------
(***************************************************************************)
(* Theorems about Runs, for any jobs, sessions, handlers, collections and  *)
(* bounds.                                                                 *)
(*                                                                         *)
(* The argument: four kinds of step are all that ever happens to           *)
(* transcode_runs (RunsEffect).  RequestInv says what a request in flight  *)
(* owes to the state, above all that whoever upserts a job's run comes     *)
(* after the publish of its event; DocInv says what every document is.     *)
(***************************************************************************)
EXTENDS Runs, TLAPS

(* A request at one of its calls: what it has, and what it has not yet.    *)
RequestOk(r, announced) ==
    /\ r \in Requests
    /\ r.pc # "idle" => r.n \in 1..MaxSent
    /\ r.pc # "replying" => r.status = 0
    /\ r.pc \in {"publish", "insertBenchmark", "insertSession"} => ~r.published
    /\ r.pc \in {"publish", "matchRun", "insertRun"} => r.job \in Jobs \cup {NoJob}
    /\ r.pc = "insertBenchmark" => r.job \in JobIds
    /\ r.pc = "insertRun" => r.job # NoJob
    /\ r.pc \in {"matchRun", "insertRun"} => r.published /\ r.job \in announced
    /\ r.published => r.status \in {0, 202}

RequestInv == \A h \in Handlers : RequestOk(req[h], done)

(* A production run is the event's, and the event has been published.      *)
DocInv == \A i \in DOMAIN runs :
              ~runs[i].benchmark => runs[i].job \in done /\ runs[i].data = Event

(* A retry loop that is still running has an attempt left. *)
StartInv == phase \in {"connecting", "indexing", "dialling"} => tries < Attempts

RunsInv == /\ TypeOK /\ StartInv /\ RequestInv /\ DocInv
           /\ IndexedIsUnique /\ AcknowledgedIsKept

-----------------------------------------------------------------------------
(* Sequences of runs. *)

LEMMA AppendRun ==
    ASSUME NEW q \in Seq(Docs), NEW d \in Docs
    PROVE  /\ Append(q, d) \in Seq(Docs)
           /\ DOMAIN Append(q, d) = DOMAIN q \cup {Len(q) + 1}
           /\ Len(q) + 1 \notin DOMAIN q
           /\ \A i \in DOMAIN q : Append(q, d)[i] = q[i]
           /\ Append(q, d)[Len(q) + 1] = d
  OBVIOUS

LEMMA ReplaceRun ==
    ASSUME NEW q \in Seq(Docs), NEW i \in DOMAIN q, NEW d \in Docs
    PROVE  /\ [q EXCEPT ![i] = d] \in Seq(Docs)
           /\ DOMAIN [q EXCEPT ![i] = d] = DOMAIN q
           /\ [q EXCEPT ![i] = d][i] = d
           /\ \A j \in DOMAIN q : j # i => [q EXCEPT ![i] = d][j] = q[j]
  OBVIOUS

-----------------------------------------------------------------------------
(* All that ever happens to transcode_runs: one document of the job is     *)
(* rewritten by an event, or a document is appended by an event or a       *)
(* benchmark where the index permits it.                                   *)

Rewritten(h) ==
    /\ req[h].pc = "matchRun" /\ req[h].job # NoJob
    /\ \E i \in Found(req[h].job) :
          runs' = [runs EXCEPT ![i] = Updated(runs[i], req[h])]
    /\ UNCHANGED <<built, sessions, done, acked>>

Recorded(h) ==
    /\ req[h].pc = "insertRun" /\ ~DuplicateKey(req[h].job)
    /\ runs' = Append(runs, RunFromEvent(req[h]))
    /\ UNCHANGED <<built, sessions, done, acked>>

Measured(h) ==
    /\ req[h].pc = "insertBenchmark" /\ ~DuplicateKey(req[h].job)
    /\ runs' = Append(runs, Run(req[h].job, req[h].n, req[h].n, TRUE))
    /\ acked' \in {acked, acked \cup {req[h].n}}
    /\ UNCHANGED <<built, sessions, done>>

LEMMA RunsEffect ==
    ASSUME [Next]_vars
    PROVE  \/ UNCHANGED runs
           \/ \E h \in Handlers : Rewritten(h) \/ Recorded(h) \/ Measured(h)
  <1>1. CASE UNCHANGED vars
    BY <1>1 DEF vars, data
  <1>2. CASE LaunchStep \/ StartStep \/ InterruptStep \/ EndStep
    BY <1>2 DEF LaunchStep, StartStep, InterruptStep, EndStep, data
  <1>3. CASE \E c \in Collections \ {"transcode_runs"} : WriteDuplicate(c)
    BY <1>3 DEF WriteDuplicate
  <1>4. ASSUME NEW h \in Handlers, RequestStep(h)
        PROVE  UNCHANGED runs \/ Rewritten(h) \/ Recorded(h) \/ Measured(h)
    <2>1. CASE ReceiveCompleted(h) \/ PublishCompleted(h) \/ PostBenchmark(h)
               \/ PostSession(h) \/ InsertSession(h) \/ Reply(h)
      BY <2>1 DEF ReceiveCompleted, PublishCompleted, PostBenchmark, PostSession,
                  InsertSession, Reply, data
    <2>2. CASE MatchRun(h)
      BY <2>2 DEF MatchRun, At, Rewritten, unmoved
    <2>3. CASE InsertRun(h)
      BY <2>3 DEF InsertRun, At, Recorded, unmoved
    <2>4. CASE InsertBenchmark(h)
      BY <2>4 DEF InsertBenchmark, At, Measured, unmoved
    <2>. QED BY <1>4, <2>1, <2>2, <2>3, <2>4 DEF RequestStep
  <1>. QED BY <1>1, <1>2, <1>3, <1>4 DEF Next

(* An index is only built over a collection without duplicates. *)
LEMMA BuiltEffect ==
    ASSUME [Next]_vars
    PROVE  \/ UNCHANGED built
           \/ /\ UNCHANGED runs
              /\ \E c \in Collections : built' = built \cup {c} /\ ~Duplicated(c)
  <1>1. CASE UNCHANGED vars
    BY <1>1 DEF vars, processVars
  <1>2. CASE LaunchStep \/ InterruptStep \/ EndStep
    BY <1>2 DEF LaunchStep, InterruptStep, EndStep, Launch, Interrupt, Exit, Kill
  <1>3. CASE StartStep
    BY <1>3 DEF StartStep, Connect, Dial, CreateMany, data
  <1>4. CASE \E c \in Collections \ {"transcode_runs"} : WriteDuplicate(c)
    BY <1>4 DEF WriteDuplicate, processVars
  <1>5. ASSUME NEW h \in Handlers, RequestStep(h)
        PROVE  UNCHANGED built
    <2>1. CASE ReceiveCompleted(h) \/ PublishCompleted(h) \/ PostBenchmark(h)
               \/ PostSession(h) \/ InsertSession(h) \/ Reply(h)
      BY <2>1 DEF ReceiveCompleted, PublishCompleted, PostBenchmark,
                  PostSession, InsertSession, Reply, processVars, unmoved
    <2>2. CASE MatchRun(h) \/ InsertRun(h) \/ InsertBenchmark(h)
      BY <2>2 DEF MatchRun, InsertRun, InsertBenchmark, unmoved
    <2>. QED BY <1>5, <2>1, <2>2 DEF RequestStep
  <1>. QED BY <1>1, <1>2, <1>3, <1>4, <1>5 DEF Next

(* What has been published, stored as a session or acknowledged stays so;  *)
(* what is newly acknowledged is a session or a measurement.               *)
LEMMA HistoryEffect ==
    ASSUME TypeOK, RequestInv, [Next]_vars
    PROVE  /\ done \subseteq done' /\ done' \subseteq Jobs \cup {NoJob}
           /\ sessions' \in [Sessions -> SUBSET (1..MaxSent)]
           /\ \A s \in Sessions : sessions[s] \subseteq sessions'[s]
           /\ acked \subseteq acked' /\ acked' \subseteq 1..MaxSent
           /\ \A n \in acked' \ acked :
                 \/ \E s \in Sessions : n \in sessions'[s]
                 \/ \E h \in Handlers : Measured(h) /\ n = req[h].n
  <1>. USE DEF TypeOK
  <1>1. CASE UNCHANGED vars
    BY <1>1 DEF vars, data
  <1>2. CASE LaunchStep \/ StartStep \/ InterruptStep \/ EndStep
    BY <1>2 DEF LaunchStep, StartStep, InterruptStep, EndStep, data
  <1>3. CASE \E c \in Collections \ {"transcode_runs"} : WriteDuplicate(c)
    BY <1>3 DEF WriteDuplicate
  <1>4. ASSUME NEW h \in Handlers, RequestStep(h)
        PROVE  /\ done \subseteq done' /\ done' \subseteq Jobs \cup {NoJob}
               /\ sessions' \in [Sessions -> SUBSET (1..MaxSent)]
               /\ \A s \in Sessions : sessions[s] \subseteq sessions'[s]
               /\ acked \subseteq acked' /\ acked' \subseteq 1..MaxSent
               /\ \A n \in acked' \ acked :
                     \/ \E s \in Sessions : n \in sessions'[s]
                     \/ Measured(h) /\ n = req[h].n
    <2>0. RequestOk(req[h], done)
      BY DEF RequestInv
    <2>1. CASE ReceiveCompleted(h) \/ PostBenchmark(h) \/ PostSession(h) \/ Reply(h)
      BY <2>1 DEF ReceiveCompleted, PostBenchmark, PostSession, Reply, data
    <2>2. CASE PublishCompleted(h)
      BY <2>0, <2>2 DEF PublishCompleted, data, RequestOk, At
    <2>3. CASE MatchRun(h) \/ InsertRun(h)
      BY <2>3 DEF MatchRun, InsertRun
    <2>4. CASE InsertBenchmark(h)
      <3>1. req[h].n \in 1..MaxSent
        BY <2>0, <2>4 DEF RequestOk, InsertBenchmark, At
      <3>2. acked' # acked => Measured(h) /\ acked' = acked \cup {req[h].n}
        BY <2>4 DEF InsertBenchmark, At, Measured, unmoved
      <3>. QED BY <2>4, <3>1, <3>2 DEF InsertBenchmark
    <2>5. CASE InsertSession(h)
      <3>1. req[h].n \in 1..MaxSent
        BY <2>0, <2>5 DEF RequestOk, InsertSession, At
      <3>2. PICK s \in Sessions :
              /\ \/ UNCHANGED sessions
                 \/ sessions' = [sessions EXCEPT ![s] = @ \cup {req[h].n}]
              /\ \/ UNCHANGED acked
                 \/ /\ acked' = acked \cup {req[h].n}
                    /\ sessions' = [sessions EXCEPT ![s] = @ \cup {req[h].n}]
        BY <2>5 DEF InsertSession
      <3>3. sessions' \in [Sessions -> SUBSET (1..MaxSent)]
        BY <3>1, <3>2
      <3>4. \A t \in Sessions : sessions[t] \subseteq sessions'[t]
        BY <3>2
      <3>5. \A n \in acked' \ acked : n \in sessions'[s]
        BY <3>2
      <3>. QED BY <2>5, <3>1, <3>2, <3>3, <3>4, <3>5 DEF InsertSession
    <2>. QED BY <1>4, <2>1, <2>2, <2>3, <2>4, <2>5 DEF RequestStep
  <1>. QED BY <1>1, <1>2, <1>3, <1>4 DEF Next

-----------------------------------------------------------------------------
(* Requests: each step leaves its own in order, and the others alone. *)

LEMMA MoveRequest ==
    ASSUME RequestInv, NEW h \in Handlers, done \subseteq done',
           \A g \in Handlers \ {h} : req'[g] = req[g],
           RequestOk(req'[h], done')
    PROVE  RequestInv'
  <1>1. ASSUME NEW g \in Handlers \ {h} PROVE RequestOk(req'[g], done')
    BY DEF RequestInv, RequestOk
  <1>. QED BY <1>1 DEF RequestInv

LEMMA IdleRequest ==
    Idle \in Requests /\ Idle.pc = "idle" /\ Idle.status = 0 /\ ~Idle.published
  BY RunsAssumption DEF Idle, Requests, PCs, Statuses

LEMMA PCsAndStatuses ==
    /\ {"publish", "matchRun", "insertRun", "insertBenchmark", "insertSession",
        "replying"} \subseteq PCs
    /\ {202, 400, 500} \subseteq Statuses
  BY DEF PCs, Statuses

(* What the ways to set a request do to it. *)

LEMMA EventEffect ==
    ASSUME req \in [Handlers -> Requests], NEW h \in Handlers, Idle \in Requests,
           sent' \in 0..MaxSent, NEW j \in JobIds \cup {NoJob},
           req' = [req EXCEPT ![h] = [Idle EXCEPT !.pc = "publish", !.n = sent', !.job = j]]
    PROVE  /\ req' \in [Handlers -> Requests]
           /\ \A g \in Handlers \ {h} : req'[g] = req[g]
           /\ req'[h].pc = "publish" /\ req'[h].n = sent' /\ req'[h].job = j
           /\ req'[h].status = Idle.status /\ req'[h].published = Idle.published
  <1>1. "publish" \in PCs
    BY PCsAndStatuses
  <1>2. /\ [Idle EXCEPT !.pc = "publish", !.n = sent', !.job = j] \in Requests
        /\ [Idle EXCEPT !.pc = "publish", !.n = sent', !.job = j].pc = "publish"
        /\ [Idle EXCEPT !.pc = "publish", !.n = sent', !.job = j].n = sent'
        /\ [Idle EXCEPT !.pc = "publish", !.n = sent', !.job = j].job = j
        /\ [Idle EXCEPT !.pc = "publish", !.n = sent', !.job = j].status = Idle.status
        /\ [Idle EXCEPT !.pc = "publish", !.n = sent', !.job = j].published = Idle.published
    BY <1>1 DEF Requests
  <1>. QED BY <1>2

LEMMA BenchmarkEffect ==
    ASSUME req \in [Handlers -> Requests], NEW h \in Handlers, Idle \in Requests,
           sent' \in 0..MaxSent, NEW j \in JobIds \cup {NoJob},
           req' = [req EXCEPT ![h] = [Idle EXCEPT !.pc = "insertBenchmark", !.n = sent', !.job = j]]
    PROVE  /\ req' \in [Handlers -> Requests]
           /\ \A g \in Handlers \ {h} : req'[g] = req[g]
           /\ req'[h].pc = "insertBenchmark" /\ req'[h].n = sent' /\ req'[h].job = j
           /\ req'[h].status = Idle.status /\ req'[h].published = Idle.published
  <1>1. "insertBenchmark" \in PCs
    BY PCsAndStatuses
  <1>2. /\ [Idle EXCEPT !.pc = "insertBenchmark", !.n = sent', !.job = j] \in Requests
        /\ [Idle EXCEPT !.pc = "insertBenchmark", !.n = sent', !.job = j].pc = "insertBenchmark"
        /\ [Idle EXCEPT !.pc = "insertBenchmark", !.n = sent', !.job = j].n = sent'
        /\ [Idle EXCEPT !.pc = "insertBenchmark", !.n = sent', !.job = j].job = j
        /\ [Idle EXCEPT !.pc = "insertBenchmark", !.n = sent', !.job = j].status = Idle.status
        /\ [Idle EXCEPT !.pc = "insertBenchmark", !.n = sent', !.job = j].published = Idle.published
    BY <1>1 DEF Requests
  <1>. QED BY <1>2

LEMMA RefuseEffect ==
    ASSUME req \in [Handlers -> Requests], NEW h \in Handlers, Idle \in Requests,
           sent' \in 0..MaxSent, req' = [req EXCEPT ![h] = [Idle EXCEPT !.pc = "replying", !.n = sent', !.status = 400]]
    PROVE  /\ req' \in [Handlers -> Requests]
           /\ \A g \in Handlers \ {h} : req'[g] = req[g]
           /\ req'[h].pc = "replying" /\ req'[h].n = sent'
           /\ req'[h].status = 400 /\ req'[h].published = Idle.published
  <1>1. "replying" \in PCs /\ 400 \in Statuses
    BY PCsAndStatuses
  <1>2. /\ [Idle EXCEPT !.pc = "replying", !.n = sent', !.status = 400] \in Requests
        /\ [Idle EXCEPT !.pc = "replying", !.n = sent', !.status = 400].pc = "replying"
        /\ [Idle EXCEPT !.pc = "replying", !.n = sent', !.status = 400].n = sent'
        /\ [Idle EXCEPT !.pc = "replying", !.n = sent', !.status = 400].status = 400
        /\ [Idle EXCEPT !.pc = "replying", !.n = sent', !.status = 400].published = Idle.published
    BY <1>1 DEF Requests
  <1>. QED BY <1>2

LEMMA SessionEffect ==
    ASSUME req \in [Handlers -> Requests], NEW h \in Handlers, NEW n \in 0..MaxSent,
           NEW pc \in PCs, Idle \in Requests,
           req' = [req EXCEPT ![h] = [Idle EXCEPT !.pc = pc, !.n = n]]
    PROVE  /\ req' \in [Handlers -> Requests]
           /\ \A g \in Handlers \ {h} : req'[g] = req[g]
           /\ req'[h].pc = pc /\ req'[h].n = n
           /\ req'[h].status = Idle.status /\ req'[h].published = Idle.published
  <1>1. /\ [Idle EXCEPT !.pc = pc, !.n = n] \in Requests
        /\ [Idle EXCEPT !.pc = pc, !.n = n].pc = pc
        /\ [Idle EXCEPT !.pc = pc, !.n = n].n = n
        /\ [Idle EXCEPT !.pc = pc, !.n = n].status = Idle.status
        /\ [Idle EXCEPT !.pc = pc, !.n = n].published = Idle.published
    BY DEF Requests
  <1>. QED BY <1>1

LEMMA AnswerEffect ==
    ASSUME req \in [Handlers -> Requests], NEW h \in Handlers, NEW s \in Statuses,
           Answer(h, s)
    PROVE  /\ req' \in [Handlers -> Requests]
           /\ \A g \in Handlers \ {h} : req'[g] = req[g]
           /\ req'[h].pc = "replying" /\ req'[h].n = req[h].n
           /\ req'[h].status = s /\ req'[h].published = req[h].published
  <1>1. "replying" \in PCs
    BY PCsAndStatuses
  <1>2. [req[h] EXCEPT !.pc = "replying", !.status = s] \in Requests
    BY <1>1 DEF Requests
  <1>3. req' = [req EXCEPT ![h] = [req[h] EXCEPT !.pc = "replying", !.status = s]]
    BY DEF Answer
  <1>4. /\ [req[h] EXCEPT !.pc = "replying", !.status = s].pc = "replying"
        /\ [req[h] EXCEPT !.pc = "replying", !.status = s].n = req[h].n
        /\ [req[h] EXCEPT !.pc = "replying", !.status = s].status = s
        /\ [req[h] EXCEPT !.pc = "replying", !.status = s].published = req[h].published
    BY DEF Requests
  <1>. QED BY <1>2, <1>3, <1>4

LEMMA GotoEffect ==
    ASSUME req \in [Handlers -> Requests], NEW h \in Handlers, NEW pc \in PCs,
           Goto(h, pc)
    PROVE  /\ req' \in [Handlers -> Requests]
           /\ \A g \in Handlers \ {h} : req'[g] = req[g]
           /\ req'[h].pc = pc /\ req'[h].n = req[h].n /\ req'[h].job = req[h].job
           /\ req'[h].status = req[h].status /\ req'[h].published = req[h].published
  BY DEF Goto, Requests

LEMMA PublishedEffect ==
    ASSUME req \in [Handlers -> Requests], NEW h \in Handlers, NEW pc \in PCs,
           req' = [req EXCEPT ![h].pc = pc, ![h].published = TRUE]
    PROVE  /\ req' \in [Handlers -> Requests]
           /\ \A g \in Handlers \ {h} : req'[g] = req[g]
           /\ req'[h].pc = pc /\ req'[h].n = req[h].n /\ req'[h].job = req[h].job
           /\ req'[h].status = req[h].status /\ req'[h].published
  <1>1. [req[h] EXCEPT !.pc = pc, !.published = TRUE] \in Requests
    BY DEF Requests
  <1>2. req' = [req EXCEPT ![h] = [req[h] EXCEPT !.pc = pc, !.published = TRUE]]
    OBVIOUS
  <1>3. /\ [req[h] EXCEPT !.pc = pc, !.published = TRUE].pc = pc
        /\ [req[h] EXCEPT !.pc = pc, !.published = TRUE].n = req[h].n
        /\ [req[h] EXCEPT !.pc = pc, !.published = TRUE].job = req[h].job
        /\ [req[h] EXCEPT !.pc = pc, !.published = TRUE].status = req[h].status
        /\ [req[h] EXCEPT !.pc = pc, !.published = TRUE].published
    BY DEF Requests
  <1>. QED BY <1>1, <1>2, <1>3

(* A request of its own is answered, or goes on with the upsert. *)

LEMMA Answered ==
    ASSUME TypeOK, RequestInv, NEW h \in Handlers, done \subseteq done',
           req[h].pc # "idle", NEW s \in {202, 500},
           s = 500 => ~req[h].published, Answer(h, s)
    PROVE  RequestInv' /\ req' \in [Handlers -> Requests]
  <1>1. req \in [Handlers -> Requests] /\ s \in Statuses
    BY PCsAndStatuses DEF TypeOK
  <1>2. /\ req' \in [Handlers -> Requests]
        /\ \A g \in Handlers \ {h} : req'[g] = req[g]
        /\ req'[h].pc = "replying" /\ req'[h].n = req[h].n
        /\ req'[h].status = s /\ req'[h].published = req[h].published
    BY <1>1, AnswerEffect
  <1>3. req[h].n \in 1..MaxSent
    BY DEF RequestInv, RequestOk
  <1>4. RequestOk(req'[h], done')
    BY <1>2, <1>3 DEF RequestOk
  <1>. QED BY <1>2, <1>4, MoveRequest

LEMMA Continued ==
    ASSUME TypeOK, RequestInv, NEW h \in Handlers, done \subseteq done',
           req[h].pc \in {"matchRun", "insertRun"}, req[h].job # NoJob,
           NEW pc \in {"matchRun", "insertRun"}, Goto(h, pc)
    PROVE  RequestInv' /\ req' \in [Handlers -> Requests]
  <1>1. req \in [Handlers -> Requests] /\ pc \in PCs
    BY PCsAndStatuses DEF TypeOK
  <1>2. /\ req' \in [Handlers -> Requests]
        /\ \A g \in Handlers \ {h} : req'[g] = req[g]
        /\ req'[h].pc = pc /\ req'[h].n = req[h].n /\ req'[h].job = req[h].job
        /\ req'[h].status = req[h].status /\ req'[h].published = req[h].published
    BY <1>1, GotoEffect
  <1>3. RequestOk(req[h], done)
    BY DEF RequestInv
  <1>4. RequestOk(req'[h], done')
    BY <1>2, <1>3 DEF RequestOk
  <1>. QED BY <1>2, <1>4, MoveRequest

LEMMA RequestsKept ==
    ASSUME TypeOK, RequestInv, [Next]_vars
    PROVE  RequestInv' /\ req' \in [Handlers -> Requests] /\ sent' \in 0..MaxSent
  <1>0. /\ done \subseteq done'
        /\ sent \in Nat /\ sent \in 0..MaxSent /\ MaxSent \in Nat
        /\ req \in [Handlers -> Requests]
    BY HistoryEffect, RunsAssumption DEF TypeOK
  <1>1. CASE UNCHANGED vars
    BY <1>0, <1>1 DEF vars, RequestInv
  <1>2. CASE LaunchStep \/ StartStep \/ InterruptStep
             \/ \E c \in Collections \ {"transcode_runs"} : WriteDuplicate(c)
    BY <1>0, <1>2 DEF LaunchStep, StartStep, InterruptStep, WriteDuplicate, RequestInv
  <1>3. CASE EndStep
    <2>1. RequestOk(Idle, done')
      BY IdleRequest DEF RequestOk
    <2>2. req' = [h \in Handlers |-> Idle] /\ sent' = sent
      BY <1>3 DEF EndStep
    <2>. QED BY <1>0, <2>1, <2>2, IdleRequest DEF RequestInv
  <1>4. ASSUME NEW h \in Handlers, Receive(h),
               ReceiveCompleted(h) \/ PostBenchmark(h) \/ PostSession(h)
        PROVE  RequestInv' /\ req' \in [Handlers -> Requests] /\ sent' \in 0..MaxSent
    <2>0. sent' \in 0..MaxSent /\ sent' \in 1..MaxSent
      BY <1>0, <1>4 DEF Receive
    <2>. SUFFICES /\ req' \in [Handlers -> Requests]
                  /\ \A g \in Handlers \ {h} : req'[g] = req[g]
                  /\ RequestOk(req'[h], done')
      BY <1>0, <2>0, MoveRequest
    <2>1. CASE ReceiveCompleted(h)
      <3>1. PICK j \in Jobs \cup {NoJob} : req' = [req EXCEPT ![h] =
                [Idle EXCEPT !.pc = "publish", !.n = sent', !.job = j]]
        BY <2>1 DEF ReceiveCompleted
      <3>2. j \in JobIds \cup {NoJob} /\ "publish" \in PCs
        BY PCsAndStatuses DEF JobIds
      <3>3. /\ req' \in [Handlers -> Requests]
            /\ \A g \in Handlers \ {h} : req'[g] = req[g]
            /\ req'[h].pc = "publish" /\ req'[h].n = sent' /\ req'[h].job = j
            /\ req'[h].status = Idle.status /\ req'[h].published = Idle.published
        BY <1>0, <2>0, <3>1, <3>2, IdleRequest, EventEffect
      <3>. QED BY <2>0, <3>3, IdleRequest DEF RequestOk
    <2>2. CASE PostBenchmark(h)
      <3>1. CASE \E j \in Jobs \cup {NoJob} : req' = [req EXCEPT ![h] =
                [Idle EXCEPT !.pc = "insertBenchmark", !.n = sent',
                             !.job = IF j = NoJob THEN sent' ELSE j]]
        <4>1. PICK j \in JobIds : req' = [req EXCEPT ![h] =
                [Idle EXCEPT !.pc = "insertBenchmark", !.n = sent', !.job = j]]
          BY <2>0, <3>1 DEF JobIds
        <4>2. j \in JobIds \cup {NoJob}
          OBVIOUS
        <4>3. /\ req' \in [Handlers -> Requests]
              /\ \A g \in Handlers \ {h} : req'[g] = req[g]
              /\ req'[h].pc = "insertBenchmark" /\ req'[h].n = sent' /\ req'[h].job = j
              /\ req'[h].status = Idle.status /\ req'[h].published = Idle.published
          BY <1>0, <2>0, <4>1, <4>2, IdleRequest, BenchmarkEffect
        <4>. QED BY <2>0, <4>3, IdleRequest DEF RequestOk
      <3>2. CASE req' = [req EXCEPT ![h] =
                [Idle EXCEPT !.pc = "replying", !.n = sent', !.status = 400]]
        <4>1. "replying" \in PCs /\ 400 \in Statuses
          BY PCsAndStatuses
        <4>2. /\ req' \in [Handlers -> Requests]
              /\ \A g \in Handlers \ {h} : req'[g] = req[g]
              /\ req'[h].pc = "replying" /\ req'[h].n = sent'
              /\ req'[h].status = 400 /\ req'[h].published = Idle.published
          BY <1>0, <2>0, <3>2, <4>1, IdleRequest, RefuseEffect
        <4>. QED BY <2>0, <4>2, IdleRequest DEF RequestOk
      <3>. QED BY <2>2, <3>1, <3>2 DEF PostBenchmark
    <2>3. CASE PostSession(h)
      <3>1. "insertSession" \in PCs
        BY PCsAndStatuses
      <3>2. req' = [req EXCEPT ![h] = [Idle EXCEPT !.pc = "insertSession", !.n = sent']]
        BY <2>3 DEF PostSession
      <3>3. /\ req' \in [Handlers -> Requests]
            /\ \A g \in Handlers \ {h} : req'[g] = req[g]
            /\ req'[h].pc = "insertSession" /\ req'[h].n = sent'
            /\ req'[h].status = Idle.status /\ req'[h].published = Idle.published
        BY <1>0, <2>0, <3>1, <3>2, IdleRequest, SessionEffect
      <3>. QED BY <2>0, <3>3, IdleRequest DEF RequestOk
    <2>. QED BY <1>4, <2>1, <2>2, <2>3
  <1>5. ASSUME NEW h \in Handlers, RequestStep(h), ~Receive(h)
        PROVE  RequestInv' /\ req' \in [Handlers -> Requests] /\ sent' \in 0..MaxSent
    <2>0. RequestOk(req[h], done)
      BY DEF RequestInv
    <2>1. CASE Reply(h)
      <3>1. RequestOk(Idle, done')
        BY IdleRequest DEF RequestOk
      <3>2. sent' = sent /\ req' = [req EXCEPT ![h] = Idle]
        BY <2>1 DEF Reply
      <3>3. req' \in [Handlers -> Requests] /\ req'[h] = Idle
        BY <1>0, <3>2, IdleRequest
      <3>4. \A g \in Handlers \ {h} : req'[g] = req[g]
        BY <1>0, <3>2
      <3>. QED BY <1>0, <3>1, <3>2, <3>3, <3>4, MoveRequest
    <2>2. CASE PublishCompleted(h)
      <3>1. sent' = sent /\ req[h].pc = "publish" /\ ~req[h].published
        BY <2>0, <2>2 DEF PublishCompleted, At, RequestOk
      <3>2. CASE Answer(h, 500)
        BY <1>0, <3>1, <3>2, Answered
      <3>3. CASE /\ req' = [req EXCEPT ![h].pc = "matchRun", ![h].published = TRUE]
                 /\ done' = done \cup {req[h].job}
        <4>1. "matchRun" \in PCs
          BY PCsAndStatuses
        <4>2. /\ req' \in [Handlers -> Requests]
              /\ \A g \in Handlers \ {h} : req'[g] = req[g]
              /\ req'[h].pc = "matchRun" /\ req'[h].n = req[h].n
              /\ req'[h].job = req[h].job /\ req'[h].status = req[h].status
              /\ req'[h].published
          BY <1>0, <3>3, <4>1, PublishedEffect
        <4>3. RequestOk(req'[h], done')
          BY <2>0, <3>1, <3>3, <4>2 DEF RequestOk
        <4>. QED BY <1>0, <3>1, <4>2, <4>3, MoveRequest
      <3>. QED BY <2>2, <3>2, <3>3 DEF PublishCompleted
    <2>3. CASE MatchRun(h)
      <3>1. sent' = sent /\ req[h].pc = "matchRun"
        BY <2>3 DEF MatchRun, At
      <3>2. CASE Answer(h, 202)
        BY <1>0, <3>1, <3>2, Answered
      <3>3. CASE req[h].job # NoJob /\ Goto(h, "insertRun")
        BY <1>0, <3>1, <3>3, Continued
      <3>. QED BY <2>3, <3>2, <3>3 DEF MatchRun
    <2>4. CASE InsertRun(h)
      <3>1. sent' = sent /\ req[h].pc = "insertRun" /\ req[h].job # NoJob
        BY <2>0, <2>4 DEF InsertRun, At, RequestOk
      <3>2. CASE Answer(h, 202)
        BY <1>0, <3>1, <3>2, Answered
      <3>3. CASE Goto(h, "matchRun")
        BY <1>0, <3>1, <3>3, Continued
      <3>. QED BY <2>4, <3>2, <3>3 DEF InsertRun
    <2>5. CASE InsertBenchmark(h)
      <3>1. sent' = sent /\ req[h].pc = "insertBenchmark" /\ ~req[h].published
        BY <2>0, <2>5 DEF InsertBenchmark, At, RequestOk
      <3>2. Answer(h, 202) \/ Answer(h, 500)
        BY <2>5 DEF InsertBenchmark
      <3>. QED BY <1>0, <3>1, <3>2, Answered
    <2>6. CASE InsertSession(h)
      <3>1. sent' = sent /\ req[h].pc = "insertSession" /\ ~req[h].published
        BY <2>0, <2>6 DEF InsertSession, At, RequestOk
      <3>2. Answer(h, 202) \/ Answer(h, 500)
        BY <2>6 DEF InsertSession
      <3>. QED BY <1>0, <3>1, <3>2, Answered
    <2>. QED BY <1>5, <2>1, <2>2, <2>3, <2>4, <2>5, <2>6
             DEF RequestStep, ReceiveCompleted, PostBenchmark, PostSession
  <1>6. ASSUME NEW h \in Handlers, RequestStep(h), Receive(h)
        PROVE  ReceiveCompleted(h) \/ PostBenchmark(h) \/ PostSession(h)
    <2>1. sent' # sent
      BY <1>0, <1>6 DEF Receive
    <2>. QED BY <1>6, <2>1 DEF RequestStep, PublishCompleted, MatchRun, InsertRun,
                               InsertBenchmark, InsertSession, Reply
  <1>. QED BY <1>1, <1>2, <1>3, <1>4, <1>5, <1>6 DEF Next

-----------------------------------------------------------------------------
(* The process. *)

LEMMA Counters ==
    ASSUME TypeOK
    PROVE  /\ faults \in Nat /\ kills \in Nat /\ tries \in Nat
           /\ MaxFaults \in Nat /\ MaxKills \in Nat /\ Attempts \in Nat /\ Attempts > 0
           /\ Fault => faults' \in 0..MaxFaults
           /\ Fine => faults' \in 0..MaxFaults
           /\ CallFails => faults' \in 0..MaxFaults
  BY StartupAssumption DEF TypeOK, ProcessTypeOK, Fault, Fine, CallFails

LEMMA ProcessKept ==
    ASSUME TypeOK, StartInv, [Next]_vars
    PROVE  ProcessTypeOK' /\ StartInv' /\ dirty' \subseteq Collections \ {"transcode_runs"}
  <1>0. ProcessTypeOK /\ dirty \subseteq Collections \ {"transcode_runs"}
    BY DEF TypeOK
  <1>. USE DEF ProcessTypeOK, StartInv
  <1>1. CASE UNCHANGED vars
    BY <1>0, <1>1 DEF vars, processVars, data
  <1>2. CASE LaunchStep
    BY <1>0, <1>2, Counters DEF LaunchStep, Launch, Phases, data
  <1>3. CASE StartStep
    <2>1. UNCHANGED dirty /\ UNCHANGED kills
      BY <1>3 DEF StartStep, Connect, Dial, CreateMany, data
    <2>2. CASE Connect
      BY <1>0, <2>1, <2>2, Counters DEF Connect, Retry, Phases
    <2>3. CASE Dial
      BY <1>0, <2>1, <2>3, Counters DEF Dial, Retry, Phases
    <2>4. ASSUME NEW c \in Collections, CreateMany(c, Duplicated(c))
          PROVE  /\ phase' \in {"indexing", "dialling"} /\ tries' = tries
                 /\ phase = "indexing" /\ faults' \in 0..MaxFaults
                 /\ todo' \subseteq todo /\ built' \subseteq built \cup {c}
      BY <2>4, Counters DEF CreateMany
    <2>. QED BY <1>0, <1>3, <2>1, <2>2, <2>3, <2>4 DEF StartStep, Phases
  <1>4. CASE InterruptStep
    BY <1>0, <1>4 DEF InterruptStep, Interrupt, Phases, data
  <1>5. CASE EndStep
    BY <1>0, <1>5, Counters DEF EndStep, Exit, Kill, Phases, data
  <1>6. CASE \E c \in Collections \ {"transcode_runs"} : WriteDuplicate(c)
    BY <1>0, <1>6 DEF WriteDuplicate, processVars
  <1>7. ASSUME NEW h \in Handlers, RequestStep(h)
        PROVE  /\ UNCHANGED <<phase, tries, todo, built, kills, dirty>>
               /\ faults' \in 0..MaxFaults
    <2>1. CASE ReceiveCompleted(h) \/ PostBenchmark(h) \/ PostSession(h) \/ Reply(h)
      BY <1>0, <2>1 DEF ReceiveCompleted, PostBenchmark, PostSession, Reply, processVars, data
    <2>2. CASE PublishCompleted(h)
      BY <2>2, Counters DEF PublishCompleted, unmoved, data
    <2>3. CASE MatchRun(h)
      BY <2>3, Counters DEF MatchRun, unmoved
    <2>4. CASE InsertRun(h)
      BY <2>4, Counters DEF InsertRun, unmoved
    <2>5. CASE InsertBenchmark(h)
      BY <2>5, Counters DEF InsertBenchmark, unmoved
    <2>6. CASE InsertSession(h)
      BY <2>6, Counters DEF InsertSession, unmoved
    <2>. QED BY <1>7, <2>1, <2>2, <2>3, <2>4, <2>5, <2>6 DEF RequestStep
  <1>. QED BY <1>0, <1>1, <1>2, <1>3, <1>4, <1>5, <1>6, <1>7 DEF Next

-----------------------------------------------------------------------------
(* The documents. *)

LEMMA RunTyped ==
    ASSUME NEW job \in JobIds, NEW d \in (1..MaxSent) \cup {Event},
           NEW created \in 1..MaxSent, NEW benchmark \in BOOLEAN
    PROVE  Run(job, d, created, benchmark) \in Docs
  BY DEF Run, Docs

(* What an upsert leaves of a document: the event's numbers and, of the    *)
(* document, its job, its time and its view.                               *)
LEMMA UpdatedFields ==
    ASSUME NEW old \in Docs, NEW e, e.job \in JobIds, e.n \in 1..MaxSent
    PROVE  /\ Updated(old, e) \in Docs
           /\ Updated(old, e).job = e.job /\ Updated(old, e).data = Event
           /\ Updated(old, e).created = old.created
           /\ Updated(old, e).benchmark = old.benchmark
  BY DEF Updated, RunFromEvent, Run, Docs

(* The steps of transcode_runs, document by document. *)

Rewrites(i) ==
    /\ DOMAIN runs' = DOMAIN runs
    /\ \A k \in DOMAIN runs : k # i => runs'[k] = runs[k]
    /\ runs'[i].job = runs[i].job /\ runs'[i].data = Event
    /\ runs'[i].created = runs[i].created
    /\ runs'[i].benchmark = runs[i].benchmark
    /\ runs[i].job \in done

Adds(d) ==
    /\ ~DuplicateKey(d.job)
    /\ ~d.benchmark => d.job \in done /\ d.data = Event
    /\ DOMAIN runs' = DOMAIN runs \cup {Len(runs) + 1}
    /\ Len(runs) + 1 \notin DOMAIN runs
    /\ \A k \in DOMAIN runs : runs'[k] = runs[k]
    /\ runs'[Len(runs) + 1] = d

LEMMA RunsStep ==
    ASSUME TypeOK, RequestInv, [Next]_vars
    PROVE  /\ runs' \in Seq(Docs)
           /\ \/ UNCHANGED runs
              \/ /\ UNCHANGED built
                 /\ \/ \E i \in DOMAIN runs : Rewrites(i)
                    \/ \E d \in Docs : Adds(d)
  <1>0. runs \in Seq(Docs) /\ \A h \in Handlers : RequestOk(req[h], done)
    BY DEF TypeOK, RequestInv
  <1>1. CASE UNCHANGED runs
    BY <1>0, <1>1
  <1>2. ASSUME NEW h \in Handlers, Rewritten(h)
        PROVE  /\ runs' \in Seq(Docs) /\ UNCHANGED built
               /\ \E i \in DOMAIN runs : Rewrites(i)
    <2>1. PICK i \in Found(req[h].job) :
              runs' = [runs EXCEPT ![i] = Updated(runs[i], req[h])]
      BY <1>2 DEF Rewritten
    <2>2. /\ i \in DOMAIN runs /\ runs[i] \in Docs /\ runs[i].job = req[h].job
      BY <1>0, <2>1 DEF Found
    <2>3. /\ req[h].job \in JobIds /\ req[h].n \in 1..MaxSent /\ req[h].job \in done
      BY <1>0, <1>2 DEF RequestOk, Rewritten, JobIds
    <2>4. PICK d : d = Updated(runs[i], req[h])
      OBVIOUS
    <2>5. /\ d \in Docs /\ d.job = req[h].job /\ d.data = Event
          /\ d.created = runs[i].created /\ d.benchmark = runs[i].benchmark
      BY <2>2, <2>3, <2>4, UpdatedFields
    <2>6. runs' = [runs EXCEPT ![i] = d]
      BY <2>1, <2>4
    <2>7. /\ runs' \in Seq(Docs) /\ DOMAIN runs' = DOMAIN runs /\ runs'[i] = d
          /\ \A k \in DOMAIN runs : k # i => runs'[k] = runs[k]
      BY <1>0, <2>2, <2>5, <2>6, ReplaceRun
    <2>. QED BY <1>2, <2>2, <2>3, <2>5, <2>7 DEF Rewrites, Rewritten
  <1>3. ASSUME NEW d \in Docs, runs' = Append(runs, d), ~DuplicateKey(d.job),
               ~d.benchmark => d.job \in done /\ d.data = Event
        PROVE  runs' \in Seq(Docs) /\ Adds(d)
    <2>1. /\ Append(runs, d) \in Seq(Docs)
          /\ DOMAIN Append(runs, d) = DOMAIN runs \cup {Len(runs) + 1}
          /\ Len(runs) + 1 \notin DOMAIN runs
          /\ \A k \in DOMAIN runs : Append(runs, d)[k] = runs[k]
          /\ Append(runs, d)[Len(runs) + 1] = d
      BY <1>0, AppendRun
    <2>. QED BY <1>3, <2>1 DEF Adds
  <1>4. ASSUME NEW h \in Handlers, Recorded(h)
        PROVE  /\ runs' \in Seq(Docs) /\ UNCHANGED built
               /\ \E d \in Docs : Adds(d)
    <2>1. /\ req[h].job \in JobIds /\ req[h].n \in 1..MaxSent /\ req[h].job \in done
      BY <1>0, <1>4 DEF RequestOk, Recorded, JobIds
    <2>2. PICK d : d = Run(req[h].job, Event, req[h].n, FALSE)
      OBVIOUS
    <2>3. d \in Docs /\ d.job = req[h].job /\ d.data = Event
      <3>1. d \in Docs
        BY <2>1, <2>2, RunTyped
      <3>. QED BY <2>2, <3>1 DEF Run
    <2>4. runs' = Append(runs, d) /\ ~DuplicateKey(d.job)
      BY <1>4, <2>2, <2>3 DEF Recorded, RunFromEvent
    <2>. QED BY <1>3, <1>4, <2>1, <2>3, <2>4 DEF Recorded
  <1>5. ASSUME NEW h \in Handlers, Measured(h)
        PROVE  /\ runs' \in Seq(Docs) /\ UNCHANGED built
               /\ \E d \in Docs : Adds(d)
    <2>1. req[h].job \in JobIds /\ req[h].n \in 1..MaxSent
      BY <1>0, <1>5 DEF RequestOk, Measured
    <2>2. PICK d : d = Run(req[h].job, req[h].n, req[h].n, TRUE)
      OBVIOUS
    <2>3. d \in Docs /\ d.job = req[h].job /\ d.benchmark
      <3>1. d \in Docs
        BY <2>1, <2>2, RunTyped
      <3>. QED BY <2>2, <3>1 DEF Run
    <2>4. runs' = Append(runs, d) /\ ~DuplicateKey(d.job)
      BY <1>5, <2>2, <2>3 DEF Measured
    <2>. QED BY <1>3, <1>5, <2>3, <2>4 DEF Measured
  <1>. QED BY <1>1, <1>2, <1>4, <1>5, RunsEffect

LEMMA DocsKept ==
    ASSUME TypeOK, RequestInv, DocInv, [Next]_vars
    PROVE  DocInv'
  <1>1. done \subseteq done'
    BY HistoryEffect
  <1>2. CASE UNCHANGED runs
    BY <1>1, <1>2 DEF DocInv
  <1>3. ASSUME NEW i \in DOMAIN runs, Rewrites(i) PROVE DocInv'
    BY <1>1, <1>3 DEF DocInv, Rewrites
  <1>4. ASSUME NEW d \in Docs, Adds(d) PROVE DocInv'
    BY <1>1, <1>4 DEF DocInv, Adds
  <1>. QED BY <1>2, <1>3, <1>4, RunsStep

LEMMA UniqueKept ==
    ASSUME TypeOK, RequestInv, IndexedIsUnique, [Next]_vars
    PROVE  IndexedIsUnique'
  <1>. USE DEF IndexedIsUnique, UniqueJobs
  <1>1. CASE UNCHANGED runs
    BY <1>1, BuiltEffect DEF Duplicated
  <1>2. ASSUME NEW i \in DOMAIN runs, Rewrites(i), UNCHANGED built
        PROVE  IndexedIsUnique'
    BY <1>2 DEF Rewrites
  <1>3. ASSUME NEW d \in Docs, Adds(d), UNCHANGED built
        PROVE  IndexedIsUnique'
    BY <1>3 DEF Adds, DuplicateKey, Found
  <1>. QED BY <1>1, <1>2, <1>3, RunsStep

LEMMA Views ==
    /\ Listed("true") = {i \in DOMAIN runs : runs[i].benchmark}
    /\ Listed("false") = {i \in DOMAIN runs : ~runs[i].benchmark}
  BY DEF Listed

(* A measurement that was acknowledged has its document.                   *)
Kept(n) ==
    \/ \E s \in Sessions : n \in sessions[s]
    \/ \E i \in DOMAIN runs :
          /\ runs[i].benchmark /\ runs[i].created = n
          /\ runs[i].data = n \/ runs[i].job \in done

LEMMA KeptStep ==
    ASSUME TypeOK, RequestInv, [Next]_vars, NEW n, Kept(n)
    PROVE  Kept(n)'
  <1>1. done \subseteq done' /\ \A s \in Sessions : sessions[s] \subseteq sessions'[s]
    BY HistoryEffect
  <1>2. CASE \E s \in Sessions : n \in sessions[s]
    BY <1>1, <1>2 DEF Kept
  <1>3. ASSUME NEW i \in DOMAIN runs, runs[i].benchmark, runs[i].created = n,
               runs[i].data = n \/ runs[i].job \in done
        PROVE  Kept(n)'
    <2>1. CASE UNCHANGED runs
      BY <1>1, <1>3, <2>1 DEF Kept
    <2>2. ASSUME NEW k \in DOMAIN runs, Rewrites(k) PROVE Kept(n)'
      <3>1. CASE k = i
        BY <1>1, <1>3, <2>2, <3>1 DEF Kept, Rewrites
      <3>2. CASE k # i
        BY <1>1, <1>3, <2>2, <3>2 DEF Kept, Rewrites
      <3>. QED BY <3>1, <3>2
    <2>3. ASSUME NEW d \in Docs, Adds(d) PROVE Kept(n)'
      BY <1>1, <1>3, <2>3 DEF Kept, Adds
    <2>. QED BY <2>1, <2>2, <2>3, RunsStep
  <1>. QED BY <1>2, <1>3 DEF Kept

LEMMA AcksKept ==
    ASSUME TypeOK, RequestInv, AcknowledgedIsKept, [Next]_vars
    PROVE  AcknowledgedIsKept'
  <1>1. AcknowledgedIsKept <=> \A n \in acked : Kept(n)
    BY Views DEF AcknowledgedIsKept, Kept
  <1>2. AcknowledgedIsKept' <=> \A n \in acked' : Kept(n)'
    <2>1. Listed("true")' = {i \in DOMAIN runs' : runs'[i].benchmark}
      BY DEF Listed
    <2>. QED BY <2>1 DEF AcknowledgedIsKept, Kept
  <1>3. ASSUME NEW n \in acked PROVE Kept(n)'
    BY <1>1, <1>3, KeptStep
  <1>4. ASSUME NEW h \in Handlers, Measured(h), NEW n, n = req[h].n PROVE Kept(n)'
    <2>1. RequestOk(req[h], done) /\ runs \in Seq(Docs)
      BY DEF RequestInv, TypeOK
    <2>2. req[h].job \in JobIds /\ req[h].n \in 1..MaxSent
      BY <1>4, <2>1 DEF RequestOk, Measured
    <2>3. PICK d : d = Run(req[h].job, req[h].n, req[h].n, TRUE)
      OBVIOUS
    <2>4. d \in Docs
      BY <2>2, <2>3, RunTyped
    <2>5. d.benchmark /\ d.created = req[h].n /\ d.data = req[h].n
      BY <2>3, <2>4 DEF Run
    <2>6. runs' = Append(runs, d)
      BY <1>4, <2>3 DEF Measured
    <2>7. Len(runs) + 1 \in DOMAIN runs' /\ runs'[Len(runs) + 1] = d
      BY <2>1, <2>4, <2>6, AppendRun
    <2>. QED BY <1>4, <2>5, <2>7 DEF Kept
  <1>5. ASSUME NEW n \in acked' \ acked PROVE Kept(n)'
    <2>1. CASE \E s \in Sessions : n \in sessions'[s]
      BY <2>1 DEF Kept
    <2>2. CASE \E h \in Handlers : Measured(h) /\ n = req[h].n
      BY <1>4, <2>2
    <2>. QED BY <1>5, <2>1, <2>2, HistoryEffect
  <1>. QED BY <1>2, <1>3, <1>5

-----------------------------------------------------------------------------
LEMMA InitInv == Init => RunsInv
  <1>. SUFFICES ASSUME Init PROVE RunsInv
    OBVIOUS
  <1>1. TypeOK /\ StartInv
    BY StartupAssumption, RunsAssumption, IdleRequest
    DEF Init, ProcessInit, TypeOK, ProcessTypeOK, StartInv, Phases
  <1>2. RequestInv
    BY IdleRequest DEF Init, RequestInv, RequestOk
  <1>3. DocInv /\ IndexedIsUnique /\ AcknowledgedIsKept
    BY DEF Init, DocInv, IndexedIsUnique, UniqueJobs, AcknowledgedIsKept
  <1>. QED BY <1>1, <1>2, <1>3 DEF RunsInv

LEMMA NextInv == RunsInv /\ [Next]_vars => RunsInv'
  <1>. SUFFICES ASSUME RunsInv, [Next]_vars PROVE RunsInv'
    OBVIOUS
  <1>0. TypeOK /\ StartInv /\ RequestInv /\ DocInv /\ IndexedIsUnique /\ AcknowledgedIsKept
    BY DEF RunsInv
  <1>1. TypeOK'
    <2>1. ProcessTypeOK' /\ dirty' \subseteq Collections \ {"transcode_runs"}
      BY <1>0, ProcessKept
    <2>2. runs' \in Seq(Docs)
      BY <1>0, RunsStep
    <2>3. req' \in [Handlers -> Requests] /\ sent' \in 0..MaxSent
      BY <1>0, RequestsKept
    <2>4. /\ sessions' \in [Sessions -> SUBSET (1..MaxSent)]
          /\ done' \subseteq Jobs \cup {NoJob} /\ acked' \subseteq 1..MaxSent
      BY <1>0, HistoryEffect
    <2>. QED BY <2>1, <2>2, <2>3, <2>4 DEF TypeOK
  <1>2. StartInv'
    BY <1>0, ProcessKept
  <1>3. RequestInv'
    BY <1>0, RequestsKept
  <1>4. DocInv' /\ IndexedIsUnique' /\ AcknowledgedIsKept'
    BY <1>0, DocsKept, UniqueKept, AcksKept
  <1>. QED BY <1>1, <1>2, <1>3, <1>4 DEF RunsInv

(* The invariant the others follow from. *)
THEOREM RunsInvariant == Spec => []RunsInv
  BY InitInv, NextInv, PTL DEF Spec

(* Every variable keeps its type; no run lacks a job id                    *)
(* (runs/service.go:32-35, 24-26).                                         *)
THEOREM RunsTypes == Spec => []TypeOK
  <1>1. RunsInv => TypeOK
    BY DEF RunsInv
  <1>. QED BY <1>1, RunsInvariant, PTL

(* Once built, the unique index on job_id leaves one run per job, whatever *)
(* the writers, the faults and the later starts do (mongoindex).           *)
THEOREM RunsAreUnique == Spec => []IndexedIsUnique
  <1>1. RunsInv => IndexedIsUnique
    BY DEF RunsInv
  <1>. QED BY <1>1, RunsInvariant, PTL

(* A measurement or a session that was answered 202 keeps its document     *)
(* (runs/repository.go:131-145, sessions/repository.go:66-73).             *)
THEOREM MeasurementsAreKept == Spec => []AcknowledgedIsKept
  <1>1. RunsInv => AcknowledgedIsKept
    BY DEF RunsInv
  <1>. QED BY <1>1, RunsInvariant, PTL

(* A production run is that of a published event: the run is written after *)
(* the publish (events/service.go:61-74).                                  *)
THEOREM RunsFollowPublishes == Spec => []RunsWerePublished
  <1>1. RunsInv => RunsWerePublished
    BY Views DEF RunsInv, DocInv, RunsWerePublished
  <1>. QED BY <1>1, RunsInvariant, PTL

(* A published event is not answered with an error (events/service.go:66). *)
THEOREM PublishedAreAccepted == Spec => []PublishedIsAccepted
  <1>1. RunsInv => PublishedIsAccepted
    BY DEF RunsInv, RequestInv, RequestOk, PublishedIsAccepted
  <1>. QED BY <1>1, RunsInvariant, PTL

(* No step changes a production run (docs/transcode-runs.md, Idempotency). *)
THEOREM ProductionIsFinal == Spec => ProductionRunsAreFinal
  <1>1. ASSUME RunsInv, [Next]_vars
        PROVE  [\A i \in Listed("false") : i \in DOMAIN runs' /\ runs'[i] = runs[i]]_runs
    <2>0. TypeOK /\ RequestInv /\ DocInv /\ runs \in Seq(Docs)
      BY <1>1 DEF RunsInv, TypeOK
    <2>. SUFFICES ASSUME NEW i \in DOMAIN runs, ~runs[i].benchmark, runs' # runs
                  PROVE  i \in DOMAIN runs' /\ runs'[i] = runs[i]
      BY Views
    <2>1. ASSUME NEW k \in DOMAIN runs, Rewrites(k)
          PROVE  i \in DOMAIN runs' /\ runs'[i] = runs[i]
      <3>1. runs' \in Seq(Docs)
        BY <1>1, <2>0, RunsStep
      <3>2. CASE k = i
        <4>1. runs[i].data = Event
          BY <2>0 DEF DocInv
        <4>2. runs[i] \in Docs /\ runs'[i] \in Docs
          BY <2>0, <2>1, <3>1 DEF Rewrites
        <4>3. /\ runs'[i].job = runs[i].job /\ runs'[i].data = runs[i].data
              /\ runs'[i].created = runs[i].created
              /\ runs'[i].benchmark = runs[i].benchmark
          BY <2>1, <3>2, <4>1 DEF Rewrites
        <4>. QED BY <2>1, <4>2, <4>3 DEF Docs, Rewrites
      <3>3. CASE k # i
        BY <2>1, <3>3 DEF Rewrites
      <3>. QED BY <3>2, <3>3
    <2>2. ASSUME NEW d \in Docs, Adds(d)
          PROVE  i \in DOMAIN runs' /\ runs'[i] = runs[i]
      BY <2>2 DEF Adds
    <2>. QED BY <1>1, <2>0, <2>1, <2>2, RunsStep
  <1>. QED BY <1>1, RunsInvariant, PTL DEF Spec, ProductionRunsAreFinal

(* A run stays in the view, benchmark or production, that it began in      *)
(* (runs/repository.go:116-134).                                           *)
THEOREM RunsKeepTheirView == Spec => ViewsAreStable
  <1>1. ASSUME RunsInv, [Next]_vars
        PROVE  [/\ Listed("true") \subseteq Listed("true")'
                /\ Listed("false") \subseteq Listed("false")']_runs
    <2>0. TypeOK /\ RequestInv
      BY <1>1 DEF RunsInv
    <2>1. /\ Listed("true")' = {i \in DOMAIN runs' : runs'[i].benchmark}
          /\ Listed("false")' = {i \in DOMAIN runs' : ~runs'[i].benchmark}
      BY DEF Listed
    <2>2. CASE \E i \in DOMAIN runs : Rewrites(i)
      BY <2>1, <2>2, Views DEF Rewrites
    <2>3. CASE \E d \in Docs : Adds(d)
      BY <2>1, <2>3, Views DEF Adds
    <2>. QED BY <1>1, <2>0, <2>2, <2>3, RunsStep
  <1>. QED BY <1>1, RunsInvariant, PTL DEF Spec, ViewsAreStable
=============================================================================
