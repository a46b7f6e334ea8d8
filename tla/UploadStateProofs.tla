--------------------------- MODULE UploadStateProofs --------------------------
(***************************************************************************)
(* Theorems about UploadState, for any handlers, sessions, videos, patches *)
(* and bounds, and for any overlapping of saves.                           *)
(*                                                                         *)
(* The properties compare what is stored with the saves that were over     *)
(* when another began.  They hold because a save in flight is in no such   *)
(* set (SaverOk), so whatever it writes is never one of those.             *)
(***************************************************************************)
EXTENDS UploadState, TLAPS

Stored(v) == videos[v] # NoDoc
There(v)  == Stored(v) \/ v \in deleted

(* What is stored of v is not of a save that was over before save n began. *)
Current(v, n) == Stored(v) => videos[v].rev \notin after[n]

(* What the documents are to one another and to the saves answered.        *)
SessionOk(s) ==
    /\ \A n \in ackedSession[s] :
          n \in 1..rev /\ sessions[s] # NoDoc /\ sessions[s] \notin after[n]
    /\ sessions[s] # NoDoc =>
          /\ sessions[s] \in 1..rev /\ There(VideoOf[s])
          /\ \A n \in 1..rev : n = sessions[s] => Current(VideoOf[s], n)

VideoOk(v) ==
    /\ Stored(v) => videos[v].rev \in 1..rev /\ v \notin deleted
    /\ \A n \in ackedVideo[v] : n \in 1..rev /\ Current(v, n) /\ There(v)

DocInv ==
    /\ \A n \in Saves : after[n] \subseteq 1..rev
    /\ \A s \in Sessions : SessionOk(s)
    /\ \A v \in Videos : VideoOk(v)

(* What a request may count on at each of its calls.  A save that is not   *)
(* over is after no other.                                                 *)
SaverOk(h) ==
    LET r == req[h]
    IN  /\ r.video \in Videos /\ r.rev \in 1..rev
        /\ r.session # NoSession => r.session \in Sessions /\ r.video = VideoOf[r.session]
        /\ \A n \in Saves : r.rev \notin after[n]
        /\ r.pc = "saveSession" =>
              r.session # NoSession /\ Current(r.video, r.rev) /\ There(r.video)

ReaderOk(h) ==
    LET r == req[h]
    IN  /\ r.session \in Sessions /\ r.video = VideoIdOf[r.session]
        /\ r.pc = "getVideo" =>
              r.rev \in 1..rev /\ (r.session \in Agreeing => Current(r.video, r.rev))

Fulfils(h) ==
    /\ Stored(req[h].video)
    /\ \A f \in due[h] : videos[req[h].video].fields[f] = req[h].patch[f]

PatcherOk(h) ==
    /\ req[h].session = NoSession /\ req[h].video \in Videos
    /\ h \in kept => req[h].pc = "readPatched" /\ Fulfils(h)

AnswerOk(h) ==
    LET r == req[h]
    IN  /\ r.status = 200 /\ r.session # NoSession =>
              r.rev \in 1..rev /\ (r.session \in Agreeing => r.seen.rev \notin after[r.rev])
        /\ h \in kept =>
              \/ r.status = 500
              \/ r.status = 200 /\ \A f \in due[h] : r.seen.fields[f] = r.patch[f]

RequestOk(h) ==
    LET pc == req[h].pc
    IN  /\ pc \in {"saveVideo", "saveSession"} => SaverOk(h)
        /\ pc \in {"getSession", "getVideo"} => ReaderOk(h)
        /\ pc \in {"patch", "readPatched"} => PatcherOk(h)
        /\ pc = "answered" => AnswerOk(h)
        /\ pc \notin {"patch", "readPatched", "answered"} => h \notin kept

RequestInv == \A h \in Handlers : RequestOk(h)

UploadStateInv == TypeOK /\ DocInv /\ RequestInv

-----------------------------------------------------------------------------
(* What the writes do to the videos. *)

LEMMA SavesAreNumbers == Saves \subseteq Nat /\ \A n \in Saves : n # NoDoc
  BY UploadStateAssumption DEF Saves

LEMMA DocIsADoc ==
    \A d \in VideoDoc : d # NoDoc /\ d.rev \in Saves /\ d.fields \in [Fields -> Values]
  <1>. SUFFICES ASSUME NEW d \in VideoDoc
                PROVE  d # NoDoc /\ d.rev \in Saves /\ d.fields \in [Fields -> Values]
    OBVIOUS
  <1>1. d \in [rev : Nat, fields : [Fields -> Values]]
    BY SavesAreNumbers DEF VideoDoc
  <1>. QED BY <1>1, UploadStateAssumption DEF VideoDoc

LEMMA SetVideoEffect ==
    ASSUME videos \in [Videos -> VideoDoc \cup {NoDoc}],
           NEW v \in Videos, NEW r \in Saves, SetVideo(v, r)
    PROVE  /\ videos' \in [Videos -> VideoDoc \cup {NoDoc}]
           /\ videos'[v] # NoDoc /\ videos'[v].rev = r
           /\ videos[v] # NoDoc =>
                 \A f \in Fields \ SavedFields : videos'[v].fields[f] = videos[v].fields[f]
           /\ \A w \in Videos \ {v} : videos'[w] = videos[w]
           /\ deleted' = deleted \ {v} /\ due' = Overwritten(v, SavedFields)
  <1> DEFINE val(f) == IF f \in SavedFields THEN "sent"
                       ELSE IF videos[v] = NoDoc THEN "null" ELSE videos[v].fields[f]
             F == [f \in Fields |-> val(f)]
             d == [rev |-> r, fields |-> F]
  <1>1. ASSUME NEW f \in Fields PROVE val(f) \in Values
    <2>1. videos[v] # NoDoc => videos[v].fields \in [Fields -> Values]
      BY DocIsADoc
    <2>. QED BY <2>1 DEF Values
  <1>2. /\ F \in [Fields -> Values]
        /\ videos[v] # NoDoc =>
              \A f \in Fields \ SavedFields : F[f] = videos[v].fields[f]
    BY <1>1
  <1>3. videos' = [videos EXCEPT ![v] = d] /\ deleted' = deleted \ {v}
        /\ due' = Overwritten(v, SavedFields)
    BY DEF SetVideo
  <1> HIDE DEF F
  <1>4. d \in VideoDoc /\ d.rev = r /\ d.fields = F
    BY <1>2 DEF VideoDoc
  <1>5. d # NoDoc
    BY <1>4, DocIsADoc
  <1> HIDE DEF d
  <1>6. videos' \in [Videos -> VideoDoc \cup {NoDoc}] /\ videos'[v] = d
        /\ \A w \in Videos \ {v} : videos'[w] = videos[w]
    BY <1>3, <1>4
  <1>. QED BY <1>2, <1>3, <1>4, <1>5, <1>6

LEMMA SetFieldsEffect ==
    ASSUME videos \in [Videos -> VideoDoc \cup {NoDoc}], NEW h \in Handlers,
           NEW v \in Videos, NEW p \in Patches \cup {NoPatch},
           v = req[h].video, p = req[h].patch, SetFields(h)
    PROVE  /\ videos' \in [Videos -> VideoDoc \cup {NoDoc}]
           /\ videos[v] # NoDoc /\ videos'[v] # NoDoc
           /\ videos'[v].rev = videos[v].rev
           /\ DOMAIN p \subseteq Fields
           /\ \A f \in DOMAIN p : videos'[v].fields[f] = p[f]
           /\ \A f \in Fields \ DOMAIN p : videos'[v].fields[f] = videos[v].fields[f]
           /\ \A w \in Videos \ {v} : videos'[w] = videos[w]
  <1> DEFINE F == Patched(videos[v].fields, p)
             d == [videos[v] EXCEPT !.fields = F]
  <1>1. DOMAIN p \subseteq Fields /\ \A f \in DOMAIN p : p[f] \in Values
    BY UploadStateAssumption DEF NoPatch
  <1>2. videos[v] # NoDoc /\ videos[v] \in VideoDoc
        /\ videos[v].fields \in [Fields -> Values]
    BY DocIsADoc DEF SetFields
  <1>3. /\ F \in [Fields -> Values]
        /\ \A f \in DOMAIN p : F[f] = p[f]
        /\ \A f \in Fields \ DOMAIN p : F[f] = videos[v].fields[f]
    BY <1>1, <1>2 DEF Patched
  <1>4. videos' = [videos EXCEPT ![v] = d]
    BY DEF SetFields
  <1> HIDE DEF F
  <1>5. d \in VideoDoc /\ d.rev = videos[v].rev /\ d.fields = F
    BY <1>2, <1>3 DEF VideoDoc
  <1>6. d # NoDoc
    BY <1>5, DocIsADoc
  <1> HIDE DEF d
  <1>7. videos' \in [Videos -> VideoDoc \cup {NoDoc}] /\ videos'[v] = d
        /\ \A w \in Videos \ {v} : videos'[w] = videos[w]
    BY <1>4, <1>5
  <1>. QED BY <1>1, <1>2, <1>3, <1>5, <1>6, <1>7

LEMMA OverwrittenEffect ==
    ASSUME due \in [Handlers -> SUBSET Fields], NEW v, NEW F
    PROVE  /\ Overwritten(v, F) \in [Handlers -> SUBSET Fields]
           /\ \A g \in Handlers : Overwritten(v, F)[g] \subseteq due[g]
           /\ \A g \in Handlers : req[g].video = v => Overwritten(v, F)[g] \cap F = {}
  BY DEF Overwritten

-----------------------------------------------------------------------------
(* What the steps of a handler do to its request, and to no other's.       *)

Others(h) == \A g \in Handlers \ {h} : req'[g] = req[g]

LEMMA ReplaceRequest ==
    ASSUME req \in [Handlers -> Requests], NEW h \in Handlers, NEW d \in Requests,
           req' = [req EXCEPT ![h] = d]
    PROVE  req' \in [Handlers -> Requests] /\ req'[h] = d /\ Others(h)
  BY DEF Others

LEMMA IdleRequest ==
    Idle \in Requests /\ Idle.pc = "idle" /\ Idle.session = NoSession
  BY UploadStateAssumption DEF Idle, Requests, PCs, Statuses

LEMMA GotoEffect ==
    ASSUME req \in [Handlers -> Requests], NEW h \in Handlers, NEW pc \in PCs,
           Goto(h, pc)
    PROVE  /\ req' \in [Handlers -> Requests] /\ Others(h)
           /\ req'[h].pc = pc /\ req'[h].session = req[h].session
           /\ req'[h].video = req[h].video /\ req'[h].rev = req[h].rev
           /\ req'[h].patch = req[h].patch
  <1> DEFINE d == [req[h] EXCEPT !.pc = pc]
  <1>1. d \in Requests /\ d.pc = pc /\ d.session = req[h].session
        /\ d.video = req[h].video /\ d.rev = req[h].rev /\ d.patch = req[h].patch
    BY DEF Requests
  <1>2. req' = [req EXCEPT ![h] = d]
    BY DEF Goto
  <1> HIDE DEF d
  <1>. QED BY <1>1, <1>2, ReplaceRequest

LEMMA AnswerEffect ==
    ASSUME req \in [Handlers -> Requests], NEW h \in Handlers, NEW s \in Statuses,
           Answer(h, s)
    PROVE  /\ req' \in [Handlers -> Requests] /\ Others(h)
           /\ req'[h].pc = "answered" /\ req'[h].status = s
           /\ req'[h].session = NoSession
  <1> DEFINE d == [[Idle EXCEPT !.pc = "answered"] EXCEPT !.status = s]
  <1>1. "answered" \in PCs
    BY DEF PCs
  <1>2. d \in Requests /\ d.pc = "answered" /\ d.status = s /\ d.session = NoSession
    BY <1>1, IdleRequest DEF Requests
  <1>3. req' = [req EXCEPT ![h] = d]
    BY DEF Answer
  <1> HIDE DEF d
  <1>. QED BY <1>2, <1>3, ReplaceRequest

LEMMA SeenEffect ==
    ASSUME req \in [Handlers -> Requests], NEW h \in Handlers,
           NEW doc \in VideoDoc \cup {NoDoc},
           req' = [req EXCEPT ![h].pc = "answered", ![h].status = 200,
                              ![h].seen = doc]
    PROVE  /\ req' \in [Handlers -> Requests] /\ Others(h)
           /\ req'[h].pc = "answered" /\ req'[h].status = 200
           /\ req'[h].seen = doc /\ req'[h].session = req[h].session
           /\ req'[h].rev = req[h].rev /\ req'[h].patch = req[h].patch
  <1> DEFINE s == 200
             d == [[[req[h] EXCEPT !.pc = "answered"] EXCEPT !.status = s]
                           EXCEPT !.seen = doc]
  <1>1. "answered" \in PCs /\ s \in Statuses
    BY DEF PCs, Statuses
  <1>2. req' = [req EXCEPT ![h] = d]
    OBVIOUS
  <1> HIDE DEF s
  <1>3. d \in Requests /\ d.pc = "answered" /\ d.status = s /\ d.seen = doc
        /\ d.session = req[h].session /\ d.rev = req[h].rev
        /\ d.patch = req[h].patch
    BY <1>1 DEF Requests
  <1> HIDE DEF d
  <1>4. req'[h] = d /\ req' \in [Handlers -> Requests] /\ Others(h)
    BY <1>2, <1>3, ReplaceRequest
  <1>5. req'[h].status = 200
    BY <1>3, <1>4 DEF s
  <1>. QED BY <1>3, <1>4, <1>5

LEMMA FoundEffect ==
    ASSUME req \in [Handlers -> Requests], NEW h \in Handlers, NEW r \in 0..MaxRev,
           req' = [req EXCEPT ![h].pc = "getVideo", ![h].rev = r]
    PROVE  /\ req' \in [Handlers -> Requests] /\ Others(h)
           /\ req'[h].pc = "getVideo" /\ req'[h].rev = r
           /\ req'[h].session = req[h].session /\ req'[h].video = req[h].video
  <1> DEFINE d == [[req[h] EXCEPT !.pc = "getVideo"] EXCEPT !.rev = r]
  <1>1. "getVideo" \in PCs
    BY DEF PCs
  <1>2. d \in Requests /\ d.pc = "getVideo" /\ d.rev = r
        /\ d.session = req[h].session /\ d.video = req[h].video
    BY <1>1 DEF Requests
  <1>3. req' = [req EXCEPT ![h] = d]
    OBVIOUS
  <1> HIDE DEF d
  <1>. QED BY <1>2, <1>3, ReplaceRequest

LEMMA BeginSaveEffect ==
    ASSUME req \in [Handlers -> Requests], NEW h \in Handlers,
           NEW s \in Sessions \cup {NoSession}, NEW v \in Videos, NEW r \in 0..MaxRev,
           req' = [req EXCEPT ![h] = [Idle EXCEPT !.pc = "saveVideo",
                      !.session = s, !.video = v, !.rev = r]]
    PROVE  /\ req' \in [Handlers -> Requests] /\ Others(h)
           /\ req'[h].pc = "saveVideo" /\ req'[h].session = s
           /\ req'[h].video = v /\ req'[h].rev = r
  <1> DEFINE d == [[[[Idle EXCEPT !.pc = "saveVideo"] EXCEPT !.session = s]
                           EXCEPT !.video = v] EXCEPT !.rev = r]
  <1>1. "saveVideo" \in PCs
    BY DEF PCs
  <1>2. d \in Requests /\ d.pc = "saveVideo" /\ d.session = s /\ d.video = v
        /\ d.rev = r
    BY <1>1, IdleRequest DEF Requests
  <1>3. req' = [req EXCEPT ![h] = d]
    OBVIOUS
  <1> HIDE DEF d
  <1>. QED BY <1>2, <1>3, ReplaceRequest

LEMMA BeginGetEffect ==
    ASSUME req \in [Handlers -> Requests], NEW h \in Handlers, NEW s \in Sessions,
           NEW v \in Videos,
           req' = [req EXCEPT ![h] = [Idle EXCEPT !.pc = "getSession",
                                         !.session = s, !.video = v]]
    PROVE  /\ req' \in [Handlers -> Requests] /\ Others(h)
           /\ req'[h].pc = "getSession" /\ req'[h].session = s /\ req'[h].video = v
  <1> DEFINE d == [[[Idle EXCEPT !.pc = "getSession"] EXCEPT !.session = s]
                           EXCEPT !.video = v]
  <1>1. "getSession" \in PCs
    BY DEF PCs
  <1>2. d \in Requests /\ d.pc = "getSession" /\ d.session = s /\ d.video = v
    BY <1>1, IdleRequest DEF Requests
  <1>3. req' = [req EXCEPT ![h] = d]
    OBVIOUS
  <1> HIDE DEF d
  <1>. QED BY <1>2, <1>3, ReplaceRequest

LEMMA BeginPatchEffect ==
    ASSUME req \in [Handlers -> Requests], NEW h \in Handlers, NEW v \in Videos,
           NEW p \in Patches \cup {NoPatch}, NEW pc \in PCs,
           req' = [req EXCEPT ![h] = [Idle EXCEPT !.video = v, !.patch = p, !.pc = pc]]
    PROVE  /\ req' \in [Handlers -> Requests] /\ Others(h)
           /\ req'[h].pc = pc /\ req'[h].session = NoSession /\ req'[h].video = v
  <1> DEFINE d == [[[Idle EXCEPT !.video = v] EXCEPT !.patch = p] EXCEPT !.pc = pc]
  <1>1. d \in Requests /\ d.pc = pc /\ d.session = NoSession /\ d.video = v
    BY IdleRequest DEF Requests
  <1>2. req' = [req EXCEPT ![h] = d]
    OBVIOUS
  <1> HIDE DEF d
  <1>. QED BY <1>1, <1>2, ReplaceRequest

-----------------------------------------------------------------------------
(* A save that is not over stays out of what is recorded of the others,    *)
(* and a video stays, goes with a note of it, or is written by such a save. *)
Times ==
    /\ rev' \in Nat /\ rev <= rev'
    /\ \A n \in Saves : after'[n] \subseteq 1..rev'
    /\ \A n \in 1..rev : after'[n] = after[n]
    /\ \A h \in Savers, n \in Saves : req[h].rev \notin after[n]
                                         => req[h].rev \notin after'[n]

Moves(v) ==
    /\ There(v) => There(v)'
    /\ Stored(v)' =>
          /\ v \notin deleted' /\ videos'[v].rev \in 1..rev'
          /\ \/ Stored(v) /\ videos'[v].rev = videos[v].rev
             \/ \A n \in Saves : videos'[v].rev \notin after[n]

Forward == Times /\ \A v \in Videos : Moves(v)

LEMMA TimesUnchanged ==
    ASSUME TypeOK, DocInv, UNCHANGED <<rev, after>>
    PROVE  Times
  <1>1. rev \in Nat
    BY DEF TypeOK
  <1>. QED BY <1>1 DEF Times, DocInv

LEMMA MovesUnchanged ==
    ASSUME TypeOK, DocInv, Times, NEW v \in Videos, videos'[v] = videos[v],
           v \in deleted' <=> v \in deleted
    PROVE  Moves(v)
  <1>2. rev \in Nat
    BY DEF TypeOK
  <1>3. Stored(v)' = Stored(v)
    BY DEF Stored
  <1>4. Stored(v) => v \notin deleted /\ videos[v].rev \in 1..rev
    BY DEF DocInv, VideoOk
  <1>5. Stored(v) => videos[v].rev \in 1..rev'
    BY <1>2, <1>4 DEF Times
  <1>. QED BY <1>3, <1>4, <1>5 DEF Moves, There

(* What is current stays so. *)
LEMMA CurrentKept ==
    ASSUME TypeOK, Forward, NEW v \in Videos, NEW n \in 1..rev, Current(v, n)
    PROVE  n \in 1..rev' /\ Current(v, n)'
  <1>1. rev \in 0..MaxRev
    BY DEF TypeOK
  <1>2. n \in Saves /\ n \in 1..rev'
    BY <1>1, UploadStateAssumption DEF Forward, Times, Saves
  <1>3. after'[n] = after[n]
    BY DEF Forward, Times
  <1>4. Stored(v)' => videos'[v].rev \notin after[n]
    BY <1>2 DEF Forward, Moves, Current
  <1>. QED BY <1>2, <1>3, <1>4 DEF Current

(* What held of the documents still does when sessions and answers change  *)
(* as a save or a delete changes them.                                     *)
LEMMA DocKept ==
    ASSUME TypeOK, DocInv, Forward,
           \A s \in Sessions :
              /\ \/ sessions'[s] \in {NoDoc, sessions[s]}
                 \/ /\ sessions'[s] \in 1..rev /\ There(VideoOf[s])'
                    /\ \A n \in 1..rev : n = sessions'[s] => Current(VideoOf[s], n)'
              /\ \A n \in ackedSession'[s] :
                    \/ n \in ackedSession[s] /\ sessions'[s] = sessions[s]
                    \/ /\ n \in 1..rev /\ sessions'[s] # NoDoc
                       /\ sessions'[s] \notin after[n],
           \A v \in Videos : \A n \in ackedVideo'[v] :
              \/ n \in ackedVideo[v]
              \/ n \in 1..rev /\ Current(v, n)' /\ There(v)'
    PROVE  DocInv'
  <1>1. \A n \in 1..rev : n \in 1..rev' /\ n # NoDoc /\ after'[n] = after[n]
    <2>1. rev \in 0..MaxRev
      BY DEF TypeOK
    <2>. QED BY <2>1, UploadStateAssumption DEF Forward, Times
  <1>2. \A n \in Saves : after'[n] \subseteq 1..rev'
    BY DEF Forward, Times
  <1>3. ASSUME NEW v \in Videos PROVE VideoOk(v)'
    <2>1. Stored(v)' => videos'[v].rev \in 1..rev' /\ v \notin deleted'
      BY DEF Forward, Moves
    <2>2. ASSUME NEW n \in ackedVideo'[v]
          PROVE  n \in 1..rev' /\ Current(v, n)' /\ There(v)'
      <3>1. CASE n \in ackedVideo[v]
        <4>1. n \in 1..rev /\ Current(v, n) /\ There(v)
          BY <3>1 DEF DocInv, VideoOk
        <4>. QED BY <4>1, CurrentKept DEF Forward, Moves
      <3>2. CASE n \in 1..rev /\ Current(v, n)' /\ There(v)'
        BY <1>1, <3>2
      <3>. QED BY <3>1, <3>2
    <2>. QED BY <2>1, <2>2 DEF VideoOk
  <1>4. ASSUME NEW s \in Sessions PROVE SessionOk(s)'
    <2>1. PICK v \in Videos : v = VideoOf[s]
      BY UploadStateAssumption
    <2>2. ASSUME NEW n \in ackedSession'[s]
          PROVE  n \in 1..rev' /\ sessions'[s] # NoDoc /\ sessions'[s] \notin after'[n]
      <3>1. n \in 1..rev /\ sessions'[s] # NoDoc /\ sessions'[s] \notin after[n]
        BY DEF DocInv, SessionOk
      <3>. QED BY <1>1, <3>1
    <2>3. ASSUME sessions'[s] # NoDoc
          PROVE  sessions'[s] \in 1..rev' /\ There(v)'
                 /\ \A n \in 1..rev' : n = sessions'[s] => Current(v, n)'
      <3>1. CASE sessions'[s] = sessions[s]
        <4>1. PICK m \in 1..rev : m = sessions[s]
          BY <2>3, <3>1 DEF DocInv, SessionOk
        <4>2. Current(v, m) /\ There(v)
          BY <2>1, <2>3, <3>1, <4>1 DEF DocInv, SessionOk
        <4>3. m \in 1..rev' /\ Current(v, m)' /\ There(v)'
          BY <4>2, CurrentKept DEF Forward, Moves
        <4>. QED BY <3>1, <4>1, <4>3
      <3>2. CASE /\ sessions'[s] \in 1..rev /\ There(v)'
                 /\ \A n \in 1..rev : n = sessions'[s] => Current(v, n)'
        BY <1>1, <3>2
      <3>. QED BY <2>1, <2>3, <3>1, <3>2
    <2>. QED BY <2>1, <2>2, <2>3 DEF SessionOk
  <1>. QED BY <1>2, <1>3, <1>4 DEF DocInv

(* What held of a request still does when another steps: it is the same,   *)
(* and what its answer has to show can only become less.                   *)
Same(g) ==
    /\ req'[g] = req[g]
    /\ g \in kept' => g \in kept
    /\ due'[g] \subseteq due[g]
    /\ g \in kept' /\ req[g].video \in Videos /\ Fulfils(g) => Fulfils(g)'

LEMMA RequestKept ==
    ASSUME TypeOK, Forward, NEW g \in Handlers, RequestOk(g), Same(g)
    PROVE  RequestOk(g)'
  <1>1. \A n \in 1..rev : n \in 1..rev' /\ after'[n] = after[n]
    <2>1. rev \in 0..MaxRev
      BY DEF TypeOK
    <2>. QED BY <2>1 DEF Forward, Times
  <1>2. req[g].pc \in {"saveVideo", "saveSession"} => SaverOk(g)'
    <2>. SUFFICES ASSUME req[g].pc \in {"saveVideo", "saveSession"}
                  PROVE  SaverOk(g)'
      OBVIOUS
    <2>1. SaverOk(g)
      BY DEF RequestOk
    <2>2. PICK v \in Videos : v = req[g].video
      BY <2>1 DEF SaverOk
    <2>3. PICK n \in 1..rev : n = req[g].rev
      BY <2>1 DEF SaverOk
    <2>4. g \in Savers
      BY DEF Savers
    <2>5. \A m \in Saves : n \notin after'[m]
      BY <2>1, <2>3, <2>4 DEF SaverOk, Forward, Times
    <2>6. req[g].pc = "saveSession" => Current(v, n)' /\ There(v)'
      <3>1. req[g].pc = "saveSession" => Current(v, n) /\ There(v)
        BY <2>1, <2>2, <2>3 DEF SaverOk
      <3>. QED BY <3>1, CurrentKept DEF Forward, Moves
    <2>7. req'[g] = req[g] /\ n \in 1..rev'
      BY <1>1 DEF Same
    <2>. QED BY <2>1, <2>2, <2>3, <2>5, <2>6, <2>7 DEF SaverOk
  <1>3. req[g].pc \in {"getSession", "getVideo"} => ReaderOk(g)'
    <2>. SUFFICES ASSUME req[g].pc \in {"getSession", "getVideo"}
                  PROVE  ReaderOk(g)'
      OBVIOUS
    <2>1. ReaderOk(g) /\ req'[g] = req[g]
      BY DEF RequestOk, Same
    <2>2. PICK v \in Videos : v = req[g].video
      BY <2>1, UploadStateAssumption DEF ReaderOk
    <2>3. ASSUME req[g].pc = "getVideo"
          PROVE  req[g].rev \in 1..rev'
                 /\ (req[g].session \in Agreeing => Current(v, req[g].rev)')
      <3>1. PICK n \in 1..rev : n = req[g].rev
        BY <2>1, <2>3 DEF ReaderOk
      <3>2. req[g].session \in Agreeing => Current(v, n)
        BY <2>1, <2>2, <2>3, <3>1 DEF ReaderOk
      <3>3. Current(v, n)' => Current(v, req[g].rev)'
        BY <2>1, <3>1 DEF Current
      <3>. QED BY <1>1, <3>1, <3>2, <3>3, CurrentKept
    <2>. QED BY <2>1, <2>2, <2>3 DEF ReaderOk, Current, Stored
  <1>4. req[g].pc \in {"patch", "readPatched"} => PatcherOk(g)'
    BY DEF RequestOk, PatcherOk, Same
  <1>5. req[g].pc = "answered" => AnswerOk(g)'
    BY <1>1 DEF RequestOk, AnswerOk, Same
  <1>. QED BY <1>2, <1>3, <1>4, <1>5 DEF RequestOk, Same

(* A step of h alone. *)
LEMMA InvStep ==
    ASSUME UploadStateInv, TypeOK', DocInv', Forward, NEW h \in Handlers,
           \A g \in Handlers \ {h} : Same(g), RequestOk(h)'
    PROVE  UploadStateInv'
  <1>1. ASSUME NEW g \in Handlers PROVE RequestOk(g)'
    BY RequestKept DEF UploadStateInv, RequestInv
  <1>. QED BY <1>1 DEF UploadStateInv, RequestInv

-----------------------------------------------------------------------------
(* The steps, one by one. *)

LEMMA InitOk == Init => UploadStateInv
  <1>. SUFFICES ASSUME Init PROVE UploadStateInv
    OBVIOUS
  <1>1. TypeOK
    BY IdleRequest, UploadStateAssumption DEF Init, TypeOK, Saves
  <1>2. DocInv
    BY UploadStateAssumption DEF Init, DocInv, SessionOk, VideoOk, Stored
  <1>3. RequestInv
    BY IdleRequest DEF Init, RequestInv, RequestOk
  <1>. QED BY <1>1, <1>2, <1>3 DEF UploadStateInv

LEMMA FaultCount ==
    ASSUME TypeOK, Fine \/ Fault
    PROVE  faults' \in 0..MaxFaults
  BY UploadStateAssumption DEF TypeOK, Fine, Fault

(* What was read and not written. *)
Untouched == UNCHANGED <<sessions, videos, rev, after, ackedSession, ackedVideo,
                         deleted>>

LEMMA QuietForward ==
    ASSUME UploadStateInv, Untouched
    PROVE  Forward /\ DocInv'
  <1>1. Times
    BY TimesUnchanged DEF Untouched, UploadStateInv
  <1>2. Forward
    BY <1>1, MovesUnchanged DEF Untouched, UploadStateInv, Forward
  <1>3. DocInv'
    BY <1>2, DocKept DEF Untouched, UploadStateInv
  <1>. QED BY <1>2, <1>3

LEMMA QuietSame ==
    ASSUME UNCHANGED videos, NEW g \in Handlers, req'[g] = req[g],
           g \in kept' => g \in kept, due'[g] = due[g]
    PROVE  Same(g)
  BY DEF Same, Fulfils, Stored

(* A step of h that changes no document. *)
LEMMA ReadStep ==
    ASSUME UploadStateInv, NEW h \in Handlers, req' \in [Handlers -> Requests],
           Others(h), Untouched, UNCHANGED crashes, faults' \in 0..MaxFaults,
           kept' \in {kept, kept \ {h}}, due' \in {due, [due EXCEPT ![h] = {}]},
           RequestOk(h)'
    PROVE  UploadStateInv'
  <1>1. TypeOK'
    BY DEF Untouched, UploadStateInv, TypeOK
  <1>2. \A g \in Handlers \ {h} : Same(g)
    <2>. SUFFICES ASSUME NEW g \in Handlers \ {h} PROVE Same(g)
      OBVIOUS
    <2>1. req'[g] = req[g] /\ due'[g] = due[g] /\ (g \in kept' => g \in kept)
      BY DEF Others, UploadStateInv, TypeOK
    <2>. QED BY <2>1, QuietSame DEF Untouched
  <1>. QED BY <1>1, <1>2, QuietForward, InvStep

(* The answer that has no document promises nothing but 500 to a patch.    *)
LEMMA AnswerIsOk ==
    ASSUME UploadStateInv, NEW h \in Handlers, NEW s \in Statuses \ {200}, Answer(h, s),
           h \notin kept' \/ s = 500
    PROVE  req' \in [Handlers -> Requests] /\ Others(h) /\ RequestOk(h)'
  <1>1. /\ req' \in [Handlers -> Requests] /\ Others(h)
        /\ req'[h].pc = "answered" /\ req'[h].status = s
    BY AnswerEffect DEF UploadStateInv, TypeOK
  <1>. QED BY <1>1 DEF RequestOk, AnswerOk

LEMMA StatusesAre == {204, 400, 404, 500} \subseteq Statuses \ {200}
  BY DEF Statuses

LEMMA BadRequestStep ==
    ASSUME UploadStateInv, NEW h \in Handlers, BadRequest(h)
    PROVE  UploadStateInv'
  <1>1. h \notin kept
    BY DEF BadRequest, At, UploadStateInv, RequestInv, RequestOk
  <1>2. /\ Untouched /\ UNCHANGED <<crashes, faults, kept, due>> /\ Answer(h, 400)
        /\ faults' \in 0..MaxFaults
    BY DEF BadRequest, Untouched, docs, acks, UploadStateInv, TypeOK
  <1>. QED BY <1>1, <1>2, AnswerIsOk, StatusesAre, ReadStep

LEMMA BeginGetStateStep ==
    ASSUME UploadStateInv, NEW h \in Handlers, NEW s \in Sessions, BeginGetState(h, s)
    PROVE  UploadStateInv'
  <1>1. PICK v \in Videos : v = VideoIdOf[s]
    BY UploadStateAssumption
  <1>2. h \notin kept
    BY DEF BeginGetState, At, UploadStateInv, RequestInv, RequestOk
  <1>3. /\ Untouched /\ UNCHANGED <<crashes, faults, kept, due>>
        /\ faults' \in 0..MaxFaults /\ req \in [Handlers -> Requests]
        /\ req' = [req EXCEPT ![h] = [Idle EXCEPT !.pc = "getSession",
                                        !.session = s, !.video = v]]
    BY <1>1 DEF BeginGetState, Untouched, docs, acks, UploadStateInv, TypeOK
  <1>4. /\ req' \in [Handlers -> Requests] /\ Others(h)
        /\ req'[h].pc = "getSession" /\ req'[h].session = s /\ req'[h].video = v
    BY <1>3, BeginGetEffect
  <1>5. RequestOk(h)'
    BY <1>1, <1>2, <1>3, <1>4 DEF RequestOk, ReaderOk
  <1>. QED BY <1>3, <1>4, <1>5, ReadStep

LEMMA BeginPatchStep ==
    ASSUME UploadStateInv, NEW h \in Handlers, NEW v \in Videos,
           NEW p \in Patches \cup {NoPatch}, BeginPatch(h, v, p)
    PROVE  UploadStateInv'
  <1>1. PICK pc \in {"patch", "readPatched"} :
           req' = [req EXCEPT ![h] = [Idle EXCEPT !.video = v, !.patch = p, !.pc = pc]]
    BY DEF BeginPatch
  <1>2. h \notin kept
    BY DEF BeginPatch, At, UploadStateInv, RequestInv, RequestOk
  <1>3. /\ Untouched /\ UNCHANGED <<crashes, faults, kept, due>>
        /\ faults' \in 0..MaxFaults /\ req \in [Handlers -> Requests] /\ pc \in PCs
    BY DEF BeginPatch, Untouched, docs, acks, UploadStateInv, TypeOK, PCs
  <1>4. /\ req' \in [Handlers -> Requests] /\ Others(h)
        /\ req'[h].pc = pc /\ req'[h].session = NoSession /\ req'[h].video = v
    BY <1>1, <1>3, BeginPatchEffect
  <1>5. RequestOk(h)'
    BY <1>2, <1>3, <1>4 DEF RequestOk, PatcherOk
  <1>. QED BY <1>3, <1>4, <1>5, ReadStep

LEMMA ReplyStep ==
    ASSUME UploadStateInv, NEW h \in Handlers, Reply(h)
    PROVE  UploadStateInv'
  <1>1. req' \in [Handlers -> Requests] /\ Others(h) /\ req'[h] = Idle
    BY IdleRequest, ReplaceRequest DEF Reply, UploadStateInv, TypeOK
  <1>2. /\ Untouched /\ UNCHANGED <<crashes, faults>> /\ faults' \in 0..MaxFaults
        /\ kept' = kept \ {h} /\ due' = [due EXCEPT ![h] = {}]
    BY DEF Reply, Untouched, docs, acks, UploadStateInv, TypeOK
  <1>3. RequestOk(h)'
    BY <1>1, <1>2, IdleRequest DEF RequestOk
  <1>. QED BY <1>1, <1>2, <1>3, ReadStep

LEMMA CrashStep ==
    ASSUME UploadStateInv, Crash
    PROVE  UploadStateInv'
  <1>1. /\ Untouched /\ UNCHANGED faults /\ req' = [h \in Handlers |-> Idle]
        /\ kept' = {} /\ due' = [h \in Handlers |-> {}]
    BY DEF Crash, Untouched, docs, acks
  <1>2. TypeOK'
    BY <1>1, IdleRequest, UploadStateAssumption
       DEF Untouched, UploadStateInv, TypeOK, Crash
  <1>3. RequestInv'
    BY <1>1, IdleRequest DEF RequestInv, RequestOk
  <1>. QED BY <1>1, <1>2, <1>3, QuietForward DEF UploadStateInv

LEMMA StutterStep ==
    ASSUME UploadStateInv, UNCHANGED vars
    PROVE  UploadStateInv'
  <1>1. Untouched /\ UNCHANGED <<req, faults, crashes, kept, due>>
    BY DEF vars, Untouched
  <1>2. TypeOK'
    BY <1>1 DEF Untouched, UploadStateInv, TypeOK
  <1>3. RequestInv'
    <2>. SUFFICES ASSUME NEW g \in Handlers PROVE RequestOk(g)'
      BY DEF RequestInv
    <2>1. Same(g)
      BY <1>1, QuietSame DEF Untouched
    <2>. QED BY <1>1, <2>1, QuietForward, RequestKept DEF UploadStateInv, RequestInv
  <1>. QED BY <1>1, <1>2, <1>3, QuietForward DEF UploadStateInv

LEMMA GetStateSessionStep ==
    ASSUME UploadStateInv, NEW h \in Handlers, GetStateSession(h)
    PROVE  UploadStateInv'
  <1>1. ReaderOk(h) /\ h \notin kept
    BY DEF GetStateSession, At, UploadStateInv, RequestInv, RequestOk
  <1>2. PICK s \in Sessions : s = req[h].session
    BY <1>1 DEF ReaderOk
  <1>3. /\ Untouched /\ UNCHANGED <<crashes, kept, due>> /\ faults' \in 0..MaxFaults
        /\ req \in [Handlers -> Requests]
    BY FaultCount DEF GetStateSession, Untouched, docs, acks, UploadStateInv, TypeOK
  <1>4. CASE Answer(h, 404) \/ Answer(h, 500)
    BY <1>1, <1>3, <1>4, AnswerIsOk, StatusesAre, ReadStep
  <1>5. CASE /\ sessions[s] # NoDoc
             /\ req' = [req EXCEPT ![h].pc = "getVideo", ![h].rev = sessions[s]]
    <2>1. PICK n \in 1..rev : n = sessions[s]
      BY <1>5 DEF UploadStateInv, DocInv, SessionOk
    <2>2. n \in 0..MaxRev
      BY UploadStateAssumption DEF UploadStateInv, TypeOK
    <2>3. /\ req' \in [Handlers -> Requests] /\ Others(h)
          /\ req'[h].pc = "getVideo" /\ req'[h].rev = n
          /\ req'[h].session = s /\ req'[h].video = req[h].video
      BY <1>2, <1>3, <1>5, <2>1, <2>2, FoundEffect
    <2>4. Current(VideoOf[s], n)
      BY <1>5, <2>1 DEF UploadStateInv, DocInv, SessionOk
    <2>5. s \in Agreeing => Current(VideoIdOf[s], n)'
      BY <1>3, <2>4 DEF Agreeing, Current, Stored, Untouched
    <2>6. ReaderOk(h)'
      BY <1>1, <1>2, <1>3, <2>1, <2>3, <2>5 DEF ReaderOk, Untouched, Current, Stored
    <2>7. RequestOk(h)'
      BY <1>1, <1>3, <2>3, <2>6 DEF RequestOk
    <2>. QED BY <1>3, <2>3, <2>7, ReadStep
  <1>. QED BY <1>2, <1>4, <1>5 DEF GetStateSession

(* GetVideo shows what is stored. *)
LEMMA ReadVideoStep ==
    ASSUME UploadStateInv, NEW h \in Handlers, ReadVideo(h), req[h].video \in Videos,
           h \in kept => Fulfils(h),
           req[h].session # NoSession =>
              /\ req[h].rev \in 1..rev
              /\ req[h].session \in Agreeing => Current(req[h].video, req[h].rev)
    PROVE  UploadStateInv'
  <1>1. PICK v \in Videos : v = req[h].video
    OBVIOUS
  <1>2. /\ Untouched /\ UNCHANGED <<crashes, kept, due>> /\ faults' \in 0..MaxFaults
        /\ req \in [Handlers -> Requests]
    BY FaultCount DEF ReadVideo, Untouched, docs, acks, UploadStateInv, TypeOK
  <1>3. CASE Answer(h, 500)
    BY <1>2, <1>3, AnswerIsOk, StatusesAre, ReadStep
  <1>4. CASE videos[v] = NoDoc /\ Answer(h, 404)
    <2>1. h \notin kept'
      BY <1>1, <1>2, <1>4 DEF Fulfils, Stored
    <2>. QED BY <1>2, <1>4, <2>1, AnswerIsOk, StatusesAre, ReadStep
  <1>5. CASE /\ videos[v] # NoDoc
             /\ req' = [req EXCEPT ![h].pc = "answered", ![h].status = 200,
                                   ![h].seen = videos[v]]
    <2>1. videos[v] \in VideoDoc \cup {NoDoc}
      BY DEF UploadStateInv, TypeOK
    <2>2. /\ req' \in [Handlers -> Requests] /\ Others(h)
          /\ req'[h].pc = "answered" /\ req'[h].status = 200
          /\ req'[h].seen = videos[v] /\ req'[h].session = req[h].session
          /\ req'[h].rev = req[h].rev /\ req'[h].patch = req[h].patch
      BY <1>2, <1>5, <2>1, SeenEffect
    <2>3. req[h].session \in Agreeing /\ req[h].session # NoSession =>
              videos[v].rev \notin after[req[h].rev]
      BY <1>1, <1>5 DEF Current, Stored
    <2>4. h \in kept => \A f \in due[h] : videos[v].fields[f] = req[h].patch[f]
      BY <1>1 DEF Fulfils
    <2>5. AnswerOk(h)'
      BY <1>2, <2>2, <2>3, <2>4 DEF AnswerOk, Untouched
    <2>6. RequestOk(h)'
      BY <2>2, <2>5 DEF RequestOk
    <2>. QED BY <1>2, <2>2, <2>6, ReadStep
  <1>. QED BY <1>1, <1>3, <1>4, <1>5 DEF ReadVideo

LEMMA GetStateVideoStep ==
    ASSUME UploadStateInv, NEW h \in Handlers, GetStateVideo(h)
    PROVE  UploadStateInv'
  <1>1. ReaderOk(h) /\ req[h].pc = "getVideo" /\ h \notin kept
    BY DEF GetStateVideo, At, UploadStateInv, RequestInv, RequestOk
  <1>2. req[h].video \in Videos
    BY <1>1, UploadStateAssumption DEF ReaderOk
  <1>. QED BY <1>1, <1>2, ReadVideoStep DEF GetStateVideo, ReaderOk

LEMMA ReadPatchedStep ==
    ASSUME UploadStateInv, NEW h \in Handlers, ReadPatched(h)
    PROVE  UploadStateInv'
  <1>1. PatcherOk(h)
    BY DEF ReadPatched, At, UploadStateInv, RequestInv, RequestOk
  <1>. QED BY <1>1, ReadVideoStep DEF ReadPatched, PatcherOk

(* A new save has the next number, and is after none that is not over.     *)
LEMMA BeginSaveStep ==
    ASSUME UploadStateInv, NEW h \in Handlers, NEW v \in Videos,
           NEW s \in Sessions \cup {NoSession}, s # NoSession => v = VideoOf[s],
           BeginSave(h, v, s)
    PROVE  UploadStateInv'
  <1>1. /\ rev < MaxRev /\ rev' = rev + 1
        /\ after' = [after EXCEPT ![rev + 1] = (1..rev) \ InFlight]
        /\ UNCHANGED <<sessions, videos, ackedSession, ackedVideo, deleted, kept, due,
                       faults, crashes>>
        /\ h \notin kept
    BY DEF BeginSave, docs, acks, At, UploadStateInv, RequestInv, RequestOk
  <1>2. rev \in Nat /\ MaxRev \in Nat /\ after \in [Saves -> SUBSET Saves]
    BY UploadStateAssumption DEF UploadStateInv, TypeOK
  <1>3. rev + 1 \in Saves /\ rev + 1 \in 0..MaxRev /\ 1..rev \subseteq Saves
    BY <1>1, <1>2 DEF Saves
  <1>4. /\ req' \in [Handlers -> Requests] /\ Others(h)
        /\ req'[h].pc = "saveVideo" /\ req'[h].session = s
        /\ req'[h].video = v /\ req'[h].rev = rev + 1
    <2>1. req' = [req EXCEPT ![h] = [Idle EXCEPT !.pc = "saveVideo",
                      !.session = s, !.video = v, !.rev = rev + 1]]
      BY DEF BeginSave
    <2>2. req \in [Handlers -> Requests]
      BY DEF UploadStateInv, TypeOK
    <2>. QED BY <1>3, <2>1, <2>2, BeginSaveEffect
  <1>5. after'[rev + 1] = (1..rev) \ InFlight
        /\ \A n \in Saves : n # rev + 1 => after'[n] = after[n]
    BY <1>1, <1>2, <1>3
  <1>6. after' \in [Saves -> SUBSET Saves]
    BY <1>1, <1>2, <1>3
  <1>7. \A n \in Saves : after[n] \subseteq 1..rev
    BY DEF UploadStateInv, DocInv
  <1>8. \A n \in Saves : after'[n] \subseteq 1..rev
    BY <1>5, <1>7
  <1>9. Times
    <2>1. \A g \in Savers : req[g].rev \in InFlight
      BY DEF InFlight
    <2>2. \A g \in Savers, n \in Saves : req[g].rev \notin after[n]
                                            => req[g].rev \notin after'[n]
      BY <1>5, <2>1
    <2>3. \A n \in 1..rev : after'[n] = after[n]
      BY <1>2, <1>3, <1>5
    <2>4. \A n \in Saves : after'[n] \subseteq 1..rev'
      BY <1>1, <1>2, <1>8
    <2>. QED BY <1>1, <1>2, <2>2, <2>3, <2>4 DEF Times
  <1>10. Forward
    BY <1>1, <1>9, MovesUnchanged DEF UploadStateInv, Forward
  <1>11. TypeOK'
    BY <1>1, <1>3, <1>4, <1>6 DEF UploadStateInv, TypeOK
  <1>12. DocInv'
    BY <1>1, <1>10, DocKept DEF UploadStateInv
  <1>13. RequestOk(h)'
    <2>1. \A n \in Saves : rev + 1 \notin after'[n]
      BY <1>2, <1>8
    <2>2. rev + 1 \in 1..rev'
      BY <1>1, <1>2
    <2>3. SaverOk(h)'
      BY <1>4, <2>1, <2>2 DEF SaverOk
    <2>. QED BY <1>1, <1>4, <2>3 DEF RequestOk
  <1>14. \A g \in Handlers \ {h} : Same(g)
    BY <1>1, <1>4, QuietSame DEF Others
  <1>. QED BY <1>10, <1>11, <1>12, <1>13, <1>14, InvStep

(* A save leaves every other request what it still has to show.            *)
LEMMA SetVideoSame ==
    ASSUME UploadStateInv, NEW v \in Videos, NEW r \in Saves, SetVideo(v, r),
           NEW g \in Handlers, req'[g] = req[g], UNCHANGED kept
    PROVE  Same(g)
  <1>1. /\ videos'[v] # NoDoc
        /\ videos[v] # NoDoc =>
              \A f \in Fields \ SavedFields : videos'[v].fields[f] = videos[v].fields[f]
        /\ \A w \in Videos \ {v} : videos'[w] = videos[w]
        /\ due' = Overwritten(v, SavedFields)
    BY SetVideoEffect DEF UploadStateInv, TypeOK
  <1>2. due'[g] \subseteq due[g] /\ due[g] \subseteq Fields
        /\ (req[g].video = v => due'[g] \cap SavedFields = {})
    BY <1>1, OverwrittenEffect DEF UploadStateInv, TypeOK
  <1>3. ASSUME req[g].video \in Videos, Fulfils(g) PROVE Fulfils(g)'
    <2>1. CASE req[g].video = v
      BY <1>1, <1>2, <1>3, <2>1 DEF Fulfils, Stored
    <2>2. CASE req[g].video # v
      BY <1>1, <1>2, <1>3, <2>2 DEF Fulfils, Stored
    <2>. QED BY <2>1, <2>2
  <1>. QED BY <1>2, <1>3 DEF Same

LEMMA SaveVideoStep ==
    ASSUME UploadStateInv, NEW h \in Handlers, SaveVideo(h)
    PROVE  UploadStateInv'
  <1>1. SaverOk(h) /\ h \notin kept
    BY DEF SaveVideo, At, UploadStateInv, RequestInv, RequestOk
  <1>2. rev \in 0..MaxRev /\ MaxRev \in Nat
    BY UploadStateAssumption DEF UploadStateInv, TypeOK
  <1>3. PICK v \in Videos : v = req[h].video
    BY <1>1 DEF SaverOk
  <1>4. PICK r \in Saves : r = req[h].rev
    BY <1>1, <1>2 DEF SaverOk, Saves
  <1>5. r \in 1..rev /\ \A n \in Saves : r \notin after[n]
    BY <1>1, <1>4 DEF SaverOk
  <1>6. /\ UNCHANGED <<sessions, rev, after, ackedSession, kept, crashes>>
        /\ faults' \in 0..MaxFaults /\ req \in [Handlers -> Requests]
    BY FaultCount DEF SaveVideo, UploadStateInv, TypeOK
  <1>7. CASE UNCHANGED <<videos, deleted, due, ackedVideo>> /\ Answer(h, 500)
    <2>1. Untouched
      BY <1>6, <1>7 DEF Untouched
    <2>2. req' \in [Handlers -> Requests] /\ Others(h) /\ RequestOk(h)'
      BY <1>7, AnswerIsOk, StatusesAre
    <2>. QED BY <1>6, <1>7, <2>1, <2>2, ReadStep
  <1>8. ASSUME SetVideo(v, r), VideoSaved(h) \/ (Answer(h, 500) /\ UNCHANGED ackedVideo)
        PROVE  UploadStateInv'
    <2>1. /\ videos' \in [Videos -> VideoDoc \cup {NoDoc}]
          /\ videos'[v] # NoDoc /\ videos'[v].rev = r
          /\ \A w \in Videos \ {v} : videos'[w] = videos[w]
          /\ deleted' = deleted \ {v} /\ due' = Overwritten(v, SavedFields)
      BY <1>8, SetVideoEffect DEF UploadStateInv, TypeOK
    <2>2. Times
      BY <1>6, TimesUnchanged DEF UploadStateInv
    <2>3. Moves(v)
      BY <1>5, <1>6, <2>1 DEF Moves, There, Stored
    <2>4. Forward
      BY <2>1, <2>2, <2>3, MovesUnchanged DEF UploadStateInv, Forward
    <2>5. There(v)' /\ Current(v, r)'
      BY <1>4, <1>5, <1>6, <2>1 DEF There, Stored, Current
    <2>6. /\ req' \in [Handlers -> Requests] /\ Others(h) /\ RequestOk(h)'
          /\ ackedVideo' \in {ackedVideo, [ackedVideo EXCEPT ![v] = @ \cup {r}]}
      <3>1. CASE Answer(h, 500) /\ UNCHANGED ackedVideo
        BY <1>1, <1>6, <3>1, AnswerIsOk, StatusesAre
      <3>2. CASE Answer(h, 204) /\ ackedVideo' = [ackedVideo EXCEPT ![v] = @ \cup {r}]
        BY <1>1, <1>6, <3>2, AnswerIsOk, StatusesAre
      <3>3. CASE /\ req[h].session # NoSession
                 /\ Goto(h, "saveSession") /\ UNCHANGED ackedVideo
        <4>1. /\ req' \in [Handlers -> Requests] /\ Others(h)
              /\ req'[h].pc = "saveSession" /\ req'[h].session = req[h].session
              /\ req'[h].video = v /\ req'[h].rev = r
          BY <1>3, <1>4, <1>6, <3>3, GotoEffect DEF PCs
        <4>2. SaverOk(h)'
          BY <1>1, <1>3, <1>5, <1>6, <2>5, <3>3, <4>1
             DEF SaverOk, Current, There, Stored
        <4>. QED BY <1>1, <1>6, <3>3, <4>1, <4>2 DEF RequestOk
      <3>. QED BY <1>3, <1>4, <1>8, <3>1, <3>2, <3>3 DEF VideoSaved
    <2>7. ackedVideo' \in [Videos -> SUBSET Saves]
          /\ \A w \in Videos : \A n \in ackedVideo'[w] :
                n \in ackedVideo[w] \/ (n = r /\ w = v)
      BY <2>6 DEF UploadStateInv, TypeOK
    <2>8. TypeOK'
      <3>1. due' \in [Handlers -> SUBSET Fields]
        BY <2>1, OverwrittenEffect DEF UploadStateInv, TypeOK
      <3>. QED BY <1>6, <2>1, <2>6, <2>7, <3>1 DEF UploadStateInv, TypeOK
    <2>9. DocInv'
      BY <1>5, <1>6, <2>4, <2>5, <2>7, DocKept DEF UploadStateInv
    <2>10. \A g \in Handlers \ {h} : Same(g)
      BY <1>6, <1>8, <2>6, SetVideoSame DEF Others
    <2>. QED BY <2>4, <2>6, <2>8, <2>9, <2>10, InvStep
  <1>9. \/ UNCHANGED <<videos, deleted, due, ackedVideo>> /\ Answer(h, 500)
        \/ /\ SetVideo(req[h].video, req[h].rev)
           /\ VideoSaved(h) \/ (Answer(h, 500) /\ UNCHANGED ackedVideo)
    BY DEF SaveVideo
  <1>10. SetVideo(req[h].video, req[h].rev) => SetVideo(v, r)
    BY <1>3, <1>4
  <1>. QED BY <1>7, <1>8, <1>9, <1>10

(* The session's write, which may be applied although it failed.           *)
LEMMA SaveSessionStep ==
    ASSUME UploadStateInv, NEW h \in Handlers, SaveSession(h)
    PROVE  UploadStateInv'
  <1>1. SaverOk(h) /\ h \notin kept /\ req[h].pc = "saveSession"
    BY DEF SaveSession, At, UploadStateInv, RequestInv, RequestOk
  <1>2. rev \in 0..MaxRev /\ MaxRev \in Nat
    BY UploadStateAssumption DEF UploadStateInv, TypeOK
  <1>3. PICK s \in Sessions : s = req[h].session
    BY <1>1 DEF SaverOk
  <1>4. PICK v \in Videos : v = req[h].video
    BY <1>1 DEF SaverOk
  <1>5. PICK r \in Saves : r = req[h].rev
    BY <1>1, <1>2 DEF SaverOk, Saves
  <1>6. /\ r \in 1..rev /\ r # NoDoc /\ v = VideoOf[s] /\ There(v) /\ Current(v, r)
        /\ \A n \in Saves : r \notin after[n]
    BY <1>1, <1>3, <1>4, <1>5, SavesAreNumbers, UploadStateAssumption DEF SaverOk
  <1>7. /\ UNCHANGED <<videos, rev, after, deleted, kept, due, crashes>>
        /\ faults' \in 0..MaxFaults
    BY FaultCount DEF SaveSession, UploadStateInv, TypeOK
  <1>8. /\ sessions' \in {sessions, [sessions EXCEPT ![s] = r]}
        /\ \/ /\ sessions' = [sessions EXCEPT ![s] = r] /\ Answer(h, 204)
              /\ ackedSession' = [ackedSession EXCEPT ![s] = @ \cup {r}]
              /\ ackedVideo' = [ackedVideo EXCEPT ![v] = @ \cup {r}]
           \/ Answer(h, 500) /\ UNCHANGED <<ackedSession, ackedVideo>>
    BY <1>3, <1>4, <1>5 DEF SaveSession, acks
  <1>9. req' \in [Handlers -> Requests] /\ Others(h) /\ RequestOk(h)'
    BY <1>1, <1>7, <1>8, AnswerIsOk, StatusesAre
  <1>10. TypeOK'
    BY <1>7, <1>8, <1>9 DEF UploadStateInv, TypeOK
  <1>11. Forward
    BY <1>7, TimesUnchanged, MovesUnchanged DEF UploadStateInv, Forward
  <1>12. There(v)' /\ Current(v, r)'
    BY <1>6, <1>7 DEF There, Stored, Current
  <1>13. ASSUME NEW t \in Sessions
         PROVE  /\ \/ sessions'[t] \in {NoDoc, sessions[t]}
                   \/ /\ sessions'[t] \in 1..rev /\ There(VideoOf[t])'
                      /\ \A n \in 1..rev : n = sessions'[t] => Current(VideoOf[t], n)'
                /\ \A n \in ackedSession'[t] :
                      \/ n \in ackedSession[t] /\ sessions'[t] = sessions[t]
                      \/ /\ n \in 1..rev /\ sessions'[t] # NoDoc
                         /\ sessions'[t] \notin after[n]
    <2>1. \/ sessions'[t] = sessions[t] /\ ackedSession'[t] = ackedSession[t]
          \/ t = s /\ sessions'[t] = r /\ ackedSession'[t] \subseteq ackedSession[t] \cup {r}
      BY <1>8 DEF UploadStateInv, TypeOK
    <2>2. \A n \in ackedSession[t] : n \in 1..rev /\ n \in Saves
      BY <1>2 DEF UploadStateInv, DocInv, SessionOk, TypeOK
    <2>. QED BY <1>6, <1>12, <2>1, <2>2
  <1>14. \A w \in Videos : \A n \in ackedVideo'[w] :
            n \in ackedVideo[w] \/ (n \in 1..rev /\ Current(w, n)' /\ There(w)')
    <2>1. \A w \in Videos : \A n \in ackedVideo'[w] :
             n \in ackedVideo[w] \/ (n = r /\ w = v)
      BY <1>8 DEF UploadStateInv, TypeOK
    <2>. QED BY <1>6, <1>12, <2>1
  <1>15. DocInv'
    BY <1>11, <1>13, <1>14, DocKept DEF UploadStateInv
  <1>16. \A g \in Handlers \ {h} : Same(g)
    BY <1>7, <1>9, QuietSame DEF Others
  <1>. QED BY <1>9, <1>10, <1>11, <1>15, <1>16, InvStep

LEMMA SetFieldsSame ==
    ASSUME UploadStateInv, NEW h \in Handlers, SetFields(h), req[h].video \in Videos,
           NEW g \in Handlers \ {h}, req'[g] = req[g], g \in kept' => g \in kept
    PROVE  Same(g)
  <1>1. PICK v \in Videos : v = req[h].video
    OBVIOUS
  <1>2. PICK p \in Patches \cup {NoPatch} : p = req[h].patch
    BY DEF UploadStateInv, TypeOK, Requests
  <1>3. /\ videos'[v] # NoDoc
        /\ \A f \in Fields \ DOMAIN p : videos'[v].fields[f] = videos[v].fields[f]
        /\ \A w \in Videos \ {v} : videos'[w] = videos[w]
    BY <1>1, <1>2, SetFieldsEffect DEF UploadStateInv, TypeOK
  <1>4. /\ due'[g] \subseteq due[g] /\ due[g] \subseteq Fields
        /\ (req[g].video = v => due'[g] \cap DOMAIN p = {})
    <2>1. due' = [Overwritten(v, DOMAIN p) EXCEPT ![h] = DOMAIN p]
      BY <1>1, <1>2 DEF SetFields
    <2>2. Overwritten(v, DOMAIN p) \in [Handlers -> SUBSET Fields]
      BY OverwrittenEffect DEF UploadStateInv, TypeOK
    <2>3. due'[g] = Overwritten(v, DOMAIN p)[g]
      BY <2>1, <2>2
    <2>. QED BY <2>3, OverwrittenEffect DEF UploadStateInv, TypeOK
  <1>5. ASSUME req[g].video \in Videos, Fulfils(g) PROVE Fulfils(g)'
    <2>1. CASE req[g].video = v
      BY <1>3, <1>4, <1>5, <2>1 DEF Fulfils, Stored
    <2>2. CASE req[g].video # v
      BY <1>3, <1>4, <1>5, <2>2 DEF Fulfils, Stored
    <2>. QED BY <2>1, <2>2
  <1>. QED BY <1>4, <1>5 DEF Same

LEMMA PatchStep ==
    ASSUME UploadStateInv, NEW h \in Handlers, Patch(h)
    PROVE  UploadStateInv'
  <1>1. /\ PatcherOk(h) /\ h \notin kept
        /\ UNCHANGED <<sessions, rev, after, ackedSession, ackedVideo, deleted, crashes>>
        /\ faults' \in 0..MaxFaults /\ req \in [Handlers -> Requests]
    BY FaultCount DEF Patch, At, acks, UploadStateInv, TypeOK, RequestInv, RequestOk,
                      PatcherOk
  <1>2. PICK v \in Videos : v = req[h].video
    BY <1>1 DEF PatcherOk
  <1>3. PICK p \in Patches \cup {NoPatch} : p = req[h].patch
    BY DEF UploadStateInv, TypeOK, Requests
  <1>4. CASE /\ UNCHANGED <<videos, kept, due>>
             /\ Answer(h, 404) \/ Answer(h, 500)
    <2>1. Untouched
      BY <1>1, <1>4 DEF Untouched
    <2>2. req' \in [Handlers -> Requests] /\ Others(h) /\ RequestOk(h)'
      BY <1>1, <1>4, AnswerIsOk, StatusesAre
    <2>. QED BY <1>1, <1>4, <2>1, <2>2, ReadStep
  <1>5. ASSUME SetFields(h),
               \/ Goto(h, "readPatched") /\ kept' = kept \cup {h}
               \/ Answer(h, 500) /\ UNCHANGED kept
        PROVE  UploadStateInv'
    <2>1. /\ videos' \in [Videos -> VideoDoc \cup {NoDoc}]
          /\ videos[v] # NoDoc /\ videos'[v] # NoDoc
          /\ videos'[v].rev = videos[v].rev
          /\ DOMAIN p \subseteq Fields
          /\ \A f \in DOMAIN p : videos'[v].fields[f] = p[f]
          /\ \A w \in Videos \ {v} : videos'[w] = videos[w]
      BY <1>2, <1>3, <1>5, SetFieldsEffect DEF UploadStateInv, TypeOK
    <2>2. due' \in [Handlers -> SUBSET Fields] /\ due'[h] = DOMAIN p
      <3>1. due' = [Overwritten(v, DOMAIN p) EXCEPT ![h] = DOMAIN p]
        BY <1>2, <1>3, <1>5 DEF SetFields
      <3>2. Overwritten(v, DOMAIN p) \in [Handlers -> SUBSET Fields]
        BY OverwrittenEffect DEF UploadStateInv, TypeOK
      <3>. QED BY <2>1, <3>1, <3>2
    <2>3. Times
      BY <1>1, TimesUnchanged DEF UploadStateInv
    <2>4. Moves(v)
      <3>1. videos[v].rev \in 1..rev /\ v \notin deleted
        BY <2>1 DEF UploadStateInv, DocInv, VideoOk, Stored
      <3>. QED BY <1>1, <2>1, <3>1 DEF Moves, There, Stored
    <2>5. Forward
      BY <1>1, <2>1, <2>3, <2>4, MovesUnchanged DEF UploadStateInv, Forward
    <2>6. DocInv'
      BY <1>1, <2>5, DocKept DEF UploadStateInv
    <2>7. req' \in [Handlers -> Requests] /\ Others(h) /\ RequestOk(h)'
      <3>1. CASE Answer(h, 500) /\ UNCHANGED kept
        BY <3>1, AnswerIsOk, StatusesAre
      <3>2. CASE Goto(h, "readPatched") /\ kept' = kept \cup {h}
        <4>1. /\ req' \in [Handlers -> Requests] /\ Others(h)
              /\ req'[h].pc = "readPatched" /\ req'[h].session = req[h].session
              /\ req'[h].video = v /\ req'[h].patch = p
          BY <1>1, <1>2, <1>3, <3>2, GotoEffect DEF PCs
        <4>2. Fulfils(h)'
          BY <2>1, <2>2, <4>1 DEF Fulfils, Stored
        <4>3. PatcherOk(h)'
          BY <1>1, <4>1, <4>2 DEF PatcherOk
        <4>. QED BY <4>1, <4>3 DEF RequestOk
      <3>. QED BY <1>5, <3>1, <3>2
    <2>8. TypeOK'
      BY <1>1, <1>5, <2>1, <2>2, <2>7 DEF UploadStateInv, TypeOK
    <2>9. \A g \in Handlers \ {h} : Same(g)
      <3>. SUFFICES ASSUME NEW g \in Handlers \ {h} PROVE Same(g)
        OBVIOUS
      <3>1. req'[g] = req[g] /\ (g \in kept' => g \in kept)
        BY <1>5, <2>7 DEF Others
      <3>. QED BY <1>2, <1>5, <3>1, SetFieldsSame
    <2>. QED BY <2>5, <2>6, <2>7, <2>8, <2>9, InvStep
  <1>. QED BY <1>4, <1>5 DEF Patch

LEMMA DeleteSessionStep ==
    ASSUME UploadStateInv, NEW s \in Sessions, DeleteSession(s)
    PROVE  UploadStateInv'
  <1>1. /\ UNCHANGED <<videos, req, rev, after, ackedVideo, deleted, kept, due, faults,
                       crashes>>
        /\ sessions' = [sessions EXCEPT ![s] = NoDoc]
        /\ ackedSession' = [ackedSession EXCEPT ![s] = {}]
    BY DEF DeleteSession
  <1>2. TypeOK'
    BY <1>1 DEF UploadStateInv, TypeOK
  <1>3. Forward
    BY <1>1, TimesUnchanged, MovesUnchanged DEF UploadStateInv, Forward
  <1>4. \A t \in Sessions : \/ sessions'[t] = NoDoc /\ ackedSession'[t] = {}
                            \/ /\ sessions'[t] = sessions[t]
                               /\ ackedSession'[t] = ackedSession[t]
    BY <1>1 DEF UploadStateInv, TypeOK
  <1>5. DocInv'
    BY <1>1, <1>3, <1>4, DocKept DEF UploadStateInv
  <1>6. ASSUME NEW g \in Handlers PROVE RequestOk(g)'
    BY <1>1, <1>3, QuietSame, RequestKept DEF UploadStateInv, RequestInv
  <1>. QED BY <1>2, <1>5, <1>6 DEF UploadStateInv, RequestInv

LEMMA DeleteVideoStep ==
    ASSUME UploadStateInv, NEW v \in Videos, DeleteVideo(v)
    PROVE  UploadStateInv'
  <1>1. /\ UNCHANGED <<sessions, req, rev, after, ackedSession, ackedVideo, due, faults,
                       crashes>>
        /\ videos' = [videos EXCEPT ![v] = NoDoc]
        /\ deleted' = deleted \cup {v} /\ kept' = {h \in kept : req[h].video # v}
    BY DEF DeleteVideo, acks
  <1>2. /\ videos'[v] = NoDoc
        /\ \A w \in Videos \ {v} : videos'[w] = videos[w]
                                   /\ (w \in deleted' <=> w \in deleted)
    BY <1>1 DEF UploadStateInv, TypeOK
  <1>3. TypeOK'
    BY <1>1 DEF UploadStateInv, TypeOK
  <1>4. Times
    BY <1>1, TimesUnchanged DEF UploadStateInv
  <1>5. Moves(v)
    BY <1>1, <1>2 DEF Moves, There, Stored
  <1>6. Forward
    BY <1>2, <1>4, <1>5, MovesUnchanged DEF UploadStateInv, Forward
  <1>7. DocInv'
    BY <1>1, <1>6, DocKept DEF UploadStateInv
  <1>8. ASSUME NEW g \in Handlers PROVE Same(g)
    BY <1>1, <1>2 DEF Same, Fulfils, Stored
  <1>9. ASSUME NEW g \in Handlers PROVE RequestOk(g)'
    BY <1>6, <1>8, RequestKept DEF UploadStateInv, RequestInv
  <1>. QED BY <1>3, <1>7, <1>9 DEF UploadStateInv, RequestInv

LEMMA NextStep == UploadStateInv /\ [Next]_vars => UploadStateInv'
  <1>. SUFFICES ASSUME UploadStateInv, [Next]_vars PROVE UploadStateInv'
    OBVIOUS
  <1>1. ASSUME NEW h \in Handlers, NEW s \in Sessions,
               BeginSaveState(h, s) \/ BeginGetState(h, s)
        PROVE  UploadStateInv'
    <2>1. VideoOf[s] \in Videos
      BY UploadStateAssumption
    <2>2. CASE BeginSaveState(h, s)
      BY <2>1, <2>2, BeginSaveStep DEF BeginSaveState
    <2>. QED BY <1>1, <2>2, BeginGetStateStep
  <1>2. ASSUME NEW h \in Handlers, NEW v \in Videos, BeginSaveVideo(h, v)
        PROVE  UploadStateInv'
    BY <1>2, BeginSaveStep DEF BeginSaveVideo
  <1>3. ASSUME NEW h \in Handlers, HandlerStep(h) \/ BadRequest(h)
        PROVE  UploadStateInv'
    BY <1>3, SaveVideoStep, SaveSessionStep, GetStateSessionStep, GetStateVideoStep,
       PatchStep, ReadPatchedStep, ReplyStep, BadRequestStep DEF HandlerStep
  <1>. QED BY <1>1, <1>2, <1>3, BeginPatchStep, DeleteVideoStep, DeleteSessionStep,
              CrashStep, StutterStep DEF Next

(* What a step can do to the confirmation of a video that stays. *)
LEMMA ConfirmationStep ==
    ASSUME UploadStateInv, [Next]_vars, NEW v \in Videos,
           videos[v] # NoDoc, videos'[v] # NoDoc,
           videos[v].fields["storage_confirmed_at"] # "null"
    PROVE  \/ videos'[v].fields["storage_confirmed_at"] # "null"
           \/ \E h \in Handlers : PatchedAway(h, v)
  <1> DEFINE sc == "storage_confirmed_at"
  <1>1. sc \in Fields \ SavedFields
    BY DEF Fields, SavedFields
  <1>2. CASE UNCHANGED videos
    BY <1>2
  <1>3. ASSUME NEW w \in Videos, DeleteVideo(w)
        PROVE  videos'[v].fields[sc] # "null"
    BY <1>3 DEF DeleteVideo, UploadStateInv, TypeOK
  <1>4. ASSUME NEW h \in Handlers, SaveVideo(h)
        PROVE  videos'[v].fields[sc] # "null"
    <2>1. req[h].video \in Videos /\ req[h].rev \in Saves
      BY <1>4, UploadStateAssumption
         DEF SaveVideo, At, UploadStateInv, RequestInv, RequestOk, SaverOk, TypeOK, Saves
    <2>2. CASE SetVideo(req[h].video, req[h].rev)
      <3>1. /\ videos[req[h].video] # NoDoc =>
                  videos'[req[h].video].fields[sc] = videos[req[h].video].fields[sc]
            /\ \A w \in Videos \ {req[h].video} : videos'[w] = videos[w]
        BY <1>1, <2>1, <2>2, SetVideoEffect DEF UploadStateInv, TypeOK
      <3>. QED BY <3>1
    <2>3. SetVideo(req[h].video, req[h].rev) \/ UNCHANGED videos
      BY <1>4 DEF SaveVideo
    <2>. QED BY <1>2, <2>2, <2>3
  <1>5. ASSUME NEW h \in Handlers, Patch(h)
        PROVE  videos'[v].fields[sc] # "null" \/ PatchedAway(h, v)
    <2>1. CASE SetFields(h)
      <3>1. PICK w \in Videos : w = req[h].video
        BY <1>5 DEF Patch, At, UploadStateInv, RequestInv, RequestOk, PatcherOk
      <3>2. PICK p \in Patches \cup {NoPatch} : p = req[h].patch
        BY DEF UploadStateInv, TypeOK, Requests
      <3>3. /\ \A f \in DOMAIN p : videos'[w].fields[f] = p[f]
            /\ \A f \in Fields \ DOMAIN p : videos'[w].fields[f] = videos[w].fields[f]
            /\ \A u \in Videos \ {w} : videos'[u] = videos[u]
        <4>1. videos \in [Videos -> VideoDoc \cup {NoDoc}]
          BY DEF UploadStateInv, TypeOK
        <4>. QED BY <2>1, <3>1, <3>2, <4>1, SetFieldsEffect
      <3>4. At(h, "patch") /\ ~At(h, "patch")'
        <4>1. req \in [Handlers -> Requests] /\ "readPatched" \in PCs
          BY DEF UploadStateInv, TypeOK, PCs
        <4>2. req'[h].pc \in {"readPatched", "answered"}
          BY <1>5, <4>1, GotoEffect, AnswerEffect, StatusesAre DEF Patch
        <4>. QED BY <1>5, <4>2 DEF Patch, At
      <3>5. CASE v = w /\ sc \in DOMAIN p
        BY <3>1, <3>2, <3>3, <3>4, <3>5 DEF PatchedAway
      <3>6. CASE v # w \/ sc \notin DOMAIN p
        BY <1>1, <3>3, <3>6
      <3>. QED BY <3>5, <3>6
    <2>2. SetFields(h) \/ UNCHANGED videos
      BY <1>5 DEF Patch
    <2>. QED BY <1>2, <2>1, <2>2
  <1>6. \/ UNCHANGED videos
        \/ \E w \in Videos : DeleteVideo(w)
        \/ \E h \in Handlers : SaveVideo(h) \/ Patch(h)
    <2>1. CASE UNCHANGED vars
      BY <2>1 DEF vars
    <2>2. ASSUME NEW h \in Handlers, HandlerStep(h) \/ BadRequest(h)
          PROVE  UNCHANGED videos \/ SaveVideo(h) \/ Patch(h)
      BY <2>2 DEF HandlerStep, BadRequest, SaveSession, GetStateSession, GetStateVideo,
                  ReadPatched, ReadVideo, Reply, docs
    <2>3. ASSUME NEW h \in Handlers, NEW s \in Sessions,
                 BeginSaveState(h, s) \/ BeginGetState(h, s)
          PROVE  UNCHANGED videos
      BY <2>3 DEF BeginSaveState, BeginSave, BeginGetState, docs
    <2>4. ASSUME NEW h \in Handlers, NEW w \in Videos,
                 BeginSaveVideo(h, w) \/ \E p \in Patches \cup {NoPatch} : BeginPatch(h, w, p)
          PROVE  UNCHANGED videos
      BY <2>4 DEF BeginSaveVideo, BeginSave, BeginPatch, docs
    <2>5. ASSUME Crash \/ \E s \in Sessions : DeleteSession(s)
          PROVE  UNCHANGED videos
      BY <2>5 DEF Crash, DeleteSession, docs
    <2>. QED BY <2>1, <2>2, <2>3, <2>4, <2>5 DEF Next
  <1>. QED BY <1>2, <1>3, <1>4, <1>5, <1>6

-----------------------------------------------------------------------------
(* The invariant that carries the properties of the store: what the        *)
(* documents are to one another and to the saves that were answered, and   *)
(* what the requests may count on.                                         *)
THEOREM UploadStateInvariant == Spec => []UploadStateInv
  <1>. QED BY InitOk, NextStep, PTL DEF Spec

(* The state of the store keeps its types. *)
THEOREM UploadStateTypes == Spec => []TypeOK
  <1>1. UploadStateInv => TypeOK
    BY DEF UploadStateInv
  <1>. QED BY UploadStateInvariant, <1>1, PTL

(* A session saved with the video it names is never stored without that    *)
(* video, unless the video was deleted (SaveState writes the video first). *)
THEOREM SessionsHaveVideos == Spec => []SessionHasVideo
  <1>1. UploadStateInv => SessionHasVideo
    BY UploadStateAssumption
       DEF UploadStateInv, DocInv, SessionOk, There, Stored, Agreeing, SessionHasVideo,
           ListVideos
  <1>. QED BY UploadStateInvariant, <1>1, PTL

(* GET state never answers a video of a save that was over before the      *)
(* session's save began, whichever saves overlap and whatever is deleted   *)
(* between the two reads.                                                  *)
THEOREM ReadsAreConsistent == Spec => []VideoNotOlderThanSession
  <1>1. UploadStateInv => VideoNotOlderThanSession
    BY UploadStateAssumption
       DEF UploadStateInv, RequestInv, RequestOk, AnswerOk, Agreeing,
           VideoNotOlderThanSession
  <1>. QED BY UploadStateInvariant, <1>1, PTL

(* A save answered 204 is not taken back, in either document, by a save    *)
(* that was over before it began.                                          *)
THEOREM AcknowledgedSavesAreKept == Spec => []AcknowledgedIsStored
  <1>1. UploadStateInv => AcknowledgedIsStored
    BY DEF UploadStateInv, DocInv, SessionOk, VideoOk, Current, There, Stored, ListVideos,
           AcknowledgedIsStored
  <1>. QED BY UploadStateInvariant, <1>1, PTL

(* The answer to an applied PATCH shows every field of it that no save and *)
(* no other PATCH has written between the update and the read.             *)
THEOREM PatchesAreVisible == Spec => []PatchIsVisible
  <1>1. UploadStateInv => PatchIsVisible
    BY DEF UploadStateInv, TypeOK, RequestInv, RequestOk, AnswerOk, PatchIsVisible
  <1>. QED BY UploadStateInvariant, <1>1, PTL

(* storage_confirmed_at, once set, survives every save by the UI: it goes  *)
(* only with the document, or by a PATCH that sets it to null.             *)
THEOREM ConfirmationsAreKept == Spec => ConfirmationKept
  <1> DEFINE A == \A v \in Videos :
                 videos[v] # NoDoc /\ videos[v].fields["storage_confirmed_at"] # "null" =>
                     \/ videos'[v] = NoDoc
                     \/ videos'[v].fields["storage_confirmed_at"] # "null"
                     \/ \E h \in Handlers : PatchedAway(h, v)
  <1>1. UploadStateInv /\ [Next]_vars => [A]_videos
    <2>1. ASSUME UploadStateInv, [Next]_vars PROVE A
      BY <2>1, ConfirmationStep
    <2>. QED BY <2>1
  <1>2. Spec => [][A]_videos
    BY <1>1, UploadStateInvariant, PTL DEF Spec
  <1>. QED BY <1>2 DEF ConfirmationKept
=============================================================================
