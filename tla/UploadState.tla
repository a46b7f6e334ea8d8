----------------------------- MODULE UploadState ------------------------------
(***************************************************************************)
(* The upload-state store (internal/uploadstate): the upload UI saves the  *)
(* state of a multipart upload as two documents, its session and its       *)
(* video, reads the two back to resume, and deletes them; webhooks and the *)
(* pipeline patch the video.  Each request makes one or two calls to       *)
(* MongoDB, each atomic on one document, and any of them may fail.         *)
(*                                                                         *)
(* Nothing serialises the saves of a video: those of two browsers overlap, *)
(* and a save goes on after its client gave up and sent the next.  A       *)
(* document has no version the store could compare, so what the store can  *)
(* promise of overlapping saves is what a regular register promises, and   *)
(* the properties below say that.                                          *)
(*                                                                         *)
(* A session is abstracted to the number of the save that wrote it, and a  *)
(* video to that number, which stands for what only saves write, and two   *)
(* fields that a PATCH may write as well: one that every save overwrites   *)
(* (status; progress and title are alike) and one that omitempty protects  *)
(* from saves (storage_confirmed_at).                                      *)
(***************************************************************************)
EXTENDS Naturals

Fields      == {"status", "storage_confirmed_at"}
SavedFields == {"status"}                          \* fields without omitempty
Values      == {"null", "sent", "patched"}

CONSTANTS Handlers, Sessions, Videos,
          VideoOf,     \* video.id in the saves of each session
          VideoIdOf,   \* session.videoId in them: nobody compares the two
          Patches,     \* bodies of PATCH requests: some fields and their values
          NoDoc, NoSession, NoVideo,
          MaxRev, MaxFaults, MaxCrashes   \* bounds of the model

ASSUME UploadStateAssumption ==
    /\ VideoOf \in [Sessions -> Videos] /\ VideoIdOf \in [Sessions -> Videos]
    /\ \A p \in Patches : /\ DOMAIN p \subseteq Fields
                          /\ \A f \in DOMAIN p : p[f] \in Values
    /\ NoSession \notin Sessions /\ NoVideo \notin Videos
    /\ NoDoc \notin Nat /\ NoDoc \notin [rev : Nat, fields : [Fields -> Values]]
    /\ MaxRev \in Nat /\ MaxFaults \in Nat /\ MaxCrashes \in Nat

VARIABLES
    sessions,  \* upload_sessions: the save that wrote each session's document
    videos,    \* videos: the document of each video
    req,       \* the request each handler works on
    rev,       \* the number of saves that have begun
    faults, crashes,
    \* History variables, which only the properties read:
    after,     \* the saves that were over when each save began
    ackedSession, ackedVideo,  \* the saves answered 204, of each document
    deleted,   \* videos deleted since they were last written by a save
    kept,      \* requests whose applied patch is of a document still there
    due        \* the fields of such a patch that nobody has written since

docs == <<sessions, videos>>
acks == <<ackedSession, ackedVideo>>
vars == <<sessions, videos, req, rev, faults, crashes, after, ackedSession,
          ackedVideo, deleted, kept, due>>

Saves    == 1..MaxRev
VideoDoc == [rev : Saves, fields : [Fields -> Values]]
NoPatch  == [f \in {} |-> "null"]
PCs == {"idle", "saveVideo", "saveSession", "getSession", "getVideo", "patch",
        "readPatched", "answered"}
Statuses == {0, 200, 204, 400, 404, 500}
Requests == [pc : PCs, session : Sessions \cup {NoSession},
             video : Videos \cup {NoVideo}, rev : 0..MaxRev,
             patch : Patches \cup {NoPatch},
             seen : VideoDoc \cup {NoDoc}, status : Statuses]

Idle == [pc |-> "idle", session |-> NoSession, video |-> NoVideo, rev |-> 0,
         patch |-> NoPatch, seen |-> NoDoc, status |-> 0]

At(h, pc)    == req[h].pc = pc
Goto(h, pc)  == req' = [req EXCEPT ![h].pc = pc]

(* An answer without a document. *)
Answer(h, s) == req' = [req EXCEPT ![h] = [Idle EXCEPT !.pc = "answered", !.status = s]]

Fine  == UNCHANGED faults
Fault == faults < MaxFaults /\ faults' = faults + 1

(* The saves that have begun and are not over.  One is over when it is     *)
(* answered or the process dies.                                           *)
Savers   == {h \in Handlers : req[h].pc \in {"saveVideo", "saveSession"}}
InFlight == {req[h].rev : h \in Savers}

(* What the patches of v still have to show once the fields F are written. *)
Overwritten(v, F) ==
    [h \in Handlers |-> IF req[h].video = v THEN due[h] \ F ELSE due[h]]

-----------------------------------------------------------------------------
(* PUT of a session and of a video: 400 for a body without the ids, else   *)
(* a save that may overlap any other.                                      *)
BeginSave(h, v, s) ==
    /\ At(h, "idle") /\ rev < MaxRev
    /\ rev' = rev + 1
    /\ after' = [after EXCEPT ![rev + 1] = (1..rev) \ InFlight]
    /\ req' = [req EXCEPT ![h] = [Idle EXCEPT !.pc = "saveVideo",
                  !.session = s, !.video = v, !.rev = rev + 1]]
    /\ UNCHANGED <<docs, acks, deleted, kept, due, faults, crashes>>

BeginSaveState(h, s) == BeginSave(h, VideoOf[s], s)
BeginSaveVideo(h, v) == BeginSave(h, v, NoSession)

(* A body that does not parse, of a PATCH too, is as little.               *)
BadRequest(h) ==
    /\ At(h, "idle")
    /\ Answer(h, 400)
    /\ UNCHANGED <<docs, rev, after, acks, deleted, kept, due, faults, crashes>>

(* Mutant: storage_confirmed_at without omitempty: a save resets it. *)
SetVideoErases(v, r) ==
    /\ videos' = [videos EXCEPT ![v] =
          [rev |-> r, fields |-> [f \in Fields |->
              IF f \in SavedFields THEN "sent" ELSE "null"]]]
    /\ deleted' = deleted \ {v}
    /\ due' = Overwritten(v, SavedFields)

(* $set with upsert.  A save sends no storage_confirmed_at, and omitempty  *)
(* leaves the stored one alone.                                            *)
SetVideo(v, r) ==
    /\ videos' = [videos EXCEPT ![v] =
          [rev |-> r, fields |-> [f \in Fields |->
              IF f \in SavedFields THEN "sent"
              ELSE IF videos[v] = NoDoc THEN "null" ELSE videos[v].fields[f]]]]
    /\ deleted' = deleted \ {v}
    /\ due' = Overwritten(v, SavedFields)

(* The PUT of a video ends with that write; SaveState has the session to   *)
(* write yet.                                                              *)
VideoSaved(h) ==
    LET v == req[h].video
    IN  \/ /\ req[h].session = NoSession
           /\ Answer(h, 204)
           /\ ackedVideo' = [ackedVideo EXCEPT ![v] = @ \cup {req[h].rev}]
        \/ /\ req[h].session # NoSession
           /\ Goto(h, "saveSession")
           /\ UNCHANGED ackedVideo

(* Mutant: the error of the video's write is not returned. *)
SaveVideoIgnoresError(h) ==
    /\ At(h, "saveVideo")
    /\ \/ Fine /\ SetVideo(req[h].video, req[h].rev)
       \/ Fault /\ UNCHANGED <<videos, deleted, due>>
    /\ VideoSaved(h)
    /\ UNCHANGED <<sessions, rev, after, ackedSession, kept, crashes>>

SaveVideo(h) ==
    LET r == req[h]
    IN  /\ At(h, "saveVideo")
        /\ \/ Fine /\ SetVideo(r.video, r.rev) /\ VideoSaved(h)
           \/ /\ Fault /\ Answer(h, 500)
              /\ SetVideo(r.video, r.rev) \/ UNCHANGED <<videos, deleted, due>>
              /\ UNCHANGED ackedVideo
        /\ UNCHANGED <<sessions, rev, after, ackedSession, kept, crashes>>

(* Mutant: the error of the session's write is not returned. *)
SaveSessionIgnoresError(h) ==
    LET r == req[h]
    IN  /\ At(h, "saveSession")
        /\ \/ Fine /\ sessions' = [sessions EXCEPT ![r.session] = r.rev]
           \/ Fault /\ UNCHANGED sessions
        /\ Answer(h, 204)
        /\ ackedSession' = [ackedSession EXCEPT ![r.session] = @ \cup {r.rev}]
        /\ ackedVideo' = [ackedVideo EXCEPT ![r.video] = @ \cup {r.rev}]
        /\ UNCHANGED <<videos, rev, after, deleted, kept, due, crashes>>

SaveSession(h) ==
    LET r == req[h]
        write == sessions' = [sessions EXCEPT ![r.session] = r.rev]
    IN  /\ At(h, "saveSession")
        /\ \/ /\ Fine /\ write /\ Answer(h, 204)
              /\ ackedSession' = [ackedSession EXCEPT ![r.session] = @ \cup {r.rev}]
              /\ ackedVideo' = [ackedVideo EXCEPT ![r.video] = @ \cup {r.rev}]
           \/ /\ Fault /\ (write \/ UNCHANGED sessions) /\ Answer(h, 500)
              /\ UNCHANGED acks
        /\ UNCHANGED <<videos, rev, after, deleted, kept, due, crashes>>

-----------------------------------------------------------------------------
(* GET of a session reads it, then the video that it names.                *)
BeginGetState(h, s) ==
    /\ At(h, "idle")
    /\ req' = [req EXCEPT ![h] = [Idle EXCEPT !.pc = "getSession", !.session = s,
                                              !.video = VideoIdOf[s]]]
    /\ UNCHANGED <<docs, rev, after, acks, deleted, kept, due, faults, crashes>>

GetStateSession(h) ==
    LET s == req[h].session
    IN  /\ At(h, "getSession")
        /\ \/ Fine /\ sessions[s] = NoDoc /\ Answer(h, 404)
           \/ /\ Fine /\ sessions[s] # NoDoc
              /\ req' = [req EXCEPT ![h].pc = "getVideo", ![h].rev = sessions[s]]
           \/ Fault /\ Answer(h, 500)
        /\ UNCHANGED <<docs, rev, after, acks, deleted, kept, due, crashes>>

(* GetVideo, the last call of GetState and of PatchVideo. *)
ReadVideo(h) ==
    LET v == req[h].video
    IN  /\ \/ Fine /\ videos[v] = NoDoc /\ Answer(h, 404)
           \/ /\ Fine /\ videos[v] # NoDoc
              /\ req' = [req EXCEPT ![h].pc = "answered", ![h].status = 200,
                                    ![h].seen = videos[v]]
           \/ Fault /\ Answer(h, 500)
        /\ UNCHANGED <<docs, rev, after, acks, deleted, kept, due, crashes>>

GetStateVideo(h) == At(h, "getVideo") /\ ReadVideo(h)

-----------------------------------------------------------------------------
(* PATCH of a video, with any fields; the webhook's is one of them.  An    *)
(* empty patch, like the GET of the video, only reads it.                  *)
BeginPatch(h, v, p) ==
    /\ At(h, "idle")
    /\ req' = [req EXCEPT ![h] = [Idle EXCEPT !.video = v, !.patch = p,
                  !.pc = IF DOMAIN p = {} THEN "readPatched" ELSE "patch"]]
    /\ UNCHANGED <<docs, rev, after, acks, deleted, kept, due, faults, crashes>>

Patched(fields, p) ==
    [f \in Fields |-> IF f \in DOMAIN p THEN p[f] ELSE fields[f]]

(* $set without upsert. *)
SetFields(h) ==
    LET v == req[h].video
        p == req[h].patch
    IN  /\ videos[v] # NoDoc
        /\ videos' = [videos EXCEPT ![v].fields = Patched(videos[v].fields, p)]
        /\ due' = [Overwritten(v, DOMAIN p) EXCEPT ![h] = DOMAIN p]

(* Mutant: the patch is an upsert, of a document without a revision. *)
PatchUpserts(h) ==
    LET v == req[h].video
    IN  /\ At(h, "patch") /\ Fine
        /\ videos[v] = NoDoc
        /\ videos' = [videos EXCEPT ![v] = [fields |-> req[h].patch]]
        /\ Goto(h, "readPatched")
        /\ UNCHANGED <<sessions, rev, after, acks, deleted, kept, due, crashes>>

(* Mutant: FindOneAndUpdate, which returns the document before the update. *)
PatchReturnsOld(h) ==
    /\ At(h, "patch") /\ Fine /\ SetFields(h)
    /\ req' = [req EXCEPT ![h].pc = "answered", ![h].status = 200,
                          ![h].seen = videos[req[h].video]]
    /\ kept' = kept \cup {h}
    /\ UNCHANGED <<sessions, rev, after, acks, deleted, crashes>>

Patch(h) ==
    /\ At(h, "patch")
    /\ \/ /\ Fine /\ SetFields(h) /\ Goto(h, "readPatched")
          /\ kept' = kept \cup {h}
       \/ /\ Fine /\ videos[req[h].video] = NoDoc /\ Answer(h, 404)
          /\ UNCHANGED <<videos, kept, due>>
       \/ /\ Fault /\ Answer(h, 500)
          /\ SetFields(h) \/ UNCHANGED <<videos, due>>
          /\ UNCHANGED kept
    /\ UNCHANGED <<sessions, rev, after, acks, deleted, crashes>>

ReadPatched(h) == At(h, "readPatched") /\ ReadVideo(h)

(* GET /upload-state/videos: every document of a video, or those that      *)
(* match the query.                                                        *)
ListVideos == {v \in Videos : videos[v] # NoDoc}

-----------------------------------------------------------------------------
(* DELETE of a session and of a video; neither touches the other.          *)
DeleteSession(s) ==
    /\ sessions[s] # NoDoc
    /\ sessions' = [sessions EXCEPT ![s] = NoDoc]
    /\ ackedSession' = [ackedSession EXCEPT ![s] = {}]
    /\ UNCHANGED <<videos, req, rev, after, ackedVideo, deleted, kept, due, faults,
                   crashes>>

DeleteVideo(v) ==
    /\ videos[v] # NoDoc
    /\ videos' = [videos EXCEPT ![v] = NoDoc]
    /\ deleted' = deleted \cup {v}
    /\ kept' = {h \in kept : req[h].video # v}
    /\ UNCHANGED <<sessions, req, rev, after, acks, due, faults, crashes>>

Reply(h) ==
    /\ At(h, "answered")
    /\ req' = [req EXCEPT ![h] = Idle]
    /\ kept' = kept \ {h}
    /\ due' = [due EXCEPT ![h] = {}]
    /\ UNCHANGED <<docs, rev, after, acks, deleted, faults, crashes>>

Crash ==
    /\ crashes < MaxCrashes
    /\ crashes' = crashes + 1
    /\ req' = [h \in Handlers |-> Idle]
    /\ kept' = {}
    /\ due' = [h \in Handlers |-> {}]
    /\ UNCHANGED <<docs, rev, after, acks, deleted, faults>>

-----------------------------------------------------------------------------
Init ==
    /\ sessions = [s \in Sessions |-> NoDoc]
    /\ videos = [v \in Videos |-> NoDoc]
    /\ req = [h \in Handlers |-> Idle]
    /\ rev = 0 /\ faults = 0 /\ crashes = 0
    /\ after = [n \in Saves |-> {}]
    /\ ackedSession = [s \in Sessions |-> {}]
    /\ ackedVideo = [v \in Videos |-> {}]
    /\ deleted = {} /\ kept = {}
    /\ due = [h \in Handlers |-> {}]

HandlerStep(h) ==
    \/ SaveVideo(h) \/ SaveSession(h)
    \/ GetStateSession(h) \/ GetStateVideo(h)
    \/ Patch(h) \/ ReadPatched(h) \/ Reply(h)

Next ==
    \/ \E h \in Handlers, s \in Sessions : BeginSaveState(h, s) \/ BeginGetState(h, s)
    \/ \E h \in Handlers, v \in Videos :
          \/ BeginSaveVideo(h, v)
          \/ \E p \in Patches \cup {NoPatch} : BeginPatch(h, v, p)
    \/ \E h \in Handlers : HandlerStep(h) \/ BadRequest(h)
    \/ \E v \in Videos : DeleteVideo(v)
    \/ \E s \in Sessions : DeleteSession(s)
    \/ Crash

Spec == Init /\ [][Next]_vars

-----------------------------------------------------------------------------
TypeOK ==
    /\ sessions \in [Sessions -> Saves \cup {NoDoc}]
    /\ videos \in [Videos -> VideoDoc \cup {NoDoc}]
    /\ req \in [Handlers -> Requests]
    /\ rev \in 0..MaxRev
    /\ faults \in 0..MaxFaults /\ crashes \in 0..MaxCrashes
    /\ after \in [Saves -> SUBSET Saves]
    /\ ackedSession \in [Sessions -> SUBSET Saves]
    /\ ackedVideo \in [Videos -> SUBSET Saves]
    /\ deleted \subseteq Videos /\ kept \subseteq Handlers
    /\ due \in [Handlers -> SUBSET Fields]

(* The sessions whose client names the video it saves with them.  The      *)
(* handler asks for two ids, not for their being equal (handler.go:22).    *)
Agreeing == {s \in Sessions : VideoIdOf[s] = VideoOf[s]}

(* Such a session is never left without its video: a save that fails or    *)
(* dies between its two writes leaves a video without a session, which a   *)
(* retry completes (repository.go:113-132).  Only a DELETE of the video,   *)
(* or one that runs between the two writes, leaves a session alone.        *)
SessionHasVideo ==
    \A s \in Agreeing :
        sessions[s] # NoDoc => VideoIdOf[s] \in ListVideos \cup deleted

(* GET of such a session never pairs it with the video of a save that was  *)
(* over before the session's own save began: the video is written first    *)
(* and read last, so the UI does not resume from chunks that the video     *)
(* does not count yet.  The video may be of a save that overlapped, older  *)
(* or newer: SaveState has no transaction and compares no versions.        *)
VideoNotOlderThanSession ==
    \A h \in Handlers :
        LET r == req[h]
        IN  r.pc = "answered" /\ r.status = 200 /\ r.session \in Agreeing =>
                r.seen.rev \notin after[r.rev]

(* A save answered 204 is not taken back by an earlier one: until they are *)
(* deleted, its documents are there, and are never of a save that was over *)
(* before it began.  A save that overlapped it may still replace it.       *)
AcknowledgedIsStored ==
    /\ \A s \in Sessions : \A n \in ackedSession[s] :
          sessions[s] # NoDoc /\ sessions[s] \notin after[n]
    /\ \A v \in Videos \ deleted : \A n \in ackedVideo[v] :
          v \in ListVideos /\ videos[v].rev \notin after[n]

(* The answer to a PATCH that was applied shows each of its fields, unless *)
(* a save or another PATCH has written that field since, and is no 404     *)
(* unless the video was deleted since.  The code reads the document in a   *)
(* second call, after the update (repository.go:225-237).                  *)
PatchIsVisible ==
    \A h \in kept :
        LET r == req[h]
        IN  r.pc = "answered" =>
                \/ r.status = 500
                \/ r.status = 200 /\ \A f \in due[h] : r.seen.fields[f] = r.patch[f]

(* h applies a PATCH that sets storage_confirmed_at of v to null. *)
PatchedAway(h, v) ==
    /\ At(h, "patch") /\ ~At(h, "patch")' /\ req[h].video = v
    /\ "storage_confirmed_at" \in DOMAIN req[h].patch
    /\ req[h].patch["storage_confirmed_at"] = "null"

(* storage_confirmed_at, once set by the webhook's patch, survives every   *)
(* later save by the UI; it goes only with the document or by a PATCH that *)
(* sets it to null (repository.go:51, docs/upload-status-stages.md:26).    *)
ConfirmationKept ==
    [][\A v \in Videos :
          videos[v] # NoDoc /\ videos[v].fields["storage_confirmed_at"] # "null" =>
              \/ videos'[v] = NoDoc
              \/ videos'[v].fields["storage_confirmed_at"] # "null"
              \/ \E h \in Handlers : PatchedAway(h, v)]_videos
=============================================================================
