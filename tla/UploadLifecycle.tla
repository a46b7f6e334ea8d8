--------------------------- MODULE UploadLifecycle ---------------------------
(***************************************************************************)
(* What the gateway promises about an upload, in terms of one phase and    *)
(* one selection per video and of what has been announced: the selection   *)
(* is written once, a stored upload stays stored, the start of an upload   *)
(* is announced once, and the storage webhook announces its completion     *)
(* only when it is stored, with the registered selection or with none.     *)
(* Every other message of a front end is passed on as it comes.            *)
(***************************************************************************)
EXTENDS Naturals, Sequences

CONSTANTS VideoIds, Selections, NoSelection, Messages

VARIABLES phase,      \* of each video: absent, uploading, stored
          selection,  \* of each video, NoSelection until it is registered
          announced   \* the messages published, in order

vars == <<phase, selection, announced>>

Init == /\ phase = [v \in VideoIds |-> "absent"]
        /\ selection = [v \in VideoIds |-> NoSelection]
        /\ announced = <<>>

(* The front end registers an upload nothing is known of yet. *)
Register(v, sel) ==
    /\ phase[v] = "absent"
    /\ phase' = [phase EXCEPT ![v] = "uploading"]
    /\ selection' = [selection EXCEPT ![v] = sel]
    /\ UNCHANGED announced

(* Its object is seen in a store. *)
Store(v) ==
    /\ phase[v] # "stored"
    /\ phase' = [phase EXCEPT ![v] = "stored"]
    /\ UNCHANGED <<selection, announced>>

StartAnnounced(v) == \E i \in DOMAIN announced :
    announced[i].type = "upload.started" /\ announced[i].videoId = v

(* An upload.completed that a front end posts needs no justification: the  *)
(* gateway publishes it under the webhook's routing key unchecked.         *)
Justified(m) ==
    /\ m.type = "upload.started" => /\ m.videoId \in VideoIds
                                    /\ phase[m.videoId] # "absent"
                                    /\ ~StartAnnounced(m.videoId)
    /\ m.source = "webhook" => /\ m.videoId \in VideoIds
                               /\ phase[m.videoId] = "stored"
                               /\ m.sel \in {selection[m.videoId], NoSelection}

Announce(m) == /\ announced' = Append(announced, m)
               /\ Justified(m)
               /\ UNCHANGED <<phase, selection>>

Next == \/ \E v \in VideoIds : Store(v) \/ \E sel \in Selections : Register(v, sel)
        \/ \E m \in Messages : Announce(m)

Spec == Init /\ [][Next]_vars
=============================================================================
