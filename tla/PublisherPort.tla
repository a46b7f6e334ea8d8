---------------------------- MODULE PublisherPort -----------------------------
(***************************************************************************)
(* What a caller of MessagePublisher is promised, whatever connections the *)
(* publisher has behind it: a call ends once, with a result that tells     *)
(* whether the message may have gone out, and it goes out at most once.    *)
(* An accepted message may be lost all the same, for there are no          *)
(* confirms.  Ingest's PublishOk and PublishErr are the steps of this      *)
(* port, and Publisher implements it.                                      *)
(***************************************************************************)
EXTENDS Naturals

CONSTANT Callers

VARIABLES
    stage,   \* of the call each caller makes: idle, open, returning
    result,  \* of its last call
    sent     \* the copies of its message that reached the broker

vars == <<stage, result, sent>>

Init ==
    /\ stage = [c \in Callers |-> "idle"]
    /\ result = [c \in Callers |-> "none"]
    /\ sent = [c \in Callers |-> 0]

Set(c, s, r, n) ==
    /\ stage' = [stage EXCEPT ![c] = s]
    /\ result' = [result EXCEPT ![c] = r]
    /\ sent' = [sent EXCEPT ![c] = n]

Ask(c) ==
    /\ stage[c] = "idle"
    /\ Set(c, "open", "none", 0) \/ Set(c, "idle", "refused", 0)

Send(c) == stage[c] = "open" /\ Set(c, "returning", "ok", 1)

Lose(c) == stage[c] = "open" /\ Set(c, "returning", "ok", 0)

Fail(c) == stage[c] = "open" /\ Set(c, "returning", "error", 0)

Return(c) == stage[c] = "returning" /\ Set(c, "idle", result[c], sent[c])

Next == \E c \in Callers : Ask(c) \/ Send(c) \/ Lose(c) \/ Fail(c) \/ Return(c)

Spec == Init /\ [][Next]_vars
=============================================================================
