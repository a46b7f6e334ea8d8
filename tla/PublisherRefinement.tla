-------------------------- MODULE PublisherRefinement -------------------------
(***************************************************************************)
(* Publisher implements PublisherPort, for every set of callers: every     *)
(* step of the connections behind it is a step of the port or none.        *)
(***************************************************************************)
EXTENDS PublisherProofs

(* A call has its result exactly when it is about to return. *)
ResultInv ==
    \A c \in Callers :
        /\ call[c].pc \notin {"idle", "unlock"} => call[c].result = "none"
        /\ call[c].pc = "unlock" => call[c].result \in {"ok", "error"}

(* The calls of everyone but c stay; c's goes on, returns or starts anew.  *)
CallMoves(c) ==
    LET old == call[c]
        new == call'[c]
    IN  \/ /\ old.pc \notin {"idle", "unlock"} /\ new.pc \notin {"idle", "unlock"}
           /\ new.result = old.result /\ new.published = old.published
        \/ /\ old.pc \notin {"idle", "unlock"} /\ new.pc = "unlock"
           /\ \/ new.result = "ok" /\ new.published \in {old.published, old.published + 1}
              \/ new.result = "error" /\ new.published = old.published
        \/ /\ old.pc = "unlock" /\ new.pc = "idle"
           /\ new.result = old.result /\ new.published = old.published
        \/ /\ old.pc = "idle" /\ new.published = 0
           /\ \/ new.pc = "locking" /\ new.result = "none"
              \/ new.pc = "idle" /\ new.result = "refused"

OneCallMoves ==
    \/ UNCHANGED call
    \/ \E c \in Callers : /\ call' \in [Callers -> Call]
                          /\ \A b \in Callers \ {c} : call'[b] = call[b]
                          /\ CallMoves(c)

-----------------------------------------------------------------------------
(* Every step moves at most one call *)

LEMMA InsideMoves ==
    ASSUME TypeOK, NEW c \in Callers, Lock(c) \/ Proceed(c)
    PROVE  OneCallMoves
<1>1. call \in [Callers -> Call]
  BY DEF TypeOK
<1>2. /\ call' \in [Callers -> Call] /\ \A b \in Callers \ {c} : call'[b] = call[b]
      /\ CallMoves(c)
  <2>1. ASSUME NEW pc \in PCs \ {"idle", "unlock"}, Goto(c, pc),
               call[c].pc \notin {"idle", "unlock"}
        PROVE  <1>2
    BY <1>1, <2>1, GotoCall DEF CallMoves
  <2>2. ASSUME ReconnectFails(c), call[c].pc \notin {"idle", "unlock"} PROVE <1>2
    BY <2>2, FailedCall DEF CallMoves
  <2>3. CASE Lock(c)
    BY <2>1, <2>3, LabelTypes DEF Lock, At
  <2>4. CASE TryPublish(c) \/ RetryPublish(c)
    <3>1. call[c].pc \in {"publish", "retry"}
      BY <2>4 DEF TryPublish, RetryPublish, At
    <3>2. CASE Deliver(c)
      BY <1>1, <3>1, <3>2, DeliverCall DEF CallMoves
    <3>3. CASE Goto(c, "dial")
      BY <2>1, <3>1, <3>3, LabelTypes
    <3>4. CASE Return(c, "error")
      BY <1>1, <3>1, <3>4, ReturnCall, LabelTypes DEF CallMoves
    <3> QED
      BY <2>4, <3>2, <3>3, <3>4 DEF TryPublish, RetryPublish
  <2>5. CASE Unlock(c)
    <3>1. call[c].pc = "unlock" /\ Goto(c, "idle")
      BY <2>5 DEF Unlock, At
    <3> QED
      BY <1>1, <3>1, GotoCall, LabelTypes DEF CallMoves
  <2>6. CASE Dial(c)
    <3>1. call[c].pc = "dial"
      BY <2>6 DEF Dial, At
    <3>2. CASE /\ links' = Append(links, Dialled)
               /\ call' = [call EXCEPT ![c].pc = "openChannel", ![c].fresh = Len(links')]
      <4>1. Len(links') \in Nat
        <5>1. PICK d \in Link : d = Dialled
          BY LinkTypes
        <5> QED
          BY <3>2, <5>1 DEF TypeOK
      <4> QED
        BY <1>1, <3>1, <3>2, <4>1, FreshCall DEF CallMoves
    <3> QED
      BY <2>2, <2>6, <3>1, <3>2 DEF Dial
  <2>7. CASE OpenChannel(c) \/ Declare(c)
    <3>1. call[c].pc \in {"openChannel", "declare"}
      BY <2>7 DEF OpenChannel, Declare, At
    <3>2. Goto(c, "declare") \/ Goto(c, "closeOldChannel") \/ ReconnectFails(c)
      BY <2>7 DEF OpenChannel, Declare
    <3> QED
      BY <2>1, <2>2, <3>1, <3>2, LabelTypes
  <2>8. CASE CloseOldChannel(c) \/ CloseOldConn(c) \/ SetConn(c) \/ SetChannel(c)
    <3>1. call[c].pc \in {"closeOldChannel", "closeOldConn", "setConn", "setChannel"}
      BY <2>8 DEF CloseOldChannel, CloseOldConn, SetConn, SetChannel, At
    <3>2. \/ Goto(c, "closeOldConn") \/ Goto(c, "setConn")
          \/ Goto(c, "setChannel") \/ Goto(c, "retry")
      BY <2>8 DEF CloseOldChannel, CloseOldConn, SetConn, SetChannel
    <3> QED
      BY <2>1, <3>1, <3>2, LabelTypes
  <2> QED
    BY <2>3, <2>4, <2>5, <2>6, <2>7, <2>8 DEF Proceed
<1> QED
  BY <1>2 DEF OneCallMoves

LEMMA BeginMoves ==
    ASSUME TypeOK, NEW c \in Callers, Begin(c)
    PROVE  OneCallMoves
<1>1. PICK start \in {[pc |-> "locking", result |-> "none"],
                      [pc |-> "idle", result |-> "refused"]} :
         call' = [call EXCEPT ![c] = [pc |-> start.pc, fresh |-> 0,
                                      result |-> start.result, published |-> 0]]
  BY DEF Begin
<1>2. call \in [Callers -> Call] /\ call[c].pc = "idle"
  BY DEF TypeOK, Begin, At
<1>3. start.pc \in {"idle", "locking"} /\ start.result \in Results
  BY <1>1, LabelTypes
<1>4. [pc |-> start.pc, fresh |-> 0, result |-> start.result, published |-> 0] \in Call
  BY <1>3, LabelTypes DEF Call
<1>5. /\ call' \in [Callers -> Call] /\ \A b \in Callers \ {c} : call'[b] = call[b]
      /\ call'[c].pc = start.pc /\ call'[c].result = start.result
      /\ call'[c].published = 0
  BY <1>1, <1>2, <1>4
<1>6. \/ start.pc = "locking" /\ start.result = "none"
      \/ start.pc = "idle" /\ start.result = "refused"
  BY <1>1
<1> QED
  BY <1>2, <1>5, <1>6 DEF OneCallMoves, CallMoves

LEMMA StepMoves ==
    ASSUME TypeOK, [Next]_vars
    PROVE  OneCallMoves
<1>1. ASSUME NEW c \in Callers, Begin(c) \/ Lock(c) \/ Proceed(c)
      PROVE  OneCallMoves
  BY <1>1, BeginMoves, InsideMoves
<1>2. CASE NewPublisher \/ GiveUp \/ CloseChannel \/ CloseConn \/ Exit \/ UNCHANGED vars
  BY <1>2 DEF NewPublisher, GiveUp, CloseChannel, CloseConn, Exit, vars, OneCallMoves
<1>3. ASSUME NEW k \in DOMAIN links, BrokerDrop(k) PROVE OneCallMoves
  BY <1>3 DEF BrokerDrop, OneCallMoves
<1> QED
  BY <1>1, <1>2, <1>3 DEF Next

-----------------------------------------------------------------------------
(* A move of a call is a step of the port *)

(* Writing one call is writing one entry of each of the port's variables.  *)
LEMMA PortSet ==
    ASSUME call \in [Callers -> Call], call' \in [Callers -> Call], NEW c \in Callers,
           \A b \in Callers \ {c} : call'[b] = call[b],
           NEW s, NEW r, NEW n,
           Stage(call'[c]) = s, call'[c].result = r, call'[c].published = n
    PROVE  Port!Set(c, s, r, n)
BY DEF Port!Set, Stage

LEMMA PortStep ==
    ASSUME PublisherInv, ResultInv, OneCallMoves
    PROVE  [Port!Next]_(Port!vars) /\ ResultInv'
<1>1. CASE UNCHANGED call
  BY <1>1 DEF Port!vars, ResultInv
<1>2. ASSUME NEW c \in Callers, call' \in [Callers -> Call],
             \A b \in Callers \ {c} : call'[b] = call[b], CallMoves(c)
      PROVE  [Port!Next]_(Port!vars) /\ ResultInv'
  <2>1. call \in [Callers -> Call]
    BY DEF PublisherInv, TypeOK
  <2>2. ASSUME NEW s, NEW r, NEW n,
               Stage(call'[c]) = s, call'[c].result = r, call'[c].published = n
        PROVE  Port!Set(c, s, r, n)
    BY <1>2, <2>1, <2>2, PortSet
  <2>3. ResultInv'
    <3>1. /\ call'[c].pc \notin {"idle", "unlock"} => call'[c].result = "none"
          /\ call'[c].pc = "unlock" => call'[c].result \in {"ok", "error"}
      BY <1>2 DEF CallMoves, ResultInv
    <3> QED
      BY <1>2, <3>1 DEF ResultInv
  <2> DEFINE old == call[c]
             new == call'[c]
  <2>4. /\ old.pc \notin {"idle", "unlock"} =>
              old.result = "none" /\ old.published = 0
        /\ old.pc = "unlock" => old.result \in {"ok", "error"}
    <3>1. old.published \in Nat /\ CallOk(c)
      BY <2>1 DEF PublisherInv, CallInv, Call
    <3> QED
      BY <3>1 DEF CallOk, ResultInv
  <2>5. CASE old.pc \notin {"idle", "unlock"} /\ new.pc \notin {"idle", "unlock"}
    <3>1. Stage(new) = Stage(old) /\ new.result = old.result
          /\ new.published = old.published
      BY <1>2, <2>4, <2>5 DEF CallMoves, Stage
    <3> QED
      BY <1>2, <2>1, <2>3, <3>1 DEF Port!vars
  <2>6. CASE old.pc \notin {"idle", "unlock"} /\ new.pc = "unlock"
    <3>1. Stage(old) = "open" /\ Stage(new) = "returning"
      BY <1>2, <2>4, <2>6 DEF CallMoves, Stage
    <3>2. \/ new.result = "ok" /\ new.published \in {0, 1}
          \/ new.result = "error" /\ new.published = 0
      BY <1>2, <2>4, <2>6 DEF CallMoves
    <3>3. \/ Port!Set(c, "returning", "ok", 1) \/ Port!Set(c, "returning", "ok", 0)
          \/ Port!Set(c, "returning", "error", 0)
      BY <2>2, <3>1, <3>2
    <3>4. Port!Send(c) \/ Port!Lose(c) \/ Port!Fail(c)
      BY <3>1, <3>3 DEF Port!Send, Port!Lose, Port!Fail
    <3> QED
      BY <2>3, <3>4 DEF Port!Next
  <2>7. CASE old.pc = "unlock"
    <3>1. Stage(old) = "returning" /\ Stage(new) = "idle"
          /\ new.result = old.result /\ new.published = old.published
      BY <1>2, <2>4, <2>7 DEF CallMoves, Stage
    <3>2. Port!Return(c)
      <4>1. PICK r, n : r = call[c].result /\ n = call[c].published
        OBVIOUS
      <4>2. Port!Set(c, "idle", r, n)
        BY <2>2, <3>1, <4>1
      <4> QED
        BY <3>1, <4>1, <4>2 DEF Port!Return, Port!Set
    <3> QED
      BY <2>3, <3>2 DEF Port!Next
  <2>8. CASE old.pc = "idle"
    <3>1. /\ Stage(old) = "idle" /\ new.published = 0
          /\ \/ Stage(new) = "open" /\ new.result = "none"
             \/ Stage(new) = "idle" /\ new.result = "refused"
      BY <1>2, <2>8 DEF CallMoves, Stage
    <3>2. Port!Ask(c)
      <4>1. Port!Set(c, "open", "none", 0) \/ Port!Set(c, "idle", "refused", 0)
        BY <2>2, <3>1
      <4> QED
        BY <3>1, <4>1 DEF Port!Ask
    <3> QED
      BY <2>3, <3>2 DEF Port!Next
  <2> QED
    BY <1>2, <2>5, <2>6, <2>7, <2>8 DEF CallMoves
<1> QED
  BY <1>1, <1>2 DEF OneCallMoves

-----------------------------------------------------------------------------
(* Callers of the publisher see the port and nothing else: whatever the    *)
(* broker does to the connections, however callers interleave and whenever *)
(* Close runs (publisher.go:134-192).                                      *)
THEOREM PublisherImplementsPort == Spec => ImplementsPort
<1>1. Init => Port!Init /\ ResultInv
  BY DEF Init, Port!Init, Stage, ResultInv
<1>2. PublisherInv /\ ResultInv /\ [Next]_vars => [Port!Next]_(Port!vars) /\ ResultInv'
  BY StepMoves, PortStep DEF PublisherInv
<1> QED
  BY <1>1, <1>2, PublisherInvariant, PTL DEF Spec, ImplementsPort, Port!Spec
=============================================================================
