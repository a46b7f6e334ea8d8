--------------------------- MODULE PublisherProofs ----------------------------
(***************************************************************************)
(* Theorems about Publisher, for every set of callers and whatever the     *)
(* bounds: the mutex covers every step of a call, so a reconnect neither   *)
(* leaks a connection nor takes another caller's, it leaves the publisher  *)
(* with a connection and a channel that belong together, and an error      *)
(* means that nothing was published and that the broker was to blame.      *)
(***************************************************************************)
EXTENDS Publisher, FiniteSetTheorems, TLAPS

(* A caller past the mutex holds it. *)
MutexInv == \A c \in Callers : Inside(c) => mu = c

(* How far a call has come: until its result is known nothing was          *)
(* published, and a reconnect in progress has a link of its own.           *)
CallOk(c) ==
    LET k == call[c]
    IN  /\ k.published <= 1
        /\ k.published = 1 => k.result = "ok" /\ k.pc \in {"idle", "unlock"}
        /\ k.pc \in {"openChannel", "declare", "closeOldChannel", "closeOldConn",
                     "setConn", "setChannel", "retry"} => k.fresh # 0
        /\ k.pc \in {"locking", "publish", "dial"} => k.fresh = 0
        /\ k.pc = "setConn" => pConn # 0 /\ links[pConn].conn = "closed"
        /\ k.pc \in {"setChannel", "retry"} => pConn = k.fresh
        /\ k.pc = "retry" => pChannel = k.fresh
        /\ k.pc = "unlock" /\ k.fresh # 0 =>
              pConn = k.fresh \/ links[k.fresh].conn = "closed"

CallInv == \A c \in Callers : CallOk(c)

PublisherInv == TypeOK /\ MutexInv /\ CallInv /\ NoConnectionLeak

-----------------------------------------------------------------------------
(* Type correctness *)

LEMMA LabelTypes ==
    /\ "idle" \in PCs /\ "locking" \in PCs /\ "publish" \in PCs /\ "dial" \in PCs
    /\ "openChannel" \in PCs /\ "declare" \in PCs
    /\ "closeOldChannel" \in PCs /\ "closeOldConn" \in PCs
    /\ "setConn" \in PCs /\ "setChannel" \in PCs /\ "retry" \in PCs /\ "unlock" \in PCs
    /\ "none" \in Results /\ "ok" \in Results /\ "error" \in Results
    /\ "refused" \in Results
    /\ "starting" \in Phases /\ "serving" \in Phases /\ "closing" \in Phases
    /\ "closed" \in Phases /\ "exited" \in Phases
BY DEF PCs, Results, Phases

LEMMA LinkTypes ==
    /\ Dialled \in Link /\ Closed \in Link
    /\ \A ch \in {"none", "open", "declared", "closed"} :
          [Dialled EXCEPT !.channel = ch] \in Link
    /\ \A k \in Link : /\ [k EXCEPT !.conn = "dead"] \in Link
                       /\ \A ch \in {"none", "open", "declared", "closed"} :
                             [k EXCEPT !.channel = ch] \in Link
BY DEF Dialled, Closed, Link

LEMMA SetChannelOf ==
    ASSUME NEW k \in Link, NEW ch
    PROVE  [k EXCEPT !.channel = ch].conn = k.conn
BY DEF Link

(* The steps that write a call, seen as a change of one record.            *)
LEMMA GotoCall ==
    ASSUME call \in [Callers -> Call], NEW c \in Callers, NEW pc \in PCs, Goto(c, pc)
    PROVE  /\ call' \in [Callers -> Call]
           /\ call'[c].pc = pc /\ call'[c].fresh = call[c].fresh
           /\ call'[c].result = call[c].result /\ call'[c].published = call[c].published
           /\ \A b \in Callers \ {c} : call'[b] = call[b]
<1>1. [call[c] EXCEPT !.pc = pc] \in Call
  BY DEF Call
<1>2. call' = [call EXCEPT ![c] = [call[c] EXCEPT !.pc = pc]]
  BY DEF Goto
<1>3. /\ [call[c] EXCEPT !.pc = pc].pc = pc
      /\ [call[c] EXCEPT !.pc = pc].fresh = call[c].fresh
      /\ [call[c] EXCEPT !.pc = pc].result = call[c].result
      /\ [call[c] EXCEPT !.pc = pc].published = call[c].published
  BY DEF Call
<1> QED
  BY <1>1, <1>2, <1>3

LEMMA ReturnCall ==
    ASSUME call \in [Callers -> Call], NEW c \in Callers, NEW r \in Results, Return(c, r)
    PROVE  /\ call' \in [Callers -> Call]
           /\ call'[c].pc = "unlock" /\ call'[c].fresh = call[c].fresh
           /\ call'[c].result = r /\ call'[c].published = call[c].published
           /\ \A b \in Callers \ {c} : call'[b] = call[b]
<1> DEFINE new == [call[c] EXCEPT !.pc = "unlock", !.result = r]
<1>1. new \in Call
  BY LabelTypes DEF Call
<1>2. call' = [call EXCEPT ![c] = new]
  BY DEF Return
<1>3. /\ new.pc = "unlock" /\ new.fresh = call[c].fresh /\ new.result = r
      /\ new.published = call[c].published
  BY DEF Call
<1> HIDE DEF new
<1> QED
  BY <1>1, <1>2, <1>3

LEMMA FreshCall ==
    ASSUME call \in [Callers -> Call], NEW c \in Callers, NEW n \in Nat,
           call' = [call EXCEPT ![c].pc = "openChannel", ![c].fresh = n]
    PROVE  /\ call' \in [Callers -> Call]
           /\ call'[c].pc = "openChannel" /\ call'[c].fresh = n
           /\ call'[c].result = call[c].result /\ call'[c].published = call[c].published
           /\ \A b \in Callers \ {c} : call'[b] = call[b]
<1> DEFINE new == [call[c] EXCEPT !.pc = "openChannel", !.fresh = n]
<1>1. new \in Call
  BY LabelTypes DEF Call
<1>2. call' = [call EXCEPT ![c] = new]
  OBVIOUS
<1>3. /\ new.pc = "openChannel" /\ new.fresh = n /\ new.result = call[c].result
      /\ new.published = call[c].published
  BY DEF Call
<1> HIDE DEF new
<1> QED
  BY <1>1, <1>2, <1>3

LEMMA DeliverCall ==
    ASSUME call \in [Callers -> Call], NEW c \in Callers, Deliver(c)
    PROVE  /\ call' \in [Callers -> Call]
           /\ call'[c].pc = "unlock" /\ call'[c].fresh = call[c].fresh
           /\ call'[c].result = "ok"
           /\ call'[c].published \in {call[c].published, call[c].published + 1}
           /\ \A b \in Callers \ {c} : call'[b] = call[b]
<1>1. CASE Return(c, "ok")
  BY <1>1, ReturnCall, LabelTypes
<1>2. CASE call' = [call EXCEPT ![c].pc = "unlock", ![c].result = "ok",
                                ![c].published = @ + 1]
  <2> DEFINE n == call[c].published + 1
             new == [call[c] EXCEPT !.pc = "unlock", !.result = "ok", !.published = n]
  <2>1. n \in Nat
    BY DEF Call
  <2> HIDE DEF n
  <2>2. new \in Call
    BY <2>1, LabelTypes DEF Call
  <2>3. call' = [call EXCEPT ![c] = new]
    BY <1>2 DEF n
  <2>4. /\ new.pc = "unlock" /\ new.fresh = call[c].fresh /\ new.result = "ok"
        /\ new.published = n
    BY DEF Call
  <2> HIDE DEF new
  <2> QED
    BY <2>2, <2>3, <2>4 DEF n
<1> QED
  BY <1>1, <1>2 DEF Deliver

-----------------------------------------------------------------------------
(* Only one caller is past the mutex, so a step of its call concerns it    *)
(* alone.                                                                  *)

LEMMA CallerStep ==
    ASSUME PublisherInv, NEW c \in Callers, mu = c,
           \A b \in Callers \ {c} : call'[b] = call[b],
           CallOk(c)', mu' = c \/ ~Inside(c)'
    PROVE  MutexInv' /\ CallInv'
<1>1. \A b \in Callers \ {c} : call[b].pc \in {"idle", "locking"} /\ CallOk(b)
  BY DEF PublisherInv, MutexInv, CallInv, Inside
<1>2. MutexInv'
  BY <1>1 DEF MutexInv, Inside
<1>3. ASSUME NEW b \in Callers \ {c} PROVE CallOk(b)'
  BY <1>1 DEF CallOk
<1> QED
  BY <1>2, <1>3 DEF CallInv

LEMMA InsideHolds ==
    ASSUME PublisherInv, NEW c \in Callers,
           call[c].pc \notin {"idle", "locking"}
    PROVE  /\ mu = c /\ CallOk(c) /\ call[c].published \in {0, 1}
           /\ call[c].pc # "unlock" => call[c].published = 0
           /\ call \in [Callers -> Call] /\ call[c] \in Call
<1>1. mu = c /\ CallOk(c)
  BY DEF PublisherInv, MutexInv, CallInv, Inside
<1>2. call \in [Callers -> Call] /\ call[c] \in Call /\ call[c].published \in Nat
  BY DEF PublisherInv, TypeOK, Call
<1>3. call[c].published \in {0, 1}
  BY <1>1, <1>2 DEF CallOk
<1> QED
  BY <1>1, <1>2, <1>3 DEF CallOk

(* A step inside that leaves the links and the fields of the publisher     *)
(* alone keeps the types and leaks nothing.                                *)
LEMMA QuietStep ==
    ASSUME PublisherInv, NEW c \in Callers, mu = c,
           UNCHANGED <<process, links, pConn, pChannel, outage>>,
           call' \in [Callers -> Call], call'[c].fresh = call[c].fresh,
           \A b \in Callers \ {c} : call'[b] = call[b],
           mu' \in {c, NoCaller},
           \/ mu' = c /\ Inside(c)'
           \/ /\ call[c].pc = "unlock"
              /\ call[c].fresh = 0 \/ pConn = call[c].fresh
                                   \/ links[call[c].fresh].conn = "closed"
    PROVE  TypeOK' /\ NoConnectionLeak'
<1>1. TypeOK /\ NoConnectionLeak
  BY DEF PublisherInv
<1>2. TypeOK'
  BY <1>1 DEF TypeOK, process, Running
<1>3. ASSUME NEW k \in DOMAIN links'
      PROVE  \/ links'[k].conn = "closed" \/ k = pConn' \/ k \in leaked'
             \/ \E b \in Callers : Inside(b)' /\ mu' = b /\ call'[b].fresh = k
  <2>1. \/ links[k].conn = "closed" \/ k = pConn \/ k \in leaked
        \/ Inside(c) /\ call[c].fresh = k
    BY <1>1, <1>3 DEF NoConnectionLeak
  <2>2. k # 0
    BY <1>1, <1>3 DEF TypeOK
  <2> QED
    BY <2>1, <2>2 DEF process
<1> QED
  BY <1>2, <1>3 DEF NoConnectionLeak

LEMMA BeginStep ==
    ASSUME PublisherInv, NEW c \in Callers, Begin(c)
    PROVE  PublisherInv'
<1>1. /\ TypeOK /\ MutexInv /\ CallInv /\ NoConnectionLeak
      /\ call \in [Callers -> Call]
  BY DEF PublisherInv, TypeOK
<1>2. PICK start \in {[pc |-> "locking", result |-> "none"],
                      [pc |-> "idle", result |-> "refused"]} :
         call' = [call EXCEPT ![c] = [pc |-> start.pc, fresh |-> 0,
                                      result |-> start.result, published |-> 0]]
  BY DEF Begin
<1>3. start.pc \in {"idle", "locking"} /\ start.result \in Results
  BY <1>2, LabelTypes
<1>4. [pc |-> start.pc, fresh |-> 0, result |-> start.result, published |-> 0] \in Call
  BY <1>3, LabelTypes DEF Call
<1>5. /\ call' \in [Callers -> Call] /\ call'[c].pc \in {"idle", "locking"}
      /\ call'[c].fresh = 0 /\ call'[c].published = 0
      /\ \A b \in Callers \ {c} : call'[b] = call[b]
  BY <1>1, <1>2, <1>3, <1>4
<1>6. /\ call[c].pc = "idle" /\ calls' = calls + 1 /\ calls < MaxCalls
      /\ outage' \subseteq Callers
      /\ UNCHANGED <<phase, attempts, links, pConn, pChannel, mu, leaked>>
  BY <1>1 DEF Begin, At, TypeOK
<1>7. calls' \in 0..MaxCalls
  BY <1>1, <1>6, PublisherAssumption DEF TypeOK, PublisherAssumption
<1>8. \A b \in Callers : call'[b].fresh \in 0..Len(links')
  BY <1>1, <1>5, <1>6 DEF TypeOK
<1>9. TypeOK'
  BY <1>1, <1>5, <1>6, <1>7, <1>8 DEF TypeOK, Running
<1>10. MutexInv'
  BY <1>1, <1>5, <1>6 DEF MutexInv, Inside
<1>11. CallInv'
  <2>1. CallOk(c)'
    BY <1>5 DEF CallOk
  <2>2. ASSUME NEW b \in Callers \ {c} PROVE CallOk(b)'
    BY <1>1, <1>5, <1>6 DEF CallInv, CallOk
  <2> QED
    BY <2>1, <2>2 DEF CallInv
<1>12. NoConnectionLeak'
  <2>1. \A b \in Callers : Inside(b) => b # c
    BY <1>6 DEF Inside
  <2> QED
    BY <1>1, <1>5, <1>6, <2>1 DEF NoConnectionLeak, Inside
<1> QED
  BY <1>9, <1>10, <1>11, <1>12 DEF PublisherInv

LEMMA LockStep ==
    ASSUME PublisherInv, NEW c \in Callers, Lock(c)
    PROVE  PublisherInv'
<1>1. /\ TypeOK /\ MutexInv /\ CallInv /\ NoConnectionLeak
      /\ call \in [Callers -> Call] /\ NoCaller \notin Callers
  BY PublisherAssumption DEF PublisherInv, TypeOK, PublisherAssumption
<1>2. /\ call[c].pc = "locking" /\ mu = NoCaller /\ mu' = c
      /\ Goto(c, "publish")
      /\ UNCHANGED <<process, links, pConn, pChannel, outage>>
  BY DEF Lock, At
<1>3. /\ call' \in [Callers -> Call] /\ call'[c].pc = "publish"
      /\ call'[c].fresh = call[c].fresh /\ call'[c].result = call[c].result
      /\ call'[c].published = call[c].published
      /\ \A b \in Callers \ {c} : call'[b] = call[b]
  BY <1>1, <1>2, GotoCall, LabelTypes
<1>4. \A b \in Callers : ~Inside(b) /\ CallOk(b)
  BY <1>1, <1>2 DEF MutexInv, CallInv
<1>5. TypeOK'
  BY <1>1, <1>2, <1>3 DEF TypeOK, process, Running
<1>6. MutexInv'
  BY <1>2, <1>3, <1>4 DEF MutexInv, Inside
<1>7. CallInv'
  <2>1. CallOk(c)'
    BY <1>2, <1>3, <1>4 DEF CallOk
  <2>2. ASSUME NEW b \in Callers \ {c} PROVE CallOk(b)'
    BY <1>2, <1>3, <1>4 DEF CallOk, Inside
  <2> QED
    BY <2>1, <2>2 DEF CallInv
<1>8. NoConnectionLeak'
  BY <1>1, <1>2, <1>4 DEF NoConnectionLeak, process
<1> QED
  BY <1>5, <1>6, <1>7, <1>8 DEF PublisherInv

LEMMA PublishStep ==
    ASSUME PublisherInv, NEW c \in Callers, TryPublish(c) \/ RetryPublish(c)
    PROVE  PublisherInv'
<1>1. /\ call[c].pc \in {"publish", "retry"}
      /\ UNCHANGED <<process, links, pConn, pChannel, mu, outage>>
      /\ \/ Deliver(c) \/ (call[c].pc = "publish" /\ Goto(c, "dial"))
         \/ Return(c, "error")
  BY DEF TryPublish, RetryPublish, At
<1>2. /\ mu = c /\ CallOk(c) /\ call[c].published = 0
      /\ call \in [Callers -> Call] /\ call[c] \in Call
  BY <1>1, InsideHolds
<1>3. /\ call' \in [Callers -> Call] /\ call'[c].fresh = call[c].fresh
      /\ \A b \in Callers \ {c} : call'[b] = call[b]
      /\ \/ /\ call'[c].pc = "unlock" /\ call'[c].result = "ok"
            /\ call'[c].published \in {0, 1}
         \/ /\ call'[c].pc = "dial" /\ call[c].pc = "publish"
            /\ call'[c].published = 0
         \/ call'[c].pc = "unlock" /\ call'[c].published = 0
  <2>1. CASE Deliver(c)
    BY <1>2, <2>1, DeliverCall
  <2>2. CASE call[c].pc = "publish" /\ Goto(c, "dial")
    BY <1>2, <2>2, GotoCall, LabelTypes
  <2>3. CASE Return(c, "error")
    BY <1>2, <2>3, ReturnCall, LabelTypes
  <2> QED
    BY <1>1, <2>1, <2>2, <2>3
<1>4. CallOk(c)'
  BY <1>1, <1>2, <1>3 DEF CallOk
<1>5. MutexInv' /\ CallInv'
  BY <1>1, <1>2, <1>3, <1>4, CallerStep
<1>6. TypeOK' /\ NoConnectionLeak'
  <2>1. Inside(c)' /\ mu' = c
    BY <1>1, <1>2, <1>3 DEF Inside
  <2> QED
    BY <1>1, <1>2, <1>3, <2>1, QuietStep
<1> QED
  BY <1>5, <1>6 DEF PublisherInv

LEMMA UnlockStep ==
    ASSUME PublisherInv, NEW c \in Callers, Unlock(c)
    PROVE  PublisherInv'
<1>1. /\ call[c].pc = "unlock" /\ mu' = NoCaller /\ Goto(c, "idle")
      /\ UNCHANGED <<process, links, pConn, pChannel, outage>>
  BY DEF Unlock, At
<1>2. /\ mu = c /\ CallOk(c) /\ call \in [Callers -> Call]
  BY <1>1, InsideHolds
<1>3. /\ call' \in [Callers -> Call] /\ call'[c].pc = "idle"
      /\ call'[c].fresh = call[c].fresh /\ call'[c].result = call[c].result
      /\ call'[c].published = call[c].published
      /\ \A b \in Callers \ {c} : call'[b] = call[b]
  BY <1>1, <1>2, GotoCall, LabelTypes
<1>4. CallOk(c)'
  BY <1>1, <1>2, <1>3 DEF CallOk
<1>5. ~Inside(c)'
  BY <1>3 DEF Inside
<1>6. MutexInv' /\ CallInv'
  BY <1>2, <1>3, <1>4, <1>5, CallerStep
<1>7. call[c].fresh = 0 \/ pConn = call[c].fresh \/ links[call[c].fresh].conn = "closed"
  BY <1>1, <1>2 DEF CallOk
<1>8. TypeOK' /\ NoConnectionLeak'
  BY <1>1, <1>2, <1>3, <1>7, QuietStep
<1> QED
  BY <1>6, <1>8 DEF PublisherInv

(* What the failure of a reconnect does to the call. *)
LEMMA FailedCall ==
    ASSUME TypeOK, NEW c \in Callers, ReconnectFails(c)
    PROVE  /\ call' \in [Callers -> Call] /\ call'[c].pc = "unlock"
           /\ call'[c].fresh = call[c].fresh /\ call'[c].published = call[c].published
           /\ call'[c].result = "error"
           /\ \A b \in Callers \ {c} : call'[b] = call[b]
           /\ outage' \subseteq Callers
BY ReturnCall, LabelTypes DEF ReconnectFails, TypeOK

LEMMA DialStep ==
    ASSUME PublisherInv, NEW c \in Callers, Dial(c)
    PROVE  PublisherInv'
<1>1. /\ call[c].pc = "dial" /\ UNCHANGED <<process, pConn, pChannel, mu>>
  BY DEF Dial, At
<1>2. /\ mu = c /\ CallOk(c) /\ call[c].published = 0 /\ call[c].fresh = 0
      /\ call \in [Callers -> Call] /\ TypeOK /\ NoConnectionLeak
      /\ links \in Seq(Link)
  BY <1>1, InsideHolds DEF CallOk, PublisherInv, TypeOK
<1>3. CASE UNCHANGED links /\ ReconnectFails(c)
  <2>1. /\ call' \in [Callers -> Call] /\ call'[c].pc = "unlock"
        /\ call'[c].fresh = 0 /\ call'[c].published = 0
        /\ \A b \in Callers \ {c} : call'[b] = call[b]
        /\ outage' \subseteq Callers
    BY <1>2, <1>3, FailedCall
  <2>2. CallOk(c)'
    BY <2>1 DEF CallOk
  <2>3. MutexInv' /\ CallInv'
    BY <1>1, <1>2, <2>1, <2>2, CallerStep
  <2>4. TypeOK'
    BY <1>1, <1>2, <1>3, <2>1 DEF TypeOK, process, Running
  <2>5. NoConnectionLeak'
    BY <1>1, <1>2, <1>3, <2>1 DEF NoConnectionLeak, process, Inside
  <2> QED
    BY <2>3, <2>4, <2>5 DEF PublisherInv
<1>4. CASE /\ links' = Append(links, Dialled)
           /\ call' = [call EXCEPT ![c].pc = "openChannel", ![c].fresh = Len(links')]
           /\ UNCHANGED outage
  <2> DEFINE n == Len(links) + 1
  <2>1. /\ Len(links') = n /\ n \in Nat /\ n # 0 /\ links' \in Seq(Link)
        /\ DOMAIN links' = 1..n /\ DOMAIN links = 1..Len(links)
        /\ \A k \in DOMAIN links : links'[k] = links[k]
    <3>1. PICK d \in Link : d = Dialled
      BY LinkTypes
    <3>2. links' = Append(links, d) /\ links \in Seq(Link)
      BY <1>2, <1>4, <3>1
    <3> QED
      BY <3>2
  <2>2. call' = [call EXCEPT ![c].pc = "openChannel", ![c].fresh = n]
    BY <1>4, <2>1
  <2> HIDE DEF n
  <2>3. /\ call' \in [Callers -> Call] /\ call'[c].pc = "openChannel"
        /\ call'[c].fresh = n /\ call'[c].published = 0
        /\ \A b \in Callers \ {c} : call'[b] = call[b]
    BY <1>2, <2>1, <2>2, FreshCall
  <2>4. CallOk(c)'
    BY <2>1, <2>3 DEF CallOk
  <2>5. MutexInv' /\ CallInv'
    BY <1>1, <1>2, <2>3, <2>4, CallerStep
  <2>6. \A b \in Callers : call'[b].fresh \in 0..Len(links')
    BY <1>2, <2>1, <2>3 DEF TypeOK, n
  <2>7. TypeOK'
    <3>1. pConn \in 0..n /\ pChannel \in 0..n /\ leaked \subseteq 1..n
      BY <1>2, <2>1 DEF TypeOK, n
    <3> QED
      BY <1>1, <1>2, <1>4, <2>1, <2>3, <2>6, <3>1 DEF TypeOK, process, Running
  <2>8. NoConnectionLeak'
    <3>1. Inside(c)' /\ mu' = c /\ call'[c].fresh = n
      BY <1>1, <1>2, <2>3 DEF Inside
    <3>2. ASSUME NEW k \in DOMAIN links'
          PROVE  \/ links'[k].conn = "closed" \/ k = pConn' \/ k \in leaked'
                 \/ \E b \in Callers : Inside(b)' /\ mu' = b /\ call'[b].fresh = k
      <4>1. CASE k = n
        BY <3>1, <4>1
      <4>2. CASE k # n
        <5>1. k \in DOMAIN links /\ k # 0
          BY <2>1, <3>2, <4>2 DEF n
        <5>2. links[k].conn = "closed" \/ k = pConn \/ k \in leaked
          BY <1>2, <5>1 DEF NoConnectionLeak
        <5> QED
          BY <1>1, <2>1, <5>1, <5>2 DEF process
      <4> QED
        BY <4>1, <4>2
    <3> QED
      BY <3>2 DEF NoConnectionLeak
  <2> QED
    BY <2>5, <2>7, <2>8 DEF PublisherInv
<1> QED
  BY <1>3, <1>4 DEF Dial

(* A step inside that changes links in place, and reopens none. *)
LEMMA InPlaceStep ==
    ASSUME PublisherInv, NEW c \in Callers, mu = c,
           UNCHANGED <<process, pConn, pChannel, mu>>, outage' \subseteq Callers,
           links' \in Seq(Link), Len(links') = Len(links),
           \A k \in DOMAIN links : links[k].conn = "closed" => links'[k].conn = "closed",
           call' \in [Callers -> Call], call'[c].fresh = call[c].fresh,
           \A b \in Callers \ {c} : call'[b] = call[b], Inside(c)', CallOk(c)'
    PROVE  PublisherInv'
<1>1. TypeOK /\ NoConnectionLeak /\ links \in Seq(Link) /\ DOMAIN links' = DOMAIN links
  BY DEF PublisherInv, TypeOK
<1>2. \A b \in Callers : call'[b].fresh \in 0..Len(links')
  BY <1>1 DEF TypeOK
<1>3. TypeOK'
  BY <1>1, <1>2 DEF TypeOK, process, Running
<1>4. NoConnectionLeak'
  BY <1>1 DEF NoConnectionLeak, process, Inside
<1>5. MutexInv' /\ CallInv'
  BY CallerStep
<1> QED
  BY <1>3, <1>4, <1>5 DEF PublisherInv

LEMMA ChannelEffect ==
    ASSUME links \in Seq(Link), NEW k \in DOMAIN links,
           NEW ch \in {"none", "open", "declared", "closed"},
           links' = [links EXCEPT ![k].channel = ch]
    PROVE  /\ links' \in Seq(Link) /\ Len(links') = Len(links)
           /\ \A j \in DOMAIN links : links'[j].conn = links[j].conn
<1>1. links[k] \in Link
  OBVIOUS
<1> DEFINE new == [links[k] EXCEPT !.channel = ch]
<1>2. new \in Link /\ new.conn = links[k].conn
  BY <1>1, LinkTypes, SetChannelOf
<1>3. links' = [links EXCEPT ![k] = new]
  OBVIOUS
<1> HIDE DEF new
<1> QED
  BY <1>2, <1>3

LEMMA CloseEffect ==
    ASSUME links \in Seq(Link), NEW k \in DOMAIN links,
           links' = [links EXCEPT ![k] = Closed]
    PROVE  /\ links' \in Seq(Link) /\ Len(links') = Len(links)
           /\ links'[k].conn = "closed"
           /\ \A j \in DOMAIN links : links'[j].conn = links[j].conn \/ links'[j].conn = "closed"
<1>1. Closed \in Link /\ Closed.conn = "closed"
  BY LinkTypes DEF Closed
<1> QED
  BY <1>1

LEMMA OpenAndDeclareStep ==
    ASSUME PublisherInv, NEW c \in Callers, OpenChannel(c) \/ Declare(c)
    PROVE  PublisherInv'
<1>1. /\ call[c].pc \in {"openChannel", "declare"}
      /\ UNCHANGED <<process, pConn, pChannel, mu>>
      /\ \/ \E ch \in {"none", "open", "declared", "closed"},
               pc \in {"declare", "closeOldChannel"} :
               /\ links' = [links EXCEPT ![call[c].fresh].channel = ch]
               /\ Goto(c, pc) /\ UNCHANGED outage
         \/ /\ links' = [links EXCEPT ![call[c].fresh] = Closed]
            /\ ReconnectFails(c)
  BY DEF OpenChannel, Declare, At
<1>2. /\ mu = c /\ CallOk(c) /\ call[c].published = 0 /\ call[c].fresh # 0
      /\ call \in [Callers -> Call] /\ TypeOK /\ links \in Seq(Link)
      /\ outage \subseteq Callers
  BY <1>1, InsideHolds DEF CallOk, PublisherInv, TypeOK
<1>3. call[c].fresh \in DOMAIN links
  BY <1>2 DEF TypeOK
<1>4. ASSUME NEW ch \in {"none", "open", "declared", "closed"},
             NEW pc \in {"declare", "closeOldChannel"},
             links' = [links EXCEPT ![call[c].fresh].channel = ch],
             Goto(c, pc), UNCHANGED outage
      PROVE  PublisherInv'
  <2>1. /\ links' \in Seq(Link) /\ Len(links') = Len(links)
        /\ \A j \in DOMAIN links : links'[j].conn = links[j].conn
    BY <1>2, <1>3, <1>4, ChannelEffect
  <2>2. /\ call' \in [Callers -> Call] /\ call'[c].pc = pc
        /\ call'[c].fresh = call[c].fresh /\ call'[c].published = 0
        /\ \A b \in Callers \ {c} : call'[b] = call[b]
    BY <1>2, <1>4, GotoCall, LabelTypes
  <2>3. CallOk(c)' /\ Inside(c)'
    BY <1>2, <2>2 DEF CallOk, Inside
  <2> QED
    BY <1>1, <1>2, <1>4, <2>1, <2>2, <2>3, InPlaceStep
<1>5. ASSUME links' = [links EXCEPT ![call[c].fresh] = Closed], ReconnectFails(c)
      PROVE  PublisherInv'
  <2>1. /\ links' \in Seq(Link) /\ Len(links') = Len(links)
        /\ links'[call[c].fresh].conn = "closed"
        /\ \A j \in DOMAIN links :
              links[j].conn = "closed" => links'[j].conn = "closed"
    BY <1>2, <1>3, <1>5, CloseEffect
  <2>2. /\ call' \in [Callers -> Call] /\ call'[c].pc = "unlock"
        /\ call'[c].fresh = call[c].fresh /\ call'[c].published = 0
        /\ \A b \in Callers \ {c} : call'[b] = call[b]
        /\ outage' \subseteq Callers
    BY <1>2, <1>5, FailedCall
  <2>3. CallOk(c)' /\ Inside(c)'
    BY <2>1, <2>2 DEF CallOk, Inside
  <2> QED
    BY <1>1, <1>2, <2>1, <2>2, <2>3, InPlaceStep
<1> QED
  BY <1>1, <1>4, <1>5

LEMMA CloseOldStep ==
    ASSUME PublisherInv, NEW c \in Callers, CloseOldChannel(c) \/ CloseOldConn(c)
    PROVE  PublisherInv'
<1>1. /\ UNCHANGED <<process, pConn, pChannel, mu, outage>> /\ Running
      /\ \/ /\ call[c].pc = "closeOldChannel" /\ Goto(c, "closeOldConn")
            /\ links' = [links EXCEPT ![pChannel].channel = "closed"]
         \/ /\ call[c].pc = "closeOldConn" /\ Goto(c, "setConn")
            /\ links' = [links EXCEPT ![pConn] = Closed]
  BY DEF CloseOldChannel, CloseOldConn, At
<1>2. /\ mu = c /\ CallOk(c) /\ call[c].published = 0 /\ call[c].fresh # 0
      /\ call \in [Callers -> Call] /\ TypeOK /\ links \in Seq(Link)
      /\ outage \subseteq Callers
  BY <1>1, InsideHolds DEF CallOk, PublisherInv, TypeOK
<1>3. pConn \in DOMAIN links /\ pChannel \in DOMAIN links
  BY <1>1, <1>2 DEF TypeOK
<1>4. CASE /\ call[c].pc = "closeOldChannel" /\ Goto(c, "closeOldConn")
           /\ links' = [links EXCEPT ![pChannel].channel = "closed"]
  <2>1. /\ links' \in Seq(Link) /\ Len(links') = Len(links)
        /\ \A j \in DOMAIN links : links'[j].conn = links[j].conn
    BY <1>2, <1>3, <1>4, ChannelEffect
  <2>2. /\ call' \in [Callers -> Call] /\ call'[c].pc = "closeOldConn"
        /\ call'[c].fresh = call[c].fresh /\ call'[c].published = 0
        /\ \A b \in Callers \ {c} : call'[b] = call[b]
    BY <1>2, <1>4, GotoCall, LabelTypes
  <2>3. CallOk(c)' /\ Inside(c)'
    BY <1>2, <2>2 DEF CallOk, Inside
  <2> QED
    BY <1>1, <1>2, <2>1, <2>2, <2>3, InPlaceStep
<1>5. CASE /\ call[c].pc = "closeOldConn" /\ Goto(c, "setConn")
           /\ links' = [links EXCEPT ![pConn] = Closed]
  <2>1. /\ links' \in Seq(Link) /\ Len(links') = Len(links)
        /\ links'[pConn].conn = "closed"
        /\ \A j \in DOMAIN links :
              links[j].conn = "closed" => links'[j].conn = "closed"
    BY <1>2, <1>3, <1>5, CloseEffect
  <2>2. /\ call' \in [Callers -> Call] /\ call'[c].pc = "setConn"
        /\ call'[c].fresh = call[c].fresh /\ call'[c].published = 0
        /\ \A b \in Callers \ {c} : call'[b] = call[b]
    BY <1>2, <1>5, GotoCall, LabelTypes
  <2>3. CallOk(c)' /\ Inside(c)'
    BY <1>1, <1>2, <1>3, <2>1, <2>2 DEF CallOk, Inside, TypeOK
  <2> QED
    BY <1>1, <1>2, <2>1, <2>2, <2>3, InPlaceStep
<1> QED
  BY <1>1, <1>4, <1>5

LEMMA SetConnStep ==
    ASSUME PublisherInv, NEW c \in Callers, SetConn(c)
    PROVE  PublisherInv'
<1>1. /\ call[c].pc = "setConn" /\ Goto(c, "setChannel") /\ pConn' = call[c].fresh
      /\ UNCHANGED <<process, links, pChannel, mu, outage>>
  BY DEF SetConn, At
<1>2. /\ mu = c /\ CallOk(c) /\ call[c].published = 0 /\ call[c].fresh # 0
      /\ links[pConn].conn = "closed"
      /\ call \in [Callers -> Call] /\ TypeOK /\ NoConnectionLeak
  BY <1>1, InsideHolds DEF CallOk, PublisherInv, TypeOK
<1>3. /\ call' \in [Callers -> Call] /\ call'[c].pc = "setChannel"
      /\ call'[c].fresh = call[c].fresh /\ call'[c].published = 0
      /\ \A b \in Callers \ {c} : call'[b] = call[b]
  BY <1>1, <1>2, GotoCall, LabelTypes
<1>4. CallOk(c)'
  BY <1>1, <1>2, <1>3 DEF CallOk
<1>5. MutexInv' /\ CallInv'
  BY <1>1, <1>2, <1>3, <1>4, CallerStep
<1>6. TypeOK'
  BY <1>1, <1>2, <1>3 DEF TypeOK, process, Running
<1>7. NoConnectionLeak'
  <2>1. Inside(c)' /\ mu' = c /\ call'[c].fresh = call[c].fresh
    BY <1>1, <1>2, <1>3 DEF Inside
  <2>2. \A k \in DOMAIN links :
           links[k].conn = "closed" \/ k = pConn \/ k \in leaked \/ call[c].fresh = k
    BY <1>2 DEF NoConnectionLeak
  <2> QED
    BY <1>1, <1>2, <2>1, <2>2 DEF NoConnectionLeak, process
<1> QED
  BY <1>5, <1>6, <1>7 DEF PublisherInv

LEMMA SetChannelStep ==
    ASSUME PublisherInv, NEW c \in Callers, SetChannel(c)
    PROVE  PublisherInv'
<1>1. /\ call[c].pc = "setChannel" /\ Goto(c, "retry") /\ pChannel' = call[c].fresh
      /\ UNCHANGED <<process, links, pConn, mu, outage>>
  BY DEF SetChannel, At
<1>2. /\ mu = c /\ CallOk(c) /\ call[c].published = 0 /\ call[c].fresh # 0
      /\ pConn = call[c].fresh
      /\ call \in [Callers -> Call] /\ TypeOK /\ NoConnectionLeak
  BY <1>1, InsideHolds DEF CallOk, PublisherInv, TypeOK
<1>3. /\ call' \in [Callers -> Call] /\ call'[c].pc = "retry"
      /\ call'[c].fresh = call[c].fresh /\ call'[c].published = 0
      /\ \A b \in Callers \ {c} : call'[b] = call[b]
  BY <1>1, <1>2, GotoCall, LabelTypes
<1>4. CallOk(c)'
  BY <1>1, <1>2, <1>3 DEF CallOk
<1>5. MutexInv' /\ CallInv'
  BY <1>1, <1>2, <1>3, <1>4, CallerStep
<1>6. TypeOK'
  BY <1>1, <1>2, <1>3 DEF TypeOK, process, Running
<1>7. NoConnectionLeak'
  BY <1>1, <1>2, <1>3 DEF NoConnectionLeak, process, Inside
<1> QED
  BY <1>5, <1>6, <1>7 DEF PublisherInv

-----------------------------------------------------------------------------
(* The steps of the process and of the broker *)

(* Nothing is published before the publisher exists. *)
StartInv == phase = "starting" =>
                pConn = 0 /\ \A c \in Callers : call[c].pc = "idle"

LEMMA StartIsQuiet == Spec => []StartInv
<1>1. Init => StartInv
  BY DEF Init, StartInv
<1>2. StartInv /\ [Next]_vars => StartInv'
  <2> SUFFICES ASSUME StartInv, [Next]_vars PROVE StartInv'
    OBVIOUS
  <2>1. CASE NewPublisher
    BY <2>1 DEF NewPublisher, StartInv
  <2>2. CASE GiveUp \/ CloseChannel \/ CloseConn \/ Exit
    BY <2>2 DEF GiveUp, CloseChannel, CloseConn, Exit, StartInv
  <2>3. ASSUME NEW c \in Callers, Begin(c) \/ Lock(c) \/ Proceed(c)
        PROVE  StartInv'
    <3>1. Running /\ phase' = phase
      BY <2>3 DEF Begin, Lock, Proceed, TryPublish, RetryPublish, Unlock, Dial,
                  OpenChannel, Declare, CloseOldChannel, CloseOldConn,
                  SetConn, SetChannel, At, process
    <3> QED
      BY <3>1 DEF Running, StartInv
  <2>4. ASSUME NEW k \in DOMAIN links, BrokerDrop(k) PROVE StartInv'
    BY <2>4 DEF BrokerDrop, process, StartInv
  <2>5. CASE UNCHANGED vars
    BY <2>5 DEF vars, StartInv
  <2> QED
    BY <2>1, <2>2, <2>3, <2>4, <2>5 DEF Next
<1> QED
  BY <1>1, <1>2, PTL DEF Spec

(* A step that leaves the callers and the fields of the publisher alone,   *)
(* and reopens no link.                                                    *)
LEMMA OutsideStep ==
    ASSUME PublisherInv, UNCHANGED <<attempts, pConn, pChannel, mu, call, calls, leaked>>,
           links' \in Seq(Link), Len(links') = Len(links),
           \A k \in DOMAIN links : links[k].conn = "closed" => links'[k].conn = "closed",
           phase' \in Phases, Running' => Running, outage' \subseteq Callers
    PROVE  PublisherInv'
<1>1. TypeOK /\ links \in Seq(Link) /\ DOMAIN links' = DOMAIN links
  BY DEF PublisherInv, TypeOK
<1>2. TypeOK'
  BY <1>1 DEF TypeOK
<1>3. MutexInv'
  BY DEF PublisherInv, MutexInv, Inside
<1>4. CallInv'
  <2>1. ASSUME NEW c \in Callers PROVE CallOk(c)'
    <3>1. CallOk(c) /\ call[c].fresh \in 0..Len(links)
      BY <1>1 DEF PublisherInv, CallInv, TypeOK
    <3>2. call[c].fresh # 0 => call[c].fresh \in DOMAIN links
      BY <1>1, <3>1
    <3>3. call[c].pc = "setConn" => pConn \in DOMAIN links
      BY <1>1, <3>1 DEF TypeOK, CallOk
    <3> QED
      BY <3>1, <3>2, <3>3 DEF CallOk
  <2> QED
    BY <2>1 DEF CallInv
<1>5. NoConnectionLeak'
  BY <1>1 DEF PublisherInv, NoConnectionLeak, Inside
<1> QED
  BY <1>2, <1>3, <1>4, <1>5 DEF PublisherInv

LEMMA NewPublisherStep ==
    ASSUME PublisherInv, StartInv, NewPublisher
    PROVE  PublisherInv'
<1>1. /\ phase = "starting" /\ pConn = 0 /\ attempts < Attempts
      /\ attempts' = attempts + 1
      /\ UNCHANGED <<mu, call, calls, outage>>
      /\ \A c \in Callers : call[c].pc = "idle" /\ ~Inside(c)
  BY DEF NewPublisher, StartInv, Inside
<1>2. /\ TypeOK /\ NoConnectionLeak /\ links \in Seq(Link) /\ leaked \subseteq DOMAIN links
      /\ \A k \in DOMAIN links : links[k].conn = "closed" \/ k \in leaked
  <2>1. TypeOK /\ NoConnectionLeak
    BY DEF PublisherInv
  <2>2. links \in Seq(Link) /\ leaked \subseteq DOMAIN links
    BY <2>1 DEF TypeOK
  <2> QED
    BY <1>1, <2>1, <2>2 DEF NoConnectionLeak
<1>3. attempts' \in 0..Attempts
  BY <1>1, <1>2, PublisherAssumption DEF TypeOK, PublisherAssumption
<1>4. MutexInv' /\ CallInv'
  <2>1. MutexInv'
    BY <1>1 DEF MutexInv, Inside
  <2>2. ASSUME NEW c \in Callers PROVE CallOk(c)'
    BY <1>1 DEF PublisherInv, CallInv, CallOk
  <2> QED
    BY <2>1, <2>2 DEF CallInv
<1>5. CASE UNCHANGED <<phase, links, pConn, pChannel, leaked>>
  <2>1. TypeOK' /\ NoConnectionLeak'
    BY <1>1, <1>2, <1>3, <1>5 DEF TypeOK, NoConnectionLeak, Running
  <2> QED
    BY <1>4, <2>1 DEF PublisherInv
<1>6. ASSUME NEW ch \in {"none", "open", "declared"},
             links' = Append(links, [Dialled EXCEPT !.channel = ch]),
             \/ /\ leaked' = leaked \cup {Len(links')}
                /\ UNCHANGED <<phase, pConn, pChannel>>
             \/ /\ pConn' = Len(links') /\ pChannel' = Len(links')
                /\ phase' = "serving" /\ UNCHANGED leaked
      PROVE  PublisherInv'
  <2>1. PICK d \in Link : d = [Dialled EXCEPT !.channel = ch]
    BY LinkTypes
  <2>2. PICK n \in Nat : n = Len(links) + 1
    BY <1>2
  <2>3. /\ links' \in Seq(Link) /\ Len(links') = n /\ DOMAIN links' = 1..n
        /\ DOMAIN links = 1..(n-1) /\ n # 0
        /\ \A k \in DOMAIN links : links'[k] = links[k]
    BY <1>2, <1>6, <2>1, <2>2
  <2>4. pConn' \in 0..n /\ pChannel' \in 0..n /\ leaked' \subseteq 1..n
    BY <1>2, <1>6, <2>2, <2>3 DEF TypeOK
  <2>5. \A c \in Callers : call'[c].fresh \in 0..n
    BY <1>1, <1>2, <2>2 DEF TypeOK
  <2>6. Running' => pConn' # 0 /\ pChannel' # 0
    BY <1>1, <1>6, <2>3 DEF Running
  <2>7. phase' \in Phases
    BY <1>1, <1>6, LabelTypes
  <2>8. TypeOK'
    BY <1>1, <1>2, <1>3, <2>3, <2>4, <2>5, <2>6, <2>7 DEF TypeOK
  <2>9. NoConnectionLeak'
    <3>1. ASSUME NEW k \in DOMAIN links'
          PROVE  links'[k].conn = "closed" \/ k = pConn' \/ k \in leaked'
      <4>1. CASE k = n
        BY <1>6, <2>3, <4>1
      <4>2. CASE k # n
        <5>1. k \in DOMAIN links
          BY <2>2, <2>3, <4>2
        <5> QED
          BY <1>2, <1>6, <2>3, <5>1
      <4> QED
        BY <4>1, <4>2
    <3> QED
      BY <3>1 DEF NoConnectionLeak
  <2> QED
    BY <1>4, <2>8, <2>9 DEF PublisherInv
<1> QED
  BY <1>5, <1>6 DEF NewPublisher

LEMMA DropStep ==
    ASSUME PublisherInv, NEW k \in DOMAIN links, BrokerDrop(k)
    PROVE  PublisherInv'
<1>1. /\ links \in Seq(Link) /\ links[k] \in Link /\ links[k].conn = "open"
      /\ phase \in Phases /\ outage \subseteq Callers
  BY DEF BrokerDrop, PublisherInv, TypeOK
<1> DEFINE new == [links[k] EXCEPT !.conn = "dead"]
<1>2. new \in Link
  BY <1>1, LinkTypes
<1>3. links' = [links EXCEPT ![k] = new]
  BY DEF BrokerDrop
<1> HIDE DEF new
<1>4. /\ links' \in Seq(Link) /\ Len(links') = Len(links)
      /\ \A j \in DOMAIN links : links[j].conn = "closed" => links'[j].conn = "closed"
  BY <1>1, <1>2, <1>3
<1> QED
  BY <1>1, <1>4, OutsideStep DEF BrokerDrop, process, Running

LEMMA CloseStep ==
    ASSUME PublisherInv, CloseChannel \/ CloseConn
    PROVE  PublisherInv'
<1>1. /\ Running /\ phase' \in Phases /\ outage' \subseteq Callers
      /\ UNCHANGED <<attempts, pConn, pChannel, mu, call, calls, leaked>>
  BY LabelTypes DEF CloseChannel, CloseConn, Running, PublisherInv, TypeOK
<1>2. links \in Seq(Link) /\ pConn \in DOMAIN links /\ pChannel \in DOMAIN links
  BY <1>1 DEF PublisherInv, TypeOK
<1>3. /\ links' \in Seq(Link) /\ Len(links') = Len(links)
      /\ \A j \in DOMAIN links : links[j].conn = "closed" => links'[j].conn = "closed"
  <2>1. CASE links' = [links EXCEPT ![pChannel].channel = "closed"]
    BY <1>2, <2>1, ChannelEffect
  <2>2. CASE links' = [links EXCEPT ![pConn] = Closed]
    BY <1>2, <2>2, CloseEffect
  <2> QED
    BY <2>1, <2>2 DEF CloseChannel, CloseConn
<1> QED
  BY <1>1, <1>3, OutsideStep

LEMMA ExitStep ==
    ASSUME PublisherInv, GiveUp \/ Exit
    PROVE  PublisherInv'
<1>1. /\ links \in Seq(Link) /\ outage \subseteq Callers /\ phase' = "exited"
      /\ UNCHANGED <<attempts, links, pConn, pChannel, mu, call, calls, leaked, outage>>
  BY DEF GiveUp, Exit, PublisherInv, TypeOK
<1> QED
  BY <1>1, OutsideStep, LabelTypes DEF Running

-----------------------------------------------------------------------------
(* The theorems *)

(* The inductive invariant: whoever is past the mutex holds it, every call *)
(* is where its record says, and no connection is lost sight of            *)
(* (publisher.go:104-178).                                                 *)
THEOREM PublisherInvariant == Spec => []PublisherInv
<1>1. Init => PublisherInv
  <2> SUFFICES ASSUME Init PROVE PublisherInv
    OBVIOUS
  <2>1. /\ links = <<>> /\ pConn = 0 /\ pChannel = 0 /\ mu = NoCaller
        /\ phase = "starting" /\ attempts = 0 /\ calls = 0
        /\ leaked = {} /\ outage = {}
        /\ call = [c \in Callers |-> [pc |-> "idle", fresh |-> 0,
                                      result |-> "none", published |-> 0]]
    BY DEF Init
  <2>2. [pc |-> "idle", fresh |-> 0, result |-> "none", published |-> 0] \in Call
    BY LabelTypes DEF Call
  <2>3. /\ call \in [Callers -> Call]
        /\ \A c \in Callers : /\ call[c].pc = "idle" /\ call[c].fresh = 0
                              /\ call[c].published = 0
    BY <2>1, <2>2
  <2>4. TypeOK
    BY <2>1, <2>3, LabelTypes, PublisherAssumption
       DEF TypeOK, Running, PublisherAssumption
  <2>5. MutexInv /\ CallInv
    BY <2>1, <2>3 DEF MutexInv, CallInv, CallOk, Inside
  <2>6. NoConnectionLeak
    BY <2>1 DEF NoConnectionLeak
  <2> QED
    BY <2>4, <2>5, <2>6 DEF PublisherInv
<1>2. PublisherInv /\ StartInv /\ [Next]_vars => PublisherInv'
  <2> SUFFICES ASSUME PublisherInv, StartInv, [Next]_vars PROVE PublisherInv'
    OBVIOUS
  <2>1. CASE NewPublisher
    BY <2>1, NewPublisherStep
  <2>2. CASE GiveUp \/ Exit
    BY <2>2, ExitStep
  <2>3. ASSUME NEW c \in Callers, Begin(c) \/ Lock(c) \/ Proceed(c)
        PROVE  PublisherInv'
    BY <2>3, BeginStep, LockStep, PublishStep, UnlockStep, DialStep,
       OpenAndDeclareStep, CloseOldStep, SetConnStep, SetChannelStep DEF Proceed
  <2>4. ASSUME NEW k \in DOMAIN links, BrokerDrop(k) PROVE PublisherInv'
    BY <2>4, DropStep
  <2>5. CASE CloseChannel \/ CloseConn
    BY <2>5, CloseStep
  <2>6. CASE UNCHANGED vars
    BY <2>6 DEF vars, PublisherInv, TypeOK, MutexInv, CallInv, CallOk,
                NoConnectionLeak, Inside, Running
  <2> QED
    BY <2>1, <2>2, <2>3, <2>4, <2>5, <2>6 DEF Next
<1> QED
  BY <1>1, <1>2, StartIsQuiet, PTL DEF Spec

(* The variables of the publisher keep their types. *)
THEOREM PublisherTypes == Spec => []TypeOK
<1>1. PublisherInv => TypeOK
  BY DEF PublisherInv
<1> QED
  BY <1>1, PublisherInvariant, PTL

(* A reconnect that fails at any step, with Close or the broker between    *)
(* the steps, loses no connection: each is closed, the publisher's, in the *)
(* hands of the caller in the mutex, or one NewPublisher forgot.           *)
THEOREM NothingLeaks == Spec => []NoConnectionLeak
<1>1. PublisherInv => NoConnectionLeak
  BY DEF PublisherInv
<1> QED
  BY <1>1, PublisherInvariant, PTL

(* Publish retries on the connection and channel its own reconnect made.   *)
THEOREM RetriesAreOwn == Spec => []RetriesOnItsOwnConnection
<1>1. PublisherInv => RetriesOnItsOwnConnection
  BY DEF PublisherInv, CallInv, CallOk, RetriesOnItsOwnConnection, At
<1> QED
  BY <1>1, PublisherInvariant, PTL

(* Publish sends a message at most once, and returns an error only if it   *)
(* has not sent it.                                                        *)
THEOREM ErrorsAreClean == Spec => []ErrorMeansNotPublished
<1>1. PublisherInv => ErrorMeansNotPublished
  <2> SUFFICES ASSUME PublisherInv, NEW c \in Callers
               PROVE  /\ call[c].published <= 1
                      /\ call[c].result \in {"error", "refused"} => call[c].published = 0
    BY DEF ErrorMeansNotPublished
  <2>1. CallOk(c) /\ call[c].published \in Nat
    BY DEF PublisherInv, CallInv, TypeOK, Call
  <2> QED
    BY <2>1 DEF CallOk
<1> QED
  BY <1>1, PublisherInvariant, PTL

-----------------------------------------------------------------------------
(* How many connections there are *)

(* What NewPublisher forgot is fewer than its attempts once one succeeded, *)
(* and before that nobody publishes.                                       *)
LeakInv ==
    /\ IsFiniteSet(leaked) /\ Cardinality(leaked) <= attempts
    /\ pConn # 0 => Cardinality(leaked) < attempts
    /\ pConn = 0 => \A c \in Callers : ~Inside(c)

LEMMA LeakStep ==
    ASSUME PublisherInv, LeakInv, [Next]_vars
    PROVE  LeakInv'
<1>0. TypeOK
  BY DEF PublisherInv
<1>1. Cardinality(leaked) \in Nat /\ attempts \in Nat
  BY <1>0, FS_CardinalityType, PublisherAssumption DEF LeakInv, TypeOK, PublisherAssumption
<1>2. CASE NewPublisher
  <2>1. /\ attempts' = attempts + 1 /\ UNCHANGED call
        /\ \/ leaked' = leaked
           \/ leaked' = leaked \cup {Len(links')} /\ pConn' = pConn
        /\ pConn' = pConn \/ (pConn' = Len(links') /\ leaked' = leaked)
    BY <1>2 DEF NewPublisher
  <2>2. /\ IsFiniteSet(leaked')
        /\ Cardinality(leaked') \in {Cardinality(leaked), Cardinality(leaked) + 1}
        /\ leaked' = leaked => Cardinality(leaked') = Cardinality(leaked)
    <3>1. CASE leaked' = leaked
      BY <3>1 DEF LeakInv
    <3>2. CASE leaked' = leaked \cup {Len(links')}
      <4>1. PICK n : n = Len(links')
        OBVIOUS
      <4>2. leaked' = leaked \cup {n}
        BY <3>2, <4>1
      <4>3. IsFiniteSet(leaked')
        BY <4>2, FS_AddElement DEF LeakInv
      <4>4. Cardinality(leaked') = IF n \in leaked THEN Cardinality(leaked)
                                                  ELSE Cardinality(leaked) + 1
        BY <4>2, FS_AddElement DEF LeakInv
      <4>5. n \in leaked => leaked' = leaked
        BY <4>2
      <4> QED
        BY <1>1, <4>3, <4>4, <4>5
    <3> QED
      BY <2>1, <3>1, <3>2
  <2>3. pConn # 0 => Cardinality(leaked) < attempts
    BY DEF LeakInv
  <2>4. Cardinality(leaked) <= attempts
    BY DEF LeakInv
  <2>5. Cardinality(leaked') <= attempts' /\ (pConn' # 0 => Cardinality(leaked') < attempts')
    BY <1>1, <2>1, <2>2, <2>3, <2>4
  <2>6. pConn' = 0 => \A c \in Callers : ~Inside(c)'
    <3>1. pConn' = 0 => pConn = 0
      <4>1. pConn' = Len(links') => links' = Append(links, [Dialled EXCEPT !.channel = "declared"])
                                    \/ pConn' = pConn
        BY <1>2 DEF NewPublisher
      <4>2. PICK d \in Link : d = [Dialled EXCEPT !.channel = "declared"]
        BY LinkTypes
      <4>3. Len(Append(links, d)) # 0
        BY <1>0, <4>2 DEF TypeOK
      <4> QED
        BY <2>1, <4>1, <4>2, <4>3
    <3> QED
      BY <2>1, <3>1 DEF LeakInv, Inside
  <2> QED
    BY <2>2, <2>5, <2>6 DEF LeakInv
<1>3. CASE GiveUp \/ CloseChannel \/ CloseConn \/ Exit \/ UNCHANGED vars
  BY <1>3 DEF GiveUp, CloseChannel, CloseConn, Exit, vars, LeakInv, Inside
<1>4. ASSUME NEW k \in DOMAIN links, BrokerDrop(k) PROVE LeakInv'
  BY <1>4 DEF BrokerDrop, process, LeakInv, Inside
<1>5. ASSUME NEW c \in Callers, Begin(c) \/ Lock(c) \/ Proceed(c) PROVE LeakInv'
  <2>1. Running /\ UNCHANGED <<attempts, leaked>>
    BY <1>5 DEF Begin, Lock, Proceed, TryPublish, RetryPublish, Unlock, Dial,
                OpenChannel, Declare, CloseOldChannel, CloseOldConn,
                  SetConn, SetChannel, At, process
  <2>2. pConn # 0
    BY <1>0, <2>1 DEF TypeOK
  <2>3. pConn' # 0
    <3>1. pConn' = pConn \/ SetConn(c)
      BY <1>5 DEF Begin, Lock, Proceed, TryPublish, RetryPublish, Unlock, Dial,
                  OpenChannel, Declare, CloseOldChannel, CloseOldConn, SetChannel
    <3>2. ASSUME SetConn(c) PROVE pConn' # 0
      <4>1. call[c].pc = "setConn" /\ pConn' = call[c].fresh
        BY <3>2 DEF SetConn, At
      <4> QED
        BY <4>1 DEF PublisherInv, CallInv, CallOk
    <3> QED
      BY <2>2, <3>1, <3>2
  <2> QED
    BY <2>1, <2>2, <2>3 DEF LeakInv
<1> QED
  BY <1>2, <1>3, <1>4, <1>5 DEF Next

(* The connections a process holds are those NewPublisher forgot, the      *)
(* publisher's own and the one of the reconnect in progress: never more    *)
(* than its start attempted and one (publisher.go:80-95, 108-132).         *)
THEOREM ConnectionsAreBounded == Spec => []ConnectionsBounded
<1>1. Init => LeakInv
  BY FS_EmptySet DEF Init, LeakInv, Inside
<1>2. PublisherInv /\ LeakInv /\ [Next]_vars => LeakInv'
  BY LeakStep
<1>3. PublisherInv /\ LeakInv => ConnectionsBounded
  <2> SUFFICES ASSUME PublisherInv, LeakInv PROVE ConnectionsBounded
    OBVIOUS
  <2>1. Cardinality(leaked) \in Nat /\ attempts \in Nat /\ IsFiniteSet(leaked)
    BY FS_CardinalityType, PublisherAssumption
       DEF LeakInv, PublisherInv, TypeOK, PublisherAssumption
  <2>2. ASSUME NEW k \in Held
        PROVE  \/ k = pConn \/ k \in leaked
               \/ \E c \in Callers : Inside(c) /\ mu = c /\ call[c].fresh = k
    BY <2>2 DEF Held, PublisherInv, NoConnectionLeak
  <2>3. 0 \notin Held
    BY DEF Held, PublisherInv, TypeOK
  <2>4. CASE pConn = 0
    <3>1. Held \subseteq leaked
      BY <2>2, <2>3, <2>4 DEF LeakInv
    <3>2. Cardinality(Held) <= Cardinality(leaked) /\ IsFiniteSet(Held)
      BY <2>1, <3>1, FS_Subset
    <3>3. Cardinality(Held) \in Nat /\ Cardinality(leaked) <= attempts
      BY <3>2, FS_CardinalityType DEF LeakInv
    <3> QED
      BY <2>1, <3>2, <3>3 DEF ConnectionsBounded
  <2>5. CASE pConn # 0
    <3>1. PICK f : \A c \in Callers : mu = c => call[c].fresh = f
      <4>1. CASE mu \in Callers
        BY <4>1
      <4>2. CASE mu \notin Callers
        BY <4>2
      <4> QED
        BY <4>1, <4>2
    <3> DEFINE own == leaked \cup {pConn}
               all == own \cup {f}
    <3>2. Held \subseteq all
      BY <2>2, <3>1
    <3>3. IsFiniteSet(own) /\ Cardinality(own) <= Cardinality(leaked) + 1
          /\ Cardinality(own) \in Nat
      <4>1. IsFiniteSet(own) /\ Cardinality(own) =
              IF pConn \in leaked THEN Cardinality(leaked) ELSE Cardinality(leaked) + 1
        BY <2>1, FS_AddElement
      <4> HIDE DEF own
      <4> QED
        BY <2>1, <4>1
    <3> HIDE DEF own
    <3>4. IsFiniteSet(all) /\ Cardinality(all) <= Cardinality(own) + 1
          /\ Cardinality(all) \in Nat
      <4>1. IsFiniteSet(all) /\ Cardinality(all) =
              IF f \in own THEN Cardinality(own) ELSE Cardinality(own) + 1
        BY <3>3, FS_AddElement
      <4> HIDE DEF all
      <4> QED
        BY <3>3, <4>1
    <3> HIDE DEF all
    <3>5. Cardinality(Held) <= Cardinality(all) /\ IsFiniteSet(Held)
      BY <3>2, <3>4, FS_Subset
    <3>6. Cardinality(Held) \in Nat /\ Cardinality(leaked) < attempts
      BY <2>5, <3>5, FS_CardinalityType DEF LeakInv
    <3> QED
      BY <2>1, <3>3, <3>4, <3>5, <3>6 DEF ConnectionsBounded
  <2> QED
    BY <2>4, <2>5
<1> QED
  BY <1>1, <1>2, <1>3, PublisherInvariant, PTL DEF Spec
-----------------------------------------------------------------------------
(* The publisher stays whole *)

(* A link that nobody has closed, with its exchange declared: it may be    *)
(* dead, but a publish to it does not fail for want of a channel.          *)
Ready(k) == links[k].conn # "closed" /\ links[k].channel = "declared"

(* Between the close of the old channel and the last assignment of         *)
(* reconnect the publisher's two fields are not a pair of open ones.       *)
Swapping(c) == call[c].pc \in {"closeOldConn", "setConn", "setChannel"}

Whole == pConn = pChannel /\ Ready(pConn)

(* The link a reconnect makes is not the one it replaces, and is ready     *)
(* before the old one is touched.                                          *)
SwapOk(c) ==
    /\ call[c].pc \in {"openChannel", "declare", "closeOldChannel", "closeOldConn", "setConn"} =>
          call[c].fresh # pConn
    /\ call[c].pc \in {"closeOldChannel", "closeOldConn", "setConn", "setChannel"} =>
          Ready(call[c].fresh)

WholeInv == phase = "serving" =>
    /\ (\A c \in Callers : ~Swapping(c)) => Whole
    /\ \A c \in Callers : SwapOk(c)

(* The caller in the mutex is the only one that is not idle or waiting.    *)
LEMMA AloneInside ==
    ASSUME PublisherInv, NEW c \in Callers, mu = c
    PROVE  \A b \in Callers \ {c} : call[b].pc \in {"idle", "locking"}
BY DEF PublisherInv, MutexInv, Inside

(* So its step has only its own record and the publisher's fields to mind. *)
LEMMA WholeFrame ==
    ASSUME PublisherInv, NEW c \in Callers, mu = c,
           phase' = phase, \A b \in Callers \ {c} : call'[b] = call[b],
           phase = "serving" => SwapOk(c)' /\ (Swapping(c)' \/ Whole')
    PROVE  WholeInv'
<1>1. \A b \in Callers \ {c} : SwapOk(b)'
  BY AloneInside DEF SwapOk
<1> QED
  BY <1>1 DEF WholeInv

LEMMA WholeInside ==
    ASSUME PublisherInv, WholeInv, NEW c \in Callers, mu = c, ~Swapping(c),
           phase = "serving"
    PROVE  Whole /\ SwapOk(c)
BY AloneInside DEF WholeInv, Swapping

(* A step that leaves the links and the publisher's fields alone, outside  *)
(* a reconnect.                                                            *)
LEMMA WholeQuiet ==
    ASSUME WholeInv, phase' = phase, UNCHANGED <<links, pConn, pChannel>>,
           NEW c \in Callers, \A b \in Callers \ {c} : call'[b] = call[b],
           ~Swapping(c),
           call'[c].pc \in {"idle", "locking", "publish", "dial", "unlock"}
    PROVE  WholeInv'
<1>1. ~Swapping(c)' /\ \A b \in Callers \ {c} : Swapping(b)' = Swapping(b)
  BY DEF Swapping
<1>2. \A b \in Callers : SwapOk(b) => SwapOk(b)'
  BY DEF SwapOk, Ready
<1>3. Whole => Whole'
  BY DEF Whole, Ready
<1> QED
  BY <1>1, <1>2, <1>3 DEF WholeInv

(* What a write to one link does to it and to the others. *)
LEMMA ChannelWrite ==
    ASSUME links \in Seq(Link), NEW k \in DOMAIN links,
           NEW ch \in {"none", "open", "declared", "closed"},
           links' = [links EXCEPT ![k].channel = ch]
    PROVE  /\ links'[k].conn = links[k].conn /\ links'[k].channel = ch
           /\ \A j \in DOMAIN links \ {k} : links'[j] = links[j]
<1>1. links[k] \in Link
  OBVIOUS
<1> DEFINE new == [links[k] EXCEPT !.channel = ch]
<1>2. new.conn = links[k].conn /\ new.channel = ch
  BY <1>1 DEF Link
<1>3. links' = [links EXCEPT ![k] = new]
  OBVIOUS
<1> HIDE DEF new
<1> QED
  BY <1>2, <1>3

LEMMA CallerWhole ==
    ASSUME PublisherInv, WholeInv, NEW c \in Callers,
           Lock(c) \/ TryPublish(c) \/ RetryPublish(c) \/ Unlock(c)
    PROVE  WholeInv'
<1>1. /\ call[c].pc \in {"locking", "publish", "retry", "unlock"}
      /\ UNCHANGED <<phase, links, pConn, pChannel>>
      /\ \/ Goto(c, "publish") \/ Goto(c, "dial") \/ Goto(c, "idle")
         \/ Return(c, "error") \/ Deliver(c)
  BY DEF Lock, TryPublish, RetryPublish, Unlock, At, process
<1>2. call \in [Callers -> Call] /\ ~Swapping(c)
  BY <1>1 DEF PublisherInv, TypeOK, Swapping
<1>3. /\ \A b \in Callers \ {c} : call'[b] = call[b]
      /\ call'[c].pc \in {"idle", "publish", "dial", "unlock"}
  BY <1>1, <1>2, GotoCall, ReturnCall, DeliverCall, LabelTypes
<1> QED
  BY <1>1, <1>2, <1>3, WholeQuiet

LEMMA BeginWhole ==
    ASSUME PublisherInv, WholeInv, NEW c \in Callers, Begin(c)
    PROVE  WholeInv'
<1>1. /\ call[c].pc = "idle" /\ call \in [Callers -> Call]
      /\ UNCHANGED <<phase, links, pConn, pChannel>>
  BY DEF Begin, At, PublisherInv, TypeOK
<1>2. PICK start \in {[pc |-> "locking", result |-> "none"],
                      [pc |-> "idle", result |-> "refused"]} :
         call' = [call EXCEPT ![c] = [pc |-> start.pc, fresh |-> 0,
                                      result |-> start.result, published |-> 0]]
  BY DEF Begin
<1>3. start.pc \in {"idle", "locking"}
  BY <1>2
<1>4. /\ call'[c].pc \in {"idle", "locking"}
      /\ \A b \in Callers \ {c} : call'[b] = call[b]
  BY <1>1, <1>2, <1>3
<1> QED
  BY <1>1, <1>4, WholeQuiet DEF Swapping

LEMMA DialWhole ==
    ASSUME PublisherInv, WholeInv, NEW c \in Callers, Dial(c)
    PROVE  WholeInv'
<1>1. /\ call[c].pc = "dial" /\ UNCHANGED <<process, pConn, pChannel, mu>>
      /\ Running
  BY DEF Dial, At
<1>2. /\ mu = c /\ TypeOK /\ links \in Seq(Link) /\ call \in [Callers -> Call]
      /\ phase' = phase /\ ~Swapping(c)
  BY <1>1, InsideHolds DEF PublisherInv, TypeOK, process, Swapping
<1>3. CASE UNCHANGED links /\ ReconnectFails(c)
  BY <1>1, <1>2, <1>3, FailedCall, WholeQuiet
<1>4. CASE /\ links' = Append(links, Dialled)
           /\ call' = [call EXCEPT ![c].pc = "openChannel", ![c].fresh = Len(links')]
  <2> DEFINE n == Len(links')
  <2>1. PICK d \in Link : d = Dialled
    BY LinkTypes
  <2>2. /\ n \in Nat /\ n > Len(links)
        /\ \A k \in DOMAIN links : links'[k] = links[k]
    BY <1>2, <1>4, <2>1
  <2>3. pConn \in DOMAIN links /\ pChannel \in DOMAIN links /\ n # pConn
    BY <1>1, <1>2, <2>2 DEF TypeOK
  <2>4. call' = [call EXCEPT ![c].pc = "openChannel", ![c].fresh = n]
    BY <1>4
  <2> HIDE DEF n
  <2>5. /\ call'[c].pc = "openChannel" /\ call'[c].fresh = n
        /\ \A b \in Callers \ {c} : call'[b] = call[b]
    BY <1>2, <2>2, <2>4, FreshCall
  <2>6. SwapOk(c)'
    BY <1>1, <2>3, <2>5 DEF SwapOk
  <2>7. phase = "serving" => Whole'
    <3>1. phase = "serving" => Whole
      BY <1>2, WholeInside
    <3> QED
      BY <1>1, <2>2, <2>3, <3>1 DEF Whole, Ready
  <2> QED
    BY <1>2, <2>5, <2>6, <2>7, WholeFrame
<1> QED
  BY <1>3, <1>4 DEF Dial

LEMMA OpenAndDeclareWhole ==
    ASSUME PublisherInv, WholeInv, NEW c \in Callers, OpenChannel(c) \/ Declare(c)
    PROVE  WholeInv'
<1> DEFINE k == call[c].fresh
<1>1. /\ call[c].pc \in {"openChannel", "declare"} /\ Running
      /\ UNCHANGED <<process, pConn, pChannel, mu>>
      /\ \/ /\ links[k].conn = "open"
            /\ \/ links' = [links EXCEPT ![k].channel = "open"] /\ Goto(c, "declare")
               \/ links' = [links EXCEPT ![k].channel = "declared"] /\ Goto(c, "closeOldChannel")
         \/ links' = [links EXCEPT ![k] = Closed] /\ ReconnectFails(c)
  BY DEF OpenChannel, Declare, At
<1>2. /\ mu = c /\ CallOk(c) /\ k # 0 /\ TypeOK /\ links \in Seq(Link)
      /\ call \in [Callers -> Call] /\ phase' = phase /\ ~Swapping(c)
  BY <1>1, InsideHolds DEF PublisherInv, TypeOK, process, Swapping, CallOk
<1>3. k \in DOMAIN links /\ pConn \in DOMAIN links /\ pChannel \in DOMAIN links
  BY <1>1, <1>2 DEF TypeOK
<1>4. phase = "serving" => Whole /\ k # pConn
  BY <1>1, <1>2, WholeInside DEF SwapOk
<1>5. \A j \in DOMAIN links \ {k} : links'[j] = links[j]
  <2>1. ASSUME NEW ch \in {"none", "open", "declared", "closed"},
               links' = [links EXCEPT ![k].channel = ch]
        PROVE  \A j \in DOMAIN links \ {k} : links'[j] = links[j]
    BY <1>2, <1>3, <2>1, ChannelWrite
  <2>2. CASE links' = [links EXCEPT ![k] = Closed]
    BY <1>2, <1>3, <2>2
  <2> QED
    BY <1>1, <2>1, <2>2
<1>6. phase = "serving" => Whole'
  BY <1>1, <1>3, <1>4, <1>5 DEF Whole, Ready
<1>7. CASE links' = [links EXCEPT ![k].channel = "open"] /\ Goto(c, "declare")
  <2>1. /\ call'[c].pc = "declare" /\ call'[c].fresh = k
        /\ \A b \in Callers \ {c} : call'[b] = call[b]
    BY <1>2, <1>7, GotoCall, LabelTypes
  <2>2. phase = "serving" => SwapOk(c)'
    BY <1>1, <1>4, <2>1 DEF SwapOk
  <2> QED
    BY <1>2, <1>6, <2>1, <2>2, WholeFrame
<1>8. CASE /\ links' = [links EXCEPT ![k].channel = "declared"] /\ Goto(c, "closeOldChannel")
           /\ links[k].conn = "open"
  <2>1. /\ call'[c].pc = "closeOldChannel" /\ call'[c].fresh = k
        /\ \A b \in Callers \ {c} : call'[b] = call[b]
    BY <1>2, <1>8, GotoCall, LabelTypes
  <2>2. links'[k].conn = "open" /\ links'[k].channel = "declared"
    BY <1>2, <1>3, <1>8, ChannelWrite
  <2>3. phase = "serving" => SwapOk(c)'
    <3>1. Ready(call[c].fresh)'
      BY <2>1, <2>2 DEF Ready
    <3> QED
      BY <1>1, <1>4, <2>1, <3>1 DEF SwapOk
  <2> QED
    BY <1>2, <1>6, <2>1, <2>3, WholeFrame
<1>9. CASE ReconnectFails(c)
  <2>1. /\ call'[c].pc = "unlock"
        /\ \A b \in Callers \ {c} : call'[b] = call[b]
    BY <1>2, <1>9, FailedCall
  <2>2. SwapOk(c)'
    BY <2>1 DEF SwapOk
  <2> QED
    BY <1>2, <1>6, <2>1, <2>2, WholeFrame
<1> QED
  BY <1>1, <1>7, <1>8, <1>9

LEMMA CloseOldWhole ==
    ASSUME PublisherInv, WholeInv, NEW c \in Callers,
           CloseOldChannel(c) \/ CloseOldConn(c)
    PROVE  WholeInv'
<1> DEFINE k == call[c].fresh
<1>1. /\ UNCHANGED <<process, pConn, pChannel, mu>> /\ Running
      /\ \/ /\ call[c].pc = "closeOldChannel" /\ Goto(c, "closeOldConn")
            /\ links' = [links EXCEPT ![pChannel].channel = "closed"]
         \/ /\ call[c].pc = "closeOldConn" /\ Goto(c, "setConn")
            /\ links' = [links EXCEPT ![pConn] = Closed]
  BY DEF CloseOldChannel, CloseOldConn, At
<1>2. /\ mu = c /\ CallOk(c) /\ k # 0 /\ TypeOK /\ links \in Seq(Link)
      /\ call \in [Callers -> Call] /\ phase' = phase
  BY <1>1, InsideHolds DEF PublisherInv, TypeOK, process, CallOk
<1>3. k \in DOMAIN links
  BY <1>2 DEF TypeOK
<1>4. phase = "serving" => k # pConn /\ Ready(k)
  BY <1>1 DEF WholeInv, SwapOk
<1>5. ASSUME phase = "serving", call[c].pc = "closeOldChannel" PROVE pChannel = pConn
  BY <1>2, <1>5, WholeInside DEF Swapping, Whole
<1>6. phase = "serving" => links'[k] = links[k]
  BY <1>1, <1>2, <1>3, <1>4, <1>5
<1>7. /\ call'[c].pc \in {"closeOldConn", "setConn"} /\ call'[c].fresh = k
      /\ \A b \in Callers \ {c} : call'[b] = call[b]
  BY <1>1, <1>2, GotoCall, LabelTypes
<1>8. phase = "serving" => SwapOk(c)'
  <2>1. phase = "serving" => Ready(call[c].fresh)'
    BY <1>4, <1>6, <1>7 DEF Ready
  <2> QED
    BY <1>1, <1>4, <1>7, <2>1 DEF SwapOk
<1>9. Swapping(c)'
  BY <1>7 DEF Swapping
<1> QED
  BY <1>2, <1>7, <1>8, <1>9, WholeFrame

LEMMA SwapWhole ==
    ASSUME PublisherInv, WholeInv, NEW c \in Callers, SetConn(c) \/ SetChannel(c)
    PROVE  WholeInv'
<1>1. /\ call[c].pc \in {"setConn", "setChannel"}
      /\ UNCHANGED <<process, links, mu>>
      /\ \/ /\ pConn' = call[c].fresh /\ Goto(c, "setChannel")
         \/ /\ pChannel' = call[c].fresh /\ pConn' = pConn /\ Goto(c, "retry")
            /\ call[c].pc = "setChannel"
  BY DEF SetConn, SetChannel, At
<1>2. /\ mu = c /\ CallOk(c) /\ call \in [Callers -> Call] /\ phase' = phase
  BY <1>1, InsideHolds DEF process
<1>3. phase = "serving" => Ready(call[c].fresh)
  BY <1>1 DEF WholeInv, SwapOk
<1>4. CASE pConn' = call[c].fresh /\ Goto(c, "setChannel")
  <2>1. /\ call'[c].pc = "setChannel" /\ call'[c].fresh = call[c].fresh
        /\ \A b \in Callers \ {c} : call'[b] = call[b]
    BY <1>2, <1>4, GotoCall, LabelTypes
  <2>2. phase = "serving" => SwapOk(c)'
    BY <1>1, <1>3, <2>1 DEF SwapOk, Ready
  <2>3. Swapping(c)'
    BY <2>1 DEF Swapping
  <2> QED
    BY <1>2, <2>1, <2>2, <2>3, WholeFrame
<1>5. CASE /\ pChannel' = call[c].fresh /\ pConn' = pConn /\ Goto(c, "retry")
           /\ call[c].pc = "setChannel"
  <2>1. /\ call'[c].pc = "retry" /\ call'[c].fresh = call[c].fresh
        /\ \A b \in Callers \ {c} : call'[b] = call[b]
    BY <1>2, <1>5, GotoCall, LabelTypes
  <2>2. SwapOk(c)'
    BY <2>1 DEF SwapOk
  <2>3. phase = "serving" => Whole'
    BY <1>1, <1>2, <1>3, <1>5 DEF Whole, Ready, CallOk
  <2> QED
    BY <1>2, <2>1, <2>2, <2>3, WholeFrame
<1> QED
  BY <1>1, <1>4, <1>5

LEMMA DropWhole ==
    ASSUME PublisherInv, WholeInv, NEW k \in DOMAIN links, BrokerDrop(k)
    PROVE  WholeInv'
<1>1. /\ links \in Seq(Link) /\ links[k] \in Link /\ TypeOK
      /\ UNCHANGED <<phase, pConn, pChannel, call>>
  BY DEF BrokerDrop, PublisherInv, TypeOK, process
<1> DEFINE new == [links[k] EXCEPT !.conn = "dead"]
<1>2. new.conn = "dead" /\ new.channel = links[k].channel
  BY <1>1 DEF Link
<1>3. links' = [links EXCEPT ![k] = new]
  BY DEF BrokerDrop
<1> HIDE DEF new
<1>4. ASSUME NEW j \in DOMAIN links, Ready(j)
      PROVE  links'[j].conn # "closed" /\ links'[j].channel = "declared"
  BY <1>1, <1>2, <1>3, <1>4 DEF Ready
<1>5. ASSUME phase = "serving" PROVE Whole => Whole'
  <2>1. pConn \in DOMAIN links
    BY <1>1, <1>5 DEF TypeOK, Running
  <2> QED
    BY <1>1, <1>4, <2>1 DEF Whole, Ready
<1>6. ASSUME NEW c \in Callers, SwapOk(c) PROVE SwapOk(c)'
  <2>1. call[c].pc \in {"closeOldChannel", "closeOldConn", "setConn", "setChannel"} =>
           call[c].fresh \in DOMAIN links
    BY <1>1 DEF PublisherInv, CallInv, CallOk, TypeOK
  <2> QED
    BY <1>1, <1>4, <1>6, <2>1 DEF SwapOk, Ready
<1> QED
  BY <1>1, <1>5, <1>6 DEF WholeInv, Swapping

LEMMA NewPublisherWhole ==
    ASSUME PublisherInv, StartInv, NewPublisher
    PROVE  WholeInv'
<1>1. /\ links \in Seq(Link) /\ call' = call
      /\ \A c \in Callers : call[c].pc = "idle"
  BY DEF NewPublisher, StartInv, PublisherInv, TypeOK
<1>2. ASSUME phase' = "serving"
      PROVE  /\ links' = Append(links, [Dialled EXCEPT !.channel = "declared"])
             /\ pConn' = Len(links') /\ pChannel' = Len(links')
  BY <1>2 DEF NewPublisher
<1>3. PICK d \in Link : /\ d = [Dialled EXCEPT !.channel = "declared"]
                        /\ d.conn = "open" /\ d.channel = "declared"
  BY LinkTypes DEF Dialled
<1>4. phase' = "serving" => Whole'
  <2>1. Append(links, d)[Len(Append(links, d))] = d
    BY <1>1
  <2> QED
    BY <1>2, <1>3, <2>1 DEF Whole, Ready
<1>5. \A c \in Callers : SwapOk(c)'
  BY <1>1 DEF SwapOk
<1> QED
  BY <1>4, <1>5 DEF WholeInv

LEMMA WholeStep ==
    ASSUME PublisherInv, StartInv, WholeInv, [Next]_vars
    PROVE  WholeInv'
<1>1. CASE NewPublisher
  BY <1>1, NewPublisherWhole
<1>2. CASE GiveUp \/ CloseChannel \/ CloseConn \/ Exit
  BY <1>2 DEF GiveUp, CloseChannel, CloseConn, Exit, WholeInv
<1>3. ASSUME NEW c \in Callers, Begin(c) \/ Lock(c) \/ Proceed(c)
      PROVE  WholeInv'
  BY <1>3, BeginWhole, CallerWhole, DialWhole, OpenAndDeclareWhole,
     CloseOldWhole, SwapWhole DEF Proceed
<1>4. ASSUME NEW k \in DOMAIN links, BrokerDrop(k) PROVE WholeInv'
  BY <1>4, DropWhole
<1>5. CASE UNCHANGED vars
  BY <1>5 DEF vars, WholeInv, Whole, Swapping, SwapOk, Ready
<1> QED
  BY <1>1, <1>2, <1>3, <1>4, <1>5 DEF Next

LEMMA WholeInvariant == Spec => []WholeInv
<1>1. Init => WholeInv
  BY DEF Init, WholeInv
<1>2. PublisherInv /\ StartInv /\ WholeInv /\ [Next]_vars => WholeInv'
  BY WholeStep
<1> QED
  BY <1>1, <1>2, PublisherInvariant, StartIsQuiet, PTL DEF Spec

(* Whatever step of a reconnect fails, the publisher that the next call    *)
(* finds has one connection and the channel declared on it, and the        *)
(* publisher itself has closed neither (publisher.go:104-144).             *)
THEOREM PublisherStaysWhole == Spec => []PublisherIsWhole
<1>1. PublisherInv /\ WholeInv => PublisherIsWhole
  <2> SUFFICES ASSUME PublisherInv, WholeInv, phase = "serving", mu = NoCaller
               PROVE  Whole
    BY DEF PublisherIsWhole, Whole, Ready
  <2>1. \A c \in Callers : ~Swapping(c)
    BY PublisherAssumption DEF PublisherAssumption, PublisherInv, MutexInv, Inside, Swapping
  <2> QED
    BY <2>1 DEF WholeInv
<1> QED
  BY <1>1, PublisherInvariant, WholeInvariant, PTL

-----------------------------------------------------------------------------
(* What a caller is told of a hiccup *)

(* A caller with an error, or whose new link has died under it, has met    *)
(* the broker's refusal.                                                   *)
HiccupOk(c) ==
    /\ call[c].result = "error" => c \in outage
    /\ Inside(c) /\ call[c].fresh # 0 /\ links[call[c].fresh].conn = "dead" =>
          c \in outage

HiccupInv == phase \in {"starting", "serving"} => \A c \in Callers : HiccupOk(c)

(* The step of one caller: the other links and the other callers stay.     *)
LEMMA HiccupFrame ==
    ASSUME PublisherInv, HiccupInv, NEW c \in Callers, phase' = phase,
           \A b \in Callers \ {c} : call'[b] = call[b],
           \A b \in Callers \ {c} : b \in outage => b \in outage',
           \A b \in Callers \ {c} : Inside(b) => UNCHANGED links,
           phase \in {"starting", "serving"} => HiccupOk(c)'
    PROVE  HiccupInv'
<1>1. ASSUME NEW b \in Callers \ {c}, HiccupOk(b) PROVE HiccupOk(b)'
  BY <1>1 DEF HiccupOk, Inside
<1> QED
  BY <1>1 DEF HiccupInv

LEMMA OnlyInside ==
    ASSUME PublisherInv, NEW c \in Callers, mu = c
    PROVE  \A b \in Callers \ {c} : ~Inside(b)
BY DEF PublisherInv, MutexInv

LEMMA BeginHiccup ==
    ASSUME PublisherInv, HiccupInv, NEW c \in Callers, Begin(c)
    PROVE  HiccupInv'
<1>1. /\ call \in [Callers -> Call] /\ UNCHANGED <<phase, links>>
      /\ outage' = outage \ {c}
  BY DEF Begin, PublisherInv, TypeOK
<1>2. PICK start \in {[pc |-> "locking", result |-> "none"],
                      [pc |-> "idle", result |-> "refused"]} :
         call' = [call EXCEPT ![c] = [pc |-> start.pc, fresh |-> 0,
                                      result |-> start.result, published |-> 0]]
  BY DEF Begin
<1>3. start.result \in {"none", "refused"}
  BY <1>2
<1>4. /\ call'[c].result \in {"none", "refused"} /\ call'[c].fresh = 0
      /\ \A b \in Callers \ {c} : call'[b] = call[b]
  BY <1>1, <1>2, <1>3
<1>5. HiccupOk(c)'
  BY <1>4 DEF HiccupOk
<1> QED
  BY <1>1, <1>4, <1>5, HiccupFrame

(* A step that fails nobody, and leaves the caller's link open or closed.  *)
LEMMA GotoHiccup ==
    ASSUME PublisherInv, HiccupInv, NEW c \in Callers, NEW pc \in PCs, Goto(c, pc),
           phase' = phase, outage' = outage,
           \A b \in Callers \ {c} : Inside(b) => UNCHANGED links,
           Inside(c)' => Inside(c) \/ call[c].fresh = 0,
           call[c].fresh # 0 => links'[call[c].fresh].conn
                                   \in {links[call[c].fresh].conn, "closed"}
    PROVE  HiccupInv'
<1>1. /\ call'[c].fresh = call[c].fresh /\ call'[c].result = call[c].result
      /\ \A b \in Callers \ {c} : call'[b] = call[b]
  BY GotoCall DEF PublisherInv, TypeOK
<1>2. HiccupOk(c) => HiccupOk(c)'
  BY <1>1 DEF HiccupOk
<1>3. phase \in {"starting", "serving"} => HiccupOk(c)'
  BY <1>2 DEF HiccupInv
<1> QED
  BY <1>1, <1>3, HiccupFrame

LEMMA PublishHiccup ==
    ASSUME PublisherInv, WholeInv, HiccupInv, NEW c \in Callers,
           TryPublish(c) \/ RetryPublish(c)
    PROVE  HiccupInv'
<1>1. /\ call[c].pc \in {"publish", "retry"} /\ Running
      /\ UNCHANGED <<phase, links, outage>>
      /\ \/ Deliver(c) \/ Goto(c, "dial")
         \/ call[c].pc = "retry" /\ ~Usable(pChannel) /\ Return(c, "error")
  BY DEF TryPublish, RetryPublish, At, process
<1>2. /\ mu = c /\ CallOk(c) /\ call \in [Callers -> Call] /\ Inside(c)
      /\ TypeOK /\ links \in Seq(Link)
  BY <1>1, InsideHolds DEF PublisherInv, TypeOK, Inside
<1>3. CASE Goto(c, "dial")
  BY <1>1, <1>2, <1>3, GotoHiccup, LabelTypes
<1>4. CASE Deliver(c)
  <2>1. /\ call'[c].fresh = call[c].fresh /\ call'[c].result = "ok"
        /\ \A b \in Callers \ {c} : call'[b] = call[b]
    BY <1>2, <1>4, DeliverCall
  <2>2. HiccupOk(c) => HiccupOk(c)'
    BY <1>1, <1>2, <2>1 DEF HiccupOk
  <2>3. phase \in {"starting", "serving"} => HiccupOk(c)'
    BY <2>2 DEF HiccupInv
  <2> QED
    BY <1>1, <2>1, <2>3, HiccupFrame
<1>5. CASE call[c].pc = "retry" /\ ~Usable(pChannel) /\ Return(c, "error")
  <2>1. \A b \in Callers \ {c} : call'[b] = call[b]
    BY <1>2, <1>5, ReturnCall, LabelTypes
  <2>2. ASSUME phase \in {"starting", "serving"} PROVE c \in outage
    <3>1. phase = "serving"
      BY <1>1, <2>2 DEF Running
    <3>2. Whole /\ pConn = call[c].fresh /\ pConn # 0 /\ pConn \in DOMAIN links
      BY <1>2, <1>5, <3>1, WholeInside DEF CallOk, Swapping, TypeOK
    <3>3. links[pConn] \in Link
      BY <1>2, <3>2
    <3>4. links[pConn].conn = "dead"
      BY <1>5, <3>2, <3>3 DEF Whole, Ready, Usable, Link
    <3> QED
      BY <1>2, <2>2, <3>2, <3>4 DEF HiccupInv, HiccupOk
  <2>3. phase \in {"starting", "serving"} => HiccupOk(c)'
    BY <1>1, <2>2 DEF HiccupOk
  <2> QED
    BY <1>1, <2>1, <2>3, HiccupFrame
<1> QED
  BY <1>1, <1>3, <1>4, <1>5

(* A reconnect that fails tells its caller what the broker did.            *)
LEMMA FailureHiccup ==
    ASSUME PublisherInv, HiccupInv, NEW c \in Callers, mu = c,
           phase' = phase, ReconnectFails(c)
    PROVE  HiccupInv'
<1>1. /\ outage' = outage \cup {c}
      /\ \A b \in Callers \ {c} : call'[b] = call[b]
  BY FailedCall DEF ReconnectFails, PublisherInv
<1>2. HiccupOk(c)'
  BY <1>1 DEF HiccupOk
<1> QED
  BY <1>1, <1>2, OnlyInside, HiccupFrame

LEMMA DialHiccup ==
    ASSUME PublisherInv, HiccupInv, NEW c \in Callers, Dial(c)
    PROVE  HiccupInv'
<1>1. call[c].pc = "dial" /\ UNCHANGED <<process, pConn, pChannel, mu>>
  BY DEF Dial, At
<1>2. /\ mu = c /\ links \in Seq(Link) /\ call \in [Callers -> Call]
      /\ phase' = phase
  BY <1>1, InsideHolds DEF PublisherInv, TypeOK, process
<1>3. CASE ReconnectFails(c)
  BY <1>2, <1>3, FailureHiccup
<1>4. CASE /\ links' = Append(links, Dialled)
           /\ call' = [call EXCEPT ![c].pc = "openChannel", ![c].fresh = Len(links')]
           /\ UNCHANGED outage
  <2> DEFINE n == Len(links')
  <2>1. PICK d \in Link : d = Dialled /\ d.conn = "open"
    BY LinkTypes DEF Dialled
  <2>2. n \in Nat /\ links'[n] = d
    BY <1>2, <1>4, <2>1
  <2>3. call' = [call EXCEPT ![c].pc = "openChannel", ![c].fresh = n]
    BY <1>4
  <2> HIDE DEF n
  <2>4. /\ call'[c].fresh = n /\ call'[c].result = call[c].result
        /\ \A b \in Callers \ {c} : call'[b] = call[b]
    BY <1>2, <2>2, <2>3, FreshCall
  <2>5. phase \in {"starting", "serving"} => HiccupOk(c)'
    BY <1>4, <2>1, <2>2, <2>4 DEF HiccupInv, HiccupOk
  <2> QED
    BY <1>2, <1>4, <2>4, <2>5, OnlyInside, HiccupFrame
<1> QED
  BY <1>3, <1>4 DEF Dial

LEMMA OpenAndDeclareHiccup ==
    ASSUME PublisherInv, HiccupInv, NEW c \in Callers, OpenChannel(c) \/ Declare(c)
    PROVE  HiccupInv'
<1> DEFINE k == call[c].fresh
<1>1. /\ call[c].pc \in {"openChannel", "declare"}
      /\ UNCHANGED <<process, pConn, pChannel, mu>>
      /\ \/ /\ UNCHANGED outage
            /\ \E ch \in {"none", "open", "declared", "closed"},
                  pc \in {"declare", "closeOldChannel"} :
                  links' = [links EXCEPT ![k].channel = ch] /\ Goto(c, pc)
         \/ ReconnectFails(c)
  BY DEF OpenChannel, Declare, At
<1>2. /\ mu = c /\ CallOk(c) /\ k # 0 /\ TypeOK /\ links \in Seq(Link)
      /\ phase' = phase /\ Inside(c)
  BY <1>1, InsideHolds DEF PublisherInv, TypeOK, process, CallOk, Inside
<1>3. k \in DOMAIN links
  BY <1>2 DEF TypeOK
<1>4. CASE ReconnectFails(c)
  BY <1>2, <1>4, FailureHiccup
<1>5. ASSUME NEW ch \in {"none", "open", "declared", "closed"},
             NEW pc \in {"declare", "closeOldChannel"},
             links' = [links EXCEPT ![k].channel = ch], Goto(c, pc),
             UNCHANGED outage
      PROVE  HiccupInv'
  <2>1. links'[k].conn = links[k].conn
    BY <1>2, <1>3, <1>5, ChannelWrite
  <2>2. pc \in PCs
    BY LabelTypes
  <2> QED
    BY <1>2, <1>5, <2>1, <2>2, OnlyInside, GotoHiccup
<1> QED
  BY <1>1, <1>4, <1>5

LEMMA CloseOldHiccup ==
    ASSUME PublisherInv, HiccupInv, NEW c \in Callers,
           CloseOldChannel(c) \/ CloseOldConn(c)
    PROVE  HiccupInv'
<1> DEFINE k == call[c].fresh
<1>1. /\ UNCHANGED <<process, pConn, pChannel, mu, outage>> /\ Running
      /\ \/ /\ call[c].pc = "closeOldChannel" /\ Goto(c, "closeOldConn")
            /\ links' = [links EXCEPT ![pChannel].channel = "closed"]
         \/ /\ call[c].pc = "closeOldConn" /\ Goto(c, "setConn")
            /\ links' = [links EXCEPT ![pConn] = Closed]
  BY DEF CloseOldChannel, CloseOldConn, At
<1>2. /\ mu = c /\ CallOk(c) /\ k # 0 /\ TypeOK /\ links \in Seq(Link)
      /\ phase' = phase /\ Inside(c)
  BY <1>1, InsideHolds DEF PublisherInv, TypeOK, process, CallOk, Inside
<1>3. k \in DOMAIN links /\ pChannel \in DOMAIN links /\ pConn \in DOMAIN links
  BY <1>1, <1>2 DEF TypeOK
<1>4. links'[k].conn \in {links[k].conn, "closed"}
  <2>1. CASE links' = [links EXCEPT ![pChannel].channel = "closed"]
    BY <1>2, <1>3, <2>1, ChannelEffect
  <2>2. CASE links' = [links EXCEPT ![pConn] = Closed]
    BY <1>2, <1>3, <2>2, CloseEffect
  <2> QED
    BY <1>1, <2>1, <2>2
<1> QED
  BY <1>1, <1>2, <1>4, OnlyInside, GotoHiccup, LabelTypes

LEMMA DropHiccup ==
    ASSUME PublisherInv, HiccupInv, NEW k \in DOMAIN links, BrokerDrop(k)
    PROVE  HiccupInv'
<1>1. /\ links' = [links EXCEPT ![k].conn = "dead"] /\ UNCHANGED <<phase, call>>
      /\ outage' = outage \cup {c \in Callers : Inside(c) /\ call[c].fresh = k}
  BY DEF BrokerDrop, process
<1>2. ASSUME NEW c \in Callers, HiccupOk(c) PROVE HiccupOk(c)'
  <2>1. CASE call[c].fresh = k
    BY <1>1, <1>2, <2>1 DEF HiccupOk, Inside
  <2>2. CASE call[c].fresh # k
    <3>1. call[c].fresh # 0 => links'[call[c].fresh] = links[call[c].fresh]
      BY <1>1, <2>2 DEF PublisherInv, TypeOK
    <3> QED
      BY <1>1, <1>2, <3>1 DEF HiccupOk, Inside
  <2> QED
    BY <2>1, <2>2
<1> QED
  BY <1>1, <1>2 DEF HiccupInv

LEMMA HiccupStep ==
    ASSUME PublisherInv, StartInv, WholeInv, HiccupInv, [Next]_vars
    PROVE  HiccupInv'
<1>1. CASE NewPublisher
  <2>1. /\ UNCHANGED <<call, outage>> /\ phase = "starting"
        /\ \A c \in Callers : call[c].pc = "idle"
    BY <1>1 DEF NewPublisher, StartInv
  <2> QED
    BY <2>1 DEF HiccupInv, HiccupOk, Inside
<1>2. CASE GiveUp \/ CloseChannel \/ CloseConn \/ Exit
  BY <1>2 DEF GiveUp, CloseChannel, CloseConn, Exit, HiccupInv
<1>3. ASSUME NEW c \in Callers, Lock(c) PROVE HiccupInv'
  <2>1. /\ call[c].pc = "locking" /\ Goto(c, "publish")
        /\ UNCHANGED <<phase, links, outage>>
    BY <1>3 DEF Lock, At, process
  <2>2. call[c].fresh = 0
    BY <2>1 DEF PublisherInv, CallInv, CallOk
  <2> QED
    BY <2>1, <2>2, GotoHiccup, LabelTypes
<1>4. ASSUME NEW c \in Callers, Unlock(c) \/ SetConn(c) \/ SetChannel(c)
      PROVE  HiccupInv'
  <2>1. /\ call[c].pc \in {"unlock", "setConn", "setChannel"}
        /\ Goto(c, "idle") \/ Goto(c, "setChannel") \/ Goto(c, "retry")
        /\ UNCHANGED <<phase, links, outage>>
    BY <1>4 DEF Unlock, SetConn, SetChannel, At, process
  <2>2. Inside(c)
    BY <2>1 DEF Inside
  <2> QED
    BY <2>1, <2>2, GotoHiccup, LabelTypes
<1>5. ASSUME NEW c \in Callers, Begin(c) \/ Lock(c) \/ Proceed(c)
      PROVE  HiccupInv'
  BY <1>3, <1>4, <1>5, BeginHiccup, PublishHiccup, DialHiccup,
     OpenAndDeclareHiccup, CloseOldHiccup DEF Proceed
<1>6. ASSUME NEW k \in DOMAIN links, BrokerDrop(k) PROVE HiccupInv'
  BY <1>6, DropHiccup
<1>7. CASE UNCHANGED vars
  BY <1>7 DEF vars, HiccupInv, HiccupOk, Inside
<1> QED
  BY <1>1, <1>2, <1>5, <1>6, <1>7 DEF Next

(* While the process serves, an error of Publish means that the broker     *)
(* refused the reconnect or dropped the new connection: a stale connection *)
(* alone never reaches the caller (publisher.go:153-168).                  *)
THEOREM HiccupsAreHidden == Spec => []HiccupIsHidden
<1>1. Init => HiccupInv
  BY DEF Init, HiccupInv, HiccupOk
<1>2. PublisherInv /\ StartInv /\ WholeInv /\ HiccupInv /\ [Next]_vars => HiccupInv'
  BY HiccupStep
<1>3. PublisherInv /\ StartInv /\ HiccupInv => HiccupIsHidden
  BY DEF HiccupInv, HiccupOk, HiccupIsHidden
<1> QED
  BY <1>1, <1>2, <1>3, PublisherInvariant, StartIsQuiet, WholeInvariant, PTL DEF Spec
=============================================================================
