------------------------------ MODULE Publisher ------------------------------
(***************************************************************************)
(* The RabbitMQ publisher (internal/rabbitmq) shared by every request: one *)
(* connection with one channel, a mutex around Publish, and one reconnect  *)
(* and retry when a publish fails.  The broker may drop a connection at    *)
(* any time, and refuse to accept, to open a channel or to declare.        *)
(* main builds the publisher with retries and closes it, without the       *)
(* mutex, when the listener stops, while requests may still be running.    *)
(***************************************************************************)
EXTENDS Naturals, Sequences, FiniteSets

CONSTANTS Callers,   \* requests that may publish at once
          NoCaller,
          Attempts,  \* how often main tries NewPublisher
          MaxCalls   \* bound of the model: calls of Publish

ASSUME PublisherAssumption ==
    /\ NoCaller \notin Callers
    /\ Attempts \in Nat \ {0} /\ MaxCalls \in Nat

VARIABLES
    phase,     \* of the process: starting, serving, closing, closed, exited
    attempts,  \* NewPublisher calls made
    links,     \* every connection ever dialled, with its one channel
    pConn,     \* p.conn, an index into links; 0 is nil
    pChannel,  \* p.channel, the index of the link it belongs to
    mu,        \* who holds p.mu
    call,      \* the Publish call of each caller, or its last one
    calls,     \* calls made
    leaked,    \* history: links NewPublisher dialled and forgot
    outage     \* history: callers refused or dropped while reconnecting

vars == <<phase, attempts, links, pConn, pChannel, mu, call, calls, leaked, outage>>

Phases   == {"starting", "serving", "closing", "closed", "exited"}
PCs      == {"idle", "locking", "publish", "dial", "openChannel", "declare",
             "closeOldChannel", "closeOldConn", "setConn", "setChannel", "retry",
             "unlock"}
Results  == {"none", "ok", "error", "refused"}

Link == [conn : {"open", "dead", "closed"},
         channel : {"none", "open", "declared", "closed"}]
Call == [pc : PCs, fresh : Nat, result : Results, published : Nat]

Running == phase \in {"serving", "closing", "closed"}

At(c, pc)     == Running /\ call[c].pc = pc
Goto(c, pc)   == call' = [call EXCEPT ![c].pc = pc]
Return(c, r)  == call' = [call EXCEPT ![c].pc = "unlock", ![c].result = r]
Inside(c)     == call[c].pc \notin {"idle", "locking"}

Dialled == [conn |-> "open", channel |-> "none"]
Closed  == [conn |-> "closed", channel |-> "closed"]

(* What the broker and the client still share; a publish goes through it.  *)
Usable(k) == links[k].conn = "open" /\ links[k].channel = "declared"

process == <<phase, attempts, calls, leaked>>

-----------------------------------------------------------------------------
(* Mutant: the struct NewPublisher returns lacks its channel. *)
NewPublisherWithoutChannel ==
    /\ phase = "starting"
    /\ attempts' = attempts + 1
    /\ links' = Append(links, [Dialled EXCEPT !.channel = "declared"])
    /\ pConn' = Len(links')
    /\ phase' = "serving"
    /\ UNCHANGED <<pChannel, leaked, mu, call, calls, outage>>

(* NewPublisher, retried by main.  A connection whose channel cannot be    *)
(* opened, or whose exchange cannot be declared, is neither kept nor closed. *)
NewPublisher ==
    /\ phase = "starting" /\ attempts < Attempts
    /\ attempts' = attempts + 1
    /\ \/ UNCHANGED <<phase, links, pConn, pChannel, leaked>>
       \/ /\ \E ch \in {"none", "open"} :
                links' = Append(links, [Dialled EXCEPT !.channel = ch])
          /\ leaked' = leaked \cup {Len(links')}
          /\ UNCHANGED <<phase, pConn, pChannel>>
       \/ /\ links' = Append(links, [Dialled EXCEPT !.channel = "declared"])
          /\ pConn' = Len(links') /\ pChannel' = Len(links')
          /\ phase' = "serving"
          /\ UNCHANGED leaked
    /\ UNCHANGED <<mu, call, calls, outage>>

(* log.Fatalf after the last attempt. *)
GiveUp ==
    /\ phase = "starting" /\ attempts = Attempts
    /\ phase' = "exited"
    /\ UNCHANGED <<attempts, links, pConn, pChannel, mu, call, calls, leaked, outage>>

-----------------------------------------------------------------------------
(* Publish.  An empty routing key or a payload that json cannot marshal is *)
(* refused before the mutex.                                               *)
Begin(c) ==
    /\ At(c, "idle") /\ calls < MaxCalls
    /\ calls' = calls + 1
    /\ outage' = outage \ {c}
    /\ \E start \in {[pc |-> "locking", result |-> "none"],
                     [pc |-> "idle", result |-> "refused"]} :
          call' = [call EXCEPT ![c] = [pc |-> start.pc, fresh |-> 0,
                                       result |-> start.result, published |-> 0]]
    /\ UNCHANGED <<phase, attempts, links, pConn, pChannel, mu, leaked>>

Lock(c) ==
    /\ At(c, "locking") /\ mu = NoCaller
    /\ mu' = c
    /\ Goto(c, "publish")
    /\ UNCHANGED <<process, links, pConn, pChannel, outage>>

(* One PublishWithContext.  There are no publisher confirms: bytes written *)
(* to a connection whose end is not noticed yet are lost without an error. *)
Deliver(c) ==
    \/ /\ Usable(pChannel)
       /\ call' = [call EXCEPT ![c].pc = "unlock", ![c].result = "ok",
                               ![c].published = @ + 1]
    \/ links[pChannel].conn = "dead" /\ Return(c, "ok")

(* Mutant: the reconnect and the retry are not tied to an error. *)
TryPublishAndRetry(c) ==
    /\ At(c, "publish")
    /\ call' = [call EXCEPT ![c].pc = "dial",
                   ![c].published = IF Usable(pChannel) THEN @ + 1 ELSE @]
    /\ UNCHANGED <<process, links, pConn, pChannel, mu, outage>>

TryPublish(c) ==
    /\ At(c, "publish")
    /\ Deliver(c) \/ (~Usable(pChannel) /\ Goto(c, "dial"))
    /\ UNCHANGED <<process, links, pConn, pChannel, mu, outage>>

RetryPublish(c) ==
    /\ At(c, "retry")
    /\ Deliver(c) \/ (~Usable(pChannel) /\ Return(c, "error"))
    /\ UNCHANGED <<process, links, pConn, pChannel, mu, outage>>

(* Mutant: the error paths of Publish return without the deferred Unlock.  *)
UnlockUnlessError(c) ==
    /\ At(c, "unlock")
    /\ mu' = IF call[c].result = "error" THEN mu ELSE NoCaller
    /\ Goto(c, "idle")
    /\ UNCHANGED <<process, links, pConn, pChannel, outage>>

Unlock(c) ==
    /\ At(c, "unlock")
    /\ mu' = NoCaller
    /\ Goto(c, "idle")
    /\ UNCHANGED <<process, links, pConn, pChannel, outage>>

-----------------------------------------------------------------------------
(* reconnect *)

ReconnectFails(c) == Return(c, "error") /\ outage' = outage \cup {c}

(* Mutant: the mutex is not held while the network is waited for. *)
DialUnlocked(c) ==
    /\ At(c, "dial")
    /\ links' = Append(links, Dialled)
    /\ call' = [call EXCEPT ![c].pc = "openChannel", ![c].fresh = Len(links')]
    /\ mu' = NoCaller
    /\ UNCHANGED <<process, pConn, pChannel, outage>>

(* Mutant: the old connection is closed before the new one is complete. *)
DialClosesOld(c) ==
    /\ At(c, "dial")
    /\ links' = Append([links EXCEPT ![pConn] = Closed], Dialled)
    /\ call' = [call EXCEPT ![c].pc = "openChannel", ![c].fresh = Len(links')]
    /\ UNCHANGED <<process, pConn, pChannel, mu, outage>>

Dial(c) ==
    /\ At(c, "dial")
    /\ \/ /\ links' = Append(links, Dialled)
          /\ call' = [call EXCEPT ![c].pc = "openChannel", ![c].fresh = Len(links')]
          /\ UNCHANGED outage
       \/ UNCHANGED links /\ ReconnectFails(c)
    /\ UNCHANGED <<process, pConn, pChannel, mu>>

(* Mutant: a new connection without a channel is forgotten, which is what  *)
(* NewPublisher does.                                                      *)
OpenChannelForgets(c) ==
    /\ At(c, "openChannel")
    /\ UNCHANGED links /\ ReconnectFails(c)
    /\ UNCHANGED <<process, pConn, pChannel, mu>>

OpenChannel(c) ==
    LET k == call[c].fresh
    IN  /\ At(c, "openChannel")
        /\ \/ /\ links[k].conn = "open"
              /\ links' = [links EXCEPT ![k].channel = "open"]
              /\ Goto(c, "declare")
              /\ UNCHANGED outage
           \/ links' = [links EXCEPT ![k] = Closed] /\ ReconnectFails(c)
        /\ UNCHANGED <<process, pConn, pChannel, mu>>

(* ExchangeDeclare waits for the broker's answer (noWait is false). *)
Declare(c) ==
    LET k == call[c].fresh
    IN  /\ At(c, "declare")
        /\ \/ /\ links[k].conn = "open"
              /\ links' = [links EXCEPT ![k].channel = "declared"]
              /\ Goto(c, "closeOldChannel")
              /\ UNCHANGED outage
           \/ links' = [links EXCEPT ![k] = Closed] /\ ReconnectFails(c)
        /\ UNCHANGED <<process, pConn, pChannel, mu>>

CloseOldChannel(c) ==
    /\ At(c, "closeOldChannel")
    /\ links' = [links EXCEPT ![pChannel].channel = "closed"]
    /\ Goto(c, "closeOldConn")
    /\ UNCHANGED <<process, pConn, pChannel, mu, outage>>

(* Mutant: only the old channel is closed. *)
CloseOldConnForgets(c) ==
    /\ At(c, "closeOldConn")
    /\ Goto(c, "setConn")
    /\ UNCHANGED <<process, links, pConn, pChannel, mu, outage>>

CloseOldConn(c) ==
    /\ At(c, "closeOldConn")
    /\ links' = [links EXCEPT ![pConn] = Closed]
    /\ Goto(c, "setConn")
    /\ UNCHANGED <<process, pConn, pChannel, mu, outage>>

SetConn(c) ==
    /\ At(c, "setConn")
    /\ pConn' = call[c].fresh
    /\ Goto(c, "setChannel")
    /\ UNCHANGED <<process, links, pChannel, mu, outage>>

(* Mutant: the first publish's error is returned although the reconnect    *)
(* succeeded: there is no retry.                                           *)
SetChannelOnly(c) ==
    /\ At(c, "setChannel")
    /\ pChannel' = call[c].fresh
    /\ Return(c, "error")
    /\ UNCHANGED <<process, links, pConn, mu, outage>>

SetChannel(c) ==
    /\ At(c, "setChannel")
    /\ pChannel' = call[c].fresh
    /\ Goto(c, "retry")
    /\ UNCHANGED <<process, links, pConn, mu, outage>>

-----------------------------------------------------------------------------
(* The broker, or an idle timeout, ends a connection. *)
BrokerDrop(k) ==
    /\ links[k].conn = "open"
    /\ links' = [links EXCEPT ![k].conn = "dead"]
    /\ outage' = outage \cup {c \in Callers : Inside(c) /\ call[c].fresh = k}
    /\ UNCHANGED <<process, pConn, pChannel, mu, call>>

(* Close, deferred by main: it takes no mutex, and reads p.channel and     *)
(* p.conn one after the other.                                             *)
CloseChannel ==
    /\ phase = "serving"
    /\ phase' = "closing"
    /\ links' = [links EXCEPT ![pChannel].channel = "closed"]
    /\ UNCHANGED <<attempts, pConn, pChannel, mu, call, calls, leaked, outage>>

CloseConn ==
    /\ phase = "closing"
    /\ phase' = "closed"
    /\ links' = [links EXCEPT ![pConn] = Closed]
    /\ UNCHANGED <<attempts, pConn, pChannel, mu, call, calls, leaked, outage>>

(* main returns; or, at any time, the process is killed, or Listen fails   *)
(* and log.Fatalf skips the deferred Close.                                *)
Exit ==
    /\ phase # "exited"
    /\ phase' = "exited"
    /\ UNCHANGED <<attempts, links, pConn, pChannel, mu, call, calls, leaked, outage>>

-----------------------------------------------------------------------------
Init ==
    /\ phase = "starting" /\ attempts = 0
    /\ links = <<>> /\ pConn = 0 /\ pChannel = 0
    /\ mu = NoCaller
    /\ call = [c \in Callers |-> [pc |-> "idle", fresh |-> 0,
                                  result |-> "none", published |-> 0]]
    /\ calls = 0
    /\ leaked = {} /\ outage = {}

(* The steps of a call that has the mutex. *)
Proceed(c) ==
    \/ TryPublish(c) \/ RetryPublish(c) \/ Unlock(c)
    \/ Dial(c) \/ OpenChannel(c) \/ Declare(c)
    \/ CloseOldChannel(c) \/ CloseOldConn(c)
    \/ SetConn(c) \/ SetChannel(c)

Next ==
    \/ NewPublisher \/ GiveUp
    \/ \E c \in Callers : Begin(c) \/ Lock(c) \/ Proceed(c)
    \/ \E k \in DOMAIN links : BrokerDrop(k)
    \/ CloseChannel \/ CloseConn \/ Exit

Spec == Init /\ [][Next]_vars

(* Dialling has a timeout and heartbeats end a silent connection, so every *)
(* network call returns; a sync.Mutex does not starve a waiter.            *)
Fairness == \A c \in Callers : WF_vars(Proceed(c)) /\ SF_vars(Lock(c))

FairSpec == Spec /\ Fairness

-----------------------------------------------------------------------------
TypeOK ==
    /\ phase \in Phases
    /\ attempts \in 0..Attempts /\ calls \in 0..MaxCalls
    /\ links \in Seq(Link)
    /\ pConn \in 0..Len(links) /\ pChannel \in 0..Len(links)
    /\ Running => pConn # 0 /\ pChannel # 0
    /\ mu \in Callers \cup {NoCaller}
    /\ call \in [Callers -> Call]
    /\ \A c \in Callers : call[c].fresh \in 0..Len(links)
    /\ leaked \subseteq DOMAIN links /\ outage \subseteq Callers

(* No reconnect leaks a connection, whatever step of it fails and however  *)
(* Close interferes: one that is not closed is the publisher's, or is      *)
(* being established by the caller inside the mutex, or was left by        *)
(* NewPublisher (publisher.go:113-122).                                    *)
NoConnectionLeak ==
    \A k \in DOMAIN links :
        \/ links[k].conn = "closed" \/ k = pConn \/ k \in leaked
        \/ \E c \in Callers : Inside(c) /\ mu = c /\ call[c].fresh = k

(* A failed reconnect leaves the previous, possibly stale, connection in   *)
(* place (publisher.go:105-107): between two calls the publisher holds a   *)
(* declared channel of its own connection, and neither has been closed.    *)
PublisherIsWhole ==
    phase = "serving" /\ mu = NoCaller =>
        /\ pConn = pChannel
        /\ links[pConn].conn # "closed" /\ links[pConn].channel = "declared"

(* A retry goes to the connection its own reconnect made, never to one     *)
(* that another caller has put in its place meanwhile.                     *)
RetriesOnItsOwnConnection ==
    \A c \in Callers : At(c, "retry") =>
        pConn = call[c].fresh /\ pChannel = call[c].fresh

(* An error means that the message was not published, so that a handler    *)
(* may answer its client accordingly; no call publishes twice.             *)
ErrorMeansNotPublished ==
    \A c \in Callers : /\ call[c].published <= 1
                       /\ call[c].result \in {"error", "refused"} => call[c].published = 0

(* A transient broker hiccup must not fail the caller (publisher.go:153-   *)
(* 156): an error is only returned after the broker has refused the        *)
(* reconnect or dropped its connection, or while the process stops.        *)
HiccupIsHidden ==
    \A c \in Callers :
        call[c].result = "error" => c \in outage \/ phase # "serving"

(* However many attempts NewPublisher left behind, the process never holds *)
(* more connections than it tried to make at its start, and one for a      *)
(* reconnect in progress: what it takes of the broker's limit is bounded.  *)
Held == {k \in DOMAIN links : links[k].conn # "closed"}

ConnectionsBounded == Cardinality(Held) <= attempts + 1

(* What the callers see is the port: at most one copy of a message goes    *)
(* out, none after or before an error, and nothing once a call returned.   *)
Stage(d) ==
    CASE d.pc = "idle"     -> "idle"
      [] d.pc # "idle" /\ d.result = "none"  -> "open"
      [] d.pc # "idle" /\ d.result # "none" -> "returning"

Port == INSTANCE PublisherPort WITH
    stage  <- [c \in Callers |-> Stage(call[c])],
    result <- [c \in Callers |-> call[c].result],
    sent   <- [c \in Callers |-> call[c].published]

ImplementsPort == Port!Spec

(* Every call of Publish returns, unless the process exits first: no path  *)
(* keeps the mutex.                                                        *)
EveryCallReturns ==
    \A c \in Callers : At(c, "locking") ~> (At(c, "idle") \/ phase = "exited")
=============================================================================
