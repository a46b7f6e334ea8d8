------------------------------- MODULE Startup --------------------------------
(***************************************************************************)
(* The life of the gateway process (cmd/api/main.go): it connects to       *)
(* MongoDB with retries, asks for the unique index of every collection     *)
(* (internal/mongoindex), dials RabbitMQ with retries, serves, and ends,   *)
(* by a signal, by log.Fatalf or by being killed.  The indexes live in     *)
(* MongoDB and outlive the process.  Publisher.tla details the dialling.   *)
(*                                                                         *)
(* The module gives the steps; a specification that extends it says which  *)
(* collections hold duplicates when an index is asked for.                 *)
(***************************************************************************)
EXTENDS Naturals

CONSTANTS Collections,  \* the collections mongoindex knows
          Attempts,     \* how often main tries each of the two services
          MaxFaults,    \* bound of the model: calls that fail
          MaxKills      \* bound of the model: kills of the process

ASSUME StartupAssumption ==
    /\ Attempts \in Nat \ {0}
    /\ MaxFaults \in Nat /\ MaxKills \in Nat

VARIABLES
    phase,   \* of the process
    tries,   \* failed attempts of the retry loop it is in
    todo,    \* the collections EnsureIndexes has not indexed in this start
    built,   \* the collections that have their unique index
    faults, kills

processVars == <<phase, tries, todo, built, faults, kills>>

Phases == {"down", "connecting", "indexing", "dialling", "serving", "stopping"}

Fine  == UNCHANGED faults
Fault == faults < MaxFaults /\ faults' = faults + 1

(* The listener answers; after a signal the requests it has accepted still *)
(* run while main closes the publisher and disconnects from MongoDB.       *)
Running == phase \in {"serving", "stopping"}

-----------------------------------------------------------------------------
Launch ==
    /\ phase = "down"
    /\ phase' = "connecting" /\ tries' = 0 /\ todo' = Collections
    /\ UNCHANGED <<built, faults, kills>>

(* One failed attempt of retry(10, ...); log.Fatalf after the last one.    *)
Retry(stay) ==
    /\ Fault
    /\ tries' = tries + 1
    /\ phase' = IF tries' = Attempts THEN "down" ELSE stay
    /\ UNCHANGED todo

Connect ==
    /\ phase = "connecting"
    /\ \/ Fine /\ phase' = "indexing" /\ tries' = 0 /\ UNCHANGED todo
       \/ Retry("connecting")
    /\ UNCHANGED <<built, kills>>

(* Mutant: an index that cannot be built stops the process. *)
CreateManyOrDie(c, duplicated) ==
    /\ phase = "indexing" /\ c \in todo
    /\ Fine
    /\ IF duplicated
       THEN phase' = "down" /\ UNCHANGED <<todo, built>>
       ELSE /\ built' = built \cup {c}
            /\ todo' = todo \ {c}
            /\ phase' = IF todo' = {} THEN "dialling" ELSE "indexing"
    /\ UNCHANGED <<tries, kills>>

(* One CreateMany of EnsureIndexes, in the random order of a Go map.  The  *)
(* first error ends it, and main only logs the error.  A collection with   *)
(* duplicates is refused its index; a call that timed out may have built   *)
(* it; an index that exists is left alone.                                 *)
CreateMany(c, duplicated) ==
    /\ phase = "indexing" /\ c \in todo
    /\ \/ /\ Fine /\ ~duplicated
          /\ built' = built \cup {c}
          /\ todo' = todo \ {c}
          /\ phase' = IF todo' = {} THEN "dialling" ELSE "indexing"
       \/ /\ Fine /\ duplicated
          /\ phase' = "dialling"
          /\ UNCHANGED <<todo, built>>
       \/ /\ Fault
          /\ \/ UNCHANGED built
             \/ ~duplicated /\ built' = built \cup {c}
          /\ phase' = "dialling"
          /\ UNCHANGED todo
    /\ UNCHANGED <<tries, kills>>

Dial ==
    /\ phase = "dialling"
    /\ \/ Fine /\ phase' = "serving" /\ tries' = 0 /\ UNCHANGED todo
       \/ Retry("dialling")
    /\ UNCHANGED <<built, kills>>

(* SIGINT: Shutdown closes the listener, Listen returns, and main runs its *)
(* deferred calls without waiting for the requests in flight.              *)
Interrupt ==
    /\ phase = "serving"
    /\ phase' = "stopping"
    /\ UNCHANGED <<tries, todo, built, faults, kills>>

Exit ==
    /\ phase = "stopping"
    /\ phase' = "down"
    /\ UNCHANGED <<tries, todo, built, faults, kills>>

Kill ==
    /\ phase # "down" /\ kills < MaxKills
    /\ kills' = kills + 1
    /\ phase' = "down"
    /\ UNCHANGED <<tries, todo, built, faults>>

ProcessInit ==
    /\ phase = "down" /\ tries = 0
    /\ todo = Collections /\ built = {}
    /\ faults = 0 /\ kills = 0

ProcessTypeOK ==
    /\ phase \in Phases
    /\ tries \in 0..Attempts
    /\ todo \subseteq Collections /\ built \subseteq Collections
    /\ faults \in 0..MaxFaults /\ kills \in 0..MaxKills
=============================================================================
