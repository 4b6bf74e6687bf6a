------------------------------- MODULE Mailbox -------------------------------
(***************************************************************************)
(* What an agent's queue promises, whatever kills, crashes, pauses and     *)
(* operators do to it: a queued record runs alone; a running record stays  *)
(* running until it is done or failed; an id that was served is not served *)
(* again while it is remembered; and a record leaves the queue unserved    *)
(* only because its id was served or because its cancellation was asked    *)
(* for.  Nothing here is code: the Dispatcher module implements it.        *)
(***************************************************************************)
CONSTANT Records  \* a set of records with a stamp seq and an id

VARIABLES
  queued,
  running,
  done,
  failed,
  served,  \* the ids remembered as served
  asked    \* the ids whose cancellation is asked for

boxVars == <<queued, running, done, failed, served, asked>>

IdsIn(S) == {r.id : r \in S}

Fresh(r) == \A q \in queued \union running \union done \union failed : q.seq # r.seq

Accept(r) ==
  /\ Fresh(r)
  /\ queued' = queued \union {r}
  /\ UNCHANGED <<running, done, failed, served, asked>>

Take(r) ==
  /\ r \in queued
  /\ running = {}
  /\ r.id \notin served
  /\ queued' = queued \ {r}
  /\ running' = {r}
  /\ UNCHANGED <<done, failed, served, asked>>

Finish(r) ==
  /\ running = {r}
  /\ running' = {}
  /\ r.id \notin IdsIn(done)
  /\ done' = done \union {r}
  /\ served' = served \union {r.id}
  /\ UNCHANGED <<queued, failed, asked>>

Fail(r) ==
  /\ running = {r}
  /\ running' = {}
  /\ failed' = failed \union {r}
  /\ UNCHANGED <<queued, done, served, asked>>

\* A second copy of something served.
Discard(r) ==
  /\ r \in queued
  /\ r.id \in served
  /\ queued' = queued \ {r}
  /\ UNCHANGED <<running, done, failed, served, asked>>

\* The operator's cancellation: of one waiting record, never of a running id.
Withdraw(r) ==
  /\ r \in queued
  /\ r.id \in asked
  /\ r.id \notin IdsIn(running)
  /\ queued' = queued \ {r}
  /\ asked' \subseteq asked
  /\ UNCHANGED <<running, done, failed, served>>

\* The operator's requeue of a failed record, at the tail and with its id.
Retry(r, q) ==
  /\ r \in failed
  /\ q.id = r.id
  /\ r.id \notin served
  /\ Fresh(q)
  /\ failed' = failed \ {r}
  /\ queued' = queued \union {q}
  /\ UNCHANGED <<running, done, served, asked>>

\* Archives are pruned; what a record still in done/ served is not forgotten.
Prune ==
  /\ done' \subseteq done
  /\ failed' \subseteq failed
  /\ served' \subseteq served
  /\ IdsIn(done') \subseteq served'
  /\ UNCHANGED <<queued, running>>

BoxNext ==
  \/ \E r \in Records :
       Accept(r) \/ Take(r) \/ Finish(r) \/ Fail(r) \/ Discard(r) \/ Withdraw(r)
  \/ \E r, q \in Records : Retry(r, q)
  \/ Prune

BoxInit ==
  /\ queued = {} /\ running = {} /\ done = {} /\ failed = {}
  /\ served = {} /\ asked = {}

BoxSpec == BoxInit /\ [][BoxNext]_<<queued, running, done, failed, served>>
=============================================================================
