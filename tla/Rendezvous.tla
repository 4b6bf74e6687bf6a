------------------------------ MODULE Rendezvous ------------------------------
(***************************************************************************)
(* Resuming a dialogue after a refusal (orchestrator/rendezvous, its       *)
(* coordinator and its state file).  A's message to a target whose queue   *)
(* is full is refused; the intent is kept, and when A is idle the target   *)
(* is told so, in rounds, until it writes back or the rounds are spent.    *)
(*                                                                         *)
(* One sender A: the store, the lock of its tick and its file are per      *)
(* sender.  The targets' queues are reduced to A's notices in them: the    *)
(* number of a notice stands for its id rv:<A>:<target>:<attempt>, and a   *)
(* target drops a notice whose id its done/ already holds.  The status of  *)
(* A is read once per tick and is any; the clock is the action Elapse.     *)
(***************************************************************************)
EXTENDS Integers, SequencesExt

CONSTANTS
  Targets,
  MaxAttempts,  \* rounds of one intent, server.rendezvous.maxAttempts
  Kinds,        \* bound: the kinds of events of the environment, see RvEvent
  MaxEvents     \* bound: how many of them

ASSUME MaxAttemptsAssumption == MaxAttempts \in Nat \ {0}
ASSUME MaxEventsAssumption == MaxEvents \in Nat

VARIABLES
  intents,  \* RendezvousStore: A's queue of intents
  dirty,    \* it has changes no file holds
  tick,     \* where the tick is: between which awaits, and for which notice
  flush,    \* the writes of the state file under way: the tick's and a hook's
  tmp,      \* the temporary file they share
  disk,     \* the state file
  unread,   \* A's notices in each target's queue
  events    \* environment events so far

storeVars == <<intents, dirty>>
fileVars == <<tmp, disk>>
rvVars == <<storeVars, tick, flush, fileVars, unread, events>>

\* Every round beyond the cap takes an event of its own.
Rounds == 0..(MaxAttempts + MaxEvents)

\* "elapsed" is "notified" with now >= windowUntil.
Phases == {"waiting", "notified", "elapsed"}
Intent == [to : Targets, attempts : Rounds, phase : Phases]
Entry == [to : Targets, attempts : Rounds]

Rested(i) == [i EXCEPT !.phase = "waiting"]
Has(t) == \E k \in DOMAIN intents : intents[k].to = t
IndexOf(t) == CHOOSE k \in DOMAIN intents : intents[k].to = t
Without(t) == IF Has(t) THEN RemoveAt(intents, IndexOf(t)) ELSE intents
Snapshot(list) == [k \in DOMAIN list |-> [to |-> list[k].to, attempts |-> list[k].attempts]]

None == <<>>
NoFlush == [at |-> "idle", snap |-> None]
NoTick == [at |-> "none", to |-> None, attempt |-> 0]
Awaiting(point, i) == [at |-> point, to |-> i.to, attempt |-> i.attempts]

RvEvent(kind) ==
  /\ kind \in Kinds
  /\ events < MaxEvents
  /\ events' = events + 1

-----------------------------------------------------------------------------
(* Persistence. *)

\* flush, up to its first await: a list that changed is written, or its file
\* removed if nothing is left.
Flush(o, list, changed) ==
  flush' = [flush EXCEPT ![o] =
              IF ~changed THEN NoFlush
              ELSE IF list = <<>> THEN [at |-> "remove", snap |-> None]
              ELSE [at |-> "write", snap |-> Snapshot(list)]]

WriteTmp(o) ==
  /\ flush[o].at = "write"
  /\ tmp' = flush[o].snap
  /\ flush' = [flush EXCEPT ![o].at = "rename"]
  /\ UNCHANGED <<storeVars, tick, disk, unread, events>>

\* The mark is cleared whatever happened to the list during the write.
Rename(o) ==
  /\ flush[o].at = "rename" /\ tmp # None
  /\ disk' = tmp
  /\ tmp' = None
  /\ dirty' = FALSE
  /\ flush' = [flush EXCEPT ![o] = NoFlush]
  /\ UNCHANGED <<intents, tick, unread, events>>

RemoveFile(o) ==
  /\ flush[o].at = "remove"
  /\ disk' = None
  /\ dirty' = FALSE
  /\ flush' = [flush EXCEPT ![o] = NoFlush]
  /\ UNCHANGED <<intents, tick, tmp, unread, events>>

\* Another write has renamed the shared file away, or the disk refuses: the error
\* is swallowed and the mark stays.
WriteFails(o) ==
  /\ flush[o].at \in {"write", "rename"}
  /\ \/ flush[o].at = "rename" /\ tmp = None /\ UNCHANGED events
     \/ RvEvent("disk")
  /\ flush' = [flush EXCEPT ![o] = NoFlush]
  /\ UNCHANGED <<storeVars, tick, fileVars, unread>>

-----------------------------------------------------------------------------
(* The hooks of the router. *)

\* onRefused: one intent per pair.  The tick it kicks off is one of TickBegins.
\* (bound: one hook's write at a time)
Refused(t) ==
  /\ RvEvent("refuse")
  /\ flush["hook"] = NoFlush
  /\ IF Has(t)
       THEN UNCHANGED <<intents, dirty>>
       ELSE /\ intents' = Append(intents, [to |-> t, attempts |-> 0, phase |-> "waiting"])
            /\ dirty' = TRUE
  /\ Flush("hook", intents', dirty')
  /\ UNCHANGED <<tick, fileVars, unread>>

\* onRouted: an accepted message of t to A, wherever the intent stands.
TargetAnswered(t) ==
  /\ RvEvent("answer")
  /\ Has(t)
  /\ flush["hook"] = NoFlush
  /\ intents' = Without(t)
  /\ dirty' = TRUE
  /\ Flush("hook", intents', TRUE)
  /\ UNCHANGED <<tick, fileVars, unread>>

-----------------------------------------------------------------------------
(* The tick. *)

FrontIs(list, phase) == list # <<>> /\ list[1].phase = phase

ExpiredTooSoon(list) ==
  IF ~FrontIs(list, "elapsed") THEN list
  ELSE IF list[1].attempts >= MaxAttempts - 1 THEN Tail(list)
  ELSE Append(Tail(list), Rested(list[1]))

ExpiredAnew(list) ==
  IF FrontIs(list, "elapsed")
    THEN Append(Tail(list), [Rested(list[1]) EXCEPT !.attempts = 0])
    ELSE list

\* expireFront, of an elapsed round: the front is dropped when its rounds are spent,
\* else it goes to the back of the queue.
Expired(list) ==
  IF ~FrontIs(list, "elapsed") THEN list
  ELSE IF list[1].attempts >= MaxAttempts THEN Tail(list)
  ELSE Append(Tail(list), Rested(list[1]))

\* Steps 1 to 3: expire, stay inside an open window, or notify the front while the
\* sender is idle, else only write.
Proceed(idle) ==
  LET list == Expired(intents)
  IN  /\ intents' = list
      /\ dirty' = (dirty \/ list # intents)
      /\ \/ /\ FrontIs(list, "notified")
            /\ tick' = NoTick
            /\ UNCHANGED flush
         \/ /\ FrontIs(list, "waiting") /\ idle
            /\ tick' = Awaiting("route", list[1])
            /\ UNCHANGED flush
         \/ /\ ~FrontIs(list, "notified") /\ ~(FrontIs(list, "waiting") /\ idle)
            /\ tick' = [NoTick EXCEPT !.at = "flush"]
            /\ Flush("tick", list, dirty')

MustAskAlways == intents[1].phase \in {"waiting", "elapsed"}

\* Step 0: a front whose round is over is asked about first.
MustAsk ==
  /\ intents[1].attempts > 0
  /\ intents[1].phase \in {"waiting", "elapsed"}

TickBegins(idle) ==
  /\ tick = NoTick
  /\ intents # <<>>
  /\ IF MustAsk
       THEN /\ tick' = Awaiting("ask", [intents[1] EXCEPT !.attempts = @ - 1])
            /\ UNCHANGED <<storeVars, flush>>
       ELSE Proceed(idle)
  /\ UNCHANGED <<fileVars, unread, events>>

Unread(t, n) == \E k \in DOMAIN unread[t] : unread[t][k] = n

RotatedAsIs == IF intents = <<>> THEN <<>> ELSE Append(Tail(intents), intents[1])

\* rotateFront: whatever is the front by now steps aside, unspent.
Rotated == IF intents = <<>> THEN <<>> ELSE Append(Tail(intents), Rested(intents[1]))

StepAside ==
  /\ tick.at = "ask" /\ Unread(tick.to, tick.attempt)
  /\ intents' = Rotated
  /\ dirty' = (dirty \/ Len(intents) > 1)
  /\ tick' = [tick EXCEPT !.at = "flush"]
  /\ Flush("tick", intents', dirty')
  /\ UNCHANGED <<fileVars, unread, events>>

NotPending(idle) ==
  /\ tick.at = "ask" /\ ~Unread(tick.to, tick.attempt)
  /\ Proceed(idle)
  /\ UNCHANGED <<fileVars, unread, events>>

\* The router delivers the notice ...
NoticeLands ==
  /\ tick.at = "route"
  /\ unread' = [unread EXCEPT ![tick.to] = Append(@, tick.attempt)]
  /\ tick' = [tick EXCEPT !.at = "mark"]
  /\ UNCHANGED <<storeVars, flush, fileVars, events>>

\* ... and markNotified opens the window of the front there is by now.
MarkNotified ==
  /\ tick.at = "mark"
  /\ IF FrontIs(intents, "waiting")
       THEN /\ intents' = [intents EXCEPT ![1].phase = "notified", ![1].attempts = @ + 1]
            /\ dirty' = TRUE
       ELSE UNCHANGED storeVars
  /\ tick' = [tick EXCEPT !.at = "flush"]
  /\ Flush("tick", intents', dirty')
  /\ UNCHANGED <<fileVars, unread, events>>

\* The router refuses it, as a paused target does: the intent is dropped.
NoticeRefused ==
  /\ tick.at = "route"
  /\ RvEvent("pause")
  /\ intents' = Without(tick.to)
  /\ dirty' = (dirty \/ Has(tick.to))
  /\ tick' = [tick EXCEPT !.at = "flush"]
  /\ Flush("tick", intents', dirty')
  /\ UNCHANGED <<fileVars, unread>>

TickEnds ==
  /\ tick.at = "flush" /\ flush["tick"] = NoFlush
  /\ tick' = NoTick
  /\ UNCHANGED <<storeVars, flush, fileVars, unread, events>>

-----------------------------------------------------------------------------
(* The environment. *)

\* A window elapses: after the target has read its notices, or before, which is an
\* event (bound: MaxEvents).
Elapse ==
  /\ FrontIs(intents, "notified")
  /\ intents' = [intents EXCEPT ![1].phase = "elapsed"]
  /\ IF unread[intents[1].to] = <<>> THEN UNCHANGED events ELSE RvEvent("slow")
  /\ UNCHANGED <<dirty, tick, flush, fileVars, unread>>

\* The target's dispatcher finishes with the oldest notice: a turn, or the drop of
\* an id it has archived before.
Take(t) ==
  /\ unread[t] # <<>>
  /\ unread' = [unread EXCEPT ![t] = Tail(@)]
  /\ UNCHANGED <<storeVars, tick, flush, fileVars, events>>

\* The server dies; the next one rehydrates every intent as waiting.
RvCrash ==
  /\ RvEvent("crash")
  /\ intents' = [k \in DOMAIN disk |->
                   [to |-> disk[k].to, attempts |-> disk[k].attempts, phase |-> "waiting"]]
  /\ dirty' = FALSE
  /\ tick' = NoTick
  /\ flush' = [o \in {"tick", "hook"} |-> NoFlush]
  /\ UNCHANGED <<fileVars, unread>>

TickNext ==
  \/ \E idle \in BOOLEAN : TickBegins(idle) \/ NotPending(idle)
  \/ StepAside \/ NoticeLands \/ MarkNotified \/ TickEnds
FlushNext == \E o \in {"tick", "hook"} : WriteTmp(o) \/ Rename(o) \/ RemoveFile(o) \/ WriteFails(o)
PeerNext == \E t \in Targets : Refused(t) \/ TargetAnswered(t) \/ Take(t)

RvNext == TickNext \/ FlushNext \/ PeerNext \/ NoticeRefused \/ Elapse \/ RvCrash

RvInit ==
  /\ intents = <<>> /\ dirty = FALSE
  /\ tick = NoTick
  /\ flush = [o \in {"tick", "hook"} |-> NoFlush]
  /\ tmp = None /\ disk = None
  /\ unread = [t \in Targets |-> <<>>]
  /\ events = 0

RvSpec == RvInit /\ [][RvNext]_rvVars

\* The sweep runs on; A is idle again and again; promises resolve; windows elapse
\* and targets work off their queues.
RvFairness ==
  /\ WF_rvVars(TickNext)
  /\ SF_rvVars(TickBegins(TRUE))
  /\ SF_rvVars(NotPending(TRUE))
  /\ WF_rvVars(FlushNext)
  /\ WF_rvVars(Elapse)
  /\ \A t \in Targets : WF_rvVars(Take(t))

RvFairSpec == RvSpec /\ RvFairness

-----------------------------------------------------------------------------
(* Properties. *)

RvTypeOK ==
  /\ intents \in Seq(Intent)
  /\ dirty \in BOOLEAN
  /\ tick \in [at : {"none", "ask", "route", "mark", "flush"},
               to : Targets \union {None}, attempt : Rounds]
  /\ flush \in [{"tick", "hook"} -> [at : {"idle", "write", "rename", "remove"}, snap : Seq(Entry)]]
  /\ tmp \in Seq(Entry) /\ disk \in Seq(Entry)
  /\ unread \in [Targets -> Seq(Rounds)]
  /\ events \in 0..MaxEvents

\* RendezvousStore: "at most one intent per (from,to) pair, and at most the FRONT
\* intent is ever notified (a sender has one open window at a time)", although the
\* front may have changed while the tick awaited the router or the target's queue.
FrontOnly ==
  /\ \A i, j \in DOMAIN intents : intents[i].to = intents[j].to => i = j
  /\ \A i \in DOMAIN intents : intents[i].phase # "waiting" => i = 1

\* An intent is kept until something ends it: an accepted message of the target, a
\* spent last round, a notice the router refused, or a crash that reads back an
\* older file.  No rotation and no stale tick loses one.
LeavesForCause ==
  [][\A t \in Targets : Has(t) /\ ~Has(t)' =>
       \/ TargetAnswered(t) \/ NoticeRefused \/ RvCrash
       \/ /\ intents[1].to = t /\ intents[1].phase = "elapsed"
          /\ intents[1].attempts >= MaxAttempts /\ ~Unread(t, intents[1].attempts - 1)]_rvVars

\* The sender's other targets are not starved while one notice waits (coordinator
\* tests), and there is no time limit, but rounds are counted (rendezvous: "dropped ONLY on an
\* accepted B->A or on reaching maxAttempts"): answered or not, every intent ends,
\* as long as only finitely many windows elapse before the notice is read.
EveryIntentEnds == \A t \in Targets : Has(t) ~> ~Has(t)

\* Contradicted by the code: "one pending nudge per pair" (coordinator).
OnePendingNudge == \A t \in Targets : Len(unread[t]) <= 1

\* Contradicted by the code: attempts are "capped by maxAttempts" (RendezvousIntent).
AttemptsCapped == \A i \in DOMAIN intents : intents[i].attempts <= MaxAttempts
=============================================================================
