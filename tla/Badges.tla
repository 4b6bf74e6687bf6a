--------------------------------- MODULE Badges --------------------------------
(***************************************************************************)
(* What a tab of the panel says of an agent: its status, the depth of its  *)
(* queue, and how far a message to it has got.                             *)
(*                                                                         *)
(* The server has no event for any of these.  A poll looks at them in      *)
(* turn, remembers what it saw, and tells the tabs what has changed since; *)
(* a tab starts from one snapshot of its own and never asks again.         *)
(*                                                                         *)
(* Left out: the marks beside the status (paused, limits, rendezvous),     *)
(* remote peers and people, which travel in the same events, the timer of  *)
(* a busy status, other agents, other tabs.                                *)
(***************************************************************************)
EXTENDS Integers, Sequences

CONSTANTS
  Moods,     \* statuses of the agent
  MaxMoves,  \* bound: changes of the status, steps of the message
  MaxDrops,  \* bound: broken connections
  MaxEvents  \* bound: events on their way

ASSUME BadgesAssumption == Moods # {} /\ "nil" \notin Moods /\ {MaxMoves, MaxDrops, MaxEvents} \subseteq Nat

VARIABLES
  mood,      \* the agent's status
  place,     \* the directory of the message
  poll,      \* the await the poll is at, and what it has read
  dynamics,  \* what the poll last told, or nothing
  tracked,   \* the phase it last told of the message, or nothing
  sending,   \* how far the send of the message is
  listens,   \* whether the tab's WebSocket is open
  events,    \* events on it
  snapshot,  \* the tab's one request for the peers, then its answer
  badge,     \* what the tab shows of the agent
  phase,     \* what it shows of the message
  astray,    \* history: of badge and phase, what the tab was not told
  moves,     \* changes so far
  drops      \* broken connections so far

baVars == <<mood, place, poll, dynamics, tracked, sending, listens, events, snapshot, badge,
            phase, astray, moves, drops>>

Dirs == {"pending", "cur", "done", "failed"}
Nil == "nil"
NoPoll == [at |-> "off", mood |-> Nil, depth |-> 0]
Pair(a, d) == [mood |-> a, depth |-> d]
Unknown == Pair(Nil, 0)
\* One message: a queue of depth 1 while it is in pending/ or cur/.
Depth == IF place \in {"pending", "cur"} THEN 1 ELSE 0
\* The counts of two listings, which a message may move between.
Sightings == {Unknown} \union {Pair(a, d) : a \in Moods, d \in 0..2}

BaTypeOK ==
  /\ mood \in Moods /\ place \in Dirs \union {"none", "gone"}
  /\ poll.at \in {"off", "countPending", "countCur", "cur", "pending", "done", "failed"}
  /\ poll.mood \in Moods \union {Nil} /\ poll.depth \in 0..2
  /\ {dynamics, badge} \subseteq Sightings
  /\ tracked \in Dirs \union {"queued", Nil}
  /\ sending \in {"none", "routed", "told", "returned"}
  /\ listens \in BOOLEAN
  /\ \A i \in DOMAIN events : events[i].type \in {"status", "ack", "queue-progress"}
  /\ snapshot.at \in {"none", "asked", "count", "answered", "used"}
  /\ phase \in Dirs \union {"queued", Nil}
  /\ astray \subseteq {"badge", "phase"}
  /\ moves \in 0..MaxMoves /\ drops \in 0..MaxDrops

BaStart ==
  /\ mood \in Moods /\ place = "none" /\ poll = NoPoll /\ dynamics = Unknown /\ tracked = Nil
  /\ sending = "none" /\ listens = FALSE /\ events = <<>>
  /\ snapshot = [at |-> "none", seen |-> Pair(mood, 0)]
  /\ badge = Unknown /\ phase = Nil /\ astray = {} /\ moves = 0 /\ drops = 0

-----------------------------------------------------------------------------
(* The agent and its queue. *)

\* The message is claimed, ends, is taken out, or is queued again.
AgentMoves ==
  /\ moves < MaxMoves /\ moves' = moves + 1
  /\ \/ mood' \in Moods \ {mood} /\ UNCHANGED place
     \/ /\ place' \in CASE place = "pending" -> {"cur", "gone"}
                        [] place = "cur" -> {"done", "failed"}
                        [] place = "failed" -> {"pending"}
                        [] place = "done" -> {"gone"}
                        [] OTHER -> {}
        /\ UNCHANGED mood
  /\ UNCHANGED <<poll, dynamics, tracked, sending, listens, events, snapshot, badge, phase,
                 astray, drops>>

\* A send: routed, then followed and echoed, then answered.
BaRoute ==
  /\ sending = "none" /\ sending' = "routed" /\ place' = "pending"
  /\ UNCHANGED <<mood, poll, dynamics, tracked, listens, events, snapshot, badge, phase, astray,
                 moves, drops>>

\* What is told to a closed socket is told to nobody.
Tell(e, what) ==
  IF listens THEN Len(events) < MaxEvents /\ events' = Append(events, e) /\ astray' = astray \ {what}
  ELSE UNCHANGED events /\ astray' = astray \union {what}

BaTrack ==
  /\ sending = "routed" /\ sending' = "told" /\ tracked' = "queued"
  /\ Tell([type |-> "ack"], "phase")
  /\ UNCHANGED <<mood, place, poll, dynamics, listens, snapshot, badge, phase, moves, drops>>

-----------------------------------------------------------------------------
(* pollOnce: one at a time, on a timer. *)

\* The status is read before the counts, which are two listings.
PollStarts ==
  /\ poll = NoPoll
  /\ poll' = [at |-> "countPending", mood |-> mood, depth |-> 0]
  /\ UNCHANGED <<mood, place, dynamics, tracked, sending, listens, events, snapshot, badge, phase,
                 astray, moves, drops>>

PollCounts ==
  /\ poll.at = "countPending"
  /\ poll' = [poll EXCEPT !.at = "countCur", !.depth = IF place = "pending" THEN 1 ELSE 0]
  /\ UNCHANGED <<mood, place, dynamics, tracked, sending, listens, events, snapshot, badge, phase,
                 astray, moves, drops>>

\* The comparison with what was last told, whoever heard it.
Changed(d) == dynamics # d

PollTells ==
  LET d == Pair(poll.mood, poll.depth + IF place = "cur" THEN 1 ELSE 0)
  IN /\ poll.at = "countCur"
     /\ poll' = IF tracked = Nil THEN NoPoll ELSE [NoPoll EXCEPT !.at = "cur"]
     /\ IF Changed(d)
        THEN dynamics' = d /\ Tell([type |-> "status", seen |-> d], "badge")
        ELSE UNCHANGED <<dynamics, events, astray>>
     /\ UNCHANGED <<mood, place, tracked, sending, listens, snapshot, badge, phase, moves, drops>>

\* messagePhase lists the directories one after the other: a message that moves past
\* the listing is found nowhere, and the phase stays as it was told.
NextDir == [cur |-> "pending", pending |-> "done", done |-> "failed", failed |-> "off"]

PollLists ==
  /\ poll.at \in Dirs
  /\ IF place = poll.at
     THEN /\ poll' = NoPoll
          /\ IF place = tracked THEN UNCHANGED <<tracked, events, astray>>
             ELSE /\ tracked' = IF place \in {"done", "failed"} THEN Nil ELSE place
                  /\ Tell([type |-> "queue-progress", phase |-> place], "phase")
     ELSE /\ poll' = [poll EXCEPT !.at = NextDir[@]]
          /\ UNCHANGED <<tracked, events, astray>>
  /\ UNCHANGED <<mood, place, dynamics, sending, listens, snapshot, badge, phase, moves, drops>>

-----------------------------------------------------------------------------
(* The tab. *)

\* handlePeers counts, and reads the status behind the counts.
AskPeers ==
  /\ snapshot.at = "none" /\ snapshot' = [snapshot EXCEPT !.at = "asked"]
  /\ UNCHANGED <<mood, place, poll, dynamics, tracked, sending, listens, events, badge, phase,
                 astray, moves, drops>>

CountPeers ==
  /\ \/ /\ snapshot.at = "asked"
        /\ snapshot' = [at |-> "count", seen |-> Pair(mood, IF place = "pending" THEN 1 ELSE 0)]
     \/ /\ snapshot.at = "count"
        /\ snapshot' = [at |-> "answered",
                        seen |-> Pair(mood, snapshot.seen.depth + IF place = "cur" THEN 1 ELSE 0)]
  /\ UNCHANGED <<mood, place, poll, dynamics, tracked, sending, listens, events, badge, phase,
                 astray, moves, drops>>

\* An answer that says other than the poll last told, with nothing behind it to
\* correct it, stays until the agent changes again.
PeersArrive ==
  /\ snapshot.at = "answered" /\ snapshot' = [snapshot EXCEPT !.at = "used"]
  /\ badge' = snapshot.seen
  /\ astray' = IF \E i \in DOMAIN events : events[i].type = "status" THEN astray
               ELSE IF dynamics \in {Unknown, snapshot.seen} THEN astray \ {"badge"}
               ELSE astray \union {"badge"}
  /\ UNCHANGED <<mood, place, poll, dynamics, tracked, sending, listens, events, phase, moves, drops>>

\* The answer to the send sets the phase back, whatever the feed has said.
SendAnswered ==
  /\ sending = "told" /\ sending' = "returned"
  /\ phase' = "queued"
  /\ astray' = IF phase \in Dirs THEN astray \union {"phase"} ELSE astray
  /\ UNCHANGED <<mood, place, poll, dynamics, tracked, listens, events, snapshot, badge, moves, drops>>

\* A status of a peer that the tab does not know yet is dropped.
HearEvent ==
  LET e == Head(events)
  IN /\ events # <<>> /\ events' = Tail(events)
     /\ badge' = IF e.type = "status" /\ badge # Unknown THEN e.seen ELSE badge
     /\ phase' = CASE e.type = "ack" -> "queued"
                   [] e.type = "queue-progress" -> e.phase
                   [] OTHER -> phase
     /\ UNCHANGED <<mood, place, poll, dynamics, tracked, sending, listens, snapshot, astray, moves,
                    drops>>

FeedOpens ==
  /\ ~listens /\ snapshot.at # "none" /\ listens' = TRUE
  /\ UNCHANGED <<mood, place, poll, dynamics, tracked, sending, events, snapshot, badge, phase,
                 astray, moves, drops>>

FeedBreaks ==
  /\ listens /\ drops < MaxDrops /\ drops' = drops + 1
  /\ listens' = FALSE /\ events' = <<>>
  /\ astray' = astray \union {IF events[i].type = "status" THEN "badge" ELSE "phase" : i \in DOMAIN events}
  /\ UNCHANGED <<mood, place, poll, dynamics, tracked, sending, snapshot, badge, phase, moves>>

BaNext ==
  \/ AgentMoves \/ BaRoute \/ BaTrack
  \/ PollStarts \/ PollCounts \/ PollTells \/ PollLists
  \/ AskPeers \/ CountPeers \/ PeersArrive \/ SendAnswered
  \/ HearEvent \/ FeedOpens \/ FeedBreaks

BaSpec == BaStart /\ [][BaNext]_baVars

-----------------------------------------------------------------------------
(* What the tab says. *)

\* Once the poll has told all it can see and the tab has heard it, the tab shows the
\* agent's status, the depth of its queue, and where its message is: unless the last
\* word of it was lost on a closed or broken socket, a snapshot or an answer overtook
\* it, or the message is no longer anywhere (pollOnce, applyPeers, applyOutgoing).
BadgesTell ==
  events = <<>> /\ poll = NoPoll =>
    /\ (badge # Unknown /\ dynamics = Pair(mood, Depth) /\ "badge" \notin astray) =>
         badge = Pair(mood, Depth)
    /\ (sending = "returned" /\ "phase" \notin astray) =>
         \/ tracked # Nil /\ phase = tracked
         \/ tracked = Nil /\ phase \in {"done", "failed"}
===============================================================================
