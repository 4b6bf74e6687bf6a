--------------------------------- MODULE Gates ---------------------------------
(***************************************************************************)
(* Local delivery (Router.route and its fan-out): the gates that a message *)
(* passes on its way into a recipient's queue.                             *)
(*                                                                         *)
(* Many callers route at once.  Recipient, edge and pause are tested in    *)
(* one step; the depth of the queue is read from two directories, which    *)
(* the recipient may meanwhile move a record between; the write is an      *)
(* await of its own.  What comes of a queue is in Dispatcher, federated    *)
(* addresses are in Federation.                                            *)
(***************************************************************************)
EXTENDS Integers, FiniteSets

CONSTANTS
  Callers,
  Recipients,  \* the names with a queue
  Users,       \* those of them that are people
  Members,     \* groups and tags: name to the agents in it
  Edges,       \* pairs of nodes, each pair in one order
  Limit,       \* wipLimitOf; 0 for a recipient without one
  Plan,        \* what a caller sends: from, to, whether it is exempt from the limit,
               \* and whether it is the sender's own scheduled item
  MaxCalls,    \* bound: calls of each caller
  MaxToggles   \* bound: pauses and failed writes

ASSUME GatesAssumption ==
  /\ IsFiniteSet(Callers)
  /\ Users \subseteq Recipients
  /\ Limit \in [Recipients -> Nat]
  /\ DOMAIN Members \cap Recipients = {}
  /\ \A t \in DOMAIN Members : Members[t] \subseteq Recipients
  /\ \A c \in Callers : Plan[c].own => Plan[c].from = Plan[c].to /\ Plan[c].exempt
  /\ MaxCalls \in [Callers -> Nat] /\ MaxToggles \in Nat

Nobody == "nobody"

VARIABLES
  depth,      \* the records in pending/ and cur/, the gated and the exempt ones
  call,       \* a caller's call: its await, the recipient in hand, the members
              \* before it, what it has read of the depth, and whether a pause
              \* overtook it behind its gate
  held,       \* the paused recipients
  calls,      \* calls so far
  toggles     \* disturbances so far

gaVars == <<depth, call, held, calls, toggles>>

Classes == {"gated", "exempt"}
EmptyDepth == [pending |-> [k \in Classes |-> 0], cur |-> {}]
NoCall == [at |-> "idle", to |-> Nobody, left |-> {}, seen |-> {}, sum |-> 0, overtaken |-> FALSE]

GaTypeOK ==
  /\ \A r \in Recipients :
       /\ depth[r].pending \in [Classes -> Nat]
       /\ depth[r].cur \subseteq Classes /\ Cardinality(depth[r].cur) <= 1
  /\ \A c \in Callers :
       /\ call[c].at \in {"idle", "member", "depth", "write"}
       /\ call[c].to \in Recipients \union {Nobody} /\ call[c].left \subseteq Recipients
       /\ call[c].seen \subseteq {"pending", "cur"} /\ call[c].sum \in Nat
       /\ call[c].overtaken \in BOOLEAN
  /\ held \subseteq Recipients
  /\ (\A c \in Callers : calls[c] \in 0..MaxCalls[c]) /\ toggles \in 0..MaxToggles

GaIdle ==
  /\ depth = [r \in Recipients |-> EmptyDepth]
  /\ call = [c \in Callers |-> NoCall]
  /\ held = {}

GaStart == GaIdle /\ calls = [c \in Callers |-> 0] /\ toggles = 0

Toggle == toggles < MaxToggles /\ toggles' = toggles + 1

-----------------------------------------------------------------------------
(* The gates. *)

Adjacent(a, b) == <<a, b>> \in Edges \/ <<b, a>> \in Edges
CanDeliver(from, to) == from = to \/ Adjacent(from, to)

\* A user's own notes pass the pause, and an agent's own scheduled items.
PausePasses(c, r) == r \notin held \/ (Plan[c].from = r /\ (r \in Users \/ Plan[c].own))

\* The await behind the gates for recipient r: straight to the write, or to the depth.
Behind(c, r, left) ==
  [NoCall EXCEPT !.to = r, !.left = left,
     !.at = IF Plan[c].exempt \/ Limit[r] = 0 THEN "write" ELSE "depth"]

\* To one recipient.  A call that is refused here changes nothing.
RouteOne(c) ==
  LET to == Plan[c].to
  IN  /\ to \in Recipients
      /\ CanDeliver(Plan[c].from, to)
      /\ PausePasses(c, to)
      /\ call' = [call EXCEPT ![c] = Behind(c, to, {})]

\* To a group: one edge to the group itself, and no copy for the sender.
RouteFanout(c) ==
  /\ Plan[c].to \in DOMAIN Members
  /\ CanDeliver(Plan[c].from, Plan[c].to)
  /\ call' = [call EXCEPT ![c] =
       [NoCall EXCEPT !.at = "member", !.left = Members[Plan[c].to] \ {Plan[c].from}]]

Route(c) ==
  /\ call[c].at = "idle"
  /\ calls[c] < MaxCalls[c]
  /\ calls' = [calls EXCEPT ![c] = @ + 1]
  /\ RouteOne(c) \/ RouteFanout(c)
  /\ UNCHANGED <<depth, held, toggles>>

\* Each copy passes gates of its own, as a copy that is nobody's scheduled item.
DeliverMember(c, r) ==
  /\ call[c].at = "member" /\ r \in call[c].left
  /\ call' = [call EXCEPT ![c] =
       IF r \in held THEN [call[c] EXCEPT !.left = @ \ {r}] ELSE Behind(c, r, call[c].left \ {r})]
  /\ UNCHANGED <<depth, held, calls, toggles>>

FanoutEnds(c) ==
  /\ call[c].at = "member" /\ call[c].left = {}
  /\ call' = [call EXCEPT ![c] = NoCall]
  /\ UNCHANGED <<depth, held, calls, toggles>>

\* What follows a recipient: the next member, or the end of the call.
Onwards(c) ==
  IF call[c].left = {} THEN NoCall ELSE [NoCall EXCEPT !.at = "member", !.left = call[c].left]

Reading(c, dir, n) ==
  /\ call[c].at = "depth" /\ dir \notin call[c].seen
  /\ call' = [call EXCEPT ![c].seen = @ \union {dir}, ![c].sum = @ + n]
  /\ UNCHANGED <<depth, held, calls, toggles>>

\* queueDepth reads both directories at once.
ReadPending(c) ==
  LET p == depth[call[c].to].pending IN Reading(c, "pending", p["gated"] + p["exempt"])
ReadCur(c) == Reading(c, "cur", Cardinality(depth[call[c].to].cur))

AdmitOneMore(c) ==
  /\ call[c].at = "depth" /\ call[c].seen = {"pending", "cur"}
  /\ call' = [call EXCEPT ![c] =
       IF call[c].sum > Limit[call[c].to] THEN Onwards(c) ELSE [call[c] EXCEPT !.at = "write"]]
  /\ UNCHANGED <<depth, held, calls, toggles>>

AdmitOrRefuse(c) ==
  /\ call[c].at = "depth" /\ call[c].seen = {"pending", "cur"}
  /\ call' = [call EXCEPT ![c] =
       IF call[c].sum >= Limit[call[c].to] THEN Onwards(c) ELSE [call[c] EXCEPT !.at = "write"]]
  /\ UNCHANGED <<depth, held, calls, toggles>>

\* A recipient without a limit is as one that exempts.
ClassOf(c) == IF Plan[c].exempt \/ Limit[call[c].to] = 0 THEN "exempt" ELSE "gated"

Enqueue(c) ==
  /\ call[c].at = "write"
  /\ depth' = [depth EXCEPT ![call[c].to].pending[ClassOf(c)] = @ + 1]
  /\ call' = [call EXCEPT ![c] = Onwards(c)]
  /\ UNCHANGED <<held, calls, toggles>>

\* The call throws; the members that are left get nothing.
EnqueueFails(c) ==
  /\ call[c].at = "write"
  /\ Toggle
  /\ call' = [call EXCEPT ![c] = NoCall]
  /\ UNCHANGED <<depth, held, calls>>

-----------------------------------------------------------------------------
(* The recipients and the operator. *)

ClaimedBusy(r, k) ==
  /\ depth[r].pending[k] > 0
  /\ depth' = [depth EXCEPT ![r].pending[k] = @ - 1, ![r].cur = @ \union {k}]
  /\ UNCHANGED <<call, held, calls, toggles>>

Claimed(r, k) ==
  /\ depth[r].cur = {} /\ depth[r].pending[k] > 0
  /\ depth' = [depth EXCEPT ![r].pending[k] = @ - 1, ![r].cur = {k}]
  /\ UNCHANGED <<call, held, calls, toggles>>

Drained(r) ==
  /\ depth[r].cur # {}
  /\ depth' = [depth EXCEPT ![r].cur = {}]
  /\ UNCHANGED <<call, held, calls, toggles>>

PauseSet(r) ==
  /\ r \notin held
  /\ Toggle
  /\ held' = held \union {r}
  /\ call' = [c \in Callers |-> IF call[c].to = r THEN [call[c] EXCEPT !.overtaken = TRUE] ELSE call[c]]
  /\ UNCHANGED <<depth, calls>>

PauseLifted(r) ==
  /\ r \in held
  /\ held' = held \ {r}
  /\ UNCHANGED <<depth, call, calls, toggles>>

-----------------------------------------------------------------------------
CallerNext(c) ==
  \/ Route(c)
  \/ \E r \in call[c].left : DeliverMember(c, r)
  \/ FanoutEnds(c)
  \/ ReadPending(c) \/ ReadCur(c) \/ AdmitOrRefuse(c)
  \/ Enqueue(c) \/ EnqueueFails(c)

GaNext ==
  \/ \E c \in Callers : CallerNext(c)
  \/ \E r \in Recipients : Drained(r) \/ PauseSet(r) \/ PauseLifted(r) \/ \E k \in Classes : Claimed(r, k)

(***************************************************************************)
(* Properties.                                                             *)
(***************************************************************************)

\* What a recipient has been sent under its limit, and not yet worked off.
Undrained(r) == depth[r].pending["gated"] + (IF "gated" \in depth[r].cur THEN 1 ELSE 0)

\* The callers that the limit of r is for.
Gated(r) ==
  {c \in Callers : ~Plan[c].exempt /\
     (Plan[c].to = r \/ (Plan[c].to \in DOMAIN Members /\ r \in Members[Plan[c].to]))}

\* The limit is soft, and no softer than the comment at router.ts:273-274 has it: a
\* burst overshoots it by at most the calls in flight, although the two directories
\* are read at different moments and a record may move from one to the other, unseen.
WipSoft ==
  \A r \in Recipients : Limit[r] > 0 => Undrained(r) <= Limit[r] + Cardinality(Gated(r))

\* A paused recipient receives only what was behind the gate when the pause was
\* set, and what is exempt: also of a broadcast that is on its way.
PauseSoftly ==
  \A r \in held, k \in Classes :
    depth'[r].pending[k] > depth[r].pending[k] =>
      \E c \in Callers :
        /\ call[c].at = "write" /\ call'[c].at # "write" /\ call[c].to = r
        /\ call[c].overtaken \/ PausePasses(c, r)

\* Both gates are softer than a lock by what is in flight, and by no more
\* (router.ts, #admit and the pause gate).
GatesSoft == [][WipSoft' /\ PauseSoftly]_gaVars

GaSpec == GaStart /\ [][GaNext]_gaVars
=============================================================================
