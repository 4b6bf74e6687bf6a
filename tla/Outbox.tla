-------------------------------- MODULE Outbox --------------------------------
(***************************************************************************)
(* The outbox of one agent (OutboxMonitor): files that the agent writes    *)
(* are claimed by a rename, handed to the router, the reactions, the       *)
(* schedules or the alarms, and then unlinked, given back or moved aside.  *)
(*                                                                         *)
(* A file is known by its content, which the agent writes in place: until  *)
(* it is whole it does not parse.  A content goes to one or more targets   *)
(* (the message's `to`, the administrators when it has none, or one of the *)
(* other three handlers), and each may accept it, refuse it, or throw.     *)
(***************************************************************************)
EXTENDS Integers, FiniteSets

CONSTANTS
  Files, Contents,
  Nothing,     \* no file
  Part,        \* a file that is being written
  Targets,     \* [Contents -> SUBSET targets]
  SettleTicks,
  MaxMishaps   \* bound: crashes and handlers that throw

ASSUME OutboxAssumption == {Nothing, Part} \cap Contents = {} /\ Nothing # Part
ASSUME SettleAssumption == SettleTicks \in Nat
ASSUME MishapsAssumption == MaxMishaps \in Nat

VARIABLES
  path, claim, \* what is at <name>.json and at <name>.json.claim
  writing,     \* the content an agent's open file will have
  settle,      \* looks at an unchanged file that does not parse
  monitor,     \* the await the tick is at, its file, the content it has read,
               \* the targets and the files it has before it, who accepted
  recovered,
  fate,        \* what came of a content: written, accepted, moved aside, and
               \* those that met another content under their name
  mishaps      \* disturbances so far

obVars == <<path, claim, writing, settle, monitor, recovered, fate, mishaps>>

AtRest == [at |-> "idle", f |-> Nothing, c |-> Nothing, left |-> {}, todo |-> {}, got |-> FALSE]

ObTypeOK ==
  /\ path \in [Files -> Contents \union {Nothing, Part}]
  /\ claim \in [Files -> Contents \union {Nothing, Part}]
  /\ writing \in [Files -> Contents \union {Nothing}]
  /\ settle \in [Files -> 0..SettleTicks + 1]
  /\ monitor.at \in {"idle", "next", "claim", "route"}
  /\ monitor.todo \subseteq Files
  /\ monitor.c \in Contents \union {Nothing}
  /\ recovered \in BOOLEAN
  /\ fate \in [written : SUBSET Contents, accepted : SUBSET Contents,
               aside : SUBSET Contents, met : SUBSET Contents]
  /\ mishaps \in 0..MaxMishaps

ObIdle ==
  /\ path = [f \in Files |-> Nothing] /\ claim = path /\ writing = path
  /\ settle = [f \in Files |-> 0]
  /\ monitor = AtRest

HandedOver(cs) == fate = [written |-> cs, accepted |-> cs, aside |-> {}, met |-> {}]

ObStart == ObIdle /\ HandedOver({}) /\ recovered = FALSE /\ mishaps = 0

\* Nothing more to write, and nothing to go wrong.
ObQuiet == ObIdle /\ HandedOver(Contents) /\ recovered = TRUE /\ mishaps = MaxMishaps

Mishap == mishaps < MaxMishaps /\ mishaps' = mishaps + 1

-----------------------------------------------------------------------------
(* The agent. *)

\* The contents a name stands for.
Under(f) == {path[f], claim[f], writing[f]} \cap Contents

WriteBegins(f, c) ==
  /\ writing[f] = Nothing
  /\ c \notin fate.written
  /\ path' = [path EXCEPT ![f] = Part]
  /\ writing' = [writing EXCEPT ![f] = c]
  /\ settle' = [settle EXCEPT ![f] = 0]
  /\ fate' = [fate EXCEPT !.written = @ \union {c},
                !.met = IF Under(f) = {} THEN @ ELSE @ \union Under(f) \union {c}]
  /\ UNCHANGED <<claim, monitor, recovered, mishaps>>

\* The file may have been moved under the writer's hands.
WriteEnds(f) ==
  /\ writing[f] # Nothing
  /\ writing' = [writing EXCEPT ![f] = Nothing]
  /\ settle' = [settle EXCEPT ![f] = 0]
  /\ IF path[f] = Part
     THEN path' = [path EXCEPT ![f] = writing[f]] /\ UNCHANGED claim
     ELSE /\ claim' = [claim EXCEPT ![f] = IF @ = Part THEN writing[f] ELSE @]
          /\ UNCHANGED path
  /\ UNCHANGED <<monitor, recovered, fate, mishaps>>

-----------------------------------------------------------------------------
(* The monitor. *)

RecoverNothing ==
  /\ monitor.at = "idle" /\ ~recovered
  /\ recovered' = TRUE
  /\ UNCHANGED <<path, claim, writing, settle, monitor, fate, mishaps>>

\* What a crash left claimed is given back, once.
RecoverClaims ==
  /\ monitor.at = "idle" /\ ~recovered
  /\ path' = [f \in Files |-> IF claim[f] # Nothing THEN claim[f] ELSE path[f]]
  /\ claim' = [f \in Files |-> Nothing]
  /\ recovered' = TRUE
  /\ UNCHANGED <<writing, settle, monitor, fate, mishaps>>

TickBegins ==
  /\ monitor.at = "idle" /\ recovered
  /\ \E f \in Files : path[f] # Nothing
  /\ monitor' = [AtRest EXCEPT !.at = "next", !.todo = {f \in Files : path[f] # Nothing}]
  /\ UNCHANGED <<path, claim, writing, settle, recovered, fate, mishaps>>

TickEnds ==
  /\ monitor.at = "next" /\ monitor.todo = {}
  /\ monitor' = AtRest
  /\ UNCHANGED <<path, claim, writing, settle, recovered, fate, mishaps>>

Skip(f) == monitor' = [AtRest EXCEPT !.at = "next", !.todo = monitor.todo \ {f}]

\* A file that parses is read, and what was read is what will be routed.
Read(f) ==
  /\ monitor.at = "next" /\ f \in monitor.todo
  /\ path[f] \in Contents
  /\ settle' = [settle EXCEPT ![f] = 0]
  /\ monitor' = [monitor EXCEPT !.at = "claim", !.f = f, !.c = path[f],
                   !.left = Targets[path[f]], !.todo = @ \ {f}]
  /\ UNCHANGED <<path, claim, writing, recovered, fate, mishaps>>

\* The move to <name>.rejected.json, with its warning.
Aside(c) == fate' = [fate EXCEPT !.aside = @ \union {c}]

\* One that does not is looked at again, until it stands still too long.
Strike(f) ==
  /\ monitor.at = "next" /\ f \in monitor.todo
  /\ path[f] = Part
  /\ Skip(f)
  /\ IF settle[f] < SettleTicks
     THEN settle' = [settle EXCEPT ![f] = @ + 1] /\ UNCHANGED <<path, fate>>
     ELSE /\ settle' = [settle EXCEPT ![f] = 0]
          /\ path' = [path EXCEPT ![f] = Nothing]
          /\ Aside(writing[f])
  /\ UNCHANGED <<claim, writing, recovered, mishaps>>

\* The rename takes what is there by now.
Claim ==
  /\ monitor.at = "claim"
  /\ LET f == monitor.f
     IN  /\ claim' = [claim EXCEPT ![f] = path[f]]
         /\ path' = [path EXCEPT ![f] = Nothing]
  /\ monitor' = [monitor EXCEPT !.at = "route"]
  /\ UNCHANGED <<writing, settle, recovered, fate, mishaps>>

Accepted(t) ==
  /\ monitor.at = "route" /\ t \in monitor.left
  /\ monitor' = [monitor EXCEPT !.left = @ \ {t}, !.got = TRUE]
  /\ fate' = [fate EXCEPT !.accepted = @ \union {monitor.c}]
  /\ UNCHANGED <<path, claim, writing, settle, recovered, mishaps>>

Refused(t) ==
  /\ monitor.at = "route" /\ t \in monitor.left
  /\ monitor' = [monitor EXCEPT !.left = @ \ {t}]
  /\ UNCHANGED <<path, claim, writing, settle, recovered, fate, mishaps>>

\* The file goes back under its name, over whatever is there.
Throws ==
  /\ monitor.at = "route" /\ monitor.left # {}
  /\ Mishap
  /\ path' = [path EXCEPT ![monitor.f] = claim[monitor.f]]
  /\ claim' = [claim EXCEPT ![monitor.f] = Nothing]
  /\ Skip(monitor.f)
  /\ UNCHANGED <<writing, settle, recovered, fate>>

\* Unlinked if anybody took it, else moved aside.
PickupEnds ==
  /\ monitor.at = "route" /\ monitor.left = {}
  /\ claim' = [claim EXCEPT ![monitor.f] = Nothing]
  /\ IF monitor.got THEN UNCHANGED fate ELSE Aside(monitor.c)
  /\ Skip(monitor.f)
  /\ UNCHANGED <<path, writing, settle, recovered, mishaps>>

ObCrash ==
  /\ Mishap
  /\ monitor' = AtRest
  /\ recovered' = FALSE
  /\ settle' = [f \in Files |-> 0]
  /\ UNCHANGED <<path, claim, writing, fate>>

MonitorNext ==
  \/ RecoverClaims \/ TickBegins \/ TickEnds
  \/ \E f \in Files : Read(f) \/ Strike(f)
  \/ Claim
  \/ \E t \in monitor.left : Accepted(t) \/ Refused(t)
  \/ Throws \/ PickupEnds

ObNext ==
  \/ MonitorNext
  \/ \E f \in Files : WriteEnds(f) \/ \E c \in Contents : WriteBegins(f, c)
  \/ ObCrash

\* The monitor ticks on; agents may leave a file unfinished.
ObFair == WF_obVars(MonitorNext)

(***************************************************************************)
(* Properties.                                                             *)
(***************************************************************************)

\* Whatever the agent puts into its outbox is handed over or moved aside with a
\* warning, through crashes and handlers that throw.  (Unless it wrote to a name
\* that was still in work: the claim takes what it has not read, and a file given
\* back replaces a newer one, without a word.)
OutboxEnds == []<>(fate.written \subseteq fate.accepted \union fate.aside \union fate.met)

ObSpec == ObStart /\ [][ObNext]_obVars /\ ObFair
=============================================================================
