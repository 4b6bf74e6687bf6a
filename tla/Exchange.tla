------------------------------- MODULE Exchange -------------------------------
(***************************************************************************)
(* The answer to one turn (createExchange, routeExchangeReply, ReplyNudger *)
(* and their wiring in bootstrap), for one agent whose messages all come   *)
(* from one peer.                                                          *)
(*                                                                         *)
(* A message in work has a folder in inbox/: `open` while message.json is  *)
(* there, `side` once the sidecar is.  The agent answers into the folder,  *)
(* or with the send tool, which then closes the turn; the retention sweep  *)
(* looks for answers that came too late.  A step ends at each await that   *)
(* lets the others in.  The age of a folder counts from its last new entry *)
(* and has three values: fresh, settled, past the orphan window.           *)
(*                                                                         *)
(* Abstracted: an answer is missing, being written or whole, and a writer  *)
(* that pauses for longer than the settle ticks is not told from one that  *)
(* has finished; Dispatcher has the other ways in which a turn ends.       *)
(***************************************************************************)
EXTENDS Integers, FiniteSets

CONSTANTS
  Msgs,
  NoMsg,
  MaxSlips   \* bound: failures, refusals, crashes, requeues, operator edits

ASSUME NoMsgAssumption == NoMsg \notin Msgs
ASSUME MaxSlipsAssumption == MaxSlips \in Nat

VARIABLES
  letters,  \* where the message is in the agent's queue
  turn,     \* the turn: its message, the await it is at, collectedThisTurn,
            \* and whether an accepted send to the peer followed beginTurn
  toClose,  \* closeTurn between the unlinking and mcpClosedTurn.set
  closed,   \* mcpClosedTurn of the agent
  folder,   \* inbox/: message id to folder
  sweep,    \* the orphan sweep: the await it is at, its folder, what is left
  told,     \* what became of a message: accepted answers, warnings, nudges, requeues
  slips     \* disturbances so far

exVars == <<letters, turn, toClose, closed, folder, sweep, told, slips>>

Folder == [open : BOOLEAN, side : BOOLEAN, answer : {"no", "part", "whole"}, age : 0..2]
FreshFolder == [open |-> FALSE, side |-> FALSE, answer |-> "no", age |-> 0]
IdleTurn == [m |-> NoMsg, at |-> "idle", collected |-> FALSE, sent |-> FALSE]
IdleSweep == [at |-> "idle", m |-> NoMsg, active |-> {}, left |-> {}, ages |-> [m \in Msgs |-> 0]]

TurnAt == {"idle", "sidecar", "open", "inject", "await", "complete", "after",
           "closed", "collect", "route", "nudge", "clean"}
SweepAt == {"idle", "list", "next", "ended", "collect", "route", "describe", "remove"}

ExTypeOK ==
  /\ letters \in [Msgs -> {"out", "pending", "cur", "done", "failed"}]
  /\ turn \in [m : Msgs \union {NoMsg}, at : TurnAt, collected : BOOLEAN, sent : BOOLEAN]
  /\ {toClose, closed} \subseteq Msgs \union {NoMsg}
  /\ DOMAIN folder \subseteq Msgs
  /\ \A m \in DOMAIN folder : folder[m] \in Folder
  /\ sweep \in [at : SweepAt, m : Msgs \union {NoMsg}, active : SUBSET Msgs,
                left : SUBSET Msgs, ages : [Msgs -> 0..2]]
  /\ told \in [answered : SUBSET Msgs, warned : SUBSET Msgs, closed : SUBSET Msgs,
               nudged : SUBSET Msgs, again : SUBSET Msgs]
  /\ slips \in 0..MaxSlips

ExIdle ==
  /\ turn = IdleTurn
  /\ toClose = NoMsg /\ closed = NoMsg
  /\ folder = [m \in {} |-> FreshFolder]
  /\ sweep = IdleSweep
  /\ told = [answered |-> {}, warned |-> {}, closed |-> {}, nudged |-> {}, again |-> {}]

ExStart == ExIdle /\ letters = [m \in Msgs |-> "pending"] /\ slips = 0

\* Nothing to do, and nothing to go wrong.
ExQuiet == ExIdle /\ letters = [m \in Msgs |-> "out"] /\ slips = MaxSlips

Slip == slips < MaxSlips /\ slips' = slips + 1
Goes(at) == turn' = [turn EXCEPT !.at = at]
SweepGoes(at) == sweep' = [sweep EXCEPT !.at = at]

Exists(m) == m \in DOMAIN folder
\* A new or removed entry makes the folder fresh again.
Touched(m, f) ==
  folder' = [k \in DOMAIN folder \union {m} |-> IF k = m THEN [f EXCEPT !.age = 0] ELSE folder[k]]
Remove(m) == folder' = [k \in DOMAIN folder \ {m} |-> folder[k]]

-----------------------------------------------------------------------------
(* The turn. *)

\* Dequeued, or re-sent from cur/; materialize resets the two flags.
TurnBegins(m) ==
  /\ turn.at = "idle"
  /\ letters[m] \in {"pending", "cur"} /\ \A k \in Msgs \ {m} : letters[k] # "cur"
  /\ letters' = [letters EXCEPT ![m] = "cur"]
  /\ turn' = [IdleTurn EXCEPT !.m = m, !.at = "sidecar"]
  /\ closed' = NoMsg
  /\ UNCHANGED <<toClose, folder, sweep, told, slips>>

WriteSidecar ==
  /\ turn.at = "sidecar"
  /\ LET f == IF Exists(turn.m) THEN folder[turn.m] ELSE FreshFolder
     IN  Touched(turn.m, [f EXCEPT !.side = TRUE])
  /\ Goes("open")
  /\ UNCHANGED <<letters, toClose, closed, sweep, told, slips>>

\* message.json opens the folder; beginTurn takes its mark.
WriteMessage ==
  /\ turn.at = "open"
  /\ Exists(turn.m)
  /\ Touched(turn.m, [folder[turn.m] EXCEPT !.open = TRUE])
  /\ turn' = [turn EXCEPT !.at = "inject", !.sent = FALSE]
  /\ UNCHANGED <<letters, toClose, closed, sweep, told, slips>>

\* materialize throws, or a sweep removed the folder it writes to: the turn
\* goes on without a folder to watch.
Unmaterialized ==
  /\ turn.at \in {"sidecar", "open"}
  /\ IF turn.at = "sidecar" \/ Exists(turn.m) THEN Slip ELSE UNCHANGED slips
  /\ turn' = [turn EXCEPT !.at = "inject", !.sent = FALSE]
  /\ UNCHANGED <<letters, toClose, closed, folder, sweep, told>>

Inject ==
  /\ turn.at = "inject"
  /\ Goes("await")
  /\ UNCHANGED <<letters, toClose, closed, folder, sweep, told, slips>>

\* cleanup is called, and does nothing: nothing was collected.
InjectFails ==
  /\ turn.at = "inject"
  /\ Slip
  /\ letters' = [letters EXCEPT ![turn.m] = "failed"]
  /\ turn' = IdleTurn
  /\ UNCHANGED <<toClose, closed, folder, sweep, told>>

\* The driver saw the turn end, or the poll saw message.json gone.
TurnEnds ==
  /\ turn.at = "await"
  /\ Goes("complete")
  /\ UNCHANGED <<letters, toClose, closed, folder, sweep, told, slips>>

Complete ==
  /\ turn.at = "complete"
  /\ letters' = [letters EXCEPT ![turn.m] = "done"]
  /\ Goes("after")
  /\ UNCHANGED <<toClose, closed, folder, sweep, told, slips>>

AfterTurn ==
  /\ turn.at = "after"
  /\ closed' = NoMsg
  /\ Goes(IF closed = turn.m THEN "closed" ELSE "collect")
  /\ UNCHANGED <<letters, toClose, folder, sweep, told, slips>>

CleanupClosed ==
  /\ turn.at = "closed"
  /\ Remove(turn.m)
  /\ Goes("nudge")
  /\ UNCHANGED <<letters, toClose, closed, sweep, told, slips>>

\* An answer that does not stand still is none.
Whole(m) == Exists(m) /\ folder[m].answer = "whole"

Collect ==
  /\ turn.at = "collect"
  /\ Goes(IF Whole(turn.m) THEN "route" ELSE "nudge")
  /\ UNCHANGED <<letters, toClose, closed, folder, sweep, told, slips>>

\* onRouted counts the send.
Delivered(m) == told' = [told EXCEPT !.answered = @ \union {m}]

RouteReply ==
  /\ turn.at = "route"
  /\ Delivered(turn.m)
  /\ turn' = [turn EXCEPT !.at = "nudge", !.collected = TRUE, !.sent = TRUE]
  /\ UNCHANGED <<letters, toClose, closed, folder, sweep, slips>>

ReplyRefused ==
  /\ turn.at = "route"
  /\ Slip
  /\ Goes("nudge")
  /\ UNCHANGED <<letters, toClose, closed, folder, sweep, told>>

\* A turn in which nothing went to the peer: a nudge, or what the pane shows
\* (routing that moves the same count).
Nudge ==
  /\ turn.at = "nudge"
  /\ Goes("clean")
  /\ \/ UNCHANGED told
     \/ ~turn.sent /\ told' = [told EXCEPT !.nudged = @ \union {turn.m}]
  /\ UNCHANGED <<letters, toClose, closed, folder, sweep, slips>>

CleanupTurn ==
  /\ turn.at = "clean"
  /\ IF turn.collected THEN Remove(turn.m) ELSE UNCHANGED folder
  /\ turn' = IdleTurn
  /\ UNCHANGED <<letters, toClose, closed, sweep, told, slips>>

-----------------------------------------------------------------------------
(* The agent. *)

\* It has seen the message, in this turn or an earlier one.
Seen(m) == letters[m] = "done" \/ (turn.m = m /\ turn.at \notin {"sidecar", "open", "inject"})

\* It writes the answer, in time or late.
AgentWrites(m) ==
  /\ Seen(m) /\ Exists(m)
  /\ \/ folder[m].answer = "no" /\ Touched(m, [folder[m] EXCEPT !.answer = "part"])
     \/ folder[m].answer = "part" /\ folder' = [folder EXCEPT ![m].answer = "whole"]
  /\ UNCHANGED <<letters, turn, toClose, closed, sweep, told, slips>>

\* It deletes message.json to end its turn.
AgentEnds(m) ==
  /\ Seen(m) /\ Exists(m) /\ folder[m].open
  /\ Touched(m, [folder[m] EXCEPT !.open = FALSE])
  /\ UNCHANGED <<letters, turn, toClose, closed, sweep, told, slips>>

\* The send tool with replyTo = m: accepted, it closes m, whatever the turn is.
AgentSends(m) ==
  /\ turn.at = "await" /\ toClose = NoMsg
  /\ Seen(m) /\ Exists(m) /\ folder[m].open
  /\ Touched(m, [folder[m] EXCEPT !.open = FALSE])
  /\ turn' = [turn EXCEPT !.sent = TRUE]
  /\ toClose' = m
  /\ told' = [told EXCEPT !.closed = @ \union {m}]
  /\ UNCHANGED <<letters, closed, sweep, slips>>

CloseTurn ==
  /\ toClose # NoMsg
  /\ closed' = toClose /\ toClose' = NoMsg
  /\ UNCHANGED <<letters, turn, folder, sweep, told, slips>>

-----------------------------------------------------------------------------
(* The orphan sweep. *)

SweepBeginsBlind ==
  /\ sweep.at = "idle"
  /\ \E m \in Msgs : Exists(m)
  /\ sweep' = [IdleSweep EXCEPT !.at = "list",
                 !.ages = [m \in Msgs |-> IF Exists(m) THEN folder[m].age ELSE 0]]
  /\ UNCHANGED <<letters, turn, toClose, closed, folder, told, slips>>

\* What is in flight is read first, then the directory.  Both cutoffs are of the
\* beginning: no folder settles or grows old in the course of a sweep.
SweepBegins ==
  /\ sweep.at = "idle"
  /\ \E m \in Msgs : Exists(m)
  /\ sweep' = [IdleSweep EXCEPT !.at = "list",
                 !.active = {m \in Msgs : letters[m] = "cur"},
                 !.ages = [m \in Msgs |-> IF Exists(m) THEN folder[m].age ELSE 0]]
  /\ UNCHANGED <<letters, turn, toClose, closed, folder, told, slips>>

SweepLists ==
  /\ sweep.at = "list"
  /\ sweep' = [sweep EXCEPT !.at = "next",
                 !.left = {m \in Msgs : Exists(m)} \ sweep.active]
  /\ UNCHANGED <<letters, turn, toClose, closed, folder, told, slips>>

AgeOf(m) == IF folder[m].age < sweep.ages[m] THEN folder[m].age ELSE sweep.ages[m]

SweepTakes(m) ==
  /\ sweep.at = "next"
  /\ m \in sweep.left
  /\ sweep' = [sweep EXCEPT !.left = @ \ {m}, !.m = m,
                 !.at = IF Exists(m) /\ AgeOf(m) > 0 THEN "ended" ELSE "next",
                 !.ages = [sweep.ages EXCEPT ![m] = IF Exists(m) THEN AgeOf(m) ELSE 0]]
  /\ UNCHANGED <<letters, turn, toClose, closed, folder, told, slips>>

SweepEnds ==
  /\ sweep.at = "next" /\ sweep.left = {}
  /\ sweep' = IdleSweep
  /\ UNCHANGED <<letters, turn, toClose, closed, folder, told, slips>>

NoHarvestSilent == IF sweep.ages[sweep.m] = 2 THEN "remove" ELSE "next"

\* No answer to deliver: the folder waits, or goes.
NoHarvest == IF sweep.ages[sweep.m] = 2 THEN "describe" ELSE "next"

SweepLooks ==
  /\ sweep.at = "ended"
  /\ SweepGoes(IF Exists(sweep.m) /\ ~folder[sweep.m].open /\ folder[sweep.m].side
               THEN "collect" ELSE NoHarvest)
  /\ UNCHANGED <<letters, turn, toClose, closed, folder, told, slips>>

SweepCollects ==
  /\ sweep.at = "collect"
  /\ SweepGoes(IF Whole(sweep.m) THEN "route" ELSE NoHarvest)
  /\ UNCHANGED <<letters, turn, toClose, closed, folder, told, slips>>

SweepRoutes ==
  /\ sweep.at = "route"
  /\ Delivered(sweep.m)
  /\ turn' = [turn EXCEPT !.sent = turn.at # "idle"]
  /\ SweepGoes("remove")
  /\ UNCHANGED <<letters, toClose, closed, folder, slips>>

SweepRefused ==
  /\ sweep.at = "route"
  /\ Slip
  /\ SweepGoes(NoHarvest)
  /\ UNCHANGED <<letters, turn, toClose, closed, folder, told>>

SweepDescribes ==
  /\ sweep.at = "describe"
  /\ told' = IF Exists(sweep.m) /\ folder[sweep.m].answer # "no"
             THEN [told EXCEPT !.warned = @ \union {sweep.m}] ELSE told
  /\ SweepGoes("remove")
  /\ UNCHANGED <<letters, turn, toClose, closed, folder, slips>>

SweepRemoves ==
  /\ sweep.at = "remove"
  /\ Remove(sweep.m)
  /\ SweepGoes("next")
  /\ UNCHANGED <<letters, turn, toClose, closed, told, slips>>

-----------------------------------------------------------------------------
(* The rest of the world. *)

Ages(m) ==
  /\ Exists(m) /\ folder[m].age < 2
  /\ folder' = [folder EXCEPT ![m].age = @ + 1]
  /\ UNCHANGED <<letters, turn, toClose, closed, sweep, told, slips>>

\* The operator brings a failed message back under its id.
Requeue(m) ==
  /\ letters[m] = "failed"
  /\ Slip
  /\ letters' = [letters EXCEPT ![m] = "pending"]
  /\ told' = [told EXCEPT !.again = @ \union {m}]
  /\ UNCHANGED <<turn, toClose, closed, folder, sweep>>

\* The turn is lost with the session, or everything in memory with the server.
TurnLost ==
  /\ turn.at = "await"
  /\ Slip
  /\ turn' = IdleTurn
  /\ UNCHANGED <<letters, toClose, closed, folder, sweep, told>>

ExCrash ==
  /\ Slip
  /\ turn' = IdleTurn /\ sweep' = IdleSweep
  /\ toClose' = NoMsg /\ closed' = NoMsg
  /\ UNCHANGED <<letters, folder, told>>

-----------------------------------------------------------------------------
TurnNext ==
  \/ \E m \in Msgs : TurnBegins(m)
  \/ WriteSidecar \/ WriteMessage \/ Unmaterialized
  \/ Inject \/ InjectFails
  \/ TurnEnds \/ Complete \/ AfterTurn \/ CleanupClosed
  \/ Collect \/ RouteReply \/ ReplyRefused \/ Nudge \/ CleanupTurn

SweepNext ==
  \/ SweepBegins \/ SweepLists \/ SweepEnds
  \/ \E m \in Msgs : SweepTakes(m)
  \/ SweepLooks \/ SweepCollects \/ SweepRoutes \/ SweepRefused
  \/ SweepDescribes \/ SweepRemoves

AgentNext == \E m \in Msgs : AgentWrites(m) \/ AgentEnds(m) \/ AgentSends(m)

ExNext ==
  \/ TurnNext \/ SweepNext \/ AgentNext \/ CloseTurn
  \/ \E m \in Msgs : Ages(m) \/ Requeue(m)
  \/ TurnLost \/ ExCrash

\* The loop and the sweep run on, and time passes.
ExFair ==
  /\ WF_exVars(TurnNext)
  /\ WF_exVars(SweepNext)
  /\ WF_exVars(\E m \in Msgs : Ages(m))

(***************************************************************************)
(* Properties.                                                             *)
(***************************************************************************)

\* An answer that stands whole in the folder of a finished turn is delivered,
\* reported lost, or its turn was closed by the send tool: whatever the crashes,
\* refusals and sweeps.  (Not if the sweep already holds the folder: an answer
\* written between its last look and its rm is lost without a word.)
AnswerEnds ==
  \A m \in Msgs :
    (letters[m] = "done" /\ Whole(m) /\ sweep.m # m)
      ~> m \in told.answered \union told.warned \union told.closed

\* No sweep takes the folder of a message in flight.  (Unless the operator brought
\* the message back: nothing stops it from being claimed while a sweep that saw it
\* at rest works on its folder.)
LiveFolderKept ==
  [][\A m \in Msgs : letters[m] = "cur" /\ Exists(m) /\ m \notin told.again => m \in DOMAIN folder']_exVars

\* No agent is told to answer what it has answered.  (Unless the operator brought the
\* message back: its new turn asks anew, whatever a sweep delivered in between.)
AnsweredNotNudged ==
  [][\A m \in told'.nudged \ told.nudged : m \in told.answered => m \in told.again]_exVars

\* The sweep and the nudge keep away from what is alive or answered.
SweepsSpare == LiveFolderKept /\ AnsweredNotNudged

ExSpec == ExStart /\ [][ExNext]_exVars /\ ExFair
=============================================================================
