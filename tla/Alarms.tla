-------------------------------- MODULE Alarms --------------------------------
(***************************************************************************)
(* The alarm of one agent (AlarmsHub): the slot with its latest alarm, in  *)
(* memory and in its file, and the people who resolve it.                  *)
(*                                                                         *)
(* The agent raises, replaces and withdraws; a person sees, answers or     *)
(* dismisses the alarm that a tab showed, now or a while ago.  Every       *)
(* operation runs on one chain of promises and ends a step at its awaits:  *)
(* the write of the slot and the routing of the resolution to the agent.   *)
(*                                                                         *)
(* Left out: texts, levels, limits, the log, who is watching, and the      *)
(* pruning of the slots of agents that left the configuration.             *)
(***************************************************************************)
EXTENDS Integers, FiniteSets

CONSTANTS
  People,     \* the agent's human neighbours
  Options,    \* of an alarm that asks
  MaxCries,   \* bound: alarms raised
  Asks,       \* those of them with options
  MaxUpsets   \* bound: refusals, failed writes, crashes

ASSUME AlarmsAssumption ==
  /\ {MaxCries, MaxUpsets} \subseteq Nat
  /\ Asks \subseteq 1..MaxCries
  /\ "agent" \notin People

VARIABLES
  slot,      \* the alarm in memory
  slotFile,  \* the alarm on disk
  ops,       \* an actor's operation: the await it is at, the alarm it will store
  cries,     \* alarms raised
  tabs,      \* the alarm that the panels show, 0 for none
  accepted,  \* resolutions that the router took
  undone,    \* history: alarms that a crash brought back after their resolution
  upsets     \* disturbances so far

alVars == <<slot, slotFile, ops, cries, tabs, accepted, undone, upsets>>

Actors == People \union {"agent"}
Active == {"raised", "seen"}
Answers == Options \union {"heard", "dismissed", "none"}

Alarm(id, state, how) == [id |-> id, state |-> state, how |-> how]
NoAlarm == Alarm(0, "withdrawn", "none")
IdleOp == [at |-> "idle", alarm |-> NoAlarm]

IsActive(a) == a.state \in Active
Showing(a) == IF IsActive(a) THEN a.id ELSE 0

AlarmRecord ==
  [id : 0..MaxCries, how : Answers,
   state : {"raised", "seen", "answered", "acknowledged", "withdrawn"}]

AlTypeOK ==
  /\ {slot, slotFile} \subseteq AlarmRecord
  /\ ops \in [Actors -> [at : {"idle", "store", "answer", "receipt"}, alarm : AlarmRecord]]
  /\ {cries, tabs} \subseteq 0..MaxCries
  /\ accepted \subseteq [id : 1..MaxCries, by : People, how : Answers]
  /\ undone \subseteq 1..MaxCries
  /\ upsets \in 0..MaxUpsets

AlIdle ==
  /\ slot = NoAlarm /\ slotFile = NoAlarm
  /\ ops = [a \in Actors |-> IdleOp]
  /\ tabs = 0
  /\ accepted = {} /\ undone = {}

AlStart == AlIdle /\ cries = 0 /\ upsets = 0

Upset == upsets < MaxUpsets /\ upsets' = upsets + 1

-----------------------------------------------------------------------------
(* The chain of operations, and the end of each. *)

SerializedStores == \A a \in Actors : ops[a].at # "store"

\* An operation starts when the one before it has ended.
Serialized == \A a \in Actors : ops[a].at = "idle"

At(a, await, alarm) == ops' = [ops EXCEPT ![a] = [at |-> await, alarm |-> alarm]]
Done(a) == ops' = [ops EXCEPT ![a] = IdleOp]

\* The slot takes the alarm at once, the file at the next await.
StoreBegins(a, alarm) == slot' = alarm /\ At(a, "store", alarm)

\* The file is replaced and the panels told; a person's own close sends a receipt.
StoreEnds(a) ==
  /\ ops[a].at = "store"
  /\ slotFile' = ops[a].alarm
  /\ tabs' = Showing(ops[a].alarm)
  /\ IF ops[a].alarm.state = "acknowledged" THEN At(a, "receipt", ops[a].alarm) ELSE Done(a)
  /\ UNCHANGED <<slot, cries, accepted, undone, upsets>>

\* The caller gets an error; the slot in memory keeps what the file has not got.
StoreFails(a) ==
  /\ ops[a].at = "store"
  /\ Upset
  /\ Done(a)
  /\ UNCHANGED <<slot, slotFile, cries, tabs, accepted, undone>>

-----------------------------------------------------------------------------
(* The agent's door. *)

Raise ==
  /\ Serialized
  /\ cries < MaxCries
  /\ cries' = cries + 1
  /\ StoreBegins("agent", Alarm(cries + 1, "raised", "none"))
  /\ UNCHANGED <<slotFile, tabs, accepted, undone, upsets>>

Withdraw ==
  /\ Serialized
  /\ IsActive(slot)
  /\ StoreBegins("agent", [slot EXCEPT !.state = "withdrawn"])
  /\ UNCHANGED <<slotFile, cries, tabs, accepted, undone, upsets>>

-----------------------------------------------------------------------------
(* A person's doors: the alarm must be the slot's, and active. *)

Check(id) == Serialized /\ slot.id = id /\ IsActive(slot)

SeeAlarm(u, id) ==
  /\ Check(id)
  /\ slot.state = "raised"
  /\ StoreBegins(u, IF id \in Asks THEN [slot EXCEPT !.state = "seen"]
                    ELSE Alarm(id, "acknowledged", "heard"))
  /\ UNCHANGED <<slotFile, cries, tabs, accepted, undone, upsets>>

DismissAlarm(u, id) ==
  /\ Check(id)
  /\ slot.state = "seen"
  /\ StoreBegins(u, Alarm(id, "acknowledged", "dismissed"))
  /\ UNCHANGED <<slotFile, cries, tabs, accepted, undone, upsets>>

\* The answer is routed first.
AnswerAlarm(u, id, o) ==
  /\ Check(id)
  /\ id \in Asks
  /\ At(u, "answer", Alarm(id, "answered", o))
  /\ UNCHANGED <<slot, slotFile, cries, tabs, accepted, undone, upsets>>

Accept(u) == accepted' = accepted \union {[id |-> ops[u].alarm.id, by |-> u, how |-> ops[u].alarm.how]}

AnswerRouted(u) ==
  /\ ops[u].at = "answer"
  /\ Accept(u)
  /\ StoreBegins(u, ops[u].alarm)
  /\ UNCHANGED <<slotFile, cries, tabs, undone, upsets>>

\* The agent is paused, or its queue full: the alarm stays open.
AnswerRefused(u) ==
  /\ ops[u].at = "answer"
  /\ Upset
  /\ Done(u)
  /\ UNCHANGED <<slot, slotFile, cries, tabs, accepted, undone>>

\* A receipt that is refused is not sent again.
ReceiptRouted(u) ==
  /\ ops[u].at = "receipt"
  /\ Accept(u)
  /\ Done(u)
  /\ UNCHANGED <<slot, slotFile, cries, tabs, undone, upsets>>

ReceiptRefused(u) ==
  /\ ops[u].at = "receipt"
  /\ Upset
  /\ Done(u)
  /\ UNCHANGED <<slot, slotFile, cries, tabs, accepted, undone>>

-----------------------------------------------------------------------------
\* load reads the slot back, and the panels ask for it when they reconnect.
AlCrash ==
  /\ Upset
  /\ ops' = [a \in Actors |-> IdleOp]
  /\ slot' = slotFile
  /\ tabs' = Showing(slotFile)
  /\ undone' = IF IsActive(slotFile)
               THEN undone \union ({slotFile.id} \cap {r.id : r \in accepted}) ELSE undone
  /\ UNCHANGED <<slotFile, cries, accepted>>

AlNext ==
  \/ \E a \in Actors : StoreEnds(a) \/ StoreFails(a)
  \/ Raise \/ Withdraw
  \/ \E u \in People, id \in 1..cries :
       SeeAlarm(u, id) \/ DismissAlarm(u, id) \/ \E o \in Options : AnswerAlarm(u, id, o)
  \/ \E u \in People :
       AnswerRouted(u) \/ AnswerRefused(u) \/ ReceiptRouted(u) \/ ReceiptRefused(u)
  \/ AlCrash

(***************************************************************************)
(* Properties.                                                             *)
(***************************************************************************)

\* Two people who click two options produce one answer, and what the slot says was
\* answered is what the agent was sent.  (A crash between the routing and the write
\* brings the question back; the signal's id is the same, and the first one counts.)
OneAnswer ==
  /\ \A id \in 1..MaxCries \ undone : Cardinality({r \in accepted : r.id = id}) <= 1
  /\ slot.state = "answered" => \E r \in accepted : r.id = slot.id /\ r.how = slot.how

\* The latest alarm is the actual one: no answer to an earlier one puts that back
\* into the slot.  (An alarm that a crash or a failed write kept from its file goes
\* with the memory.)
LatestWins == slot'.id >= slot.id \/ slotFile.id < slot.id

\* What the people see and what the agent is told stay one story.
AlarmsAnswered == [][OneAnswer' /\ LatestWins]_alVars

AlSpec == AlStart /\ [][AlNext]_alVars
=============================================================================
