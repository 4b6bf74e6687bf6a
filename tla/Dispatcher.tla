------------------------------ MODULE Dispatcher ------------------------------
(***************************************************************************)
(* The dispatcher of one agent (orchestrator/dispatcher): the loop that    *)
(* owns the session's queue, with everything that runs beside it.          *)
(*                                                                         *)
(* The loop is one thread; `loop` says between which two awaits it is, so  *)
(* one action is the code that runs without giving way.  Beside it run the *)
(* producers, the operator's lifecycle requests (kill, shutdown and the    *)
(* first half of restart act at once; the rest waits in the control lane   *)
(* for the loop), the liveness and idle-teardown sweepers, retention, the  *)
(* agent in its session, and crashes of the server.                        *)
(***************************************************************************)
EXTENDS Maildir, Session

CONSTANTS
  Kinds,     \* bound: the kinds of disruption that happen, see Disrupt
  MaxFaults  \* bound: how many of them

ASSUME MaxFaultsAssumption == MaxFaults \in Nat

VARIABLES
  loop,      \* where the loop is
  via,       \* processOne was called by "recover" or by "pump" (and "pump" outside a turn)
  hold,      \* the item in hand: empty, or one record
  snap,      \* what is left of dequeue's listing of pending/
  filtered,  \* dequeue was given accept = isSelfScheduled
  ending,    \* "seen": the turn's end is on record, whatever the session does; or "none"
  lane,      \* ControlLane: the queued operations
  paused,    \* the pause flag
  saved,     \* its mirror on disk
  aborted,   \* stop() was called
  pruning,   \* ids whose files retention has unlinked, not yet forgotten
  faults,    \* disruptions so far
  leaked     \* history: turns of others begun since the pause was set (up to 2)

loopVars == <<loop, via, hold, snap, filtered, ending>>
sideVars == <<lane, paused, saved, aborted, pruning, faults, leaked>>
vars == <<mailVars, sessVars, loopVars, sideVars>>

LoopPoints ==
  {"top", "drainRun", "revive", "reviving", "recover", "recovered", "pump",
   "drainPump", "dequeue", "scan", "claimed", "prepare", "inject", "await",
   "noting", "settling", "failing", "failed", "stopped", "dead"}

LaneKinds == {"provision", "restart", "reload", "reconcile", "idle", "cancel", "requeue"}
LaneOp == [kind : LaneKinds, ids : SUBSET Ids]
SessionOp(kind) == [kind |-> kind, ids |-> {}]

Queued(kind) == \E i \in 1..Len(lane) : lane[i].kind = kind

IsSelf(S) == IdsOf(S) \subseteq SelfIds

Goto(point) == loop' = point

\* A disruption is an event of the environment that no run needs: a request of
\* the operator, a sweep that finds something, a failure.  Bounded by MaxFaults.
Disrupt(kind) ==
  /\ kind \in Kinds
  /\ faults < MaxFaults
  /\ faults' = faults + 1
-----------------------------------------------------------------------------
(* run: drain, revive, recover, pump, and again. *)

Top ==
  /\ loop = "top"
  /\ Goto(IF aborted THEN "stopped" ELSE "drainRun")
  /\ UNCHANGED <<mailVars, sessVars, via, hold, snap, filtered, ending, sideVars>>

Draining == loop \in {"drainRun", "drainPump"} /\ todo["lane"] = <<>>

\* ControlLane.drain takes the next operation.  The queue edits run to their end
\* in one step: the loop is the only other writer of pending/ and cur/.
TakeEdit ==
  /\ Draining /\ lane # <<>>
  /\ \E id \in Head(lane).ids :
       \/ Head(lane).kind = "cancel" /\ CancelPending(id)
       \/ Head(lane).kind = "requeue" /\ RequeueFailed(id)
  /\ lane' = Tail(lane)
  /\ UNCHANGED <<sessVars, loopVars, paused, saved, aborted, pruning, faults, leaked>>

\* The idle-teardown operation looks again before it retires the session: it is
\* idle, nothing is queued (and nothing was routed meanwhile: either may be).
StepsOf(kind) ==
  CASE kind = "provision" -> {ProvisionOp}
    [] kind = "restart" -> {RestartOp}
    [] kind = "reload" -> {ReloadOp}
    [] kind = "reconcile" -> {ReconcileOp}
    [] kind = "idle" -> IF status = "idle" /\ pending = {} /\ cur = {}
                          THEN {IdleTeardownOp, <<>>} ELSE {<<>>}
    [] OTHER -> {}

TakeLifecycle ==
  /\ Draining /\ lane # <<>>
  /\ \E steps \in StepsOf(Head(lane).kind) : todo' = [todo EXCEPT !["lane"] = steps]
  /\ lane' = Tail(lane)
  /\ UNCHANGED <<mailVars, live, status, origin, spent, saw, loopVars,
                 paused, saved, aborted, pruning, faults, leaked>>

\* The drain is over when the lane is empty.  run then looks at the status; pump
\* does not look again: it reads the pause flag and goes on to dequeue.
Drained ==
  /\ Draining /\ lane = <<>>
  /\ \/ /\ loop = "drainRun"
        /\ Goto(IF status = "down" THEN "revive" ELSE "recover")
        /\ UNCHANGED filtered
     \/ /\ loop = "drainPump"
        /\ Goto("dequeue")
        /\ filtered' = paused
  /\ UNCHANGED <<mailVars, sessVars, via, hold, snap, ending, sideVars>>

\* A step of an operation of the loop's own: one it drained, or its revive.
LoopStep ==
  /\ \E o \in {"lane", "loop"} : Step(o)
  /\ UNCHANGED <<mailVars, loopVars, sideVars>>

\* maybeRevive: work is queued, nobody paused the agent, the budget is there.
MaybeRevive ==
  /\ loop = "revive"
  /\ IF ~paused /\ pending \union cur # {} /\ CanRevive
       THEN Goto("reviving") /\ BeginRevive
       ELSE Goto("recover") /\ UNCHANGED sessVars
  /\ UNCHANGED <<mailVars, via, hold, snap, filtered, ending, sideVars>>

Revived ==
  /\ loop = "reviving"
  /\ todo["loop"] = <<>>
  /\ Goto("recover")
  /\ UNCHANGED <<mailVars, sessVars, via, hold, snap, filtered, ending, sideVars>>

RecoverSkipsCur ==
  /\ loop = "recover"
  /\ Goto("pump")
  /\ UNCHANGED <<mailVars, sessVars, via, hold, snap, filtered, ending, sideVars>>

\* recover: an idle agent with an item in cur/ re-sends it ...
Recover ==
  /\ loop = "recover"
  /\ IF status = "idle" /\ cur # {}
       THEN /\ \E r \in cur : hold' = {r}
            /\ Goto("recovered")
       ELSE Goto("pump") /\ UNCHANGED hold
  /\ UNCHANGED <<mailVars, sessVars, via, snap, filtered, ending, sideVars>>

\* ... unless the pause holds it.
RecoverHeld ==
  /\ loop = "recovered"
  /\ paused /\ ~IsSelf(hold)
  /\ hold' = {}
  /\ Goto("pump")
  /\ UNCHANGED <<mailVars, sessVars, via, snap, filtered, ending, sideVars>>

Pump ==
  /\ loop = "pump"
  /\ Goto(IF status = "idle" THEN "drainPump" ELSE "top")
  /\ UNCHANGED <<mailVars, sessVars, via, hold, snap, filtered, ending, sideVars>>

-----------------------------------------------------------------------------
(* dequeue: list pending/ unless the slot is taken, then claim. *)

DequeueBusySlot ==
  /\ loop = "dequeue"
  /\ Goto("scan") /\ snap' = pending
  /\ UNCHANGED <<mailVars, sessVars, via, hold, filtered, ending, sideVars>>

Dequeue ==
  /\ loop = "dequeue"
  /\ IF cur # {}
       THEN Goto("top") /\ filtered' = FALSE /\ UNCHANGED snap
       ELSE Goto("scan") /\ snap' = pending /\ UNCHANGED filtered
  /\ UNCHANGED <<mailVars, sessVars, via, hold, ending, sideVars>>

ScanDrop(r) ==
  /\ loop = "scan"
  /\ IsOldest(r, snap)
  /\ DropDuplicate(r)
  /\ snap' = snap \ {r}
  /\ UNCHANGED <<sessVars, loop, via, hold, filtered, ending, sideVars>>

HeldNever(r) == FALSE

Held(r) == filtered /\ r.id \notin SelfIds

ScanHold(r) ==
  /\ loop = "scan"
  /\ IsOldest(r, snap)
  /\ r.id \notin doneIds /\ Held(r)
  /\ snap' = snap \ {r}
  /\ UNCHANGED <<mailVars, sessVars, loop, via, hold, filtered, ending, sideVars>>

ScanClaim(r) ==
  /\ loop = "scan"
  /\ IsOldest(r, snap)
  /\ ~Held(r)
  /\ Claim(r)
  /\ hold' = {r}
  /\ snap' = {}
  /\ filtered' = FALSE
  /\ Goto("claimed")
  /\ UNCHANGED <<sessVars, via, ending, sideVars>>

ScanEmpty ==
  /\ loop = "scan"
  /\ snap = {}
  /\ filtered' = FALSE
  /\ Goto("top")
  /\ UNCHANGED <<mailVars, sessVars, via, hold, snap, ending, sideVars>>

-----------------------------------------------------------------------------
(* processOne: the turn. *)

\* Whether the pause lets recover go on was decided in the same step: the loop
\* does not give way between that test and the transition to busy.
CanStart == loop = "claimed" \/ (loop = "recovered" /\ ~(paused /\ ~IsSelf(hold)))

Caller == IF loop = "claimed" THEN "pump" ELSE "recover"

\* Where an aborted turn leaves the loop: pump breaks off, recover returns to run.
AfterAbort(caller) == IF caller = "pump" THEN "top" ELSE "pump"

\* pump breaks, recover returns: no turn is started once stop() was called.
StartAborted ==
  /\ CanStart /\ aborted
  /\ hold' = {}
  /\ Goto(AfterAbort(Caller))
  /\ UNCHANGED <<mailVars, sessVars, via, snap, filtered, ending, sideVars>>

StartTurn ==
  /\ CanStart /\ ~aborted
  /\ CanTransition(status, "busy")
  /\ status' = "busy"
  /\ via' = Caller
  /\ leaked' = IF paused /\ ~IsSelf(hold) /\ leaked < 2 THEN leaked + 1 ELSE leaked
  /\ Goto("prepare")
  /\ UNCHANGED <<mailVars, live, origin, spent, todo, saw, hold, snap, filtered, ending,
                 lane, paused, saved, aborted, pruning, faults>>

\* state.to("busy") throws on a session that is down: the error leaves run, and
\* nothing starts the loop again (the process logs the rejection and lives on).
StartThrows ==
  /\ CanStart /\ ~aborted
  /\ ~CanTransition(status, "busy")
  /\ hold' = {}
  /\ Goto("dead")
  /\ UNCHANGED <<mailVars, sessVars, via, snap, filtered, ending, sideVars>>

\* The inbox projection is written; a failure only changes what is typed.
Materialize ==
  /\ loop = "prepare"
  /\ Goto("inject")
  /\ UNCHANGED <<mailVars, sessVars, via, hold, snap, filtered, ending, sideVars>>

\* The text is typed and the first Enter sent; a short turn may end while it is
\* being confirmed, and a session that dies later is the down probe's business.
Inject ==
  /\ loop = "inject"
  /\ live
  /\ ending' \in {"none", "seen"}
  /\ Goto("await")
  /\ UNCHANGED <<mailVars, sessVars, via, hold, snap, filtered, sideVars>>

\* tmux refuses to type into a session that is gone, or render throws.
InjectFails ==
  /\ loop = "inject"
  /\ \/ ~live /\ UNCHANGED faults
     \/ live /\ Disrupt("render")
  /\ Goto("failing")
  /\ UNCHANGED <<mailVars, sessVars, via, hold, snap, filtered, ending,
                 lane, paused, saved, aborted, pruning, leaked>>

FailTurn(r) ==
  /\ loop = "failing"
  /\ r \in hold
  /\ CompleteFailed(r)
  /\ ending' = "none"
  /\ Goto("failed")
  /\ UNCHANGED <<sessVars, via, hold, snap, filtered, sideVars>>

\* state.to("idle"): legal from busy, and from the down a kill has just set.
Idle(points, next) ==
  /\ loop \in points
  /\ CanTransition(status, "idle")
  /\ status' = "idle"
  /\ via' = "pump"
  /\ hold' = {}
  /\ ending' = "none"
  /\ Goto(next)
  /\ UNCHANGED <<mailVars, live, origin, spent, todo, saw, snap, filtered, sideVars>>

FailSettledBusy ==
  /\ loop = "failed"
  /\ hold' = {}
  /\ ending' = "none"
  /\ Goto("pump")
  /\ UNCHANGED <<mailVars, sessVars, via, snap, filtered, sideVars>>

FailSettled == Idle({"failed"}, "pump")

\* The race of the turn detectors.  The output front needs a pane to look at; that
\* the agent deleted message.json, or wrote idle to its status file, outlives it.
AgentEnds ==
  /\ loop = "await" /\ live
  /\ ending = "none"
  /\ ending' = "seen"
  /\ UNCHANGED <<mailVars, sessVars, loop, via, hold, snap, filtered, sideVars>>

TurnDone(r) ==
  /\ loop = "await"
  /\ live \/ ending = "seen"
  /\ r \in hold
  /\ CompleteDone(r)
  /\ Goto("noting")
  /\ UNCHANGED <<sessVars, via, hold, snap, filtered, ending, sideVars>>

\* The down probe wins: cur/ stays for the re-send.
SessionLost ==
  /\ loop = "await"
  /\ ~live
  /\ status' = "down"
  /\ via' = "pump"
  /\ hold' = {}
  /\ ending' = "none"
  /\ Goto("pump")
  /\ UNCHANGED <<mailVars, live, origin, spent, todo, saw, snap, filtered, sideVars>>

TurnAborted == aborted /\ Idle({"await"}, AfterAbort(via))

\* The window is maintained, then afterTurn restores the revive budget.
TurnNoted(r) ==
  /\ loop = "noting"
  /\ r \in hold
  /\ NoteDone(r)
  /\ spent' = FALSE
  /\ Goto("settling")
  /\ UNCHANGED <<live, status, origin, todo, saw, via, hold, snap, filtered, ending, sideVars>>

TurnSettled == Idle({"settling"}, "pump")

LoopNext ==
  \/ Top \/ TakeEdit \/ TakeLifecycle \/ Drained \/ LoopStep
  \/ MaybeRevive \/ Revived \/ Recover \/ RecoverHeld \/ Pump
  \/ Dequeue \/ ScanEmpty
  \/ \E r \in snap : ScanDrop(r) \/ ScanHold(r) \/ ScanClaim(r)
  \/ StartAborted \/ StartTurn \/ StartThrows \/ Materialize \/ Inject \/ InjectFails
  \/ \E r \in hold : FailTurn(r) \/ TurnDone(r) \/ TurnNoted(r)
  \/ FailSettled \/ SessionLost \/ TurnAborted \/ TurnSettled

-----------------------------------------------------------------------------
(* Beside the loop. *)

\* Any producer: the router, a schedule, a federation link; ids may repeat.
Send(id) ==
  /\ Stamp(id)
  /\ UNCHANGED <<sessVars, loopVars, sideVars>>

Deliver(r) ==
  /\ Land(r)
  /\ UNCHANGED <<sessVars, loopVars, sideVars>>

\* admin kill and shutdown, and the off-lane kill with which restart begins.
\* (bound: one off-lane request at a time)
AdminKill ==
  /\ Disrupt("kill")
  /\ todo["admin"] = <<>>
  /\ \E steps \in {Kill, Kill \o <<"submit">>} : todo' = [todo EXCEPT !["admin"] = steps]
  /\ UNCHANGED <<mailVars, live, status, origin, spent, saw, loopVars,
                 lane, paused, saved, aborted, pruning, leaked>>

AdminStep ==
  /\ Step("admin")
  /\ UNCHANGED <<mailVars, loopVars, sideVars>>

\* ... then restart submits the ordered kill and provision to the lane.
RestartSubmits ==
  /\ Running("admin", "submit")
  /\ todo' = Rest("admin")
  /\ lane' = Append(lane, SessionOp("restart"))
  /\ UNCHANGED <<mailVars, live, status, origin, spent, saw, loopVars,
                 paused, saved, aborted, pruning, faults, leaked>>

\* The operator's other requests wait for the loop.
Submit(kind, op) ==
  /\ Disrupt(kind)
  /\ lane' = Append(lane, op)
  /\ UNCHANGED <<mailVars, sessVars, loopVars, paused, saved, aborted, pruning, leaked>>

SubmitLifecycle == \E kind \in {"provision", "reload"} : Submit("lifecycle", SessionOp(kind))

SubmitEdit ==
  \E id \in Ids, kind \in {"cancel", "requeue"} : Submit("edit", [kind |-> kind, ids |-> {id}])

\* IdleTeardownSweeper: an idle session we raised, not paused, one at a time.
SweepIdle ==
  /\ status = "idle" /\ origin = "system" /\ ~paused
  /\ ~Queued("idle")
  /\ Submit("idle", SessionOp("idle"))

\* LivenessProbeSweeper: every session that is not busy, one at a time.  After
\* stop() the sweeper is gone too.
SweepLiveness ==
  /\ ~aborted
  /\ status # "busy"
  /\ ~Queued("reconcile") /\ ~Running("lane", "probe") /\ ~Running("lane", "settle")
  /\ lane' = Append(lane, SessionOp("reconcile"))
  /\ UNCHANGED <<mailVars, sessVars, loopVars, paused, saved, aborted, pruning, faults, leaked>>

TogglePause ==
  /\ Disrupt("pause")
  /\ paused' = ~paused
  /\ leaked' = 0
  /\ UNCHANGED <<mailVars, sessVars, loopVars, lane, saved, aborted, pruning>>

\* The mirror follows: each change writes the whole set.  (Concurrent writes of
\* two changes are one write here.)
PersistPause ==
  /\ paused # saved
  /\ saved' = paused
  /\ UNCHANGED <<mailVars, sessVars, loopVars, lane, paused, aborted, pruning, faults, leaked>>

\* One retention sweep: done/ is pruned, the window forgets what was pruned, and
\* only then is failed/ pruned.
SweepDone(S) ==
  /\ Disrupt("retention")
  /\ pruning = {} /\ S # {}
  /\ PruneDone(S)
  /\ pruning' = IdsOf(S)
  /\ UNCHANGED <<sessVars, loopVars, lane, paused, saved, aborted, leaked>>

SweepForget ==
  /\ pruning # {}
  /\ ForgetDone(pruning)
  /\ pruning' = {}
  /\ UNCHANGED <<sessVars, loopVars, lane, paused, saved, aborted, faults, leaked>>

SweepFailed(S) ==
  /\ Disrupt("retention")
  /\ pruning = {} /\ S # {}
  /\ PruneFailed(S)
  /\ UNCHANGED <<sessVars, loopVars, lane, paused, saved, aborted, pruning, leaked>>

\* External: the session dies or is started by hand.
OutOfBand ==
  /\ Disrupt("outOfBand")
  /\ SessionDies \/ StartedByHand
  /\ UNCHANGED <<mailVars, loopVars, lane, paused, saved, aborted, pruning, leaked>>

Stop ==
  /\ Disrupt("stop")
  /\ ~aborted
  /\ aborted' = TRUE
  /\ UNCHANGED <<mailVars, sessVars, loopVars, lane, paused, saved, pruning, leaked>>

\* The server dies at any point, or exits after stop(), and is started again.
\* The directories, the pause file and the tmux session outlive it.
Crash ==
  /\ Disrupt("crash")
  /\ ReloadMail
  /\ Boot(live)
  /\ Goto("top")
  /\ via' = "pump" /\ hold' = {} /\ snap' = {} /\ filtered' = FALSE /\ ending' = "none"
  /\ lane' = <<>> /\ paused' = saved /\ aborted' = FALSE /\ pruning' = {}
  /\ UNCHANGED <<saved, leaked>>

SideNext ==
  \/ \E id \in Ids : Send(id)
  \/ \E r \in tmp : Deliver(r)
  \/ AdminKill \/ AdminStep \/ RestartSubmits
  \/ SubmitLifecycle \/ SubmitEdit \/ SweepIdle \/ SweepLiveness
  \/ TogglePause \/ PersistPause
  \/ \E S \in SUBSET done : SweepDone(S)
  \/ SweepForget
  \/ \E S \in SUBSET failed : SweepFailed(S)
  \/ OutOfBand \/ Stop \/ Crash

AgentNext == AgentEnds

Next == LoopNext \/ SideNext \/ AgentNext

Init ==
  /\ MailInit /\ SessInit
  /\ loop = "top" /\ via = "pump" /\ hold = {} /\ snap = {}
  /\ filtered = FALSE /\ ending = "none"
  /\ lane = <<>> /\ paused = FALSE /\ saved = FALSE /\ aborted = FALSE /\ pruning = {}
  /\ faults = 0 /\ leaked = 0

Spec == Init /\ [][Next]_vars

-----------------------------------------------------------------------------
(* Fairness. *)

\* The loop's promises resolve, and a live agent ends its turn; tmux answers the
\* operator's request; a write that began ends; the liveness timer ticks, and
\* ticks (every 2 s) far apart compared with a drain (a few ms), so that a drain
\* is not refilled for ever.
Fairness ==
  /\ WF_vars(LoopNext)
  /\ SF_vars(Drained)
  /\ WF_vars(AdminStep)
  /\ WF_vars(RestartSubmits)
  /\ WF_vars(\E r \in tmp : Deliver(r))
  /\ WF_vars(SweepLiveness)

FairSpec == Spec /\ Fairness

-----------------------------------------------------------------------------
(* Properties. *)

TypeOK ==
  /\ MailTypeOK
  /\ SessTypeOK
  /\ loop \in LoopPoints
  /\ via \in {"pump", "recover"}
  /\ hold \subseteq Record
  /\ snap \subseteq Record
  /\ filtered \in BOOLEAN
  /\ ending \in {"none", "seen"}
  /\ lane \in Seq(LaneOp)
  /\ paused \in BOOLEAN
  /\ saved \in BOOLEAN
  /\ aborted \in BOOLEAN
  /\ pruning \subseteq Ids
  /\ faults \in 0..MaxFaults
  /\ leaked \in 0..2

InFlight == {"claimed", "recovered", "prepare", "inject", "await", "failing"}
InTail == {"noting", "settling", "failed"}
InTurn == {"prepare", "inject", "await", "failing"} \union InTail

\* One turn at a time (dispatcher, run and section 10.8 of its comments: the loop
\* is the single owner of pending/ and cur/): the slot never holds two records,
\* and from the claim to the completion it holds exactly the item in hand, so no
\* crash, kill, cancellation, requeue or sweep takes it from under a turn.
SingleFlight ==
  /\ \A r, q \in cur : r = q
  /\ loop \in InFlight => cur = hold /\ hold # {}
  /\ loop \in InTail => cur = {} /\ hold # {}

\* Deduplication (queue/dequeue skipIds, queue/dedup): as long as done/ keeps a
\* record of an id, no other record of that id reaches done/, or even a turn,
\* whatever producers repeat, operators requeue and crashes interrupt.
ServedOnce ==
  /\ \A r, q \in done : r.id = q.id => r = q
  /\ IdsOf(cur) \intersect IdsOf(done) = {}

\* A record is one file (queue/edit, a single atomic rename): the directories
\* are disjoint and no two files have one stamp, also after a requeue.
OnePlace ==
  /\ \A r, q \in tmp \union pending \union cur \union done \union failed :
       r.seq = q.seq => r = q
  /\ pending \intersect (tmp \union cur \union done \union failed) = {}
  /\ cur \intersect (tmp \union done \union failed) = {}
  /\ done \intersect (tmp \union failed) = {}
  /\ tmp \intersect failed = {}

\* The dedup window (retention: "the window IS the current done/"): it misses no
\* record of done/ but the one that complete has just moved there, what retention
\* still has to forget is no longer in done/, and no id in it runs again.
Remembered == doneIds \union (IF loop = "noting" THEN IdsOf(hold) ELSE {})
WindowCovers ==
  /\ IdsOf(done) \subseteq Remembered
  /\ pruning \subseteq Remembered
  /\ pruning \intersect IdsOf(done) = {}
  /\ doneIds \intersect IdsOf(cur) = {}

\* The inductive invariant of the queue: the three properties above, the window,
\* and that stamps are drawn once, that a listing names pending records of a free
\* slot, and that at most one item is in hand.
StampsUsed ==
  \A r \in tmp \union pending \union cur \union done \union failed : r.seq < nextSeq
ScanListing ==
  /\ loop = "scan" => cur = {} /\ snap \subseteq pending
  /\ loop # "scan" => snap = {}
OneInHand == \A r, q \in hold : r = q
QueueInv ==
  /\ SingleFlight
  /\ ServedOnce
  /\ OnePlace
  /\ WindowCovers
  /\ StampsUsed
  /\ ScanListing
  /\ OneInHand

\* The lane drains between turns (server/bootstrap, the idle-teardown operation:
\* "status is idle or down here, never busy"), and no lifecycle operation lets a
\* running turn look idle to the sweepers and to whoever waits for the agent.
BusyIsATurn ==
  /\ status = "busy" => loop \in InTurn
  /\ loop \in InTurn => status # "idle"
  /\ todo["lane"] # <<>> => loop \in {"drainRun", "drainPump"}

\* The pause hold (dispatcher, pump: "a pause set mid-drain stops the NEXT turn"):
\* at most one turn of somebody else begins under one pause, the one whose
\* dequeue was under way when the flag was set.
PauseHolds == leaked <= 1

\* The queue implements the abstract mailbox; a window entry whose file is in
\* done/ counts as remembered before doneIds.add has run.
Served == Remembered \union IdsOf(done)
Asked == UNION {lane[i].ids : i \in {j \in 1..Len(lane) : lane[j].kind = "cancel"}}
Box == INSTANCE Mailbox WITH
  Records <- Record,
  queued <- pending,
  running <- cur,
  served <- Served,
  asked <- Asked

MailboxSpec == Box!BoxSpec

\* The loop serves the queue: once the agent stays up and unpaused, a record that
\* waits or is in flight is moved on, also one left in cur/ by a kill, a crash or
\* a pause (dispatcher, run: recover re-sends, pump drains).
Settled == live /\ ~paused /\ loop \notin {"dead", "stopped"}
QueueMoves ==
  <>[]Settled => \A r \in Record : [](r \in pending \union cur => <>(r \notin pending \union cur))

\* The status follows the session (orchestrator/liveness-probe, lifecycle/reconcile):
\* whatever out-of-band death, hand start or stale answer came before, it does not
\* stay wrong while the loop runs.
StatusConverges ==
  <>[](loop \notin {"dead", "stopped"}) =>
    /\ <>[]live => <>[](status # "down")
    /\ <>[]~live => <>[](status = "down")

\* Contradicted by the code: a message is failed only on a live session ("render
\* or injection failed on a live session", dispatcher processOne); a killed one
\* stays in cur/ for the re-send.
FailsOnlyLive == [][loop = "inject" /\ loop' = "failing" => live]_vars

\* Contradicted by the code: the queue of an agent that went down is served again
\* when it comes up (lifecycle/kill), so the loop never ends but by stop().
LoopSurvives == loop # "dead"
=============================================================================
