# Muxeon in TLA+

Muxeon coordinates command-line agents that run in tmux sessions: everything
said to an agent is a record in a file queue, and one loop per agent types the
records into its session, one turn at a time.  This directory holds a model of
that program, the TLC runs that check it on small instances, and theorems that
TLAPS proves for every instance.

`PROJECT.json` is the machine-readable side of this file: the components, the
runs, the lines of code each definition models, the hazards with the properties
that cover them, and, for each property, a mutated definition that breaks it.

    tlc -workers 2 -config dispatcher.cfg MCDispatcher
    tlc -workers 2 -config services.cfg MCServices
    tlc -workers 2 -config clients.cfg MCClients
    tlapm DispatcherProofs.tla
    tlapm --stretch 3 DispatcherProofs.tla      # on a slow or busy machine

## The system

Paths are below `packages/`.

| component | state it keeps | operations | talks to |
| --- | --- | --- | --- |
| file queue (`queue/`) | five directories per session: tmp, pending, cur, done, failed | enqueue, dequeue, complete, cancel, requeue, prune | the file system only |
| dispatcher (`orchestrator/dispatcher`) | item in hand, dedup window, control lane | drain, revive, recover, pump, processOne | queue, driver, exchange, status |
| session status and lifecycle (`orchestrator/status`, `lifecycle/`) | status, origin, revive budget | provision, kill, restart, reload, shutdown, reconcile, revive | tmux |
| sweepers (`idle-teardown`, `liveness-probe`, `down-probe`, `retention`) | what is in flight | one sweep per period | the lane, the queue |
| pause registry (`pause`, `pause-state`) | set of paused names, mirror file | set, persist, seed | router, dispatcher |
| router (`orchestrator/router`) | nothing but hooks | route, fan-out, federated egress and ingress | queue, topology, pause, WIP limit |
| rendezvous (`orchestrator/rendezvous*`) | per sender a queue of intents, one file each | register, notify, expire, resolve, rehydrate | router |
| nudge, exchange, outbox (`orchestrator/nudge`, `exchange`, `server/outbox`) | a window per turn, a folder per turn, outbox files | begin, collect, nudge, claim, sweep | router, dispatcher |
| egress (`orchestrator/egress`) | one file queue per user, channel or link | deliver, retry, fail | connectors, links |
| federation (`federation/`, `server/wire-federation`) | links, pending acknowledgements, presence | attach, detach, send, accept, dial | router, egress |
| schedules (`schedules/`), routines (`routines/`) | chains in files; slots and last runs | tick, cancel, replay, rescan | router |
| gossip of statuses (`federation/registry`, the publisher in `manager`) | what each server last heard of each actor | publish, accept, link down | links |
| web chat (`webchat/`) | history, alarms, reactions, prompts, topics, sessions, consoles | panel requests, timers | router, egress |
| panel (`webchat-ui/`) | what one tab shows: threads, badges, a console, a session | pages, events, answers, timers | web chat |
| channels (`channels/`, `server/wire-*`) | a cursor into the posts, ids seen, chats to push to | poll, route, show | router, egress |
| agent plane (`server/mcp/`) | sessions, one per name; a shim per agent process | initialize, bind, call, evict, supervise | tools |
| configuration (`config/`, `server/bootstrap`) | the sections of the file, references, grants | load, validate, wire | all of the above |
| session driver (`orchestrator/driver`), adapters (`adapters/`) | the turn seen while injecting, looks at a composer | inject, confirm, await a turn, press again | tmux, the agent's pane and status file |
| the command line | nothing: a client of the operator plane | | operator plane |

Interactions worth a model: producers rename files into pending/ while the loop
scans it; operators kill a session under a running turn, from outside the loop;
other operator requests wait in the control lane and run between turns; sweepers
decide now and act later, in the lane; retention unlinks archived files and
afterwards shrinks the window in memory; the server dies anywhere, and what it
had in memory is rebuilt from the directories.

What is hard: every `await` of the loop lets another actor run; the status that
a step tested may be stale when it acts; the queue is at-least-once, so only the
dedup window keeps an id from being served twice; kill, restart, revive, idle
teardown and the probes all move one status; the loop is one promise chain, and
an error that leaves it stops the agent for good.

What makes the parts correct:

- file queue: a record is one file, in one directory; one stamp per file;
- dispatcher: one turn at a time; the slot holds the item in hand; nothing is
  lost but by cancellation, by a duplicate of something served, or by retention;
  queued work moves once the agent is up;
- window: it never misses an archived id;
- driver: a message reported done was taken by the agent and its turn is over, as far as
  the pane can tell; no marked message is left in the composer and no turn waited for
  after its end;
- lifecycle: busy means a turn; the status converges to what tmux says;
- pause: at most the turn under way starts after the flag is set;
- rendezvous: one front, one open window, no intent lost, every target served,
  one unread notice per pair, every intent ends;
- router: a limit is passed by at most the callers that were past the test, a
  pause refuses every message begun after it;
- federation: an envelope ends delivered or reported, a report tells the truth,
  receipts end, no loop, only an answer returns along a hidden name;
- gossip: the latest status wins and, once nothing changes, is everywhere;
- schedules and routines: a step fires at most once per slot, a cancel holds;
- exchange: a turn is answered once, a sweep takes no live folder;
- outbox: a file is routed again only after a crash or a failure, and goes;
- alarms and history: one answer per alarm, nothing recorded is lost or returns;
- retention: no blob goes while a record refers to it;
- panel: what is shown is what was recorded and pushed; a badge is the status the
  server last saw; what is typed into a console arrives, once and in order;
- logins: a session lives to its promised end, and no longer, whatever a restart or
  a failed write does; an open panel stays logged in;
- channels: a post is routed once and its refusal told; a letter is shown;
- agent plane: one session per name, and the last shim gets through again;
- configuration: what validation accepts, bootstrap can start, and a guard and the
  port behind it agree on who may do what.

## Modules

| module | models | variables |
| --- | --- | --- |
| `Maildir` | the file queue of one session and the dispatcher's window | `tmp pending cur done failed doneIds nextSeq` |
| `Session` | tmux session, status machine, lifecycle operations, revive budget | `live status origin spent todo saw` |
| `Dispatcher` | the loop, composed with the two above and with everything beside it | `loop via hold snap filtered ending lane paused saved aborted pruning faults leaked` |
| `Mailbox` | nothing: the abstract queue the dispatcher implements | `queued running done failed served asked` |
| `Driver` | what the dispatcher takes for one step: typing a message, and telling when its turn is over | `step untyped tries baseline observed wait by cli msg torn native` |
| `Rendezvous` | the resumption of refused dialogues, for one sender | `intents dirty tick flush tmp disk unread events` |
| `Federation` | messages between servers: router, link queues, frames, receipts | `queue push open stale frames handlers inbox notices refusing journal` |
| `Exchange` | the answer to a turn: folder, sidecar, nudge, scrape, orphan sweep | one per await of the turn and of the sweep |
| `Outbox` | the files an agent drops, claimed and routed | `path claim writing settle monitor fate` |
| `Schedules` | one chain of deferred steps, its file, tick, create, cancel | |
| `Routines` | a recurring routine and one that runs once, rescans, edits | |
| `Gates` | the gates before a recipient's queue, with many callers | |
| `Alarms` | the alarm slot of an agent and the people who answer | |
| `History` | one chat's log and topics, in memory and in two files | |
| `Surface` | the gossip of one actor's status over a chain of servers | |
| `Blobs` | the blob collector against moving records and growing logs | |
| `Config` | the assembly of a configuration, its rules, what bootstrap makes of it | |
| `Access` | who may do what on the panel and on the operator plane | none: operators over `Config` |
| `Reactions` | marks on messages, mirrored between two chats | |
| `Panel` | one tab's thread of one chat, against the log | |
| `Badges` | status, depth and phases that a tab shows of an agent | |
| `Console`, `ConsoleLine` | a terminal in the panel; the record of what is typed into it | |
| `Logins` | sessions, their renewal and the limit of attempts | |
| `Prompts`, `TopicTree` | a person's prompts; the topics of a chat | |
| `Channels` | a messenger's polling loop and its egress | |
| `AgentPlane` | shims and the server's sessions of one name | |
| `MCDispatcher`, `MCAgentPlane`, `MCAgentLoops` | TLC's instances of the dispatcher, of the agent plane, of either or the driver | |
| `MCRendezvous`, `MCFederation`, `MCLinks` | TLC's instances of the two, and of either | |
| `MCServices`, `MCConfig`, `MCClients` | TLC's instances of the services, the configurations, the clients | |
| `DispatcherProofs` | theorems on `Dispatcher` with its parts, `Mailbox` and `Driver` | |
| `RendezvousProofs`, `FederationProofs` | theorems on these, and (the first) on what `MCLinks` composes of them | |
| `ServicesProofs` | theorems on `Blobs`, `Gates`, `Exchange`, `Schedules`, `Routines` | |
| `HistoryProofs`, `PeopleProofs` | theorems on `History`; on `Alarms`, `Logins`, `Channels` | |
| `PanelProofs` | theorems on `Panel`, `Badges`, `Prompts` | |
| `ClientsProofs` | theorems on `Reactions`, `ConsoleLine` and on what `MCClients` composes of these and the last | |

**Records.** A record is a stamp and an id.  The stamp stands for the file name
`<unix_ms>-<seq>-<id>`: stamps grow, order the queue, and a requeue draws a new
one; the id is the logical id in the body.  Two records may carry one id, as
producers retry.  `SelfIds` are the ids of the agent's own scheduled items, the
only thing the loop reads from a body.

**Actions and awaits.**  An action is the code between two awaits, because this
is where JavaScript lets others run.  `loop` names the await the loop is at:
`scan` is in `dequeue`, between the reading of two files; `prepare`, `inject`,
`await`, `noting`, `settling`, `failing`, `failed` are in `processOne`.
`complete` and the window update are separate steps, as they are in the code.
`ending` says that the end of the turn is on record somewhere that outlives the
session (message.json deleted, status file, or seen while injecting).

**Lifecycle operations** are lists of steps, since their awaits interleave with
the loop: `todo` holds what is left of the operation of each owner, the loop's
lane, the operator outside it (kill, shutdown, the first half of restart), and
the loop's own revive.  A graceful teardown is the same list as a kill: it only
gives the session more time, and no step here is bounded by time.

**Environment.**  `Disrupt` counts the events no run needs (a request, a death,
a sweep that finds something, a failure, a crash); `MaxFaults` bounds their
number, `Kinds` chooses among them.  A crash keeps the directories, the pause
file and tmux, and `Boot` is what `bootstrap` finds.

**Rendezvous.**  All the state of the coordinator is per sender, and so is its
lock, so one sender is modelled.  `tick` is the await the tick is at: the
question about the unread notice (`ask`), the router (`route`, and `mark` when
the answer is on its way back), its own write (`flush`).  In between run the
router's hooks (`Refused`, `Answered`), which write the same file through the
same temporary name; `flush` holds the two writes.  A target is what the sender
put into it: `unread` notices in its queue (external to the module; `Dispatcher`
models that queue).  The phase
`elapsed` is `notified` with the clock past `windowUntil`.  Left out: what is
registered between the start of the dispatchers and `rehydrate`.

**The driver.**  `Dispatcher` says that an injection may throw and that a turn ends;
`Driver` is how the code finds that out.  A look at the pane is a step, and the unit
of the time that `Grace` and `Repress` count in.  What the agent in the pane does is
external and taken from the comments of `driver.ts` and of the adapters: it ignores
Enter while it boots, and during a turn if it does not queue; a repaint may hide its
composer and its busy marker for `TornRun` looks in a row.  `cli.runtime` says which
adapter reads it.  codex marks a parked text only if it took it for a paste, which the
bursts of `driver.ts` are there to avoid (`cli.paste`); what it took for plain typing reads
unknown while it is parked, and so does all that claude parks.  `refused` remembers that
an Enter was ignored and that none has been taken since.  Two things are assumed of that
pane: runs of spoilt looks are shorter than the grace, and nobody edits what the driver
typed.  And a session is not started again before the dispatcher has noticed that it went,
which the dispatcher's own model has.

**Federation.**  Three servers in a row; the middle one relays.  A link is named
after its far end and a name `y@c@b` is a sequence whose last element is the next
link.  A side of a link is what one server keeps of it: its queue on disk (as
`Maildir`, reduced to what matters here), the frame that waits for its
acknowledgement, the receipts owed.  `Fault` is the only source of trouble: an
acknowledgement late or lost, a connection broken with one end hearing of it
first, a crash of a server, a failed write, a gate that refuses.  A handler's
awaits up to its enqueue are one step; its last enqueue and the acknowledgement
are another, since a crash may come between.

**The services of one server.**  `Exchange` to `Config` share no variable, and in
the code share no state but the queues that `Dispatcher` models, so `MCServices`
composes them with one variable, `focus`, that names the service a behaviour
exercises: the run checks the disjoint union of ten models, and not their
product, which would be the same states many times over.  In each of them a
step ends where the code awaits, and files are what a crash leaves of them:
absent, torn or whole.  `Gates` is `Router.route` for local recipients;
`Federation` has its other half.  `Outbox` and `Schedules` hand a message to the
router and take its verdict from the environment.  `MCLinks`, `MCAgentLoops` and
`MCClients` are composed in the same way, for the same reason.

**The panel and other clients.**  A person's browser is another program on another
clock.  `Panel` has the three ways from the log to a thread (pages, events, the
answer to a send), none of which waits for another; `Badges` the poll that
remembers what it saw; `Console` one socket from its opening to the end of the
tmux client behind it; `Logins` a browser with one cookie.  `Channels` is a
messenger in their place.  Time in `Logins` does not pass while the panel's timer
is late: it looks every minute, and sessions last for hours.

**The agent plane.**  A shim is a process that proxies the calls of an agent and
supervises its own connection.  Several shims may declare one name; the server
keeps one session of it, and evicts.

What each leaves out stands in its header.

## Runs

| run | question | instance | result |
| --- | --- | --- | --- |
| `dispatcher` | safety of the loop | 2 ids (1 self-scheduled), 2 stamps, any 2 disruptions of every kind, provision manual | 7 properties hold, 2.6 M states |
| `agent_loops` | refinement and liveness of the loop; the driver; the agent plane | 1 record of either id, any 2 of: kill, lifecycle request, death or hand start, pause, edit, retention, crash; 2 shims, 3 sessions, 1 call, 1 setback; 2 messages typed to any runtime, 1 own turn, 1 swallowed key, 1 death | 5 properties hold, 0.33 M states |
| `links` | does every envelope end, and truly; safety and liveness of intents | one message of each kind (neighbour, dialogue, two hops, request, to a hidden name, around a loop, to nobody), hop cap 1, faults of every kind; 2 targets, 2 rounds, any 3 of: refusal, answer, refused notice, failed write, late reader, crash | 8 properties hold, 0.18 M states |
| `services` | the ten services | see below | 14 properties hold, 0.33 M states |
| `clients` | the nine clients | see below | 6 properties hold, 1.5 M states |
| `loop_dies` | does the loop survive its own lane | 1 lifecycle request | violated: finding 1 |
| `kill_fails` | does a kill keep the message in cur/ | 1 kill | violated: finding 2 |
| `one_nudge` | one unread notice per pair | 2 targets, refusals and late readers | violated: finding 3 |
| `no_cap` | rounds within the cap | 1 target, a refusal and a late reader | violated: finding 4 |
| `parked_done` | is what is done taken | codex or claude, claude perhaps still booting, 1 message, 1 own turn | violated: finding 5 |
| `lost_receipt` | does a refusal come home | a sender exported under an alias, no fault | violated: finding 6 |
| `one_session` | one live session per name | 2 shims, no setback | violated: finding 7 |

What the properties of the passing runs say:

- `dispatcher`: `SingleFlight`, `ServedOnce`, `OnePlace`, `WindowCovers` of the
  directories; `BusyIsATurn` of the status, `PauseHolds` of the pause.
- `agent_loops`: `QueueMoves` (work is served once the agent stays up),
  `StatusConverges`, `MailboxSpec` (every step over the directories is one of
  `Mailbox`), `PlaneServes` (a sound registry, and the last shim gets through),
  `DriverServes` (`TypedIsTaken`, no message is done that is still in the composer or
  whose turn still runs, unless an Enter for it was ignored, none was taken since and the
  text shows no marker; and `WaitsEnd`, no parked message that shows its marker and no
  turn that is over is waited for without end).
- `links`: `NeverLostSilently`, `TrueReport`, `NamesLeadBack`, `EveryEnvelopeEnds`
  of what crosses servers; `FrontOnly`, `LeavesForCause`, `EveryIntentEnds` of
  refused dialogues.
- `services`: `AnswerEnds`, `SweepsSpare`, `OutboxEnds`, `EveryChainSettles`,
  `FiresForCause`, `RunsInTime`, `GatesSoft`, `AlarmsAnswered`, `HistoryKept`,
  `ViewConverges`, `ReferencedKept`, `BootIsSound` (with it: a load that fails for its
  references says of them what is so), `AccessAgrees`.
- `clients`: `PanelTells`; `CopiesAgree` (what is kept twice: the marks of a chat on both
  its sides, a typed line and its record, the file of prompts and the answered edits, with
  at most the one whose answer is due or was cut off by a crash);
  `EditsHold` (the console, the topics); `LoginsHold`, `ChannelsDeliver`.

Every module's type invariant is checked as well.

*Bounds.*  Two stamps are the least at which a second record waits behind the
slot, a duplicate of a served id arrives, or a requeue meets its own id; two ids
are the least at which a pause holds one record and lets the other pass.  Each
property of the run breaks under a mutation of the code within these bounds, so
the cases occur.  The theorems below remove the bounds for what they prove.
In `links`, of the rendezvous, two targets are the least that rotate, two rounds the
least at which an elapsed round is not the last, and three events the least for
two intents and one disturbance.  A window that elapses before the notice is
read is an event; this bounds the notices, and it is why every intent ends: a
target that is late for ever keeps its intent for ever.

Of the federation, a row of three servers is the least with a relay, and a message
of each kind is the least at which every gate of egress and ingress decides both
ways.  In `services`:

| focus | instance | enough because |
| --- | --- | --- |
| exchange | 1 message, 2 slips (crash, late answer, failed write) | a turn meets its own past: a sweep, a requeue, a late answer |
| outbox | 2 files, 2 contents, 2 mishaps | one file fails while the other goes, a name is used twice |
| schedules | chain of 2 steps (by the lane's clock, by quiet), clock to 4, 2 spoils | the second step waits on the first; past every deadline |
| routines | 1 recurring, 1 once, time to 2, 2 changes | a run is missed, a run is due, a routine comes back |
| gates | 3 callers, limit 1, 1 toggle of the pause | two callers past the test at a limit of one |
| alarms | 2 people, 2 options, 2 alarms, 2 upsets | two answers to one alarm, an answer to a replaced one |
| history | 1 message and 1 reply, 1 topic, 2 faults | a reply to a message that is moved or removed meanwhile |
| surface | origin, relay, importer; 2 statuses, 2 jolts | a link breaks, is replaced, and the old close comes late |
| blobs | 1 blob, 2 records, 2 queues, 1 log | a record moves past the reader while another is unlinked |
| config | two names, one with an @, one that is no file name; every configuration that `MCConfig` lists | every rule has a configuration that only it refuses, and one that passes |

In `clients`:

| focus | instance | enough because |
| --- | --- | --- |
| reactions | 2 people, 3 pairs of participants, 2 requests at a time, 1 upset | two stores that mirror each other, and a shared one |
| panel | 1 message sent, 2 received, 2 topics, page of 1, 1 wipe, 1 break | a page is overtaken by an event, an echo and a removal |
| badges | 2 moves, 1 broken socket, 2 events under way | a change between snapshot and socket |
| console | 3 pieces of output, 2 keys, 1 fault | before, in and behind the captured screen |
| line | 5 presses of 2 letters, line of 2 | typed, erased, cut, pasted |
| logins | lifetime 4, renewal 2, time to 6, 2 logins, 2 hiccups | a renewal is lost, then the server restarts |
| prompts | a full shelf and an empty one, 2 requests at a time, any 2 of: failed read, failed write, crash | a move into what another request fills; a rack begun anew, or a crash between the file and the answer, under a second edit |
| topics | 3 segments, depth 2, 3 changes | a rename onto a name that differs in case |
| channels | 2 posts, 2 letters, 1 mishap | a crash between the routing and the cursor |

In `agent_loops` three sessions are the least at which a session is evicted by one
that another evicts.  Two messages are the least at which one meets what the last left
in the pane, a grace of two looks the least longer than a spoilt one, and three
confirmations the least at which a key is swallowed, pressed again and confirmed.
`Cold` are the runtimes that may boot when they are first typed to: here both whose composer
is read, so that an Enter is ignored in either way, while booting and in an own turn.

*Fairness* (`FairSpec`, only for liveness).  The loop's promises resolve and a
live agent ends its turn (weak fairness of `LoopNext`); tmux answers the
operator (`AdminStep`, `RestartSubmits`); a started write ends (`Deliver`); the
liveness timer ticks (`SweepLiveness`).  `Drained` is strongly fair: the lane is
refilled by a timer of seconds and drained in milliseconds, so it is found empty
again and again.  Neither the operator, nor deaths, pauses or crashes are fair.
`QueueMoves` assumes what it must: that from some time on the session lives, is
not paused, and the loop has not thrown.

`Rendezvous` assumes that the sweep runs on (`TickNext`), that the sender is idle
at infinitely many of its ticks (strong fairness of the idle branches: a status
is sampled, not waited for), that promises resolve (`FlushNext`), that time
passes (`Elapse`) and that targets work off their queues (`Take`, which is
`QueueMoves` of the target).

`Federation` assumes of every server that its loops run on, that an
acknowledgement comes or its timer fires, that a dialler dials again
(`setTimeout` chains in the code), and of no fault that it happens.  The services
assume the same of what the code drives by timers and promises: the turn and the
sweep of the exchange and the ageing of a folder, the outbox monitor, the ticks
of the schedules and their clock, the loop of the routines, the links and the
publisher of the gossip, the steps of one start-up.  The agent plane assumes that
requests are answered and that the supervisor of a running shim probes again; the
driver that its loops sleep and look again, that the down-probe finds a session gone,
and that an agent ends its boot and its turns.  No
operator, agent, crash or failure is fair.  `clients` checks safety only: people
owe nobody a step.

## Findings

1. **A loop can die** (`loop_dies`).  `pump` tests the status, drains the lane
   and dequeues without looking again.  A reload drained there whose provision
   fails leaves the agent down; `state.to("busy")` throws out of `run`, the
   process logs an unhandled rejection, and this agent is not served until the
   server restarts, whatever the operator does.  `lifecycle/src/kill.ts` says the
   queue "is delivered on the next come-up".
2. **A kill can fail a message** (`kill_fails`).  A kill while the driver types
   makes the injection throw, and the message goes to failed/, where it waits for
   an operator.  The comments of `dispatcher.ts` and `complete.ts` and the
   operator guide say it stays in cur/ and is re-sent.
3. **Two nudges of one pair** (`one_nudge`).  The tick asks whether the last
   notice of the front is unread, and then, when it has rotated another intent to
   the front, notifies that one without asking.  The coordinator's header says a
   round "starts only once B has TAKEN the previous notice".
4. **Rounds without end** (`no_cap`).  A last round that elapses unread steps
   aside "unspent" with all its attempts counted, and is notified again when the
   target has read: attempts pass `maxAttempts`, though the store says "capped".
5. **Done, and still in the composer** (`parked_done`).  A composer that reads unknown for
   `COMPOSER_UNKNOWN_GRACE_MS` (5 s) counts as cleared, and a parked text often reads so.
   claude's adapter declares only the empty composer: a claude that boots for longer than
   the grace ignores every Enter and repaints, so `inject` takes the message for consumed as
   soon as the pane differs from what it was (`driver.ts:254`).  codex's marker is that
   of a large paste only (`codex.ts:58`): if it is in a turn of its own, it ignores Enter,
   `inject` returns on the busy pane (233), the end of that turn looks like the end of ours,
   nothing is pressed again (381), and the grace ends the wait (369).  Either message is
   reported done.  `CHANGELOG.md:27` says that "a message parked in the agent's composer is
   re-submitted, not completed", `driver.ts:80` that "a turn does NOT complete while the
   composer still shows our paste".  TLC stops at the shorter trace; `Runtimes = {"codex"}`
   with `Cold = {}` shows codex alone, `Runtimes = {"claude"}` claude.
6. **A refusal that does not come home** (`lost_receipt`).  A sender with an
   export alias crosses a link under the alias, and a refusal is addressed to it.
   `#ingressReceipt` resolves the name among the local names, where the alias is
   none, and drops the receipt: the sender never learns, though the router's
   comments promise that no refused envelope vanishes.

7. **Two sessions of one name** (`one_session`).  `reserve` evicts the session a
   name maps to and leaves the name reserved; a second `initialize` that comes
   before the first is bound finds nobody to evict, and both bind.  Only the later
   one is on the map, so nothing ever evicts the other.  `mcp/identity.ts` says
   that "two concurrent initializes for the same name cannot both win".

Smaller ones that no run is spent on.  The ids of notices count attempts, and a pair that
is refused again counts from 0: its target has these ids in done/ and drops the notices,
while the store calls the intent notified, "B was pinged".  The router also refuses a notice of a
paused target, which drops the intent, though the coordinator says a notice "only
fails on a permanent topology/unknown error".  And `clearDirty` runs after the
awaited write, so it also forgets a change made during the write: the state file
then keeps an old list until the next change (`Rename` has this).  Others met
while modelling:

- exchange: an answer written between the sweep's last look and its `rm` goes with
  the folder; a late answer that is harvested during another turn of the same peer
  suppresses that turn's nudge;
- outbox: the same name with the same content, dropped twice, has one message id,
  and the second is taken for a duplicate; after a crash between route and unlink
  a second route may be refused, and a delivered file is reported as rejected;
- schedules: a tick and a cancel that overlap overwrite each other's file; the
  marks of a chain survive it, and one created again under its id inherits them;
- routines: a routine that was off at boot replays every missed run when it is
  switched on, while the operator guide says missed runs are skipped; a failed
  write while priming ends the loop;
- gossip: the publisher compares a status with the last tick's only, so one that
  changes and changes back within a tick leaves an importer that connected in
  between with the wrong one; a late close takes a link down though a newer
  connection is attached;
- alarms: a crash between the routing of an answer and its record opens the
  question again, and the second answer is dropped as a duplicate of the first;
- history: an append behind a line that a failed write cut off is lost at the next
  start; a failed save of a removal moves its messages to the default topic;
  Two more, which the proof of `HistoryIsKept` brought up: an answer that is
  redelivered after the original aged out of the log, or whose line was behind a
  torn tail and lost, comes back without its topic;
- reactions: a torn last line is dropped in memory and not rewritten, and the next
  event is glued to it; after one failed write of the usage counts all later ones
  are skipped until a restart; a mark placed before a crash is never notified; a
  repeat that heals the mirror is not broadcast; the answer to a place may
  overwrite newer marks that were pushed;
- panel: `App.tsx:521-522` says that an open panel never logs itself out, but after
  one failed renewal that is no 401 none is tried again (538-544); after a
  reconnect only alarms are loaded again, so messages, statuses and removals that
  were missed stay missing until a reload; a status that changes between the
  snapshot and the opening of the socket is never pushed; a page or an echo that a
  removal overtakes brings records back; a first fetch that fails leaves the feed
  without a socket;
- console: a socket that closes before its first message leaves the popup
  "connecting"; keys typed while an attach fails are recorded though never sent;
  lines of two people who type at once blend; `console-input.ts:9-13` promises no
  false record, and `discard` un-poisons a line whose rest still follows;
- prompts: `prompts.test.ts:226` expects a name to be compared with the other names
  of its shelf, which `prompts.ts:224` does only when the patch has one, and the
  panel leaves an unchanged name out; `prompts.ts:20-22` says that a broken file is
  "never a silently empty rack", but any error of the read is taken for no file
  (`prompts.ts:307-310`), and the next edit writes its new rack over the one that could
  not be read (`ReadFails`; `RackKept` says what is left then);
- topics: a rename cuts a path by the length of the old one (`topics.ts:201-204`) where it
  matched without case, and a letter may change its length with its case;
- channels: the shipped clients (`telegram-api.ts`, `slack-api.ts`) never set the
  sender, so a channel of users refuses every post, though
  `docs/operator-guide.md:672` attributes it; a restart loses Slack's cursor, and
  the last hundred posts are polled again; a crash between the append to a user's
  history and the push loses the push; a letter that always fails blocks its queue;
- agent plane: the shim repeats any failed call, one that threw in the tool or timed
  out included, so a call may run twice; one failing call closes the client that
  concurrent calls share; an `initialize` that is answered with an error leaves the
  name reserved;
- access: `docs/operator-guide.md:147-153` says that a grant only narrows and that
  start, restart or reload of a recipient without provision fails the boot; a grant
  for `*` passes, and a restart or reload of such an agent takes its session down
  and only then fails; tags of users route but are not listed
  (`bootstrap.ts:1075`); `list_peers` shows a link's own name as an agent that is
  down, against `operator-guide.md:1205`;
- configuration: a user may bear an agent's name when the agent's session has
  another, though `validate.ts:386-390` says that the key check catches it; an
  agent whose session is called `blobs` or `observe` shares that store's directory.

## Proofs

Theorems hold for every value of the constants: any sets of ids, actors, names and
callers, any bounds on stamps, rounds, retries and disturbances, any topology of
servers.  A theorem in *italics* below states a property that a run checks.

| module | theorem | says |
| --- | --- | --- |
| `DispatcherProofs` | `TypeCorrect` | *`TypeOK`* |
| | `QueueCorrect` | the inductive invariant `QueueInv` of directories, hand and window |
| | `OneTurnAtATime`, `ServedIsServedOnce`, `RecordsNeverFork`, `WindowCoversDone` | *`SingleFlight`*, *`ServedOnce`*, *`OnePlace`*, *`WindowCovers`* |
| | `QueueImplementsMailbox` | the safety part of *`MailboxSpec`* (it has no other): initial states map to initial states, each step to a step or a stutter |
| | `BusyMeansTurn` | *`BusyIsATurn`* |
| | `PauseHoldsAlways` | *`PauseHolds`* |
| | `DoneIsTaken` | `TypedIsTaken`, the invariant of *`DriverServes`*, with no hypothesis |
| `RendezvousProofs` | `RvTypeCorrect`, `OneWindow` | types; *`FrontOnly`* |
| | `IntentsLeaveForCause` | *`LeavesForCause`*, an action property |
| | `RoundsAreCounted` | how far attempts can pass the cap: by the number of disturbances |
| | `LinksTypeCorrect` | *`LinksTypeOK`* |
| | `LinksAreSafe` | the safety properties of federation and rendezvous, of the specification that run links checks |
| `FederationProofs` | `FederationTyped`, `FederationTypeCorrect`, `RecordsKeepTheirWay` | types; `FedTypeOK`, the federation's half of *`LinksTypeOK`*; every record of a message lies on the way its name describes |
| | `NamesAreAddresses` | *`NamesLeadBack`* |
| | `NothingIsLostSilently` | *`NeverLostSilently`*, under two hypotheses on names, below |
| | `ReportsAreTrue` | *`TrueReport`*, with no hypothesis |
| `ServicesProofs` | `ReferencedAreKept` | *`ReferencedKept`* |
| | `GatesAreSoft` | *`GatesSoft`* (an invariant and an action property) |
| | `SweepsAndNudgesSpare` | *`SweepsSpare`* (the same) |
| | `StepsFireForCause` | *`FiresForCause`* (the same) |
| | `MissedRunsAreSkipped`, `RunsAreTaken` | the two action properties of *`RunsInTime`* |
| `HistoryProofs` | `HistoryIsKept` | *`HistoryKept`* |
| `PeopleProofs` | `AlarmsAreAnswered` | *`AlarmsAnswered`* (an invariant and an action property) |
| | `LoginsAreHeld` | *`LoginsHold`* |
| | `ChannelsAreDelivered` | *`ChannelsDeliver`* |
| `PanelProofs` | `PanelTypeCorrect`, `FeedIsComplete` | types; a thread that is loaded shows all it owes of the log, and nothing else |
| | `BadgesAreTrue` | a badge and a message's phase, once the tab has heard all |
| | `RackIsKept` | the shelves that several tabs edit, through failed reads, failed writes and crashes |
| `ClientsProofs` | `PanelTellsTrue` | *`PanelTells`*: thread and badges, of the specification that the run checks |
| | `MarksAgree` | the marks of both sides of a chat and of their tabs, once no request is under way |
| | `LinesAreRecorded` | the record of a line that was only typed, erased and pasted |
| | `CopiesAlwaysAgree` | *`CopiesAgree`*: the last two and `RackIsKept`, of the specification that the run checks |

*Assumptions* are those the modules name (`SelfIdsAssumption`,
`ProvisionAssumption`, `MaxAttemptsAssumption`, `TopologyAssumption`,
`PlanAssumption`, `BlobsAssumption`, `GatesAssumption`, `HistoryAssumption`,
`AlarmsAssumption`, `KindAssumption`, `KindsAssumption`, `PanelAssumption`,
`BadgesAssumption`, `PromptsAssumption`, `ReactionsAssumption`, `ConsoleLineAssumption`,
`DriverAssumption`, and those of the bounds): constants have their types, bounds are naturals, ids of messages
are no topics, a log has a record once, a first library is one that the store could have
written, a letter is no key with a name, and a run of
repaints is shorter than the driver's grace.  `GatesAssumption` asks for a finite set of callers, since the overshoot
is a number of calls.  TLC evaluates each of them on its run.

`NothingIsLostSilently` has two hypotheses of its own, `OwnNames` and `NoLinkTwice`,
because without them the code does lose messages.  `OwnNames`: an actor is exported
under its own name; otherwise a refusal does not come home (finding 6).
`NoLinkTwice`: no name that is written to takes one link twice in one direction, as
`y@c@b@c@b` does, written at a.  The egress queue of b towards c recognises by its
done/ what it has sent, so the second passing of that message is dropped there as a
repetition (`dequeue` with the dispatcher's `skipIds`; `router.ts:464-487` does not
look for it), and nobody is told.  TLC finds that without any fault once the hop cap
is 3 or more; with less no message gets that far.  `MCLinks` assumes both of its plan,
so TLC evaluates them on the run of the property.

`DoneIsTaken` has none: any runtime may boot as long as it likes and be in a turn of its own.
What it cannot promise is in the property: a text that shows no marker, for which Enter was
ignored and not taken since, may be reported done while it is parked (finding 5).

*The arguments.*

**The queue** (`QueueInv`).  None of the four invariants is inductive alone.
That a claim does not put a second record into cur/ needs `ScanListing`: while
the loop scans, the slot is free and what it listed is still pending, which holds
because nobody but the loop removes from pending/ or fills cur/, and the lane
drains only outside a scan.  That an id is not served twice needs the window to
cover done/, and this needs the exact moments at which it does not: between
`complete` and `doneIds.add` the id in hand is missing (`Remembered` adds it), and
between the unlinking and `forgetDone` it is too large (`pruning`).  That a stamp
is fresh needs `StampsUsed`.  `QueueInv` is the conjunction.  The proof splits a
step in `QuietOrNot` into steps that touch neither directories nor hand and 23
named actions, and `HandStep`, `PlaceStep` and `WindowStep` take these one by one
for the three parts of the invariant.

**The mailbox.**  The mapping forgets the window, the two system calls of an
enqueue and the slot; a served id is one that reached done/ by a turn.  The proof
needs `QueueInv` for the steps that drop a record as a duplicate: abstractly it
may go only because its id was served.

**The status** (`StatusInv`).  A status is moved by three owners: the loop's lane,
the operator outside it, and revive.  `BusyIsATurn` holds because each owner's
remaining list fits the place where the loop is (`OwnersInPlace`): the loop's own
steps run while it revives, and what the operator has left is a suffix of a kill,
which can only take a turn down (`AdminLeft`).

**The pause** (`PauseInv`).  One turn may slip past the flag, the one whose dequeue
had read it before.  The invariant ties the history of that (`leaked`) to the place
of the loop: once a turn slipped, every dequeue under way has read the flag, and
what it claims is exempt from the pause (`LeakSpent`).

**The driver** (`DrInv`).  What it knows of the agent it has from looks, and a look may be
spoilt.  The grace is the danger: after so many looks at an unknown composer the
message counts as taken.  `HiddenBriefly` says why it is right to: where the composer
can be read, the count of unknown looks stays below the run of spoilt ones that is
under way, as long as the message may be in it, and such a run is shorter than the grace.
A parked message that itself reads unknown is one for which Enter was refused
(`ParkedRefused`) and which shows no marker, all of claude's among them (`ClaudePlain`);
what stays in the composer between messages is one of these (`NotLeft`).  An empty composer counts
only when it was seen twice, since a queued message leaves it before its turn has
begun (`ClearedOnce`); a status file counts only with the token of this turn
(`TokenTells`); and a turn seen while injecting had taken the message (`SeenTaken`).

**Intents** (`RvInv`).  Only the front has a window, and no target has two intents
(`GoodList`).  That a tick opens no second one needs to know what it carries
across its awaits (`TickKnows`): it began with no window open, and a hook that runs
meanwhile opens none.  The file may be older, and a crash brings it back, so what
is on disk, in the temporary file and in a write under way is held to the same
(`GoodFiles`).  The count of rounds rests on `SpentInTime`: a round that is over
without an event had its notice read.

**Names** (`NameInv`).  Names grow by a hop at each crossing and shrink on the
way back.  `WayInv` says of every queue, wire and handler that what it holds of a
message lies on the trail of the name it was addressed to.  That the name of the sender
leads back is then a fact about trails, proved over any topology.  An answer may
come in along a hidden name only if the journal has the question, and
`JournalAsks` says that it has one only of the actor that wrote it, or of one that
may be written to anyway.

**Loss** (`LossInv`).  A message goes out over the hops of its name, and its receipt
comes back over them: one journey, in stages.  `PlaceInv` says of each record where
it is on that journey, from the parts of its name that it has used up and gathered.
A queue has an envelope at one stage only (`OneStage`, from `NoLinkTwice`).  The heart is
`SentInv`: what a queue has in done/, or is being told has arrived, is past that
stage, that is, waits unsent in a later queue, was delivered, or was told of.  It is
inductive because a handler acknowledges only after it queued the record again,
turned it into a receipt or delivered it, and because a queue drops as a repetition
only what it has sent before, of which the same holds by `SentInv` itself.
`UnderWay` is the case of stage 0, and is the property.  Crashes, closed
connections and late acknowledgements only send again.

**Reports** (`ReportInv`).  Why may a sender that was told of a failure rely on it, when
every hop is at-least-once?  Because until some server sends the envelope twice there
is one copy of it: in a queue, in the hand of an egress, on a wire, or with a
handler (`OnePlace`).  A record stays in cur/ while its frame travels, so cur/
counts as a place only before the first push (`Ready`); `SendsOne` says that an egress
remembers exactly that.  Each step moves the copy, changes it in its place or loses
it (`CopyMoves`, `CopiesFade`): a dequeue, a push, an arrival, a delivery, a
forwarding, a receipt.  What the copy says is then consistent: after a delivery it says
"ok" (`SpeaksTrue`), so no failure comes home, and who hears of a failure hears it when
no copy is left (`HeardLast`).  That an id is new when an agent's message is accepted
is `Known`.  Neither names nor hops matter here: aliases and rings are covered.

**The collector** (`BlInv`).  It reads the directories in an order in which records
move.  What it has passed it has found: a record that is now behind the reader was
either read there or read at its former place, since records move forward only
(`SweepSound`), and a blob is stored before it is sent (`SentFirst`).

**The gates** (`GaInv`).  A caller between the test and its enqueue holds a place in
a budget: what is undrained and the callers that nothing can refuse any more are
together at most the limit plus the callers whom the limit is for (`Budgeted`).
`CallsPassed` says which gates a caller behind them came through.

**Histories** (`HiInv`).  The argument follows what an operation has left to do.
`Shape`, `JobFits` and `AppendLast` say what remainders there are; they tell
whether the copy in memory has its topics yet and whether a removal is still to be
carried out.  `DueSafe` (what must be there is neither old nor marked for
removal), `GoneMarked` (what is gone is marked in both copies of the sidecar, and
off the log but for what is undone) and `LabelsRight` rest on it.  This proof found
the property itself wrong: within the bounds of the run no answer could be
redelivered after the original had aged out.  With more faults TLC found that too;
the property now says what the code does keep, and what it does not is listed
under the findings.

**The orphan sweep and the nudge** (`ExInv`).  The sweep decides on a folder at one
await and removes it several later.  What it holds was at rest when it began
(`SweepAtRest`), and a message at rest enters a turn again only by an operator's requeue,
which is the exception that the property names.  `AnsweredIsKnown` ties an answer that
was delivered to the turn that has to know of it.  The requeue had been forgotten in
the half about the nudge: within the bounds of the run it held, its proof failed,
and the property was restated (`AnsweredNotNudged`).

**Chains** (`ScInv`).  `StepsFireForCause` counts.  A step may be fired once by each
copy of the chain in which it is pending and which somebody will still write or act
on: the file, the temporary file, a writer before its first write, the tick.
`ScPaid` is a potential: the firings so far and the copies left, but for one, are
no more than the disturbances of that step.  Looking, writing and renaming move
copies and make none; a crash, a failed write or a cancel that overlaps a tick
makes one and is counted.  `ScRests` is the other half: a cancel that met nobody
leaves no such copy.

**Routines** (`RoInv`).  Start-up primes the routines one by one, across awaits, while files
may change.  `Absorbed` says which of them have their missed runs behind them by now:
those that the loop has passed, and none that it has still to reach; an edit behind its
back changes what the next rescan finds, and not what is left of this one.  `InHand` says
that the run being sent is the one after the last, and that behind the send it was
tried: so nothing is passed over, however late the loop is.

**Alarms** (`AlInv`).  Operations of one agent's alarms run one at a time (`OneOp`), and what
one of them carries across its awaits is about the alarm in the slot (`OpsFit`).
The file is behind the slot, so only a crash takes it back, and the property names
the alarms of which that is true.

**Logins** (`LoInv`).  The store in memory, its file, the write under way, the cookie and the
panel's timer each have an end for a session.  They agree unless a write failed, and the
timer is due before the end that it moves; a restart reads the file, so what is
promised is what the file has, or what the failure left.

**Channels** (`ChInv`).  A post is in the batch, at the head of what is left, in the
queue, or settled; the offset moves past it only behind the last of these
(`BatchFits`).  `RunFits` keeps the books of what ran.  For letters the argument is the order
of one queue: what is shown was written before all that waits (`ShownInOrder`),
and a user's chat is told of what the history took (`ToldOnce`).

**The panel's thread** (`PaInv`).  A record that came while the tab was open and one of the past
reach it on different ways.  A new one is shown or comes, by an event or by the answer to
its send (`NewCome`).  The past comes in pages, from the newest back, and two requests
may be under way, one of them asked from a cursor that the other has moved: `PastLoaded`
says that whatever lies at the cursor or behind it is shown, and of each request that
what it asks for, with what is shown, reaches to the cursor it will leave
(`RequestRight`).  A cursor can be removed from the log by then, so "behind" is measured on
the log as it was (`Before`), of which what is left keeps its order (`PastFirst`).
`NoGhosts` is the other direction: what is shown is in the log, or will be taken off.
The tab had opened on an empty log until this proof was tried, and the half about pages
held without being exercised; `Past` is what was recorded before.  The filter a page is
cut with is a recursive function; what it returns is proved by the least length at
which it would not (`KeepIs`), as induction over data is out of the provers' reach.

**Badges** (`BaInv`).  The poll tells a change once and remembers that it told.  The last word
on its way is then what the poll remembers, and with nothing on its way the tab shows it,
unless a snapshot or a broken socket came between, which leads the tab astray and is
counted so (`BadgeFits`, `PhaseFits`).

**Marks** (`RxInv`).  A request marks the sender's copy of a chat, then the other copy, and reads
behind both what it tells the tabs; each copy has a chain of its own, so requests of
both sides overlap.  Three things together are inductive.  `LastRight`: of the requests
that have still to mirror a mark, the last on the chain of the copy agrees with the copy
it mirrors, and so does the copy when there is none.  It holds because the chain keeps the
order in which the requests left the other one.  `FlipsTold`: a request that makes of a
copy something else than those before it on the chain make of it was a change where it
came from, so it will tell the tabs.  `Apprised`: whoever does not know a mark is about
to be told.  A clearing takes the marks of a whole chat off, in several steps
(`RequestFits` says what is left of it at each).  This proof found a variable of the
model wrong.  `cut` names the marks whose copies a failed write has parted, and of which
nothing is claimed; it was taken back by any mirroring that agreed, also when another
one of the same mark was still on its way and parted them again.  That takes three
requests and one failure, which TLC then found; it is taken back now by the last one
only (`LastMirror`).

**Typed lines** (`ClInv`).  The buffer sees bytes, the session keys; after each whole key the
buffer is out of its escape states, and while the line is plain it has the same
characters as the session, or has given the line up as too long.  An escape sequence
of a key is fed byte by byte through a recursive function, unfolded as often as a
key has bytes (`FedIs`).

**Shelves** (`PrInv`).  Only the first of the chain has read and not yet written, so what it
read is what the file holds (`Head(queue)`), and an edit cannot undo another.  That
nothing is doubled is about sets: `Without`, `Moved` and the writing of one shelf keep
which items there are and that each has one place (`WithoutIs`, `MovedIs`, `ReplacedIs`),
whatever the positions; ids of different shelves stay apart (`Apart`), and an id that is
still to be given is in no shelf (`Uses`).  A move to another shelf takes the prompt
out before it puts it in, so its id is free in between (`GoesKeeps`).  An edit whose
answer is due is the head of the chain, and it alone is `Unanswered`: a crash then leaves
the file with it or as it was (`Possible`).  One that could not read begins from nothing,
for the file and for what is expected of it.

**The composition** (`PanelTellsTrue`, `CopiesAlwaysAgree`, `LinksAreSafe`).  A step of the
clients is a step of each part or leaves it alone, so the invariant of each part carries
over; a behaviour of the links is one of the federation and one of the rendezvous.  Run
`services` composes its parts in the same way; there the theorems are stated of the parts.

*What is only model-checked, and why.*  Liveness (`QueueMoves`, `StatusConverges`,
`PlaneServes`, `WaitsEnd`, `EveryEnvelopeEnds`, `EveryIntentEnds`, `AnswerEnds`, `OutboxEnds`,
`EveryChainSettles`, `ViewConverges` and the temporal half of
`RunsInTime`): fairness and ENABLED are beyond the prover.  `BootIsSound` and
`AccessAgrees` evaluate recursive definitions over configurations, an
induction over data.  So does `TreeSound`, in `EditsHold`: the list of the
topics is a walk over the tree.  The other half of `EditsHold` (`ConsoleFaithful`) is
within reach of the prover and not proved, and neither are the parts of the type
invariants `ServicesTypeOK` and `ClientsTypeOK` that no theorem needed.

## Not modelled

The session clock, slash commands and key presses, the patterns by which adapters read a
screen, the calls of tmux, the content of messages, names of files.  Boots of several agents are
independent; one agent is modelled.  The overlap of two writes of the pause
mirror is one write.  Attachments on frames, uploads, the token and version
checks of links, the cycle guard of the gossip.  Parsing of the configuration and
ranges of single values, environment variables, discovery.  Cron arithmetic.  The
layout, composer, search and sidebar of the panel, and its federation and transport
views.  The texts of channels, their page limits, the plain web connector.  How
the output of a fanned-out command settles.  The wording of tools' answers.  The
command line, which only calls the operator plane, and what adapters make of a
message's text.
`PROJECT.json` says for each component what is left out.

## Plan

What is left, in this order: `ConsoleFaithful` (the captured screen and the output behind
it), the half of `TreeSound` that is not about the list, the type invariants of the
services and the clients as one theorem each.
