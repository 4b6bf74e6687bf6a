-------------------------------- MODULE Driver --------------------------------
(***************************************************************************)
(* The session driver (TmuxSessionDriver): it types a message into the     *)
(* agent's pane, presses Enter and tells from looks at the pane, and from  *)
(* a status file if the agent's owner writes one, when the turn that       *)
(* answers the message is over.                                            *)
(*                                                                         *)
(* The command line agent in the pane is external; it is what the comments *)
(* of driver.ts and of the adapters say of it.  Enter is ignored while it  *)
(* boots, and by those that do not queue while a turn of theirs runs.  A   *)
(* repaint may hide the composer, and the busy marker with it, for some    *)
(* looks in a row.  A look is the unit of time: an agent that is about to  *)
(* begin the turn has begun it by the next one.                            *)
(*                                                                         *)
(* The runtimes: codex, whose composer shows a parked paste by a marker,   *)
(* but text that it took for plain typing by none; claude, which shows     *)
(* only that its composer is empty; foreign ones behind `auto`, which show *)
(* neither; and plain ones, whose adapter declares no composer.            *)
(*                                                                         *)
(* Left out: a session started again before the dispatcher noticed that it *)
(* had gone, and a person who edits what the driver typed.                 *)
(***************************************************************************)
EXTENDS Integers

CONSTANTS
  Runtimes,      \* what the pane may run: "codex", "claude", "foreign", "plain"
  Cold,          \* those of them that may still boot when they are first typed to
  Bursts,        \* pieces of a message (TYPE_CHUNK_BYTES)
  Retries,       \* SUBMIT_RETRIES
  Grace,         \* COMPOSER_UNKNOWN_GRACE_MS, in looks
  Repress,       \* SUBMIT_REPRESS_MS, in looks
  TornRun,       \* looks in a row that a repaint may spoil
  MaxMessages, MaxOwn, MaxHot, MaxDeaths  \* bounds: messages, own turns, swallowed keys, deaths

ASSUME DriverAssumption ==
  /\ Cold \subseteq Runtimes
  /\ {Bursts, Retries, Grace, Repress} \subseteq Nat \ {0}
  /\ TornRun \in Nat /\ TornRun < Grace
  /\ {MaxMessages, MaxOwn, MaxHot, MaxDeaths} \subseteq Nat

VARIABLES
  step,      \* where the driver is with the message
  untyped,   \* pieces still to type
  tries,     \* confirmations made
  baseline,  \* the pane was captured before Enter
  observed,  \* #turnObservedDuringInject
  wait,      \* #awaitOutput: sawBusy, cleared, and the looks since unknownSince and lastSubmit
  by,        \* history: what ended the wait
  refused,   \* history: an Enter for the message was ignored and none taken since
  cli,       \* external: the runtime, whether it is there, boots, is in a turn of its own and
             \* took what is typed for a paste
  msg,       \* external: how far the agent is with the message
  torn,      \* external: spoilt looks in a row
  native,    \* external: the turn token in the status file, if one is written
  bounds

drVars == <<step, untyped, tries, baseline, observed, wait, by, refused, cli, msg, torn, native, bounds>>

Never == -1
DrSteps == {"idle", "typing", "typed", "confirm", "again", "await", "wait", "press", "done"}
Waiting == step \in {"wait", "press"}  \* awaitTurn has not returned

DrTypeOK ==
  /\ step \in DrSteps /\ untyped \in 0..Bursts /\ tries \in 0..Retries
  /\ baseline \in BOOLEAN /\ observed \in BOOLEAN
  /\ wait \in [sawBusy : BOOLEAN, cleared : 0..1, unknown : Never..Grace,
               press : 0..Repress]
  /\ by \in {"nothing", "inject", "front", "grace", "edge"}
  /\ cli \in [runtime : Runtimes, up : BOOLEAN, boots : BOOLEAN, own : BOOLEAN, hook : BOOLEAN,
             paste : BOOLEAN]
  /\ refused \in BOOLEAN
  /\ msg \in {"away", "parked", "queued", "running", "over"}
  /\ torn \in 0..TornRun
  /\ native \in {"none", "stale", "now"}
  /\ bounds \in [messages : 0..MaxMessages, own : 0..MaxOwn, hot : 0..MaxHot, deaths : 0..MaxDeaths]

\* The adapter's detect: whether it declares a composer and a status file.
Declared == cli.runtime # "plain"
ClearedPollsOne == 1
ClearedPolls == IF Declared THEN 2 ELSE 1
Read == cli.runtime \in {"codex", "claude"}
Watched == Read /\ cli.hook
\* claude queues what is entered during a turn; the others ignore the key.
Queues == cli.runtime = "claude"

Fresh == [sawBusy |-> FALSE, cleared |-> 0, unknown |-> Never, press |-> Repress]

DrStart ==
  /\ step = "idle" /\ untyped = 0 /\ tries = 0 /\ baseline = FALSE /\ observed = FALSE
  /\ wait = Fresh /\ by = "nothing" /\ msg = "away" /\ torn = 0
  /\ cli \in [runtime : Runtimes, up : {TRUE}, boots : BOOLEAN, own : BOOLEAN, hook : BOOLEAN,
             paste : {FALSE}]
  /\ refused = FALSE
  /\ cli.boots => cli.runtime \in Cold /\ ~cli.own
  /\ cli.hook => Read
  /\ native \in {"none", "stale"} /\ (native = "stale" => cli.hook)
  /\ bounds = [messages |-> 0, own |-> 0, hot |-> 0, deaths |-> 0]

-----------------------------------------------------------------------------
(* A look at the pane: the ready prompt and the composer, as the adapter's *)
(* patterns read them.                                                     *)

Busy == cli.own \/ msg = "running"

\* What is not spoilt tells the composer.  Only codex marks what is parked, and only a
\* large paste: the bursts that a message is typed in are meant to pass for plain typing.
Composer ==
  CASE cli.runtime \in {"foreign", "plain"} -> "unknown"
    [] msg = "parked" -> IF cli.runtime = "codex" /\ cli.paste THEN "pending" ELSE "unknown"
    [] OTHER -> "empty"

Clear == [ready |-> ~Busy, composer |-> Composer]
Spoilt == [ready |-> TRUE, composer |-> "unknown"]

Look(pane) ==
  /\ \/ pane = Clear /\ torn' = 0
     \/ pane = Spoilt /\ torn < TornRun /\ torn' = torn + 1
  /\ msg' = IF msg = "queued" /\ ~cli.own THEN "running" ELSE msg

Later(looks, most) == IF looks = Never \/ looks = most THEN looks ELSE looks + 1
\* unknownSince ??= now
Since(looks) == IF looks = Never THEN 0 ELSE Later(looks, Grace)

\* Enter reaches the agent; it may be taken for a part of the paste while that is hot.
Ignores == cli.boots \/ (cli.own /\ ~Queues)
Enter ==
  \/ msg = "parked" /\ ~Ignores /\ msg' = "queued" /\ refused' = FALSE /\ UNCHANGED bounds
  \/ msg = "parked" /\ Ignores /\ refused' = TRUE /\ UNCHANGED <<msg, bounds>>
  \/ msg # "parked" /\ UNCHANGED <<msg, bounds, refused>>
  \/ /\ msg = "parked" /\ cli.paste /\ bounds.hot < MaxHot
     /\ bounds' = [bounds EXCEPT !.hot = @ + 1] /\ refused' = TRUE /\ UNCHANGED msg

-----------------------------------------------------------------------------
(* inject *)

\* What the previous message left running is a turn of the agent's own by now.  What it
\* left in the composer is entered with this one; those that do not queue may take either
\* for a paste.
StartTyping ==
  /\ step \in {"idle", "done"} /\ cli.up /\ bounds.messages < MaxMessages
  /\ step' = "typing" /\ untyped' = Bursts /\ observed' = FALSE /\ by' = "nothing" /\ refused' = FALSE
  /\ msg' = IF msg = "parked" THEN "parked" ELSE "away"
  /\ \E paste \in BOOLEAN :
       /\ paste => ~Queues
       /\ msg = "parked" /\ cli.paste => paste
       /\ cli' = [cli EXCEPT !.own = IF msg \in {"queued", "running"} THEN TRUE ELSE @, !.paste = paste]
  /\ native' = IF native = "now" THEN "stale" ELSE native
  /\ bounds' = [bounds EXCEPT !.messages = @ + 1]
  /\ UNCHANGED <<tries, baseline, wait, torn>>

TypePiece ==
  /\ step = "typing" /\ untyped > 0 /\ cli.up
  /\ untyped' = untyped - 1 /\ msg' = "parked"
  /\ UNCHANGED <<step, tries, baseline, observed, wait, by, refused, cli, torn, native, bounds>>

\* A session that went away refuses the keys and inject throws.
InjectThrows ==
  /\ step \in {"typing", "typed"} /\ ~cli.up
  /\ step' = "idle" /\ untyped' = 0
  /\ UNCHANGED <<tries, baseline, observed, wait, by, refused, cli, msg, torn, native, bounds>>

TakeBaseline ==
  /\ step = "typing" /\ untyped = 0 /\ cli.up
  /\ step' = "typed" /\ baseline' \in BOOLEAN
  /\ UNCHANGED <<untyped, tries, observed, wait, by, refused, cli, msg, torn, native, bounds>>

PressEnter ==
  /\ step = "typed" /\ cli.up /\ Enter
  /\ step' = "confirm" /\ tries' = 0 /\ wait' = Fresh
  /\ UNCHANGED <<untyped, baseline, observed, by, cli, torn, native>>

\* inject returns and its locals with it.
Confirmed == step' = "await" /\ tries' = 0 /\ baseline' = FALSE /\ wait' = Fresh

\* The window closes, or a capture fails: the detectors own the turn from here.
ConfirmEnds ==
  /\ \/ step = "confirm" /\ tries = Retries
     \/ step \in {"confirm", "again"} /\ ~cli.up
  /\ Confirmed
  /\ UNCHANGED <<untyped, observed, by, refused, cli, msg, torn, native, bounds>>

\* Whether the pane is not the baseline; one that took the message never is.
Changed == IF msg = "parked" THEN BOOLEAN ELSE {TRUE}

ConfirmBy(pane, changed) ==
  LET since == IF pane.composer = "unknown" /\ Declared THEN Since(wait.unknown)
               ELSE Later(wait.unknown, Grace)
      consumed == ~Declared \/ pane.composer = "empty" \/ (pane.composer = "unknown" /\ since = Grace)
  IN \/ /\ ~pane.ready
        /\ Confirmed /\ UNCHANGED observed
     \/ /\ pane.ready /\ pane.composer = "pending"
        /\ step' = "again" /\ wait' = [wait EXCEPT !.unknown = Never]
        /\ UNCHANGED <<tries, baseline, observed>>
     \/ /\ pane.ready /\ pane.composer # "pending" /\ baseline /\ changed /\ consumed
        /\ observed' = TRUE /\ Confirmed
     \/ /\ pane.ready /\ pane.composer # "pending" /\ ~(baseline /\ changed /\ consumed)
        /\ step' = "again" /\ wait' = [wait EXCEPT !.unknown = since]
        /\ UNCHANGED <<tries, baseline, observed>>

Confirm ==
  /\ step = "confirm" /\ tries < Retries /\ cli.up
  /\ \E pane \in {Clear, Spoilt}, changed \in Changed : Look(pane) /\ ConfirmBy(pane, changed)
  /\ UNCHANGED <<untyped, by, refused, cli, native, bounds>>

PressAgain ==
  /\ step = "again" /\ cli.up /\ Enter
  /\ step' = "confirm" /\ tries' = tries + 1
  /\ UNCHANGED <<untyped, baseline, observed, wait, by, cli, torn, native>>

-----------------------------------------------------------------------------
(* awaitTurn *)

Finished(why) == step' = "done" /\ by' = why /\ wait' = Fresh

AwaitTurn ==
  /\ step = "await"
  /\ IF observed
     THEN observed' = FALSE /\ Finished("inject")
     ELSE step' = "wait" /\ wait' = Fresh /\ UNCHANGED <<observed, by>>
  /\ UNCHANGED <<untyped, tries, baseline, refused, cli, msg, torn, native, bounds>>

PollBy(pane) ==
  LET front == pane.ready /\ wait.sawBusy
      unclear == front /\ Declared /\ pane.composer = "unknown"
      since == Since(wait.unknown)
      cleared == IF front /\ pane.composer = "empty" THEN wait.cleared + 1 ELSE 0
      over == IF Declared THEN cleared = ClearedPolls ELSE front
      unknown == CASE unclear -> since
                   [] pane.ready /\ ~wait.sawBusy -> wait.unknown
                   [] OTHER -> Never
      presses == pane.ready /\ pane.composer = "pending" /\ wait.press = Repress
  IN \/ over /\ Finished("front")
     \/ ~over /\ unclear /\ since = Grace /\ Finished("grace")
     \/ /\ ~over /\ ~(unclear /\ since = Grace)
        /\ wait' = [sawBusy |-> wait.sawBusy \/ ~pane.ready, cleared |-> cleared, unknown |-> unknown,
                    press |-> IF presses THEN 1 ELSE Later(wait.press, Repress)]
        /\ step' = (IF presses THEN "press" ELSE "wait") /\ UNCHANGED by

\* #awaitOutput; a capture that fails is the same as no look at all.
Poll ==
  /\ step = "wait" /\ cli.up
  /\ \E pane \in {Clear, Spoilt} : Look(pane) /\ PollBy(pane)
  /\ UNCHANGED <<untyped, tries, baseline, observed, refused, cli, native, bounds>>

\* A key that a session gone away refuses is the down-probe's business.
PressParked ==
  /\ step = "press"
  /\ step' = "wait"
  /\ IF cli.up THEN Enter ELSE UNCHANGED <<msg, bounds, refused>>
  /\ UNCHANGED <<untyped, tries, baseline, observed, wait, by, cli, torn, native>>

\* #awaitNative: idle counts only at the token of this turn.
PollStatus ==
  /\ Waiting /\ Watched /\ native = "now"
  /\ Finished("edge")
  /\ UNCHANGED <<untyped, tries, baseline, observed, refused, cli, msg, torn, native, bounds>>

\* The signal: the session went down, or the agent ended the turn by its files.
Abort ==
  /\ Waiting /\ (~cli.up \/ msg \in {"running", "over"})
  /\ step' = "idle" /\ wait' = Fresh
  /\ UNCHANGED <<untyped, tries, baseline, observed, by, refused, cli, msg, torn, native, bounds>>

DriverNext ==
  \/ StartTyping \/ TypePiece \/ InjectThrows \/ TakeBaseline \/ PressEnter \/ Confirm \/ PressAgain
  \/ ConfirmEnds \/ AwaitTurn \/ Poll \/ PressParked \/ PollStatus \/ Abort

-----------------------------------------------------------------------------
(* The agent in the pane. *)

Unwatched == <<step, untyped, tries, baseline, observed, wait, by, refused, torn>>

BootEnds ==
  /\ cli.boots /\ cli' = [cli EXCEPT !.boots = FALSE]
  /\ UNCHANGED <<Unwatched, msg, native, bounds>>

\* What was entered during a turn is read at its end or with its next tool call.
TurnBegins ==
  /\ msg = "queued"
  /\ msg' = "running" /\ cli' = [cli EXCEPT !.own = FALSE]
  /\ UNCHANGED <<Unwatched, native, bounds>>

TurnEnds ==
  /\ msg = "running"
  /\ msg' = "over" /\ native' = IF cli.hook THEN "now" ELSE native
  /\ UNCHANGED <<Unwatched, cli, bounds>>

OwnBegins ==
  /\ cli.up /\ ~cli.boots /\ ~Busy /\ msg # "queued" /\ bounds.own < MaxOwn
  /\ cli' = [cli EXCEPT !.own = TRUE] /\ bounds' = [bounds EXCEPT !.own = @ + 1]
  /\ UNCHANGED <<Unwatched, msg, native>>

OwnEnds ==
  /\ cli.own /\ cli' = [cli EXCEPT !.own = FALSE]
  /\ UNCHANGED <<Unwatched, msg, native, bounds>>

SessionGoes ==
  /\ cli.up /\ bounds.deaths < MaxDeaths
  /\ cli' = [cli EXCEPT !.up = FALSE, !.boots = FALSE, !.own = FALSE]
  /\ msg' = IF msg = "over" THEN msg ELSE "away"
  /\ bounds' = [bounds EXCEPT !.deaths = @ + 1]
  /\ UNCHANGED <<Unwatched, native>>

\* The dispatcher has noticed: nothing is being typed or awaited.
SessionComes ==
  /\ ~cli.up /\ step \in {"idle", "done"}
  /\ \E boots \in BOOLEAN :
       /\ boots => cli.runtime \in Cold
       /\ cli' = [cli EXCEPT !.up = TRUE, !.boots = boots]
  /\ UNCHANGED <<Unwatched, msg, native, bounds>>

CliNext ==
  \/ BootEnds \/ TurnBegins \/ TurnEnds \/ OwnBegins \/ OwnEnds \/ SessionGoes \/ SessionComes

DrNext == DriverNext \/ CliNext

\* The driver goes on, its loops sleep and look again, and the down-probe finds that a
\* session went; what boots or runs a turn comes to its end.
DriverLooks ==
  \/ TypePiece \/ InjectThrows \/ TakeBaseline \/ PressEnter
  \/ Confirm \/ PressAgain \/ ConfirmEnds \/ AwaitTurn \/ Poll \/ PressParked
PollDown == ~cli.up /\ Abort
CliMovesOn == BootEnds \/ TurnBegins \/ TurnEnds \/ OwnEnds

DrFair == WF_drVars(DriverLooks) /\ WF_drVars(PollDown) /\ WF_drVars(CliMovesOn)

DrSpec == DrStart /\ [][DrNext]_drVars /\ DrFair

-----------------------------------------------------------------------------

\* What the driver cannot know of: Enter was ignored, and the text shows no marker.
Overlooked == refused /\ ~cli.paste

\* A message is not reported done while it still sits in the composer, nor, but for an
\* answer that came within the confirmations, before its turn is over: whatever turns the
\* agent runs besides, however often Enter is ignored and the pane is caught in a repaint,
\* for the runtimes whose composer the adapter reads (composerState).  Not so if the agent
\* ignored Enter, took none since, and shows no marker of the text.
TypedIsTaken ==
  step = "done" /\ Read /\ ~Overlooked =>
    /\ msg # "parked"
    /\ by # "inject" => msg = "over"

\* What is seen to be parked is entered again until the agent takes it, and a turn that was
\* seen to begin is reported once it is over, unless a repaint comes between: no runtime
\* keeps the driver waiting for ever.
Owed ==
  /\ Waiting
  /\ \/ msg = "parked" /\ cli.runtime = "codex" /\ cli.paste
     \/ msg = "over" /\ wait.sawBusy /\ torn = 0
WaitsEnd == []<>~Owed

DriverServes ==
  [][(DrTypeOK /\ TypedIsTaken)']_drVars /\ WaitsEnd

\* Contradicted by the code: "a message parked in the agent's composer is re-submitted, not
\* completed" (CHANGELOG.md:27; driver.ts:80).
ParkedIsNotDone == step = "done" /\ Read => msg # "parked"
===============================================================================
