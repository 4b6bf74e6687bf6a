------------------------------- MODULE Routines -------------------------------
(***************************************************************************)
(* Routines (the scheduler's loop, discovery, orphan pruning, the state    *)
(* store and the operator's edits): recurring ones, and ones that run once.*)
(*                                                                         *)
(* A routine is a file, read again at every rescan; when it ran last is    *)
(* kept beside it, and goes when a rescan does not find the routine.       *)
(* The runs of a recurring routine fall on the numbers 1, 2, ..., and      *)
(* clock = c is any moment after run c and before run c + 1.  The state    *)
(* file of a routine has one writer, the loop.                             *)
(*                                                                         *)
(* Left out: names, time zones and cron expressions, and run-once, which   *)
(* sends a message of its own and touches nothing here.                    *)
(***************************************************************************)
EXTENDS Integers, FiniteSets

CONSTANTS
  Recurring, Once, \* the routines of each kind
  OnceAt,       \* when a once routine is due
  MaxTime,      \* bound: the end of the clock
  MaxChanges    \* bound: edits, crashes, refusals, failed writes

ASSUME KindsAssumption == Recurring \cap Once = {}
ASSUME TimesAssumption == {OnceAt, MaxTime, MaxChanges} \subseteq Nat

Rs == Recurring \union Once
Never == -1
NoRoutine == "none"

VARIABLES
  text,      \* a routine's file: "absent", "broken", "off", "on"
  known,     \* what the last rescan found: "absent", "off", "on"
  lastRun,   \* its state file: lastRun, or doneAt of a once routine
  rloop,     \* the await the loop is at, the routines before it, the one in hand
             \* and its run
  now,
  ran,       \* <<routine, run>> that were sent, or refused
  booted,    \* history: since when the loop runs, and what was on by then
  changes    \* disturbances so far

roVars == <<text, known, lastRun, rloop, now, ran, booted, changes>>

LoopAt(at, left) == [at |-> at, left |-> left, r |-> NoRoutine, run |-> Never]

RoTypeOK ==
  /\ text \in [Rs -> {"absent", "broken", "off", "on"}]
  /\ known \in [Rs -> {"absent", "off", "on"}]
  /\ lastRun \in [Rs -> {Never} \union 0..MaxTime]
  /\ rloop.at \in {"boot", "prune", "prime", "tick", "fire", "mark", "sleep", "rescan", "dead"}
  /\ rloop.left \subseteq Rs /\ rloop.run \in Never..MaxTime
  /\ now \in 0..MaxTime
  /\ ran \subseteq Rs \X (Never..MaxTime)
  /\ booted.at \in 0..MaxTime /\ booted.on \subseteq Rs
  /\ changes \in 0..MaxChanges

RoIdle ==
  /\ known = [r \in Rs |-> "absent"]
  /\ lastRun = [r \in Rs |-> Never]
  /\ ran = {}
  /\ booted = [at |-> 0, on |-> {}]

RoStart ==
  /\ RoIdle
  /\ text = [r \in Rs |-> "on"]
  /\ rloop = LoopAt("boot", {})
  /\ now = 0 /\ changes = 0

\* No files, and nothing to come.
RoQuiet ==
  /\ RoIdle
  /\ text = [r \in Rs |-> "absent"]
  /\ rloop = LoopAt("sleep", {})
  /\ now = MaxTime /\ changes = MaxChanges

Change == changes < MaxChanges /\ changes' = changes + 1

-----------------------------------------------------------------------------
(* Rescan: discovery reads all files at once, the orphans go after it. *)

Found(r) == IF text[r] = "broken" THEN "absent" ELSE text[r]

Discover ==
  /\ rloop.at \in {"boot", "rescan"}
  /\ known' = [r \in Rs |-> Found(r)]
  /\ rloop' = [rloop EXCEPT !.at = "prune", !.left = IF rloop.at = "boot" THEN Rs ELSE {}]
  /\ booted' = IF rloop.at = "boot"
               THEN [at |-> now, on |-> {r \in Rs : Found(r) = "on"}] ELSE booted
  /\ UNCHANGED <<text, lastRun, now, ran, changes>>

\* left tells the first rescan from the later ones: only it is followed by prime.
Prune ==
  /\ rloop.at = "prune"
  /\ lastRun' = [r \in Rs |-> IF known[r] = "absent" THEN Never ELSE lastRun[r]]
  /\ rloop' = IF rloop.left = {} THEN LoopAt("tick", Rs) ELSE LoopAt("prime", rloop.left)
  /\ UNCHANGED <<text, known, now, ran, booted, changes>>

-----------------------------------------------------------------------------
(* Start-up: what was missed is absorbed. *)

IsDue(r) ==
  IF r \in Once THEN lastRun[r] = Never /\ OnceAt <= now
  ELSE lastRun[r] # Never /\ lastRun[r] + 1 <= now

Primes(r) == r \in Recurring /\ known[r] = "on" /\ IsDue(r)

Prime(r) ==
  /\ rloop.at = "prime" /\ r \in rloop.left
  /\ lastRun' = IF Primes(r) THEN [lastRun EXCEPT ![r] = now] ELSE lastRun
  /\ rloop' = [rloop EXCEPT !.left = @ \ {r}]
  /\ UNCHANGED <<text, known, now, ran, booted, changes>>

\* Nothing catches a write that fails here: the loop ends.
PrimeFails(r) ==
  /\ rloop.at = "prime" /\ r \in rloop.left
  /\ Primes(r)
  /\ Change
  /\ rloop' = LoopAt("dead", {})
  /\ UNCHANGED <<text, known, lastRun, now, ran, booted>>

PrimeEnds ==
  /\ rloop.at = "prime" /\ rloop.left = {}
  /\ rloop' = LoopAt("tick", Rs)
  /\ UNCHANGED <<text, known, lastRun, now, ran, booted, changes>>

-----------------------------------------------------------------------------
(* The tick. *)

Passes(r) == rloop' = LoopAt("tick", rloop.left \ {r})

\* The run that is due; a recurring routine the loop has never seen is marked.
TickRoutine(r) ==
  /\ rloop.at = "tick" /\ r \in rloop.left
  /\ IF known[r] # "on" THEN Passes(r) /\ UNCHANGED lastRun
     ELSE IF r \in Recurring /\ lastRun[r] = Never
     THEN Passes(r) /\ lastRun' = [lastRun EXCEPT ![r] = now]
     ELSE IF ~IsDue(r) THEN Passes(r) /\ UNCHANGED lastRun
     ELSE /\ rloop' = [at |-> "fire", left |-> rloop.left \ {r}, r |-> r,
                       run |-> IF r \in Once THEN OnceAt ELSE lastRun[r] + 1]
          /\ UNCHANGED lastRun
  /\ UNCHANGED <<text, known, now, ran, booted, changes>>

RunSent ==
  /\ rloop.at = "fire"
  /\ ran' = ran \union {<<rloop.r, rloop.run>>}
  /\ rloop' = [rloop EXCEPT !.at = "mark"]
  /\ UNCHANGED <<text, known, lastRun, now, booted, changes>>

\* Refused: not retried, the state moves on.
RunDenied ==
  /\ rloop.at = "fire"
  /\ Change
  /\ ran' = ran \union {<<rloop.r, rloop.run>>}
  /\ rloop' = [rloop EXCEPT !.at = "mark"]
  /\ UNCHANGED <<text, known, lastRun, now, booted>>

MarkNow ==
  /\ rloop.at = "mark"
  /\ lastRun' = [lastRun EXCEPT ![rloop.r] = now]
  /\ rloop' = LoopAt("tick", rloop.left)
  /\ UNCHANGED <<text, known, now, ran, booted, changes>>

Mark ==
  /\ rloop.at = "mark"
  /\ lastRun' = [lastRun EXCEPT ![rloop.r] = IF rloop.r \in Once THEN now ELSE rloop.run]
  /\ rloop' = LoopAt("tick", rloop.left)
  /\ UNCHANGED <<text, known, now, ran, booted, changes>>

\* The router or the write throws: the tick of this routine is over.
TickThrows ==
  /\ rloop.at \in {"fire", "mark"}
  /\ Change
  /\ rloop' = LoopAt("tick", rloop.left)
  /\ UNCHANGED <<text, known, lastRun, now, ran, booted>>

TickDone ==
  /\ rloop.at = "tick" /\ rloop.left = {}
  /\ rloop' = LoopAt("sleep", {})
  /\ UNCHANGED <<text, known, lastRun, now, ran, booted, changes>>

\* The next tick, or the rescan that is due before it.
Wakes ==
  /\ rloop.at = "sleep"
  /\ \/ (\E r \in Rs : known[r] = "on" /\ (IsDue(r) \/ lastRun[r] = Never)) /\ rloop' = LoopAt("tick", Rs)
     \/ (\E r \in Rs : known[r] # Found(r)) /\ rloop' = LoopAt("rescan", {})
  /\ UNCHANGED <<text, known, lastRun, now, ran, booted, changes>>

-----------------------------------------------------------------------------
(* The rest of the world. *)

\* put, delete, setEnabled, and edits by hand, which may leave a file that does
\* not parse.
Edit(r, to) ==
  /\ text[r] # to
  /\ Change
  /\ text' = [text EXCEPT ![r] = to]
  /\ UNCHANGED <<known, lastRun, rloop, now, ran, booted>>

RoCrash ==
  /\ Change
  /\ rloop' = LoopAt("boot", {})
  /\ known' = [r \in Rs |-> "absent"]
  /\ UNCHANGED <<text, lastRun, now, ran, booted>>

TimePasses ==
  /\ now < MaxTime
  /\ now' = now + 1
  /\ UNCHANGED <<text, known, lastRun, rloop, ran, booted, changes>>

-----------------------------------------------------------------------------
RoutineLoop ==
  \/ Discover \/ Prune
  \/ \E r \in rloop.left : Prime(r) \/ PrimeFails(r) \/ TickRoutine(r)
  \/ PrimeEnds \/ RunSent \/ RunDenied \/ Mark \/ TickThrows \/ TickDone \/ Wakes

RoNext ==
  \/ RoutineLoop
  \/ \E r \in Rs, to \in {"absent", "broken", "off", "on"} : Edit(r, to)
  \/ RoCrash \/ TimePasses

\* The loop's promises resolve.
RoFair == WF_roVars(RoutineLoop)

(***************************************************************************)
(* Properties.                                                             *)
(***************************************************************************)

\* Runs missed while the server was down are skipped, never replayed.  (For what is
\* on at start-up: a routine that is off then, and on later, replays them all.)
MissedNotReplayed ==
  [][\A p \in ran' \ ran : p[1] \in Recurring \cap booted.on => p[2] > booted.at]_roVars

\* While a routine stays on and the loop is up, every run of it is tried, also when
\* the loop is late by several: none is passed over, and none is left waiting.
Missing(r, s) == known[r] = "on" /\ lastRun[r] # Never /\ lastRun[r] < s /\ s <= now

NoRunPassedOver ==
  [][\A r \in Recurring, s \in 1..MaxTime :
       Missing(r, s) /\ lastRun'[r] >= s => <<r, s>> \in ran' \/ rloop.at = "prime"]_roVars

EveryRunIsTried ==
  /\ NoRunPassedOver
  /\ []<>(\A r \in Recurring, s \in 1..MaxTime : Missing(r, s) => rloop.at = "dead")

\* Each run of a routine is tried once its time has come, and a missed one is not.
RunsInTime == MissedNotReplayed /\ EveryRunIsTried

RoSpec == RoStart /\ [][RoNext]_roVars /\ RoFair
=============================================================================
