------------------------------ MODULE Schedules ------------------------------
(***************************************************************************)
(* Deferred schedules (the scheduler's tick, the plane's create and        *)
(* cancel, and the store): one chain of one agent, in one file.            *)
(*                                                                         *)
(* The tick reads the file, decides which steps are due, fires the first   *)
(* and writes the chain back; create and cancel read and write the same    *)
(* file, all through one temporary name.  A step ends at each of their     *)
(* awaits.                                                                 *)
(*                                                                         *)
(* A step of the chain is due at its own time.  The two clocks of the      *)
(* agent, its status and for how long its screen has been still, are       *)
(* samples.  The clock stops at MaxClock, past every deadline.             *)
(***************************************************************************)
EXTENDS Integers, FiniteSets, FiniteSetsExt, Sequences

CONSTANTS
  Kind,     \* the steps of the chain, in order: "message", "lane" (a command or
            \* an operation of the session) or "quiet" (either, after a silence)
  Grace,    \* catchUpGraceMs
  Patience, \* idleWaitMs, and the timeout of a quiet step
  Keep,     \* KEEP_SETTLED_MS
  MaxBirth, MaxClock, \* bounds: the last creation, and the end of the clock
  MaxGens,  \* bound: chains created under the id
  MaxSpoils \* bound: crashes, failed writes, executors that throw, cancels

ASSUME KindAssumption == Kind \in Seq({"message", "lane", "quiet"})
ASSUME LimitsAssumption == {Grace, Patience, Keep, MaxBirth, MaxClock, MaxGens, MaxSpoils} \subseteq Nat

Steps == DOMAIN Kind
Due(c, i) == c.born + i - 1
StepStates == {"pending", "fired", "failed", "dropped", "cancelled"}
Gens == 1..MaxGens
Unseen == -1
NoFile == [gen |-> 0, born |-> 0, st |-> [i \in Steps |-> "pending"]]
Writers == {"tick", "create", "cancel"}

VARIABLES
  chainFile,  \* the chain on disk
  chainTmp,   \* the temporary file beside it
  pens,       \* a writer's content, and how far it has got
  ticking,    \* the tick: the await it is at, the chain it holds, its next step
  marks,      \* since when a due step waits
  clock,
  made,       \* history: chains created
  fires,      \* history: how often a step of a generation was fired
  resting,    \* history: steps cancelled while nobody else held the chain
  spoils      \* disturbances so far

scVars == <<chainFile, chainTmp, pens, ticking, marks, clock, made, fires, resting, spoils>>

Content == [gen : 0..MaxGens, born : 0..MaxBirth, st : [Steps -> StepStates]]
IdlePen == [at |-> "none", c |-> NoFile]
IdleTick == [at |-> "idle", s |-> NoFile, i |-> 0]

ScTypeOK ==
  /\ {chainFile, chainTmp} \subseteq Content
  /\ pens \in [Writers -> [at : {"none", "tmp", "rename"}, c : Content]]
  /\ ticking \in [at : {"idle", "look", "fire", "write", "remove"}, s : Content, i : Steps \union {0}]
  /\ marks \in [Steps -> {Unseen} \union 0..MaxClock]
  /\ clock \in 0..MaxClock /\ made \in 0..MaxGens
  /\ fires \in [Gens -> [Steps -> 0..1 + MaxSpoils]]
  /\ resting \subseteq Gens \X Steps
  /\ spoils \in 0..MaxSpoils

ScIdle ==
  /\ chainFile = NoFile /\ chainTmp = NoFile
  /\ pens = [w \in Writers |-> IdlePen]
  /\ ticking = IdleTick
  /\ marks = [i \in Steps |-> Unseen]
  /\ fires = [g \in Gens |-> [i \in Steps |-> 0]]
  /\ resting = {}

ScStart == ScIdle /\ clock = 0 /\ made = 0 /\ spoils = 0

\* No chains, and nothing to come.
ScQuiet == ScIdle /\ clock = MaxClock /\ made = MaxGens /\ spoils = MaxSpoils

NewChain(g, now) == [gen |-> g, born |-> now, st |-> [i \in Steps |-> "pending"]]
IsLive(c) == c.gen > 0 /\ \E i \in Steps : c.st[i] = "pending"
Settle(c, i, s) == [c EXCEPT !.st[i] = s]
Spoil == spoils < MaxSpoils /\ spoils' = spoils + 1

-----------------------------------------------------------------------------
(* The store's write. *)

Write(w, c) == pens' = [pens EXCEPT ![w] = [at |-> "tmp", c |-> c]]

WriteChainTmp(w) ==
  /\ pens[w].at = "tmp"
  /\ chainTmp' = pens[w].c
  /\ pens' = [pens EXCEPT ![w].at = "rename"]
  /\ UNCHANGED <<chainFile, ticking, marks, clock, made, fires, resting, spoils>>

\* Nobody else has the chain in hand.
Alone(w) == \A v \in Writers \ {w} : pens[v].at = "none"

Written(w) ==
  /\ pens' = [pens EXCEPT ![w] = IdlePen]
  /\ ticking' = IF w = "tick" THEN IdleTick ELSE ticking

\* The rename moves whatever the temporary file holds by then.
RenameChain(w) ==
  /\ pens[w].at = "rename" /\ chainTmp # NoFile
  /\ chainFile' = chainTmp /\ chainTmp' = NoFile
  /\ Written(w)
  /\ resting' =
       IF w = "cancel" /\ Alone(w) /\ ticking.at = "idle"
       THEN resting \union {<<chainTmp.gen, i>> : i \in {j \in Steps : chainTmp.st[j] = "cancelled"}}
       ELSE resting
  /\ UNCHANGED <<marks, clock, made, fires, spoils>>

\* Another rename took the temporary file: the write throws.  The tick ends and
\* the caller of create or cancel is told.
RenameMisses(w) ==
  /\ pens[w].at = "rename" /\ chainTmp = NoFile
  /\ Written(w)
  /\ UNCHANGED <<chainFile, chainTmp, marks, clock, made, fires, resting, spoils>>

WriteSpoiled(w) ==
  /\ pens[w].at = "tmp"
  /\ Spoil
  /\ Written(w)
  /\ UNCHANGED <<chainFile, chainTmp, marks, clock, made, fires, resting>>

-----------------------------------------------------------------------------
(* The plane. *)

\* planChain refuses an id that is live; a settled chain is replaced.
Create ==
  /\ pens["create"].at = "none"
  /\ ~IsLive(chainFile)
  /\ made < MaxGens /\ clock <= MaxBirth
  /\ made' = made + 1
  /\ Write("create", NewChain(made', clock))
  /\ UNCHANGED <<chainFile, chainTmp, ticking, marks, clock, fires, resting, spoils>>

\* One step, or all of them: what is pending in the file that was read.
Cancel(chosen) ==
  /\ pens["cancel"].at = "none" /\ chainFile.gen > 0
  /\ \E i \in chosen : chainFile.st[i] = "pending"
  /\ Spoil
  /\ Write("cancel", [chainFile EXCEPT !.st =
       [i \in Steps |-> IF i \in chosen /\ chainFile.st[i] = "pending" THEN "cancelled"
                        ELSE chainFile.st[i]]])
  /\ UNCHANGED <<chainFile, chainTmp, ticking, marks, clock, made, fires, resting>>

-----------------------------------------------------------------------------
(* The tick. *)

TickGoes(at) == ticking' = [ticking EXCEPT !.at = at]

TickReads ==
  /\ ticking.at = "idle" /\ chainFile # NoFile
  /\ \/ /\ IsLive(chainFile)
        /\ \E i \in Steps : chainFile.st[i] = "pending" /\ Due(chainFile, i) <= clock
        /\ ticking' = [IdleTick EXCEPT !.at = "look", !.s = chainFile]
     \/ \* settled an hour ago
        /\ ~IsLive(chainFile) /\ clock - chainFile.born > Keep
        /\ ticking' = [IdleTick EXCEPT !.at = "remove", !.s = chainFile]
  /\ UNCHANGED <<chainFile, chainTmp, pens, marks, clock, made, fires, resting, spoils>>

TickRemoves ==
  /\ ticking.at = "remove"
  /\ chainFile' = NoFile
  /\ ticking' = IdleTick
  /\ UNCHANGED <<chainTmp, pens, marks, clock, made, fires, resting, spoils>>

\* dueItems: what to do with a step, given the samples.  Only a step seen waiting
\* in this process outlives the grace.
Since(i) == IF marks[i] = Unseen THEN clock ELSE marks[i]
TooLateNever(i) == FALSE

TooLate(i) == clock - Since(i) > Patience
BehindPending(c, i) == i - 1 \in Steps /\ c.st[i - 1] = "pending"

MayFire(c, i, idle, still) ==
  \/ Kind[i] = "message"
  \/ Kind[i] = "lane" /\ idle
  \/ Kind[i] = "quiet" /\ still /\ ~BehindPending(c, i)

VerdictIf(open, c, i, idle, still) ==
  IF ~open \/ Due(c, i) > clock THEN "none"
  ELSE IF marks[i] = Unseen /\ clock - Due(c, i) > Grace THEN "drop"
  ELSE IF MayFire(c, i, idle, still) THEN "fire"
  ELSE IF TooLate(i) THEN "fail" ELSE "wait"

VerdictOnCancelled(c, i, idle, still) == VerdictIf(c.st[i] \in {"pending", "cancelled"}, c, i, idle, still)
Verdict(c, i, idle, still) == VerdictIf(c.st[i] = "pending", c, i, idle, still)

\* Dropped and failed steps before the first to fire are settled; all that wait
\* are marked.
TickLooks ==
  /\ ticking.at = "look"
  /\ \E idle, still \in BOOLEAN :
       LET c == ticking.s
           Is(i, v) == Verdict(c, i, idle, still) = v
           toFire == {i \in Steps : Is(i, "fire")}
           before == {i \in Steps : \A j \in toFire : i < j}
           settled == [c EXCEPT !.st = [i \in Steps |->
                         IF i \in before /\ Is(i, "drop") THEN "dropped"
                         ELSE IF i \in before /\ Is(i, "fail") THEN "failed" ELSE c.st[i]]]
       IN /\ marks' = [i \in Steps |-> IF Is(i, "wait") THEN Since(i) ELSE marks[i]]
          /\ ticking' = IF toFire # {} THEN [at |-> "fire", s |-> settled, i |-> Min(toFire)]
                        ELSE IF settled # c THEN [at |-> "write", s |-> settled, i |-> 0]
                        ELSE IdleTick
  /\ UNCHANGED <<chainFile, chainTmp, pens, clock, made, fires, resting, spoils>>

Settled(s) ==
  /\ ticking' = [at |-> "write", s |-> Settle(ticking.s, ticking.i, s), i |-> 0]
  /\ marks' = [marks EXCEPT ![ticking.i] = Unseen]

Fire ==
  /\ ticking.at = "fire"
  /\ fires' = [fires EXCEPT ![ticking.s.gen][ticking.i] = @ + 1]
  /\ Settled("fired")
  /\ UNCHANGED <<chainFile, chainTmp, pens, clock, made, resting, spoils>>

\* The executor throws: a grant is missing, the command is refused.
FireFails ==
  /\ ticking.at = "fire"
  /\ Kind[ticking.i] # "message"
  /\ Spoil
  /\ Settled("failed")
  /\ UNCHANGED <<chainFile, chainTmp, pens, clock, made, fires, resting>>

TickWrites ==
  /\ ticking.at = "write" /\ pens["tick"].at = "none"
  /\ Write("tick", ticking.s)
  /\ UNCHANGED <<chainFile, chainTmp, ticking, marks, clock, made, fires, resting, spoils>>

ScCrash ==
  /\ Spoil
  /\ pens' = [w \in Writers |-> IdlePen]
  /\ ticking' = IdleTick
  /\ chainTmp' = NoFile \* the next write replaces what is left there
  /\ marks' = [i \in Steps |-> Unseen]
  /\ UNCHANGED <<chainFile, clock, made, fires, resting>>

ClockTicks ==
  /\ clock < MaxClock
  /\ clock' = clock + 1
  /\ UNCHANGED <<chainFile, chainTmp, pens, ticking, marks, made, fires, resting, spoils>>

-----------------------------------------------------------------------------
PenNext == \E w \in Writers : WriteChainTmp(w) \/ RenameChain(w) \/ RenameMisses(w) \/ WriteSpoiled(w)
TickNext == TickReads \/ TickRemoves \/ TickLooks \/ Fire \/ FireFails \/ TickWrites
PlaneNext == Create \/ \E chosen \in {{i} : i \in Steps} \union {Steps} : Cancel(chosen)

ScNext == PenNext \/ TickNext \/ PlaneNext \/ ScCrash \/ ClockTicks

\* The interval ticks, promises resolve, time passes.
ScFair == WF_scVars(TickNext) /\ WF_scVars(PenNext) /\ WF_scVars(ClockTicks)

(***************************************************************************)
(* Properties.                                                             *)
(***************************************************************************)

\* No chain stays live: each of its steps is fired, failed, dropped or cancelled in
\* the end, whatever the agent does and whoever writes the file beside the tick.  (Or
\* its file goes: a tick removes an old settled chain even if a new one has just
\* taken its id.)
EveryChainSettles == []<>~IsLive(chainFile)

\* A step is fired again only for a cause: each crash, failed write or concurrent
\* cancel makes at most one repetition.
RepeatsForCause == \A g \in Gens, i \in Steps : fires[g][i] <= 1 + spoils

\* A cancel that overlaps no tick and no other writer is final.  (One that does
\* overlap a tick may be undone by the chain the tick writes back.)
CancelHolds ==
  \A g \in Gens, i \in Steps : <<g, i>> \in resting => fires'[g][i] = fires[g][i]

\* A step fires for a reason, and not after its end.
FiresForCause == [][RepeatsForCause' /\ CancelHolds]_scVars

ScSpec == ScStart /\ [][ScNext]_scVars /\ ScFair
=============================================================================
