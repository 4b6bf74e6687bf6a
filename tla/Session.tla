------------------------------- MODULE Session -------------------------------
(***************************************************************************)
(* One agent's tmux session and what the server believes of it: the status *)
(* machine (orchestrator/status), the lifecycle operations                 *)
(* (packages/lifecycle) and the auto-revive budget.                        *)
(*                                                                         *)
(* An operation is the list of the steps between its awaits, because       *)
(* another actor may run at each of them.  A list is run by one of three   *)
(* owners: "lane", the operation the dispatcher loop is draining; "admin", *)
(* the operator's request, outside the loop; "loop", the loop's own        *)
(* revive.  tmux itself is external: live says whether the session exists. *)
(***************************************************************************)
EXTENDS Integers, Sequences

CONSTANT Provision  \* "none": attach-only; "manual"; "auto": provision.auto

ASSUME ProvisionAssumption == Provision \in {"none", "manual", "auto"}

VARIABLES
  live,    \* the tmux session exists
  status,  \* AgentState.status
  origin,  \* AgentState.origin
  spent,   \* the reviver's budget is consumed
  todo,    \* the steps left of each owner's operation
  saw      \* what its last hasSession answered, and the status read before it

sessVars == <<live, status, origin, spent, todo, saw>>

Owners == {"lane", "admin", "loop"}
Statuses == {"down", "idle", "busy"}

\* The steps of the operations.  A graceful teardown differs from the kill only
\* in how long the session may live on, which no step is bounded by.
Kill == <<"killSession", "toDown">>
Raise == <<"newSession", "toIdle">>
ProvisionOp == IF Provision = "none" THEN <<>> ELSE Raise \o <<"onUp">>
RestartOp == Kill \o ProvisionOp
ReloadOp == Kill \o ProvisionOp
IdleTeardownOp == Kill \o <<"reset">>
ReconcileOp == <<"probe", "settle">>
ReviveOp == <<"probe", "attachOrRaise">>

Steps == {"killSession", "toDown", "newSession", "toIdle", "onUp", "reset", "submit",
          "probe", "settle", "attachOrRaise"}

NoAnswer == [live |-> FALSE, status |-> "down"]

-----------------------------------------------------------------------------
\* canTransition: down cannot become busy.
CanTransition(from, to) ==
  from = to \/ to \in (CASE from = "down" -> {"idle"}
                         [] from = "idle" -> {"busy", "down"}
                         [] from = "busy" -> {"idle", "down"})

Running(o, step) == todo[o] # <<>> /\ Head(todo[o]) = step
Rest(o) == [todo EXCEPT ![o] = Tail(@)]

\* tmux kill-session; a session that is gone already is not an error (kill).
KillSession(o) ==
  /\ Running(o, "killSession")
  /\ live' = FALSE
  /\ todo' = Rest(o)
  /\ UNCHANGED <<status, origin, spent, saw>>

\* tmux refuses and the session is still there: kill throws, and whatever the
\* operation had left to do is not done.
KillSessionFails(o) ==
  /\ Running(o, "killSession")
  /\ live
  /\ todo' = [todo EXCEPT ![o] = <<>>]
  /\ UNCHANGED <<live, status, origin, spent, saw>>

ToDownUnnamed(o) ==
  /\ Running(o, "toDown")
  /\ status' = "gone"
  /\ todo' = Rest(o)
  /\ UNCHANGED <<live, origin, spent, saw>>

\* state.to("down") once tmux has answered: legal from every status.
ToDown(o) ==
  /\ Running(o, "toDown")
  /\ status' = "down"
  /\ todo' = Rest(o)
  /\ UNCHANGED <<live, origin, spent, saw>>

\* provision: tmux new-session.
NewSession(o) ==
  /\ Running(o, "newSession")
  /\ ~live
  /\ live' = TRUE
  /\ todo' = Rest(o)
  /\ UNCHANGED <<status, origin, spent, saw>>

\* It is refused for a duplicate name, or fails for reasons of its own: the
\* operation rejects here and its remaining steps are not run.
NewSessionFails(o) ==
  /\ Running(o, "newSession")
  /\ todo' = [todo EXCEPT ![o] = <<>>]
  /\ UNCHANGED <<live, status, origin, spent, saw>>

\* ... and state.to("idle"), setOrigin("system") once it has answered.
ToIdle(o) ==
  /\ Running(o, "toIdle")
  /\ status' = "idle"
  /\ origin' = "system"
  /\ todo' = Rest(o)
  /\ UNCHANGED <<live, spent, saw>>

\* The operator intervened (onUp), or an idle teardown ended: reviver.reset().
ResetBudget(o) ==
  /\ Running(o, "onUp") \/ Running(o, "reset")
  /\ spent' = FALSE
  /\ todo' = Rest(o)
  /\ UNCHANGED <<live, status, origin, saw>>

\* The await on hasSession; reconcileLiveness read the status before it and
\* leaves a busy session alone.
Probe(o) ==
  /\ Running(o, "probe")
  /\ saw' = [saw EXCEPT ![o] = IF status = "busy" THEN NoAnswer
                              ELSE [live |-> live, status |-> status]]
  /\ todo' = IF status = "busy" THEN [todo EXCEPT ![o] = <<>>] ELSE Rest(o)
  /\ UNCHANGED <<live, status, origin, spent>>

SettleComesUpOnly(o) ==
  LET seen == saw[o]
  IN  /\ Running(o, "settle")
      /\ \/ /\ seen.live /\ seen.status = "down"
            /\ status' = "idle"
            /\ origin' = "external"
         \/ /\ ~(seen.live /\ seen.status = "down")
            /\ UNCHANGED <<status, origin>>
      /\ todo' = Rest(o)
      /\ saw' = [saw EXCEPT ![o] = NoAnswer]
      /\ UNCHANGED <<live, spent>>

\* reconcileLiveness acts on the answer and on the status it had read.
Settle(o) ==
  LET seen == saw[o]
  IN  /\ Running(o, "settle")
      /\ \/ /\ seen.live /\ seen.status = "down"
            /\ status' = "idle"
            /\ origin' = "external"
         \/ /\ ~seen.live /\ seen.status = "idle"
            /\ status' = "down"
            /\ UNCHANGED origin
         \/ /\ seen.live = (seen.status = "idle")
            /\ UNCHANGED <<status, origin>>
      /\ todo' = Rest(o)
      /\ saw' = [saw EXCEPT ![o] = NoAnswer]
      /\ UNCHANGED <<live, spent>>

\* revive: a live session is attached, otherwise one is provisioned.
AttachOrRaise(o) ==
  /\ Running(o, "attachOrRaise")
  /\ IF saw[o].live
       THEN /\ status' = "idle"
            /\ origin' = "external"
            /\ todo' = Rest(o)
       ELSE /\ todo' = [todo EXCEPT ![o] = Raise]
            /\ UNCHANGED <<status, origin>>
  /\ saw' = [saw EXCEPT ![o] = NoAnswer]
  /\ UNCHANGED <<live, spent>>

Step(o) ==
  \/ KillSession(o)
  \/ KillSessionFails(o)
  \/ ToDown(o)
  \/ NewSession(o)
  \/ NewSessionFails(o)
  \/ ToIdle(o)
  \/ ResetBudget(o)
  \/ Probe(o)
  \/ Settle(o)
  \/ AttachOrRaise(o)

-----------------------------------------------------------------------------
\* revive's guard and its budget: consumed by the attempt, not by its success.
CanRevive == ~spent /\ status = "down" /\ Provision # "none"

BeginRevive ==
  /\ spent' = TRUE
  /\ todo' = [todo EXCEPT !["loop"] = ReviveOp]
  /\ UNCHANGED <<live, status, origin, saw>>

\* External: the session dies, or is started by hand, with no call of ours.
SessionDies ==
  /\ live
  /\ live' = FALSE
  /\ UNCHANGED <<status, origin, spent, todo, saw>>

StartedByHand ==
  /\ ~live
  /\ live' = TRUE
  /\ UNCHANGED <<status, origin, spent, todo, saw>>

NoProbe == [o \in Owners |-> NoAnswer]
NoWork == [o \in Owners |-> <<>>]

\* What a server finds when it starts: the attach probe, and with
\* provision.auto one attempt to raise a missing session.
Boot(up) ==
  /\ todo' = NoWork
  /\ saw' = NoProbe
  /\ \/ /\ up
        /\ live' = TRUE /\ status' = "idle" /\ origin' = "external" /\ spent' = FALSE
     \/ /\ ~up /\ Provision # "auto"
        /\ live' = FALSE /\ status' = "down" /\ origin' = "external" /\ spent' = FALSE
     \/ /\ ~up /\ Provision = "auto"
        /\ spent' = TRUE
        /\ \/ live' = TRUE /\ status' = "idle" /\ origin' = "system"
           \/ live' = FALSE /\ status' = "down" /\ origin' = "external"

SessInit ==
  /\ live \in BOOLEAN
  /\ status = IF live THEN "idle" ELSE "down"
  /\ \/ origin = "external" /\ spent = (~live /\ Provision = "auto")
     \/ origin = "system" /\ spent = TRUE /\ live /\ Provision = "auto"
  /\ todo = NoWork
  /\ saw = NoProbe

SessTypeOK ==
  /\ live \in BOOLEAN
  /\ status \in Statuses
  /\ origin \in {"system", "external"}
  /\ spent \in BOOLEAN
  /\ todo \in [Owners -> Seq(Steps)]
  /\ saw \in [Owners -> [live : BOOLEAN, status : Statuses]]
=============================================================================
