------------------------------ MODULE MCAgentLoops ------------------------------
(***************************************************************************)
(* The loops of one agent for TLC: the dispatcher that gives it its turns, *)
(* the driver that types them and tells when they are over, and the shims  *)
(* through which it calls the server.  They share no state: a behaviour    *)
(* exercises one of them.                                                  *)
(***************************************************************************)
EXTENDS MCDispatcher, MCAgentPlane, Driver

VARIABLE focus  \* what a behaviour exercises

LoopsInit ==
  /\ focus \in {"dispatcher", "plane", "driver"}
  /\ Init /\ ApStart /\ DrStart
  /\ focus # "dispatcher" => status = "down" /\ ~live
  /\ focus # "driver" => cli = [runtime |-> "codex", up |-> TRUE, boots |-> FALSE, own |-> FALSE, hook |-> FALSE,
                                paste |-> FALSE]

LoopsNext ==
  \/ focus = "dispatcher" /\ Next /\ UNCHANGED <<focus, apVars, drVars>>
  \/ focus = "plane" /\ ApNext /\ UNCHANGED <<focus, vars, drVars>>
  \/ focus = "driver" /\ DrNext /\ UNCHANGED <<focus, vars, apVars>>

\* Fairness, ApFair and DrFair, each asked of the loop that is exercised.
LoopsFair ==
  /\ WF_vars(focus = "dispatcher" /\ LoopNext)
  /\ SF_vars(focus = "dispatcher" /\ Drained)
  /\ WF_vars(focus = "dispatcher" /\ AdminStep)
  /\ WF_vars(focus = "dispatcher" /\ RestartSubmits)
  /\ WF_vars(focus = "dispatcher" /\ \E r \in tmp : Deliver(r))
  /\ WF_vars(focus = "dispatcher" /\ SweepLiveness)
  /\ WF_apVars(focus = "plane" /\ ShimNext)
  /\ WF_apVars(focus = "plane" /\ ServerNext)
  /\ WF_apVars(focus = "plane" /\ Supervise)
  /\ WF_drVars(focus = "driver" /\ DriverLooks)
  /\ WF_drVars(focus = "driver" /\ PollDown)
  /\ WF_drVars(focus = "driver" /\ CliMovesOn)

LoopsSpec == LoopsInit /\ [][LoopsNext]_<<focus, vars, apVars, drVars>> /\ LoopsFair
===============================================================================
