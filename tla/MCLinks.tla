-------------------------------- MODULE MCLinks --------------------------------
(***************************************************************************)
(* What goes between servers, and the rendezvous of one of their agents,   *)
(* for TLC.  The two share no state: a behaviour exercises one of them.    *)
(***************************************************************************)
EXTENDS MCFederation, MCRendezvous

\* The plan is one of those that NothingIsLostSilently (FederationProofs) is about.
ASSUME LinksPlan == OwnNames /\ NoLinkTwice

VARIABLE focus  \* what a behaviour exercises

LinksInit ==
  /\ focus \in {"federation", "rendezvous"}
  /\ Init /\ RvInit
  /\ focus = "rendezvous" => refusing = {}

LinksNext ==
  \/ focus = "federation" /\ Next /\ UNCHANGED <<focus, rvVars>>
  \/ focus = "rendezvous" /\ RvNext /\ UNCHANGED <<focus, vars>>

\* Both start at rest: fairness asks nothing of the one that is not exercised.
LinksFair ==
  /\ WF_vars(focus = "federation" /\ ((\E p \in Sides : Answering(p)) \/ (\E h \in handlers : HandlerNext(h))))
  /\ WF_vars(focus = "federation" /\ \E p \in Sides : Push(p))
  /\ WF_vars(focus = "federation" /\ UNCHANGED faults /\ \E p \in Sides : AckTimeout(p))
  /\ WF_vars(focus = "federation" /\ UNCHANGED faults /\ \E p \in Sides : StaleClose(p) \/ Close(p))
  /\ WF_rvVars(focus = "rendezvous" /\ TickNext)
  /\ SF_rvVars(focus = "rendezvous" /\ TickBegins(TRUE))
  /\ SF_rvVars(focus = "rendezvous" /\ NotPending(TRUE))
  /\ WF_rvVars(focus = "rendezvous" /\ FlushNext)
  /\ WF_rvVars(focus = "rendezvous" /\ Elapse)
  /\ \A t \in Targets : WF_rvVars(focus = "rendezvous" /\ Take(t))

LinksSpec == LinksInit /\ [][LinksNext]_<<focus, vars, rvVars>> /\ LinksFair

\* What is not exercised keeps the value it started with.
LinksTypeOK == IF focus = "federation" THEN FedTypeOK ELSE RvTypeOK
===============================================================================
