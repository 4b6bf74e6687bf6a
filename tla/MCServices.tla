------------------------------ MODULE MCServices ------------------------------
(***************************************************************************)
(* The services of one server for TLC.  They share no state: a behaviour   *)
(* exercises one of them while the others have nothing to do.              *)
(***************************************************************************)
EXTENDS Exchange, Outbox, Schedules, Routines, Gates, Alarms, History, Surface, Blobs, MCConfig

CONSTANTS toAdmins, toPeer, peer, adm1, adm2, team, ask, ans, note, idle, sat, hub, up, down, pic, p1, p2

MCTargets == [c \in {toAdmins, toPeer} |-> IF c = toPeer THEN {peer} ELSE {adm1, adm2}]
MCKind == <<"lane", "quiet">>

\* A peer, a person who writes to the team, and the agent's own scheduled items.
MCPlan ==
  [c \in Callers |->
     CASE c = "peer"   -> [from |-> peer, to |-> adm1, exempt |-> FALSE, own |-> FALSE]
       [] c = "person" -> [from |-> adm2, to |-> team, exempt |-> FALSE, own |-> FALSE]
       [] OTHER        -> [from |-> adm1, to |-> adm1, exempt |-> TRUE, own |-> TRUE]]
MCMembers == [t \in {team} |-> {adm1, adm2}]
MCEdges == {<<peer, adm1>>, <<adm2, team>>}
MCLimit == [r \in {adm1, adm2} |-> IF r = adm1 THEN 1 ELSE 0]
MCCalls == [c \in Callers |-> IF c = "peer" THEN 3 ELSE 1]

MCReplyTo == [a \in {ans} |-> ask]
MCTopicOf == [q \in {ask} |-> note]

\* The satellite's actors reach a third server through the hub, which accepts the one
\* link and opens the other.
MCFrom == [f \in {up, down} |-> IF f = up THEN sat ELSE hub]
MCTo == [f \in {up, down} |-> IF f = up THEN hub ELSE peer]

MCRefTo == [r \in {p1, p2} |-> pic]
MCQueueNo == [r \in {p1, p2} |-> IF r = p1 THEN 1 ELSE 2]

VARIABLE focus  \* the service that a behaviour exercises

\* A service of which something must happen is quiet when it is not exercised.
ServicesInit ==
  /\ focus \in {"exchange", "outbox", "schedules", "routines", "gates", "alarms", "history",
               "surface", "blobs", "config"}
  /\ IF focus = "exchange" THEN ExStart ELSE ExQuiet
  /\ IF focus = "outbox" THEN ObStart ELSE ObQuiet
  /\ IF focus = "schedules" THEN ScStart ELSE ScQuiet
  /\ IF focus = "routines" THEN RoStart ELSE RoQuiet
  /\ IF focus = "surface" THEN SuStart ELSE SuQuiet
  /\ IF focus = "config" THEN CfStart ELSE CfQuiet
  /\ GaStart /\ AlStart /\ HiStart /\ BlStart
  /\ truth = idle  \* the statuses are alike: the first is any one

ServicesNext ==
  \/ /\ focus = "exchange" /\ ExNext
     /\ UNCHANGED <<focus, obVars, scVars, roVars, gaVars, alVars, hiVars, suVars, blVars, cfVars>>
  \/ /\ focus = "outbox" /\ ObNext
     /\ UNCHANGED <<focus, exVars, scVars, roVars, gaVars, alVars, hiVars, suVars, blVars, cfVars>>
  \/ /\ focus = "schedules" /\ ScNext
     /\ UNCHANGED <<focus, exVars, obVars, roVars, gaVars, alVars, hiVars, suVars, blVars, cfVars>>
  \/ /\ focus = "routines" /\ RoNext
     /\ UNCHANGED <<focus, exVars, obVars, scVars, gaVars, alVars, hiVars, suVars, blVars, cfVars>>
  \/ /\ focus = "gates" /\ GaNext
     /\ UNCHANGED <<focus, exVars, obVars, scVars, roVars, alVars, hiVars, suVars, blVars, cfVars>>
  \/ /\ focus = "alarms" /\ AlNext
     /\ UNCHANGED <<focus, exVars, obVars, scVars, roVars, gaVars, hiVars, suVars, blVars, cfVars>>
  \/ /\ focus = "history" /\ HiNext
     /\ UNCHANGED <<focus, exVars, obVars, scVars, roVars, gaVars, alVars, suVars, blVars, cfVars>>
  \/ /\ focus = "surface" /\ SuNext
     /\ UNCHANGED <<focus, exVars, obVars, scVars, roVars, gaVars, alVars, hiVars, blVars, cfVars>>
  \/ /\ focus = "blobs" /\ BlNext
     /\ UNCHANGED <<focus, exVars, obVars, scVars, roVars, gaVars, alVars, hiVars, suVars, cfVars>>
  \/ /\ focus = "config" /\ CfNext
     /\ UNCHANGED <<focus, exVars, obVars, scVars, roVars, gaVars, alVars, hiVars, suVars, blVars>>

\* ExFair, ObFair, ScFair, RoFair and SuFair, each asked of its service when that is
\* exercised: fairness asks nothing of a service that is quiet.
ServicesFair ==
  /\ WF_exVars(focus = "exchange" /\ TurnNext)
  /\ WF_exVars(focus = "exchange" /\ SweepNext)
  /\ WF_exVars(focus = "exchange" /\ \E m \in Msgs : Ages(m))
  /\ WF_obVars(focus = "outbox" /\ MonitorNext)
  /\ WF_scVars(focus = "schedules" /\ TickNext)
  /\ WF_scVars(focus = "schedules" /\ PenNext)
  /\ WF_scVars(focus = "schedules" /\ ClockTicks)
  /\ WF_roVars(focus = "routines" /\ RoutineLoop)
  /\ WF_suVars(focus = "surface" /\ LinkNext)
  /\ WF_suVars(focus = "surface" /\ PublisherNext)
  /\ WF_cfVars(focus = "config" /\ CfNext)

ServicesSpec ==
  /\ ServicesInit
  /\ [][ServicesNext]_<<focus, exVars, obVars, scVars, roVars, gaVars, alVars, hiVars, suVars, blVars, cfVars>>
  /\ ServicesFair

\* What is not exercised keeps the value it started with.
ServicesTypeOK ==
  CASE focus = "exchange" -> ExTypeOK
    [] focus = "outbox" -> ObTypeOK
    [] focus = "schedules" -> ScTypeOK
    [] focus = "routines" -> RoTypeOK
    [] focus = "gates" -> GaTypeOK
    [] focus = "alarms" -> AlTypeOK
    [] focus = "history" -> HiTypeOK
    [] focus = "surface" -> SuTypeOK
    [] focus = "blobs" -> BlTypeOK
    [] focus = "config" -> CfTypeOK
===============================================================================
