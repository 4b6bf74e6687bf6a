---------------------------- MODULE MCDispatcher ----------------------------
(***************************************************************************)
(* Instances of the dispatcher for TLC: two ids, one of them the agent's   *)
(* own schedule.                                                           *)
(***************************************************************************)
EXTENDS Dispatcher

CONSTANTS alice, self

MCIds == {alice, self}
MCSelfIds == {self}
MCOneId == {alice}
MCNoSelf == {}

AllKinds == {"kill", "lifecycle", "outOfBand", "render", "pause", "retention",
             "edit", "stop", "crash", "idle"}
LiveKinds == {"kill", "lifecycle", "outOfBand", "render", "pause", "retention", "edit", "crash"}
ReloadOnly == {"lifecycle"}
KillOnly == {"kill"}
=============================================================================
