----------------------------- MODULE MCAgentPlane -----------------------------
(***************************************************************************)
(* Two shims of one agent for TLC, with a supervisor each; one has a call. *)
(***************************************************************************)
EXTENDS AgentPlane

CONSTANTS s1, s2, c1, k1, k2

MCShimOf == [c \in {c1, k1, k2} |-> IF c = k2 THEN s2 ELSE s1]
===============================================================================
