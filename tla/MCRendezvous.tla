---------------------------- MODULE MCRendezvous ----------------------------
(***************************************************************************)
(* Instances of the rendezvous of one sender for TLC.                      *)
(***************************************************************************)
EXTENDS Rendezvous

CONSTANTS bob, carol

MCOne == {bob}
MCTwo == {bob, carol}

AllKinds == {"refuse", "answer", "pause", "disk", "slow", "crash"}
RefuseAndSlow == {"refuse", "slow"}
=============================================================================
