------------------------------ MODULE MCLobby ------------------------------
(***************************************************************************)
(* Lobby for TLC.  The threads are alike, so a run that checks no liveness *)
(* property may take them up to a permutation.                             *)
(***************************************************************************)
EXTENDS Lobby, TLC

Symmetry == Permutations(Threads)
=============================================================================
