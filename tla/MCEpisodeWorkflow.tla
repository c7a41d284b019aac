------------------------- MODULE MCEpisodeWorkflow -------------------------
(***************************************************************************)
(* Two requests in flight are enough for one to save over the other.       *)
(***************************************************************************)
EXTENDS EpisodeWorkflow, TLC

Symmetry == Permutations(Requests)
=============================================================================
