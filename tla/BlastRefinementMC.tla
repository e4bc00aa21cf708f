------------------------- MODULE BlastRefinementMC -------------------------
(* BlastMC's instances with the refinement in scope. *)
EXTENDS BlastMC, BlastRefinement
=============================================================================
