------------------------- MODULE MCMistakeNotebook -------------------------
(* One mistake, reviewed by up to three requests at a time. *)
EXTENDS MistakeNotebook, TLC

Symmetry == Permutations(Reviewers)
=============================================================================
