------------------------ MODULE MCQuestionLifecycle ------------------------
(* Two questions of a lesson and two administrators: while a publication or *)
(* an edit of the one is slow, the other goes through a whole cycle.        *)
EXTENDS QuestionLifecycle, TLC

Symmetry == Permutations(Admins) \cup Permutations(Questions)
=============================================================================
