----------------------------- MODULE MCSession ------------------------------
(* The lifecycle on small instances; one cfg per question.                 *)
EXTENDS SessionLifecycle, TLC

Symmetry == Permutations(Calls) \cup Permutations(Sessions)
=============================================================================
