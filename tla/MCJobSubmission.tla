--------------------------- MODULE MCJobSubmission ---------------------------
(* Model checking of JobSubmission: calls and keys are interchangeable.     *)
EXTENDS JobSubmission, TLC

Symmetry == Permutations(Calls) \cup Permutations(Keys)
=============================================================================
