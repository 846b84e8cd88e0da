---------------------------- MODULE MCRunLifecycle ----------------------------
(* Small instances of RunLifecycle for TLC. *)
EXTENDS RunLifecycleClaims, TLC

(* Attempt ids, workers and recoverers are interchangeable. *)
Symmetry ==
  Permutations(Attempts) \cup Permutations(Workers) \cup Permutations(Recoverers)
=============================================================================
