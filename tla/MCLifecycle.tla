----------------------------- MODULE MCLifecycle -----------------------------
(* Instances of ElectionLifecycle for TLC. *)
EXTENDS ElectionLifecycle, TLC

\* PATCH requests are interchangeable.
AdminSymmetry == Permutations(Patches)
=============================================================================
