----------------------------- MODULE MCLifecycle -----------------------------
(* Small instances of Lifecycle for TLC. *)
EXTENDS Lifecycle, TLC

\* Idempotency keys and process ids are interchangeable; not used for liveness.
Symmetry == Permutations(Keys) \union Permutations(Pids)
=============================================================================
