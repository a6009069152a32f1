-------------------------- MODULE MCWorldSnapshots --------------------------
(* Every event lets the watch thread begin at most one more capture, so the *)
(* ids never run out.                                                        *)
EXTENDS WorldSnapshots

ASSUME EnoughIds == MaxIds > MaxEvents
=============================================================================
