------------------------------ MODULE MCRestore ------------------------------
(* Small instances of Restore for TLC. *)
EXTENDS Restore

CONSTANTS v1, v2

\* Two worlds that differ in every component, and one that shares a component
\* with the first, so that a restore finds it in place already.
MCGameWorlds == {<<v1, v1, v1>>, <<v2, v2, v2>>, <<v1, v2, v2>>}

\* Two worlds are enough where only the outcome of one restore matters.
MCTwoWorlds == {<<v1, v1, v1>>, <<v1, v2, v2>>}
=============================================================================
