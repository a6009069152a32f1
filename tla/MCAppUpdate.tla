---------------------------- MODULE MCAppUpdate ----------------------------
(* Two instances of one installation. *)
EXTENDS AppUpdate
=============================================================================
