---------------------------- MODULE AtomicRestore ----------------------------
(***************************************************************************)
(* What "restore a backup" promises to the owner of the world: from the    *)
(* moment it begins to the moment it is over nobody uses the world, and    *)
(* when it is over the world is either the backup or exactly what it was.  *)
(***************************************************************************)
CONSTANT Worlds

VARIABLES
  visible,  \* the world a server would load
  busy,     \* a restore has begun and is neither completed nor rolled back
  goal      \* the backup it restores

vars == <<visible, busy, goal>>

Init ==
  /\ visible \in Worlds
  /\ busy = FALSE
  /\ goal \in Worlds

Begin ==
  /\ ~busy
  /\ busy' = TRUE
  /\ goal' \in Worlds
  /\ UNCHANGED visible

Complete ==
  /\ busy
  /\ visible' = goal
  /\ busy' = FALSE
  /\ UNCHANGED goal

Abandon ==
  /\ busy
  /\ busy' = FALSE
  /\ UNCHANGED <<visible, goal>>

Play ==
  /\ ~busy
  /\ visible' \in Worlds
  /\ UNCHANGED <<busy, goal>>

Next == Begin \/ Complete \/ Abandon \/ Play

Spec == Init /\ [][Next]_vars
=============================================================================
