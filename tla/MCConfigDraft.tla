--------------------------- MODULE MCConfigDraft ---------------------------
(* Small instances of ConfigDraft for TLC. *)
EXTENDS ConfigDraft, TLC

CONSTANTS a, b

\* The first world has no WorldOption.sav, the others have one; a draft of an
\* older version edits the password at most.
MCInit ==
  /\ ini = [f \in Fields |-> a]
  /\ world = CHOOSE w \in Worlds : TRUE
  /\ option = [w \in Worlds |-> IF w = world THEN NoFile ELSE ini]
  /\ Init
  /\ \A k \in Kinds, f \in Fields \ {Password} :
       /\ drafts[k] = NoFile \/ drafts[k].updates[f] = NoValue
       /\ oldDraft[k] = NoFile \/ oldDraft[k][f] = a

MCSpec == MCInit /\ [][Next]_vars

MCFairSpec == MCSpec /\ Fairness
=============================================================================
