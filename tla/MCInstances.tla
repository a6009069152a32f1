---------------------------- MODULE MCInstances ----------------------------
(* Two consoles and two servers, with arguments that share no port. *)
EXTENDS Instances, TLC
CONSTANTS e1, e2, w1, w2, c1, c2
MCConsoles == {c1, c2}
MCTargets == {w1, w2}
MCInstall == w1 :> e1 @@ w2 :> e2
MCPorts == {8211, 8212}
MCArguments == {{8211}, {8212}}
(* The consoles may be swapped, and so may the servers. *)
MCServers == w1 :> w2 @@ w2 :> w1 @@ e1 :> e2 @@ e2 :> e1
MCSymmetry == Permutations(MCConsoles) \union {MCServers}
=============================================================================
