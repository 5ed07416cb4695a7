----------------------------- MODULE MCGateway -----------------------------
(* Socket x1 belongs to device x: a host that can tell the failure of a    *)
(* connection from its own (m), one that cannot (g), two clients (a, b).   *)
EXTENDS Gateway, TLC

CONSTANTS m, g, a, b, m1, g1, a1, a2, b1

(* The device of each socket of the instance. *)
MCDevOf ==
    [s \in Sock |-> CASE s = m1 -> m [] s = g1 -> g [] s \in {a1, a2} -> a [] s = b1 -> b]
=============================================================================
