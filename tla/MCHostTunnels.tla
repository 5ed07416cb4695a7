--------------------------- MODULE MCHostTunnels ---------------------------
(* Small instances of HostTunnels for TLC. *)
EXTENDS HostTunnels

CONSTANTS c1, c2, p1, p2

SamePeerOf == [c \in {c1, c2} |-> p1]
OtherPeerOf == [c \in {c1, c2} |-> IF c = c1 THEN p1 ELSE p2]
=============================================================================
