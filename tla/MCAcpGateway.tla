---------------------------- MODULE MCAcpGateway ----------------------------
(* Two connections of one backend whose budget is a single retry.          *)
EXTENDS AcpGateway
=============================================================================
