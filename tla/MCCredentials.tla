--------------------------- MODULE MCCredentials ---------------------------
(* A small instance of Credentials: two instances on one file, one device. *)
EXTENDS Credentials

OneConfig == {[account |-> "a", password |-> "old"]}
=============================================================================
