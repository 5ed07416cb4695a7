--------------------------- MODULE MCControlLease ---------------------------
(* A small instance of ControlLease that keeps the order of the renewal     *)
(* period, the age limit and the lease: 25 s, 30 s and 300 s.              *)
EXTENDS ControlLease

TwoSkews == {0, -2}
=============================================================================
