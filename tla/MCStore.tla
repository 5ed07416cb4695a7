------------------------------ MODULE MCStore ------------------------------
(* A small instance of Store: two devices, of which the table may hold one  *)
(* or both; the operator may change the account or the password and change  *)
(* it back.                                                                 *)
EXTENDS Store, TLC

Reconfigured == {[account |-> "a", password |-> "old"], [account |-> "a", password |-> "new"],
                 [account |-> "b", password |-> "old"]}
Symmetry == Permutations(Devices)
=============================================================================
