------------------------- MODULE MC_EscrowHistory -------------------------
(* EscrowHistory on an instance small enough for TLC.                      *)
EXTENDS EscrowHistory, TLC

(* No definition tells one user, or one rfq id, from another.              *)
Symmetry == Permutations(Users) \cup Permutations(RfqIds)
===========================================================================
