----------------------------- MODULE MCAccount -----------------------------
(***************************************************************************)
(* Small instances of an account: requests, passwords, secrets and         *)
(* challenges are each alike.                                              *)
(***************************************************************************)
EXTENDS Account, TLC

Symmetry == Permutations(Request) \cup Permutations(Password)
              \cup Permutations(Secret) \cup Permutations(Challenge)
=============================================================================
