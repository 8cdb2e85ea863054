----------------------------- MODULE MCApiSession -----------------------------
(***************************************************************************)
(* Small instances of a session row: requests and users are alike.         *)
(***************************************************************************)
EXTENDS ApiSession, TLC

Symmetry == Permutations(Request) \cup Permutations(User)

(* Bound: a session that is or was shared is not reported about, and the   *)
(* other way round.                                                        *)
Focus == reported = 0 \/ (row.shared = {} /\ \A r \in Request : at[r] # "sharing")
==============================================================================
