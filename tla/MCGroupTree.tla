----------------------------- MODULE MCGroupTree -----------------------------
(***************************************************************************)
(* Small instances of the group hierarchy: groups are alike, and so are    *)
(* requests.                                                               *)
(***************************************************************************)
EXTENDS GroupTree, TLC

Symmetry == Permutations(Group) \cup Permutations(Task)
=============================================================================
