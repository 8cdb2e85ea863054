-------------------------------- MODULE MCHub --------------------------------
(***************************************************************************)
(* Small instances of the hub.                                             *)
(***************************************************************************)
EXTENDS Hub, TLC

(* Connections, identifiers and outside callers are interchangeable.       *)
Symmetry ==
  Permutations(Client) \cup Permutations(Sid) \cup Permutations(Caller)

(* With repeated identifiers the session gauge can grow for ever: stop one  *)
(* above what the map can hold.                                            *)
GaugeBounded == activeSessions <= Cardinality(Sid) + 1
=============================================================================
