------------------------------- MODULE MCHosts -------------------------------
(***************************************************************************)
(* Small instances of the hosts of a user.                                 *)
(***************************************************************************)
EXTENDS Hosts

Symmetry == Permutations(Host) \cup Permutations(Request) \cup Permutations(Port)

Busy == Cardinality({r \in Request : task[r].at # "idle"})

(* The columns of a host that are not as it was created.                   *)
Set(h) == {f \in DOMAIN Unborn \ {"state"} : table[h][f] # Unborn[f]}

(* Bound: three hosts or names, only while no request is in progress; a    *)
(* client walks only while there is one at most, about what the list shows, *)
(* and hosts are as it shows them; two are in progress only about the      *)
(* first host there ever is.  A host has one column set at a time, and one *)
(* host at most another than its name.                                     *)
Listed == {"name", "favorite"}

Focus ==
  /\ Cardinality(Live) > 2 \/ (\E h \in Host : table[h].name > 2) => Busy = 0
  /\ walk.at # "idle" =>
       /\ Busy <= 1 /\ \A r \in Request : task[r].field \in Listed \cup {"none"}
       /\ On(Host) = {} /\ groups = Group /\ \A h \in Host : Set(h) \subseteq Listed
  /\ Busy = 2 => Cardinality({h \in Host : table[h].state # "new"}) <= 1
  /\ \A h \in Host : Cardinality(Set(h)) <= 1
  /\ Cardinality({h \in Host : Set(h) \ {"name"} # {}}) <= 1
=============================================================================
