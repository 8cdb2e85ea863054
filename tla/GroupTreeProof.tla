---------------------------- MODULE GroupTreeProof ----------------------------
(***************************************************************************)
(* Circles of GroupTree for any set of groups and any number of requests.  *)
(* A move that nothing disturbed puts a group without children somewhere.  *)
(* Taking it out of a set that parents do not lead out of leaves such a    *)
(* set, which was there before the move and has a loose group already.     *)
(***************************************************************************)
EXTENDS GroupTree, Naturals, TLAPS

(* A move that is about to be committed knows whether its group has        *)
(* children.                                                               *)
MoveInv ==
  \A t \in Task :
    task[t].at = "moving" /\ ~task[t].gained /\ task[t].to # None
      => Children(task[t].group) = {}

Inv == TypeOK /\ ParentLive /\ MoveInv /\ CirclesExplained

LEMMA InitInv == Init => Inv
<1> SUFFICES ASSUME Init PROVE Inv
  OBVIOUS
<1> USE DEF Init
<1>1. TypeOK
  BY DEF TypeOK, Idle, At, Work
<1>2. ParentLive /\ CirclesExplained
  BY DEF ParentLive, CirclesExplained, Circle
<1>3. MoveInv
  BY DEF MoveInv, Idle
<1> QED
  BY <1>1, <1>2, <1>3 DEF Inv

(* Steps that leave the table alone: what remains is the requests.         *)
LEMMA TableSame ==
  ASSUME ParentLive, CirclesExplained, UNCHANGED <<live, parent, loose>>
  PROVE  ParentLive' /\ CirclesExplained'
BY DEF ParentLive, CirclesExplained, Circle

(* What a move learns changes nothing else.                                *)
LEMMA NoticedOnly ==
  ASSUME TypeOK, NEW p, NEW t \in Task
  PROVE  /\ Noticed(p)[t] \in Work
         /\ Noticed(p)[t].at = task[t].at
         /\ Noticed(p)[t].group = task[t].group
         /\ Noticed(p)[t].to = task[t].to
         /\ Noticed(p)[t].at = "moving" /\ Noticed(p)[t].gained = FALSE
              => task[t].gained = FALSE /\ task[t].group # p
<1>1. task[t] \in Work
  BY DEF TypeOK
<1>2. CASE task[t].at = "moving" /\ task[t].group = p
  <2>1. Noticed(p)[t] = [task[t] EXCEPT !.gained = TRUE]
    BY <1>2 DEF Noticed
  <2> QED
    BY <1>1, <1>2, <2>1 DEF Work
<1>3. CASE ~(task[t].at = "moving" /\ task[t].group = p)
  <2>1. Noticed(p)[t] = task[t]
    BY <1>3 DEF Noticed
  <2> QED
    BY <1>1, <1>3, <2>1
<1> QED
  BY <1>2, <1>3

(* A checked move that hears nothing of the new child of p is not of p.    *)
LEMMA NoticedMoveInv ==
  ASSUME TypeOK, MoveInv, NEW p, NEW t \in Task,
         Noticed(p)[t].at = "moving", ~Noticed(p)[t].gained, Noticed(p)[t].to # None
  PROVE  /\ Noticed(p)[t].group # p
         /\ \A c \in live : parent[c] # Noticed(p)[t].group
<1>1. Noticed(p)[t] \in Work
  BY NoticedOnly
<1>2. Noticed(p)[t].gained = FALSE
  BY <1>1 DEF Work
<1>3. task[t].at = "moving" /\ task[t].to # None
  BY NoticedOnly
<1>4. task[t].gained = FALSE /\ task[t].group # p
  BY <1>2, NoticedOnly
<1>5. Children(task[t].group) = {}
  BY <1>3, <1>4 DEF MoveInv
<1>6. Noticed(p)[t].group = task[t].group
  BY NoticedOnly
<1> QED
  BY <1>4, <1>5, <1>6 DEF Children

LEMMA CreateStep ==
  ASSUME Inv, NEW g \in Group, NEW p \in Group \cup {None}, Create(g, p)
  PROVE  Inv'
<1> USE TreeAssumption DEF Inv, Create
<1>1. TypeOK'
  <2>1. task' \in [Task -> Work]
    BY NoticedOnly DEF TypeOK, Noticed
  <2>2. \A t \in Task : task'[t].at = task[t].at /\ task'[t].group = task[t].group
    BY NoticedOnly
  <2> QED
    BY <2>1, <2>2 DEF TypeOK
<1>2. ParentLive'
  BY DEF TypeOK, ParentLive
<1>3. \A c \in live : parent[c] # g
  BY DEF TypeOK, ParentLive
<1>4. MoveInv'
  <2> SUFFICES ASSUME NEW t \in Task, task'[t].at = "moving", ~task'[t].gained,
                      task'[t].to # None
               PROVE  \A c \in live' : parent'[c] # task'[t].group
    BY DEF MoveInv, Children
  <2>1. task' = Noticed(p)
    OBVIOUS
  <2>2. task'[t].group # p
    BY <2>1, NoticedMoveInv
  <2>3. \A c \in live : parent[c] # task'[t].group
    BY <2>1, NoticedMoveInv
  <2> QED
    BY <2>2, <2>3 DEF TypeOK
<1>5. CirclesExplained'
  <2> SUFFICES ASSUME NEW S \in SUBSET live', Circle(S)'
               PROVE  S \cap loose # {}
    BY DEF CirclesExplained
  <2>1. S \ {g} \in SUBSET live
    OBVIOUS
  <2>2. \A c \in S \ {g} : parent[c] \in S \ {g}
    BY <1>3 DEF Circle, TypeOK
  <2>3. S # {g}
    BY DEF Circle, TypeOK
  <2>4. Circle(S \ {g})
    BY <2>2, <2>3 DEF Circle
  <2> QED
    BY <2>1, <2>4 DEF CirclesExplained
<1> QED
  BY <1>1, <1>2, <1>4, <1>5

LEMMA LoadStep ==
  ASSUME Inv, NEW t \in Task, NEW g \in Group, NEW p \in Group \cup {None},
         NEW place \in At \ {"moving"}, NEW kids \in SUBSET Group,
         Load(t, g, place, p, kids)
  PROVE  Inv'
<1> USE DEF Inv, Load
<1>1. TypeOK'
  BY DEF TypeOK, Work
<1>2. MoveInv'
  BY DEF TypeOK, MoveInv, Children
<1> QED
  BY <1>1, <1>2, TableSame

LEMMA QuitStep ==
  ASSUME Inv, NEW t \in Task, Quit(t)
  PROVE  Inv'
<1> USE DEF Inv, Quit, Idle
<1>1. TypeOK'
  BY DEF TypeOK, At, Work
<1>2. MoveInv'
  BY DEF TypeOK, MoveInv, Children
<1> QED
  BY <1>1, <1>2, TableSame

LEMMA CheckStep ==
  ASSUME Inv, NEW t \in Task, Check(t)
  PROVE  Inv'
<1> USE DEF Inv, Check
<1>1. TypeOK'
  BY DEF TypeOK, At, Work
<1>2. MoveInv'
  BY DEF TypeOK, MoveInv, Children
<1> QED
  BY <1>1, <1>2, TableSame

(* A group that a move puts below another, undisturbed, has no children.   *)
LEMMA StoreStep ==
  ASSUME Inv, NEW t \in Task, NEW unchecked \in BOOLEAN, Store(t, unchecked),
         task[t].at # "idle",
         ~unchecked /\ task[t].to # None =>
           Children(task[t].group) = {} /\ task[t].to # task[t].group
  PROVE  Inv'
<1> DEFINE g == task[t].group
           p == task[t].to
<1> USE TreeAssumption DEF Inv
<1>1. CASE p # None \/ task[t].had # None
  <2>1. /\ g \in live /\ p \in live \cup {None}
        /\ parent' = [parent EXCEPT ![g] = p]
        /\ loose' = IF unchecked /\ p # None THEN loose \cup {g} ELSE loose \ {g}
        /\ task' = [Noticed(p) EXCEPT ![t] = Idle]
        /\ live' = live /\ gone' = gone
    BY <1>1 DEF Store
  <2>2. \A u \in Task : task'[u] = IF u = t THEN Idle ELSE Noticed(p)[u]
    BY <2>1 DEF Noticed
  <2>3. TypeOK'
    <3>1. Idle \in Work
      BY DEF Idle, Work, At
    <3>2. task' \in [Task -> Work]
      BY <2>1, <3>1, NoticedOnly DEF TypeOK, Noticed
    <3>3. ASSUME NEW u \in Task, task'[u].at # "idle"
          PROVE  task'[u].group = task[u].group /\ task[u].at # "idle"
      <4>1. task'[u] = Noticed(p)[u]
        BY <2>2, <3>3 DEF Idle
      <4>2. Noticed(p)[u].group = task[u].group /\ Noticed(p)[u].at = task[u].at
        BY NoticedOnly
      <4> QED
        BY <3>3, <4>1, <4>2
    <3> QED
      BY <2>1, <3>2, <3>3 DEF TypeOK
  <2>4. ParentLive'
    BY <2>1 DEF TypeOK, ParentLive
  <2>5. MoveInv'
    <3> SUFFICES ASSUME NEW u \in Task, task'[u].at = "moving", ~task'[u].gained,
                        task'[u].to # None
                 PROVE  \A c \in live : parent'[c] # task'[u].group
      BY <2>1 DEF MoveInv, Children
    <3>1. u # t /\ task'[u] = Noticed(p)[u]
      BY <2>2 DEF Idle
    <3>2. task'[u].group # p
      BY <3>1, NoticedMoveInv
    <3>3. \A c \in live : parent[c] # task'[u].group
      BY <3>1, NoticedMoveInv
    <3> QED
      BY <2>1, <3>2, <3>3 DEF TypeOK
  <2>6. CirclesExplained'
    <3> SUFFICES ASSUME NEW S \in SUBSET live, Circle(S)'
                 PROVE  S \cap loose' # {}
      BY <2>1 DEF CirclesExplained
    <3>1. \A c \in S \ {g} : parent[c] \in S
      BY <2>1 DEF Circle, TypeOK
    <3>2. CASE g \notin S
      BY <2>1, <3>1, <3>2 DEF CirclesExplained, Circle
    <3>3. CASE g \in S
      <4>1. p \in S /\ p # None
        BY <2>1, <3>3 DEF Circle, TypeOK
      <4>2. CASE unchecked
        BY <2>1, <3>3, <4>1, <4>2
      <4>3. CASE ~unchecked
        <5>1. \A c \in S \ {g} : parent[c] \in S \ {g}
          BY <3>1, <4>1, <4>3 DEF Children
        <5>2. Circle(S \ {g})
          BY <4>1, <4>3, <5>1 DEF Circle
        <5> QED
          BY <2>1, <5>2 DEF CirclesExplained
      <4> QED
        BY <4>2, <4>3
    <3> QED
      BY <3>2, <3>3
  <2> QED
    BY <2>3, <2>4, <2>5, <2>6
<1>2. CASE ~(p # None \/ task[t].had # None)
  <2>1. task' = [task EXCEPT ![t] = Idle] /\ UNCHANGED <<live, gone, parent, loose>>
    BY <1>2 DEF Store
  <2>2. TypeOK'
    BY <2>1 DEF TypeOK, Idle, At, Work
  <2>3. MoveInv'
    BY <2>1 DEF TypeOK, MoveInv, Children, Idle
  <2> QED
    BY <2>1, <2>2, <2>3, TableSame
<1> QED
  BY <1>1, <1>2

LEMMA DeleteStep ==
  ASSUME Inv, NEW t \in Task, Delete(t)
  PROVE  Inv'
<1> DEFINE g == task[t].group
           kids == task[t].kids
           off == kids \cup {g}
<1> USE TreeAssumption DEF Inv
<1>1. /\ kids \subseteq live /\ Children(g) \subseteq kids
      /\ live' = live \ {g} /\ gone' = gone \cup {g}
      /\ parent' = [c \in Group |-> IF c \in off THEN None ELSE parent[c]]
      /\ loose' = loose \ off
      /\ task' = [task EXCEPT ![t] = Idle]
      /\ task[t].at = "deleting"
  BY DEF Delete
<1>2. TypeOK'
  <2>1. Idle \in Work
    BY DEF Idle, Work, At
  <2>2. task' \in [Task -> Work]
    BY <1>1, <2>1 DEF TypeOK
  <2>3. parent' \in [Group -> Group \cup {None}]
    BY <1>1 DEF TypeOK
  <2>4. g \in live \cup gone
    BY <1>1 DEF TypeOK
  <2>5. \A u \in Task : task'[u].at # "idle" => task'[u] = task[u]
    BY <1>1 DEF TypeOK, Idle
  <2> QED
    BY <1>1, <2>2, <2>3, <2>4, <2>5 DEF TypeOK
<1>3. ParentLive'
  BY <1>1 DEF TypeOK, ParentLive, Children
<1>4. MoveInv'
  <2> SUFFICES ASSUME NEW u \in Task, task'[u].at = "moving", ~task'[u].gained,
                      task'[u].to # None
               PROVE  \A c \in live' : parent'[c] # task'[u].group
    BY DEF MoveInv, Children
  <2>1. task'[u] = task[u] /\ task[u].at = "moving" /\ task[u].group # None
    BY <1>1 DEF TypeOK, Idle
  <2>2. \A c \in live : parent[c] # task[u].group
    BY <2>1 DEF MoveInv, Children
  <2> QED
    BY <1>1, <2>1, <2>2 DEF TypeOK
<1>5. CirclesExplained'
  <2> SUFFICES ASSUME NEW S \in SUBSET live', Circle(S)'
               PROVE  S \cap loose' # {}
    BY DEF CirclesExplained
  <2>1. S \cap off = {}
    BY <1>1 DEF Circle, TypeOK
  <2>2. S \in SUBSET live /\ Circle(S)
    BY <1>1, <2>1 DEF Circle, TypeOK
  <2> QED
    BY <1>1, <2>1, <2>2 DEF CirclesExplained
<1> QED
  BY <1>2, <1>3, <1>4, <1>5

LEMMA InvStep == Inv /\ [Next]_vars => Inv'
<1> SUFFICES ASSUME Inv, [Next]_vars PROVE Inv'
  OBVIOUS
<1>1. ASSUME NEW g \in Group, NEW p \in Group \cup {None}, Create(g, p) PROVE Inv'
  BY <1>1, CreateStep
<1>2. ASSUME NEW t \in Task, NEW g \in Group, NEW p \in Group \cup {None},
             LoadUpdate(t, g, p) \/ LoadMove(t, g, p)
      PROVE  Inv'
  BY <1>2, LoadStep DEF LoadUpdate, LoadMove, At
<1>3. ASSUME NEW t \in Task, NEW g \in Group, LoadDelete(t, g) PROVE Inv'
  <2>1. Children(g) \in SUBSET Group
    BY DEF Children, Inv, TypeOK
  <2> QED
    BY <1>3, <2>1, LoadStep DEF LoadDelete, At
<1>4. ASSUME NEW t \in Task, Update(t) PROVE Inv'
  BY <1>4, StoreStep DEF Update
<1>5. ASSUME NEW t \in Task, Check(t) PROVE Inv'
  BY <1>5, CheckStep
<1>6. ASSUME NEW t \in Task, Move(t) PROVE Inv'
  <2> DEFINE bad == task[t].gained \/ task[t].to = task[t].group
  <2>1. bad \in BOOLEAN /\ Store(t, bad) /\ task[t].at = "moving"
    BY <1>6 DEF Move
  <2>2. ~bad /\ task[t].to # None => Children(task[t].group) = {}
    BY <2>1 DEF Inv, MoveInv
  <2>3. ~bad => task[t].to # task[t].group
    OBVIOUS
  <2> HIDE DEF bad
  <2> QED
    BY <2>1, <2>2, <2>3, StoreStep
<1>7. ASSUME NEW t \in Task, Delete(t) PROVE Inv'
  BY <1>7, DeleteStep
<1>8. ASSUME NEW t \in Task, Quit(t) PROVE Inv'
  BY <1>8, QuitStep
<1>9. CASE UNCHANGED vars
  <2>1. TypeOK' /\ MoveInv'
    BY <1>9 DEF vars, Inv, TypeOK, MoveInv, Children
  <2> QED
    BY <1>9, <2>1, TableSame DEF vars, Inv
<1> QED
  BY <1>1, <1>2, <1>3, <1>4, <1>5, <1>6, <1>7, <1>8, <1>9 DEF Next

(* The table and the requests keep their types.                            *)
THEOREM TreeTypeCorrect == Spec => []TypeOK
<1>1. Inv => TypeOK
  BY DEF Inv
<1> QED
  BY <1>1, InitInv, InvStep, PTL DEF Spec

(* No group ever has a parent that is not in the table.                    *)
THEOREM ParentsExist == Spec => []ParentLive
<1>1. Inv => ParentLive
  BY DEF Inv
<1> QED
  BY <1>1, InitInv, InvStep, PTL DEF Spec

(* Every circle was closed by an update, by a move of a group to itself or *)
(* by a move whose group got a child after the check.                      *)
THEOREM CirclesAreExplained == Spec => []CirclesExplained
<1>1. Inv => CirclesExplained
  BY DEF Inv
<1> QED
  BY <1>1, InitInv, InvStep, PTL DEF Spec

-----------------------------------------------------------------------------
(* What CirclesExplained says of one group: following parents upwards from *)
(* it one comes to a root, unless a group on the way got its parent        *)
(* without a valid check.                                                  *)
EndlessWalk(f) == \A n \in Nat : f[n + 1] = parent[f[n]]
WalksExplained == \A f \in [Nat -> Group] : EndlessWalk(f) => \E n \in Nat : f[n] \in loose

(* A group that is its own ancestor, k generations back.  The query of     *)
(* get_all_descendants (UNION ALL) would go round there for ever.          *)
OwnAncestor(f, k) == f[k] = f[0] /\ \A n \in 0..(k - 1) : f[n + 1] = parent[f[n]]
RingsExplained ==
  \A k \in Nat \ {0} : \A f \in [0..k -> Group] :
    OwnAncestor(f, k) => \E n \in 0..k : f[n] \in loose

(* A group whose parent is a group is in the table.                        *)
LEMMA InTable ==
  ASSUME ParentLive, NEW g \in Group, parent[g] \in Group
  PROVE  g \in live
BY TreeAssumption DEF ParentLive

(* No way upwards is endless without such a group on it.                   *)
THEOREM WalksAreExplained == Spec => []WalksExplained
<1>1. ASSUME Inv PROVE WalksExplained
  <2> SUFFICES ASSUME NEW f \in [Nat -> Group], EndlessWalk(f)
               PROVE  \E n \in Nat : f[n] \in loose
    BY DEF WalksExplained
  <2> DEFINE S == {f[n] : n \in Nat}
  <2>1. ASSUME NEW n \in Nat PROVE f[n] \in live /\ parent[f[n]] \in S
    <3>1. f[n] \in Group /\ f[n + 1] \in Group /\ parent[f[n]] = f[n + 1] /\ n + 1 \in Nat
      BY DEF EndlessWalk
    <3> QED BY <1>1, <3>1, InTable DEF Inv
  <2>2. f[0] \in S OBVIOUS
  <2>3. S \in SUBSET live /\ Circle(S) BY <2>1, <2>2 DEF Circle
  <2>4. S \cap loose # {} BY <1>1, <2>3 DEF Inv, CirclesExplained
  <2> QED BY <2>4
<1> QED BY <1>1, InitInv, InvStep, PTL DEF Spec

(* And no group is its own ancestor without one.                           *)
THEOREM RingsAreExplained == Spec => []RingsExplained
<1>1. ASSUME Inv PROVE RingsExplained
  <2> SUFFICES ASSUME NEW k \in Nat \ {0}, NEW f \in [0..k -> Group], OwnAncestor(f, k)
               PROVE  \E n \in 0..k : f[n] \in loose
    BY DEF RingsExplained
  <2> DEFINE S == {f[n] : n \in 0..(k - 1)}
  <2>1. ASSUME NEW n \in 0..(k - 1) PROVE f[n] \in live /\ parent[f[n]] \in S
    <3>1. f[n] \in Group /\ f[n + 1] \in Group /\ parent[f[n]] = f[n + 1] BY DEF OwnAncestor
    <3>2. f[n + 1] \in S
      <4>1. CASE n = k - 1 BY <4>1 DEF OwnAncestor
      <4>2. CASE n # k - 1
        <5>1. n + 1 \in 0..(k - 1) BY <4>2
        <5> QED BY <5>1
      <4> QED BY <4>1, <4>2
    <3> QED BY <1>1, <3>1, <3>2, InTable DEF Inv
  <2>2. f[0] \in S OBVIOUS
  <2>3. S \in SUBSET live /\ Circle(S) BY <2>1, <2>2 DEF Circle
  <2>4. S \cap loose # {} BY <1>1, <2>3 DEF Inv, CirclesExplained
  <2> QED BY <2>4
<1> QED BY <1>1, InitInv, InvStep, PTL DEF Spec
=============================================================================
