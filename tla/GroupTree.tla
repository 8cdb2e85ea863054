------------------------------- MODULE GroupTree -------------------------------
(***************************************************************************)
(* The hierarchy of the groups table (api models/group.py): every group    *)
(* has a parent or is a root.  Requests create, update, move and delete    *)
(* groups; each loads its group, awaits and then commits, so the check of  *)
(* move_to_parent may be out of date when the new parent is written.       *)
(*                                                                         *)
(* soft_delete raises NameError (cls, line 344) before it changes the row, *)
(* so every group is active and restore changes nothing.                   *)
(***************************************************************************)
CONSTANTS
  Group,      \* identifiers; one is never used twice
  Task,       \* concurrent requests
  None        \* no parent

ASSUME TreeAssumption == None \notin Group

VARIABLES
  live,       \* groups in the table
  gone,       \* groups that were deleted
  parent,     \* parent_group_id
  loose,      \* groups whose parent was written without a check that holds
  task        \* what each request is doing, with what it loaded

vars == <<live, gone, parent, loose, task>>

At == {"idle", "updating", "checking", "moving", "deleting"}

(* group: its group; had: the parent it loaded; to: the new parent; kids:  *)
(* the children it read; gained: the group got a child since the check.    *)
Work == [at : At, group : Group \cup {None}, had : Group \cup {None},
         to : Group \cup {None}, kids : SUBSET Group, gained : BOOLEAN]

Idle == [at |-> "idle", group |-> None, had |-> None, to |-> None,
         kids |-> {}, gained |-> FALSE]

Children(g) == {c \in live : parent[c] = g}

Init ==
  /\ live = {} /\ gone = {} /\ loose = {}
  /\ parent = [g \in Group |-> None]
  /\ task = [t \in Task |-> Idle]

-----------------------------------------------------------------------------
(* A move that was checked learns nothing of a child its group gets now.   *)
Noticed(p) ==
  [t \in Task |-> IF task[t].at = "moving" /\ task[t].group = p
                  THEN [task[t] EXCEPT !.gained = TRUE] ELSE task[t]]

(* POST /groups: the parent is any existing group, of whichever user.      *)
Create(g, p) ==
  /\ g \notin live \cup gone /\ p \in live \cup {None}
  /\ live' = live \cup {g}
  /\ parent' = [parent EXCEPT ![g] = p]
  /\ task' = Noticed(p)
  /\ UNCHANGED <<gone, loose>>

(* The request names a parent it has seen: it may be deleted by now.       *)
Load(t, g, place, p, kids) ==
  /\ task[t].at = "idle" /\ g \in live /\ p \in live \cup gone \cup {None}
  /\ task' = [task EXCEPT ![t] = [at |-> place, group |-> g, had |-> parent[g],
                                  to |-> p, kids |-> kids, gained |-> FALSE]]
  /\ UNCHANGED <<live, gone, parent, loose>>

(* The request ends without a change: it was refused, the row or the new   *)
(* parent is no longer there, or the database failed.                      *)
Quit(t) ==
  /\ task[t].at # "idle"
  /\ task' = [task EXCEPT ![t] = Idle]
  /\ UNCHANGED <<live, gone, parent, loose>>

(* The commit of a new parent.  An absent parent that stays absent is no   *)
(* change of the column and is not written.                                *)
Store(t, unchecked) ==
  LET g == task[t].group
      p == task[t].to
      written == p # None \/ task[t].had # None
  IN  /\ g \in live
      /\ p \in live \cup {None}        \* foreign key
      /\ IF written
         THEN /\ parent' = [parent EXCEPT ![g] = p]
              /\ loose' = IF unchecked /\ p # None THEN loose \cup {g} ELSE loose \ {g}
              /\ task' = [Noticed(p) EXCEPT ![t] = Idle]
         ELSE /\ task' = [task EXCEPT ![t] = Idle]
              /\ UNCHANGED <<parent, loose>>
      /\ UNCHANGED <<live, gone>>

(* PUT /groups/{id} with a parent: Group.update asks for no circle.        *)
LoadUpdate(t, g, p) == Load(t, g, "updating", p, {})

Update(t) == task[t].at = "updating" /\ Store(t, TRUE)

(* move_to_parent.                                                         *)
LoadMove(t, g, p) == Load(t, g, "checking", p, {})

(* Variant: any group may move.                                            *)
NoCheck(t) ==
  /\ task[t].at = "checking"
  /\ task' = [task EXCEPT ![t].at = "moving"]
  /\ UNCHANGED <<live, gone, parent, loose>>

(* _would_create_circular_reference.  The query yields identifiers, not    *)
(* groups, so as soon as there is a descendant d, d.id raises and the      *)
(* request ends (Quit).  No descendant: the move goes on.                  *)
Check(t) ==
  /\ task[t].at = "checking"
  /\ task[t].to # None => Children(task[t].group) = {}
  /\ task' = [task EXCEPT ![t].at = "moving"]
  /\ UNCHANGED <<live, gone, parent, loose>>

(* The check does not look at the group itself: it may become its own      *)
(* parent.                                                                 *)
Move(t) ==
  /\ task[t].at = "moving"
  /\ Store(t, task[t].gained \/ task[t].to = task[t].group)

(* DELETE /groups/{id}: the children found are detached, by their          *)
(* identifiers, and the row is deleted; a child that came meanwhile makes  *)
(* the foreign key refuse.                                                 *)
LoadDelete(t, g) == Load(t, g, "deleting", None, Children(g))

(* Variant: the answer is sent, the row stays.                             *)
DeleteUncommitted(t) ==
  /\ task[t].at = "deleting"
  /\ gone' = gone \cup {task[t].group}
  /\ task' = [task EXCEPT ![t] = Idle]
  /\ UNCHANGED <<live, parent, loose>>

(* Variant: the children are left as they are.                             *)
DeleteOnly(t) ==
  /\ task[t].at = "deleting"
  /\ LET g == task[t].group
     IN  /\ live' = live \ {g} /\ gone' = gone \cup {g}
         /\ parent' = [parent EXCEPT ![g] = None]
         /\ loose' = loose \ {g}
  /\ task' = [task EXCEPT ![t] = Idle]

Delete(t) ==
  /\ task[t].at = "deleting"
  /\ LET g == task[t].group
         kids == task[t].kids
     IN  /\ kids \subseteq live /\ Children(g) \subseteq kids
         /\ live' = live \ {g} /\ gone' = gone \cup {g}
         /\ parent' = [c \in Group |-> IF c \in kids \cup {g} THEN None ELSE parent[c]]
         /\ loose' = loose \ (kids \cup {g})
  /\ task' = [task EXCEPT ![t] = Idle]

Next ==
  \/ \E g \in Group, p \in Group \cup {None} : Create(g, p)
  \/ \E t \in Task :
       \/ \E g \in Group :
            \/ \E p \in Group \cup {None} : LoadUpdate(t, g, p) \/ LoadMove(t, g, p)
            \/ LoadDelete(t, g)
       \/ Update(t) \/ Check(t) \/ Move(t) \/ Delete(t) \/ Quit(t)

Spec == Init /\ [][Next]_vars

-----------------------------------------------------------------------------
(* A set of groups from which following parents never leads out: it holds  *)
(* a circle, and nothing in it can be listed from the root level.          *)
Circle(S) == S # {} /\ \A g \in S : parent[g] \in S

(* Every variable has its type; a request works on a group that is or was  *)
(* in the table.                                                           *)
TypeOK ==
  /\ live \subseteq Group /\ gone \subseteq Group /\ live \cap gone = {}
  /\ loose \subseteq live
  /\ parent \in [Group -> Group \cup {None}]
  /\ task \in [Task -> Work]
  /\ \A t \in Task : task[t].at # "idle" => task[t].group \in live \cup gone

(* The parent of a group exists, whatever was deleted while it was being   *)
(* created or moved; an absent group has none.                             *)
ParentLive ==
  \A g \in Group : IF g \in live THEN parent[g] \in live \cup {None}
                   ELSE parent[g] = None

(* Groups go in circles only if an update, a move of a group to itself, or *)
(* a move whose group got a child after the check closed the circle: of    *)
(* every set of groups without a way to a root, one was put there so.      *)
CirclesExplained == \A S \in SUBSET live : Circle(S) => S \cap loose # {}

=============================================================================
