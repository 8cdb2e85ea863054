----------------------------- MODULE HostsProof -----------------------------
(***************************************************************************)
(* Hosts: what holds of the rows, their groups and their sessions, for any *)
(* number of hosts, groups, sessions and requests.                         *)
(***************************************************************************)
EXTENDS Hosts, FiniteSetTheorems, SequenceTheorems, TLAPS

Column == {"name", "favorite", "tags", "rules", "group"}

(* What a request that edits is about to write: its own column, with a     *)
(* value of that column.                                                   *)
Put(put, field) ==
  /\ field \in Column /\ DOMAIN put \subseteq {field}
  /\ "name" \in DOMAIN put => put["name"] \in Name
  /\ "favorite" \in DOMAIN put => put["favorite"] \in BOOLEAN
  /\ "tags" \in DOMAIN put => put["tags"] \subseteq Tag
  /\ "rules" \in DOMAIN put => put["rules"] \subseteq Port
  /\ "group" \in DOMAIN put => put["group"] \in Group \cup {None}

Applied(put, row) == [f \in DOMAIN row |-> IF f \in DOMAIN put THEN put[f] ELSE row[f]]

LEMMA ApplyRow ==
  ASSUME NEW row \in Row, NEW put, NEW field, Put(put, field)
  PROVE  LET new == Applied(put, row)
         IN  /\ new \in Row /\ new.state = row.state
             /\ field # "name" => new.name = row.name
             /\ field # "favorite" => new.favorite = row.favorite
             /\ new.tags = IF "tags" \in DOMAIN put THEN put["tags"] ELSE row.tags
             /\ field # "tags" => new.tags = row.tags
             /\ new.rules = IF "rules" \in DOMAIN put THEN put["rules"] ELSE row.rules
             /\ field # "rules" => new.rules = row.rules
             /\ field # "group" => new.group = row.group
<1> DEFINE new == Applied(put, row)
<1>1. /\ DOMAIN row = {"state", "name", "favorite", "tags", "rules", "group"}
      /\ row.state \in {"new", "live", "gone"} /\ row.name \in Name
      /\ row.favorite \in BOOLEAN /\ row.tags \subseteq Tag
      /\ row.rules \subseteq Port /\ row.group \in Group \cup {None}
  BY DEF Row
<1>2. "state" \notin DOMAIN put BY DEF Put, Column
<1>3. /\ new.state = row.state
      /\ new.name = IF "name" \in DOMAIN put THEN put["name"] ELSE row.name
      /\ new.favorite = IF "favorite" \in DOMAIN put THEN put["favorite"] ELSE row.favorite
      /\ new.tags = IF "tags" \in DOMAIN put THEN put["tags"] ELSE row.tags
      /\ new.rules = IF "rules" \in DOMAIN put THEN put["rules"] ELSE row.rules
      /\ new.group = IF "group" \in DOMAIN put THEN put["group"] ELSE row.group
  BY <1>1, <1>2 DEF Applied
<1>4. new = [state |-> new.state, name |-> new.name, favorite |-> new.favorite,
             tags |-> new.tags, rules |-> new.rules, group |-> new.group]
  BY <1>1 DEF Applied
<1>5. /\ new.name \in Name /\ new.favorite \in BOOLEAN /\ new.tags \subseteq Tag
      /\ new.rules \subseteq Port /\ new.group \in Group \cup {None}
  BY <1>1, <1>3 DEF Put
<1> HIDE DEF new
<1>6. new \in Row BY <1>1, <1>3, <1>4, <1>5 DEF Row
<1> QED BY <1>3, <1>6 DEF Put, new

Blank == [at : {"idle"}, host : {None}, field : {"none"}, put : {<< >>}, want : {{}},
          group : {None}, hosts : {{}}, sessions : {{}}]

(* The record of a request that has not loaded.                           *)
LEMMA IdleFields ==
  /\ Idle \in Blank
  /\ DOMAIN Idle.put = {}
BY DEF Idle, Blank

-----------------------------------------------------------------------------
(* TypeOK, and how the fields of a request are typed.                      *)
Types ==
  /\ table \in [Host -> Row] /\ groups \subseteq Group
  /\ sessions \in [Session -> Host \cup {None}]
  /\ DOMAIN task = Request /\ task = [r \in Request |-> task[r]]
  /\ \A r \in Request :
       /\ task[r].at \in {"idle", "editing", "connecting", "deleting"}
       /\ task[r].hosts \subseteq Host /\ task[r].sessions \subseteq Session
       /\ task[r].group \in Group \cup {None} /\ task[r].want \subseteq Tag
       /\ task[r].at # "editing" => task[r].put = << >>
  /\ {"at", "next"} \subseteq DOMAIN walk
  /\ walk.at \in {"idle", "page", "count", "done"} /\ walk.next \in Nat \ {0}
  /\ told \in [Host -> SUBSET Tag] /\ lapped \subseteq Host /\ moved \subseteq Host

(* What the edit of tags puts, or leaves, is what the client will be told, *)
(* as long as nobody else has changed the tags in between.                 *)
EditInv ==
  \A r \in Request : task[r].at = "editing" =>
    /\ task[r].host \in Host /\ Put(task[r].put, task[r].field)
    /\ task[r].field = "tags" /\ task[r].host \in Live /\ task[r].host \notin lapped =>
         task[r].want = IF "tags" \in DOMAIN task[r].put THEN task[r].put["tags"]
                        ELSE table[task[r].host].tags

(* What a delete of a group has loaded is in the group, or was moved.      *)
DeleteInv ==
  \A r \in Request : task[r].at = "deleting" /\ task[r].group # None =>
    \A h \in task[r].hosts : h \in Live => table[h].group = task[r].group \/ h \in moved

(* Requests know hosts that have been there, and nothing is told of one    *)
(* that has not.                                                           *)
KnownInv ==
  /\ \A h \in Host : table[h].state = "new" => told[h] = {}
  /\ \A r \in Request :
       /\ task[r].at = "editing" => table[task[r].host].state # "new"
       /\ \A h \in task[r].hosts : table[h].state # "new"

IInv == /\ Types /\ References /\ TagsTold
        /\ EditInv /\ DeleteInv /\ KnownInv

LEMMA UnbornRow == Unborn \in Row /\ Unborn.state = "new" /\ Unborn.tags = {}
<1>1. (CHOOSE n \in Name : TRUE) \in Name BY HostsAssumption
<1> QED BY <1>1 DEF Unborn, Row

LEMMA InitHolds == Init => IInv
<1> SUFFICES ASSUME Init PROVE IInv OBVIOUS
<1>1. table \in [Host -> Row] /\ \A h \in Host : table[h] = Unborn BY UnbornRow DEF Init
<1>2. Live = {} BY <1>1, UnbornRow DEF Live
<1>3. \A r \in Request : task[r] = Idle BY DEF Init
<1>4. /\ {"at", "next"} \subseteq DOMAIN walk
      /\ walk.at = "idle" /\ walk.next = 1
  BY DEF Init, NoWalk
<1>5. Types BY <1>1, <1>3, <1>4, IdleFields DEF Init, Types, Blank
<1>6. References BY <1>2 DEF Init, References
<1>7. TagsTold BY <1>2 DEF TagsTold
<1>9. EditInv /\ DeleteInv BY <1>3, IdleFields DEF EditInv, DeleteInv, Blank
<1>10. KnownInv BY <1>1, <1>3, IdleFields DEF Init, KnownInv, Blank
<1> QED BY <1>5, <1>6, <1>7, <1>9, <1>10 DEF IInv

(* The columns an edit writes.                                             *)
LEMMA EditPut ==
  ASSUME NEW old \in Row, NEW new \in Row, NEW field \in Column,
         \A f \in Column \cup {"state"} : f # field => new[f] = old[f],
         NEW repeated \in SUBSET MayRepeat(field, new)
  PROVE  LET cols == DOMAIN Changed(old, new) \cup repeated \cup MustRepeat(field, new)
             put  == [f \in cols |-> new[f]]
         IN  /\ Put(put, field)
             /\ "tags" \in DOMAIN put => put["tags"] = new.tags
             /\ "tags" \notin DOMAIN put => new.tags = old.tags
<1> DEFINE cols == DOMAIN Changed(old, new) \cup repeated \cup MustRepeat(field, new)
           put  == [f \in cols |-> new[f]]
<1>1. DOMAIN old = Column \cup {"state"} BY DEF Row, Column
<1>2. DOMAIN Changed(old, new) = {f \in Column \cup {"state"} : old[f] # new[f]}
  BY <1>1 DEF Changed
<1>3. cols \subseteq {field} BY <1>2 DEF MayRepeat, MustRepeat
<1>4. "tags" \notin cols => new.tags = old.tags BY <1>2 DEF Column
<1>5. /\ new.name \in Name /\ new.favorite \in BOOLEAN /\ new.tags \subseteq Tag
      /\ new.rules \subseteq Port /\ new.group \in Group \cup {None}
  BY DEF Row
<1> HIDE DEF cols
<1>6. DOMAIN put = cols /\ \A f \in cols : put[f] = new[f] OBVIOUS
<1> HIDE DEF put
<1>7. Put(put, field) BY <1>3, <1>5, <1>6 DEF Put
<1>8. "tags" \in DOMAIN put => put["tags"] = new.tags BY <1>6
<1> QED BY <1>4, <1>6, <1>7, <1>8 DEF put, cols

(* A request loads for an edit.                                            *)
LEMMA EditKeeps ==
  ASSUME IInv, NEW r \in Request, NEW h \in Host, NEW field \in Column,
         NEW asked \in SUBSET Tag,
         NEW new \in Row, LoadEdit(r, h, field, asked, new),
         \A f \in Column \cup {"state"} : f # field => new[f] = table[h][f],
         field = "tags" => asked = new.tags
  PROVE  IInv'
<1>1. PICK repeated \in SUBSET MayRepeat(field, new) :
        LET put == Changed(table[h], new)
            cols == DOMAIN put \cup repeated \cup MustRepeat(field, new)
        IN  task' = [task EXCEPT ![r] =
              [Idle EXCEPT !.at = "editing", !.host = h, !.field = field, !.want = asked,
                           !.put = [f \in cols |-> new[f]]]]
  BY DEF LoadEdit
<1> DEFINE cols == DOMAIN Changed(table[h], new) \cup repeated \cup MustRepeat(field, new)
           put  == [f \in cols |-> new[f]]
<1>2. table[h] \in Row BY DEF IInv, Types
<1>3. /\ Put(put, field)
      /\ "tags" \in DOMAIN put => put["tags"] = new.tags
      /\ "tags" \notin DOMAIN put => new.tags = table[h].tags
  BY <1>2, EditPut
<1> HIDE DEF put
<1>12. PICK n : n = Idle OBVIOUS
<1>13. n \in Blank BY <1>12, IdleFields
<1> DEFINE k == [n EXCEPT !.at = "editing", !.host = h, !.field = field, !.want = asked,
                          !.put = put]
<1>4. /\ k.at = "editing" /\ k.host = h /\ k.field = field /\ k.want = asked /\ k.put = put
      /\ k.group = None /\ k.hosts = {} /\ k.sessions = {}
  BY <1>13 DEF Blank
<1>5. task' = [task EXCEPT ![r] = k] BY <1>1, <1>12 DEF put
<1> HIDE DEF k
<1>6. /\ task'[r] = k /\ DOMAIN task' = Request /\ task' = [q \in Request |-> task'[q]]
      /\ \A q \in Request : q # r => task'[q] = task[q]
  BY <1>5 DEF IInv, Types
<1>7. UNCHANGED <<table, groups, sessions, walk, history>> BY DEF LoadEdit
<1>8. Types' BY <1>4, <1>6, <1>7 DEF IInv, Types, history
<1>9. References' /\ TagsTold'
  BY <1>7 DEF IInv, References, TagsTold, Live, history
<1>10. EditInv'
  <2> SUFFICES ASSUME NEW q \in Request, task'[q].at = "editing"
      PROVE /\ task'[q].host \in Host /\ Put(task'[q].put, task'[q].field)
            /\ task'[q].field = "tags" /\ task'[q].host \in Live' /\ task'[q].host \notin lapped' =>
                 task'[q].want = IF "tags" \in DOMAIN task'[q].put THEN task'[q].put["tags"]
                                 ELSE table'[task'[q].host].tags
    BY DEF EditInv
  <2>1. CASE q = r BY <1>3, <1>4, <1>6, <1>7, <2>1
  <2>2. CASE q # r
    <3>1. task'[q] = task[q] /\ Live' = Live /\ lapped' = lapped /\ table' = table
      BY <1>6, <1>7, <2>2 DEF Live, history
    <3> QED BY <3>1 DEF IInv, EditInv
  <2> QED BY <2>1, <2>2
<1>11. DeleteInv' BY <1>4, <1>6, <1>7 DEF IInv, DeleteInv, Live, history
<1>14. KnownInv'
  <2>1. table[h].state # "new" BY DEF LoadEdit, Live
  <2> QED BY <1>4, <1>6, <1>7, <2>1 DEF IInv, KnownInv, history
<1> QED BY <1>8, <1>9, <1>10, <1>11, <1>14 DEF IInv

(* The edits of the handlers and of Host.                                  *)
LEMMA LoadKeeps ==
  ASSUME IInv, NEW r \in Request, NEW h \in Host,
         \/ \E n \in Name : LoadRename(r, h, n)
         \/ \E b \in BOOLEAN : LoadFavorite(r, h, b)
         \/ \E g \in Group \cup {None} : LoadMove(r, h, g)
         \/ \E S \in SUBSET Tag : PutTags(r, h, S)
         \/ \E t \in Tag : AddTags(r, h, t) \/ RemoveTags(r, h, t)
         \/ \E p \in Port : AddPortForwarding(r, h, p) \/ RemovePortForwarding(r, h, p)
  PROVE  IInv'
<1> DEFINE old == table[h]
<1>1. old \in Row BY DEF IInv, Types
<1>2. {"name", "favorite", "tags", "rules", "group"} \subseteq Column BY DEF Column
<1> HIDE DEF old
<1>3. ASSUME NEW n \in Name, LoadRename(r, h, n) PROVE IInv'
  <2> DEFINE new == [old EXCEPT !.name = n]
  <2>1. new \in Row BY <1>1 DEF Row
  <2>2. \A f \in Column \cup {"state"} : f # "name" => new[f] = old[f] BY <1>1 DEF Row, Column
  <2>3. LoadEdit(r, h, "name", {}, new) BY <1>3 DEF LoadRename, old
  <2> HIDE DEF new
  <2> QED BY <1>1, <1>2, <2>1, <2>2, <2>3, EditKeeps DEF old
<1>4. ASSUME NEW b \in BOOLEAN, LoadFavorite(r, h, b) PROVE IInv'
  <2> DEFINE new == [old EXCEPT !.favorite = b]
  <2>1. new \in Row BY <1>1 DEF Row
  <2>2. \A f \in Column \cup {"state"} : f # "favorite" => new[f] = old[f] BY <1>1 DEF Row, Column
  <2>3. LoadEdit(r, h, "favorite", {}, new) BY <1>4 DEF LoadFavorite, old
  <2> HIDE DEF new
  <2> QED BY <1>1, <1>2, <2>1, <2>2, <2>3, EditKeeps DEF old
<1>5. ASSUME NEW g \in Group \cup {None}, LoadMove(r, h, g) PROVE IInv'
  <2> DEFINE new == [old EXCEPT !.group = g]
  <2>1. new \in Row BY <1>1 DEF Row
  <2>2. \A f \in Column \cup {"state"} : f # "group" => new[f] = old[f] BY <1>1 DEF Row, Column
  <2>3. LoadEdit(r, h, "group", {}, new) BY <1>5 DEF LoadMove, old
  <2> HIDE DEF new
  <2> QED BY <1>1, <1>2, <2>1, <2>2, <2>3, EditKeeps DEF old
<1>6. ASSUME NEW S \in SUBSET Tag, LoadEdit(r, h, "tags", S, [old EXCEPT !.tags = S])
      PROVE  IInv'
  <2> DEFINE new == [old EXCEPT !.tags = S]
  <2>1. new \in Row /\ new.tags = S BY <1>1 DEF Row
  <2>2. \A f \in Column \cup {"state"} : f # "tags" => new[f] = old[f] BY <1>1 DEF Row, Column
  <2>3. LoadEdit(r, h, "tags", S, new) BY <1>6
  <2> HIDE DEF new
  <2> QED BY <1>1, <1>2, <2>1, <2>2, <2>3, EditKeeps DEF old
<1>7. ASSUME NEW R \in SUBSET Port,
             LoadEdit(r, h, "rules", {}, [old EXCEPT !.rules = R])
      PROVE  IInv'
  <2> DEFINE new == [old EXCEPT !.rules = R]
  <2>1. new \in Row BY <1>1 DEF Row
  <2>2. \A f \in Column \cup {"state"} : f # "rules" => new[f] = old[f] BY <1>1 DEF Row, Column
  <2>3. LoadEdit(r, h, "rules", {}, new) BY <1>7
  <2> HIDE DEF new
  <2> QED BY <1>1, <1>2, <1>7, <2>1, <2>2, <2>3, EditKeeps DEF old
<1>8. ASSUME NEW S \in SUBSET Tag, PutTags(r, h, S) PROVE IInv'
  BY <1>6, <1>8 DEF PutTags, old
<1>9. ASSUME NEW t \in Tag, AddTags(r, h, t) PROVE IInv'
  <2>1. old.tags \cup {t} \in SUBSET Tag BY <1>1 DEF Row
  <2>2. LoadEdit(r, h, "tags", old.tags \cup {t}, [old EXCEPT !.tags = old.tags \cup {t}])
    BY <1>9 DEF AddTags, old
  <2> QED BY <1>6, <2>1, <2>2
<1>10. ASSUME NEW t \in Tag, RemoveTags(r, h, t) PROVE IInv'
  <2>1. old.tags \ {t} \in SUBSET Tag BY <1>1 DEF Row
  <2>2. LoadEdit(r, h, "tags", old.tags \ {t}, [old EXCEPT !.tags = old.tags \ {t}])
    BY <1>10 DEF RemoveTags, old
  <2> QED BY <1>6, <2>1, <2>2
<1>11. ASSUME NEW p \in Port, AddPortForwarding(r, h, p) PROVE IInv'
  <2> DEFINE R == IF old.rules = {} THEN {p} ELSE old.rules
  <2>1. R \in SUBSET Port BY <1>1 DEF Row
  <2>2. LoadEdit(r, h, "rules", {}, [old EXCEPT !.rules = R])
    BY <1>11 DEF AddPortForwarding, old
  <2> QED BY <1>7, <2>1, <2>2
<1>12. ASSUME NEW p \in Port, RemovePortForwarding(r, h, p) PROVE IInv'
  <2>1. old.rules \ {p} \in SUBSET Port BY <1>1 DEF Row
  <2>2. LoadEdit(r, h, "rules", {}, [old EXCEPT !.rules = old.rules \ {p}])
    BY <1>12 DEF RemovePortForwarding, old
  <2> QED BY <1>7, <2>1, <2>2
<1> QED BY <1>3, <1>4, <1>5, <1>8, <1>9, <1>10, <1>11, <1>12

(* A change of the rows leaves a walk that is a walk.                      *)
LEMMA WriteKeepsWalk ==
  ASSUME IInv, NEW new, Write(new)
  PROVE  /\ table' = new
         /\ {"at", "next"} \subseteq DOMAIN walk'
         /\ walk'.at \in {"idle", "page", "count", "done"} /\ walk'.next \in Nat \ {0}
BY DEF Write, IInv, Types

(* A request that is done, and the others.                                 *)
LEMMA DoneTasks ==
  ASSUME IInv, NEW r \in Request, task' = [task EXCEPT ![r] = Idle]
  PROVE  /\ DOMAIN task' = Request /\ task' = [q \in Request |-> task'[q]]
         /\ \A q \in Request : \/ task'[q] = task[q] /\ q # r
                               \/ /\ task'[q].at = "idle" /\ task'[q].hosts = {}
                                  /\ task'[q].sessions = {} /\ task'[q].group = None
                                  /\ task'[q].put = << >> /\ task'[q].want = {} /\ q = r
BY IdleFields DEF IInv, Types, Blank

LEMMA CommitKeeps ==
  ASSUME IInv, NEW r \in Request, Commit(r)
  PROVE  IInv'
<1> DEFINE h   == task[r].host
           put == task[r].put
           field == task[r].field
           new == Applied(put, table[h])
<1>1. /\ task[r].at = "editing" /\ h \in Live /\ h \in Host /\ new.group \in groups \cup {None}
      /\ Write([table EXCEPT ![h] = new])
      /\ told' = (IF field = "tags" THEN [told EXCEPT ![h] = task[r].want] ELSE told)
      /\ lapped' = (IF field = "tags" /\ TagRace(r, h) THEN lapped \cup {h} ELSE lapped)
      /\ moved' = (IF \E q \in Request : task[q].group # None /\ h \in task[q].hosts
                          /\ new.group # task[q].group THEN moved \cup {h} ELSE moved)
      /\ task' = [task EXCEPT ![r] = Idle] /\ groups' = groups /\ sessions' = sessions
  BY DEF Commit, Applied, Live
<1>2. Put(put, field) BY <1>1 DEF IInv, EditInv
<1>3. table[h] \in Row /\ table \in [Host -> Row] BY <1>1 DEF IInv, Types
<1>4. /\ new \in Row /\ new.state = table[h].state
      /\ new.tags = IF "tags" \in DOMAIN put THEN put["tags"] ELSE table[h].tags
      /\ field # "tags" => new.tags = table[h].tags
      /\ new.rules = IF "rules" \in DOMAIN put THEN put["rules"] ELSE table[h].rules
  BY <1>2, <1>3, ApplyRow
<1> HIDE DEF new
<1>5. /\ table' = [table EXCEPT ![h] = new]
      /\ {"at", "next"} \subseteq DOMAIN walk'
      /\ walk'.at \in {"idle", "page", "count", "done"} /\ walk'.next \in Nat \ {0}
  BY <1>1, WriteKeepsWalk
<1>6. /\ table' \in [Host -> Row] /\ table'[h] = new
      /\ \A i \in Host : i # h => table'[i] = table[i]
  BY <1>1, <1>3, <1>4, <1>5
<1>7. Live' = Live BY <1>1, <1>4, <1>6 DEF Live
<1>8. /\ DOMAIN task' = Request /\ task' = [q \in Request |-> task'[q]]
      /\ \A q \in Request : \/ task'[q] = task[q] /\ q # r
                            \/ /\ task'[q].at = "idle" /\ task'[q].hosts = {}
                               /\ task'[q].sessions = {} /\ task'[q].group = None
                               /\ task'[q].put = << >> /\ task'[q].want = {} /\ q = r
  BY <1>1, DoneTasks
<1>9. field = "tags" /\ h \notin lapped =>
        task[r].want = (IF "tags" \in DOMAIN put THEN put["tags"] ELSE table[h].tags)
  BY <1>1 DEF IInv, EditInv
<1>10. Types'
  <2>1. task[r].want \subseteq Tag BY DEF IInv, Types
  <2>2. told' \in [Host -> SUBSET Tag] BY <1>1, <2>1 DEF IInv, Types
  <2>3. lapped' \subseteq Host /\ moved' \subseteq Host BY <1>1 DEF IInv, Types
  <2>4. \A q \in Request :
          /\ task'[q].at \in {"idle", "editing", "connecting", "deleting"}
          /\ task'[q].hosts \subseteq Host /\ task'[q].sessions \subseteq Session
          /\ task'[q].group \in Group \cup {None} /\ task'[q].want \subseteq Tag
          /\ task'[q].at # "editing" => task'[q].put = << >>
    BY <1>8 DEF IInv, Types
  <2>5. groups' \subseteq Group /\ sessions' \in [Session -> Host \cup {None}]
    BY <1>1 DEF IInv, Types
  <2> QED BY <1>5, <1>6, <1>8, <2>2, <2>3, <2>4, <2>5 DEF Types
<1>11. References'
  <2>1. ASSUME NEW i \in Live PROVE table'[i].group \in groups \cup {None}
    <3>1. i \in Host /\ table[i].group \in groups \cup {None} BY DEF Live, IInv, References
    <3> QED BY <1>1, <1>6, <3>1
  <2> QED BY <1>1, <1>7, <2>1 DEF IInv, References
<1>12. TagsTold'
  <2> SUFFICES ASSUME NEW i \in Live, i \notin lapped' PROVE table'[i].tags = told'[i]
    BY <1>7 DEF TagsTold
  <2>1. i \in Host /\ i \notin lapped /\ told \in [Host -> SUBSET Tag]
    BY <1>1 DEF Live, IInv, Types
  <2>2. table[i].tags = told[i] BY <2>1 DEF IInv, TagsTold
  <2>3. CASE i = h /\ field = "tags" BY <1>1, <1>4, <1>6, <1>9, <2>1, <2>3
  <2>4. CASE i = h /\ field # "tags" BY <1>1, <1>4, <1>6, <2>2, <2>4
  <2>5. CASE i # h BY <1>1, <1>6, <2>1, <2>2, <2>5
  <2> QED BY <2>3, <2>4, <2>5
<1>14. EditInv'
  <2> SUFFICES ASSUME NEW q \in Request, task'[q].at = "editing"
      PROVE /\ task'[q].host \in Host /\ Put(task'[q].put, task'[q].field)
            /\ task'[q].field = "tags" /\ task'[q].host \in Live' /\ task'[q].host \notin lapped' =>
                 task'[q].want = IF "tags" \in DOMAIN task'[q].put THEN task'[q].put["tags"]
                                 ELSE table'[task'[q].host].tags
    BY DEF EditInv
  <2>1. q # r /\ task'[q] = task[q] BY <1>8
  <2>2. lapped \subseteq lapped' BY <1>1
  <2>3. /\ task[q].host \in Host /\ Put(task[q].put, task[q].field)
        /\ task[q].field = "tags" /\ task[q].host \in Live /\ task[q].host \notin lapped =>
             task[q].want = IF "tags" \in DOMAIN task[q].put THEN task[q].put["tags"]
                            ELSE table[task[q].host].tags
    BY <2>1 DEF IInv, EditInv
  <2>4. CASE task[q].host # h BY <1>6, <1>7, <2>1, <2>2, <2>3, <2>4
  <2>5. CASE task[q].host = h /\ field # "tags" BY <1>4, <1>6, <1>7, <2>1, <2>2, <2>3, <2>5
  <2>6. CASE task[q].host = h /\ field = "tags" /\ task[q].field = "tags"
    <3>1. TagRace(r, h) BY <2>1, <2>6 DEF TagRace
    <3> QED BY <1>1, <2>1, <2>3, <2>6, <3>1
  <2>7. CASE task[q].field # "tags" BY <2>1, <2>3, <2>7
  <2> QED BY <2>4, <2>5, <2>6, <2>7
<1>15. DeleteInv'
  <2> SUFFICES ASSUME NEW q \in Request, task'[q].at = "deleting", task'[q].group # None,
                      NEW i \in task'[q].hosts, i \in Live'
      PROVE table'[i].group = task'[q].group \/ i \in moved'
    BY DEF DeleteInv
  <2>1. task'[q] = task[q] BY <1>8
  <2>2. i \in Host /\ moved \subseteq moved' BY <1>1, <1>7 DEF Live
  <2>3. CASE i = h BY <1>1, <1>6, <2>1, <2>2, <2>3
  <2>4. CASE i # h BY <1>6, <1>7, <2>1, <2>2, <2>4 DEF IInv, DeleteInv
  <2> QED BY <2>3, <2>4
<1>16. KnownInv'
  <2>1. ASSUME NEW i \in Host PROVE table'[i].state = table[i].state BY <1>4, <1>6
  <2>2. ASSUME NEW i \in Host, table[i].state = "new" PROVE told'[i] = {}
    <3>1. i # h /\ told[i] = {} BY <1>1, <2>2 DEF Live, IInv, KnownInv
    <3> QED BY <1>1, <3>1 DEF IInv, Types
  <2>3. ASSUME NEW q \in Request, task'[q].at = "editing"
        PROVE  table'[task'[q].host].state # "new"
    <3>1. task'[q] = task[q] /\ task[q].at = "editing" BY <1>8, <2>3
    <3>2. task[q].host \in Host BY <3>1 DEF IInv, EditInv
    <3> QED BY <2>1, <3>1, <3>2 DEF IInv, KnownInv
  <2>4. ASSUME NEW q \in Request, NEW i \in task'[q].hosts PROVE table'[i].state # "new"
    <3>1. task'[q] = task[q] /\ i \in Host BY <1>8, <2>4 DEF IInv, Types
    <3> QED BY <2>1, <2>4, <3>1 DEF IInv, KnownInv
  <2> QED BY <2>1, <2>2, <2>3, <2>4 DEF KnownInv
<1> QED BY <1>10, <1>11, <1>12, <1>14, <1>15, <1>16 DEF IInv

LEMMA CreateKeeps ==
  ASSUME IInv, NEW h \in Host, NEW n \in Name, NEW g \in Group \cup {None}, Create(h, n, g)
  PROVE  IInv'
<1> DEFINE new == [Unborn EXCEPT !.state = "live", !.name = n, !.group = g]
<1>1. /\ table[h].state = "new" /\ g \in groups \cup {None}
      /\ Write([table EXCEPT ![h] = new])
      /\ groups' = groups /\ sessions' = sessions /\ task' = task
      /\ told' = told /\ lapped' = lapped /\ moved' = moved
  BY DEF Create, history
<1>2. PICK u : u = Unborn OBVIOUS
<1>3. u \in Row /\ u.tags = {} BY <1>2, UnbornRow
<1>4. PICK live \in {"new", "live", "gone"} : live = "live" OBVIOUS
<1>5. new = [u EXCEPT !.state = live, !.name = n, !.group = g] BY <1>2, <1>4
<1> HIDE DEF new
<1>6. new \in Row /\ new.state = "live" /\ new.group = g /\ new.tags = {}
  BY <1>3, <1>4, <1>5 DEF Row
<1>7. /\ table' = [table EXCEPT ![h] = new]
      /\ {"at", "next"} \subseteq DOMAIN walk'
      /\ walk'.at \in {"idle", "page", "count", "done"} /\ walk'.next \in Nat \ {0}
  BY <1>1, WriteKeepsWalk
<1>8. /\ table' \in [Host -> Row] /\ table'[h] = new
      /\ \A i \in Host : i # h => table'[i] = table[i]
  BY <1>6, <1>7 DEF IInv, Types
<1>9. Live' = Live \cup {h} /\ h \notin Live BY <1>1, <1>6, <1>8 DEF Live
<1>10. Types' BY <1>1, <1>7, <1>8 DEF IInv, Types
<1>11. References'
  <2>1. ASSUME NEW i \in Live PROVE table'[i].group \in groups \cup {None}
    <3>1. i \in Host /\ table[i].group \in groups \cup {None} BY DEF Live, IInv, References
    <3> QED BY <1>8, <1>9, <3>1
  <2> QED BY <1>1, <1>6, <1>8, <1>9, <2>1 DEF IInv, References
<1>12. TagsTold'
  <2>1. told[h] = {} BY <1>1 DEF IInv, KnownInv
  <2>2. ASSUME NEW i \in Live, i \notin lapped PROVE table'[i].tags = told[i]
    <3>1. i \in Host /\ table[i].tags = told[i] BY <2>2 DEF Live, IInv, TagsTold
    <3> QED BY <1>8, <1>9, <3>1
  <2> QED BY <1>1, <1>6, <1>8, <1>9, <2>1, <2>2 DEF TagsTold
<1>14. EditInv'
  <2> SUFFICES ASSUME NEW q \in Request, task[q].at = "editing"
      PROVE /\ task[q].host \in Host /\ Put(task[q].put, task[q].field)
            /\ task[q].field = "tags" /\ task[q].host \in Live' /\ task[q].host \notin lapped =>
                 task[q].want = IF "tags" \in DOMAIN task[q].put THEN task[q].put["tags"]
                                ELSE table'[task[q].host].tags
    BY <1>1 DEF EditInv
  <2>1. task[q].host # h BY <1>1 DEF IInv, KnownInv
  <2> QED BY <1>8, <1>9, <2>1 DEF IInv, EditInv
<1>15. DeleteInv'
  <2> SUFFICES ASSUME NEW q \in Request, task[q].at = "deleting", task[q].group # None,
                      NEW i \in task[q].hosts, i \in Live'
      PROVE table'[i].group = task[q].group \/ i \in moved
    BY <1>1 DEF DeleteInv
  <2>1. i # h /\ i \in Host BY <1>1 DEF IInv, KnownInv, Types
  <2> QED BY <1>8, <1>9, <2>1 DEF IInv, DeleteInv
<1>16. KnownInv'
  <2>1. ASSUME NEW i \in Host, table'[i].state = "new" PROVE table[i].state = "new"
    BY <1>6, <1>8, <2>1
  <2>2. ASSUME NEW q \in Request, task[q].at = "editing"
        PROVE  task[q].host \in Host
    BY <2>2 DEF IInv, EditInv
  <2>3. \A q \in Request : task[q].hosts \subseteq Host BY DEF IInv, Types
  <2> QED BY <1>1, <2>1, <2>2, <2>3 DEF IInv, KnownInv
<1> QED BY <1>10, <1>11, <1>12, <1>14, <1>15, <1>16 DEF IInv

(* A step that leaves the rows, and puts the request where it knows only   *)
(* what is there and writes nothing.                                       *)
LEMMA TaskKeeps ==
  ASSUME IInv, NEW r \in Request, NEW k, task' = [task EXCEPT ![r] = k],
         k.at \in {"idle", "connecting", "deleting"}, k.put = << >>, k.want = {},
         k.hosts \subseteq Live, k.sessions \subseteq Session, k.group \in Group \cup {None},
         k.group # None => \A h \in k.hosts : table[h].group = k.group,
         UNCHANGED <<table, groups, walk, history>>,
         sessions' \in [Session -> Host \cup {None}],
         \A s \in Session : sessions'[s] \in Live \cup {None}
  PROVE  IInv'
<1>1. /\ task'[r] = k /\ DOMAIN task' = Request /\ task' = [q \in Request |-> task'[q]]
      /\ \A q \in Request : q # r => task'[q] = task[q]
      /\ Live' = Live /\ Live \subseteq Host
      /\ table' = table /\ groups' = groups /\ walk' = walk
      /\ told' = told /\ lapped' = lapped /\ moved' = moved
  BY DEF IInv, Types, Live, history
<1>2. Types' BY <1>1 DEF IInv, Types
<1>3. References' /\ TagsTold' BY <1>1 DEF IInv, References, TagsTold
<1>4. EditInv'
  <2>1. ASSUME NEW q \in Request, task'[q].at = "editing" PROVE q # r /\ task'[q] = task[q]
    BY <1>1, <2>1
  <2> QED BY <1>1, <2>1 DEF IInv, EditInv
<1>5. DeleteInv' BY <1>1 DEF IInv, DeleteInv
<1>6. KnownInv' BY <1>1 DEF IInv, KnownInv, Live
<1> QED BY <1>2, <1>3, <1>4, <1>5, <1>6 DEF IInv

(* Sessions, the loading of a delete, and the end without a change.        *)
LEMMA SessionKeeps ==
  ASSUME IInv, NEW r \in Request,
         \/ Quit(r)
         \/ \E h \in Host : LoadSession(r, h) \/ LoadDeleteHost(r, h)
         \/ \E s \in Session : CreateSession(r, s)
         \/ \E g \in Group : LoadDeleteGroup(r, g)
  PROVE  IInv'
<1>1. /\ sessions \in [Session -> Host \cup {None}]
      /\ \A s \in Session : sessions[s] \in Live \cup {None}
  BY DEF IInv, Types, References
<1>2. Idle.at = "idle" /\ Idle.put = << >> /\ Idle.want = {} /\ Idle.hosts = {}
      /\ Idle.sessions = {} /\ Idle.group = None
  BY IdleFields DEF Blank
<1>3. CASE Quit(r)
  <2>1. task' = [task EXCEPT ![r] = Idle] /\ UNCHANGED <<table, groups, sessions, walk, history>>
    BY <1>3 DEF Quit
  <2> QED BY <1>1, <1>2, <2>1, TaskKeeps
<1>4. ASSUME NEW h \in Host, LoadSession(r, h) PROVE IInv'
  <2>1. PICK n : n = Idle OBVIOUS
  <2>2. n \in Blank BY <2>1, IdleFields
  <2> DEFINE k == [n EXCEPT !.at = "connecting", !.host = h]
  <2>3. /\ k.at = "connecting" /\ k.put = << >> /\ k.want = {} /\ k.hosts = {}
        /\ k.sessions = {} /\ k.group = None
    BY <2>2 DEF Blank
  <2>4. task' = [task EXCEPT ![r] = k] /\ UNCHANGED <<table, groups, sessions, walk, history>>
    BY <1>4, <2>1 DEF LoadSession
  <2> HIDE DEF k
  <2> QED BY <1>1, <2>3, <2>4, TaskKeeps
<1>5. ASSUME NEW s \in Session, CreateSession(r, s) PROVE IInv'
  <2>1. /\ task' = [task EXCEPT ![r] = Idle] /\ UNCHANGED <<table, groups, walk, history>>
        /\ sessions' = [sessions EXCEPT ![s] = task[r].host] /\ task[r].host \in Live
    BY <1>5 DEF CreateSession
  <2>2. /\ sessions' \in [Session -> Host \cup {None}]
        /\ \A t \in Session : sessions'[t] \in Live \cup {None}
    BY <1>1, <2>1 DEF Live
  <2> QED BY <1>2, <2>1, <2>2, TaskKeeps
<1>6. ASSUME NEW g \in Group \cup {None}, NEW hs \in SUBSET Live, LoadDelete(r, g, hs),
             g # None => \A h \in hs : table[h].group = g
      PROVE  IInv'
  <2>1. PICK n : n = Idle OBVIOUS
  <2>2. n \in Blank BY <2>1, IdleFields
  <2> DEFINE ss == On(hs)
             k  == [n EXCEPT !.at = "deleting", !.group = g, !.hosts = hs, !.sessions = ss]
  <2>3. ss \subseteq Session BY DEF On
  <2>4. task' = [task EXCEPT ![r] = k] /\ UNCHANGED <<table, groups, sessions, walk, history>>
    BY <1>6, <2>1 DEF LoadDelete
  <2> HIDE DEF ss
  <2>5. /\ k.at = "deleting" /\ k.put = << >> /\ k.want = {} /\ k.hosts = hs
        /\ k.sessions = ss /\ k.group = g
    BY <2>2 DEF Blank
  <2> HIDE DEF k
  <2> QED BY <1>1, <1>6, <2>3, <2>4, <2>5, TaskKeeps
<1>7. ASSUME NEW h \in Host, LoadDeleteHost(r, h) PROVE IInv'
  BY <1>6, <1>7 DEF LoadDeleteHost
<1>8. ASSUME NEW g \in Group, LoadDeleteGroup(r, g) PROVE IInv'
  <2>1. In(g) \subseteq Live /\ \A h \in In(g) : table[h].group = g BY DEF In
  <2> QED BY <1>6, <1>8, <2>1 DEF LoadDeleteGroup
<1> QED BY <1>3, <1>4, <1>5, <1>7, <1>8

LEMMA DeleteKeeps ==
  ASSUME IInv, NEW r \in Request, Delete(r)
  PROVE  /\ IInv'
         /\ \A h \in Live : table'[h].state = "live" => table'[h] = table[h]
<1> DEFINE g    == task[r].group
           hs   == task[r].hosts
           gone == [Unborn EXCEPT !.state = "gone"]
           new  == [i \in Host |-> IF i \in hs THEN gone ELSE table[i]]
<1>1. /\ task[r].at = "deleting" /\ (g # None => In(g) \subseteq hs)
      /\ On(hs) \subseteq task[r].sessions /\ Write(new) /\ groups' = groups \ {g}
      /\ sessions' = [s \in Session |-> IF s \in task[r].sessions THEN None ELSE sessions[s]]
      /\ task' = [task EXCEPT ![r] = Idle]
      /\ told' = [i \in Host |-> IF i \in hs THEN {} ELSE told[i]]
      /\ lapped' = lapped \ hs /\ moved' = moved \ hs
  BY DEF Delete, Forget
<1>2. PICK u : u = Unborn OBVIOUS
<1>3. u \in Row /\ u.tags = {} BY <1>2, UnbornRow
<1>4. PICK away \in {"new", "live", "gone"} : away = "gone" OBVIOUS
<1>5. gone = [u EXCEPT !.state = away] BY <1>2, <1>4
<1> HIDE DEF gone
<1>6. gone \in Row /\ gone.state = "gone" /\ gone.tags = {}
  BY <1>3, <1>4, <1>5 DEF Row
<1>7. /\ table' = new
      /\ {"at", "next"} \subseteq DOMAIN walk'
      /\ walk'.at \in {"idle", "page", "count", "done"} /\ walk'.next \in Nat \ {0}
  BY <1>1, WriteKeepsWalk
<1>8. /\ table' \in [Host -> Row] /\ hs \subseteq Host
      /\ \A i \in hs : table'[i] = gone
      /\ \A i \in Host \ hs : table'[i] = table[i]
  BY <1>6, <1>7 DEF IInv, Types
<1>9. Live' = Live \ hs /\ Live \subseteq Host BY <1>6, <1>8 DEF Live
<1>10. /\ DOMAIN task' = Request /\ task' = [q \in Request |-> task'[q]]
       /\ \A q \in Request : \/ task'[q] = task[q] /\ q # r
                             \/ /\ task'[q].at = "idle" /\ task'[q].hosts = {}
                                /\ task'[q].sessions = {} /\ task'[q].group = None
                                /\ task'[q].put = << >> /\ task'[q].want = {} /\ q = r
  BY <1>1, DoneTasks
<1> HIDE DEF new
<1>11. Types'
  <2>1. \A q \in Request :
          /\ task'[q].at \in {"idle", "editing", "connecting", "deleting"}
          /\ task'[q].hosts \subseteq Host /\ task'[q].sessions \subseteq Session
          /\ task'[q].group \in Group \cup {None} /\ task'[q].want \subseteq Tag
          /\ task'[q].at # "editing" => task'[q].put = << >>
    BY <1>10 DEF IInv, Types
  <2>2. groups' \subseteq Group /\ sessions' \in [Session -> Host \cup {None}]
    BY <1>1 DEF IInv, Types
  <2>3. told' \in [Host -> SUBSET Tag] /\ lapped' \subseteq Host /\ moved' \subseteq Host
    BY <1>1 DEF IInv, Types
  <2> QED BY <1>7, <1>8, <1>10, <2>1, <2>2, <2>3 DEF Types
<1>12. References'
  <2>1. ASSUME NEW s \in Session PROVE sessions'[s] \in Live' \cup {None}
    <3>1. sessions[s] \in Live \cup {None} BY DEF IInv, References
    <3>2. s \in task[r].sessions => sessions'[s] = None BY <1>1
    <3>3. s \notin task[r].sessions => sessions'[s] = sessions[s] /\ sessions[s] \notin hs
      BY <1>1 DEF On
    <3> QED BY <1>9, <3>1, <3>2, <3>3
  <2>2. ASSUME NEW i \in Live' PROVE table'[i].group \in groups' \cup {None}
    <3>1. i \in Live /\ i \notin hs /\ table'[i] = table[i] BY <1>8, <1>9
    <3>2. table[i].group \in groups \cup {None} BY <3>1 DEF IInv, References
    <3>3. g # None => table[i].group # g BY <1>1, <3>1 DEF In
    <3> QED BY <1>1, <3>1, <3>2, <3>3
  <2> QED BY <2>1, <2>2 DEF References
<1>13. TagsTold'
  <2>1. ASSUME NEW i \in Live', i \notin lapped' PROVE table'[i].tags = told'[i]
    <3>1. i \in Live /\ i \notin hs /\ table'[i] = table[i] /\ told'[i] = told[i]
      BY <1>1, <1>8, <1>9
    <3> QED BY <1>1, <2>1, <3>1 DEF IInv, TagsTold
  <2> QED BY <2>1 DEF TagsTold
<1>15. EditInv'
  <2> SUFFICES ASSUME NEW q \in Request, task'[q].at = "editing"
      PROVE /\ task'[q].host \in Host /\ Put(task'[q].put, task'[q].field)
            /\ task'[q].field = "tags" /\ task'[q].host \in Live' /\ task'[q].host \notin lapped' =>
                 task'[q].want = IF "tags" \in DOMAIN task'[q].put THEN task'[q].put["tags"]
                                 ELSE table'[task'[q].host].tags
    BY DEF EditInv
  <2>1. task'[q] = task[q] BY <1>10
  <2>2. task[q].host \in Live' => table'[task[q].host] = table[task[q].host] BY <1>8, <1>9
  <2> QED BY <1>1, <1>9, <2>1, <2>2 DEF IInv, EditInv
<1>16. DeleteInv'
  <2> SUFFICES ASSUME NEW q \in Request, task'[q].at = "deleting", task'[q].group # None,
                      NEW i \in task'[q].hosts, i \in Live'
      PROVE table'[i].group = task'[q].group \/ i \in moved'
    BY DEF DeleteInv
  <2>1. task'[q] = task[q] BY <1>10
  <2>2. i \in Live /\ i \notin hs /\ table'[i] = table[i] BY <1>8, <1>9
  <2> QED BY <1>1, <2>1, <2>2 DEF IInv, DeleteInv
<1>17. KnownInv'
  <2>1. ASSUME NEW i \in Host, table'[i].state = "new"
        PROVE  table[i].state = "new" /\ told'[i] = {}
    <3>1. i \notin hs /\ table'[i] = table[i] BY <1>6, <1>8, <2>1
    <3> QED BY <1>1, <2>1, <3>1 DEF IInv, KnownInv
  <2>2. ASSUME NEW q \in Request, task'[q].at = "editing"
        PROVE  task'[q] = task[q] /\ task[q].host \in Host
    BY <1>10, <2>2 DEF IInv, EditInv
  <2>3. \A q \in Request : task'[q].hosts \subseteq task[q].hosts /\ task[q].hosts \subseteq Host
    BY <1>10 DEF IInv, Types
  <2> QED BY <2>1, <2>2, <2>3 DEF IInv, KnownInv
<1>18. \A h \in Live : table'[h].state = "live" => table'[h] = table[h]
  BY <1>6, <1>8, <1>9
<1> QED BY <1>11, <1>12, <1>13, <1>15, <1>16, <1>17, <1>18 DEF IInv

LEMMA WalkKeeps ==
  ASSUME IInv, (\E b \in BOOLEAN : StartWalk(b)) \/ QueryPage \/ QueryCount \/ EndWalk
  PROVE  IInv' /\ table' = table /\ groups' = groups
<1>1. UNCHANGED <<table, groups, sessions, task, history>>
  BY DEF StartWalk, QueryPage, QueryCount, EndWalk
<1> DEFINE Fine(w) == /\ {"at", "next"} \subseteq DOMAIN w
                      /\ w.at \in {"idle", "page", "count", "done"} /\ w.next \in Nat \ {0}
<1>2. Fine(walk')
  <2>1. Fine(walk) BY DEF IInv, Types
  <2>2. PICK n : n = NoWalk OBVIOUS
  <2>3. Fine(n) BY <2>2 DEF NoWalk
  <2>4. ASSUME NEW w, Fine(w), NEW at \in {"page", "count", "done"}, NEW x
        PROVE  /\ Fine([w EXCEPT !.at = at, !.seen = x]) /\ Fine([w EXCEPT !.at = at])
               /\ Fine([w EXCEPT !.at = at, !.favorites = x])
               /\ Fine([w EXCEPT !.at = at, !.next = w.next + 1])
    <3>1. PICK m \in Nat \ {0} : m = w.next + 1 BY <2>4
    <3>2. Fine([w EXCEPT !.at = at, !.seen = x]) BY <2>4
    <3>3. Fine([w EXCEPT !.at = at]) BY <2>4
    <3>4. Fine([w EXCEPT !.at = at, !.favorites = x]) BY <2>4
    <3>5. Fine([w EXCEPT !.at = at, !.next = m]) BY <2>4
    <3> HIDE DEF Fine
    <3> QED BY <3>1, <3>2, <3>3, <3>4, <3>5
  <2> HIDE DEF Fine
  <2>5. ASSUME NEW b \in BOOLEAN, StartWalk(b) PROVE Fine(walk')
    BY <2>2, <2>3, <2>4, <2>5 DEF StartWalk
  <2>6. CASE QueryPage
    <3>1. PICK x : walk' = [walk EXCEPT !.at = "count", !.seen = x] BY <2>6 DEF QueryPage
    <3> QED BY <2>1, <2>4, <3>1
  <2>7. CASE QueryCount BY <2>1, <2>4, <2>7 DEF QueryCount
  <2>8. CASE EndWalk BY <2>2, <2>3, <2>8 DEF EndWalk
  <2> QED BY <2>5, <2>6, <2>7, <2>8
<1> QED
  BY <1>1, <1>2 DEF IInv, Types, References, TagsTold, EditInv, DeleteInv, KnownInv,
     Live, history

LEMMA NextKeeps == IInv /\ [Next]_vars => IInv'
<1> SUFFICES ASSUME IInv, [Next]_vars PROVE IInv' OBVIOUS
<1>1. CASE UNCHANGED vars
  BY <1>1 DEF vars, IInv, Types, References, TagsTold, EditInv, DeleteInv, KnownInv,
     Live, history
<1> QED
  BY <1>1, CreateKeeps, LoadKeeps, CommitKeeps, SessionKeeps, DeleteKeeps, WalkKeeps DEF Next

LEMMA Invariant == Spec => []IInv
BY InitHolds, NextKeeps, PTL DEF Spec

-----------------------------------------------------------------------------
(* Rows, requests and walks keep their types.                              *)
THEOREM HostsTypeCorrect == Spec => []TypeOK
<1>1. ASSUME IInv PROVE TypeOK
  <2>1. DOMAIN Unborn = Column \cup {"state"} BY DEF Unborn, Column
  <2>2. ASSUME NEW r \in Request PROVE DOMAIN task[r].put \subseteq Column
    <3>1. CASE task[r].at = "editing" BY <1>1, <3>1 DEF IInv, EditInv, Put
    <3>2. CASE task[r].at # "editing" BY <1>1, <3>2 DEF IInv, Types
    <3> QED BY <3>1, <3>2
  <2>3. "state" \notin Column BY DEF Column
  <2> QED BY <1>1, <2>1, <2>2, <2>3 DEF IInv, Types, TypeOK
<1> QED BY <1>1, Invariant, PTL

(* A delete that takes hosts and sessions along leaves nothing pointing to *)
(* what is gone, whatever was moved or connected meanwhile.                *)
THEOREM ReferencesHold == Spec => []References
<1>1. IInv => References BY DEF IInv
<1> QED BY <1>1, Invariant, PTL

(* Tags are what the answers say, unless two changes of them overlapped.   *)
THEOREM TagsAreTold == Spec => []TagsTold
<1>1. IInv => TagsTold BY DEF IInv
<1> QED BY <1>1, Invariant, PTL

(* What a step does to a host that stays.                                  *)
Apart ==
  \A h \in Live : table'[h].state = "live" =>
    \A f \in DOMAIN Unborn : table'[h][f] # table[h][f] =>
      \E r \in Request : task[r].at = "editing" /\ task[r].host = h /\ task[r].field = f
                           /\ task'[r].at = "idle"

LEMMA ApartStep == IInv /\ [Next]_vars => Apart
<1> SUFFICES ASSUME IInv, [Next]_vars PROVE Apart OBVIOUS
<1>1. CASE table' = table BY <1>1 DEF Apart
<1>2. ASSUME NEW h \in Host, NEW n \in Name, NEW g \in Group \cup {None}, Create(h, n, g)
      PROVE  Apart
  <2>1. \A i \in Host : i # h => table'[i] = table[i]
    BY <1>2 DEF Create, Write, IInv, Types
  <2>2. h \notin Live /\ Live \subseteq Host BY <1>2 DEF Create, Live
  <2> QED BY <2>1, <2>2 DEF Apart
<1>3. ASSUME NEW r \in Request, Commit(r) PROVE Apart
  <2> DEFINE h == task[r].host
             new == Applied(task[r].put, table[h])
  <2>1. /\ task[r].at = "editing" /\ h \in Host /\ Put(task[r].put, task[r].field)
        /\ table[h] \in Row /\ table \in [Host -> Row]
    BY <1>3 DEF Commit, IInv, Types, EditInv
  <2>2. table' = [table EXCEPT ![h] = new] BY <1>3 DEF Commit, Write, Applied
  <2>3. \A f \in DOMAIN table[h] : f # task[r].field => new[f] = table[h][f]
    BY <2>1 DEF Applied, Put
  <2>4. task'[r].at = "idle" BY <1>3, IdleFields DEF Commit, IInv, Types, Blank
  <2>5. DOMAIN Unborn = DOMAIN table[h] BY <2>1 DEF Unborn, Row
  <2> HIDE DEF new
  <2>6. table'[h] = new /\ \A i \in Host : i # h => table'[i] = table[i] BY <2>1, <2>2
  <2>7. Live \subseteq Host BY DEF Live
  <2> QED BY <2>1, <2>3, <2>4, <2>5, <2>6, <2>7 DEF Apart
<1>4. ASSUME NEW r \in Request, Delete(r) PROVE Apart BY <1>4, DeleteKeeps DEF Apart
<1>5. ASSUME NEW r \in Request, NEW h \in Host, NEW field, NEW asked, NEW new,
             LoadEdit(r, h, field, asked, new)
      PROVE  table' = table
  BY <1>5 DEF LoadEdit
<1>6. ASSUME NEW r \in Request, NEW h \in Host,
         \/ \E n \in Name : LoadRename(r, h, n)
         \/ \E b \in BOOLEAN : LoadFavorite(r, h, b)
         \/ \E g \in Group \cup {None} : LoadMove(r, h, g)
         \/ \E S \in SUBSET Tag : PutTags(r, h, S)
         \/ \E t \in Tag : AddTags(r, h, t) \/ RemoveTags(r, h, t)
         \/ \E p \in Port : AddPortForwarding(r, h, p) \/ RemovePortForwarding(r, h, p)
      PROVE table' = table
  BY <1>5, <1>6 DEF LoadRename, LoadFavorite, LoadMove, PutTags, AddTags, RemoveTags,
     AddPortForwarding, RemovePortForwarding
<1>7. ASSUME NEW r \in Request,
         \/ Quit(r)
         \/ \E h \in Host : LoadSession(r, h) \/ LoadDeleteHost(r, h)
         \/ \E s \in Session : CreateSession(r, s)
         \/ \E g \in Group : LoadDeleteGroup(r, g)
      PROVE table' = table
  BY <1>7 DEF Quit, LoadSession, LoadDeleteHost, LoadDelete, CreateSession, LoadDeleteGroup
<1>8. CASE UNCHANGED vars BY <1>1, <1>8 DEF vars
<1> QED BY <1>1, <1>2, <1>3, <1>4, <1>6, <1>7, <1>8, WalkKeeps DEF Next

(* Requests about different columns of one host cannot undo each other.    *)
THEOREM ColumnsAreApart == Spec => ColumnsApart
<1>1. IInv /\ [Next]_vars => [Apart]_vars BY ApartStep
<1> QED BY <1>1, Invariant, PTL DEF Spec, ColumnsApart, Apart

(* What a step may take along with a group.                                *)
Spared ==
  \A h \in Live : table'[h].state = "gone" /\ groups' # groups =>
    table[h].group \in groups \ groups' \/ h \in moved

LEMMA SparedStep == IInv /\ [Next]_vars => Spared
<1> SUFFICES ASSUME IInv, [Next]_vars PROVE Spared OBVIOUS
<1>1. CASE groups' = groups BY <1>1 DEF Spared
<1>2. ASSUME NEW r \in Request, Delete(r) PROVE Spared
  <2> DEFINE g == task[r].group
             new == [i \in Host |-> IF i \in task[r].hosts
                                    THEN [Unborn EXCEPT !.state = "gone"] ELSE table[i]]
  <2> SUFFICES ASSUME NEW h \in Live, table'[h].state = "gone", groups' # groups
      PROVE  table[h].group \in groups \ groups' \/ h \in moved
    BY DEF Spared
  <2>1. task[r].at = "deleting" /\ groups' = groups \ {g} /\ table' = new
    BY <1>2 DEF Delete, Write
  <2>2. g \in groups /\ g # None BY <2>1, HostsAssumption DEF IInv, Types
  <2>3. h \in Host /\ table[h].state = "live" BY DEF Live
  <2>4. h \notin task[r].hosts => table'[h] = table[h] BY <2>1, <2>3
  <2>5. h \in task[r].hosts BY <2>3, <2>4
  <2>6. table[h].group = g \/ h \in moved BY <2>1, <2>2, <2>5 DEF IInv, DeleteInv
  <2> QED BY <2>1, <2>2, <2>6
<1>3. ASSUME NEW h \in Host, NEW n \in Name, NEW g \in Group \cup {None}, Create(h, n, g)
      PROVE  groups' = groups
  BY <1>3 DEF Create
<1>4. ASSUME NEW r \in Request, NEW h \in Host, NEW field, NEW asked, NEW new,
             LoadEdit(r, h, field, asked, new)
      PROVE  groups' = groups
  BY <1>4 DEF LoadEdit
<1>5. ASSUME NEW r \in Request, NEW h \in Host,
         \/ \E n \in Name : LoadRename(r, h, n)
         \/ \E b \in BOOLEAN : LoadFavorite(r, h, b)
         \/ \E g \in Group \cup {None} : LoadMove(r, h, g)
         \/ \E S \in SUBSET Tag : PutTags(r, h, S)
         \/ \E t \in Tag : AddTags(r, h, t) \/ RemoveTags(r, h, t)
         \/ \E p \in Port : AddPortForwarding(r, h, p) \/ RemovePortForwarding(r, h, p)
      PROVE groups' = groups
  BY <1>4, <1>5 DEF LoadRename, LoadFavorite, LoadMove, PutTags, AddTags, RemoveTags,
     AddPortForwarding, RemovePortForwarding
<1>6. ASSUME NEW r \in Request,
         \/ Quit(r) \/ Commit(r)
         \/ \E h \in Host : LoadSession(r, h) \/ LoadDeleteHost(r, h)
         \/ \E s \in Session : CreateSession(r, s)
         \/ \E g \in Group : LoadDeleteGroup(r, g)
      PROVE groups' = groups
  BY <1>6 DEF Quit, Commit, LoadSession, LoadDeleteHost, LoadDelete, CreateSession,
     LoadDeleteGroup
<1>7. CASE UNCHANGED vars BY <1>1, <1>7 DEF vars
<1> QED BY <1>1, <1>2, <1>3, <1>5, <1>6, <1>7, WalkKeeps DEF Next

(* A group takes its own hosts along, and what was moved away too late.    *)
THEOREM HostsAreSpared == Spec => HostsSpared
<1>1. IInv /\ [Next]_vars => [Spared]_vars BY SparedStep
<1> QED BY <1>1, Invariant, PTL DEF Spec, HostsSpared, Spared

-----------------------------------------------------------------------------
(* The walk over the pages of GET /hosts. All listings of an unchanged     *)
(* table show the same name at the same place.                             *)

Count == Cardinality(Matching)

(* There are finitely many hosts to list.                                 *)
LEMMA MatchingFinite ==
  /\ Matching \subseteq Host /\ IsFiniteSet(Matching) /\ Count \in Nat
<1>1. Matching \subseteq Host BY DEF Matching, Live
<1>2. IsFiniteSet(Host) BY HostsAssumption
<1> QED BY <1>1, <1>2, FS_Subset, FS_CardinalityType DEF Count

(* A listing has each host that matches at one place, by name.            *)
LEMMA ListingFields ==
  ASSUME NEW s \in Listings
  PROVE  /\ s \in [1..Count -> Matching] /\ DOMAIN s = 1..Count /\ Len(s) = Count
         /\ \A i, j \in 1..Count : s[i] = s[j] => i = j
         /\ \A i, j \in 1..Count : i < j => table[s[i]].name <= table[s[j]].name
         /\ \A h \in Matching : \E i \in 1..Count : s[i] = h
<1>1. /\ s \in [1..Count -> Matching]
      /\ \A i, j \in 1..Count : i # j => s[i] # s[j]
      /\ \A i, j \in DOMAIN s : i < j => table[s[i]].name <= table[s[j]].name
  BY DEF Listings, SetToSeqs, Count
<1>2. DOMAIN s = 1..Count BY <1>1
<1>3. Len(s) = Count BY <1>1, <1>2, MatchingFinite
<1>4. s \in Injection(1..Count, Matching) BY <1>1, <1>2 DEF Injection, IsInjective
<1>5. IsFiniteSet(1..Count) /\ Cardinality(1..Count) = Count BY MatchingFinite, FS_Interval
<1>6. s \in Surjection(1..Count, Matching) BY <1>4, <1>5, MatchingFinite, FS_Injection DEF Count
<1>7. \A h \in Matching : \E i \in 1..Count : s[i] = h BY <1>6 DEF Surjection
<1> QED BY <1>1, <1>2, <1>3, <1>7

(* If the i-th name of t were later than that of s, the first i hosts of s*)
(* would all be among the first i - 1 of t.                               *)
LEMMA NamesAgreeHalf ==
  ASSUME Types, NEW s \in Listings, NEW t \in Listings, NEW i \in 1..Count
  PROVE  ~(table[s[i]].name < table[t[i]].name)
<1> SUFFICES ASSUME table[s[i]].name < table[t[i]].name PROVE FALSE OBVIOUS
<1> DEFINE name(h) == table[h].name
<1>1. Count \in Nat /\ i \in Nat BY MatchingFinite
<1>2. \A h \in Matching : name(h) \in Int
  BY MatchingFinite, HostsAssumption DEF Types, Row
<1> DEFINE f == [j \in 1..i |-> CHOOSE k \in 1..Count : t[k] = s[j]]
<1>3. \A j \in 1..i : f[j] \in 1..Count /\ t[f[j]] = s[j]
  <2> TAKE j \in 1..i
  <2>1. j \in 1..Count BY <1>1
  <2>2. \E k \in 1..Count : t[k] = s[j] BY <2>1, ListingFields
  <2>3. f[j] = CHOOSE k \in 1..Count : t[k] = s[j] OBVIOUS
  <2> HIDE DEF f
  <2> QED BY <2>2, <2>3
<1>4. \A j \in 1..i : f[j] \in 1..(i-1)
  <2> SUFFICES ASSUME NEW j \in 1..i PROVE f[j] \in 1..(i-1) OBVIOUS
  <2>1. j \in 1..Count /\ j <= i BY <1>1
  <2>2. s[j] \in Matching /\ s[i] \in Matching /\ t[i] \in Matching BY <2>1, ListingFields
  <2>3. name(s[j]) <= name(s[i])
    <3>1. CASE j = i BY <1>2, <2>2, <3>1
    <3>2. CASE j < i BY <2>1, <3>2, ListingFields
    <3> QED BY <1>1, <2>1, <3>1, <3>2
  <2>4. name(s[j]) < name(t[i]) BY <1>2, <2>2, <2>3
  <2>5. f[j] \in 1..Count /\ t[f[j]] = s[j] BY <1>3
  <2>6. ~(i <= f[j])
    <3> SUFFICES ASSUME i <= f[j] PROVE FALSE OBVIOUS
    <3> HIDE DEF f
    <3>1. name(t[i]) <= name(t[f[j]])
      <4>1. CASE i = f[j] BY <1>2, <2>2, <4>1
      <4>2. CASE i < f[j] BY <2>5, <4>2, ListingFields
      <4> QED BY <1>1, <2>5, <4>1, <4>2
    <3> QED BY <1>2, <2>2, <2>4, <2>5, <3>1
  <2> HIDE DEF f
  <2> QED BY <1>1, <2>5, <2>6
<1>5. f \in [1..i -> 1..(i-1)]
  <2>1. f = [j \in 1..i |-> f[j]] OBVIOUS
  <2> HIDE DEF f
  <2> QED BY <1>4, <2>1
<1> HIDE DEF f
<1>6. /\ IsFiniteSet(1..i) /\ Cardinality(1..i) = i
      /\ IsFiniteSet(1..(i-1)) /\ Cardinality(1..(i-1)) = i - 1
  <2>1. 1 \in Int /\ i \in Int /\ i - 1 \in Int /\ i >= 1 BY <1>1
  <2> QED BY <2>1, FS_Interval
<1>7. PICK j, k \in 1..i : j # k /\ f[j] = f[k]
  <2>1. Cardinality(1..(i-1)) < Cardinality(1..i) BY <1>1, <1>6
  <2> QED BY <1>5, <1>6, <2>1, FS_PigeonHole
<1>8. s[j] = s[k] /\ j \in 1..Count /\ k \in 1..Count BY <1>1, <1>3, <1>7
<1> QED BY <1>7, <1>8, ListingFields

(* All listings show the same names in the same places.                    *)
LEMMA NamesAgree ==
  ASSUME Types, NEW s \in Listings, NEW t \in Listings, NEW i \in 1..Count
  PROVE  table[s[i]].name = table[t[i]].name
<1>1. s[i] \in Matching /\ t[i] \in Matching BY ListingFields
<1>2. table[s[i]].name \in Int /\ table[t[i]].name \in Int
  BY <1>1, MatchingFinite, HostsAssumption DEF Types, Row
<1> QED BY <1>2, NamesAgreeHalf

-----------------------------------------------------------------------------
(* How far the client has come.                                            *)
WalkShape ==
  walk \in [at : {"idle", "page", "count", "done"}, favorites : BOOLEAN,
            next : Nat \ {0}, seen : Seq(Host), steady : BOOLEAN]

(* Unless a write was noticed, the client has seen as many entries as the *)
(* pages it asked for hold, with the names every listing has there.       *)
SeenInv ==
  walk.steady /\ walk.at # "idle" =>
    /\ Len(walk.seen) <= Count
    /\ walk.at = "page" => Len(walk.seen) = Offset(walk.next)
    /\ walk.at = "count" =>
         \/ Len(walk.seen) = Offset(walk.next + 1)
         \/ Len(walk.seen) = Count /\ Count <= Offset(walk.next + 1)
    /\ walk.at = "done" => Len(walk.seen) = Count
    /\ walk.at # "page" => Listings # {}
    /\ \A i \in 1..Len(walk.seen) : walk.seen[i] \in Matching
    /\ \A s \in Listings : \A i \in 1..Len(walk.seen) :
         table[walk.seen[i]].name = table[s[i]].name

WalkInv == WalkShape /\ SeenInv

(* There are pages just for the entries there are.                         *)
LEMMA PagesEnough ==
  ASSUME NEW total \in Nat, NEW page \in Nat \ {0}
  PROVE  /\ Offset(page) \in Nat /\ Offset(page + 1) = Offset(page) + Size
         /\ page < TotalPages(total) <=> Offset(page + 1) < total
<1>1. Size \in Nat \ {0} BY HostsAssumption
<1>2. /\ Offset(page) \in Nat
      /\ Offset(page + 1) = Offset(page) + Size /\ Offset(page + 1) = page * Size
  BY <1>1 DEF Offset
<1> DEFINE q == (total + Size - 1) \div Size
           m == (total + Size - 1) % Size
<1>3. q \in Int /\ m \in 0..(Size - 1) /\ total + Size - 1 = Size * q + m
  BY <1>1
<1> HIDE DEF q, m
<1>4. ASSUME page < q PROVE page * Size < total
  <2>1. Size * (page + 1) <= Size * q BY <1>1, <1>3, <1>4
  <2>2. Size * (page + 1) = page * Size + Size BY <1>1
  <2>3. page * Size \in Nat /\ Size * q \in Int BY <1>1, <1>3
  <2> QED BY <1>1, <1>3, <2>1, <2>2, <2>3
<1>5. ASSUME ~(page < q) PROVE ~(page * Size < total)
  <2>1. Size * q <= Size * page BY <1>1, <1>3, <1>5
  <2>2. Size * page = page * Size /\ page * Size \in Nat /\ Size * q \in Int BY <1>1, <1>3
  <2> QED BY <1>1, <1>3, <2>1, <2>2
<1> QED BY <1>2, <1>4, <1>5 DEF TotalPages, q

(* A page is the piece of the listing from its offset on, if there is one.*)
LEMMA PageOfListing ==
  ASSUME NEW s \in Listings, NEW offset \in Nat, offset <= Count
  PROVE  LET n == IF offset + Size <= Count THEN offset + Size ELSE Count
         IN  /\ Page(s, offset) \in Seq(Matching) /\ Len(Page(s, offset)) = n - offset
             /\ \A i \in 1..(n - offset) : Page(s, offset)[i] = s[offset + i]
<1> DEFINE n == IF offset + Size <= Count THEN offset + Size ELSE Count
<1>1. Size \in Nat \ {0} /\ Count \in Nat /\ Len(s) = Count
  BY HostsAssumption, MatchingFinite, ListingFields
<1>2. Min({Len(s), offset + Size}) = n
  <2>1. n \in {Count, offset + Size} /\ \A y \in {Count, offset + Size} : n <= y BY <1>1
  <2>2. \A x \in {Count, offset + Size} :
          (\A y \in {Count, offset + Size} : x <= y) => x = n
    BY <1>1, <2>1
  <2> QED BY <1>1, <2>1, <2>2 DEF Min
<1>3. n \in Nat /\ n >= offset /\ n <= Count BY <1>1
<1> HIDE DEF n
<1>4. Page(s, offset) = SubSeq(s, offset + 1, n) BY <1>2 DEF Page
<1>5. \A i \in (offset + 1)..n : s[i] \in Matching
  <2>1. \A i \in (offset + 1)..n : i \in 1..Count BY <1>1, <1>3
  <2> QED BY <2>1, ListingFields
<1>6. /\ SubSeq(s, offset + 1, n) \in Seq(Matching)
      /\ Len(SubSeq(s, offset + 1, n)) = IF offset + 1 <= n THEN n - (offset + 1) + 1 ELSE 0
      /\ \A i \in 1..(n - (offset + 1) + 1) :
           SubSeq(s, offset + 1, n)[i] = s[(offset + 1) + i - 1]
  <2>1. offset + 1 \in Int /\ n \in Int BY <1>3
  <2> QED BY <1>5, <2>1, SubSeqProperties
<1>7. /\ n - (offset + 1) + 1 = n - offset
      /\ (IF offset + 1 <= n THEN n - (offset + 1) + 1 ELSE 0) = n - offset
      /\ \A i \in 1..(n - offset) : (offset + 1) + i - 1 = offset + i
  BY <1>3
<1> QED BY <1>4, <1>6, <1>7 DEF n

-----------------------------------------------------------------------------
(* Listings depend on three columns of the hosts.                          *)
Stable ==
  \A h \in Host : /\ table'[h].state = table[h].state
                  /\ table'[h].name = table[h].name
                  /\ table'[h].favorite = table[h].favorite

LEMMA SameListings ==
  ASSUME Stable, walk'.favorites = walk.favorites
  PROVE  Matching' = Matching /\ Count' = Count /\ Listings' = Listings
<1>1. Matching' = Matching BY DEF Matching, Live, Stable
<1>2. Count' = Count BY <1>1 DEF Count
<1>3. \A t \in SetToSeqs(Matching) : \A i \in DOMAIN t : t[i] \in Host
  BY MatchingFinite DEF SetToSeqs
<1>4. Listings' = {t \in SetToSeqs(Matching) :
                    \A i, j \in DOMAIN t : i < j => table'[t[i]].name <= table'[t[j]].name}
  BY <1>1 DEF Listings
<1>5. Listings' = Listings BY <1>3, <1>4 DEF Listings, Stable
<1> QED BY <1>1, <1>2, <1>5

(* What the client has seen does not change while nothing changes.        *)
LEMMA StillSeen ==
  ASSUME WalkInv, Stable, walk' = walk
  PROVE  WalkInv'
<1>1. Matching' = Matching /\ Count' = Count /\ Listings' = Listings
  BY SameListings
<1>2. WalkShape' BY DEF WalkInv, WalkShape
<1>3. CASE ~(walk.steady /\ walk.at # "idle") BY <1>2, <1>3 DEF WalkInv, SeenInv
<1>4. CASE walk.steady /\ walk.at # "idle"
  <2>1. Len(walk.seen) \in Nat /\ Len(walk.seen) <= Count /\ Count \in Nat
    BY <1>4, MatchingFinite, LenProperties DEF WalkInv, WalkShape, SeenInv
  <2>2. ASSUME NEW s \in Listings, NEW i \in 1..Len(walk.seen)
        PROVE  table'[walk.seen[i]].name = table'[s[i]].name
    <3>1. i \in 1..Count BY <2>1
    <3>2. s[i] \in Host /\ walk.seen[i] \in Host
      BY <1>4, <3>1, ListingFields, MatchingFinite DEF WalkInv, SeenInv
    <3>3. table[walk.seen[i]].name = table[s[i]].name BY <1>4 DEF WalkInv, SeenInv
    <3> QED BY <3>2, <3>3 DEF Stable
  <2>3. SeenInv'
    BY <1>1, <1>4, <2>2 DEF WalkInv, SeenInv, Offset
  <2> QED BY <1>2, <2>3 DEF WalkInv
<1> QED BY <1>3, <1>4

(* What a write does to a walk.                                            *)
Noticed ==
  \/ Stable /\ walk' = walk
  \/ walk' = [walk EXCEPT !.steady = FALSE, !.seen = << >>]

(* A write leaves the listed columns alone, or makes the walk unsteady.   *)
LEMMA WriteNoticed ==
  ASSUME NEW new, Write(new)
  PROVE  Noticed
<1> DEFINE same == \A h \in Host, f \in {"state", "name", "favorite"} : new[h][f] = table[h][f]
<1>1. table' = new /\ walk' = IF same THEN walk ELSE [walk EXCEPT !.steady = FALSE, !.seen = << >>]
  BY DEF Write
<1>2. CASE same
  <2>1. Stable BY <1>1, <1>2 DEF Stable
  <2> QED BY <1>1, <1>2, <2>1 DEF Noticed
<1>3. CASE ~same
  <2> HIDE DEF same
  <2> QED BY <1>1, <1>3 DEF Noticed
<1> QED BY <1>2, <1>3

(* Either way what is known of the walk stays true.                        *)
LEMMA NoticedKeepsWalk ==
  ASSUME WalkInv, Noticed
  PROVE  WalkInv'
<1>1. CASE walk' = [walk EXCEPT !.steady = FALSE, !.seen = << >>]
  <2>1. << >> \in Seq(Host) BY EmptySeq
  <2>2. WalkShape' /\ ~walk'.steady BY <1>1, <2>1 DEF WalkInv, WalkShape
  <2> QED BY <2>2 DEF WalkInv, SeenInv
<1> QED BY <1>1, StillSeen DEF Noticed

(* The first page is asked for.                                            *)
LEMMA StartKeepsWalk ==
  ASSUME NEW b \in BOOLEAN, WalkInv, StartWalk(b)
  PROVE  WalkInv'
<1>1. << >> \in Seq(Host) /\ Len(<< >>) = 0 BY EmptySeq
<1>2. /\ walk'.at = "page" /\ walk'.next = 1 /\ walk'.seen = << >>
      /\ WalkShape'
  <2>1. PICK n : n = NoWalk OBVIOUS
  <2>2. n \in [at : {"idle"}, favorites : {FALSE}, next : {1}, seen : {<< >>}, steady : {TRUE}]
    BY <2>1 DEF NoWalk
  <2>3. PICK m : m = [n EXCEPT !.at = "page"] OBVIOUS
  <2>5. walk' = [m EXCEPT !.favorites = b] BY <2>1, <2>3 DEF StartWalk
  <2>6. m \in [at : {"page"}, favorites : {FALSE}, next : {1}, seen : {<< >>}, steady : {TRUE}]
    BY <2>2, <2>3
  <2>4. walk' \in [at : {"page"}, favorites : BOOLEAN, next : {1}, seen : {<< >>}, steady : {TRUE}]
    BY <2>5, <2>6
  <2>7. /\ walk'.at = "page" /\ walk'.next = 1 /\ walk'.seen = << >> /\ walk'.favorites \in BOOLEAN
        /\ walk' = [at |-> "page", favorites |-> walk'.favorites, next |-> 1, seen |-> << >>,
                    steady |-> TRUE]
    BY <2>4
  <2>8. [at |-> "page", favorites |-> walk'.favorites, next |-> 1, seen |-> << >>, steady |-> TRUE]
        \in [at : {"idle", "page", "count", "done"}, favorites : BOOLEAN, next : Nat \ {0},
            seen : Seq(Host), steady : BOOLEAN]
    <3>1. PICK f : f = walk'.favorites OBVIOUS
    <3>2. PICK e : e = << >> OBVIOUS
    <3>3. f \in BOOLEAN /\ e \in Seq(Host) BY <1>1, <2>7, <3>1, <3>2
    <3> QED BY <3>1, <3>2, <3>3
  <2>9. WalkShape' BY <2>7, <2>8 DEF WalkShape
  <2> QED BY <2>7, <2>9
<1>3. Offset(1) = 0 BY HostsAssumption DEF Offset
<1>4. (Count \in Nat)'
  <2>1. Matching' \subseteq Host BY DEF Matching, Live
  <2>2. IsFiniteSet(Host) BY HostsAssumption
  <2>3. IsFiniteSet(Matching') BY <2>1, <2>2, FS_Subset
  <2> QED BY <2>3, FS_CardinalityType DEF Count
<1>5. SeenInv' BY <1>1, <1>2, <1>3, <1>4 DEF SeenInv, Offset
<1> QED BY <1>2, <1>5 DEF WalkInv

(* A page adds what a listing has at its places.                           *)
LEMMA QueryKeepsWalk ==
  ASSUME Types, WalkInv, QueryPage
  PROVE  WalkInv'
<1> USE DEF WalkInv
<1>1. PICK s \in Listings :
        walk' = [walk EXCEPT !.at = "count",
                   !.seen = IF walk.steady THEN @ \o Page(s, Offset(walk.next)) ELSE @]
  BY DEF QueryPage
<1>2. walk.at = "page" /\ table' = table BY DEF QueryPage
<1> DEFINE off == Offset(walk.next)
           page == Page(s, off)
           all == walk.seen \o page
           n == IF off + Size <= Count THEN off + Size ELSE Count
<1>3. CASE ~walk.steady
  <2>1. WalkShape' /\ ~walk'.steady BY <1>1, <1>3 DEF WalkShape
  <2> QED BY <2>1 DEF SeenInv
<1>4. CASE walk.steady
  <2>1. /\ walk.next \in Nat \ {0} /\ off \in Nat /\ Count \in Nat /\ off <= Count
        /\ Offset(walk.next + 1) = off + Size /\ Size \in Nat \ {0}
        /\ walk.seen \in Seq(Host) /\ Len(walk.seen) = off
    BY <1>2, <1>4, MatchingFinite, PagesEnough, HostsAssumption DEF WalkShape, SeenInv
  <2> HIDE DEF off
  <2>5. n \in Nat /\ off <= n /\ n <= Count /\ off + (n - off) = n BY <2>1
  <2>10. n = off + Size \/ (n = Count /\ Count <= off + Size) BY <2>1
  <2>2. /\ page \in Seq(Matching) /\ Len(page) = n - off
        /\ \A i \in 1..(n - off) : page[i] = s[off + i]
    BY <2>1, PageOfListing
  <2>3. page \in Seq(Host) BY <2>2, MatchingFinite, SeqMonotonic
  <2> HIDE DEF page, n
  <2>4. /\ all \in Seq(Host) /\ Len(all) = off + (n - off)
        /\ \A i \in 1..(off + (n - off)) : all[i] = IF i <= off THEN walk.seen[i] ELSE page[i - off]
    <3>1. /\ all \in Seq(Host) /\ Len(all) = Len(walk.seen) + Len(page)
          /\ \A i \in 1..(Len(walk.seen) + Len(page)) :
               all[i] = IF i <= Len(walk.seen) THEN walk.seen[i] ELSE page[i - Len(walk.seen)]
      BY <2>1, <2>3, ConcatProperties
    <3> HIDE DEF all
    <3> QED BY <2>1, <2>2, <3>1
  <2>6. /\ walk'.at = "count" /\ walk'.next = walk.next /\ walk'.seen = all
        /\ walk'.favorites = walk.favorites /\ WalkShape'
    BY <1>1, <1>4, <2>4 DEF WalkShape, off, page
  <2>7. Matching' = Matching /\ Count' = Count /\ Listings' = Listings
    BY <1>2, <2>6, SameListings DEF Stable
  <2> HIDE DEF all
  <2>8. ASSUME NEW i \in 1..n
        PROVE  all[i] \in Matching /\ \A t \in Listings : table[all[i]].name = table[t[i]].name
    <3>1. i \in 1..Count BY <2>1, <2>5
    <3>2. CASE i <= off
      <4>1. all[i] = walk.seen[i] /\ i \in 1..Len(walk.seen) BY <2>1, <2>4, <2>5, <3>2
      <4> QED BY <1>2, <1>4, <4>1 DEF SeenInv
    <3>3. CASE ~(i <= off)
      <4>1. i - off \in 1..(n - off) /\ off + (i - off) = i BY <2>1, <2>5, <3>3
      <4>2. all[i] = page[i - off] BY <2>4, <2>5, <3>3
      <4>3. page[i - off] = s[off + (i - off)] BY <2>2, <4>1
      <4>4. all[i] = s[i] BY <4>1, <4>2, <4>3
      <4>5. s[i] \in Matching BY <3>1, ListingFields
      <4>6. \A t \in Listings : table[s[i]].name = table[t[i]].name BY <3>1, NamesAgree
      <4> QED BY <4>4, <4>5, <4>6
    <3> QED BY <3>2, <3>3
  <2>9. Len(all) = n BY <2>4, <2>5
  <2>11. Offset(walk.next + 1)' = Offset(walk.next + 1) BY <2>6 DEF Offset
  <2>12. SeenInv'
    BY <1>2, <2>1, <2>5, <2>6, <2>7, <2>8, <2>9, <2>10, <2>11 DEF SeenInv
  <2> QED BY <2>6, <2>12
<1> QED BY <1>3, <1>4

(* The total tells whether there is another page.                          *)
LEMMA CountKeepsWalk ==
  ASSUME WalkInv, QueryCount
  PROVE  WalkInv'
<1> USE DEF WalkInv
<1> DEFINE more == walk.next < TotalPages(Count)
<1>1. /\ walk.at = "count" /\ table' = table
      /\ walk' = IF more THEN [walk EXCEPT !.at = "page", !.next = walk.next + 1]
                 ELSE [walk EXCEPT !.at = "done"]
  BY DEF QueryCount, Count
<1>2. walk.next \in Nat \ {0} /\ walk.next + 1 \in Nat \ {0} BY DEF WalkShape
<1>3. more <=> Offset(walk.next + 1) < Count BY <1>2, MatchingFinite, PagesEnough
<1>4. Offset(walk.next + 1) \in Nat /\ Count \in Nat BY <1>2, MatchingFinite, PagesEnough
<1> HIDE DEF more
<1>5. /\ WalkShape' /\ walk'.seen = walk.seen /\ walk'.steady = walk.steady
      /\ walk'.favorites = walk.favorites
      /\ more => walk'.at = "page" /\ walk'.next = walk.next + 1
      /\ ~more => walk'.at = "done"
  BY <1>1, <1>2 DEF WalkShape
<1>6. Matching' = Matching /\ Count' = Count /\ Listings' = Listings
  BY <1>1, <1>5, SameListings DEF Stable
<1>7. Len(walk.seen) \in Nat BY LenProperties DEF WalkShape
<1>8. CASE walk.steady
  <2>1. more => Len(walk.seen) = Offset(walk.next + 1)
    BY <1>1, <1>3, <1>4, <1>8 DEF SeenInv
  <2>2. ~more => Len(walk.seen) = Count
    BY <1>1, <1>3, <1>4, <1>7, <1>8 DEF SeenInv
  <2>3. more => Offset(walk'.next) = Offset(walk.next + 1) BY <1>5 DEF Offset
  <2>4. SeenInv' BY <1>1, <1>5, <1>6, <1>8, <2>1, <2>2, <2>3 DEF SeenInv, Offset
  <2> QED BY <1>5, <2>4
<1>9. CASE ~walk.steady BY <1>5, <1>9 DEF SeenInv
<1> QED BY <1>8, <1>9

(* Every step keeps it.                                                    *)
LEMMA WalkStep == Types /\ WalkInv /\ [Next]_vars => WalkInv'
<1> SUFFICES ASSUME Types, WalkInv, [Next]_vars PROVE WalkInv' OBVIOUS
<1>1. CASE UNCHANGED <<table, walk>> BY <1>1, StillSeen DEF Stable
<1>2. CASE \E h \in Host, n \in Name, g \in Group \cup {None} : Create(h, n, g)
  <2>1. Noticed BY <1>2 DEF Create, Write, Noticed, Stable
  <2> QED BY <2>1, NoticedKeepsWalk
<1>3. ASSUME NEW r \in Request, Commit(r) \/ Delete(r) PROVE WalkInv'
  <2>1. CASE Commit(r)
    <3>1. PICK t : t = [table EXCEPT ![task[r].host] = Applied(task[r].put, table[task[r].host])]
      OBVIOUS
    <3>2. Write(t) BY <2>1, <3>1 DEF Commit, Applied
    <3>3. Noticed BY <3>2, WriteNoticed
    <3> QED BY <3>3, NoticedKeepsWalk
  <2>2. CASE Delete(r)
    <3>1. PICK t : t = [i \in Host |-> IF i \in task[r].hosts
                                      THEN [Unborn EXCEPT !.state = "gone"] ELSE table[i]]
      OBVIOUS
    <3>2. Write(t) BY <2>2, <3>1 DEF Delete
    <3>3. Noticed BY <3>2, WriteNoticed
    <3> QED BY <3>3, NoticedKeepsWalk
  <2> QED BY <1>3, <2>1, <2>2
<1>4. ASSUME NEW r \in Request, NEW h \in Host, NEW field, NEW asked, NEW new,
             LoadEdit(r, h, field, asked, new)
      PROVE  UNCHANGED <<table, walk>>
  BY <1>4 DEF LoadEdit
<1>5. ASSUME NEW r \in Request, NEW h \in Host,
         \/ \E n \in Name : LoadRename(r, h, n)
         \/ \E b \in BOOLEAN : LoadFavorite(r, h, b)
         \/ \E g \in Group \cup {None} : LoadMove(r, h, g)
         \/ \E S \in SUBSET Tag : PutTags(r, h, S)
         \/ \E t \in Tag : AddTags(r, h, t) \/ RemoveTags(r, h, t)
         \/ \E p \in Port : AddPortForwarding(r, h, p) \/ RemovePortForwarding(r, h, p)
      PROVE UNCHANGED <<table, walk>>
  BY <1>4, <1>5 DEF LoadRename, LoadFavorite, LoadMove, PutTags, AddTags, RemoveTags,
     AddPortForwarding, RemovePortForwarding
<1>6. ASSUME NEW r \in Request,
         \/ Quit(r)
         \/ \E h \in Host : LoadSession(r, h) \/ LoadDeleteHost(r, h)
         \/ \E s \in Session : CreateSession(r, s)
         \/ \E g \in Group : LoadDeleteGroup(r, g)
      PROVE UNCHANGED <<table, walk>>
  BY <1>6 DEF Quit, LoadSession, LoadDeleteHost, LoadDelete, CreateSession, LoadDeleteGroup
<1>7. CASE EndWalk
  <2>1. << >> \in Seq(Host) BY EmptySeq
  <2>2. walk' = NoWalk BY <1>7 DEF EndWalk
  <2>3. WalkShape' /\ walk'.at = "idle" BY <2>1, <2>2 DEF WalkShape, NoWalk
  <2> QED BY <2>3 DEF WalkInv, SeenInv
<1>8. CASE UNCHANGED vars BY <1>1, <1>8 DEF vars
<1> QED
  BY <1>1, <1>2, <1>3, <1>5, <1>6, <1>7, <1>8, StartKeepsWalk, QueryKeepsWalk, CountKeepsWalk
  DEF Next

(* A client that follows has_next is shown all names in order, whatever    *)
(* the size of a page and in whichever order a query puts equal names.     *)
THEOREM WalkIsComplete == Spec => []WalkComplete
<1>1. Init => WalkInv
  <2>1. << >> \in Seq(Host) BY EmptySeq
  <2> SUFFICES ASSUME Init PROVE WalkInv OBVIOUS
  <2>2. WalkShape /\ walk.at = "idle" BY <2>1 DEF Init, NoWalk, WalkShape
  <2> QED BY <2>2 DEF WalkInv, SeenInv
<1>2. IInv => Types BY DEF IInv
<1>3. WalkInv => WalkComplete
  <2> SUFFICES ASSUME WalkInv, walk.at = "done", walk.steady PROVE WalkComplete
    BY DEF WalkComplete
  <2>1. PICK s \in Listings : TRUE BY DEF WalkInv, SeenInv
  <2>2. Len(s) = Count /\ DOMAIN s = 1..Count BY ListingFields
  <2>3. Len(walk.seen) = Count BY DEF WalkInv, SeenInv
  <2> QED BY <2>2, <2>3 DEF WalkComplete, WalkInv, SeenInv
<1> QED BY <1>1, <1>2, <1>3, WalkStep, Invariant, PTL DEF Spec

(* It sees every host whose name no other has, and sees it once.           *)
SeenOnce ==
  walk.at = "done" /\ walk.steady =>
    \A h \in Matching : (\A g \in Matching : table[g].name = table[h].name => g = h) =>
      \E i \in 1..Len(walk.seen) : \A j \in 1..Len(walk.seen) : walk.seen[j] = h <=> j = i

(* Unchanged hosts without a namesake are neither missed nor repeated.     *)
THEOREM UniqueNamesSeenOnce == Spec => []SeenOnce
<1>1. WalkComplete => SeenOnce
  <2> SUFFICES ASSUME WalkComplete, walk.at = "done", walk.steady, NEW h \in Matching,
                      \A g \in Matching : table[g].name = table[h].name => g = h
               PROVE  \E i \in 1..Len(walk.seen) :
                        \A j \in 1..Len(walk.seen) : walk.seen[j] = h <=> j = i
    BY DEF SeenOnce
  <2>1. PICK s \in Listings :
          /\ Len(walk.seen) = Len(s)
          /\ \A i \in DOMAIN s :
               walk.seen[i] \in Matching /\ table[walk.seen[i]].name = table[s[i]].name
    BY DEF WalkComplete
  <2>2. DOMAIN s = 1..Count /\ Len(s) = Count /\ \A i \in 1..Count : s[i] \in Matching
    BY ListingFields
  <2>3. PICK i \in 1..Count : s[i] = h BY ListingFields
  <2>4. \A j \in 1..Count : walk.seen[j] = h <=> s[j] = h BY <2>1, <2>2
  <2>5. \A j \in 1..Count : s[j] = h <=> j = i BY <2>3, ListingFields
  <2> QED BY <2>1, <2>2, <2>4, <2>5
<1> QED BY <1>1, WalkIsComplete, PTL
=============================================================================
