-------------------------------- MODULE Hosts --------------------------------
(***************************************************************************)
(* The hosts of one user (models/host.py, api/hosts.py) with the groups    *)
(* they are in and the sessions opened on them: edits of one host, the     *)
(* cascades of a delete, and a client that walks the pages of the list.    *)
(*                                                                         *)
(* A request loads a host, awaits and commits.  What it writes is settled  *)
(* when it has loaded: the columns whose value differs from the loaded one. *)
(*                                                                         *)
(* POST /hosts passes Host.create names Host has no attribute for (always  *)
(* "password"), raises TypeError and makes nothing; hosts are made by      *)
(* other callers of Host.create.                                           *)
(***************************************************************************)
EXTENDS Integers, FiniteSets, SequencesExt

CONSTANTS
  Host,       \* identifiers; one is never used twice
  Group,      \* groups there are at first
  Session,    \* identifiers of sessions
  Request,    \* requests in progress at one time
  Name,       \* names of hosts: a set of integers, in their order
  Tag,
  Port,       \* local ports, which name the forwarding rules
  Size,       \* hosts on a page
  None

ASSUME HostsAssumption ==
  /\ IsFiniteSet(Host) /\ Name \subseteq Int /\ Name # {}
  /\ Size \in Nat \ {0} /\ None \notin Host \cup Group

VARIABLES
  table,      \* the rows, and which of them are there
  groups,     \* the groups that are there
  sessions,   \* the host of each session, or None
  task,       \* what each request is about to commit
  walk,       \* the client that reads page after page
  told,       \* history: the tags of each host by the answers in their order
  lapped,     \* history: hosts with two tag changes that overlapped
  moved       \* history: hosts moved while their group was being deleted

history == <<told, lapped, moved>>
vars == <<table, groups, sessions, task, walk, history>>

Row == [state : {"new", "live", "gone"}, name : Name, favorite : BOOLEAN,
        tags : SUBSET Tag, rules : SUBSET Port, group : Group \cup {None}]

Unborn == [state |-> "new", name |-> CHOOSE n \in Name : TRUE, favorite |-> FALSE,
           tags |-> {}, rules |-> {}, group |-> None]

Live == {h \in Host : table[h].state = "live"}

In(g) == {h \in Live : table[h].group = g}

On(hs) == {s \in Session : sessions[s] \in hs}

(* field: the column the request is about; put: the columns it will write. *)
(* hosts, sessions: what a delete has loaded, of group unless that is None. *)
Idle == [at |-> "idle", host |-> None, field |-> "none", put |-> << >>,
         want |-> {}, group |-> None, hosts |-> {}, sessions |-> {}]

(* next: the page to ask for; steady: nothing it lists has changed since   *)
(* it began; seen: the hosts it was shown, while steady.                   *)
NoWalk == [at |-> "idle", favorites |-> FALSE, next |-> 1, seen |-> << >>, steady |-> TRUE]

Init ==
  /\ table = [h \in Host |-> Unborn] /\ groups = Group
  /\ sessions = [s \in Session |-> None]
  /\ task = [r \in Request |-> Idle] /\ walk = NoWalk
  /\ told = [h \in Host |-> {}] /\ lapped = {} /\ moved = {}

-----------------------------------------------------------------------------
(* The rows change; a client on its walk may notice.                       *)
Write(new) ==
  /\ table' = new
  /\ walk' = IF \A h \in Host, f \in {"state", "name", "favorite"} : new[h][f] = table[h][f]
             THEN walk ELSE [walk EXCEPT !.steady = FALSE, !.seen = << >>]

(* Host.create                                                             *)
Create(h, n, g) ==
  /\ table[h].state = "new" /\ g \in groups \cup {None}
  /\ Write([table EXCEPT ![h] = [Unborn EXCEPT !.state = "live", !.name = n, !.group = g]])
  /\ UNCHANGED <<groups, sessions, task, history>>

(* Variant: every column is written.                                       *)
WholeRow(old, new) == new

(* What the UPDATE of a commit sets.                                       *)
Changed(old, new) == [f \in {g \in DOMAIN old : old[g] # new[g]} |-> new[f]]

(* Columns that may be, and that must be, written with the value they had: *)
(* a list of the same tags in another order is another list, and a group   *)
(* comes as text, which no loaded identifier is equal to.                  *)
MayRepeat(field, new) == {f \in {field} : f = "tags" /\ Cardinality(new.tags) > 1}

MustRepeat(field, new) == {f \in {field} : f = "group" /\ new.group # None}

(* The request has found the host; it is about field, asks for these tags, *)
(* and its copy of the row becomes new.                                    *)
LoadEdit(r, h, field, asked, new) ==
  /\ task[r].at = "idle" /\ h \in Live
  /\ \E repeated \in SUBSET MayRepeat(field, new) :
       LET put == Changed(table[h], new)
           cols == DOMAIN put \cup repeated \cup MustRepeat(field, new)
       IN  task' = [task EXCEPT ![r] =
             [Idle EXCEPT !.at = "editing", !.host = h, !.field = field, !.want = asked,
                          !.put = [f \in cols |-> new[f]]]]
  /\ UNCHANGED <<table, groups, sessions, walk, history>>

(* PUT /hosts/{id}, POST /hosts/{id}/favorite: plain values.               *)

LoadRename(r, h, n) == LoadEdit(r, h, "name", {}, [table[h] EXCEPT !.name = n])

LoadFavorite(r, h, b) == LoadEdit(r, h, "favorite", {}, [table[h] EXCEPT !.favorite = b])

PutTags(r, h, S) == LoadEdit(r, h, "tags", S, [table[h] EXCEPT !.tags = S])

LoadMove(r, h, g) == LoadEdit(r, h, "group", {}, [table[h] EXCEPT !.group = g])

(* Variant: the tag goes into the loaded list, which the flush compares    *)
(* with itself.                                                            *)
TagInPlace(r, h, t) ==
  LoadEdit(r, h, "tags", table[h].tags \cup {t},
           [table[h] EXCEPT !.tags = IF @ = {} THEN {t} ELSE @])

AddTags(r, h, t) ==
  LoadEdit(r, h, "tags", table[h].tags \cup {t}, [table[h] EXCEPT !.tags = @ \cup {t}])

RemoveTags(r, h, t) ==
  LoadEdit(r, h, "tags", table[h].tags \ {t}, [table[h] EXCEPT !.tags = @ \ {t}])

(* The rule is appended to the loaded list, which the flush compares with  *)
(* itself; only "or []" gives a list of its own.                           *)
AddPortForwarding(r, h, p) ==
  LoadEdit(r, h, "rules", {}, [table[h] EXCEPT !.rules = IF @ = {} THEN {p} ELSE @])

RemovePortForwarding(r, h, p) == LoadEdit(r, h, "rules", {}, [table[h] EXCEPT !.rules = @ \ {p}])

(* Another request is about the same tags.                                 *)
TagRace(r, h) == \E q \in Request \ {r} : task[q].host = h /\ task[q].field = "tags"

(* The commit.  No row, or no such group: it fails (Quit).                 *)
Commit(r) ==
  /\ task[r].at = "editing"
  /\ LET h   == task[r].host
         put == task[r].put
         new == [f \in DOMAIN table[h] |-> IF f \in DOMAIN put THEN put[f] ELSE table[h][f]]
     IN  /\ h \in Live /\ new.group \in groups \cup {None}
         /\ Write([table EXCEPT ![h] = new])
         /\ told' = IF task[r].field = "tags" THEN [told EXCEPT ![h] = task[r].want] ELSE told
         /\ lapped' = IF task[r].field = "tags" /\ TagRace(r, h) THEN lapped \cup {h} ELSE lapped
         /\ moved' = IF \E q \in Request : task[q].group # None /\ h \in task[q].hosts
                          /\ new.group # task[q].group THEN moved \cup {h} ELSE moved
  /\ task' = [task EXCEPT ![r] = Idle]
  /\ UNCHANGED <<groups, sessions>>

-----------------------------------------------------------------------------
(* POST /sessions: the host, then the row.                                 *)
LoadSession(r, h) ==
  /\ task[r].at = "idle" /\ h \in Live
  /\ task' = [task EXCEPT ![r] = [Idle EXCEPT !.at = "connecting", !.host = h]]
  /\ UNCHANGED <<table, groups, sessions, walk, history>>

(* The foreign key asks for the host again.                                *)
CreateSession(r, s) ==
  /\ task[r].at = "connecting" /\ task[r].host \in Live /\ sessions[s] = None
  /\ sessions' = [sessions EXCEPT ![s] = task[r].host]
  /\ task' = [task EXCEPT ![r] = Idle]
  /\ UNCHANGED <<table, groups, walk, history>>

(* db.delete follows the cascades and loads what goes along.               *)
LoadDelete(r, g, hs) ==
  /\ task[r].at = "idle"
  /\ task' = [task EXCEPT ![r] =
       [Idle EXCEPT !.at = "deleting", !.group = g, !.hosts = hs, !.sessions = On(hs)]]
  /\ UNCHANGED <<table, groups, sessions, walk, history>>

LoadDeleteHost(r, h) == h \in Live /\ LoadDelete(r, None, {h})

(* Variant: all hosts of the user are taken for hosts of the group.        *)
LoadDeleteAll(r, g) == g \in groups /\ LoadDelete(r, g, Live)

LoadDeleteGroup(r, g) == g \in groups /\ LoadDelete(r, g, In(g))

(* Nothing is remembered of a host that is gone.                           *)
Forget(hs) == /\ told' = [h \in Host |-> IF h \in hs THEN {} ELSE told[h]]
              /\ lapped' = lapped \ hs /\ moved' = moved \ hs

(* Variant: the foreign key of the sessions does not refuse.               *)
DeleteAnyway(r) ==
  /\ task[r].at = "deleting"
  /\ LET g  == task[r].group
         hs == task[r].hosts
     IN  /\ g # None => In(g) \subseteq hs
         /\ Write([h \in Host |-> IF h \in hs THEN [Unborn EXCEPT !.state = "gone"] ELSE table[h]])
         /\ groups' = groups \ {g}
  /\ sessions' = [s \in Session |-> IF s \in task[r].sessions THEN None ELSE sessions[s]]
  /\ task' = [task EXCEPT ![r] = Idle]
  /\ Forget(task[r].hosts)

(* What was loaded is deleted by its identifiers, wherever it is by now; a *)
(* host or session that came meanwhile makes the foreign key refuse.       *)
Delete(r) ==
  /\ task[r].at = "deleting"
  /\ LET g  == task[r].group
         hs == task[r].hosts
     IN  /\ g # None => In(g) \subseteq hs
         /\ On(hs) \subseteq task[r].sessions
         /\ Write([h \in Host |-> IF h \in hs THEN [Unborn EXCEPT !.state = "gone"] ELSE table[h]])
         /\ groups' = groups \ {g}
  /\ sessions' = [s \in Session |-> IF s \in task[r].sessions THEN None ELSE sessions[s]]
  /\ task' = [task EXCEPT ![r] = Idle]
  /\ Forget(task[r].hosts)

(* The request ends without a change.                                      *)
Quit(r) ==
  /\ task[r].at # "idle"
  /\ task' = [task EXCEPT ![r] = Idle]
  /\ UNCHANGED <<table, groups, sessions, walk, history>>

-----------------------------------------------------------------------------
(* GET /hosts: one query for the page, one for the total.                  *)

Matching == IF walk.favorites THEN {h \in Live : table[h].favorite} ELSE Live

(* Hosts of the same name come in any order, in every query anew.          *)
Listings == {s \in SetToSeqs(Matching) :
               \A i, j \in DOMAIN s : i < j => table[s[i]].name <= table[s[j]].name}

(* Variant: pages are asked for from zero on.                              *)
StartAtZero(b) ==
  /\ walk.at = "idle"
  /\ walk' = [NoWalk EXCEPT !.at = "page", !.favorites = b, !.next = 0]
  /\ UNCHANGED <<table, groups, sessions, task, history>>

StartWalk(b) ==
  /\ walk.at = "idle"
  /\ walk' = [NoWalk EXCEPT !.at = "page", !.favorites = b]
  /\ UNCHANGED <<table, groups, sessions, task, history>>

(* Variant: pages are counted from zero.                                   *)
OffsetFromZero(page) == page * Size

Offset(page) == (page - 1) * Size

Page(s, offset) == SubSeq(s, offset + 1, Min({Len(s), offset + Size}))

QueryPage ==
  /\ walk.at = "page"
  /\ \E s \in Listings :
       walk' = [walk EXCEPT !.at = "count",
                  !.seen = IF walk.steady THEN @ \o Page(s, Offset(walk.next)) ELSE @]
  /\ UNCHANGED <<table, groups, sessions, task, history>>

TotalPages(total) == (total + Size - 1) \div Size

(* has_next: the client goes on, or has it all.                            *)
QueryCount ==
  /\ walk.at = "count"
  /\ walk' = IF walk.next < TotalPages(Cardinality(Matching))
             THEN [walk EXCEPT !.at = "page", !.next = @ + 1] ELSE [walk EXCEPT !.at = "done"]
  /\ UNCHANGED <<table, groups, sessions, task, history>>

EndWalk ==
  /\ walk.at = "done" /\ walk' = NoWalk
  /\ UNCHANGED <<table, groups, sessions, task, history>>

Next ==
  \/ \E h \in Host, n \in Name, g \in Group \cup {None} : Create(h, n, g)
  \/ \E r \in Request :
       \/ \E h \in Host :
            \/ \E n \in Name : LoadRename(r, h, n)
            \/ \E b \in BOOLEAN : LoadFavorite(r, h, b)
            \/ \E g \in Group \cup {None} : LoadMove(r, h, g)
            \/ \E S \in SUBSET Tag : PutTags(r, h, S)
            \/ \E t \in Tag : AddTags(r, h, t) \/ RemoveTags(r, h, t)
            \/ \E p \in Port : AddPortForwarding(r, h, p) \/ RemovePortForwarding(r, h, p)
            \/ LoadSession(r, h) \/ LoadDeleteHost(r, h)
       \/ Commit(r) \/ \E s \in Session : CreateSession(r, s)
       \/ \E g \in Group : LoadDeleteGroup(r, g)
       \/ Delete(r) \/ Quit(r)
  \/ \E b \in BOOLEAN : StartWalk(b)
  \/ QueryPage \/ QueryCount \/ EndWalk

Spec == Init /\ [][Next]_vars

-----------------------------------------------------------------------------
(* Every variable has its type.                                            *)
TypeOK ==
  /\ table \in [Host -> Row] /\ groups \subseteq Group
  /\ sessions \in [Session -> Host \cup {None}]
  /\ \A r \in Request :
       /\ task[r].at \in {"idle", "editing", "connecting", "deleting"}
       /\ DOMAIN task[r].put \subseteq DOMAIN Unborn \ {"state"}
       /\ task[r].hosts \subseteq Host /\ task[r].sessions \subseteq Session
  /\ walk.at \in {"idle", "page", "count", "done"} /\ walk.next \in Nat \ {0}
  /\ told \in [Host -> SUBSET Tag] /\ lapped \subseteq Host /\ moved \subseteq Host

(* A session is on a host that exists and a host in a group that exists,   *)
(* whatever was moved, connected or deleted while a delete was under way.  *)
References ==
  /\ \A s \in Session : sessions[s] \in Live \cup {None}
  /\ \A h \in Live : table[h].group \in groups \cup {None}

(* A host has the tags that the answered requests, one after another, make *)
(* of them, unless two of them overlapped.                                 *)
TagsTold == \A h \in Live \ lapped : table[h].tags = told[h]

(* Requests about different columns of a host do not disturb each other,   *)
(* however they overlap: a column changes by a request about it.           *)
ColumnsApart ==
  [][\A h \in Live : table'[h].state = "live" =>
       \A f \in DOMAIN Unborn : table'[h][f] # table[h][f] =>
         \E r \in Request : task[r].at = "editing" /\ task[r].host = h /\ task[r].field = f
                              /\ task'[r].at = "idle"]_vars

(* A host goes with a group only if it is in that group, or was moved out  *)
(* of it when the delete had already loaded it.                            *)
HostsSpared ==
  [][\A h \in Live : table'[h].state = "gone" /\ groups' # groups =>
       table[h].group \in groups \ groups' \/ h \in moved]_vars

(* A client that follows has_next while no host comes, goes or is changed  *)
(* is shown the names in their order, each as often as hosts have it.  So  *)
(* it sees a host whose name no other has exactly once; of hosts that      *)
(* share a name it may see one twice and another never.                    *)
WalkComplete ==
  walk.at = "done" /\ walk.steady =>
    \E s \in Listings :
      /\ Len(walk.seen) = Len(s)
      /\ \A i \in DOMAIN s :
           walk.seen[i] \in Matching /\ table[walk.seen[i]].name = table[s[i]].name
=============================================================================
