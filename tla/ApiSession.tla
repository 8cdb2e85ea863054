------------------------------ MODULE ApiSession ------------------------------
(***************************************************************************)
(* One row of the sessions table (api models/session.py) and the handlers  *)
(* of api/sessions.py that change it concurrently.                         *)
(*                                                                         *)
(* Every request and every socket has its own database session, hence its  *)
(* own copy of the row, which is never refreshed (expire_on_commit=False). *)
(* A commit writes the attributes whose value differs from the one loaded; *)
(* JSON and ARRAY columns do not track changes made inside the value.  So  *)
(* a handler is a load, an await, and a flush.                             *)
(***************************************************************************)
EXTENDS Integers, FiniteSets

CONSTANTS
  Socket,     \* clients of the WebSocket endpoint, all with this row's token
  Request,    \* HTTP requests of the owner
  User,       \* users the session can be shared with
  Reports     \* bound: calls of update_stats that are counted

ASSUME ApiAssumption == IsFiniteSet(Socket) /\ IsFiniteSet(User) /\ Reports \in Nat

VARIABLES
  row,        \* the row in the database
  copy,       \* the row as each handler holds it
  at,         \* where each handler is
  granted,    \* users who, by the answers so far, have access
  raced,      \* two overlapping shares: the second overwrote the first
  reported,   \* history: bytes that update_stats was told of
  lost        \* history: reports overlapped and some are lost

stats == <<reported, lost>>
vars == <<row, copy, at, granted, raced, stats>>

Handler == Socket \cup Request

(* is_active, ended_at and websocket_id being set, last_activity recent    *)
(* enough, is_shared, shared_users, the users with a permissions entry, and *)
(* bytes_sent, which stands for the three sums.                            *)
Row == [active : BOOLEAN, ended : BOOLEAN, ws : BOOLEAN, fresh : BOOLEAN,
        isShared : BOOLEAN, shared : SUBSET User, perms : SUBSET User, sent : Nat]

NewRow == [active |-> TRUE, ended |-> FALSE, ws |-> FALSE, fresh |-> TRUE,
           isShared |-> FALSE, shared |-> {}, perms |-> {}, sent |-> 0]

Init ==
  /\ row = NewRow
  /\ copy = [h \in Handler |-> NewRow]
  /\ at = [h \in Handler |-> "out"]
  /\ granted = {} /\ raced = FALSE
  /\ reported = 0 /\ lost = FALSE

-----------------------------------------------------------------------------
(* Variant: every column is written, as if each attribute were assigned.   *)
WholeFlush(loaded, new) == new

(* The UPDATE of a commit.                                                 *)
Flush(loaded, new) ==
  [f \in DOMAIN row |-> IF new[f] = loaded[f] THEN row[f] ELSE new[f]]

(* The handler returns and its copy goes with it.                          *)
Done(h) == /\ at' = [at EXCEPT ![h] = "out"]
           /\ copy' = [copy EXCEPT ![h] = NewRow]

(* The handler reads the row and awaits.                                   *)
Load(h, place) ==
  /\ at[h] = "out"
  /\ copy' = [copy EXCEPT ![h] = row]
  /\ at' = [at EXCEPT ![h] = place]
  /\ UNCHANGED <<row, granted, raced, stats>>

-----------------------------------------------------------------------------
(* DELETE /sessions/{id}                                                   *)

LoadEnd(r) == Load(r, "ending")

EndSession(r) ==
  /\ at[r] = "ending"
  /\ LET new == [copy[r] EXCEPT !.active = FALSE, !.ws = FALSE]
     IN  row' = [Flush(copy[r], new) EXCEPT !.ended = TRUE]   \* always a new time
  /\ Done(r)
  /\ UNCHANGED <<granted, raced, stats>>

(* POST /sessions/{id}/share; can_share is asked of the loaded copy.       *)

LoadShare(r) == row.active /\ Load(r, "sharing")

(* Variant: the request replaces the list instead of extending it.         *)
ShareReplaces(r, users) ==
  /\ at[r] = "sharing"
  /\ LET new == [copy[r] EXCEPT !.isShared = TRUE, !.shared = users,
                   !.perms = IF @ = {} THEN users ELSE @]
     IN  row' = Flush(copy[r], new)
  /\ granted' = granted \cup users
  /\ raced' = (raced \/ copy[r].shared # row.shared)
  /\ Done(r)
  /\ UNCHANGED stats

(* shared_users becomes a new list, in the order of a Python set: when it  *)
(* holds the same users in another order it is written all the same.       *)
(* permissions is a new dictionary only when it was empty, otherwise       *)
(* entries are added inside the loaded one, which the flush does not see.  *)
ShareWithUsers(r, users) ==
  /\ at[r] = "sharing"
  /\ \E reordered \in BOOLEAN :
       LET new == [copy[r] EXCEPT !.isShared = TRUE, !.shared = @ \cup users,
                     !.perms = IF @ = {} THEN users ELSE @]
           put == Flush(copy[r], new)
       IN  /\ reordered => Cardinality(new.shared) > 1
           /\ row' = IF reordered THEN [put EXCEPT !.shared = new.shared] ELSE put
  /\ granted' = granted \cup users
  /\ raced' = (raced \/ copy[r].shared # row.shared)
  /\ Done(r)
  /\ UNCHANGED stats

(* DELETE /sessions/{id}/share/{user_id}                                   *)

LoadRevoke(r) == Load(r, "revoking")

(* The user is taken out of the loaded list and dictionary in place.  Only *)
(* when the list is empty then are attributes assigned: is_shared, and an  *)
(* empty permissions, which differs from the loaded dictionary if that     *)
(* still holds somebody else.                                              *)
RevokeAccess(r, u) ==
  /\ at[r] = "revoking"
  /\ LET last == copy[r].shared = {u}
         new == [copy[r] EXCEPT !.isShared = IF last THEN FALSE ELSE @,
                   !.perms = IF last /\ @ \ {u} # {} THEN {} ELSE @]
     IN  row' = Flush(copy[r], new)
  /\ granted' = granted \ {u}
  /\ Done(r)
  /\ UNCHANGED <<raced, stats>>

(* update_stats: one byte more than the copy has.                          *)

LoadStats(r) == reported < Reports /\ Load(r, "counting")

(* Variant: the copy's sum is added to the row.                            *)
AddTwice(r) ==
  /\ at[r] = "counting"
  /\ row' = [row EXCEPT !.fresh = TRUE, !.sent = @ + copy[r].sent + 1]
  /\ reported' = reported + 1 /\ lost' = (lost \/ copy[r].sent # row.sent)
  /\ Done(r)
  /\ UNCHANGED <<granted, raced>>

UpdateStats(r) ==
  /\ at[r] = "counting"
  /\ row' = [Flush(copy[r], [copy[r] EXCEPT !.sent = @ + 1]) EXCEPT !.fresh = TRUE]
  /\ reported' = reported + 1 /\ lost' = (lost \/ copy[r].sent # row.sent)
  /\ Done(r)
  /\ UNCHANGED <<granted, raced>>

-----------------------------------------------------------------------------
(* The WebSocket endpoint: is_active is asked once, of the loaded copy.    *)

LoadSocket(s) == row.active /\ Load(s, "opening")

(* Variant: the socket itself is stored, not an identifier.                *)
OpenedObject(s) == [copy[s] EXCEPT !.ws = s]

Opened(s) == [copy[s] EXCEPT !.ws = TRUE]

(* Variant: the identifier is never stored.                                *)
OpenUnrecorded(s) ==
  /\ at[s] = "opening"
  /\ row' = [row EXCEPT !.fresh = TRUE]
  /\ copy' = [copy EXCEPT ![s] = Opened(s)]
  /\ at' = [at EXCEPT ![s] = "open"]
  /\ UNCHANGED <<granted, raced, stats>>

(* set_websocket_id.  The identifier is made from the session's, so a copy *)
(* that already has one is not changed.                                    *)
OpenSocket(s) ==
  /\ at[s] = "opening"
  /\ row' = [Flush(copy[s], Opened(s)) EXCEPT !.fresh = TRUE]
  /\ copy' = [copy EXCEPT ![s] = Opened(s)]
  /\ at' = [at EXCEPT ![s] = "open"]
  /\ UNCHANGED <<granted, raced, stats>>

(* One message: echo, then update_activity.                                *)
Echo(s) ==
  /\ at[s] = "open"
  /\ row' = [row EXCEPT !.fresh = TRUE]
  /\ UNCHANGED <<copy, at, granted, raced, stats>>

(* WebSocketDisconnect: clear_websocket_id.                                *)
Disconnect(s) ==
  /\ at[s] = "open"
  /\ row' = Flush(copy[s], [copy[s] EXCEPT !.ws = FALSE])
  /\ Done(s)
  /\ UNCHANGED <<granted, raced, stats>>

(* Any other exception closes the socket and leaves the row alone.         *)
SocketFails(s) ==
  /\ at[s] = "open"
  /\ Done(s)
  /\ UNCHANGED <<row, granted, raced, stats>>

-----------------------------------------------------------------------------
(* cleanup_expired_sessions: one UPDATE, no copy; and its clock.           *)

(* Variant: the expired session keeps no end time.                         *)
CleanupNoEnd ==
  /\ row.active /\ ~row.fresh
  /\ row' = [row EXCEPT !.active = FALSE]
  /\ UNCHANGED <<copy, at, granted, raced, stats>>

CleanupExpired ==
  /\ row.active /\ ~row.fresh
  /\ row' = [row EXCEPT !.active = FALSE, !.ended = TRUE]
  /\ UNCHANGED <<copy, at, granted, raced, stats>>

GrowOld ==
  /\ row.fresh
  /\ row' = [row EXCEPT !.fresh = FALSE]
  /\ UNCHANGED <<copy, at, granted, raced, stats>>

(* The API process restarts: its handlers are gone, the row is not.        *)
Restart ==
  /\ \E h \in Handler : at[h] # "out"
  /\ at' = [h \in Handler |-> "out"] /\ copy' = [h \in Handler |-> NewRow]
  /\ UNCHANGED <<row, granted, raced, stats>>

Next ==
  \/ \E r \in Request :
       \/ LoadEnd(r) \/ EndSession(r)
       \/ LoadShare(r) \/ \E users \in SUBSET User \ {{}} : ShareWithUsers(r, users)
       \/ LoadStats(r) \/ UpdateStats(r)
       \/ LoadRevoke(r) \/ \E u \in User : RevokeAccess(r, u)
  \/ \E s \in Socket :
       \/ LoadSocket(s) \/ OpenSocket(s) \/ Echo(s) \/ Disconnect(s) \/ SocketFails(s)
  \/ CleanupExpired \/ GrowOld \/ Restart

Spec == Init /\ [][Next]_vars

-----------------------------------------------------------------------------
At == {"out", "ending", "sharing", "revoking", "counting", "opening", "open"}

(* Every variable has its type.                                            *)
TypeOK ==
  /\ row \in Row /\ copy \in [Handler -> Row] /\ at \in [Handler -> At]
  /\ granted \subseteq User /\ raced \in BOOLEAN
  /\ reported \in Nat /\ lost \in BOOLEAN

(* A session has an end time exactly when it is over, whoever ended it and *)
(* with however old a copy.                                                *)
EndedHasTime == row.ended <=> ~row.active

(* A session that is over is never active again: handlers that loaded the  *)
(* row before the end write around it.                                     *)
EndIsFinal == [][~row.active => ~row'.active]_vars

(* While its one socket is open and the session is active, the row says    *)
(* that it is connected, also when an earlier socket failed without        *)
(* clearing the identifier.  With two sockets this is not so.              *)
SocketRecorded ==
  Cardinality(Socket) = 1 =>
    \A s \in Socket : row.active /\ at[s] = "open" => row.ws

(* A user the owner shared with has the session in the list, except for    *)
(* two shares that overlapped.                                             *)
GrantKept == raced \/ granted \subseteq row.shared

(* What update_stats was told is in the row, once, unless reports          *)
(* overlapped, of which the last one to write stands.                      *)
StatsCounted == row.sent <= reported /\ (lost \/ row.sent = reported)

(* "Revoke user access to shared session." (session.py:299): whoever is in *)
(* the list of a shared session was given access and has not lost it since. *)
RevocationHolds == row.isShared => row.shared \subseteq granted
=============================================================================
