--------------------------- MODULE ApiSessionProof ---------------------------
(***************************************************************************)
(* ApiSession: its invariants and the finality of the end, for any number  *)
(* of sockets, requests and users.                                         *)
(***************************************************************************)
EXTENDS ApiSession, FiniteSetTheorems, TLAPS

(* A copy never knows of an end that the row does not have, nor of more    *)
(* bytes than were reported.                                               *)
CopyInv == \A h \in Handler : /\ ~copy[h].active => ~row.active
                              /\ copy[h].sent <= reported

(* A lone socket whose copy has the identifier finds it in the row, and an *)
(* open socket's copy has it.                                              *)
SocketInv ==
  /\ \A s \in Socket : at[s] = "open" => copy[s].ws
  /\ Cardinality(Socket) = 1 =>
       \A s \in Socket : row.active /\ copy[s].ws /\ at[s] \in {"opening", "open"} => row.ws

IInv == /\ TypeOK /\ EndedHasTime /\ CopyInv /\ SocketInv
        /\ GrantKept /\ StatsCounted

(* What a step may not do to the end of the session.                       *)
StaysEnded == ~row.active => ~row'.active

-----------------------------------------------------------------------------
LEMMA NewRowIsRow == NewRow \in Row
BY DEF NewRow, Row

(* A flush writes what differs from the loaded row, column by column.      *)
LEMMA FlushRow ==
  ASSUME NEW u \in Row, NEW v \in Row, row \in Row
  PROVE  /\ Flush(u, v) \in Row
         /\ Flush(u, v).active = IF v.active = u.active THEN row.active ELSE v.active
         /\ Flush(u, v).ended = IF v.ended = u.ended THEN row.ended ELSE v.ended
         /\ Flush(u, v).ws = IF v.ws = u.ws THEN row.ws ELSE v.ws
         /\ Flush(u, v).shared = IF v.shared = u.shared THEN row.shared ELSE v.shared
         /\ Flush(u, v).sent = IF v.sent = u.sent THEN row.sent ELSE v.sent
BY DEF Flush, Row

LEMMA InitHolds == Init => IInv
<1> SUFFICES ASSUME Init PROVE IInv OBVIOUS
<1>1. TypeOK
  BY NewRowIsRow DEF Init, TypeOK, At
<1>2. EndedHasTime /\ GrantKept /\ StatsCounted
  BY DEF Init, EndedHasTime, GrantKept, StatsCounted, NewRow
<1>3. CopyInv /\ SocketInv
  BY DEF Init, CopyInv, SocketInv, NewRow, Handler
<1> QED BY <1>1, <1>2, <1>3 DEF IInv

(* A handler that loads keeps the invariant.                               *)
LEMMA LoadKeeps ==
  ASSUME IInv, NEW h \in Handler, NEW place \in At \ {"open"}, Load(h, place)
  PROVE  IInv'
<1>1. TypeOK' BY DEF Load, IInv, TypeOK, stats
<1>2. EndedHasTime' /\ GrantKept' /\ StatsCounted'
  BY DEF Load, IInv, EndedHasTime, GrantKept, StatsCounted, stats
<1>3. CopyInv' /\ SocketInv'
  BY DEF Load, IInv, TypeOK, Row, CopyInv, SocketInv, StatsCounted, stats, Handler
<1> QED BY <1>1, <1>2, <1>3 DEF IInv

(* What a change of the row must satisfy, when the handler is done.        *)
LEMMA DoneKeeps ==
  ASSUME IInv, NEW h \in Handler, Done(h),
         row' \in Row, row'.ended <=> ~row'.active, ~row.active => ~row'.active,
         reported' \in Nat, reported <= reported', lost' \in BOOLEAN, StatsCounted',
         Cardinality(Socket) = 1 /\ row'.active /\ row.ws /\ ~row'.ws =>
           h \in Socket /\ at[h] = "open",
         granted' \subseteq User, raced' \in BOOLEAN, raced' \/ granted' \subseteq row'.shared
  PROVE  IInv'
<1>1. TypeOK'
  BY NewRowIsRow DEF Done, IInv, TypeOK, stats, At
<1>2. EndedHasTime' /\ GrantKept' /\ StatsCounted'
  BY DEF EndedHasTime, GrantKept
<1>3. CopyInv'
  BY DEF Done, IInv, TypeOK, CopyInv, NewRow, Row
<1>4. \A s \in Socket : at'[s] = "open" => copy'[s].ws
  BY DEF Done, IInv, TypeOK, SocketInv, Handler
<1>5. ASSUME Cardinality(Socket) = 1, NEW s \in Socket, row'.active, copy'[s].ws,
             at'[s] \in {"opening", "open"}
      PROVE  row'.ws
  <2>1. s # h /\ at'[s] = at[s] /\ copy'[s] = copy[s]
    BY <1>5 DEF Done, IInv, TypeOK, Handler
  <2>2. PICK x : Socket = {x}
    BY <1>5, ApiAssumption, FS_Singleton
  <2>3. row.active /\ row.ws
    BY <1>5, <2>1 DEF IInv, TypeOK, Row, SocketInv
  <2> QED BY <1>5, <2>1, <2>2, <2>3 DEF IInv, TypeOK, Row
<1> QED BY <1>1, <1>2, <1>3, <1>4, <1>5 DEF IInv, SocketInv

-----------------------------------------------------------------------------
(* The steps that change the row.                                          *)

LEMMA EndKeeps == ASSUME IInv, NEW r \in Request, EndSession(r) PROVE IInv' /\ StaysEnded
<1> DEFINE new == [copy[r] EXCEPT !.active = FALSE, !.ws = FALSE]
<1>1. copy[r] \in Row /\ new \in Row /\ row \in Row
  BY DEF IInv, TypeOK, Row, Handler
<1>2. Flush(copy[r], new) \in Row /\ ~Flush(copy[r], new).active
        /\ Flush(copy[r], new).sent = row.sent /\ Flush(copy[r], new).shared = row.shared
  <2>1. ~copy[r].active => ~row.active
    BY DEF IInv, CopyInv, Handler
  <2>2. new.active = FALSE /\ new.sent = copy[r].sent /\ new.shared = copy[r].shared
    BY <1>1 DEF Row
  <2> HIDE DEF new
  <2> QED BY <1>1, <2>1, <2>2, FlushRow
<1>3. /\ row' \in Row /\ ~row'.active /\ row'.ended
      /\ row'.sent = row.sent /\ row'.shared = row.shared
  BY <1>2 DEF EndSession, Row
<1>4. /\ reported' = reported /\ lost' = lost /\ StatsCounted'
      /\ raced' = raced /\ granted' = granted
  BY <1>3 DEF EndSession, IInv, StatsCounted, stats
<1>5. /\ reported' \in Nat /\ reported <= reported' /\ lost' \in BOOLEAN
      /\ granted' \subseteq User /\ raced' \in BOOLEAN /\ (raced' \/ granted' \subseteq row'.shared)
  BY <1>3, <1>4 DEF IInv, TypeOK, GrantKept
<1>6. r \in Handler /\ Done(r)
  BY DEF EndSession, Handler
<1> QED
  BY <1>3, <1>4, <1>5, <1>6, DoneKeeps DEF StaysEnded

LEMMA ShareKeeps ==
  ASSUME IInv, NEW r \in Request, NEW users \in SUBSET User, ShareWithUsers(r, users)
  PROVE  IInv' /\ StaysEnded
<1> DEFINE new == [copy[r] EXCEPT !.isShared = TRUE, !.shared = @ \cup users,
                     !.perms = IF @ = {} THEN users ELSE @]
           put == Flush(copy[r], new)
<1>1. copy[r] \in Row /\ new \in Row /\ row \in Row
  BY DEF IInv, TypeOK, Row, Handler
<1>2. /\ put \in Row /\ put.active = row.active /\ put.ended = row.ended /\ put.ws = row.ws
      /\ put.sent = row.sent
      /\ put.shared = IF new.shared = copy[r].shared THEN row.shared ELSE new.shared
  <2>1. /\ new.active = copy[r].active /\ new.ended = copy[r].ended /\ new.ws = copy[r].ws
        /\ new.sent = copy[r].sent
    BY <1>1 DEF Row
  <2> HIDE DEF new
  <2> QED BY <1>1, <2>1, FlushRow
<1>3. PICK reordered \in BOOLEAN :
        row' = IF reordered THEN [put EXCEPT !.shared = new.shared] ELSE put
  BY DEF ShareWithUsers
<1>4. /\ row' \in Row /\ row'.active = row.active /\ row'.ended = row.ended
      /\ row'.ws = row.ws /\ row'.sent = row.sent
      /\ row'.shared \in {put.shared, new.shared}
  <2> HIDE DEF new, put
  <2> QED BY <1>1, <1>2, <1>3 DEF Row
<1>5. raced' \in BOOLEAN /\ granted' \subseteq User /\ (raced' \/ granted' \subseteq row'.shared)
  <2>1. new.shared = copy[r].shared \cup users
    BY <1>1 DEF Row
  <2> QED
    BY <1>2, <1>4, <2>1 DEF ShareWithUsers, IInv, TypeOK, GrantKept
<1>6. /\ row'.ended <=> ~row'.active
      /\ StatsCounted' /\ reported' = reported /\ lost' = lost
  BY <1>4 DEF ShareWithUsers, IInv, EndedHasTime, StatsCounted, stats
<1>7. r \in Handler /\ Done(r)
  BY DEF ShareWithUsers, Handler
<1>8. reported' \in Nat /\ reported <= reported' /\ lost' \in BOOLEAN
  BY <1>6 DEF IInv, TypeOK
<1> HIDE DEF new, put
<1> QED
  BY <1>4, <1>5, <1>6, <1>7, <1>8, DoneKeeps DEF StaysEnded

LEMMA RevokeKeeps ==
  ASSUME IInv, NEW r \in Request, NEW u \in User, RevokeAccess(r, u)
  PROVE  IInv' /\ StaysEnded
<1> DEFINE last == copy[r].shared = {u}
           new == [copy[r] EXCEPT !.isShared = IF last THEN FALSE ELSE @,
                     !.perms = IF last /\ @ \ {u} # {} THEN {} ELSE @]
<1>1. copy[r] \in Row /\ new \in Row /\ row \in Row
  BY DEF IInv, TypeOK, Row, Handler
<1>2. row' = Flush(copy[r], new)
  BY DEF RevokeAccess
<1>3. /\ row' \in Row /\ row'.active = row.active /\ row'.ended = row.ended /\ row'.ws = row.ws
      /\ row'.sent = row.sent /\ row'.shared = row.shared
  <2>1. /\ new.active = copy[r].active /\ new.ended = copy[r].ended /\ new.ws = copy[r].ws
        /\ new.sent = copy[r].sent /\ new.shared = copy[r].shared
    BY <1>1 DEF Row
  <2> HIDE DEF new
  <2> QED BY <1>1, <1>2, <2>1, FlushRow
<1>4. /\ row'.ended <=> ~row'.active
      /\ StatsCounted' /\ reported' = reported /\ lost' = lost
  BY <1>3 DEF RevokeAccess, IInv, EndedHasTime, StatsCounted, stats
<1>5. raced' \in BOOLEAN /\ granted' \subseteq User /\ (raced' \/ granted' \subseteq row'.shared)
  BY <1>3 DEF RevokeAccess, IInv, TypeOK, GrantKept
<1>6. r \in Handler /\ Done(r) /\ reported' \in Nat /\ reported <= reported' /\ lost' \in BOOLEAN
  BY <1>4 DEF RevokeAccess, Handler, IInv, TypeOK
<1> QED
  BY <1>3, <1>4, <1>5, <1>6, DoneKeeps DEF StaysEnded

LEMMA StatsKeep == ASSUME IInv, NEW r \in Request, UpdateStats(r) PROVE IInv' /\ StaysEnded
<1> DEFINE new == [copy[r] EXCEPT !.sent = @ + 1]
           put == Flush(copy[r], new)
<1>1. copy[r] \in Row /\ new \in Row /\ row \in Row /\ new.sent = copy[r].sent + 1
  BY DEF IInv, TypeOK, Row, Handler
<1>2. /\ put \in Row /\ put.active = row.active /\ put.ended = row.ended /\ put.ws = row.ws
      /\ put.sent = copy[r].sent + 1 /\ put.shared = row.shared
  BY <1>1, FlushRow DEF Row
<1>3. /\ row' \in Row /\ row'.active = row.active /\ row'.ended = row.ended /\ row'.ws = row.ws
      /\ row'.sent = copy[r].sent + 1 /\ row'.shared = row.shared
  BY <1>2 DEF UpdateStats, Row
<1>4. reported' \in Nat /\ reported <= reported' /\ lost' \in BOOLEAN /\ StatsCounted'
  <2>1. copy[r].sent \in Nat /\ row.sent \in Nat /\ reported \in Nat /\ copy[r].sent <= reported
    BY <1>1 DEF Row, IInv, TypeOK, CopyInv, Handler
  <2>2. lost' \in BOOLEAN /\ (~lost' => ~lost /\ copy[r].sent = row.sent)
    BY DEF UpdateStats, IInv, TypeOK
  <2>3. reported' = reported + 1 /\ (lost \/ row.sent = reported)
    BY DEF UpdateStats, IInv, StatsCounted
  <2> QED
    BY <1>3, <2>1, <2>2, <2>3 DEF StatsCounted
<1>5. row'.ended <=> ~row'.active
  BY <1>3 DEF IInv, EndedHasTime
<1>6. granted' \subseteq User /\ raced' \in BOOLEAN /\ (raced' \/ granted' \subseteq row'.shared)
  BY <1>3 DEF UpdateStats, IInv, TypeOK, GrantKept
<1>7. r \in Handler /\ Done(r)
  BY DEF UpdateStats, Handler
<1> QED
  BY <1>3, <1>4, <1>5, <1>6, <1>7, DoneKeeps DEF StaysEnded

LEMMA DisconnectKeeps == ASSUME IInv, NEW s \in Socket, Disconnect(s) PROVE IInv' /\ StaysEnded
<1> DEFINE new == [copy[s] EXCEPT !.ws = FALSE]
<1>1. copy[s] \in Row /\ new \in Row /\ row \in Row
  BY DEF IInv, TypeOK, Row, Handler
<1>2. row' = Flush(copy[s], new)
  BY DEF Disconnect
<1>3. /\ row' \in Row /\ row'.active = row.active /\ row'.ended = row.ended
      /\ row'.sent = row.sent /\ row'.shared = row.shared
  <2>1. /\ new.active = copy[s].active /\ new.ended = copy[s].ended
        /\ new.sent = copy[s].sent /\ new.shared = copy[s].shared
    BY <1>1 DEF Row
  <2> HIDE DEF new
  <2> QED BY <1>1, <1>2, <2>1, FlushRow
<1>4. /\ reported' = reported /\ lost' = lost /\ raced' = raced /\ granted' = granted
      /\ s \in Handler /\ Done(s) /\ at[s] = "open"
  BY DEF Disconnect, stats, Handler
<1>5. /\ reported' \in Nat /\ reported <= reported' /\ lost' \in BOOLEAN /\ StatsCounted'
      /\ granted' \subseteq User /\ raced' \in BOOLEAN /\ (raced' \/ granted' \subseteq row'.shared)
      /\ row'.ended <=> ~row'.active
  BY <1>3, <1>4 DEF IInv, TypeOK, GrantKept, StatsCounted, EndedHasTime
<1> HIDE DEF new
<1> QED
  BY <1>3, <1>4, <1>5, DoneKeeps DEF StaysEnded

LEMMA OpenKeeps == ASSUME IInv, NEW s \in Socket, OpenSocket(s) PROVE IInv' /\ StaysEnded
<1> DEFINE put == Flush(copy[s], Opened(s))
<1>1. /\ copy[s] \in Row /\ Opened(s) \in Row /\ row \in Row /\ s \in Handler
      /\ Opened(s).active = copy[s].active /\ Opened(s).ended = copy[s].ended
      /\ Opened(s).sent = copy[s].sent /\ Opened(s).shared = copy[s].shared /\ Opened(s).ws
  BY DEF Opened, IInv, TypeOK, Row, Handler
<1>2. /\ put \in Row /\ put.active = row.active /\ put.ended = row.ended
      /\ put.sent = row.sent /\ put.shared = row.shared
      /\ put.ws = IF copy[s].ws THEN row.ws ELSE TRUE
  <2>1. copy[s].ws \in BOOLEAN /\ Opened(s).ws = TRUE
    BY <1>1 DEF Row, Opened
  <2> QED BY <1>1, <2>1, FlushRow
<1>3. /\ row' \in Row /\ row'.active = row.active /\ row'.ended = row.ended
      /\ row'.sent = row.sent /\ row'.shared = row.shared /\ row'.ws = put.ws
  <2> HIDE DEF put
  <2>1. row' = [put EXCEPT !.fresh = TRUE] BY DEF OpenSocket, put
  <2> QED BY <1>2, <2>1 DEF Row
<1>4. /\ at[s] = "opening" /\ at' = [at EXCEPT ![s] = "open"]
      /\ copy' = [copy EXCEPT ![s] = Opened(s)]
      /\ granted' = granted /\ raced' = raced /\ reported' = reported /\ lost' = lost
  BY DEF OpenSocket, stats
<1> HIDE DEF put
<1>5. TypeOK'
  BY <1>1, <1>3, <1>4 DEF IInv, TypeOK, At
<1>6. EndedHasTime' /\ GrantKept' /\ StatsCounted'
  BY <1>3, <1>4 DEF IInv, EndedHasTime, GrantKept, StatsCounted
<1>7. CopyInv'
  BY <1>1, <1>3, <1>4 DEF IInv, TypeOK, CopyInv
<1>8. \A t \in Socket : at'[t] = "open" => copy'[t].ws
  BY <1>1, <1>4 DEF IInv, TypeOK, SocketInv, Handler
<1>9. ASSUME Cardinality(Socket) = 1, NEW t \in Socket, row'.active
      PROVE  row'.ws
  <2>1. s = t
    BY <1>9, ApiAssumption, FS_Singleton
  <2>2. copy[s].ws => row.ws
    BY <1>3, <1>4, <1>9 DEF IInv, SocketInv
  <2> QED BY <1>2, <1>3, <2>2 DEF Row
<1> QED BY <1>5, <1>6, <1>7, <1>8, <1>9, <1>3 DEF IInv, SocketInv, StaysEnded

(* The other steps change no more of the row than its end and its age.     *)
LEMMA RowKeeps ==
  ASSUME IInv, row' \in Row, UNCHANGED <<copy, at, granted, raced, stats>>,
         row'.ended <=> ~row'.active, ~row.active => ~row'.active,
         row'.ws = row.ws, row'.shared = row.shared, row'.sent = row.sent
  PROVE  IInv'
BY DEF IInv, TypeOK, EndedHasTime, CopyInv, SocketInv, GrantKept, StatsCounted, stats

LEMMA RestartKeeps == ASSUME IInv, Restart PROVE IInv'
<1>1. TypeOK'
  BY NewRowIsRow DEF Restart, IInv, TypeOK, At, stats
<1>2. EndedHasTime' /\ GrantKept' /\ StatsCounted'
  BY DEF Restart, IInv, EndedHasTime, GrantKept, StatsCounted, stats
<1>3. CopyInv' /\ SocketInv'
  BY DEF Restart, IInv, TypeOK, CopyInv, SocketInv, NewRow, Handler, stats
<1> QED BY <1>1, <1>2, <1>3 DEF IInv

LEMMA StepKeeps == IInv /\ [Next]_vars => IInv' /\ StaysEnded
<1> SUFFICES ASSUME IInv, [Next]_vars PROVE IInv' /\ StaysEnded OBVIOUS
<1>1. ASSUME NEW r \in Request,
             LoadEnd(r) \/ LoadShare(r) \/ LoadStats(r) \/ LoadRevoke(r)
      PROVE  IInv' /\ StaysEnded
  BY <1>1, LoadKeeps DEF LoadEnd, LoadShare, LoadStats, LoadRevoke, Load, Handler, At, StaysEnded
<1>2. ASSUME NEW s \in Socket, LoadSocket(s) PROVE IInv' /\ StaysEnded
  BY <1>2, LoadKeeps DEF LoadSocket, Load, Handler, At, StaysEnded
<1>3. ASSUME NEW s \in Socket, Echo(s) PROVE IInv' /\ StaysEnded
  BY <1>3, RowKeeps DEF Echo, IInv, TypeOK, Row, EndedHasTime, StaysEnded
<1>4. ASSUME NEW s \in Socket, SocketFails(s) PROVE IInv' /\ StaysEnded
  <2>1. /\ s \in Handler /\ Done(s) /\ row' = row /\ granted' = granted /\ raced' = raced
        /\ reported' = reported /\ lost' = lost
    BY <1>4 DEF SocketFails, Handler, stats
  <2>2. /\ row' \in Row /\ (row'.ended <=> ~row'.active)
        /\ reported' \in Nat /\ reported <= reported' /\ lost' \in BOOLEAN /\ StatsCounted'
        /\ granted' \subseteq User /\ raced' \in BOOLEAN /\ (raced' \/ granted' \subseteq row'.shared)
    BY <2>1 DEF IInv, TypeOK, EndedHasTime, StatsCounted, GrantKept
  <2> QED BY <2>1, <2>2, DoneKeeps DEF StaysEnded
<1>5. ASSUME CleanupExpired \/ GrowOld PROVE IInv' /\ StaysEnded
  BY <1>5, RowKeeps DEF CleanupExpired, GrowOld, IInv, TypeOK, Row, EndedHasTime, StaysEnded
<1>6. ASSUME UNCHANGED vars PROVE IInv' /\ StaysEnded
  BY <1>6, RowKeeps DEF vars, IInv, TypeOK, EndedHasTime, StaysEnded
<1> QED
  BY <1>1, <1>2, <1>3, <1>4, <1>5, <1>6,
     EndKeeps, ShareKeeps, RevokeKeeps, StatsKeep, OpenKeeps, DisconnectKeeps, RestartKeeps
  DEF Next, StaysEnded, Restart

-----------------------------------------------------------------------------
(* The theorems.                                                           *)

LEMMA Invariant == Spec => []IInv
BY InitHolds, StepKeeps, PTL DEF Spec

(* The row and every copy of it are well typed, whoever writes when.       *)
THEOREM SessionTypeCorrect == Spec => []TypeOK
BY Invariant, PTL DEF IInv

(* A session is over exactly when it has an end time, with any number of   *)
(* requests that loaded it before the end.                                 *)
THEOREM EndsHaveTimes == Spec => []EndedHasTime
BY Invariant, PTL DEF IInv

(* A lone socket that is open is recorded in the row of an active session. *)
THEOREM SocketsAreRecorded == Spec => []SocketRecorded
<1>1. IInv => SocketRecorded
  BY DEF IInv, SocketInv, SocketRecorded
<1> QED BY <1>1, Invariant, PTL

(* Users are lost from the list to overlapping shares only.                *)
THEOREM GrantsAreKept == Spec => []GrantKept
BY Invariant, PTL DEF IInv

(* Reports are counted once, and lost to overlapping reports only.         *)
THEOREM ReportsAreCounted == Spec => []StatsCounted
BY Invariant, PTL DEF IInv

(* No copy of the row, however old, brings an ended session back.          *)
THEOREM EndsAreFinal == Spec => EndIsFinal
<1>1. IInv /\ [Next]_vars => [~row.active => ~row'.active]_vars
  BY StepKeeps DEF StaysEnded
<1> QED BY <1>1, Invariant, PTL DEF Spec, EndIsFinal
=============================================================================
