------------------------------- MODULE HubProof -------------------------------
(***************************************************************************)
(* Proofs about Hub, for any number of connections, sessions and outside   *)
(* callers and any outbox capacity.                                        *)
(*                                                                         *)
(* The inductive invariant is TypeOK, DropInv and the two gauges.  DropInv *)
(* is about five variables: the map, the channels, the reader and the      *)
(* broadcast positions with their victims.  Most actions change none of    *)
(* them, or only move a reader from one working position to another.       *)
(***************************************************************************)
EXTENDS Hub, FiniteSetTheorems, TLAPS

Inv == TypeOK /\ DropInv /\ ConnGauge /\ SessionGaugeBound

LEMMA InitInv == Init => Inv
<1> SUFFICES ASSUME Init PROVE Inv
  OBVIOUS
<1> USE HubAssumption DEF Init
<1>1. MapTypes
  BY DEF MapTypes
<1>2. ClientTypes
  BY DEF ClientTypes, ReaderAt
<1>3. CastTypes
  BY DEF CastTypes, CastAt
<1>4. DropInv
  BY DEF DropInv, EntryInv, VictimInv, ReaderInv, Registered, Caster
<1>5. ConnGauge /\ SessionGaugeBound
  BY FS_EmptySet DEF ConnGauge, SessionGaugeBound
<1> QED
  BY <1>1, <1>2, <1>3, <1>4, <1>5 DEF Inv, TypeOK

(* Every step keeps the types that are not about the gauges.               *)
LEMMA TypeStep ==
  Inv /\ [Next]_vars => MapTypes' /\ ClientTypes' /\ CastTypes'
<1> DEFINE Typed == MapTypes /\ ClientTypes /\ CastTypes
<1> SUFFICES ASSUME TypeOK, DropInv, [Next]_vars
             PROVE  Typed'
  BY DEF Inv
<1> USE HubAssumption
<1> USE DEF TypeOK, MapTypes, ClientTypes, CastTypes, ReaderAt, CastAt, Caster,
        mapVars, sessVars, chanVars, netVars, readVars, castVars, tickVars,
        ReaderGoes
<1>1. ASSUME NEW c \in Client, Accept(c) PROVE Typed'
  BY <1>1 DEF Accept
<1>2. ASSUME NEW c \in Client, RegisterClient(c) PROVE Typed'
  BY <1>2 DEF RegisterClient, Exclusive, Readers
<1>3. ASSUME NEW c \in Client, NEW s \in Sid, HandleConnect(c, s) PROVE Typed'
  BY <1>3 DEF HandleConnect, Fresh
<1>4. ASSUME NEW c \in Client, AssignSession(c) PROVE Typed'
  BY <1>4 DEF AssignSession
<1>5. ASSUME NEW c \in Client, RegisterSession(c) PROVE Typed'
  BY <1>5 DEF RegisterSession, DropInv, ReaderInv
<1>6. ASSUME NEW c \in Client, HandlePing(c) PROVE Typed'
  BY <1>6 DEF HandlePing
<1>7. ASSUME NEW c \in Client, HandleData(c) PROVE Typed'
  BY <1>7 DEF HandleData, LookUp
<1>8. ASSUME NEW c \in Client, HandleResize(c) PROVE Typed'
  BY <1>8 DEF HandleResize, LookUp
<1>9. ASSUME NEW c \in Client, Touch(c) PROVE Typed'
  BY <1>9 DEF Touch
<1>10. ASSUME NEW c \in Client, HandleDisconnect(c) PROVE Typed'
  BY <1>10 DEF HandleDisconnect
<1>11. ASSUME NEW c \in Client, SendMessage(c) PROVE Typed'
  BY <1>11 DEF SendMessage
<1>12. ASSUME NEW c \in Client, SendOnClosed(c) PROVE Typed'
  BY <1>12 DEF SendOnClosed, Panic
<1>13. ASSUME NEW c \in Client, Pong(c) PROVE Typed'
  BY <1>13 DEF Pong
<1>14. ASSUME NEW c \in Client, ReadFails(c) PROVE Typed'
  BY <1>14 DEF ReadFails
<1>15. ASSUME NEW c \in Client, UnregisterClient(c) PROVE Typed'
  BY <1>15 DEF UnregisterClient, Exclusive, Readers
<1>16. ASSUME NEW c \in Client, CloseConn(c) PROVE Typed'
  BY <1>16 DEF CloseConn
<1>17. ASSUME NEW k \in Caller, NEW c \in Client, CallSendToClient(k, c) PROVE Typed'
  BY <1>17 DEF CallSendToClient
<1>18. ASSUME NEW g \in Caster, BeginCast(g) PROVE Typed'
  BY <1>18 DEF BeginCast
<1>19. ASSUME NEW g \in Caster, NEW c \in Client, Visit(g, c) PROVE Typed'
  <2>1. todo' \in [Caster -> SUBSET Client]
    BY <1>19 DEF Visit
  <2>2. queued' \in [Client -> 0..SendCap]
    BY <1>19 DEF Visit
  <2>3. cast' \in [Caster -> CastAt]
    BY <1>19 DEF Visit
  <2>4. victim' \in [Caster -> Client \cup {None}]
    BY <1>19 DEF Visit
  <2> QED
    BY <1>19, <2>1, <2>2, <2>3, <2>4 DEF Visit
<1>20. ASSUME NEW g \in Caster, NEW c \in Client, VisitClosed(g, c) PROVE Typed'
  BY <1>20 DEF VisitClosed, Panic
<1>21. ASSUME NEW g \in Caster, CloseFull(g) PROVE Typed'
  BY <1>21 DEF CloseFull
<1>22. ASSUME NEW g \in Caster, CloseAgain(g) PROVE Typed'
  BY <1>22 DEF CloseAgain, Panic
<1>23. ASSUME NEW g \in Caster, DeleteFull(g) PROVE Typed'
  BY <1>23 DEF DeleteFull
<1>24. ASSUME NEW g \in Caster, MapFault(g) PROVE Typed'
  BY <1>24 DEF MapFault, Panic
<1>25. ASSUME NEW g \in Caster, EndCast(g) PROVE Typed'
  BY <1>25 DEF EndCast
<1>26. ASSUME NEW k \in Caller, StatsLockClients(k) PROVE Typed'
  BY <1>26 DEF StatsLockClients
<1>27. ASSUME NEW k \in Caller, StatsLockSessions(k) PROVE Typed'
  BY <1>27 DEF StatsLockSessions
<1>28. ASSUME NEW c \in Client, WriteMessage(c) PROVE Typed'
  BY <1>28 DEF WriteMessage
<1>29. ASSUME NEW c \in Client, WriteFails(c) PROVE Typed'
  BY <1>29 DEF WriteFails, WriterStops
<1>30. ASSUME NEW c \in Client, WriteClose(c) PROVE Typed'
  BY <1>30 DEF WriteClose, WriterStops
<1>31. ASSUME SweepSessions PROVE Typed'
  BY <1>31 DEF SweepSessions
<1>32. ASSUME SweepClients PROVE Typed'
  <2>1. open' \in [Client -> BOOLEAN]
    BY <1>32 DEF SweepClients
  <2> QED
    BY <1>32, <2>1 DEF SweepClients
<1>33. ASSUME NEW c \in Client, GoStale(c) PROVE Typed'
  BY <1>33 DEF GoStale
<1>34. ASSUME NEW s \in Sid, GoIdle(s) PROVE Typed'
  BY <1>34 DEF GoIdle
<1>35. ASSUME UNCHANGED vars PROVE Typed'
  BY <1>35 DEF vars
<1> QED
  BY <1>1, <1>2, <1>3, <1>4, <1>5, <1>6, <1>7, <1>8, <1>9, <1>10, <1>11,
     <1>12, <1>13, <1>14, <1>15, <1>16, <1>17, <1>18, <1>19, <1>20, <1>21,
     <1>22, <1>23, <1>24, <1>25, <1>26, <1>27, <1>28, <1>29, <1>30, <1>31,
     <1>32, <1>33, <1>34, <1>35
  DEF Next, ReaderStep, WriterStep, CastStep, CallerStep, Halted

(* Every step keeps DropInv.                                               *)
LEMMA DropStep == Inv /\ [Next]_vars => DropInv'
<1> SUFFICES ASSUME TypeOK, DropInv, [Next]_vars
             PROVE  DropInv'
  BY DEF Inv
<1> USE HubAssumption
<1> USE DEF DropInv, EntryInv, VictimInv, ReaderInv, Registered,
        TypeOK, MapTypes, ClientTypes, CastTypes, ReaderAt, CastAt, Caster,
        mapVars, sessVars, chanVars, netVars, readVars, castVars, tickVars,
        ReaderGoes
<1>1. ASSUME NEW c \in Client, Accept(c) PROVE DropInv'
  BY <1>1 DEF Accept
<1>2. ASSUME NEW c \in Client, RegisterClient(c) PROVE DropInv'
  BY <1>2 DEF RegisterClient, Exclusive, Readers
<1>3. ASSUME NEW c \in Client, NEW s \in Sid, HandleConnect(c, s) PROVE DropInv'
  BY <1>3 DEF HandleConnect, Fresh
<1>4. ASSUME NEW c \in Client, AssignSession(c) PROVE DropInv'
  BY <1>4 DEF AssignSession
<1>5. ASSUME NEW c \in Client, RegisterSession(c) PROVE DropInv'
  BY <1>5 DEF RegisterSession
<1>6. ASSUME NEW c \in Client, HandlePing(c) PROVE DropInv'
  BY <1>6 DEF HandlePing
<1>7. ASSUME NEW c \in Client, HandleData(c) PROVE DropInv'
  BY <1>7 DEF HandleData, LookUp
<1>8. ASSUME NEW c \in Client, HandleResize(c) PROVE DropInv'
  BY <1>8 DEF HandleResize, LookUp
<1>9. ASSUME NEW c \in Client, Touch(c) PROVE DropInv'
  BY <1>9 DEF Touch
<1>10. ASSUME NEW c \in Client, HandleDisconnect(c) PROVE DropInv'
  BY <1>10 DEF HandleDisconnect
<1>11. ASSUME NEW c \in Client, SendMessage(c) PROVE DropInv'
  BY <1>11 DEF SendMessage
<1>12. ASSUME NEW c \in Client, SendOnClosed(c) PROVE DropInv'
  BY <1>12 DEF SendOnClosed, Panic
<1>13. ASSUME NEW c \in Client, Pong(c) PROVE DropInv'
  BY <1>13 DEF Pong
<1>14. ASSUME NEW c \in Client, ReadFails(c) PROVE DropInv'
  BY <1>14 DEF ReadFails
<1>15. ASSUME NEW c \in Client, UnregisterClient(c) PROVE DropInv'
  <2>1. \A g \in Caster : cast[g] \notin {"closing", "deleting"}
    BY <1>15 DEF UnregisterClient, Exclusive, Readers
  <2>2. EntryInv'
    BY <1>15, <2>1 DEF UnregisterClient
  <2>3. VictimInv' /\ ReaderInv'
    BY <1>15, <2>1 DEF UnregisterClient
  <2> QED
    BY <2>2, <2>3
<1>16. ASSUME NEW c \in Client, CloseConn(c) PROVE DropInv'
  BY <1>16 DEF CloseConn
<1>17. ASSUME NEW k \in Caller, NEW c \in Client, CallSendToClient(k, c) PROVE DropInv'
  BY <1>17 DEF CallSendToClient
<1>18. ASSUME NEW g \in Caster, BeginCast(g) PROVE DropInv'
  BY <1>18 DEF BeginCast
<1>19. ASSUME NEW g \in Caster, NEW c \in Client, Visit(g, c) PROVE DropInv'
  <2>1. EntryInv' /\ ReaderInv'
    BY <1>19 DEF Visit
  <2>2. VictimInv'
    BY <1>19 DEF Visit
  <2> QED
    BY <2>1, <2>2
<1>20. ASSUME NEW g \in Caster, NEW c \in Client, VisitClosed(g, c) PROVE DropInv'
  BY <1>20 DEF VisitClosed, Panic
<1>21. ASSUME NEW g \in Caster, CloseFull(g) PROVE DropInv'
  BY <1>21 DEF CloseFull
<1>22. ASSUME NEW g \in Caster, CloseAgain(g) PROVE DropInv'
  BY <1>22 DEF CloseAgain, Panic
<1>23. ASSUME NEW g \in Caster, DeleteFull(g) PROVE DropInv'
  BY <1>23 DEF DeleteFull
<1>24. ASSUME NEW g \in Caster, MapFault(g) PROVE DropInv'
  BY <1>24 DEF MapFault, Panic
<1>25. ASSUME NEW g \in Caster, EndCast(g) PROVE DropInv'
  BY <1>25 DEF EndCast
<1>26. ASSUME NEW k \in Caller, StatsLockClients(k) PROVE DropInv'
  BY <1>26 DEF StatsLockClients
<1>27. ASSUME NEW k \in Caller, StatsLockSessions(k) PROVE DropInv'
  BY <1>27 DEF StatsLockSessions
<1>28. ASSUME NEW c \in Client, WriteMessage(c) PROVE DropInv'
  BY <1>28 DEF WriteMessage
<1>29. ASSUME NEW c \in Client, WriteFails(c) PROVE DropInv'
  BY <1>29 DEF WriteFails, WriterStops
<1>30. ASSUME NEW c \in Client, WriteClose(c) PROVE DropInv'
  BY <1>30 DEF WriteClose, WriterStops
<1>31. ASSUME SweepSessions PROVE DropInv'
  BY <1>31 DEF SweepSessions
<1>32. ASSUME SweepClients PROVE DropInv'
  <2>1. \A g \in Caster : cast[g] \notin {"closing", "deleting"}
    BY <1>32 DEF SweepClients, Exclusive, Readers
  <2>2. EntryInv'
    BY <1>32, <2>1 DEF SweepClients
  <2>3. VictimInv' /\ ReaderInv'
    BY <1>32, <2>1 DEF SweepClients
  <2> QED
    BY <2>2, <2>3
<1>33. ASSUME NEW c \in Client, GoStale(c) PROVE DropInv'
  BY <1>33 DEF GoStale
<1>34. ASSUME NEW s \in Sid, GoIdle(s) PROVE DropInv'
  BY <1>34 DEF GoIdle
<1>35. ASSUME UNCHANGED vars PROVE DropInv'
  BY <1>35 DEF vars
<1> QED
  BY <1>1, <1>2, <1>3, <1>4, <1>5, <1>6, <1>7, <1>8, <1>9, <1>10, <1>11,
     <1>12, <1>13, <1>14, <1>15, <1>16, <1>17, <1>18, <1>19, <1>20, <1>21,
     <1>22, <1>23, <1>24, <1>25, <1>26, <1>27, <1>28, <1>29, <1>30, <1>31,
     <1>32, <1>33, <1>34, <1>35
  DEF Next, ReaderStep, WriterStep, CastStep, CallerStep, Halted

(* Finiteness of the two maps, for the facts about their sizes.            *)
LEMMA MapsFinite ==
  ASSUME MapTypes
  PROVE  /\ IsFiniteSet(clients) /\ Cardinality(clients) \in Nat
         /\ IsFiniteSet(sessions) /\ Cardinality(sessions) \in Nat
<1>1. IsFiniteSet(clients) /\ IsFiniteSet(sessions)
  BY HubAssumption, FS_Subset DEF MapTypes
<1> QED
  BY <1>1, FS_CardinalityType

(* Every step moves the connection gauge with the size of the map, and     *)
(* never moves the session gauge below the size of its map.                *)
LEMMA GaugeStep ==
  Inv /\ [Next]_vars => ConnGauge' /\ SessionGaugeBound'
<1> DEFINE Gauges == ConnGauge /\ SessionGaugeBound
<1> SUFFICES ASSUME TypeOK, DropInv, Gauges, [Next]_vars
             PROVE  Gauges'
  BY DEF Inv
<1>0. /\ IsFiniteSet(clients) /\ Cardinality(clients) \in Nat
      /\ IsFiniteSet(sessions) /\ Cardinality(sessions) \in Nat
      /\ activeConnections \in Nat /\ activeSessions \in Nat
  BY MapsFinite DEF TypeOK
<1> USE DEF ConnGauge, SessionGaugeBound, mapVars, sessVars, chanVars, netVars,
        readVars, castVars, tickVars
<1>1. ASSUME NEW c \in Client, Accept(c) PROVE Gauges'
  BY <1>1 DEF Accept
<1>2. ASSUME NEW c \in Client, RegisterClient(c) PROVE Gauges'
  <2>1. c \notin clients
    BY <1>2 DEF RegisterClient, DropInv, EntryInv, Registered
  <2> QED
    BY <1>0, <1>2, <2>1, FS_AddElement DEF RegisterClient
<1>3. ASSUME NEW c \in Client, NEW s \in Sid, HandleConnect(c, s) PROVE Gauges'
  BY <1>3 DEF HandleConnect, Fresh
<1>4. ASSUME NEW c \in Client, AssignSession(c) PROVE Gauges'
  BY <1>4 DEF AssignSession
<1>5. ASSUME NEW c \in Client, RegisterSession(c) PROVE Gauges'
  <2> DEFINE s == sessionID[c]
  <2>1. Cardinality(sessions \cup {s}) = IF s \in sessions THEN Cardinality(sessions)
                                          ELSE Cardinality(sessions) + 1
    BY <1>0, FS_AddElement
  <2>2. sessions' = sessions \cup {s} /\ activeSessions' = activeSessions + 1
        /\ UNCHANGED mapVars
    BY <1>5 DEF RegisterSession
  <2> HIDE DEF s
  <2> QED
    BY <1>0, <2>1, <2>2
<1>6. ASSUME NEW c \in Client, HandlePing(c) PROVE Gauges'
  BY <1>6 DEF HandlePing
<1>7. ASSUME NEW c \in Client, HandleData(c) PROVE Gauges'
  BY <1>7 DEF HandleData, LookUp
<1>8. ASSUME NEW c \in Client, HandleResize(c) PROVE Gauges'
  BY <1>8 DEF HandleResize, LookUp
<1>9. ASSUME NEW c \in Client, Touch(c) PROVE Gauges'
  BY <1>9 DEF Touch
<1>10. ASSUME NEW c \in Client, HandleDisconnect(c) PROVE Gauges'
  <2> DEFINE s == sessionID[c]
  <2>1. Cardinality(sessions \ {s}) = IF s \in sessions THEN Cardinality(sessions) - 1
                                          ELSE Cardinality(sessions)
    BY <1>0, FS_RemoveElement
  <2>2. sessions' = sessions \ {s}
        /\ activeSessions' = (IF s \in sessions THEN activeSessions - 1 ELSE activeSessions)
        /\ UNCHANGED mapVars
    BY <1>10 DEF HandleDisconnect
  <2> HIDE DEF s
  <2> QED
    BY <1>0, <2>1, <2>2
<1>11. ASSUME NEW c \in Client, SendMessage(c) PROVE Gauges'
  BY <1>11 DEF SendMessage
<1>12. ASSUME NEW c \in Client, SendOnClosed(c) PROVE Gauges'
  BY <1>12 DEF SendOnClosed, Panic
<1>13. ASSUME NEW c \in Client, Pong(c) PROVE Gauges'
  BY <1>13 DEF Pong
<1>14. ASSUME NEW c \in Client, ReadFails(c) PROVE Gauges'
  BY <1>14 DEF ReadFails
<1>15. ASSUME NEW c \in Client, UnregisterClient(c) PROVE Gauges'
  BY <1>0, <1>15, FS_RemoveElement DEF UnregisterClient
<1>16. ASSUME NEW c \in Client, CloseConn(c) PROVE Gauges'
  BY <1>16 DEF CloseConn
<1>17. ASSUME NEW k \in Caller, NEW c \in Client, CallSendToClient(k, c) PROVE Gauges'
  BY <1>17 DEF CallSendToClient
<1>18. ASSUME NEW g \in Caster, BeginCast(g) PROVE Gauges'
  BY <1>18 DEF BeginCast
<1>19. ASSUME NEW g \in Caster, NEW c \in Client, Visit(g, c) PROVE Gauges'
  BY <1>19 DEF Visit, Addressed
<1>20. ASSUME NEW g \in Caster, NEW c \in Client, VisitClosed(g, c) PROVE Gauges'
  BY <1>20 DEF VisitClosed, Panic
<1>21. ASSUME NEW g \in Caster, CloseFull(g) PROVE Gauges'
  BY <1>21 DEF CloseFull
<1>22. ASSUME NEW g \in Caster, CloseAgain(g) PROVE Gauges'
  BY <1>22 DEF CloseAgain, Panic
<1>23. ASSUME NEW g \in Caster, DeleteFull(g) PROVE Gauges'
  <2>1. victim[g] \in clients
    BY <1>23 DEF DeleteFull, DropInv, VictimInv
  <2> QED
    BY <1>0, <1>23, <2>1, FS_RemoveElement DEF DeleteFull
<1>24. ASSUME NEW g \in Caster, MapFault(g) PROVE Gauges'
  BY <1>24 DEF MapFault, Panic
<1>25. ASSUME NEW g \in Caster, EndCast(g) PROVE Gauges'
  BY <1>25 DEF EndCast
<1>26. ASSUME NEW k \in Caller, StatsLockClients(k) PROVE Gauges'
  BY <1>26 DEF StatsLockClients
<1>27. ASSUME NEW k \in Caller, StatsLockSessions(k) PROVE Gauges'
  BY <1>27 DEF StatsLockSessions
<1>28. ASSUME NEW c \in Client, WriteMessage(c) PROVE Gauges'
  BY <1>28 DEF WriteMessage
<1>29. ASSUME NEW c \in Client, WriteFails(c) PROVE Gauges'
  BY <1>29 DEF WriteFails, WriterStops
<1>30. ASSUME NEW c \in Client, WriteClose(c) PROVE Gauges'
  BY <1>30 DEF WriteClose, WriterStops
<1>31. ASSUME SweepSessions PROVE Gauges'
  <2>1. Cardinality(sessions \ idle) = Cardinality(sessions) - Cardinality(sessions \cap idle)
    BY <1>0, FS_Difference
  <2>2. Cardinality(sessions \cap idle) \in Nat
    BY <1>0, FS_Intersection, FS_CardinalityType
  <2> QED
    BY <1>0, <1>31, <2>1, <2>2 DEF SweepSessions
<1>32. ASSUME SweepClients PROVE Gauges'
  BY <1>0, <1>32, FS_Difference DEF SweepClients
<1>33. ASSUME NEW c \in Client, GoStale(c) PROVE Gauges'
  BY <1>33 DEF GoStale
<1>34. ASSUME NEW s \in Sid, GoIdle(s) PROVE Gauges'
  BY <1>34 DEF GoIdle
<1>35. ASSUME UNCHANGED vars PROVE Gauges'
  BY <1>35 DEF vars
<1> QED
  BY <1>1, <1>2, <1>3, <1>4, <1>5, <1>6, <1>7, <1>8, <1>9, <1>10, <1>11,
     <1>12, <1>13, <1>14, <1>15, <1>16, <1>17, <1>18, <1>19, <1>20, <1>21,
     <1>22, <1>23, <1>24, <1>25, <1>26, <1>27, <1>28, <1>29, <1>30, <1>31,
     <1>32, <1>33, <1>34, <1>35
  DEF Next, ReaderStep, WriterStep, CastStep, CallerStep, Halted

(* The gauges stay natural numbers: they are at least the size of a set.   *)
LEMMA GaugeTypes ==
  ASSUME Inv, [Next]_vars
  PROVE  activeConnections' \in Nat /\ activeSessions' \in Nat
<1>1. MapTypes' /\ ConnGauge' /\ SessionGaugeBound'
  BY TypeStep, GaugeStep
<1>2. IsFiniteSet(clients') /\ IsFiniteSet(sessions')
  BY <1>1, HubAssumption, FS_Subset DEF MapTypes
<1>3. Cardinality(clients') \in Nat /\ Cardinality(sessions') \in Nat
  BY <1>2, FS_CardinalityType
<1>4. Cardinality(sessions \cap idle) \in Nat
  BY MapsFinite, FS_Intersection, FS_CardinalityType DEF Inv, TypeOK
<1>5. activeSessions' \in Int
  <2> USE <1>4 DEF Inv, TypeOK, mapVars, sessVars, chanVars, netVars, readVars,
          castVars, tickVars, Panic
  <2>1. ASSUME Next PROVE activeSessions' \in {activeSessions, activeSessions + 1,
           activeSessions - 1, activeSessions - Cardinality(sessions \cap idle)}
    BY <2>1 DEF Next, ReaderStep, WriterStep, CastStep, CallerStep, Halted, vars,
       Accept, RegisterClient, HandleConnect, AssignSession, RegisterSession,
       HandlePing, HandleData, HandleResize, Touch, HandleDisconnect, SendMessage,
       SendOnClosed, Pong, ReadFails, UnregisterClient, CloseConn, CallSendToClient,
       BeginCast, Visit, VisitClosed, CloseFull, CloseAgain, DeleteFull, MapFault,
       EndCast, StatsLockClients, StatsLockSessions, WriteMessage, WriteFails,
       WriteClose, SweepSessions, SweepClients, GoStale, GoIdle, LookUp, WriterStops
  <2> QED
    BY <2>1 DEF vars
<1> QED
  BY <1>1, <1>3, <1>5 DEF ConnGauge, SessionGaugeBound

LEMMA InvStep == Inv /\ [Next]_vars => Inv'
  BY TypeStep, DropStep, GaugeStep, GaugeTypes DEF Inv, TypeOK

(* Inv holds throughout.                                                   *)
THEOREM Invariance == Spec => []Inv
  BY InitInv, InvStep, PTL DEF Spec

(* Every variable of the hub has its type, in particular no outbox exceeds *)
(* its capacity and no gauge becomes negative.                             *)
THEOREM TypeCorrect == Spec => []TypeOK
<1>1. Inv => TypeOK
  BY DEF Inv
<1> QED
  BY <1>1, Invariance, PTL

(* A broadcast that drops a client is alone past close with it, whatever   *)
(* other broadcasts, sweeps and the client's own reader do.                *)
THEOREM DropsKnown == Spec => []DropInv
<1>1. Inv => DropInv
  BY DEF Inv
<1> QED
  BY <1>1, Invariance, PTL

(* The connection gauge is always the number of entries of h.clients.      *)
THEOREM ConnGaugeExact == Spec => []ConnGauge
<1>1. Inv => ConnGauge
  BY DEF Inv
<1> QED
  BY <1>1, Invariance, PTL

(* A client is in h.clients exactly while its channel is open, except      *)
(* between the close and the delete of one dropping broadcast.             *)
THEOREM ChannelsOwned == Spec => []ChannelOwnership
<1>1. Inv => ChannelOwnership
  <2> SUFFICES ASSUME DropInv, NEW c \in Client, Registered(c)
               PROVE  /\ c \in clients <=> open[c] \/ Dropping(c) # {}
                      /\ open[c] => Dropping(c) = {}
    BY DEF Inv, ChannelOwnership
  <2>1. open[c] => Dropping(c) = {}
    BY DEF DropInv, VictimInv, Dropping
  <2>2. c \in clients => open[c] \/ Dropping(c) # {}
    BY DEF DropInv, EntryInv, Dropping
  <2>3. open[c] \/ Dropping(c) # {} => c \in clients
    BY DEF DropInv, EntryInv, VictimInv, Dropping
  <2> QED
    BY <2>1, <2>2, <2>3
<1> QED
  BY <1>1, Invariance, PTL

(* The session gauge never reports fewer sessions than h.sessions has,     *)
(* even when identifiers repeat.                                           *)
THEOREM SessionGaugeNotLow == Spec => []SessionGaugeBound
<1>1. Inv => SessionGaugeBound
  BY DEF Inv
<1> QED
  BY <1>1, Invariance, PTL

(* Which actions can end the process.                                      *)
LEMMA ReaderPanics ==
  ASSUME NEW c \in Client, ReaderStep(c), crashed'
  PROVE  SendOnClosed(c) \/ UnregisterClient(c)
BY DEF ReaderStep, Running, Accept, RegisterClient, HandleConnect, AssignSession,
       RegisterSession, HandlePing, HandleData, HandleResize, LookUp, Touch,
       HandleDisconnect, SendMessage, Pong, ReadFails, CloseConn

LEMMA CastPanics ==
  ASSUME NEW g \in Caster, CastStep(g), crashed'
  PROVE  (\E c \in Client : VisitClosed(g, c)) \/ CloseAgain(g) \/ MapFault(g)
BY DEF CastStep, Running, BeginCast, Visit, CloseFull, DeleteFull, EndCast

LEMMA OthersDoNotPanic ==
  ASSUME crashed'
  PROVE  /\ \A c \in Client : ~WriterStep(c) /\ ~GoStale(c)
         /\ \A k \in Caller : ~CallerStep(k)
         /\ \A s \in Sid : ~GoIdle(s)
         /\ ~SweepSessions
<1>1. ASSUME NEW c \in Client PROVE ~WriterStep(c) /\ ~GoStale(c)
  BY DEF WriterStep, Running, WriteMessage, WriteFails, WriteClose, GoStale
<1>2. ASSUME NEW k \in Caller PROVE ~CallerStep(k)
  BY DEF CallerStep, Running, CallSendToClient, StatsLockClients, StatsLockSessions
<1>3. (\A s \in Sid : ~GoIdle(s)) /\ ~SweepSessions
  BY DEF Running, GoIdle, SweepSessions
<1> QED
  BY <1>1, <1>2, <1>3

(* The panics of the hub: each one is over a client whose channel was      *)
(* closed while its reader was still at work.                              *)
LEMMA PanicStep == Inv /\ OnlyDropsPanic /\ [Next]_vars => OnlyDropsPanic'
<1> DEFINE Cut(c) == Registered(c) /\ ~open[c] /\ reader[c] \notin {"closing", "done"}
<1> SUFFICES ASSUME TypeOK, DropInv, OnlyDropsPanic, [Next]_vars
             PROVE  OnlyDropsPanic'
  BY DEF Inv
<1>a. ASSUME NEW c \in Client, Cut(c), Panic PROVE OnlyDropsPanic'
  BY <1>a DEF OnlyDropsPanic, Panic, Registered, chanVars, readVars
<1>b. ASSUME NEW c \in clients, ~open[c] PROVE Cut(c) /\ ~Exclusive
  BY <1>b DEF DropInv, EntryInv, Registered, Exclusive, Readers, TypeOK, MapTypes
<1>c. ASSUME NEW c \in Client, SendOnClosed(c) PROVE OnlyDropsPanic'
  BY <1>a, <1>c DEF SendOnClosed, Registered
<1>d. ASSUME NEW g \in Caster, NEW c \in Client, VisitClosed(g, c) PROVE OnlyDropsPanic'
  BY <1>a, <1>b, <1>d DEF VisitClosed
<1>e. ASSUME NEW g \in Caster, CloseAgain(g) PROVE OnlyDropsPanic'
  BY <1>a, <1>e DEF CloseAgain, DropInv, VictimInv
<1>f. ASSUME NEW g \in Caster, MapFault(g) PROVE OnlyDropsPanic'
  BY <1>a, <1>f DEF MapFault, DropInv, VictimInv
<1>g. ASSUME NEW c \in Client, UnregisterClient(c) PROVE ~crashed'
  BY <1>b, <1>g DEF UnregisterClient
<1>h. ASSUME SweepClients PROVE ~crashed'
  BY <1>b, <1>h DEF SweepClients
<1>i. CASE UNCHANGED vars
  BY <1>i DEF OnlyDropsPanic, Registered, vars, chanVars, readVars
<1>j. CASE Next /\ ~crashed'
  BY <1>j DEF OnlyDropsPanic
<1>k. CASE Next /\ crashed'
  <2>1. ASSUME NEW c \in Client, ReaderStep(c) PROVE OnlyDropsPanic'
    BY <1>c, <1>g, <1>k, <2>1, ReaderPanics
  <2>2. ASSUME NEW g \in Caster, CastStep(g) PROVE OnlyDropsPanic'
    BY <1>d, <1>e, <1>f, <1>k, <2>2, CastPanics
  <2>3. ~(\E c \in Client : WriterStep(c)) /\ ~(\E k \in Caller : CallerStep(k))
    BY <1>k, OthersDoNotPanic
  <2>4. ~(\E c \in Client : GoStale(c)) /\ ~(\E s \in Sid : GoIdle(s)) /\ ~SweepSessions
    BY <1>k, OthersDoNotPanic
  <2> QED
    BY <1>h, <1>i, <1>k, <2>1, <2>2, <2>3, <2>4 DEF Next, Halted
<1> QED
  BY <1>i, <1>j, <1>k

(* The gateway only dies over a client that was dropped under its reader.  *)
THEOREM PanicsExplained == Spec => []OnlyDropsPanic
<1>1. Init => OnlyDropsPanic
  BY DEF Init, OnlyDropsPanic
<1> QED
  BY <1>1, PanicStep, Invariance, PTL DEF Spec

-----------------------------------------------------------------------------
(* A broadcast comes to its end: whatever joins, leaves or is dropped      *)
(* meanwhile, no step lengthens a loop that holds the read lock, and each  *)
(* step of its own shortens it or ends it.  So it holds the lock for at    *)
(* most Remaining(g) + 1 of its own steps, and no broadcast keeps          *)
(* RegisterClient, UnregisterClient and the sweep out for ever.            *)
Remaining(g) ==
  3 * Cardinality(todo[g])
  + CASE cast[g] = "closing" -> 2 [] cast[g] = "deleting" -> 1 [] OTHER -> 0

Shrinks(g) ==
  \/ crashed'
  \/ cast[g] = "ranging" /\ cast'[g] \in {"out", "over"}
  \/ /\ cast'[g] \in {"ranging", "closing", "deleting"} /\ Remaining(g)' <= Remaining(g)
     /\ CastStep(g) => Remaining(g)' < Remaining(g)
BroadcastsShrink == [][\A g \in Ranging : Shrinks(g)]_vars

LEMMA RemainingIsNat ==
  ASSUME CastTypes, NEW g \in Caster
  PROVE  IsFiniteSet(todo[g]) /\ Cardinality(todo[g]) \in Nat /\ Remaining(g) \in Nat
<1>1. todo[g] \subseteq Client BY DEF CastTypes
<1>2. IsFiniteSet(todo[g]) /\ Cardinality(todo[g]) \in Nat
  BY <1>1, HubAssumption, FS_Subset, FS_CardinalityType
<1> QED BY <1>2 DEF Remaining

(* The goroutine's own steps.                                              *)
LEMMA OwnStepShrinks ==
  ASSUME CastTypes, NEW g \in Ranging, CastStep(g)
  PROVE  \/ crashed'
         \/ cast[g] = "ranging" /\ cast'[g] \in {"out", "over"}
         \/ /\ cast'[g] \in {"ranging", "closing", "deleting"}
            /\ Remaining(g)' \in Int /\ Remaining(g)' < Remaining(g)
<1> DEFINE n == Cardinality(todo[g])
<1>0. g \in Caster /\ cast[g] \in {"ranging", "closing", "deleting"} BY DEF Ranging
<1>1. n \in Nat /\ IsFiniteSet(todo[g]) BY <1>0, RemainingIsNat
<1>2. CASE \/ CloseAgain(g) \/ MapFault(g) \/ \E c \in Client : VisitClosed(g, c)
  BY <1>2 DEF CloseAgain, MapFault, VisitClosed, Panic
<1>3. CASE EndCast(g)
  BY <1>0, <1>3 DEF EndCast, CastTypes
<1>4. ASSUME NEW c \in Client, Visit(g, c) 
      PROVE  /\ cast'[g] \in {"ranging", "closing"}
             /\ Remaining(g)' \in Int /\ Remaining(g)' < Remaining(g)
  <2>1. /\ cast[g] = "ranging" /\ c \in todo[g] /\ todo' = [todo EXCEPT ![g] = @ \ {c}]
        /\ cast'[g] \in {"ranging", "closing"}
    BY <1>0, <1>4 DEF Visit, CastTypes
  <2>2. todo'[g] = todo[g] \ {c} BY <1>0, <2>1 DEF CastTypes
  <2>3. Cardinality(todo'[g]) = n - 1 BY <1>1, <2>1, <2>2, FS_RemoveElement
  <2>4. Remaining(g) = 3 * n BY <1>1, <2>1 DEF Remaining
  <2>5. Remaining(g)' \in {3 * (n - 1), 3 * (n - 1) + 2} BY <1>1, <2>1, <2>3 DEF Remaining
  <2>6. /\ 3 * (n - 1) \in Int /\ 3 * (n - 1) + 2 \in Int
        /\ 3 * (n - 1) < 3 * n /\ 3 * (n - 1) + 2 < 3 * n
    BY <1>1
  <2> QED BY <2>1, <2>4, <2>5, <2>6
<1>5. CASE CloseFull(g)
  <2>1. cast[g] = "closing" /\ cast'[g] = "deleting" /\ todo' = todo
    BY <1>0, <1>5 DEF CloseFull, CastTypes
  <2>2. Remaining(g) = 3 * n + 2 /\ Remaining(g)' = 3 * n + 1 BY <2>1 DEF Remaining
  <2>3. 3 * n + 1 < 3 * n + 2 /\ 3 * n + 1 \in Int BY <1>1
  <2> QED BY <2>1, <2>2, <2>3
<1>6. CASE DeleteFull(g)
  <2>1. cast[g] = "deleting" /\ cast'[g] = "ranging" /\ todo' = todo
    BY <1>0, <1>6 DEF DeleteFull, CastTypes
  <2>2. Remaining(g) = 3 * n + 1 /\ Remaining(g)' = 3 * n BY <1>1, <2>1 DEF Remaining
  <2>3. 3 * n < 3 * n + 1 /\ 3 * n \in Int BY <1>1
  <2> QED BY <2>1, <2>2, <2>3
<1>7. ~BeginCast(g) BY <1>0 DEF BeginCast
<1> QED BY <1>2, <1>3, <1>4, <1>5, <1>6, <1>7 DEF CastStep

(* Everybody else leaves a goroutine in the loop where it is.              *)
LEMMA OthersStandBack ==
  ASSUME CastTypes, ReaderInv, [Next]_vars, NEW g \in Ranging, ~CastStep(g)
  PROVE  cast'[g] = cast[g] /\ todo'[g] = todo[g]
<1> USE HubAssumption DEF mapVars, sessVars, chanVars, netVars, readVars, castVars, tickVars,
        ReaderGoes
<1>0. g \in Caster /\ cast[g] \in {"ranging", "closing", "deleting"} BY DEF Ranging
<1>1. CASE UNCHANGED <<cast, todo>> BY <1>1
<1>2. ASSUME NEW h, h # g,
             cast' = cast \/ \E at : cast' = [cast EXCEPT ![h] = at],
             todo' = todo \/ \E S : todo' = [todo EXCEPT ![h] = S]
      PROVE  cast'[g] = cast[g] /\ todo'[g] = todo[g]
  BY <1>0, <1>2 DEF CastTypes
<1>3. ASSUME NEW h \in Caster, CastStep(h) PROVE cast'[g] = cast[g] /\ todo'[g] = todo[g]
  BY <1>2, <1>3 DEF CastStep, BeginCast, Visit, VisitClosed, CloseFull, CloseAgain,
     DeleteFull, MapFault, EndCast, Panic
<1>4. ASSUME NEW k \in Caller, CallerStep(k) PROVE cast'[g] = cast[g] /\ todo'[g] = todo[g]
  <2>1. k # g BY <1>0, <1>4 DEF CallerStep, CallSendToClient, StatsLockClients, StatsLockSessions
  <2> QED BY <1>2, <1>4, <2>1
          DEF CallerStep, CallSendToClient, StatsLockClients, StatsLockSessions
<1>5. ASSUME NEW c \in Client, ReaderStep(c) PROVE cast'[g] = cast[g] /\ todo'[g] = todo[g]
  <2>1. ASSUME NEW s \in Sid, HandleConnect(c, s) PROVE s # g /\ todo' = todo
    BY <1>0, <2>1 DEF HandleConnect, Fresh
  <2>2. CASE Touch(c)
    <3>1. c # g BY <1>0, <2>2 DEF Touch, ReaderInv
    <3> QED BY <1>1, <1>2, <2>2, <3>1 DEF Touch
  <2>3. CASE \E s \in Sid : HandleConnect(c, s)
    BY <1>2, <2>1, <2>3 DEF HandleConnect
  <2>4. CASE \/ Accept(c) \/ RegisterClient(c) \/ AssignSession(c) \/ RegisterSession(c)
             \/ SendMessage(c) \/ SendOnClosed(c) \/ HandlePing(c) \/ HandleData(c)
             \/ HandleResize(c) \/ HandleDisconnect(c) \/ Pong(c) \/ ReadFails(c)
             \/ UnregisterClient(c) \/ CloseConn(c)
    <3>1. UNCHANGED <<cast, todo>>
      BY <2>4 DEF Accept, RegisterClient, AssignSession, RegisterSession, SendMessage,
         SendOnClosed, Panic, HandlePing, HandleData, HandleResize, LookUp,
         HandleDisconnect, Pong, ReadFails, UnregisterClient, CloseConn
    <3> QED BY <1>1, <3>1
  <2> QED BY <1>5, <2>2, <2>3, <2>4 DEF ReaderStep
<1>6. CASE \/ \E c \in Client : WriterStep(c) \/ GoStale(c)
           \/ \E s \in Sid : GoIdle(s)
           \/ SweepSessions \/ SweepClients \/ UNCHANGED vars
  <2>1. UNCHANGED <<cast, todo>>
    BY <1>6 DEF WriterStep, WriteMessage, WriteFails, WriteClose, GoStale, GoIdle,
       SweepSessions, SweepClients, vars
  <2> QED BY <1>1, <2>1
<1> QED BY <1>3, <1>4, <1>5, <1>6 DEF Next, Halted

(* The loop of every broadcast shrinks with each of its steps.             *)
THEOREM BroadcastsEnd == Spec => BroadcastsShrink
<1>1. ASSUME Inv, [Next]_vars, NEW g \in Ranging PROVE Shrinks(g)
  <2>0. CastTypes /\ ReaderInv /\ g \in Caster BY <1>1 DEF Inv, TypeOK, DropInv, Ranging
  <2>1. CASE CastStep(g)
    <3>1. Remaining(g) \in Nat BY <2>0, RemainingIsNat
    <3> QED BY <1>1, <2>0, <2>1, <3>1, OwnStepShrinks DEF Shrinks
  <2>2. CASE ~CastStep(g)
    <3>1. cast'[g] = cast[g] /\ todo'[g] = todo[g] BY <1>1, <2>0, <2>2, OthersStandBack
    <3>2. Remaining(g)' = Remaining(g) BY <3>1 DEF Remaining
    <3>3. Remaining(g) \in Nat BY <2>0, RemainingIsNat
    <3> QED BY <2>2, <3>1, <3>2, <3>3 DEF Shrinks, Ranging
  <2> QED BY <2>1, <2>2
<1>2. Inv /\ [Next]_vars => [\A g \in Ranging : Shrinks(g)]_vars BY <1>1
<1> QED BY <1>2, Invariance, PTL DEF Spec, BroadcastsShrink
=============================================================================
