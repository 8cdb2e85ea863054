--------------------------- MODULE HubRegistryProof ---------------------------
(***************************************************************************)
(* Hub implements ConnRegistry, and with unique identifiers its session    *)
(* gauge is exact: for any number of connections, identifiers and callers. *)
(***************************************************************************)
EXTENDS HubProof

(* The registry as the hub keeps it.  A broadcast between close and delete *)
(* has let its victim go, and the gauge does not know yet.                 *)
LiveClients == {c \in clients : open[c]}
GoneClients == {c \in Client : Registered(c) /\ ~(c \in clients /\ open[c])}
Droppers    == {g \in Caster : cast[g] = "deleting"}
Gauge       == activeConnections - Cardinality(Droppers)

Same == UNCHANGED <<LiveClients, GoneClients, Gauge>>

(* The steps of the registry, in terms of the hub.                         *)
LEMMA AsJoin ==
  ASSUME NEW c \in Client, c \notin LiveClients \cup GoneClients,
         LiveClients' = LiveClients \cup {c}, Gauge' = Gauge + 1,
         UNCHANGED <<GoneClients, queued>>
  PROVE  Registry!Next
<1>1. Registry!Join(c) BY DEF Registry!Join, LiveClients, GoneClients, Gauge, Droppers
<1> QED BY <1>1 DEF Registry!Next

LEMMA SameSize == \A S : Registry!Cardinality(S) = Cardinality(S)
BY DEF Registry!Cardinality, Cardinality

LEMMA AsLeave ==
  ASSUME NEW S \in SUBSET Client, S # {}, S \subseteq LiveClients,
         LiveClients' = LiveClients \ S, GoneClients' = GoneClients \cup S,
         Gauge' = Gauge - Cardinality(S), UNCHANGED queued
  PROVE  Registry!Next
<1>1. Registry!Leave(S) BY SameSize DEF Registry!Leave, LiveClients, GoneClients, Gauge, Droppers
<1> QED BY <1>1 DEF Registry!Next

LEMMA AsPut ==
  ASSUME NEW c \in Client, c \in LiveClients, queued[c] < SendCap,
         queued' = [queued EXCEPT ![c] = @ + 1], Same
  PROVE  Registry!Next
<1>1. Registry!Put(c) BY DEF Registry!Put, LiveClients, GoneClients, Gauge, Droppers, Same
<1> QED BY <1>1 DEF Registry!Next

LEMMA AsTake ==
  ASSUME NEW c \in Client, queued[c] > 0,
         queued' = [queued EXCEPT ![c] = @ - 1], Same
  PROVE  Registry!Next
<1>1. Registry!Take(c) BY DEF Registry!Take, LiveClients, GoneClients, Gauge, Droppers, Same
<1> QED BY <1>1 DEF Registry!Next

LEMMA AsStutter ==
  ASSUME Same, UNCHANGED queued
  PROVE  UNCHANGED Registry!vars
BY DEF Registry!vars, LiveClients, GoneClients, Gauge, Droppers, Same

(* The steps of the hub that the registry does not see.                    *)
LEMMA Unseen ==
  ASSUME UNCHANGED <<clients, activeConnections, open>>,
         \A c \in Client : Registered(c)' = Registered(c),
         Droppers' = Droppers
  PROVE  Same
BY DEF Same, LiveClients, GoneClients, Gauge, Registered

(* A broadcast moves, and neither begins nor ends a delete.                *)
LEMMA CastMoves ==
  ASSUME CastTypes, NEW g \in Caster, NEW v,
         cast' = [cast EXCEPT ![g] = v], cast[g] # "deleting", v # "deleting"
  PROVE  Droppers' = Droppers
BY DEF CastTypes, Droppers

LEMMA DroppersFinite == IsFiniteSet(Droppers) /\ Cardinality(Droppers) \in Nat
<1>1. IsFiniteSet(Caster) BY HubAssumption, FS_Union DEF Caster
<1> QED BY <1>1, FS_Subset, FS_CardinalityType DEF Droppers

LEMMA InitMaps == Init => Registry!Init
<1> SUFFICES ASSUME Init PROVE Registry!Init OBVIOUS
<1>1. Droppers = {} BY DEF Init, Droppers
<1>2. Gauge = 0 BY <1>1, FS_EmptySet DEF Init, Gauge
<1>3. LiveClients = {} /\ GoneClients = {} BY DEF Init, LiveClients, GoneClients, Registered
<1> QED BY <1>2, <1>3 DEF Init, Registry!Init, LiveClients, GoneClients, Gauge, Droppers

-----------------------------------------------------------------------------
(* Steps of readers, writers, the clock and the sweep of sessions that     *)
(* touch neither map nor channels of clients.                              *)
LEMMA QuietReader ==
  ASSUME TypeOK, DropInv, NEW c \in Client,
         \/ Accept(c) \/ (\E s \in Sid : HandleConnect(c, s))
         \/ AssignSession(c) \/ RegisterSession(c) \/ SendOnClosed(c)
         \/ HandlePing(c) \/ HandleData(c) \/ HandleResize(c) \/ Touch(c)
         \/ HandleDisconnect(c) \/ Pong(c) \/ ReadFails(c) \/ CloseConn(c)
  PROVE  Same /\ UNCHANGED queued
<1> USE DEF mapVars, chanVars, readVars, castVars, tickVars, ReaderGoes
<1>1. UNCHANGED <<clients, activeConnections, open, queued>>
  BY DEF Accept, HandleConnect, AssignSession, RegisterSession, SendOnClosed, Panic,
     HandlePing, HandleData, HandleResize, LookUp, Touch, HandleDisconnect, Pong,
     ReadFails, CloseConn
<1>2. reader \in [Client -> ReaderAt] /\ CastTypes BY DEF TypeOK, ClientTypes
<1>3. \A d \in Client : Registered(d)' = Registered(d)
  BY <1>2 DEF Registered, Accept, HandleConnect, AssignSession, RegisterSession,
     SendOnClosed, Panic, HandlePing, HandleData, HandleResize, LookUp, Touch,
     HandleDisconnect, Pong, ReadFails, CloseConn
<1>4. Droppers' = Droppers
  <2>1. ASSUME NEW s \in Sid, HandleConnect(c, s) PROVE Droppers' = Droppers
    <3>1. cast[s] # "deleting" BY <2>1 DEF HandleConnect, Fresh
    <3> QED BY <1>2, <2>1, <3>1, CastMoves DEF HandleConnect, Caster
  <2>2. ASSUME Touch(c) PROVE Droppers' = Droppers
    <3>1. CASE UNCHANGED cast BY <3>1 DEF Droppers
    <3>2. CASE reader[c] = "touching" /\ cast' = [cast EXCEPT ![c] = "in"]
      <4>1. cast[c] # "deleting" BY <3>2 DEF DropInv, ReaderInv
      <4> QED BY <1>2, <3>2, <4>1, CastMoves DEF Caster
    <3> QED BY <2>2, <3>1, <3>2 DEF Touch
  <2>3. CASE UNCHANGED cast BY <2>3 DEF Droppers
  <2> QED
    BY <2>1, <2>2, <2>3 DEF Accept, AssignSession, RegisterSession, SendOnClosed, Panic,
       HandlePing, HandleData, HandleResize, LookUp, HandleDisconnect, Pong,
       ReadFails, CloseConn
<1> QED BY <1>1, <1>3, <1>4, Unseen

LEMMA QuietOthers ==
  ASSUME \/ SweepSessions \/ (\E c \in Client : GoStale(c)) \/ (\E s \in Sid : GoIdle(s))
         \/ UNCHANGED vars
  PROVE  Same /\ UNCHANGED queued
<1>1. UNCHANGED <<clients, activeConnections, open, queued, reader, cast>>
  BY DEF SweepSessions, GoStale, GoIdle, vars, mapVars, chanVars, readVars, castVars
<1> QED BY <1>1, Unseen DEF Registered, Droppers

(* Who broadcasts adds to outboxes, and otherwise only moves in its loop.  *)
LEMMA QuietCast ==
  ASSUME CastTypes, DropInv, NEW g \in Caster,
         \/ BeginCast(g) \/ CloseAgain(g) \/ MapFault(g) \/ EndCast(g)
         \/ (\E c \in Client : VisitClosed(g, c) \/ (g \in Caller /\ CallSendToClient(g, c)))
         \/ (g \in Caller /\ (StatsLockClients(g) \/ StatsLockSessions(g)))
  PROVE  Same /\ UNCHANGED queued
<1> USE DEF mapVars, chanVars, readVars, castVars, tickVars
<1>1. UNCHANGED <<clients, activeConnections, open, queued>>
  BY DEF BeginCast, CloseAgain, MapFault, EndCast, VisitClosed, Panic, CallSendToClient,
     StatsLockClients, StatsLockSessions
<1>2. \A c \in Client : Registered(c)' = Registered(c)
  <2>1. CASE EndCast(g)
    <3>1. g \in Client => reader[g] = "casting" BY <2>1 DEF EndCast, DropInv, ReaderInv
    <3> QED BY <2>1, <3>1 DEF EndCast, Registered
  <2>2. CASE UNCHANGED reader BY <2>2 DEF Registered
  <2> QED
    BY <2>1, <2>2 DEF BeginCast, CloseAgain, MapFault, VisitClosed, Panic, CallSendToClient,
       StatsLockClients, StatsLockSessions
<1>3. Droppers' = Droppers
  <2>1. CASE UNCHANGED cast BY <2>1 DEF Droppers
  <2>2. CASE \E v : cast' = [cast EXCEPT ![g] = v] /\ cast[g] # "deleting" /\ v # "deleting"
    BY <2>2, CastMoves
  <2> QED
    BY <2>1, <2>2 DEF BeginCast, CloseAgain, MapFault, EndCast, VisitClosed, Panic,
       CallSendToClient, StatsLockClients, StatsLockSessions
<1> QED BY <1>1, <1>2, <1>3, Unseen
-----------------------------------------------------------------------------
(* Joining.                                                                *)
LEMMA RegisterIsJoin ==
  ASSUME TypeOK, DropInv, NEW c \in Client, RegisterClient(c)
  PROVE  Registry!Next
<1> USE DEF TypeOK, MapTypes, ClientTypes
<1>1. ~Registered(c) /\ open[c] /\ c \notin clients
  BY DEF RegisterClient, Registered, DropInv, EntryInv
<1>2. /\ clients' = clients \cup {c} /\ activeConnections' = activeConnections + 1
      /\ open' = open /\ queued' = queued /\ cast' = cast
      /\ reader' = [reader EXCEPT ![c] = "reading"]
  BY DEF RegisterClient, chanVars, castVars
<1>3. LiveClients' = LiveClients \cup {c} BY <1>1, <1>2 DEF LiveClients
<1>4. GoneClients' = GoneClients BY <1>1, <1>2 DEF GoneClients, Registered
<1>5. Gauge' = Gauge + 1 BY <1>2, DroppersFinite DEF Gauge, Droppers
<1>6. c \notin LiveClients \cup GoneClients BY <1>1 DEF LiveClients, GoneClients
<1> QED BY <1>2, <1>3, <1>4, <1>5, <1>6, AsJoin

(* Leaving by itself.  Whoever has the write lock finds nobody dropping.   *)
LEMMA UnregisterIsLeave ==
  ASSUME TypeOK, DropInv, NEW c \in Client, UnregisterClient(c)
  PROVE  Registry!Next \/ (Same /\ UNCHANGED queued)
<1> USE DEF TypeOK, MapTypes, ClientTypes
<1>1. /\ clients' = clients \ {c} /\ queued' = queued /\ cast' = cast
      /\ reader' = [reader EXCEPT ![c] = "closing"] /\ reader[c] = "leaving"
  BY DEF UnregisterClient, castVars, ReaderGoes
<1>2. Droppers' = Droppers BY <1>1 DEF Droppers
<1>3. \A d \in Client : Registered(d)' = Registered(d) BY <1>1 DEF Registered
<1>4. CASE c \in clients
  <2>1. open[c]
    BY <1>4 DEF UnregisterClient, Exclusive, Readers, DropInv, EntryInv
  <2>2. open' = [open EXCEPT ![c] = FALSE] /\ activeConnections' = activeConnections - 1
    BY <1>4 DEF UnregisterClient
  <2>3. LiveClients' = LiveClients \ {c} BY <1>1, <2>2 DEF LiveClients
  <2>4. GoneClients' = GoneClients \cup {c}
    BY <1>1, <1>3, <2>2 DEF GoneClients, Registered
  <2>5. Cardinality({c}) = 1 BY FS_Singleton
  <2>6. Gauge' = Gauge - Cardinality({c}) BY <1>2, <2>2, <2>5, DroppersFinite DEF Gauge
  <2>7. {c} \subseteq LiveClients BY <1>4, <2>1 DEF LiveClients
  <2> QED BY <1>1, <2>3, <2>4, <2>6, <2>7, AsLeave
<1>5. CASE c \notin clients
  <2>1. UNCHANGED <<clients, open, activeConnections>> BY <1>5 DEF UnregisterClient
  <2> QED BY <1>1, <1>2, <1>3, <2>1, Unseen
<1> QED BY <1>4, <1>5

(* The sweep of stale clients: all of them leave at once.                  *)
LEMMA SweepIsLeave ==
  ASSUME TypeOK, DropInv, SweepClients
  PROVE  Registry!Next \/ (Same /\ UNCHANGED queued)
<1> DEFINE S == clients \cap sweep
<1> USE DEF TypeOK, MapTypes, ClientTypes
<1>1. /\ clients' = clients \ S /\ queued' = queued /\ cast' = cast /\ reader' = reader
      /\ activeConnections' = activeConnections - Cardinality(S)
      /\ open' = [c \in Client |-> IF c \in S THEN FALSE ELSE open[c]]
  BY DEF SweepClients, castVars, readVars
<1>2. Droppers' = Droppers BY <1>1 DEF Droppers
<1>3. \A c \in clients : open[c] /\ Registered(c)
  BY DEF SweepClients, Exclusive, Readers, DropInv, EntryInv
<1>4. Cardinality(S) \in Nat BY MapsFinite, FS_Intersection, FS_CardinalityType
<1>5. S \subseteq LiveClients /\ S \in SUBSET Client BY <1>3 DEF LiveClients
<1>6. LiveClients' = LiveClients \ S BY <1>1 DEF LiveClients
<1>7. GoneClients' = GoneClients \cup S BY <1>1, <1>3, <1>5 DEF GoneClients, Registered
<1>8. Gauge' = Gauge - Cardinality(S) BY <1>1, <1>2, <1>4, DroppersFinite DEF Gauge
<1> HIDE DEF S
<1>9. CASE S # {} BY <1>1, <1>5, <1>6, <1>7, <1>8, <1>9, AsLeave
<1>10. CASE S = {}
  <2>1. Cardinality(S) = 0 BY <1>10, FS_EmptySet
  <2>2. Gauge \in Int BY DroppersFinite DEF Gauge
  <2>3. Gauge' = Gauge BY <1>8, <2>1, <2>2
  <2> QED BY <1>1, <1>6, <1>7, <1>10, <2>3 DEF Same
<1> QED BY <1>9, <1>10

(* A broadcast that gives up on a client: it leaves at close ...           *)
LEMMA CloseIsLeave ==
  ASSUME TypeOK, DropInv, NEW g \in Caster, CloseFull(g)
  PROVE  Registry!Next
<1> DEFINE c == victim[g]
<1> USE DEF TypeOK, MapTypes, ClientTypes, CastTypes
<1>1. /\ open' = [open EXCEPT ![c] = FALSE] /\ cast' = [cast EXCEPT ![g] = "deleting"]
      /\ UNCHANGED <<clients, activeConnections, queued, reader>>
      /\ cast[g] = "closing" /\ open[c]
  BY DEF CloseFull, mapVars, readVars
<1>2. c \in Client /\ Registered(c) /\ c \in clients
  BY <1>1 DEF DropInv, VictimInv, EntryInv
<1> HIDE DEF c
<1>3. Droppers' = Droppers \cup {g} /\ g \notin Droppers BY <1>1 DEF Droppers
<1>4. Cardinality(Droppers') = Cardinality(Droppers) + 1
  BY <1>3, DroppersFinite, FS_AddElement
<1>5. LiveClients' = LiveClients \ {c} BY <1>1, <1>2 DEF LiveClients
<1>6. GoneClients' = GoneClients \cup {c} BY <1>1, <1>2 DEF GoneClients, Registered
<1>7. Cardinality({c}) = 1 BY FS_Singleton
<1>8. Gauge' = Gauge - Cardinality({c}) BY <1>1, <1>4, <1>7, DroppersFinite DEF Gauge
<1>9. {c} \subseteq LiveClients BY <1>1, <1>2 DEF LiveClients
<1> QED BY <1>1, <1>2, <1>5, <1>6, <1>8, <1>9, AsLeave

(* ... and the entry and the gauge follow unseen.                          *)
LEMMA DeleteIsUnseen ==
  ASSUME TypeOK, DropInv, NEW g \in Caster, DeleteFull(g)
  PROVE  Same /\ UNCHANGED queued
<1> DEFINE c == victim[g]
<1> USE DEF TypeOK, MapTypes, ClientTypes, CastTypes
<1>1. /\ clients' = clients \ {c} /\ activeConnections' = activeConnections - 1
      /\ cast' = [cast EXCEPT ![g] = "ranging"] /\ cast[g] = "deleting"
      /\ UNCHANGED <<open, queued, reader>>
  BY DEF DeleteFull, chanVars, readVars
<1>2. ~open[c] BY <1>1 DEF DropInv, VictimInv
<1> HIDE DEF c
<1>3. Droppers' = Droppers \ {g} /\ g \in Droppers BY <1>1 DEF Droppers
<1>4. Cardinality(Droppers') = Cardinality(Droppers) - 1
  BY <1>3, DroppersFinite, FS_RemoveElement
<1>5. Gauge' = Gauge BY <1>1, <1>4, DroppersFinite DEF Gauge
<1>6. LiveClients' = LiveClients /\ GoneClients' = GoneClients
  BY <1>1, <1>2 DEF LiveClients, GoneClients, Registered
<1> QED BY <1>1, <1>5, <1>6 DEF Same

(* Outboxes.                                                               *)
LEMMA SendIsPut ==
  ASSUME TypeOK, DropInv, NEW c \in Client, SendMessage(c)
  PROVE  Registry!Next \/ (Same /\ UNCHANGED queued)
<1> USE DEF TypeOK, MapTypes, ClientTypes
<1>1. /\ UNCHANGED <<clients, activeConnections, open, cast>>
      /\ queued' = [queued EXCEPT ![c] = IF @ < SendCap THEN @ + 1 ELSE @]
      /\ reader[c] = "replying" /\ reader' = [reader EXCEPT ![c] = "reading"] /\ open[c]
  BY DEF SendMessage, mapVars, castVars, ReaderGoes
<1>2. Same BY <1>1, Unseen DEF Registered, Droppers
<1>3. c \in LiveClients BY <1>1 DEF LiveClients, DropInv, EntryInv, Registered
<1>4. CASE queued[c] < SendCap BY <1>1, <1>2, <1>3, <1>4, AsPut
<1>5. CASE ~(queued[c] < SendCap) BY <1>1, <1>2, <1>5
<1> QED BY <1>4, <1>5

LEMMA VisitIsPut ==
  ASSUME TypeOK, DropInv, NEW g \in Caster, NEW c \in Client, Visit(g, c)
  PROVE  Registry!Next \/ (Same /\ UNCHANGED queued)
<1> USE DEF TypeOK, MapTypes, ClientTypes
<1>1. UNCHANGED <<clients, activeConnections, open, reader>> /\ c \in clients
  BY DEF Visit, mapVars, readVars
<1>2. Droppers' = Droppers
  <2>1. CASE UNCHANGED cast BY <2>1 DEF Droppers
  <2>2. CASE cast' = [cast EXCEPT ![g] = "closing"] BY <2>2, CastMoves DEF Visit
  <2> QED BY <2>1, <2>2 DEF Visit
<1>3. Same BY <1>1, <1>2, Unseen DEF Registered
<1>4. CASE UNCHANGED queued BY <1>3, <1>4
<1>5. CASE open[c] /\ queued[c] < SendCap /\ queued' = [queued EXCEPT ![c] = @ + 1]
  BY <1>1, <1>3, <1>5, AsPut DEF LiveClients
<1> QED BY <1>4, <1>5 DEF Visit

LEMMA WriteIsTake ==
  ASSUME TypeOK, NEW c \in Client, WriterStep(c)
  PROVE  Registry!Next \/ (Same /\ UNCHANGED queued)
<1> USE DEF TypeOK, ClientTypes
<1>1. UNCHANGED <<clients, activeConnections, open, reader, cast>>
  BY DEF WriterStep, WriteMessage, WriteFails, WriteClose, mapVars, chanVars, readVars, castVars
<1>2. Same BY <1>1, Unseen DEF Registered, Droppers
<1>3. \/ UNCHANGED queued
      \/ queued[c] > 0 /\ queued' = [queued EXCEPT ![c] = @ - 1]
  BY DEF WriterStep, WriteMessage, WriteFails, WriteClose, chanVars
<1> QED BY <1>2, <1>3, AsTake

-----------------------------------------------------------------------------
LEMMA RegistryStep == Inv /\ [Next]_vars => [Registry!Next]_(Registry!vars)
<1> SUFFICES ASSUME TypeOK, DropInv, [Next]_vars
             PROVE  Registry!Next \/ (Same /\ UNCHANGED queued)
  BY AsStutter DEF Inv
<1>1. ASSUME NEW c \in Client, ReaderStep(c)
      PROVE  Registry!Next \/ (Same /\ UNCHANGED queued)
  BY <1>1, QuietReader, RegisterIsJoin, UnregisterIsLeave, SendIsPut DEF ReaderStep
<1>2. ASSUME NEW g \in Caster, CastStep(g)
      PROVE  Registry!Next \/ (Same /\ UNCHANGED queued)
  BY <1>2, QuietCast, VisitIsPut, CloseIsLeave, DeleteIsUnseen DEF CastStep, TypeOK
<1>3. ASSUME NEW k \in Caller, CallerStep(k)
      PROVE  Same /\ UNCHANGED queued
  BY <1>3, QuietCast DEF CallerStep, TypeOK, Caster
<1> QED
  BY <1>1, <1>2, <1>3, WriteIsTake, SweepIsLeave, QuietOthers DEF Next, Halted

(* The hub implements the registry: whatever broadcasts, sweeps and        *)
(* readers do at once, a connection joins once, leaves once, is sent to    *)
(* only in between, and is counted exactly that long.                      *)
THEOREM RegistryIsImplemented == Spec => ImplementsRegistry
  BY InitMaps, RegistryStep, Invariance, PTL DEF Spec, ImplementsRegistry, Registry!Spec

-----------------------------------------------------------------------------
(* What the registry promises carries over to the hub.                     *)

(* The connection gauge is ahead of the connections that can be sent to by *)
(* exactly the broadcasts that have closed a channel and not yet counted   *)
(* that.                                                                   *)
GaugeAhead == activeConnections = Cardinality(LiveClients) + Cardinality(Droppers)

Counted == Gauge = Cardinality(LiveClients)

LEMMA CountedStep ==
  ASSUME TypeOK, Counted, [Registry!Next]_(Registry!vars)
  PROVE  Counted'
<1>0. IsFiniteSet(LiveClients) /\ Cardinality(LiveClients) \in Nat
  BY MapsFinite, FS_Subset, FS_CardinalityType DEF TypeOK, LiveClients
<1>1. ASSUME NEW c \in Client, Registry!Join(c) PROVE Counted'
  <2>1. c \notin LiveClients /\ LiveClients' = LiveClients \cup {c} /\ Gauge' = Gauge + 1
    BY <1>1 DEF Registry!Join, LiveClients, GoneClients, Gauge, Droppers
  <2> QED BY <1>0, <2>1, FS_AddElement DEF Counted
<1>2. ASSUME NEW S \in SUBSET Client, Registry!Leave(S) PROVE Counted'
  <2>1. S \subseteq LiveClients /\ LiveClients' = LiveClients \ S
        /\ Gauge' = Gauge - Cardinality(S)
    BY <1>2, SameSize DEF Registry!Leave, LiveClients, GoneClients, Gauge, Droppers
  <2>2. LiveClients \cap S = S BY <2>1
  <2>3. Cardinality(LiveClients \ S) = Cardinality(LiveClients) - Cardinality(S)
    BY <1>0, <2>2, FS_Difference
  <2> QED BY <2>1, <2>3 DEF Counted
<1>3. ASSUME NEW c \in Client, Registry!Put(c) \/ Registry!Take(c) PROVE Counted'
  <2>1. LiveClients' = LiveClients /\ Gauge' = Gauge
    BY <1>3 DEF Registry!Put, Registry!Take, LiveClients, Gauge, Droppers
  <2> QED BY <2>1 DEF Counted
<1>4. CASE UNCHANGED Registry!vars
  <2>1. LiveClients' = LiveClients /\ Gauge' = Gauge
    BY <1>4 DEF Registry!vars, LiveClients, Gauge, Droppers
  <2> QED BY <2>1 DEF Counted
<1> QED BY <1>1, <1>2, <1>3, <1>4 DEF Registry!Next

(* The excess of the gauge is the number of drops under way.              *)
THEOREM GaugeIsAhead == Spec => []GaugeAhead
<1>1. Init => Counted
  <2> SUFFICES ASSUME Init PROVE Counted OBVIOUS
  <2>1. LiveClients = {} /\ Droppers = {} /\ activeConnections = 0
    BY DEF Init, LiveClients, Droppers
  <2> QED BY <2>1, FS_EmptySet DEF Counted, Gauge
<1>2. Inv /\ Counted => GaugeAhead
  BY DroppersFinite DEF Inv, TypeOK, Counted, Gauge, GaugeAhead
<1>3. Inv /\ Counted /\ [Next]_vars => Counted'
  BY RegistryStep, CountedStep DEF Inv
<1> QED BY <1>1, <1>2, <1>3, Invariance, PTL DEF Spec

(* A client whose channel was closed never comes back, and what is left in *)
(* its outbox only gets less: nothing is added after the drop, so its      *)
(* writer comes to the end.                                                *)
GoneForGood ==
  [][\A c \in GoneClients : c \in GoneClients' /\ queued'[c] <= queued[c]]_vars

LEMMA GoneStep ==
  ASSUME TypeOK, [Registry!Next]_(Registry!vars), NEW c \in GoneClients
  PROVE  c \in GoneClients' /\ queued'[c] <= queued[c]
<1> USE DEF TypeOK, ClientTypes
<1>1. c \in Client /\ c \notin LiveClients BY DEF GoneClients, LiveClients
<1>2. CASE UNCHANGED Registry!vars
  BY <1>1, <1>2 DEF Registry!vars, GoneClients
<1>3. ASSUME NEW d \in Client, Registry!Join(d) \/ Registry!Put(d) \/ Registry!Take(d)
      PROVE  c \in GoneClients' /\ queued'[c] <= queued[c]
  <2>1. GoneClients' = GoneClients
    BY <1>3 DEF Registry!Join, Registry!Put, Registry!Take, GoneClients
  <2>2. CASE Registry!Join(d) BY <1>1, <2>1, <2>2 DEF Registry!Join
  <2>3. CASE Registry!Put(d)
    <3>1. d \in LiveClients /\ queued' = [queued EXCEPT ![d] = @ + 1]
      BY <2>3 DEF Registry!Put, LiveClients
    <3> QED BY <1>1, <2>1, <3>1
  <2>4. CASE Registry!Take(d)
    <3>1. queued' = [queued EXCEPT ![d] = @ - 1] BY <2>4 DEF Registry!Take
    <3> QED BY <1>1, <2>1, <3>1
  <2> QED BY <1>3, <2>2, <2>3, <2>4
<1>4. ASSUME NEW S \in SUBSET Client, Registry!Leave(S)
      PROVE  c \in GoneClients' /\ queued'[c] <= queued[c]
  <2>1. GoneClients' = GoneClients \cup S /\ queued' = queued
    BY <1>4 DEF Registry!Leave, GoneClients
  <2> QED BY <1>1, <2>1
<1> QED BY <1>2, <1>3, <1>4 DEF Registry!Next

(* No step of the hub brings a dropped client back or adds to its outbox.  *)
THEOREM GoneStayGone == Spec => GoneForGood
<1>1. Inv => TypeOK BY DEF Inv
<1>2. ASSUME Inv, [Next]_vars
      PROVE  [\A c \in GoneClients : c \in GoneClients' /\ queued'[c] <= queued[c]]_vars
  BY <1>1, <1>2, RegistryStep, GoneStep
<1> QED BY <1>2, Invariance, PTL DEF Spec, GoneForGood

-----------------------------------------------------------------------------
(* With unique identifiers every session that is named anywhere has one    *)
(* name and one owner, and is in h.sessions only after its registration.   *)
OwnerInv ==
  /\ \A c \in Client : pending[c] # None => reader[c] = "assigning" /\ pending[c] \notin sessions
  /\ \A c \in Client : reader[c] = "starting" => sessionID[c] \notin sessions
  /\ \A s \in Sid : cast[s] = "out" =>
       s \notin sessions /\ \A c \in Client : s # pending[c] /\ s # sessionID[c]
  /\ \A c, d \in Client :
       /\ pending[c] # None => pending[c] # sessionID[d] /\ (pending[c] = pending[d] => c = d)
       /\ sessionID[c] # None /\ sessionID[c] = sessionID[d] => c = d

ExactInv == UniqueIds /\ OwnerInv /\ SessionGauge

(* Steps that name, register and end no session.                           *)
LEMMA OwnersKept ==
  ASSUME OwnerInv, SessionGauge,
         UNCHANGED <<sessions, activeSessions, sessionID, pending>>,
         \A c \in Client :
           reader'[c] # reader[c] => reader[c] # "assigning" /\ reader'[c] # "starting",
         \A s \in Sid : cast'[s] = "out" => cast[s] = "out"
  PROVE  OwnerInv' /\ SessionGauge'
BY DEF OwnerInv, SessionGauge

LEMMA ExactStep == Inv /\ ExactInv /\ [Next]_vars => ExactInv'
<1> DEFINE Exact == OwnerInv /\ SessionGauge
<1> SUFFICES ASSUME TypeOK, ReaderInv, UniqueIds, Exact, [Next]_vars PROVE Exact'
  BY DEF Inv, DropInv, ExactInv
<1> USE HubAssumption
<1> USE DEF TypeOK, MapTypes, ClientTypes, CastTypes, ReaderAt, CastAt, Caster, mapVars,
        sessVars, chanVars, netVars, readVars, castVars, tickVars, ReaderGoes
<1>0. /\ IsFiniteSet(sessions) /\ Cardinality(sessions) \in Nat BY MapsFinite
<1>1. ASSUME NEW c \in Client, NEW s \in Sid, HandleConnect(c, s) PROVE Exact'
  BY <1>1 DEF HandleConnect, Fresh, OwnerInv, SessionGauge
<1>2. ASSUME NEW c \in Client, AssignSession(c) PROVE Exact'
  BY <1>2 DEF AssignSession, ReaderInv, OwnerInv, SessionGauge
<1>3. ASSUME NEW c \in Client, RegisterSession(c) PROVE Exact'
  <2>1. sessionID[c] \notin sessions /\ sessionID[c] # None
    BY <1>3 DEF RegisterSession, OwnerInv, ReaderInv
  <2>2. OwnerInv' BY <1>3, <2>1 DEF RegisterSession, OwnerInv, ReaderInv
  <2>3. SessionGauge' BY <1>0, <1>3, <2>1, FS_AddElement DEF RegisterSession, SessionGauge
  <2> QED BY <2>2, <2>3
<1>4. ASSUME NEW c \in Client, HandleDisconnect(c) PROVE Exact'
  <2>1. OwnerInv' BY <1>4 DEF HandleDisconnect, OwnerInv
  <2>2. SessionGauge' BY <1>0, <1>4, FS_RemoveElement DEF HandleDisconnect, SessionGauge
  <2> QED BY <2>1, <2>2
<1>5. ASSUME SweepSessions PROVE Exact'
  <2>1. OwnerInv' BY <1>5 DEF SweepSessions, OwnerInv
  <2>2. SessionGauge' BY <1>0, <1>5, FS_Difference DEF SweepSessions, SessionGauge
  <2> QED BY <2>1, <2>2
<1>6. ASSUME NEW c \in Client,
             \/ Accept(c) \/ RegisterClient(c) \/ HandlePing(c) \/ HandleData(c)
             \/ HandleResize(c) \/ Touch(c) \/ SendMessage(c) \/ SendOnClosed(c)
             \/ Pong(c) \/ ReadFails(c) \/ UnregisterClient(c) \/ CloseConn(c)
      PROVE  Exact'
  <2>1. UNCHANGED <<sessions, activeSessions, sessionID, pending>>
    BY <1>6 DEF Accept, RegisterClient, HandlePing, HandleData, HandleResize, LookUp, Touch,
       SendMessage, SendOnClosed, Panic, Pong, ReadFails, UnregisterClient, CloseConn
  <2>2. /\ reader[c] # "assigning"
        /\ \/ UNCHANGED reader
           \/ \E at \in ReaderAt \ {"starting"} : reader' = [reader EXCEPT ![c] = at]
    <3>1. CASE Accept(c) \/ RegisterClient(c) BY <3>1 DEF Accept, RegisterClient
    <3>2. CASE HandlePing(c) BY <3>2 DEF HandlePing
    <3>3. CASE HandleData(c) BY <3>3 DEF HandleData, LookUp
    <3>4. CASE HandleResize(c) BY <3>4 DEF HandleResize, LookUp
    <3>5. CASE Touch(c) BY <3>5 DEF Touch
    <3>6. CASE SendMessage(c) \/ SendOnClosed(c) \/ Pong(c)
      BY <3>6 DEF SendMessage, SendOnClosed, Panic, Pong
    <3>7. CASE ReadFails(c) \/ UnregisterClient(c) \/ CloseConn(c)
      BY <3>7 DEF ReadFails, UnregisterClient, CloseConn
    <3> QED BY <1>6, <3>1, <3>2, <3>3, <3>4, <3>5, <3>6, <3>7
  <2>3. \A d \in Client :
          reader'[d] # reader[d] => reader[d] # "assigning" /\ reader'[d] # "starting"
    BY <2>2
  <2>4. \A s \in Sid : cast'[s] = "out" => cast[s] = "out"
    BY <1>6 DEF Accept, RegisterClient, HandlePing, HandleData, HandleResize, LookUp, Touch,
       SendMessage, SendOnClosed, Panic, Pong, ReadFails, UnregisterClient, CloseConn
  <2> QED BY <2>1, <2>3, <2>4, OwnersKept
<1>7. ASSUME NEW g \in Caster, CastStep(g) PROVE Exact'
  <2>1. UNCHANGED <<sessions, activeSessions, sessionID, pending>>
    BY <1>7 DEF CastStep, BeginCast, Visit, VisitClosed, CloseFull, CloseAgain, DeleteFull,
       MapFault, EndCast, Panic
  <2>2. \A c \in Client : reader'[c] # reader[c] => reader[c] = "casting" /\ reader'[c] = "reading"
    BY <1>7 DEF CastStep, BeginCast, Visit, VisitClosed, CloseFull, CloseAgain, DeleteFull,
       MapFault, EndCast, Panic, ReaderInv
  <2>3. \A s \in Sid : cast'[s] = "out" => cast[s] = "out"
    BY <1>7 DEF CastStep, BeginCast, Visit, VisitClosed, CloseFull, CloseAgain, DeleteFull,
       MapFault, EndCast, Panic
  <2> QED BY <2>1, <2>2, <2>3, OwnersKept
<1>8. ASSUME NEW k \in Caller, CallerStep(k) PROVE Exact'
  BY <1>8, OwnersKept DEF CallerStep, CallSendToClient, StatsLockClients, StatsLockSessions
<1>9. ASSUME UNCHANGED <<sessVars, readVars, cast>> \/ (\E s \in Sid : GoIdle(s)) PROVE Exact'
  BY <1>9, OwnersKept DEF GoIdle
<1>10. ASSUME SweepClients \/ (\E c \in Client : WriterStep(c) \/ GoStale(c)) \/ UNCHANGED vars
       PROVE  UNCHANGED <<sessVars, readVars, cast>>
  BY <1>10 DEF SweepClients, WriterStep, WriteMessage, WriteFails, WriteClose, GoStale, vars
<1> HIDE DEF Exact
<1> QED
  BY <1>1, <1>2, <1>3, <1>4, <1>5, <1>6, <1>7, <1>8, <1>9, <1>10
  DEF Next, ReaderStep, Halted

LEMMA Exactness == UniqueIds /\ Spec => []ExactInv
<1>1. UniqueIds /\ Init => ExactInv
  BY HubAssumption, FS_EmptySet DEF Init, ExactInv, OwnerInv, SessionGauge, Caster
<1> QED BY <1>1, ExactStep, Invariance, PTL DEF Spec

(* When identifiers do not repeat, the session gauge is the number of      *)
(* entries of h.sessions, whoever ends a session first.                    *)
THEOREM SessionGaugeExact == UniqueIds /\ Spec => []SessionGauge
<1>1. ExactInv => SessionGauge BY DEF ExactInv
<1> QED BY <1>1, Exactness, PTL

-----------------------------------------------------------------------------
(* A session nobody can reach is not used again: it stays as it is, and    *)
(* once it is idle it stays idle, until it is removed.                     *)
OrphansLeft ==
  [][\A s \in Sid : Orphan(s) =>
       /\ Orphan(s)' \/ s \notin sessions'
       /\ s \in idle /\ s \in sessions' => s \in idle']_vars

LEMMA OrphanStep ==
  ASSUME Inv, ExactInv, [Next]_vars, NEW s \in Sid, Orphan(s)
  PROVE  /\ Orphan(s)' \/ s \notin sessions'
         /\ s \in idle /\ s \in sessions' => s \in idle'
<1> DEFINE Left == /\ Orphan(s)' \/ s \notin sessions'
                   /\ s \in idle /\ s \in sessions' => s \in idle'
<1> SUFFICES Left OBVIOUS
<1> USE HubAssumption
<1>0. /\ TypeOK /\ ReaderInv /\ OwnerInv /\ UniqueIds /\ s # None
  BY DEF Inv, DropInv, ExactInv
<1> USE DEF TypeOK, MapTypes, ClientTypes, CastTypes, ReaderAt, CastAt, Caster, mapVars,
        sessVars, chanVars, netVars, readVars, castVars, tickVars, ReaderGoes
<1>1. ASSUME NEW c \in Client, reader[c] # "done"
      PROVE  s # sessionID[c] /\ s # pending[c]
  BY <1>1 DEF Orphan
(* Steps that leave identifiers and sessions alone, or concern others.     *)
<1>2. ASSUME NEW c \in Client, reader[c] # "done",
             \A d \in Client : d # c => /\ sessionID'[d] = sessionID[d] /\ pending'[d] = pending[d]
                                        /\ reader'[d] = reader[d],
             (s # sessionID'[c] /\ s # pending'[c]) \/ reader'[c] = "done",
             s \in sessions' => s \in sessions, s \in sessions' /\ s \in idle => s \in idle'
      PROVE  Left
  BY <1>2 DEF Orphan
<1>3. ASSUME NEW c \in Client, NEW t \in Sid, HandleConnect(c, t) PROVE Left
  <2>1. s # t BY <1>0, <1>3 DEF HandleConnect, Fresh, Orphan, OwnerInv
  <2> QED BY <1>0, <1>1, <1>2, <1>3, <2>1 DEF HandleConnect
<1>4. ASSUME NEW c \in Client, AssignSession(c) PROVE Left
  BY <1>0, <1>1, <1>2, <1>4 DEF AssignSession
<1>5. ASSUME NEW c \in Client, RegisterSession(c) PROVE Left
  BY <1>0, <1>1, <1>2, <1>5 DEF RegisterSession
<1>6. ASSUME NEW c \in Client, Touch(c) PROVE Left
  BY <1>0, <1>1, <1>2, <1>6 DEF Touch
<1>7. ASSUME NEW c \in Client, HandleDisconnect(c) PROVE Left
  BY <1>0, <1>1, <1>2, <1>7 DEF HandleDisconnect
<1>8. ASSUME NEW c \in Client,
             \/ RegisterClient(c) \/ HandlePing(c) \/ HandleData(c) \/ HandleResize(c)
             \/ SendMessage(c) \/ SendOnClosed(c) \/ Pong(c) \/ ReadFails(c)
             \/ UnregisterClient(c) \/ CloseConn(c) \/ Accept(c)
      PROVE  Left
  <2>1. UNCHANGED <<sessVars, sessionID, pending>> /\ reader[c] # "done"
    BY <1>8 DEF Accept, RegisterClient, HandlePing, HandleData, HandleResize, LookUp,
       SendMessage, SendOnClosed, Panic, Pong, ReadFails, UnregisterClient, CloseConn
  <2>2. \A d \in Client : d # c => reader'[d] = reader[d]
    BY <1>0, <1>8 DEF Accept, RegisterClient, HandlePing, HandleData, HandleResize, LookUp,
       SendMessage, SendOnClosed, Panic, Pong, ReadFails, UnregisterClient, CloseConn
  <2> QED BY <1>1, <1>2, <2>1, <2>2
<1>9. ASSUME UNCHANGED <<sessVars, sessionID, pending>>,
             \A c \in Client : reader[c] = "done" => reader'[c] = "done"
      PROVE  Left
  BY <1>9 DEF Orphan
<1>10. ASSUME NEW g \in Caster, CastStep(g) PROVE Left
  <2>1. UNCHANGED <<sessVars, sessionID, pending>>
    BY <1>10 DEF CastStep, BeginCast, Visit, VisitClosed, CloseFull, CloseAgain, DeleteFull,
       MapFault, EndCast, Panic
  <2>2. \A c \in Client : reader'[c] # reader[c] => reader[c] = "casting"
    BY <1>0, <1>10 DEF CastStep, BeginCast, Visit, VisitClosed, CloseFull, CloseAgain,
       DeleteFull, MapFault, EndCast, Panic, ReaderInv
  <2> QED BY <1>9, <2>1, <2>2
<1>11. CASE \/ SweepClients \/ (\E c \in Client : WriterStep(c) \/ GoStale(c)) \/ UNCHANGED vars
            \/ \E k \in Caller : CallerStep(k)
  <2>1. UNCHANGED <<sessVars, sessionID, pending, reader>>
    BY <1>11 DEF SweepClients, WriterStep, WriteMessage, WriteFails, WriteClose, GoStale,
       vars, CallerStep, CallSendToClient, StatsLockClients, StatsLockSessions
  <2> QED BY <1>9, <2>1
<1>12. CASE SweepSessions
  <2>1. UNCHANGED <<sessionID, pending, reader>> /\ sessions' = sessions \ idle
    BY <1>12 DEF SweepSessions
  <2>2. Orphan(s)' \/ s \notin sessions' BY <2>1 DEF Orphan
  <2> QED BY <2>1, <2>2
<1>13. CASE \E t \in Sid : GoIdle(t)
  <2>1. UNCHANGED <<sessions, sessionID, pending, reader>> /\ idle \subseteq idle'
    BY <1>13 DEF GoIdle
  <2>2. Orphan(s)' \/ s \notin sessions' BY <2>1 DEF Orphan
  <2> QED BY <2>1, <2>2
<1> HIDE DEF Left
<1>14. ASSUME NEW c \in Client, ReaderStep(c) PROVE Left
  BY <1>3, <1>4, <1>5, <1>6, <1>7, <1>8, <1>14 DEF ReaderStep
<1> QED BY <1>10, <1>11, <1>12, <1>13, <1>14 DEF Next, Halted

(* With unique identifiers nothing but the sweep touches an orphan.        *)
THEOREM OrphansAreLeft == UniqueIds /\ Spec => OrphansLeft
<1>1. Inv /\ ExactInv /\ [Next]_vars => [\A s \in Sid : Orphan(s) =>
                              /\ Orphan(s)' \/ s \notin sessions'
                              /\ s \in idle /\ s \in sessions' => s \in idle']_vars
  BY OrphanStep
<1> QED BY <1>1, Exactness, Invariance, PTL DEF Spec, OrphansLeft
=============================================================================
