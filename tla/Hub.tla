--------------------------------- MODULE Hub ---------------------------------
(***************************************************************************)
(* The WebSocket hub of the SSH gateway: hub.go and client.go.             *)
(*                                                                         *)
(* One behaviour is one life of the gateway process.  Each accepted        *)
(* connection has a reader goroutine (readPump) and a writer goroutine     *)
(* (writePump) joined by the bounded channel Client.send; every session    *)
(* has a short goroutine (simulateSSHConnection) that broadcasts a welcome *)
(* text; one more goroutine (Hub.Run) sweeps idle sessions and stale       *)
(* clients.  They share the maps h.clients and h.sessions, each under its  *)
(* own RWMutex.                                                            *)
(*                                                                         *)
(* clientsMux.Lock sections that do nothing but update memory are one      *)
(* action, enabled while nobody holds the read lock.  The read-locked loop *)
(* of BroadcastToSession is split at every operation another goroutine can *)
(* observe, because it writes to the map and closes channels.              *)
(***************************************************************************)
EXTENDS Integers, FiniteSets

CONSTANTS
  Client,     \* connections accepted in this life of the process
  Sid,        \* identifiers generateSessionID can return
  Caller,     \* goroutines outside the repository that use the exported
              \* methods the repository itself never calls
  SendCap,    \* capacity of Client.send (256 in HandleWebSocket)
  UniqueIds,  \* TRUE: generateSessionID never repeats an identifier
  None        \* the empty SessionID, and "no client"

ASSUME HubAssumption ==
  /\ IsFiniteSet(Client) /\ IsFiniteSet(Sid) /\ IsFiniteSet(Caller)
  /\ Client \cap Sid = {} /\ Client \cap Caller = {} /\ Sid \cap Caller = {}
  /\ None \notin Client \cup Sid
  /\ SendCap \in Nat \ {0}
  /\ UniqueIds \in BOOLEAN

VARIABLES
  clients, activeConnections,   \* h.clients and its gauge
  sessions, activeSessions,     \* h.sessions and its gauge
  idle,                         \* sessions whose LastActivity is too old
  open, queued,                 \* Client.send: still open, messages buffered
  conn,                         \* the socket of each client
  stale,                        \* clients whose LastPing is older than PongWait
  sessionID, pending,           \* Client.SessionID; session being connected
  reader, writer,               \* where readPump and writePump are
  cast, todo, victim,           \* where each goroutine is in a broadcast
  cleaning, sweep,              \* cleanup holds sessionsMux; clients stale
                                \* at the time it read the clock
  crashed                       \* a goroutine panicked: the process is gone

mapVars  == <<clients, activeConnections>>
sessVars == <<sessions, activeSessions, idle>>
chanVars == <<open, queued>>
netVars  == <<conn, stale, writer>>
readVars == <<sessionID, pending, reader>>
castVars == <<cast, todo, victim>>
tickVars == <<cleaning, sweep>>
vars == <<mapVars, sessVars, chanVars, netVars, readVars, castVars, tickVars,
          crashed>>

Caster == Client \cup Sid \cup Caller

(***************************************************************************)
(* Program counters.  "in" is a broadcast whose caller has not taken the   *)
(* read lock yet, "stats" is GetStats between its two RLock calls.         *)
(***************************************************************************)
ReaderAt == {"none", "registering", "reading", "assigning", "starting",
             "replying", "touching", "resizing", "casting", "leaving",
             "closing", "done"}
CastAt   == {"out", "in", "ranging", "closing", "deleting", "stats", "over"}

(* Goroutines inside the read-locked loop, and all read-lock holders.      *)
Ranging == {g \in Caster : cast[g] \in {"ranging", "closing", "deleting"}}
Readers == {g \in Caster : cast[g] \in {"ranging", "closing", "deleting", "stats"}}

(* Variant: only the map reads are protected from each other.              *)
NoExclusion == TRUE

(* clientsMux.Lock() can be granted.                                       *)
Exclusive == Readers = {}
(* sessionsMux can be granted: only cleanup holds it across two actions.   *)
SessionsFree == ~cleaning

Running == ~crashed

(* A panic in a goroutine other than the HTTP handler ends the process.    *)
Panic == /\ crashed' = TRUE
         /\ UNCHANGED <<mapVars, sessVars, chanVars, netVars, readVars,
                        castVars, tickVars>>

Init ==
  /\ clients = {} /\ activeConnections = 0
  /\ sessions = {} /\ activeSessions = 0 /\ idle = {}
  /\ open = [c \in Client |-> TRUE] /\ queued = [c \in Client |-> 0]
  /\ conn = [c \in Client |-> "none"] /\ stale = {}
  /\ sessionID = [c \in Client |-> None] /\ pending = [c \in Client |-> None]
  /\ reader = [c \in Client |-> "none"] /\ writer = [c \in Client |-> "none"]
  /\ cast = [g \in Caster |-> "out"] /\ todo = [g \in Caster |-> {}]
  /\ victim = [g \in Caster |-> None]
  /\ cleaning = FALSE /\ sweep = {}
  /\ crashed = FALSE

-----------------------------------------------------------------------------
(* HandleWebSocket: upgrade, then RegisterClient, then start both pumps.   *)

Accept(c) ==
  /\ Running /\ reader[c] = "none"
  /\ conn' = [conn EXCEPT ![c] = "open"]
  /\ reader' = [reader EXCEPT ![c] = "registering"]
  /\ UNCHANGED <<mapVars, sessVars, chanVars, stale, writer, sessionID, pending,
                 castVars, tickVars, crashed>>

RegisterClient(c) ==
  /\ Running /\ reader[c] = "registering" /\ Exclusive
  /\ clients' = clients \cup {c}
  /\ activeConnections' = activeConnections + 1
  /\ reader' = [reader EXCEPT ![c] = "reading"]
  /\ writer' = [writer EXCEPT ![c] = "running"]
  /\ UNCHANGED <<sessVars, chanVars, conn, stale, sessionID, pending, castVars,
                 tickVars, crashed>>

-----------------------------------------------------------------------------
(* The reader: one message at a time.                                      *)

ReaderGoes(c, at) == reader' = [reader EXCEPT ![c] = at]

(* generateSessionID draws from the clock.  Without UniqueIds an identifier *)
(* may come back once the goroutine of its first use has ended.            *)
Fresh(s) == \/ cast[s] = "out"
            \/ ~UniqueIds /\ cast[s] = "over"

(* handleConnect starts the welcome goroutine before anything is recorded. *)
HandleConnect(c, s) ==
  /\ Running /\ reader[c] = "reading" /\ Fresh(s)
  /\ pending' = [pending EXCEPT ![c] = s]
  /\ cast' = [cast EXCEPT ![s] = "in"]
  /\ ReaderGoes(c, "assigning")
  /\ UNCHANGED <<mapVars, sessVars, chanVars, netVars, sessionID, todo, victim,
                 tickVars, crashed>>

AssignSession(c) ==
  /\ Running /\ reader[c] = "assigning"
  /\ sessionID' = [sessionID EXCEPT ![c] = pending[c]]
  /\ pending' = [pending EXCEPT ![c] = None]
  /\ ReaderGoes(c, "starting")
  /\ UNCHANGED <<mapVars, sessVars, chanVars, netVars, castVars, tickVars, crashed>>

RegisterSession(c) ==
  /\ Running /\ reader[c] = "starting" /\ SessionsFree
  /\ sessions' = sessions \cup {sessionID[c]}
  /\ activeSessions' = activeSessions + 1
  /\ idle' = idle \ {sessionID[c]}
  /\ ReaderGoes(c, "replying")
  /\ UNCHANGED <<mapVars, chanVars, netVars, sessionID, pending, castVars,
                 tickVars, crashed>>

(* handlePing, and a connect message that does not parse: only an answer.  *)
HandlePing(c) ==
  /\ Running /\ reader[c] = "reading"
  /\ ReaderGoes(c, "replying")
  /\ UNCHANGED <<mapVars, sessVars, chanVars, netVars, sessionID, pending,
                 castVars, tickVars, crashed>>

(* handleData and handleResize begin alike: no session and session not     *)
(* found are answered, otherwise the session object is used unlocked.      *)
LookUp(c, found) ==
  /\ Running /\ reader[c] = "reading"
  /\ \/ sessionID[c] = None /\ ReaderGoes(c, "replying")
     \/ /\ sessionID[c] # None /\ SessionsFree
        /\ ReaderGoes(c, IF sessionID[c] \in sessions THEN found ELSE "replying")
  /\ UNCHANGED <<mapVars, sessVars, chanVars, netVars, sessionID, pending,
                 castVars, tickVars, crashed>>

HandleData(c)   == LookUp(c, "touching")
HandleResize(c) == LookUp(c, "resizing")

(* session.LastActivity = time.Now(), without a lock; data is then echoed. *)
Touch(c) ==
  /\ Running /\ reader[c] \in {"touching", "resizing"}
  /\ idle' = idle \ {sessionID[c]}
  /\ \/ /\ reader[c] = "resizing" /\ ReaderGoes(c, "reading")
        /\ UNCHANGED cast
     \/ /\ reader[c] = "touching" /\ ReaderGoes(c, "casting")
        /\ cast' = [cast EXCEPT ![c] = "in"]
  /\ UNCHANGED <<mapVars, sessions, activeSessions, chanVars, netVars, sessionID,
                 pending, todo, victim, tickVars, crashed>>

(* Variant: UnregisterSession decrements without looking the session up.   *)
DisconnectAlwaysDec(c) ==
  /\ Running /\ reader[c] = "reading" /\ sessionID[c] # None /\ SessionsFree
  /\ sessions' = sessions \ {sessionID[c]} /\ activeSessions' = activeSessions - 1
  /\ idle' = idle \ {sessionID[c]}
  /\ sessionID' = [sessionID EXCEPT ![c] = None]
  /\ UNCHANGED <<mapVars, chanVars, netVars, reader, pending, castVars, tickVars,
                 crashed>>

(* handleDisconnect: UnregisterSession, then forget the session.           *)
HandleDisconnect(c) ==
  /\ Running /\ reader[c] = "reading" /\ sessionID[c] # None /\ SessionsFree
  /\ sessions' = sessions \ {sessionID[c]}
  /\ activeSessions' = IF sessionID[c] \in sessions THEN activeSessions - 1
                                                    ELSE activeSessions
  /\ idle' = idle \ {sessionID[c]}
  /\ sessionID' = [sessionID EXCEPT ![c] = None]
  /\ UNCHANGED <<mapVars, chanVars, netVars, reader, pending, castVars, tickVars,
                 crashed>>

(* Variant: sendMessage without the default branch of its select.          *)
SendUnbounded(c) ==
  /\ Running /\ reader[c] = "replying" /\ open[c]
  /\ queued' = [queued EXCEPT ![c] = @ + 1]
  /\ ReaderGoes(c, "reading")
  /\ UNCHANGED <<mapVars, sessVars, open, netVars, sessionID, pending, castVars,
                 tickVars, crashed>>

(* sendMessage: no lock, and a full channel loses the message.             *)
SendMessage(c) ==
  /\ Running /\ reader[c] = "replying" /\ open[c]
  /\ queued' = [queued EXCEPT ![c] = IF @ < SendCap THEN @ + 1 ELSE @]
  /\ ReaderGoes(c, "reading")
  /\ UNCHANGED <<mapVars, sessVars, open, netVars, sessionID, pending, castVars,
                 tickVars, crashed>>

(* "send on closed channel"; a default branch does not help.               *)
SendOnClosed(c) ==
  /\ Running /\ reader[c] = "replying" /\ ~open[c]
  /\ Panic

(* The pong handler runs inside ReadJSON.                                  *)
Pong(c) ==
  /\ Running /\ reader[c] = "reading" /\ c \in stale \cup sweep
  /\ stale' = stale \ {c} /\ sweep' = sweep \ {c}
  /\ UNCHANGED <<mapVars, sessVars, chanVars, conn, writer, readVars, castVars,
                 cleaning, crashed>>

(* ReadJSON fails: peer gone, read deadline, or our side closed the socket. *)
ReadFails(c) ==
  /\ Running /\ reader[c] = "reading"
  /\ ReaderGoes(c, "leaving")
  /\ UNCHANGED <<mapVars, sessVars, chanVars, netVars, sessionID, pending,
                 castVars, tickVars, crashed>>

(* Variant: UnregisterClient removes the entry and leaves the channel open. *)
UnregisterKeepsChannel(c) ==
  /\ Running /\ reader[c] = "leaving" /\ Exclusive
  /\ clients' = clients \ {c}
  /\ activeConnections' = IF c \in clients THEN activeConnections - 1
                                           ELSE activeConnections
  /\ ReaderGoes(c, "closing")
  /\ UNCHANGED <<sessVars, chanVars, netVars, sessionID, pending, castVars,
                 tickVars, crashed>>

(* Variant: UnregisterClient decrements without looking the client up.     *)
UnregisterAlwaysDec(c) ==
  /\ Running /\ reader[c] = "leaving" /\ Exclusive
  /\ clients' = clients \ {c} /\ activeConnections' = activeConnections - 1
  /\ open' = [open EXCEPT ![c] = FALSE]
  /\ ReaderGoes(c, "closing")
  /\ UNCHANGED <<sessVars, queued, netVars, sessionID, pending, castVars,
                 tickVars, crashed>>

(* The deferred UnregisterClient and conn.Close of readPump.               *)
UnregisterClient(c) ==
  /\ Running /\ reader[c] = "leaving" /\ Exclusive
  /\ clients' = clients \ {c}
  /\ activeConnections' = IF c \in clients THEN activeConnections - 1
                                           ELSE activeConnections
  /\ open' = [open EXCEPT ![c] = IF c \in clients THEN FALSE ELSE @]
  /\ crashed' = (c \in clients /\ ~open[c])   \* close of closed channel
  /\ ReaderGoes(c, "closing")
  /\ UNCHANGED <<sessVars, queued, netVars, sessionID, pending, castVars, tickVars>>

(* Nobody reads LastPing of the client after that.                         *)
CloseConn(c) ==
  /\ Running /\ reader[c] = "closing"
  /\ conn' = [conn EXCEPT ![c] = "closed"]
  /\ ReaderGoes(c, "done")
  /\ stale' = stale \ {c} /\ sweep' = sweep \ {c}
  /\ UNCHANGED <<mapVars, sessVars, chanVars, writer, sessionID, pending,
                 castVars, cleaning, crashed>>

-----------------------------------------------------------------------------
(* BroadcastToSession by a reader (Client) or a welcome goroutine (Sid),   *)
(* and SendToClient by a Caller.                                           *)

(* SendToClient looks for one identifier; the range loop finds it or ends. *)
CallSendToClient(k, c) ==
  /\ Running /\ cast[k] = "out"
  /\ cast' = [cast EXCEPT ![k] = "in"]
  /\ todo' = [todo EXCEPT ![k] = {c}]
  /\ UNCHANGED <<mapVars, sessVars, chanVars, netVars, readVars, victim, tickVars,
                 crashed>>

BeginCast(g) ==
  /\ Running /\ cast[g] = "in"
  /\ cast' = [cast EXCEPT ![g] = "ranging"]
  /\ todo' = [todo EXCEPT ![g] = IF g \in Caller THEN @ \cap clients ELSE clients]
  /\ UNCHANGED <<mapVars, sessVars, chanVars, netVars, readVars, victim, tickVars,
                 crashed>>

(* The loop body applies to c.  c.SessionID is read here, unlocked.        *)
Addressed(g, c) ==
  CASE g \in Caller -> TRUE
    [] g \in Sid    -> sessionID[c] = g
    [] g \in Client -> sessionID[c] = sessionID[g]

(* An entry deleted before the loop reaches it is not produced.            *)
Visit(g, c) ==
  /\ Running /\ cast[g] = "ranging" /\ c \in todo[g] \cap clients
  /\ todo' = [todo EXCEPT ![g] = @ \ {c}]
  /\ UNCHANGED <<mapVars, sessVars, open, netVars, readVars, tickVars, crashed>>
  /\ \/ ~Addressed(g, c) /\ UNCHANGED <<queued, cast, victim>>
     \/ /\ Addressed(g, c) /\ open[c] /\ queued[c] < SendCap
        /\ queued' = [queued EXCEPT ![c] = @ + 1]
        /\ UNCHANGED <<cast, victim>>
     \/ /\ Addressed(g, c) /\ open[c] /\ queued[c] = SendCap
        /\ cast' = [cast EXCEPT ![g] = "closing"]
        /\ victim' = [victim EXCEPT ![g] = c]
        /\ UNCHANGED queued

(* The select of the loop finds the channel closed.                        *)
VisitClosed(g, c) ==
  /\ Running /\ cast[g] = "ranging" /\ c \in todo[g] \cap clients
  /\ Addressed(g, c) /\ ~open[c]
  /\ Panic

(* Variant: a second close is survived and the entry is dropped again.     *)
CloseTwice(g) ==
  /\ Running /\ cast[g] = "closing"
  /\ open' = [open EXCEPT ![victim[g]] = FALSE]
  /\ cast' = [cast EXCEPT ![g] = "deleting"]
  /\ UNCHANGED <<mapVars, sessVars, queued, netVars, readVars, todo, victim,
                 tickVars, crashed>>

(* close(client.send) under the read lock.                                 *)
CloseFull(g) ==
  /\ Running /\ cast[g] = "closing" /\ open[victim[g]]
  /\ open' = [open EXCEPT ![victim[g]] = FALSE]
  /\ cast' = [cast EXCEPT ![g] = "deleting"]
  /\ UNCHANGED <<mapVars, sessVars, queued, netVars, readVars, todo, victim,
                 tickVars, crashed>>

(* Another broadcast closed it since the select: "close of closed channel". *)
CloseAgain(g) ==
  /\ Running /\ cast[g] = "closing" /\ ~open[victim[g]]
  /\ Panic

(* delete and Dec under the read lock.                                     *)
DeleteFull(g) ==
  /\ Running /\ cast[g] = "deleting"
  /\ clients' = clients \ {victim[g]}
  /\ activeConnections' = activeConnections - 1
  /\ cast' = [cast EXCEPT ![g] = "ranging"]
  /\ victim' = [victim EXCEPT ![g] = None]
  /\ UNCHANGED <<sessVars, chanVars, netVars, readVars, todo, tickVars, crashed>>

(* The Go runtime may notice the write while another goroutine is in the   *)
(* loop: "concurrent map iteration and map write" is fatal.                *)
MapFault(g) ==
  /\ Running /\ cast[g] = "deleting" /\ Ranging # {g}
  /\ Panic

EndCast(g) ==
  /\ Running /\ cast[g] = "ranging" /\ todo[g] \cap clients = {}
  /\ cast' = [cast EXCEPT ![g] = IF g \in Sid THEN "over" ELSE "out"]
  /\ todo' = [todo EXCEPT ![g] = {}]
  /\ reader' = [c \in Client |-> IF c = g THEN "reading" ELSE reader[c]]
  /\ UNCHANGED <<mapVars, sessVars, chanVars, netVars, sessionID, pending, victim,
                 tickVars, crashed>>

-----------------------------------------------------------------------------
(* GetStats: RLock of clientsMux, then RLock of sessionsMux.               *)

StatsLockClients(k) ==
  /\ Running /\ cast[k] = "out"
  /\ cast' = [cast EXCEPT ![k] = "stats"]
  /\ UNCHANGED <<mapVars, sessVars, chanVars, netVars, readVars, todo, victim,
                 tickVars, crashed>>

StatsLockSessions(k) ==
  /\ Running /\ cast[k] = "stats" /\ SessionsFree
  /\ cast' = [cast EXCEPT ![k] = "out"]
  /\ UNCHANGED <<mapVars, sessVars, chanVars, netVars, readVars, todo, victim,
                 tickVars, crashed>>

-----------------------------------------------------------------------------
(* The writer.                                                             *)

WriteMessage(c) ==
  /\ Running /\ writer[c] = "running" /\ queued[c] > 0 /\ conn[c] = "open"
  /\ queued' = [queued EXCEPT ![c] = @ - 1]
  /\ UNCHANGED <<mapVars, sessVars, open, netVars, readVars, castVars, tickVars,
                 crashed>>

WriterStops(c) ==
  /\ writer' = [writer EXCEPT ![c] = "done"]
  /\ conn' = [conn EXCEPT ![c] = "closed"]

(* A data write or a ping fails; the deferred conn.Close follows.          *)
WriteFails(c) ==
  /\ Running /\ writer[c] = "running"
  /\ \E taken \in {0, 1} :
       /\ taken <= queued[c]
       /\ queued' = [queued EXCEPT ![c] = @ - taken]
  /\ WriterStops(c)
  /\ UNCHANGED <<mapVars, sessVars, open, stale, readVars, castVars, tickVars,
                 crashed>>

(* Variant: writePump returns without closing the socket.                  *)
WriteCloseKeepsConn(c) ==
  /\ Running /\ writer[c] = "running" /\ ~open[c] /\ queued[c] = 0
  /\ writer' = [writer EXCEPT ![c] = "done"]
  /\ UNCHANGED <<mapVars, sessVars, chanVars, conn, stale, readVars, castVars,
                 tickVars, crashed>>

(* The channel is closed and drained: close frame, then conn.Close.        *)
WriteClose(c) ==
  /\ Running /\ writer[c] = "running" /\ ~open[c] /\ queued[c] = 0
  /\ WriterStops(c)
  /\ UNCHANGED <<mapVars, sessVars, chanVars, stale, readVars, castVars, tickVars,
                 crashed>>

-----------------------------------------------------------------------------
(* cleanup, in two steps: it keeps sessionsMux while it waits for          *)
(* clientsMux, and judges the clients by the clock it read at the start.   *)

(* Variant: only sessions of connected clients are looked at.              *)
SweepOwnedSessions ==
  /\ Running /\ SessionsFree
  /\ LET ended == {s \in idle : \E c \in clients : sessionID[c] = s} IN
       /\ sessions' = sessions \ ended /\ idle' = idle \ ended
       /\ activeSessions' = activeSessions - Cardinality(ended)
  /\ cleaning' = TRUE /\ sweep' = stale
  /\ UNCHANGED <<mapVars, chanVars, netVars, readVars, castVars, crashed>>

SweepSessions ==
  /\ Running /\ SessionsFree
  /\ sessions' = sessions \ idle
  /\ activeSessions' = activeSessions - Cardinality(sessions \cap idle)
  /\ idle' = {}
  /\ cleaning' = TRUE /\ sweep' = stale
  /\ UNCHANGED <<mapVars, chanVars, netVars, readVars, castVars, crashed>>

SweepClients ==
  /\ Running /\ cleaning /\ Exclusive
  /\ clients' = clients \ sweep
  /\ activeConnections' = activeConnections - Cardinality(clients \cap sweep)
  /\ open' = [c \in Client |-> IF c \in clients \cap sweep THEN FALSE ELSE open[c]]
  /\ crashed' = (\E c \in clients \cap sweep : ~open[c])   \* close of closed channel
  /\ cleaning' = FALSE /\ sweep' = {}
  /\ UNCHANGED <<sessVars, queued, netVars, readVars, castVars>>

-----------------------------------------------------------------------------
(* The clock: PongWait passes without a pong, IdleTimeout without activity. *)

GoStale(c) ==
  /\ Running /\ reader[c] \notin {"none", "done"} /\ c \notin stale
  /\ stale' = stale \cup {c}
  /\ UNCHANGED <<mapVars, sessVars, chanVars, conn, writer, readVars, castVars,
                 tickVars, crashed>>

GoIdle(s) ==
  /\ Running /\ s \in sessions \ idle
  /\ idle' = idle \cup {s}
  /\ UNCHANGED <<mapVars, sessions, activeSessions, chanVars, netVars, readVars,
                 castVars, tickVars, crashed>>

(* After a panic the process takes no further step.                        *)
Halted == crashed /\ UNCHANGED vars

-----------------------------------------------------------------------------
ReaderStep(c) ==
  \/ Accept(c) \/ RegisterClient(c)
  \/ \E s \in Sid : HandleConnect(c, s)
  \/ AssignSession(c) \/ RegisterSession(c) \/ SendMessage(c) \/ SendOnClosed(c)
  \/ HandlePing(c) \/ HandleData(c) \/ HandleResize(c) \/ Touch(c)
  \/ HandleDisconnect(c)
  \/ Pong(c) \/ ReadFails(c) \/ UnregisterClient(c) \/ CloseConn(c)

WriterStep(c) == WriteMessage(c) \/ WriteFails(c) \/ WriteClose(c)

CastStep(g) ==
  \/ BeginCast(g)
  \/ \E c \in Client : Visit(g, c) \/ VisitClosed(g, c)
  \/ CloseFull(g) \/ CloseAgain(g) \/ DeleteFull(g) \/ MapFault(g) \/ EndCast(g)

CallerStep(k) ==
  \/ \E c \in Client : CallSendToClient(k, c)
  \/ StatsLockClients(k) \/ StatsLockSessions(k)

Next ==
  \/ \E c \in Client : ReaderStep(c) \/ WriterStep(c) \/ GoStale(c)
  \/ \E g \in Caster : CastStep(g)
  \/ \E k \in Caller : CallerStep(k)
  \/ \E s \in Sid : GoIdle(s)
  \/ SweepSessions \/ SweepClients
  \/ Halted

Spec == Init /\ [][Next]_vars

(***************************************************************************)
(* Fairness.  The Go scheduler runs every goroutine that can run (WF).     *)
(* sync.RWMutex starves neither side, so a Lock or RLock that can be       *)
(* granted again and again is granted (SF).  A socket that is closed or    *)
(* past its read deadline ends the read loop once the buffered messages    *)
(* are used up (SF).  Nothing is assumed of the peer.                      *)
(***************************************************************************)
(* Every step of a reader that does not wait for the peer; a reader is at  *)
(* one of them at a time, so one condition serves them all.                *)
ReaderProgress(c) ==
  \/ RegisterClient(c) \/ AssignSession(c) \/ RegisterSession(c)
  \/ SendMessage(c) \/ SendOnClosed(c) \/ Touch(c) \/ UnregisterClient(c) \/ CloseConn(c)

ReaderFairness(c) ==
  /\ SF_vars(ReaderProgress(c))
  /\ SF_vars((conn[c] = "closed" \/ c \in stale) /\ ReadFails(c))

(* A write ends within WriteWait, well or badly, and the ping ticker finds *)
(* out about a closed socket.                                              *)
WriterFairness(c) ==
  WF_vars((queued[c] > 0 \/ ~open[c] \/ conn[c] = "closed") /\ WriterStep(c))

Fairness ==
  /\ \A c \in Client : ReaderFairness(c) /\ WriterFairness(c)
  /\ \A g \in Caster : WF_vars(CastStep(g))
  /\ \A k \in Caller : SF_vars(StatsLockSessions(k))
  /\ \A s \in Sid : WF_vars(GoIdle(s))
  /\ WF_vars(SweepSessions) /\ SF_vars(SweepClients)

FairSpec == Spec /\ Fairness

-----------------------------------------------------------------------------
(* Properties.                                                             *)

MapTypes ==
  /\ clients \subseteq Client /\ stale \subseteq Client /\ sweep \subseteq Client
  /\ sessions \subseteq Sid /\ idle \subseteq sessions
  /\ cleaning \in BOOLEAN /\ crashed \in BOOLEAN
ClientTypes ==
  /\ open \in [Client -> BOOLEAN]
  /\ queued \in [Client -> 0..SendCap]
  /\ conn \in [Client -> {"none", "open", "closed"}]
  /\ sessionID \in [Client -> Sid \cup {None}]
  /\ pending \in [Client -> Sid \cup {None}]
  /\ reader \in [Client -> ReaderAt]
  /\ writer \in [Client -> {"none", "running", "done"}]
CastTypes ==
  /\ cast \in [Caster -> CastAt]
  /\ todo \in [Caster -> SUBSET Client]
  /\ victim \in [Caster -> Client \cup {None}]

(* Every variable has its type; no outbox exceeds its capacity and no      *)
(* gauge is negative.                                                      *)
TypeOK ==
  /\ activeConnections \in Nat /\ activeSessions \in Nat
  /\ MapTypes /\ ClientTypes /\ CastTypes

Registered(c) == reader[c] \notin {"none", "registering"}
Dropping(c)   == {g \in Caster : cast[g] = "deleting" /\ victim[g] = c}

(* A client is in h.clients exactly while its channel is open, except for  *)
(* the moment between close and delete of one broadcast.  Every removal    *)
(* closes the channel, so no writer is left waiting, and whoever holds     *)
(* clientsMux exclusively never closes a channel twice.                    *)
ChannelOwnership ==
  \A c \in Client : Registered(c) =>
     /\ c \in clients <=> open[c] \/ Dropping(c) # {}
     /\ open[c] => Dropping(c) = {}

(* The connection gauge is the size of h.clients, also when two broadcasts *)
(* give up on the same client at once.                                     *)
ConnGauge == activeConnections = Cardinality(clients)

(* With unique identifiers the session gauge is the size of h.sessions,    *)
(* although the client and the sweep may both end a session.               *)
SessionGauge == activeSessions = Cardinality(sessions)

(* Also without them it is never too low: whoever ends a session takes off *)
(* only what was counted for it, also when another one of its name took    *)
(* its place in the map.                                                   *)
SessionGaugeBound == activeSessions >= Cardinality(sessions)

(* The process only dies over a client whose channel was closed while its  *)
(* reader was still working: disconnects alone, in any interleaving with   *)
(* broadcasts and sweeps, do not panic.                                    *)
OnlyDropsPanic ==
  crashed => \E c \in Client : /\ Registered(c) /\ ~open[c]
                              /\ reader[c] \notin {"closing", "done"}

(* "Channel is full, close client" (hub.go:203): closing a client whose    *)
(* outbox is full costs that client its connection; the process does not   *)
(* die while a broadcast is doing it.                                      *)
FullChannelClosesClient ==
  crashed => \A g \in Caster : cast[g] \notin {"closing", "deleting"}

(* What ChannelOwnership and OnlyDropsPanic rest on, made inductive: who   *)
(* may be in h.clients, what a dropping broadcast knows of its victim, and *)
(* that no two of them are past close for the same client.                 *)
EntryInv ==
  \A c \in Client :
     /\ ~Registered(c) => open[c] /\ c \notin clients
     /\ Registered(c) /\ open[c] => c \in clients
     /\ c \in clients /\ ~open[c] =>
          \E g \in Caster : cast[g] = "deleting" /\ victim[g] = c
     /\ reader[c] \in {"closing", "done"} => c \notin clients
VictimInv ==
  /\ \A g \in Caster : cast[g] \in {"closing", "deleting"} =>
       /\ victim[g] \in Client /\ Registered(victim[g])
       /\ reader[victim[g]] \notin {"closing", "done"}
       /\ cast[g] = "deleting" => victim[g] \in clients /\ ~open[victim[g]]
  /\ \A g, h \in Caster :
       cast[g] = "deleting" /\ cast[h] = "deleting" /\ victim[g] = victim[h] => g = h
ReaderInv ==
  \A c \in Client :
     /\ reader[c] = "assigning" => pending[c] # None
     /\ reader[c] = "starting" => sessionID[c] # None
     /\ cast[c] # "out" <=> reader[c] = "casting"
DropInv == EntryInv /\ VictimInv /\ ReaderInv

(* The hub implements the registry: a drop is one Leave at close, however  *)
(* many goroutines race to do it, and the gauge moves with it.             *)
Registry == INSTANCE ConnRegistry WITH
  Cap    <- SendCap,
  live   <- {c \in clients : open[c]},
  gone   <- {c \in Client : Registered(c) /\ ~(c \in clients /\ open[c])},
  gauge  <- activeConnections - Cardinality({g \in Caster : cast[g] = "deleting"}),
  outbox <- queued
ImplementsRegistry == Registry!Spec

(* Once the channel of a client is closed, its writer sends what is left   *)
(* and closes the socket, its reader leaves, and nothing of it remains.    *)
DropEndsConnection ==
  \A c \in Client : Registered(c) /\ ~open[c]
     ~> crashed \/ (reader[c] = "done" /\ conn[c] = "closed" /\ c \notin clients)

(* cleanup keeps removing sessions that went idle (hub.go:248), unless     *)
(* they are used again.                                                    *)
StaleSessionsCleaned ==
  \A s \in Sid : s \in idle ~> crashed \/ s \notin idle

(* No client can reach session s any more.                                 *)
Orphan(s) == /\ s \in sessions
             /\ \A c \in Client : reader[c] = "done" \/ s \notin {sessionID[c], pending[c]}

(* A session left behind, by a second connect or by a lost connection, is  *)
(* eventually removed: "Clean up stale sessions" (hub.go:248).             *)
OrphanSessionEnds == \A s \in Sid : Orphan(s) ~> crashed \/ s \notin sessions

=============================================================================
