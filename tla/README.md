# Verification of the ParSSH services

TLA+ models of the parts of this repository where order, failure and sharing
decide whether the program is right: the WebSocket hub of the SSH gateway (Go);
and of the API (Python, FastAPI, SQLAlchemy, Redis) the rate limiter, the session
row, the group hierarchy, the user account with its second factor and audit
trail, the hosts with their cascades and lists, and the process itself with
the way of a request through it. TLC checks them on small instances; TLAPS proves the
central invariants for all instances.

Paths below are relative to the repository root: `ssh-gateway/...`, `api/...`.

## 1. The system

| Part | State it keeps | Operations that change it | How it meets the others |
|---|---|---|---|
| Gateway hub (`ssh-gateway/internal/websocket/hub.go`) | `clients`, `sessions`, two gauges, one RWMutex per map | RegisterClient, UnregisterClient, RegisterSession, UnregisterSession, BroadcastToSession, SendToClient, cleanup | called by every connection's goroutines, swept by `Run` |
| Gateway connection (`client.go`) | `Client.send` (256 messages), `SessionID`, `LastPing`, the socket | readPump with six message types, writePump, simulateSSHConnection | channel between its two pumps; the hub closes that channel |
| Gateway start-up (`cmd/server/main.go`, `config.go`) | configuration | start, graceful stop | creates one hub |
| Rate limiter (`api/app/api/deps.py`) | one Redis counter per address and route, with its expiry | is_allowed | asked by the register, login and forgot_password handlers; shared by all workers through Redis |
| API sessions (`api/app/models/session.py`, `api/sessions.py`) | a row per session | create, end, share, revoke, WebSocket open/echo/close, expiry | database row shared by requests, sockets and the expiry job |
| Groups (`api/app/models/group.py`, `api/groups.py`) | `parent_group_id` of every group | create, update, move_to_parent, delete | self-referencing table; hosts point to groups |
| Hosts (`api/app/models/host.py`, `api/hosts.py`) | a row per host | create, update, favorite, tags, port forwardings, delete; list by pages | in a group, has sessions; goes when its group goes |
| Authentication (`api/app/api/auth.py`, `core/security.py`, `models/user.py`) | user row, challenge and setup keys in Redis | register, login, verify, refresh, logout, passwords, 2FA enable/confirm/disable | writes an audit entry in a second commit |
| Audit log (`api/app/models/audit_log.py`) | rows that are only added, and cleaned up by age | log_*, cleanup_old_logs | called after the action it records |
| Database and Redis clients (`api/app/core/database.py`) | engine, one global Redis client | init_db, get_db, get_redis, close_db, close_redis, health checks | used by every handler and by the probes |
| Application (`api/app/main.py`, `utils/exceptions.py`) | `http_requests_total` | lifespan, middleware, exception handlers, `/health`, `/ready` | around every handler |
| User endpoints, schemas, migrations, deployment, web front end | none that is shared and changes | | |

What is hard about it:

- **Concurrency in the gateway.** A broadcast holds the *read* lock and yet
  closes channels and deletes map entries; the reader of a dropped client goes
  on; cleanup holds one lock while it waits for the other.
- **Copies in the API.** Every handler has its own database session, loads a
  row, awaits, and writes the attributes it changed. Nothing locks or versions a
  row. Values changed in place inside JSON and ARRAY columns are not written.
- **Failure.** The limiter uses two Redis calls where one may fail, be retried
  or never be made; the API process may restart between any two awaits.
- **Ordering.** A check may be out of date when what it allowed is committed.
- **Two commits.** An action and its audit entry are separate transactions, and
  the keys in Redis change between them.
- **Layers.** An exception may be turned into an answer at four places, and each
  is inside or outside the counting and the headers.

`PROJECT.json` lists every hazard at its line, with the property that covers it
or the reason why none does.

### What makes each part correct

- Hub: a client is in the map exactly while its channel is open; a channel is
  closed once; the gauges are the sizes of the maps; a dropped connection is
  wound up; sessions nobody reaches are swept; no deadlock.
- Limiter: no more than the limit pass in one window; the window ends.
- Session row: an ended session stays ended, with its end time; what the owner
  granted is kept and what was revoked is gone; an open socket is recorded.
- Groups: parents exist; no group is its own ancestor.
- Hosts: references hold through cascades; edits of different columns do not
  disturb each other; a deleted group takes only its hosts; a walk over the
  pages of an unchanged list shows the names in order, each as often as hosts have it,
  and so every host without a namesake exactly once.
- Authentication: a secret comes into force only after a code was shown; a
  challenge that gave tokens is gone; no request undoes what another did to the
  account; the audit trail agrees with the row.
- Process: a request is counted once, as what it is answered; an exception is
  answered by its class; ready means ready; what was opened is closed; a stop
  ends, unless an await never comes back.

## 2. Modules

### Hub.tla, with MCHub, HubProof, HubRegistryProof and ConnRegistry

One behaviour is one life of the gateway process. The correspondence:

| Model | Code |
|---|---|
| `clients`, `activeConnections`, `sessions`, `activeSessions` | `Hub.clients`, `Hub.sessions` and their Prometheus gauges |
| `open`, `queued` | `Client.send`: not closed, number of buffered messages |
| `conn`, `reader`, `writer` | the socket, the position of readPump and of writePump |
| `sessionID`, `pending` | `Client.SessionID`; the identifier handleConnect has made but not yet stored |
| `cast`, `todo`, `victim` | position of a goroutine in the loop of BroadcastToSession or SendToClient, map entries still to come, the client it is dropping |
| `cleaning`, `sweep` | cleanup holds `sessionsMux`; clients that were stale by the clock it read |
| `stale`, `idle` | `LastPing` older than PongWait, `LastActivity` older than IdleTimeout |
| `crashed` | an unrecovered panic or a fatal map fault ended the process |

A write-locked section that only changes memory is one action, enabled while
there is no reader of the lock. The read-locked loop of a broadcast is cut at
each operation another goroutine can observe: reading an entry, closing the
channel, deleting the entry. Readers of the lock are not kept waiting for a
writer that waits (the writer preference of RWMutex is abstracted; it removes
behaviours, except that it can turn a nested read lock into a deadlock, and the
code has none).
`Go` panics are modelled where they arise: send on a closed channel (also under
a `select` with default), close of a closed channel, and the fatal error for a
map written while it is ranged over, which the runtime *may* raise.

Abstracted: message contents, `UserID`, `LastRead`, and messages that do not
parse or have an unknown type (an answer at most, as for ping).
handleDisconnect ends the session and clears `SessionID` in one action, because
no other goroutine can act on the difference. `SSHClient` is nil throughout the
repository, so nothing closes it. `SendToClient` and `GetStats` are exported but
called by nobody here; the constant `Caller` is the set of goroutines that do
call them, empty in the runs that describe the repository as it stands.
`Halted` is the dead process: it steps for ever, so that a deadlock that TLC
reports is one of the living system.

`ConnRegistry` is what the hub promises: a connection joins once and leaves
once, the gauge counts who is in, and only who is in is sent to. `Hub` refines
it: a drop is the abstract `Leave` at the moment of `close`, although the map
and the gauge follow later. The mapping therefore takes the clients whose
channel is open, and corrects the gauge by the broadcasts between close and
delete.

### RateLimiter.tla, with RateLimiterProof

`is_allowed` on one key, one action per awaited call: INCR, EXPIRE, the
decision. Redis is external: `count`, `ttl`, removal of the key by expiry or by
the `allkeys-lru` policy that `docker-compose.yml` sets. A failing call
allows the request, whether Redis had counted it or not (deps.py:144);
`retry_on_timeout` (database.py) may count one INCR twice; a worker may die at
any point. `life` numbers the lives of the key, `born` and `seen` record in which
life a request was counted and which value it saw.

### ApiSession.tla, with MCApiSession

One row of `sessions` and the handlers that change it. A handler has a `copy` of
the row, taken by `Load`, and `Flush` writes the attributes that differ from
what was loaded: the behaviour of an SQLAlchemy session with
`expire_on_commit=False`. `revoke_access` changes `shared_users` and `permissions`
in place, which the flush does not see, except that it assigns when the list
became empty. `share_with_users` builds a new list through a Python set, so the
list may be written again in another order without a new member. `update_stats`
adds to the sums of its copy; `reported` and `lost` are history: what all reports
together said, and whether two overlapped. One sum stands for the three.
`cleanup_expired_sessions` is one UPDATE. It and `update_stats` have no caller in
the repository; they are modelled because every handler of the row would meet them.
Left out: recording, terminal size, connection information (plain column
writes without callers) and queries.

### GroupTree.tla, with MCGroupTree and GroupTreeProof

The `parent_group_id` column of `groups` under overlapping requests. `Load` takes
the row and what the request will write; `Store` is the commit of a new parent,
with the foreign key and with SQLAlchemy's rule that a value that did not change
is not written. `Check` is `_would_create_circular_reference`: the query of
`get_all_descendants` yields identifiers, so `d.id` raises as soon as there is a
descendant, and a move gets through only for a group without children.
`Delete` detaches, by identifier, the children it had found. `gained` and `loose` are history:
whether a checked move missed a new child, and which groups have a parent that
no valid check stands behind. `Quit` is any end without a change: refusal, a row
that has vanished, a foreign key, a database failure. A query that does not end
(`UNION ALL` on a circle) is a request that stays where it is or quits.
Left out: users (a parent may belong to anybody), the hosts deleted with a
group (they are in `Hosts`), `create_default_group`, sort order. `soft_delete` raises NameError (`cls`,
group.py:344) before it changes anything, so all groups are active.
`move_to_parent` has no caller; it is modelled for what it says about itself.

### Account.tla, with MCAccount, SecondFactor and AccountProof

One account and every handler of `auth.py` that changes something.

| Model | Code |
|---|---|
| `user` | the row of `users`: exists, has its e-mail still, `is_active`, password, `totp_secret` (with its backup codes) |
| `setup`, `challenge` | the Redis keys `totp_setup:{user}` and `2fa_challenge:{id}` |
| `at`, `copy`, `held` | where a request is, the row it loaded, the secret, challenge or password it carries |
| `tokens`, `reset` | an access token, a reset token has been handed out: who holds one may come with it any time |
| `audit` | which kinds of entries are in `audit_logs`; of the two about the second factor the latest |
| `offered`, `proven`, `spent`, `late`, `blurred` | history |

There is one action per awaited step: the load with its checks, each Redis call, the
commit, and the commit of the audit entry with the answer (`LogEvent`), for all
handlers alike. So a request sits at the name of the audit action it has yet to
write. `ConfirmStore` writes only what differs from its copy; `ConfirmClear`
deletes whatever is pending by then. `Quit` is every other end: a refusal, a
failure, a process that dies. `cleanup_old_logs` may take any entries of low and medium
risk (all are old enough). `User.soft_delete` has no caller, and is modelled
because `is_active` is asked everywhere.
Abstracted: TOTP and bcrypt (a code belongs to its secret, a password is right or
wrong), tokens as data, rate limiting (its own module), and an account made
under the address after the first gave it free.

`SecondFactor` is what the API promises: a secret comes into force only after
its holder has shown a code made from it. `Account` implements it with
`factor <- user.secret, shown <- proven`.

### Hosts.tla, with MCHosts and HostsProof

The hosts of one user, their groups and sessions. A request loads a host and
settles what its commit will write: the columns that differ from the loaded ones
(`Changed`). Two columns go beyond that. A list of tags may be written with the tags
it had, in another order (`MayRepeat`). A group identifier comes as text, which
equals no loaded identifier, so it is always written (`MustRepeat`).
`AddPortForwarding` appends to the loaded list in place unless `or []` gave a new
one. `Delete` deletes by identifier what `LoadDelete` had found; the foreign
keys refuse when a host or session came meanwhile. The walk is a client that
reads `GET /hosts` page after page: one query for the page, one for the total, in any order of
hosts of the same name.
`told`, `lapped` and `moved` are history: the tags by the answers, hosts with
overlapping tag changes, hosts moved while their group was being deleted.
Left out: jump hosts, filters other than favorites, `soft_delete`, `restore` and
`update_connection_status` (no callers). `POST /hosts` passes names `Host` has no
attribute for and always fails (`password`, hosts.py and schemas/host.py), so hosts
are made by other callers of `Host.create`.

### Service.tla, with ServiceProof

A process from `lifespan` to its end, and requests on their way through the layers:
security headers, logging and counting, CORS and trusted hosts, exception
handlers, the handler with `get_db` around it. `Code` is the status of each
exception class of `utils/exceptions.py`. Each place of a request (`at`) is one
layer on the way out.

The database and Redis come and go (`Toggle`), and with them calls fail. A handler
may raise anything. The rollback and the close of `get_db` (database.py:46, 49) may
raise too, and then their exception takes the place of the one on its way out
(`replaced`); `finally` tries the close in any case. `CloseDb` and `CloseRedis` may each
fail: the exception is caught (main.py:84-89) and what comes after it is
skipped. The health checks turn every exception into "not healthy". Neither
the engine nor the Redis client sets a timeout (database.py:20-27, 84-91), so
any await on them may also never come back (`Hang`, `StartOrStopHangs`).

`requirements.txt` sets no upper bound on FastAPI, and its versions differ in when
the exit code of a dependency runs after the handler returned: before the
answer in 0.106 to 0.117, after it in those before and since. `Return` allows
both (`closing` or `left`), and in the second case the session is closed at
`answered`, where an exception changes nothing any more. In every version an
exception passes through `get_db` before it reaches its handler.
Abstracted: which handler it is, and whether what it did is stored. A handler
that returns has committed or not, as it likes; what the handlers do to the
data is in the other modules, and section 5 lists those that answer success
without storing.

### Variants

Operators introduced by a comment "Variant:" are deliberately wrong versions
of the operator next to them: a dropped guard, a missing close, a decrement
too many. No specification uses them. Put in the place of the right one, each
makes TLC report the property named in `PROJECT.json`, which shows that the
property depends on that piece of code.

### What the code needs before it runs

Some files do not load as they are. `Integer` is used and not imported in
session.py and group.py; sessions.py imports `generate_session_token` from
deps.py, and it is in core/security.py; `await db.add(user)` (user.py:101) awaits
a synchronous call; the gateway routes three handlers that are missing
(main.go:126-128); audit_log.py uses `Boolean` and `Integer` without importing
them, security.py uses `pyotp` without importing the module, and database.py passes
plain strings to `conn.execute`, which SQLAlchemy 2 refuses, and listens for
events on the asynchronous engine. The models describe the code with such slips of loading repaired in
the evident way, and keep every flaw that shows only when an operation is
carried out.

## 3. Runs

| Run | Instance | What it shows |
|---|---|---|
| `hub_safety` | 2 connections, 1 session identifier, outboxes of 1, no callers | types, ownership of channels, both gauges, panics only after a drop, refinement of `ConnRegistry`, no deadlock. About 1.0 million states |
| `hub_callers` | 1 connection, 1 identifier that may repeat, 2 callers of SendToClient and GetStats | the refinement does not depend on who broadcasts; the session gauge is never too low. About 560,000 states |
| `hub_live` | 1 connection, 2 identifiers, with fairness | a dropped connection is wound up; an unreachable session is swept. About 314,000 states |
| `hub_panic` | 1 connection | violation: a full outbox ends the process, not just the client |
| `hub_stats_deadlock` | 1 connection, 1 caller | violation: GetStats and cleanup wait for each other |
| `rate_limit` | 3 requests, limit 2 | the limit holds per life of the key; without failure the window ends. About 37,000 states |
| `session_row` | 1 socket, 2 requests, 2 users, 2 reports | end is final and dated; the socket is recorded; a grant or a report is lost only to an overlapping one. About 4.1 million states |
| `session_revoke` | 1 socket, 1 request, 2 users | violation: the revoked user stays in the list |
| `group_tree` | 3 groups, 2 requests | parents exist; every circle has a known cause. About 284,000 states |
| `account` | 2 requests, 2 passwords, 2 secrets, 1 challenge | secrets are proven, challenges spent, the trail agrees, edits are not undone; refinement of `SecondFactor`. About 5.6 million states, two minutes |
| `hosts` | 3 hosts, 1 group, 1 session, 2 requests, 3 names, 2 tags, 2 rules, pages of 2 | references, tags, columns apart, hosts spared, walks complete. About 400,000 states |
| `service` | 2 requests, 3 exceptions of different kinds | counting, statuses, sessions, readiness, the Redis client, a stop. About 380,000 states |

Why the bounds are enough to be interesting. The outbox holds one message instead of
256: full, empty and drained are all there, and the code asks only for full or
not. Two broadcasts that meet in the loop exist with one session (its welcome
goroutine) and one reader, so two connections give droppers, a victim and a
bystander. Two callers in `hub_callers` give two droppers of the only client.
Two requests and one limit give the race for EXPIRE, three requests and limit two the
off-by-one. In the session row two requests are enough for every load and
flush to overlap, and two users for "revoke one, keep one". Three groups and two
requests are the least where a circle of three, and one of two closed by two
moves, can arise. `GaugeBounded` in `hub_callers` stops the session gauge, which
repeated identifiers raise without limit, just above the size of the map. Two secrets and two
requests give a second enable during the first confirm, and a confirm that
overlaps a disable; two answers to one challenge need two requests. Three hosts
and pages of two give a second page and an incomplete one. An exception with a
handler of its own class, one without, and one of FastAPI's are all the kinds
`Service` tells apart. Two instances are cut by a constraint. `MCApiSession.Focus`:
a session that is shared is not reported about, the two touch different columns.
`MCHosts.Focus`: two requests are in progress only about the first host; three hosts or names
exist only while none is; the walk meets one request, about what it lists.
Runs with symmetry have no liveness property.

Deadlock is checked wherever a stop would be a fault (`hub_safety`, `hub_live`,
`session_row`, `session_revoke`). It is not checked where the instance
comes to an end: all requests decided or answered, all identifiers or secrets used, the process
ended or crashed; nor in `hub_callers` and `hub_stats_deadlock`, where the lock
order of GetStats really stops the system and has its own run.

### Fairness

- A goroutine that can run is run: weak fairness of the writer while it has
  something to do, of broadcasts, of the sweep and of the clock.
- `sync.RWMutex` starves neither readers nor writers: strong fairness of the
  steps that wait for a lock (`ReaderProgress`, `SweepClients`,
  `StatsLockSessions`).
- The read loop ends on a socket that is closed or past its read deadline:
  strong fairness of `ReadFails` in just that case.
- Nothing is assumed of the peer: it may never read, answer or leave.
- The event loop runs what can run (weak fairness of each request's `Work` and of
  `Lifespan`). An await comes back with a value or an exception, or never:
  `Hang` and `StartOrStopHangs` may take its place at any time, and what hangs
  stays so. That awaits end is not assumed; `StopEnds` names the case instead.
  Nobody need stop the process.
- Redis keeps its clock (weak fairness of `WindowEnds`) and a request that has
  begun goes on; nothing makes Redis evict a key.

## 4. What is proved

| Theorem | For every |
|---|---|
| `HubProof!TypeCorrect`, `DropsKnown`, `ConnGaugeExact`, `ChannelsOwned`, `PanicsExplained`, `SessionGaugeNotLow`, `BroadcastsEnd` | finite set of connections, identifiers and callers, outbox capacity of at least one, identifiers unique or not |
| `HubRegistryProof!RegistryIsImplemented`, `GaugeIsAhead`, `GoneStayGone`, `SessionGaugeExact`, `OrphansAreLeft` | the same; the last two for identifiers that do not repeat |
| `RateLimiterProof!LimiterTypeCorrect`, `LimitHolds`, `RefusalsAreEarned`, `ExpiryIsUnderWay` | finite set of requests, limit of at least one |
| `GroupTreeProof!TreeTypeCorrect`, `ParentsExist`, `CirclesAreExplained`, `WalksAreExplained`, `RingsAreExplained` | set of groups and of requests |
| `ApiSessionProof!SessionTypeCorrect`, `EndsHaveTimes`, `SocketsAreRecorded`, `GrantsAreKept`, `ReportsAreCounted`, `EndsAreFinal` | finite sets of sockets and users, set of requests, number of reports |
| `AccountProof!AccountTypeCorrect`, `PendingIsExplained`, `ChallengesAreSpent`, `TrailIsTrue`, `EditsAreApart`, `FactorIsPromised`, `TokensGoToActive`, `TokensAreAudited`, `HighRiskIsKept` | sets of requests, passwords, secrets and challenges |
| `HostsProof!HostsTypeCorrect`, `ReferencesHold`, `TagsAreTold`, `ColumnsAreApart`, `HostsAreSpared`, `WalkIsComplete`, `UniqueNamesSeenOnce` | finite set of hosts; sets of groups, sessions, requests, names, tags and ports; size of a page |
| `ServiceProof!ServiceTypeCorrect`, `RequestsAreCounted`, `AnswersFitExceptions`, `SessionsAreClosed`, `ReadinessIsTrue`, `ClientIsKept`, `RequestsGoForward` | set of requests and of exceptions |

**Hub.** `ChannelOwnership` alone is not inductive: that a broadcast about to
close a channel has a registered victim whose reader has not left is needed,
and that no two broadcasts are past close with the same victim. That is
`DropInv` (`EntryInv`, `VictimInv`, `ReaderInv`). It is kept because
`UnregisterClient` and `SweepClients` need the write lock, so they never run
while a broadcast is between close and delete; and because `CloseFull` asks for
an open channel (otherwise the process panics). `ConnGauge` then follows action
by action: each removal takes exactly one known entry, or a finite set of them.
`SessionGaugeBound` (the gauge is at least the size of the map) is what remains
true when identifiers repeat, and keeps the gauge from going negative, which
`TypeOK` needs. The invariant proved is
`TypeOK /\ DropInv /\ ConnGauge /\ SessionGaugeBound`; the assumption is
`HubAssumption`. `BroadcastsEnd` gives a broadcast the rank `Remaining`: three for
each entry still to come, and one for each operation on the entry at hand.
A step of its own lowers the rank, or ends the loop or the process; nobody
else touches it, because only the goroutine itself moves its `cast` and `todo`.

**Hub and registry.** The mapping has a connection gone when its channel is
closed, although its entry and the gauge follow later: `Gauge` subtracts the
broadcasts that are between the two (`Droppers`), and `DropInv` says that there
are as many as entries in excess. With that every step of the hub is a `Join`, `Leave`,
`Put` or `Take` or is not seen: the close is the leave, the delete is unseen.
`SessionGaugeExact` adds `OwnerInv`: a session identifier that is named anywhere has
one owner, and is not in the map until that owner registers it. So each
registration adds an entry, and each end that finds one removes it.
Two theorems bring the registry's promises back to the hub: `GaugeIsAhead` (the
connection gauge minus the drops under way is the number of open channels) and
`GoneStayGone` (no step opens a closed channel again or puts a message into
it). `OrphansAreLeft` rests on `OwnerInv` too: who could register or use the
identifier of an orphan would be its owner, and then it would be none.

**Limiter.** `CountInv`: the requests counted in one life of the key saw
different positive values, none above the counter, and those let through saw at
most `Limit`. So they inject into `1..Limit`. `ExpiryUnderWay` is inductive with
it: the one that saw 1 is the one that goes on to EXPIRE. `LimitHolds` is the upper half;
`RefusalsAreEarned` is the lower one: while nothing failed, the values seen in
one life have no gaps (`FullInv`), so whoever saw more than `Limit` has exactly
`Limit` others below. Assumption:
`LimiterAssumption`.

**Groups.** Call a set of groups from which no parent leads out a `Circle`
(it is one, with what hangs from it). The invariant says that each such set
contains a loose group. A move that nothing disturbed gives a parent to a group
without children (`MoveInv`); taking that group out of the set leaves a smaller
such set, which was there before. No induction over the tree is needed. What it
means for one group is read off afterwards: the groups on an endless way upwards
are such a set (`WalksAreExplained`), and so are those between a group and itself
(`RingsAreExplained`).
Assumption: `TreeAssumption`.

**Session row.** A copy may be old, but it never knows of an end the row does
not have, and never of more bytes than were reported (`CopyInv`). Therefore no
flush can write `is_active` back to true. A lone open socket has the identifier
in its copy and in the row (`SocketInv`), because what clears it is its own disconnect or the
end of the session. A flush is treated column by column (`FlushRow`).
Assumption: `ApiAssumption`.

**Account.** `HeldInv` says what a request carries at each place: in
particular that a secret on its way to the row is proven, and that a challenge
whose entry is about to be written is gone. `SecretInv`: what is pending was
offered, what is in force is proven. `OwedInv`: unless changes overlapped, one request at
most owes an entry about the second factor, and the row is as that entry will say.
The refinement is a step proof over the disjuncts of `Handle`, and so is
`EditsAreApart`, with `NamedInv` beside: an account is active exactly while it has its
address.
Assumption: `AccountAssumption`.

**Hosts.** `References` holds because a delete takes all that refers to its
hosts or does not happen. For `TagsTold` it is needed that an edit under way puts, or
leaves, what its client will be told, as long as nobody else changed the tags
(`EditInv`); for `HostsSpared` that what a delete has loaded is in the
group or was moved (`DeleteInv`). `ColumnsApart` is read off the steps with
`Put`: an edit of one column puts that column alone.
For the walk the difficulty is that each query may order equal names differently, so
the pages come from different listings. But all listings of one table have the
same name at the same place (`NamesAgree`): if the i-th name of one came after that of
another, the first i hosts of the other would all have to be among the first
i - 1 of the one, against the pigeonhole principle. `SeenInv` says how many
entries the client has after each page and that their names are those of every
listing; `PagesEnough` is the arithmetic of `total_pages` and of the offset. A write
either leaves the listed columns alone or makes the walk unsteady (`WriteNoticed`).
Assumption: `HostsAssumption`.

**Service.** A request's past is summed up by its place: `Stage` says for each
place what is counted, raised, replaced and open there. Every step takes a
request from stage to stage, and the properties are what `Stage` says at "answered"
and "over". For the sessions under the engine `Drained` is needed: the shutdown
goes on only when every request is new or over, and none begins any more.
`RequestsGoForward` orders the places by `Distance` from the end; `Ways` says which place
comes after which.
Assumption: `ServiceAssumption`.

Only model-checked: the liveness properties `DropEndsConnection`,
`OrphanSessionEnds`, `KeyExpiresUnlessFailed` and `StopEnds`, because fairness
and ENABLED are out of the prover's reach. What of them is safety is proved: that
no step undoes the progress they count on. For `DropEndsConnection` these are `GoneStayGone` and
`BroadcastsEnd` (a dropped client stays dropped, its outbox only drains, and no
broadcast keeps the read lock for ever); for `OrphanSessionEnds` `OrphansAreLeft`;
for `KeyExpiresUnlessFailed` `ExpiryIsUnderWay`; for `StopEnds`
`RequestsGoForward`. That the steps are taken in the end is what TLC adds, on
small instances and under the fairness of section 3; for `StopEnds` with the
exception it names, that an await hangs.

## 5. Disagreements found

1. `hub_panic`: closing the channel of a client whose outbox is full ends the whole
   gateway when the client's reader next answers, or another broadcast is in
   the loop (hub.go:203-207, client.go:305).
2. `hub_stats_deadlock`: `GetStats` and `cleanup` take the two locks in opposite
   orders (hub.go:287-288, 249-269).
3. `session_revoke`: "Access revoked successfully" is answered and the stored
   list keeps the user (session.py:301). `add_port_forwarding` has the same fault
   (host.py:303), against "Add port forwarding rule." (host.py:302) and "List of
   port forwarding rules" (host.py:61): a host with a rule never gets a second one.
   No handler calls it, and it has no run of its own; `AddPortForwarding` in `Hosts`
   does what the code does.

The passing properties are stated around these and around what follows, so they
say that nothing else goes wrong:

- Limiter (`KeyExpiresUnlessFailed`): "per minute" and "5 per hour" (auth.py:405)
  hold only if the request that saw 1 also completes EXPIRE (deps.py:139-141).
  Otherwise the key stays and the address stays refused; so it does when the first
  INCR was counted, retried (database.py:88) and answered with 2.
- Session row (`GrantKept`, `StatsCounted`): of two overlapping shares, and of two
  overlapping reports, the later commit loses the earlier one (session.py:288, 320).
- Groups (`CirclesExplained`): circular references are refused by
  `move_to_parent` (group.py:269), which nobody calls and which raises for every group
  with children; the update the API offers does not ask (group.py:255-261). Two overlapping
  moves, each allowed, may together close a circle.
- Second factor (`PendingExplained`, `ChallengeSpent`): an enable that overlaps a
  confirm leaves a secret pending beside the one in force; two answers to
  one challenge at the same time both get tokens (auth.py:212-236), and nobody
  asks there whether the user is active. The answer to login does not contain the
  challenge, so no client can go on (auth.py:133-159).
- Audit: "Registration failed" (auth.py:98) is answered although the account
  exists, if only the commit of the entry failed, and a process that dies between
  the two commits leaves a change without an entry (`TrailAgrees`). A switched-off
  second factor is logged at low risk, because the code asks for "mfa_disabled"
  and logs "2fa_disabled" (audit_log.py:152). "Logout user and revoke tokens." (auth.py:327)
  revokes nothing.
- Hosts (`WalkComplete`, `HostsSpared`): pages are ordered by name alone, so hosts of
  one name can be missed or repeated. A host moved out of a group during its
  deletion is deleted all the same.
- Process (`AnswersFit`): an exception without a handler is answered without security
  headers and request identifier. So is any other one when the rollback or the
  close of its session raises (database.py:46, 49): a "not found" whose connection
  was lost becomes a 500.
- Process (`ClientKept`): if `close_db` or the close of the Redis client fails, the process
  ends with the client set (main.py:84-89, database.py:104-105); so does a process
  whose start failed at the ping (database.py:84-94).
- Process (`StopEnds`): without timeouts (database.py:20-27, 84-91) a service that is lost
  without a reset can keep a request, and with it the stop, waiting for ever.
- Success is not always of what is stored: besides the revocation above, an update
  of a host that names a column `Host` does not have, like a password, answers
  success without it (hosts.py:81-97).

## 6. Not modelled

- Start-up, configuration, CORS, formatting, schemas, migrations, the static
  front end: no shared state that changes. The three gateway routes whose
  handlers are missing from the repository (main.go:126-128).
- Shutdown of the gateway: hijacked sockets are not closed and nothing is
  persistent, so it is the end of the behaviour.
- SSH itself: the gateway simulates it.
- The user endpoints: they answer constants.
- `create_default_group` (no caller; it may make two default groups, after which
  `get_default_group` raises), recording of sessions, jump hosts, login counters and
  preferences, the `log_*` helpers nobody calls, `DatabaseContext`,
  `TransactionManager` and `DatabasePool`: plain writes that no other
  operation reads.
- Passwords, tokens, TOTP and encryption as algorithms: only their outcomes.

## 7. Plan

The order was by what the system stands to lose: the hub and its registry, the
limiter, the session row, the groups, the account, the hosts, the process. All
of these are done, each with its proofs. What is left:

1. `Flush` and `Changed` as one module shared by `ApiSession`, `Hosts` and
   `Account`.
2. Composition: the limiter in front of the account's handlers, and the life of a
   user over groups and hosts.
