------------------------------- MODULE Service -------------------------------
(***************************************************************************)
(* The life of an API process (main.py, core/database.py) and the way of   *)
(* a request through it: the middleware, the exception handlers            *)
(* (utils/exceptions.py), its database session, and the counter            *)
(* http_requests_total.                                                    *)
(*                                                                         *)
(* From the outside in a request passes ServerErrorMiddleware, the         *)
(* security headers, the logging, CORS and trusted hosts,                  *)
(* ExceptionMiddleware and its handler with get_db around it.              *)
(***************************************************************************)
EXTENDS Integers, Sequences

CONSTANTS
  Request,    \* the requests considered; one is answered once
  Raisable    \* what a handler may raise, of the classes below

(* An HTTPException has the status it was made with, mostly 404.           *)
Code == [ValidationError |-> 400, AuthenticationError |-> 401, AuthorizationError |-> 403,
         NotFoundError |-> 404, ConflictError |-> 409, RateLimitError |-> 429,
         DatabaseError |-> 500, EncryptionError |-> 500, ExternalServiceError |-> 502,
         SSHConnectionError |-> 503, HTTPException |-> 404, RequestValidationError |-> 422]

ASSUME ServiceAssumption == Raisable \subseteq DOMAIN Code \cup {"Exception"}

VARIABLES
  phase,      \* of the process
  client,     \* database.redis_client is set
  broken,     \* close_db or close_redis failed
  up,         \* which of the two services answer
  req         \* what each request has come to

vars == <<phase, client, broken, up, req>>

Backend == {"database", "redis"}

(* work: a handler with a database session; refused: CORS or trusted hosts *)
(* answer it.                                                              *)
Kind == {"work", "ready", "health", "refused"}

(* raised: the class the handler raised, or "none"; replaced: an exception *)
(* of the rollback or close has taken its place; saw: services found       *)
(* healthy; steady: none came or went since it began.                      *)
New == [at |-> "new", kind |-> "work", session |-> "none", raised |-> "none",
        replaced |-> FALSE, status |-> 0, saw |-> {}, steady |-> TRUE,
        counted |-> << >>, identified |-> FALSE, secured |-> FALSE]

Init ==
  /\ phase = "init_db" /\ client = FALSE /\ broken = FALSE /\ up = Backend
  /\ req = [r \in Request |-> New]

-----------------------------------------------------------------------------
(* lifespan                                                                *)

InitDb ==
  /\ phase = "init_db"
  /\ \/ "database" \in up /\ phase' = "get_redis"
     \/ phase' = "failed"
  /\ UNCHANGED <<client, broken, up, req>>

(* get_redis: the client is stored before it is tried.                     *)
GetRedis ==
  /\ phase = "get_redis"
  /\ client' = TRUE
  /\ \/ "redis" \in up /\ phase' = "serving"
     \/ phase' = "failed"
  /\ UNCHANGED <<broken, up, req>>

(* The server is told to stop: it takes no more requests, and goes on with *)
(* the shutdown when those it has are over.                                *)
Stop ==
  /\ phase = "serving" /\ phase' = "draining"
  /\ UNCHANGED <<client, broken, up, req>>

(* An exception of either close is caught, and skips what comes after it.  *)
CloseDb ==
  /\ phase = "draining" /\ \A r \in Request : req[r].at \in {"new", "over"}
  /\ \/ phase' = "close_redis" /\ UNCHANGED broken
     \/ phase' = "ended" /\ broken' = TRUE
  /\ UNCHANGED <<client, up, req>>

(* Variant: the client is closed and kept.                                 *)
CloseKeeps ==
  /\ phase = "close_redis" /\ phase' = "ended"
  /\ broken' \in BOOLEAN
  /\ UNCHANGED <<client, up, req>>

CloseRedis ==
  /\ phase = "close_redis" /\ phase' = "ended"
  /\ \/ client' = FALSE /\ UNCHANGED broken
     \/ broken' = TRUE /\ UNCHANGED client
  /\ UNCHANGED <<up, req>>

(* Neither the engine nor the Redis client limits the time of a call: an   *)
(* await in lifespan may never come back.                                  *)
StartOrStopHangs ==
  /\ phase \in {"init_db", "get_redis", "draining", "close_redis"}
  /\ phase = "draining" => \A r \in Request : req[r].at \in {"new", "over"}
  /\ client' = (client \/ phase = "get_redis")
  /\ phase' = "hung"
  /\ UNCHANGED <<broken, up, req>>

(* A service comes or goes.                                                *)
Toggle(b) ==
  /\ phase \notin {"ended", "failed", "hung"}
  /\ up' = IF b \in up THEN up \ {b} ELSE up \cup {b}
  /\ req' = [r \in Request |-> IF req[r].at = "new" THEN req[r]
                               ELSE [req[r] EXCEPT !.steady = FALSE]]
  /\ UNCHANGED <<phase, client, broken>>

-----------------------------------------------------------------------------
Step(r, from, new) ==
  /\ req[r].at = from
  /\ req' = [req EXCEPT ![r] = new]
  /\ UNCHANGED <<phase, client, broken, up>>

Arrive(r, kind) ==
  /\ phase = "serving"
  /\ \/ /\ kind = "refused"
        /\ Step(r, "new", [New EXCEPT !.at = "responding", !.kind = kind, !.status = 400])
     \/ /\ kind # "refused"
        /\ Step(r, "new", [New EXCEPT !.at = "handling", !.kind = kind,
                             !.session = IF kind = "work" THEN "open" ELSE "none"])

(* The exit code of get_db runs before the answer in FastAPI 0.106 to      *)
(* 0.117, and after it in others.                                          *)
Return(r) ==
  /\ req[r].kind = "work"
  /\ \E place \in {"closing", "left"} :
       Step(r, "handling", [req[r] EXCEPT !.at = place, !.status = 200])

(* In any version an exception first passes through get_db; FastAPI may    *)
(* close the session before it raises that of an invalid request.          *)
Raise(r, x) ==
  /\ req[r].kind = "work"
  /\ \E place \in {"rolling"} \cup {p \in {"closing"} : x = "RequestValidationError"} :
       Step(r, "handling", [req[r] EXCEPT !.at = place, !.raised = x])

(* check_db_health, then check_redis_health: no exception leaves them.     *)
Probing(r) == req[r].kind \in {"ready", "health"}

CheckDb(r) ==
  /\ Probing(r)
  /\ Step(r, "handling", [req[r] EXCEPT !.at = "probing", !.saw = up \cap {"database"}])

CheckRedis(r) ==
  Step(r, "probing", [req[r] EXCEPT !.at = "probed", !.saw = @ \cup (up \cap {"redis"})])

(* Variant: one healthy service is enough.                                 *)
ReadyIfAny(r) ==
  Step(r, "probed", [req[r] EXCEPT !.at = "left",
    !.status = IF req[r].kind = "ready" /\ req[r].saw = {} THEN 503 ELSE 200])

(* /ready answers 503 unless both are healthy, /health 200 all the same.   *)
Report(r) ==
  Step(r, "probed", [req[r] EXCEPT !.at = "left",
    !.status = IF req[r].kind = "ready" /\ req[r].saw # Backend THEN 503 ELSE 200])

(* Variant: the session is closed after the rollback, not in any case.     *)
RollbackOrLeave(r) ==
  \/ Step(r, "rolling", [req[r] EXCEPT !.at = "closing"])
  \/ Step(r, "rolling", [req[r] EXCEPT !.at = "left", !.replaced = TRUE])

(* Variant: it is tried until the database is there.                       *)
RollbackWhenUp(r) ==
  "database" \in up /\ Step(r, "rolling", [req[r] EXCEPT !.at = "closing"])

(* get_db: on a connection that is lost the rollback may raise; finally    *)
(* closes the session all the same.                                        *)
Rollback(r) ==
  \E fails \in BOOLEAN : Step(r, "rolling", [req[r] EXCEPT !.at = "closing", !.replaced = fails])

(* And so may the close, once more in "async with".  When the answer is    *)
(* out already, that changes it no more.                                   *)
CloseSession(r) ==
  \E fails \in BOOLEAN :
    LET session == IF fails THEN "lost" ELSE "closed"
    IN  \/ Step(r, "closing", [req[r] EXCEPT !.at = "left", !.session = session,
                                 !.replaced = @ \/ fails])
        \/ Step(r, "answered", [req[r] EXCEPT !.at = "over", !.session = session])

(* Variant: the handler is there for the base class only.                  *)
BaseHandlers == {"HTTPException", "RequestValidationError"}

(* setup_exception_handlers: what is answered inside the middleware.  A    *)
(* handler for Exception itself is put into ServerErrorMiddleware.         *)
Handlers == DOMAIN Code

HandleException(r) ==
  LET q == req[r]
  IN  \/ /\ q.raised = "none" /\ ~q.replaced
         /\ Step(r, "left", [q EXCEPT !.at = "responding"])
      \/ /\ q.raised \in Handlers /\ ~q.replaced
         /\ Step(r, "left", [q EXCEPT !.at = "responding", !.status = Code[q.raised]])
      \/ /\ q.replaced \/ q.raised \notin Handlers \cup {"none"}
         /\ Step(r, "left", [q EXCEPT !.at = "failing"])

(* Variant: the branch of the exception does not count.                    *)
CountAnswers(r) ==
  \/ Step(r, "responding", [req[r] EXCEPT !.at = "securing", !.identified = TRUE,
                              !.counted = Append(@, req[r].status)])
  \/ Step(r, "failing", [req[r] EXCEPT !.at = "erring"])

(* logging_middleware: counted by its status; or as 500, and raised again. *)
Count(r) ==
  \/ Step(r, "responding", [req[r] EXCEPT !.at = "securing", !.identified = TRUE,
                              !.counted = Append(@, req[r].status)])
  \/ Step(r, "failing", [req[r] EXCEPT !.at = "erring", !.counted = Append(@, 500)])

(* security_headers_middleware; the exception passes it by and is answered *)
(* by general_exception_handler.  The session may be still to be closed.   *)
Answer(r) ==
  \/ Step(r, "securing", [req[r] EXCEPT !.secured = TRUE,
                            !.at = IF req[r].session = "open" THEN "answered" ELSE "over"])
  \/ Step(r, "erring", [req[r] EXCEPT !.at = "over", !.status = 500])

(* An await on the database or Redis may never come back.                  *)
Hang(r) ==
  \E from \in {"handling", "probing", "rolling", "closing", "answered"} :
    Step(r, from, [req[r] EXCEPT !.at = "hung"])

Work(r) ==
  \/ Return(r) \/ \E x \in Raisable : Raise(r, x)
  \/ CheckDb(r) \/ CheckRedis(r) \/ Report(r)
  \/ Rollback(r) \/ CloseSession(r) \/ HandleException(r) \/ Count(r) \/ Answer(r)

Lifespan == InitDb \/ GetRedis \/ CloseDb \/ CloseRedis

Next ==
  \/ Lifespan \/ StartOrStopHangs \/ Stop
  \/ \E b \in Backend : Toggle(b)
  \/ \E r \in Request : Work(r) \/ Hang(r) \/ \E kind \in Kind : Arrive(r, kind)

Spec == Init /\ [][Next]_vars

(* The event loop runs what can run.  An await comes back, with a value or *)
(* an exception, or hangs for ever.  Nobody need stop the process.         *)
Fairness == WF_vars(Lifespan) /\ \A r \in Request : WF_vars(Work(r))

FairSpec == Spec /\ Fairness

-----------------------------------------------------------------------------
At == {"new", "handling", "probing", "probed", "rolling", "closing", "left", "responding",
       "failing", "securing", "erring", "answered", "over", "hung"}

(* Every variable has its type.                                            *)
TypeOK ==
  /\ phase \in {"init_db", "get_redis", "serving", "draining", "close_redis", "ended", "failed",
               "hung"}
  /\ client \in BOOLEAN /\ broken \in BOOLEAN /\ up \subseteq Backend
  /\ \A r \in Request :
       /\ req[r].at \in At /\ req[r].kind \in Kind /\ req[r].saw \subseteq Backend
       /\ req[r].session \in {"none", "open", "closed", "lost"}
       /\ req[r].raised \in Raisable \cup {"none"} /\ req[r].replaced \in BOOLEAN

Answered == {r \in Request : req[r].at \in {"answered", "over"}}

(* Every request is counted once, with the status its client is given,     *)
(* whichever layer answers it, and whatever fails after the answer.        *)
CountedOnce == \A r \in Answered : req[r].counted = <<req[r].status>>

(* An exception is answered with the status of its class and all headers.  *)
(* Answered outside the middleware, by 500 without security headers and    *)
(* request identifier, is one without a handler, and whatever a rollback   *)
(* or close that failed has put another exception in the place of.         *)
AnswersFit ==
  \A r \in Answered :
    IF req[r].raised = "Exception" \/ req[r].replaced
    THEN req[r].status = 500 /\ ~req[r].secured /\ ~req[r].identified
    ELSE /\ req[r].secured /\ req[r].identified
         /\ req[r].raised # "none" => req[r].status = Code[req[r].raised]

(* No request leaves a database session open: it has been closed, or the   *)
(* close was tried and failed, also when the rollback before it raised,    *)
(* and always before the engine is disposed of.                            *)
SessionsClosed ==
  \A r \in Request :
    req[r].at = "over" \/ phase \in {"close_redis", "ended"} => req[r].session # "open"

(* "Readiness check endpoint." (main.py:254): ready is answered only if    *)
(* both services answer, unless one of them came or went since the request *)
(* began.                                                                  *)
ReadyTrue ==
  \A r \in Answered :
    req[r].kind = "ready" /\ req[r].status = 200 /\ req[r].steady => up = Backend

(* Whoever serves has a Redis client, which is let go in the end unless    *)
(* closing the database or the client itself failed.                       *)
ClientKept ==
  /\ phase \in {"serving", "draining", "close_redis"} => client
  /\ phase = "ended" => (client <=> broken)

(* A process that is told to stop finishes what it has begun and ends,     *)
(* unless one of its awaits never comes back: nothing limits those.        *)
StopEnds ==
  phase = "draining" ~> (phase \in {"ended", "hung"} \/ \E r \in Request : req[r].at = "hung")
=============================================================================
