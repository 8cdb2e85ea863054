----------------------------- MODULE RateLimiter -----------------------------
(***************************************************************************)
(* RateLimiter.is_allowed (api/deps.py) on one key: the Redis counter of   *)
(* one address and one route, and the concurrent requests that share it.   *)
(*                                                                         *)
(* INCR and EXPIRE are two awaited calls.  Between them other requests     *)
(* run, the worker may die and Redis may become unreachable.  Redis itself *)
(* is external: it drops the key when its time is up, and under            *)
(* "allkeys-lru" (docker-compose.yml) also when memory is short.           *)
(***************************************************************************)
EXTENDS Integers, FiniteSets

CONSTANTS
  Request,   \* the requests considered
  Limit      \* AUTH_RATE_LIMIT_PER_MINUTE, or 5 per hour

ASSUME LimiterAssumption == IsFiniteSet(Request) /\ Limit \in Nat \ {0}

VARIABLES
  count,     \* the value of the key; 0: there is no key
  ttl,       \* the key has an expiry time
  life,      \* how many times the key has been removed
  at,        \* where each request is, and its verdict in the end
  seen,      \* the answer INCR gave to the request
  born,      \* the life of the key in which it was counted
  failed     \* some request was cut short by a failure

vars == <<count, ttl, life, at, seen, born, failed>>

At == {"new", "incr", "expire", "decide", "passed", "refused", "open", "dead"}

Init ==
  /\ count = 0 /\ ttl = FALSE /\ life = 0 /\ failed = FALSE
  /\ at = [r \in Request |-> "new"]
  /\ seen = [r \in Request |-> 0] /\ born = [r \in Request |-> 0]

Arrive(r) ==
  /\ at[r] = "new"
  /\ at' = [at EXCEPT ![r] = "incr"]
  /\ UNCHANGED <<count, ttl, life, seen, born, failed>>

(* INCR answers n; the first one goes on to EXPIRE.                        *)
Counted(r, n) ==
  /\ count' = n
  /\ seen' = [seen EXCEPT ![r] = n] /\ born' = [born EXCEPT ![r] = life]
  /\ at' = [at EXCEPT ![r] = IF n = 1 THEN "expire" ELSE "decide"]
  /\ UNCHANGED <<ttl, life>>

Incr(r) ==
  /\ at[r] = "incr" /\ Counted(r, count + 1)
  /\ UNCHANGED failed

(* retry_on_timeout (database.py): an INCR whose answer was late is sent   *)
(* again although Redis has counted it.                                    *)
IncrTwice(r) ==
  /\ at[r] = "incr" /\ Counted(r, count + 2)
  /\ failed' = TRUE

(* Variant: the error path takes the count back without knowing it was made. *)
IncrFailsUndone(r) ==
  /\ at[r] = "incr"
  /\ count' = count - 1
  /\ at' = [at EXCEPT ![r] = "open"] /\ failed' = TRUE
  /\ UNCHANGED <<ttl, life, seen, born>>

(* INCR raises, before or after Redis counted it: the request is allowed.  *)
IncrFails(r) ==
  /\ at[r] = "incr"
  /\ count' \in {count, count + 1}
  /\ at' = [at EXCEPT ![r] = "open"] /\ failed' = TRUE
  /\ UNCHANGED <<ttl, life, seen, born>>

(* Variant: EXPIRE is sent for another key.                                *)
ExpireElsewhere(r) ==
  /\ at[r] = "expire"
  /\ at' = [at EXCEPT ![r] = "decide"]
  /\ UNCHANGED <<count, ttl, life, seen, born, failed>>

Expire(r) ==
  /\ at[r] = "expire"
  /\ ttl' = (count > 0)
  /\ at' = [at EXCEPT ![r] = "decide"]
  /\ UNCHANGED <<count, life, seen, born, failed>>

(* EXPIRE raises: the request is allowed.                                  *)
ExpireFails(r) ==
  /\ at[r] = "expire"
  /\ at' = [at EXCEPT ![r] = "open"] /\ failed' = TRUE
  /\ UNCHANGED <<count, ttl, life, seen, born>>

(* The worker is stopped in the middle of the request.                     *)
Die(r) ==
  /\ at[r] \in {"incr", "expire", "decide"}
  /\ at' = [at EXCEPT ![r] = "dead"] /\ failed' = TRUE
  /\ UNCHANGED <<count, ttl, life, seen, born>>

(* Variant: one request too many.                                          *)
DecideOffByOne(r) ==
  /\ at[r] = "decide"
  /\ at' = [at EXCEPT ![r] = IF seen[r] <= Limit + 1 THEN "passed" ELSE "refused"]
  /\ UNCHANGED <<count, ttl, life, seen, born, failed>>

Decide(r) ==
  /\ at[r] = "decide"
  /\ at' = [at EXCEPT ![r] = IF seen[r] <= Limit THEN "passed" ELSE "refused"]
  /\ UNCHANGED <<count, ttl, life, seen, born, failed>>

KeyGone ==
  /\ count' = 0 /\ ttl' = FALSE /\ life' = life + 1
  /\ UNCHANGED <<at, seen, born, failed>>

WindowEnds == count > 0 /\ ttl /\ KeyGone

Evict == count > 0 /\ KeyGone

Next ==
  \/ \E r \in Request :
       \/ Arrive(r) \/ Incr(r) \/ IncrTwice(r) \/ IncrFails(r)
       \/ Expire(r) \/ ExpireFails(r) \/ Die(r) \/ Decide(r)
  \/ WindowEnds \/ Evict

Spec == Init /\ [][Next]_vars

(* Redis keeps its clock; a request that has begun goes on.  Nothing makes *)
(* Redis evict a key.                                                      *)
Fairness ==
  /\ WF_vars(WindowEnds)
  /\ \A r \in Request : WF_vars(Incr(r)) /\ WF_vars(Expire(r)) /\ WF_vars(Decide(r))

FairSpec == Spec /\ Fairness

-----------------------------------------------------------------------------
(* Every variable has its type.                                            *)
TypeOK ==
  /\ count \in Nat /\ life \in Nat /\ ttl \in BOOLEAN /\ failed \in BOOLEAN
  /\ at \in [Request -> At]
  /\ seen \in [Request -> Nat] /\ born \in [Request -> Nat]

Counting == {"expire", "decide", "passed", "refused"}
Passed(n) == {r \in Request : at[r] = "passed" /\ born[r] = n}

(* However requests interleave, retry, fail or die, and however late they  *)
(* decide, no more than Limit of those counted in one life of the key are  *)
(* let through by the count.                                               *)
AtMostLimit == \A n \in 0..life : Cardinality(Passed(n)) <= Limit

(* Why: no two requests counted in one life of the key saw the same value. *)
CountInv ==
  /\ \A r \in Request : at[r] \in Counting =>
       /\ seen[r] > 0 /\ born[r] <= life
       /\ born[r] = life => seen[r] <= count
       /\ at[r] = "passed" => seen[r] <= Limit
  /\ \A r, q \in Request :
       /\ at[r] \in Counting /\ at[q] \in Counting /\ r # q
       /\ born[r] = born[q]
       => seen[r] # seen[q]

(* A key without an expiry time has a request on its way to set one,       *)
(* unless a failure cut some request short.                                *)
ExpiryUnderWay ==
  count > 0 /\ ~ttl /\ ~failed => \E r \in Request : at[r] = "expire"

(* A counted address is forgotten again (auth.py:405, "5 per hour") unless *)
(* a failure came between INCR and EXPIRE.                                 *)
KeyExpiresUnlessFailed == count > 0 ~> count = 0 \/ failed
=============================================================================
