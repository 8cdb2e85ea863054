--------------------------- MODULE RateLimiterProof ---------------------------
(***************************************************************************)
(* The limit of RateLimiter for any set of requests and any limit.  INCR   *)
(* gives every request of one life of the key a value of its own (CountInv), *)
(* so the requests let through inject into 1..Limit.                       *)
(***************************************************************************)
EXTENDS RateLimiter, FiniteSetTheorems, TLAPS

Inv == TypeOK /\ CountInv

LEMMA InitInv == Init => Inv
<1>1. Init => TypeOK
  <2> SUFFICES ASSUME Init PROVE TypeOK
    OBVIOUS
  <2>1. ttl \in BOOLEAN /\ failed \in BOOLEAN
    BY DEF Init
  <2>2. count \in Nat /\ life \in Nat
    BY DEF Init
  <2>3. at \in [Request -> At]
    BY DEF Init, At
  <2>4. seen \in [Request -> Nat] /\ born \in [Request -> Nat]
    BY DEF Init
  <2> QED
    BY <2>1, <2>2, <2>3, <2>4 DEF TypeOK
<1>2. Init => CountInv
  BY DEF Init, CountInv, Counting
<1> QED
  BY <1>1, <1>2 DEF Inv

LEMMA InvStep == Inv /\ [Next]_vars => Inv'
<1> SUFFICES ASSUME Inv, [Next]_vars PROVE Inv'
  OBVIOUS
<1> USE DEF Inv, TypeOK, CountInv, Counting, At
<1>1. ASSUME NEW r \in Request, Arrive(r) PROVE Inv'
  BY <1>1 DEF Arrive
<1>2. ASSUME NEW r \in Request, NEW n \in Nat, n > count, Counted(r, n),
             at[r] = "incr", failed' \in BOOLEAN
      PROVE  Inv'
  <2>1. TypeOK'
    BY <1>2 DEF Counted
  <2>2. CountInv'
    BY <1>2 DEF Counted
  <2> QED
    BY <2>1, <2>2
<1>3. ASSUME NEW r \in Request, Incr(r) PROVE Inv'
  BY <1>2, <1>3 DEF Incr
<1>4. ASSUME NEW r \in Request, IncrTwice(r) PROVE Inv'
  BY <1>2, <1>4 DEF IncrTwice
<1>5. ASSUME NEW r \in Request, IncrFails(r) PROVE Inv'
  BY <1>5 DEF IncrFails
<1>6. ASSUME NEW r \in Request, Expire(r) PROVE Inv'
  BY <1>6 DEF Expire
<1>7. ASSUME NEW r \in Request, ExpireFails(r) PROVE Inv'
  BY <1>7 DEF ExpireFails
<1>8. ASSUME NEW r \in Request, Die(r) PROVE Inv'
  BY <1>8 DEF Die
<1>9. ASSUME NEW r \in Request, Decide(r) PROVE Inv'
  BY <1>9 DEF Decide
<1>10. ASSUME KeyGone PROVE Inv'
  <2>1. TypeOK'
    <3>1. ttl' \in BOOLEAN /\ failed' \in BOOLEAN
      BY <1>10 DEF KeyGone
    <3>2. count' \in Nat /\ life' \in Nat
      BY <1>10 DEF KeyGone
    <3> QED
      BY <1>10, <3>1, <3>2 DEF KeyGone
  <2>2. \A r \in Request : at[r] \in Counting => born[r] # life'
    BY <1>10 DEF KeyGone
  <2>3. CountInv'
    BY <1>10, <2>2 DEF KeyGone
  <2> QED
    BY <2>1, <2>3
<1>11. CASE UNCHANGED vars
  BY <1>11 DEF vars
<1> QED
  BY <1>1, <1>3, <1>4, <1>5, <1>6, <1>7, <1>8, <1>9, <1>10, <1>11
  DEF Next, WindowEnds, Evict

(* Distinct positive values of at most Limit: at most Limit of them.       *)
LEMMA InvLimit == Inv => AtMostLimit
<1> SUFFICES ASSUME Inv, NEW n \in 0..life
             PROVE  Cardinality(Passed(n)) <= Limit
  BY DEF AtMostLimit
<1> DEFINE f == [r \in Passed(n) |-> seen[r]]
<1>1. IsFiniteSet(1..Limit) /\ Cardinality(1..Limit) = Limit
  BY FS_Interval, LimiterAssumption
<1>2. f \in [Passed(n) -> 1..Limit]
  BY LimiterAssumption DEF Inv, TypeOK, CountInv, Counting, Passed
<1>3. \A r, q \in Passed(n) : f[r] = f[q] => r = q
  BY DEF Inv, CountInv, Counting, Passed
<1>4. f \in Injection(Passed(n), 1..Limit)
  BY <1>2, <1>3 DEF Injection, IsInjective
<1> QED
  BY <1>1, <1>4, FS_Injection

(* Redis values, positions and lives keep their types.                     *)
THEOREM LimiterTypeCorrect == Spec => []TypeOK
<1>1. Inv => TypeOK
  BY DEF Inv
<1> QED
  BY <1>1, InitInv, InvStep, PTL DEF Spec

(* Every step leaves a key without expiry time only to who will set one.   *)
LEMMA ExpiryStep == TypeOK /\ ExpiryUnderWay /\ [Next]_vars => ExpiryUnderWay'
<1> SUFFICES ASSUME TypeOK, ExpiryUnderWay, [Next]_vars PROVE ExpiryUnderWay'
  OBVIOUS
<1> USE DEF TypeOK, ExpiryUnderWay
<1>1. ASSUME NEW r \in Request, Arrive(r) PROVE ExpiryUnderWay'
  BY <1>1 DEF Arrive
<1>2. ASSUME NEW r \in Request, Incr(r) PROVE ExpiryUnderWay'
  BY <1>2 DEF Incr, Counted
<1>3. ASSUME NEW r \in Request, Expire(r) PROVE ExpiryUnderWay'
  BY <1>3 DEF Expire
<1>4. ASSUME NEW r \in Request, Decide(r) PROVE ExpiryUnderWay'
  BY <1>4 DEF Decide
<1>5. ASSUME NEW r \in Request, IncrTwice(r) \/ IncrFails(r) \/ ExpireFails(r) \/ Die(r)
      PROVE  ExpiryUnderWay'
  BY <1>5 DEF IncrTwice, IncrFails, ExpireFails, Die
<1>6. ASSUME KeyGone PROVE ExpiryUnderWay'
  BY <1>6 DEF KeyGone
<1>7. CASE UNCHANGED vars
  BY <1>7 DEF vars
<1> QED
  BY <1>1, <1>2, <1>3, <1>4, <1>5, <1>6, <1>7 DEF Next, WindowEnds, Evict

(* No key stays without an expiry time unless a failure left it so: the    *)
(* safety half of KeyExpiresUnlessFailed.                                  *)
THEOREM ExpiryIsUnderWay == Spec => []ExpiryUnderWay
<1>1. Init => ExpiryUnderWay
  BY DEF Init, ExpiryUnderWay
<1>2. Inv => TypeOK
  BY DEF Inv
<1> QED
  BY <1>1, <1>2, InitInv, InvStep, ExpiryStep, PTL DEF Spec

(* In one life of the key the count lets at most Limit requests through.   *)
THEOREM LimitHolds == Spec => []AtMostLimit
  BY InitInv, InvStep, InvLimit, PTL DEF Spec

-----------------------------------------------------------------------------
(* The other direction: as long as no call failed, nobody is refused who   *)
(* need not be.  Whoever is refused was counted in a life of the key in    *)
(* which Limit others are let through, or will be when they decide.        *)
Within(n) == {q \in Request : at[q] \in Counting /\ born[q] = n /\ seen[q] <= Limit}
RefusedForLimit ==
  ~failed => \A r \in Request : at[r] = "refused" =>
               r \notin Within(born[r]) /\ Cardinality(Within(born[r])) = Limit

(* Why: without a failure the answers of INCR in one life have no gaps.    *)
Taken(n, k) == \E q \in Request : at[q] \in Counting /\ born[q] = n /\ seen[q] = k
FullInv ==
  ~failed => /\ \A k \in 1..count : Taken(life, k)
             /\ \A r \in Request : at[r] \in Counting =>
                  /\ \A k \in 1..seen[r] : Taken(born[r], k)
                  /\ at[r] = "refused" => seen[r] > Limit

LEMMA FullStep == Inv /\ FullInv /\ [Next]_vars => FullInv'
<1> SUFFICES ASSUME TypeOK, FullInv, [Next]_vars PROVE FullInv'
  BY DEF Inv
<1> USE DEF TypeOK
(* Steps that count nothing.                                               *)
<1>1. ASSUME UNCHANGED <<seen, born, failed>>, count' = 0 \/ UNCHANGED <<count, life>>,
             \A q \in Request : at[q] \in Counting <=> at'[q] \in Counting,
             \A q \in Request : at'[q] = "refused" => at[q] = "refused" \/ seen[q] > Limit
      PROVE  FullInv'
  <2>1. \A n, k : Taken(n, k) => Taken(n, k)' BY <1>1 DEF Taken
  <2>2. CASE count' = 0 BY <1>1, <2>1, <2>2 DEF FullInv
  <2>3. CASE UNCHANGED <<count, life>> BY <1>1, <2>1, <2>3 DEF FullInv
  <2> QED BY <1>1, <2>2, <2>3
<1>2. ASSUME NEW r \in Request, Arrive(r) PROVE FullInv'
  <2>1. \A q \in Request : at'[q] = IF q = r THEN "incr" ELSE at[q] BY <1>2 DEF Arrive
  <2> QED BY <1>1, <1>2, <2>1 DEF Arrive, Counting
<1>3. ASSUME NEW r \in Request, Incr(r) PROVE FullInv'
  <2>0. PICK n \in Nat, l \in Nat : count = n /\ life = l OBVIOUS
  <2>1. /\ count' = n + 1 /\ seen'[r] = n + 1 /\ born'[r] = l /\ life' = l
        /\ at'[r] \in {"expire", "decide"} /\ at[r] = "incr" /\ failed' = failed
        /\ \A q \in Request : q # r => /\ at'[q] = at[q] /\ seen'[q] = seen[q]
                                       /\ born'[q] = born[q]
    BY <1>3, <2>0 DEF Incr, Counted
  <2>2. \A m, k : Taken(m, k) => Taken(m, k)' BY <2>1 DEF Taken, Counting
  <2>3. Taken(l, n + 1)' BY <2>1 DEF Taken, Counting
  <2>4. ~failed => \A k \in 1..(n + 1) : Taken(l, k)'
    <3>1. ASSUME ~failed, NEW k \in 1..n PROVE Taken(l, k)' BY <2>0, <2>2, <3>1 DEF FullInv
    <3>2. \A k \in 1..(n + 1) : k \in 1..n \/ k = n + 1 OBVIOUS
    <3> QED BY <2>3, <3>1, <3>2
  <2>5. ASSUME NEW q \in Request, at'[q] \in Counting, ~failed, NEW m \in Nat, born'[q] = m
        PROVE  /\ \A k \in 1..seen'[q] : Taken(m, k)'
               /\ at'[q] = "refused" => seen'[q] > Limit
    <3>1. CASE q = r BY <2>1, <2>4, <2>5, <3>1
    <3>2. CASE q # r BY <2>1, <2>2, <2>5, <3>2 DEF FullInv
    <3> QED BY <3>1, <3>2
  <2>6. ~failed' => (\A k \in 1..count : Taken(life, k))' BY <2>1, <2>4
  <2>7. \A q \in Request : born'[q] \in Nat BY <2>0, <2>1
  <2> QED BY <2>1, <2>5, <2>6, <2>7 DEF FullInv
<1>4. ASSUME NEW r \in Request, Expire(r) PROVE FullInv'
  <2>1. at[r] = "expire" /\ \A q \in Request : at'[q] = IF q = r THEN "decide" ELSE at[q]
    BY <1>4 DEF Expire
  <2> QED BY <1>1, <1>4, <2>1 DEF Expire, Counting
<1>5. ASSUME NEW r \in Request, Decide(r) PROVE FullInv'
  <2>1. /\ at[r] = "decide"
        /\ \A q \in Request : q # r => at'[q] = at[q]
        /\ at'[r] = IF seen[r] <= Limit THEN "passed" ELSE "refused"
    BY <1>5 DEF Decide
  <2>2. at'[r] = "refused" => seen[r] > Limit BY <2>1, LimiterAssumption
  <2> QED BY <1>1, <1>5, <2>1, <2>2 DEF Decide, Counting
<1>6. ASSUME NEW r \in Request, IncrTwice(r) \/ IncrFails(r) \/ ExpireFails(r) \/ Die(r)
      PROVE  FullInv'
  BY <1>6 DEF FullInv, IncrTwice, IncrFails, ExpireFails, Die
<1>7. CASE KeyGone BY <1>1, <1>7 DEF KeyGone
<1>8. CASE UNCHANGED vars BY <1>1, <1>8 DEF vars
<1> QED BY <1>2, <1>3, <1>4, <1>5, <1>6, <1>7, <1>8 DEF Next, WindowEnds, Evict

LEMMA FullIsForLimit == Inv /\ FullInv => RefusedForLimit
<1> SUFFICES ASSUME Inv, FullInv, ~failed, NEW r \in Request, at[r] = "refused"
             PROVE  r \notin Within(born[r]) /\ Cardinality(Within(born[r])) = Limit
  BY DEF RefusedForLimit
<1> DEFINE W == Within(born[r])
           f == [q \in W |-> seen[q]]
<1>1. /\ seen[r] \in Nat /\ seen[r] > Limit /\ \A k \in 1..seen[r] : Taken(born[r], k)
  BY DEF Inv, TypeOK, FullInv, Counting
<1>2. IsFiniteSet(1..Limit) /\ Cardinality(1..Limit) = Limit
  BY FS_Interval, LimiterAssumption
<1>3. f \in [W -> 1..Limit]
  BY LimiterAssumption DEF Inv, TypeOK, CountInv, Within
<1>4. \A p, q \in W : f[p] = f[q] => p = q BY DEF Inv, CountInv, Within
<1>5. f \in Injection(W, 1..Limit) BY <1>3, <1>4 DEF Injection, IsInjective
<1>6. ASSUME NEW k \in 1..Limit PROVE \E q \in W : f[q] = k
  <2>1. k \in 1..seen[r] BY <1>1, LimiterAssumption
  <2> QED BY <1>1, <2>1, LimiterAssumption DEF Taken, Within
<1>7. f \in Surjection(W, 1..Limit) BY <1>3, <1>6 DEF Surjection
<1>8. Cardinality(W) = Limit BY <1>2, <1>5, <1>7, FS_Injection
<1>9. r \notin W BY <1>1, LimiterAssumption DEF Within
<1> QED BY <1>8, <1>9

(* Without failures a refusal means that the limit was reached.            *)
THEOREM RefusalsAreEarned == Spec => []RefusedForLimit
<1>1. Init => FullInv BY DEF Init, FullInv, Counting
<1> QED BY <1>1, InitInv, InvStep, FullStep, FullIsForLimit, PTL DEF Spec
=============================================================================
