---------------------------- MODULE ServiceProof ----------------------------
(***************************************************************************)
(* Service: what is counted, answered and closed, for any number of        *)
(* requests and any exceptions, and that the Redis client is let go.       *)
(***************************************************************************)
EXTENDS Service, TLAPS

Asked == [at : At, kind : Kind, session : {"none", "open", "closed", "lost"},
          raised : Raisable \cup {"none"}, replaced : BOOLEAN, status : Nat, saw : SUBSET Backend,
          steady : BOOLEAN, counted : Seq(Nat), identified : BOOLEAN, secured : BOOLEAN]

(* Ready is told for what was seen.                                        *)
Earned(q) == q.kind = "ready" /\ q.status = 200 => q.saw = Backend

(* An exception leaves get_db.                                             *)
Excepted(q) == q.raised # "none" \/ q.replaced

(* What holds of a request, by the place where it is.                      *)
Stage(q) ==
  /\ q \in Asked /\ Earned(q)
  /\ Excepted(q) => q.kind = "work"
  /\ q.at \in {"new", "handling", "probing", "probed", "rolling", "closing", "left",
               "responding", "failing"}
       => q.counted = << >> /\ ~q.secured /\ ~q.identified
  /\ q.at \in {"new", "handling", "probing", "probed"} => ~Excepted(q) /\ q.status = 0
  /\ q.at = "new" => q.saw = {}
  /\ q.at \in {"probing", "probed"} => q.kind \in {"ready", "health"}
  /\ q.at \in {"rolling", "closing"} => q.kind = "work"
  /\ q.at \in {"new", "over"} \/ (q.at \in {"left", "failing", "erring"} /\ Excepted(q))
       => q.session # "open"
  /\ q.at \in {"responding", "securing"} =>
       /\ ~q.replaced
       /\ q.raised # "none" => q.raised \in DOMAIN Code /\ q.status = Code[q.raised]
  /\ q.at = "securing" => q.counted = <<q.status>> /\ q.identified /\ ~q.secured
  /\ q.at \in {"failing", "erring"} => q.raised = "Exception" \/ q.replaced
  /\ q.at = "erring" => q.counted = <<500>> /\ ~q.secured /\ ~q.identified
  /\ q.at \in {"answered", "over"} =>
       /\ q.counted = <<q.status>>
       /\ IF q.raised = "Exception" \/ q.replaced
          THEN q.status = 500 /\ ~q.secured /\ ~q.identified
          ELSE /\ q.secured /\ q.identified
               /\ q.raised # "none" => q.status = Code[q.raised]
  /\ q.steady => q.saw \subseteq up

Phase == {"init_db", "get_redis", "serving", "draining", "close_redis", "ended", "failed", "hung"}

(* The process: what it has opened and closed.                             *)
ProcessInv ==
  /\ phase \in Phase /\ client \in BOOLEAN /\ broken \in BOOLEAN /\ up \subseteq Backend
  /\ phase # "ended" => ~broken
  /\ ClientKept

(* Nothing is closed under a request.                                      *)
Drained == phase \in {"close_redis", "ended"} => \A r \in Request : req[r].at \in {"new", "over"}

RequestInv == /\ DOMAIN req = Request
              /\ req = [r \in Request |-> req[r]]
              /\ \A r \in Request : Stage(req[r])

IInv == ProcessInv /\ RequestInv /\ Drained

-----------------------------------------------------------------------------
(* The statuses of exceptions are numbers, and none of them is a success.  *)
LEMMA CodeIsError == \A x \in DOMAIN Code : Code[x] \in Nat \ {200} /\ x # "none" /\ x # "Exception"
BY DEF Code

LEMMA NewIsAsked ==
  New \in Asked /\ New.at = "new" /\ New.kind = "work" /\ New.session = "none"
  /\ New.raised = "none" /\ ~New.replaced /\ New.status = 0 /\ New.saw = {}
  /\ New.counted = << >> /\ ~New.secured /\ ~New.identified
BY DEF New, Asked, At, Kind, Backend

LEMMA NewStage ==
  ASSUME NEW at \in {"new", "handling", "responding"}, NEW kind \in Kind,
         NEW session \in {"none", "open"}, NEW status \in {0, 400},
         session = "open" => at = "handling",
         status = IF at = "responding" THEN 400 ELSE 0,
         NEW q \in Asked, q.at = at, q.kind = kind, q.session = session, q.status = status,
         q.raised = "none", ~q.replaced, q.saw = {}, q.counted = << >>, ~q.secured, ~q.identified
  PROVE  Stage(q)
BY DEF Stage, Asked, Earned, Excepted

(* A step of one request keeps the invariant if the request comes to where *)
(* it may be, and none that is over or new moves after the service.        *)
LEMMA StepKeeps ==
  ASSUME IInv, NEW r \in Request, NEW from, NEW new, Step(r, from, new), Stage(new),
         from \notin {"new", "over"} \/ phase = "serving"
  PROVE  IInv'
<1>1. ProcessInv' BY DEF IInv, ProcessInv, ClientKept, Step
<1>2. DOMAIN req' = Request /\ req' = [s \in Request |-> req'[s]]
  BY DEF IInv, RequestInv, Step
<1>3. ASSUME NEW s \in Request PROVE Stage(req'[s])
  <2>1. req'[s] = new \/ req'[s] = req[s] BY DEF IInv, RequestInv, Step
  <2> QED BY <2>1 DEF IInv, RequestInv
<1>4. Stage(new)' <=> Stage(new) BY DEF Step, Stage
<1>5. ASSUME NEW s \in Request PROVE Stage(req[s])'
  BY <1>3 DEF Step, Stage
<1>6. phase \notin {"close_redis", "ended"} /\ phase' = phase BY DEF IInv, Drained, Step
<1> QED BY <1>1, <1>2, <1>5, <1>6 DEF IInv, RequestInv, Drained

LEMMA InitHolds == Init => IInv
<1> SUFFICES ASSUME Init PROVE IInv OBVIOUS
<1>1. ProcessInv /\ Drained BY DEF Init, ProcessInv, ClientKept, Phase, Backend, Drained
<1>2. ASSUME NEW r \in Request PROVE Stage(req[r])
  <2>1. req[r] = New BY DEF Init
  <2>2. "work" \in Kind BY DEF Kind
  <2> QED BY <2>1, <2>2, NewIsAsked, NewStage
<1>3. DOMAIN req = Request /\ req = [r \in Request |-> req[r]] BY DEF Init
<1> QED BY <1>1, <1>2, <1>3 DEF IInv, RequestInv

(* What touches the process only.                                          *)
LEMMA ProcessKeeps ==
  ASSUME IInv, Lifespan \/ StartOrStopHangs \/ Stop
  PROVE  IInv'
<1>1. req' = req /\ up' = up
  BY DEF Lifespan, StartOrStopHangs, Stop, InitDb, GetRedis, CloseDb, CloseRedis
<1>2. RequestInv' BY <1>1 DEF IInv, RequestInv, Stage
<1>3. ProcessInv'
  <2> USE DEF IInv, ProcessInv, ClientKept, Phase
  <2>1. CASE InitDb BY <2>1 DEF InitDb
  <2>2. CASE GetRedis BY <2>2 DEF GetRedis
  <2>3. CASE CloseDb
    <3>1. client /\ client' = client /\ up' = up BY <2>3 DEF CloseDb
    <3>2. \/ phase' = "close_redis" /\ broken' = broken /\ ~broken
          \/ phase' = "ended" /\ broken' /\ broken' \in BOOLEAN
      BY <2>3 DEF CloseDb
    <3> QED BY <3>1, <3>2
  <2>4. CASE CloseRedis
    <3>1. client /\ ~broken /\ up' = up /\ phase' = "ended" BY <2>4 DEF CloseRedis
    <3>2. CASE client' = FALSE /\ broken' = broken BY <3>1, <3>2
    <3>3. CASE broken' = TRUE /\ client' = client BY <3>1, <3>3
    <3> QED BY <2>4, <3>2, <3>3 DEF CloseRedis
  <2>5. CASE Stop BY <2>5 DEF Stop
  <2>6. CASE StartOrStopHangs
    <3>1. /\ phase # "ended" /\ phase' = "hung" /\ broken' = broken /\ up' = up
          /\ client' \in BOOLEAN
      BY <2>6 DEF StartOrStopHangs
    <3> QED BY <3>1
  <2> QED BY <2>1, <2>2, <2>3, <2>4, <2>5, <2>6 DEF Lifespan
<1>4. Drained'
  BY <1>1 DEF IInv, Drained, Lifespan, StartOrStopHangs, Stop, InitDb, GetRedis, CloseDb, CloseRedis
<1> QED BY <1>2, <1>3, <1>4 DEF IInv

(* Nothing that came or went is held against a request that was there.     *)
LEMMA ToggleKeeps ==
  ASSUME IInv, NEW b \in Backend, Toggle(b)
  PROVE  IInv'
<1>1. ProcessInv' BY DEF IInv, ProcessInv, ClientKept, Toggle
<1>2. DOMAIN req' = Request /\ req' = [r \in Request |-> req'[r]] BY DEF Toggle
<1>3. ASSUME NEW r \in Request PROVE Stage(req[r])' /\ req'[r].at = req[r].at
  <2> DEFINE q == req[r]
             v == IF q.at = "new" THEN q ELSE [q EXCEPT !.steady = FALSE]
  <2>1. req'[r] = v BY DEF Toggle
  <2>2. Stage(q) BY DEF IInv, RequestInv
  <2>3. /\ v \in Asked /\ v.at = q.at /\ v.kind = q.kind /\ v.session = q.session
        /\ v.raised = q.raised /\ v.replaced = q.replaced /\ v.status = q.status
        /\ v.saw = q.saw /\ v.counted = q.counted /\ v.identified = q.identified
        /\ v.secured = q.secured /\ (v.steady => q.at = "new")
    <3>0. q \in Asked BY <2>2 DEF Stage
    <3>1. CASE q.at = "new" BY <3>0, <3>1
    <3>2. CASE q.at # "new" BY <3>0, <3>2 DEF Asked
    <3> QED BY <3>1, <3>2
  <2>4. q.at = "new" => q.saw = {} BY <2>2 DEF Stage
  <2> HIDE DEF v
  <2>5. Stage(req[r])' BY <2>1, <2>2, <2>3, <2>4 DEF Stage, Earned, Excepted
  <2> QED BY <2>1, <2>3, <2>5
<1>4. Drained' BY <1>3 DEF IInv, Drained, Toggle
<1> QED BY <1>1, <1>2, <1>3, <1>4 DEF IInv, RequestInv

LEMMA ArriveKeeps ==
  ASSUME IInv, NEW r \in Request, NEW kind \in Kind, Arrive(r, kind)
  PROVE  IInv'
<1>0. phase = "serving" BY DEF Arrive
<1>1. CASE kind = "refused"
  <2> DEFINE new == [New EXCEPT !.at = "responding", !.kind = kind, !.status = 400]
  <2>1. Step(r, "new", new) BY <1>1 DEF Arrive
  <2>2. PICK n : n = New OBVIOUS
  <2>3. n \in Asked BY <2>2, NewIsAsked
  <2>0. PICK bad \in Nat : bad = 400 OBVIOUS
  <2>4. new = [n EXCEPT !.at = "responding", !.kind = kind, !.status = bad] BY <2>0, <2>2
  <2> HIDE DEF new
  <2>5. /\ new \in Asked /\ new.at = "responding" /\ new.kind = kind /\ new.status = bad
        /\ new.session = n.session /\ new.raised = n.raised /\ new.replaced = n.replaced
        /\ new.saw = n.saw /\ new.counted = n.counted /\ new.secured = n.secured
        /\ new.identified = n.identified
    BY <2>3, <2>4 DEF Asked, At
  <2>6. Stage(new) BY <2>0, <2>2, <2>5, NewIsAsked, NewStage
  <2> QED BY <1>0, <2>1, <2>6, StepKeeps
<1>2. CASE kind # "refused"
  <2> DEFINE session == IF kind = "work" THEN "open" ELSE "none"
             new == [New EXCEPT !.at = "handling", !.kind = kind, !.session = session]
  <2>1. Step(r, "new", new) BY <1>2 DEF Arrive
  <2>2. session \in {"none", "open"} OBVIOUS
  <2> HIDE DEF session
  <2>3. PICK n : n = New OBVIOUS
  <2>4. n \in Asked BY <2>3, NewIsAsked
  <2>5. new = [n EXCEPT !.at = "handling", !.kind = kind, !.session = session] BY <2>3
  <2> HIDE DEF new
  <2>6. /\ new \in Asked /\ new.at = "handling" /\ new.kind = kind /\ new.status = n.status
        /\ new.session = session /\ new.raised = n.raised /\ new.replaced = n.replaced
        /\ new.saw = n.saw /\ new.counted = n.counted /\ new.secured = n.secured
        /\ new.identified = n.identified
    BY <2>2, <2>4, <2>5 DEF Asked, At
  <2>7. Stage(new) BY <2>2, <2>3, <2>6, NewIsAsked, NewStage
  <2> QED BY <1>0, <2>1, <2>7, StepKeeps
<1> QED BY <1>1, <1>2

-----------------------------------------------------------------------------
(* The steps of a request.                                                 *)

LEMMA ReturnKeeps ==
  ASSUME IInv, NEW r \in Request, Return(r)
  PROVE  IInv'
<1> DEFINE q == req[r]
<1>p. PICK place \in {"closing", "left"} :
        Step(r, "handling", [q EXCEPT !.at = place, !.status = 200]) /\ q.kind = "work"
  BY DEF Return
<1> DEFINE new == [q EXCEPT !.at = place, !.status = 200]
<1>1. Step(r, "handling", new) BY <1>p DEF Return
<1>2. Stage(q) /\ q.at = "handling" BY <1>1 DEF IInv, RequestInv, Step
<1>3. /\ new \in Asked /\ new.at = place /\ new.status = 200
      /\ new.kind = q.kind /\ new.session = q.session /\ new.raised = q.raised
      /\ new.replaced = q.replaced /\ new.saw = q.saw /\ new.steady = q.steady
      /\ new.counted = q.counted /\ new.identified = q.identified /\ new.secured = q.secured
  BY <1>p, <1>2 DEF Stage, Asked, At, Backend
<1> HIDE DEF new
<1>5. Stage(new) BY <1>2, <1>3, <1>p DEF Stage, Earned, Excepted
<1> QED BY <1>1, <1>5, StepKeeps

LEMMA RaiseKeeps ==
  ASSUME IInv, NEW r \in Request, NEW x \in Raisable, Raise(r, x)
  PROVE  IInv'
<1> DEFINE q == req[r]
<1>p. PICK place \in {"rolling", "closing"} :
        Step(r, "handling", [q EXCEPT !.at = place, !.raised = x]) /\ q.kind = "work"
  BY DEF Raise
<1> DEFINE new == [q EXCEPT !.at = place, !.raised = x]
<1>1. Step(r, "handling", new) BY <1>p DEF Raise
<1>2. Stage(q) /\ q.at = "handling" BY <1>1 DEF IInv, RequestInv, Step
<1>3. /\ new \in Asked /\ new.at = place /\ new.raised = x
      /\ new.kind = q.kind /\ new.session = q.session /\ new.replaced = q.replaced
      /\ new.status = q.status /\ new.saw = q.saw /\ new.steady = q.steady
      /\ new.counted = q.counted /\ new.identified = q.identified /\ new.secured = q.secured
  BY <1>p, <1>2 DEF Stage, Asked, At, Backend
<1> HIDE DEF new
<1>5. Stage(new) BY <1>2, <1>3, <1>p DEF Stage, Earned, Excepted
<1> QED BY <1>1, <1>5, StepKeeps

LEMMA CheckDbKeeps ==
  ASSUME IInv, NEW r \in Request, CheckDb(r)
  PROVE  IInv'
<1> DEFINE q == req[r]
<1> DEFINE new == [q EXCEPT !.at = "probing", !.saw = up \cap {"database"}]
<1>1. Step(r, "handling", new) BY DEF CheckDb
<1>2. Stage(q) /\ q.at = "handling" BY <1>1 DEF IInv, RequestInv, Step
<1>3. /\ new \in Asked /\ new.at = "probing" /\ new.saw = up \cap {"database"}
      /\ new.kind = q.kind /\ new.session = q.session /\ new.raised = q.raised
      /\ new.replaced = q.replaced /\ new.status = q.status /\ new.steady = q.steady
      /\ new.counted = q.counted /\ new.identified = q.identified /\ new.secured = q.secured
  BY <1>2 DEF Stage, Asked, At, Backend
<1> HIDE DEF new
<1>4. q.kind \in {"ready", "health"} BY DEF CheckDb, Probing
<1>5. Stage(new) BY <1>2, <1>3, <1>4 DEF Stage, Earned, Excepted
<1> QED BY <1>1, <1>5, StepKeeps

LEMMA CheckRedisKeeps ==
  ASSUME IInv, NEW r \in Request, CheckRedis(r)
  PROVE  IInv'
<1> DEFINE q == req[r]
<1> DEFINE new == [q EXCEPT !.at = "probed", !.saw = @ \cup (up \cap {"redis"})]
<1>1. Step(r, "probing", new) BY DEF CheckRedis
<1>2. Stage(q) /\ q.at = "probing" BY <1>1 DEF IInv, RequestInv, Step
<1>3. /\ new \in Asked /\ new.at = "probed" /\ new.saw = q.saw \cup (up \cap {"redis"})
      /\ new.kind = q.kind /\ new.session = q.session /\ new.raised = q.raised
      /\ new.replaced = q.replaced /\ new.status = q.status /\ new.steady = q.steady
      /\ new.counted = q.counted /\ new.identified = q.identified /\ new.secured = q.secured
  BY <1>2 DEF Stage, Asked, At, Backend
<1> HIDE DEF new
<1>5. Stage(new) BY <1>2, <1>3 DEF Stage, Earned, Excepted
<1> QED BY <1>1, <1>5, StepKeeps

LEMMA ReportKeeps ==
  ASSUME IInv, NEW r \in Request, Report(r)
  PROVE  IInv'
<1> DEFINE q == req[r]
           status == IF q.kind = "ready" /\ q.saw # Backend THEN 503 ELSE 200
           new == [q EXCEPT !.at = "left", !.status = status]
<1>1. Step(r, "probed", new) BY DEF Report
<1>0. status \in Nat /\ (q.kind = "ready" /\ status = 200 => q.saw = Backend) OBVIOUS
<1> HIDE DEF status
<1>2. Stage(q) /\ q.at = "probed" BY <1>1 DEF IInv, RequestInv, Step
<1>3. /\ new \in Asked /\ new.at = "left" /\ new.status = status
      /\ new.kind = q.kind /\ new.session = q.session /\ new.raised = q.raised
      /\ new.replaced = q.replaced /\ new.saw = q.saw /\ new.steady = q.steady
      /\ new.counted = q.counted /\ new.identified = q.identified /\ new.secured = q.secured
  BY <1>0, <1>2 DEF Stage, Asked, At
<1> HIDE DEF new
<1>4. Stage(new) BY <1>0, <1>2, <1>3 DEF Stage, Earned, Excepted
<1> QED BY <1>1, <1>4, StepKeeps

LEMMA RollbackKeeps ==
  ASSUME IInv, NEW r \in Request, Rollback(r)
  PROVE  IInv'
<1> DEFINE q == req[r]
<1>p. PICK fails \in BOOLEAN :
        Step(r, "rolling", [q EXCEPT !.at = "closing", !.replaced = fails])
  BY DEF Rollback
<1> DEFINE new == [q EXCEPT !.at = "closing", !.replaced = fails]
<1>1. Step(r, "rolling", new) BY <1>p
<1>2. Stage(q) /\ q.at = "rolling" BY <1>1 DEF IInv, RequestInv, Step
<1>3. /\ new \in Asked /\ new.at = "closing" /\ new.replaced = fails
      /\ new.kind = q.kind /\ new.session = q.session /\ new.raised = q.raised
      /\ new.status = q.status /\ new.saw = q.saw /\ new.steady = q.steady
      /\ new.counted = q.counted /\ new.identified = q.identified /\ new.secured = q.secured
  BY <1>2 DEF Stage, Asked, At
<1> HIDE DEF new
<1>4. Stage(new) BY <1>2, <1>3 DEF Stage, Earned, Excepted
<1> QED BY <1>1, <1>4, StepKeeps

LEMMA CloseSessionKeeps ==
  ASSUME IInv, NEW r \in Request, CloseSession(r)
  PROVE  IInv'
<1> DEFINE q == req[r]
<1>p. PICK fails \in BOOLEAN, session \in {"closed", "lost"} :
        \/ Step(r, "closing", [q EXCEPT !.at = "left", !.session = session,
                                 !.replaced = @ \/ fails])
        \/ Step(r, "answered", [q EXCEPT !.at = "over", !.session = session])
  <2>1. PICK fails \in BOOLEAN :
          LET session == IF fails THEN "lost" ELSE "closed"
          IN  \/ Step(r, "closing", [q EXCEPT !.at = "left", !.session = session,
                                       !.replaced = @ \/ fails])
              \/ Step(r, "answered", [q EXCEPT !.at = "over", !.session = session])
    BY DEF CloseSession
  <2>2. PICK session : session = IF fails THEN "lost" ELSE "closed" OBVIOUS
  <2> QED BY <2>1, <2>2
<1>0. Stage(q) BY DEF IInv, RequestInv
<1>1. CASE q.at = "closing"
  <2>0. PICK replaced \in BOOLEAN : replaced = (q.replaced \/ fails) OBVIOUS
  <2> DEFINE new == [q EXCEPT !.at = "left", !.session = session, !.replaced = replaced]
  <2>1. Step(r, "closing", new) BY <1>1, <1>p, <2>0 DEF Step
  <2>2. /\ new \in Asked /\ new.at = "left" /\ new.session = session /\ new.replaced = replaced
        /\ new.kind = q.kind /\ new.raised = q.raised /\ new.status = q.status
        /\ new.saw = q.saw /\ new.steady = q.steady /\ new.counted = q.counted
        /\ new.identified = q.identified /\ new.secured = q.secured
    BY <1>0 DEF Stage, Asked, At
  <2> HIDE DEF new
  <2>3. Stage(new) BY <1>0, <1>1, <2>2 DEF Stage, Earned, Excepted
  <2> QED BY <2>1, <2>3, StepKeeps
<1>2. CASE q.at = "answered"
  <2> DEFINE new == [q EXCEPT !.at = "over", !.session = session]
  <2>1. Step(r, "answered", new) BY <1>2, <1>p DEF Step
  <2>2. /\ new \in Asked /\ new.at = "over" /\ new.session = session
        /\ new.kind = q.kind /\ new.raised = q.raised /\ new.replaced = q.replaced
        /\ new.status = q.status /\ new.saw = q.saw /\ new.steady = q.steady
        /\ new.counted = q.counted /\ new.identified = q.identified /\ new.secured = q.secured
    BY <1>0 DEF Stage, Asked, At
  <2> HIDE DEF new
  <2>3. Stage(new) BY <1>0, <1>2, <2>2 DEF Stage, Earned, Excepted
  <2> QED BY <2>1, <2>3, StepKeeps
<1>3. q.at \in {"closing", "answered"} BY <1>p DEF Step
<1> QED BY <1>1, <1>2, <1>3

LEMMA HandleExceptionKeeps ==
  ASSUME IInv, NEW r \in Request, HandleException(r)
  PROVE  IInv'
<1> DEFINE q == req[r]
<1>1. Stage(q) /\ q.at = "left" BY DEF HandleException, IInv, RequestInv, Step
<1>2. CASE /\ q.raised \in Handlers /\ ~q.replaced
           /\ Step(r, "left", [q EXCEPT !.at = "responding", !.status = Code[q.raised]])
  <2>0. PICK c \in Nat : /\ c = Code[q.raised] /\ q.raised # "none" /\ q.raised \in DOMAIN Code
    BY <1>2, CodeIsError DEF Handlers
  <2> DEFINE new == [q EXCEPT !.at = "responding", !.status = c]
  <2>1. Step(r, "left", new) BY <1>2, <2>0
  <2>2. /\ new \in Asked /\ new.at = "responding" /\ new.status = c
        /\ new.kind = q.kind /\ new.session = q.session /\ new.raised = q.raised
        /\ new.replaced = q.replaced /\ new.saw = q.saw /\ new.steady = q.steady
        /\ new.counted = q.counted /\ new.identified = q.identified /\ new.secured = q.secured
    BY <1>1 DEF Stage, Asked, At
  <2> HIDE DEF new
  <2>3. Stage(new) BY <1>1, <1>2, <2>0, <2>2 DEF Stage, Earned, Excepted
  <2> QED BY <2>1, <2>3, StepKeeps
<1>3. CASE /\ q.raised = "none" /\ ~q.replaced
           /\ Step(r, "left", [q EXCEPT !.at = "responding"])
  <2> DEFINE new == [q EXCEPT !.at = "responding"]
  <2>1. Step(r, "left", new) BY <1>3
  <2>2. /\ new \in Asked /\ new.at = "responding"
        /\ new.kind = q.kind /\ new.session = q.session /\ new.raised = q.raised
        /\ new.replaced = q.replaced /\ new.status = q.status /\ new.saw = q.saw
        /\ new.steady = q.steady /\ new.counted = q.counted /\ new.identified = q.identified
        /\ new.secured = q.secured
    BY <1>1 DEF Stage, Asked, At
  <2> HIDE DEF new
  <2>3. Stage(new) BY <1>1, <1>3, <2>2 DEF Stage, Earned, Excepted
  <2> QED BY <2>1, <2>3, StepKeeps
<1>4. CASE /\ q.replaced \/ q.raised \notin Handlers \cup {"none"}
           /\ Step(r, "left", [q EXCEPT !.at = "failing"])
  <2> DEFINE new == [q EXCEPT !.at = "failing"]
  <2>0. q.replaced \/ q.raised = "Exception"
    <3>1. q.raised \in Raisable \cup {"none"} BY <1>1 DEF Stage, Asked
    <3> QED BY <1>4, <3>1, ServiceAssumption DEF Handlers
  <2>1. Step(r, "left", new) BY <1>4
  <2>2. /\ new \in Asked /\ new.at = "failing"
        /\ new.kind = q.kind /\ new.session = q.session /\ new.raised = q.raised
        /\ new.replaced = q.replaced /\ new.status = q.status /\ new.saw = q.saw
        /\ new.steady = q.steady /\ new.counted = q.counted /\ new.identified = q.identified
        /\ new.secured = q.secured
    BY <1>1 DEF Stage, Asked, At
  <2> HIDE DEF new
  <2>3. Stage(new) BY <1>1, <2>0, <2>2 DEF Stage, Earned, Excepted
  <2> QED BY <2>1, <2>3, StepKeeps
<1> QED BY <1>2, <1>3, <1>4 DEF HandleException

LEMMA CountKeeps ==
  ASSUME IInv, NEW r \in Request, Count(r)
  PROVE  IInv'
<1> DEFINE q == req[r]
<1>1. Stage(q) BY DEF IInv, RequestInv
<1>2. CASE q.at = "responding"
  <2>4. PICK one \in Seq(Nat) : one = Append(q.counted, q.status) /\ one = <<q.status>>
    <3>1. q.counted = << >> /\ q.status \in Nat BY <1>1, <1>2 DEF Stage, Asked
    <3>2. Append(<< >>, q.status) = <<q.status>> /\ <<q.status>> \in Seq(Nat) BY <3>1
    <3> QED BY <3>1, <3>2
  <2> DEFINE new == [q EXCEPT !.at = "securing", !.identified = TRUE, !.counted = one]
  <2>1. Step(r, "responding", new) BY <1>2, <2>4 DEF Count, Step
  <2>6. /\ new \in Asked /\ new.at = "securing" /\ new.identified /\ new.counted = one
        /\ new.kind = q.kind /\ new.session = q.session /\ new.raised = q.raised
        /\ new.replaced = q.replaced /\ new.status = q.status /\ new.saw = q.saw
        /\ new.steady = q.steady /\ new.secured = q.secured
    BY <1>1, <2>4 DEF Stage, Asked, At
  <2> HIDE DEF new
  <2>7. Stage(new) BY <1>1, <1>2, <2>4, <2>6 DEF Stage, Earned, Excepted
  <2> QED BY <2>1, <2>7, StepKeeps
<1>3. CASE q.at = "failing"
  <2>4. PICK one \in Seq(Nat) : one = Append(q.counted, 500) /\ one = <<500>>
    <3>1. q.counted = << >> BY <1>1, <1>3 DEF Stage
    <3>2. Append(<< >>, 500) = <<500>> /\ <<500>> \in Seq(Nat) OBVIOUS
    <3> QED BY <3>1, <3>2
  <2> DEFINE new == [q EXCEPT !.at = "erring", !.counted = one]
  <2>1. Step(r, "failing", new) BY <1>3, <2>4 DEF Count, Step
  <2>6. /\ new \in Asked /\ new.at = "erring" /\ new.counted = one
        /\ new.kind = q.kind /\ new.session = q.session /\ new.raised = q.raised
        /\ new.replaced = q.replaced /\ new.status = q.status /\ new.saw = q.saw
        /\ new.steady = q.steady /\ new.identified = q.identified /\ new.secured = q.secured
    BY <1>1, <2>4 DEF Stage, Asked, At
  <2> HIDE DEF new
  <2>7. Stage(new) BY <1>1, <1>3, <2>4, <2>6 DEF Stage, Earned, Excepted
  <2> QED BY <2>1, <2>7, StepKeeps
<1>4. q.at \in {"responding", "failing"} BY DEF Count, Step
<1> QED BY <1>2, <1>3, <1>4

LEMMA AnswerKeeps ==
  ASSUME IInv, NEW r \in Request, Answer(r)
  PROVE  IInv'
<1> DEFINE q == req[r]
<1>1. Stage(q) BY DEF IInv, RequestInv
<1>2. CASE q.at = "securing"
  <2>0. PICK place \in {"answered", "over"} :
          place = IF q.session = "open" THEN "answered" ELSE "over"
    OBVIOUS
  <2> DEFINE new == [q EXCEPT !.secured = TRUE, !.at = place]
  <2>1. Step(r, "securing", new) BY <1>2, <2>0 DEF Answer, Step
  <2>2. /\ new \in Asked /\ new.at = place /\ new.secured
        /\ new.kind = q.kind /\ new.session = q.session /\ new.raised = q.raised
        /\ new.replaced = q.replaced /\ new.status = q.status /\ new.saw = q.saw
        /\ new.steady = q.steady /\ new.counted = q.counted /\ new.identified = q.identified
    BY <1>1 DEF Stage, Asked, At
  <2> HIDE DEF new
  <2>3. Stage(new) BY <1>1, <1>2, <2>0, <2>2, CodeIsError DEF Stage, Earned, Excepted
  <2> QED BY <2>1, <2>3, StepKeeps
<1>3. CASE q.at = "erring"
  <2>0. PICK c \in Nat : c = 500 OBVIOUS
  <2> DEFINE new == [q EXCEPT !.at = "over", !.status = c]
  <2>1. Step(r, "erring", new) BY <1>3, <2>0 DEF Answer, Step
  <2>2. /\ new \in Asked /\ new.at = "over" /\ new.status = c
        /\ new.kind = q.kind /\ new.session = q.session /\ new.raised = q.raised
        /\ new.replaced = q.replaced /\ new.saw = q.saw /\ new.steady = q.steady
        /\ new.counted = q.counted /\ new.identified = q.identified /\ new.secured = q.secured
    BY <1>1 DEF Stage, Asked, At
  <2> HIDE DEF new
  <2>3. Stage(new)
    <3>1. Excepted(q) BY <1>1, <1>3 DEF Stage, Excepted
    <3> QED BY <1>1, <1>3, <2>0, <2>2, <3>1 DEF Stage, Earned, Excepted
  <2> QED BY <2>1, <2>3, StepKeeps
<1>4. q.at \in {"securing", "erring"} BY DEF Answer, Step
<1> QED BY <1>2, <1>3, <1>4

LEMMA HangKeeps ==
  ASSUME IInv, NEW r \in Request, Hang(r)
  PROVE  IInv'
<1> DEFINE q == req[r]
           new == [q EXCEPT !.at = "hung"]
<1>1. PICK from \in {"handling", "probing", "rolling", "closing", "answered"} : Step(r, from, new)
  BY DEF Hang
<1>2. Stage(q) BY DEF IInv, RequestInv
<1>3. /\ new \in Asked /\ new.at = "hung"
      /\ new.kind = q.kind /\ new.session = q.session /\ new.raised = q.raised
      /\ new.replaced = q.replaced /\ new.status = q.status /\ new.saw = q.saw
      /\ new.steady = q.steady /\ new.counted = q.counted /\ new.identified = q.identified
      /\ new.secured = q.secured
  BY <1>2 DEF Stage, Asked, At
<1> HIDE DEF new
<1>4. Stage(new) BY <1>2, <1>3 DEF Stage, Earned, Excepted
<1> QED BY <1>1, <1>4, StepKeeps

LEMMA NextKeeps == IInv /\ [Next]_vars => IInv'
<1> SUFFICES ASSUME IInv, [Next]_vars PROVE IInv' OBVIOUS
<1>1. CASE Lifespan \/ StartOrStopHangs \/ Stop BY <1>1, ProcessKeeps
<1>2. CASE \E b \in Backend : Toggle(b) BY <1>2, ToggleKeeps
<1>3. CASE \E r \in Request : Work(r) \/ Hang(r)
  BY <1>3, ReturnKeeps, RaiseKeeps, CheckDbKeeps, CheckRedisKeeps, ReportKeeps, RollbackKeeps,
     CloseSessionKeeps, HandleExceptionKeeps, CountKeeps, AnswerKeeps, HangKeeps DEF Work
<1>4. CASE \E r \in Request : \E kind \in Kind : Arrive(r, kind) BY <1>4, ArriveKeeps
<1>5. CASE UNCHANGED vars
  BY <1>5 DEF vars, IInv, ProcessInv, RequestInv, ClientKept, Stage, Drained
<1> QED BY <1>1, <1>2, <1>3, <1>4, <1>5 DEF Next

LEMMA Invariant == Spec => []IInv
BY InitHolds, NextKeeps, PTL DEF Spec

-----------------------------------------------------------------------------
(* The fields of a request keep their types.                               *)
THEOREM ServiceTypeCorrect == Spec => []TypeOK
<1>1. IInv => TypeOK BY DEF IInv, ProcessInv, RequestInv, Stage, Asked, TypeOK, Phase
<1> QED BY <1>1, Invariant, PTL

(* http_requests_total has one count for a request, under the status it is *)
(* answered with.                                                          *)
THEOREM RequestsAreCounted == Spec => []CountedOnce
<1>1. IInv => CountedOnce BY DEF IInv, RequestInv, Stage, CountedOnce, Answered
<1> QED BY <1>1, Invariant, PTL

(* An exception is answered by its handler and with all headers, unless it *)
(* has none or one of the rollback or close took its place.                *)
THEOREM AnswersFitExceptions == Spec => []AnswersFit
<1>1. IInv => AnswersFit BY DEF IInv, RequestInv, Stage, AnswersFit, Answered
<1> QED BY <1>1, Invariant, PTL

(* No session is left open by a request that is over, or under the engine. *)
THEOREM SessionsAreClosed == Spec => []SessionsClosed
<1>1. IInv => SessionsClosed BY DEF IInv, RequestInv, Drained, Stage, SessionsClosed
<1> QED BY <1>1, Invariant, PTL

(* A readiness that was not overtaken by a change is true.                 *)
THEOREM ReadinessIsTrue == Spec => []ReadyTrue
<1>1. ASSUME IInv PROVE ReadyTrue
  <2>1. ASSUME NEW r \in Request
        PROVE  Earned(req[r]) /\ (req[r].steady => req[r].saw \subseteq up)
    BY <1>1, <2>1 DEF IInv, RequestInv, Stage
  <2>2. up \subseteq Backend BY <1>1 DEF IInv, ProcessInv
  <2> QED BY <2>1, <2>2 DEF Earned, ReadyTrue, Answered
<1> QED BY <1>1, Invariant, PTL

(* The Redis client is there while it is needed, and let go in the end     *)
(* unless one of the two closes failed.                                    *)
THEOREM ClientIsKept == Spec => []ClientKept
<1>1. IInv => ClientKept BY DEF IInv, ProcessInv
<1> QED BY <1>1, Invariant, PTL

-----------------------------------------------------------------------------
(* A request only goes forward, and each of its steps brings it nearer to  *)
(* its end; once the process was told to stop none begins, and the process *)
(* only goes on with its shutdown.  So what StopEnds needs besides         *)
(* fairness is there: at most Place["new"] steps for every request, unless *)
(* one of them hangs.                                                      *)
Place == [new |-> 8, handling |-> 7, probing |-> 6, rolling |-> 6, probed |-> 5, closing |-> 5,
          left |-> 4, responding |-> 3, failing |-> 3, securing |-> 2, erring |-> 2,
          answered |-> 1, over |-> 0, hung |-> 0]

Distance(q) == Place[q.at]

Shutdown == [draining    |-> {"draining", "close_redis", "ended", "hung"},
             close_redis |-> {"close_redis", "ended", "hung"},
             ended       |-> {"ended"},
             hung        |-> {"hung"}]

Advance ==
  /\ \A r \in Request :
       /\ Distance(req'[r]) <= Distance(req[r])
       /\ Work(r) => Distance(req'[r]) < Distance(req[r])
  /\ phase \in DOMAIN Shutdown =>
       /\ phase' \in Shutdown[phase]
       /\ \A r \in Request : req[r].at = "new" => req'[r].at = "new"
RequestsAdvance == [][Advance]_vars

LEMMA PlaceOf ==
  /\ \A at \in At : Place[at] \in Nat
  /\ Place["new"] = 8 /\ Place["handling"] = 7 /\ Place["probing"] = 6 /\ Place["rolling"] = 6
  /\ Place["probed"] = 5 /\ Place["closing"] = 5 /\ Place["left"] = 4
  /\ Place["responding"] = 3 /\ Place["failing"] = 3 /\ Place["securing"] = 2
  /\ Place["erring"] = 2 /\ Place["answered"] = 1 /\ Place["over"] = 0 /\ Place["hung"] = 0
BY DEF Place, At

(* From where a request may go where.                                      *)
Ways == [new |-> {"handling", "responding"}, handling |-> {"probing", "rolling", "closing", "left"},
         probing |-> {"probed"}, probed |-> {"left"}, rolling |-> {"closing"},
         closing |-> {"left"}, left |-> {"responding", "failing"}, responding |-> {"securing"},
         failing |-> {"erring"}, securing |-> {"answered", "over"}, erring |-> {"over"},
         answered |-> {"over"}, over |-> {}, hung |-> {}]

LEMMA WaysGoForward ==
  \A from \in At : \A to \in Ways[from] : to \in At /\ Place[to] < Place[from]
<1>1. ASSUME NEW from \in At, NEW to \in Ways[from] PROVE to \in At /\ Place[to] < Place[from]
  <2>1. from \in {"new", "handling", "probing", "probed", "rolling", "closing", "left",
                  "responding", "failing", "securing", "erring", "answered"}
    BY DEF At, Ways
  <2>2. CASE from \in {"new", "handling", "probing"}
    BY <2>2, PlaceOf DEF Ways, At
  <2>3. CASE from \in {"probed", "rolling", "closing", "left"}
    BY <2>3, PlaceOf DEF Ways, At
  <2>4. CASE from \in {"responding", "failing", "securing", "erring", "answered"}
    BY <2>4, PlaceOf DEF Ways, At
  <2> QED BY <2>1, <2>2, <2>3, <2>4
<1> QED BY <1>1

(* The request takes a step to one of the next places.                     *)
Goes(r, from) == \E new : Step(r, from, new) /\ new.at \in Ways[from]

LEMMA WorkGoes ==
  ASSUME IInv, NEW r \in Request, Work(r)
  PROVE  \E from \in At \ {"new"} : Goes(r, from)
<1> DEFINE q == req[r]
<1>0. q \in Asked BY DEF IInv, RequestInv, Stage
<1>1. DOMAIN q = {"at", "kind", "session", "raised", "replaced", "status", "saw", "steady",
                  "counted", "identified", "secured"}
  BY <1>0 DEF Asked
<1>2. /\ Ways["handling"] = {"probing", "rolling", "closing", "left"}
      /\ Ways["probing"] = {"probed"} /\ Ways["probed"] = {"left"}
      /\ Ways["rolling"] = {"closing"} /\ Ways["closing"] = {"left"}
      /\ Ways["left"] = {"responding", "failing"} /\ Ways["responding"] = {"securing"}
      /\ Ways["failing"] = {"erring"} /\ Ways["securing"] = {"answered", "over"}
      /\ Ways["erring"] = {"over"} /\ Ways["answered"] = {"over"}
  BY DEF Ways
<1>3. ASSUME Return(r) PROVE Goes(r, "handling")
  <2>1. PICK place \in {"closing", "left"} :
          Step(r, "handling", [q EXCEPT !.at = place, !.status = 200])
    BY <1>3 DEF Return
  <2>2. PICK new : new = [q EXCEPT !.at = place, !.status = 200] OBVIOUS
  <2>3. new.at = place BY <1>1, <2>2
  <2> QED BY <1>2, <2>1, <2>2, <2>3 DEF Goes
<1>4. ASSUME NEW x \in Raisable, Raise(r, x) PROVE Goes(r, "handling")
  <2>1. PICK place \in {"rolling", "closing"} :
          Step(r, "handling", [q EXCEPT !.at = place, !.raised = x])
    BY <1>4 DEF Raise
  <2>2. PICK new : new = [q EXCEPT !.at = place, !.raised = x] OBVIOUS
  <2>3. new.at = place BY <1>1, <2>2
  <2> QED BY <1>2, <2>1, <2>2, <2>3 DEF Goes
<1>5. ASSUME CheckDb(r) PROVE Goes(r, "handling")
  <2>1. PICK new : new = [q EXCEPT !.at = "probing", !.saw = up \cap {"database"}] OBVIOUS
  <2>2. new.at = "probing" /\ Step(r, "handling", new) BY <1>1, <1>5, <2>1 DEF CheckDb
  <2> QED BY <1>2, <2>2 DEF Goes
<1>6. ASSUME CheckRedis(r) PROVE Goes(r, "probing")
  <2>1. PICK new : new = [q EXCEPT !.at = "probed", !.saw = @ \cup (up \cap {"redis"})] OBVIOUS
  <2>2. new.at = "probed" /\ Step(r, "probing", new) BY <1>1, <1>6, <2>1 DEF CheckRedis
  <2> QED BY <1>2, <2>2 DEF Goes
<1>7. ASSUME Report(r) PROVE Goes(r, "probed")
  <2>1. PICK new : new = [q EXCEPT !.at = "left",
          !.status = IF q.kind = "ready" /\ q.saw # Backend THEN 503 ELSE 200]
    OBVIOUS
  <2>2. new.at = "left" /\ Step(r, "probed", new) BY <1>1, <1>7, <2>1 DEF Report
  <2> QED BY <1>2, <2>2 DEF Goes
<1>8. ASSUME Rollback(r) PROVE Goes(r, "rolling")
  <2>1. PICK fails \in BOOLEAN : Step(r, "rolling", [q EXCEPT !.at = "closing", !.replaced = fails])
    BY <1>8 DEF Rollback
  <2>2. PICK new : new = [q EXCEPT !.at = "closing", !.replaced = fails] OBVIOUS
  <2>3. new.at = "closing" BY <1>1, <2>2
  <2> QED BY <1>2, <2>1, <2>2, <2>3 DEF Goes
<1>9. ASSUME CloseSession(r) PROVE Goes(r, "closing") \/ Goes(r, "answered")
  <2>1. PICK fails \in BOOLEAN :
          LET session == IF fails THEN "lost" ELSE "closed"
          IN  \/ Step(r, "closing", [q EXCEPT !.at = "left", !.session = session,
                                       !.replaced = @ \/ fails])
              \/ Step(r, "answered", [q EXCEPT !.at = "over", !.session = session])
    BY <1>9 DEF CloseSession
  <2>2. PICK session : session = IF fails THEN "lost" ELSE "closed" OBVIOUS
  <2>3. PICK a : a = [q EXCEPT !.at = "left", !.session = session, !.replaced = @ \/ fails]
    OBVIOUS
  <2>4. PICK b : b = [q EXCEPT !.at = "over", !.session = session] OBVIOUS
  <2>5. a.at = "left" /\ b.at = "over" BY <1>1, <2>3, <2>4
  <2>6. Step(r, "closing", a) \/ Step(r, "answered", b) BY <2>1, <2>2, <2>3, <2>4
  <2> QED BY <1>2, <2>5, <2>6 DEF Goes
<1>10. ASSUME HandleException(r) PROVE Goes(r, "left")
  <2>1. PICK a : a = [q EXCEPT !.at = "responding", !.status = Code[q.raised]] OBVIOUS
  <2>2. PICK b : b = [q EXCEPT !.at = "responding"] OBVIOUS
  <2>3. PICK c : c = [q EXCEPT !.at = "failing"] OBVIOUS
  <2>4. a.at = "responding" /\ b.at = "responding" /\ c.at = "failing"
    BY <1>1, <2>1, <2>2, <2>3
  <2>5. Step(r, "left", a) \/ Step(r, "left", b) \/ Step(r, "left", c)
    BY <1>10, <2>1, <2>2, <2>3 DEF HandleException
  <2> QED BY <1>2, <2>4, <2>5 DEF Goes
<1>11. ASSUME Count(r) PROVE Goes(r, "responding") \/ Goes(r, "failing")
  <2>1. PICK a : a = [q EXCEPT !.at = "securing", !.identified = TRUE,
                        !.counted = Append(@, q.status)]
    OBVIOUS
  <2>2. PICK b : b = [q EXCEPT !.at = "erring", !.counted = Append(@, 500)] OBVIOUS
  <2>3. a.at = "securing" /\ b.at = "erring" BY <1>1, <2>1, <2>2
  <2>4. Step(r, "responding", a) \/ Step(r, "failing", b) BY <1>11, <2>1, <2>2 DEF Count
  <2> QED BY <1>2, <2>3, <2>4 DEF Goes
<1>12. ASSUME Answer(r) PROVE Goes(r, "securing") \/ Goes(r, "erring")
  <2>0. PICK place \in {"answered", "over"} :
          place = IF q.session = "open" THEN "answered" ELSE "over"
    OBVIOUS
  <2>1. PICK a : a = [q EXCEPT !.secured = TRUE, !.at = place] OBVIOUS
  <2>2. PICK b : b = [q EXCEPT !.at = "over", !.status = 500] OBVIOUS
  <2>3. a.at = place /\ b.at = "over" BY <1>1, <2>1, <2>2
  <2>4. Step(r, "securing", a) \/ Step(r, "erring", b) BY <1>12, <2>0, <2>1, <2>2 DEF Answer
  <2> QED BY <1>2, <2>0, <2>3, <2>4 DEF Goes
<1> QED BY <1>3, <1>4, <1>5, <1>6, <1>7, <1>8, <1>9, <1>10, <1>11, <1>12 DEF Work, At

(* The changes of a request, and of the process with it.                   *)
Nearer(r) ==
  \E new : /\ req' = [req EXCEPT ![r] = new] /\ Distance(new) < Distance(req[r])
           /\ phase' = phase /\ (phase = "serving" \/ req[r].at # "new")

LEMMA WorkNearer ==
  ASSUME IInv, NEW r \in Request, Work(r)
  PROVE  Nearer(r)
<1>1. PICK from \in At \ {"new"} : Goes(r, from) BY WorkGoes
<1>2. PICK new : Step(r, from, new) /\ new.at \in Ways[from] BY <1>1 DEF Goes
<1>3. Distance(new) < Distance(req[r]) BY <1>2, WaysGoForward DEF Step, Distance
<1> QED BY <1>2, <1>3 DEF Step, Nearer

LEMMA HangNearer ==
  ASSUME IInv, NEW r \in Request, Hang(r)
  PROVE  Nearer(r)
<1>0. "at" \in DOMAIN req[r] BY DEF IInv, RequestInv, Stage, Asked
<1>1. PICK from \in {"handling", "probing", "rolling", "closing", "answered"} :
        Step(r, from, [req[r] EXCEPT !.at = "hung"])
  BY DEF Hang
<1>2. PICK new : new = [req[r] EXCEPT !.at = "hung"] OBVIOUS
<1>3. new.at = "hung" BY <1>0, <1>2
<1>4. Step(r, from, new) BY <1>1, <1>2
<1>5. Distance(new) < Distance(req[r]) BY <1>1, <1>3, <1>4, PlaceOf DEF Step, Distance
<1> QED BY <1>1, <1>4, <1>5 DEF Step, Nearer

LEMMA ArriveNearer ==
  ASSUME IInv, NEW r \in Request, NEW kind \in Kind, Arrive(r, kind)
  PROVE  Nearer(r)
<1>1. DOMAIN New = {"at", "kind", "session", "raised", "replaced", "status", "saw", "steady",
                    "counted", "identified", "secured"}
  BY DEF New
<1>2. PICK n : n = New OBVIOUS
<1>3. PICK a : a = [n EXCEPT !.at = "responding", !.kind = kind, !.status = 400] OBVIOUS
<1>4. PICK b : b = [n EXCEPT !.at = "handling", !.kind = kind,
                      !.session = IF kind = "work" THEN "open" ELSE "none"]
  OBVIOUS
<1>5. a.at = "responding" /\ b.at = "handling" BY <1>1, <1>2, <1>3, <1>4
<1>6. phase = "serving" /\ (Step(r, "new", a) \/ Step(r, "new", b))
  BY <1>2, <1>3, <1>4 DEF Arrive
<1>7. PICK new : Step(r, "new", new) /\ new.at \in {"responding", "handling"} BY <1>5, <1>6
<1>8. Distance(new) < Distance(req[r]) BY <1>7, PlaceOf DEF Step, Distance
<1> QED BY <1>6, <1>7, <1>8 DEF Step, Nearer

LEMMA ToggleStands ==
  ASSUME IInv, NEW b \in Backend, Toggle(b), NEW r \in Request
  PROVE  req'[r].at = req[r].at
<1>1. {"at", "steady"} \subseteq DOMAIN req[r] BY DEF IInv, RequestInv, Stage, Asked
<1>2. req'[r] = IF req[r].at = "new" THEN req[r] ELSE [req[r] EXCEPT !.steady = FALSE]
  BY DEF Toggle
<1> QED BY <1>1, <1>2

LEMMA AdvanceStep ==
  ASSUME IInv, [Next]_vars
  PROVE  [Advance]_vars
<1>0. \A r \in Request : Distance(req[r]) \in Int
  BY PlaceOf DEF Distance, IInv, RequestInv, Stage, Asked
<1>b. \A r \in Request : Distance(req'[r]) \in Int
  <2>1. IInv' BY NextKeeps
  <2> QED BY <2>1, PlaceOf DEF Distance, IInv, RequestInv, Stage, Asked
<1>1. /\ DOMAIN Shutdown = {"draining", "close_redis", "ended", "hung"}
      /\ Shutdown["draining"] = {"draining", "close_redis", "ended", "hung"}
      /\ Shutdown["close_redis"] = {"close_redis", "ended", "hung"}
      /\ Shutdown["ended"] = {"ended"} /\ Shutdown["hung"] = {"hung"}
  BY DEF Shutdown
<1>2. ASSUME NEW r \in Request, Work(r) PROVE Distance(req'[r]) < Distance(req[r])
  <2>1. Nearer(r) BY <1>2, WorkNearer
  <2> QED BY <2>1 DEF Nearer, IInv, RequestInv
<1>3. CASE Lifespan \/ StartOrStopHangs \/ Stop
  <2>1. req' = req
    BY <1>3 DEF Lifespan, InitDb, GetRedis, CloseDb, CloseRedis, Stop, StartOrStopHangs
  <2>2. phase \in DOMAIN Shutdown => phase' \in Shutdown[phase]
    BY <1>1, <1>3 DEF Lifespan, InitDb, GetRedis, CloseDb, CloseRedis, Stop, StartOrStopHangs
  <2> QED BY <1>0, <1>2, <2>1, <2>2 DEF Advance
<1>4. ASSUME NEW b \in Backend, Toggle(b) PROVE Advance
  <2>1. \A r \in Request : /\ Distance(req'[r]) = Distance(req[r])
                           /\ req[r].at = "new" => req'[r].at = "new"
    BY <1>4, ToggleStands DEF Distance
  <2>2. phase' = phase BY <1>4 DEF Toggle
  <2> QED BY <1>0, <1>1, <1>2, <2>1, <2>2 DEF Advance
<1>5. ASSUME NEW r \in Request, Nearer(r) PROVE Advance
  <2>0. PICK new : /\ req' = [req EXCEPT ![r] = new] /\ Distance(new) < Distance(req[r])
                   /\ phase' = phase /\ (phase = "serving" \/ req[r].at # "new")
    BY <1>5 DEF Nearer
  <2>1. \A s \in Request : req'[s] = IF s = r THEN new ELSE req[s]
    BY <2>0 DEF IInv, RequestInv
  <2>2. \A s \in Request : Distance(req'[s]) <= Distance(req[s])
    BY <1>0, <1>b, <2>0, <2>1
  <2> QED BY <1>1, <1>2, <2>0, <2>1, <2>2 DEF Advance
<1>6. ASSUME NEW r \in Request, Work(r) \/ Hang(r) \/ \E kind \in Kind : Arrive(r, kind)
      PROVE  Advance
  BY <1>5, <1>6, WorkNearer, HangNearer, ArriveNearer
<1> QED BY <1>3, <1>4, <1>6 DEF Next

(* Every step of every request is one nearer to its end.                   *)
THEOREM RequestsGoForward == Spec => RequestsAdvance
<1>1. IInv /\ [Next]_vars => [Advance]_vars BY AdvanceStep
<1> QED BY <1>1, Invariant, PTL DEF Spec, RequestsAdvance
=============================================================================
