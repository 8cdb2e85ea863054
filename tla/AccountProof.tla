---------------------------- MODULE AccountProof ----------------------------
(***************************************************************************)
(* Account: its invariants, for any number of requests, secrets and        *)
(* challenges, and that it keeps the promise of SecondFactor.              *)
(***************************************************************************)
EXTENDS Account, TLAPS

(* What a request carries, by the place where it is.                       *)
HeldInv ==
  \A r \in Request :
    /\ at[r] \in {"creating", "changing", "resetting"} => held[r] \in Password
    /\ at[r] \in {"answering", "clearing"} => held[r] \in Challenge
    /\ at[r] = "login" /\ held[r] \in Challenge => challenge[held[r]] = "gone"
    /\ at[r] = "storing" => held[r] \in proven
    /\ at[r] = "token_refresh" => tokens

(* A secret is pending or in force only if it was offered or proven, and   *)
(* in force only in a row that exists.                                     *)
SecretInv ==
  /\ setup \in offered \cup {None}
  /\ user.secret \in proven \cup {None}
  /\ user.exists \/ user.secret = None
  /\ \A r \in Request : at[r] \in {"confirming", "storing"} => user.exists

(* Unless changes overlapped, one request at most owes a two-factor entry, *)
(* and the row is as that entry will say.                                  *)
OwedInv ==
  blurred \/
  /\ \A q, r \in Request :
       at[q] \in FactorEntry \cup {"tidying"} /\ at[r] \in FactorEntry \cup {"tidying"} => q = r
  /\ \A r \in Request :
       /\ at[r] \in {"tidying", "2fa_enabled"} => user.secret # None
       /\ at[r] = "2fa_disabled" => user.secret = None

IInv == /\ TypeOK /\ HeldInv /\ SecretInv /\ OwedInv
        /\ PendingExplained /\ ChallengeSpent /\ TokensForActive /\ TrailAgrees

-----------------------------------------------------------------------------
(* Rows                                                                    *)

LEMMA NoRowIsRow == NoRow \in Row
BY DEF NoRow, Row

LEMMA NewRowIsRow ==
  ASSUME NEW p \in Password
  PROVE  NewUser(p) \in Row
BY DEF Row, NewUser

LEMMA DeletedIsRow ==
  ASSUME NEW u \in Row
  PROVE  [u EXCEPT !.active = FALSE, !.named = FALSE] \in Row
BY DEF Row

-----------------------------------------------------------------------------
(* The invariant holds at first and every step keeps it.                   *)

LEMMA InitHolds == Init => IInv
<1> SUFFICES ASSUME Init PROVE IInv OBVIOUS
<1>1. TypeOK
  BY NoRowIsRow, AccountAssumption DEF Init, TypeOK, Place, AuditAction, Followed
<1>2. HeldInv /\ SecretInv /\ OwedInv
  BY AccountAssumption DEF Init, HeldInv, SecretInv, OwedInv, FactorEntry, NoRow
<1>3. PendingExplained /\ ChallengeSpent /\ TokensForActive /\ TrailAgrees
  BY DEF Init, PendingExplained, ChallengeSpent, TokensForActive, TrailAgrees
<1> QED BY <1>1, <1>2, <1>3 DEF IInv

(* What needs more than one leaf in the steps below.                       *)

LEMMA RegisterTyped ==
  ASSUME IInv, NEW r \in Request, RegisterCreate(r) PROVE TypeOK'
<1>1. user' \in Row
  BY NewRowIsRow DEF RegisterCreate, Reads, Move, IInv, TypeOK, HeldInv
<1> QED
  BY <1>1, NoRowIsRow, SMTT(30)
  DEF RegisterCreate, Move, Leave, Reads, keys, history, IInv, TypeOK, Place, AuditAction

LEMMA DeleteTyped ==
  ASSUME IInv, NEW r \in Request, SoftDelete(r) PROVE TypeOK'
<1>1. user' \in Row
  BY DeletedIsRow DEF SoftDelete, IInv, TypeOK
<1> QED
  BY <1>1, NoRowIsRow, SMTT(30)
  DEF SoftDelete, Leave, keys, history, IInv, TypeOK, Place, AuditAction

LEMMA DisableOwes ==
  ASSUME IInv, NEW r \in Request, DisableStore(r) PROVE OwedInv'
<1> SUFFICES ASSUME ~blurred' PROVE OwedInv' BY DEF OwedInv
<1>1. \A q \in Request \ {r} : at'[q] \notin FactorEntry \cup {"tidying"}
  BY DEF DisableStore, Move, Outstanding, IInv, TypeOK
<1>2. at'[r] = "2fa_disabled" /\ user'.secret = None
  BY DEF DisableStore, Move, IInv, TypeOK, Row
<1> QED BY <1>1, <1>2 DEF OwedInv, FactorEntry

LEMMA QuitAgrees ==
  ASSUME IInv, NEW r \in Request, Quit(r) PROVE TrailAgrees'
<1>1. CASE blurred' BY <1>1 DEF TrailAgrees
<1>2. CASE ~blurred'
  <2>1. \A q \in Request : at[q] \in FactorEntry \cup {"tidying"} => at'[q] = at[q]
    BY <1>2 DEF Quit, Leave, IInv, TypeOK
  <2> QED BY <1>2, <2>1 DEF Quit, IInv, TrailAgrees
<1> QED BY <1>1, <1>2

LEMMA HandleKeeps ==
  ASSUME IInv, NEW r \in Request, Handle(r) PROVE IInv'
<1> USE AccountAssumption
    DEF Load, Move, Leave, Reads, Known, CurrentUser, Outstanding, keys, history,
        Row, NoRow, NewUser, Place, AuditAction, FactorEntry, Followed,
        Authenticated, CreateEntry, HandOut, IInv, TypeOK, HeldInv, SecretInv, OwedInv,
        PendingExplained, ChallengeSpent, TokensForActive, TrailAgrees
<1>1. CASE RegisterCheck(r) BY <1>1, SMTT(30) DEF RegisterCheck
<1>2. CASE RegisterCreate(r)
  <2>1. TypeOK' BY <1>2, RegisterTyped
  <2>2. HeldInv' /\ SecretInv' /\ OwedInv'
    BY <1>2, SMTT(30) DEF RegisterCreate
  <2>3. PendingExplained' /\ ChallengeSpent' /\ TokensForActive' /\ TrailAgrees'
    BY <1>2, SMTT(30) DEF RegisterCreate
  <2> QED BY <2>1, <2>2, <2>3
<1>3. CASE Login(r)
  <2>1. \E place \in {"login", "challenging", "login_failed"} :
          Load(r, place, None) /\ (place = "login" => user.active)
    BY <1>3 DEF Login
  <2> HIDE DEF Load
  <2>2. PICK place \in {"login", "challenging", "login_failed"} :
          Load(r, place, None) /\ (place = "login" => user.active)
    BY <2>1
  <2>3. UNCHANGED <<user, keys, tokens, reset, audit, history>>
    BY <1>3 DEF Login
  <2>4. TypeOK' BY <2>2, <2>3, SMTT(30) DEF Load
  <2>5. HeldInv' /\ SecretInv' /\ OwedInv' BY <2>2, <2>3, SMTT(30) DEF Load
  <2>6. PendingExplained' /\ ChallengeSpent' /\ TokensForActive' /\ TrailAgrees'
    BY <2>2, <2>3, SMTT(30) DEF Load
  <2> QED BY <2>4, <2>5, <2>6
<1>4. CASE LoginChallenge(r) BY <1>4, SMTT(30) DEF LoginChallenge
<1>5. CASE VerifyToken(r) BY <1>5, SMTT(30) DEF VerifyToken
<1>6. CASE ClearChallenge(r) BY <1>6, SMTT(30) DEF ClearChallenge
<1>7. CASE Refresh(r) BY <1>7, SMTT(30) DEF Refresh
<1>8. CASE Logout(r) BY <1>8, SMTT(30) DEF Logout
<1>9. CASE ChangePassword(r) BY <1>9, SMTT(30) DEF ChangePassword
<1>10. CASE ForgotPassword(r) BY <1>10, SMTT(30) DEF ForgotPassword
<1>11. CASE ResetPassword(r) BY <1>11, SMTT(30) DEF ResetPassword
<1>12. CASE UpdatePassword(r) BY <1>12, SMTT(30) DEF UpdatePassword
<1>13. CASE EnableCheck(r) BY <1>13, SMTT(30) DEF EnableCheck
<1>14. CASE EnablePend(r) BY <1>14, SMTT(30) DEF EnablePend
<1>15. CASE ConfirmLoad(r) BY <1>15, SMTT(30) DEF ConfirmLoad
<1>16. CASE ConfirmToken(r) BY <1>16, SMTT(30) DEF ConfirmToken
<1>17. CASE ConfirmStore(r) BY <1>17, SMTT(30) DEF ConfirmStore
<1>18. CASE ConfirmClear(r) BY <1>18, SMTT(30) DEF ConfirmClear
<1>19. CASE DisableCheck(r) BY <1>19, SMTT(30) DEF DisableCheck
<1>20. CASE DisableStore(r)
  <2>1. OwedInv' BY <1>20, DisableOwes
  <2>2. TypeOK' /\ HeldInv' /\ SecretInv'
    BY <1>20, SMTT(30) DEF DisableStore
  <2>3. PendingExplained' /\ ChallengeSpent' /\ TokensForActive' /\ TrailAgrees'
    BY <1>20, SMTT(30) DEF DisableStore
  <2> QED BY <2>1, <2>2, <2>3
<1>21. CASE DeactivateLoad(r) BY <1>21, SMTT(30) DEF DeactivateLoad
<1>22. CASE SoftDelete(r)
  <2>1. TypeOK' BY <1>22, DeleteTyped
  <2>2. HeldInv' /\ SecretInv' /\ OwedInv'
    BY <1>22, SMTT(30) DEF SoftDelete
  <2>3. PendingExplained' /\ ChallengeSpent' /\ TokensForActive' /\ TrailAgrees'
    BY <1>22, SMTT(30) DEF SoftDelete
  <2> QED BY <2>1, <2>2, <2>3
<1>23. CASE LogEvent(r) BY <1>23, SMTT(30) DEF LogEvent
<1>24. CASE Quit(r)
  <2>1. TrailAgrees' BY <1>24, QuitAgrees
  <2>2. TypeOK' /\ HeldInv' /\ SecretInv'
    BY <1>24, SMTT(30) DEF Quit
  <2>3. OwedInv' /\ PendingExplained' /\ ChallengeSpent' /\ TokensForActive'
    BY <1>24, SMTT(30) DEF Quit
  <2> QED BY <2>1, <2>2, <2>3
<1>25. CASE \E c \in Challenge : VerifyChallenge(r, c)
  BY <1>25, SMTT(30) DEF VerifyChallenge
<1> QED
  BY <1>1, <1>2, <1>3, <1>4, <1>5, <1>6, <1>7, <1>8, <1>9, <1>10, <1>11, <1>12, <1>13,
     <1>14, <1>15, <1>16, <1>17, <1>18, <1>19, <1>20, <1>21, <1>22, <1>23, <1>24, <1>25
  DEF Handle

LEMMA StepKeeps == IInv /\ [Next]_vars => IInv'
<1> SUFFICES ASSUME IInv, [Next]_vars PROVE IInv' OBVIOUS
<1>1. CASE \E r \in Request : Handle(r) BY <1>1, HandleKeeps
<1>2. CASE \E kinds \in SUBSET Followed : CleanupOldLogs(kinds)
  BY <1>2 DEF CleanupOldLogs, keys, history, IInv, TypeOK, HeldInv, SecretInv, OwedInv,
              PendingExplained, ChallengeSpent, TokensForActive, TrailAgrees
<1>3. CASE SetupExpires
  BY <1>3 DEF SetupExpires, history, IInv, TypeOK, HeldInv, SecretInv, OwedInv,
              PendingExplained, ChallengeSpent, TokensForActive, TrailAgrees
<1>4. CASE \E c \in Challenge : ChallengeExpires(c)
  BY <1>4 DEF ChallengeExpires, history, IInv, TypeOK, HeldInv, SecretInv, OwedInv,
              PendingExplained, ChallengeSpent, TokensForActive, TrailAgrees
<1>5. CASE UNCHANGED vars
  BY <1>5 DEF vars, keys, history, IInv, TypeOK, HeldInv, SecretInv, OwedInv,
              PendingExplained, ChallengeSpent, TokensForActive, TrailAgrees
<1> QED BY <1>1, <1>2, <1>3, <1>4, <1>5 DEF Next

(* The invariant of an account.                                            *)
LEMMA Invariant == Spec => []IInv
BY InitHolds, StepKeeps, PTL DEF Spec

-----------------------------------------------------------------------------
(* Every variable has its type, for any number of requests and secrets.    *)
THEOREM AccountTypeCorrect == Spec => []TypeOK
BY Invariant, PTL DEF IInv

(* A secret waits beside one in force only for the reasons named.          *)
THEOREM PendingIsExplained == Spec => []PendingExplained
BY Invariant, PTL DEF IInv

(* No challenge outlives the tokens it gave.                               *)
THEOREM ChallengesAreSpent == Spec => []ChallengeSpent
BY Invariant, PTL DEF IInv

(* Tokens go to users who were active, or who answered a challenge.        *)
THEOREM TokensGoToActive == Spec => []TokensForActive
BY Invariant, PTL DEF IInv

(* The latest entry about 2FA is true unless changes overlapped.           *)
THEOREM TrailIsTrue == Spec => []TrailAgrees
BY Invariant, PTL DEF IInv

-----------------------------------------------------------------------------
(* Action properties and refinement                                        *)

(* What a step does to an account that is there.                           *)
Apart ==
  user.exists =>
    /\ user'.password # user.password =>
         \E r \in Request : /\ at[r] \in {"changing", "resetting"} /\ at'[r] # at[r]
                           /\ user'.password = held[r]
    /\ user'.secret # user.secret =>
         \E r \in Request : /\ at[r] \in {"storing", "disabling"} /\ at'[r] # at[r]
                           /\ user'.secret = IF at[r] = "storing" THEN held[r] ELSE None
    /\ user'.active \/ user'.named => user.active /\ user.named

(* An account that is active has its address, and one that is deleted has  *)
(* given it free.                                                          *)
NamedInv == user.active <=> user.named

LEMMA NamedStep == IInv /\ NamedInv /\ [Next]_vars => NamedInv'
<1> SUFFICES ASSUME IInv, NamedInv, [Next]_vars PROVE NamedInv' OBVIOUS
<1>1. CASE \E r \in Request : RegisterCreate(r)
  BY <1>1 DEF RegisterCreate, NewUser, Reads, NamedInv
<1>2. CASE \E r \in Request : SoftDelete(r)
  BY <1>2 DEF SoftDelete, IInv, TypeOK, Row, NamedInv
<1>3. CASE \E r \in Request : UpdatePassword(r) \/ ConfirmStore(r) \/ DisableStore(r)
  BY <1>3 DEF UpdatePassword, ConfirmStore, DisableStore, IInv, TypeOK, Row, NamedInv
<1>4. CASE UNCHANGED user BY <1>4 DEF NamedInv
<1> QED
  BY <1>1, <1>2, <1>3, <1>4
  DEF Next, Handle, vars, RegisterCheck, Login, LoginChallenge, VerifyChallenge, VerifyToken,
      ClearChallenge, Refresh, Logout, ChangePassword, ForgotPassword, ResetPassword,
      EnableCheck, EnablePend, ConfirmLoad, ConfirmToken, ConfirmClear, DisableCheck,
      DeactivateLoad, LogEvent, Quit, CleanupOldLogs, SetupExpires, ChallengeExpires, Reads

LEMMA ApartStep == IInv /\ NamedInv /\ [Next]_vars => [Apart]_vars
<1> SUFFICES ASSUME IInv, NamedInv, [Next]_vars PROVE [Apart]_vars OBVIOUS
<1> USE DEF IInv, TypeOK
<1>1. ASSUME NEW r \in Request, UpdatePassword(r) PROVE Apart
  <2>1. at[r] \in {"changing", "resetting"} /\ at'[r] # at[r] /\ user'.password = held[r]
    BY <1>1 DEF UpdatePassword, Move, Row
  <2>2. user'.secret = user.secret /\ user'.active = user.active /\ user'.named = user.named
    BY <1>1 DEF UpdatePassword, Row
  <2> QED BY <2>1, <2>2 DEF Apart, NamedInv
<1>2. ASSUME NEW r \in Request, ConfirmStore(r) PROVE Apart
  <2>1. at[r] = "storing" /\ at'[r] # at[r] BY <1>2 DEF ConfirmStore, Move
  <2>2. /\ user'.secret = user.secret \/ user'.secret = held[r]
        /\ user'.password = user.password /\ user'.active = user.active
        /\ user'.named = user.named
    BY <1>2 DEF ConfirmStore, Row
  <2> QED BY <2>1, <2>2 DEF Apart, NamedInv
<1>3. ASSUME NEW r \in Request, DisableStore(r) PROVE Apart
  <2>1. at[r] = "disabling" /\ at'[r] # at[r] BY <1>3 DEF DisableStore, Move
  <2>2. /\ user'.secret = None /\ user'.password = user.password
        /\ user'.active = user.active /\ user'.named = user.named
    BY <1>3 DEF DisableStore, Row
  <2> QED BY <2>1, <2>2 DEF Apart, NamedInv
<1>4. ASSUME NEW r \in Request, SoftDelete(r) PROVE Apart
  BY <1>4 DEF SoftDelete, Row, Apart
<1>5. ASSUME user' = user PROVE Apart BY <1>5 DEF Apart, NamedInv
<1>6. ASSUME NEW r \in Request, RegisterCreate(r) PROVE Apart
  <2>1. CASE ~user.exists BY <2>1 DEF Apart
  <2>2. user.exists => user' = user BY <1>6 DEF RegisterCreate, Reads
  <2> QED BY <1>5, <2>1, <2>2
<1> QED
  BY <1>1, <1>2, <1>3, <1>4, <1>5, <1>6
  DEF Next, Handle, vars, RegisterCheck, Login, LoginChallenge, VerifyChallenge, VerifyToken,
      ClearChallenge, Refresh, Logout, ChangePassword, ForgotPassword, ResetPassword,
      EnableCheck, EnablePend, ConfirmLoad, ConfirmToken, ConfirmClear, DisableCheck,
      DeactivateLoad, LogEvent, Quit, CleanupOldLogs, SetupExpires, ChallengeExpires, Reads

(* No request undoes what another has done to the account meanwhile.       *)
THEOREM EditsAreApart == Spec => EditsApart
<1>1. Init => NamedInv BY DEF Init, NoRow, NamedInv
<1> QED BY <1>1, Invariant, NamedStep, ApartStep, PTL DEF Spec, EditsApart, Apart

(* The first tokens come after the entry of the login.                     *)
THEOREM TokensAreAudited == Spec => TokensAudited
<1>1. IInv /\ [Next]_vars => [tokens' /\ ~tokens => "login" \in audit']_vars
  <2> SUFFICES ASSUME IInv, Next, tokens', ~tokens PROVE "login" \in audit'
    OBVIOUS
  <2>1. PICK r \in Request : LogEvent(r)
    BY DEF Next, Handle, RegisterCheck, RegisterCreate, Login, LoginChallenge, VerifyChallenge,
           VerifyToken, ClearChallenge, Refresh, Logout, ChangePassword, ForgotPassword,
           ResetPassword, UpdatePassword, EnableCheck, EnablePend, ConfirmLoad, ConfirmToken,
           ConfirmStore, ConfirmClear, DisableCheck, DisableStore, DeactivateLoad, SoftDelete,
           Quit, CleanupOldLogs, SetupExpires, ChallengeExpires, Reads
  <2>2. at[r] = "login"
    BY <2>1 DEF LogEvent, HandOut, IInv, HeldInv
  <2> QED BY <2>1, <2>2 DEF LogEvent, CreateEntry, FactorEntry, Followed
<1> QED BY <1>1, Invariant, PTL DEF Spec, TokensAudited

(* No cleanup, and nothing else, removes an entry of high risk.            *)
THEOREM HighRiskIsKept == Spec => HighRiskKept
<1>1. IInv /\ [Next]_vars => [{a \in audit : RiskLevel(a) = "high"} \subseteq audit']_vars
  <2> SUFFICES ASSUME IInv, Next, NEW a \in audit, RiskLevel(a) = "high" PROVE a \in audit'
    OBVIOUS
  <2>1. CASE \E r \in Request : LogEvent(r)
    BY <2>1 DEF LogEvent, CreateEntry, RiskLevel, FactorEntry
  <2>2. CASE \E kinds \in SUBSET Followed : CleanupOldLogs(kinds)
    BY <2>2 DEF CleanupOldLogs
  <2>3. CASE UNCHANGED audit
    BY <2>3
  <2> QED
    BY <2>1, <2>2, <2>3
    DEF Next, Handle, RegisterCheck, RegisterCreate, Login, LoginChallenge, VerifyChallenge,
        VerifyToken, ClearChallenge, Refresh, Logout, ChangePassword, ForgotPassword,
        ResetPassword, UpdatePassword, EnableCheck, EnablePend, ConfirmLoad, ConfirmToken,
        ConfirmStore, ConfirmClear, DisableCheck, DisableStore, DeactivateLoad, SoftDelete,
        Quit, SetupExpires, ChallengeExpires, Reads
<1> QED BY <1>1, Invariant, PTL DEF Spec, HighRiskKept

(* The account keeps the promise of SecondFactor: a proven secret is put   *)
(* in force, a secret is removed, or neither variable of it changes.       *)
LEMMA FactorStep == IInv /\ IInv' /\ [Next]_vars => [Factor!Next]_(Factor!vars)
<1> SUFFICES ASSUME IInv, IInv', [Next]_vars PROVE [Factor!Next]_(Factor!vars) OBVIOUS
<1> USE DEF Factor!Next, Factor!vars, Factor!Show, Factor!Activate, Factor!Remove
<1>1. CASE \E r \in Request : ConfirmToken(r)
  BY <1>1 DEF ConfirmToken, IInv, TypeOK
<1>2. CASE \E r \in Request : ConfirmStore(r)
  <2> PICK r \in Request : ConfirmStore(r) BY <1>2
  <2>1. user' = user \/ user'.secret = held[r]
    BY DEF ConfirmStore, IInv, TypeOK, Row
  <2>2. held[r] \in proven /\ held[r] \in Secret /\ proven' = proven
    BY DEF ConfirmStore, Move, IInv, HeldInv, TypeOK
  <2> QED BY <2>1, <2>2
<1>3. CASE \E r \in Request : DisableStore(r)
  BY <1>3 DEF DisableStore, IInv, TypeOK, Row
<1>4. CASE \E r \in Request : RegisterCreate(r)
  BY <1>4 DEF RegisterCreate, NewUser, Reads, history
<1>5. CASE UNCHANGED <<user.secret, proven>>
  BY <1>5
<1> QED
  BY <1>1, <1>2, <1>3, <1>4, <1>5
  DEF Next, Handle, vars, history, RegisterCheck, Login, LoginChallenge, VerifyChallenge,
      VerifyToken, ClearChallenge, Refresh, Logout, ChangePassword, ForgotPassword,
      ResetPassword, UpdatePassword, EnableCheck, EnablePend, ConfirmLoad, ConfirmClear,
      DisableCheck, DeactivateLoad, SoftDelete, LogEvent, Quit, CleanupOldLogs,
      SetupExpires, ChallengeExpires, Reads, IInv, TypeOK, Row

(* Whatever overlaps, the second factor changes as SecondFactor allows.    *)
THEOREM FactorIsPromised == Spec => FactorPromise
<1>1. Init => Factor!Init
  BY DEF Init, NoRow, Factor!Init
<1>2. QED
  BY <1>1, Invariant, FactorStep, PTL DEF Spec, FactorPromise, Factor!Spec
=============================================================================
