------------------------------- MODULE Account -------------------------------
(***************************************************************************)
(* One user account: the handlers of api/auth.py over the row of users     *)
(* (models/user.py), the keys totp_setup and 2fa_challenge in Redis, and   *)
(* the audit entries (models/audit_log.py).                                *)
(*                                                                         *)
(* A handler awaits the load of the row, each Redis call, the commit of    *)
(* its change and the commit of its audit entry, which is a transaction of *)
(* its own.  It works on the copy it loaded; a commit writes attributes    *)
(* that differ from the copy.                                              *)
(***************************************************************************)
EXTENDS Integers, FiniteSets

CONSTANTS
  Request,    \* requests in progress at one time
  Password,
  Secret,     \* TOTP secrets, each standing for its backup codes too
  Challenge,  \* identifiers of two-factor challenges
  None        \* Python's None

ASSUME AccountAssumption == None \notin Secret \cup Challenge

VARIABLES
  user,       \* the row in the database
  setup,      \* Redis totp_setup:{user}: the pending secret, or None
  challenge,  \* Redis 2fa_challenge:{c}
  at,         \* where each request is
  copy,       \* the row as the request loaded it
  held,       \* secret, challenge or password the request carries on
  tokens,     \* an access and a refresh token have been handed out
  reset,      \* a password reset token has been handed out
  audit,      \* the kinds of entries in audit_logs
  offered,    \* history: secrets ever offered by enable_2fa
  proven,     \* history: secrets confirm_2fa was shown a code of
  spent,      \* history: challenges somebody got tokens with
  late,       \* history: a secret became or stayed pending with 2FA on
  blurred     \* history: two-factor changes overlapped, or an entry was lost

keys == <<setup, challenge>>
history == <<offered, proven, spent, late, blurred>>
vars == <<user, keys, at, copy, held, tokens, reset, audit, history>>

(* named: the row still has the e-mail address it was registered with.     *)
Row == [exists : BOOLEAN, named : BOOLEAN, active : BOOLEAN,
        password : Password \cup {None}, secret : Secret \cup {None}]

NoRow == [exists |-> FALSE, named |-> FALSE, active |-> FALSE,
          password |-> None, secret |-> None]

NewUser(p) == [exists |-> TRUE, named |-> TRUE, active |-> TRUE,
               password |-> p, secret |-> None]

(* Actions of audit entries, which are also the places of a request that   *)
(* has yet to write one.                                                   *)
AuditAction ==
  {"register", "register_failed", "login", "login_2fa_challenge", "login_failed",
   "token_refresh", "logout", "password_change", "password_reset_request",
   "password_reset", "2fa_enabled", "2fa_disabled"}

(* The entries whose presence is followed; of those about 2FA the latest.  *)
Followed == {"login", "password_reset", "2fa_enabled", "2fa_disabled"}

FactorEntry == {"2fa_enabled", "2fa_disabled"}

Place == AuditAction \cup
  {"out", "creating", "challenging", "answering", "clearing", "changing", "resetting",
   "enabling", "confirming", "storing", "tidying", "disabling", "deactivating"}

Init ==
  /\ user = NoRow /\ setup = None
  /\ challenge = [c \in Challenge |-> "new"]
  /\ at = [r \in Request |-> "out"]
  /\ copy = [r \in Request |-> NoRow]
  /\ held = [r \in Request |-> None]
  /\ tokens = FALSE /\ reset = FALSE
  /\ audit = {}
  /\ offered = {} /\ proven = {} /\ spent = {}
  /\ late = FALSE /\ blurred = FALSE

-----------------------------------------------------------------------------
(* get_by_email finds the row.                                             *)
Known == user.exists /\ user.named

(* get_current_user lets the bearer of an access token in.                 *)
CurrentUser == tokens /\ user.exists /\ user.active

(* The request has loaded the row and goes on.                             *)
Load(r, place, h) ==
  /\ at[r] = "out"
  /\ at' = [at EXCEPT ![r] = place]
  /\ copy' = [copy EXCEPT ![r] = user]
  /\ held' = [held EXCEPT ![r] = h]

Move(r, from, to) ==
  /\ at[r] = from
  /\ at' = [at EXCEPT ![r] = to]
  /\ UNCHANGED <<copy, held>>

(* The request ends and what it held goes with it.                         *)
Leave(r) ==
  /\ at' = [at EXCEPT ![r] = "out"]
  /\ copy' = [copy EXCEPT ![r] = NoRow]
  /\ held' = [held EXCEPT ![r] = None]

(* A handler that only reads before it writes an entry.                    *)
Reads == UNCHANGED <<user, keys, tokens, reset, audit, history>>

-----------------------------------------------------------------------------
(* POST /register                                                          *)

RegisterCheck(r) ==
  /\ \/ Known /\ Load(r, "register_failed", None)
     \/ ~Known /\ \E p \in Password : Load(r, "creating", p)
  /\ Reads

(* The INSERT.  A second one for the same address breaks the constraint    *)
(* and is answered "Registration failed".  When the address has become     *)
(* free again it makes another account, which is not followed.             *)
RegisterCreate(r) ==
  \/ /\ ~user.exists
     /\ Move(r, "creating", "register")
     /\ user' = NewUser(held[r])
     /\ UNCHANGED <<keys, tokens, reset, audit, history>>
  \/ user.exists /\ at[r] = "creating" /\ Leave(r) /\ Reads

(* POST /login                                                             *)

Authenticated(p) == Known /\ user.active /\ p = user.password

Login(r) ==
  /\ \E p \in Password :
       IF Authenticated(p)
       THEN Load(r, IF user.secret = None THEN "login" ELSE "challenging", None)
       ELSE Load(r, "login_failed", None)
  /\ Reads

(* SETEX of a new challenge, good for five minutes.                        *)
LoginChallenge(r) ==
  /\ Move(r, "challenging", "login_2fa_challenge")
  /\ \E c \in Challenge :
       /\ challenge[c] = "new"
       /\ challenge' = [challenge EXCEPT ![c] = "live"]
  /\ UNCHANGED <<user, setup, tokens, reset, audit, history>>

(* POST /verify-2fa: GET, then the row, then DEL.                          *)

VerifyChallenge(r, c) ==
  /\ challenge[c] = "live"
  /\ Load(r, "answering", c)
  /\ Reads

VerifyToken(r) ==
  /\ at[r] = "answering" /\ user.secret # None
  /\ \E s \in offered :
       IF s = user.secret
       THEN /\ at' = [at EXCEPT ![r] = "clearing"] /\ UNCHANGED held
       ELSE /\ at' = [at EXCEPT ![r] = "login_failed"]
            /\ held' = [held EXCEPT ![r] = None]
  /\ copy' = [copy EXCEPT ![r] = user]
  /\ Reads

(* Variant: the challenge is left to expire.                               *)
KeepChallenge(r) == Move(r, "clearing", "login") /\ Reads

ClearChallenge(r) ==
  /\ Move(r, "clearing", "login")
  /\ challenge' = [challenge EXCEPT ![held[r]] = "gone"]
  /\ UNCHANGED <<user, setup, tokens, reset, audit, history>>

(* POST /refresh and /logout                                               *)

Refresh(r) == /\ tokens /\ user.exists /\ user.active
              /\ Load(r, "token_refresh", None)
              /\ Reads

Logout(r) == CurrentUser /\ Load(r, "logout", None) /\ Reads

-----------------------------------------------------------------------------
(* POST /change-password, /forgot-password and /reset-password.            *)

ChangePassword(r) ==
  /\ CurrentUser
  /\ \E old, new \in Password : old = user.password /\ Load(r, "changing", new)
  /\ Reads

ForgotPassword(r) == Known /\ Load(r, "password_reset_request", None) /\ Reads

ResetPassword(r) ==
  /\ reset /\ Known
  /\ \E new \in Password : Load(r, "resetting", new)
  /\ Reads

(* Variant: the whole copy is written back.                                *)
SaveCopy(r) ==
  /\ \/ Move(r, "changing", "password_change")
     \/ Move(r, "resetting", "password_reset")
  /\ user' = [copy[r] EXCEPT !.password = held[r]]
  /\ UNCHANGED <<keys, tokens, reset, audit, history>>

(* The hash is salted, so it always differs and is written.                *)
UpdatePassword(r) ==
  /\ \/ Move(r, "changing", "password_change")
     \/ Move(r, "resetting", "password_reset")
  /\ user' = [user EXCEPT !.password = held[r]]
  /\ UNCHANGED <<keys, tokens, reset, audit, history>>

-----------------------------------------------------------------------------
(* POST /enable-2fa                                                        *)

EnableCheck(r) ==
  /\ CurrentUser /\ user.secret = None
  /\ Load(r, "enabling", None)
  /\ Reads

(* SETEX of a new secret, in the place of any pending one.                 *)
EnablePend(r) ==
  /\ at[r] = "enabling" /\ Leave(r)
  /\ \E s \in Secret \ offered : setup' = s /\ offered' = offered \cup {s}
  /\ late' = (late \/ user.secret # None)
  /\ UNCHANGED <<user, challenge, tokens, reset, audit, proven, spent, blurred>>

(* POST /confirm-2fa: the user, GET, the commit, DEL.                      *)

ConfirmLoad(r) == CurrentUser /\ Load(r, "confirming", None) /\ Reads

(* Variant: nobody asks whether a secret is pending.                       *)
ConfirmNothing(r) ==
  /\ at[r] = "confirming"
  /\ at' = [at EXCEPT ![r] = "storing"]
  /\ held' = [held EXCEPT ![r] = setup]
  /\ proven' = proven \cup {setup}
  /\ UNCHANGED <<user, keys, copy, tokens, reset, audit, offered, spent, late, blurred>>

ConfirmToken(r) ==
  /\ at[r] = "confirming" /\ setup # None
  /\ at' = [at EXCEPT ![r] = "storing"]
  /\ held' = [held EXCEPT ![r] = setup]
  /\ proven' = proven \cup {setup}
  /\ UNCHANGED <<user, keys, copy, tokens, reset, audit, offered, spent, late, blurred>>

(* A two-factor entry of another request is still to come.                 *)
Outstanding(r) == \E q \in Request \ {r} : at[q] \in FactorEntry \cup {"tidying"}

(* Variant: the pending secret is read again when it is stored.            *)
ConfirmPending(r) ==
  /\ Move(r, "storing", "tidying")
  /\ user' = [user EXCEPT !.secret = setup]
  /\ blurred' = (blurred \/ Outstanding(r))
  /\ UNCHANGED <<keys, tokens, reset, audit, offered, proven, spent, late>>

ConfirmStore(r) ==
  /\ Move(r, "storing", "tidying")
  /\ user' = IF held[r] = copy[r].secret THEN user ELSE [user EXCEPT !.secret = held[r]]
  /\ blurred' = (blurred \/ Outstanding(r) \/ user.secret # copy[r].secret)
  /\ UNCHANGED <<keys, tokens, reset, audit, offered, proven, spent, late>>

(* Variant: the pending secret is left to expire.                          *)
ConfirmKeep(r) == Move(r, "tidying", "2fa_enabled") /\ Reads

(* DEL, whatever is pending by now.                                        *)
ConfirmClear(r) ==
  /\ Move(r, "tidying", "2fa_enabled")
  /\ setup' = None
  /\ UNCHANGED <<user, challenge, tokens, reset, audit, history>>

(* POST /disable-2fa, with the password or a backup code.                  *)

DisableCheck(r) ==
  /\ CurrentUser /\ user.secret # None
  /\ Load(r, "disabling", None)
  /\ Reads

(* Variant: the request answers without an entry.                          *)
DisableSilently(r) ==
  /\ at[r] = "disabling" /\ Leave(r)
  /\ user' = [user EXCEPT !.secret = None]
  /\ UNCHANGED <<keys, tokens, reset, audit, history>>

DisableStore(r) ==
  /\ Move(r, "disabling", "2fa_disabled")
  /\ user' = [user EXCEPT !.secret = None]
  /\ blurred' = (blurred \/ Outstanding(r))
  /\ UNCHANGED <<keys, tokens, reset, audit, offered, proven, spent, late>>

(* User.soft_delete, which also gives the address free.                    *)

DeactivateLoad(r) == Known /\ Load(r, "deactivating", None) /\ Reads

SoftDelete(r) ==
  /\ at[r] = "deactivating" /\ Leave(r)
  /\ user' = [user EXCEPT !.active = FALSE, !.named = FALSE]
  /\ UNCHANGED <<keys, tokens, reset, audit, history>>

-----------------------------------------------------------------------------
(* audit_log.py                                                            *)

RiskLevel(action) == IF action = "login_failed" THEN "medium"
                     ELSE IF action \in {"password_reset", "mfa_disabled"} THEN "high"
                     ELSE "low"

CreateEntry(action) ==
  audit' = (IF action \in FactorEntry THEN audit \ FactorEntry ELSE audit)
             \cup ({action} \cap Followed)

(* What the answer after this entry carries; h is the challenge answered.  *)
HandOut(action, h) ==
  /\ tokens' = (tokens \/ action \in {"login", "token_refresh"})
  /\ reset' = (reset \/ action = "password_reset_request")
  /\ spent' = IF action = "login" THEN spent \cup ({h} \cap Challenge) ELSE spent

(* log_authentication_event: the commit of the entry, and the answer.      *)
LogEvent(r) ==
  /\ at[r] \in AuditAction /\ Leave(r)
  /\ CreateEntry(at[r])
  /\ HandOut(at[r], held[r])
  /\ UNCHANGED <<user, keys, offered, proven, late, blurred>>

(* cleanup_old_logs: all entries of these kinds are old enough.            *)
CleanupOldLogs(kinds) ==
  /\ kinds # {} /\ kinds \subseteq {a \in audit : RiskLevel(a) \in {"low", "medium"}}
  /\ audit' = audit \ kinds
  /\ UNCHANGED <<user, keys, at, copy, held, tokens, reset, history>>

-----------------------------------------------------------------------------
(* Any other end: a refusal, a failing call, a process that dies.          *)
Quit(r) ==
  /\ at[r] # "out" /\ Leave(r)
  /\ late' = (late \/ at[r] = "tidying")
  /\ blurred' = (blurred \/ at[r] \in FactorEntry \cup {"tidying"})
  /\ UNCHANGED <<user, keys, tokens, reset, audit, offered, proven, spent>>

(* Redis lets the keys expire.                                             *)
SetupExpires ==
  /\ setup # None /\ setup' = None
  /\ UNCHANGED <<user, challenge, at, copy, held, tokens, reset, audit, history>>

ChallengeExpires(c) ==
  /\ challenge[c] = "live"
  /\ challenge' = [challenge EXCEPT ![c] = "gone"]
  /\ UNCHANGED <<user, setup, at, copy, held, tokens, reset, audit, history>>

Handle(r) ==
  \/ RegisterCheck(r) \/ RegisterCreate(r)
  \/ Login(r) \/ LoginChallenge(r)
  \/ \E c \in Challenge : VerifyChallenge(r, c)
  \/ VerifyToken(r) \/ ClearChallenge(r)
  \/ Refresh(r) \/ Logout(r)
  \/ ChangePassword(r) \/ ForgotPassword(r) \/ ResetPassword(r) \/ UpdatePassword(r)
  \/ EnableCheck(r) \/ EnablePend(r)
  \/ ConfirmLoad(r) \/ ConfirmToken(r) \/ ConfirmStore(r) \/ ConfirmClear(r)
  \/ DisableCheck(r) \/ DisableStore(r)
  \/ DeactivateLoad(r) \/ SoftDelete(r)
  \/ LogEvent(r) \/ Quit(r)

Next ==
  \/ \E r \in Request : Handle(r)
  \/ \E kinds \in SUBSET Followed : CleanupOldLogs(kinds)
  \/ SetupExpires \/ \E c \in Challenge : ChallengeExpires(c)

Spec == Init /\ [][Next]_vars

-----------------------------------------------------------------------------
(* Every variable has its type.                                            *)
TypeOK ==
  /\ user \in Row /\ setup \in Secret \cup {None}
  /\ challenge \in [Challenge -> {"new", "live", "gone"}]
  /\ at \in [Request -> Place] /\ copy \in [Request -> Row]
  /\ held \in [Request -> Secret \cup Challenge \cup Password \cup {None}]
  /\ tokens \in BOOLEAN /\ reset \in BOOLEAN
  /\ audit \subseteq Followed
  /\ offered \subseteq Secret /\ proven \subseteq offered /\ spent \subseteq Challenge
  /\ late \in BOOLEAN /\ blurred \in BOOLEAN

(* "2FA is already enabled" (auth.py:482): while 2FA is on, no new secret  *)
(* waits to replace the one in force, unless a confirm is about to remove  *)
(* it, has died before it did, or an enable overlapped the confirm.        *)
PendingExplained ==
  setup # None /\ user.secret # None =>
    late \/ \E r \in Request : at[r] = "tidying"

(* A challenge that gave somebody tokens is gone: whoever comes with it    *)
(* afterwards is refused (two answers under way at once both get tokens).  *)
ChallengeSpent == \A c \in spent : challenge[c] = "gone"

(* Whoever is about to be given tokens belongs to a user who was active    *)
(* when the row was read.  An answer to a challenge does not ask.          *)
TokensForActive ==
  \A r \in Request :
    at[r] \in {"login", "token_refresh"} => copy[r].active \/ held[r] \in Challenge

(* When no two-factor change is half done, and none overlapped another,    *)
(* the latest audit entry about 2FA agrees with the row.                   *)
TrailAgrees ==
  \/ blurred \/ \E r \in Request : at[r] \in FactorEntry \cup {"tidying"}
  \/ /\ "2fa_enabled" \in audit => user.secret # None
     /\ "2fa_disabled" \in audit => user.secret = None

(* Overlapping requests do not undo each other's edits of the account with *)
(* the old copy each of them works on, nor does a registration that found  *)
(* no account: the password becomes what a change or reset asked for, the  *)
(* secret what was confirmed or nothing, and a deleted account stays so.   *)
EditsApart ==
  [][user.exists =>
       /\ user'.password # user.password =>
            \E r \in Request : /\ at[r] \in {"changing", "resetting"} /\ at'[r] # at[r]
                              /\ user'.password = held[r]
       /\ user'.secret # user.secret =>
            \E r \in Request : /\ at[r] \in {"storing", "disabling"} /\ at'[r] # at[r]
                              /\ user'.secret = IF at[r] = "storing" THEN held[r] ELSE None
       /\ user'.active \/ user'.named => user.active /\ user.named]_vars

(* The first tokens of an account are answered only once the audit entry   *)
(* of the login is committed.                                              *)
TokensAudited == [][tokens' /\ ~tokens => "login" \in audit']_vars

(* "Keep high and critical risk level logs longer" (audit_log.py:407): the *)
(* trace of a password reset survives every cleanup.                       *)
HighRiskKept == [][{a \in audit : RiskLevel(a) = "high"} \subseteq audit']_vars

(* A secret in force is one the client has shown a code of, however        *)
(* enable, confirm and disable overlap.                                    *)
Factor == INSTANCE SecondFactor WITH factor <- user.secret, shown <- proven

FactorPromise == Factor!Spec
=============================================================================
