--------------------------------- MODULE Auth ---------------------------------
(***************************************************************************)
(* Registration, login, one-time codes, password reset and refresh tokens  *)
(* of one account (auth.service.ts, otp.service.ts, jwt.ts): requests that *)
(* read a counter or a key in Redis, work, and only then write.            *)
(*                                                                         *)
(* Passwords are compared outside any lock; a code, a password or a token  *)
(* is right or wrong, whatever its characters.  Keys expire when they like.*)
(***************************************************************************)
EXTENDS Integers, FiniteSets

CONSTANTS
  AuthCall,                   \* requests in flight
  MaxLoginAttempts, MaxAttempts,   \* failed logins, wrong codes
  ResetToken,                 \* tokens of forgotten passwords
  MaxRefresh                  \* bounds the refresh tokens issued

ASSUME AuthAssumption ==
  /\ IsFiniteSet(AuthCall)
  /\ {MaxLoginAttempts, MaxAttempts, MaxRefresh} \subseteq Nat \ {0}

VARIABLES
  userRow,       \* "none", "bare" before it has a wallet, or "whole"
  attempts,      \* login_attempts of its e-mail
  otpCode,       \* "none" or "sent"; a new code replaces the old one
  tries,         \* otp attempts
  cooling,       \* the resend key is there
  isVerified,    \* users.isVerified
  resets,        \* reset tokens alive
  spent,         \* reset tokens a finished request deleted
  refresh,       \* refresh tokens issued: 1 .. refresh
  blocked,       \* the last token rotated, in its one slot; 0 for none
  secondFactor,  \* "off", "set_up" or "on"
  authCall       \* authCall[c]: where c's request is

otpVars   == <<otpCode, tries, cooling, isVerified>>
resetVars == <<resets, spent>>
tokenVars == <<refresh, blocked>>
authVars  == <<userRow, attempts, otpVars, resetVars, tokenVars, secondFactor, authCall>>

Idling == [pc |-> "idle"]
Done   == [pc |-> "done"]

AuthTypeOK ==
  /\ userRow \in {"none", "bare", "whole"}
  /\ attempts \in 0 .. MaxLoginAttempts + Cardinality(AuthCall)
  /\ otpCode \in {"none", "sent"}
  /\ tries \in 0 .. MaxAttempts + Cardinality(AuthCall)
  /\ {cooling, isVerified} \subseteq BOOLEAN
  /\ resets \subseteq ResetToken /\ spent \subseteq ResetToken
  /\ refresh \in 0 .. MaxRefresh /\ blocked \in 0 .. refresh
  /\ secondFactor \in {"off", "set_up", "on"}
  /\ \A c \in AuthCall :
       authCall[c].pc \in {"idle", "create", "wallet", "compare", "count", "code",
                           "wrong", "resend", "reset", "rotate", "done"}

AuthInit ==
  /\ userRow = "none" /\ attempts = 0
  /\ otpCode = "none" /\ tries = 0 /\ cooling = FALSE /\ isVerified = FALSE
  /\ resets = {} /\ spent = {}
  /\ refresh = 0 /\ blocked = 0
  /\ secondFactor = "off"
  /\ authCall = [c \in AuthCall |-> Idling]

At(c, pc) == authCall[c].pc = pc

Goto(c, next) == authCall' = [authCall EXCEPT ![c] = next]

(* A client that was answered may send its next request.                   *)
Again(c) ==
  /\ At(c, "done") /\ Goto(c, Idling)
  /\ UNCHANGED <<userRow, attempts, otpVars, resetVars, tokenVars, secondFactor>>

-------------------------------------------------------------------------------
(* generateAccessToken, generateRefreshToken.                              *)
IssueTokens == refresh' = IF refresh < MaxRefresh THEN refresh + 1 ELSE refresh

(* generateOtp: a fresh code and a fresh count.                            *)
GenerateOtp == otpCode' = "sent" /\ tries' = 0

(* register: looks for the e-mail and the phone,                           *)
BeginRegister(c) ==
  /\ At(c, "idle")
  /\ Goto(c, IF userRow = "none" THEN [pc |-> "create"] ELSE Done)
  /\ UNCHANGED <<userRow, attempts, otpVars, resetVars, tokenVars, secondFactor>>

(* inserts, where the unique columns refuse the second of two,             *)
CreateUser(c) ==
  /\ At(c, "create")
  /\ IF userRow = "none"
     THEN userRow' = "bare" /\ Goto(c, [pc |-> "wallet"])
     ELSE Goto(c, Done) /\ UNCHANGED userRow
  /\ UNCHANGED <<attempts, otpVars, resetVars, tokenVars, secondFactor>>

(* then adds the wallet, sends a code and answers.                         *)
CreateWallet(c) ==
  /\ At(c, "wallet")
  /\ userRow' = "whole" /\ GenerateOtp /\ IssueTokens /\ Goto(c, Done)
  /\ UNCHANGED <<attempts, cooling, isVerified, resetVars, blocked, secondFactor>>

BeginLoginOneMore(c) ==                        \* defect: compared one too late
  /\ At(c, "idle")
  /\ Goto(c, IF attempts > MaxLoginAttempts THEN Done ELSE [pc |-> "compare"])
  /\ UNCHANGED <<userRow, attempts, otpVars, resetVars, tokenVars, secondFactor>>

(* login: the count first, then the user and the password,                 *)
BeginLogin(c) ==
  /\ At(c, "idle")
  /\ Goto(c, IF attempts >= MaxLoginAttempts THEN Done ELSE [pc |-> "compare"])
  /\ UNCHANGED <<userRow, attempts, otpVars, resetVars, tokenVars, secondFactor>>

(* and only then the count goes up, or is deleted.                         *)
FinishLogin(c, right) ==
  /\ At(c, "compare")
  /\ (right => userRow # "none")
  /\ attempts' = IF right THEN 0 ELSE attempts + 1
  /\ IF right THEN IssueTokens ELSE UNCHANGED refresh
  /\ Goto(c, Done)
  /\ UNCHANGED <<userRow, otpVars, resetVars, blocked, secondFactor>>

LockoutEnds ==
  /\ attempts > 0 /\ attempts' = 0
  /\ UNCHANGED <<userRow, otpVars, resetVars, tokenVars, secondFactor, authCall>>

-------------------------------------------------------------------------------
(* verifyOtp: the count,                                                   *)
BeginVerifyOtp(c) ==
  /\ At(c, "idle") /\ userRow # "none"
  /\ IF tries >= MaxAttempts
     THEN otpCode' = "none" /\ tries' = 0 /\ Goto(c, Done)
     ELSE Goto(c, [pc |-> "code"]) /\ UNCHANGED <<otpCode, tries>>
  /\ UNCHANGED <<userRow, attempts, cooling, isVerified, resetVars, tokenVars, secondFactor>>

(* the code stored: right, wrong, or gone; a right one is deleted and marks*)
(* the user, in one step here;                                             *)
CompareOtp(c, right) ==
  /\ At(c, "code")
  /\ CASE otpCode = "none"           -> Goto(c, Done) /\ UNCHANGED <<otpCode, tries, isVerified>>
       [] otpCode = "sent" /\ right  -> /\ otpCode' = "none" /\ tries' = 0 /\ isVerified' = TRUE
                                     /\ Goto(c, Done)
       [] otpCode = "sent" /\ ~right -> Goto(c, [pc |-> "wrong"]) /\ UNCHANGED <<otpCode, tries, isVerified>>
  /\ UNCHANGED <<userRow, attempts, cooling, resetVars, tokenVars, secondFactor>>

(* a wrong one is counted.                                                 *)
CountWrongOtp(c) ==
  /\ At(c, "wrong")
  /\ tries' = tries + 1 /\ Goto(c, Done)
  /\ UNCHANGED <<userRow, attempts, otpCode, cooling, isVerified, resetVars, tokenVars, secondFactor>>

(* resendOtpFlow: canResendOtp reads the cooldown and sets it afterwards.  *)
BeginResend(c) ==
  /\ At(c, "idle") /\ userRow # "none"
  /\ Goto(c, IF cooling THEN Done ELSE [pc |-> "resend"])
  /\ UNCHANGED <<userRow, attempts, otpVars, resetVars, tokenVars, secondFactor>>

FinishResend(c) ==
  /\ At(c, "resend")
  /\ cooling' = TRUE /\ GenerateOtp /\ Goto(c, Done)
  /\ UNCHANGED <<userRow, attempts, isVerified, resetVars, tokenVars, secondFactor>>

OtpKeysExpire ==
  /\ otpCode' \in {otpCode, "none"} /\ tries' \in {tries, 0} /\ cooling' \in {cooling, FALSE}
  /\ UNCHANGED <<userRow, attempts, isVerified, resetVars, tokenVars, secondFactor, authCall>>

-------------------------------------------------------------------------------
(* forgotPassword: a new token; an unknown e-mail gets the same answer.    *)
ForgotPassword(t) ==
  /\ userRow # "none" /\ t \notin resets \cup spent
  /\ resets' = resets \cup {t}
  /\ UNCHANGED <<userRow, attempts, otpVars, spent, tokenVars, secondFactor, authCall>>

(* resetPassword reads the token, hashes,                                  *)
BeginReset(c, t) ==
  /\ At(c, "idle")
  /\ Goto(c, IF t \in resets THEN [pc |-> "reset", token |-> t] ELSE Done)
  /\ UNCHANGED <<userRow, attempts, otpVars, resetVars, tokenVars, secondFactor>>

(* stores the password and deletes the token; invalidateRefreshTokens      *)
(* deletes the slot of the token blocked last.                             *)
FinishReset(c) ==
  /\ At(c, "reset")
  /\ resets' = resets \ {authCall[c].token}
  /\ spent' = spent \cup {authCall[c].token}
  /\ blocked' = 0 /\ Goto(c, Done)
  /\ UNCHANGED <<userRow, attempts, otpVars, refresh, secondFactor>>

ResetExpires(t) ==
  /\ t \in resets
  /\ resets' = resets \ {t}
  /\ spent' = spent \cup {t}
  /\ UNCHANGED <<userRow, attempts, otpVars, tokenVars, secondFactor, authCall>>

(* rotateRefreshToken: compares with the slot, later fills it.             *)
BeginRotate(c, t) ==
  /\ At(c, "idle") /\ t \in 1 .. refresh
  /\ Goto(c, IF t = blocked THEN Done ELSE [pc |-> "rotate", token |-> t])
  /\ UNCHANGED <<userRow, attempts, otpVars, resetVars, tokenVars, secondFactor>>

FinishRotate(c) ==
  /\ At(c, "rotate")
  /\ blocked' = authCall[c].token /\ IssueTokens /\ Goto(c, Done)
  /\ UNCHANGED <<userRow, attempts, otpVars, resetVars, secondFactor>>

Logout ==
  /\ refresh > 0 /\ blocked' = 0
  /\ UNCHANGED <<userRow, attempts, otpVars, resetVars, refresh, secondFactor, authCall>>

(* enable2fa writes a secret and keeps the switch as it was; verify2fa sets*)
(* the switch.                                                             *)
Enable2fa ==
  /\ userRow # "none"
  /\ secondFactor' = IF secondFactor = "off" THEN "set_up" ELSE secondFactor
  /\ UNCHANGED <<userRow, attempts, otpVars, resetVars, tokenVars, authCall>>

Verify2fa ==
  /\ secondFactor # "off" /\ secondFactor' = "on"
  /\ UNCHANGED <<userRow, attempts, otpVars, resetVars, tokenVars, authCall>>

AuthNext ==
  \/ \E c \in AuthCall :
       \/ BeginRegister(c) \/ CreateUser(c) \/ CreateWallet(c)
       \/ BeginLogin(c)
       \/ BeginVerifyOtp(c) \/ CountWrongOtp(c)
       \/ \E right \in BOOLEAN : FinishLogin(c, right) \/ CompareOtp(c, right)
       \/ BeginResend(c) \/ FinishResend(c)
       \/ FinishReset(c) \/ FinishRotate(c) \/ Again(c)
       \/ \E t \in ResetToken : BeginReset(c, t)
       \/ \E t \in 1 .. MaxRefresh : BeginRotate(c, t)
  \/ \E t \in ResetToken : ForgotPassword(t) \/ ResetExpires(t)
  \/ LockoutEnds \/ OtpKeysExpire \/ Logout \/ Enable2fa \/ Verify2fa

AuthSpec == AuthInit /\ [][AuthNext]_authVars

-------------------------------------------------------------------------------
(* A burst of logins, or of codes, gets past the limit only by the requests*)
(* that were under way when it was reached: what was counted and what is   *)
(* still to be counted stay within the limit and one per other request     *)
(* (auth.service.ts:71-100, otp.service.ts:18-40).                         *)
AttemptsAreBounded ==
  LET Under(pcs) == Cardinality({c \in AuthCall : authCall[c].pc \in pcs})
      Others     == Cardinality(AuthCall) - 1
  IN /\ attempts + Under({"compare"}) <= MaxLoginAttempts + Others
     /\ tries + Under({"code", "wrong"}) <= MaxAttempts + Others
===============================================================================
