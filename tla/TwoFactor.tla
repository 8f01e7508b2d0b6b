----------------------------- MODULE TwoFactor -----------------------------
(***************************************************************************)
(* Package twofactor with the flow ry generates around it, for one         *)
(* account: enrolment, the challenge, recovery codes and turning it off.   *)
(*                                                                         *)
(* A request reads the account, asks the throttle of package ratelimit,    *)
(* checks the code against what it read, clears the throttle and writes;   *)
(* other requests go on in between.  A code of the authenticator app is    *)
(* the secret it was computed from; that it is good for a minute and a     *)
(* half, and that the throttle refills, is left out: no time passes.       *)
(***************************************************************************)
EXTENDS RateLimit

CONSTANTS
    Sessions,       \* signed-in sessions, one request of each at a time
    Throttle,       \* the account's key in the throttle
    CodesEach,      \* recovery codes issued at an enrolment
    MaxSecrets,     \* bound: secrets made
    MaxEnrolments,  \* bound: enrolments confirmed
    MaxVaultKeys    \* bound: application keys used

ASSUME TwoFactorAssumption ==
    /\ Throttle \in Keys
    /\ CodesEach \in Nat /\ MaxSecrets \in Nat /\ MaxEnrolments \in Nat
    /\ MaxVaultKeys \in Nat \ {0}

VARIABLES
    account,    \* the two-factor columns of the users table
    pending,    \* pending[s]: the sealed secret waiting in session s
    ask,        \* ask[s]: the request of session s
    vaultKey,   \* the application key
    secrets,    \* secrets made so far
    enrolled,   \* enrolments confirmed so far
    used,       \* history: used[c], how often recovery code c let somebody in
    both        \* history: have two recoveries overlapped?

twoFactorVars == <<account, pending, ask, vaultKey, secrets, enrolled, used, both>>

Codes == 1..(CodesEach * MaxEnrolments)

\* A sealed secret: which one, and the key it is sealed with; secret 0 is none.
Sealed == [secret: 0..MaxSecrets, key: 0..MaxVaultKeys]
NoSecret == [secret |-> 0, key |-> 0]

Account == [on: BOOLEAN, sealed: Sealed, codes: SUBSET Codes]
NoAccount == [on |-> FALSE, sealed |-> NoSecret, codes |-> {}]

\* A request: what it submits, the account as it read it, and how far it is.
Ask == [kind: {"none", "enable", "challenge", "recover", "disable"}, code: Nat,
        user: Account, at: {"read", "right", "cleared"}]
NoAsk == [kind |-> "none", code |-> 0, user |-> NoAccount, at |-> "read"]

TwoFactorTypeOK ==
    /\ account \in Account
    /\ pending \in [Sessions -> Sealed]
    /\ ask \in [Sessions -> Ask]
    /\ vaultKey \in 1..MaxVaultKeys /\ secrets \in 0..MaxSecrets /\ enrolled \in 0..MaxEnrolments
    /\ used \in [Codes -> Nat] /\ both \in BOOLEAN

TwoFactorInit ==
    /\ account = NoAccount
    /\ pending = [s \in Sessions |-> NoSecret]
    /\ ask = [s \in Sessions |-> NoAsk]
    /\ vaultKey = 1 /\ secrets = 0 /\ enrolled = 0
    /\ used = [c \in Codes |-> 0] /\ both = FALSE
-----------------------------------------------------------------------------
(* The vault.                                                              *)

\* Seal and Open: nothing stays nothing, and another key opens nothing.
Seal(x) == [secret |-> x, key |-> vaultKey]
Opens(x) == x.secret = 0 \/ x.key = vaultKey
-----------------------------------------------------------------------------
(* A request.                                                              *)

\* PutPendingSecret, and with no secret ForgetPendingSecret.
PutPendingSecret(s, x) == pending' = [pending EXCEPT ![s] = x]

\* NewSecret: never one that was made before.
NewSecret == secrets + 1

\* MarkPassed also ends an enrolment under way.
MarkPassed(s) == PutPendingSecret(s, NoSecret)

\* PendingSecret, for the setup page, its QR code and Enable: made once per enrolment.
Setup(s) ==
    /\ ask[s] = NoAsk /\ pending[s] = NoSecret
    /\ secrets < MaxSecrets
    /\ secrets' = NewSecret
    /\ PutPendingSecret(s, Seal(NewSecret))
    /\ UNCHANGED <<limiterVars, account, ask, vaultKey, enrolled, used, both>>

\* What a request checks the code of the app against.
Secret(s) == IF ask[s].kind = "enable" THEN pending[s] ELSE ask[s].user.sealed

\* User, and the guards before the code is looked at.
Read(s, kind, code) ==
    LET sealed == IF kind = "enable" THEN pending[s] ELSE account.sealed
    IN  /\ ask[s] = NoAsk
        /\ kind = "disable" => account.on
        /\ kind = "enable" => sealed # NoSecret
        /\ kind # "recover" => Opens(sealed)
        /\ ask' = [ask EXCEPT ![s] = [kind |-> kind, code |-> code, user |-> account, at |-> "read"]]
        /\ both' = (both \/ (kind = "recover" /\ \E t \in Sessions : ask[t].kind = "recover"))
        /\ UNCHANGED <<limiterVars, account, pending, vaultKey, secrets, enrolled, used>>

Quits(s) == ask' = [ask EXCEPT ![s] = NoAsk]

\* VerifyAt: is the code one of the secret?  One that is not a code (0) never is.
VerifyAt(x, code) == code # 0 /\ code = x.secret

\* ConsumeRecoveryCode finds the code among the stored ones.
Right(s) ==
    IF ask[s].kind = "recover" THEN ask[s].code \in ask[s].user.codes ELSE VerifyAt(Secret(s), ask[s].code)

\* Verify and VerifyRecovery take from one budget ...
Attempt(s) ==
    /\ ask[s] # NoAsk /\ ask[s].at = "read"
    /\ Allow(Throttle)
    /\ IF Right(s) THEN ask' = [ask EXCEPT ![s].at = "right"] ELSE Quits(s)
    /\ UNCHANGED <<account, pending, vaultKey, secrets, enrolled, used, both>>

\* ... or are refused by it ...
Throttled(s) ==
    /\ ask[s] # NoAsk /\ ask[s].at = "read"
    /\ Refuse(Throttle)
    /\ Quits(s)
    /\ UNCHANGED <<account, pending, vaultKey, secrets, enrolled, used, both>>

\* ... and the right code clears the record.
ClearRecord(s) ==
    /\ ask[s].at = "right"
    /\ Reset(Throttle)
    /\ ask' = [ask EXCEPT ![s].at = "cleared"]
    /\ UNCHANGED <<account, pending, vaultKey, secrets, enrolled, used, both>>

\* Challenge lets the session through: nothing is written.
Through(s) ==
    /\ ask[s].at = "cleared" /\ ask[s].kind = "challenge"
    /\ Quits(s)
    /\ MarkPassed(s)
    /\ UNCHANGED <<limiterVars, account, vaultKey, secrets, enrolled, used, both>>

\* GenerateRecoveryCodes and HashRecoveryCodes: codes of this enrolment alone.
NewCodes == {CodesEach * enrolled + i : i \in 1..CodesEach}

\* Enable stores the secret with new recovery codes, in one write.
StoreSecret(s) ==
    /\ ask[s].at = "cleared" /\ ask[s].kind = "enable"
    /\ enrolled < MaxEnrolments
    /\ enrolled' = enrolled + 1
    /\ account' = [on |-> TRUE, sealed |-> Seal(Secret(s).secret), codes |-> NewCodes]
    /\ MarkPassed(s)
    /\ Quits(s)
    /\ UNCHANGED <<limiterVars, vaultKey, secrets, used, both>>

\* ConsumeRecoveryCode: what is left of the codes that were read.
remaining(s) == ask[s].user.codes \ {ask[s].code}

\* Faulty variant: the session is let through before the codes are stored.
SpendCode_m1(s) ==
    /\ ask[s].at = "cleared" /\ ask[s].kind = "recover"
    /\ account' \in {account, [account EXCEPT !.codes = remaining(s)]}
    /\ used' = [used EXCEPT ![ask[s].code] = @ + 1]
    /\ MarkPassed(s)
    /\ Quits(s)
    /\ UNCHANGED <<limiterVars, vaultKey, secrets, enrolled, both>>

\* Recover: "Spent before the session is let through".  The session may still fail
\* to be saved.
SpendCode(s) ==
    /\ ask[s].at = "cleared" /\ ask[s].kind = "recover"
    /\ account' = [account EXCEPT !.codes = remaining(s)]
    /\ used' \in {used, [used EXCEPT ![ask[s].code] = @ + 1]}
    /\ MarkPassed(s)
    /\ Quits(s)
    /\ UNCHANGED <<limiterVars, vaultKey, secrets, enrolled, both>>

\* Disable clears all of it, in one write.
TurnOff(s) ==
    /\ ask[s].at = "cleared" /\ ask[s].kind = "disable"
    /\ account' = NoAccount
    /\ Quits(s)
    /\ UNCHANGED <<limiterVars, pending, vaultKey, secrets, enrolled, used, both>>

\* The write fails, or the request is cut off anywhere.
GiveUp(s) ==
    /\ ask[s] # NoAsk
    /\ Quits(s)
    /\ UNCHANGED <<limiterVars, account, pending, vaultKey, secrets, enrolled, used, both>>

\* The application key is replaced, and the process starts again with no buckets.
ReplaceKey ==
    /\ vaultKey < MaxVaultKeys
    /\ vaultKey' = vaultKey + 1
    /\ ask' = [s \in Sessions |-> NoAsk]
    /\ buckets' = [k \in Keys |-> NoBucket] /\ lastSweep' = now - Window
    /\ drawn' = [k \in Keys |-> [most |-> 0, at |-> now]]
    /\ UNCHANGED <<now, account, pending, secrets, enrolled, used, both>>

TwoFactorNext ==
    \/ \E s \in Sessions :
         \/ Setup(s) \/ Attempt(s) \/ Throttled(s) \/ ClearRecord(s) \/ Through(s)
         \/ StoreSecret(s) \/ SpendCode(s) \/ TurnOff(s) \/ GiveUp(s)
         \/ \E kind \in {"enable", "challenge", "disable"}, code \in 0..MaxSecrets : Read(s, kind, code)
         \/ \E code \in Codes \cup {0} : Read(s, "recover", code)
    \/ ReplaceKey

TwoFactorSpec == now = 0 /\ LimiterInit /\ TwoFactorInit /\ [][TwoFactorNext]_<<limiterVars, twoFactorVars>>
-----------------------------------------------------------------------------
\* "Single use is the whole point of a recovery code": while no two recoveries of the
\* account overlap, a code lets in once and is not among the stored ones afterwards,
\* whatever enrolments, challenges and removals go on, whichever write fails and
\* wherever a request is cut off.
CodeSpentOnce == ~both => \A c \in Codes : used[c] <= 1 /\ (used[c] = 1 => c \notin account.codes)
=============================================================================
