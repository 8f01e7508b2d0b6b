------------------------------ MODULE WebProofs ------------------------------
(***************************************************************************)
(* Mail, the second factor, the Redis store of sessions and the cookies,   *)
(* for any number of recipients, sessions, requests, tabs and messages.    *)
(* At the end, all the services of MCServices.                             *)
(***************************************************************************)
EXTENDS MCServices, ServiceProofs, FiniteSetTheorems, TLAPS
-----------------------------------------------------------------------------
(* Mail.                                                                   *)

Job == [at: {"none", "queued", "running", "done", "failed"}, tries: 0..MailAttempts,
        to: SUBSET Addresses]

\* Where an attempt is: whom the server has accepted by then, and whether it can
\* have taken the message.
AttemptInv ==
    /\ mail.at = "running" <=> smtp # "none"
    /\ smtp \in {"data", "body", "end", "quit"} => envelope = mail.to
    /\ taken => smtp \in {"end", "quit"}
    /\ smtp = "quit" => taken
    /\ mail.at = "queued" => mail.tries < MailAttempts
    /\ mail.at = "none" => mail.to = {} /\ mail.tries = 0 /\ unsure = 0

MailInv == MailTypeOK /\ AttemptInv /\ MailWhole

\* A step of an attempt before the message is handed over.
LEMMA MailQuiet ==
    ASSUME MailInv, smtp \in DOMAIN Follows \cup {"rcpt", "data", "body"},
           smtp' \in DOMAIN Follows \cup {"rcpt", "data", "body", "end"},
           envelope' \subseteq mail.to,
           smtp' \in {"data", "body", "end"} => envelope' = mail.to,
           UNCHANGED <<mail, letters, taken, unsure>>
    PROVE  MailInv'
<1> DEFINE F == DOMAIN Follows
<1>1. F = {"dial", "hello", "starttls", "auth", "from"}
    BY DEF Follows
<1> HIDE DEF F
<1>2. MailTypeOK'
    BY <1>1 DEF MailInv, MailTypeOK, F
<1>3. AttemptInv'
    BY <1>1 DEF MailInv, AttemptInv, F
<1>4. MailWhole'
    BY DEF MailInv, MailWhole
<1> QED
    BY <1>2, <1>3, <1>4 DEF MailInv

LEMMA MailInitInv == MailInit => MailInv
<1> SUFFICES ASSUME MailInit PROVE MailInv
    OBVIOUS
<1>1. MailTypeOK
    <2>1. mail \in [at: {"none", "queued", "running", "done", "failed"}, tries: 0..MailAttempts,
                    to: SUBSET Addresses]
        BY MailAssumption DEF MailInit
    <2>2. taken \in BOOLEAN
        BY DEF MailInit
    <2> QED
        BY <2>1, <2>2 DEF MailInit, MailTypeOK
<1>2. AttemptInv
    BY DEF MailInit, AttemptInv
<1>3. MailWhole
    BY DEF MailInit, MailWhole
<1> QED
    BY <1>1, <1>2, <1>3 DEF MailInv

LEMMA MailStep == MailInv /\ [MailNext]_mailVars => MailInv'
<1> SUFFICES ASSUME MailInv, [MailNext]_mailVars PROVE MailInv'
    OBVIOUS
<1> USE MailAssumption
<1>0. DOMAIN Follows = {"dial", "hello", "starttls", "auth", "from"}
    BY DEF Follows
<1>1. ASSUME NEW to \in SUBSET Addresses, Enqueue(to) PROVE MailInv'
    <2>1. mail' = [mail EXCEPT !.at = "queued", !.to = to] /\ mail.at = "none"
          /\ UNCHANGED <<smtp, envelope, letters, taken, unsure>>
        BY <1>1 DEF Enqueue
    <2>2. smtp = "none" /\ ~taken /\ mail.to = {} /\ unsure = 0 /\ envelope = {}
        BY <2>1 DEF MailInv, AttemptInv, MailTypeOK
    <2>3. mail'.at = "queued" /\ mail'.to = to /\ mail'.tries = mail.tries
        BY <2>1 DEF MailInv, MailTypeOK
    <2>4. mail.tries = 0
        BY <2>1 DEF MailInv, AttemptInv
    <2>7. MailTypeOK'
        BY <2>1, <2>2, <2>3, <2>4 DEF MailInv, MailTypeOK
    <2>8. AttemptInv'
        BY <2>1, <2>2, <2>3, <2>4 DEF MailInv, MailTypeOK, AttemptInv
    <2>9. MailWhole'
        BY <2>1, <2>2, <2>3, <2>4 DEF MailInv, MailTypeOK, MailWhole
    <2> QED
        BY <2>7, <2>8, <2>9 DEF MailInv
<1>2. CASE RunSendJob
    <2>1. mail.at = "queued" /\ ~taken /\ mail.tries < MailAttempts
        BY <1>2 DEF RunSendJob, MailInv, AttemptInv
    <2>2. /\ mail' = [mail EXCEPT !.at = "running", !.tries = @ + 1]
          /\ smtp' = "dial" /\ envelope' = {} /\ taken' = FALSE /\ UNCHANGED <<letters, unsure>>
        BY <1>2 DEF RunSendJob
    <2>3. mail'.at = "running" /\ mail'.to = mail.to /\ mail'.tries = mail.tries + 1
        BY <2>2 DEF MailInv, MailTypeOK
    <2>4. PICK n \in 0..MailAttempts : n = mail.tries + 1
        BY <2>1 DEF MailInv, MailTypeOK
    <2>5. mail' = [mail EXCEPT !.at = "running", !.tries = n]
        BY <2>2, <2>4
    <2>6. mail' \in Job
        BY <2>5 DEF MailInv, MailTypeOK, Job
    <2>7. MailTypeOK'
        BY <1>0, <2>2, <2>3, <2>6 DEF MailInv, MailTypeOK, Job
    <2>8. AttemptInv'
        BY <1>0, <2>1, <2>2, <2>3 DEF MailInv, MailTypeOK, AttemptInv
    <2>9. MailWhole'
        BY <1>0, <2>1, <2>2, <2>3 DEF MailInv, MailTypeOK, MailWhole
    <2> QED
        BY <2>7, <2>8, <2>9 DEF MailInv
<1>3. ASSUME NEW next, Reply(next) PROVE MailInv'
    <2>1. next \in {"hello", "starttls", "auth", "from", "rcpt"}
        BY <1>3 DEF Reply, Follows
    <2> QED
        BY <1>0, <1>3, <2>1, MailQuiet DEF Reply, MailInv, MailTypeOK
<1>4. ASSUME NEW r \in Addresses, Rcpt(r) PROVE MailInv'
    BY <1>0, <1>4, MailQuiet DEF Rcpt, MailInv, MailTypeOK
<1>5. CASE Data
    BY <1>0, <1>5, MailQuiet DEF Data, MailInv, MailTypeOK, AttemptInv
<1>6. CASE Takes
    <2>1. envelope = mail.to /\ mail.at = "running" /\ ~taken /\ smtp = "end"
        BY <1>6 DEF Takes, MailInv, AttemptInv
    <2>2. /\ letters' = [r \in Addresses |-> IF r \in mail.to THEN letters[r] + 1 ELSE letters[r]]
          /\ taken' = TRUE /\ UNCHANGED <<mail, smtp, envelope, unsure>>
        BY <1>6, <2>1 DEF Takes
    <2>3. MailTypeOK'
        BY <2>2 DEF MailInv, MailTypeOK
    <2>4. AttemptInv'
        BY <2>1, <2>2 DEF MailInv, AttemptInv
    <2>5. MailWhole'
        BY <2>1, <2>2 DEF MailInv, MailTypeOK, MailWhole
    <2> QED
        BY <2>3, <2>4, <2>5 DEF MailInv
<1>7. CASE Acknowledge
    <2>1. MailTypeOK' /\ AttemptInv'
        BY <1>7 DEF Acknowledge, MailInv, MailTypeOK, AttemptInv
    <2>2. MailWhole'
        BY <1>7 DEF Acknowledge, MailInv, MailWhole
    <2> QED
        BY <2>1, <2>2 DEF MailInv
<1>8. CASE Sent
    <2>1. taken /\ mail.at = "running"
        BY <1>8 DEF Sent, MailInv, AttemptInv
    <2>2. mail' = [mail EXCEPT !.at = "done"] /\ smtp' = "none" /\ envelope' = {} /\ taken' = FALSE
          /\ UNCHANGED <<letters, unsure>>
        BY <1>8 DEF Sent, Hangs
    <2>3. mail'.at = "done" /\ mail'.to = mail.to /\ mail'.tries = mail.tries
        BY <2>2 DEF MailInv, MailTypeOK
    <2>7. MailTypeOK'
        BY <2>1, <2>2, <2>3 DEF MailInv, MailTypeOK
    <2>8. AttemptInv'
        BY <2>1, <2>2, <2>3 DEF MailInv, MailTypeOK, AttemptInv
    <2>9. MailWhole'
        BY <2>1, <2>2, <2>3 DEF MailInv, MailTypeOK, MailWhole
    <2> QED
        BY <2>7, <2>8, <2>9 DEF MailInv
<1>9. CASE SendFails
    <2>1. PICK at \in {"queued", "failed"} :
             /\ mail' = [mail EXCEPT !.at = at] /\ smtp' = "none" /\ envelope' = {} /\ taken' = FALSE
             /\ UNCHANGED letters
             /\ at = "queued" => mail.tries < MailAttempts
        BY <1>9 DEF SendFails, Hangs
    <2>2. mail.at = "running" /\ unsure' = IF taken THEN unsure + 1 ELSE unsure
        BY <1>9 DEF SendFails, MailInv, AttemptInv
    <2>3. mail'.at = at /\ mail'.to = mail.to /\ mail'.tries = mail.tries
        BY <2>1 DEF MailInv, MailTypeOK
    <2>4. mail' \in Job
        BY <2>1 DEF MailInv, MailTypeOK, Job
    <2>5. unsure' \in Nat
        BY <2>2 DEF MailInv, MailTypeOK
    <2>7. MailTypeOK'
        BY <2>1, <2>3, <2>4, <2>5 DEF MailInv, MailTypeOK, Job
    <2>8. AttemptInv'
        BY <2>1, <2>2, <2>3 DEF MailInv, MailTypeOK, AttemptInv
    <2>9. MailWhole'
        BY <2>1, <2>2, <2>3 DEF MailInv, MailTypeOK, MailWhole
    <2> QED
        BY <2>7, <2>8, <2>9 DEF MailInv
<1>10. CASE RetryMail
    <2>1. mail.at = "failed" /\ smtp = "none" /\ ~taken
        BY <1>10 DEF RetryMail, MailInv, AttemptInv
    <2>2. /\ mail' = [mail EXCEPT !.at = "queued", !.tries = 0]
          /\ UNCHANGED <<smtp, envelope, letters, taken, unsure>>
        BY <1>10 DEF RetryMail
    <2>3. mail'.at = "queued" /\ mail'.to = mail.to /\ mail'.tries = 0
        BY <2>2 DEF MailInv, MailTypeOK
    <2>4. 0 \in 0..MailAttempts
        OBVIOUS
    <2>5. mail' \in Job
        BY <2>2, <2>4 DEF MailInv, MailTypeOK, Job
    <2>7. MailTypeOK'
        BY <2>1, <2>2, <2>3, <2>5 DEF MailInv, MailTypeOK, Job
    <2>8. AttemptInv'
        BY <2>1, <2>2, <2>3 DEF MailInv, MailTypeOK, AttemptInv
    <2>9. MailWhole'
        BY <2>1, <2>2, <2>3 DEF MailInv, MailTypeOK, MailWhole
    <2> QED
        BY <2>7, <2>8, <2>9 DEF MailInv
<1>11. CASE UNCHANGED mailVars
    BY <1>11 DEF mailVars, MailInv, MailTypeOK, AttemptInv, MailWhole
<1> QED
    BY <1>1, <1>2, <1>3, <1>4, <1>5, <1>6, <1>7, <1>8, <1>9, <1>10, <1>11 DEF MailNext

\* Send, for every set of recipients and every number of attempts: they get the
\* same number of copies and nobody else any, one for the attempt that succeeded
\* and one for each that failed after the server had taken the message.
THEOREM MailGoesWhole == MailSpec => []MailWhole
<1>1. MailInv => MailWhole
    BY DEF MailInv
<1> QED
    BY <1>1, MailInitInv, MailStep, PTL DEF MailSpec
-----------------------------------------------------------------------------
(* The second factor.                                                      *)

\* Codes of the enrolments so far are the first CodesEach * enrolled numbers.
Issued == {c \in Codes : c <= CodesEach * enrolled}

LEMMA EnrolmentCodes ==
    ASSUME enrolled \in 0..MaxEnrolments
    PROVE  /\ CodesEach * enrolled \in Nat
           /\ enrolled < MaxEnrolments =>
                 /\ NewCodes \subseteq Codes
                 /\ \A c \in NewCodes : c > CodesEach * enrolled /\ c <= CodesEach * (enrolled + 1)
                 /\ CodesEach * (enrolled + 1) = CodesEach * enrolled + CodesEach
<1> USE TwoFactorAssumption
<1> DEFINE e == enrolled
           r == MaxEnrolments - enrolled - 1
<1>1. CodesEach * e \in Nat
    OBVIOUS
<1>2. ASSUME e < MaxEnrolments
      PROVE  CodesEach * MaxEnrolments >= CodesEach * e + CodesEach /\ CodesEach * MaxEnrolments \in Nat
    <2>1. r \in Nat
        BY <1>2
    <2>2. CodesEach * r \in Nat
        BY <2>1
    <2>3. CodesEach * MaxEnrolments = CodesEach * e + CodesEach + CodesEach * r
        OBVIOUS
    <2> QED
        BY <1>1, <2>2, <2>3
<1>3. CodesEach * (e + 1) = CodesEach * e + CodesEach
    OBVIOUS
<1>4. \A c \in NewCodes : c \in Nat /\ c > CodesEach * e /\ c <= CodesEach * e + CodesEach
    BY <1>1 DEF NewCodes
<1> QED
    BY <1>1, <1>2, <1>3, <1>4 DEF Codes

Recovers(s) == ask[s].kind = "recover"

\* Codes are issued before they are stored, read or used, and a recovery that was
\* let on presents one of the codes it read.
CodesInv ==
    /\ account.codes \subseteq Issued
    /\ \A s \in Sessions : ask[s].user.codes \subseteq Issued
    /\ \A c \in Codes : used[c] > 0 => c \in Issued
    /\ \A s \in Sessions : Recovers(s) /\ ask[s].at # "read" => ask[s].code \in ask[s].user.codes

\* While recoveries do not overlap there is one at a time, and neither it nor the
\* account holds a code that was used.
SpendingInv ==
    ~both =>
        /\ \A s, t \in Sessions : Recovers(s) /\ Recovers(t) => s = t
        /\ \A s \in Sessions : Recovers(s) => \A c \in ask[s].user.codes : used[c] = 0
        /\ \A c \in account.codes : used[c] = 0
        /\ \A c \in Codes : used[c] <= 1

TwoFactorInv == TwoFactorTypeOK /\ CodesInv /\ SpendingInv

LEMMA NoAskIs ==
    /\ NoAsk \in Ask /\ NoAsk.kind = "none" /\ NoAsk.user.codes = {} /\ NoAsk.at = "read"
    /\ NoAccount \in Account /\ NoAccount.codes = {} /\ NoSecret \in Sealed
BY TwoFactorAssumption DEF NoAsk, Ask, NoAccount, Account, NoSecret, Sealed

LEMMA TwoFactorInitInv == TwoFactorInit => TwoFactorInv
<1> SUFFICES ASSUME TwoFactorInit PROVE TwoFactorInv
    OBVIOUS
<1>1. both \in BOOLEAN /\ ~both
    BY DEF TwoFactorInit
<1>2. TwoFactorTypeOK
    BY <1>1, NoAskIs, TwoFactorAssumption DEF TwoFactorInit, TwoFactorTypeOK
<1>3. CodesInv
    BY NoAskIs DEF TwoFactorInit, CodesInv, Recovers
<1>4. SpendingInv
    BY NoAskIs DEF TwoFactorInit, SpendingInv, Recovers
<1> QED
    BY <1>2, <1>3, <1>4 DEF TwoFactorInv

\* A request ends, or goes on with the same code and the same account; nothing is
\* stored that was not there.
LEMMA AsksQuiet ==
    ASSUME TwoFactorInv, ask' \in [Sessions -> Ask], pending' \in [Sessions -> Sealed],
           account' \in Account, account'.codes \subseteq account.codes,
           vaultKey' \in 1..MaxVaultKeys, secrets' \in 0..MaxSecrets,
           \A s \in Sessions :
              \/ ask'[s] = NoAsk
              \/ ask'[s] = ask[s]
              \/ /\ ask'[s].kind = ask[s].kind /\ ask'[s].user = ask[s].user
                 /\ ask'[s].code = ask[s].code
                 /\ Recovers(s) => ask[s].code \in ask[s].user.codes,
           UNCHANGED <<enrolled, used, both>>
    PROVE  TwoFactorInv'
<1>1. TwoFactorTypeOK'
    BY DEF TwoFactorInv, TwoFactorTypeOK
<1>2. Issued' = Issued
    BY DEF Issued
<1>3. CodesInv'
    BY <1>2, NoAskIs DEF TwoFactorInv, CodesInv, Recovers
<1>4. \A s \in Sessions : Recovers(s)' => Recovers(s) /\ ask'[s].user = ask[s].user
    BY NoAskIs DEF Recovers
<1>5. SpendingInv'
    BY <1>4 DEF TwoFactorInv, SpendingInv
<1> QED
    BY <1>1, <1>3, <1>5 DEF TwoFactorInv

\* The request of s ends.
LEMMA QuitsIs ==
    ASSUME TwoFactorInv, NEW s \in Sessions, Quits(s)
    PROVE  /\ ask' \in [Sessions -> Ask] /\ ask'[s] = NoAsk
           /\ \A t \in Sessions : t # s => ask'[t] = ask[t]
           /\ \A t \in Sessions : ask'[t] = NoAsk \/ ask'[t] = ask[t]
BY NoAskIs DEF Quits, TwoFactorInv, TwoFactorTypeOK

LEMMA TwoFactorStep == TwoFactorInv /\ [TwoFactorNext]_<<limiterVars, twoFactorVars>> => TwoFactorInv'
<1> SUFFICES ASSUME TwoFactorInv, [TwoFactorNext]_<<limiterVars, twoFactorVars>> PROVE TwoFactorInv'
    OBVIOUS
<1> USE TwoFactorAssumption
<1>0. /\ ask \in [Sessions -> Ask] /\ pending \in [Sessions -> Sealed] /\ account \in Account
      /\ vaultKey \in 1..MaxVaultKeys /\ secrets \in 0..MaxSecrets /\ enrolled \in 0..MaxEnrolments
      /\ used \in [Codes -> Nat] /\ both \in BOOLEAN
    BY DEF TwoFactorInv, TwoFactorTypeOK
<1>1. ASSUME NEW s \in Sessions, Setup(s) PROVE TwoFactorInv'
    <2>1. NewSecret \in 0..MaxSecrets /\ Seal(NewSecret) \in Sealed
        BY <1>0, <1>1 DEF Setup, NewSecret, Seal, Sealed
    <2>2. secrets' \in 0..MaxSecrets /\ pending' \in [Sessions -> Sealed]
        BY <1>0, <1>1, <2>1 DEF Setup, PutPendingSecret
    <2> QED
        BY <1>0, <1>1, <2>2, AsksQuiet DEF Setup
<1>2. ASSUME NEW s \in Sessions, NEW kind \in {"enable", "challenge", "recover", "disable"}, NEW code \in Nat,
             Read(s, kind, code)
      PROVE  TwoFactorInv'
    <2> DEFINE r == [kind |-> kind, code |-> code, user |-> account, at |-> "read"]
    <2>1. r \in Ask /\ r.kind = kind /\ r.user = account /\ r.at = "read"
        BY <1>0 DEF Ask
    <2>2. /\ ask' = [ask EXCEPT ![s] = r] /\ ask[s] = NoAsk
          /\ both' = (both \/ (kind = "recover" /\ \E t \in Sessions : ask[t].kind = "recover"))
          /\ UNCHANGED <<account, pending, vaultKey, secrets, enrolled, used>>
        BY <1>2 DEF Read
    <2> HIDE DEF r
    <2>3. both' \in BOOLEAN
        BY <2>2, Zenon
    <2>4. ~both' => ~both /\ ~(kind = "recover" /\ \E t \in Sessions : ask[t].kind = "recover")
        BY <2>2, Zenon
    <2>5. ask' \in [Sessions -> Ask] /\ ask'[s] = r /\ \A t \in Sessions : t # s => ask'[t] = ask[t]
        BY <1>0, <2>1, <2>2
    <2>6. TwoFactorTypeOK'
        BY <2>2, <2>3, <2>5 DEF TwoFactorInv, TwoFactorTypeOK
    <2>7. Issued' = Issued
        BY <2>2 DEF Issued
    <2>8. CodesInv'
        BY <2>1, <2>2, <2>5, <2>7 DEF TwoFactorInv, CodesInv, Recovers
    <2>9. ASSUME ~both'
          PROVE  /\ \A t, u \in Sessions : Recovers(t)' /\ Recovers(u)' => t = u
                 /\ \A t \in Sessions : Recovers(t)' => \A c \in ask'[t].user.codes : used'[c] = 0
        <3>1. \A t \in Sessions : t # s /\ Recovers(t)' => Recovers(t) /\ ask'[t].user = ask[t].user
            BY <2>5 DEF Recovers
        <3>2. Recovers(s)' => kind = "recover" /\ ask'[s].user = account
            BY <2>1, <2>5 DEF Recovers
        <3> QED
            BY <2>2, <2>4, <2>9, <3>1, <3>2 DEF TwoFactorInv, SpendingInv, Recovers
    <2>10. SpendingInv'
        BY <2>2, <2>4, <2>9 DEF TwoFactorInv, SpendingInv
    <2> QED
        BY <2>6, <2>8, <2>10 DEF TwoFactorInv
<1>3. ASSUME NEW s \in Sessions, Attempt(s) PROVE TwoFactorInv'
    <2>1. CASE Right(s) /\ ask' = [ask EXCEPT ![s].at = "right"]
        <3>1. ask' \in [Sessions -> Ask] /\ \A t \in Sessions : t # s => ask'[t] = ask[t]
            BY <1>0, <2>1 DEF Ask
        <3>2. ask'[s].kind = ask[s].kind /\ ask'[s].user = ask[s].user /\ ask'[s].code = ask[s].code
            BY <1>0, <2>1 DEF Ask
        <3>3. Recovers(s) => ask[s].code \in ask[s].user.codes
            BY <2>1 DEF Right, Recovers
        <3> QED
            BY <1>0, <1>3, <3>1, <3>2, <3>3, AsksQuiet DEF Attempt
    <2>2. CASE Quits(s)
        BY <1>0, <1>3, <2>2, QuitsIs, AsksQuiet DEF Attempt
    <2> QED
        BY <1>3, <2>1, <2>2 DEF Attempt
<1>4. ASSUME NEW s \in Sessions, Throttled(s) PROVE TwoFactorInv'
    BY <1>0, <1>4, QuitsIs, AsksQuiet DEF Throttled
<1>5. ASSUME NEW s \in Sessions, ClearRecord(s) PROVE TwoFactorInv'
    <2>1. ask' = [ask EXCEPT ![s].at = "cleared"] /\ ask[s].at = "right"
        BY <1>5 DEF ClearRecord
    <2>2. ask' \in [Sessions -> Ask] /\ \A t \in Sessions : t # s => ask'[t] = ask[t]
        BY <1>0, <2>1 DEF Ask
    <2>3. ask'[s].kind = ask[s].kind /\ ask'[s].user = ask[s].user /\ ask'[s].code = ask[s].code
        BY <1>0, <2>1 DEF Ask
    <2>4. Recovers(s) => ask[s].code \in ask[s].user.codes
        BY <2>1 DEF TwoFactorInv, CodesInv
    <2> QED
        BY <1>0, <1>5, <2>2, <2>3, <2>4, AsksQuiet DEF ClearRecord
<1>6. ASSUME NEW s \in Sessions, Through(s) PROVE TwoFactorInv'
    <2>1. pending' \in [Sessions -> Sealed]
        BY <1>0, <1>6, NoAskIs DEF Through, MarkPassed, PutPendingSecret
    <2> QED
        BY <1>0, <1>6, <2>1, QuitsIs, AsksQuiet DEF Through
<1>7. ASSUME NEW s \in Sessions, StoreSecret(s) PROVE TwoFactorInv'
    <2>1. /\ enrolled < MaxEnrolments /\ enrolled' = enrolled + 1
          /\ account' = [on |-> TRUE, sealed |-> Seal(Secret(s).secret), codes |-> NewCodes]
          /\ UNCHANGED <<vaultKey, secrets, used, both>> /\ Quits(s)
        BY <1>7 DEF StoreSecret
    <2>2. ask[s].user.sealed \in Sealed
        BY <1>0 DEF Ask, Account
    <2>3. Seal(Secret(s).secret) \in Sealed
        BY <1>0, <2>2 DEF Secret, Seal, Sealed
    <2>4. /\ CodesEach * enrolled \in Nat /\ NewCodes \subseteq Codes
          /\ \A c \in NewCodes : c > CodesEach * enrolled /\ c <= CodesEach * (enrolled + 1)
          /\ CodesEach * (enrolled + 1) = CodesEach * enrolled + CodesEach
        BY <1>0, <2>1, EnrolmentCodes
    <2>5. account' \in Account /\ account'.codes = NewCodes
        BY <2>1, <2>3, <2>4 DEF Account
    <2>6. pending' \in [Sessions -> Sealed]
        BY <1>0, <1>7, NoAskIs DEF StoreSecret, MarkPassed, PutPendingSecret
    <2>7. enrolled' \in 0..MaxEnrolments
        BY <1>0, <2>1
    <2>8. TwoFactorTypeOK'
        BY <2>1, <2>5, <2>6, <2>7, QuitsIs DEF TwoFactorInv, TwoFactorTypeOK
    <2>9. Issued \subseteq Issued' /\ NewCodes \subseteq Issued' /\ NewCodes \cap Issued = {}
        BY <1>0, <2>1, <2>4 DEF Issued, Codes
    <2>10. CodesInv'
        BY <2>1, <2>5, <2>9, QuitsIs, NoAskIs DEF TwoFactorInv, CodesInv, Recovers
    <2>11. \A c \in NewCodes : used[c] = 0
        BY <1>0, <2>4, <2>9 DEF TwoFactorInv, CodesInv
    <2>12. \A t \in Sessions : Recovers(t)' => Recovers(t) /\ ask'[t].user = ask[t].user
        BY <2>1, QuitsIs, NoAskIs DEF Recovers
    <2>13. SpendingInv'
        BY <2>1, <2>5, <2>11, <2>12 DEF TwoFactorInv, SpendingInv
    <2> QED
        BY <2>8, <2>10, <2>13 DEF TwoFactorInv
<1>8. ASSUME NEW s \in Sessions, SpendCode(s) PROVE TwoFactorInv'
    <2>1. /\ ask[s].at = "cleared" /\ Recovers(s)
          /\ account' = [account EXCEPT !.codes = remaining(s)]
          /\ used' \in {used, [used EXCEPT ![ask[s].code] = @ + 1]}
          /\ UNCHANGED <<vaultKey, secrets, enrolled, both>> /\ Quits(s)
        BY <1>8 DEF SpendCode, Recovers
    <2>2. /\ ask[s].code \in ask[s].user.codes /\ ask[s].user.codes \subseteq Issued
          /\ ask[s].code \in Issued /\ Issued \subseteq Codes
        BY <2>1 DEF TwoFactorInv, CodesInv, Issued
    <2>3. remaining(s) = ask[s].user.codes \ {ask[s].code}
        BY DEF remaining
    <2>4. account' \in Account /\ account'.codes = remaining(s)
        BY <1>0, <2>1, <2>2, <2>3 DEF Account
    <2>5. pending' \in [Sessions -> Sealed]
        BY <1>0, <1>8, NoAskIs DEF SpendCode, MarkPassed, PutPendingSecret
    <2>6. /\ used' \in [Codes -> Nat]
          /\ \A c \in Codes : c # ask[s].code => used'[c] = used[c]
          /\ used'[ask[s].code] \in {used[ask[s].code], used[ask[s].code] + 1}
        BY <1>0, <2>1, <2>2
    <2>7. TwoFactorTypeOK'
        BY <2>1, <2>4, <2>5, <2>6, QuitsIs DEF TwoFactorInv, TwoFactorTypeOK
    <2>8. Issued' = Issued
        BY <2>1 DEF Issued
    <2>9. CodesInv'
        <3>1. account'.codes \subseteq Issued'
            BY <2>2, <2>3, <2>4, <2>8
        <3>2. \A c \in Codes : used'[c] > 0 => c \in Issued'
            BY <2>2, <2>6, <2>8 DEF TwoFactorInv, CodesInv
        <3> QED
            BY <2>1, <2>8, <3>1, <3>2, QuitsIs, NoAskIs DEF TwoFactorInv, CodesInv, Recovers
    <2>10. ASSUME ~both'
           PROVE  /\ \A t \in Sessions : ~Recovers(t)'
                  /\ \A c \in account'.codes : used'[c] = 0
                  /\ \A c \in Codes : used'[c] <= 1
        <3>1. ~both
            BY <2>1, <2>10
        <3>2. \A c \in ask[s].user.codes : used[c] = 0
            BY <2>1, <3>1 DEF TwoFactorInv, SpendingInv
        <3>3. \A t \in Sessions : ~Recovers(t)'
            BY <2>1, <3>1, QuitsIs, NoAskIs DEF TwoFactorInv, SpendingInv, Recovers
        <3>4. \A c \in account'.codes : used'[c] = 0
            BY <2>2, <2>3, <2>4, <2>6, <3>2
        <3>5. \A c \in Codes : used[c] <= 1
            BY <3>1 DEF TwoFactorInv, SpendingInv
        <3>6. \A c \in Codes : used'[c] <= 1
            BY <2>2, <2>6, <3>2, <3>5
        <3> QED
            BY <3>3, <3>4, <3>6
    <2>11. SpendingInv'
        BY <2>10 DEF SpendingInv
    <2> QED
        BY <2>7, <2>9, <2>11 DEF TwoFactorInv
<1>9. ASSUME NEW s \in Sessions, TurnOff(s) PROVE TwoFactorInv'
    BY <1>0, <1>9, QuitsIs, NoAskIs, AsksQuiet DEF TurnOff
<1>10. ASSUME NEW s \in Sessions, GiveUp(s) PROVE TwoFactorInv'
    BY <1>0, <1>10, QuitsIs, AsksQuiet DEF GiveUp
<1>11. CASE ReplaceKey
    <2>1. ask' \in [Sessions -> Ask] /\ \A s \in Sessions : ask'[s] = NoAsk
        BY <1>11, NoAskIs DEF ReplaceKey
    <2>2. vaultKey' \in 1..MaxVaultKeys
        BY <1>0, <1>11 DEF ReplaceKey
    <2> QED
        BY <1>0, <1>11, <2>1, <2>2, AsksQuiet DEF ReplaceKey
<1>12. CASE UNCHANGED <<limiterVars, twoFactorVars>>
    BY <1>0, <1>12, AsksQuiet DEF twoFactorVars
<1>13. ASSUME NEW s \in Sessions,
              \/ \E kind \in {"enable", "challenge", "disable"}, code \in 0..MaxSecrets : Read(s, kind, code)
              \/ \E code \in Codes \cup {0} : Read(s, "recover", code)
       PROVE  TwoFactorInv'
    <2>1. CodesEach * MaxEnrolments \in Nat
        OBVIOUS
    <2>2. Codes \subseteq Nat
        BY <2>1 DEF Codes
    <2> QED
        BY <1>2, <1>13, <2>2
<1> QED
    BY <1>1, <1>3, <1>4, <1>5, <1>6, <1>7, <1>8, <1>9, <1>10, <1>11, <1>12, <1>13 DEF TwoFactorNext

\* ConsumeRecoveryCode and the write of what is left, before the session is let
\* through: while no two recoveries of the account overlap, a code lets in once and
\* is not stored afterwards, for any number of sessions, enrolments and codes, and
\* whichever request fails or is cut off at any step.
THEOREM CodesAreSpent == TwoFactorSpec => []CodeSpentOnce
<1>1. TwoFactorInv => CodeSpentOnce
    BY DEF TwoFactorInv, TwoFactorTypeOK, SpendingInv, CodeSpentOnce
<1>2. TwoFactorInit => TwoFactorInv
    BY TwoFactorInitInv
<1> QED
    BY <1>1, <1>2, TwoFactorStep, PTL DEF TwoFactorSpec
-----------------------------------------------------------------------------
(* Sessions in Redis.                                                      *)

\* What the time between loading and saving a session leaves of its lifetime.
VisitOK(v) ==
    /\ v.at # "idle" => v.since <= now /\ now <= v.since + MaxVisit
    /\ v.at \in {"handler", "removed"} =>
          v.expires <= v.since + Lifetime /\ v.expires + Minute >= v.since + Lifetime
    /\ v.at \in {"set", "added"} => v.ttl + Hour >= Lifetime
    /\ v.at \in {"set", "added", "removed"} => v.id \in Id

\* Redis drops a key with its payload, and no payload outlives a lifetime.
TimesKept ==
    /\ now <= RedisEnd
    /\ \A q \in Visits : VisitOK(visit[q])
    /\ \A s \in Id : keys[s] # NoKey =>
          /\ keys[s].until > now /\ keys[s].expires <= now + Lifetime
          /\ keys[s].expires > now => keys[s].until = keys[s].expires
    /\ index # NoIndex => index.until > now

\* A save of session s has stored the key, or has named it in the index as well.
InSet(s) == \E q \in Visits : visit[q].at = "set" /\ visit[q].id = s
InSave(s) == \E q \in Visits : visit[q].at \in {"set", "added"} /\ visit[q].id = s

\* The index names s, for as long as s lives.
Listed(s) == s \in index.ids /\ (keys[s].expires > now => index.until >= keys[s].expires)

ListedInv == \A s \in Id : Alive(s) /\ s \notin astray /\ ~InSave(s) => Listed(s)

\* What the index names while a DestroyForUser is under way is among what it read,
\* unless it is being saved again.
WipeInv ==
    /\ wipe.at # "idle" =>
          \A s \in Id : Alive(s) /\ s \notin astray /\ s \in index.ids /\ ~InSet(s) => s \in wipe.ids
    /\ wipe.at = "keys" => wipe.ids = {}

RedisInv == now \in Nat /\ RedisTypeOK /\ TimesKept /\ ListedInv /\ WipeInv

LEMMA NoVisitIs ==
    /\ NoVisit \in Visit /\ NoVisit.at = "idle" /\ NoVisit.id = 0
    /\ NoIndex \in [ids: SUBSET Id, until: Nat] /\ NoIndex.ids = {}
    /\ NoWipe \in [at: {"idle", "read", "keys"}, ids: SUBSET Id] /\ NoWipe.at = "idle"
BY RedisSessionsAssumption DEF NoVisit, Visit, NoIndex, NoWipe, Id

LEMMA RedisInitInv == now = 0 /\ RedisInit => RedisInv
<1> SUFFICES ASSUME now = 0, RedisInit PROVE RedisInv
    OBVIOUS
<1> USE RedisSessionsAssumption, NoVisitIs
<1>1. RedisTypeOK
    BY DEF RedisInit, RedisTypeOK
<1>2. TimesKept
    BY DEF RedisInit, TimesKept, VisitOK
<1>3. ListedInv /\ WipeInv
    BY DEF RedisInit, ListedInv, WipeInv, Alive
<1> QED
    BY <1>1, <1>2, <1>3 DEF RedisInv

\* The types that the steps below use.
LEMMA RedisTypes ==
    ASSUME RedisInv
    PROVE  /\ now \in Nat /\ keys \in [Id -> Key \cup {NoKey}]
           /\ \A s \in Id : keys[s] # NoKey => keys[s] \in Key /\ keys[s].expires \in Nat /\ keys[s].until \in Nat
           /\ index \in [ids: SUBSET Id, until: Nat] /\ index.ids \subseteq Id /\ index.until \in Nat
           /\ visit \in [Visits -> Visit]
           /\ \A q \in Visits : /\ visit[q] \in Visit /\ visit[q].id \in 0..MaxIds
                                /\ visit[q].expires \in Nat /\ visit[q].since \in Nat /\ visit[q].ttl \in Nat
BY DEF RedisInv, RedisTypeOK, Key, Visit

\* A step of one request that has nothing to do with a save.
LEMMA VisitMoves ==
    ASSUME RedisInv, NEW q \in Visits, NEW v \in Visit, VisitOK(v), visit' = [visit EXCEPT ![q] = v],
           visit[q].at \notin {"set", "added"}, v.at \notin {"set", "added"},
           keys' \in [Id -> Key \cup {NoKey}], \A s \in Id : keys'[s] \in {keys[s], NoKey},
           UNCHANGED <<now, index, drawnIds, wipe, astray>>
    PROVE  RedisInv'
<1> USE RedisSessionsAssumption, RedisTypes
<1>0. visit'[q] = v /\ visit' \in [Visits -> Visit] /\ \A p \in Visits : p # q => visit'[p] = visit[p]
    OBVIOUS
<1>1. RedisTypeOK'
    BY <1>0 DEF RedisInv, RedisTypeOK
<1>2. \A p \in Visits : VisitOK(visit[p])'
    BY <1>0 DEF RedisInv, TimesKept, VisitOK
<1>3. TimesKept'
    BY <1>2 DEF RedisInv, TimesKept
<1>4. \A s \in Id : (InSave(s)' <=> InSave(s)) /\ (InSet(s)' <=> InSet(s)) /\ (Alive(s)' => Alive(s) /\ keys'[s] = keys[s])
    BY <1>0 DEF InSave, InSet, Alive
<1>5. ListedInv'
    BY <1>4 DEF RedisInv, ListedInv, Listed
<1>6. WipeInv'
    BY <1>4 DEF RedisInv, WipeInv
<1> QED
    BY <1>1, <1>3, <1>5, <1>6 DEF RedisInv

\* Loading, a request that saves nothing, and the Del of a Destroy.
LEMMA LoadsKeep ==
    ASSUME RedisInv, NEW q \in Visits,
           LoadFresh(q) \/ (\E s \in Id : LoadStored(q, s)) \/ SaveNone(q) \/ DeleteKey(q)
    PROVE  RedisInv'
<1> USE RedisSessionsAssumption, RedisTypes
<1> DEFINE n == [NoVisit EXCEPT !.at = "handler", !.expires = now + Lifetime, !.since = now]
<1>a. PICK l \in Nat : l = now + Lifetime
    OBVIOUS
<1>b. n = [NoVisit EXCEPT !.at = "handler", !.expires = l, !.since = now]
    BY <1>a
<1>0. n \in Visit /\ n.at = "handler" /\ n.expires = now + Lifetime /\ n.since = now
    BY <1>a, <1>b, NoVisitIs DEF Visit
<1>1. NewVisit = n
    BY DEF NewVisit
<1> HIDE DEF n
<1>2. CASE LoadFresh(q)
    <2>1. VisitOK(n)
        BY <1>0 DEF VisitOK
    <2> QED
        BY <1>0, <1>1, <1>2, <2>1, VisitMoves DEF LoadFresh, Begins
<1>3. ASSUME NEW s \in Id, LoadStored(q, s) PROVE RedisInv'
    <2>1. keys[s] # NoKey /\ keys[s].expires <= now + Lifetime
        BY <1>3 DEF LoadStored, Alive, RedisInv, TimesKept
    <2>2. PICK x \in Nat :
             /\ x = IF now + Lifetime > keys[s].expires + Minute THEN now + Lifetime ELSE keys[s].expires
             /\ x <= now + Lifetime /\ x + Minute >= now + Lifetime
        BY <2>1
    <2> DEFINE v == [n EXCEPT !.id = s, !.expires = x]
    <2>3. Begins(q, v)
        BY <1>0, <1>1, <1>3, <2>2 DEF LoadStored, Visit
    <2>a. s \in 0..MaxIds
        BY DEF Id
    <2>4. v \in Visit /\ v.at = "handler" /\ v.expires = x /\ v.since = now
        BY <1>0, <2>a DEF Visit
    <2> HIDE DEF v
    <2>5. VisitOK(v)
        BY <2>2, <2>4 DEF VisitOK
    <2> QED
        BY <2>3, <2>4, <2>5, VisitMoves DEF Begins
<1>4. CASE SaveNone(q)
    BY <1>4, NoVisitIs, VisitMoves DEF SaveNone, Ends, VisitOK
<1>5. CASE DeleteKey(q)
    <2> DEFINE v == [visit[q] EXCEPT !.at = "handler"]
    <2>1. visit[q].at = "removed" /\ visit' = [visit EXCEPT ![q] = v] /\ UNCHANGED <<now, index, drawnIds, wipe, astray>>
          /\ keys' \in {keys, [keys EXCEPT ![visit[q].id] = NoKey]}
        BY <1>5 DEF DeleteKey
    <2>2. v \in Visit /\ v.at = "handler" /\ v.expires = visit[q].expires /\ v.since = visit[q].since
        BY DEF Visit
    <2> HIDE DEF v
    <2>3. VisitOK(v)
        BY <2>1, <2>2 DEF RedisInv, TimesKept, VisitOK
    <2> QED
        BY <2>1, <2>2, <2>3, VisitMoves
<1> QED
    BY <1>2, <1>3, <1>4, <1>5

\* Set.
LEMMA SetKeeps ==
    ASSUME RedisInv, NEW q \in Visits, NEW h \in {"edit", "login"}, SetKey(q, h)
    PROVE  RedisInv'
<1> USE RedisSessionsAssumption, RedisTypes
<1>0. PICK s \in Id, ttl \in Nat :
         /\ visit[q].at = "handler" /\ ttl = IF visit[q].expires > now THEN visit[q].expires - now ELSE Lifetime
         /\ keys' = [keys EXCEPT ![s] = [expires |-> visit[q].expires, until |-> now + ttl]]
         /\ drawnIds' \in {drawnIds, s}
         /\ visit' = [visit EXCEPT ![q] = [NoVisit EXCEPT !.at = "set", !.id = s, !.since = visit[q].since, !.ttl = ttl]]
         /\ astray' = astray \ {s}
         /\ UNCHANGED <<now, index, wipe>>
    <2> DEFINE s == IF h = "login" THEN drawnIds + 1 ELSE visit[q].id
               ttl == IF visit[q].expires > now THEN visit[q].expires - now ELSE Lifetime
    <2>1. s \in Id /\ ttl \in Nat
        BY DEF SetKey
    <2>2. drawnIds' \in {drawnIds, s}
        BY DEF SetKey
    <2> QED
        BY <2>1, <2>2 DEF SetKey
<1> DEFINE k == [expires |-> visit[q].expires, until |-> now + ttl]
           v == [NoVisit EXCEPT !.at = "set", !.id = s, !.since = visit[q].since, !.ttl = ttl]
<1>1. k \in Key /\ k.expires = visit[q].expires /\ k.until = now + ttl
    BY DEF Key
<1>a. s \in 0..MaxIds
    BY DEF Id
<1>2. v \in Visit /\ v.at = "set" /\ v.id = s /\ v.since = visit[q].since /\ v.ttl = ttl
    BY <1>a, NoVisitIs DEF Visit
<1>3. keys' = [keys EXCEPT ![s] = k] /\ visit' = [visit EXCEPT ![q] = v]
    BY <1>0
<1> HIDE DEF k, v
<1>4. /\ keys' \in [Id -> Key \cup {NoKey}] /\ keys'[s] = k /\ \A x \in Id : x # s => keys'[x] = keys[x]
      /\ visit' \in [Visits -> Visit] /\ visit'[q] = v /\ \A p \in Visits : p # q => visit'[p] = visit[p]
    BY <1>1, <1>2, <1>3
<1>5. RedisTypeOK'
    <2>1. drawnIds' \in 0..MaxIds
        BY <1>0, <1>a DEF RedisInv, RedisTypeOK
    <2> QED
        BY <1>0, <1>4, <2>1 DEF RedisInv, RedisTypeOK
<1>6. /\ visit[q].since <= now /\ now <= visit[q].since + MaxVisit
      /\ visit[q].expires <= visit[q].since + Lifetime
      /\ visit[q].expires + Minute >= visit[q].since + Lifetime
    BY <1>0 DEF RedisInv, TimesKept, VisitOK
<1>7. ttl + Hour >= Lifetime
    BY <1>0, <1>6
<1>8. VisitOK(v)
    BY <1>2, <1>6, <1>7 DEF VisitOK
<1>9. TimesKept'
    <2>1. \A p \in Visits : VisitOK(visit[p])'
        BY <1>0, <1>4, <1>8 DEF RedisInv, TimesKept, VisitOK
    <2>2. k.until > now /\ k.expires <= now + Lifetime /\ (k.expires > now => k.until = k.expires)
        BY <1>0, <1>1, <1>6
    <2> QED
        BY <1>0, <1>4, <2>1, <2>2 DEF RedisInv, TimesKept
<1>10. /\ InSet(s)' /\ InSave(s)'
       /\ \A x \in Id : x # s => /\ InSave(x) => InSave(x)'
                                 /\ InSet(x) => InSet(x)'
                                 /\ Alive(x)' => Alive(x)
                                 /\ Listed(x) => Listed(x)'
    <2>1. InSet(s)' /\ InSave(s)'
        BY <1>2, <1>4 DEF InSet, InSave
    <2>2. ASSUME NEW x \in Id, x # s
          PROVE  (InSave(x) => InSave(x)') /\ (InSet(x) => InSet(x)')
        BY <1>0, <1>4, <2>2 DEF InSet, InSave
    <2>3. ASSUME NEW x \in Id, x # s
          PROVE  (Alive(x)' => Alive(x)) /\ (Listed(x) => Listed(x)')
        BY <1>0, <1>4, <2>3 DEF Alive, Listed
    <2> QED
        BY <2>1, <2>2, <2>3
<1>11. ListedInv'
    BY <1>0, <1>10 DEF RedisInv, ListedInv
<1>12. WipeInv'
    BY <1>0, <1>10 DEF RedisInv, WipeInv
<1> QED
    BY <1>0, <1>5, <1>9, <1>11, <1>12 DEF RedisInv

\* SAdd.
LEMMA AddKeeps ==
    ASSUME RedisInv, NEW q \in Visits, AddToIndex(q)
    PROVE  RedisInv'
<1> USE RedisSessionsAssumption, RedisTypes
<1>0. PICK s \in Id : s = visit[q].id
    BY DEF AddToIndex, RedisInv, TimesKept, VisitOK
<1>a. PICK u \in Nat : u = NoExpiry /\ u >= now + Lifetime /\ u > now
    BY DEF NoExpiry, RedisInv, TimesKept
<1>1. PICK w \in Nat : w = IF index = NoIndex THEN NoExpiry ELSE index.until
    BY <1>a
<1> DEFINE i == [ids |-> index.ids \cup {s}, until |-> w]
           v == [visit[q] EXCEPT !.at = "added"]
<1>2. /\ index' = i /\ visit' = [visit EXCEPT ![q] = v] /\ visit[q].at = "set"
      /\ astray' = IF wipe.at \in {"read", "keys"} THEN astray \cup {s} ELSE astray
      /\ UNCHANGED <<now, keys, drawnIds, wipe>>
    BY <1>0, <1>1 DEF AddToIndex
<1>3. i \in [ids: SUBSET Id, until: Nat] /\ i.ids = index.ids \cup {s} /\ i.until = w
    OBVIOUS
<1>4. v \in Visit /\ v.at = "added" /\ v.id = s /\ v.since = visit[q].since /\ v.ttl = visit[q].ttl
    BY <1>0 DEF Visit
<1> HIDE DEF i, v
<1>5. visit' \in [Visits -> Visit] /\ visit'[q] = v /\ \A p \in Visits : p # q => visit'[p] = visit[p]
    BY <1>2, <1>4
<1>6. RedisTypeOK'
    BY <1>2, <1>3, <1>5 DEF RedisInv, RedisTypeOK
<1>7. VisitOK(v)
    BY <1>2, <1>4 DEF RedisInv, TimesKept, VisitOK
<1>8. TimesKept'
    <2>1. \A p \in Visits : VisitOK(visit[p])'
        BY <1>2, <1>5, <1>7 DEF RedisInv, TimesKept, VisitOK
    <2>2. w > now
        BY <1>a, <1>1 DEF RedisInv, TimesKept
    <2> QED
        BY <1>2, <1>3, <2>1, <2>2 DEF RedisInv, TimesKept
<1>9. InSave(s)' /\ \A x \in Id : /\ InSave(x) => InSave(x)'
                                  /\ x # s => (InSet(x) => InSet(x)')
                                  /\ Alive(x)' => Alive(x)
    BY <1>0, <1>2, <1>4, <1>5 DEF InSave, InSet, Alive
<1>10. \A x \in Id : keys[x] # NoKey /\ Listed(x) => Listed(x)'
    <2>1. \A x \in Id : keys[x] # NoKey => keys[x].expires <= u
        BY <1>a DEF RedisInv, TimesKept
    <2> QED
        BY <1>a, <1>1, <1>2, <1>3, <2>1 DEF Listed
<1>11. ListedInv'
    BY <1>2, <1>9, <1>10 DEF RedisInv, ListedInv, Alive
<1>12. WipeInv'
    <2>1. wipe.at \in {"idle", "read", "keys"}
        BY DEF RedisInv, RedisTypeOK
    <2> QED
        BY <1>2, <1>3, <1>9, <2>1 DEF RedisInv, WipeInv
<1> QED
    BY <1>2, <1>6, <1>8, <1>11, <1>12 DEF RedisInv

\* Expire, after which the index outlives whatever it names.
LEMMA ExpireKeeps ==
    ASSUME RedisInv, NEW q \in Visits, ExpireIndex(q)
    PROVE  RedisInv'
<1> USE RedisSessionsAssumption, RedisTypes
<1>0. PICK s \in Id : s = visit[q].id
    BY DEF ExpireIndex, RedisInv, TimesKept, VisitOK
<1>1. PICK w \in Nat : w = now + IndexTTL(visit[q].ttl)
    BY DEF IndexTTL
<1>2. w >= now + Lifetime /\ w > now
    BY <1>1 DEF ExpireIndex, IndexTTL, RedisInv, TimesKept, VisitOK
<1> DEFINE i == [index EXCEPT !.until = w]
<1>3. /\ index' = IF index = NoIndex THEN NoIndex ELSE i
      /\ visit' = [visit EXCEPT ![q] = NoVisit]
      /\ astray' = IF s \in index.ids THEN astray ELSE astray \cup {s}
      /\ UNCHANGED <<now, keys, drawnIds, wipe>>
    BY <1>0, <1>1 DEF ExpireIndex, Ends
<1>4. i \in [ids: SUBSET Id, until: Nat] /\ i.ids = index.ids /\ i.until = w
    OBVIOUS
<1> HIDE DEF i
<1>5. visit' \in [Visits -> Visit] /\ visit'[q] = NoVisit /\ \A p \in Visits : p # q => visit'[p] = visit[p]
    BY <1>3, NoVisitIs
<1>6. index' \in [ids: SUBSET Id, until: Nat] /\ index'.ids = index.ids
    BY <1>3, <1>4, NoVisitIs
<1>7. RedisTypeOK'
    BY <1>0, <1>3, <1>5, <1>6 DEF RedisInv, RedisTypeOK
<1>8. TimesKept'
    <2>1. \A p \in Visits : VisitOK(visit[p])'
        BY <1>3, <1>5, NoVisitIs DEF RedisInv, TimesKept, VisitOK
    <2> QED
        BY <1>2, <1>3, <1>4, <2>1 DEF RedisInv, TimesKept
<1>9. \A x \in Id : /\ x # s => (InSave(x) => InSave(x)')
                    /\ InSet(x) => InSet(x)'
                    /\ Alive(x)' => Alive(x)
    <2>1. visit[q].at = "added"
        BY DEF ExpireIndex
    <2> QED
        BY <1>0, <1>3, <1>5, <2>1 DEF InSave, InSet, Alive
<1>10. ASSUME NEW x \in Id, keys[x] # NoKey, x \in index.ids PROVE Listed(x)'
    <2>1. index # NoIndex /\ index'.until = w
        BY <1>3, <1>4, <1>10, NoVisitIs
    <2>2. keys[x].expires <= w
        BY <1>2, <1>10 DEF RedisInv, TimesKept
    <2> QED
        BY <1>3, <1>6, <1>10, <2>1, <2>2 DEF Listed
<1>11. ASSUME NEW x \in Id, Alive(x)', x \notin astray', ~InSave(x)' PROVE Listed(x)'
    <2>1. CASE x = s
        BY <1>3, <1>9, <1>10, <1>11, <2>1 DEF Alive
    <2>2. CASE x # s
        BY <1>3, <1>9, <1>10, <1>11, <2>2 DEF Alive, RedisInv, ListedInv, Listed
    <2> QED
        BY <2>1, <2>2
<1>12. WipeInv'
    BY <1>3, <1>6, <1>9 DEF RedisInv, WipeInv
<1> QED
    BY <1>3, <1>7, <1>8, <1>11, <1>12 DEF RedisInv, ListedInv

\* A save or a Destroy that is cut short.
LEMMA FailKeeps ==
    ASSUME RedisInv, NEW q \in Visits, SaveFails(q)
    PROVE  RedisInv'
<1> USE RedisSessionsAssumption, RedisTypes
<1>0. PICK s \in Id : s = visit[q].id
    BY DEF SaveFails, RedisInv, TimesKept, VisitOK
<1>1. visit' = [visit EXCEPT ![q] = NoVisit] /\ astray' = astray \cup {s}
      /\ UNCHANGED <<now, keys, index, drawnIds, wipe>>
    BY <1>0 DEF SaveFails, Ends
<1>2. visit' \in [Visits -> Visit] /\ visit'[q] = NoVisit /\ \A p \in Visits : p # q => visit'[p] = visit[p]
    BY <1>1, NoVisitIs
<1>3. RedisTypeOK'
    BY <1>0, <1>1, <1>2 DEF RedisInv, RedisTypeOK
<1>4. \A p \in Visits : VisitOK(visit[p])'
    BY <1>1, <1>2, NoVisitIs DEF RedisInv, TimesKept, VisitOK
<1>5. TimesKept'
    BY <1>1, <1>4 DEF RedisInv, TimesKept
<1>6. \A x \in Id : x # s => (InSave(x) => InSave(x)') /\ (InSet(x) => InSet(x)')
    BY <1>0, <1>2 DEF InSave, InSet
<1>7. ListedInv'
    BY <1>1, <1>6 DEF RedisInv, ListedInv, Listed, Alive
<1>8. WipeInv'
    BY <1>1, <1>6 DEF RedisInv, WipeInv, Alive
<1> QED
    BY <1>1, <1>3, <1>5, <1>7, <1>8 DEF RedisInv

\* SRem.
LEMMA RemoveKeeps ==
    ASSUME RedisInv, NEW q \in Visits, RemoveFromIndex(q)
    PROVE  RedisInv'
<1> USE RedisSessionsAssumption, RedisTypes
<1>0. PICK s \in Id : s = visit[q].id
    BY DEF RemoveFromIndex, Id
<1> DEFINE i == [index EXCEPT !.ids = @ \ {s}]
           v == [visit[q] EXCEPT !.at = "removed"]
<1>1. /\ index' \in {index, IF index.ids \subseteq {s} THEN NoIndex ELSE i}
      /\ visit' = [visit EXCEPT ![q] = v] /\ visit[q].at = "handler"
      /\ astray' = astray \cup {s} /\ UNCHANGED <<now, keys, drawnIds, wipe>>
    BY <1>0 DEF RemoveFromIndex
<1>2. i \in [ids: SUBSET Id, until: Nat] /\ i.ids = index.ids \ {s} /\ i.until = index.until
    OBVIOUS
<1>3. v \in Visit /\ v.at = "removed" /\ v.id = s /\ v.since = visit[q].since /\ v.expires = visit[q].expires
    BY <1>0 DEF Visit
<1> HIDE DEF i, v
<1>4. visit' \in [Visits -> Visit] /\ visit'[q] = v /\ \A p \in Visits : p # q => visit'[p] = visit[p]
    BY <1>1, <1>3
<1>5. /\ index' \in [ids: SUBSET Id, until: Nat] /\ index'.ids \subseteq index.ids
      /\ index' # NoIndex => index # NoIndex /\ index'.until = index.until
      /\ \A x \in index.ids : x # s => x \in index'.ids /\ index'.until = index.until
    BY <1>1, <1>2, NoVisitIs
<1>6. RedisTypeOK'
    BY <1>0, <1>1, <1>4, <1>5 DEF RedisInv, RedisTypeOK
<1>7. VisitOK(v)
    BY <1>1, <1>3 DEF RedisInv, TimesKept, VisitOK
<1>8. \A p \in Visits : VisitOK(visit[p])'
    BY <1>1, <1>4, <1>7 DEF RedisInv, TimesKept, VisitOK
<1>9. TimesKept'
    BY <1>1, <1>5, <1>8 DEF RedisInv, TimesKept
<1>10. \A x \in Id : (InSave(x) => InSave(x)') /\ (InSet(x) => InSet(x)')
    BY <1>1, <1>4 DEF InSave, InSet
<1>11. ListedInv'
    BY <1>1, <1>5, <1>10 DEF RedisInv, ListedInv, Listed, Alive
<1>12. WipeInv'
    BY <1>1, <1>5, <1>10 DEF RedisInv, WipeInv, Alive
<1> QED
    BY <1>1, <1>6, <1>9, <1>11, <1>12 DEF RedisInv

\* DestroyForUser.
LEMMA WipeKeeps ==
    ASSUME RedisInv, ReadIndex \/ DeleteKeys \/ DeleteIndex \/ WipeFails
    PROVE  RedisInv'
<1> USE RedisSessionsAssumption, RedisTypes
<1>0. /\ UNCHANGED <<now, drawnIds, visit, astray>>
      /\ wipe.at \in {"idle", "read", "keys"} /\ wipe.ids \subseteq Id
    BY DEF ReadIndex, DeleteKeys, DeleteIndex, WipeFails, RedisInv, RedisTypeOK
<1>1. \A s \in Id : (InSave(s)' <=> InSave(s)) /\ (InSet(s)' <=> InSet(s))
    BY <1>0 DEF InSave, InSet
<1>2. \A p \in Visits : VisitOK(visit[p])'
    BY <1>0 DEF RedisInv, TimesKept, VisitOK
<1>3. CASE ReadIndex \/ WipeFails
    <2>1. UNCHANGED <<keys, index>>
        BY <1>3 DEF ReadIndex, WipeFails
    <2>2. wipe' \in [at: {"idle", "read", "keys"}, ids: SUBSET Id]
        BY <1>3, NoVisitIs DEF ReadIndex, WipeFails
    <2>3. WipeInv'
        BY <1>3, <2>1, NoVisitIs DEF ReadIndex, WipeFails, WipeInv
    <2>4. ListedInv'
        BY <1>0, <1>1, <2>1 DEF RedisInv, ListedInv, Listed, Alive
    <2> QED
        BY <1>0, <1>2, <2>1, <2>2, <2>3, <2>4 DEF RedisInv, RedisTypeOK, TimesKept
<1>4. CASE DeleteKeys
    <2>1. /\ keys' = [s \in Id |-> IF s \in wipe.ids THEN NoKey ELSE keys[s]]
          /\ wipe' = [wipe EXCEPT !.at = "keys", !.ids = {}] /\ index' = index /\ wipe.at = "read"
        BY <1>4 DEF DeleteKeys
    <2>2. wipe' \in [at: {"idle", "read", "keys"}, ids: SUBSET Id] /\ wipe'.at = "keys" /\ wipe'.ids = {}
        BY <2>1 DEF RedisInv, RedisTypeOK
    <2>3. keys' \in [Id -> Key \cup {NoKey}] /\ \A s \in Id : keys'[s] \in {keys[s], NoKey}
        BY <2>1
    <2>4. \A s \in Id : Alive(s)' => Alive(s) /\ keys'[s] = keys[s] /\ s \notin wipe.ids
        BY <1>0, <2>1 DEF Alive
    <2>5. ListedInv'
        BY <1>0, <1>1, <2>1, <2>4 DEF RedisInv, ListedInv, Listed
    <2>6. WipeInv'
        BY <1>0, <1>1, <2>1, <2>2, <2>4 DEF RedisInv, WipeInv
    <2>7. RedisTypeOK' /\ TimesKept'
        BY <1>0, <1>2, <2>1, <2>2, <2>3 DEF RedisInv, RedisTypeOK, TimesKept
    <2> QED
        BY <1>0, <2>5, <2>6, <2>7 DEF RedisInv
<1>5. CASE DeleteIndex
    <2>1. index' = NoIndex /\ wipe' = NoWipe /\ keys' = keys /\ wipe.at = "keys"
        BY <1>5 DEF DeleteIndex
    <2>2. \A s \in Id : Alive(s) /\ s \notin astray => InSave(s)
        BY <2>1 DEF RedisInv, ListedInv, Listed, WipeInv, InSave, InSet
    <2>3. ListedInv'
        BY <1>0, <1>1, <2>1, <2>2 DEF ListedInv, Alive
    <2>4. WipeInv'
        BY <2>1, NoVisitIs DEF WipeInv
    <2>5. RedisTypeOK' /\ TimesKept'
        BY <1>0, <1>2, <2>1, NoVisitIs DEF RedisInv, RedisTypeOK, TimesKept
    <2> QED
        BY <1>0, <2>3, <2>4, <2>5 DEF RedisInv
<1> QED
    BY <1>3, <1>4, <1>5

\* A key goes with its payload, and the index not before what it names.
LEMMA TimeKeeps ==
    ASSUME RedisInv, RedisTime
    PROVE  RedisInv'
<1> USE RedisSessionsAssumption, RedisTypes
<1>0. /\ now < RedisEnd /\ now' = now + 1 /\ UNCHANGED <<drawnIds, visit, wipe>>
      /\ \A q \in Visits : visit[q].at = "idle" \/ now - visit[q].since < MaxVisit
      /\ keys' = [s \in Id |-> IF keys[s] = NoKey \/ now' < keys[s].until THEN keys[s] ELSE NoKey]
      /\ index' = IF now' < index.until THEN index ELSE NoIndex
      /\ astray' = {s \in astray : keys'[s] # NoKey}
    BY DEF RedisTime, Advance
<1>1. /\ keys' \in [Id -> Key \cup {NoKey}]
      /\ \A s \in Id : keys'[s] # NoKey => keys'[s] = keys[s] /\ now' < keys[s].until
    BY <1>0
<1>2. RedisTypeOK'
    BY <1>0, <1>1, NoVisitIs DEF RedisInv, RedisTypeOK
<1>3. \A q \in Visits : VisitOK(visit[q])'
    BY <1>0 DEF RedisInv, TimesKept, VisitOK
<1>4. TimesKept'
    <2>1. \A s \in Id : keys'[s] # NoKey =>
            /\ keys'[s].until > now' /\ keys'[s].expires <= now' + Lifetime
            /\ keys'[s].expires > now' => keys'[s].until = keys'[s].expires
        BY <1>0, <1>1 DEF RedisInv, TimesKept
    <2> QED
        BY <1>0, <1>3, <2>1 DEF RedisInv, TimesKept
<1>5. \A s \in Id : /\ (InSave(s)' <=> InSave(s)) /\ (InSet(s)' <=> InSet(s))
                    /\ Alive(s)' => Alive(s) /\ keys'[s] # NoKey /\ now' <= keys[s].expires
    BY <1>0, <1>1 DEF InSave, InSet, Alive
<1>6. ASSUME NEW s \in Id, Alive(s)', s \notin astray', ~InSave(s)' PROVE Listed(s)'
    <2>1. Alive(s) /\ s \notin astray /\ ~InSave(s) /\ keys'[s] = keys[s] /\ now' < keys[s].until
          /\ keys[s] # NoKey
        BY <1>0, <1>1, <1>5, <1>6
    <2>2. s \in index.ids /\ (keys[s].expires > now => index.until >= keys[s].expires)
        BY <2>1 DEF RedisInv, ListedInv, Listed
    <2>3. keys[s].expires > now /\ keys[s].until = keys[s].expires
        BY <1>0, <1>5, <1>6, <2>1 DEF RedisInv, TimesKept
    <2>4. now' < index.until
        BY <1>0, <2>1, <2>2, <2>3
    <2> QED
        BY <1>0, <2>1, <2>2, <2>3, <2>4 DEF Listed
<1>7. ListedInv'
    BY <1>6 DEF ListedInv
<1>8. index'.ids \subseteq index.ids
    BY <1>0, NoVisitIs
<1>9. WipeInv'
    BY <1>0, <1>5, <1>8 DEF RedisInv, WipeInv
<1> QED
    BY <1>0, <1>2, <1>4, <1>7, <1>9 DEF RedisInv

LEMMA RedisStep == RedisInv /\ [RedisNext]_<<now, redisVars>> => RedisInv'
<1> SUFFICES ASSUME RedisInv, [RedisNext]_<<now, redisVars>> PROVE RedisInv'
    OBVIOUS
<1>1. CASE UNCHANGED <<now, redisVars>>
    <2>1. \A s : (InSave(s)' <=> InSave(s)) /\ (InSet(s)' <=> InSet(s)) /\ (Alive(s)' <=> Alive(s))
                 /\ (Listed(s)' <=> Listed(s))
        BY <1>1 DEF redisVars, InSave, InSet, Alive, Listed
    <2>2. \A q \in Visits : VisitOK(visit[q])' <=> VisitOK(visit[q])
        BY <1>1 DEF redisVars, VisitOK
    <2>3. RedisTypeOK' /\ TimesKept'
        BY <1>1, <2>2 DEF redisVars, RedisInv, RedisTypeOK, TimesKept
    <2>4. ListedInv' /\ WipeInv'
        BY <1>1, <2>1 DEF redisVars, RedisInv, ListedInv, WipeInv
    <2> QED
        BY <1>1, <2>3, <2>4 DEF RedisInv
<1> QED
    BY <1>1, LoadsKeep, SetKeeps, AddKeeps, ExpireKeeps, FailKeeps, RemoveKeeps, WipeKeeps, TimeKeeps
       DEF RedisNext

\* The index DestroyForUser reads names every session of the user that can be
\* loaded and that no request carries, for any number of requests and sessions,
\* whatever was saved, extended, destroyed or has expired in between; not covered
\* are the sessions whose last save was cut short or undone.
THEOREM SessionsAreListed == RedisSpec => []EverySessionListed
<1>1. RedisInv => EverySessionListed
    <2> SUFFICES ASSUME RedisInv, NEW s \in Id, Alive(s), s \notin astray,
                        \A q \in Visits : visit[q].at = "idle" \/ visit[q].id # s
                 PROVE  s \in index.ids
        BY DEF EverySessionListed
    <2>1. ~InSave(s)
        BY DEF InSave
    <2> QED
        BY <2>1 DEF RedisInv, ListedInv, Listed
<1> QED
    BY <1>1, RedisInitInv, RedisStep, PTL DEF RedisSpec
-----------------------------------------------------------------------------
(* Cookies: types.                                                         *)

\* What a handler answers: messages of the request, and a cookie only of messages
\* that exist.
LEMMA HandleTypes ==
    ASSUME BrowserTypeOK, NEW t \in Tabs, NEW h \in Handlers
    PROVE  /\ Handle(t, h).last \in Nat /\ flashes <= Handle(t, h).last
           /\ Handle(t, h).shows \in Seq(Flash)
           /\ Handle(t, h).last <= MaxFlashes => Handle(t, h).setFlash \in FlashCookie \cup {NoCookie}
<1> USE BrowserAssumption, NoCookieAssumption
<1> DEFINE msgs == peek(tab[t].flash)
           adds == {i \in DOMAIN h : h[i] = "add"}
           final == flashes + Cardinality(adds)
           sets == {i \in DOMAIN h : h[i] = "add" \/ msgs # <<>>}
<1>1. msgs \in Seq(Flash)
    <2>1. tab[t].flash \in FlashCookie \cup {NoCookie}
        BY DEF BrowserTypeOK, Tab
    <2> QED
        BY <2>1 DEF peek, Verifies, FlashCookie
<1>2. IsFiniteSet(adds) /\ Cardinality(adds) \in Nat /\ (adds # {} => Cardinality(adds) > 0)
    <2>1. DOMAIN h = 1..Len(h) /\ Len(h) \in Nat
        OBVIOUS
    <2>2. IsFiniteSet(1..Len(h))
        BY <2>1, FS_Interval
    <2>3. adds \in SUBSET (1..Len(h))
        BY <2>1
    <2>4. IsFiniteSet(adds)
        BY <2>2, <2>3, FS_Subset
    <2> QED
        BY <2>4, FS_CardinalityType, FS_EmptySet
<1>3. flashes \in Nat
    BY DEF BrowserTypeOK
<1>4. final \in Nat /\ flashes <= final /\ (adds # {} => final > 0)
    BY <1>2, <1>3
<1>5. Handle(t, h) =
        [last |-> final, shows |-> IF "pull" \in ToSet(h) THEN msgs ELSE <<>>,
         setFlash |-> IF sets = {} THEN NoCookie
                      ELSE IF \E i \in sets : h[i] = "add" /\ \A j \in sets : j <= i
                           THEN Signed(Append(msgs, final))
                           ELSE Deleted]
    BY DEF Handle
<1>6. ASSUME final <= MaxFlashes, \E i \in sets : h[i] = "add" PROVE Signed(Append(msgs, final)) \in FlashCookie
    <2>1. final \in Flash
        BY <1>4, <1>6 DEF Flash
    <2>2. Append(msgs, final) \in Seq(Flash)
        BY <1>1, <2>1
    <2>3. appKey \in 0..MaxKeys
        BY DEF BrowserTypeOK, AppKeys
    <2> HIDE DEF msgs, final
    <2> QED
        BY <2>2, <2>3 DEF Signed, FlashCookie
<1>7. Deleted \in FlashCookie
    BY DEF Deleted, FlashCookie
<1>8. <<>> \in Seq(Flash)
    OBVIOUS
<1> HIDE DEF msgs, final, adds, sets
<1>9. Handle(t, h).last = final /\ Handle(t, h).shows = IF "pull" \in ToSet(h) THEN msgs ELSE <<>>
    BY <1>5
<1>10. Handle(t, h).setFlash =
         IF sets = {} THEN NoCookie
         ELSE IF \E i \in sets : h[i] = "add" /\ \A j \in sets : j <= i THEN Signed(Append(msgs, final)) ELSE Deleted
    BY <1>5
<1>11. final <= MaxFlashes => Handle(t, h).setFlash \in FlashCookie \cup {NoCookie}
    BY <1>6, <1>7, <1>10
<1> QED
    BY <1>1, <1>4, <1>8, <1>9, <1>11

\* Only tab t changes.
Alone(t) == tab' \in [Tabs -> Tab] /\ \A u \in Tabs : u # t => tab'[u] = tab[u]

\* What a request takes along.
LEMMA SendEffect ==
    ASSUME BrowserTypeOK, NEW t \in Tabs, NEW method \in {"get", "form", "script"}, Send(t, method)
    PROVE  /\ Alone(t)
           /\ tab[t].at = "idle" /\ tab'[t].at = "sent" /\ tab'[t].method = method
           /\ tab'[t].csrf = jar.csrf /\ tab'[t].flash = jar.flash /\ tab'[t].form = tab[t].form
           /\ tab'[t].setCsrf = tab[t].setCsrf /\ tab'[t].setFlash = tab[t].setFlash
           /\ tab'[t].shows = tab[t].shows /\ tab'[t].last = tab[t].last
           /\ method = "form" => tab[t].form # NoCookie /\ tab'[t].submits = Plain(tab[t].form)
           /\ method = "script" => jar.csrf # NoCookie /\ tab'[t].submits = jar.csrf
<1> USE BrowserAssumption, NoCookieAssumption
<1> DEFINE sub == CASE method = "get" -> NoCookie
                    [] method = "form" -> Plain(tab[t].form)
                    [] method = "script" -> jar.csrf
           g == [tab[t] EXCEPT !.at = "sent", !.method = method, !.csrf = jar.csrf, !.flash = jar.flash,
                               !.submits = sub]
<1>1. tab[t].at = "idle" /\ tab' = [tab EXCEPT ![t] = g]
      /\ (method = "form" => tab[t].form # NoCookie) /\ (method = "script" => jar.csrf # NoCookie)
    BY DEF Send
<1>2. tab[t] \in Tab /\ jar \in [csrf: TokenCookie \cup {NoCookie}, flash: FlashCookie \cup {NoCookie}]
    BY DEF BrowserTypeOK
<1>3. tab[t].form \in Token \cup {NoCookie}
    BY <1>2 DEF Tab
<1>4. /\ method = "form" => sub = Plain(tab[t].form)
      /\ method = "script" => sub = jar.csrf
      /\ method = "get" => sub = NoCookie
    OBVIOUS
<1>5. PICK s \in TokenCookie \cup {NoCookie} : s = sub
    <2>1. method = "form" => Plain(tab[t].form) \in TokenCookie
        BY <1>1, <1>3 DEF Plain, TokenCookie
    <2> HIDE DEF sub
    <2> QED
        BY <1>2, <1>4, <2>1
<1> HIDE DEF sub
<1>6. g \in Tab
    BY <1>2, <1>5 DEF Tab
<1>7. /\ g.at = "sent" /\ g.method = method /\ g.csrf = jar.csrf /\ g.flash = jar.flash /\ g.submits = sub
      /\ g.form = tab[t].form /\ g.setCsrf = tab[t].setCsrf /\ g.setFlash = tab[t].setFlash
      /\ g.shows = tab[t].shows /\ g.last = tab[t].last
    BY <1>2 DEF Tab
<1> HIDE DEF g
<1>8. Alone(t) /\ tab'[t] = g
    BY <1>1, <1>6 DEF BrowserTypeOK, Alone
<1> QED
    BY <1>1, <1>4, <1>7, <1>8

\* What an answer brings.
LEMMA ServeEffect ==
    ASSUME BrowserTypeOK, NEW t \in Tabs, NEW h \in Handlers, Serve(t, h)
    PROVE  /\ Alone(t) /\ tokens' \in 0..MaxTokens
           /\ tab[t].at = "sent" /\ tab'[t].at = "answered"
           /\ tab'[t].method = tab[t].method /\ tab'[t].csrf = tab[t].csrf /\ tab'[t].flash = tab[t].flash
           /\ tab'[t].setFlash = Handle(t, h).setFlash /\ tab'[t].shows = Handle(t, h).shows
           /\ tab'[t].last = IF Handle(t, h).last > flashes THEN Handle(t, h).last ELSE 0
           /\ Reuses(t) => /\ tab'[t].setCsrf = NoCookie
                           /\ tab'[t].form \in {tab[t].form, tab[t].csrf.value}
           /\ ~Reuses(t) => /\ tab[t].method = "get" /\ tab'[t].setCsrf = Signed(tokens + 1)
                            /\ tab'[t].setCsrf \in TokenCookie
                            /\ tab'[t].form = tokens + 1
<1> USE BrowserAssumption, NoCookieAssumption
<1> DEFINE new == ~Reuses(t)
           r == Handle(t, h)
           set == IF new THEN Signed(tokens + 1) ELSE NoCookie
           form == IF tab[t].method # "get" THEN tab[t].form ELSE IF new THEN tokens + 1 ELSE tab[t].csrf.value
           final == IF r.last > flashes THEN r.last ELSE 0
           g == [tab[t] EXCEPT !.at = "answered", !.setFlash = r.setFlash, !.shows = r.shows, !.last = final,
                               !.setCsrf = set, !.form = form]
<1>1. /\ tab[t].at = "sent" /\ tab' = [tab EXCEPT ![t] = g] /\ r.last <= MaxFlashes
      /\ (tab[t].method # "get" => ~new) /\ (new => tokens < MaxTokens)
      /\ tokens' = IF new THEN tokens + 1 ELSE tokens
    <2>1. tab[t] \in Tab
        BY DEF BrowserTypeOK
    <2>2. /\ tab[t].at = "sent" /\ r.last <= MaxFlashes
          /\ (tab[t].method # "get" => ~new) /\ (new => tokens < MaxTokens)
          /\ tokens' = IF new THEN tokens + 1 ELSE tokens
        BY DEF Serve
    <2>3. tab' = [tab EXCEPT ![t] = g]
        BY DEF Serve
    <2> QED
        BY <2>2, <2>3
<1>2. tab[t] \in Tab /\ tokens \in 0..MaxTokens /\ appKey \in 1..MaxKeys
    BY DEF BrowserTypeOK, AppKeys
<1>3. tab[t].csrf \in TokenCookie \cup {NoCookie} /\ tab[t].form \in Token \cup {NoCookie}
    BY <1>2 DEF Tab
<1>4. ~new => tab[t].csrf \in TokenCookie /\ tab[t].csrf.value \in Token
    BY <1>3 DEF Reuses, Verifies, TokenCookie
<1>5. new => tokens + 1 \in Token
    BY <1>1, <1>2 DEF Token
<1>6. new => Signed(tokens + 1) \in TokenCookie
    BY <1>2, <1>5 DEF Signed, TokenCookie
<1>7. r.last \in Nat /\ flashes <= r.last /\ r.shows \in Seq(Flash) /\ r.setFlash \in FlashCookie \cup {NoCookie}
    BY <1>1, HandleTypes
<1> HIDE DEF r, new
<1>8. PICK s \in TokenCookie \cup {NoCookie} : s = set
    BY <1>6
<1>9. PICK f \in Token \cup {NoCookie} : f = form
    BY <1>3, <1>4, <1>5
<1>10. PICK n \in 0..MaxFlashes : n = final
    BY <1>1, <1>7
<1>11. /\ (~new => set = NoCookie /\ form \in {tab[t].form, tab[t].csrf.value})
       /\ (new => set = Signed(tokens + 1) /\ form = tokens + 1)
    BY <1>1
<1> HIDE DEF set, form, final
<1>12. g = [tab[t] EXCEPT !.at = "answered", !.setFlash = r.setFlash, !.shows = r.shows, !.last = n,
                          !.setCsrf = s, !.form = f]
    BY <1>8, <1>9, <1>10
<1>13. g \in Tab
    <2> HIDE DEF g
    <2> QED
        BY <1>2, <1>7, <1>12 DEF Tab
<1>14. /\ g.at = "answered" /\ g.method = tab[t].method /\ g.csrf = tab[t].csrf /\ g.flash = tab[t].flash
       /\ g.setFlash = r.setFlash /\ g.shows = r.shows /\ g.last = final /\ g.setCsrf = set /\ g.form = form
    BY <1>2 DEF Tab
<1> HIDE DEF g
<1>15. Alone(t) /\ tab'[t] = g
    BY <1>1, <1>13 DEF BrowserTypeOK, Alone
<1>16. tokens' \in 0..MaxTokens
    BY <1>1, <1>2
<1>17. final = IF Handle(t, h).last > flashes THEN Handle(t, h).last ELSE 0
    BY DEF final, r
<1>18. Reuses(t) <=> ~new
    BY DEF new
<1>19. /\ tab'[t].setFlash = Handle(t, h).setFlash /\ tab'[t].shows = Handle(t, h).shows
       /\ tab'[t].last = IF Handle(t, h).last > flashes THEN Handle(t, h).last ELSE 0
    BY <1>14, <1>15, <1>17 DEF r
<1>20. /\ tab'[t].setCsrf = set /\ tab'[t].form = form /\ tab'[t].at = "answered"
       /\ tab'[t].method = tab[t].method /\ tab'[t].csrf = tab[t].csrf /\ tab'[t].flash = tab[t].flash
    BY <1>14, <1>15
<1>21. new => tab[t].method = "get"
    BY <1>1
<1> QED
    BY <1>1, <1>6, <1>11, <1>15, <1>16, <1>18, <1>19, <1>20, <1>21

LEMMA DenyEffect ==
    ASSUME BrowserTypeOK, NEW t \in Tabs, Deny(t)
    PROVE  /\ Alone(t) /\ tokens' \in 0..MaxTokens
           /\ tab[t].at = "sent" /\ tab[t].method # "get" /\ tab'[t].at = "answered"
           /\ tab'[t].method = tab[t].method /\ tab'[t].csrf = tab[t].csrf /\ tab'[t].flash = tab[t].flash
           /\ tab'[t].form = tab[t].form /\ tab'[t].setFlash = tab[t].setFlash
           /\ tab'[t].shows = tab[t].shows /\ tab'[t].last = tab[t].last
           /\ tab'[t].setCsrf = IF Reuses(t) THEN NoCookie ELSE Signed(tokens + 1)
           /\ ~Reuses(t) => Signed(tokens + 1) \in TokenCookie
<1> USE BrowserAssumption, NoCookieAssumption
<1> DEFINE new == ~Reuses(t)
           set == IF new THEN Signed(tokens + 1) ELSE NoCookie
           g == [tab[t] EXCEPT !.at = "answered", !.setCsrf = set]
<1>1. /\ tab[t].at = "sent" /\ tab[t].method # "get" /\ tab' = [tab EXCEPT ![t] = g]
      /\ (new => tokens < MaxTokens) /\ tokens' = IF new THEN tokens + 1 ELSE tokens
    <2>1. /\ tab[t].at = "sent" /\ tab[t].method # "get" /\ (new => tokens < MaxTokens)
          /\ tokens' = IF new THEN tokens + 1 ELSE tokens
        BY DEF Deny
    <2>2. tab' = [tab EXCEPT ![t] = g]
        BY DEF Deny, BrowserTypeOK
    <2> QED
        BY <2>1, <2>2
<1>2. tab[t] \in Tab /\ tokens \in 0..MaxTokens /\ appKey \in 1..MaxKeys
    BY DEF BrowserTypeOK, AppKeys
<1>3. new => tokens + 1 \in Token
    BY <1>1, <1>2 DEF Token
<1>4. new => Signed(tokens + 1) \in TokenCookie
    BY <1>2, <1>3 DEF Signed, TokenCookie
<1> HIDE DEF new
<1>5. PICK s \in TokenCookie \cup {NoCookie} : s = set
    BY <1>4
<1> HIDE DEF set
<1>6. g = [tab[t] EXCEPT !.at = "answered", !.setCsrf = s]
    BY <1>5
<1>7. g \in Tab
    <2> HIDE DEF g
    <2> QED
        BY <1>2, <1>6 DEF Tab
<1>8. /\ g.at = "answered" /\ g.method = tab[t].method /\ g.csrf = tab[t].csrf /\ g.flash = tab[t].flash
      /\ g.form = tab[t].form /\ g.setFlash = tab[t].setFlash /\ g.shows = tab[t].shows /\ g.last = tab[t].last
      /\ g.setCsrf = set
    BY <1>2 DEF Tab
<1> HIDE DEF g
<1>9. Alone(t) /\ tab'[t] = g
    BY <1>1, <1>7 DEF BrowserTypeOK, Alone
<1>10. tokens' \in 0..MaxTokens
    BY <1>1, <1>2
<1>11. set = IF Reuses(t) THEN NoCookie ELSE Signed(tokens + 1)
    BY DEF set, new
<1>12. Reuses(t) <=> ~new
    BY DEF new
<1> QED
    BY <1>1, <1>4, <1>8, <1>9, <1>10, <1>11, <1>12

\* A tab comes to rest, showing what it showed or nothing.
LEMMA RestEffect ==
    ASSUME BrowserTypeOK, NEW t \in Tabs, NEW form \in {tab[t].form, NoCookie},
           tab' = [tab EXCEPT ![t] = AtRest(form)]
    PROVE  /\ Alone(t) /\ tab'[t].at = "idle" /\ tab'[t].form = form
           /\ tab'[t].csrf = NoCookie /\ tab'[t].setCsrf = NoCookie /\ tab'[t].setFlash = NoCookie
           /\ tab'[t].flash = NoCookie /\ tab'[t].shows = <<>> /\ tab'[t].last = 0
<1> USE BrowserAssumption, NoCookieAssumption
<1>1. tab[t] \in Tab
    BY DEF BrowserTypeOK
<1>2. form \in Token \cup {NoCookie}
    BY <1>1 DEF Tab
<1>3. AtRest(form) \in Tab
    BY <1>2 DEF AtRest, Tab
<1>4. tab'[t] = AtRest(form) /\ Alone(t)
    BY <1>3 DEF BrowserTypeOK, Alone
<1> QED
    BY <1>4 DEF AtRest

-----------------------------------------------------------------------------
(* Cookies: the token.                                                     *)

\* With one key, cookies are of that key and a script sends the cookie it has.
FirstKey ==
    /\ jar.csrf # NoCookie => jar.csrf.key = 1
    /\ \A t \in Tabs :
         /\ tab[t].csrf # NoCookie => tab[t].csrf.key = 1
         /\ tab[t].setCsrf # NoCookie => tab[t].setCsrf.key = 1
         /\ tab[t].at = "sent" /\ tab[t].method = "script" =>
              tab[t].csrf # NoCookie /\ tab[t].submits = tab[t].csrf
    /\ "script" \notin was.denied

\* A request that went out without a token.
Bare(t) == tab[t].at # "idle" /\ tab[t].csrf = NoCookie

\* At most one request is out without a token, and then the browser has none; any
\* other request has the browser's token, in its form too.
OneToken ==
    /\ \A t, u \in Tabs : Bare(t) /\ Bare(u) => t = u
    /\ \A t \in Tabs : Bare(t) =>
         /\ jar.csrf = NoCookie /\ tab[t].method = "get"
         /\ tab[t].at = "answered" => tab[t].setCsrf # NoCookie /\ tab[t].form = tab[t].setCsrf.value
    /\ \A t \in Tabs : tab[t].at # "idle" /\ tab[t].csrf # NoCookie =>
         /\ tab[t].csrf = jar.csrf /\ tab[t].form \in {NoCookie, jar.csrf.value}
         /\ tab[t].at = "answered" => tab[t].setCsrf = NoCookie
         /\ tab[t].at = "sent" /\ tab[t].method = "form" => tab[t].submits = Plain(jar.csrf.value)
    /\ \A t \in Tabs : tab[t].at = "idle" /\ tab[t].form # NoCookie =>
         jar.csrf # NoCookie /\ jar.csrf.value = tab[t].form
    /\ "form" \notin was.denied

FormsInv == BrowserTypeOK /\ (appKey = 1 => FirstKey /\ (~was.raced => OneToken))

LEMMA FormsInitInv == BrowserInit => FormsInv
<1> USE BrowserAssumption, NoCookieAssumption
<1> SUFFICES ASSUME BrowserInit PROVE FormsInv
    OBVIOUS
<1>1. BrowserTypeOK
    <2>1. AtRest(NoCookie) \in Tab
        BY DEF AtRest, Tab
    <2>2. tab \in [Tabs -> Tab]
        BY <2>1 DEF BrowserInit
    <2>3. was \in Was
        BY DEF BrowserInit, Was
    <2>4. seen \in [Flash -> Nat]
        BY DEF BrowserInit
    <2>5. appKey \in AppKeys /\ tokens \in 0..MaxTokens /\ flashes \in 0..MaxFlashes
        BY DEF BrowserInit, AppKeys
    <2>6. jar \in [csrf: TokenCookie \cup {NoCookie}, flash: FlashCookie \cup {NoCookie}]
        BY DEF BrowserInit
    <2> QED
        BY <2>2, <2>3, <2>4, <2>5, <2>6 DEF BrowserTypeOK
<1>2. \A t \in Tabs : /\ tab[t].at = "idle" /\ tab[t].csrf = NoCookie /\ tab[t].setCsrf = NoCookie
                      /\ tab[t].form = NoCookie
    BY DEF BrowserInit, AtRest
<1>3. jar.csrf = NoCookie /\ was.denied = {}
    BY DEF BrowserInit
<1>4. FirstKey
    BY <1>2, <1>3 DEF FirstKey
<1>5. OneToken
    BY <1>2, <1>3 DEF OneToken, Bare
<1> QED
    BY <1>1, <1>4, <1>5 DEF FormsInv

LEMMA BrowserTypeStep == BrowserTypeOK /\ [BrowserNext]_browserVars => BrowserTypeOK'
<1> USE BrowserAssumption, NoCookieAssumption
<1> SUFFICES ASSUME BrowserTypeOK, [BrowserNext]_browserVars PROVE BrowserTypeOK'
    OBVIOUS
<1>1. ASSUME NEW t \in Tabs, NEW method \in {"get", "form", "script"}, Send(t, method) PROVE BrowserTypeOK'
    <2>1. tab' \in [Tabs -> Tab]
        BY <1>1, SendEffect DEF Alone
    <2>2. was' \in Was
        <3>1. PICK x, y : was' = [was EXCEPT !.crossed = x, !.raced = y] /\ x \in BOOLEAN /\ y \in BOOLEAN
            BY <1>1, Zenon DEF Send
        <3> QED
            BY <3>1 DEF BrowserTypeOK, Was
    <2> QED
        BY <1>1, <2>1, <2>2 DEF Send, BrowserTypeOK
<1>2. ASSUME NEW t \in Tabs, NEW h \in Handlers, Serve(t, h) PROVE BrowserTypeOK'
    <2>1. tab' \in [Tabs -> Tab] /\ tokens' \in 0..MaxTokens
        BY <1>2, ServeEffect DEF Alone
    <2> DEFINE r == Handle(t, h)
    <2>2. r.last \in Nat /\ r.shows \in Seq(Flash)
        BY HandleTypes
    <2>3. /\ r.last <= MaxFlashes /\ flashes' = r.last /\ UNCHANGED <<appKey, jar, seen>>
          /\ was' = [was EXCEPT !.again = IF r.last > flashes THEN @ \cup ToSet(r.shows) ELSE @]
        BY <1>2 DEF Serve
    <2> HIDE DEF r
    <2>4. ToSet(r.shows) \subseteq Flash
        BY <2>2 DEF ToSet
    <2>5. was' \in Was
        <3>1. was.again \in SUBSET Flash
            BY DEF BrowserTypeOK, Was
        <3>2. PICK a \in SUBSET Flash : a = IF r.last > flashes THEN was.again \cup ToSet(r.shows) ELSE was.again
            BY <2>4, <3>1
        <3>3. was' = [was EXCEPT !.again = a]
            BY <2>3, <3>2
        <3> QED
            BY <3>3 DEF BrowserTypeOK, Was
    <2>6. flashes' \in 0..MaxFlashes
        BY <2>2, <2>3
    <2> QED
        BY <2>1, <2>3, <2>5, <2>6 DEF BrowserTypeOK
<1>3. ASSUME NEW t \in Tabs, Deny(t) PROVE BrowserTypeOK'
    <2>1. tab' \in [Tabs -> Tab] /\ tokens' \in 0..MaxTokens /\ tab[t].method # "get"
        BY <1>3, DenyEffect DEF Alone
    <2>2. was' = [was EXCEPT !.denied = @ \cup {tab[t].method}] /\ UNCHANGED <<appKey, flashes, jar, seen>>
        BY <1>3 DEF Deny
    <2>3. tab[t].method \in {"form", "script"}
        BY <2>1 DEF BrowserTypeOK, Tab
    <2>4. was' \in Was
        BY <2>2, <2>3 DEF BrowserTypeOK, Was
    <2> QED
        BY <2>1, <2>2, <2>4 DEF BrowserTypeOK
<1>4. ASSUME NEW t \in Tabs, Receive(t) PROVE BrowserTypeOK'
    <2>1. /\ tab' = [tab EXCEPT ![t] = AtRest(tab[t].form)]
          /\ was' = [was EXCEPT !.told = @ \cup ({tab[t].last} \ {0})]
          /\ seen' = [m \in Flash |-> IF m \in ToSet(tab[t].shows) THEN seen[m] + 1 ELSE seen[m]]
          /\ jar' = [csrf |-> IF tab[t].setCsrf = NoCookie THEN jar.csrf ELSE tab[t].setCsrf,
                     flash |-> IF tab[t].setFlash = NoCookie THEN jar.flash
                               ELSE IF tab[t].setFlash = Deleted THEN NoCookie ELSE tab[t].setFlash]
          /\ UNCHANGED <<appKey, tokens, flashes>>
        BY <1>4 DEF Receive
    <2>2. tab' \in [Tabs -> Tab]
        BY <2>1, RestEffect DEF Alone
    <2>3. /\ tab[t].last \in 0..MaxFlashes /\ tab[t].setCsrf \in TokenCookie \cup {NoCookie}
          /\ tab[t].setFlash \in FlashCookie \cup {NoCookie}
        BY DEF BrowserTypeOK, Tab
    <2>4. was' \in Was
        <3>1. was.told \in SUBSET Flash
            BY DEF BrowserTypeOK, Was
        <3>0. tab[t].last # 0 => tab[t].last \in Flash
            BY <2>3 DEF Flash
        <3>2. PICK a \in SUBSET Flash : a = was.told \cup ({tab[t].last} \ {0})
            BY <3>0, <3>1
        <3>3. was' = [was EXCEPT !.told = a]
            BY <2>1, <3>2
        <3> QED
            BY <3>3 DEF BrowserTypeOK, Was
    <2>5. seen' \in [Flash -> Nat]
        BY <2>1 DEF BrowserTypeOK
    <2>6. jar' \in [csrf: TokenCookie \cup {NoCookie}, flash: FlashCookie \cup {NoCookie}]
        BY <2>1, <2>3 DEF BrowserTypeOK
    <2> QED
        BY <2>1, <2>2, <2>4, <2>5, <2>6 DEF BrowserTypeOK
<1>5. ASSUME NEW t \in Tabs, LoseAnswer(t) PROVE BrowserTypeOK'
    <2>1. tab' \in [Tabs -> Tab]
        BY <1>5, RestEffect DEF Alone, LoseAnswer
    <2> QED
        BY <1>5, <2>1 DEF LoseAnswer, BrowserTypeOK
<1>6. CASE RotateKey
    BY <1>6 DEF RotateKey, BrowserTypeOK, AppKeys
<1>7. CASE UNCHANGED browserVars
    BY <1>7 DEF browserVars, BrowserTypeOK
<1> QED
    BY <1>1, <1>2, <1>3, <1>4, <1>5, <1>6, <1>7 DEF BrowserNext

\* With one key, a cookie verifies.
LEMMA CookieVerifies ==
    ASSUME appKey = 1, FirstKey, NEW t \in Tabs
    PROVE  Reuses(t) <=> tab[t].csrf # NoCookie
BY DEF FirstKey, Reuses, Verifies

LEMMA FormsStep == FormsInv /\ [BrowserNext]_browserVars => FormsInv'
<1> USE BrowserAssumption, NoCookieAssumption
<1> SUFFICES ASSUME FormsInv, [BrowserNext]_browserVars PROVE FormsInv'
    OBVIOUS
<1>0. BrowserTypeOK /\ BrowserTypeOK'
    BY BrowserTypeStep DEF FormsInv
<1>k. appKey' = 1 => appKey = 1
    <2>1. appKey' = appKey \/ RotateKey
        BY DEF BrowserNext, Send, Serve, Deny, Receive, LoseAnswer, browserVars
    <2> QED
        BY <1>0, <2>1 DEF RotateKey, BrowserTypeOK, AppKeys
<1> SUFFICES ASSUME appKey = 1, appKey' = 1 PROVE FirstKey' /\ (~was'.raced => OneToken')
    BY <1>0, <1>k DEF FormsInv
<1>f. FirstKey /\ (~was.raced => OneToken)
    BY DEF FormsInv
<1>n. TokenCookie = [value: Token, key: 0..MaxKeys] /\ was \in Was
    BY <1>0 DEF TokenCookie, BrowserTypeOK
<1>1. ASSUME NEW t \in Tabs, NEW method \in {"get", "form", "script"}, Send(t, method)
      PROVE  FirstKey' /\ (~was'.raced => OneToken')
    <2> DEFINE others == {u \in Tabs \ {t} : tab[u].at # "idle"}
               x == was.crossed \/ others # {}
               y == was.raced \/ (jar.csrf = NoCookie /\ \E u \in others : tab[u].csrf = NoCookie)
    <2>1. was' = [was EXCEPT !.crossed = x, !.raced = y] /\ jar' = jar
        BY <1>1 DEF Send
    <2>2. was'.denied = was.denied /\ was'.raced = y
        <3> HIDE DEF x, y
        <3> QED
            BY <1>n, <2>1 DEF Was
    <2>3. /\ Alone(t) /\ tab[t].at = "idle" /\ tab'[t].at = "sent" /\ tab'[t].method = method
          /\ tab'[t].csrf = jar.csrf /\ tab'[t].form = tab[t].form /\ tab'[t].setCsrf = tab[t].setCsrf
          /\ method = "form" => tab[t].form # NoCookie /\ tab'[t].submits = Plain(tab[t].form)
          /\ method = "script" => jar.csrf # NoCookie /\ tab'[t].submits = jar.csrf
        BY <1>0, <1>1, SendEffect
    <2>4. FirstKey'
        BY <1>f, <2>1, <2>2, <2>3 DEF FirstKey, Alone
    <2>5. ASSUME ~was'.raced PROVE OneToken'
        <3>1. ~was.raced /\ (jar.csrf = NoCookie => \A u \in Tabs : u # t => ~Bare(u))
            BY <2>2, <2>5 DEF Bare
        <3>2. OneToken
            BY <1>f, <3>1
        <3>3. \A u \in Tabs : u # t => (Bare(u)' <=> Bare(u))
            BY <2>3 DEF Alone, Bare
        <3>4. Bare(t)' => jar.csrf = NoCookie
            BY <2>3 DEF Bare
        <3>5. \A u, v \in Tabs : Bare(u)' /\ Bare(v)' => u = v
            BY <3>1, <3>2, <3>3, <3>4 DEF OneToken
        <3>6. \A u \in Tabs : Bare(u)' =>
                /\ jar'.csrf = NoCookie /\ tab'[u].method = "get"
                /\ tab'[u].at = "answered" => tab'[u].setCsrf # NoCookie /\ tab'[u].form = tab'[u].setCsrf.value
            BY <2>1, <2>3, <3>2, <3>3, <3>4 DEF OneToken, Alone
        <3>7. \A u \in Tabs : tab'[u].at # "idle" /\ tab'[u].csrf # NoCookie =>
                /\ tab'[u].csrf = jar'.csrf /\ tab'[u].form \in {NoCookie, jar'.csrf.value}
                /\ tab'[u].at = "answered" => tab'[u].setCsrf = NoCookie
                /\ tab'[u].at = "sent" /\ tab'[u].method = "form" => tab'[u].submits = Plain(jar'.csrf.value)
            BY <2>1, <2>3, <3>2 DEF OneToken, Alone
        <3>8. \A u \in Tabs : tab'[u].at = "idle" /\ tab'[u].form # NoCookie =>
                jar'.csrf # NoCookie /\ jar'.csrf.value = tab'[u].form
            BY <2>1, <2>3, <3>2 DEF OneToken, Alone
        <3> QED
            BY <2>2, <3>2, <3>5, <3>6, <3>7, <3>8 DEF OneToken, Plain
    <2> QED
        BY <2>4, <2>5
<1>2. ASSUME NEW t \in Tabs, NEW h \in Handlers, Serve(t, h) PROVE FirstKey' /\ (~was'.raced => OneToken')
    <2>1. PICK a : was' = [was EXCEPT !.again = a] /\ jar' = jar
        BY <1>2 DEF Serve
    <2>2. was'.denied = was.denied /\ was'.raced = was.raced
        BY <1>n, <2>1 DEF Was
    <2>3. /\ Alone(t) /\ tab[t].at = "sent" /\ tab'[t].at = "answered"
          /\ tab'[t].method = tab[t].method /\ tab'[t].csrf = tab[t].csrf
          /\ Reuses(t) => tab'[t].setCsrf = NoCookie /\ tab'[t].form \in {tab[t].form, tab[t].csrf.value}
          /\ ~Reuses(t) => /\ tab[t].method = "get" /\ tab'[t].setCsrf = Signed(tokens + 1)
                           /\ tab'[t].setCsrf \in TokenCookie /\ tab'[t].form = tokens + 1
        BY <1>0, <1>2, ServeEffect
    <2>4. Reuses(t) <=> tab[t].csrf # NoCookie
        BY <1>f, CookieVerifies
    <2>5. ~Reuses(t) => /\ tab'[t].setCsrf # NoCookie /\ tab'[t].setCsrf.key = 1
                        /\ tab'[t].form = tab'[t].setCsrf.value
        BY <2>3 DEF Signed
    <2>6. FirstKey'
        BY <1>f, <2>1, <2>2, <2>3, <2>5 DEF FirstKey, Alone
    <2>7. ASSUME ~was'.raced PROVE OneToken'
        <3>1. OneToken
            BY <1>f, <2>2, <2>7
        <3>2. \A u \in Tabs : Bare(u)' <=> Bare(u)
            BY <2>3 DEF Alone, Bare
        <3> QED
            BY <2>1, <2>2, <2>3, <2>4, <2>5, <3>1, <3>2 DEF OneToken, Alone, Plain
    <2> QED
        BY <2>6, <2>7
<1>3. ASSUME NEW t \in Tabs, Deny(t) PROVE FirstKey' /\ (~was'.raced => OneToken')
    <2>1. was' = [was EXCEPT !.denied = @ \cup {tab[t].method}] /\ jar' = jar /\ (~Reuses(t) \/ ~valid(t))
        BY <1>3 DEF Deny
    <2>2. was'.denied = was.denied \cup {tab[t].method} /\ was'.raced = was.raced
        BY <1>n, <2>1 DEF Was
    <2>3. /\ Alone(t) /\ tab[t].at = "sent" /\ tab[t].method # "get" /\ tab'[t].at = "answered"
          /\ tab'[t].method = tab[t].method /\ tab'[t].csrf = tab[t].csrf /\ tab'[t].form = tab[t].form
          /\ tab'[t].setCsrf = IF Reuses(t) THEN NoCookie ELSE Signed(tokens + 1)
        BY <1>0, <1>3, DenyEffect
    <2>4. Reuses(t) <=> tab[t].csrf # NoCookie
        BY <1>f, CookieVerifies
    <2>5. tab[t].method # "script"
        BY <1>f, <2>1, <2>3, <2>4 DEF FirstKey, valid
    <2>6. ~OneToken
        <3> SUFFICES ASSUME OneToken PROVE FALSE
            OBVIOUS
        <3>1. tab[t].method = "form"
            BY <1>0, <2>3, <2>5 DEF BrowserTypeOK, Tab
        <3>2. tab[t].csrf # NoCookie
            BY <2>3, <3>1 DEF OneToken, Bare
        <3>3. tab[t].submits = Plain(tab[t].csrf.value)
            BY <2>3, <3>1, <3>2 DEF OneToken
        <3> QED
            BY <2>1, <2>4, <3>2, <3>3 DEF valid
    <2>7. FirstKey'
        BY <1>f, <2>1, <2>2, <2>3, <2>5 DEF FirstKey, Alone, Signed
    <2> QED
        BY <1>f, <2>2, <2>6, <2>7
<1>4. ASSUME NEW t \in Tabs, Receive(t) PROVE FirstKey' /\ (~was'.raced => OneToken')
    <2>1. /\ tab[t].at = "answered"
          /\ tab' = [tab EXCEPT ![t] = AtRest(tab[t].form)]
          /\ was' = [was EXCEPT !.told = @ \cup ({tab[t].last} \ {0})]
          /\ jar' = [csrf |-> IF tab[t].setCsrf = NoCookie THEN jar.csrf ELSE tab[t].setCsrf,
                     flash |-> IF tab[t].setFlash = NoCookie THEN jar.flash
                               ELSE IF tab[t].setFlash = Deleted THEN NoCookie ELSE tab[t].setFlash]
        BY <1>4 DEF Receive
    <2>2. was'.denied = was.denied /\ was'.raced = was.raced
        BY <1>n, <2>1 DEF Was
    <2>3. /\ Alone(t) /\ tab'[t].at = "idle" /\ tab'[t].form = tab[t].form
          /\ tab'[t].csrf = NoCookie /\ tab'[t].setCsrf = NoCookie
        BY <1>0, <2>1, RestEffect
    <2>4. jar'.csrf = IF tab[t].setCsrf = NoCookie THEN jar.csrf ELSE tab[t].setCsrf
        BY <2>1
    <2>5. FirstKey'
        BY <1>f, <2>2, <2>3, <2>4 DEF FirstKey, Alone
    <2>6. ASSUME ~was'.raced PROVE OneToken'
        <3>1. OneToken
            BY <1>f, <2>2, <2>6
        <3>2. \A u \in Tabs : u # t => (Bare(u)' <=> Bare(u))
            BY <2>3 DEF Alone, Bare
        <3>3. ~Bare(t)'
            BY <2>3 DEF Bare
        <3>4. CASE tab[t].csrf = NoCookie
            <4>1. /\ jar.csrf = NoCookie /\ jar'.csrf = tab[t].setCsrf /\ jar'.csrf # NoCookie
                  /\ tab[t].form = jar'.csrf.value
                BY <2>1, <2>4, <3>1, <3>4 DEF OneToken, Bare
            <4>2. \A u \in Tabs : u # t => tab[u].at = "idle" /\ tab[u].form = NoCookie
                BY <2>1, <3>1, <3>4, <4>1 DEF OneToken, Bare
            <4>3. \A u \in Tabs : tab'[u].at = "idle" /\ tab'[u].form \in {NoCookie, jar'.csrf.value}
                BY <2>3, <4>1, <4>2 DEF Alone
            <4>4. \A u \in Tabs : ~Bare(u)'
                BY <4>3 DEF Bare
            <4> QED
                BY <2>2, <3>1, <4>1, <4>3, <4>4 DEF OneToken
        <3>5. CASE tab[t].csrf # NoCookie
            <4>1. jar'.csrf = jar.csrf /\ jar.csrf # NoCookie /\ tab[t].form \in {NoCookie, jar.csrf.value}
                BY <2>1, <2>4, <3>1, <3>5 DEF OneToken
            <4> QED
                BY <2>2, <2>3, <3>1, <3>2, <3>3, <4>1 DEF OneToken, Alone, Plain
        <3> QED
            BY <3>4, <3>5
    <2> QED
        BY <2>5, <2>6
<1>5. ASSUME NEW t \in Tabs, LoseAnswer(t) PROVE FirstKey' /\ (~was'.raced => OneToken')
    <2>1. jar' = jar /\ was' = was /\ tab' = [tab EXCEPT ![t] = AtRest(NoCookie)]
        BY <1>5 DEF LoseAnswer
    <2>2. /\ Alone(t) /\ tab'[t].at = "idle" /\ tab'[t].form = NoCookie
          /\ tab'[t].csrf = NoCookie /\ tab'[t].setCsrf = NoCookie
        BY <1>0, <2>1, RestEffect
    <2>3. FirstKey'
        BY <1>f, <2>1, <2>2 DEF FirstKey, Alone
    <2>4. ASSUME OneToken PROVE OneToken'
        <3>1. ~Bare(t)' /\ \A u \in Tabs : u # t => (Bare(u)' <=> Bare(u))
            BY <2>2 DEF Alone, Bare
        <3> QED
            BY <2>1, <2>2, <2>4, <3>1 DEF OneToken, Alone, Plain
    <2> QED
        BY <1>f, <2>1, <2>3, <2>4
<1>6. CASE RotateKey
    BY <1>0, <1>6 DEF RotateKey, BrowserTypeOK, AppKeys
<1>7. CASE UNCHANGED browserVars
    BY <1>f, <1>7 DEF browserVars, FirstKey, OneToken, Bare, Plain
<1> QED
    BY <1>1, <1>2, <1>3, <1>4, <1>5, <1>6, <1>7 DEF BrowserNext

\* "Reuse the token already in the cookie so that opening a second tab does not
\* invalidate the form in the first": with any number of tabs and any interleaving
\* of their requests, as long as the application key stays, Protect denies no script,
\* and a form only after two requests without a token were out at once.
THEOREM FormsKeepWorking == BrowserSpec => []FormsHold
<1>1. FormsInv => FormsHold
    BY DEF FormsInv, FirstKey, OneToken, FormsHold
<1> QED
    BY <1>1, FormsInitInv, FormsStep, PTL DEF BrowserSpec

-----------------------------------------------------------------------------
(* Cookies: messages.                                                      *)

\* A handler that adds messages adds one last.  One that pulls after it has added
\* deletes the cookie it has just set: Pull reads the request.
AddsLast == \A h \in Handlers : "add" \in ToSet(h) => h[Len(h)] = "add"

LEMMA ToSetFacts ==
    ASSUME NEW S, NEW s \in Seq(S), NEW x \in S
    PROVE  ToSet(<<>>) = {} /\ ToSet(s) \subseteq S /\ ToSet(Append(s, x)) = ToSet(s) \cup {x}
<1>1. ToSet(<<>>) = {} /\ ToSet(s) \subseteq S
    BY DEF ToSet
<1>2. Append(s, x) \in Seq(S) /\ Len(Append(s, x)) = Len(s) + 1 /\ Append(s, x)[Len(s) + 1] = x
      /\ \A i \in 1..Len(s) : Append(s, x)[i] = s[i]
    OBVIOUS
<1>3. DOMAIN s = 1..Len(s) /\ DOMAIN Append(s, x) = 1..(Len(s) + 1) /\ Len(s) \in Nat
    BY <1>2
<1> DEFINE a == Append(s, x)
           n == Len(s)
<1> HIDE DEF a, n
<1>4. /\ n \in Nat /\ DOMAIN s = 1..n /\ DOMAIN a = 1..(n + 1) /\ a[n + 1] = x
      /\ \A i \in 1..n : a[i] = s[i]
    BY <1>2, <1>3 DEF a, n
<1>5. ASSUME NEW y \in ToSet(a) PROVE y \in ToSet(s) \cup {x}
    <2>1. PICK i \in 1..(n + 1) : y = a[i]
        BY <1>4, <1>5 DEF ToSet
    <2> QED
        BY <1>4, <2>1 DEF ToSet
<1>6. ASSUME NEW y \in ToSet(s) \cup {x} PROVE y \in ToSet(a)
    <2>1. n + 1 \in DOMAIN a /\ \A i \in 1..n : i \in DOMAIN a
        BY <1>4
    <2>2. CASE y = x
        BY <1>4, <2>1, <2>2 DEF ToSet
    <2>3. CASE y \in ToSet(s)
        <3>1. PICK i \in 1..n : y = s[i]
            BY <1>4, <2>3 DEF ToSet
        <3> QED
            BY <1>4, <2>1, <3>1 DEF ToSet
    <2> QED
        BY <1>6, <2>2, <2>3
<1> QED
    BY <1>1, <1>5, <1>6 DEF a

\* The three answers of such a handler.
LEMMA HandleShape ==
    ASSUME BrowserTypeOK, AddsLast, NEW t \in Tabs, NEW h \in Handlers
    PROVE  /\ Handle(t, h).last \in Nat
           /\ \/ /\ Handle(t, h).setFlash = NoCookie /\ Handle(t, h).shows = <<>>
                 /\ Handle(t, h).last = flashes
              \/ /\ Handle(t, h).setFlash = Deleted /\ Handle(t, h).shows = peek(tab[t].flash)
                 /\ Handle(t, h).last = flashes
              \/ /\ Handle(t, h).setFlash = Signed(Append(peek(tab[t].flash), Handle(t, h).last))
                 /\ Handle(t, h).shows \in {<<>>, peek(tab[t].flash)}
                 /\ Handle(t, h).last > flashes
<1> USE BrowserAssumption, NoCookieAssumption
<1> DEFINE msgs == peek(tab[t].flash)
           adds == {i \in DOMAIN h : h[i] = "add"}
           final == flashes + Cardinality(adds)
           sets == {i \in DOMAIN h : h[i] = "add" \/ msgs # <<>>}
           shows == IF "pull" \in ToSet(h) THEN msgs ELSE <<>>
<1>1. h \in Seq({"add", "pull"}) /\ DOMAIN h = 1..Len(h) /\ Len(h) \in Nat
    OBVIOUS
<1>2. /\ Cardinality(adds) \in Nat /\ (adds # {} => Cardinality(adds) > 0)
      /\ (adds = {} => Cardinality(adds) = 0)
    <2>1. IsFiniteSet(1..Len(h))
        BY <1>1, FS_Interval
    <2>2. adds \in SUBSET (1..Len(h))
        BY <1>1
    <2>3. IsFiniteSet(adds)
        BY <2>1, <2>2, FS_Subset
    <2> QED
        BY <2>3, FS_CardinalityType, FS_EmptySet
<1>3. flashes \in Nat
    BY DEF BrowserTypeOK
<1>4. final \in Nat /\ (adds # {} => final > flashes) /\ (adds = {} => final = flashes)
    BY <1>2, <1>3
<1>5. Handle(t, h) =
        [last |-> final, shows |-> shows,
         setFlash |-> IF sets = {} THEN NoCookie
                      ELSE IF \E i \in sets : h[i] = "add" /\ \A j \in sets : j <= i
                           THEN Signed(Append(msgs, final))
                           ELSE Deleted]
    BY DEF Handle
<1>6. CASE adds # {}
    <2>1. PICK k \in DOMAIN h : h[k] = "add"
        BY <1>6
    <2>2. "add" \in ToSet(h)
        BY <2>1 DEF ToSet
    <2>3. h[Len(h)] = "add" /\ Len(h) \in DOMAIN h
        BY <1>1, <2>1, <2>2 DEF AddsLast
    <2>4. Len(h) \in sets /\ \A j \in sets : j <= Len(h)
        BY <1>1, <2>3
    <2>5. \E i \in sets : h[i] = "add" /\ \A j \in sets : j <= i
        BY <2>3, <2>4
    <2>6. sets # {}
        BY <2>4
    <2> HIDE DEF sets, final, adds, msgs, shows
    <2>7. Handle(t, h).setFlash = Signed(Append(msgs, final)) /\ Handle(t, h).last = final /\ Handle(t, h).shows = shows
        BY <1>5, <2>5, <2>6
    <2> QED
        BY <1>4, <1>6, <2>7 DEF shows, msgs
<1>7. CASE adds = {} /\ sets = {}
    <2>1. shows = <<>>
        <3>1. CASE msgs = <<>>
            BY <3>1
        <3>2. CASE msgs # <<>>
            <4>1. DOMAIN h = {}
                BY <1>7, <3>2
            <4> QED
                BY <4>1 DEF ToSet
        <3> QED
            BY <3>1, <3>2
    <2> HIDE DEF sets, final, adds, msgs, shows
    <2>2. Handle(t, h).setFlash = NoCookie /\ Handle(t, h).last = final /\ Handle(t, h).shows = shows
        BY <1>5, <1>7
    <2> QED
        BY <1>4, <1>7, <2>1, <2>2
<1>8. CASE adds = {} /\ sets # {}
    <2>1. PICK k \in DOMAIN h : k \in sets
        BY <1>8
    <2>2. \A i \in DOMAIN h : h[i] # "add"
        BY <1>8
    <2>3. h[k] = "pull"
        BY <1>1, <2>1, <2>2
    <2>4. shows = msgs
        BY <2>1, <2>3 DEF ToSet
    <2>5. ~(\E i \in sets : h[i] = "add" /\ \A j \in sets : j <= i)
        BY <2>2
    <2> HIDE DEF sets, final, adds, msgs, shows
    <2>6. Handle(t, h).setFlash = Deleted /\ Handle(t, h).last = final /\ Handle(t, h).shows = shows
        BY <1>5, <1>8, <2>5
    <2> QED
        BY <1>4, <1>8, <2>4, <2>6 DEF msgs
<1> QED
    BY <1>6, <1>7, <1>8

\* The messages the browser has for its next request.
Pending == IF jar.flash = NoCookie THEN {} ELSE ToSet(jar.flash.value)

\* One request at a time, with the messages the browser has.
OneRequest ==
    /\ jar.flash # NoCookie => jar.flash.key = 1
    /\ \A t, u \in Tabs : tab[t].at # "idle" /\ tab[u].at # "idle" => t = u
    /\ \A t \in Tabs : tab[t].at # "idle" => tab[t].flash = jar.flash
    /\ \A t \in Tabs : tab[t].at # "answered" =>
         tab[t].setFlash = NoCookie /\ tab[t].shows = <<>> /\ tab[t].last = 0

\* An answer that leaves the cookie alone; one that shows and deletes what was pending;
\* one that adds a new message to it, and brings back what it shows.
Leaves(t) == tab[t].setFlash = NoCookie /\ tab[t].last = 0 /\ ToSet(tab[t].shows) = {}
Clears(t) == tab[t].setFlash = Deleted /\ tab[t].last = 0 /\ ToSet(tab[t].shows) = Pending
Adds(t) ==
    /\ tab[t].setFlash # NoCookie /\ tab[t].setFlash.key = 1
    /\ ToSet(tab[t].setFlash.value) = Pending \cup {tab[t].last}
    /\ tab[t].last \in 1..flashes /\ tab[t].last \notin Pending \cup was.told /\ seen[tab[t].last] = 0
    /\ \/ ToSet(tab[t].shows) = {}
       \/ ToSet(tab[t].shows) = Pending /\ Pending \subseteq was.again

Answers == \A t \in Tabs : tab[t].at = "answered" => Leaves(t) \/ Clears(t) \/ Adds(t)

\* What is pending has not been shown, unless a handler brought it back, and only
\* messages that were added are pending, told of or shown.
Accounts ==
    \A m \in Flash :
        /\ m \in was.told => seen[m] > 0 \/ m \in Pending
        /\ m \notin was.again => seen[m] <= 1 /\ (m \in Pending => seen[m] = 0)
        /\ m \in Pending \cup was.told \/ seen[m] > 0 => m <= flashes

FlashInv == BrowserTypeOK /\ (appKey = 1 /\ ~was.crossed => OneRequest /\ Answers /\ Accounts)

LEMMA FlashInitInv == BrowserInit => FlashInv
<1> USE BrowserAssumption, NoCookieAssumption
<1> SUFFICES ASSUME BrowserInit PROVE FlashInv
    OBVIOUS
<1>1. BrowserTypeOK
    BY FormsInitInv DEF FormsInv
<1>2. \A t \in Tabs : /\ tab[t].at = "idle" /\ tab[t].setFlash = NoCookie /\ tab[t].shows = <<>> /\ tab[t].last = 0
    BY DEF BrowserInit, AtRest
<1>3. jar.flash = NoCookie /\ was.told = {} /\ \A m \in Flash : seen[m] = 0
    BY DEF BrowserInit
<1>4. OneRequest /\ Answers
    BY <1>2, <1>3 DEF OneRequest, Answers
<1>5. Accounts
    BY <1>3 DEF Accounts, Pending
<1> QED
    BY <1>1, <1>4, <1>5 DEF FlashInv

LEMMA FlashStep == ASSUME AddsLast PROVE FlashInv /\ [BrowserNext]_browserVars => FlashInv'
<1> USE BrowserAssumption, NoCookieAssumption
<1> SUFFICES ASSUME FlashInv, [BrowserNext]_browserVars PROVE FlashInv'
    OBVIOUS
<1>0. BrowserTypeOK /\ BrowserTypeOK'
    BY BrowserTypeStep DEF FlashInv
<1>k. appKey' = 1 => appKey = 1
    <2>1. appKey' = appKey \/ RotateKey
        BY DEF BrowserNext, Send, Serve, Deny, Receive, LoseAnswer, browserVars
    <2> QED
        BY <1>0, <2>1 DEF RotateKey, BrowserTypeOK, AppKeys
<1>w. was \in Was /\ seen \in [Flash -> Nat] /\ flashes \in 0..MaxFlashes
    BY <1>0 DEF BrowserTypeOK
<1> SUFFICES ASSUME appKey = 1, appKey' = 1, ~was'.crossed PROVE OneRequest' /\ Answers' /\ Accounts'
    BY <1>0, <1>k DEF FlashInv
<1>i. ~was.crossed => OneRequest /\ Answers /\ Accounts
    BY DEF FlashInv
<1>p. ASSUME jar'.flash = jar.flash PROVE Pending' = Pending
    BY <1>p DEF Pending
<1>1. ASSUME NEW t \in Tabs, NEW method \in {"get", "form", "script"}, Send(t, method)
      PROVE  OneRequest' /\ Answers' /\ Accounts'
    <2> DEFINE others == {u \in Tabs \ {t} : tab[u].at # "idle"}
               x == was.crossed \/ others # {}
               y == was.raced \/ (jar.csrf = NoCookie /\ \E u \in others : tab[u].csrf = NoCookie)
    <2>1. was' = [was EXCEPT !.crossed = x, !.raced = y] /\ UNCHANGED <<jar, seen, flashes>>
        BY <1>1 DEF Send
    <2>2. was'.crossed = x /\ was'.told = was.told /\ was'.again = was.again
        <3> HIDE DEF x, y
        <3> QED
            BY <1>w, <2>1 DEF Was
    <2>3. ~was.crossed /\ \A u \in Tabs : u # t => tab[u].at = "idle"
        BY <2>2
    <2>4. OneRequest /\ Answers /\ Accounts
        BY <1>i, <2>3
    <2>5. /\ Alone(t) /\ tab[t].at = "idle" /\ tab'[t].at = "sent" /\ tab'[t].flash = jar.flash
          /\ tab'[t].setFlash = tab[t].setFlash /\ tab'[t].shows = tab[t].shows /\ tab'[t].last = tab[t].last
        BY <1>0, <1>1, SendEffect
    <2>6. OneRequest'
        BY <2>1, <2>3, <2>4, <2>5 DEF OneRequest, Alone
    <2>7. Answers'
        BY <2>3, <2>5 DEF Answers, Alone
    <2>8. Accounts'
        BY <1>p, <2>1, <2>2, <2>4 DEF Accounts
    <2> QED
        BY <2>6, <2>7, <2>8
<1>2. ASSUME NEW t \in Tabs, NEW h \in Handlers, Serve(t, h) PROVE OneRequest' /\ Answers' /\ Accounts'
    <2> DEFINE r == Handle(t, h)
               a == IF r.last > flashes THEN was.again \cup ToSet(r.shows) ELSE was.again
    <2>1. /\ was' = [was EXCEPT !.again = a] /\ UNCHANGED <<jar, seen>>
          /\ flashes' = r.last /\ r.last <= MaxFlashes
        BY <1>2 DEF Serve
    <2>2. was'.crossed = was.crossed /\ was'.told = was.told /\ was'.again = a
        <3> HIDE DEF a
        <3> QED
            BY <1>w, <2>1 DEF Was
    <2>3. OneRequest /\ Answers /\ Accounts
        BY <1>i, <2>2
    <2>4. /\ Alone(t) /\ tab[t].at = "sent" /\ tab'[t].at = "answered" /\ tab'[t].flash = tab[t].flash
          /\ tab'[t].setFlash = r.setFlash /\ tab'[t].shows = r.shows
          /\ tab'[t].last = IF r.last > flashes THEN r.last ELSE 0
        BY <1>0, <1>2, ServeEffect
    <2>5. /\ r.last \in Nat
          /\ \/ r.setFlash = NoCookie /\ r.shows = <<>> /\ r.last = flashes
             \/ r.setFlash = Deleted /\ r.shows = peek(tab[t].flash) /\ r.last = flashes
             \/ /\ r.setFlash = Signed(Append(peek(tab[t].flash), r.last))
                /\ r.shows \in {<<>>, peek(tab[t].flash)} /\ r.last > flashes
        BY <1>0, HandleShape
    <2>6. r.setFlash \in FlashCookie \cup {NoCookie}
        BY <1>0, <2>1, HandleTypes
    <2> HIDE DEF r
    <2>7. peek(tab[t].flash) \in Seq(Flash) /\ ToSet(peek(tab[t].flash)) = Pending
        <3>1. tab[t].flash = jar.flash /\ jar.flash \in FlashCookie \cup {NoCookie}
            BY <1>0, <2>3, <2>4 DEF OneRequest, BrowserTypeOK
        <3>2. CASE jar.flash = NoCookie
            BY <3>1, <3>2 DEF peek, Verifies, Pending, ToSet
        <3>3. CASE jar.flash # NoCookie
            BY <2>3, <3>1, <3>3 DEF peek, Verifies, Pending, OneRequest, FlashCookie
        <3> QED
            BY <3>2, <3>3
    <2>8. \A u \in Tabs : u # t => tab[u].at = "idle" /\ tab'[u] = tab[u]
        BY <2>3, <2>4 DEF OneRequest, Alone
    <2>9. Pending' = Pending /\ flashes <= flashes' /\ was.again \subseteq was'.again
        BY <1>p, <1>w, <2>1, <2>2, <2>5
    <2>10. OneRequest'
        BY <2>1, <2>3, <2>4, <2>8 DEF OneRequest
    <2>11. Accounts'
        <3>1. \A m \in Flash : m \in Nat /\ seen[m] \in Nat
            BY <1>w DEF Flash
        <3> QED
            BY <1>w, <2>1, <2>2, <2>3, <2>5, <2>9, <3>1 DEF Accounts
    <2>12. ToSet(<<>>) = {}
        BY DEF ToSet
    <2>13. CASE r.last = flashes
        <3>1. tab'[t].last = 0
            BY <1>w, <2>4, <2>13
        <3>2. Leaves(t)' \/ Clears(t)'
            BY <1>w, <2>4, <2>5, <2>7, <2>9, <2>12, <2>13, <3>1 DEF Leaves, Clears, Deleted
        <3> QED
            BY <2>8, <2>10, <2>11, <3>2 DEF Answers
    <2>14. CASE r.last > flashes
        <3>1. /\ tab'[t].last = r.last /\ r.last \in Flash
              /\ r.setFlash = Signed(Append(peek(tab[t].flash), r.last))
              /\ r.shows \in {<<>>, peek(tab[t].flash)}
            BY <1>w, <2>1, <2>4, <2>5, <2>14 DEF Flash
        <3>2. r.setFlash # NoCookie /\ r.setFlash.key = 1
            <4>0. ASSUME NEW s \in Seq(Flash), NEW m \in Flash PROVE Append(s, m) \in Seq(Flash)
                OBVIOUS
            <4>1. PICK v \in Seq(Flash) : v = Append(peek(tab[t].flash), r.last)
                BY <2>7, <3>1, <4>0, Zenon
            <4>2. r.setFlash = [value |-> v, key |-> 1] /\ 1 \in 0..MaxKeys
                BY <3>1, <4>1 DEF Signed
            <4>3. r.setFlash \in FlashCookie
                BY <4>2 DEF FlashCookie
            <4> QED
                BY <4>2, <4>3
        <3>3. r.setFlash.value = Append(peek(tab[t].flash), r.last)
            BY <3>1 DEF Signed
        <3>4. ToSet(r.setFlash.value) = Pending \cup {r.last}
            BY <2>7, <3>1, <3>3, ToSetFacts
        <3>5. r.last \in 1..flashes' /\ r.last \notin Pending \cup was.told /\ seen[r.last] = 0
            <4>1. r.last \in 1..flashes'
                BY <1>w, <2>1, <2>5, <2>14
            <4>2. ~(r.last <= flashes) /\ seen[r.last] \in Nat
                BY <1>w, <2>5, <2>14, <3>1
            <4> QED
                BY <2>3, <3>1, <4>1, <4>2 DEF Accounts
        <3>6. was'.again = was.again \cup ToSet(r.shows)
            BY <2>2, <2>14
        <3>7. ToSet(r.shows) = {} \/ (ToSet(r.shows) = Pending /\ Pending \subseteq was'.again)
            BY <2>7, <2>12, <3>1, <3>6
        <3>8. Adds(t)'
            BY <2>1, <2>2, <2>4, <2>9, <3>1, <3>2, <3>4, <3>5, <3>7 DEF Adds
        <3> QED
            BY <2>8, <2>10, <2>11, <3>8 DEF Answers
    <2> QED
        BY <2>5, <2>13, <2>14
<1>3. ASSUME NEW t \in Tabs, Deny(t) PROVE OneRequest' /\ Answers' /\ Accounts'
    <2>1. was' = [was EXCEPT !.denied = @ \cup {tab[t].method}] /\ UNCHANGED <<jar, seen, flashes>>
        BY <1>3 DEF Deny
    <2>2. was'.crossed = was.crossed /\ was'.told = was.told /\ was'.again = was.again
        BY <1>w, <2>1 DEF Was
    <2>3. OneRequest /\ Answers /\ Accounts
        BY <1>i, <2>2
    <2>4. /\ Alone(t) /\ tab[t].at = "sent" /\ tab'[t].at = "answered" /\ tab'[t].flash = tab[t].flash
          /\ tab'[t].setFlash = tab[t].setFlash /\ tab'[t].shows = tab[t].shows /\ tab'[t].last = tab[t].last
        BY <1>0, <1>3, DenyEffect
    <2>5. \A u \in Tabs : u # t => tab[u].at = "idle" /\ tab'[u] = tab[u]
        BY <2>3, <2>4 DEF OneRequest, Alone
    <2>6. Leaves(t)'
        BY <2>3, <2>4 DEF OneRequest, Leaves, ToSet
    <2>7. OneRequest'
        BY <2>1, <2>3, <2>4, <2>5 DEF OneRequest
    <2>8. Answers'
        BY <2>5, <2>6 DEF Answers
    <2>9. Accounts'
        BY <1>p, <2>1, <2>2, <2>3 DEF Accounts
    <2> QED
        BY <2>7, <2>8, <2>9
<1>4. ASSUME NEW t \in Tabs, Receive(t) PROVE OneRequest' /\ Answers' /\ Accounts'
    <2>1. /\ tab[t].at = "answered" /\ tab' = [tab EXCEPT ![t] = AtRest(tab[t].form)]
          /\ was' = [was EXCEPT !.told = @ \cup ({tab[t].last} \ {0})]
          /\ seen' = [m \in Flash |-> IF m \in ToSet(tab[t].shows) THEN seen[m] + 1 ELSE seen[m]]
          /\ jar' = [csrf |-> IF tab[t].setCsrf = NoCookie THEN jar.csrf ELSE tab[t].setCsrf,
                     flash |-> IF tab[t].setFlash = NoCookie THEN jar.flash
                               ELSE IF tab[t].setFlash = Deleted THEN NoCookie ELSE tab[t].setFlash]
          /\ flashes' = flashes
        BY <1>4 DEF Receive
    <2>2. was'.crossed = was.crossed /\ was'.told = was.told \cup ({tab[t].last} \ {0}) /\ was'.again = was.again
        BY <1>w, <2>1 DEF Was
    <2>3. OneRequest /\ Answers /\ Accounts
        BY <1>i, <2>2
    <2>4. jar'.flash = IF tab[t].setFlash = NoCookie THEN jar.flash
                       ELSE IF tab[t].setFlash = Deleted THEN NoCookie ELSE tab[t].setFlash
        BY <2>1
    <2>5. /\ Alone(t) /\ tab'[t].at = "idle" /\ tab'[t].setFlash = NoCookie
          /\ tab'[t].shows = <<>> /\ tab'[t].last = 0
        BY <1>0, <2>1, RestEffect
    <2>6. \A u \in Tabs : tab'[u].at = "idle" /\ tab'[u].setFlash = NoCookie /\ tab'[u].shows = <<>>
                          /\ tab'[u].last = 0
        BY <2>1, <2>3, <2>5 DEF OneRequest, Alone
    <2>7. Answers'
        BY <2>6 DEF Answers
    <2>8. \A m \in Flash : /\ seen[m] \in Nat
                           /\ seen'[m] = IF m \in ToSet(tab[t].shows) THEN seen[m] + 1 ELSE seen[m]
        BY <1>w, <2>1
    <2>9. CASE Leaves(t)
        <3>1. jar'.flash = jar.flash /\ Pending' = Pending /\ was'.told = was.told
              /\ \A m \in Flash : seen'[m] = seen[m]
            BY <1>p, <2>2, <2>4, <2>8, <2>9 DEF Leaves
        <3>2. OneRequest'
            BY <2>3, <2>6, <3>1 DEF OneRequest
        <3>3. Accounts'
            BY <2>1, <2>2, <2>3, <3>1 DEF Accounts
        <3> QED
            BY <2>7, <3>2, <3>3
    <2>10. CASE Clears(t)
        <3>1. Deleted # NoCookie
            <4>1. Deleted \in FlashCookie
                BY DEF Deleted, FlashCookie
            <4> QED
                BY <4>1
        <3>2. jar'.flash = NoCookie /\ Pending' = {} /\ was'.told = was.told
            BY <2>2, <2>4, <2>10, <3>1 DEF Clears, Pending
        <3>3. OneRequest'
            BY <2>6, <3>2 DEF OneRequest
        <3>4. Accounts'
            BY <2>1, <2>2, <2>3, <2>8, <2>10, <3>2 DEF Accounts, Clears
        <3> QED
            BY <2>7, <3>3, <3>4
    <2>11. CASE Adds(t)
        <3>1. tab[t].setFlash # Deleted
            BY <2>11 DEF Adds, Deleted
        <3>2. jar'.flash = tab[t].setFlash /\ jar'.flash # NoCookie /\ jar'.flash.key = 1
            BY <2>4, <2>11, <3>1 DEF Adds
        <3>3. Pending' = Pending \cup {tab[t].last} /\ was'.told = was.told \cup {tab[t].last}
            BY <2>2, <2>11, <3>2 DEF Adds, Pending
        <3>4. OneRequest'
            BY <2>6, <3>2 DEF OneRequest
        <3>5. /\ tab[t].last <= flashes /\ tab[t].last \notin ToSet(tab[t].shows) /\ seen[tab[t].last] = 0
              /\ ToSet(tab[t].shows) = {} \/ (ToSet(tab[t].shows) = Pending /\ Pending \subseteq was.again)
            BY <2>11 DEF Adds
        <3>6. ASSUME NEW m \in Flash
              PROVE  /\ m \in was'.told => seen'[m] > 0 \/ m \in Pending'
                     /\ m \notin was'.again => seen'[m] <= 1 /\ (m \in Pending' => seen'[m] = 0)
                     /\ m \in Pending' \cup was'.told \/ seen'[m] > 0 => m <= flashes'
            <4>1. /\ m \in was.told => seen[m] > 0 \/ m \in Pending
                  /\ m \notin was.again => seen[m] <= 1 /\ (m \in Pending => seen[m] = 0)
                  /\ m \in Pending \cup was.told \/ seen[m] > 0 => m <= flashes
                BY <2>3 DEF Accounts
            <4>2. /\ seen[m] \in Nat
                  /\ seen'[m] = IF m \in ToSet(tab[t].shows) THEN seen[m] + 1 ELSE seen[m]
                BY <2>8
            <4>3. m \in ToSet(tab[t].shows) => m \in Pending /\ m \in was.again
                BY <3>5
            <4>4. m = tab[t].last => m \notin ToSet(tab[t].shows) /\ seen[m] = 0 /\ m <= flashes
                BY <3>5
            <4> QED
                BY <2>1, <2>2, <3>3, <4>1, <4>2, <4>3, <4>4
        <3>7. Accounts'
            BY <3>6 DEF Accounts
        <3> QED
            BY <2>7, <3>4, <3>7
    <2> QED
        BY <2>1, <2>3, <2>9, <2>10, <2>11 DEF Answers
<1>5. ASSUME NEW t \in Tabs, LoseAnswer(t) PROVE OneRequest' /\ Answers' /\ Accounts'
    <2>1. UNCHANGED <<jar, was, seen, flashes>> /\ tab' = [tab EXCEPT ![t] = AtRest(NoCookie)]
          /\ tab[t].at = "answered"
        BY <1>5 DEF LoseAnswer
    <2>2. OneRequest /\ Answers /\ Accounts
        BY <1>i, <2>1
    <2>3. /\ Alone(t) /\ tab'[t].at = "idle" /\ tab'[t].setFlash = NoCookie
          /\ tab'[t].shows = <<>> /\ tab'[t].last = 0
        BY <1>0, <2>1, RestEffect
    <2>4. \A u \in Tabs : tab'[u].at = "idle" /\ tab'[u].setFlash = NoCookie /\ tab'[u].shows = <<>>
                          /\ tab'[u].last = 0
        BY <2>1, <2>2, <2>3 DEF OneRequest, Alone
    <2>5. OneRequest' /\ Answers'
        BY <2>1, <2>2, <2>4 DEF OneRequest, Answers
    <2>6. Accounts'
        BY <1>p, <2>1, <2>2 DEF Accounts
    <2> QED
        BY <2>5, <2>6
<1>6. CASE RotateKey
    BY <1>0, <1>6 DEF RotateKey, BrowserTypeOK, AppKeys
<1>7. CASE UNCHANGED browserVars
    <2>1. OneRequest /\ Answers /\ Accounts /\ Pending' = Pending
        BY <1>i, <1>p, <1>7 DEF browserVars
    <2>2. OneRequest' /\ Accounts'
        BY <1>7, <2>1 DEF browserVars, OneRequest, Accounts
    <2>3. Answers'
        BY <1>7, <2>1 DEF browserVars, Answers, Leaves, Clears, Adds, Deleted
    <2> QED
        BY <2>2, <2>3
<1> QED
    BY <1>1, <1>2, <1>3, <1>4, <1>5, <1>6, <1>7 DEF BrowserNext

\* "Pull returns the pending messages and clears them": whatever the handlers, as long
\* as none pulls after its last Add, and while the key stays and requests do not
\* overlap, a message whose answer arrived is pending or was shown, and it is shown
\* once unless a handler that pulled it also added.
THEOREM MessagesShownOnce ==
    ASSUME AddsLast
    PROVE  BrowserSpec => []FlashOnce
<1>1. FlashInv => FlashOnce
    BY DEF FlashInv, Accounts, FlashOnce, Pending
<1>2. FlashInv /\ [BrowserNext]_browserVars => FlashInv'
    BY FlashStep
<1> QED
    BY <1>1, <1>2, FlashInitInv, PTL DEF BrowserSpec

-----------------------------------------------------------------------------
(* The services together.                                                  *)

\* The flow takes from the throttle what the limiter allows, in the limiter's own
\* steps, and a restart gives a throttle nobody has drawn from.
LEMMA ThrottleStep == LimiterInv /\ [TwoFactorNext]_<<limiterVars, twoFactorVars>> => LimiterInv'
<1> SUFFICES ASSUME LimiterInv, [TwoFactorNext]_<<limiterVars, twoFactorVars>> PROVE LimiterInv'
    OBVIOUS
<1>1. ASSUME [LimiterNext]_limiterVars PROVE LimiterInv'
    BY <1>1, LimiterInvStep
<1>2. ASSUME NEW s \in Sessions, Attempt(s) \/ Throttled(s) \/ ClearRecord(s) PROVE LimiterInv'
    BY <1>1, <1>2, TwoFactorAssumption DEF Attempt, Throttled, ClearRecord, LimiterNext
<1>3. ASSUME NEW s \in Sessions,
             \/ Setup(s) \/ Through(s) \/ StoreSecret(s) \/ SpendCode(s) \/ TurnOff(s) \/ GiveUp(s)
             \/ \E kind, code : Read(s, kind, code)
      PROVE  LimiterInv'
    BY <1>1, <1>3 DEF Setup, Through, StoreSecret, SpendCode, TurnOff, GiveUp, Read
<1>4. CASE ReplaceKey
    <2>1. now - Window \in Int /\ now - Window <= now /\ now \in Nat
        BY RateLimitAssumption DEF LimiterInv, InThePast
    <2>2. LimiterTypeOK'
        BY <1>4, <2>1 DEF ReplaceKey, LimiterTypeOK
    <2>3. InThePast'
        BY <1>4, <2>1 DEF ReplaceKey, InThePast
    <2> QED
        BY <2>2, <2>3 DEF LimiterInv
<1>5. CASE UNCHANGED <<limiterVars, twoFactorVars>>
    BY <1>1, <1>5
<1> QED
    BY <1>2, <1>3, <1>4, <1>5 DEF TwoFactorNext

\* The invariant of the service that is followed.
ServicesInv ==
    /\ now \in Nat
    /\ service \in {"schedule", "ratelimit", "twofactor", "cache", "migrate", "browser", "redis", "mail"}
    /\ service = "schedule" => ScheduleInv
    /\ service = "ratelimit" => LimiterInv
    /\ service = "twofactor" => LimiterInv /\ TwoFactorInv
    /\ service = "cache" => CacheInv
    /\ service = "migrate" => MigrateInv
    /\ service = "browser" => FormsInv
    /\ service = "redis" => RedisInv
    /\ service = "mail" => MailInv

LEMMA ServicesInit == Init => ServicesInv
BY ScheduleInitInv, LimiterInvInit, TwoFactorInitInv, CacheInitInv, MigrateInitInv, FormsInitInv,
   RedisInitInv, MailInitInv DEF Init, ServicesInv

LEMMA ServicesStep == ServicesInv /\ [Next]_vars => ServicesInv'
<1> SUFFICES ASSUME ServicesInv, [Next]_vars PROVE ServicesInv'
    OBVIOUS
<1> USE DEF ServicesInv
<1>1. CASE service = "schedule"
    <2>1. [ScheduleNext]_scheduleVars /\ service' = service
        BY <1>1 DEF Next, vars, scheduler, scheduleVars
    <2>2. ScheduleInv'
        BY <1>1, <2>1, ScheduleStep
    <2> QED
        BY <1>1, <2>1, <2>2 DEF ScheduleInv
<1>2. CASE service = "ratelimit"
    <2>1. [LimiterNext]_limiterVars /\ service' = service
        BY <1>2 DEF Next, vars, limiter, limiterVars
    <2>2. LimiterInv'
        BY <1>2, <2>1, LimiterInvStep
    <2> QED
        BY <1>2, <2>1, <2>2 DEF LimiterInv, InThePast
<1>3. CASE service = "twofactor"
    <2>1. [TwoFactorNext]_<<limiterVars, twoFactorVars>> /\ service' = service
        BY <1>3 DEF Next, vars, limiter, limiterVars
    <2>2. LimiterInv' /\ TwoFactorInv'
        BY <1>3, <2>1, ThrottleStep, TwoFactorStep
    <2> QED
        BY <1>3, <2>1, <2>2 DEF LimiterInv, InThePast
<1>4. CASE service = "cache"
    <2>1. [CacheNext]_cacheVars /\ service' = service
        BY <1>4 DEF Next, vars, remember, cacheVars
    <2>2. CacheInv'
        BY <1>4, <2>1, CacheStep
    <2> QED
        BY <1>4, <2>1, <2>2 DEF CacheInv
<1>5. CASE service = "migrate"
    <2>1. [MigrateNext]_migrateVars /\ service' = service /\ now' = now
        BY <1>5 DEF Next, vars
    <2> QED
        BY <1>5, <2>1, MigrateStep
<1>6. CASE service = "browser"
    <2>1. [BrowserNext]_browserVars /\ service' = service /\ now' = now
        BY <1>6 DEF Next, vars
    <2> QED
        BY <1>6, <2>1, FormsStep
<1>7. CASE service = "redis"
    <2>1. [RedisNext]_<<now, redisVars>> /\ service' = service
        BY <1>7 DEF Next, vars
    <2>2. RedisInv'
        BY <1>7, <2>1, RedisStep
    <2> QED
        BY <1>7, <2>1, <2>2 DEF RedisInv
<1>8. CASE service = "mail"
    <2>1. [MailNext]_mailVars /\ service' = service /\ now' = now
        BY <1>8 DEF Next, vars
    <2> QED
        BY <1>8, <2>1, MailStep
<1> QED
    BY <1>1, <1>2, <1>3, <1>4, <1>5, <1>6, <1>7, <1>8

\* Whichever service a behaviour follows, its state stays well typed, and where a
\* service draws on another one's state, as the two-factor flow does on the limiter's
\* buckets, that state does too.
THEOREM ServicesTyped == Spec => []TypeOK
<1>1. ServicesInv => TypeOK
    BY DEF ServicesInv, TypeOK, ScheduleInv, LimiterInv, TwoFactorInv, CacheInv, MigrateInv, FormsInv,
           RedisInv, MailInv
<1> QED
    BY <1>1, ServicesInit, ServicesStep, PTL DEF Spec
=============================================================================
