----------------------------- MODULE MCDBQueue -----------------------------
(* Instances of DBQueue for TLC.                                           *)
EXTENDS DBQueue, TLC

CONSTANTS w1, w2, s1, s2, mail, report, default

\* One token, or one for each worker.
OneSlot == s1 :> w1
OneEach == s1 :> w1 @@ s2 :> w2

\* w2 runs a binary that does not know the report job.
OldBinary == w1 :> {mail, report} @@ w2 :> {mail}
AllKnown == [w \in Workers |-> Names]

OneQueue == [x \in Names |-> default]
DrainDefault == [w \in Workers |-> default]

AttemptLimit == [n \in Names |-> IF n = mail THEN 2 ELSE 1]
TwoAttempts == [n \in Names |-> 2]

\* mail has a BackoffStrategy of its own (in SlowMail a slower one), report uses the default.
MailBackoff == [n \in Names |-> IF n = mail THEN 1 ELSE None]
SlowMail == [n \in Names |-> IF n = mail THEN 2 ELSE None]
NoBackoff == [n \in Names |-> 0]
=============================================================================
