-------------------------- MODULE JobLedgerProofs --------------------------
(* What every driver that implements JobLedger inherits.                   *)
EXTENDS JobLedger, TLAPS

\* Whatever is pushed, run, failed and retried, every id that was handed out
\* is stored, done, on record as failed, or was requeued.
THEOREM LedgerAccounts == Spec => []Accounted
<1>1. Init => Accounted
    BY DEF Init, Accounted
<1>2. Accounted /\ [Next]_vars => Accounted'
    <2> SUFFICES ASSUME Accounted, [Next]_vars PROVE Accounted'
        OBVIOUS
    <2> USE DEF Accounted
    <2>1. ASSUME NEW i \in Jobs, Push(i) PROVE Accounted'
        BY <2>1 DEF Push
    <2>2. ASSUME NEW i \in Jobs, Succeed(i) PROVE Accounted'
        BY <2>2 DEF Succeed
    <2>3. ASSUME NEW i \in Jobs, Leave(i) PROVE Accounted'
        BY <2>3 DEF Leave, Settled
    <2>4. ASSUME NEW i \in Jobs, Bury(i) PROVE Accounted'
        BY <2>4 DEF Bury
    <2>5. ASSUME NEW i \in Jobs, Clear(i) PROVE Accounted'
        BY <2>5 DEF Clear
    <2>6. ASSUME NEW i \in Jobs, NEW j \in Jobs, Requeue(i, j) PROVE Accounted'
        BY <2>6 DEF Requeue
    <2>7. CASE UNCHANGED vars
        BY <2>7 DEF vars
    <2> QED
        BY <2>1, <2>2, <2>3, <2>4, <2>5, <2>6, <2>7 DEF Next
<1> QED
    BY <1>1, <1>2, PTL DEF Spec

\* No late Complete, Release or Fail can put a job that has left the store
\* back into it.
THEOREM LedgerForgets == Spec => NoResurrection
<1>1. [Next]_vars => [queued' \cap minted \subseteq queued]_vars
    <2> SUFFICES ASSUME Next PROVE queued' \cap minted \subseteq queued
        OBVIOUS
    <2> QED
        BY DEF Next, Push, Succeed, Leave, Bury, Clear, Requeue
<1> QED
    BY <1>1, PTL DEF Spec, NoResurrection
=============================================================================
