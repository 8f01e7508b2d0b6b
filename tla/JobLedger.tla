----------------------------- MODULE JobLedger -----------------------------
(***************************************************************************)
(* What package queue promises of a job, whichever driver stores it: it is *)
(* accounted for from the moment Push returns.  A job leaves the store     *)
(* only once its Run has returned nil or once its failure is on record,    *)
(* and an id that has left never comes back; a retried job gets a new id.  *)
(*                                                                         *)
(* The promise allows a job to be run and to be failed more than once, and *)
(* to be on record as failed while it is still stored: those are the       *)
(* at-least-once cases the package documents.                              *)
(***************************************************************************)
CONSTANT Jobs

VARIABLES
    minted,    \* ids Push has handed out
    queued,    \* jobs in the store
    done,      \* jobs whose Run returned nil
    buried,    \* jobs on record as failed
    requeued   \* jobs an operator took back from there

vars == <<minted, queued, done, buried, requeued>>

Init ==
    /\ minted = {} /\ queued = {} /\ done = {} /\ buried = {} /\ requeued = {}

Push(i) ==
    /\ i \notin minted
    /\ minted' = minted \cup {i}
    /\ queued' = queued \cup {i}
    /\ UNCHANGED <<done, buried, requeued>>

Succeed(i) ==
    /\ i \in minted
    /\ done' = done \cup {i}
    /\ UNCHANGED <<minted, queued, buried, requeued>>

Settled(i) == i \in done \cup buried \cup requeued

Leave(i) ==
    /\ Settled(i)
    /\ queued' = queued \ {i}
    /\ UNCHANGED <<minted, done, buried, requeued>>

\* The failure is recorded, and the job leaves in the same step or later.
Bury(i) ==
    /\ i \in minted
    /\ buried' = buried \cup {i}
    /\ queued' \in {queued, queued \ {i}}
    /\ UNCHANGED <<minted, done, requeued>>

\* Job i, read from the failure records, is pushed again as j; its record is
\* cleared in the same step or later.
Requeue(i, j) ==
    /\ i \in buried \cup requeued
    /\ j \notin minted
    /\ minted' = minted \cup {j}
    /\ queued' = queued \cup {j}
    /\ requeued' = requeued \cup {i}
    /\ buried' \in {buried, buried \ {i}}
    /\ UNCHANGED done

Clear(i) ==
    /\ i \in requeued
    /\ buried' = buried \ {i}
    /\ UNCHANGED <<minted, queued, done, requeued>>

Next ==
    \E i \in Jobs :
        \/ Push(i) \/ Succeed(i) \/ Leave(i) \/ Bury(i) \/ Clear(i)
        \/ \E j \in Jobs : Requeue(i, j)

Spec == Init /\ [][Next]_vars
-----------------------------------------------------------------------------
TypeOK ==
    /\ minted \subseteq Jobs /\ queued \subseteq Jobs /\ done \subseteq Jobs
    /\ buried \subseteq Jobs /\ requeued \subseteq Jobs

\* No job is lost: every id handed out is stored, done, failed or requeued.
Accounted == minted \subseteq queued \cup done \cup buried \cup requeued

\* A job that has left the store never comes back under its id.
NoResurrection == [][queued' \cap minted \subseteq queued]_vars
=============================================================================
