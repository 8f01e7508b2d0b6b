-------------------------------- MODULE Mail --------------------------------
(***************************************************************************)
(* Package mail: a message put on the queue by Queued, and the SMTP        *)
(* exchange of every attempt a worker makes to send it.                    *)
(*                                                                         *)
(* The queue is what package queue promises: a job is claimed, which       *)
(* counts as an attempt, and comes back when the attempt returns an error  *)
(* or its worker dies, until the attempts are used up.  The server is      *)
(* external: it may refuse at every command, or take a command and have    *)
(* its answer lost or come after the deadline.                             *)
(***************************************************************************)
EXTENDS Naturals, FiniteSets

CONSTANTS
    Addresses,      \* what may stand in To, Cc and Bcc
    Malformed,      \* those with a line break or without an @
    MailAttempts,   \* MaxAttempts of SendJob
    MaxUnsure       \* bound: a job with this many unsure attempts is not retried by hand

ASSUME MailAssumption == MailAttempts \in Nat \ {0} /\ MaxUnsure \in Nat /\ Malformed \subseteq Addresses

VARIABLES
    mail,       \* the job: where it is, its attempts and the recipients of its message
    smtp,       \* the attempt under way: the command it waits for
    envelope,   \* recipients the server has accepted on this connection
    letters,    \* history: letters[r], how often the server took a message for r
    taken,      \* history: has the server taken the message in this attempt?
    unsure      \* history: attempts that failed although the server took it

mailVars == <<mail, smtp, envelope, letters, taken, unsure>>

\* The commands before the envelope.  STARTTLS is left out when it is not asked for
\* or not offered, AUTH without a username.
Follows == [dial |-> {"hello"}, hello |-> {"starttls", "auth", "from"},
            starttls |-> {"auth", "from"}, auth |-> {"from"}, from |-> {"rcpt"}]

MailTypeOK ==
    /\ mail \in [at: {"none", "queued", "running", "done", "failed"}, tries: 0..MailAttempts,
                to: SUBSET Addresses]
    /\ smtp \in DOMAIN Follows \cup {"none", "rcpt", "data", "body", "end", "quit"}
    /\ envelope \subseteq mail.to
    /\ letters \in [Addresses -> Nat] /\ taken \in BOOLEAN /\ unsure \in Nat

MailInit ==
    /\ mail = [at |-> "none", tries |-> 0, to |-> {}]
    /\ smtp = "none" /\ envelope = {}
    /\ letters = [r \in Addresses |-> 0] /\ taken = FALSE /\ unsure = 0
-----------------------------------------------------------------------------
\* Validate: someone to send it to, and addresses that are ones; the sender and the
\* body are taken to be there.
Validate(to) == to # {} /\ to \cap Malformed = {}

\* Queued.Send: a message that does not validate, or cannot be pushed, is refused here.
Enqueue(to) ==
    /\ mail.at = "none"
    /\ Validate(to)
    /\ mail' = [mail EXCEPT !.at = "queued", !.to = to]
    /\ UNCHANGED <<smtp, envelope, letters, taken, unsure>>

\* A worker claims the job and runs SendJob.
RunSendJob ==
    /\ mail.at = "queued"
    /\ mail' = [mail EXCEPT !.at = "running", !.tries = @ + 1]
    /\ smtp' = "dial" /\ envelope' = {} /\ taken' = FALSE
    /\ UNCHANGED <<letters, unsure>>

\* A command succeeds and the next one is sent.
Reply(next) ==
    /\ smtp \in DOMAIN Follows /\ next \in Follows[smtp]
    /\ smtp' = next
    /\ UNCHANGED <<mail, envelope, letters, taken, unsure>>

\* Faulty variant: a recipient the server refuses is left out.
Rcpt_m1(r) ==
    /\ smtp = "rcpt" /\ r \in mail.to \ envelope
    /\ \/ envelope' = envelope \cup {r} /\ smtp' = IF envelope' = mail.to THEN "data" ELSE "rcpt"
       \/ envelope' = envelope /\ smtp' = "data"
    /\ UNCHANGED <<mail, letters, taken, unsure>>

\* RCPT, one recipient after the other.
Rcpt(r) ==
    /\ smtp = "rcpt" /\ r \in mail.to \ envelope
    /\ envelope' = envelope \cup {r}
    /\ smtp' = IF envelope' = mail.to THEN "data" ELSE "rcpt"
    /\ UNCHANGED <<mail, letters, taken, unsure>>

\* DATA, the body, and the dot that ends it.
Data ==
    /\ smtp \in {"data", "body"}
    /\ smtp' = IF smtp = "data" THEN "body" ELSE "end"
    /\ UNCHANGED <<mail, envelope, letters, taken, unsure>>

\* The server takes the message for everyone in the envelope ...
Takes ==
    /\ smtp = "end" /\ ~taken
    /\ taken' = TRUE
    /\ letters' = [r \in Addresses |-> IF r \in envelope THEN letters[r] + 1 ELSE letters[r]]
    /\ UNCHANGED <<mail, smtp, envelope, unsure>>

\* ... and its answer to the dot arrives.
Acknowledge ==
    /\ smtp = "end" /\ taken
    /\ smtp' = "quit"
    /\ UNCHANGED <<mail, envelope, letters, taken, unsure>>

\* Once the attempt is over only the queue has it.
Hangs(state) ==
    /\ mail' = [mail EXCEPT !.at = state]
    /\ smtp' = "none" /\ envelope' = {} /\ taken' = FALSE
    /\ UNCHANGED letters

\* QUIT is answered and Send returns nil.
Sent ==
    /\ smtp = "quit"
    /\ Hangs("done")
    /\ UNCHANGED unsure

\* Any step is refused, times out or breaks, QUIT too, or the worker dies: the job is
\* tried again while attempts are left.
SendFails ==
    /\ smtp # "none"
    /\ Hangs(IF mail.tries < MailAttempts THEN "queued" ELSE "failed")
    /\ unsure' = IF taken THEN unsure + 1 ELSE unsure

\* queue:retry starts a failed job over.
RetryMail ==
    /\ mail.at = "failed" /\ unsure < MaxUnsure
    /\ mail' = [mail EXCEPT !.at = "queued", !.tries = 0]
    /\ UNCHANGED <<smtp, envelope, letters, taken, unsure>>

MailNext ==
    \/ RunSendJob \/ Data \/ Takes \/ Acknowledge \/ Sent \/ SendFails \/ RetryMail
    \/ \E next \in UNION {Follows[s] : s \in DOMAIN Follows} : Reply(next)
    \/ \E r \in Addresses : Rcpt(r)
    \/ \E to \in SUBSET Addresses : Enqueue(to)

MailSpec == MailInit /\ [][MailNext]_mailVars
-----------------------------------------------------------------------------
\* A message goes to all of its recipients or to none: they have the same number of
\* copies, and nobody else has any: one if the job is done and none if it is not, and one more for every attempt
\* whose failure came after the server had taken the message, which Send cannot tell
\* from one that failed before.
MailWhole ==
    \A r \in Addresses :
        letters[r] = IF r \in mail.to THEN unsure + (IF mail.at = "done" \/ taken THEN 1 ELSE 0) ELSE 0
=============================================================================
