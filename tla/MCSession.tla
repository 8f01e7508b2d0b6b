----------------------------- MODULE MCSession -----------------------------
(* Instances of Session for TLC.                                           *)
EXTENDS Session, FiniteSetsExt, TLC

\* Requests and accounts are interchangeable.
Alike == Permutations(Requests) \cup Permutations(Users)

\* Of an expiry: whether it has passed, and else no more than that no request before
\* the end of Rush extends it or finds it over.
Clip(e) == IF e < time THEN 0 ELSE Min({e, Max(Rush) + TTL - Minute})

\* Once requests have overlapped, no property reads at, act and out, and no
\* guard ever does: states that differ only in them, or in expiries of no
\* consequence, are one.
Relevant ==
    IF overlapped
    THEN <<time, cookie, nextSid, born, ended,
           [s \in Sid |-> IF rows[s] = None THEN None ELSE [rows[s] EXCEPT !.expires = Clip(@)]],
           [q \in Requests |-> IF req[q] = None THEN None
                               ELSE [req[q] EXCEPT !.at = 0, !.act = "none", !.sess.expires = Clip(@)]]>>
    ELSE vars
=============================================================================
