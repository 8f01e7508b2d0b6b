------------------------------ MODULE Session ------------------------------
(***************************************************************************)
(* Package session with its database and MongoDB stores, and what package  *)
(* auth does to a session: requests that load a session, change it in      *)
(* memory, save it at their first write and answer with a cookie.          *)
(*                                                                         *)
(* A request is several steps: between its Load and its Save other         *)
(* requests of the same browser, a "log out everywhere", the pruning of    *)
(* expired rows and the clock all go on.  A statement of the store is one  *)
(* step.                                                                   *)
(*                                                                         *)
(* A session id that was drawn and not yet saved is in no store and no     *)
(* browser, so it is None here and gets its number when it is saved.       *)
(* A client may go on presenting a cookie past its MaxAge, so cookies do   *)
(* not expire here.                                                        *)
(***************************************************************************)
EXTENDS Naturals

CONSTANTS
    Browsers,    \* clients, each with its own cookie
    Requests,    \* requests in flight at the same time
    Users,       \* accounts
    TTL,         \* the store's lifetime, in ticks
    Minute,      \* the extension Touch does not bother to save
    MaxSid,      \* bound: session ids
    MaxClock,    \* bound: the clock
    Rush,        \* bound: when a browser sends a request while another is out
    None         \* absence: no row, no cookie, no user

Sid == 1..MaxSid

ASSUME SessionAssumption ==
    /\ TTL \in Nat \ {0} /\ Minute \in Nat
    /\ MaxSid \in Nat /\ MaxClock \in Nat /\ Rush \subseteq Nat
    /\ None \notin Nat /\ None \notin Users

VARIABLES
    time,       \* the clock
    rows,       \* rows[s]: the row of session s in the store, or None
    cookie,     \* cookie[b]: the session id browser b presents, or None
    req,        \* req[q]: the request in flight in q, or None
    nextSid,    \* the next session id
    born,       \* history: born[s], the user session s was first saved for
    ended,      \* history: sessions deleted while no request carried them
    overlapped, \* history: has a browser had two requests in flight?
    out         \* history: browsers whose logout was answered since their last login

vars == <<time, rows, cookie, req, nextSid, born, ended, overlapped, out>>

\* The sessions table: of the data, who is logged in, and the expiry.
Row == [user: Users \cup {None}, expires: Nat]

\* Session in memory.
Mem == [id: Sid \cup {None}, user: Users \cup {None}, expires: Nat, dirty: BOOLEAN]

\* What the handler did last, or that the save failed.
Acts == {"none", "login", "logout", "destroy", "failed"}

\* A request; sets and to are the Set-Cookie its answer will carry, at is when
\* it loaded.
Request == [b: Browsers, sess: Mem, phase: {"expired", "handler", "saved"},
            sets: BOOLEAN, to: Sid \cup {None}, act: Acts, at: Nat]

ASSUME NoRequestAssumption == None \notin Row /\ None \notin Request

TypeOK ==
    /\ time \in Nat
    /\ rows \in [Sid -> Row \cup {None}]
    /\ cookie \in [Browsers -> Sid \cup {None}]
    /\ req \in [Requests -> Request \cup {None}]
    /\ nextSid \in Nat \ {0}
    /\ born \in [Sid -> Users \cup {None}]
    /\ ended \subseteq Sid
    /\ overlapped \in BOOLEAN
    /\ out \subseteq Browsers

Init ==
    /\ time = 0
    /\ rows = [s \in Sid |-> None]
    /\ cookie = [b \in Browsers |-> None]
    /\ req = [q \in Requests |-> None]
    /\ nextSid = 1
    /\ born = [s \in Sid |-> None]
    /\ ended = {}
    /\ overlapped = FALSE
    /\ out = {}
-----------------------------------------------------------------------------
(* Session in memory.                                                      *)

\* New: empty, clean, and known to nobody.
NewSession(t) ==
    [id |-> None, user |-> None, expires |-> t + TTL, dirty |-> FALSE]

\* Faulty variant: the extension is not marked for saving.
Touch_m1(m, t) == IF t + TTL > m.expires + Minute THEN [m EXCEPT !.expires = t + TTL] ELSE m

\* Touch: only an extension of more than a minute counts.
Touch(m, t) ==
    IF t + TTL > m.expires + Minute
    THEN [m EXCEPT !.expires = t + TTL, !.dirty = TRUE]
    ELSE m

\* Put, Forget or Pull of another key that changes its value.
Edit(m) == [m EXCEPT !.dirty = TRUE]

\* Clear of a session that holds something; an empty one is left alone.
Clear(m) == [m EXCEPT !.user = None, !.dirty = TRUE]

\* Faulty variant: the new id is the empty string.
Regenerate_m1(m) == [m EXCEPT !.id = 0, !.dirty = TRUE]

Regenerate(m) == [m EXCEPT !.id = None, !.dirty = TRUE]

\* Faulty variant: the data stays.
Invalidate_m1(m) == Regenerate(m)

Invalidate(m) == Regenerate([m EXCEPT !.user = None])

\* Faulty variant: the id is kept.
LoginAs_m1(m, u) == [m EXCEPT !.user = u, !.dirty = TRUE]

\* auth.Login
LoginAs(m, u) == [Regenerate(m) EXCEPT !.user = u]
-----------------------------------------------------------------------------
(* The store.                                                              *)

Live(s) == rows[s] # None /\ ~(time > rows[s].expires)

\* Rows in S are deleted; the ones no request in flight carries are on record.
Carried == {req[q].sess.id : q \in {x \in Requests : req[x] # None}} \ {None}

Delete(S) ==
    /\ rows' = [s \in Sid |-> IF s \in S THEN None ELSE rows[s]]
    /\ ended' = ended \cup {s \in Sid \cap S : rows[s] # None /\ s \notin Carried}
-----------------------------------------------------------------------------
(* Middleware: Load.                                                       *)

Begin(q, b, m, p) ==
    /\ req[q] = None
    /\ (\E x \in Requests : req[x] # None /\ req[x].b = b) => time \in Rush
    /\ req' = [req EXCEPT ![q] =
                 [b |-> b, sess |-> m, phase |-> p, sets |-> FALSE, to |-> None,
                  act |-> "none", at |-> time]]
    /\ overlapped' = (overlapped \/ \E x \in Requests : req[x] # None /\ req[x].b = b)
    /\ UNCHANGED <<time, rows, cookie, nextSid, born, ended, out>>

\* Faulty variant: an id the store does not know is taken over.
LoadNone_m1(q, b) ==
    /\ cookie[b] # None => rows[cookie[b]] = None
    /\ Begin(q, b, [NewSession(time) EXCEPT !.id = cookie[b]], "handler")

\* No cookie, or no row for it: ErrNotFound.
LoadNone(q, b) ==
    /\ cookie[b] # None => rows[cookie[b]] = None
    /\ Begin(q, b, NewSession(time), "handler")

LoadLive(q, b) ==
    /\ cookie[b] # None /\ Live(cookie[b])
    /\ LET r == rows[cookie[b]]
       IN  Begin(q, b, Touch([id |-> cookie[b], user |-> r.user,
                              expires |-> r.expires, dirty |-> FALSE], time), "handler")

\* The row has expired: it is read here and deleted in a later step.
LoadExpired(q, b) ==
    /\ cookie[b] # None /\ rows[cookie[b]] # None /\ ~Live(cookie[b])
    /\ Begin(q, b, [NewSession(time) EXCEPT !.id = cookie[b]], "expired")

\* The delete by id, then ErrNotFound.
DropExpired(q) ==
    /\ req[q] # None /\ req[q].phase = "expired"
    /\ Delete({req[q].sess.id})
    /\ req' = [req EXCEPT ![q].phase = "handler", ![q].sess = NewSession(time)]
    /\ UNCHANGED <<time, cookie, nextSid, born, overlapped, out>>

\* The store fails, at the read or at the delete of an expired row: the visitor
\* gets a fresh session.
LoadError(q, b) ==
    /\ cookie[b] # None
    /\ Begin(q, b, NewSession(time), "handler")
-----------------------------------------------------------------------------
(* The handler.  What it does to the session after the save changes only   *)
(* memory that nobody reads again, so those steps are left out.            *)

Handling(q) == req[q] # None /\ req[q].phase = "handler"

Change(q, m, a) ==
    /\ Handling(q)
    /\ req' = [req EXCEPT ![q].sess = m, ![q].act = a]
    /\ UNCHANGED <<time, rows, cookie, nextSid, born, ended, overlapped, out>>

Write(q) == Change(q, Edit(req[q].sess), req[q].act)
Empty(q) == Change(q, Clear(req[q].sess), req[q].act)
Login(q) == \E u \in Users : Change(q, LoginAs(req[q].sess, u), "login")
Logout(q) == Change(q, Invalidate(req[q].sess), "logout")

\* Jar.Delete counts unless the headers are gone.
ClearCookie(q, a) ==
    req' = [req EXCEPT ![q].act = a,
                       ![q].sets = @ \/ req[q].phase = "handler",
                       ![q].to = IF req[q].phase = "handler" THEN None ELSE @]

\* Destroy: the cookie is cleared and the row deleted, before or after the
\* save; the session in memory stays as it is, dirty or not.
Destroy(q) ==
    /\ req[q] # None /\ req[q].phase \in {"handler", "saved"}
    /\ Delete({req[q].sess.id})
    /\ ClearCookie(q, "destroy")
    /\ UNCHANGED <<time, cookie, nextSid, born, overlapped, out>>

\* The delete fails after the cookie is cleared.
DestroyError(q) ==
    /\ req[q] # None /\ req[q].phase \in {"handler", "saved"}
    /\ ClearCookie(q, req[q].act)
    /\ UNCHANGED <<time, rows, cookie, nextSid, born, ended, overlapped, out>>
-----------------------------------------------------------------------------
(* saver.save: at the first write, or when the handler has returned.       *)

\* Once saved, only the id is read again (by Destroy): the rest is forgotten.
Saved(s) == [id |-> s, user |-> None, expires |-> 0, dirty |-> FALSE]

\* A clean session costs nothing.
SaveNothing(q) ==
    /\ Handling(q) /\ ~req[q].sess.dirty
    /\ req' = [req EXCEPT ![q].phase = "saved", ![q].sess = Saved(req[q].sess.id)]
    /\ UNCHANGED <<time, rows, cookie, nextSid, born, ended, overlapped, out>>

\* Store.Save: an upsert, then the cookie, then markSaved.
Upsert(q, s) ==
    LET m == req[q].sess
    IN  /\ rows' = [rows EXCEPT ![s] = [user |-> m.user, expires |-> m.expires]]
        /\ req' = [req EXCEPT ![q].phase = "saved", ![q].sets = TRUE, ![q].to = s,
                              ![q].sess = Saved(s)]

SaveKnown(q) ==
    /\ Handling(q) /\ req[q].sess.dirty /\ req[q].sess.id # None
    /\ Upsert(q, req[q].sess.id)
    /\ UNCHANGED <<time, cookie, nextSid, born, ended, overlapped, out>>

SaveNew(q) ==
    /\ Handling(q) /\ req[q].sess.dirty /\ req[q].sess.id = None
    /\ nextSid <= MaxSid
    /\ Upsert(q, nextSid)
    /\ nextSid' = nextSid + 1
    /\ born' = [born EXCEPT ![nextSid] = req[q].sess.user]
    /\ UNCHANGED <<time, cookie, ended, overlapped, out>>

\* Save fails: logged, and the response goes out without a cookie.
SaveError(q) ==
    /\ Handling(q) /\ req[q].sess.dirty
    /\ req' = [req EXCEPT ![q].phase = "saved", ![q].sess = Saved(req[q].sess.id),
                          ![q].act = "failed"]
    /\ UNCHANGED <<time, rows, cookie, nextSid, born, ended, overlapped, out>>
-----------------------------------------------------------------------------
\* The browser has the answer, and with it the last Set-Cookie of the session.
Answer(q) ==
    /\ req[q] # None /\ req[q].phase = "saved"
    /\ LET r == req[q]
       IN  /\ cookie' = IF r.sets THEN [cookie EXCEPT ![r.b] = r.to] ELSE cookie
           /\ out' = IF r.act = "logout" THEN out \cup {r.b}
                     ELSE IF r.act \in {"none", "failed"} THEN out ELSE out \ {r.b}
    /\ req' = [req EXCEPT ![q] = None]
    /\ UNCHANGED <<time, rows, nextSid, born, ended, overlapped>>

\* The connection breaks or the process dies: the request is over, what it
\* stored stays.
Abandon(q) ==
    /\ req[q] # None
    /\ req' = [req EXCEPT ![q] = None]
    /\ UNCHANGED <<time, rows, cookie, nextSid, born, ended, overlapped, out>>
-----------------------------------------------------------------------------
(* The rest of the store's callers, and the clock.                         *)

DestroyForUser(u) ==
    /\ Delete({s \in Sid : rows[s] # None /\ rows[s].user = u})
    /\ UNCHANGED <<time, cookie, req, nextSid, born, overlapped, out>>

\* Prune, or the TTL index of MongoDB.
Prune ==
    /\ Delete({s \in Sid : rows[s] # None /\ rows[s].expires < time})
    /\ UNCHANGED <<time, cookie, req, nextSid, born, overlapped, out>>

Pass ==
    /\ time < MaxClock /\ (overlapped => time + 1 \in Rush)
    /\ time' = time + 1
    /\ UNCHANGED <<rows, cookie, req, nextSid, born, ended, overlapped, out>>

LoadStep(q, b) == LoadNone(q, b) \/ LoadLive(q, b) \/ LoadExpired(q, b) \/ LoadError(q, b)

HandlerStep(q) ==
    \/ DropExpired(q) \/ Write(q) \/ Empty(q) \/ Login(q) \/ Logout(q) \/ Destroy(q) \/ DestroyError(q)
    \/ SaveNothing(q) \/ SaveKnown(q) \/ SaveNew(q) \/ SaveError(q)
    \/ Answer(q) \/ Abandon(q)

Next ==
    \/ \E q \in Requests : HandlerStep(q) \/ \E b \in Browsers : LoadStep(q, b)
    \/ \E u \in Users : DestroyForUser(u)
    \/ Prune
    \/ Pass

Spec == Init /\ [][Next]_vars
-----------------------------------------------------------------------------
(* Properties.                                                             *)

\* auth.Login, "The session id is regenerated first": the user of a session id
\* is settled when the id is first saved.  An id that was a guest's never
\* identifies anyone, and no id changes hands, whatever requests overlap.
OneOwner == \A s \in Sid : rows[s] # None => rows[s].user \in {None, born[s]}

\* DBStore, "deleting the row ends it immediately, however many browsers hold
\* the cookie": a session deleted by anyone while no request carries it stays
\* deleted, although browsers go on presenting its id.
EndedStaysEnded == \A s \in ended : rows[s] = None

\* A browser that sends one request at a time and was answered to its logout
\* identifies nobody until it logs in (or destroys the session) again.
LogoutSticks ==
    ~overlapped => \A b \in out : cookie[b] # None =>
        rows[cookie[b]] = None \/ rows[cookie[b]].user = None

\* Touch: while a visitor's requests do not overlap, the session a request
\* leaves behind lives for the whole lifetime from when that request loaded it,
\* give or take the minute that is not worth a write, unless its save failed.
SlidingExpiry ==
    ~overlapped => \A q \in Requests :
        req[q] # None /\ req[q].phase = "saved" /\ req[q].act # "failed" /\ req[q].sess.id # None =>
            \/ rows[req[q].sess.id] = None
            \/ rows[req[q].sess.id].expires + Minute >= req[q].at + TTL

\* Store.Destroy, "removes a session and clears its cookie": when the handler
\* destroyed the session last and the answer is on its way, the row is gone.
DestroyEnds ==
    \A q \in Requests :
        req[q] # None /\ req[q].phase = "saved" /\ req[q].act = "destroy" /\ req[q].sess.id # None =>
            rows[req[q].sess.id] = None
-----------------------------------------------------------------------------
(* What the proofs of SessionProofs need beside the properties.            *)

\* Only ids that were drawn are stored or carried.
KnownIds ==
    /\ \A s \in Sid : rows[s] # None => s < nextSid
    /\ \A q \in Requests : req[q] # None /\ req[q].sess.id # None => req[q].sess.id < nextSid

\* The session a request has in memory identifies nobody, or the user its id was
\* first saved for.
CarriedOwner ==
    \A q \in Requests : req[q] # None /\ req[q].sess.id # None =>
        req[q].sess.user \in {None, born[req[q].sess.id]}

\* What has ended was once drawn, and no request carries it.
NotCarried ==
    \A s \in ended :
        /\ s < nextSid
        /\ \A q \in Requests : req[q] # None => req[q].sess.id # s
=============================================================================
