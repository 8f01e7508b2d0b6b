--------------------------- MODULE SessionProofs ---------------------------
(***************************************************************************)
(* For any number of browsers, overlapping requests, users and sessions:   *)
(* what a session is, who it belongs to, and that it ends.                 *)
(***************************************************************************)
EXTENDS Session, TLAPS

USE SessionAssumption, NoRequestAssumption
-----------------------------------------------------------------------------
(* Types.                                                                  *)

LEMMA NewMem == ASSUME TypeOK PROVE NewSession(time) \in Mem /\ NewSession(time).id = None
BY DEF TypeOK, NewSession, Mem

LEMMA TouchMem ==
    ASSUME NEW m \in Mem, NEW t \in Nat
    PROVE  /\ Touch(m, t) \in Mem
           /\ Touch(m, t).id = m.id /\ Touch(m, t).user = m.user
<1> DEFINE n == [m EXCEPT !.expires = t + TTL, !.dirty = TRUE]
<1>1. n \in Mem /\ n.id = m.id /\ n.user = m.user
    <2>1. t + TTL \in Nat
        OBVIOUS
    <2>2. PICK e \in Nat : e = t + TTL
        BY <2>1
    <2>3. n = [m EXCEPT !.expires = e, !.dirty = TRUE]
        BY <2>2
    <2> QED
        BY <2>3 DEF Mem
<1>2. Touch(m, t) = n \/ Touch(m, t) = m
    BY DEF Touch
<1> HIDE DEF n
<1> QED
    BY <1>1, <1>2

\* What a handler does to the session in memory.
LEMMA ChangeMem ==
    ASSUME NEW m \in Mem
    PROVE  /\ Edit(m) \in Mem /\ Edit(m).id = m.id /\ Edit(m).user = m.user
           /\ Clear(m) \in Mem /\ Clear(m).id = m.id /\ Clear(m).user = None
           /\ Invalidate(m) \in Mem /\ Invalidate(m).id = None
           /\ \A u \in Users : LoginAs(m, u) \in Mem /\ LoginAs(m, u).id = None
BY DEF Mem, Edit, Clear, Invalidate, Regenerate, LoginAs

LEMMA SavedMem ==
    ASSUME NEW s \in Sid \cup {None}
    PROVE  Saved(s) \in Mem /\ Saved(s).id = s /\ Saved(s).user = None
BY DEF Saved, Mem

LEMMA DeleteType ==
    ASSUME TypeOK, NEW S, Delete(S)
    PROVE  rows' \in [Sid -> Row \cup {None}] /\ ended' \subseteq Sid
BY DEF TypeOK, Delete

LEMMA BeginType ==
    ASSUME TypeOK, NEW q \in Requests, NEW b \in Browsers, NEW m \in Mem,
           NEW p \in {"expired", "handler", "saved"}, Begin(q, b, m, p)
    PROVE  TypeOK' /\ req'[q] # None /\ req'[q].sess = m
           /\ \A x \in Requests : x # q => req'[x] = req[x]
<1> DEFINE r == [b |-> b, sess |-> m, phase |-> p, sets |-> FALSE, to |-> None,
                 act |-> "none", at |-> time]
<1>1. r \in Request
    BY DEF TypeOK, Request, Acts
<1>2. req' = [req EXCEPT ![q] = r]
    BY DEF Begin
<1>3. overlapped' \in BOOLEAN
    BY DEF Begin, TypeOK
<1>4. req' \in [Requests -> Request \cup {None}]
    BY <1>1, <1>2 DEF TypeOK
<1> HIDE DEF r
<1>5. req'[q] = r /\ \A x \in Requests : x # q => req'[x] = req[x]
    BY <1>2 DEF TypeOK
<1> QED
    BY <1>1, <1>3, <1>4, <1>5 DEF Begin, TypeOK, r

LEMMA TypeInit == Init => TypeOK
<1> SUFFICES ASSUME Init PROVE TypeOK
    OBVIOUS
<1>1. overlapped \in BOOLEAN
    BY DEF Init
<1>2. rows \in [Sid -> Row \cup {None}] /\ cookie \in [Browsers -> Sid \cup {None}]
    BY DEF Init
<1>3. req \in [Requests -> Request \cup {None}] /\ born \in [Sid -> Users \cup {None}]
    BY DEF Init
<1> QED
    BY <1>1, <1>2, <1>3 DEF Init, TypeOK

\* The loads, and what they bring into memory.
LEMMA LoadBegins ==
    ASSUME TypeOK, NEW q \in Requests, NEW b \in Browsers, LoadStep(q, b)
    PROVE  \E m \in Mem, p \in {"expired", "handler", "saved"} :
              /\ Begin(q, b, m, p)
              /\ \/ m.id = None
                 \/ /\ m.id \in Sid /\ rows[m.id] # None
                    /\ m.user \in {None, rows[m.id].user}
<1>1. CASE LoadNone(q, b) \/ LoadError(q, b)
    BY <1>1, NewMem DEF LoadNone, LoadError
<1>2. CASE LoadLive(q, b)
    <2> DEFINE c == [id |-> cookie[b], user |-> rows[cookie[b]].user,
                     expires |-> rows[cookie[b]].expires, dirty |-> FALSE]
    <2>1. cookie[b] \in Sid /\ rows[cookie[b]] # None /\ rows[cookie[b]] \in Row /\ time \in Nat
        BY <1>2 DEF LoadLive, Live, TypeOK
    <2>2. c \in Mem /\ c.id = cookie[b] /\ c.user = rows[cookie[b]].user
        BY <2>1 DEF Mem, Row
    <2>3. Begin(q, b, Touch(c, time), "handler")
        BY <1>2 DEF LoadLive
    <2> HIDE DEF c
    <2>4. Touch(c, time) \in Mem /\ Touch(c, time).id = c.id /\ Touch(c, time).user = c.user
        BY <2>1, <2>2, TouchMem
    <2> QED
        BY <2>1, <2>2, <2>3, <2>4
<1>3. CASE LoadExpired(q, b)
    <2>0. PICK n \in Mem : n = NewSession(time) /\ n.user = None
        BY NewMem DEF NewSession
    <2> DEFINE m == [n EXCEPT !.id = cookie[b]]
    <2>1. cookie[b] \in Sid /\ rows[cookie[b]] # None
        BY <1>3 DEF LoadExpired, TypeOK
    <2>2. m \in Mem /\ m.id = cookie[b] /\ m.user = None
        BY <2>0, <2>1 DEF Mem
    <2>3. Begin(q, b, m, "expired")
        BY <1>3, <2>0 DEF LoadExpired
    <2> HIDE DEF m
    <2> QED
        BY <2>1, <2>2, <2>3
<1> QED
    BY <1>1, <1>2, <1>3 DEF LoadStep

\* A step that only replaces the request in q.
LEMMA ReplaceType ==
    ASSUME TypeOK, NEW q \in Requests, NEW r \in Request \cup {None},
           req' = [req EXCEPT ![q] = r]
    PROVE  /\ req' \in [Requests -> Request \cup {None}] /\ req'[q] = r
           /\ \A x \in Requests : x # q => req'[x] = req[x]
BY DEF TypeOK

\* What each step of a request makes of it: the request it leaves in q, whose
\* session is known to nobody, or is the one it had.
LEMMA HandlerReplaces ==
    ASSUME TypeOK, NEW q \in Requests, HandlerStep(q), ~SaveNew(q)
    PROVE  /\ req[q] \in Request /\ req[q].sess \in Mem
           /\ \E r \in Request \cup {None} :
                 /\ req' = [req EXCEPT ![q] = r]
                 /\ r # None => \/ r.sess.id = None
                                \/ /\ r.sess.id = req[q].sess.id
                                   /\ r.sess.user \in {None, req[q].sess.user}
<1>0. req[q] # None
    BY DEF HandlerStep, DropExpired, Write, Empty, Login, Logout, Change, Handling, Destroy,
           DestroyError, SaveNothing, SaveKnown, SaveError, Answer, Abandon, SaveNew
<1>1. req[q] \in Request /\ req[q].sess \in Mem
    BY <1>0 DEF TypeOK, Request
<1> DEFINE Kept(r) ==
        r # None => \/ r.sess.id = None
                    \/ r.sess.id = req[q].sess.id /\ r.sess.user \in {None, req[q].sess.user}
<1> DEFINE Goal == \E r \in Request \cup {None} : req' = [req EXCEPT ![q] = r] /\ Kept(r)
<1> SUFFICES Goal
    BY <1>1
<1>m. PICK o \in Request : o = req[q] /\ o.sess \in Mem
    BY <1>1
<1>2. ASSUME NEW m \in Mem, NEW a \in Acts, Change(q, m, a),
             m.id = None \/ (m.id = req[q].sess.id /\ m.user \in {None, req[q].sess.user})
      PROVE  Goal
    <2> DEFINE r == [o EXCEPT !.sess = m, !.act = a]
    <2>1. r \in Request /\ r.sess = m
        BY DEF Request
    <2>2. req' = [req EXCEPT ![q] = r]
        BY <1>2, <1>m DEF Change
    <2> HIDE DEF r
    <2> QED
        BY <2>1, <2>2, <1>2
<1>3. CASE Write(q) \/ Empty(q) \/ Login(q) \/ Logout(q)
    <2>1. {"login", "logout", req[q].act} \subseteq Acts
        BY <1>1 DEF Request, Acts
    <2>2. CASE Write(q)
        BY <1>1, <1>2, <2>1, <2>2, ChangeMem DEF Write
    <2>3. CASE Empty(q)
        BY <1>1, <1>2, <2>1, <2>3, ChangeMem DEF Empty
    <2>4. CASE Login(q)
        BY <1>1, <1>2, <2>1, <2>4, ChangeMem DEF Login
    <2>5. CASE Logout(q)
        BY <1>1, <1>2, <2>1, <2>5, ChangeMem DEF Logout
    <2> QED
        BY <1>3, <2>2, <2>3, <2>4, <2>5
<1>4. CASE DropExpired(q)
    <2>1. PICK n \in Mem : n = NewSession(time) /\ n.id = None
        BY NewMem
    <2> DEFINE r == [o EXCEPT !.phase = "handler", !.sess = n]
    <2>2. r \in Request /\ r.sess = n
        BY DEF Request
    <2>3. req' = [req EXCEPT ![q] = r]
        BY <1>4, <1>m, <2>1 DEF DropExpired
    <2> HIDE DEF r
    <2> QED
        BY <2>1, <2>2, <2>3
<1>5. ASSUME NEW a \in Acts, ClearCookie(q, a) PROVE Goal
    <2>1. PICK x \in BOOLEAN : x = (o.sets \/ o.phase = "handler")
        OBVIOUS
    <2>2. PICK y \in Sid \cup {None} : y = IF o.phase = "handler" THEN None ELSE o.to
        BY DEF Request
    <2> DEFINE r == [o EXCEPT !.act = a, !.sets = x, !.to = y]
    <2>3. r \in Request /\ r.sess = o.sess
        BY DEF Request
    <2>4. req' = [req EXCEPT ![q] = r]
        BY <1>5, <1>m, <2>1, <2>2 DEF ClearCookie
    <2> HIDE DEF r
    <2> QED
        BY <2>3, <2>4, <1>m
<1>6. CASE Destroy(q) \/ DestroyError(q)
    <2>1. "destroy" \in Acts /\ req[q].act \in Acts
        BY <1>1 DEF Request, Acts
    <2> QED
        BY <1>5, <1>6, <2>1 DEF Destroy, DestroyError
<1>7. PICK v \in Mem : v = Saved(o.sess.id) /\ v.id = o.sess.id /\ v.user = None
    BY <1>m, SavedMem DEF Mem
<1>8. CASE SaveNothing(q)
    <2> DEFINE r == [o EXCEPT !.phase = "saved", !.sess = v]
    <2>1. r \in Request /\ r.sess = v
        BY DEF Request
    <2>2. req' = [req EXCEPT ![q] = r]
        BY <1>8, <1>m, <1>7 DEF SaveNothing
    <2> HIDE DEF r
    <2> QED
        BY <2>1, <2>2, <1>7, <1>m
<1>9. CASE SaveError(q)
    <2> DEFINE r == [o EXCEPT !.phase = "saved", !.sess = v, !.act = "failed"]
    <2>1. r \in Request /\ r.sess = v
        BY DEF Request, Acts
    <2>2. req' = [req EXCEPT ![q] = r]
        BY <1>9, <1>m, <1>7 DEF SaveError
    <2> HIDE DEF r
    <2> QED
        BY <2>1, <2>2, <1>7, <1>m
<1>10. CASE SaveKnown(q)
    <2>1. PICK s \in Sid : s = o.sess.id
        BY <1>10, <1>m DEF SaveKnown, Mem
    <2> DEFINE r == [o EXCEPT !.phase = "saved", !.sets = TRUE, !.to = s, !.sess = v]
    <2>2. r \in Request /\ r.sess = v
        BY DEF Request
    <2>3. req' = [req EXCEPT ![q] = r]
        BY <1>10, <1>m, <1>7, <2>1 DEF SaveKnown, Upsert
    <2> HIDE DEF r
    <2> QED
        BY <2>2, <2>3, <1>7, <1>m
<1>11. CASE Answer(q) \/ Abandon(q)
    <2>1. req' = [req EXCEPT ![q] = None]
        BY <1>11 DEF Answer, Abandon
    <2> QED
        BY <2>1
<1> QED
    BY <1>3, <1>4, <1>6, <1>8, <1>9, <1>10, <1>11 DEF HandlerStep

\* The first save of a session draws its id.
LEMMA SaveNewEffect ==
    ASSUME TypeOK, NEW q \in Requests, SaveNew(q)
    PROVE  /\ nextSid \in Sid /\ nextSid' = nextSid + 1
           /\ req[q] \in Request /\ req[q].sess \in Mem
           /\ \E r \in Request : req' = [req EXCEPT ![q] = r]
                                 /\ r.sess.id = nextSid /\ r.sess.user = None
           /\ \E w \in Row : rows' = [rows EXCEPT ![nextSid] = w] /\ w.user = req[q].sess.user
           /\ born' = [born EXCEPT ![nextSid] = req[q].sess.user]
           /\ UNCHANGED <<time, cookie, ended, overlapped, out>>
<1>1. nextSid \in Sid /\ nextSid' = nextSid + 1
    BY DEF SaveNew, TypeOK, Sid
<1>2. PICK o \in Request : o = req[q] /\ o.sess \in Mem
    BY DEF SaveNew, Handling, TypeOK, Request
<1>3. PICK v \in Mem : v = Saved(nextSid) /\ v.id = nextSid /\ v.user = None
    BY <1>1, SavedMem
<1> DEFINE r == [o EXCEPT !.phase = "saved", !.sets = TRUE, !.to = nextSid, !.sess = v]
<1>4. r \in Request /\ r.sess = v
    BY <1>1 DEF Request
<1>5. req' = [req EXCEPT ![q] = r]
    BY <1>2, <1>3 DEF SaveNew, Upsert
<1> HIDE DEF r
<1> DEFINE w == [user |-> o.sess.user, expires |-> o.sess.expires]
<1>6. w \in Row /\ w.user = o.sess.user
    BY <1>2 DEF Row, Mem
<1>7. rows' = [rows EXCEPT ![nextSid] = w]
    BY <1>2 DEF SaveNew, Upsert
<1> HIDE DEF w
<1>8. born' = [born EXCEPT ![nextSid] = req[q].sess.user]
      /\ UNCHANGED <<time, cookie, ended, overlapped, out>>
    BY DEF SaveNew
<1> QED
    BY <1>1, <1>2, <1>3, <1>4, <1>5, <1>6, <1>7, <1>8

\* A later save writes the row of the id the request carries.
LEMMA SaveKnownEffect ==
    ASSUME TypeOK, NEW q \in Requests, SaveKnown(q)
    PROVE  /\ req[q] # None /\ req[q].sess.id \in Sid
           /\ \E w \in Row : rows' = [rows EXCEPT ![req[q].sess.id] = w]
                             /\ w.user = req[q].sess.user
           /\ UNCHANGED <<time, cookie, nextSid, born, ended, overlapped, out>>
<1>1. req[q] # None /\ req[q].sess \in Mem /\ req[q].sess.id \in Sid
    BY DEF SaveKnown, Handling, TypeOK, Request, Mem
<1> DEFINE w == [user |-> req[q].sess.user, expires |-> req[q].sess.expires]
<1>2. w \in Row /\ w.user = req[q].sess.user
    BY <1>1 DEF Row, Mem
<1>3. rows' = [rows EXCEPT ![req[q].sess.id] = w]
    BY DEF SaveKnown, Upsert
<1> HIDE DEF w
<1> QED
    BY <1>1, <1>2, <1>3 DEF SaveKnown

\* The steps of a request that neither save nor delete a row.
LEMMA HandlerQuiet ==
    ASSUME TypeOK, NEW q \in Requests, HandlerStep(q),
           ~SaveNew(q), ~SaveKnown(q), ~DropExpired(q), ~Destroy(q)
    PROVE  UNCHANGED <<time, rows, nextSid, born, ended, overlapped>>
BY DEF HandlerStep, Write, Empty, Login, Logout, Change, DestroyError, SaveNothing, SaveError,
       Answer, Abandon

LEMMA TypeStep == TypeOK /\ [Next]_vars => TypeOK'
<1> SUFFICES ASSUME TypeOK, [Next]_vars PROVE TypeOK'
    OBVIOUS
<1>1. ASSUME NEW q \in Requests, NEW b \in Browsers, LoadStep(q, b) PROVE TypeOK'
    BY <1>1, LoadBegins, BeginType
<1>2. ASSUME NEW q \in Requests, SaveNew(q) PROVE TypeOK'
    <2>1. req' \in [Requests -> Request \cup {None}]
        BY <1>2, SaveNewEffect, ReplaceType
    <2>2. rows' \in [Sid -> Row \cup {None}] /\ nextSid' \in Nat \ {0}
        BY <1>2, SaveNewEffect DEF TypeOK
    <2>3. req[q].sess.user \in Users \cup {None}
        BY <1>2, SaveNewEffect DEF Mem
    <2>4. born' \in [Sid -> Users \cup {None}]
        BY <1>2, <2>3, SaveNewEffect DEF TypeOK
    <2> QED
        BY <1>2, <2>1, <2>2, <2>4, SaveNewEffect DEF TypeOK
<1>3. ASSUME NEW q \in Requests, HandlerStep(q), ~SaveNew(q) PROVE TypeOK'
    <2>1. req[q] \in Request /\ req' \in [Requests -> Request \cup {None}]
        BY <1>3, HandlerReplaces, ReplaceType
    <2>2. CASE SaveKnown(q)
        BY <2>1, <2>2, SaveKnownEffect DEF TypeOK
    <2>3. CASE DropExpired(q) \/ Destroy(q)
        BY <2>1, <2>3, DeleteType DEF DropExpired, Destroy, TypeOK
    <2>4. CASE Answer(q)
        <3>1. req[q].b \in Browsers /\ req[q].to \in Sid \cup {None}
            BY <2>1 DEF Request
        <3>2. cookie' \in [Browsers -> Sid \cup {None}] /\ out' \subseteq Browsers
            BY <2>4, <3>1 DEF Answer, TypeOK
        <3> QED
            BY <2>1, <2>4, <3>2 DEF Answer, TypeOK
    <2>5. CASE ~SaveKnown(q) /\ ~DropExpired(q) /\ ~Destroy(q) /\ ~Answer(q)
        <3>1. UNCHANGED <<cookie, out>>
            BY <1>3, <2>5 DEF HandlerStep, Write, Empty, Login, Logout, Change, DestroyError,
                  SaveNothing, SaveError, Abandon
        <3> QED
            BY <1>3, <2>1, <2>5, <3>1, HandlerQuiet DEF TypeOK
    <2> QED
        BY <2>2, <2>3, <2>4, <2>5
<1>4. ASSUME NEW u \in Users, DestroyForUser(u) PROVE TypeOK'
    BY <1>4, DeleteType DEF DestroyForUser, TypeOK
<1>5. CASE Prune
    BY <1>5, DeleteType DEF Prune, TypeOK
<1>6. CASE Pass
    BY <1>6 DEF Pass, TypeOK
<1>7. CASE UNCHANGED vars
    BY <1>7 DEF vars, TypeOK
<1> QED
    BY <1>1, <1>2, <1>3, <1>4, <1>5, <1>6, <1>7 DEF Next

\* Rows, cookies and requests are well typed in every reachable state, however
\* many requests overlap.
THEOREM SessionTyped == Spec => []TypeOK
BY TypeInit, TypeStep, PTL DEF Spec
-----------------------------------------------------------------------------
(* Who a session belongs to, and that it ends.                             *)

SessionInv == OneOwner /\ EndedStaysEnded /\ KnownIds /\ CarriedOwner /\ NotCarried

LEMMA SessionInvInit == Init => SessionInv
BY DEF Init, SessionInv, OneOwner, EndedStaysEnded, KnownIds, CarriedOwner, NotCarried

\* The request in q in the next state carries what it carried, with its user or
\* with none, or an id that is not known.
Keeps(q) ==
    req'[q] # None =>
        \/ req'[q].sess.id = None
        \/ /\ req[q] # None /\ req'[q].sess.id = req[q].sess.id
           /\ req'[q].sess.user \in {None, req[q].sess.user}

\* It carries what the store has.
Reads(q) ==
    /\ req'[q].sess.id \in Sid /\ rows[req'[q].sess.id] # None
    /\ req'[q].sess.user \in {None, rows[req'[q].sess.id].user}

LEMMA HandlerKeeps ==
    ASSUME TypeOK, NEW q \in Requests, HandlerStep(q), ~SaveNew(q)
    PROVE  \A x \in Requests : Keeps(x)
<1>1. req[q] \in Request /\ req[q] # None
    BY HandlerReplaces
<1>2. PICK r \in Request \cup {None} :
        /\ req' = [req EXCEPT ![q] = r]
        /\ r # None => \/ r.sess.id = None
                       \/ /\ r.sess.id = req[q].sess.id
                          /\ r.sess.user \in {None, req[q].sess.user}
    BY HandlerReplaces
<1>3. req'[q] = r /\ \A x \in Requests : x # q => req'[x] = req[x]
    BY <1>2, ReplaceType
<1> QED
    BY <1>1, <1>2, <1>3 DEF Keeps

LEMMA EndedIds == TypeOK => None \notin ended /\ \A s \in ended : s \in Sid /\ s \in Nat
<1>1. None \notin Sid /\ \A s \in Sid : s \in Nat
    BY DEF Sid
<1> QED
    BY <1>1 DEF TypeOK

\* A step that leaves the store alone.
LEMMA StoreQuiet ==
    ASSUME TypeOK, SessionInv, UNCHANGED <<rows, nextSid, born, ended>>,
           \A x \in Requests : Keeps(x) \/ Reads(x)
    PROVE  SessionInv'
<1>1. ASSUME NEW x \in Requests, req'[x] # None, req'[x].sess.id # None
      PROVE  /\ req'[x].sess.id < nextSid
             /\ req'[x].sess.user \in {None, born[req'[x].sess.id]}
             /\ req'[x].sess.id \notin ended
    <2>1. CASE Keeps(x)
        BY <1>1, <2>1 DEF Keeps, SessionInv, KnownIds, CarriedOwner, NotCarried
    <2>2. CASE Reads(x)
        BY <1>1, <2>2 DEF Reads, SessionInv, KnownIds, OneOwner, EndedStaysEnded
    <2> QED
        BY <2>1, <2>2
<1>2. OneOwner' /\ EndedStaysEnded'
    BY DEF SessionInv, OneOwner, EndedStaysEnded
<1>3. KnownIds' /\ CarriedOwner'
    BY <1>1 DEF SessionInv, KnownIds, CarriedOwner
<1>4. NotCarried'
    <2>1. None \notin ended
        BY EndedIds
    <2> QED
        BY <1>1, <2>1 DEF SessionInv, NotCarried
<1> QED
    BY <1>2, <1>3, <1>4 DEF SessionInv

\* A step that deletes rows.
LEMMA DeleteKeepsInv ==
    ASSUME TypeOK, SessionInv, NEW S, Delete(S), UNCHANGED <<nextSid, born>>,
           \A x \in Requests : Keeps(x)
    PROVE  SessionInv'
<1>1. \A s \in Sid : rows'[s] = None \/ rows'[s] = rows[s]
    BY DEF Delete
<1>2. ASSUME NEW s \in ended'
      PROVE  s \in Sid /\ s # None /\ s < nextSid /\ rows'[s] = None
             /\ \A x \in Requests : req[x] # None => req[x].sess.id # s
    <2>1. CASE s \in ended
        BY <2>1, <1>1 DEF SessionInv, EndedStaysEnded, NotCarried, TypeOK, Sid
    <2>2. CASE s \notin ended
        <3>1. s \in Sid /\ s \in S /\ rows[s] # None /\ s \notin Carried
            BY <1>2, <2>2 DEF Delete
        <3>2. s # None /\ s < nextSid /\ rows'[s] = None
            BY <3>1 DEF Delete, SessionInv, KnownIds, Sid
        <3>3. \A x \in Requests : req[x] # None => req[x].sess.id # s
            BY <3>1, <3>2 DEF Carried
        <3> QED
            BY <3>1, <3>2, <3>3
    <2> QED
        BY <2>1, <2>2
<1>3. OneOwner' /\ EndedStaysEnded'
    BY <1>1, <1>2 DEF SessionInv, OneOwner, EndedStaysEnded
<1>4. KnownIds' /\ CarriedOwner'
    BY <1>1 DEF SessionInv, KnownIds, CarriedOwner, Keeps
<1>5. NotCarried'
    BY <1>2 DEF NotCarried, Keeps
<1> QED
    BY <1>3, <1>4, <1>5 DEF SessionInv

LEMMA SessionInvStep == TypeOK /\ SessionInv /\ [Next]_vars => SessionInv'
<1> SUFFICES ASSUME TypeOK, SessionInv, [Next]_vars PROVE SessionInv'
    OBVIOUS
<1>k. ASSUME req' = req PROVE \A x \in Requests : Keeps(x)
    BY <1>k DEF Keeps
<1>1. ASSUME NEW q \in Requests, NEW b \in Browsers, LoadStep(q, b) PROVE SessionInv'
    <2>1. PICK m \in Mem, p \in {"expired", "handler", "saved"} :
              /\ Begin(q, b, m, p)
              /\ \/ m.id = None
                 \/ /\ m.id \in Sid /\ rows[m.id] # None
                    /\ m.user \in {None, rows[m.id].user}
        BY <1>1, LoadBegins
    <2>2. req'[q] # None /\ req'[q].sess = m /\ \A x \in Requests : x # q => req'[x] = req[x]
        BY <2>1, BeginType
    <2>3. \A x \in Requests : Keeps(x) \/ Reads(x)
        BY <2>1, <2>2 DEF Keeps, Reads
    <2> QED
        BY <2>1, <2>3, StoreQuiet DEF Begin
<1>2. ASSUME NEW q \in Requests, SaveNew(q) PROVE SessionInv'
    <2> DEFINE s == nextSid
    <2>1. PICK r \in Request : req' = [req EXCEPT ![q] = r] /\ r.sess.id = s /\ r.sess.user = None
        BY <1>2, SaveNewEffect
    <2>2. PICK w \in Row : rows' = [rows EXCEPT ![s] = w] /\ w.user = req[q].sess.user
        BY <1>2, SaveNewEffect
    <2>3. /\ s \in Sid /\ nextSid' = s + 1 /\ s \in Nat /\ ended' = ended
          /\ born' = [born EXCEPT ![s] = req[q].sess.user]
        BY <1>2, SaveNewEffect DEF Sid
    <2>4. req'[q] = r /\ \A x \in Requests : x # q => req'[x] = req[x]
        BY <2>1, ReplaceType
    <2>5. \A t \in Sid : t # s => rows'[t] = rows[t] /\ born'[t] = born[t]
        BY <2>2, <2>3 DEF TypeOK
    <2>6. rows'[s] = w /\ born'[s] = w.user
        BY <2>2, <2>3 DEF TypeOK
    <2>7. \A x \in Requests : req[x] # None /\ req[x].sess.id # None =>
              req[x].sess.id \in Sid /\ req[x].sess.id # s
        BY <2>3 DEF SessionInv, KnownIds, TypeOK, Request, Mem, Sid
    <2>8. s \notin ended
        BY <2>3 DEF SessionInv, NotCarried
    <2>9. OneOwner'
        BY <2>5, <2>6 DEF SessionInv, OneOwner
    <2>10. EndedStaysEnded'
        BY <2>3, <2>5, <2>8 DEF SessionInv, EndedStaysEnded, TypeOK
    <2>11. KnownIds'
        <3>1. ASSUME NEW t \in Sid, rows'[t] # None PROVE t < nextSid'
            BY <2>3, <2>5, <3>1 DEF SessionInv, KnownIds, Sid
        <3>2. ASSUME NEW x \in Requests, req'[x] # None, req'[x].sess.id # None
              PROVE  req'[x].sess.id < nextSid'
            BY <2>1, <2>3, <2>4, <2>7, <3>2 DEF SessionInv, KnownIds, Sid
        <3> QED
            BY <3>1, <3>2 DEF KnownIds
    <2>12. CarriedOwner'
        BY <2>1, <2>4, <2>5, <2>7 DEF SessionInv, CarriedOwner
    <2>13. NotCarried'
        <3>1. ASSUME NEW t \in ended PROVE t < nextSid' /\ t # s
            BY <2>3, <2>8, EndedIds DEF SessionInv, NotCarried
        <3> QED
            BY <2>1, <2>3, <2>4, <3>1 DEF SessionInv, NotCarried
    <2> QED
        BY <2>9, <2>10, <2>11, <2>12, <2>13 DEF SessionInv
<1>3. ASSUME NEW q \in Requests, SaveKnown(q) PROVE SessionInv'
    <2> DEFINE s == req[q].sess.id
    <2>1. PICK w \in Row : rows' = [rows EXCEPT ![s] = w] /\ w.user = req[q].sess.user
        BY <1>3, SaveKnownEffect
    <2>2. req[q] # None /\ s \in Sid /\ UNCHANGED <<nextSid, born, ended>> /\ s # None
        BY <1>3, SaveKnownEffect DEF Sid
    <2>3. \A x \in Requests : Keeps(x)
        <3>1. HandlerStep(q) /\ ~SaveNew(q)
            BY <1>3 DEF HandlerStep, SaveKnown, SaveNew
        <3> QED
            BY <3>1, HandlerKeeps
    <2>4. rows'[s] = w /\ \A t \in Sid : t # s => rows'[t] = rows[t]
        BY <2>1, <2>2 DEF TypeOK
    <2>5. s < nextSid /\ s \notin ended /\ w.user \in {None, born[s]}
        BY <2>1, <2>2 DEF SessionInv, KnownIds, NotCarried, CarriedOwner
    <2> HIDE DEF s
    <2>6. OneOwner'
        BY <2>2, <2>4, <2>5 DEF SessionInv, OneOwner
    <2>7. EndedStaysEnded'
        BY <2>2, <2>4, <2>5 DEF SessionInv, EndedStaysEnded, TypeOK
    <2>8. KnownIds'
        BY <2>2, <2>3, <2>4, <2>5 DEF SessionInv, KnownIds, Keeps
    <2>9. CarriedOwner'
        BY <2>2, <2>3 DEF SessionInv, CarriedOwner, Keeps
    <2>10. NotCarried'
        <3>1. None \notin ended
            BY EndedIds
        <3> QED
            BY <2>2, <2>3, <3>1 DEF SessionInv, NotCarried, Keeps
    <2> QED
        BY <2>6, <2>7, <2>8, <2>9, <2>10 DEF SessionInv
<1>4. ASSUME NEW q \in Requests, HandlerStep(q), ~SaveNew(q), ~SaveKnown(q) PROVE SessionInv'
    <2>1. \A x \in Requests : Keeps(x)
        BY <1>4, HandlerKeeps
    <2>2. CASE DropExpired(q) \/ Destroy(q)
        BY <2>1, <2>2, DeleteKeepsInv DEF DropExpired, Destroy
    <2>3. CASE ~DropExpired(q) /\ ~Destroy(q)
        BY <1>4, <2>1, <2>3, HandlerQuiet, StoreQuiet
    <2> QED
        BY <2>2, <2>3
<1>5. ASSUME NEW u \in Users, DestroyForUser(u) PROVE SessionInv'
    BY <1>5, <1>k, DeleteKeepsInv DEF DestroyForUser
<1>6. CASE Prune
    BY <1>6, <1>k, DeleteKeepsInv DEF Prune
<1>7. CASE Pass \/ UNCHANGED vars
    BY <1>7, <1>k, StoreQuiet DEF Pass, vars
<1> QED
    BY <1>1, <1>2, <1>3, <1>4, <1>5, <1>6, <1>7 DEF Next

\* No session id changes hands: whatever requests overlap, fail or are
\* abandoned, a stored session identifies nobody or the user its id was first
\* saved for, as auth.Login's Regenerate is meant to ensure.
THEOREM NoHandOver == Spec => []OneOwner
<1>1. Init => TypeOK /\ SessionInv
    BY TypeInit, SessionInvInit
<1>2. TypeOK /\ SessionInv /\ [Next]_vars => (TypeOK /\ SessionInv)'
    BY TypeStep, SessionInvStep
<1>3. SessionInv => OneOwner
    BY DEF SessionInv
<1> QED
    BY <1>1, <1>2, <1>3, PTL DEF Spec

\* A session whose row was deleted while no request carried it never comes
\* back, although browsers go on presenting its id to Load.
THEOREM DeletedForGood == Spec => []EndedStaysEnded
<1>1. Init => TypeOK /\ SessionInv
    BY TypeInit, SessionInvInit
<1>2. TypeOK /\ SessionInv /\ [Next]_vars => (TypeOK /\ SessionInv)'
    BY TypeStep, SessionInvStep
<1>3. SessionInv => EndedStaysEnded
    BY DEF SessionInv
<1> QED
    BY <1>1, <1>2, <1>3, PTL DEF Spec
-----------------------------------------------------------------------------
(* One request of a browser at a time.                                     *)

\* A browser's ids: its cookie, and what its requests carry and answer with.
Holds(b, s) ==
    \/ cookie[b] = s
    \/ \E q \in Requests : req[q] # None /\ req[q].b = b /\ s \in {req[q].sess.id, req[q].to}

\* A session id is one browser's, whatever overlaps.
PrivateIds ==
    \A s \in Sid, b \in Browsers : Holds(b, s) =>
        s < nextSid /\ \A c \in Browsers : Holds(c, s) => c = b

OneEach ==
    \A q, x \in Requests : req[q] # None /\ req[x] # None /\ req[q].b = req[x].b => q = x

\* Session s identifies nobody.
Guest(s) == rows[s] = None \/ rows[s].user = None

\* What a request of a browser that has logged out, or is logging out, will leave:
\* a session of nobody.
LeavesGuest(q) ==
    /\ req[q].phase # "saved" => req[q].to = None /\ req[q].act # "failed"
    /\ req[q].phase = "expired" => req[q].act = "none"
    /\ req[q].phase = "saved" /\ req[q].act = "failed" => req[q].to = None
    /\ req[q].act = "logout" =>
         IF req[q].phase = "saved" THEN req[q].sets /\ (req[q].to # None => Guest(req[q].to))
         ELSE req[q].sess.dirty /\ req[q].sess.id = None /\ req[q].sess.user = None
    /\ req[q].b \in out =>
         IF req[q].phase = "saved"
         THEN req[q].act = "none" /\ req[q].to # None => Guest(req[q].to)
         ELSE req[q].sess.id # None \/ req[q].act = "none" => req[q].sess.user = None

\* The lifetime a request's session has in memory, and in the store where that is as
\* good or the request is through.
LivesOn(q) ==
    /\ req[q].at <= time
    /\ req[q].phase # "saved" => req[q].sess.expires + Minute >= req[q].at + TTL
    /\ req[q].phase = "handler" /\ ~req[q].sess.dirty /\ req[q].sess.id # None =>
         rows[req[q].sess.id] = None \/ rows[req[q].sess.id].expires = req[q].sess.expires
    /\ req[q].phase = "saved" /\ req[q].act # "failed" /\ req[q].sess.id # None =>
         rows[req[q].sess.id] = None \/ rows[req[q].sess.id].expires + Minute >= req[q].at + TTL

SoloInv ==
    /\ PrivateIds
    /\ ~overlapped => /\ OneEach /\ LogoutSticks
                      /\ \A q \in Requests : req[q] # None => LeavesGuest(q) /\ LivesOn(q)

\* Only the request in q changes.
Others(q) == \A x \in Requests : x # q => req'[x] = req[x]

\* What a load finds: nothing, or the browser's own session.
LEMMA LoadEffect ==
    ASSUME TypeOK, NEW q \in Requests, NEW b \in Browsers, LoadStep(q, b)
    PROVE  \E m \in Mem, p \in {"expired", "handler"} :
              /\ Begin(q, b, m, p)
              /\ m.id \in {None, cookie[b]}
              /\ m.user # None => /\ cookie[b] # None /\ rows[cookie[b]] # None
                                  /\ m.user = rows[cookie[b]].user
              /\ m.expires + Minute >= time + TTL
              /\ p = "handler" /\ ~m.dirty /\ m.id # None => m.expires = rows[m.id].expires
<1>t. time \in Nat /\ TTL \in Nat /\ Minute \in Nat
    BY DEF TypeOK
<1>0. PICK n \in Mem : /\ n = NewSession(time) /\ n.user = None /\ n.id = None
                       /\ n.expires = time + TTL /\ n.dirty = FALSE
    BY NewMem DEF NewSession
<1>1. CASE LoadNone(q, b) \/ LoadError(q, b)
    <2>1. Begin(q, b, n, "handler")
        BY <1>0, <1>1 DEF LoadNone, LoadError
    <2> QED
        BY <1>t, <1>0, <2>1
<1>2. CASE LoadLive(q, b)
    <2> DEFINE c == [id |-> cookie[b], user |-> rows[cookie[b]].user,
                     expires |-> rows[cookie[b]].expires, dirty |-> FALSE]
               d == [c EXCEPT !.expires = time + TTL, !.dirty = TRUE]
    <2>1. cookie[b] \in Sid /\ cookie[b] # None /\ rows[cookie[b]] # None /\ rows[cookie[b]] \in Row
        BY <1>2 DEF LoadLive, Live, TypeOK
    <2>2. /\ c \in Mem /\ c.id = cookie[b] /\ c.user = rows[cookie[b]].user
          /\ c.expires = rows[cookie[b]].expires /\ c.expires \in Nat
        BY <2>1 DEF Mem, Row
    <2>3. Begin(q, b, Touch(c, time), "handler")
        BY <1>2 DEF LoadLive
    <2>4. d.id = c.id /\ d.user = c.user /\ d.expires = time + TTL /\ d.dirty = TRUE
        OBVIOUS
    <2>5. Touch(c, time) = IF time + TTL > c.expires + Minute THEN d ELSE c
        BY DEF Touch
    <2> HIDE DEF c, d
    <2>6. Touch(c, time) \in Mem /\ Touch(c, time).id = c.id /\ Touch(c, time).user = c.user
        BY <1>t, <2>2, TouchMem
    <2>7. Touch(c, time).expires + Minute >= time + TTL
        BY <1>t, <2>2, <2>4, <2>5
    <2>8. ~Touch(c, time).dirty => Touch(c, time).expires = c.expires
        BY <2>4, <2>5
    <2> QED
        BY <2>1, <2>2, <2>3, <2>6, <2>7, <2>8
<1>3. CASE LoadExpired(q, b)
    <2> DEFINE m == [n EXCEPT !.id = cookie[b]]
    <2>1. cookie[b] \in Sid
        BY <1>3 DEF LoadExpired, TypeOK
    <2>2. m \in Mem /\ m.id = cookie[b] /\ m.user = None /\ m.expires = n.expires
        BY <1>0, <2>1 DEF Mem
    <2>3. Begin(q, b, m, "expired")
        BY <1>0, <1>3 DEF LoadExpired
    <2> HIDE DEF m
    <2> QED
        BY <1>t, <1>0, <2>2, <2>3
<1> QED
    BY <1>1, <1>2, <1>3 DEF LoadStep

LEMMA BeginEffect ==
    ASSUME TypeOK, NEW q \in Requests, NEW b \in Browsers, NEW m \in Mem,
           NEW p \in {"expired", "handler"}, Begin(q, b, m, p)
    PROVE  /\ Others(q) /\ req[q] = None /\ req'[q] # None /\ req'[q].b = b /\ req'[q].sess = m
           /\ req'[q].phase = p /\ req'[q].to = None /\ req'[q].act = "none" /\ req'[q].at = time
           /\ ~overlapped' => ~overlapped /\ \A x \in Requests : req[x] # None => req[x].b # b
           /\ UNCHANGED <<time, rows, cookie, nextSid, out>>
<1> DEFINE r == [b |-> b, sess |-> m, phase |-> p, sets |-> FALSE, to |-> None,
                 act |-> "none", at |-> time]
<1>1. req[q] = None /\ req' = [req EXCEPT ![q] = r]
      /\ overlapped' = (overlapped \/ \E x \in Requests : req[x] # None /\ req[x].b = b)
      /\ UNCHANGED <<time, rows, cookie, nextSid, out>>
    BY DEF Begin
<1>2. r \in Request
    BY DEF TypeOK, Request, Acts
<1>3. r.b = b /\ r.sess = m /\ r.phase = p /\ r.to = None /\ r.act = "none" /\ r.at = time
    OBVIOUS
<1> HIDE DEF r
<1>4. Others(q) /\ req'[q] = r
    BY <1>1 DEF TypeOK, Others
<1>5. ~overlapped' => ~overlapped /\ \A x \in Requests : req[x] # None => req[x].b # b
    BY <1>1, Zenon
<1>6. r # None
    BY <1>2
<1> QED
    BY <1>1, <1>3, <1>4, <1>5, <1>6

\* A handler's change of the session in memory.
LEMMA ChangeEffect ==
    ASSUME TypeOK, NEW q \in Requests, NEW m \in Mem, NEW a \in Acts, Change(q, m, a)
    PROVE  /\ Others(q) /\ req[q] # None /\ req[q].phase = "handler"
           /\ req'[q] # None /\ req'[q].b = req[q].b /\ req'[q].sess = m /\ req'[q].phase = "handler"
           /\ req'[q].sets = req[q].sets /\ req'[q].to = req[q].to /\ req'[q].act = a
           /\ req'[q].at = req[q].at
           /\ UNCHANGED <<time, rows, cookie, nextSid, overlapped, out>>
<1>1. req[q] # None /\ req[q].phase = "handler" /\ req' = [req EXCEPT ![q].sess = m, ![q].act = a]
      /\ UNCHANGED <<time, rows, cookie, nextSid, overlapped, out>>
    BY DEF Change, Handling
<1>2. PICK o \in Request : o = req[q]
    BY <1>1 DEF TypeOK
<1> DEFINE r == [o EXCEPT !.sess = m, !.act = a]
<1>3. r \in Request /\ r.b = o.b /\ r.sess = m /\ r.phase = o.phase /\ r.sets = o.sets /\ r.to = o.to
      /\ r.act = a /\ r.at = o.at
    BY DEF Request
<1>4. req' = [req EXCEPT ![q] = r]
    BY <1>1, <1>2
<1> HIDE DEF r
<1>5. Others(q) /\ req'[q] = r
    BY <1>4 DEF TypeOK, Others
<1>6. r # None
    BY <1>3
<1> QED
    BY <1>1, <1>2, <1>3, <1>5, <1>6

LEMMA DropEffect ==
    ASSUME TypeOK, NEW q \in Requests, DropExpired(q)
    PROVE  /\ Others(q) /\ req[q] # None /\ req[q].phase = "expired"
           /\ req'[q] # None /\ req'[q].b = req[q].b /\ req'[q].sess = NewSession(time)
           /\ req'[q].phase = "handler" /\ req'[q].to = req[q].to /\ req'[q].act = req[q].act
           /\ req'[q].at = req[q].at
           /\ Delete({req[q].sess.id}) /\ UNCHANGED <<time, cookie, nextSid, overlapped, out>>
<1>1. /\ req[q] # None /\ req[q].phase = "expired" /\ Delete({req[q].sess.id})
      /\ req' = [req EXCEPT ![q].phase = "handler", ![q].sess = NewSession(time)]
      /\ UNCHANGED <<time, cookie, nextSid, overlapped, out>>
    BY DEF DropExpired
<1>2. PICK o \in Request : o = req[q]
    BY <1>1 DEF TypeOK
<1>3. PICK n \in Mem : n = NewSession(time)
    BY NewMem
<1> DEFINE r == [o EXCEPT !.phase = "handler", !.sess = n]
<1>4. r \in Request /\ r.b = o.b /\ r.sess = n /\ r.phase = "handler" /\ r.to = o.to
      /\ r.act = o.act /\ r.at = o.at
    BY DEF Request
<1>5. req' = [req EXCEPT ![q] = r]
    BY <1>1, <1>2, <1>3
<1> HIDE DEF r
<1>6. Others(q) /\ req'[q] = r
    BY <1>5 DEF TypeOK, Others
<1>7. r # None
    BY <1>4
<1> QED
    BY <1>1, <1>2, <1>3, <1>4, <1>6, <1>7

LEMMA ClearEffect ==
    ASSUME TypeOK, NEW q \in Requests, NEW a \in Acts, req[q] # None, ClearCookie(q, a)
    PROVE  /\ Others(q)
           /\ req'[q] # None /\ req'[q].b = req[q].b /\ req'[q].sess = req[q].sess
           /\ req'[q].phase = req[q].phase /\ req'[q].act = a /\ req'[q].at = req[q].at
           /\ req[q].sets => req'[q].sets
           /\ req'[q].to = IF req[q].phase = "handler" THEN None ELSE req[q].to
<1>1. PICK o \in Request : o = req[q]
    BY DEF TypeOK
<1>2. PICK x \in BOOLEAN : x = (o.sets \/ o.phase = "handler")
    OBVIOUS
<1>3. PICK y \in Sid \cup {None} : y = IF o.phase = "handler" THEN None ELSE o.to
    BY DEF Request
<1> DEFINE r == [o EXCEPT !.act = a, !.sets = x, !.to = y]
<1>4. r \in Request /\ r.b = o.b /\ r.sess = o.sess /\ r.phase = o.phase /\ r.sets = x /\ r.to = y
      /\ r.act = a /\ r.at = o.at
    BY DEF Request
<1>5. req' = [req EXCEPT ![q] = r]
    BY <1>1, <1>2, <1>3 DEF ClearCookie
<1> HIDE DEF r
<1>6. Others(q) /\ req'[q] = r
    BY <1>5 DEF TypeOK, Others
<1>7. r # None
    BY <1>4
<1>8. o.sets => r.sets
    BY <1>2, <1>4
<1> QED
    BY <1>1, <1>3, <1>4, <1>6, <1>7, <1>8

\* The end of a request that stores nothing: act is what it was, or that the save failed.
LEMMA UnsavedEffect ==
    ASSUME TypeOK, NEW q \in Requests, SaveNothing(q) \/ SaveError(q)
    PROVE  /\ Others(q) /\ req[q] # None /\ req[q].phase = "handler"
           /\ req'[q] # None /\ req'[q].b = req[q].b /\ req'[q].sess.id = req[q].sess.id
           /\ req'[q].phase = "saved" /\ req'[q].to = req[q].to /\ req'[q].at = req[q].at
           /\ \/ ~req[q].sess.dirty /\ req'[q].act = req[q].act
              \/ req'[q].act = "failed"
           /\ UNCHANGED <<time, rows, cookie, nextSid, overlapped, out>>
<1>1. req[q] # None /\ req[q].phase = "handler" /\ UNCHANGED <<time, rows, cookie, nextSid, overlapped, out>>
    BY DEF SaveNothing, SaveError, Handling
<1>2. PICK o \in Request : o = req[q] /\ o.sess \in Mem
    BY <1>1 DEF TypeOK, Request
<1>3. PICK v \in Mem : v = Saved(o.sess.id) /\ v.id = o.sess.id
    BY <1>2, SavedMem DEF Mem
<1>4. CASE SaveNothing(q)
    <2> DEFINE r == [o EXCEPT !.phase = "saved", !.sess = v]
    <2>1. r \in Request /\ r.b = o.b /\ r.sess = v /\ r.phase = "saved" /\ r.to = o.to
          /\ r.act = o.act /\ r.at = o.at
        BY DEF Request
    <2>2. req' = [req EXCEPT ![q] = r] /\ ~req[q].sess.dirty
        BY <1>2, <1>3, <1>4 DEF SaveNothing
    <2> HIDE DEF r
    <2>3. Others(q) /\ req'[q] = r /\ r # None
        BY <2>1, <2>2 DEF TypeOK, Others
    <2> QED
        BY <1>1, <1>2, <1>3, <2>1, <2>2, <2>3
<1>5. CASE SaveError(q)
    <2> DEFINE r == [o EXCEPT !.phase = "saved", !.sess = v, !.act = "failed"]
    <2>1. r \in Request /\ r.b = o.b /\ r.sess = v /\ r.phase = "saved" /\ r.to = o.to
          /\ r.act = "failed" /\ r.at = o.at
        BY DEF Request, Acts
    <2>2. req' = [req EXCEPT ![q] = r]
        BY <1>2, <1>3, <1>5 DEF SaveError
    <2> HIDE DEF r
    <2>3. Others(q) /\ req'[q] = r /\ r # None
        BY <2>1, <2>2 DEF TypeOK, Others
    <2> QED
        BY <1>1, <1>2, <1>3, <2>1, <2>3
<1> QED
    BY <1>4, <1>5

\* A save: the row and the answer's cookie.
LEMMA UpsertEffect ==
    ASSUME TypeOK, NEW q \in Requests, NEW s \in Sid, req[q] # None, Upsert(q, s)
    PROVE  /\ Others(q) /\ req'[q] # None /\ req'[q].b = req[q].b /\ req'[q].sess.id = s
           /\ req'[q].phase = "saved" /\ req'[q].sets /\ req'[q].to = s
           /\ req'[q].act = req[q].act /\ req'[q].at = req[q].at
           /\ \A x \in Sid : x # s => rows'[x] = rows[x]
           /\ rows'[s].user = req[q].sess.user /\ rows'[s].expires = req[q].sess.expires
<1>1. PICK o \in Request : o = req[q] /\ o.sess \in Mem
    BY DEF TypeOK, Request
<1>2. PICK v \in Mem : v = Saved(s) /\ v.id = s
    BY SavedMem
<1> DEFINE r == [o EXCEPT !.phase = "saved", !.sets = TRUE, !.to = s, !.sess = v]
           w == [user |-> o.sess.user, expires |-> o.sess.expires]
<1>3. r \in Request /\ r.b = o.b /\ r.sess = v /\ r.phase = "saved" /\ r.sets = TRUE /\ r.to = s
      /\ r.act = o.act /\ r.at = o.at
    BY DEF Request
<1>4. req' = [req EXCEPT ![q] = r] /\ rows' = [rows EXCEPT ![s] = w]
    BY <1>1, <1>2 DEF Upsert
<1>5. w.user = o.sess.user /\ w.expires = o.sess.expires
    OBVIOUS
<1> HIDE DEF r, w
<1>6. Others(q) /\ req'[q] = r /\ r # None /\ rows'[s] = w /\ \A x \in Sid : x # s => rows'[x] = rows[x]
    BY <1>3, <1>4 DEF TypeOK, Others
<1> QED
    BY <1>1, <1>2, <1>3, <1>5, <1>6

\* The effect of a handler's operations on memory, beside ChangeMem.
LEMMA ChangeKeeps ==
    ASSUME NEW m \in Mem
    PROVE  /\ Edit(m).expires = m.expires /\ Edit(m).dirty /\ Edit(m).user = m.user
           /\ Clear(m).expires = m.expires /\ Clear(m).dirty
           /\ Invalidate(m).expires = m.expires /\ Invalidate(m).dirty /\ Invalidate(m).user = None
           /\ \A u \in Users : LoginAs(m, u).expires = m.expires /\ LoginAs(m, u).dirty
BY DEF Mem, Edit, Clear, Invalidate, Regenerate, LoginAs

\* The four steps of a handler that change the session in memory.
LEMMA HandlerChanges ==
    ASSUME TypeOK, NEW q \in Requests, Write(q) \/ Empty(q) \/ Login(q) \/ Logout(q)
    PROVE  \E m \in Mem, a \in Acts :
              /\ Change(q, m, a) /\ m.expires = req[q].sess.expires /\ m.dirty
              /\ \/ a = req[q].act /\ m.id = req[q].sess.id /\ m.user \in {None, req[q].sess.user}
                 \/ a = "login" /\ m.id = None
                 \/ a = "logout" /\ m.id = None /\ m.user = None
<1>1. req[q] # None
    BY DEF Write, Empty, Login, Logout, Change, Handling
<1>2. req[q].sess \in Mem /\ req[q].act \in Acts /\ "login" \in Acts /\ "logout" \in Acts
    BY <1>1 DEF TypeOK, Request, Acts
<1>3. CASE Write(q)
    <2>1. PICK m \in Mem : /\ m = Edit(req[q].sess) /\ m.expires = req[q].sess.expires /\ m.dirty
                           /\ m.id = req[q].sess.id /\ m.user = req[q].sess.user
        BY <1>2, ChangeMem, ChangeKeeps
    <2>2. Change(q, m, req[q].act)
        BY <1>3, <2>1 DEF Write
    <2> QED
        BY <1>2, <2>1, <2>2
<1>4. CASE Empty(q)
    <2>1. PICK m \in Mem : /\ m = Clear(req[q].sess) /\ m.expires = req[q].sess.expires /\ m.dirty
                           /\ m.id = req[q].sess.id /\ m.user = None
        BY <1>2, ChangeMem, ChangeKeeps
    <2>2. Change(q, m, req[q].act)
        BY <1>4, <2>1 DEF Empty
    <2> QED
        BY <1>2, <2>1, <2>2
<1>5. CASE Login(q)
    <2>1. PICK u \in Users : Change(q, LoginAs(req[q].sess, u), "login")
        BY <1>5 DEF Login
    <2> DEFINE m == LoginAs(req[q].sess, u)
    <2>2. m \in Mem /\ m.id = None
        BY <1>2, ChangeMem
    <2>3. m.expires = req[q].sess.expires /\ m.dirty
        BY <1>2, ChangeKeeps
    <2> HIDE DEF m
    <2>4. Change(q, m, "login")
        BY <2>1 DEF m
    <2> QED
        BY <1>2, <2>2, <2>3, <2>4
<1>6. CASE Logout(q)
    <2>1. PICK m \in Mem : /\ m = Invalidate(req[q].sess) /\ m.expires = req[q].sess.expires /\ m.dirty
                           /\ m.id = None /\ m.user = None
        BY <1>2, ChangeMem, ChangeKeeps
    <2>2. Change(q, m, "logout")
        BY <1>6, <2>1 DEF Logout
    <2> QED
        BY <1>2, <2>1, <2>2
<1> QED
    BY <1>3, <1>4, <1>5, <1>6

\* A step of q that draws no id keeps ids where they are.
LEMMA PrivateQuiet ==
    ASSUME PrivateIds, NEW q \in Requests, Others(q), nextSid' = nextSid, cookie' = cookie,
           req'[q] # None =>
             /\ req'[q].b \in Browsers
             /\ \A s \in {req'[q].sess.id, req'[q].to} \cap Sid : Holds(req'[q].b, s)
    PROVE  PrivateIds'
<1>1. ASSUME NEW s \in Sid, NEW b \in Browsers, Holds(b, s)' PROVE Holds(b, s)
    <2>1. CASE cookie'[b] = s
        BY <2>1 DEF Holds
    <2>2. ASSUME NEW x \in Requests, req'[x] # None, req'[x].b = b, s \in {req'[x].sess.id, req'[x].to}
          PROVE  Holds(b, s)
        <3>1. CASE x = q
            BY <2>2, <3>1
        <3>2. CASE x # q
            BY <2>2, <3>2 DEF Holds, Others
        <3> QED
            BY <3>1, <3>2
    <2> QED
        BY <1>1, <2>1, <2>2 DEF Holds
<1> QED
    BY <1>1 DEF PrivateIds

LEMMA PrivateStep == TypeOK /\ PrivateIds /\ [Next]_vars => PrivateIds'
<1> SUFFICES ASSUME TypeOK, PrivateIds, [Next]_vars PROVE PrivateIds'
    OBVIOUS
<1>s. None \notin Sid
    BY DEF Sid
<1>r. \A q \in Requests : req[q] # None => /\ req[q].b \in Browsers
                                           /\ Holds(req[q].b, req[q].sess.id) /\ Holds(req[q].b, req[q].to)
    BY DEF TypeOK, Request, Holds
<1>1. ASSUME NEW q \in Requests, NEW b \in Browsers, LoadStep(q, b) PROVE PrivateIds'
    <2>1. PICK m \in Mem, p \in {"expired", "handler"} : Begin(q, b, m, p) /\ m.id \in {None, cookie[b]}
        BY <1>1, LoadEffect
    <2>2. /\ Others(q) /\ req'[q].b = b /\ req'[q].sess = m /\ req'[q].to = None
          /\ nextSid' = nextSid /\ cookie' = cookie
        BY <2>1, BeginEffect
    <2> QED
        BY <1>s, <2>1, <2>2, PrivateQuiet DEF Holds
<1>2. ASSUME NEW q \in Requests, Write(q) \/ Empty(q) \/ Login(q) \/ Logout(q) PROVE PrivateIds'
    <2>1. PICK m \in Mem, a \in Acts : Change(q, m, a) /\ m.id \in {None, req[q].sess.id}
        BY <1>2, HandlerChanges
    <2>2. /\ Others(q) /\ req[q] # None /\ req'[q].b = req[q].b /\ req'[q].sess = m /\ req'[q].to = req[q].to
          /\ nextSid' = nextSid /\ cookie' = cookie
        BY <2>1, ChangeEffect
    <2> QED
        BY <1>s, <1>r, <2>1, <2>2, PrivateQuiet
<1>3. ASSUME NEW q \in Requests, DropExpired(q) PROVE PrivateIds'
    <2>1. /\ Others(q) /\ req[q] # None /\ req'[q].b = req[q].b /\ req'[q].sess.id = None
          /\ req'[q].to = req[q].to /\ nextSid' = nextSid /\ cookie' = cookie
        BY <1>3, DropEffect, NewMem
    <2> QED
        BY <1>s, <1>r, <2>1, PrivateQuiet
<1>4. ASSUME NEW q \in Requests, Destroy(q) \/ DestroyError(q) PROVE PrivateIds'
    <2>1. req[q] # None /\ nextSid' = nextSid /\ cookie' = cookie
        BY <1>4 DEF Destroy, DestroyError
    <2>2. "destroy" \in Acts /\ req[q].act \in Acts
        BY <2>1 DEF TypeOK, Request, Acts
    <2>3. \E a \in Acts : ClearCookie(q, a)
        BY <1>4, <2>2 DEF Destroy, DestroyError
    <2>4. /\ Others(q) /\ req'[q].b = req[q].b /\ req'[q].sess = req[q].sess
          /\ req'[q].to \in {None, req[q].to}
        BY <2>1, <2>3, ClearEffect
    <2> QED
        BY <1>s, <1>r, <2>1, <2>4, PrivateQuiet
<1>5. ASSUME NEW q \in Requests, SaveNothing(q) \/ SaveError(q) PROVE PrivateIds'
    <2>1. /\ Others(q) /\ req[q] # None /\ req'[q].b = req[q].b /\ req'[q].sess.id = req[q].sess.id
          /\ req'[q].to = req[q].to /\ nextSid' = nextSid /\ cookie' = cookie
        BY <1>5, UnsavedEffect
    <2> QED
        BY <1>r, <2>1, PrivateQuiet
<1>6. ASSUME NEW q \in Requests, SaveKnown(q) PROVE PrivateIds'
    <2>1. req[q] # None /\ req[q].sess.id \in Sid /\ Upsert(q, req[q].sess.id)
          /\ nextSid' = nextSid /\ cookie' = cookie
        BY <1>6, SaveKnownEffect DEF SaveKnown
    <2>2. /\ Others(q) /\ req'[q].b = req[q].b /\ req'[q].sess.id = req[q].sess.id
          /\ req'[q].to = req[q].sess.id
        BY <2>1, UpsertEffect
    <2> QED
        BY <1>r, <2>1, <2>2, PrivateQuiet
<1>7. ASSUME NEW q \in Requests, SaveNew(q) PROVE PrivateIds'
    <2>1. req[q] # None /\ nextSid \in Sid /\ nextSid' = nextSid + 1 /\ Upsert(q, nextSid) /\ cookie' = cookie
        BY <1>7, SaveNewEffect DEF SaveNew, Handling
    <2>2. /\ Others(q) /\ req'[q].b = req[q].b /\ req'[q].sess.id = nextSid /\ req'[q].to = nextSid
        BY <2>1, UpsertEffect
    <2>3. ASSUME NEW s \in Sid, NEW b \in Browsers, Holds(b, s)'
          PROVE  Holds(b, s) \/ (s = nextSid /\ b = req[q].b)
        BY <2>1, <2>2, <2>3 DEF Holds, Others
    <2>4. \A b \in Browsers : ~Holds(b, nextSid)
        BY <2>1 DEF PrivateIds, Sid
    <2>5. \A s \in Sid : s < nextSid => s < nextSid'
        BY <2>1 DEF Sid
    <2>6. nextSid < nextSid'
        BY <2>1 DEF Sid
    <2> QED
        BY <2>1, <2>3, <2>4, <2>5, <2>6 DEF PrivateIds
<1>8. ASSUME NEW q \in Requests, Answer(q) PROVE PrivateIds'
    <2>1. /\ req[q] # None /\ req' = [req EXCEPT ![q] = None] /\ nextSid' = nextSid
          /\ cookie' = IF req[q].sets THEN [cookie EXCEPT ![req[q].b] = req[q].to] ELSE cookie
        BY <1>8 DEF Answer
    <2>2. Others(q) /\ req'[q] = None
        BY <2>1 DEF TypeOK, Others
    <2>3. \A b \in Browsers : cookie'[b] = cookie[b] \/ (b = req[q].b /\ cookie'[b] = req[q].to)
        BY <2>1 DEF TypeOK
    <2>4. ASSUME NEW s \in Sid, NEW b \in Browsers, Holds(b, s)' PROVE Holds(b, s)
        BY <2>1, <2>2, <2>3, <2>4 DEF Holds, Others
    <2> QED
        BY <2>1, <2>4 DEF PrivateIds
<1>9. ASSUME NEW q \in Requests, Abandon(q) PROVE PrivateIds'
    <2>1. req' = [req EXCEPT ![q] = None] /\ nextSid' = nextSid /\ cookie' = cookie
        BY <1>9 DEF Abandon
    <2>2. Others(q) /\ req'[q] = None
        BY <2>1 DEF TypeOK, Others
    <2> QED
        BY <2>1, <2>2, PrivateQuiet
<1>10. ASSUME NEW u \in Users, DestroyForUser(u) PROVE PrivateIds'
    BY <1>10 DEF DestroyForUser, PrivateIds, Holds
<1>11. CASE Prune \/ Pass \/ UNCHANGED vars
    BY <1>11 DEF Prune, Pass, vars, PrivateIds, Holds
<1> QED
    BY <1>1, <1>2, <1>3, <1>4, <1>5, <1>6, <1>7, <1>8, <1>9, <1>10, <1>11 DEF Next, HandlerStep

\* A request whose row is left alone, or deleted, by a step of another.
LEMMA BystanderKeeps ==
    ASSUME TypeOK, NEW x \in Requests, req[x] # None, LeavesGuest(x), LivesOn(x),
           req'[x] = req[x], time' \in Nat, time <= time',
           req[x].b \in out' => req[x].b \in out,
           req[x].sess.id # None => rows'[req[x].sess.id] \in {None, rows[req[x].sess.id]},
           req[x].to # None => rows'[req[x].to] \in {None, rows[req[x].to]}
    PROVE  LeavesGuest(x)' /\ LivesOn(x)'
<1>1. LeavesGuest(x)'
    BY DEF LeavesGuest, Guest
<1>2. req[x].at \in Nat /\ time \in Nat
    BY DEF TypeOK, Request
<1>3. LivesOn(x)'
    BY <1>2 DEF LivesOn
<1> QED
    BY <1>1, <1>3

\* What a deletion does to a row.
LEMMA DeleteRows ==
    ASSUME NEW S, Delete(S)
    PROVE  \A s \in Sid : rows'[s] \in {None, rows[s]} /\ (s \in S => rows'[s] = None)
BY DEF Delete

\* A browser that has logged out, when its cookie and rows are left alone.
LEMMA SticksQuiet ==
    ASSUME TypeOK, LogoutSticks, overlapped' = overlapped, out' \subseteq out, cookie' = cookie,
           \A s \in Sid : rows'[s] \in {None, rows[s]}
    PROVE  LogoutSticks'
BY DEF LogoutSticks, TypeOK

LEMMA SoloInit == Init => SoloInv
<1> SUFFICES ASSUME Init PROVE SoloInv
    OBVIOUS
<1>1. \A q \in Requests : req[q] = None
    BY DEF Init
<1>2. None \notin Sid /\ \A b \in Browsers : cookie[b] = None
    BY DEF Init, Sid
<1>3. PrivateIds
    BY <1>1, <1>2 DEF PrivateIds, Holds
<1>4. LogoutSticks /\ OneEach
    BY <1>1 DEF Init, LogoutSticks, OneEach
<1> QED
    BY <1>1, <1>3, <1>4 DEF SoloInv

\* A save, for the browsers and requests that do not hold its session.
LEMMA SaveStep ==
    ASSUME TypeOK, SoloInv, ~overlapped, NEW q \in Requests, NEW s \in Sid,
           req[q] # None, req[q].phase = "handler", req[q].sess.dirty, Upsert(q, s),
           s = req[q].sess.id \/ (req[q].sess.id = None /\ s = nextSid),
           UNCHANGED <<time, cookie, overlapped, out>>
    PROVE  /\ OneEach' /\ LogoutSticks'
           /\ \A x \in Requests : req'[x] # None => LeavesGuest(x)' /\ LivesOn(x)'
<1>i. OneEach /\ LogoutSticks /\ PrivateIds /\ \A x \in Requests : req[x] # None => LeavesGuest(x) /\ LivesOn(x)
    BY DEF SoloInv
<1>n. None \notin Sid /\ nextSid \notin {x \in Sid : x < nextSid}
    BY DEF Sid, TypeOK
<1>t. req[q] \in Request /\ req[q].b \in Browsers /\ req[q].at \in Nat /\ time \in Nat
    BY DEF TypeOK, Request
<1>1. /\ Others(q) /\ req'[q] # None /\ req'[q].b = req[q].b /\ req'[q].sess.id = s
      /\ req'[q].phase = "saved" /\ req'[q].sets /\ req'[q].to = s
      /\ req'[q].act = req[q].act /\ req'[q].at = req[q].at
      /\ \A x \in Sid : x # s => rows'[x] = rows[x]
      /\ rows'[s].user = req[q].sess.user /\ rows'[s].expires = req[q].sess.expires
    BY UpsertEffect
<1>2. \A b \in Browsers : b # req[q].b => ~Holds(b, s)
    <2>1. CASE s = req[q].sess.id
        <3>1. Holds(req[q].b, s)
            BY <2>1 DEF Holds
        <3> QED
            BY <1>i, <1>t, <3>1 DEF PrivateIds
    <2>2. CASE s = nextSid
        BY <1>i, <1>n, <2>2 DEF PrivateIds
    <2> QED
        BY <2>1, <2>2
<1>3. LeavesGuest(q) /\ LivesOn(q)
    BY <1>i
<1>4. OneEach'
    BY <1>i, <1>1 DEF OneEach, Others
<1>5. req[q].b \in out \/ req[q].act = "logout" => req[q].sess.user = None \/ req[q].act \notin {"none", "logout"}
    BY <1>3 DEF LeavesGuest
<1>6. ASSUME req[q].b \in out, cookie[req[q].b] = s PROVE req[q].sess.user = None
    <2>1. CASE s = req[q].sess.id
        BY <1>3, <1>6, <1>n, <2>1 DEF LeavesGuest
    <2>2. CASE s = nextSid
        <3>1. Holds(req[q].b, s)
            BY <1>6 DEF Holds
        <3> QED
            BY <1>i, <1>n, <1>t, <2>2, <3>1 DEF PrivateIds
    <2> QED
        BY <2>1, <2>2
<1>7. LogoutSticks'
    <2>1. ASSUME NEW b \in out, cookie[b] # None PROVE Guest(cookie[b])'
        <3>0. b \in Browsers /\ cookie[b] \in Sid
            BY <2>1 DEF TypeOK
        <3>1. CASE cookie[b] = s
            <4>1. b = req[q].b
                BY <1>2, <3>0, <3>1 DEF Holds
            <4> QED
                BY <1>1, <1>6, <3>1, <4>1 DEF Guest
        <3>2. CASE cookie[b] # s
            BY <1>1, <1>i, <2>1, <3>0, <3>2 DEF LogoutSticks, Guest
        <3> QED
            BY <3>1, <3>2
    <2> QED
        BY <2>1 DEF LogoutSticks, Guest
<1>8. LeavesGuest(q)'
    <2>1. req[q].act # "failed"
        BY <1>3 DEF LeavesGuest
    <2>2. req[q].act = "logout" => Guest(s)'
        BY <1>1, <1>3 DEF LeavesGuest, Guest
    <2>3. req[q].b \in out /\ req[q].act = "none" => Guest(s)'
        BY <1>1, <1>3 DEF LeavesGuest, Guest
    <2> QED
        BY <1>1, <2>1, <2>2, <2>3 DEF LeavesGuest, Guest
<1>9. LivesOn(q)'
    BY <1>1, <1>3, <1>t DEF LivesOn
<1>10. ASSUME NEW x \in Requests, x # q, req'[x] # None PROVE LeavesGuest(x)' /\ LivesOn(x)'
    <2>1. req'[x] = req[x] /\ req[x] # None /\ LeavesGuest(x) /\ LivesOn(x)
        BY <1>1, <1>10, <1>i DEF Others
    <2>2. req[x].b \in Browsers /\ req[x].b # req[q].b /\ req[x].sess.id \in Sid \cup {None}
          /\ req[x].to \in Sid \cup {None}
        BY <1>i, <1>10, <2>1 DEF OneEach, TypeOK, Request, Mem
    <2>3. req[x].sess.id # s /\ req[x].to # s
        BY <1>2, <2>1, <2>2 DEF Holds
    <2> QED
        BY <1>1, <1>t, <2>1, <2>2, <2>3, BystanderKeeps
<1> QED
    BY <1>4, <1>7, <1>8, <1>9, <1>10

LEMMA SoloStep == TypeOK /\ SoloInv /\ [Next]_vars => SoloInv'
<1> SUFFICES ASSUME TypeOK, SoloInv, [Next]_vars PROVE SoloInv'
    OBVIOUS
<1>p. PrivateIds'
    BY PrivateStep DEF SoloInv
<1> DEFINE Requested == \A x \in Requests : req'[x] # None => LeavesGuest(x)' /\ LivesOn(x)'
           Goal == ~overlapped' => OneEach' /\ LogoutSticks' /\ Requested
<1> SUFFICES Goal
    BY <1>p DEF SoloInv
<1>i. ~overlapped => /\ OneEach /\ LogoutSticks
                     /\ \A x \in Requests : req[x] # None => LeavesGuest(x) /\ LivesOn(x)
    BY DEF SoloInv
<1>t. time \in Nat /\ TTL \in Nat /\ Minute \in Nat
    BY DEF TypeOK
<1>r. \A x \in Requests : req[x] # None =>
        /\ req[x].b \in Browsers /\ req[x].sess \in Mem /\ req[x].sess.id \in Sid \cup {None}
        /\ req[x].to \in Sid \cup {None} /\ req[x].at \in Nat /\ req[x].sess.expires \in Nat
    BY DEF TypeOK, Request, Mem
\* The other requests, when rows are only deleted.
<1>b. ASSUME NEW q \in Requests, Others(q), ~overlapped, time' = time,
             \A x \in Requests : x # q /\ req[x] # None => (req[x].b \in out' => req[x].b \in out),
             \A s \in Sid : rows'[s] \in {None, rows[s]},
             NEW x \in Requests, x # q, req'[x] # None
      PROVE  LeavesGuest(x)' /\ LivesOn(x)'
    <2>1. req'[x] = req[x] /\ req[x] # None /\ LeavesGuest(x) /\ LivesOn(x)
        BY <1>b, <1>i DEF Others
    <2>2. req[x].sess.id \in Sid \cup {None} /\ req[x].to \in Sid \cup {None}
        BY <1>r, <2>1
    <2>3. req[x].b \in out' => req[x].b \in out
        BY <1>b, <2>1
    <2>4. time' \in Nat /\ time <= time'
        BY <1>b, <1>t
    <2>5. /\ req[x].sess.id # None => rows'[req[x].sess.id] \in {None, rows[req[x].sess.id]}
          /\ req[x].to # None => rows'[req[x].to] \in {None, rows[req[x].to]}
        BY <1>b, <2>2
    <2> QED
        BY <2>1, <2>3, <2>4, <2>5, BystanderKeeps
\* A step of q that keeps it with its browser and deletes at most.
<1>q. ASSUME NEW q \in Requests, Others(q), ~overlapped, UNCHANGED <<time, cookie, overlapped, out>>,
             \A s \in Sid : rows'[s] \in {None, rows[s]},
             req[q] # None, req'[q] # None, req'[q].b = req[q].b, LeavesGuest(q)', LivesOn(q)'
      PROVE  Goal
    <2>1. OneEach'
        BY <1>i, <1>q DEF OneEach, Others
    <2>2. LogoutSticks'
        BY <1>i, <1>q, SticksQuiet
    <2>3. Requested
        BY <1>b, <1>q
    <2> QED
        BY <2>1, <2>2, <2>3
<1>1. ASSUME NEW q \in Requests, NEW b \in Browsers, LoadStep(q, b) PROVE Goal
    <2> SUFFICES ASSUME ~overlapped' PROVE OneEach' /\ LogoutSticks' /\ Requested
        OBVIOUS
    <2>1. PICK m \in Mem, p \in {"expired", "handler"} :
             /\ Begin(q, b, m, p)
             /\ m.id \in {None, cookie[b]}
             /\ m.user # None => /\ cookie[b] # None /\ rows[cookie[b]] # None
                                 /\ m.user = rows[cookie[b]].user
             /\ m.expires + Minute >= time + TTL
             /\ p = "handler" /\ ~m.dirty /\ m.id # None => m.expires = rows[m.id].expires
        BY <1>1, LoadEffect
    <2>2. /\ Others(q) /\ req[q] = None /\ req'[q] # None /\ req'[q].b = b /\ req'[q].sess = m
          /\ req'[q].phase = p /\ req'[q].to = None /\ req'[q].act = "none" /\ req'[q].at = time
          /\ ~overlapped /\ (\A x \in Requests : req[x] # None => req[x].b # b)
          /\ UNCHANGED <<time, rows, cookie, nextSid, out>>
        BY <2>1, BeginEffect
    <2>3. OneEach'
        BY <1>i, <2>2 DEF OneEach, Others
    <2>4. LogoutSticks'
        BY <1>i, <2>2 DEF LogoutSticks
    <2>5. b \in out => m.user = None
        BY <1>i, <2>1, <2>2 DEF LogoutSticks
    <2>6. LeavesGuest(q)'
        BY <2>1, <2>2, <2>5 DEF LeavesGuest
    <2>7. LivesOn(q)'
        <3>1. m.expires \in Nat
            BY DEF Mem
        <3> QED
            BY <1>t, <2>1, <2>2, <3>1 DEF LivesOn
    <2>8. Requested
        BY <1>b, <2>2, <2>6, <2>7
    <2> QED
        BY <2>3, <2>4, <2>8
<1>2. ASSUME NEW q \in Requests, Write(q) \/ Empty(q) \/ Login(q) \/ Logout(q) PROVE Goal
    <2>1. PICK m \in Mem, a \in Acts :
              /\ Change(q, m, a) /\ m.expires = req[q].sess.expires /\ m.dirty
              /\ \/ a = req[q].act /\ m.id = req[q].sess.id /\ m.user \in {None, req[q].sess.user}
                 \/ a = "login" /\ m.id = None
                 \/ a = "logout" /\ m.id = None /\ m.user = None
        BY <1>2, HandlerChanges
    <2>2. /\ Others(q) /\ req[q] # None /\ req[q].phase = "handler"
          /\ req'[q] # None /\ req'[q].b = req[q].b /\ req'[q].sess = m /\ req'[q].phase = "handler"
          /\ req'[q].sets = req[q].sets /\ req'[q].to = req[q].to /\ req'[q].act = a
          /\ req'[q].at = req[q].at
          /\ UNCHANGED <<time, rows, cookie, nextSid, overlapped, out>>
        BY <2>1, ChangeEffect
    <2> SUFFICES ASSUME ~overlapped' PROVE Goal
        OBVIOUS
    <2>3. LeavesGuest(q) /\ LivesOn(q)
        BY <1>i, <2>2
    <2>4. LeavesGuest(q)'
        BY <2>1, <2>2, <2>3 DEF LeavesGuest, Guest
    <2>5. LivesOn(q)'
        BY <2>1, <2>2, <2>3 DEF LivesOn
    <2> QED
        BY <1>q, <2>2, <2>4, <2>5
<1>3. ASSUME NEW q \in Requests, DropExpired(q) PROVE Goal
    <2>1. /\ Others(q) /\ req[q] # None /\ req[q].phase = "expired"
          /\ req'[q] # None /\ req'[q].b = req[q].b /\ req'[q].sess = NewSession(time)
          /\ req'[q].phase = "handler" /\ req'[q].to = req[q].to /\ req'[q].act = req[q].act
          /\ req'[q].at = req[q].at
          /\ Delete({req[q].sess.id}) /\ UNCHANGED <<time, cookie, nextSid, overlapped, out>>
        BY <1>3, DropEffect
    <2> SUFFICES ASSUME ~overlapped' PROVE Goal
        OBVIOUS
    <2>2. LeavesGuest(q) /\ LivesOn(q) /\ req[q].at \in Nat
        BY <1>i, <1>r, <2>1
    <2>3. PICK n \in Mem : n = NewSession(time) /\ n.id = None /\ n.user = None /\ n.expires = time + TTL
        BY NewMem DEF NewSession
    <2>4. LeavesGuest(q)'
        BY <2>1, <2>2, <2>3 DEF LeavesGuest
    <2>5. LivesOn(q)'
        BY <1>t, <2>1, <2>2, <2>3 DEF LivesOn
    <2>6. \A s \in Sid : rows'[s] \in {None, rows[s]}
        BY <2>1, DeleteRows
    <2> QED
        BY <1>q, <2>1, <2>4, <2>5, <2>6
<1>4. ASSUME NEW q \in Requests, Destroy(q) \/ DestroyError(q) PROVE Goal
    <2>1. /\ req[q] # None /\ req[q].phase \in {"handler", "saved"}
          /\ UNCHANGED <<time, cookie, nextSid, overlapped, out>>
        BY <1>4 DEF Destroy, DestroyError
    <2> SUFFICES ASSUME ~overlapped' PROVE Goal
        OBVIOUS
    <2>2. LeavesGuest(q) /\ LivesOn(q) /\ req[q].sess.id \in Sid \cup {None} /\ req[q].to \in Sid \cup {None}
        BY <1>i, <1>r, <2>1
    <2>3. "destroy" \in Acts /\ req[q].act \in Acts
        BY <2>1 DEF TypeOK, Request, Acts
    <2>4. PICK a \in {"destroy", req[q].act} :
             /\ ClearCookie(q, a) /\ \A s \in Sid : rows'[s] \in {None, rows[s]}
             /\ \/ a = req[q].act /\ rows' = rows
                \/ a = "destroy" /\ (req[q].sess.id # None => rows'[req[q].sess.id] = None)
        <3>1. CASE Destroy(q)
            <4>1. ClearCookie(q, "destroy") /\ Delete({req[q].sess.id})
                BY <3>1 DEF Destroy
            <4>2. \A s \in Sid : rows'[s] \in {None, rows[s]} /\ (s \in {req[q].sess.id} => rows'[s] = None)
                BY <4>1, DeleteRows
            <4> QED
                BY <2>2, <4>1, <4>2
        <3>2. CASE DestroyError(q)
            BY <3>2 DEF DestroyError
        <3> QED
            BY <1>4, <3>1, <3>2
    <2>5. /\ Others(q) /\ req'[q] # None /\ req'[q].b = req[q].b /\ req'[q].sess = req[q].sess
          /\ req'[q].phase = req[q].phase /\ req'[q].act = a /\ req'[q].at = req[q].at
          /\ (req[q].sets => req'[q].sets)
          /\ req'[q].to = IF req[q].phase = "handler" THEN None ELSE req[q].to
        BY <2>1, <2>3, <2>4, ClearEffect
    <2>6. LeavesGuest(q)'
        <3>1. req[q].phase # "saved" => req'[q].to = None
            BY <2>1, <2>5
        <3>2. req[q].phase = "saved" => req'[q].to = req[q].to
            BY <2>5
        <3>3. req'[q].to # None => (Guest(req[q].to) => Guest(req[q].to)')
            BY <2>2, <2>4, <2>5 DEF Guest
        <3> QED
            BY <2>1, <2>2, <2>4, <2>5, <3>1, <3>2, <3>3 DEF LeavesGuest, Guest
    <2>7. LivesOn(q)'
        BY <2>1, <2>2, <2>4, <2>5 DEF LivesOn
    <2> QED
        BY <1>q, <2>1, <2>4, <2>5, <2>6, <2>7
<1>5. ASSUME NEW q \in Requests, SaveNothing(q) \/ SaveError(q) PROVE Goal
    <2>1. /\ Others(q) /\ req[q] # None /\ req[q].phase = "handler"
          /\ req'[q] # None /\ req'[q].b = req[q].b /\ req'[q].sess.id = req[q].sess.id
          /\ req'[q].phase = "saved" /\ req'[q].to = req[q].to /\ req'[q].at = req[q].at
          /\ \/ ~req[q].sess.dirty /\ req'[q].act = req[q].act
             \/ req'[q].act = "failed"
          /\ UNCHANGED <<time, rows, cookie, nextSid, overlapped, out>>
        BY <1>5, UnsavedEffect
    <2> SUFFICES ASSUME ~overlapped' PROVE Goal
        OBVIOUS
    <2>2. LeavesGuest(q) /\ LivesOn(q)
        BY <1>i, <2>1
    <2>3. LeavesGuest(q)'
        BY <2>1, <2>2 DEF LeavesGuest
    <2>4. LivesOn(q)'
        BY <2>1, <2>2 DEF LivesOn
    <2> QED
        BY <1>q, <2>1, <2>3, <2>4
<1>6. ASSUME NEW q \in Requests, SaveKnown(q) PROVE Goal
    <2>1. /\ req[q] # None /\ req[q].phase = "handler" /\ req[q].sess.dirty
          /\ Upsert(q, req[q].sess.id) /\ req[q].sess.id \in Sid
          /\ UNCHANGED <<time, cookie, nextSid, overlapped, out>>
        BY <1>6, SaveKnownEffect DEF SaveKnown, Handling
    <2> QED
        BY <2>1, SaveStep
<1>7. ASSUME NEW q \in Requests, SaveNew(q) PROVE Goal
    <2>1. /\ req[q] # None /\ req[q].phase = "handler" /\ req[q].sess.dirty /\ req[q].sess.id = None
          /\ Upsert(q, nextSid) /\ nextSid \in Sid /\ UNCHANGED <<time, cookie, overlapped, out>>
        BY <1>7, SaveNewEffect DEF SaveNew, Handling
    <2> QED
        BY <2>1, SaveStep
<1>8. ASSUME NEW q \in Requests, Answer(q) PROVE Goal
    <2>1. /\ req[q] # None /\ req[q].phase = "saved" /\ req' = [req EXCEPT ![q] = None]
          /\ UNCHANGED <<time, rows, nextSid, overlapped>>
          /\ cookie' = IF req[q].sets THEN [cookie EXCEPT ![req[q].b] = req[q].to] ELSE cookie
          /\ out' = IF req[q].act = "logout" THEN out \cup {req[q].b}
                    ELSE IF req[q].act \in {"none", "failed"} THEN out ELSE out \ {req[q].b}
        BY <1>8 DEF Answer
    <2> SUFFICES ASSUME ~overlapped' PROVE Goal
        OBVIOUS
    <2>2. Others(q) /\ req'[q] = None
        BY <2>1 DEF TypeOK, Others
    <2>3. LeavesGuest(q) /\ OneEach /\ LogoutSticks /\ req[q].b \in Browsers
        BY <1>i, <1>r, <2>1
    <2>4. OneEach'
        BY <2>2, <2>3 DEF OneEach, Others
    <2>5. ASSUME NEW b \in out', cookie'[b] # None PROVE Guest(cookie'[b])
        <3>1. CASE b = req[q].b
            <4>1. req[q].act \in {"logout", "none", "failed"} /\ (req[q].act # "logout" => b \in out)
                BY <2>1, <2>5, <3>1
            <4>2. CASE req[q].sets
                <5>1. cookie'[b] = req[q].to
                    BY <2>1, <2>3, <3>1, <4>2 DEF TypeOK
                <5> QED
                    BY <2>1, <2>3, <2>5, <3>1, <4>1, <5>1 DEF LeavesGuest
            <4>3. CASE ~req[q].sets
                <5>1. cookie' = cookie /\ req[q].act # "logout"
                    BY <2>1, <2>3, <4>3 DEF LeavesGuest
                <5> QED
                    BY <2>1, <2>3, <2>5, <4>1, <5>1 DEF LogoutSticks, Guest
            <4> QED
                BY <4>2, <4>3
        <3>2. CASE b # req[q].b
            <4>1. b \in out /\ b \in Browsers
                BY <2>1, <2>5, <3>2 DEF TypeOK
            <4>2. cookie'[b] = cookie[b]
                BY <2>1, <3>2, <4>1 DEF TypeOK
            <4> QED
                BY <2>1, <2>3, <2>5, <4>1, <4>2 DEF LogoutSticks, Guest
        <3> QED
            BY <3>1, <3>2
    <2>6. LogoutSticks'
        BY <2>1, <2>5 DEF LogoutSticks, Guest
    <2>7. \A x \in Requests : x # q /\ req[x] # None => (req[x].b \in out' => req[x].b \in out)
        BY <2>1, <2>3 DEF OneEach
    <2>8. Requested
        BY <1>b, <2>1, <2>2, <2>7
    <2> QED
        BY <2>4, <2>6, <2>8
<1>9. ASSUME NEW q \in Requests, Abandon(q) PROVE Goal
    <2>1. req' = [req EXCEPT ![q] = None] /\ UNCHANGED <<time, rows, cookie, overlapped, out>>
        BY <1>9 DEF Abandon
    <2> SUFFICES ASSUME ~overlapped' PROVE Goal
        OBVIOUS
    <2>2. Others(q) /\ req'[q] = None
        BY <2>1 DEF TypeOK, Others
    <2>3. OneEach'
        BY <1>i, <2>1, <2>2 DEF OneEach, Others
    <2>4. LogoutSticks'
        BY <1>i, <2>1, SticksQuiet
    <2>5. Requested
        BY <1>b, <2>1, <2>2
    <2> QED
        BY <2>3, <2>4, <2>5
\* Steps of nobody's request.
<1>10. ASSUME req' = req, time' \in Nat, time <= time', UNCHANGED <<cookie, overlapped, out>>,
              \A s \in Sid : rows'[s] \in {None, rows[s]}
       PROVE  Goal
    <2> SUFFICES ASSUME ~overlapped' PROVE Goal
        OBVIOUS
    <2>1. OneEach'
        BY <1>i, <1>10 DEF OneEach
    <2>2. LogoutSticks'
        BY <1>i, <1>10, SticksQuiet
    <2>3. ASSUME NEW x \in Requests, req'[x] # None PROVE LeavesGuest(x)' /\ LivesOn(x)'
        <3>1. req'[x] = req[x] /\ req[x] # None /\ LeavesGuest(x) /\ LivesOn(x)
            BY <1>10, <1>i, <2>3
        <3>2. /\ req[x].sess.id # None => rows'[req[x].sess.id] \in {None, rows[req[x].sess.id]}
              /\ req[x].to # None => rows'[req[x].to] \in {None, rows[req[x].to]}
            BY <1>10, <1>r, <3>1
        <3>3. req[x].b \in out' => req[x].b \in out
            BY <1>10
        <3> QED
            BY <1>10, <3>1, <3>2, <3>3, BystanderKeeps
    <2> QED
        BY <2>1, <2>2, <2>3
<1>11. ASSUME NEW u \in Users, DestroyForUser(u) PROVE Goal
    <2>1. \A s \in Sid : rows'[s] \in {None, rows[s]}
        BY <1>11, DeleteRows DEF DestroyForUser
    <2> QED
        BY <1>10, <1>11, <1>t, <2>1 DEF DestroyForUser
<1>12. CASE Prune
    <2>1. \A s \in Sid : rows'[s] \in {None, rows[s]}
        BY <1>12, DeleteRows DEF Prune
    <2> QED
        BY <1>10, <1>12, <1>t, <2>1 DEF Prune
<1>13. CASE Pass
    BY <1>10, <1>13, <1>t DEF Pass
<1>14. CASE UNCHANGED vars
    BY <1>10, <1>14, <1>t DEF vars
<1> QED
    BY <1>1, <1>2, <1>3, <1>4, <1>5, <1>6, <1>7, <1>8, <1>9, <1>11, <1>12, <1>13, <1>14 DEF Next, HandlerStep

LEMMA SoloAlways == Spec => [](TypeOK /\ SoloInv)
<1>1. Init => TypeOK /\ SoloInv
    BY TypeInit, SoloInit
<1>2. TypeOK /\ SoloInv /\ [Next]_vars => (TypeOK /\ SoloInv)'
    BY TypeStep, SoloStep
<1> QED
    BY <1>1, <1>2, PTL DEF Spec

\* auth.Logout: a browser that sends one request at a time and got the answer to its
\* logout identifies nobody until it logs in again, whatever saves and deletions fail,
\* requests are abandoned and other browsers do.
THEOREM LogoutHolds == Spec => []LogoutSticks
<1>1. TypeOK /\ SoloInv => LogoutSticks
    BY DEF SoloInv, LogoutSticks
<1> QED
    BY <1>1, SoloAlways, PTL

\* Touch: while a visitor's requests do not overlap, what a request leaves in the store
\* lives for the whole lifetime from when the request loaded it, short of a minute,
\* or the row is gone or its save failed.
THEOREM LifetimeSlides == Spec => []SlidingExpiry
<1>1. TypeOK /\ SoloInv => SlidingExpiry
    BY DEF SoloInv, LivesOn, SlidingExpiry
<1> QED
    BY <1>1, SoloAlways, PTL
=============================================================================
