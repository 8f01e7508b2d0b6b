------------------------------ MODULE Browser ------------------------------
(***************************************************************************)
(* What an application keeps in signed cookies: the token of package csrf  *)
(* and the messages of package flash, over package cookie.                 *)
(*                                                                         *)
(* One browser with several tabs.  A request carries the cookies the       *)
(* browser had when it was sent, and the answers of different tabs arrive  *)
(* in any order; the server reads a request's cookies, never the ones it   *)
(* has just set.  A signature is the key it was made with.                 *)
(***************************************************************************)
EXTENDS Naturals, FiniteSets, Sequences, SequencesExt

CONSTANTS
    Tabs,
    Handlers,   \* what a handler does with messages: sequences of "add" and "pull"
    MaxTokens,  \* bound: tokens made
    MaxFlashes, \* bound: messages added
    MaxKeys,    \* bound: application keys used
    NoCookie    \* no cookie, no form, nothing to set

ASSUME BrowserAssumption ==
    /\ MaxTokens \in Nat /\ MaxFlashes \in Nat /\ MaxKeys \in Nat \ {0}
    /\ Handlers \subseteq Seq({"add", "pull"})

VARIABLES
    appKey,     \* the application key
    tokens,     \* tokens made so far
    flashes,    \* messages added so far
    jar,        \* the browser's cookies
    tab,        \* tab[t]: a tab, its request and the answer to it
    seen,       \* history: seen[m], how often message m was shown
    was         \* history: what happened to requests and messages, see Was

browserVars == <<appKey, tokens, flashes, jar, tab, seen, was>>

Token == 1..MaxTokens
Flash == 1..MaxFlashes
AppKeys == 1..MaxKeys

\* A cookie: what it says and the key of its signature, 0 when it has none.
TokenCookie == [value: Token, key: 0..MaxKeys]
FlashCookie == [value: Seq(Flash), key: 0..MaxKeys]

ASSUME NoCookieAssumption ==
    NoCookie \notin Token /\ NoCookie \notin TokenCookie /\ NoCookie \notin FlashCookie

\* form is the token in the form a tab shows; csrf, flash and submits are of its
\* request; setCsrf, setFlash, shows and last (the message added last) of the answer.
Tab == [form: Token \cup {NoCookie}, at: {"idle", "sent", "answered"}, method: {"get", "form", "script"},
        csrf: TokenCookie \cup {NoCookie}, flash: FlashCookie \cup {NoCookie},
        submits: TokenCookie \cup {NoCookie}, setCsrf: TokenCookie \cup {NoCookie},
        setFlash: FlashCookie \cup {NoCookie}, shows: Seq(Flash), last: 0..MaxFlashes]

\* A tab that waits for nothing.
AtRest(form) ==
    [form |-> form, at |-> "idle", method |-> "get", csrf |-> NoCookie, flash |-> NoCookie, submits |-> NoCookie,
     setCsrf |-> NoCookie, setFlash |-> NoCookie, shows |-> <<>>, last |-> 0]

\* Were two requests under way that had no token, or any two; what was denied;
\* messages whose answer arrived; messages pulled by a handler that also added.
Was == [raced: BOOLEAN, crossed: BOOLEAN, denied: SUBSET {"form", "script"},
        told: SUBSET Flash, again: SUBSET Flash]

BrowserTypeOK ==
    /\ appKey \in AppKeys /\ tokens \in 0..MaxTokens /\ flashes \in 0..MaxFlashes
    /\ jar \in [csrf: TokenCookie \cup {NoCookie}, flash: FlashCookie \cup {NoCookie}]
    /\ tab \in [Tabs -> Tab]
    /\ seen \in [Flash -> Nat] /\ was \in Was

BrowserInit ==
    /\ appKey = 1 /\ tokens = 0 /\ flashes = 0
    /\ jar = [csrf |-> NoCookie, flash |-> NoCookie]
    /\ tab = [t \in Tabs |-> AtRest(NoCookie)]
    /\ seen = [m \in Flash |-> 0]
    /\ was = [raced |-> FALSE, crossed |-> FALSE, denied |-> {}, told |-> {}, again |-> {}]
-----------------------------------------------------------------------------
(* The server.                                                             *)

\* Jar.Set and Jar.Get: a cookie signed with another key is as good as none.
Signed(v) == [value |-> v, key |-> appKey]
Verifies(c) == c # NoCookie /\ c.key = appKey

\* Faulty variant: the attributes differ and the browser keeps the original.
Deleted_m1 == NoCookie

\* Jar.Delete.
Deleted == [value |-> <<>>, key |-> 0]

\* peek: the messages a request came with.
peek(c) == IF Verifies(c) THEN c.value ELSE <<>>

\* What a handler does with messages.  Every Add and Pull starts from the request's
\* cookie, a Pull of no messages sets no cookie, and of several cookies that are set
\* the last one counts.
Handle(t, h) ==
    LET msgs == peek(tab[t].flash)
        last == flashes + Cardinality({i \in DOMAIN h : h[i] = "add"})
        sets == {i \in DOMAIN h : h[i] = "add" \/ msgs # <<>>}
    IN  [last |-> last,
         shows |-> IF "pull" \in ToSet(h) THEN msgs ELSE <<>>,
         setFlash |-> IF sets = {} THEN NoCookie
                      ELSE IF \E i \in sets : h[i] = "add" /\ \A j \in sets : j <= i
                           THEN Signed(Append(msgs, last))
                           ELSE Deleted]

\* The token itself, as a form has it.
Plain(v) == [value |-> v, key |-> 0]

\* valid: the token itself, or the cookie as it is, which a script can read.
valid(t) == tab[t].submits \in {Plain(tab[t].csrf.value), tab[t].csrf}

\* Faulty variant: every page has a token of its own.
Reuses_m1(t) == Verifies(tab[t].csrf) /\ tab[t].method # "get"

\* The token in the cookie is used again, "so that opening a second tab does not
\* invalidate the form in the first".
Reuses(t) == Verifies(tab[t].csrf)

\* Protect lets the request through to a handler.
Serve(t, h) ==
    LET new == ~Reuses(t)
        r == Handle(t, h)
    IN  /\ tab[t].at = "sent"
        /\ tab[t].method # "get" => ~new /\ valid(t)
        /\ new => tokens < MaxTokens
        /\ r.last <= MaxFlashes
        /\ tokens' = IF new THEN tokens + 1 ELSE tokens
        /\ flashes' = r.last
        /\ tab' = [tab EXCEPT ![t] = [@ EXCEPT
                     !.at = "answered", !.setFlash = r.setFlash, !.shows = r.shows,
                     !.last = IF r.last > flashes THEN r.last ELSE 0,
                     !.setCsrf = IF new THEN Signed(tokens + 1) ELSE NoCookie,
                     !.form = IF tab[t].method # "get" THEN tab[t].form ELSE IF new THEN tokens + 1 ELSE tab[t].csrf.value]]
        /\ was' = [was EXCEPT !.again = IF r.last > flashes THEN @ \cup ToSet(r.shows) ELSE @]
        /\ UNCHANGED <<appKey, jar, seen>>

\* ... or denies it, with a new token all the same where there was none.
Deny(t) ==
    LET new == ~Reuses(t)
    IN  /\ tab[t].at = "sent" /\ tab[t].method # "get"
        /\ new \/ ~valid(t)
        /\ new => tokens < MaxTokens
        /\ tokens' = IF new THEN tokens + 1 ELSE tokens
        /\ tab' = [tab EXCEPT ![t].at = "answered", ![t].setCsrf = IF new THEN Signed(tokens + 1) ELSE NoCookie]
        /\ was' = [was EXCEPT !.denied = @ \cup {tab[t].method}]
        /\ UNCHANGED <<appKey, flashes, jar, seen>>

\* key:generate, and a restart.
RotateKey == appKey < MaxKeys /\ appKey' = appKey + 1 /\ UNCHANGED <<tokens, flashes, jar, tab, seen, was>>
-----------------------------------------------------------------------------
(* The browser.                                                            *)

\* A page is opened, a form posted, or a script calls with the cookie it read.
Send(t, method) ==
    LET others == {u \in Tabs \ {t} : tab[u].at # "idle"}
    IN  /\ tab[t].at = "idle"
        /\ method = "form" => tab[t].form # NoCookie
        /\ method = "script" => jar.csrf # NoCookie
        /\ tab' = [tab EXCEPT ![t] = [@ EXCEPT
                     !.at = "sent", !.method = method, !.csrf = jar.csrf, !.flash = jar.flash,
                     !.submits = CASE method = "get" -> NoCookie
                                   [] method = "form" -> Plain(tab[t].form)
                                   [] method = "script" -> jar.csrf]]
        /\ was' = [was EXCEPT !.crossed = @ \/ others # {},
                              !.raced = @ \/ (jar.csrf = NoCookie /\ \E u \in others : tab[u].csrf = NoCookie)]
        /\ UNCHANGED <<appKey, tokens, flashes, jar, seen>>

\* The answer arrives: its cookies replace the browser's, whatever came in between.
Receive(t) ==
    LET g == tab[t]
    IN  /\ g.at = "answered"
        /\ jar' = [csrf |-> IF g.setCsrf = NoCookie THEN jar.csrf ELSE g.setCsrf,
                   flash |-> IF g.setFlash = NoCookie THEN jar.flash
                             ELSE IF g.setFlash = Deleted THEN NoCookie ELSE g.setFlash]
        /\ seen' = [m \in Flash |-> IF m \in ToSet(g.shows) THEN seen[m] + 1 ELSE seen[m]]
        /\ was' = [was EXCEPT !.told = @ \cup ({g.last} \ {0})]
        /\ tab' = [tab EXCEPT ![t] = AtRest(g.form)]
        /\ UNCHANGED <<appKey, tokens, flashes>>

\* The answer is lost.
LoseAnswer(t) ==
    /\ tab[t].at = "answered"
    /\ tab' = [tab EXCEPT ![t] = AtRest(NoCookie)]
    /\ UNCHANGED <<appKey, tokens, flashes, jar, seen, was>>

BrowserNext ==
    \/ \E t \in Tabs :
         \/ \E method \in {"get", "form", "script"} : Send(t, method)
         \/ \E h \in Handlers : Serve(t, h)
         \/ Deny(t) \/ Receive(t) \/ LoseAnswer(t)
    \/ RotateKey

BrowserSpec == BrowserInit /\ [][BrowserNext]_browserVars
-----------------------------------------------------------------------------
(* Properties.                                                             *)

\* "Reuse the token already in the cookie so that opening a second tab does not
\* invalidate the form in the first": with one key, a script is never denied, and
\* a form only after two requests that had no token at all were under way at once,
\* each of which is given one.
FormsHold ==
    appKey = 1 => "script" \notin was.denied /\ ("form" \in was.denied => was.raced)

\* "Pull returns the pending messages and clears them": while requests do not
\* overlap, the message a handler added last is pending from the time its answer
\* arrives until it is shown, and shown once; only a handler that pulls and adds
\* brings back what it pulled.
FlashOnce ==
    appKey = 1 /\ ~was.crossed =>
        \A m \in Flash :
            /\ m \in was.told => seen[m] > 0 \/ (jar.flash # NoCookie /\ m \in ToSet(jar.flash.value))
            /\ m \notin was.again => seen[m] <= 1
=============================================================================
