---------------------------- MODULE ToolingProofs ----------------------------
(***************************************************************************)
(* The commands of ry: which release they tell of, what they build and     *)
(* run, what the generators leave alone and what ry dev rests on, for any  *)
(* number of commands side by side, releases, hours, files, saves, pages.  *)
(***************************************************************************)
EXTENDS MCTooling, FiniteSetTheorems, WellFoundedInduction, TLAPS
-----------------------------------------------------------------------------
(* Releases.                                                               *)

\* Version x is none older than what both endpoints knew of k hours before t, where
\* n is the history of what they knew.
Covers(n, x, k, t) == \A v \in Versions0 : n[v] # NoEntry /\ n[v] + k < t => x >= v

NewsInv ==
    \A v \in Versions0 : news[v] # NoEntry => news[v] <= hour /\ \A e \in Endpoints : proxy[e] >= v

\* The file was written within an hour of the look-up it is from.
EntryInv ==
    entry # NoEntry =>
        /\ entry.at <= hour /\ entry.version <= tagged
        /\ entry.version # 0 => Covers(news, entry.version, 1, entry.at)

\* A look-up does not live for more than an hour, and hears of nothing that was not
\* news after it began.
LookInv(c) ==
    /\ asker[c].at = "ready" => \A e \in Endpoints : asker[c].heard[e] = 0
    /\ asker[c].at \in {"latest", "list", "write"} =>
         /\ asker[c].since <= hour /\ hour <= asker[c].since + 1
         /\ \A e \in Endpoints : asker[c].heard[e] # 0 =>
              asker[c].heard[e] <= tagged /\ Covers(news, asker[c].heard[e], 0, asker[c].since)

ToldInv(c) ==
    asker[c].at \in {"told", "done", "failed"} =>
        /\ asker[c].toldAt <= hour
        /\ asker[c].info # 0 =>
             /\ Covers(news, asker[c].info, CheckInterval + 1, asker[c].toldAt)
             /\ "self" \in asker[c].says => SemVer(asker[c].own) < 2 * tagged
             /\ "project" \in asker[c].says => asker[c].framework # NoEntry /\ SemVer(asker[c].framework) < 2 * tagged

ReleaseInv ==
    /\ ReleaseTypeOK /\ NewsInv /\ EntryInv
    /\ \A c \in Askers : LookInv(c) /\ ToldInv(c)

\* Only command c changes.
Only(c) == asker' \in [Askers -> Asker] /\ \A d \in Askers : d # c => asker'[d] = asker[d]

LEMMA ReleaseTypes ==
    ASSUME ReleaseTypeOK
    PROVE  /\ hour \in Nat /\ tagged \in Nat /\ tagged <= MaxRelease
           /\ \A e \in Endpoints : proxy[e] \in 0..tagged
           /\ \A v \in Versions0 : v \in Nat /\ (news[v] # NoEntry => news[v] \in Nat)
           /\ entry # NoEntry => entry \in Entry /\ entry.at \in Nat /\ entry.version \in Versions0
           /\ \A c \in Askers : /\ asker[c] \in Asker /\ asker[c].since \in Nat /\ asker[c].toldAt \in Nat
                                /\ asker[c].info \in Versions0 /\ asker[c].info \in Nat
                                /\ asker[c].heard \in [Endpoints -> Versions0]
                                /\ \A e \in Endpoints : asker[c].heard[e] \in Versions0 /\ asker[c].heard[e] \in Nat
<1> USE ReleaseAssumption, InstallsAssumption
<1>1. hour \in Nat /\ tagged \in Nat /\ tagged <= MaxRelease
    BY DEF ReleaseTypeOK, Hours, Versions0
<1>2. \A v \in Versions0 : v \in Nat /\ (news[v] # NoEntry => news[v] \in Nat)
    BY DEF ReleaseTypeOK, Hours, Versions0
<1>3. entry # NoEntry => entry \in Entry /\ entry.at \in Nat /\ entry.version \in Versions0
    BY DEF ReleaseTypeOK, Hours, Entry
<1>4. \A c \in Askers : asker[c] \in Asker
    BY DEF ReleaseTypeOK
<1>5. ASSUME NEW a \in Asker
      PROVE  /\ a.since \in Nat /\ a.toldAt \in Nat /\ a.info \in Versions0 /\ a.info \in Nat
             /\ a.heard \in [Endpoints -> Versions0]
             /\ \A e \in Endpoints : a.heard[e] \in Versions0 /\ a.heard[e] \in Nat
    <2>1. a.heard \in [Endpoints -> Versions0] /\ a.since \in Hours /\ a.toldAt \in Hours /\ a.info \in Versions0
        BY DEF Asker
    <2>2. Hours \subseteq Nat /\ Versions0 \subseteq Nat
        BY DEF Hours, Versions0
    <2> QED
        BY <2>1, <2>2
<1>6. \A e \in Endpoints : proxy[e] \in 0..tagged
    BY DEF ReleaseTypeOK
<1> QED
    BY <1>1, <1>2, <1>3, <1>4, <1>5, <1>6

\* What a command is told.
LEMMA ToldEffect ==
    ASSUME ReleaseTypeOK, NEW r \in Asker, NEW v \in Versions0
    PROVE  /\ Told(r, v) \in Asker /\ Told(r, v).at = "told" /\ Told(r, v).info = v /\ Told(r, v).toldAt = hour
           /\ Told(r, v).own = r.own /\ Told(r, v).framework = r.framework
           /\ Told(r, v).says =
                {x \in {"self", "project"} : IsNewer(IF x = "self" THEN r.own ELSE r.framework, v)}
<1> USE ReleaseAssumption
<1> DEFINE s == {x \in {"self", "project"} : IsNewer(IF x = "self" THEN r.own ELSE r.framework, v)}
           t == [r EXCEPT !.at = "told", !.info = v, !.toldAt = hour, !.since = 0, !.heard = Unheard, !.says = s]
<1>1. s \in SUBSET {"self", "project"}
    OBVIOUS
<1>2. Unheard \in [Endpoints -> Versions0] /\ hour \in Hours /\ 0 \in Hours
    BY DEF ReleaseTypeOK, Unheard, Versions0, Hours
<1>3. Told(r, v) = t
    BY DEF Told
<1> HIDE DEF s
<1>4. t \in Asker /\ t.at = "told" /\ t.info = v /\ t.toldAt = hour /\ t.own = r.own /\ t.framework = r.framework
      /\ t.says = s
    BY <1>1, <1>2 DEF Asker
<1> HIDE DEF t
<1> QED
    BY <1>3, <1>4 DEF s

LEMMA GatherEffect ==
    ASSUME ReleaseTypeOK, NEW c \in Askers, gatherStatus(c)
    PROVE  /\ Only(c) /\ asker[c].at = "ready"
           /\ \/ /\ asker'[c].at = "latest" /\ asker'[c].since = hour /\ asker'[c].heard = asker[c].heard
              \/ \E r \in Asker, v \in Versions0 :
                    /\ asker'[c] = Told(r, v)
                    /\ v # 0 => entry # NoEntry /\ v = entry.version /\ hour - entry.at <= CheckInterval
           /\ UNCHANGED <<hour, tagged, proxy, entry, cli, framework, news>>
<1> USE ReleaseAssumption, InstallsAssumption
<1>1. PICK o \in Asker : o = asker[c]
    BY DEF ReleaseTypeOK
<1> DEFINE r == [o EXCEPT !.own = cli, !.framework = framework, !.since = hour]
           a == asker[c].ask
           v == IF a.disabled THEN 0 ELSE entry.version
<1>2. r \in Asker /\ r.heard = o.heard /\ r.since = hour
    BY DEF ReleaseTypeOK, Asker
<1>3. /\ asker[c].at = "ready" /\ UNCHANGED <<hour, tagged, proxy, entry, cli, framework, news>>
      /\ asker' = [asker EXCEPT ![c] =
             IF a.refresh \/ (~a.disabled /\ ~readCache) THEN [r EXCEPT !.at = "latest"] ELSE Told(r, v)]
    BY <1>1 DEF gatherStatus
<1> HIDE DEF r
<1>4. CASE a.refresh \/ (~a.disabled /\ ~readCache)
    <2> DEFINE w == [r EXCEPT !.at = "latest"]
    <2>1. w \in Asker /\ w.at = "latest" /\ w.since = r.since /\ w.heard = r.heard
        BY <1>2 DEF Asker
    <2>2. asker' = [asker EXCEPT ![c] = w]
        BY <1>3, <1>4
    <2> HIDE DEF w
    <2>3. Only(c) /\ asker'[c] = w
        BY <2>1, <2>2 DEF Only, ReleaseTypeOK
    <2> QED
        BY <1>1, <1>2, <1>3, <2>1, <2>3
<1>5. CASE ~(a.refresh \/ (~a.disabled /\ ~readCache))
    <2>1. asker' = [asker EXCEPT ![c] = Told(r, v)]
        BY <1>3, <1>5
    <2>2. ~a.disabled => entry # NoEntry /\ hour - entry.at <= CheckInterval
        BY <1>5 DEF readCache
    <2>3. v \in Versions0 /\ (v # 0 => entry # NoEntry /\ v = entry.version /\ hour - entry.at <= CheckInterval)
        BY <2>2, ReleaseTypes DEF Versions0
    <2> HIDE DEF v, a
    <2>4. Told(r, v) \in Asker
        BY <1>2, <2>3, ToldEffect
    <2>5. Only(c) /\ asker'[c] = Told(r, v)
        BY <2>1, <2>4 DEF Only, ReleaseTypeOK
    <2> QED
        BY <1>2, <1>3, <2>3, <2>5
<1> QED
    BY <1>4, <1>5

LEMMA FetchEffect ==
    ASSUME ReleaseTypeOK, NEW c \in Askers, Fetch(c)
    PROVE  /\ Only(c) /\ asker[c].at \in {"latest", "list"} /\ asker'[c].at \in {"list", "write"}
           /\ asker'[c].since = asker[c].since
           /\ \A e \in Endpoints : asker'[c].heard[e] \in {asker[c].heard[e], proxy[e], 0}
           /\ UNCHANGED <<hour, tagged, proxy, entry, cli, framework, news>>
<1> USE ReleaseAssumption, InstallsAssumption
<1> DEFINE e == IF asker[c].at = "latest" THEN "@latest" ELSE "@v/list"
           n == IF asker[c].at = "latest" THEN "list" ELSE "write"
<1>1. PICK v \in {proxy[e], 0} :
         asker' = [asker EXCEPT ![c].heard[e] = v, ![c].at = IF @ = "latest" THEN "list" ELSE "write"]
    BY DEF Fetch
<1>2. asker[c].at \in {"latest", "list"} /\ UNCHANGED <<hour, tagged, proxy, entry, cli, framework, news>>
    BY DEF Fetch
<1>3. e \in Endpoints /\ n \in {"list", "write"}
    BY DEF Endpoints
<1>4. PICK o \in Asker : o = asker[c] /\ o.heard \in [Endpoints -> Versions0]
    BY ReleaseTypes
<1>5. v \in Versions0
    BY <1>3, ReleaseTypes DEF Versions0
<1>6. PICK h \in [Endpoints -> Versions0] : h = [o.heard EXCEPT ![e] = v]
    BY <1>4, <1>5
<1>6a. asker' = [asker EXCEPT ![c] = [o EXCEPT !.heard = h, !.at = n]]
    BY <1>1, <1>4, <1>6
<1>7. \A x \in Endpoints : h[x] \in {o.heard[x], proxy[x], 0}
    BY <1>1, <1>4, <1>6
<1> HIDE DEF e, n
<1> DEFINE g == [o EXCEPT !.heard = h, !.at = n]
<1>8. g \in Asker /\ g.heard = h /\ g.at = n /\ g.since = o.since
    BY <1>3 DEF Asker
<1>9. asker' = [asker EXCEPT ![c] = g]
    BY <1>6a
<1> HIDE DEF g
<1>10. Only(c) /\ asker'[c] = g
    BY <1>8, <1>9 DEF Only, ReleaseTypeOK
<1> QED
    BY <1>2, <1>3, <1>4, <1>7, <1>8, <1>10

LEMMA WriteEffect ==
    ASSUME ReleaseTypeOK, NEW c \in Askers, writeCache(c)
    PROVE  /\ Only(c) /\ asker[c].at = "write" /\ Latest(asker[c].heard) \in Versions0
           /\ asker'[c] = Told(asker[c], Latest(asker[c].heard))
           /\ \/ entry' = entry
              \/ entry' \in Entry /\ entry'.version = Latest(asker[c].heard) /\ entry'.at = hour
           /\ UNCHANGED <<hour, tagged, proxy, cli, framework, news>>
<1> USE ReleaseAssumption, InstallsAssumption
<1> DEFINE v == Latest(asker[c].heard)
<1>1. v \in Versions0
    <2>1. {"@latest", "@v/list"} \subseteq Endpoints
        BY DEF Endpoints
    <2> QED
        BY <2>1, ReleaseTypes DEF Latest
<1>2. /\ asker[c].at = "write" /\ UNCHANGED <<hour, tagged, proxy, cli, framework, news>>
      /\ entry' = entry \/ entry' = [version |-> v, at |-> hour]
      /\ asker' = [asker EXCEPT ![c] = Told(asker[c], v)]
    BY DEF writeCache
<1> HIDE DEF v
<1>3. [version |-> v, at |-> hour] \in Entry
    BY <1>1 DEF Entry, ReleaseTypeOK
<1>4. Told(asker[c], v) \in Asker
    BY <1>1, ReleaseTypes, ToldEffect
<1>5. Only(c) /\ asker'[c] = Told(asker[c], v)
    BY <1>2, <1>4 DEF Only, ReleaseTypeOK
<1>6. \/ entry' = entry
      \/ entry' \in Entry /\ entry'.version = v /\ entry'.at = hour
    BY <1>2, <1>3
<1> QED
    BY <1>1, <1>2, <1>5, <1>6 DEF v

\* The steps of an update leave what the command was told.
LEMMA UpdateEffect ==
    ASSUME ReleaseTypeOK, NEW c \in Askers, applyUpdate(c) \/ UpdateSelf(c) \/ UpdateProject(c)
    PROVE  /\ Only(c) /\ asker[c].at = "told" /\ asker'[c].at \in {"told", "done", "failed"}
           /\ asker'[c].info = asker[c].info /\ asker'[c].toldAt = asker[c].toldAt
           /\ asker'[c].says = asker[c].says /\ asker'[c].own = asker[c].own
           /\ asker'[c].framework = asker[c].framework
           /\ cli' \in Version /\ framework' \in Version \cup {NoEntry}
           /\ UNCHANGED <<hour, tagged, proxy, entry, news>>
<1> USE ReleaseAssumption, InstallsAssumption
<1>1. PICK o \in Asker : o = asker[c]
    BY ReleaseTypes
<1>2. asker[c].at = "told" /\ UNCHANGED <<hour, tagged, proxy, entry, news>>
    BY DEF applyUpdate, UpdateSelf, UpdateProject
<1>3. PICK a \in {"told", "done", "failed"}, l \in SUBSET {"self", "project"} :
         asker' = [asker EXCEPT ![c] = [o EXCEPT !.at = a, !.left = l]]
    <2>0. o.left \in SUBSET {"self", "project"} /\ o.at = "told" /\ asker \in [Askers -> Asker]
        BY <1>1, <1>2 DEF Asker, ReleaseTypeOK
    <2>1. ASSUME NEW part \in {"self", "project"}, UpdateDone(c, part)
          PROVE  \E a \in {"told", "done", "failed"}, l \in SUBSET {"self", "project"} :
                    asker' = [asker EXCEPT ![c] = [o EXCEPT !.at = a, !.left = l]]
        <3> DEFINE a == IF o.left = {part} THEN "done" ELSE o.at
                   l == o.left \ {part}
        <3>1. asker' = [asker EXCEPT ![c] = [o EXCEPT !.at = a, !.left = l]]
            BY <1>1, <2>0, <2>1 DEF UpdateDone, Asker
        <3>2. a \in {"told", "done", "failed"} /\ l \in SUBSET {"self", "project"}
            BY <2>0
        <3> HIDE DEF a, l
        <3> QED
            BY <3>1, <3>2
    <2>2. ASSUME UpdateFails(c)
          PROVE  \E a \in {"told", "done", "failed"}, l \in SUBSET {"self", "project"} :
                    asker' = [asker EXCEPT ![c] = [o EXCEPT !.at = a, !.left = l]]
        <3>1. asker' = [asker EXCEPT ![c] = [o EXCEPT !.at = "failed", !.left = o.left]]
            BY <1>1, <2>0, <2>2 DEF UpdateFails, Asker
        <3> QED
            BY <2>0, <3>1
    <2>3. CASE applyUpdate(c)
        <3>1. CASE ~o.ask.update \/ o.ask.check
            <4>1. asker' = [asker EXCEPT ![c].at = "done"]
                BY <1>1, <2>3, <3>1 DEF applyUpdate
            <4>2. asker' = [asker EXCEPT ![c] = [o EXCEPT !.at = "done", !.left = o.left]]
                BY <1>1, <2>0, <4>1 DEF Asker
            <4> QED
                BY <2>0, <4>2
        <3>2. CASE ~(~o.ask.update \/ o.ask.check)
            <4>1. PICK l \in SUBSET {"self", "project"} : asker' = [asker EXCEPT ![c].left = l]
                <5> DEFINE self == o.ask.self \/ o.ask.all \/ o.framework = NoEntry
                           l == (IF self THEN {"self"} ELSE {})
                                \cup (IF o.framework # NoEntry /\ (o.ask.all \/ ~o.ask.self) THEN {"project"} ELSE {})
                <5>1. asker' = [asker EXCEPT ![c].left = l]
                    BY <1>1, <2>3, <3>2 DEF applyUpdate
                <5>2. l \in SUBSET {"self", "project"}
                    OBVIOUS
                <5> HIDE DEF l
                <5> QED
                    BY <5>1, <5>2
            <4>2. asker' = [asker EXCEPT ![c] = [o EXCEPT !.at = "told", !.left = l]]
                BY <1>1, <2>0, <4>1 DEF Asker
            <4> QED
                BY <4>2
        <3> QED
            BY <3>1, <3>2
    <2>4. CASE UpdateSelf(c)
        BY <2>1, <2>2, <2>4 DEF UpdateSelf
    <2>5. CASE UpdateProject(c)
        BY <2>1, <2>2, <2>5 DEF UpdateProject
    <2> QED
        BY <2>3, <2>4, <2>5
<1> DEFINE g == [o EXCEPT !.at = a, !.left = l]
<1>4. g \in Asker /\ g.at = a /\ g.info = o.info /\ g.toldAt = o.toldAt /\ g.says = o.says /\ g.own = o.own
      /\ g.framework = o.framework
    BY DEF Asker
<1>5. asker' = [asker EXCEPT ![c] = g]
    BY <1>3
<1> HIDE DEF g
<1>6. Only(c) /\ asker'[c] = g
    BY <1>4, <1>5 DEF Only, ReleaseTypeOK
<1>7. [kind |-> "release", n |-> proxy["@latest"]] \in Version
    <2>1. proxy["@latest"] \in 0..MaxRelease
        BY ReleaseTypes DEF Endpoints
    <2> QED
        BY <2>1 DEF Version
<1>8. cli' \in Version /\ framework' \in Version \cup {NoEntry}
    <2>1. cli \in Version /\ framework \in Version \cup {NoEntry}
        BY DEF ReleaseTypeOK
    <2>2. cli' = cli \/ cli' = [kind |-> "release", n |-> proxy["@latest"]]
        BY DEF applyUpdate, UpdateSelf, UpdateProject
    <2>3. framework' = framework \/ framework' = [kind |-> "release", n |-> proxy["@latest"]]
        BY DEF applyUpdate, UpdateSelf, UpdateProject
    <2> QED
        BY <1>7, <2>1, <2>2, <2>3
<1> QED
    BY <1>1, <1>2, <1>3, <1>4, <1>6, <1>8

LEMMA ReleaseInitInv == ReleaseInit => ReleaseInv
<1> USE ReleaseAssumption, InstallsAssumption
<1> SUFFICES ASSUME ReleaseInit PROVE ReleaseInv
    OBVIOUS
<1>1. PICK s \in Installs :
         /\ cli = s.cli /\ framework = s.framework
         /\ asker = [c \in Askers |-> [ask |-> s.asks[c], at |-> "ready", heard |-> Unheard, since |-> 0,
                                       info |-> 0, toldAt |-> 0, own |-> s.cli, framework |-> NoEntry,
                                       says |-> {}, left |-> {}]]
    BY DEF ReleaseInit
<1>2. s.cli \in Version /\ s.framework \in Version \cup {NoEntry} /\ s.asks \in [Askers -> Ask]
    BY <1>1
<1>3. 0 \in Hours /\ 0 \in Versions0 /\ 1 \in Versions0 /\ Unheard \in [Endpoints -> Versions0]
    BY DEF Hours, Versions0, Unheard
<1>4. ASSUME NEW c \in Askers
      PROVE  asker[c] \in Asker /\ asker[c].at = "ready" /\ asker[c].heard = Unheard
    <2>1. PICK k \in Ask : k = s.asks[c]
        BY <1>2
    <2>2. asker[c] = [ask |-> k, at |-> "ready", heard |-> Unheard, since |-> 0, info |-> 0, toldAt |-> 0,
                      own |-> s.cli, framework |-> NoEntry, says |-> {}, left |-> {}]
        BY <1>1, <2>1
    <2> QED
        BY <1>2, <1>3, <2>2 DEF Asker
<1>5. asker \in [Askers -> Asker]
    BY <1>1, <1>4
<1>6. news \in [Versions0 -> Hours \cup {NoEntry}] /\ \A v \in Versions0 : news[v] = IF v = 1 THEN 0 ELSE NoEntry
    BY <1>3 DEF ReleaseInit
<1>7. hour = 0 /\ tagged = 1 /\ proxy = [e \in Endpoints |-> 1] /\ entry = NoEntry
    BY DEF ReleaseInit
<1>8. ReleaseTypeOK
    BY <1>1, <1>2, <1>3, <1>5, <1>6, <1>7 DEF ReleaseTypeOK
<1>9. NewsInv
    BY <1>6, <1>7 DEF NewsInv
<1>10. EntryInv
    BY <1>7 DEF EntryInv
<1>11. ASSUME NEW c \in Askers PROVE LookInv(c) /\ ToldInv(c)
    <2>1. \A e \in Endpoints : asker[c].heard[e] = 0
        BY <1>4 DEF Unheard
    <2> QED
        BY <1>4, <2>1 DEF LookInv, ToldInv
<1> QED
    BY <1>8, <1>9, <1>10, <1>11 DEF ReleaseInv

\* What was covered stays covered: what becomes known now was not known before.
LEMMA CoversKept ==
    ASSUME ReleaseTypeOK, NEW n, NEW x \in Nat, NEW k \in Nat, NEW t \in Nat, t <= hour,
           \A v \in Versions0 : n[v] = news[v] \/ n[v] = hour, Covers(news, x, k, t)
    PROVE  Covers(n, x, k, t)
<1> SUFFICES ASSUME NEW v \in Versions0, n[v] # NoEntry, n[v] + k < t PROVE x >= v
    BY DEF Covers
<1>1. n[v] # hour
    BY ReleaseTypes
<1> QED
    BY <1>1 DEF Covers

LEMMA TwiceGrows ==
    ASSUME NEW b \in Int, NEW m \in Nat, NEW n \in Nat, m <= n, b < 2 * m
    PROVE  b < 2 * n
OBVIOUS

\* A command that is not stepped: the world may tag, catch up, and let an hour pass
\* that no look-up has to be over for.
LEMMA Bystander ==
    ASSUME ReleaseInv, NEW c \in Askers, asker'[c] = asker[c],
           tagged' \in Nat, tagged <= tagged', hour' \in Nat, hour <= hour',
           asker[c].at \in {"latest", "list", "write"} => hour' <= asker[c].since + 1,
           \A v \in Versions0 : news'[v] = news[v] \/ news'[v] = hour
    PROVE  LookInv(c)' /\ ToldInv(c)'
<1>0. ReleaseTypeOK /\ LookInv(c) /\ ToldInv(c)
    BY DEF ReleaseInv
<1>t. tagged \in Nat
    BY <1>0, ReleaseTypes
<1>4. ASSUME NEW b \in Int, b < 2 * tagged PROVE b < 2 * tagged'
    BY <1>t, <1>4, TwiceGrows
<1> USE ReleaseAssumption, ReleaseTypes
<1>1. asker[c].at \in {"latest", "list", "write"} =>
         \A e \in Endpoints : asker[c].heard[e] # 0 =>
            asker[c].heard[e] <= tagged' /\ Covers(news', asker[c].heard[e], 0, asker[c].since)
    <2> SUFFICES ASSUME asker[c].at \in {"latest", "list", "write"}, NEW e \in Endpoints, asker[c].heard[e] # 0
                 PROVE  asker[c].heard[e] <= tagged' /\ Covers(news', asker[c].heard[e], 0, asker[c].since)
        OBVIOUS
    <2>1. asker[c].heard[e] <= tagged /\ Covers(news, asker[c].heard[e], 0, asker[c].since) /\ asker[c].since <= hour
        BY <1>0 DEF LookInv
    <2>2. asker[c].heard[e] \in Nat /\ asker[c].since \in Nat
        BY <1>0
    <2>3. asker[c].heard[e] <= tagged'
        BY <1>t, <2>1, <2>2
    <2>4. Covers(news', asker[c].heard[e], 0, asker[c].since)
        BY <1>0, <2>1, <2>2, CoversKept
    <2> QED
        BY <2>3, <2>4
<1>2. LookInv(c)'
    BY <1>0, <1>1 DEF LookInv
<1>3. asker[c].at \in {"told", "done", "failed"} /\ asker[c].info # 0 =>
         Covers(news', asker[c].info, CheckInterval + 1, asker[c].toldAt)
    BY <1>0, CoversKept DEF ToldInv
<1>5. SemVer(asker[c].own) \in Int /\ (asker[c].framework # NoEntry => SemVer(asker[c].framework) \in Int)
    <2>1. asker[c].own \in Version /\ asker[c].framework \in Version \cup {NoEntry}
        BY <1>0 DEF Asker
    <2> QED
        BY <2>1 DEF Version, SemVer
<1>6. ToldInv(c)'
    BY <1>0, <1>3, <1>4, <1>5 DEF ToldInv
<1> QED
    BY <1>2, <1>6

\* A command that has just been told something that is not older than a day and the
\* time of one look-up, and no newer than the newest release.
LEMMA ToldWell ==
    ASSUME ReleaseInv, NEW c \in Askers, NEW r \in Asker, NEW v \in Versions0, asker'[c] = Told(r, v),
           v # 0 => v <= tagged /\ Covers(news, v, CheckInterval + 1, hour),
           UNCHANGED <<hour, tagged, news>>
    PROVE  LookInv(c)' /\ ToldInv(c)'
<1> USE ReleaseAssumption, InstallsAssumption
<1>0. ReleaseTypeOK
    BY DEF ReleaseInv
<1>1. PICK a \in Asker : a = asker'[c]
    BY <1>0, ToldEffect
<1>2. /\ a.at = "told" /\ a.info = v /\ a.toldAt = hour /\ a.own = r.own /\ a.framework = r.framework
      /\ a.says = {x \in {"self", "project"} : IsNewer(IF x = "self" THEN r.own ELSE r.framework, v)}
    BY <1>0, <1>1, ToldEffect
<1>3. LookInv(c)'
    BY <1>1, <1>2 DEF LookInv
<1>4. v \in Nat /\ tagged \in Nat /\ hour \in Nat
    BY <1>0, ReleaseTypes
<1>5. ASSUME NEW b \in Version \cup {NoEntry}, IsNewer(b, v), v <= tagged
      PROVE  b # NoEntry /\ SemVer(b) < 2 * tagged
    <2>1. b # NoEntry /\ b \in Version /\ 2 * v > SemVer(b)
        BY <1>5 DEF IsNewer
    <2>2. SemVer(b) \in Int
        BY <2>1 DEF SemVer, Version
    <2> QED
        BY <1>4, <1>5, <2>1, <2>2
<1>6. r.own \in Version /\ r.framework \in Version \cup {NoEntry}
    BY DEF Asker
<1>7. ASSUME v # 0
      PROVE  /\ "self" \in a.says => SemVer(a.own) < 2 * tagged
             /\ "project" \in a.says => a.framework # NoEntry /\ SemVer(a.framework) < 2 * tagged
    BY <1>2, <1>5, <1>6, <1>7
<1>8. ToldInv(c)'
    BY <1>1, <1>2, <1>4, <1>7 DEF ToldInv
<1> QED
    BY <1>3, <1>8

LEMMA ReleaseStep == ReleaseInv /\ [ReleaseNext]_releaseVars => ReleaseInv'
<1> USE ReleaseAssumption, InstallsAssumption
<1> SUFFICES ASSUME ReleaseInv, [ReleaseNext]_releaseVars PROVE ReleaseInv'
    OBVIOUS
<1>0. ReleaseTypeOK /\ NewsInv /\ EntryInv /\ \A c \in Askers : LookInv(c) /\ ToldInv(c)
    BY DEF ReleaseInv
<1> USE ReleaseTypes
<1>w. hour \in Hours /\ tagged \in Versions0 /\ proxy \in [Endpoints -> 0..tagged] /\ entry \in Entry \cup {NoEntry}
      /\ cli \in Version /\ framework \in Version \cup {NoEntry} /\ asker \in [Askers -> Asker]
      /\ news \in [Versions0 -> Hours \cup {NoEntry}]
    BY <1>0 DEF ReleaseTypeOK
<1>1. CASE Tag
    <2>1. tagged' = tagged + 1 /\ tagged < MaxRelease
          /\ UNCHANGED <<hour, proxy, entry, cli, framework, asker, news>>
        BY <1>1 DEF Tag
    <2>2. ReleaseTypeOK'
        BY <1>0, <1>w, <2>1 DEF ReleaseTypeOK, Versions0
    <2>3. NewsInv' /\ EntryInv'
        BY <1>0, <2>1 DEF NewsInv, EntryInv, Versions0
    <2>4. \A c \in Askers : LookInv(c)' /\ ToldInv(c)'
        BY <1>0, <2>1, Bystander DEF LookInv
    <2> QED
        BY <2>2, <2>3, <2>4 DEF ReleaseInv
<1>2. CASE \E e \in Endpoints : CatchUp(e)
    <2>1. PICK e \in Endpoints : CatchUp(e)
        BY <1>2
    <2>2. /\ proxy[e] < tagged /\ proxy' = [proxy EXCEPT ![e] = tagged]
          /\ news' = [v \in Versions0 |->
                        IF news[v] = NoEntry /\ \A x \in Endpoints : proxy'[x] >= v THEN hour ELSE news[v]]
          /\ UNCHANGED <<hour, tagged, entry, cli, framework, asker>>
        BY <2>1 DEF CatchUp
    <2>3. \A v \in Versions0 : /\ news'[v] = news[v] \/ news'[v] = hour
                               /\ news'[v] # news[v] => \A x \in Endpoints : proxy'[x] >= v
        BY <2>2
    <2>4. news' \in [Versions0 -> Hours \cup {NoEntry}]
        BY <1>w, <2>2
    <2>5. proxy' \in [Endpoints -> 0..tagged] /\ \A x \in Endpoints : proxy'[x] >= proxy[x]
        BY <1>0, <1>w, <2>2
    <2>6. ReleaseTypeOK'
        BY <1>w, <2>2, <2>4, <2>5 DEF ReleaseTypeOK
    <2>7. NewsInv'
        <3> SUFFICES ASSUME NEW v \in Versions0, news'[v] # NoEntry
                     PROVE  news'[v] <= hour /\ \A x \in Endpoints : proxy'[x] >= v
            BY <2>2 DEF NewsInv
        <3>1. CASE news'[v] = news[v]
            <4>1. news[v] <= hour /\ \A x \in Endpoints : proxy[x] >= v
                BY <1>0, <3>1 DEF NewsInv
            <4>2. \A x \in Endpoints : proxy[x] \in Nat /\ proxy'[x] \in Nat /\ v \in Nat
                BY <1>0, <2>5
            <4> QED
                BY <2>5, <3>1, <4>1, <4>2
        <3>2. CASE news'[v] # news[v]
            BY <1>0, <2>3, <3>2
        <3> QED
            BY <3>1, <3>2
    <2>8. EntryInv'
        <3>1. entry # NoEntry /\ entry.version # 0 => Covers(news', entry.version, 1, entry.at)
            BY <1>0, <2>3, CoversKept DEF EntryInv, Versions0
        <3> QED
            BY <1>0, <2>2, <3>1 DEF EntryInv
    <2>9. \A c \in Askers : LookInv(c)' /\ ToldInv(c)'
        BY <1>0, <2>2, <2>3, Bystander DEF LookInv
    <2> QED
        BY <2>6, <2>7, <2>8, <2>9 DEF ReleaseInv
<1>3. CASE HourPasses
    <2>1. /\ hour < MaxHour /\ hour' = hour + 1
          /\ \A c \in Askers : asker[c].at \in {"latest", "list", "write"} => asker[c].since = hour
          /\ UNCHANGED <<tagged, proxy, entry, cli, framework, asker, news>>
        BY <1>3 DEF HourPasses
    <2>2. ReleaseTypeOK'
        BY <1>0, <1>w, <2>1 DEF ReleaseTypeOK, Hours
    <2>3. NewsInv' /\ EntryInv'
        BY <1>0, <2>1 DEF NewsInv, EntryInv
    <2>4. \A c \in Askers : LookInv(c)' /\ ToldInv(c)'
        BY <1>0, <2>1, Bystander
    <2> QED
        BY <2>2, <2>3, <2>4 DEF ReleaseInv
<1>4. ASSUME NEW c \in Askers, Only(c), UNCHANGED <<hour, tagged, proxy, news>>
      PROVE  NewsInv' /\ \A d \in Askers \ {c} : LookInv(d)' /\ ToldInv(d)'
    <2>1. NewsInv'
        BY <1>0, <1>4 DEF NewsInv
    <2>2. ASSUME NEW d \in Askers \ {c} PROVE LookInv(d)' /\ ToldInv(d)'
        BY <1>0, <1>4, Bystander DEF Only, LookInv
    <2> QED
        BY <2>1, <2>2
<1>5. ASSUME NEW c \in Askers, gatherStatus(c) PROVE ReleaseInv'
    <2>1. /\ Only(c) /\ asker[c].at = "ready"
          /\ UNCHANGED <<hour, tagged, proxy, entry, cli, framework, news>>
        BY <1>0, <1>5, GatherEffect
    <2>2. ReleaseTypeOK'
        BY <1>w, <2>1 DEF ReleaseTypeOK, Only
    <2>3. EntryInv'
        BY <1>0, <2>1 DEF EntryInv
    <2>4. CASE asker'[c].at = "latest" /\ asker'[c].since = hour /\ asker'[c].heard = asker[c].heard
        <3>1. \A e \in Endpoints : asker[c].heard[e] = 0
            BY <1>0, <2>1 DEF LookInv
        <3> QED
            BY <1>0, <1>4, <2>1, <2>2, <2>3, <2>4, <3>1 DEF LookInv, ToldInv, ReleaseInv
    <2>5. CASE \E r \in Asker, v \in Versions0 :
                  /\ asker'[c] = Told(r, v)
                  /\ v # 0 => entry # NoEntry /\ v = entry.version /\ hour - entry.at <= CheckInterval
        <3>1. PICK r \in Asker, v \in Versions0 :
                  /\ asker'[c] = Told(r, v)
                  /\ v # 0 => entry # NoEntry /\ v = entry.version /\ hour - entry.at <= CheckInterval
            BY <2>5
        <3>2. v # 0 => v <= tagged /\ Covers(news, v, CheckInterval + 1, hour)
            BY <1>0, <3>1 DEF EntryInv, Covers
        <3>3. LookInv(c)' /\ ToldInv(c)'
            BY <2>1, <3>1, <3>2, ToldWell
        <3> QED
            BY <1>4, <2>1, <2>2, <2>3, <3>3 DEF ReleaseInv
    <2> QED
        BY <1>0, <1>5, <2>4, <2>5, GatherEffect
<1>6. ASSUME NEW c \in Askers, Fetch(c) PROVE ReleaseInv'
    <2>1. /\ Only(c) /\ asker[c].at \in {"latest", "list"} /\ asker'[c].at \in {"list", "write"}
          /\ asker'[c].since = asker[c].since
          /\ \A e \in Endpoints : asker'[c].heard[e] \in {asker[c].heard[e], proxy[e], 0}
          /\ UNCHANGED <<hour, tagged, proxy, entry, cli, framework, news>>
        BY <1>0, <1>6, FetchEffect
    <2>2. ReleaseTypeOK' /\ EntryInv'
        BY <1>0, <1>w, <2>1 DEF ReleaseTypeOK, Only, EntryInv
    <2>3. \A e \in Endpoints : proxy[e] <= tagged /\ Covers(news, proxy[e], 0, asker[c].since)
        BY <1>0 DEF NewsInv, Covers
    <2>4. LookInv(c)' /\ ToldInv(c)'
        BY <1>0, <2>1, <2>3 DEF LookInv, ToldInv
    <2> QED
        BY <1>4, <2>1, <2>2, <2>4 DEF ReleaseInv
<1>7. ASSUME NEW c \in Askers, writeCache(c) PROVE ReleaseInv'
    <2> DEFINE v == Latest(asker[c].heard)
    <2>1. /\ Only(c) /\ asker[c].at = "write" /\ v \in Versions0
          /\ asker'[c] = Told(asker[c], v)
          /\ \/ entry' = entry
             \/ entry' \in Entry /\ entry'.version = v /\ entry'.at = hour
          /\ UNCHANGED <<hour, tagged, proxy, cli, framework, news>>
        BY <1>0, <1>7, WriteEffect
    <2>2. \E e \in Endpoints : v = asker[c].heard[e]
        BY DEF Latest, Endpoints
    <2> HIDE DEF v
    <2>3. v # 0 => v <= tagged /\ Covers(news, v, 1, hour)
        BY <1>0, <2>1, <2>2 DEF LookInv, Covers
    <2>4. v # 0 => Covers(news, v, CheckInterval + 1, hour)
        BY <1>0, <2>3 DEF Covers
    <2>5. LookInv(c)' /\ ToldInv(c)'
        BY <1>0, <2>1, <2>3, <2>4, ToldWell
    <2>6. ReleaseTypeOK'
        BY <1>w, <2>1 DEF ReleaseTypeOK, Only
    <2>7. EntryInv'
        BY <1>0, <2>1, <2>3 DEF EntryInv, Versions0
    <2> QED
        BY <1>4, <2>1, <2>5, <2>6, <2>7 DEF ReleaseInv
<1>8. ASSUME NEW c \in Askers, applyUpdate(c) \/ UpdateSelf(c) \/ UpdateProject(c) PROVE ReleaseInv'
    <2>1. /\ Only(c) /\ asker[c].at = "told" /\ asker'[c].at \in {"told", "done", "failed"}
          /\ asker'[c].info = asker[c].info /\ asker'[c].toldAt = asker[c].toldAt
          /\ asker'[c].says = asker[c].says /\ asker'[c].own = asker[c].own
          /\ asker'[c].framework = asker[c].framework
          /\ cli' \in Version /\ framework' \in Version \cup {NoEntry}
          /\ UNCHANGED <<hour, tagged, proxy, entry, news>>
        BY <1>0, <1>8, UpdateEffect
    <2>2. ReleaseTypeOK' /\ EntryInv'
        BY <1>0, <1>w, <2>1 DEF ReleaseTypeOK, Only, EntryInv
    <2>3. LookInv(c)' /\ ToldInv(c)'
        BY <1>0, <2>1 DEF LookInv, ToldInv
    <2> QED
        BY <1>4, <2>1, <2>2, <2>3 DEF ReleaseInv
<1>9. CASE UNCHANGED releaseVars
    <2>1. UNCHANGED <<hour, tagged, proxy, entry, cli, framework, asker, news>>
        BY <1>9 DEF releaseVars
    <2>2. ReleaseTypeOK' /\ NewsInv' /\ EntryInv'
        BY <1>0, <2>1 DEF ReleaseTypeOK, NewsInv, EntryInv
    <2>3. \A c \in Askers : LookInv(c)' /\ ToldInv(c)'
        BY <1>0, <2>1, Bystander DEF LookInv
    <2> QED
        BY <2>2, <2>3 DEF ReleaseInv
<1> QED
    BY <1>1, <1>2, <1>3, <1>5, <1>6, <1>7, <1>8, <1>9 DEF ReleaseNext

\* Every command is told of every release both endpoints of the module proxy have
\* known of for a day and the time of one look-up, whichever commands replaced the
\* file it read and in whatever order they wrote what they had heard; and nothing is
\* called out of date that is not behind a release there is.  For every number of
\* commands, releases and hours (release.go: Cached, Refresh, Latest, IsNewer).
THEOREM NewsReachesAll == ReleaseSpec => []NewsWithinADay
<1>1. ReleaseInv => NewsWithinADay
    <2> SUFFICES ASSUME ReleaseInv PROVE NewsWithinADay
        OBVIOUS
    <2>1. ASSUME NEW c \in Askers, asker[c].info # 0, Covers(news, asker[c].info, CheckInterval + 1, asker[c].toldAt),
                 NEW v \in Versions0, news[v] # NoEntry, news[v] + CheckInterval + 1 < asker[c].toldAt
          PROVE  asker[c].info >= v
        <3>1. news[v] \in Nat
            BY <2>1, ReleaseTypes DEF ReleaseInv
        <3>2. news[v] + (CheckInterval + 1) < asker[c].toldAt
            BY <2>1, <3>1, ReleaseAssumption
        <3> QED
            BY <2>1, <3>2 DEF Covers
    <2> QED
        BY <2>1 DEF ReleaseInv, ToldInv, NewsWithinADay
<1> QED
    BY <1>1, ReleaseInitInv, ReleaseStep, PTL DEF ReleaseSpec
-----------------------------------------------------------------------------
(* Building and running.                                                   *)

\* The place of templ in the plan of a command that builds; the compiler reads and
\* writes right after it, and then dev and the forwarded commands run the binary.
TemplAt(kind) == IF kind = "dev" THEN 4 ELSE IF kind = "build" THEN 7 ELSE IF kind = "forward" THEN 2 ELSE 11

Embeds(c) == cmd[c].kind = "build" /\ conf.vite

\* What a command has done so far is at least as new as what it began with; dist
\* holds what its Vite has read once that is through, until somebody crosses it.
UpToDate(c) ==
    LET k == cmd[c]
    IN  /\ \A x \in Parts : k.began[x] <= ver[x]
        /\ k.at > TemplAt(k.kind) => k.began["views"] <= out.gen
        /\ k.at > TemplAt(k.kind) + 1 => NoOlder(k.read, c)
        /\ Embeds(c) /\ k.at \in 4..8 => k.read["web"] \in k.began["web"]..MaxVersion
        /\ Embeds(c) /\ k.at \in 6..8 /\ k.state = "on" /\ ~k.crossed => out.dist = k.read["web"]
        /\ Embeds(c) /\ k.at > 8 /\ ~k.crossed => k.read["web"] \in k.began["web"]..MaxVersion
        /\ k.kind = "build" /\ k.at > 9 => k.ran = k.read
        /\ k.kind \in {"dev", "forward"} /\ k.state = "on" /\ k.at = TemplAt(k.kind) + 3 /\ ~k.crossed => out.dev = k.read
        /\ k.kind \in {"dev", "forward"} /\ k.at > TemplAt(k.kind) + 3 /\ ~k.crossed => k.ran = k.read

\* Some command that wrote to storage/tmp found nothing newer than v when it began.
OneBuilt(v) == \E d \in Commands : BuiltDev(d) /\ NoOlder(v, d)

\* Once a binary was written to storage/tmp, the one that is there, and those that
\* were run, are of such commands.
BinaryInv ==
    \A c \in Commands : BuiltDev(c) =>
        OneBuilt(out.dev) /\ (cmd[c].at > Len(Plan(cmd[c].kind)) => OneBuilt(cmd[c].ran))

LaunchInv ==
    /\ LaunchTypeOK
    /\ out.gen <= ver["views"]
    /\ \A c \in Commands : UpToDate(c)
    /\ BinaryInv

LEMMA LaunchTypes ==
    ASSUME LaunchTypeOK
    PROVE  /\ \A x \in Parts : ver[x] \in Nat /\ ver[x] \in 0..MaxVersion
           /\ out \in Out /\ out.gen \in Nat
           /\ \A c \in Commands : /\ cmd[c] \in Cmd /\ cmd[c].kind \in Kinds /\ cmd[c].at \in 0..10
                                  /\ cmd[c].began \in Versions /\ cmd[c].read \in Binaries /\ cmd[c].ran \in Binaries
                                  /\ \A x \in Parts : cmd[c].began[x] \in Nat
                                  /\ \A x \in {"go", "views"} : cmd[c].read[x] \in Nat /\ cmd[c].ran[x] \in Nat
<1> USE LaunchAssumption
<1>1. \A f \in Versions : \A x \in Parts : f[x] \in Nat /\ f[x] \in 0..MaxVersion
    BY DEF Versions
<1>2. out \in Out /\ out.gen \in Nat
    BY DEF LaunchTypeOK, Out
<1>3. ASSUME NEW k \in Cmd
      PROVE  k.kind \in Kinds /\ k.at \in 0..10 /\ k.began \in Versions /\ k.read \in Binaries /\ k.ran \in Binaries
    BY DEF Cmd
<1>4. ver \in Versions /\ \A c \in Commands : cmd[c] \in Cmd
    BY DEF LaunchTypeOK
<1>5. \A f \in Binaries : \A x \in {"go", "views"} : f[x] \in Nat
    BY DEF Binaries
<1> QED
    BY <1>1, <1>2, <1>3, <1>4, <1>5

\* Where the steps are in the plans.
LEMMA PlanSteps ==
    /\ \A k \in Kinds : Len(Plan(k)) \in 1..9 /\ DOMAIN Plan(k) = 1..Len(Plan(k))
    /\ Len(Plan("build")) = 9
    /\ \A k \in {"dev", "forward"} : Len(Plan(k)) = TemplAt(k) + 3
    /\ \A k \in Kinds : \A i \in DOMAIN Plan(k) :
         /\ i < TemplAt(k) <=> Plan(k)[i] \notin {"templ", "read", "write"} /\ (Plan(k)[i] = "run" => k = "start")
         /\ Plan(k)[i] = "templ" => i = TemplAt(k) /\ k # "start"
         /\ Plan(k)[i] = "read" => i = TemplAt(k) + 1 /\ k # "start"
         /\ Plan(k)[i] = "write" => i = TemplAt(k) + 2 /\ k # "start"
         /\ Plan(k)[i] = "run" /\ k # "start" => i = TemplAt(k) + 3 /\ k # "build"
         /\ k \in {"dev", "forward"} /\ i = TemplAt(k) + 3 => Plan(k)[i] = "run"
         /\ Plan(k)[i] = "bundle" => k = "build" /\ i = 3
         /\ Plan(k)[i] = "empty" => k = "build" /\ i = 4
         /\ Plan(k)[i] = "fill" => k = "build" /\ i = 5
         /\ k = "build" /\ i = 3 => Plan(k)[i] = "bundle"
         /\ k = "build" /\ i = 5 => Plan(k)[i] = "fill"
         /\ k = "build" /\ i \in 6..8 => Plan(k)[i] \in {"keep", "templ", "read"}
<1>1. /\ Plan("dev") = DevPlan /\ Plan("build") = BuildPlan /\ Plan("start") = StartPlan
      /\ Plan("forward") = ForwardPlan
    BY DEF Plan
<1>2. Len(DevPlan) = 7 /\ DOMAIN DevPlan = 1..7
    BY DEF DevPlan
<1>3. Len(BuildPlan) = 9 /\ DOMAIN BuildPlan = 1..9
    BY DEF BuildPlan
<1>4. Len(StartPlan) = 3 /\ DOMAIN StartPlan = 1..3
    BY DEF StartPlan
<1>5. Len(ForwardPlan) = 5 /\ DOMAIN ForwardPlan = 1..5
    BY DEF ForwardPlan
<1>6. TemplAt("dev") = 4 /\ TemplAt("build") = 7 /\ TemplAt("forward") = 2 /\ TemplAt("start") = 11
    BY DEF TemplAt
<1> DEFINE Fits(k, i) ==
         /\ i < TemplAt(k) <=> Plan(k)[i] \notin {"templ", "read", "write"} /\ (Plan(k)[i] = "run" => k = "start")
         /\ Plan(k)[i] = "templ" => i = TemplAt(k) /\ k # "start"
         /\ Plan(k)[i] = "read" => i = TemplAt(k) + 1 /\ k # "start"
         /\ Plan(k)[i] = "write" => i = TemplAt(k) + 2 /\ k # "start"
         /\ Plan(k)[i] = "run" /\ k # "start" => i = TemplAt(k) + 3 /\ k # "build"
         /\ k \in {"dev", "forward"} /\ i = TemplAt(k) + 3 => Plan(k)[i] = "run"
         /\ Plan(k)[i] = "bundle" => k = "build" /\ i = 3
         /\ Plan(k)[i] = "empty" => k = "build" /\ i = 4
         /\ Plan(k)[i] = "fill" => k = "build" /\ i = 5
         /\ k = "build" /\ i = 3 => Plan(k)[i] = "bundle"
         /\ k = "build" /\ i = 5 => Plan(k)[i] = "fill"
         /\ k = "build" /\ i \in 6..8 => Plan(k)[i] \in {"keep", "templ", "read"}
<1>7. \A i \in 1..7 : Fits("dev", i)
    BY <1>1, <1>6 DEF DevPlan
<1>8. \A i \in 1..9 : Fits("build", i)
    BY <1>1, <1>6 DEF BuildPlan
<1>9. \A i \in 1..3 : Fits("start", i)
    BY <1>1, <1>6 DEF StartPlan
<1>10. \A i \in 1..5 : Fits("forward", i)
    BY <1>1, <1>6 DEF ForwardPlan
<1> HIDE DEF Fits
<1>11. \A k \in Kinds : Len(Plan(k)) \in 1..9 /\ DOMAIN Plan(k) = 1..Len(Plan(k))
    BY <1>1, <1>2, <1>3, <1>4, <1>5 DEF Kinds
<1>12. Len(Plan("build")) = 9 /\ \A k \in {"dev", "forward"} : Len(Plan(k)) = TemplAt(k) + 3
    <2>1. Len(Plan("dev")) = 7 /\ Len(Plan("build")) = 9 /\ Len(Plan("forward")) = 5
        BY <1>1, <1>2, <1>3, <1>5
    <2>2. ASSUME NEW n, n = 4 PROVE 7 = n + 3
        BY <2>2
    <2>3. ASSUME NEW n, n = 2 PROVE 5 = n + 3
        BY <2>3
    <2> QED
        BY <1>6, <2>1, <2>2, <2>3
<1>13. \A k \in Kinds : \A i \in DOMAIN Plan(k) : Fits(k, i)
    BY <1>1, <1>2, <1>3, <1>4, <1>5, <1>7, <1>8, <1>9, <1>10 DEF Kinds
<1> QED
    BY <1>11, <1>12, <1>13 DEF Fits

\* What a command that is at a step is about to do.
LEMMA AtPlace ==
    ASSUME LaunchTypeOK, NEW c \in Commands, NEW s, At(c, s)
    PROVE  LET k == cmd[c]
           IN  /\ k.state = "on" /\ k.at \in 1..9 /\ k.at + 1 \in 0..10
               /\ s \notin {"templ", "read", "write", "run"} => k.at < TemplAt(k.kind)
               /\ s = "templ" => k.at = TemplAt(k.kind) /\ k.kind # "start"
               /\ s = "read" => k.at = TemplAt(k.kind) + 1 /\ k.kind # "start"
               /\ s = "write" => k.at = TemplAt(k.kind) + 2 /\ k.kind # "start"
               /\ s = "run" /\ k.kind # "start" => k.at = TemplAt(k.kind) + 3 /\ k.kind # "build"
               /\ s = "bundle" => k.kind = "build" /\ k.at = 3
               /\ s = "empty" => k.kind = "build" /\ k.at = 4
               /\ s = "fill" => k.kind = "build" /\ k.at = 5
               /\ k.kind = "build" /\ k.at = 3 => s = "bundle"
               /\ k.kind = "build" /\ k.at = 5 => s = "fill"
<1>1. PICK k : k = cmd[c]
    OBVIOUS
<1>2. k.state = "on" /\ k.kind \in Kinds /\ k.at \in DOMAIN Plan(k.kind) /\ Plan(k.kind)[k.at] = s
    BY <1>1, LaunchTypes DEF At
<1>3. k.at \in 1..9
    BY <1>2, PlanSteps
<1> QED
    BY <1>1, <1>2, <1>3, PlanSteps

\* The command that has filled dist, and not embedded it yet, is one that can be crossed.
LEMMA FilledIsEmbedding ==
    ASSUME LaunchTypeOK, NEW c \in Commands, cmd[c].kind = "build", cmd[c].state = "on", cmd[c].at \in 6..8
    PROVE  Embedding(c)
<1>1. Len(Plan("build")) = 9 /\ "build" \in Kinds
    BY PlanSteps DEF Kinds
<1>2. DOMAIN Plan("build") = 1..9
    <2>1. DOMAIN Plan("build") = 1..Len(Plan("build"))
        BY <1>1, PlanSteps
    <2> QED
        BY <1>1, <2>1
<1>3. cmd[c].at \in DOMAIN Plan("build")
    BY <1>2
<1>4. Plan("build")[cmd[c].at] \in {"keep", "templ", "read"}
    BY <1>1, <1>3, PlanSteps
<1> QED
    BY <1>3, <1>4 DEF Embedding, At

\* A command at rest, or one that takes a step that neither builds nor runs.
LEMMA StaysFresh ==
    ASSUME LaunchInv, NEW c \in Commands, NEW k \in Cmd, cmd'[c] = k, conf' = conf,
           k.kind = cmd[c].kind, k.began = cmd[c].began, k.read = cmd[c].read, k.ran = cmd[c].ran,
           cmd[c].crossed => k.crossed, k.state \in {cmd[c].state, "failed"},
           \/ k.at = cmd[c].at
           \/ \E s : /\ k.at = cmd[c].at + 1 /\ At(c, s) /\ s \notin {"templ", "read", "write", "run"}
                     /\ s = "bundle" => ~conf.vite
                     /\ s = "fill" /\ conf.vite => k.crossed \/ out'.dist = k.read["web"],
           \A x \in Parts : ver'[x] \in Nat /\ ver[x] <= ver'[x],
           out'.gen \in Nat, out.gen <= out'.gen, k.crossed \/ out'.dev = out.dev,
           \/ out'.dist = out.dist
           \/ k.kind = "build" /\ k.state = "on" /\ k.at \in 6..8 => k.crossed \/ out'.dist = k.read["web"]
    PROVE  UpToDate(c)'
<1>0. LaunchTypeOK /\ UpToDate(c)
    BY DEF LaunchInv
<1> USE LaunchTypes
<1> DEFINE o == cmd[c]
           t == TemplAt(o.kind)
<1>1. t \in {2, 4, 7, 11} /\ (o.kind = "build" => t = 7) /\ (o.kind = "dev" => t = 4) /\ (o.kind = "forward" => t = 2)
    BY DEF TemplAt
<1>2. k.at \in Nat /\ o.at \in Nat
    BY <1>0 DEF Cmd
<1>3. \/ k.at = o.at
      \/ /\ k.at = o.at + 1 /\ o.at < t /\ (o.kind = "build" /\ o.at = 3 => ~conf.vite)
         /\ o.kind = "build" /\ o.at = 5 /\ conf.vite => k.crossed \/ out'.dist = k.read["web"]
         /\ o.state = "on"
    BY <1>0, AtPlace
<1>4. Embeds(c)' = Embeds(c)
    BY DEF Embeds
<1>5. \A x \in Parts : k.began[x] <= ver'[x]
    BY <1>0 DEF UpToDate
<1>6. "go" \in Parts /\ "views" \in Parts /\ "web" \in Parts
    BY DEF Parts
<1> HIDE DEF t
<1>7. k.at > t => k.began["views"] <= out'.gen
    BY <1>0, <1>1, <1>2, <1>3, <1>6 DEF UpToDate, t
<1>8. Embeds(c) /\ k.at \in 4..8 => k.read["web"] \in k.began["web"]..MaxVersion
    <2>1. Embeds(c) /\ k.at \in 4..8 => o.at \in 4..8
        BY <1>1, <1>2, <1>3 DEF Embeds
    <2> QED
        BY <1>0, <2>1 DEF UpToDate
<1>9. k.at > t + 1 => NoOlder(k.read, c)'
    BY <1>0, <1>1, <1>2, <1>3 DEF UpToDate, t, NoOlder
<1>10. Embeds(c) /\ k.at \in 6..8 /\ k.state = "on" /\ ~k.crossed => out'.dist = k.read["web"]
    <2>1. Embeds(c) /\ k.at \in 6..8 /\ k.state = "on" /\ ~k.crossed => o.at \in 6..8 \/ out'.dist = k.read["web"]
        BY <1>1, <1>2, <1>3 DEF Embeds
    <2> QED
        BY <1>0, <2>1 DEF UpToDate, Embeds
<1>11. Embeds(c) /\ k.at > 8 /\ ~k.crossed => k.read["web"] \in k.began["web"]..MaxVersion
    <2>1. Embeds(c) /\ k.at > 8 => o.at > 8
        BY <1>1, <1>2, <1>3 DEF Embeds
    <2> QED
        BY <1>0, <2>1 DEF UpToDate
<1>12. k.kind = "build" /\ k.at > 9 => k.ran = k.read
    BY <1>0, <1>1, <1>2, <1>3 DEF UpToDate
<1>13. k.kind \in {"dev", "forward"} /\ k.state = "on" /\ k.at = t + 3 /\ ~k.crossed => out'.dev = k.read
    BY <1>0, <1>1, <1>2, <1>3 DEF UpToDate, t
<1>14. k.kind \in {"dev", "forward"} /\ k.at > t + 3 /\ ~k.crossed => k.ran = k.read
    BY <1>0, <1>1, <1>2, <1>3 DEF UpToDate, t
<1> QED
    BY <1>4, <1>5, <1>7, <1>8, <1>9, <1>10, <1>11, <1>12, <1>13, <1>14 DEF UpToDate, t

\* A command that in this step neither writes nor runs the binary in storage/tmp.
Rests(d) ==
    /\ cmd'[d].kind = cmd[d].kind
    /\ cmd[d].kind \in {"dev", "forward"} =>
         /\ cmd'[d].ran = cmd[d].ran /\ (cmd[d].at > 0 => cmd'[d].began = cmd[d].began)
         /\ \/ cmd'[d].at = cmd[d].at
            \/ cmd'[d].at = cmd[d].at + 1 /\ (cmd[d].at = 0 \/ \E s : At(d, s) /\ s \notin {"write", "run"})

LEMMA RestsKeeps ==
    ASSUME LaunchTypeOK, NEW d \in Commands, Rests(d)
    PROVE  /\ BuiltDev(d)' <=> BuiltDev(d)
           /\ BuiltDev(d) => /\ cmd'[d].began = cmd[d].began
                             /\ cmd'[d].at > Len(Plan(cmd'[d].kind)) <=> cmd[d].at > Len(Plan(cmd[d].kind))
<1>1. CASE cmd[d].kind \notin {"dev", "forward"}
    BY <1>1 DEF BuiltDev, Rests
<1>2. CASE cmd[d].kind \in {"dev", "forward"}
    <2>1. TemplAt(cmd[d].kind) \in {2, 4} /\ cmd[d].at \in 0..10 /\ "dev" \in Kinds /\ "forward" \in Kinds
        BY <1>2, LaunchTypes DEF TemplAt, Kinds
    <2>2. \A k \in {"dev", "forward"} : Len(Plan(k)) = TemplAt(k) + 3
        BY PlanSteps
    <2>3. Len(Plan(cmd[d].kind)) = TemplAt(cmd[d].kind) + 3
        BY <1>2, <2>2, Zenon
    <2>4. \/ cmd'[d].at = cmd[d].at
          \/ cmd'[d].at = cmd[d].at + 1 /\ cmd[d].at < TemplAt(cmd[d].kind) + 2
        BY <1>2, <2>1, AtPlace DEF Rests
    <2>5. PICK n \in {2, 4} : n = TemplAt(cmd[d].kind) /\ Len(Plan(cmd[d].kind)) = n + 3
        BY <2>1, <2>3
    <2>6. cmd'[d].kind = cmd[d].kind
        BY DEF Rests
    <2>7. /\ (cmd'[d].at >= n + 3 <=> cmd[d].at >= n + 3)
          /\ (cmd'[d].at > n + 3 <=> cmd[d].at > n + 3)
          /\ (cmd[d].at >= n + 3 => cmd[d].at > 0)
        BY <2>1, <2>4, <2>5
    <2> QED
        BY <1>2, <2>5, <2>6, <2>7 DEF BuiltDev, Rests
<1> QED
    BY <1>1, <1>2

LEMMA OneBuiltStays ==
    ASSUME NEW v, OneBuilt(v), \A d \in Commands : BuiltDev(d) => BuiltDev(d)' /\ cmd'[d].began = cmd[d].began
    PROVE  \E d \in Commands : BuiltDev(d)' /\ v["go"] >= cmd'[d].began["go"] /\ v["views"] >= cmd'[d].began["views"]
<1>1. PICK d \in Commands : BuiltDev(d) /\ NoOlder(v, d)
    BY DEF OneBuilt
<1> QED
    BY <1>1 DEF NoOlder

\* While no binary is written or run, the binaries are of whom they were.
LEMMA DevKept ==
    ASSUME LaunchTypeOK, BinaryInv, out'.dev = out.dev, \A d \in Commands : Rests(d)
    PROVE  BinaryInv'
<1>1. \A d \in Commands : BuiltDev(d) => BuiltDev(d)' /\ cmd'[d].began = cmd[d].began
    BY RestsKeeps
<1> SUFFICES ASSUME NEW c \in Commands, BuiltDev(c)'
             PROVE  OneBuilt(out.dev)' /\ (cmd'[c].at > Len(Plan(cmd'[c].kind)) => OneBuilt(cmd[c].ran)')
    BY DEF BinaryInv
<1>2. BuiltDev(c) /\ (cmd'[c].at > Len(Plan(cmd'[c].kind)) <=> cmd[c].at > Len(Plan(cmd[c].kind)))
      /\ cmd'[c].ran = cmd[c].ran
    BY RestsKeeps DEF Rests, BuiltDev
<1>3. OneBuilt(out.dev) /\ (cmd[c].at > Len(Plan(cmd[c].kind)) => OneBuilt(cmd[c].ran))
    BY <1>2 DEF BinaryInv
<1> QED
    BY <1>1, <1>2, <1>3, OneBuiltStays DEF OneBuilt, NoOlder

\* A command becomes k, which has built and run what it had.
Same(c, k) ==
    /\ k.kind = cmd[c].kind /\ k.began = cmd[c].began /\ k.read = cmd[c].read /\ k.ran = cmd[c].ran
    /\ k.crossed = cmd[c].crossed /\ k.state \in {cmd[c].state, "failed"}

Quiet(c, k) == cmd' = [cmd EXCEPT ![c] = k] /\ Same(c, k)

\* The command goes on, after a step that neither builds nor runs, or stays.
Goes(c, k) ==
    \/ k.at = cmd[c].at
    \/ \E s : /\ k.at = cmd[c].at + 1 /\ At(c, s) /\ s \notin {"templ", "read", "write", "run"}
              /\ s = "bundle" => ~conf.vite
              /\ s = "fill" /\ conf.vite => k.crossed \/ out'.dist = k.read["web"]

LEMMA QuietStep ==
    ASSUME LaunchInv, NEW c \in Commands, NEW k \in Cmd, Quiet(c, k), Goes(c, k), UNCHANGED <<conf, ver>>,
           world' \in World, taken' \subseteq 1..MaxPort, out' \in Out, out'.dev = out.dev,
           out'.gen = out.gen, out'.dist = out.dist
    PROVE  LaunchInv'
<1>0. LaunchTypeOK /\ BinaryInv /\ out.gen <= ver["views"]
    BY DEF LaunchInv
<1>1. out'.gen \in Nat /\ out.gen <= out'.gen
    BY <1>0, LaunchTypes
<1>2. cmd'[c] = k /\ cmd' \in [Commands -> Cmd] /\ \A d \in Commands : d # c => cmd'[d] = cmd[d]
    BY <1>0 DEF Quiet, LaunchTypeOK
<1>3. LaunchTypeOK'
    BY <1>0, <1>2 DEF LaunchTypeOK
<1>4. \A x \in Parts : ver'[x] \in Nat /\ ver[x] <= ver'[x]
    BY <1>0, LaunchTypes
<1>5. UpToDate(c)'
    BY <1>0, <1>1, <1>2, <1>4, StaysFresh DEF Quiet, Same, Goes
<1>6. ASSUME NEW d \in Commands, d # c PROVE UpToDate(d)'
    <2>1. cmd[d] \in Cmd /\ cmd'[d] = cmd[d]
        BY <1>0, <1>2, <1>6, LaunchTypes
    <2> QED
        BY <1>0, <1>1, <1>4, <2>1, StaysFresh
<1>7. BinaryInv'
    <2>1. Rests(c)
        BY <1>2 DEF Quiet, Same, Goes, Rests
    <2>2. \A d \in Commands : d # c => Rests(d)
        BY <1>2 DEF Rests
    <2> QED
        BY <1>0, <2>1, <2>2, DevKept
<1> QED
    BY <1>0, <1>3, <1>5, <1>6, <1>7 DEF LaunchInv

LEMMA OnEffect ==
    ASSUME LaunchTypeOK, NEW c \in Commands, NEW s, At(c, s), On(c)
    PROVE  \E k \in Cmd : Quiet(c, k) /\ k.at = cmd[c].at + 1
<1>1. PICK o \in Cmd : o = cmd[c] /\ o.at + 1 \in 0..10
    BY LaunchTypes, AtPlace
<1> DEFINE k == [o EXCEPT !.at = o.at + 1, !.waits = FALSE]
<1>2. cmd' = [cmd EXCEPT ![c] = k]
    BY <1>1 DEF On, LaunchTypeOK, Cmd
<1>3. k \in Cmd /\ k.at = o.at + 1 /\ k.kind = o.kind /\ k.began = o.began /\ k.read = o.read /\ k.ran = o.ran
      /\ k.crossed = o.crossed /\ k.state = o.state
    BY <1>1 DEF Cmd
<1> HIDE DEF k
<1> QED
    BY <1>1, <1>2, <1>3 DEF Quiet, Same

LEMMA FailEffect ==
    ASSUME LaunchTypeOK, NEW c \in Commands, Fail(c)
    PROVE  \E k \in Cmd : Quiet(c, k) /\ k.at = cmd[c].at
<1>1. PICK o \in Cmd : o = cmd[c]
    BY LaunchTypes
<1> DEFINE k == [o EXCEPT !.state = "failed"]
<1>2. cmd' = [cmd EXCEPT ![c] = k]
    BY <1>1 DEF Fail, LaunchTypeOK, Cmd
<1>3. k \in Cmd /\ k.at = o.at /\ k.kind = o.kind /\ k.began = o.began /\ k.read = o.read /\ k.ran = o.ran
      /\ k.crossed = o.crossed /\ k.state = "failed"
    BY DEF Cmd
<1> HIDE DEF k
<1> QED
    BY <1>1, <1>2, <1>3 DEF Quiet, Same

\* A command that does nothing but go on or fail.
LEMMA PlainStep ==
    ASSUME LaunchInv, NEW c \in Commands, NEW s, At(c, s), s \notin {"templ", "read", "write", "run"},
           s \in {"bundle", "fill"} => ~conf.vite, On(c) \/ Fail(c), UNCHANGED <<conf, ver>>,
           world' \in World, taken' \subseteq 1..MaxPort, out' \in Out, out'.dev = out.dev,
           out'.gen = out.gen, out'.dist = out.dist
    PROVE  LaunchInv'
<1>1. LaunchTypeOK
    BY DEF LaunchInv
<1>2. PICK k \in Cmd : Quiet(c, k) /\ Goes(c, k)
    BY <1>1, OnEffect, FailEffect DEF Goes
<1> QED
    BY <1>2, QuietStep

\* A command that fails, whatever it was at.
LEMMA FailStep ==
    ASSUME LaunchInv, NEW c \in Commands, Fail(c), UNCHANGED <<conf, ver, out>>, world' \in World,
           taken' \subseteq 1..MaxPort
    PROVE  LaunchInv'
<1>1. LaunchTypeOK /\ out' \in Out
    BY LaunchTypes DEF LaunchInv
<1>2. PICK k \in Cmd : Quiet(c, k) /\ Goes(c, k)
    BY <1>1, FailEffect DEF Goes
<1> QED
    BY <1>1, <1>2, QuietStep

\* A command that changes what is in dist: whoever fills it, or has filled it and not
\* embedded it yet, is crossed.
LEMMA CrossStep ==
    ASSUME LaunchInv, NEW c \in Commands, NEW k \in Cmd, cmd' = Crosses(c, k), Same(c, k), Goes(c, k),
           k.at \in 6..8 => k.crossed \/ out'.dist = k.read["web"], UNCHANGED <<conf, world, taken, ver>>,
           out' \in Out, out'.dev = out.dev, out'.gen = out.gen
    PROVE  LaunchInv'
<1>0. LaunchTypeOK /\ BinaryInv /\ out.gen <= ver["views"]
    BY DEF LaunchInv
<1>1. out'.gen \in Nat /\ out.gen <= out'.gen
    BY <1>0, LaunchTypes
<1>2. cmd'[c] = k
    BY DEF Crosses
<1>3. ASSUME NEW d \in Commands, d # c
      PROVE  \E j \in Cmd : /\ cmd'[d] = j /\ j.kind = cmd[d].kind /\ j.began = cmd[d].began
                            /\ j.read = cmd[d].read /\ j.ran = cmd[d].ran /\ j.state = cmd[d].state
                            /\ j.at = cmd[d].at /\ (cmd[d].crossed => j.crossed)
                            /\ Embedding(d) => j.crossed
    <2>1. PICK q \in Cmd : q = cmd[d]
        BY <1>0, LaunchTypes
    <2>2. CASE Embedding(d)
        <3> DEFINE j == [q EXCEPT !.crossed = TRUE]
        <3>1. cmd'[d] = j
            BY <1>3, <2>1, <2>2 DEF Crosses
        <3>2. j \in Cmd /\ j.kind = q.kind /\ j.began = q.began /\ j.read = q.read /\ j.ran = q.ran
              /\ j.state = q.state /\ j.at = q.at /\ j.crossed
            BY DEF Cmd
        <3> HIDE DEF j
        <3> QED
            BY <2>1, <3>1, <3>2
    <2>3. CASE ~Embedding(d)
        <3>1. cmd'[d] = q
            BY <1>3, <2>1, <2>3 DEF Crosses
        <3> QED
            BY <2>1, <2>3, <3>1
    <2> QED
        BY <2>2, <2>3
<1>4. cmd' \in [Commands -> Cmd]
    <2>1. \A d \in Commands : cmd'[d] \in Cmd
        BY <1>2, <1>3
    <2>2. cmd' = [d \in Commands |-> cmd'[d]]
        BY DEF Crosses
    <2> QED
        BY <2>1, <2>2
<1>5. LaunchTypeOK'
    BY <1>0, <1>4 DEF LaunchTypeOK
<1>6. \A x \in Parts : ver'[x] \in Nat /\ ver[x] <= ver'[x]
    BY <1>0, LaunchTypes
<1>7. UpToDate(c)'
    BY <1>0, <1>1, <1>2, <1>6, StaysFresh DEF Same, Goes
<1>8. ASSUME NEW d \in Commands, d # c PROVE UpToDate(d)'
    <2>1. PICK j \in Cmd : /\ cmd'[d] = j /\ j.kind = cmd[d].kind /\ j.began = cmd[d].began
                           /\ j.read = cmd[d].read /\ j.ran = cmd[d].ran /\ j.state = cmd[d].state
                           /\ j.at = cmd[d].at /\ (cmd[d].crossed => j.crossed)
                           /\ Embedding(d) => j.crossed
        BY <1>3, <1>8
    <2>2. j.kind = "build" /\ j.state = "on" /\ j.at \in 6..8 => j.crossed
        BY <1>0, <2>1, FilledIsEmbedding
    <2> QED
        BY <1>0, <1>1, <1>6, <2>1, <2>2, StaysFresh
<1>9. BinaryInv'
    <2>1. Rests(c)
        BY <1>2 DEF Same, Goes, Rests
    <2>2. \A d \in Commands : d # c => Rests(d)
        BY <1>3 DEF Rests
    <2> QED
        BY <1>0, <2>1, <2>2, DevKept
<1> QED
    BY <1>0, <1>5, <1>7, <1>8, <1>9 DEF LaunchInv

LEMMA LeastOf ==
    ASSUME NEW S \in SUBSET Nat, S # {}
    PROVE  Min(S) \in S /\ \A y \in S : Min(S) <= y
<1> DEFINE R == {p \in Nat \X Nat : p[1] < p[2]}
<1>1. IsWellFoundedOn(R, Nat)
    BY NatLessThanWellFounded, Zenon DEF OpToRel
<1>2. \A y, x \in S : y < x => <<y, x>> \in R
    OBVIOUS
<1> HIDE DEF R
<1>3. PICK x \in S : \A y \in S : ~(<<y, x>> \in R)
    BY <1>1, WFMin, Zenon
<1>4. \A y \in S : ~(y < x)
    BY <1>2, <1>3
<1>5. \A y \in S : x <= y
    BY <1>4
<1> QED
    BY <1>5 DEF Min

\* The scans find a port there is, or none.
LEMMA PortsFound ==
    /\ resolveDevAddr(AppPort) \in 0..MaxPort \cup {NoPort}
    /\ freePort(VitePort) \in 1..MaxPort \cup {NoPort}
<1> USE LaunchAssumption
<1>1. ASSUME NEW l \in Nat \ {0}, NEW h \in Nat, Free(l, h) # {}
      PROVE  Min(Free(l, h)) \in 1..MaxPort
    <2>1. Min({h, MaxPort}) \in Nat /\ Min({h, MaxPort}) <= MaxPort
        BY LeastOf
    <2>2. Free(l, h) \subseteq 1..MaxPort
        BY <2>1 DEF Free
    <2> QED
        BY <1>1, <2>2, LeastOf
<1>2. resolveDevAddr(AppPort) \in 0..MaxPort \cup {NoPort}
    <2>1. AppPort + 1 \in Nat \ {0} /\ AppPort + ScanLimit \in Nat /\ AppPort \in 0..MaxPort
        OBVIOUS
    <2>2. Free(AppPort + 1, AppPort + ScanLimit) # {} => Min(Free(AppPort + 1, AppPort + ScanLimit)) \in 0..MaxPort
        BY <1>1, <2>1
    <2> QED
        BY <2>1, <2>2 DEF resolveDevAddr
<1>3. freePort(VitePort) \in 1..MaxPort \cup {NoPort}
    <2>1. VitePort \in Nat \ {0} /\ VitePort + ScanLimit - 1 \in Nat
        OBVIOUS
    <2> QED
        BY <1>1, <2>1 DEF freePort
<1> QED
    BY <1>2, <1>3

LEMMA LaunchInitInv == LaunchInit => LaunchInv
<1> USE LaunchAssumption, ScenesAssumption
<1> SUFFICES ASSUME LaunchInit PROVE LaunchInv
    OBVIOUS
<1>1. conf \in Config /\ world \in World /\ taken \subseteq 1..MaxPort
    <2>1. PICK s \in Scenes : conf = s.conf /\ world = s.world /\ taken = s.taken
        BY DEF LaunchInit
    <2>2. s \in [conf: Config, world: World, taken: SUBSET (1..MaxPort)]
        BY <2>1
    <2> HIDE ScenesAssumption
    <2> QED
        BY <2>1, <2>2
<1>2. NoVersion \in Versions /\ NoVersion \in Binaries /\ ver = NoVersion /\ \A x \in Parts : NoVersion[x] = 0
    BY DEF NoVersion, Versions, Binaries, Dists, Parts, LaunchInit
<1>3. out \in Out /\ out.gen = 0
    BY <1>2 DEF LaunchInit, Out, Dists
<1>4. PICK k \in [Commands -> Kinds] :
         cmd = [c \in Commands |-> [kind |-> k[c], at |-> 0, state |-> "on", waits |-> FALSE, addr |-> NoPort,
                                    began |-> NoVersion, read |-> NoVersion, ran |-> NoVersion, crossed |-> FALSE]]
    BY DEF LaunchInit, Kinds
<1>5. ASSUME NEW c \in Commands
      PROVE  cmd[c] \in Cmd /\ cmd[c].at = 0 /\ cmd[c].began = NoVersion
    <2>1. PICK kind \in Kinds : kind = k[c]
        OBVIOUS
    <2>2. cmd[c] = [kind |-> kind, at |-> 0, state |-> "on", waits |-> FALSE, addr |-> NoPort,
                    began |-> NoVersion, read |-> NoVersion, ran |-> NoVersion, crossed |-> FALSE]
        BY <1>4, <2>1
    <2> QED
        BY <1>2, <2>2 DEF Cmd
<1>6. cmd \in [Commands -> Cmd]
    BY <1>4, <1>5
<1>7. LaunchTypeOK
    BY <1>1, <1>2, <1>3, <1>6 DEF LaunchTypeOK
<1>8. ASSUME NEW c \in Commands PROVE UpToDate(c)
    <2>1. TemplAt(cmd[c].kind) \in {2, 4, 7, 11}
        BY DEF TemplAt
    <2> QED
        BY <1>2, <1>5, <2>1 DEF UpToDate
<1>9. out.gen <= ver["views"]
    BY <1>2, <1>3 DEF Parts
<1>10. ASSUME NEW c \in Commands PROVE ~BuiltDev(c)
    <2>1. cmd[c].kind \in Kinds
        BY <1>7, LaunchTypes
    <2>2. PICK n \in 1..9 : n = Len(Plan(cmd[c].kind))
        BY <2>1, PlanSteps
    <2>3. ~(cmd[c].at >= n)
        BY <1>5
    <2> QED
        BY <2>2, <2>3 DEF BuiltDev
<1> QED
    BY <1>7, <1>8, <1>9, <1>10 DEF LaunchInv, BinaryInv

\* The steps that build and run: command c becomes k, and the others stay.
LEMMA Together ==
    ASSUME LaunchInv, NEW c \in Commands, NEW k \in Cmd, cmd' = [cmd EXCEPT ![c] = k],
           UNCHANGED <<conf, ver, world, taken>>, out' \in Out, out'.dev = out.dev, out.gen <= out'.gen,
           out'.gen <= ver["views"], out'.dist = out.dist, UpToDate(c)', BinaryInv'
    PROVE  LaunchInv'
<1>0. LaunchTypeOK
    BY DEF LaunchInv
<1>1. out'.gen \in Nat
    BY LaunchAssumption DEF Out
<1>2. cmd' \in [Commands -> Cmd] /\ \A d \in Commands : d # c => cmd'[d] = cmd[d]
    BY <1>0 DEF LaunchTypeOK
<1>3. LaunchTypeOK'
    BY <1>0, <1>2 DEF LaunchTypeOK
<1>4. \A x \in Parts : ver'[x] \in Nat /\ ver[x] <= ver'[x]
    BY <1>0, LaunchTypes
<1>5. ASSUME NEW d \in Commands, d # c PROVE UpToDate(d)'
    <2>1. cmd[d] \in Cmd /\ cmd'[d] = cmd[d]
        BY <1>0, <1>2, <1>5, LaunchTypes
    <2> QED
        BY <1>0, <1>1, <1>4, <2>1, StaysFresh
<1> QED
    BY <1>0, <1>3, <1>5 DEF LaunchInv

LEMMA LaunchedStep ==
    ASSUME LaunchInv, NEW c \in Commands, Launched(c)
    PROVE  LaunchInv'
<1>0. LaunchTypeOK /\ BinaryInv /\ out.gen <= ver["views"]
    BY DEF LaunchInv
<1>1. PICK o \in Cmd : o = cmd[c] /\ o.at = 0
    BY <1>0, LaunchTypes DEF Launched
<1>1a. PICK b \in Versions : b = ver
    BY <1>0 DEF LaunchTypeOK
<1>1b. PICK n \in 0..10 : n = 1
    OBVIOUS
<1> DEFINE k == [o EXCEPT !.at = n, !.began = b]
<1>2. k \in Cmd /\ k.at = 1 /\ k.began = ver /\ k.kind = o.kind /\ k.ran = o.ran
    BY <1>1a, <1>1b DEF Cmd
<1>3. cmd' = [cmd EXCEPT ![c] = k] /\ UNCHANGED <<conf, world, taken, ver, out>>
    BY <1>0, <1>1, <1>1a, <1>1b DEF Launched, LaunchTypeOK, Cmd
<1> HIDE DEF k
<1>4. cmd'[c] = k
    BY <1>0, <1>3 DEF LaunchTypeOK
<1>5. UpToDate(c)'
    <2>1. TemplAt(k.kind) \in {2, 4, 7, 11}
        BY DEF TemplAt
    <2>2. \A x \in Parts : ver[x] <= ver'[x]
        BY <1>0, <1>3, LaunchTypes
    <2> QED
        BY <1>2, <1>3, <1>4, <2>1, <2>2 DEF UpToDate
<1>6. out' \in Out /\ out'.dev = out.dev /\ out.gen <= out'.gen /\ out'.gen <= ver["views"] /\ out'.dist = out.dist
    BY <1>0, <1>3, LaunchTypes
<1>7. \A d \in Commands : Rests(d)
    <2>1. \A d \in Commands : d # c => cmd'[d] = cmd[d]
        BY <1>0, <1>3 DEF LaunchTypeOK
    <2> QED
        BY <1>1, <1>2, <1>4, <2>1 DEF Rests
<1>8. BinaryInv'
    BY <1>0, <1>6, <1>7, DevKept
<1> QED
    BY <1>2, <1>3, <1>5, <1>6, <1>8, Together

LEMMA TemplStep ==
    ASSUME LaunchInv, NEW c \in Commands, RunTempl(c)
    PROVE  LaunchInv'
<1>0. LaunchTypeOK /\ BinaryInv /\ UpToDate(c) /\ out.gen <= ver["views"] /\ world \in World /\ taken \subseteq 1..MaxPort
    BY DEF LaunchInv, LaunchTypeOK
<1>1. At(c, "templ") /\ UNCHANGED <<conf, world, taken, ver>>
    BY DEF RunTempl
<1>2. CASE Fail(c) /\ UNCHANGED out
    BY <1>0, <1>1, <1>2, FailStep
<1>3. CASE On(c) /\ out' = [out EXCEPT !.gen = ver["views"]]
    <2>1. PICK k \in Cmd : Quiet(c, k) /\ k.at = cmd[c].at + 1
        BY <1>0, <1>1, <1>3, OnEffect
    <2>2. out' \in Out /\ out'.gen = ver["views"] /\ out'.dev = out.dev /\ out'.dist = out.dist
        BY <1>0, <1>3 DEF LaunchTypeOK, Out, Versions, Parts
    <2>3. cmd'[c] = k /\ cmd' = [cmd EXCEPT ![c] = k]
        BY <1>0, <2>1 DEF Quiet, LaunchTypeOK
    <2>4. cmd[c].at = TemplAt(cmd[c].kind) /\ cmd[c].kind # "start" /\ cmd[c].kind \in Kinds
        BY <1>0, <1>1, AtPlace, LaunchTypes
    <2>5. UpToDate(c)'
        <3>1. TemplAt(k.kind) \in {2, 4, 7} /\ k.at = TemplAt(k.kind) + 1
              /\ (k.kind = "build" => TemplAt(k.kind) = 7)
            BY <2>1, <2>4 DEF TemplAt, Quiet, Same, Kinds
        <3>2. \A x \in Parts : k.began[x] <= ver'[x]
            BY <1>0, <1>1, <2>1 DEF UpToDate, Quiet, Same
        <3>3. /\ Embeds(c)' = Embeds(c)
              /\ Embeds(c) => k.at = 8 /\ k.read["web"] \in k.began["web"]..MaxVersion
              /\ Embeds(c) /\ ~k.crossed => out'.dist = k.read["web"]
            <4>1. Embeds(c) => cmd[c].at = 7 /\ cmd[c].state = "on"
                BY <1>0, <1>1, <2>4, AtPlace DEF Embeds, TemplAt
            <4> QED
                BY <1>0, <1>1, <2>1, <2>2, <2>3, <4>1 DEF UpToDate, Embeds, Quiet, Same
        <3>4. k.began["views"] <= out'.gen
            BY <1>1, <2>2, <3>2 DEF Parts
        <3> QED
            BY <2>3, <3>1, <3>2, <3>3, <3>4 DEF UpToDate
    <2>6. out.gen <= out'.gen /\ out'.gen <= ver["views"]
        BY <1>0, <2>2, LaunchTypes DEF Parts
    <2>7. \A d \in Commands : Rests(d)
        <3>1. \A d \in Commands : d # c => cmd'[d] = cmd[d]
            BY <1>0, <2>3 DEF LaunchTypeOK
        <3> QED
            BY <1>1, <2>1, <2>3, <3>1 DEF Rests, Quiet, Same
    <2>8. BinaryInv'
        BY <1>0, <2>2, <2>7, DevKept
    <2> QED
        BY <1>0, <1>1, <2>2, <2>3, <2>5, <2>6, <2>8, Together
<1> QED
    BY <1>2, <1>3 DEF RunTempl

LEMMA ReadsStep ==
    ASSUME LaunchInv, NEW c \in Commands, GoReads(c)
    PROVE  LaunchInv'
<1>0. /\ LaunchTypeOK /\ BinaryInv /\ UpToDate(c) /\ out.gen <= ver["views"] /\ world \in World /\ taken \subseteq 1..MaxPort
      /\ out \in Out /\ ver \in Versions
    BY DEF LaunchInv, LaunchTypeOK
<1>1. At(c, "read") /\ UNCHANGED <<conf, world, taken, ver, out>>
    BY DEF GoReads
<1>2. CASE Fail(c)
    BY <1>0, <1>1, <1>2, FailStep
<1>3. CASE cmd' = [cmd EXCEPT ![c].at = @ + 1, ![c].read = [ver EXCEPT !["views"] = out.gen, !["web"] = out.dist]]
    <2>1. PICK r \in Binaries : r = [ver EXCEPT !["views"] = out.gen, !["web"] = out.dist]
        BY <1>0 DEF Versions, Out, Binaries, Dists, Parts
    <2>2. r["go"] = ver["go"] /\ r["views"] = out.gen /\ r["web"] = out.dist
        BY <1>0, <2>1 DEF Versions, Parts
    <2>3. PICK o \in Cmd : o = cmd[c] /\ o.at + 1 \in 0..10
        BY <1>0, <1>1, LaunchTypes, AtPlace
    <2> DEFINE k == [o EXCEPT !.at = o.at + 1, !.read = r]
    <2>4. k \in Cmd /\ k.at = o.at + 1 /\ k.read = r /\ k.began = o.began /\ k.kind = o.kind
          /\ k.ran = o.ran /\ k.crossed = o.crossed
        BY <2>3 DEF Cmd
    <2>5. cmd' = [cmd EXCEPT ![c] = k]
        BY <1>0, <1>3, <2>1, <2>3 DEF LaunchTypeOK, Cmd
    <2> HIDE DEF k
    <2>6. cmd'[c] = k
        BY <1>0, <2>5 DEF LaunchTypeOK
    <2>7. o.at = TemplAt(o.kind) + 1 /\ o.kind # "start" /\ o.kind \in Kinds
        BY <1>0, <1>1, <2>3, AtPlace, LaunchTypes
    <2>8. TemplAt(k.kind) \in {2, 4, 7} /\ k.at = TemplAt(k.kind) + 2 /\ (k.kind = "build" => TemplAt(k.kind) = 7)
          /\ o.at = TemplAt(o.kind) + 1 /\ TemplAt(o.kind) \in {2, 4, 7}
        BY <2>4, <2>7 DEF TemplAt, Kinds
    <2>9. \A x \in Parts : k.began[x] <= ver'[x]
        BY <1>0, <1>1, <2>3, <2>4 DEF UpToDate
    <2>10. /\ Embeds(c)' = Embeds(c)
           /\ k.kind = "build" => k.at = 9
           /\ Embeds(c) /\ ~k.crossed => k.read["web"] \in k.began["web"]..MaxVersion
        <3>1. Embeds(c) => o.at = 8 /\ o.state = "on"
            BY <1>0, <1>1, <2>3, <2>8, AtPlace DEF Embeds, TemplAt
        <3>2. k.kind = "build" => k.at = 9
            BY <2>8
        <3> QED
            BY <1>0, <1>1, <2>2, <2>3, <2>4, <2>6, <3>1, <3>2 DEF UpToDate, Embeds
    <2>11. k.began["views"] <= out.gen
        BY <1>0, <2>3, <2>4, <2>8 DEF UpToDate
    <2>12. NoOlder(k.read, c)'
        <3>1. k.began["go"] <= ver["go"] /\ "go" \in Parts /\ "views" \in Parts
            BY <1>1, <2>9 DEF Parts
        <3>2. \A x \in Parts : k.began[x] \in Nat /\ ver[x] \in Nat
            BY <1>0, <2>3, <2>4, LaunchTypes
        <3>3. r["go"] >= k.began["go"] /\ r["views"] >= k.began["views"]
            BY <1>0, <2>2, <2>11, <3>1, <3>2, LaunchTypes
        <3> QED
            BY <2>4, <2>6, <3>3 DEF NoOlder
    <2>13. UpToDate(c)'
        <3>1. k.at > TemplAt(k.kind) /\ k.at > TemplAt(k.kind) + 1 /\ k.at # TemplAt(k.kind) + 3
              /\ ~(k.at > TemplAt(k.kind) + 3)
            BY <2>8
        <3>2. k.kind = "build" => k.at \notin 4..8 /\ k.at \notin 6..8 /\ ~(k.at > 9)
            BY <2>10
        <3>3. k.began["views"] <= out'.gen /\ (Embeds(c)' => k.kind = "build")
            BY <1>1, <2>6, <2>11 DEF Embeds
        <3> QED
            BY <2>6, <2>9, <2>10, <2>12, <3>1, <3>2, <3>3 DEF UpToDate, NoOlder
    <2>14. out' \in Out /\ out'.dev = out.dev /\ out.gen <= out'.gen /\ out'.gen <= ver["views"] /\ out'.dist = out.dist
        BY <1>0, <1>1, LaunchTypes
    <2>15. \A d \in Commands : Rests(d)
        <3>1. \A d \in Commands : d # c => cmd'[d] = cmd[d]
            BY <1>0, <2>5 DEF LaunchTypeOK
        <3> QED
            BY <1>1, <2>3, <2>4, <2>6, <3>1 DEF Rests
    <2>16. BinaryInv'
        BY <1>0, <2>14, <2>15, DevKept
    <2> QED
        BY <1>1, <2>4, <2>5, <2>13, <2>14, <2>16, Together
<1> QED
    BY <1>2, <1>3 DEF GoReads

LEMMA WritesStep ==
    ASSUME LaunchInv, NEW c \in Commands, GoWrites(c)
    PROVE  LaunchInv'
<1>0. /\ LaunchTypeOK /\ BinaryInv /\ UpToDate(c) /\ out \in Out /\ cmd \in [Commands -> Cmd]
      /\ out.gen <= ver["views"]
    BY DEF LaunchInv, LaunchTypeOK
<1>1. /\ At(c, "write") /\ UNCHANGED <<conf, world, taken, ver>>
      /\ out' = IF cmd[c].kind = "build" THEN [out EXCEPT !.release = cmd[c].read, !.released = TRUE]
                ELSE [out EXCEPT !.dev = cmd[c].read]
      /\ cmd' = [d \in Commands |->
                   IF d = c THEN [cmd[c] EXCEPT !.at = cmd[c].at + 1, !.ran = cmd[c].read]
                   ELSE IF At(d, "run") /\ cmd[c].kind # "build" THEN [cmd[d] EXCEPT !.crossed = TRUE] ELSE cmd[d]]
    BY DEF GoWrites
<1>2. PICK o \in Cmd, r \in Binaries : o = cmd[c] /\ r = o.read /\ o.at + 1 \in 0..10
    BY <1>0, <1>1, LaunchTypes, AtPlace
<1> DEFINE k == [o EXCEPT !.at = o.at + 1, !.ran = r]
<1>3. k \in Cmd /\ k.at = o.at + 1 /\ k.ran = r /\ k.read = r /\ k.began = o.began /\ k.kind = o.kind
      /\ k.crossed = o.crossed
    BY <1>2 DEF Cmd
<1>4. cmd'[c] = k
    BY <1>1, <1>2
<1> HIDE DEF k
<1>5. /\ out' \in Out /\ out'.gen = out.gen /\ out'.dist = out.dist
      /\ o.kind # "build" => out'.dev = r
      /\ o.kind = "build" => out'.dev = out.dev
    <2>1. CASE o.kind = "build"
        BY <1>0, <1>1, <1>2, <2>1 DEF Out
    <2>2. CASE o.kind # "build"
        BY <1>0, <1>1, <1>2, <2>2 DEF Out
    <2> QED
        BY <2>1, <2>2
<1>6. ASSUME NEW d \in Commands, d # c
      PROVE  \E j \in Cmd : /\ cmd'[d] = j /\ j.kind = cmd[d].kind /\ j.began = cmd[d].began
                            /\ j.read = cmd[d].read /\ j.ran = cmd[d].ran /\ j.state = cmd[d].state
                            /\ j.at = cmd[d].at /\ (cmd[d].crossed => j.crossed)
                            /\ At(d, "run") /\ o.kind # "build" => j.crossed
    <2>1. PICK q \in Cmd : q = cmd[d]
        BY <1>0
    <2>2. CASE At(d, "run") /\ o.kind # "build"
        <3> DEFINE j == [q EXCEPT !.crossed = TRUE]
        <3>1. cmd'[d] = j
            BY <1>1, <1>2, <1>6, <2>1, <2>2
        <3>2. j \in Cmd /\ j.kind = q.kind /\ j.began = q.began /\ j.read = q.read /\ j.ran = q.ran
              /\ j.state = q.state /\ j.at = q.at /\ j.crossed
            BY DEF Cmd
        <3> HIDE DEF j
        <3> QED
            BY <2>1, <3>1, <3>2
    <2>3. CASE ~(At(d, "run") /\ o.kind # "build")
        <3>1. cmd'[d] = q
            BY <1>1, <1>2, <1>6, <2>1, <2>3
        <3> QED
            BY <2>1, <2>3, <3>1
    <2> QED
        BY <2>2, <2>3
<1>7. cmd' \in [Commands -> Cmd]
    <2>1. \A d \in Commands : cmd'[d] \in Cmd
        BY <1>3, <1>4, <1>6
    <2>2. cmd' = [d \in Commands |-> cmd'[d]]
        BY <1>1
    <2> QED
        BY <2>1, <2>2
<1>8. LaunchTypeOK'
    BY <1>0, <1>1, <1>5, <1>7 DEF LaunchTypeOK
<1>9. o.at = TemplAt(o.kind) + 2 /\ o.kind # "start" /\ o.kind \in Kinds
    BY <1>0, <1>1, <1>2, AtPlace, LaunchTypes
<1>10. UpToDate(c)'
    <2>1. /\ TemplAt(k.kind) \in {2, 4, 7} /\ k.at = TemplAt(k.kind) + 3 /\ (k.kind = "build" => TemplAt(k.kind) = 7)
          /\ o.at = TemplAt(o.kind) + 2 /\ TemplAt(o.kind) \in {2, 4, 7}
        BY <1>3, <1>9 DEF TemplAt, Kinds
    <2>2. \A x \in Parts : k.began[x] <= ver'[x]
        BY <1>0, <1>1, <1>2, <1>3 DEF UpToDate
    <2>3. /\ Embeds(c)' = Embeds(c)
          /\ k.kind = "build" => k.at = 10
          /\ Embeds(c) /\ ~k.crossed => k.read["web"] \in k.began["web"]..MaxVersion
        <3>1. (k.kind = "build" => k.at = 10) /\ (Embeds(c) => o.at = 9)
            BY <1>2, <2>1 DEF Embeds, TemplAt
        <3> QED
            BY <1>0, <1>1, <1>2, <1>3, <1>4, <3>1 DEF UpToDate, Embeds
    <2>4. k.began["views"] <= out'.gen
        BY <1>0, <1>2, <1>3, <1>5, <2>1 DEF UpToDate
    <2>5. NoOlder(k.read, c)'
        BY <1>0, <1>2, <1>3, <1>4, <2>1 DEF UpToDate, NoOlder
    <2>6. k.at > TemplAt(k.kind) /\ k.at > TemplAt(k.kind) + 1 /\ ~(k.at > TemplAt(k.kind) + 3)
        BY <2>1
    <2>7. k.kind = "build" => k.at \notin 4..8 /\ k.at \notin 6..8
        BY <2>3
    <2>8. (Embeds(c)' => k.kind = "build") /\ (k.kind \in {"dev", "forward"} => out'.dev = k.read)
        BY <1>3, <1>4, <1>5 DEF Embeds
    <2> QED
        BY <1>3, <1>4, <2>2, <2>3, <2>4, <2>5, <2>6, <2>7, <2>8 DEF UpToDate, NoOlder
<1>11. ASSUME NEW d \in Commands, d # c PROVE UpToDate(d)'
    <2>1. PICK j \in Cmd : /\ cmd'[d] = j /\ j.kind = cmd[d].kind /\ j.began = cmd[d].began
                           /\ j.read = cmd[d].read /\ j.ran = cmd[d].ran /\ j.state = cmd[d].state
                           /\ j.at = cmd[d].at /\ (cmd[d].crossed => j.crossed)
                           /\ At(d, "run") /\ o.kind # "build" => j.crossed
        BY <1>6, <1>11
    <2>2. \A x \in Parts : ver'[x] \in Nat /\ ver[x] <= ver'[x]
        BY <1>0, <1>1, LaunchTypes
    <2>3. out'.gen \in Nat /\ out.gen <= out'.gen
        BY <1>0, <1>5, LaunchTypes
    <2>4. CASE j.crossed \/ out'.dev = out.dev
        BY <1>1, <1>5, <2>1, <2>2, <2>3, <2>4, StaysFresh
    <2>5. CASE ~j.crossed /\ out'.dev # out.dev
        <3>1. ~At(d, "run") /\ UpToDate(d)
            BY <1>5, <2>1, <2>5 DEF LaunchInv
        <3>2. ~(j.kind \in {"dev", "forward"} /\ j.state = "on" /\ j.at = TemplAt(j.kind) + 3)
            <4>1. ASSUME cmd[d].kind \in {"dev", "forward"}, cmd[d].state = "on", cmd[d].at = TemplAt(cmd[d].kind) + 3
                  PROVE  At(d, "run")
                <5>0. \A h \in {"dev", "forward"} : Len(Plan(h)) = TemplAt(h) + 3
                    BY PlanSteps
                <5>1. Len(Plan(cmd[d].kind)) = cmd[d].at /\ cmd[d].kind \in Kinds
                    BY <4>1, <5>0, Zenon DEF Kinds
                <5>1a. \A h \in Kinds : Len(Plan(h)) \in 1..9 /\ DOMAIN Plan(h) = 1..Len(Plan(h))
                    BY PlanSteps
                <5>1b. cmd[d].at \in 1..9 /\ DOMAIN Plan(cmd[d].kind) = 1..cmd[d].at
                    BY <5>1, <5>1a, Zenon
                <5>2. cmd[d].at \in DOMAIN Plan(cmd[d].kind)
                    BY <5>1b
                <5>3. Plan(cmd[d].kind)[cmd[d].at] = "run"
                    BY <4>1, <5>1, <5>2, PlanSteps
                <5> QED
                    BY <4>1, <5>2, <5>3 DEF At
            <4> QED
                BY <2>1, <3>1, <4>1
        <3>3. Embeds(d)' = Embeds(d)
            BY <1>1, <2>1 DEF Embeds
        <3>4. \A x \in Parts : j.began[x] <= ver'[x]
            BY <1>1, <2>1, <3>1 DEF UpToDate
        <3> QED
            BY <1>5, <2>1, <2>5, <3>1, <3>2, <3>3, <3>4 DEF UpToDate, NoOlder
    <2> QED
        BY <2>4, <2>5
<1>12. out'.gen <= ver'["views"]
    BY <1>0, <1>1, <1>5
<1>13. \A d \in Commands : d # c => Rests(d)
    BY <1>6 DEF Rests
<1>14. CASE o.kind = "build"
    <2>1. Rests(c)
        BY <1>2, <1>3, <1>4, <1>14 DEF Rests
    <2>2. BinaryInv'
        BY <1>0, <1>5, <1>13, <1>14, <2>1, DevKept
    <2> QED
        BY <1>8, <1>10, <1>11, <1>12, <2>2 DEF LaunchInv
<1>15. CASE o.kind # "build"
    <2>1. o.kind \in {"dev", "forward"}
        BY <1>9, <1>15 DEF Kinds
    <2>2. \A h \in {"dev", "forward"} : Len(Plan(h)) = TemplAt(h) + 3 /\ TemplAt(h) \in {2, 4}
        BY PlanSteps DEF TemplAt
    <2>3. PICK n \in {2, 4} : Len(Plan(o.kind)) = n + 3 /\ o.at = n + 2 /\ TemplAt(o.kind) = n
        BY <1>9, <2>1, <2>2
    <2>4. ~BuiltDev(c) /\ BuiltDev(c)' /\ ~(cmd'[c].at > Len(Plan(cmd'[c].kind)))
        <3>1. ~(o.at >= n + 3) /\ k.at >= n + 3 /\ ~(k.at > n + 3)
            BY <1>3, <2>3
        <3> QED
            BY <1>2, <1>3, <1>4, <2>1, <2>3, <3>1 DEF BuiltDev
    <2>5. NoOlder(r, c)'
        <3>1. o.at > TemplAt(o.kind) + 1
            BY <2>3
        <3>2. NoOlder(r, c)
            BY <1>0, <1>2, <3>1 DEF UpToDate
        <3> QED
            BY <1>2, <1>3, <1>4, <3>2 DEF NoOlder
    <2>6. OneBuilt(out.dev)'
        BY <1>5, <1>15, <2>4, <2>5 DEF OneBuilt, NoOlder
    <2>7. \A d \in Commands : BuiltDev(d) => BuiltDev(d)' /\ cmd'[d].began = cmd[d].began
        BY <1>0, <1>13, <2>4, RestsKeeps
    <2>8. ASSUME NEW d \in Commands, BuiltDev(d)', cmd'[d].at > Len(Plan(cmd'[d].kind))
          PROVE  OneBuilt(cmd[d].ran)'
        <3>1. d # c
            BY <2>4, <2>8
        <3>2. BuiltDev(d) /\ cmd[d].at > Len(Plan(cmd[d].kind)) /\ cmd'[d].ran = cmd[d].ran
            BY <1>0, <1>6, <1>13, <2>8, <3>1, RestsKeeps
        <3>3. OneBuilt(cmd[d].ran)
            BY <1>0, <3>2 DEF BinaryInv
        <3> QED
            BY <2>7, <3>2, <3>3, OneBuiltStays DEF OneBuilt, NoOlder
    <2>9. BinaryInv'
        BY <2>6, <2>8 DEF BinaryInv
    <2> QED
        BY <1>8, <1>10, <1>11, <1>12, <2>9 DEF LaunchInv
<1> QED
    BY <1>14, <1>15

LEMMA RunsStep ==
    ASSUME LaunchInv, NEW c \in Commands, runBinary(c)
    PROVE  LaunchInv'
<1>0. LaunchTypeOK /\ BinaryInv /\ UpToDate(c) /\ out.gen <= ver["views"] /\ out \in Out
    BY DEF LaunchInv, LaunchTypeOK
<1>1. At(c, "run") /\ UNCHANGED <<conf, world, taken, ver, out>>
    BY DEF runBinary
<1>2. PICK o \in Cmd : o = cmd[c] /\ o.at + 1 \in 0..10 /\ o.state = "on"
    BY <1>0, <1>1, LaunchTypes, AtPlace
<1>3. PICK r \in Binaries : r = IF o.kind = "start" THEN out.release ELSE out.dev
    BY <1>0 DEF Out
<1> DEFINE k == [o EXCEPT !.at = o.at + 1, !.ran = r]
<1>4. k \in Cmd /\ k.at = o.at + 1 /\ k.ran = r /\ k.read = o.read /\ k.began = o.began /\ k.kind = o.kind
      /\ k.crossed = o.crossed
    BY <1>2 DEF Cmd
<1>5. cmd' = [cmd EXCEPT ![c] = k]
    BY <1>0, <1>2, <1>3 DEF runBinary, LaunchTypeOK, Cmd
<1> HIDE DEF k
<1>6. cmd'[c] = k
    BY <1>0, <1>5 DEF LaunchTypeOK
<1>7. o.kind # "start" => o.at = TemplAt(o.kind) + 3 /\ o.kind \in {"dev", "forward"}
    BY <1>0, <1>1, <1>2, AtPlace, LaunchTypes DEF Kinds
<1>8. TemplAt(o.kind) \in {2, 4, 11} /\ (o.kind = "start" => TemplAt(o.kind) = 11)
    BY <1>7 DEF TemplAt
<1>9. o.at \in 1..9
    BY <1>0, <1>1, <1>2, AtPlace
<1>10. \A x \in Parts : k.began[x] <= ver'[x]
    BY <1>0, <1>1, <1>2, <1>4 DEF UpToDate
<1>11. Embeds(c)' = Embeds(c) /\ ~Embeds(c)
    BY <1>1, <1>2, <1>4, <1>6, <1>7 DEF Embeds
<1>12. k.at > TemplAt(k.kind) => k.began["views"] <= out.gen
    BY <1>0, <1>2, <1>4, <1>7, <1>8, <1>9 DEF UpToDate
<1>13. k.at > TemplAt(k.kind) + 1 => NoOlder(k.read, c)'
    BY <1>0, <1>2, <1>4, <1>6, <1>7, <1>8, <1>9 DEF UpToDate, NoOlder
<1>14. k.kind # "build"
    BY <1>4, <1>7
<1>15. k.kind \in {"dev", "forward"} /\ ~k.crossed => k.ran = k.read /\ k.at # TemplAt(k.kind) + 3
    BY <1>0, <1>2, <1>3, <1>4, <1>7, <1>8, <1>9 DEF UpToDate
<1>16. UpToDate(c)'
    BY <1>1, <1>6, <1>10, <1>11, <1>12, <1>13, <1>14, <1>15 DEF UpToDate
<1>17. out' \in Out /\ out'.dev = out.dev /\ out.gen <= out'.gen /\ out'.gen <= ver["views"] /\ out'.dist = out.dist
    BY <1>0, <1>1, LaunchTypes
<1>18. \A d \in Commands : d # c => cmd'[d] = cmd[d] /\ Rests(d)
    BY <1>0, <1>5 DEF LaunchTypeOK, Rests
<1>19. BinaryInv'
    <2>1. CASE o.kind = "start"
        BY <1>0, <1>2, <1>4, <1>6, <1>17, <1>18, <2>1, DevKept DEF Rests
    <2>2. CASE o.kind # "start"
        <3>1. \A h \in {"dev", "forward"} : Len(Plan(h)) = TemplAt(h) + 3
            BY PlanSteps
        <3>2. PICK n \in {2, 4} : Len(Plan(o.kind)) = n + 3 /\ o.at = n + 3 /\ TemplAt(o.kind) = n
            BY <1>7, <1>8, <2>2, <3>1 DEF TemplAt
        <3>3. BuiltDev(c) /\ BuiltDev(c)' /\ cmd'[c].began = cmd[c].began
            <4>1. o.at >= n + 3 /\ k.at >= n + 3
                BY <1>4, <3>2
            <4> QED
                BY <1>2, <1>4, <1>6, <1>7, <2>2, <3>2, <4>1 DEF BuiltDev
        <3>4. \A d \in Commands : BuiltDev(d) => BuiltDev(d)' /\ cmd'[d].began = cmd[d].began
            BY <1>0, <1>18, <3>3, RestsKeeps
        <3>5. OneBuilt(out.dev) /\ r = out.dev
            BY <1>0, <1>3, <2>2, <3>3 DEF BinaryInv
        <3>6. OneBuilt(out.dev)' /\ OneBuilt(cmd[c].ran)'
            BY <1>1, <1>4, <1>6, <3>4, <3>5, OneBuiltStays DEF OneBuilt, NoOlder
        <3>7. ASSUME NEW d \in Commands, d # c, BuiltDev(d)', cmd'[d].at > Len(Plan(cmd'[d].kind))
              PROVE  OneBuilt(cmd[d].ran)'
            <4>1. BuiltDev(d) /\ cmd[d].at > Len(Plan(cmd[d].kind)) /\ cmd'[d].ran = cmd[d].ran
                BY <1>0, <1>18, <3>7, RestsKeeps
            <4>2. OneBuilt(cmd[d].ran)
                BY <1>0, <4>1 DEF BinaryInv
            <4> QED
                BY <3>4, <4>1, <4>2, OneBuiltStays DEF OneBuilt, NoOlder
        <3> QED
            BY <3>6, <3>7 DEF BinaryInv
    <2> QED
        BY <2>1, <2>2
<1> QED
    BY <1>1, <1>4, <1>5, <1>16, <1>17, <1>19, Together

\* Vite reads the sources as they are now.
LEMMA BundleReadsStep ==
    ASSUME LaunchInv, NEW c \in Commands, BundleReads(c)
    PROVE  LaunchInv'
<1>0. LaunchTypeOK /\ BinaryInv /\ UpToDate(c) /\ out.gen <= ver["views"] /\ out \in Out /\ ver \in Versions
    BY DEF LaunchInv, LaunchTypeOK
<1>1. At(c, "bundle") /\ conf.vite /\ UNCHANGED <<conf, world, taken, ver, out>>
    BY DEF BundleReads
<1>2. PICK o \in Cmd : o = cmd[c] /\ o.kind = "build" /\ o.at = 3 /\ o.state = "on"
    BY <1>0, <1>1, LaunchTypes, AtPlace
<1>3. PICK r \in Binaries : r = [o.read EXCEPT !["web"] = ver["web"]]
    <2>1. o.read \in Binaries
        BY <1>2 DEF Cmd
    <2>2. ver["web"] \in Dists
        BY <1>0 DEF Versions, Parts, Dists
    <2> QED
        BY <2>1, <2>2 DEF Binaries, Parts
<1>4. r["web"] = ver["web"]
    <2>1. o.read \in Binaries
        BY <1>2 DEF Cmd
    <2> QED
        BY <1>3, <2>1 DEF Binaries, Parts
<1>5. PICK n \in 0..10 : n = 4
    OBVIOUS
<1> DEFINE k == [o EXCEPT !.at = n, !.read = r]
<1>6. k \in Cmd /\ k.at = 4 /\ k.read = r /\ k.began = o.began /\ k.kind = "build"
    BY <1>2, <1>5 DEF Cmd
<1>7. cmd' = [cmd EXCEPT ![c] = k]
    <2>1. cmd' = [cmd EXCEPT ![c].at = @ + 1, ![c].read["web"] = ver["web"]] /\ cmd[c] = o /\ o.at + 1 = n
        BY <1>2, <1>5 DEF BundleReads
    <2> QED
        BY <1>0, <1>2, <1>3, <2>1 DEF LaunchTypeOK, Cmd
<1> HIDE DEF k
<1>8. cmd'[c] = k /\ \A d \in Commands : d # c => cmd'[d] = cmd[d]
    BY <1>0, <1>7 DEF LaunchTypeOK
<1>9. UpToDate(c)'
    <2>1. TemplAt(k.kind) = 7
        BY <1>6 DEF TemplAt
    <2>2. /\ ~(k.at > 7) /\ ~(k.at > 8) /\ ~(k.at > 9) /\ k.at \notin 6..8
        BY <1>6
    <2>3. \A x \in Parts : k.began[x] <= ver'[x]
        BY <1>0, <1>1, <1>2, <1>6 DEF UpToDate
    <2>4. k.read["web"] \in k.began["web"]..MaxVersion
        <3>1. k.began["web"] <= ver["web"] /\ "web" \in Parts
            BY <1>1, <2>3 DEF Parts
        <3> QED
            BY <1>0, <1>2, <1>4, <1>6, <3>1, LaunchTypes, LaunchAssumption
    <2>5. ~(k.at > TemplAt(k.kind)) /\ ~(k.at > TemplAt(k.kind) + 1)
        BY <1>6, <2>1
    <2>6. k.kind \notin {"dev", "forward"}
        BY <1>6
    <2> QED
        BY <1>8, <2>2, <2>3, <2>4, <2>5, <2>6 DEF UpToDate
<1>10. out' \in Out /\ out'.dev = out.dev /\ out.gen <= out'.gen /\ out'.gen <= ver["views"] /\ out'.dist = out.dist
    BY <1>0, <1>1, LaunchTypes
<1>11. \A d \in Commands : Rests(d)
    BY <1>2, <1>6, <1>8 DEF Rests
<1>12. BinaryInv'
    BY <1>0, <1>10, <1>11, DevKept
<1> QED
    BY <1>1, <1>6, <1>7, <1>9, <1>10, <1>12, Together

\* Vite empties dist and fills it, and crosses whoever is about to embed it.
LEMMA BundleStep ==
    ASSUME LaunchInv, NEW c \in Commands, BundleEmpties(c) \/ BundleFills(c) \/ BundlePart(c)
    PROVE  LaunchInv'
<1>0. LaunchTypeOK /\ out \in Out
    BY DEF LaunchInv, LaunchTypeOK
<1>1. conf.vite /\ UNCHANGED <<conf, world, taken, ver>>
    BY DEF BundleEmpties, BundleFills, BundlePart
<1>2. PICK o \in Cmd : o = cmd[c]
    BY <1>0, LaunchTypes
<1>3. Gone \in Dists /\ Torn \in Dists /\ out.dist \in Dists /\ o.read["web"] \in Dists
    <2>1. o.read \in Binaries
        BY DEF Cmd
    <2> QED
        BY <1>0, <2>1 DEF Out, Dists, Binaries, Parts
<1>4. ASSUME NEW s, At(c, s), s \in {"empty", "fill"}, NEW d \in Dists, NEW kp \in BOOLEAN,
             out' = [out EXCEPT !.dist = d, !.keep = kp], cmd' = Crosses(c, Further(c)),
             s = "fill" => o.crossed \/ d = o.read["web"]
      PROVE  LaunchInv'
    <2>1. out' \in Out /\ out'.dev = out.dev /\ out'.gen = out.gen /\ out'.dist = d
        BY <1>0, <1>4 DEF Out
    <2>2. o.at + 1 \in 0..10 /\ (s = "empty" => o.at = 4) /\ o.state = "on" /\ o.at \in 1..9
        BY <1>0, <1>2, <1>4, AtPlace
    <2> DEFINE k == [o EXCEPT !.at = o.at + 1, !.waits = FALSE]
    <2>3. k \in Cmd /\ k.at = o.at + 1 /\ k.kind = o.kind /\ k.began = o.began /\ k.read = o.read /\ k.ran = o.ran
          /\ k.crossed = o.crossed /\ k.state = o.state
        BY <2>2 DEF Cmd
    <2>4. cmd' = Crosses(c, k)
        BY <1>2, <1>4 DEF Further
    <2> HIDE DEF k
    <2>5. Same(c, k) /\ Goes(c, k)
        BY <1>2, <1>4, <2>1, <2>3 DEF Same, Goes
    <2>6. k.at \in 6..8 => k.crossed \/ out'.dist = k.read["web"]
        <3>1. s = "empty" => k.at \notin 6..8
            BY <2>2, <2>3
        <3> QED
            BY <1>4, <2>1, <2>3, <3>1
    <2> QED
        BY <1>1, <2>1, <2>3, <2>4, <2>5, <2>6, CrossStep
<1>5. CASE BundleEmpties(c)
    <2>1. PICK d \in Dists, kp \in BOOLEAN : out' = [out EXCEPT !.dist = d, !.keep = kp]
        BY <1>3, <1>5 DEF BundleEmpties
    <2>2. PICK s \in {"empty", "fill"} : s # "fill" /\ At(c, s) /\ cmd' = Crosses(c, Further(c))
        BY <1>5 DEF BundleEmpties
    <2> QED
        BY <1>4, <2>1, <2>2
<1>6. CASE BundleFills(c)
    <2>1. PICK d \in {o.read["web"]} \cup (IF o.crossed THEN {out.dist, Torn} ELSE {}) : out' = [out EXCEPT !.dist = d]
        BY <1>2, <1>6 DEF BundleFills
    <2>2. At(c, "fill") /\ cmd' = Crosses(c, Further(c)) /\ d \in Dists /\ (o.crossed \/ d = o.read["web"])
        BY <1>3, <1>6, <2>1 DEF BundleFills
    <2>3. PICK kp \in BOOLEAN : kp = out.keep
        BY <1>0 DEF Out
    <2>4. out' = [out EXCEPT !.dist = d, !.keep = kp]
        BY <1>0, <2>1, <2>3 DEF Out
    <2> QED
        BY <1>4, <2>2, <2>4
<1>7. CASE BundlePart(c)
    <2>1. PICK kp \in BOOLEAN : out' = [out EXCEPT !.dist = Torn, !.keep = kp]
        <3>1. out.keep \in BOOLEAN
            BY <1>0 DEF Out
        <3>2. CASE At(c, "fill") /\ out' = [out EXCEPT !.dist = Torn]
            <4>1. out' = [out EXCEPT !.dist = Torn, !.keep = out.keep]
                BY <1>0, <3>2 DEF Out
            <4> QED
                BY <3>1, <4>1
        <3>3. CASE \E k \in {out.keep, FALSE} : out' = [out EXCEPT !.dist = Torn, !.keep = k]
            BY <3>1, <3>3
        <3> QED
            BY <1>7, <3>2, <3>3 DEF BundlePart
    <2>2. cmd' = Crosses(c, o) /\ (At(c, "empty") \/ At(c, "fill"))
        BY <1>2, <1>7 DEF BundlePart
    <2>3. out' \in Out /\ out'.dev = out.dev /\ out'.gen = out.gen
        BY <1>0, <1>3, <2>1 DEF Out
    <2>4. Same(c, o) /\ Goes(c, o)
        BY <1>2 DEF Same, Goes
    <2>5. o.at \notin 6..8
        BY <1>0, <1>2, <2>2, AtPlace
    <2> QED
        BY <1>1, <2>2, <2>3, <2>4, <2>5, CrossStep
<1> QED
    BY <1>5, <1>6, <1>7

LEMMA KeepStep ==
    ASSUME LaunchInv, NEW c \in Commands, writeKeepFile(c)
    PROVE  LaunchInv'
<1>0. LaunchTypeOK /\ world \in World /\ taken \subseteq 1..MaxPort /\ out \in Out
    BY DEF LaunchInv, LaunchTypeOK
<1>1. At(c, "keep") /\ (On(c) \/ Fail(c)) /\ out' \in {out, [out EXCEPT !.keep = TRUE]} /\ UNCHANGED <<conf, world, taken, ver>>
    BY DEF writeKeepFile
<1>2. out' \in Out /\ out'.dev = out.dev /\ out'.gen = out.gen /\ out'.dist = out.dist
    BY <1>0, <1>1 DEF Out
<1> QED
    BY <1>0, <1>1, <1>2, PlainStep

\* The steps of a command that change the container, the ports and node_modules.
LEMMA MachineStep ==
    ASSUME LaunchInv, NEW c \in Commands, composeUp(c) \/ Addr(c) \/ Ensure(c) \/ StartDev(c)
    PROVE  LaunchInv'
<1>0. /\ LaunchTypeOK /\ world \in World /\ taken \subseteq 1..MaxPort /\ out \in Out
    BY DEF LaunchInv, LaunchTypeOK
<1>1. PICK o \in Cmd : o = cmd[c]
    BY <1>0, LaunchTypes
<1>2. CASE composeUp(c)
    <2>1. /\ world' = [world EXCEPT !.box = IF world.box = "down" THEN "starting" ELSE world.box]
          /\ cmd' = [cmd EXCEPT ![c].waits = TRUE] /\ UNCHANGED <<conf, taken, ver, out>>
        BY <1>2 DEF composeUp
    <2>2. world' \in World
        BY <1>0, <2>1 DEF World
    <2> DEFINE k == [o EXCEPT !.waits = TRUE]
    <2>3. k \in Cmd /\ k.at = o.at /\ k.kind = o.kind /\ k.began = o.began /\ k.read = o.read /\ k.ran = o.ran
          /\ k.crossed = o.crossed /\ k.state = o.state
        BY DEF Cmd
    <2>4. cmd' = [cmd EXCEPT ![c] = k]
        BY <1>0, <1>1, <2>1 DEF LaunchTypeOK, Cmd
    <2> HIDE DEF k
    <2>5. Quiet(c, k) /\ Goes(c, k)
        BY <1>1, <2>3, <2>4 DEF Quiet, Same, Goes
    <2> QED
        BY <1>0, <2>1, <2>2, <2>3, <2>5, QuietStep
<1>3. CASE Addr(c)
    <2>1. At(c, "addr") /\ UNCHANGED <<conf, world, taken, ver, out>>
        BY <1>3 DEF Addr
    <2>2. CASE resolveDevAddr(AppPort) = NoPort
        BY <1>0, <1>3, <2>1, <2>2, FailStep DEF Addr
    <2>3. CASE resolveDevAddr(AppPort) # NoPort
        <3>1. PICK p \in 0..MaxPort \cup {NoPort} : p = resolveDevAddr(AppPort)
            BY PortsFound
        <3>2. cmd' = [cmd EXCEPT ![c].at = @ + 1, ![c].addr = p]
            BY <1>3, <2>3, <3>1 DEF Addr
        <3>3. o.at + 1 \in 0..10
            BY <1>0, <1>1, <2>1, AtPlace
        <3> DEFINE k == [o EXCEPT !.at = o.at + 1, !.addr = p]
        <3>4. k \in Cmd /\ k.at = o.at + 1 /\ k.kind = o.kind /\ k.began = o.began /\ k.read = o.read
              /\ k.ran = o.ran /\ k.crossed = o.crossed /\ k.state = o.state
            BY <3>3 DEF Cmd
        <3>5. cmd' = [cmd EXCEPT ![c] = k]
            BY <1>0, <1>1, <3>2 DEF LaunchTypeOK, Cmd
        <3> HIDE DEF k
        <3>6. Quiet(c, k) /\ Goes(c, k)
            BY <1>1, <2>1, <3>4, <3>5 DEF Quiet, Same, Goes
        <3> QED
            BY <1>0, <2>1, <3>4, <3>6, QuietStep
    <2> QED
        BY <2>2, <2>3
<1>4. CASE Ensure(c)
    <2>1. PICK m \in {"none", "partial", "full"} :
             world' = [world EXCEPT !.modules = m] /\ (IF m = "full" THEN UNCHANGED cmd ELSE Fail(c))
        <3>1. world.modules \in {"none", "partial", "full"}
            BY <1>0 DEF World
        <3> QED
            BY <1>4, <3>1 DEF Ensure
    <2>2. UNCHANGED <<conf, taken, ver, out>>
        BY <1>4 DEF Ensure
    <2>3. world' \in World
        BY <1>0, <2>1 DEF World
    <2>4. CASE m = "full"
        <3>1. cmd' = [cmd EXCEPT ![c] = o] /\ o.at = cmd[c].at
            BY <1>0, <1>1, <2>1, <2>4 DEF LaunchTypeOK
        <3>2. Quiet(c, o) /\ Goes(c, o)
            BY <1>1, <3>1 DEF Quiet, Same, Goes
        <3> QED
            BY <1>0, <2>2, <2>3, <3>2, QuietStep
    <2>5. CASE m # "full"
        BY <1>0, <2>1, <2>2, <2>3, <2>5, FailStep
    <2> QED
        BY <2>4, <2>5
<1>5. CASE StartDev(c)
    <2>1. At(c, "vite") /\ UNCHANGED <<conf, world, ver, out>> /\ (On(c) \/ Fail(c))
        BY <1>5 DEF StartDev
    <2>2. taken' \subseteq 1..MaxPort
        BY <1>0, <1>5, PortsFound DEF StartDev
    <2> QED
        BY <1>0, <2>1, <2>2, PlainStep
<1> QED
    BY <1>2, <1>3, <1>4, <1>5

LEMMA LaunchStep == LaunchInv /\ [LaunchNext]_launchVars => LaunchInv'
<1> SUFFICES ASSUME LaunchInv, [LaunchNext]_launchVars PROVE LaunchInv'
    OBVIOUS
<1>0. /\ LaunchTypeOK /\ world \in World /\ taken \subseteq 1..MaxPort /\ ver \in Versions
      /\ out.gen <= ver["views"] /\ cmd \in [Commands -> Cmd] /\ out \in Out /\ BinaryInv
    BY DEF LaunchInv, LaunchTypeOK
<1>1. ASSUME NEW c \in Commands,
             ServicesSkip(c) \/ ServicesReady(c) \/ composeFailure(c) \/ EnsureDone(c) \/ typeCheck(c) \/ Stat(c)
      PROVE  LaunchInv'
    <2>1. UNCHANGED <<conf, world, taken, ver, out>> /\ (On(c) \/ Fail(c))
        BY <1>1 DEF ServicesSkip, ServicesReady, composeFailure, EnsureDone, typeCheck, Stat
    <2>2. At(c, "services") \/ At(c, "ensure") \/ At(c, "check") \/ At(c, "stat")
        BY <1>1 DEF ServicesSkip, ServicesReady, composeFailure, EnsureDone, typeCheck, Stat
    <2> QED
        BY <1>0, <2>1, <2>2, PlainStep
<1>2. ASSUME NEW c \in Commands, NoFrontend(c) PROVE LaunchInv'
    <2>1. UNCHANGED <<conf, world, taken, ver, out>> /\ On(c) /\ ~conf.vite
        BY <1>2 DEF NoFrontend
    <2>2. PICK step \in {"vite", "ensure", "check", "bundle", "empty", "fill", "keep"} : At(c, step)
        BY <1>2 DEF NoFrontend
    <2> QED
        BY <1>0, <2>1, <2>2, PlainStep
<1>3. CASE Container
    <2>1. /\ world' = [world EXCEPT !.box = IF world.box = "starting" THEN "healthy" ELSE "down"]
          /\ UNCHANGED <<conf, taken, ver, out, cmd>>
        BY <1>3 DEF Container
    <2>2. world' \in World
        BY <1>0, <2>1 DEF World
    <2> QED
        BY <1>0, <2>1, <2>2 DEF LaunchInv, LaunchTypeOK, UpToDate, Embeds, NoOlder, BinaryInv, OneBuilt, BuiltDev
<1>4. ASSUME NEW x \in Parts, SaveSource(x) PROVE LaunchInv'
    <2>1. /\ ver["go"] + ver["views"] + ver["web"] < MaxVersion
          /\ ver' = [ver EXCEPT ![x] = ver[x] + 1] /\ UNCHANGED <<conf, world, taken, out, cmd>>
        BY <1>4 DEF SaveSource
    <2>2. ver["go"] \in Nat /\ ver["views"] \in Nat /\ ver["web"] \in Nat
        BY <1>0, LaunchTypes DEF Parts
    <2>3. ver[x] + 1 \in 0..MaxVersion
        BY <2>1, <2>2, LaunchAssumption DEF Parts
    <2>4. ver' \in Versions
        BY <1>0, <2>1, <2>3 DEF Versions
    <2>5. \A y \in Parts : ver'[y] \in Nat /\ ver[y] <= ver'[y]
        BY <1>0, <2>1, LaunchTypes DEF Versions
    <2>6. LaunchTypeOK'
        BY <1>0, <2>1, <2>4 DEF LaunchTypeOK
    <2>7. out'.gen <= ver'["views"]
        BY <1>0, <2>1, <2>2, <2>5, LaunchTypes DEF Parts
    <2>8. ASSUME NEW d \in Commands PROVE UpToDate(d)'
        <3>1. cmd[d] \in Cmd /\ cmd'[d] = cmd[d] /\ out.gen <= out'.gen /\ out'.gen \in Nat
            BY <1>0, <2>1, LaunchTypes
        <3> QED
            BY <2>1, <2>5, <3>1, StaysFresh
    <2>9. BinaryInv'
        BY <1>0, <2>1 DEF BinaryInv, OneBuilt, BuiltDev, NoOlder
    <2> QED
        BY <2>6, <2>7, <2>8, <2>9 DEF LaunchInv
<1>5. CASE UNCHANGED launchVars
    BY <1>5 DEF launchVars, LaunchInv, LaunchTypeOK, UpToDate, Embeds, NoOlder, BinaryInv, OneBuilt, BuiltDev
<1>6. ASSUME NEW c \in Commands,
             \/ Launched(c) \/ ServicesSkip(c) \/ composeUp(c) \/ ServicesReady(c) \/ composeFailure(c)
             \/ Addr(c) \/ Ensure(c) \/ NoFrontend(c) \/ StartDev(c) \/ EnsureDone(c) \/ typeCheck(c)
             \/ BundleReads(c) \/ BundleEmpties(c) \/ BundleFills(c) \/ BundlePart(c) \/ BundleFails(c)
             \/ writeKeepFile(c) \/ RunTempl(c) \/ GoReads(c) \/ GoWrites(c) \/ Stat(c) \/ runBinary(c)
      PROVE  LaunchInv'
    <2>1. CASE BundleFails(c)
        BY <1>0, <2>1, FailStep DEF BundleFails
    <2> QED
        BY <1>1, <1>2, <1>6, <2>1, LaunchedStep, MachineStep, BundleReadsStep, BundleStep, KeepStep, TemplStep,
           ReadsStep, WritesStep, RunsStep
<1> QED
    BY <1>3, <1>4, <1>5, <1>6 DEF LaunchNext

\* The project and the machine keep to what the commands take them for: whatever
\* runs side by side, a command is never past the end of its plan, and a port that is
\* taken, by Vite too, is one there is (port.go, dbstart.go, frontend.go, run.go).
THEOREM LaunchTyped == LaunchSpec => []LaunchTypeOK
<1>1. LaunchInv => LaunchTypeOK
    BY DEF LaunchInv
<1> QED
    BY <1>1, LaunchInitInv, LaunchStep, PTL DEF LaunchSpec

\* Nothing older than what a command found when it began is built and run by it, for
\* every number of dev, build, start and forwarded commands side by side, every project
\* and every number of saves: templ has run before the compiler reads and Vite before
\* it embeds, whatever other commands do to the generated code, to dist and to the
\* binaries meanwhile; where one of them replaced the binary before it was run, what
\* runs is no older than what some command that wrote it found (run.go: devCmd, buildCmd,
\* forward, build, runBinary; frontend.go: Build).
THEOREM RunsWhatItFound == LaunchSpec => []NothingOlderRuns
<1>1. LaunchInv => NothingOlderRuns
    <2> SUFFICES ASSUME LaunchInv, NEW c \in Commands, Over(c)
                 PROVE  /\ cmd[c].kind = "build" => NoOlder(cmd[c].ran, c)
                        /\ cmd[c].kind = "build" /\ conf.vite /\ ~cmd[c].crossed =>
                             cmd[c].ran["web"] \in cmd[c].began["web"]..MaxVersion
                        /\ cmd[c].kind \in {"dev", "forward"} =>
                             \E d \in Commands : (d = c \/ cmd[c].crossed) /\ BuiltDev(d) /\ NoOlder(cmd[c].ran, d)
        BY DEF NothingOlderRuns
    <2>0. LaunchTypeOK /\ UpToDate(c) /\ BinaryInv /\ cmd[c].at \in 0..10
        BY LaunchTypes DEF LaunchInv
    <2>1. CASE cmd[c].kind = "build"
        <3>1. TemplAt(cmd[c].kind) = 7 /\ Len(Plan(cmd[c].kind)) = 9
            BY <2>1, PlanSteps DEF TemplAt
        <3>2. cmd[c].at > 9
            BY <3>1 DEF Over
        <3>3. cmd[c].at > TemplAt(cmd[c].kind) + 1 /\ cmd[c].at > 8
            BY <2>0, <3>1, <3>2
        <3> QED
            BY <2>0, <2>1, <3>2, <3>3 DEF UpToDate, Embeds
    <2>2. CASE cmd[c].kind \in {"dev", "forward"}
        <3>1. \A k \in {"dev", "forward"} : Len(Plan(k)) = TemplAt(k) + 3 /\ TemplAt(k) \in {2, 4}
            BY PlanSteps DEF TemplAt
        <3>2. PICK n \in {2, 4} : TemplAt(cmd[c].kind) = n /\ Len(Plan(cmd[c].kind)) = n + 3
            BY <2>2, <3>1
        <3>3. cmd[c].at > n + 3
            BY <3>2 DEF Over
        <3>4. cmd[c].at >= n + 3 /\ cmd[c].at > n + 1
            BY <2>0, <3>3
        <3>5. BuiltDev(c)
            BY <2>2, <3>2, <3>4 DEF BuiltDev
        <3>6. CASE cmd[c].crossed
            BY <2>0, <2>2, <3>2, <3>3, <3>5, <3>6 DEF BinaryInv, OneBuilt
        <3>7. CASE ~cmd[c].crossed
            BY <2>0, <2>2, <3>2, <3>3, <3>4, <3>5, <3>7 DEF UpToDate
        <3> QED
            BY <2>2, <3>6, <3>7
    <2> QED
        BY <2>1, <2>2
<1> QED
    BY <1>1, LaunchInitInv, LaunchStep, PTL DEF LaunchSpec
-----------------------------------------------------------------------------
(* Generators.                                                             *)

\* Files with their templates, the stages of a command, and a generator.
FileMap == UNION {[fs -> Templates] : fs \in SUBSET Paths}
StageSet == {s \in [op: {"files", "migration", "dsn", "key", "go"}, sources: FileMap, name: MigrationNames \cup {"none"}] :
                s.op = "migration" => s.name \in MigrationNames}
OtherStages == {s \in StageSet : s.op # "dsn"}
Asked == {o[g] : o \in Orders, g \in Gens}
Maker == [order: Asked, state: {"ready", "on", "done", "failed"}, stages: Seq(StageSet),
          web: Manifest \cup {Absent}, todo: FileMap, env: Env \cup {Absent}, found: SUBSET Paths]

\* What a generator without --force found is still there, and none of it is among the
\* files it is about to write; a .env it has read and writes back is one without a key;
\* and only ry new, which found nothing, replaces the connection string.
Spares(m, there) ==
    /\ m.state = "ready" => DOMAIN m.todo = {} /\ m.env = Absent
    /\ m.state = "on" => m.stages # <<>> /\ (DOMAIN m.todo # {} => Head(m.stages).op \in {"files", "migration"})
    /\ ~m.order.force => m.found \subseteq there /\ m.found \cap DOMAIN m.todo = {}
    /\ m.env # Absent => m.state = "on" /\ DOMAIN m.todo = {} /\ Head(m.stages).op \in {"key", "dsn"}
    /\ m.env # Absent /\ Head(m.stages).op = "key" /\ ~m.order.force => m.env.secrets.key = Absent
    /\ m.found = {} \/ m.stages \in Seq(OtherStages)

ScaffoldInv ==
    /\ ScaffoldTypeOK
    /\ maker \in [Gens -> Maker]
    /\ \A g \in Gens : Spares(maker[g], Present)

LEMMA NoFiles == <<>> \in FileMap /\ DOMAIN <<>> = {}
<1>1. <<>> \in [{} -> Templates] /\ DOMAIN <<>> = {}
    OBVIOUS
<1>2. {} \in SUBSET Paths
    OBVIOUS
<1> QED
    BY <1>1, <1>2 DEF FileMap

LEMMA FileMapIs ==
    ASSUME NEW m \in FileMap
    PROVE  /\ DOMAIN m \subseteq Paths /\ m \in [DOMAIN m -> Templates]
           /\ \A f \in DOMAIN m : m[f] \in Templates
           /\ \A fs \in SUBSET DOMAIN m : [f \in fs |-> m[f]] \in FileMap
<1>1. PICK fs \in SUBSET Paths : m \in [fs -> Templates]
    BY DEF FileMap
<1>2. DOMAIN m = fs
    BY <1>1
<1>3. ASSUME NEW gs \in SUBSET DOMAIN m
      PROVE  [f \in gs |-> m[f]] \in FileMap
    <2>1. gs \in SUBSET Paths /\ [f \in gs |-> m[f]] \in [gs -> Templates]
        BY <1>1, <1>2
    <2> QED
        BY <2>1 DEF FileMap
<1> QED
    BY <1>1, <1>2, <1>3

\* One file from one template.
LEMMA OneFile ==
    ASSUME NEW f \in Paths, NEW t \in Templates
    PROVE  [x \in {f} |-> t] \in FileMap
<1>1. {f} \in SUBSET Paths /\ [x \in {f} |-> t] \in [{f} -> Templates]
    OBVIOUS
<1> QED
    BY <1>1 DEF FileMap

\* The files of a plan come from overlays there are.
LEMMA PlanIs ==
    ASSUME NEW overlays \in Seq(DOMAIN Tree)
    PROVE  plan(overlays) \in FileMap
<1> USE ScaffoldAssumption
<1> DEFINE fs == UNION {Tree[o] : o \in ToSet(overlays)}
           Has(f) == {n \in DOMAIN overlays : f \in Tree[overlays[n]]}
           LastOf(f, n) == f \in Tree[overlays[n]] /\ \A m \in (n + 1)..Len(overlays) : f \notin Tree[overlays[m]]
<1>1. /\ DOMAIN overlays = 1..Len(overlays) /\ Len(overlays) \in Nat
      /\ \A n \in DOMAIN overlays : overlays[n] \in DOMAIN Tree
      /\ ToSet(overlays) = {overlays[n] : n \in DOMAIN overlays}
    BY DEF ToSet
<1>2. fs \in SUBSET Paths
    BY <1>1 DEF Paths
<1>3. ASSUME NEW f \in fs
      PROVE  \E n \in DOMAIN overlays : LastOf(f, n)
    <2> DEFINE gaps == {Len(overlays) - n : n \in Has(f)}
    <2>1. Has(f) # {}
        <3>1. PICK o \in ToSet(overlays) : f \in Tree[o]
            OBVIOUS
        <3>2. PICK n \in DOMAIN overlays : o = overlays[n]
            BY <1>1
        <3> QED
            BY <3>1, <3>2
    <2>2. gaps \in SUBSET Nat /\ gaps # {}
        BY <1>1, <2>1
    <2>3. PICK n \in Has(f) : Min(gaps) = Len(overlays) - n
        BY <2>2, LeastOf
    <2>4. \A m \in Has(f) : Len(overlays) - n <= Len(overlays) - m
        <3>1. \A x \in gaps : Min(gaps) <= x
            BY <2>2, LeastOf
        <3>2. \A m \in Has(f) : Len(overlays) - m \in gaps
            OBVIOUS
        <3> HIDE DEF gaps
        <3> QED
            BY <2>3, <3>1, <3>2
    <2>5. \A m \in Has(f) : m <= n
        BY <1>1, <2>4
    <2>6. ASSUME NEW m \in (n + 1)..Len(overlays) PROVE f \notin Tree[overlays[m]]
        BY <1>1, <2>5, <2>6
    <2> QED
        BY <2>3, <2>6
<1>4. ASSUME NEW f \in fs
      PROVE  overlays[CHOOSE n \in DOMAIN overlays : LastOf(f, n)] \in Templates
    <2>1. (CHOOSE n \in DOMAIN overlays : LastOf(f, n)) \in DOMAIN overlays
        BY <1>3
    <2> QED
        BY <1>1, <2>1 DEF Templates
<1>5. plan(overlays) = [f \in fs |-> overlays[CHOOSE n \in DOMAIN overlays : LastOf(f, n)]]
    BY DEF plan
<1> HIDE DEF fs, LastOf
<1>6. plan(overlays) \in [fs -> Templates]
    BY <1>4, <1>5
<1> QED
    BY <1>2, <1>6 DEF FileMap

LEMMA StageIs ==
    /\ \A m \in FileMap : Writes(m) \in OtherStages
    /\ \A f \in Paths, t \in Templates : RenderTo(f, t) \in OtherStages
    /\ \A n \in MigrationNames : Migration(n) \in OtherStages
    /\ Do("key") \in OtherStages /\ Do("go") \in OtherStages /\ Do("dsn") \in StageSet
<1>1. \A m \in FileMap : Writes(m) \in OtherStages
    BY DEF Writes, StageSet, OtherStages
<1>2. \A f \in Paths, t \in Templates : RenderTo(f, t) \in OtherStages
    BY <1>1, OneFile DEF RenderTo
<1>3. \A n \in MigrationNames : Migration(n) \in OtherStages
    BY NoFiles DEF Migration, StageSet, OtherStages
<1>4. Do("key") \in OtherStages /\ Do("go") \in OtherStages /\ Do("dsn") \in StageSet
    BY NoFiles DEF Do, StageSet, OtherStages
<1> QED
    BY <1>1, <1>2, <1>3, <1>4

\* A sequence is one of its own elements.
LEMMA Narrows ==
    ASSUME NEW R, NEW S, NEW s \in Seq(R), ToSet(s) \subseteq S
    PROVE  s \in Seq(S)
<1>1. \A n \in 1..Len(s) : s[n] \in ToSet(s)
    BY DEF ToSet
<1> QED
    BY <1>1

LEMMA Tuples ==
    ASSUME NEW S, NEW a \in S, NEW b \in S, NEW c \in S, NEW d \in S
    PROVE  <<a, b, c>> \in Seq(S) /\ <<d>> \in Seq(S) /\ <<>> \in Seq(S)
OBVIOUS

\* The overlays of a project, and of what is added to it, are there.
LEMMA OverlaysAre ==
    /\ \A p : NewProject(p) => Overlays(p) \in Seq(DOMAIN Tree)
    /\ \A p \in Manifest, what \in {"auth", "2fa"} : AuthOverlays(what, p) \in Seq(DOMAIN Tree)
<1>1. ASSUME NEW p, NewProject(p)
      PROVE  Overlays(p) \in Seq(DOMAIN Tree)
    <2>1. PICK l \in Languages : WebModes[p.web].frontend # "none" => p.lang = l
        BY <1>1 DEF NewProject, Languages
    <2> DEFINE q == [db |-> p.db, web |-> p.web, lang |-> l]
    <2>2. q \in [db: DOMAIN Databases, web: DOMAIN WebModes, lang: Languages]
        BY <1>1 DEF NewProject, LookupDatabase, LookupWebMode
    <2>3. Overlays(q) = Overlays(p)
        BY <2>1 DEF Overlays
    <2>4. ToSet(Overlays(q)) \subseteq DOMAIN Tree
        BY <2>2, OverlaysAssumption
    <2> DEFINE w == WebModes[p.web]
               a == <<"base">>
               b == <<"db", p.db>>
               c == <<"web", w.overlay>>
               d == <<"frontend", w.frontend, p.lang>>
               s == <<a, b, c>>
               t == IF w.frontend = "none" THEN <<>> ELSE <<d>>
    <2>5. Overlays(p) = s \o t
        BY DEF Overlays
    <2> HIDE DEF a, b, c, d
    <2>6. s \in Seq({a, b, c, d}) /\ t \in Seq({a, b, c, d})
        BY Tuples
    <2> HIDE DEF s, t
    <2>7. Overlays(p) \in Seq({a, b, c, d})
        BY <2>5, <2>6
    <2> QED
        BY <2>3, <2>4, <2>7, Narrows
<1>2. ASSUME NEW p \in Manifest, NEW what \in {"auth", "2fa"}
      PROVE  AuthOverlays(what, p) \in Seq(DOMAIN Tree)
    <2>1. ToSet(AuthOverlays(what, p)) \subseteq DOMAIN Tree
        BY OverlaysAssumption
    <2> QED
        BY <2>1 DEF AuthOverlays, ToSet
<1> QED
    BY <1>1, <1>2

\* Whatever it is asked, a command has stages, and each is of one of the kinds there are.
LEMMA StagesAre ==
    ASSUME NEW a \in Asked, NEW p,
           IF a.kind = "new" THEN NewProject(p) ELSE p \in Manifest
    PROVE  /\ Stages(a, p) \in Seq(StageSet) /\ Stages(a, p) # <<>>
           /\ a.kind # "new" => Stages(a, p) \in Seq(OtherStages)
<1> USE ScaffoldAssumption
<1>1. /\ a.kind \in {"new", "make", "seeder", "model", "migration", "auth", "2fa", "compose", "key"}
      /\ a.path \in Paths
    BY OrdersAssumption DEF Asked, Paths
<1>2. /\ ComposeFile \in Paths
      /\ {<<"make">>, <<"make", "mongo">>, <<"compose">>} \subseteq Templates
      /\ {"create_users", "create_posts", "add_two_factor_to_users"} \subseteq MigrationNames
    BY DEF Paths, Templates, MigrationNames
<1>3. /\ \A s \in StageSet : <<s>> \in Seq(StageSet) /\ <<s>> # <<>>
      /\ \A s \in OtherStages : <<s>> \in Seq(OtherStages) /\ <<s>> # <<>>
    OBVIOUS
<1>4. /\ \A s, t \in Seq(StageSet) : s # <<>> => s \o t \in Seq(StageSet) /\ s \o t # <<>>
      /\ \A s, t \in Seq(OtherStages) : s # <<>> => s \o t \in Seq(OtherStages) /\ s \o t # <<>>
    OBVIOUS
<1>5. <<>> \in Seq(StageSet) /\ <<>> \in Seq(OtherStages)
    OBVIOUS
<1>5a. OtherStages \subseteq StageSet /\ Seq(OtherStages) \subseteq Seq(StageSet)
    <2>1. OtherStages \subseteq StageSet
        BY DEF OtherStages
    <2> QED
        BY <2>1
<1>6. RenderTo(a.path, <<"make">>) \in OtherStages /\ RenderTo(a.path, <<"make", "mongo">>) \in OtherStages
      /\ RenderTo(ComposeFile, <<"compose">>) \in OtherStages
    BY <1>1, <1>2, StageIs
<1>7. /\ Migration("create_users") \in OtherStages /\ Migration("create_posts") \in OtherStages
      /\ Migration("add_two_factor_to_users") \in OtherStages
    BY <1>2, StageIs
<1>8. Do("dsn") \in StageSet /\ Do("key") \in OtherStages /\ Do("go") \in OtherStages
    BY StageIs
<1>9. CASE a.kind = "new"
    <2> DEFINE first == <<Writes(plan(Overlays(p)))>>
               second == IF p.setup = "docker" /\ Databases[p.db] THEN <<RenderTo(ComposeFile, <<"compose">>)>>
                         ELSE IF p.setup = "external" THEN <<Do("dsn")>> ELSE <<>>
               third == <<Do("go")>>
               more == IF WebModes[p.web].templ THEN <<Do("go"), Do("go")>> ELSE <<>>
               fourth == IF a.skipDeps THEN <<>> ELSE more \o <<Do("go")>>
    <2>1. first \in Seq(StageSet) /\ first # <<>>
        BY <1>3, <1>5a, <1>9, OverlaysAre, PlanIs, StageIs
    <2>2. second \in Seq(StageSet)
        BY <1>3, <1>5, <1>5a, <1>6, <1>8
    <2>3. third \in Seq(StageSet)
        BY <1>3, <1>5a, <1>8
    <2>4. more \in Seq(StageSet)
        BY <1>5, <1>5a, <1>8
    <2>5. fourth \in Seq(StageSet)
        BY <1>5, <2>3, <2>4
    <2>6. Stages(a, p) = first \o second \o third \o fourth
        BY <1>9 DEF Stages, NewStages
    <2> HIDE DEF first, second, third, fourth
    <2> QED
        BY <1>4, <1>9, <2>1, <2>2, <2>3, <2>5, <2>6
<1>10. CASE a.kind = "make"
    BY <1>3, <1>5a, <1>6, <1>10 DEF Stages, MakeStages
<1>11. CASE a.kind = "seeder"
    BY <1>3, <1>5a, <1>6, <1>11 DEF Stages, SeederStages, StubOf
<1>12. CASE a.kind = "model"
    <2> DEFINE first == <<RenderTo(a.path, StubOf(p))>>
               second == IF isDocumentStore(p) \/ a.skipMigration THEN <<>> ELSE <<Migration("create_posts")>>
    <2>1. first \in Seq(OtherStages) /\ first # <<>> /\ second \in Seq(OtherStages)
        BY <1>3, <1>5, <1>6, <1>7 DEF StubOf
    <2>2. Stages(a, p) = first \o second
        BY <1>12 DEF Stages, ModelStages
    <2> HIDE DEF first, second
    <2> QED
        BY <1>4, <1>5a, <2>1, <2>2
<1>13. CASE a.kind = "migration"
    BY <1>3, <1>5a, <1>7, <1>13 DEF Stages
<1>14. CASE a.kind = "auth"
    <2> DEFINE first == <<Writes(plan(AuthOverlays("auth", p)))>>
               second == IF isDocumentStore(p) THEN <<>> ELSE <<Migration("create_users")>>
    <2>1. first \in Seq(OtherStages) /\ first # <<>> /\ second \in Seq(OtherStages)
        BY <1>3, <1>5, <1>7, <1>14, OverlaysAre, PlanIs, StageIs
    <2>2. Stages(a, p) = first \o second
        BY <1>14 DEF Stages, AuthStages
    <2> HIDE DEF first, second
    <2> QED
        BY <1>4, <1>5a, <2>1, <2>2
<1>15. CASE a.kind = "2fa"
    <2> DEFINE first == <<Writes(plan(AuthOverlays("2fa", p)))>>
               second == IF isDocumentStore(p) THEN <<>> ELSE <<Migration("add_two_factor_to_users")>>
    <2>1. first \in Seq(OtherStages) /\ first # <<>> /\ second \in Seq(OtherStages)
        BY <1>3, <1>5, <1>7, <1>15, OverlaysAre, PlanIs, StageIs
    <2>2. Stages(a, p) = first \o second
        BY <1>15 DEF Stages, TwoFactorStages
    <2> HIDE DEF first, second
    <2> QED
        BY <1>4, <1>5a, <2>1, <2>2
<1>16. CASE a.kind = "compose"
    BY <1>3, <1>5a, <1>6, <1>16 DEF Stages
<1>17. CASE a.kind = "key"
    BY <1>3, <1>5a, <1>8, <1>17 DEF Stages
<1> QED
    BY <1>1, <1>9, <1>10, <1>11, <1>12, <1>13, <1>14, <1>15, <1>16, <1>17

\* The file that is written next is one of those to write.
LEMMA NextFileIs ==
    ASSUME NEW m \in FileMap, DOMAIN m # {}
    PROVE  NextFile(m) \in DOMAIN m
<1> USE ScaffoldAssumption
<1> DEFINE First(f) == \A h \in DOMAIN m \cap DOMAIN Rank : f \in DOMAIN Rank => Rank[f] <= Rank[h]
<1>1. \E f \in DOMAIN m : First(f)
    <2>1. CASE DOMAIN m \subseteq DOMAIN Rank
        <3> DEFINE ranks == {Rank[f] : f \in DOMAIN m}
        <3>1. ranks \in SUBSET Nat /\ ranks # {}
            BY <2>1
        <3>2. Min(ranks) \in ranks /\ \A y \in ranks : Min(ranks) <= y
            BY <3>1, LeastOf
        <3>3. PICK f \in DOMAIN m : Min(ranks) = Rank[f]
            BY <3>2
        <3>4. \A h \in DOMAIN m : Rank[h] \in ranks
            OBVIOUS
        <3> HIDE DEF ranks
        <3> QED
            BY <3>2, <3>3, <3>4
    <2>2. CASE ~(DOMAIN m \subseteq DOMAIN Rank)
        BY <2>2
    <2> QED
        BY <2>1, <2>2
<1> QED
    BY <1>1 DEF NextFile

\* A file that is written or edited is there afterwards, and no other goes.
LEMMA FileStays ==
    ASSUME ScaffoldTypeOK, NEW f, NEW r \in File, disk' = [disk EXCEPT ![f] = r]
    PROVE  /\ disk' \in [Paths -> File \cup {Absent}] /\ Present \subseteq Present'
           /\ \A h \in Paths : h # f => disk'[h] = disk[h]
<1>1. disk' \in [Paths -> File \cup {Absent}] /\ \A h \in Paths : disk'[h] = IF h = f THEN r ELSE disk[h]
    BY DEF ScaffoldTypeOK
<1>2. r # Absent
    BY GroundsAssumption
<1> QED
    BY <1>1, <1>2 DEF Present

\* A step of one generator, after which it is m.
LEMMA MakerStep ==
    ASSUME ScaffoldInv, NEW g \in Gens, NEW m \in Maker, maker' = [maker EXCEPT ![g] = m],
           disk' \in [Paths -> File \cup {Absent}], secrets' \in Secrets,
           project' \in Manifest \cup {Absent}, clock' \in 0..MaxSecond,
           Present \subseteq Present', Spares(m, Present')
    PROVE  ScaffoldInv'
<1>1. maker' \in [Gens -> Maker] /\ \A h \in Gens : maker'[h] = IF h = g THEN m ELSE maker[h]
    BY DEF ScaffoldInv
<1>2. \A h \in Gens : Spares(maker'[h], Present')
    BY <1>1 DEF ScaffoldInv, Spares
<1>3. ASSUME NEW h \in Gens
      PROVE  /\ maker'[h].state \in {"ready", "on", "done", "failed"}
             /\ DOMAIN maker'[h].todo \subseteq Paths /\ maker'[h].found \subseteq Paths
             /\ maker'[h].env \in Env \cup {Absent}
    <2>1. maker'[h] \in Maker
        BY <1>1
    <2>2. maker'[h].todo \in FileMap /\ maker'[h].env \in Env \cup {Absent} /\ maker'[h].state \in {"ready", "on", "done", "failed"} /\ maker'[h].found \subseteq Paths
        BY <2>1 DEF Maker
    <2> QED
        BY <2>2, FileMapIs
<1> QED
    BY <1>1, <1>2, <1>3 DEF ScaffoldInv, ScaffoldTypeOK

LEMMA ScaffoldInitInv == ScaffoldInit => ScaffoldInv
<1> SUFFICES ASSUME ScaffoldInit PROVE ScaffoldInv
    OBVIOUS
<1> USE ScaffoldAssumption
<1>1. PICK s \in Grounds :
         /\ disk = [f \in Paths |-> IF f \in s.files THEN [from |-> <<"you">>, edits |-> 0] ELSE Absent]
         /\ project = s.project
         /\ secrets = [key |-> s.key, dsn |-> IF EnvFile \in s.files THEN "default" ELSE Absent]
    BY DEF ScaffoldInit
<1>2. PICK o \in Orders :
         maker = [g \in Gens |-> [order |-> o[g], state |-> "ready", stages |-> <<>>, web |-> Absent,
                                todo |-> <<>>, env |-> Absent, found |-> {}]]
    BY DEF ScaffoldInit
<1>3. s.project \in Manifest \cup {Absent} /\ s.key \in {"yours", Absent}
    BY GroundsAssumption DEF Ground
<1>4. [from |-> <<"you">>, edits |-> 0] \in File
    BY DEF File, Templates
<1>5. disk \in [Paths -> File \cup {Absent}]
    BY <1>1, <1>4
<1>6. secrets \in Secrets /\ project \in Manifest \cup {Absent}
    BY <1>1, <1>3 DEF Secrets
<1>7. clock \in 0..MaxSecond
    BY DEF ScaffoldInit
<1>8. ASSUME NEW g \in Gens
      PROVE  /\ maker[g] \in Maker /\ Spares(maker[g], Present)
             /\ maker[g].state \in {"ready", "on", "done", "failed"}
             /\ DOMAIN maker[g].todo \subseteq Paths /\ maker[g].found \subseteq Paths
             /\ maker[g].env \in Env \cup {Absent}
    <2>1. maker[g] = [order |-> o[g], state |-> "ready", stages |-> <<>>, web |-> Absent, todo |-> <<>>,
                      env |-> Absent, found |-> {}]
        BY <1>2
    <2>2. o[g] \in Asked
        BY DEF Asked
    <2>3. maker[g] \in Maker
        BY <2>1, <2>2, NoFiles DEF Maker
    <2>4. maker[g].todo = <<>> /\ maker[g].found = {} /\ maker[g].state = "ready" /\ maker[g].env = Absent
        BY <2>1
    <2> QED
        BY <2>3, <2>4, NoFiles DEF Spares
<1>9. maker \in [Gens -> Maker]
    BY <1>2, <1>8
<1> QED
    BY <1>5, <1>6, <1>7, <1>8, <1>9 DEF ScaffoldInv, ScaffoldTypeOK

\* What a step of g may do to what is yours.
Harmless(g) ==
    ~maker[g].order.force =>
        /\ \A f \in maker[g].found \ {EnvFile} : disk'[f] = disk[f]
        /\ EnvFile \in maker[g].found /\ <<disk'[EnvFile], secrets'>> # <<disk[EnvFile], secrets>> =>
              /\ maker[g].env # Absent /\ maker[g].env.secrets.key = Absent
              /\ maker[g].env = [file |-> disk[EnvFile], secrets |-> secrets] /\ maker'[g].state # "failed" =>
                    disk'[EnvFile] = disk[EnvFile] /\ secrets' = [secrets EXCEPT !.key = g]

LEMMA MakerIs ==
    ASSUME ScaffoldInv, NEW g \in Gens
    PROVE  /\ maker[g] \in Maker /\ maker[g].order \in Asked /\ maker[g].todo \in FileMap
           /\ maker[g].stages \in Seq(StageSet) /\ maker[g].found \subseteq Paths
           /\ maker[g].web \in Manifest \cup {Absent} /\ Spares(maker[g], Present)
           /\ maker[g].env \in Env \cup {Absent}
           /\ Going(g) => Stage(g) \in StageSet
           /\ maker[g].env # Absent /\ maker[g].found # {} => Stage(g).op = "key"
<1>1. maker[g] \in Maker /\ Spares(maker[g], Present)
    BY DEF ScaffoldInv
<1>2. /\ maker[g].order \in Asked /\ maker[g].todo \in FileMap /\ maker[g].stages \in Seq(StageSet)
      /\ maker[g].found \subseteq Paths /\ maker[g].web \in Manifest \cup {Absent}
      /\ maker[g].env \in Env \cup {Absent}
    BY <1>1 DEF Maker
<1>3. Going(g) => Stage(g) \in StageSet
    BY <1>1, <1>2 DEF Going, Stage, Spares
<1>4. ASSUME maker[g].env # Absent, maker[g].found # {} PROVE Stage(g).op = "key"
    <2>1. /\ maker[g].stages \in Seq(OtherStages) /\ maker[g].stages # <<>>
          /\ Head(maker[g].stages).op \in {"key", "dsn"}
        BY <1>1, <1>4 DEF Spares
    <2>2. Head(maker[g].stages) \in OtherStages
        BY <2>1
    <2> QED
        BY <2>1, <2>2 DEF OtherStages, Stage
<1> QED
    BY <1>1, <1>2, <1>3, <1>4

\* A command that fails is at rest, and one that is through with a stage has nothing to
\* write until the next one was checked.
LEMMA FailIs ==
    ASSUME ScaffoldInv, NEW g \in Gens, GenFail(g)
    PROVE  \E m \in Maker : /\ maker' = [maker EXCEPT ![g] = m]
                            /\ \A there : Present \subseteq there => Spares(m, there)
<1> DEFINE m == [maker[g] EXCEPT !.state = "failed", !.env = Absent]
<1>1. maker' = [maker EXCEPT ![g] = m]
    BY DEF GenFail, ScaffoldInv
<1>2. m \in Maker /\ m.state = "failed" /\ m.order = maker[g].order /\ m.found = maker[g].found /\ m.todo = maker[g].todo
      /\ m.env = Absent /\ m.stages = maker[g].stages
    BY MakerIs DEF Maker
<1> HIDE DEF m
<1>3. \A there : Present \subseteq there => Spares(m, there)
    BY <1>2, MakerIs DEF Spares
<1> QED
    BY <1>1, <1>2, <1>3

LEMMA GenOnIs ==
    ASSUME ScaffoldInv, NEW g \in Gens, Going(g), GenOn(g)
    PROVE  \E m \in Maker : /\ maker' = [maker EXCEPT ![g] = m]
                            /\ \A there : Present \subseteq there => Spares(m, there)
<1> DEFINE e == <<>>
           s == maker[g].stages
           x == IF Len(s) = 1 THEN "done" ELSE "on"
           m == [maker[g] EXCEPT !.stages = Tail(s), !.todo = e, !.env = Absent, !.state = x]
<1>1. maker' = [maker EXCEPT ![g] = m]
    BY DEF GenOn, ScaffoldInv
<1>2. e \in FileMap /\ DOMAIN e = {}
    BY NoFiles
<1>3. s \in Seq(StageSet) /\ s # <<>>
    BY MakerIs DEF Going, Spares
<1>4. Tail(s) \in Seq(StageSet) /\ (Len(s) # 1 => Tail(s) # <<>>)
    <2> HIDE DEF s
    <2>1. Len(s) \in Nat \ {0} /\ Tail(s) \in Seq(StageSet) /\ Len(Tail(s)) = Len(s) - 1
        BY <1>3
    <2> QED
        BY <2>1
<1>4a. maker[g].found = {} \/ Tail(s) \in Seq(OtherStages)
    <2>1. maker[g].found = {} \/ s \in Seq(OtherStages)
        BY MakerIs DEF Spares
    <2> HIDE DEF s
    <2> QED
        BY <1>3, <2>1
<1>5. x \in {"done", "on"} /\ (x = "on" => Len(s) # 1)
    OBVIOUS
<1> HIDE DEF e, s, x
<1>6. /\ m \in Maker /\ m.state = x /\ m.order = maker[g].order /\ m.found = maker[g].found
      /\ m.todo = e /\ m.stages = Tail(s) /\ m.env = Absent
    BY <1>2, <1>4, <1>5, MakerIs DEF Maker
<1> HIDE DEF m
<1>7. \A there : Present \subseteq there => Spares(m, there)
    BY <1>2, <1>4, <1>4a, <1>5, <1>6, MakerIs DEF Spares
<1> QED
    BY <1>1, <1>6, <1>7

\* A step of g that is harmless and leaves it well.
LEMMA Ends ==
    ASSUME ScaffoldInv, NEW g \in Gens,
           \E m \in Maker : /\ maker' = [maker EXCEPT ![g] = m]
                            /\ \A there : Present \subseteq there => Spares(m, there),
           disk' \in [Paths -> File \cup {Absent}], secrets' \in Secrets,
           project' \in Manifest \cup {Absent}, UNCHANGED clock,
           Present \subseteq Present'
    PROVE  ScaffoldInv' /\ \A h \in Gens : h # g => maker'[h] = maker[h]
<1>1. PICK m \in Maker : /\ maker' = [maker EXCEPT ![g] = m]
                        /\ \A there : Present \subseteq there => Spares(m, there)
    OBVIOUS
<1>2. clock' \in 0..MaxSecond
    BY DEF ScaffoldInv, ScaffoldTypeOK
<1>3. \A h \in Gens : h # g => maker'[h] = maker[h]
    BY <1>1 DEF ScaffoldInv
<1> QED
    BY <1>1, <1>2, <1>3, MakerStep

LEMMA BeginStep ==
    ASSUME ScaffoldInv, NEW g \in Gens, GenBegin(g)
    PROVE  ScaffoldInv' /\ (\A h \in Gens : h # g => maker'[h] = maker[h]) /\ Harmless(g)
<1> DEFINE a == maker[g].order
           Starts(p) == maker' = [maker EXCEPT ![g].state = "on", ![g].stages = Stages(a, p),
                                        ![g].web = [db |-> p.db, web |-> p.web], ![g].found = Present]
<1>1. UNCHANGED <<disk, secrets, project, clock>> /\ maker[g].state = "ready"
    BY DEF GenBegin
<1>2. /\ disk' \in [Paths -> File \cup {Absent}] /\ secrets' \in Secrets
      /\ project' \in Manifest \cup {Absent} /\ Present \subseteq Present' /\ Harmless(g)
    BY <1>1 DEF ScaffoldInv, ScaffoldTypeOK, Present, Harmless
<1>3. ASSUME NEW p, Starts(p), IF a.kind = "new" THEN NewProject(p) /\ Present = {} ELSE p \in Manifest
      PROVE  \E m \in Maker : /\ maker' = [maker EXCEPT ![g] = m]
                              /\ \A there : Present \subseteq there => Spares(m, there)
    <2> DEFINE s == Stages(a, p)
               w == [db |-> p.db, web |-> p.web]
               m == [maker[g] EXCEPT !.state = "on", !.stages = s, !.web = w, !.found = Present]
    <2>1. maker' = [maker EXCEPT ![g] = m]
        BY <1>3 DEF ScaffoldInv
    <2>2. s \in Seq(StageSet) /\ s # <<>> /\ (Present = {} \/ s \in Seq(OtherStages))
        BY <1>3, StagesAre, MakerIs
    <2>3. w \in Manifest
        BY <1>3 DEF Manifest, NewProject, LookupDatabase, LookupWebMode
    <2>4. Present \subseteq Paths
        BY DEF Present
    <2> HIDE DEF s, w
    <2>5. m \in Maker /\ m.state = "on" /\ m.stages = s /\ m.found = Present /\ m.todo = maker[g].todo
          /\ m.env = maker[g].env
        BY <2>2, <2>3, <2>4, MakerIs DEF Maker
    <2> HIDE DEF m
    <2>6. DOMAIN maker[g].todo = {} /\ maker[g].env = Absent
        BY <1>1, MakerIs DEF Spares
    <2>7. \A there : Present \subseteq there => Spares(m, there)
        BY <2>2, <2>5, <2>6 DEF Spares
    <2> QED
        BY <2>1, <2>5, <2>7
<1>4. CASE GenFail(g)
    BY <1>1, <1>2, <1>4, FailIs, Ends
<1>5. CASE \E p \in answers(a) : CanStart(a, p) /\ Starts(p) /\ a.kind = "new"
    <2>1. PICK p \in answers(a) : CanStart(a, p) /\ Starts(p) /\ a.kind = "new"
        BY <1>5
    <2>2. NewProject(p) /\ Present = {}
        BY <2>1 DEF CanStart, checkDestination
    <2> HIDE DEF Starts
    <2> QED
        BY <1>1, <1>2, <1>3, <2>1, <2>2, Ends
<1>6. CASE a.kind # "new" /\ Applies(a) /\ Starts(project)
    <2>1. project \in Manifest
        BY <1>6 DEF Applies, ScaffoldInv, ScaffoldTypeOK
    <2> HIDE DEF Starts
    <2> QED
        BY <1>1, <1>2, <1>3, <1>6, <2>1, Ends
<1> QED
    BY <1>4, <1>5, <1>6 DEF GenBegin

LEMMA CheckStep ==
    ASSUME ScaffoldInv, NEW g \in Gens, GenCheck(g)
    PROVE  ScaffoldInv' /\ (\A h \in Gens : h # g => maker'[h] = maker[h]) /\ Harmless(g)
<1> USE ScaffoldAssumption
<1> DEFINE files == StageFiles(g)
<1>1. UNCHANGED <<disk, secrets, project, clock>> /\ Going(g) /\ maker[g].env = Absent
      /\ Stage(g).op \in {"files", "migration"}
    <2>1. Stage(g).op \notin {"key", "dsn"}
        BY DEF GenCheck
    <2> QED
        BY <2>1, MakerIs DEF GenCheck, Spares, Stage
<1>2. /\ disk' \in [Paths -> File \cup {Absent}] /\ secrets' \in Secrets
      /\ project' \in Manifest \cup {Absent} /\ Present \subseteq Present' /\ Harmless(g)
    BY <1>1 DEF ScaffoldInv, ScaffoldTypeOK, Present, Harmless
<1>3. CASE GenFail(g)
    BY <1>1, <1>2, <1>3, FailIs, Ends
<1>4. CASE /\ maker' = [maker EXCEPT ![g].todo = files]
           /\ ~maker[g].order.force => ~checkCollisions(files)
    <2>1. files \in FileMap
        <3>1. CASE Stage(g).op = "migration"
            <4>1. Stage(g).name \in MigrationNames /\ clock \in 0..MaxSecond
                BY <1>1, <3>1, MakerIs DEF StageSet, ScaffoldInv, ScaffoldTypeOK
            <4>2. <<Stage(g).name, clock>> \in Paths /\ <<"make">> \in Templates
                BY <4>1 DEF Paths, Templates
            <4> QED
                BY <3>1, <4>2, OneFile DEF StageFiles
        <3>2. CASE Stage(g).op # "migration"
            BY <1>1, <3>2, MakerIs DEF StageFiles, StageSet
        <3> QED
            BY <3>1, <3>2
    <2> HIDE DEF files
    <2> DEFINE m == [maker[g] EXCEPT !.todo = files]
    <2>2. maker' = [maker EXCEPT ![g] = m]
        BY <1>4 DEF ScaffoldInv
    <2>3. /\ m \in Maker /\ m.state = maker[g].state /\ m.order = maker[g].order /\ m.found = maker[g].found
          /\ m.stages = maker[g].stages /\ m.todo = files /\ m.env = maker[g].env
        BY <2>1, MakerIs DEF Maker
    <2> HIDE DEF m
    <2>4. \A there : Present \subseteq there => Spares(m, there)
        BY <1>1, <1>4, <2>3, MakerIs DEF Spares, Going, checkCollisions, Stage
    <2> QED
        BY <1>1, <1>2, <2>2, <2>3, <2>4, Ends
<1> QED
    BY <1>3, <1>4 DEF GenCheck

\* What a generator writes next is not yours.
LEMMA WritesSpare ==
    ASSUME ScaffoldInv, NEW g \in Gens, Writing(g)
    PROVE  /\ NextFile(maker[g].todo) \in DOMAIN maker[g].todo
           /\ maker[g].todo[NextFile(maker[g].todo)] \in Templates
           /\ ~maker[g].order.force => NextFile(maker[g].todo) \notin maker[g].found
<1>1. maker[g].todo \in FileMap /\ DOMAIN maker[g].todo # {}
    BY MakerIs DEF Writing
<1>2. NextFile(maker[g].todo) \in DOMAIN maker[g].todo
    BY <1>1, NextFileIs
<1> QED
    BY <1>1, <1>2, FileMapIs, MakerIs DEF Spares

LEMMA WriteStep ==
    ASSUME ScaffoldInv, NEW g \in Gens, writeFile(g)
    PROVE  ScaffoldInv' /\ (\A h \in Gens : h # g => maker'[h] = maker[h]) /\ Harmless(g)
<1> USE ScaffoldAssumption
<1> DEFINE todo == maker[g].todo
           f == NextFile(todo)
           left == [h \in DOMAIN todo \ {f} |-> todo[h]]
           r == [from |-> todo[f], edits |-> 0]
<1>1. Going(g) /\ Writing(g) /\ UNCHANGED clock /\ maker[g].env = Absent
    BY MakerIs DEF writeFile, Spares, Writing
<1>2. /\ disk' = [disk EXCEPT ![f] = r]
      /\ secrets' = IF f = EnvFile THEN [key |-> g, dsn |-> "default"] ELSE secrets
      /\ project' = IF f = ManifestFile THEN maker[g].web ELSE project
      /\ IF DOMAIN left = {} THEN GenOn(g) ELSE maker' = [maker EXCEPT ![g].todo = left]
    BY DEF writeFile
<1>3. f \in DOMAIN todo /\ todo[f] \in Templates /\ (~maker[g].order.force => f \notin maker[g].found)
    BY <1>1, WritesSpare
<1>4. todo \in FileMap
    BY MakerIs
<1>5. left \in FileMap /\ DOMAIN left \subseteq DOMAIN todo
    <2>1. DOMAIN todo \ {f} \in SUBSET DOMAIN todo
        OBVIOUS
    <2> QED
        BY <1>4, <2>1, FileMapIs
<1>6. r \in File
    BY <1>3 DEF File
<1> HIDE DEF f, r, left
<1>7. /\ disk' \in [Paths -> File \cup {Absent}] /\ Present \subseteq Present'
      /\ \A h \in Paths : h # f => disk'[h] = disk[h]
    BY <1>2, <1>6, FileStays DEF ScaffoldInv
<1>8. secrets' \in Secrets /\ project' \in Manifest \cup {Absent}
    BY <1>2, MakerIs DEF Secrets, ScaffoldInv, ScaffoldTypeOK
<1>9. Harmless(g)
    <2>1. EnvFile \in maker[g].found /\ ~maker[g].order.force => disk'[EnvFile] = disk[EnvFile] /\ secrets' = secrets
        BY <1>2, <1>3, <1>7, MakerIs
    <2>2. ~maker[g].order.force => \A h \in maker[g].found : disk'[h] = disk[h]
        BY <1>3, <1>7, MakerIs
    <2> QED
        BY <2>1, <2>2 DEF Harmless
<1>10. CASE DOMAIN left = {}
    BY <1>1, <1>2, <1>7, <1>8, <1>9, <1>10, GenOnIs, Ends
<1>11. CASE DOMAIN left # {}
    <2> DEFINE m == [maker[g] EXCEPT !.todo = left]
    <2>1. maker' = [maker EXCEPT ![g] = m]
        BY <1>2, <1>11 DEF ScaffoldInv
    <2>2. /\ m \in Maker /\ m.state = maker[g].state /\ m.order = maker[g].order /\ m.found = maker[g].found
          /\ m.stages = maker[g].stages /\ m.todo = left /\ m.env = Absent
        BY <1>1, <1>5, MakerIs DEF Maker
    <2> HIDE DEF m
    <2>3. \A there : Present \subseteq there => Spares(m, there)
        BY <1>1, <1>5, <2>2, MakerIs DEF Spares, Going
    <2> QED
        BY <1>1, <1>7, <1>8, <1>9, <2>1, <2>2, <2>3, Ends
<1> QED
    BY <1>10, <1>11

\* What changes no file.
LEMMA NothingWritten ==
    ASSUME ScaffoldInv, NEW g \in Gens, UNCHANGED <<disk, secrets, project, clock>>
    PROVE  /\ disk' \in [Paths -> File \cup {Absent}] /\ secrets' \in Secrets
           /\ project' \in Manifest \cup {Absent} /\ Present \subseteq Present' /\ Harmless(g)
BY DEF ScaffoldInv, ScaffoldTypeOK, Present, Harmless

\* .env is read, for a key where there is none or with --force.
LEMMA ReadStep ==
    ASSUME ScaffoldInv, NEW g \in Gens, setEnvDSN(g) \/ keyGenerate(g)
    PROVE  ScaffoldInv' /\ (\A h \in Gens : h # g => maker'[h] = maker[h]) /\ Harmless(g)
<1> USE ScaffoldAssumption
<1>1. /\ UNCHANGED <<disk, secrets, project, clock>> /\ Going(g) /\ Stage(g).op \in {"key", "dsn"}
      /\ \/ GenFail(g)
         \/ /\ maker' = [maker EXCEPT ![g].env = [file |-> disk[EnvFile], secrets |-> secrets]]
            /\ disk[EnvFile] # Absent
            /\ Stage(g).op = "key" => secrets.key = Absent \/ maker[g].order.force
    BY DEF setEnvDSN, keyGenerate, ReadsEnv
<1>2. CASE GenFail(g)
    BY <1>1, <1>2, FailIs, NothingWritten, Ends
<1>3. CASE /\ maker' = [maker EXCEPT ![g].env = [file |-> disk[EnvFile], secrets |-> secrets]]
           /\ disk[EnvFile] # Absent
           /\ Stage(g).op = "key" => secrets.key = Absent \/ maker[g].order.force
    <2>1. EnvFile \in Paths /\ secrets \in Secrets
        BY DEF Paths, ScaffoldInv, ScaffoldTypeOK
    <2>2. PICK e \in Env : e = [file |-> disk[EnvFile], secrets |-> secrets]
        BY <1>3, <2>1 DEF Env, ScaffoldInv, ScaffoldTypeOK
    <2> DEFINE m == [maker[g] EXCEPT !.env = e]
    <2>3. maker' = [maker EXCEPT ![g] = m]
        BY <1>3, <2>2 DEF ScaffoldInv
    <2>4. /\ m \in Maker /\ m.state = maker[g].state /\ m.order = maker[g].order /\ m.found = maker[g].found
          /\ m.stages = maker[g].stages /\ m.todo = maker[g].todo /\ m.env = e
        BY MakerIs DEF Maker
    <2> HIDE DEF m
    <2>5. e.secrets.key = secrets.key
        BY <2>2
    <2>6. DOMAIN maker[g].todo = {}
        BY <1>1, MakerIs DEF Spares, Going, Stage
    <2>7. \A there : Present \subseteq there => Spares(m, there)
        BY <1>1, <1>3, <2>4, <2>5, <2>6, MakerIs DEF Spares, Going, Stage
    <2> QED
        BY <1>1, <2>3, <2>4, <2>7, NothingWritten, Ends
<1> QED
    BY <1>1, <1>2, <1>3

LEMMA ToolchainStep ==
    ASSUME ScaffoldInv, NEW g \in Gens, Toolchain(g)
    PROVE  ScaffoldInv' /\ (\A h \in Gens : h # g => maker'[h] = maker[h]) /\ Harmless(g)
BY GenOnIs, NothingWritten, Ends DEF Toolchain

\* What a generator that has read .env writes back, and whose it was.
LEMMA EnvIs ==
    ASSUME ScaffoldInv, NEW g \in Gens, maker[g].env # Absent
    PROVE  /\ Going(g) /\ ~Writing(g) /\ maker[g].env.file \in File /\ Updated(g) \in Secrets
           /\ Updated(g).key \in Gens \cup {"yours", Absent} /\ Updated(g).dsn \in {"default", "external", Absent}
           /\ EnvFile \in maker[g].found => Stage(g).op = "key"
           /\ EnvFile \in maker[g].found /\ ~maker[g].order.force => maker[g].env.secrets.key = Absent
<1>1. maker[g].env \in Env
    BY MakerIs
<1>2. maker[g].env.file \in File /\ maker[g].env.secrets \in Secrets
    BY <1>1 DEF Env
<1>3. Updated(g) \in Secrets
    <2>1. [maker[g].env.secrets EXCEPT !.key = g] \in Secrets
        BY <1>2 DEF Secrets
    <2>2. [maker[g].env.secrets EXCEPT !.dsn = "external"] \in Secrets
        BY <1>2 DEF Secrets
    <2> QED
        BY <2>1, <2>2 DEF Updated
<1>4. Updated(g).key \in Gens \cup {"yours", Absent} /\ Updated(g).dsn \in {"default", "external", Absent}
    BY <1>3 DEF Secrets
<1>5. EnvFile \in maker[g].found => Stage(g).op = "key"
    BY MakerIs
<1> QED
    BY <1>2, <1>3, <1>4, <1>5, MakerIs DEF Spares, Going, Writing, Stage

LEMMA WriteEnvStep ==
    ASSUME ScaffoldInv, NEW g \in Gens, writeEnv(g)
    PROVE  ScaffoldInv' /\ (\A h \in Gens : h # g => maker'[h] = maker[h]) /\ Harmless(g)
<1> USE ScaffoldAssumption
<1>1. /\ Going(g) /\ maker[g].env # Absent /\ GenOn(g) /\ UNCHANGED <<project, clock>>
      /\ disk' = [disk EXCEPT ![EnvFile] = maker[g].env.file] /\ secrets' = Updated(g)
    BY DEF writeEnv
<1>2. EnvFile \in Paths /\ disk \in [Paths -> File \cup {Absent}]
    BY DEF Paths, ScaffoldInv, ScaffoldTypeOK
<1>3. /\ disk' \in [Paths -> File \cup {Absent}] /\ Present \subseteq Present'
      /\ \A h \in Paths : h # EnvFile => disk'[h] = disk[h]
    BY <1>1, EnvIs, FileStays DEF ScaffoldInv
<1>4. secrets' \in Secrets /\ project' \in Manifest \cup {Absent}
    BY <1>1, EnvIs DEF ScaffoldInv, ScaffoldTypeOK
<1>5. Harmless(g)
    <2>1. \A f \in maker[g].found \ {EnvFile} : disk'[f] = disk[f]
        BY <1>3, MakerIs
    <2>2. ASSUME EnvFile \in maker[g].found, maker[g].env = [file |-> disk[EnvFile], secrets |-> secrets]
          PROVE  disk'[EnvFile] = disk[EnvFile] /\ secrets' = [secrets EXCEPT !.key = g]
        <3>1. maker[g].env.file = disk[EnvFile] /\ maker[g].env.secrets = secrets
            BY <2>2
        <3>2. Stage(g).op = "key"
            BY <1>1, <2>2, EnvIs
        <3> QED
            BY <1>1, <1>2, <3>1, <3>2 DEF Updated
    <2> QED
        BY <1>1, <2>1, <2>2, EnvIs DEF Harmless
<1> QED
    BY <1>1, <1>3, <1>4, <1>5, GenOnIs, Ends

LEMMA ErrorStep ==
    ASSUME ScaffoldInv, NEW g \in Gens, GenError(g)
    PROVE  ScaffoldInv' /\ (\A h \in Gens : h # g => maker'[h] = maker[h]) /\ Harmless(g)
<1> USE ScaffoldAssumption
<1> DEFINE f == IF Writing(g) THEN NextFile(maker[g].todo) ELSE EnvFile
           content == IF Writing(g) THEN [key |-> g, dsn |-> "default"] ELSE Updated(g)
           r == [from |-> <<"partial">>, edits |-> 0]
<1>1. UNCHANGED clock /\ GenFail(g)
    BY DEF GenError
<1>2. \/ UNCHANGED <<disk, secrets, project>>
      \/ /\ Writing(g) \/ maker[g].env # Absent
         /\ disk' = [disk EXCEPT ![f] = r]
         /\ secrets' \in IF f = EnvFile THEN CutShort(content) ELSE {secrets}
         /\ project' \in IF f = ManifestFile THEN {maker[g].web, Absent} ELSE {project}
    BY DEF GenError
<1>3. CASE UNCHANGED <<disk, secrets, project>>
    BY <1>1, <1>3, NothingWritten, FailIs, Ends
<1>4. CASE /\ Writing(g) \/ maker[g].env # Absent
           /\ disk' = [disk EXCEPT ![f] = r]
           /\ secrets' \in IF f = EnvFile THEN CutShort(content) ELSE {secrets}
           /\ project' \in IF f = ManifestFile THEN {maker[g].web, Absent} ELSE {project}
    <2>1. r \in File
        BY DEF File, Templates
    <2>2. Writing(g) /\ ~maker[g].order.force => f \notin maker[g].found
        BY WritesSpare
    <2>3. content.key \in Gens \cup {"yours", Absent} /\ content.dsn \in {"default", "external", Absent}
        BY <1>4, EnvIs
    <2>4. CutShort(content) \subseteq Secrets
        BY <2>3 DEF CutShort, Secrets
    <2>5. ~Writing(g) => f = EnvFile
        OBVIOUS
    <2> HIDE DEF f, content, r
    <2>6. /\ disk' \in [Paths -> File \cup {Absent}] /\ Present \subseteq Present'
          /\ \A h \in Paths : h # f => disk'[h] = disk[h]
        BY <1>4, <2>1, FileStays DEF ScaffoldInv
    <2>7. secrets' \in Secrets /\ project' \in Manifest \cup {Absent}
        BY <1>4, <2>4, MakerIs DEF ScaffoldInv, ScaffoldTypeOK
    <2>8. maker'[g].state = "failed"
        BY <1>1, MakerIs DEF GenFail, ScaffoldInv, Maker
    <2>9. EnvFile \in Paths
        BY DEF Paths
    <2>10. CASE Writing(g)
        <3>1. ~maker[g].order.force => \A h \in maker[g].found : disk'[h] = disk[h]
            BY <2>2, <2>6, <2>10, MakerIs
        <3>2. ~maker[g].order.force /\ EnvFile \in maker[g].found => secrets' = secrets
            BY <1>4, <2>2, <2>10
        <3> QED
            BY <1>1, <2>6, <2>7, <3>1, <3>2, FailIs, Ends DEF Harmless
    <2>11. CASE ~Writing(g)
        <3>1. \A h \in maker[g].found \ {EnvFile} : disk'[h] = disk[h]
            BY <2>5, <2>6, <2>11, MakerIs
        <3>2. Harmless(g)
            BY <1>4, <2>8, <2>11, <3>1, EnvIs DEF Harmless
        <3> QED
            BY <1>1, <2>6, <2>7, <3>2, FailIs, Ends
    <2> QED
        BY <2>10, <2>11
<1> QED
    BY <1>2, <1>3, <1>4

\* The developer and the clock: no generator changes.
LEMMA OutsideStep ==
    ASSUME ScaffoldInv, UNCHANGED maker,
           disk' \in [Paths -> File \cup {Absent}], secrets' \in Secrets, UNCHANGED project, clock' \in 0..MaxSecond,
           Present \subseteq Present'
    PROVE  ScaffoldInv'
BY DEF ScaffoldInv, ScaffoldTypeOK, Spares

LEMMA EditStep ==
    ASSUME ScaffoldInv, NEW f \in DOMAIN Rank, EditFile(f)
    PROVE  ScaffoldInv'
<1> USE ScaffoldAssumption
<1> DEFINE r == [from |-> IF disk[f] = Absent THEN <<"you">> ELSE disk[f].from,
                 edits |-> IF disk[f] = Absent THEN 1 ELSE disk[f].edits + 1]
<1>1. UNCHANGED <<project, clock, maker>> /\ disk' = [disk EXCEPT ![f] = r]
    BY DEF EditFile, ScaffoldInv, ScaffoldTypeOK
<1>1a. secrets' \in Secrets
    <2>1. secrets \in Secrets
        BY DEF ScaffoldInv, ScaffoldTypeOK
    <2>2. [secrets EXCEPT !.key = "yours"] \in Secrets /\ [secrets EXCEPT !.dsn = Absent] \in Secrets
        BY <2>1 DEF Secrets
    <2> QED
        BY <2>1, <2>2 DEF EditFile
<1>2. f \in Paths
    BY DEF Paths
<1>3. r \in File
    <2>1. CASE disk[f] = Absent
        BY <2>1 DEF File, Templates
    <2>2. CASE disk[f] # Absent
        <3>1. disk[f] \in File /\ f \in Present
            BY <1>2, <2>2 DEF ScaffoldInv, ScaffoldTypeOK, Present
        <3>2. disk[f].edits < MaxEdits
            BY <3>1 DEF EditFile
        <3> QED
            BY <2>2, <3>1, <3>2 DEF File
    <2> QED
        BY <2>1, <2>2
<1> HIDE DEF r
<1>4. disk' \in [Paths -> File \cup {Absent}] /\ Present \subseteq Present'
    BY <1>1, <1>3, FileStays DEF ScaffoldInv
<1>5. clock' \in 0..MaxSecond
    BY <1>1 DEF ScaffoldInv, ScaffoldTypeOK
<1> QED
    BY <1>1, <1>1a, <1>4, <1>5, OutsideStep

LEMMA ScaffoldStep ==
    ASSUME ScaffoldInv, [ScaffoldNext]_scaffoldVars
    PROVE  /\ ScaffoldInv'
           /\ \A g \in Gens : maker'[g] # maker[g] => Harmless(g)
<1> USE ScaffoldAssumption
<1>1. ASSUME NEW g \in Gens,
             GenBegin(g) \/ GenCheck(g) \/ writeFile(g) \/ setEnvDSN(g) \/ keyGenerate(g)
             \/ writeEnv(g) \/ Toolchain(g) \/ GenError(g)
      PROVE  ScaffoldInv' /\ \A h \in Gens : maker'[h] # maker[h] => Harmless(h)
    <2>1. ScaffoldInv' /\ (\A h \in Gens : h # g => maker'[h] = maker[h]) /\ Harmless(g)
        BY <1>1, BeginStep, CheckStep, WriteStep, ReadStep, WriteEnvStep, ToolchainStep, ErrorStep
    <2> QED
        BY <2>1
<1>2. ASSUME NEW f \in DOMAIN Rank \ {ManifestFile}, EditFile(f)
      PROVE  ScaffoldInv' /\ \A h \in Gens : maker'[h] # maker[h] => Harmless(h)
    <2>1. UNCHANGED maker
        BY <1>2 DEF EditFile
    <2> QED
        BY <1>2, <2>1, EditStep
<1>3. CASE NextSecond
    <2>1. clock' \in 0..MaxSecond /\ UNCHANGED <<disk, secrets, project, maker>>
        BY <1>3 DEF NextSecond, ScaffoldInv, ScaffoldTypeOK
    <2>2. disk' \in [Paths -> File \cup {Absent}] /\ Present \subseteq Present' /\ secrets' \in Secrets
        BY <2>1 DEF ScaffoldInv, ScaffoldTypeOK, Present
    <2> QED
        BY <2>1, <2>2, OutsideStep
<1>4. CASE UNCHANGED scaffoldVars
    <2>1. UNCHANGED <<disk, secrets, project, clock, maker>>
        BY <1>4 DEF scaffoldVars
    <2>2. disk' \in [Paths -> File \cup {Absent}] /\ Present \subseteq Present' /\ clock' \in 0..MaxSecond
          /\ secrets' \in Secrets
        BY <2>1 DEF ScaffoldInv, ScaffoldTypeOK, Present
    <2> QED
        BY <2>1, <2>2, OutsideStep
<1> QED
    BY <1>1, <1>2, <1>3, <1>4 DEF ScaffoldNext

LEMMA ScaffoldAlways == ScaffoldSpec => []ScaffoldInv
<1>1. ScaffoldInv /\ [ScaffoldNext]_scaffoldVars => ScaffoldInv'
    BY ScaffoldStep
<1> QED
    BY <1>1, ScaffoldInitInv, PTL DEF ScaffoldSpec

\* Files, secrets, manifest, clock and generators keep to their types, whichever commands
\* run side by side and wherever they fail.
THEOREM ScaffoldTyped == ScaffoldSpec => []ScaffoldTypeOK
<1>1. ScaffoldInv => ScaffoldTypeOK
    BY DEF ScaffoldInv
<1> QED
    BY <1>1, ScaffoldAlways, PTL

\* Without --force a command changes no file that was there when it began, for any
\* templates, orders and number of generators side by side, while the developer edits
\* and whatever fails; but for a .env without a key, which key:generate writes back as
\* it has read it, with the key (scaffold.go: checkCollisions, Run; key.go).
THEOREM NothingOverwritten == ScaffoldSpec => KeepsYours
<1> DEFINE Kept == \A g \in Gens : maker'[g] # maker[g] /\ ~maker[g].order.force =>
          /\ \A f \in maker[g].found \ {EnvFile} : disk'[f] = disk[f]
          /\ EnvFile \in maker[g].found /\ <<disk'[EnvFile], secrets'>> # <<disk[EnvFile], secrets>> =>
                /\ maker[g].env # Absent /\ maker[g].env.secrets.key = Absent
                /\ maker[g].env = [file |-> disk[EnvFile], secrets |-> secrets] /\ maker'[g].state # "failed" =>
                      disk'[EnvFile] = disk[EnvFile] /\ secrets' = [secrets EXCEPT !.key = g]
<1>1. ScaffoldInv /\ [ScaffoldNext]_scaffoldVars => [Kept]_scaffoldVars
    BY ScaffoldStep DEF Harmless
<1>2. KeepsYours <=> [][Kept]_scaffoldVars
    BY DEF KeepsYours
<1> HIDE DEF Kept
<1> QED
    BY <1>1, <1>2, ScaffoldAlways, PTL DEF ScaffoldSpec
-----------------------------------------------------------------------------
(* ry dev.                                                                 *)

\* The event of a save, and whether the loop will hear of it: the event waits, was taken
\* and the timer runs, or was dropped.
Changed(f) == [op |-> "write", path |-> f]
Known(f) == pending \/ missed \/ Changed(f) \in events

WatchInv == OldDirs \subseteq dirs /\ (loop # "begin" => \A f \in Followed : Front(f) \in watched)

\* What has been read of a file since the rebuild began is the file as it is, or the loop
\* will hear of the change; and what kept a build from succeeding is still there, or the
\* loop will hear that it is not.
BuildInv ==
    /\ loop = "start" => attempt.broken = {}
    /\ loop = "select" => cancelled \/ attempt.broken # {} \/ server.state # "off"
    /\ \A f \in Followed :
        /\ loop = "build" /\ f \in Views => gen[f] = saved[f] \/ Known(f)
        /\ loop = "compile" => attempt.src[f] = saved[f] \/ Known(f)
        /\ loop = "start" => bin[f] = saved[f] \/ Known(f)
        /\ loop = "select" => cancelled \/ attempt.broken # {} \/ server.build[f] = saved[f] \/ Known(f)
        /\ loop \in {"compile", "select"} /\ f \in attempt.broken => f \in broken \/ Known(f)

\* An instance has one build, and an open stream is of the instance that runs.
PageInv(g) ==
    /\ g.at \in {"html", "script", "reload"} /\ g.served = server.boot => g.build = server.build
    /\ g.open => /\ g.at \in {"script", "reload"} /\ server.state \in {"up", "draining"}
                 /\ g.at = "script" => g.boot = server.boot

DevInv == DevTypeOK /\ WatchInv /\ OneChild /\ BuildInv /\ \A p \in Pages : PageInv(page[p])

\* What is not ignored is in a directory that is not ignored.
LEMMA FrontNotIgnored ==
    ASSUME NEW f \in Files, ~ignored(f)
    PROVE  Front(f) \in Seq(STRING) /\ ~ignored(Front(f))
<1> DEFINE d == Front(f)
<1>1. f \in Seq(STRING) /\ f # <<>>
    BY PathsAssumption
<1>2. /\ Len(f) \in Nat \ {0} /\ DOMAIN f = 1..Len(f)
      /\ d \in Seq(STRING) /\ Len(d) = Len(f) - 1 /\ DOMAIN d = 1..Len(d)
      /\ \A i \in DOMAIN d : i \in DOMAIN f /\ d[i] = f[i]
    <2>1. Len(f) \in Nat \ {0} /\ DOMAIN f = 1..Len(f)
        BY <1>1
    <2>2. d = SubSeq(f, 1, Len(f) - 1)
        BY DEF Front
    <2> HIDE DEF d
    <2>3. d \in Seq(STRING) /\ Len(d) = Len(f) - 1
        BY <1>1, <2>1, <2>2
    <2>4. \A i \in 1..(Len(f) - 1) : d[i] = f[i]
        BY <1>1, <2>1, <2>2
    <2> QED
        BY <2>1, <2>3, <2>4
<1>3. ASSUME NEW ig \in Ignores, Len(ig) = 1, ig[1] \in Range(d)
      PROVE  ig[1] \in Range(f)
    BY <1>2, <1>3 DEF Range
<1>4. ASSUME NEW ig \in Ignores, IsPrefix(ig, d)
      PROVE  IsPrefix(ig, f)
    <2>1. ig \in Seq(STRING) /\ Len(ig) \in Nat
        BY PathsAssumption
    <2>2. Len(ig) <= Len(d) /\ SubSeq(ig, 1, Len(ig)) = SubSeq(d, 1, Len(ig))
        BY <1>4 DEF IsPrefix
    <2>3. SubSeq(d, 1, Len(ig)) = SubSeq(f, 1, Len(ig))
        BY <1>1, <1>2, <2>1, <2>2
    <2> QED
        BY <1>2, <2>1, <2>2, <2>3 DEF IsPrefix
<1>5. ASSUME NEW i \in DOMAIN d, d[i] \in HiddenNames
      PROVE  \E j \in DOMAIN f : f[j] \in HiddenNames
    BY <1>2, <1>5
<1> HIDE DEF d
<1> QED
    BY <1>2, <1>3, <1>4, <1>5 DEF ignored, d

\* The walk that Run starts with finds the directory of every file that is followed.
LEMMA WalkFinds ==
    ASSUME OldDirs \subseteq dirs, NEW f \in Followed
    PROVE  Front(f) \in addDirs(<<>>)
<1> DEFINE d == Front(f)
           r == <<>>
<1>1. d \in dirs /\ d \in Seq(STRING) /\ ~ignored(d)
    BY FrontNotIgnored DEF Followed
<1>2. Len(r) = 0 /\ r \in Seq(STRING)
    OBVIOUS
<1>3. SubSeq(d, Len(r) + 1, Len(d)) = d
    BY <1>1, <1>2
<1>4. IsPrefix(r, d)
    BY <1>1, <1>2 DEF IsPrefix
<1> HIDE DEF d
<1> QED
    BY <1>1, <1>3, <1>4 DEF addDirs, d

\* A save of a file that is followed counts.
LEMMA SaveCounts ==
    ASSUME NEW f \in Followed
    PROVE  relevant(Changed(f)) /\ f \in Files
BY PathsAssumption DEF relevant, Changed, Followed

\* There is a boot id that neither the server nor a page has seen.
LEMMA FreshBoot ==
    ASSUME page \in [Pages -> Page]
    PROVE  newBootID \in Boots /\ newBootID # server.boot /\ \A p \in Pages : newBootID \notin {page[p].served, page[p].boot}
<1> USE DevLoopAssumption
<1> DEFINE s == [p \in Pages |-> page[p].served]
           b == [p \in Pages |-> page[p].boot]
           S == {page[p].served : p \in Pages}
           B == {page[p].boot : p \in Pages}
           U == {server.boot} \cup S \cup B
<1>1. IsFiniteSet(S) /\ Cardinality(S) \in Nat /\ Cardinality(S) <= Cardinality(Pages)
    <2>1. s \in Surjection(Pages, S)
        BY DEF Surjection
    <2> QED
        BY <2>1, FS_Surjection, FS_CardinalityType
<1>2. IsFiniteSet(B) /\ Cardinality(B) \in Nat /\ Cardinality(B) <= Cardinality(Pages)
    <2>1. b \in Surjection(Pages, B)
        BY DEF Surjection
    <2> QED
        BY <2>1, FS_Surjection, FS_CardinalityType
<1>3. IsFiniteSet({server.boot}) /\ Cardinality({server.boot}) = 1
    BY FS_Singleton
<1> HIDE DEF S, B
<1>4. IsFiniteSet({server.boot} \cup S) /\ Cardinality({server.boot} \cup S) <= 1 + Cardinality(S)
      /\ Cardinality({server.boot} \cup S) \in Nat
    <2>1. /\ IsFiniteSet({server.boot} \cup S)
          /\ Cardinality({server.boot} \cup S) = Cardinality({server.boot}) + Cardinality(S) - Cardinality({server.boot} \cap S)
        BY <1>1, <1>3, FS_Union
    <2>2. IsFiniteSet({server.boot} \cap S) /\ Cardinality({server.boot} \cap S) \in Nat
        BY <1>3, FS_Intersection, FS_CardinalityType
    <2> QED
        BY <1>1, <1>3, <2>1, <2>2, FS_CardinalityType
<1>5. IsFiniteSet(U) /\ Cardinality(U) \in Nat /\ Cardinality(U) <= 1 + Cardinality(S) + Cardinality(B)
    <2> DEFINE T == {server.boot} \cup S
    <2>0. IsFiniteSet(T) /\ Cardinality(T) \in Nat /\ Cardinality(T) <= 1 + Cardinality(S)
        BY <1>4
    <2> HIDE DEF T
    <2>1. /\ IsFiniteSet(T \cup B)
          /\ Cardinality(T \cup B) = Cardinality(T) + Cardinality(B) - Cardinality(T \cap B)
        BY <1>2, <2>0, FS_Union
    <2>2. IsFiniteSet(T \cap B) /\ Cardinality(T \cap B) \in Nat
        BY <2>0, FS_Intersection, FS_CardinalityType
    <2>3. Cardinality(T \cup B) \in Nat
        BY <2>1, FS_CardinalityType
    <2> QED
        BY <1>1, <1>2, <2>0, <2>1, <2>2, <2>3 DEF T
<1>6. Cardinality(Boots) \in Nat /\ Cardinality(Pages) \in Nat
    BY FS_CardinalityType
<1> HIDE DEF U
<1>7. ~(Boots \subseteq U)
    <2> SUFFICES ASSUME Boots \in SUBSET U PROVE FALSE
        OBVIOUS
    <2>1. Cardinality(Boots) <= Cardinality(U)
        BY <1>5, FS_Subset
    <2> QED
        BY <1>1, <1>2, <1>5, <1>6, <2>1
<1>8. \E x \in Boots : x # server.boot /\ \A p \in Pages : x \notin {page[p].served, page[p].boot}
    BY <1>7 DEF U, S, B
<1> QED
    BY <1>8 DEF newBootID

\* What is reported is added or dropped, and nothing that waits is lost.
LEMMA NotifyIs ==
    ASSUME DevTypeOK, NEW op \in {"write", "create"}, NEW path, Notify(op, path)
    PROVE  /\ events \subseteq events' /\ (missed => missed') /\ missed' \in BOOLEAN
           /\ \A e \in events' : e.op \in {"write", "create"}
           /\ Front(path) \in watched => missed' \/ [op |-> op, path |-> path] \in events'
<1> DEFINE e == [op |-> op, path |-> path]
<1>1. e.op \in {"write", "create"}
    OBVIOUS
<1>2. /\ Front(path) \notin watched => UNCHANGED <<events, missed>>
      /\ Front(path) \in watched =>
            \/ events' = events \cup {e} /\ UNCHANGED missed
            \/ events' = events /\ missed' = (missed \/ e \notin events)
    BY DEF Notify
<1>3. missed \in BOOLEAN /\ \A x \in events : x.op \in {"write", "create"}
    BY DEF DevTypeOK
<1> HIDE DEF e
<1> QED
    BY <1>1, <1>2, <1>3 DEF e

LEMMA CurrentIs == ASSUME DevTypeOK PROVE Current \in Sources
BY DEF DevTypeOK, Current, Sources

LEMMA PageShapes ==
    ASSUME DevTypeOK
    PROVE  /\ \A at \in {"closed", "mute", "error"} :
                /\ Empty(at) \in Page /\ Empty(at).at = at /\ ~Empty(at).open
           /\ Fresh \in Page /\ Fresh.at = "html" /\ ~Fresh.open
           /\ Fresh.served = server.boot /\ Fresh.build = server.build
<1>1. \E b \in Boots : TRUE
    BY FreshBoot DEF DevTypeOK
<1>2. Nothing \in Sources
    BY DEF Nothing, Sources
<1>3. \A at \in {"closed", "mute", "error"} : Empty(at) \in Page /\ Empty(at).at = at /\ ~Empty(at).open
    BY <1>1, <1>2 DEF Empty, Page
<1>4. server.boot \in Boots /\ server.build \in Sources
    BY DEF DevTypeOK, Server
<1>5. /\ Fresh \in Page /\ Fresh.at = "html" /\ ~Fresh.open
      /\ Fresh.served = server.boot /\ Fresh.build = server.build
    BY <1>4 DEF Fresh, Page
<1> QED
    BY <1>3, <1>5

LEMMA DevInitType == DevInit => DevTypeOK
<1> SUFFICES ASSUME DevInit PROVE DevTypeOK
    OBVIOUS
<1>1. Nothing \in Sources
    BY DEF Nothing, Sources
<1>2. \E b \in Boots : TRUE
    <2>1. Cardinality(Boots) # 0
        BY DevLoopAssumption, FS_CardinalityType
    <2> QED
        BY <2>1, FS_EmptySet
<1>3. Empty("closed") \in Page
    BY <1>1, <1>2 DEF Empty, Page
<1>4. page \in [Pages -> Page]
    BY <1>3 DEF DevInit
<1>5. server \in Server
    BY <1>1, <1>2 DEF DevInit, Server
<1>6. attempt \in [src: Sources, broken: SUBSET Files]
    BY <1>1 DEF DevInit, NoAttempt
<1> QED
    BY <1>1, <1>4, <1>5, <1>6 DEF DevInit, DevTypeOK

\* Only pages and the child change.
LEMMA OutsideType ==
    ASSUME DevTypeOK, UNCHANGED <<sourceVars, watchVars>>, server' \in Server, page' \in [Pages -> Page]
    PROVE  DevTypeOK'
BY DEF DevTypeOK, sourceVars, watchVars

LEMMA ShowType ==
    ASSUME DevTypeOK, NEW p \in Pages, NEW r \in Page, Show(p, r)
    PROVE  DevTypeOK' /\ page'[p] = r /\ \A q \in Pages : q # p => page'[q] = page[q]
<1>1. page' = [page EXCEPT ![p] = r] /\ UNCHANGED <<sourceVars, watchVars, server>>
    BY DEF Show
<1>2. page' \in [Pages -> Page] /\ page'[p] = r /\ \A q \in Pages : q # p => page'[q] = page[q]
    BY <1>1 DEF DevTypeOK
<1>3. server' \in Server
    BY <1>1 DEF DevTypeOK
<1> QED
    BY <1>1, <1>2, <1>3, OutsideType

\* What the browser does shows one page of the type.
LEMMA BrowserShows ==
    ASSUME DevTypeOK, NEW p \in Pages, PageInv(page[p]),
           Visit(p) \/ LoadScript(p) \/ Connect(p) \/ Reload(p) \/ StreamEnds(p)
    PROVE  \E r \in Page : Show(p, r) /\
             \/ r = Fresh /\ server.state = "up"
             \/ r.at \in {"mute", "error"} /\ ~r.open
             \/ /\ r.served = page[p].served /\ r.build = page[p].build
                /\ page[p].at \in {"html", "script", "reload"} \/ page[p].at = r.at
                /\ \/ ~r.open
                   \/ /\ server.state = "up" /\ r.at \in {"script", "reload"}
                      /\ r.at = "script" => r.boot = server.boot
<1> DEFINE g == page[p]
<1>1. g \in Page /\ server.boot \in Boots
    BY DEF DevTypeOK, Server
<1>2. CASE Visit(p)
    BY <1>2, PageShapes DEF Visit
<1>3. CASE LoadScript(p)
    <2>1. CASE server.state = "up"
        <3> DEFINE r == [g EXCEPT !.at = "script"]
        <3>1. g.at = "html" /\ Show(p, r)
            BY <1>3, <2>1 DEF LoadScript
        <3>2. r \in Page /\ r.served = g.served /\ r.build = g.build /\ r.open = g.open
            BY <1>1 DEF Page
        <3>3. ~g.open
            BY <3>1 DEF PageInv
        <3> HIDE DEF r
        <3> QED
            BY <3>1, <3>2, <3>3
    <2>2. CASE server.state # "up"
        BY <1>3, <2>2, PageShapes DEF LoadScript
    <2> QED
        BY <2>1, <2>2
<1>4. CASE Connect(p)
    <2> DEFINE b == IF g.boot = None THEN server.boot ELSE g.boot
               x == IF g.boot \in {None, server.boot} THEN g.at ELSE "reload"
               r == [g EXCEPT !.open = TRUE, !.boot = b, !.at = x]
    <2>1. g.at = "script" /\ server.state = "up" /\ Show(p, r)
        BY <1>4 DEF Connect
    <2>2. b \in Boots \cup {None} /\ x \in {"script", "reload"} /\ (x = "script" => b = server.boot)
        BY <1>1, <2>1 DEF Page
    <2> HIDE DEF b, x
    <2>3. r \in Page /\ r.served = g.served /\ r.build = g.build /\ r.at = x /\ r.boot = b
        BY <1>1, <2>2 DEF Page
    <2> HIDE DEF r
    <2> QED
        BY <2>1, <2>2, <2>3
<1>5. CASE Reload(p)
    BY <1>5, PageShapes DEF Reload
<1>6. CASE StreamEnds(p)
    <2> DEFINE r == [g EXCEPT !.open = FALSE]
    <2>1. r \in Page /\ r.served = g.served /\ r.build = g.build /\ r.at = g.at /\ ~r.open
        BY <1>1 DEF Page
    <2>2. page' = [page EXCEPT ![p] = r] /\ UNCHANGED <<sourceVars, watchVars, server>>
        BY <1>6 DEF StreamEnds, DevTypeOK
    <2> HIDE DEF r
    <2> QED
        BY <2>1, <2>2 DEF Show
<1> QED
    BY <1>2, <1>3, <1>4, <1>5, <1>6

LEMMA RequestStep ==
    ASSUME DevInv, Request \/ Answer \/ Terminate
    PROVE  DevInv'
<1>1. PICK v \in Server : v = server
    BY DEF DevInv, DevTypeOK
<1>2. UNCHANGED <<sourceVars, watchVars, page>>
    BY DEF Request, Answer, Terminate
<1>3. /\ server' \in Server /\ server'.boot = server.boot /\ server'.build = server.build
      /\ server.state \in {"up", "draining"} /\ server'.state \in {"up", "draining"}
    BY <1>1 DEF Request, Answer, Terminate, Server
<1>4. DevTypeOK'
    BY <1>2, <1>3, OutsideType DEF DevInv, DevTypeOK
<1>5. WatchInv'
    BY <1>2 DEF DevInv, WatchInv, Followed, ignored, sourceVars, watchVars
<1>6. OneChild'
    BY <1>2, <1>3 DEF DevInv, OneChild, watchVars
<1>7. BuildInv'
    BY <1>2, <1>3 DEF DevInv, BuildInv, Known, Followed, ignored, sourceVars, watchVars
<1>8. ASSUME NEW p \in Pages PROVE PageInv(page[p])'
    BY <1>2, <1>3 DEF DevInv, PageInv
<1> QED
    BY <1>4, <1>5, <1>6, <1>7, <1>8 DEF DevInv

LEMMA ExitStep ==
    ASSUME DevInv, Crash \/ Drained \/ Forced
    PROVE  DevInv'
<1>1. PICK v \in Server : v = server
    BY DEF DevInv, DevTypeOK
<1>2. UNCHANGED <<sourceVars, watchVars>> /\ server' = [server EXCEPT !.state = "gone", !.busy = FALSE]
      /\ page' = [p \in Pages |-> [page[p] EXCEPT !.open = FALSE]]
    BY DEF Crash, Drained, Forced, Exit
<1>3. server' \in Server /\ server'.boot = server.boot /\ server'.build = server.build /\ server'.state = "gone"
    BY <1>1, <1>2 DEF Server
<1>4. ASSUME NEW p \in Pages
      PROVE  /\ page'[p] \in Page /\ ~page'[p].open /\ page'[p].at = page[p].at
             /\ page'[p].served = page[p].served /\ page'[p].build = page[p].build
    <2>1. page[p] \in Page
        BY DEF DevInv, DevTypeOK
    <2>2. page'[p] = [page[p] EXCEPT !.open = FALSE]
        BY <1>2
    <2> QED
        BY <2>1, <2>2 DEF Page
<1>5. DevTypeOK'
    <2>1. page' \in [Pages -> Page]
        BY <1>2, <1>4
    <2> QED
        BY <1>2, <1>3, <2>1, OutsideType DEF DevInv
<1>6. WatchInv'
    BY <1>2 DEF DevInv, WatchInv, Followed, ignored, sourceVars, watchVars
<1>7. OneChild'
    BY <1>3 DEF OneChild
<1>8. BuildInv'
    BY <1>2, <1>3 DEF DevInv, BuildInv, Known, Followed, ignored, sourceVars, watchVars
<1>9. ASSUME NEW p \in Pages PROVE PageInv(page[p])'
    BY <1>3, <1>4 DEF DevInv, PageInv
<1> QED
    BY <1>5, <1>6, <1>7, <1>8, <1>9 DEF DevInv

LEMMA BrowserStep ==
    ASSUME DevInv, NEW p \in Pages, Visit(p) \/ LoadScript(p) \/ Connect(p) \/ Reload(p) \/ StreamEnds(p)
    PROVE  DevInv'
<1>0. DevTypeOK /\ PageInv(page[p])
    BY DEF DevInv
<1>1. PICK r \in Page : Show(p, r) /\
             \/ r = Fresh /\ server.state = "up"
             \/ r.at \in {"mute", "error"} /\ ~r.open
             \/ /\ r.served = page[p].served /\ r.build = page[p].build
                /\ page[p].at \in {"html", "script", "reload"} \/ page[p].at = r.at
                /\ \/ ~r.open
                   \/ /\ server.state = "up" /\ r.at \in {"script", "reload"}
                      /\ r.at = "script" => r.boot = server.boot
    BY <1>0, BrowserShows
<1>2. DevTypeOK' /\ page'[p] = r /\ \A q \in Pages : q # p => page'[q] = page[q]
    BY <1>0, <1>1, ShowType
<1>3. UNCHANGED <<sourceVars, watchVars, server>>
    BY <1>1 DEF Show
<1>4. WatchInv'
    BY <1>3 DEF DevInv, WatchInv, Followed, ignored, sourceVars, watchVars
<1>5. OneChild'
    BY <1>3 DEF DevInv, OneChild, watchVars
<1>6. BuildInv'
    BY <1>3 DEF DevInv, BuildInv, Known, Followed, ignored, sourceVars, watchVars
<1>7. PageInv(r)
    BY <1>0, <1>1, PageShapes DEF PageInv
<1>8. ASSUME NEW q \in Pages PROVE PageInv(page[q])'
    <2>1. PageInv(page'[q])
        BY <1>2, <1>7 DEF DevInv
    <2> QED
        BY <1>3, <2>1 DEF PageInv
<1> QED
    BY <1>2, <1>4, <1>5, <1>6, <1>8 DEF DevInv

\* Neither the child nor a page changes.
LEMMA PagesStay ==
    ASSUME DevInv, UNCHANGED <<server, page>>, UNCHANGED loop \/ loop' \notin {"templ", "build", "compile", "start", "ended"}
                                                \/ server.state \in {"off", "gone"}
    PROVE  OneChild' /\ \A p \in Pages : PageInv(page[p])'
BY DEF DevInv, OneChild, PageInv

LEMMA DeveloperStep ==
    ASSUME DevInv, (\E f \in Files : Save(f)) \/ (\E d \in NewDirs : MakeDir(d)) \/ Cancel
    PROVE  DevInv'
<1> USE DevLoopAssumption
<1>1. /\ UNCHANGED <<watched, pending, loop, gen, attempt, bin, server, page>>
      /\ cancelled' = cancelled \/ cancelled' = TRUE
    BY DEF Save, MakeDir, Cancel
<1>2. OneChild' /\ \A p \in Pages : PageInv(page[p])'
    BY <1>1, PagesStay
<1>3. CASE \E f \in Files : Save(f)
    <2>1. PICK f \in Files : Save(f)
        BY <1>3
    <2>2. /\ events \subseteq events' /\ (missed => missed') /\ missed' \in BOOLEAN
          /\ \A e \in events' : e.op \in {"write", "create"}
          /\ Front(f) \in watched => missed' \/ Changed(f) \in events'
        BY <2>1, NotifyIs DEF Save, DevInv, Changed
    <2>3. /\ saved' = [saved EXCEPT ![f] = @ + 1] /\ UNCHANGED <<dirs, cancelled>>
          /\ broken' = broken \cup {f} \/ broken' = broken \ {f}
        BY <2>1 DEF Save
    <2>4. saved' \in Sources /\ \A h \in Files : h # f => saved'[h] = saved[h]
        BY <2>3 DEF DevInv, DevTypeOK, Sources
    <2>5. DevTypeOK'
        BY <1>1, <2>2, <2>3, <2>4 DEF DevInv, DevTypeOK
    <2>6. WatchInv'
        BY <1>1, <2>3 DEF DevInv, WatchInv, Followed, ignored
    <2>7. ASSUME NEW h \in Followed, loop # "begin"
          PROVE  Known(h)' \/ (h # f /\ saved'[h] = saved[h] /\ (h \in broken => h \in broken') /\ (Known(h) => Known(h)'))
        <3>1. CASE h = f
            <4>1. Front(f) \in watched
                BY <2>7, <3>1 DEF DevInv, WatchInv
            <4> QED
                BY <2>2, <3>1, <4>1 DEF Known, Changed
        <3>2. CASE h # f
            <4>1. h \in Files
                BY DEF Followed
            <4> QED
                BY <1>1, <2>2, <2>3, <2>4, <3>2, <4>1 DEF Known, Changed
        <3> QED
            BY <3>1, <3>2
    <2>8. BuildInv'
        <3>1. Followed' = Followed
            BY DEF Followed, ignored
        <3> QED
            BY <1>1, <2>3, <2>7, <3>1 DEF DevInv, BuildInv
    <2> QED
        BY <1>2, <2>5, <2>6, <2>8 DEF DevInv
<1>4. CASE \E d \in NewDirs : MakeDir(d)
    <2>1. PICK d \in NewDirs : MakeDir(d)
        BY <1>4
    <2>2. /\ events \subseteq events' /\ (missed => missed') /\ missed' \in BOOLEAN
          /\ \A e \in events' : e.op \in {"write", "create"}
        BY <2>1, NotifyIs DEF MakeDir, DevInv
    <2>3. dirs' = dirs \cup {d} /\ UNCHANGED <<saved, broken, cancelled>>
        BY <2>1 DEF MakeDir
    <2>4. DevTypeOK'
        BY <1>1, <2>2, <2>3 DEF DevInv, DevTypeOK
    <2>5. WatchInv'
        BY <1>1, <2>3 DEF DevInv, WatchInv, Followed, ignored
    <2>6. \A f : Known(f) => Known(f)'
        BY <1>1, <2>2 DEF Known, Changed
    <2>7. BuildInv'
        <3>1. Followed' = Followed
            BY DEF Followed, ignored
        <3> QED
            BY <1>1, <2>3, <2>6, <3>1 DEF DevInv, BuildInv
    <2> QED
        BY <1>2, <2>4, <2>5, <2>7 DEF DevInv
<1>5. CASE Cancel
    <2>1. UNCHANGED <<saved, broken, dirs, events, missed>> /\ cancelled' = TRUE
        BY <1>5 DEF Cancel, sourceVars
    <2>2. DevTypeOK'
        BY <1>1, <2>1 DEF DevInv, DevTypeOK
    <2>3. WatchInv'
        BY <1>1, <2>1 DEF DevInv, WatchInv, Followed, ignored
    <2>4. BuildInv'
        BY <1>1, <2>1 DEF DevInv, BuildInv, Known, Followed, ignored
    <2> QED
        BY <1>2, <2>2, <2>3, <2>4 DEF DevInv
<1> QED
    BY <1>3, <1>4, <1>5

LEMMA FollowedStays == Followed' = Followed
BY DEF Followed, ignored

LEMMA BeginLoop ==
    ASSUME DevInv, Begin
    PROVE  DevInv'
<1>1. /\ loop = "begin" /\ loop' = "stop" /\ watched' = addDirs(<<>>)
      /\ UNCHANGED <<sourceVars, events, pending, gen, attempt, bin, cancelled, missed, server, page>>
    BY DEF Begin, Goto
<1>2. addDirs(<<>>) \subseteq dirs
    BY DEF addDirs
<1>3. DevTypeOK'
    BY <1>1, <1>2 DEF DevInv, DevTypeOK, sourceVars
<1>4. WatchInv'
    <2>1. OldDirs \subseteq dirs /\ UNCHANGED dirs
        BY <1>1 DEF DevInv, WatchInv, sourceVars
    <2>2. \A f \in Followed : Front(f) \in watched'
        BY <1>1, <2>1, WalkFinds
    <2> QED
        BY <2>1, <2>2, FollowedStays DEF WatchInv
<1>5. BuildInv'
    BY <1>1 DEF BuildInv
<1> QED
    BY <1>1, <1>3, <1>4, <1>5, PagesStay DEF DevInv

LEMMA TakeEventLoop ==
    ASSUME DevInv, NEW e \in events, TakeEvent(e)
    PROVE  DevInv'
<1>1. /\ loop = "select" /\ events' = events \ {e} /\ pending' = (pending \/ relevant(e))
      /\ watched' = watched \/ watched' = watched \cup addDirs(e.path)
      /\ UNCHANGED <<saved, broken, dirs, loop, gen, attempt, bin, cancelled, missed, server, page>>
    BY DEF TakeEvent, sourceVars
<1>2. addDirs(e.path) \subseteq dirs
    BY DEF addDirs
<1>3. pending' \in BOOLEAN /\ (pending => pending') /\ (relevant(e) => pending')
    BY <1>1
<1>4. DevTypeOK'
    BY <1>1, <1>2, <1>3 DEF DevInv, DevTypeOK
<1>5. WatchInv'
    BY <1>1, FollowedStays DEF DevInv, WatchInv
<1>6. \A f \in Followed : Known(f) => Known(f)'
    BY <1>1, <1>3, SaveCounts DEF Known, Changed
<1>7. BuildInv'
    BY <1>1, <1>6, FollowedStays DEF DevInv, BuildInv
<1> QED
    BY <1>1, <1>4, <1>5, <1>7, PagesStay DEF DevInv

\* Steps of the loop that read and write no source.
LEMMA QuietLoop ==
    ASSUME DevInv, TimerFires \/ Stopped \/ Quit
    PROVE  DevInv'
<1>1. /\ UNCHANGED <<saved, broken, dirs, watched, events, gen, attempt, bin, cancelled, missed, server, page>>
      /\ loop # "begin" /\ pending' \in {pending, FALSE}
      /\ loop' \in {"stop", "quit"} \/ (loop' \in {"templ", "ended"} /\ server.state \in {"off", "gone"})
    BY DEF TimerFires, Stopped, Quit, Goto, sourceVars
<1>2. DevTypeOK'
    BY <1>1 DEF DevInv, DevTypeOK
<1>3. WatchInv'
    BY <1>1, FollowedStays DEF DevInv, WatchInv
<1>4. BuildInv'
    BY <1>1 DEF BuildInv
<1> QED
    BY <1>1, <1>2, <1>3, <1>4, PagesStay DEF DevInv

LEMMA TemplLoop ==
    ASSUME DevInv, Templ
    PROVE  DevInv'
<1>1. /\ loop = "templ" /\ loop' = "build" /\ gen' = saved
      /\ UNCHANGED <<saved, broken, dirs, watched, pending, attempt, bin, cancelled, server, page>>
    BY DEF Templ, Goto, sourceVars
<1>2. /\ events \subseteq events' /\ (missed => missed') /\ missed' \in BOOLEAN
      /\ \A e \in events' : e.op \in {"write", "create"}
    BY NotifyIs DEF Templ, DevInv
<1>3. DevTypeOK'
    BY <1>1, <1>2 DEF DevInv, DevTypeOK
<1>4. WatchInv'
    BY <1>1, FollowedStays DEF DevInv, WatchInv
<1>5. server.state \in {"off", "gone"}
    BY <1>1 DEF DevInv, OneChild
<1>6. BuildInv'
    BY <1>1 DEF BuildInv
<1> QED
    BY <1>1, <1>3, <1>4, <1>5, <1>6, PagesStay DEF DevInv

LEMMA FailsLoop ==
    ASSUME DevInv, TemplFails \/ BuildFails
    PROVE  DevInv'
<1> USE DevLoopAssumption
<1>1. /\ loop \in {"templ", "compile"} /\ loop' = "select"
      /\ UNCHANGED <<saved, broken, dirs, watched, events, pending, gen, bin, cancelled, missed, server, page>>
      /\ attempt' = attempt \/ attempt' = [src |-> Current, broken |-> broken]
    BY DEF TemplFails, BuildFails, Goto, sourceVars
<1>2. cancelled \/ attempt'.broken # {}
    BY DEF TemplFails, BuildFails
<1>3. \A f \in Followed : f \in attempt'.broken => f \in broken \/ Known(f)
    <2>1. CASE loop = "templ"
        BY <2>1 DEF TemplFails, BuildFails
    <2>2. CASE loop = "compile"
        BY <2>2 DEF TemplFails, BuildFails, DevInv, BuildInv
    <2> QED
        BY <1>1, <2>1, <2>2
<1>4. DevTypeOK'
    BY <1>1, CurrentIs DEF DevInv, DevTypeOK
<1>5. WatchInv'
    BY <1>1, FollowedStays DEF DevInv, WatchInv
<1>6. \A f : Known(f)' = Known(f)
    BY <1>1 DEF Known, Changed
<1>7. BuildInv'
    BY <1>1, <1>2, <1>3, <1>6, FollowedStays DEF BuildInv
<1> QED
    BY <1>1, <1>4, <1>5, <1>7, PagesStay DEF DevInv

LEMMA BuildLoop ==
    ASSUME DevInv, Build
    PROVE  DevInv'
<1> USE DevLoopAssumption
<1>1. /\ loop = "build" /\ loop' = "compile" /\ attempt' = [src |-> Current, broken |-> broken \ Views]
      /\ UNCHANGED <<saved, broken, dirs, watched, events, pending, gen, bin, cancelled, missed, server, page>>
    BY DEF Build, Goto, sourceVars
<1>2. DevTypeOK'
    BY <1>1, CurrentIs DEF DevInv, DevTypeOK
<1>3. WatchInv'
    BY <1>1, FollowedStays DEF DevInv, WatchInv
<1>4. server.state \in {"off", "gone"}
    BY <1>1 DEF DevInv, OneChild
<1>5. \A f : Known(f)' = Known(f)
    BY <1>1 DEF Known, Changed
<1>6. \A f \in Followed : Current[f] = saved[f] \/ Known(f)
    BY <1>1 DEF DevInv, BuildInv, Current, Followed
<1>7. BuildInv'
    BY <1>1, <1>5, <1>6, FollowedStays DEF BuildInv
<1> QED
    BY <1>1, <1>2, <1>3, <1>4, <1>7, PagesStay DEF DevInv

LEMMA BuiltLoop ==
    ASSUME DevInv, Built
    PROVE  DevInv'
<1> USE DevLoopAssumption
<1>1. /\ loop = "compile" /\ loop' = "start" /\ bin' = attempt.src /\ attempt' = NoAttempt
      /\ UNCHANGED <<saved, broken, dirs, watched, events, pending, gen, cancelled, missed, server, page>>
    BY DEF Built, Goto, sourceVars
<1>2. NoAttempt \in [src: Sources, broken: SUBSET Files] /\ NoAttempt.broken = {}
    BY DEF NoAttempt, Nothing, Sources
<1>3. DevTypeOK'
    BY <1>1, <1>2 DEF DevInv, DevTypeOK
<1>4. WatchInv'
    BY <1>1, FollowedStays DEF DevInv, WatchInv
<1>5. server.state \in {"off", "gone"}
    BY <1>1 DEF DevInv, OneChild
<1>6. \A f : Known(f)' = Known(f)
    BY <1>1 DEF Known, Changed
<1>7. BuildInv'
    BY <1>1, <1>2, <1>6, FollowedStays DEF DevInv, BuildInv
<1> QED
    BY <1>1, <1>3, <1>4, <1>5, <1>7, PagesStay DEF DevInv

\* The new child has an id that no page was served by or told of, and no stream is open.
LEMMA StartLoop ==
    ASSUME DevInv, Start
    PROVE  DevInv'
<1>1. /\ loop = "start" /\ loop' = "select"
      /\ UNCHANGED <<saved, broken, dirs, watched, events, pending, gen, attempt, bin, cancelled, missed, page>>
    BY DEF Start, Goto, sourceVars
<1>2. PICK s \in {"up", "gone"} : server' = [state |-> s, busy |-> FALSE, boot |-> newBootID, build |-> bin]
    BY DEF Start
<1>3. newBootID \in Boots /\ \A p \in Pages : newBootID # page[p].served
    BY FreshBoot DEF DevInv, DevTypeOK
<1>4. server' \in Server /\ server'.boot = newBootID /\ server'.build = bin /\ server'.state = s
    BY <1>2, <1>3 DEF DevInv, DevTypeOK, Server
<1>5. DevTypeOK'
    BY <1>1, <1>4 DEF DevInv, DevTypeOK
<1>6. WatchInv'
    BY <1>1, FollowedStays DEF DevInv, WatchInv
<1>7. OneChild'
    BY <1>1 DEF OneChild
<1>8. \A f : Known(f)' = Known(f)
    BY <1>1 DEF Known, Changed
<1>9. BuildInv'
    BY <1>1, <1>4, <1>8, FollowedStays DEF DevInv, BuildInv
<1>10. ASSUME NEW p \in Pages PROVE PageInv(page[p])'
    <2>1. ~page[p].open
        BY <1>1 DEF DevInv, OneChild, PageInv
    <2> QED
        BY <1>1, <1>3, <1>4, <2>1 DEF PageInv
<1> QED
    BY <1>5, <1>6, <1>7, <1>9, <1>10 DEF DevInv

LEMMA DevInitInv == DevInit => DevInv
<1> SUFFICES ASSUME DevInit PROVE DevInv
    OBVIOUS
<1>1. WatchInv /\ OneChild /\ BuildInv
    BY DEF DevInit, WatchInv, OneChild, BuildInv
<1>2. ASSUME NEW p \in Pages PROVE PageInv(page[p])
    <2>1. page[p] = Empty("closed")
        BY DEF DevInit
    <2>2. page[p].at = "closed" /\ ~page[p].open
        BY <2>1, DevInitType, PageShapes
    <2> QED
        BY <2>2 DEF PageInv
<1> QED
    BY <1>1, <1>2, DevInitType DEF DevInv

LEMMA DevStep == DevInv /\ [DevNext]_devVars => DevInv'
<1> SUFFICES ASSUME DevInv, [DevNext]_devVars PROVE DevInv'
    OBVIOUS
<1>1. CASE DevNext
    BY <1>1, DeveloperStep, RequestStep, ExitStep, BrowserStep, BeginLoop, TakeEventLoop, QuietLoop, TemplLoop,
       FailsLoop, BuildLoop, BuiltLoop, StartLoop DEF DevNext, Rebuild
<1>2. CASE UNCHANGED devVars
    <2>1. UNCHANGED <<saved, broken, dirs, watched, events, pending, loop, gen, attempt, bin, cancelled, missed, server, page>>
        BY <1>2 DEF devVars, sourceVars, watchVars
    <2>2. DevTypeOK'
        BY <2>1 DEF DevInv, DevTypeOK
    <2>3. WatchInv' /\ BuildInv'
        BY <2>1, FollowedStays DEF DevInv, WatchInv, BuildInv, Known, Changed
    <2> QED
        BY <2>1, <2>2, <2>3, PagesStay DEF DevInv
<1> QED
    BY <1>1, <1>2

LEMMA DevAlways == DevSpec => []DevInv
BY DevInitInv, DevStep, PTL DEF DevSpec

\* One child at a time: the rebuild waits until the one before is gone, and ry dev does not
\* end before.
THEOREM ChildrenDoNotOverlap == DevSpec => []OneChild
<1>1. DevInv => OneChild
    BY DEF DevInv
<1> QED
    BY <1>1, DevAlways, PTL

\* Whenever the loop has nothing to do, what runs is what was saved last.
THEOREM RestsOnTheLastSave == DevSpec => []RestIsCurrent
<1>1. DevInv => RestIsCurrent
    <2> SUFFICES ASSUME DevInv, loop = "select", ~pending, \A e \in events : ~relevant(e),
                        ~cancelled, ~missed, broken \cup (attempt.broken \ Followed) = {}
                 PROVE  Runs(Followed)
        BY DEF RestIsCurrent
    <2>1. \A f \in Followed : ~Known(f)
        BY SaveCounts DEF Known
    <2>2. attempt.broken = {}
        BY <2>1 DEF DevInv, BuildInv
    <2> QED
        BY <2>1, <2>2 DEF DevInv, BuildInv, Runs
<1> QED
    BY <1>1, DevAlways, PTL

\* A page that hears from the server shows what the server runs.
THEOREM PagesShowWhatRuns == DevSpec => []OpenIsCurrent
<1>1. DevInv => OpenIsCurrent
    BY DEF DevInv, PageInv, OpenIsCurrent
<1> QED
    BY <1>1, DevAlways, PTL
-----------------------------------------------------------------------------
(* The tools beside each other.                                            *)

\* A step of one tool is a step of that tool alone.
LEMMA ToolsApart ==
    ASSUME [Next]_<<tool, devVars, launchVars, scaffoldVars, releaseVars>>
    PROVE  /\ [DevNext]_devVars /\ [LaunchNext]_launchVars
           /\ [ScaffoldNext]_scaffoldVars /\ [ReleaseNext]_releaseVars
BY DEF Next

\* Every tool's state stays of its type in every behaviour the runs explore, whichever
\* tool runs.
THEOREM ToolsTyped == Spec => []TypeOK
<1> DEFINE Inv == DevInv /\ LaunchInv /\ ScaffoldInv /\ ReleaseInv
           V == <<tool, devVars, launchVars, scaffoldVars, releaseVars>>
<1>1. Init => Inv
    BY DevInitInv, LaunchInitInv, ScaffoldInitInv, ReleaseInitInv DEF Init
<1>2. Inv /\ [Next]_V => Inv'
    BY ToolsApart, DevStep, LaunchStep, ScaffoldStep, ReleaseStep
<1>3. Inv => TypeOK
    BY DEF TypeOK, DevInv, LaunchInv, ScaffoldInv, ReleaseInv
<1> QED
    BY <1>1, <1>2, <1>3, PTL DEF Spec
=============================================================================
