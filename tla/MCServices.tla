----------------------------- MODULE MCServices -----------------------------
(***************************************************************************)
(* The framework's services, one at a time: they share at most the clock,  *)
(* so a behaviour follows one of them and the others stay as they were     *)
(* built.                                                                  *)
(***************************************************************************)
EXTENDS Schedule, TwoFactor, Cache, Migrate, Browser, RedisSessions, Mail

CONSTANTS a1, a2, a3, p1, p2   \* actors and processes

VARIABLE
    service     \* the service this behaviour follows

scheduler == <<taskVars, loopVars>>
limiter == <<buckets, lastSweep, drawn>>
remember == <<truth, entry, flight, call, replaced, supplied>>

Init ==
    /\ now = 0
    /\ service \in {"schedule", "ratelimit", "twofactor", "cache", "migrate", "browser", "redis", "mail"}
    /\ ScheduleInit /\ LimiterInit /\ TwoFactorInit /\ CacheInit /\ MigrateInit
    /\ BrowserInit /\ RedisInit /\ MailInit

Next ==
    \/ service = "schedule" /\ ScheduleNext
       /\ UNCHANGED <<service, limiter, twoFactorVars, remember, migrateVars, browserVars, redisVars, mailVars>>
    \/ service = "ratelimit" /\ LimiterNext
       /\ UNCHANGED <<service, scheduler, twoFactorVars, remember, migrateVars, browserVars, redisVars, mailVars>>
    \/ service = "twofactor" /\ TwoFactorNext
       /\ UNCHANGED <<service, scheduler, remember, migrateVars, browserVars, redisVars, mailVars>>
    \/ service = "cache" /\ CacheNext
       /\ UNCHANGED <<service, scheduler, limiter, twoFactorVars, migrateVars, browserVars, redisVars, mailVars>>
    \/ service = "migrate" /\ MigrateNext
       /\ UNCHANGED <<service, now, scheduler, limiter, twoFactorVars, remember, browserVars, redisVars, mailVars>>
    \/ service = "browser" /\ BrowserNext
       /\ UNCHANGED <<service, now, scheduler, limiter, twoFactorVars, remember, migrateVars, redisVars, mailVars>>
    \/ service = "redis" /\ RedisNext
       /\ UNCHANGED <<service, scheduler, limiter, twoFactorVars, remember, migrateVars, browserVars, mailVars>>
    \/ service = "mail" /\ MailNext
       /\ UNCHANGED <<service, now, scheduler, limiter, twoFactorVars, remember, migrateVars, browserVars, redisVars>>

vars == <<now, service, scheduler, limiter, twoFactorVars, remember, migrateVars,
          browserVars, redisVars, mailVars>>

Spec == Init /\ [][Next]_vars

\* A task every two units and one at 1 o'clock of a day of three.
TwoEvery == <<2, 3>>
OnePinned == <<NotPinned, 1>>

\* Two calls in one process and one in another.
TwoProcs == (a1 :> p1) @@ (a2 :> p1) @@ (a3 :> p2)

\* Handlers that show the messages, add one or two, or both.
FourHandlers == {<<"pull">>, <<"add">>, <<"add", "add">>, <<"pull", "add">>}

\* Whoever acts in a service, calls, operators, tabs, requests or sessions, is a1 or a2,
\* and the two are interchangeable.
Alike == Permutations({a1, a2})

\* What tells two states apart: the service that is followed, and no history that no
\* property reads any more (no guard ever does), as those of Migrate once commands have
\* overlapped, of TwoFactor once recoveries have, and of Browser once the key has
\* changed or requests have overlapped.
Relevant ==
    CASE service = "schedule" -> <<service, now, scheduler>>
      [] service = "ratelimit" -> <<service, now, limiter>>
      [] service = "twofactor" ->
           <<service, buckets, account, pending, ask, vaultKey, secrets, enrolled, both, IF both THEN 0 ELSE used>>
      [] service = "cache" -> <<service, now, remember>>
      [] service = "migrate" ->
           IF crowded
           THEN <<service, batchOf, schema, [o \in Operators |-> [op[o] EXCEPT !.exact = FALSE, !.left = {}]]>>
           ELSE <<service, migrateVars>>
      [] service = "browser" ->
           <<service, appKey, tokens, flashes, jar, tab,
             IF appKey > 1 THEN 0 ELSE IF was.crossed THEN <<was.raced, was.denied>> ELSE <<seen, was>>>>
      [] service = "redis" -> <<service, now, redisVars>>
      [] service = "mail" -> <<service, mailVars>>

\* What a state of the service that runs is; the others stay as they were built.
TypeOK ==
    /\ now \in Nat
    /\ CASE service = "schedule" -> ScheduleTypeOK
         [] service = "ratelimit" -> LimiterTypeOK
         [] service = "twofactor" -> LimiterTypeOK /\ TwoFactorTypeOK
         [] service = "cache" -> CacheTypeOK
         [] service = "migrate" -> MigrateTypeOK
         [] service = "browser" -> BrowserTypeOK
         [] service = "redis" -> RedisTypeOK
         [] service = "mail" -> MailTypeOK
=============================================================================
