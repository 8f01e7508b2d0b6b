----------------------------- MODULE RateLimit -----------------------------
(***************************************************************************)
(* Package ratelimit: a token bucket per key, in memory, with the sweep    *)
(* that discards idle buckets.  The lock makes Allow and Reset one step.   *)
(*                                                                         *)
(* A token is Window units, so that limit/window tokens per unit of time   *)
(* are Limit units per unit of time and the arithmetic stays in the        *)
(* integers; the rounding of float64 is left out.                          *)
(***************************************************************************)
EXTENDS Clock

CONSTANTS
    Keys,       \* what requests are limited by
    Limit,      \* tokens per window
    Window,     \* the window, in units of time
    Burst,      \* the capacity of a bucket
    LimiterEnd, \* bound: the clock
    NoBucket    \* a key without a bucket

\* NewWithBurst raises a limit, a window or a burst that is too small.
ASSUME RateLimitAssumption ==
    /\ Limit \in Nat \ {0} /\ Window \in Nat \ {0} /\ Burst \in Nat \ {0}
    /\ LimiterEnd \in Nat

VARIABLES
    buckets,    \* buckets[k]: the bucket of k, or NoBucket
    lastSweep,  \* when idle buckets were last discarded
    drawn       \* history: drawn[k], what k was let through since Reset, see Draw

limiterVars == <<now, buckets, lastSweep, drawn>>

Bucket == [tokens: Nat, seen: Nat]

ASSUME NoBucketAssumption == NoBucket \notin Bucket

LimiterTypeOK ==
    /\ buckets \in [Keys -> Bucket \cup {NoBucket}]
    /\ lastSweep \in Int
    /\ drawn \in [Keys -> [most: Nat, at: Nat]]

\* The zero lastSweep lies more than a window back.
LimiterInit ==
    /\ buckets = [k \in Keys |-> NoBucket]
    /\ lastSweep = -Window
    /\ drawn = [k \in Keys |-> [most |-> 0, at |-> 0]]
-----------------------------------------------------------------------------
SweepDue == now - lastSweep >= Window

Idle(b) == now - b.seen > 2 * Window

\* The buckets sweep leaves.
Swept ==
    [k \in Keys |-> IF SweepDue /\ buckets[k] # NoBucket /\ Idle(buckets[k])
                    THEN NoBucket ELSE buckets[k]]

\* Faulty variant: the capacity is not applied.
Refill_m1(b) == [tokens |-> b.tokens + (now - b.seen) * Limit, seen |-> now]

Refill(b) ==
    LET full == b.tokens + (now - b.seen) * Limit
    IN  [tokens |-> IF full > Burst * Window THEN Burst * Window ELSE full, seen |-> now]

\* The bucket of k when Allow(k) looks at its tokens.
Current(k) ==
    IF Swept[k] = NoBucket THEN [tokens |-> Burst * Window, seen |-> now] ELSE Refill(Swept[k])

\* d.most is, over all stretches of time that end at d.at, the most that was let
\* through in one beyond what refilled in it: a request let through now extends
\* the worst stretch so far or starts one of its own.
Draw(d) ==
    LET left == d.most - (now - d.at) * Limit
    IN  [most |-> (IF left > 0 THEN left ELSE 0) + Window, at |-> now]

\* Faulty variant: part of a token is enough.
Allow_m1(k) ==
    /\ Current(k).tokens > 0
    /\ buckets' = [Swept EXCEPT ![k] = [Current(k) EXCEPT !.tokens = @ - Window]]
    /\ lastSweep' = IF SweepDue THEN now ELSE lastSweep
    /\ drawn' = [drawn EXCEPT ![k] = Draw(@)]
    /\ UNCHANGED now

\* Allow consumes a token.
Allow(k) ==
    /\ Current(k).tokens >= Window
    /\ buckets' = [Swept EXCEPT ![k] = [Current(k) EXCEPT !.tokens = @ - Window]]
    /\ lastSweep' = IF SweepDue THEN now ELSE lastSweep
    /\ drawn' = [drawn EXCEPT ![k] = Draw(@)]
    /\ UNCHANGED now

\* Allow refuses: the bucket keeps its fraction of a token.
Refuse(k) ==
    /\ Current(k).tokens < Window
    /\ buckets' = [Swept EXCEPT ![k] = Current(k)]
    /\ lastSweep' = IF SweepDue THEN now ELSE lastSweep
    /\ UNCHANGED <<now, drawn>>

\* Reset, after a successful login or code.
Reset(k) ==
    /\ buckets' = [buckets EXCEPT ![k] = NoBucket]
    /\ drawn' = [drawn EXCEPT ![k] = [most |-> 0, at |-> now]]
    /\ UNCHANGED <<now, lastSweep>>

LimiterTick == Advance(LimiterEnd) /\ UNCHANGED <<buckets, lastSweep, drawn>>

LimiterNext == LimiterTick \/ \E k \in Keys : Allow(k) \/ Refuse(k) \/ Reset(k)

LimiterSpec == now = 0 /\ LimiterInit /\ [][LimiterNext]_limiterVars
-----------------------------------------------------------------------------
(* Properties.                                                             *)

\* "A fixed window lets twice the limit through across a window boundary": in
\* no stretch of time, however the requests, the refills and the sweeps fall,
\* does a key get more than the burst and what refills in that stretch.  It
\* takes a burst that two windows refill, as New's does: a bucket is discarded
\* after two windows whatever it holds, and the next one is full.
NeverMoreThanRefilled ==
    Burst <= 2 * Limit => \A k \in Keys : drawn[k].most <= Burst * Window

\* "An unbounded stream of distinct keys cannot grow the map forever": whenever
\* a sweep has run, no bucket was left that had been idle for two windows.
NothingIdleKept ==
    \A k \in Keys : buckets[k] # NoBucket => lastSweep - buckets[k].seen <= 2 * Window
-----------------------------------------------------------------------------
(* What the proofs of ServiceProofs need beside the properties.            *)

\* Nothing was seen, drawn or swept in the future.
InThePast ==
    /\ now \in Nat /\ lastSweep <= now
    /\ \A k \in Keys : drawn[k].at <= now
    /\ \A k \in Keys : buckets[k] # NoBucket =>
          drawn[k].at <= buckets[k].seen /\ buckets[k].seen <= now

\* What a bucket holds and what its key drew in excess, brought to the time the
\* bucket was last seen, fit into the capacity; and a key without a bucket has
\* had its excess refilled.
Potential(k, b) ==
    IF b = NoBucket
    THEN drawn[k].most <= (now - drawn[k].at) * Limit
    ELSE /\ b.tokens <= Burst * Window
         /\ b.tokens + drawn[k].most <= Burst * Window + (b.seen - drawn[k].at) * Limit

Balanced ==
    \A k \in Keys : Potential(k, buckets[k]) /\ drawn[k].most <= Burst * Window
=============================================================================
