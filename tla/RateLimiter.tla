---------------------------- MODULE RateLimiter ----------------------------
(***************************************************************************)
(* The in-memory rate limiters: a token bucket per order code, per email of  *)
(* a login, or per address of a wedding guest (lookupLimiter and            *)
(* rateLimiter, the two ratelimit.go), and the process-wide bucket before    *)
(* the public uploads and pet pages (paymentProofUploadLimiter).  A bucket   *)
(* nobody used for long is forgotten, so that the map stays small, and a     *)
(* restart forgets them all.  A call holds the limiter's mutex throughout:   *)
(* it is one step.                                                          *)
(***************************************************************************)
EXTENDS Integers, Sequences, FiniteSets

CONSTANTS
  Keys,        \* codes, emails or addresses; one key for a process-wide bucket
  Sweeping,    \* "interval", "crowded" or "never"
  Ttl,         \* ttl, maxIdle
  SoftCap,     \* the map size above which the wedding service sweeps
  Cost,        \* time in which one token comes back, 1/rate
  Capacity,    \* time in which an empty bucket fills up, burst/rate
  MaxClock     \* bound: the clock

VARIABLES
  clock,
  buckets,     \* entries, perIP
  lastSweep,
  grants       \* the moments each key was let through in this process

limiterVars == <<clock, buckets, lastSweep, grants>>

-----------------------------------------------------------------------------
(* rate.Limiter, as the code uses it: a bucket is known by the time it will be *)
(* full again, and a token taken puts that off by Cost.  A new one is full,   *)
(* and so is one that is not in the map.                                    *)
Absent == [kept |-> FALSE, fullAt |-> 0, seen |-> 0]

Later(s, t) == IF s < t THEN t ELSE s
AllowN(bucket, now) == Later(bucket.fullAt, now) + Cost <= now + Capacity
\* Mutant: a refused call takes its token too, as a reservation would.
TakenRegardless(bucket, now) == Later(bucket.fullAt, now) + Cost

Taken(bucket, now) ==
  IF AllowN(bucket, now) THEN Later(bucket.fullAt, now) + Cost ELSE bucket.fullAt

(* The order lookup and the login sweep at most once per ttl, the wedding      *)
(* service whenever the map is large.                                       *)
IntervalPassed == Ttl > 0 /\ clock - lastSweep >= Ttl
Crowded == Cardinality({k \in Keys : buckets[k].kept}) > SoftCap

SweepDue == (Sweeping = "interval" /\ IntervalPassed) \/ (Sweeping = "crowded" /\ Crowded)

sweepLocked ==
  [k \in Keys |-> IF SweepDue /\ buckets[k].seen + Ttl < clock THEN Absent ELSE buckets[k]]

-----------------------------------------------------------------------------
(* The zero time of a new limiter lies further back than any ttl. *)
LimiterInit ==
  /\ clock = Ttl
  /\ buckets = [k \in Keys |-> Absent] /\ lastSweep = 0
  /\ grants = [k \in Keys |-> <<>>]

allow(k) ==
  LET entry == sweepLocked[k]
  IN /\ buckets' = [sweepLocked EXCEPT ![k] =
                      [kept |-> TRUE, fullAt |-> Taken(entry, clock), seen |-> clock]]
     /\ lastSweep' = IF SweepDue THEN clock ELSE lastSweep
     /\ grants' = IF AllowN(entry, clock) THEN [grants EXCEPT ![k] = Append(@, clock)] ELSE grants
     /\ UNCHANGED clock

TimePasses ==
  /\ clock < MaxClock
  /\ clock' = clock + 1
  /\ UNCHANGED <<buckets, lastSweep, grants>>

(* Nothing is stored: a new process starts with full buckets. *)
RestartLimiter ==
  /\ buckets' = [k \in Keys |-> Absent] /\ lastSweep' = 0
  /\ grants' = [k \in Keys |-> <<>>]
  /\ UNCHANGED clock

LimiterNext == (\E k \in Keys : allow(k)) \/ TimePasses \/ RestartLimiter

LimiterSpec == LimiterInit /\ [][LimiterNext]_limiterVars

-----------------------------------------------------------------------------
LimiterTypeOK ==
  /\ clock \in Nat /\ lastSweep \in Nat
  /\ buckets \in [Keys -> [kept : BOOLEAN, fullAt : Nat, seen : Nat]]
  /\ grants \in [Keys -> Seq(Nat)]

(* The time it takes for n tokens to come back. *)
Worth(n) == Cost * n

(* What a rate limit is for: whatever was forgotten meanwhile, no stretch of   *)
(* time lets more calls of one key through than the burst and what came back.  *)
NoBurstBeyondTheLimit ==
  \A k \in Keys : \A j \in DOMAIN grants[k] : \A i \in 1 .. j :
    Worth(j - i + 1) <= Capacity + grants[k][j] - grants[k][i]

(* There is no lockout (lookupLimiter's comment): however many calls were      *)
(* refused, a key is refused only as long as the calls let through require it. *)
RefusedOnlyByGrants ==
  \A k \in Keys :
    (\A i \in DOMAIN grants[k] : Worth(Len(grants[k]) - i + 2) <= Capacity + clock - grants[k][i])
      => AllowN(sweepLocked[k], clock)

(* Probing many keys does not fill the memory for good: once a call is made,   *)
(* no bucket has been idle for two ttls; a large map of the wedding service     *)
(* holds none that was idle for one.                                        *)
IdleBucketsGo ==
  \A k, other \in Keys :
    buckets[k].kept /\ buckets[other].kept =>
      /\ Sweeping = "interval" => buckets[k].seen <= buckets[other].seen + 2 * Ttl
      /\ Sweeping = "crowded" /\ Cardinality({l \in Keys : buckets[l].kept}) > SoftCap + 1
           => buckets[k].seen <= buckets[other].seen + Ttl

LimiterSound == NoBurstBeyondTheLimit /\ RefusedOnlyByGrants /\ IdleBucketsGo
=============================================================================
