----------------------------- MODULE RateLimit ------------------------------
(***************************************************************************)
(* The token buckets of src/middleware/rate_limit.rs.                      *)
(*                                                                         *)
(* A call of try_acquire reads the clock first and takes the mutex second, *)
(* so calls reach their buckets in another order than the one in which     *)
(* they read the clock: that is the only concurrency here, and it matters. *)
(* Tokens are counted in shares, Cost of which make the token that a       *)
(* request takes, so that Rate may stand for less than a token per tick.   *)
(***************************************************************************)
EXTENDS Naturals, FiniteSets, FiniteSetsExt, LruMap

CONSTANTS
  Call,           \* calls of try_acquire that may be under way together
  Ip,             \* clients
  Cost,           \* shares in one token
  Capacity,       \* shares in a full bucket
  Rate,           \* shares refilled per tick
  MaxBuckets,     \* max_buckets
  IdleWindow,     \* BUCKET_IDLE_SECS
  MaxTime,        \* bound on the clock
  MaxGrants       \* bound on the requests let through

ASSUME SetsAssumption == IsFiniteSet(Ip)
ASSUME NumbersAssumption ==
  /\ {Cost, MaxBuckets} \subseteq Nat \ {0}
  /\ {Capacity, Rate, IdleWindow, MaxTime, MaxGrants} \subseteq Nat

VARIABLES
  now,            \* the clock
  buckets,        \* RateLimit::state; "touched" is last_refill
  waiting,        \* the calls that have read the clock and want the mutex
  \* history, for the properties only
  granted,        \* per client and clock reading: requests let through
  denied,         \* per client: clock reading of a refusal since the last grant
  forgiven,       \* per client: times its bucket was dropped to make room
  latest,         \* clock reading of the last call that got the mutex
  overtaken       \* whether a call got it after one that read the clock later

vars == <<now, buckets, waiting, granted, denied, forgiven, latest, overtaken>>

Time == 0..MaxTime
Never == MaxTime + 1

Bucket == [tokens : 0..Capacity, touched : Time]

TypeOK ==
  /\ now \in Time
  /\ DOMAIN buckets \subseteq Ip
  /\ \A ip \in DOMAIN buckets : buckets[ip] \in Bucket
  /\ DOMAIN waiting \subseteq Call
  /\ \A c \in DOMAIN waiting : waiting[c] \in [ip : Ip, at : Time]
  /\ granted \in [Ip -> [Time -> Nat]]
  /\ denied \in [Ip -> Time \cup {Never}]
  /\ forgiven \in [Ip -> Nat]
  /\ latest \in Time
  /\ overtaken \in BOOLEAN

Init ==
  /\ now = 0
  /\ buckets = << >>
  /\ waiting = << >>
  /\ granted = [ip \in Ip |-> [t \in Time |-> 0]]
  /\ denied = [ip \in Ip |-> Never]
  /\ forgiven = [ip \in Ip |-> 0]
  /\ latest = 0
  /\ overtaken = FALSE

Tick ==
  /\ now < MaxTime
  /\ now' = now + 1
  /\ UNCHANGED <<buckets, waiting, granted, denied, forgiven, latest, overtaken>>

GrantsSince(ip, t) == MapThenSumSet(LAMBDA u : granted[ip][u], t..MaxTime)

ReadClock(c, ip) ==     \* let now = Instant::now()
  /\ c \notin DOMAIN waiting
  /\ \A j \in Ip : GrantsSince(j, 0) < MaxGrants
  /\ waiting' = Put(waiting, c, [ip |-> ip, at |-> now])
  /\ UNCHANGED <<now, buckets, granted, denied, forgiven, latest, overtaken>>

\* duration_since is zero when the clock was read before the last refill.
Elapsed(from, to) == IF to > from THEN to - from ELSE 0

Capped(tokens) == IF tokens < Capacity THEN tokens ELSE Capacity

Full(at) == [tokens |-> Capacity, touched |-> at]

\* Mutant: the new last_refill is in place when the elapsed time is taken.
RefilledTooLate(b, at) == [tokens |-> Capped(b.tokens), touched |-> at]

\* Mutant: saved-up tokens are not capped.
RefilledUncapped(b, at) ==
  [tokens |-> b.tokens + Elapsed(b.touched, at) * Rate, touched |-> at]

Refilled(b, at) ==
  [tokens |-> Capped(b.tokens + Elapsed(b.touched, at) * Rate), touched |-> at]

\* Buckets that were dropped although they were not idle.
Dropped(kept, at) == (DOMAIN buckets \ DOMAIN kept) \ Idle(buckets, at, IdleWindow)

Acquire(c) ==           \* everything under the mutex
  LET ip == waiting[c].ip
      at == waiting[c].at
  IN  /\ waiting' = Without(waiting, {c})
      /\ \E kept \in Evicted(buckets, at, MaxBuckets, IdleWindow) :
           LET b == IF ip \in DOMAIN kept THEN Refilled(kept[ip], at) ELSE Full(at)
           IN  /\ forgiven' = [j \in Ip |-> forgiven[j] +
                                 (IF j \in Dropped(kept, at) THEN 1 ELSE 0)]
               /\ \/ /\ b.tokens >= Cost
                     /\ buckets' = Put(kept, ip, [b EXCEPT !.tokens = @ - Cost])
                     /\ granted' = [granted EXCEPT ![ip][at] = @ + 1]
                     /\ denied' = [denied EXCEPT ![ip] = Never]
                  \/ /\ b.tokens < Cost
                     /\ buckets' = Put(kept, ip, b)
                     /\ denied' = [denied EXCEPT ![ip] = at]
                     /\ UNCHANGED granted
      /\ overtaken' = (overtaken \/ at < latest)
      /\ latest' = at
      /\ UNCHANGED now

Next ==
  \/ Tick
  \/ \E c \in Call, ip \in Ip : ReadClock(c, ip)
  \/ \E c \in DOMAIN waiting : Acquire(c)

Spec == Init /\ [][Next]_vars

-----------------------------------------------------------------------------
\* The map never outgrows its cap, however many clients there are.
BucketsBounded == Size(buckets) <= MaxBuckets

\* In no window of time does a client get more requests through than a full
\* bucket and the refill of that window pay for.  A bucket dropped to make room
\* starts full again, which is one more bucketful each time; a bucket dropped
\* for idleness must not give anything away.
RateHonoured ==
  \A ip \in Ip, t \in 0..now :
    GrantsSince(ip, t) * Cost <= Capacity * (1 + forgiven[ip]) + Rate * (now - t)

\* As long as no call is overtaken between the clock and the mutex: one that is
\* may start a bucket in the past, or take one back to it.
RateHonouredInOrder == ~overtaken => RateHonoured

\* A refused client that stays away for a tick (Retry-After: 1) is let through
\* after it, when a tick refills a token and a bucket holds one.
RetryAfterIsEnough ==
  [][\A c \in DOMAIN waiting :
       LET ip == waiting[c].ip
       IN  /\ Rate >= Cost /\ Capacity >= Cost
           /\ c \notin DOMAIN waiting'
           /\ denied[ip] # Never /\ waiting[c].at > denied[ip]
           => granted'[ip] # granted[ip]]_vars

=============================================================================
