-------------------------- MODULE RateLimitProofs ---------------------------
(* What holds of RateLimit for every number of clients, rate and capacity. *)
EXTENDS RateLimit, LruMapProofs, FoldProofs

\* A client whose last call was refused has a bucket that was last refilled at
\* that refusal, unless the bucket has been dropped.
RefusalsRecorded ==
  \A ip \in DOMAIN buckets : denied[ip] # Never => buckets[ip].touched = denied[ip]

LEMMA BucketsAreFinite ==
  ASSUME TypeOK
  PROVE  IsFiniteSet(DOMAIN buckets)
BY SetsAssumption, FS_Subset DEF TypeOK

\* A refill keeps a bucket a bucket, and one of a whole tick fills in a token.
LEMMA RefillShape ==
  ASSUME NEW b \in Bucket, NEW at \in Time
  PROVE  /\ Refilled(b, at) \in Bucket
         /\ Refilled(b, at).touched = at
         /\ at > b.touched /\ Rate >= Cost /\ Capacity >= Cost
              => Refilled(b, at).tokens >= Cost
<1>1. /\ Rate \in Nat /\ Capacity \in Nat /\ Cost \in Nat
      /\ at \in Nat /\ b.touched \in Nat /\ b.tokens \in 0..Capacity
  BY NumbersAssumption DEF Bucket, Time
<1>2. Elapsed(b.touched, at) \in Nat /\ (at > b.touched => Elapsed(b.touched, at) >= 1)
  BY <1>1 DEF Elapsed
<1> DEFINE refill == Elapsed(b.touched, at) * Rate
<1>3. refill \in Nat
  BY <1>1, <1>2
<1>4. at > b.touched => refill >= Rate
  <2> SUFFICES ASSUME NEW n \in Nat, n >= 1 PROVE n * Rate >= Rate
    BY <1>2
  <2>1. PICK k \in Nat : n = k + 1
    <3>1. n - 1 \in Nat /\ n = (n - 1) + 1
      OBVIOUS
    <3> QED
      BY <3>1
  <2>2. n * Rate = k * Rate + Rate /\ k * Rate \in Nat
    BY <1>1, <2>1
  <2> QED
    BY <1>1, <2>2
<1> HIDE DEF refill
<1>5. /\ Capped(b.tokens + refill) \in 0..Capacity
      /\ refill >= Rate /\ Rate >= Cost /\ Capacity >= Cost
           => Capped(b.tokens + refill) >= Cost
  BY <1>1, <1>3 DEF Capped
<1>6. Refilled(b, at) = [tokens |-> Capped(b.tokens + refill), touched |-> at]
  BY DEF Refilled, refill
<1> QED
  BY <1>4, <1>5, <1>6 DEF Bucket

-----------------------------------------------------------------------------
(* What a call does under the mutex. *)

LEMMA AcquireShape ==
  ASSUME TypeOK, NEW c \in DOMAIN waiting, Acquire(c)
  PROVE  LET ip == waiting[c].ip
             at == waiting[c].at
         IN  \E kept \in Evicted(buckets, at, MaxBuckets, IdleWindow), b \in Bucket :
               /\ DOMAIN kept \subseteq DOMAIN buckets
               /\ \A j \in DOMAIN kept : kept[j] = buckets[j]
               /\ b = IF ip \in DOMAIN kept THEN Refilled(kept[ip], at) ELSE Full(at)
               /\ forgiven' \in [Ip -> Nat]
               /\ \A j \in Ip : forgiven'[j] = forgiven[j] +
                                 (IF j \in Dropped(kept, at) THEN 1 ELSE 0)
               /\ \/ /\ b.tokens >= Cost
                     /\ buckets' = Put(kept, ip, [b EXCEPT !.tokens = @ - Cost])
                     /\ granted' = [granted EXCEPT ![ip][at] = @ + 1]
                     /\ denied' = [denied EXCEPT ![ip] = Never]
                  \/ /\ b.tokens < Cost
                     /\ buckets' = Put(kept, ip, b)
                     /\ denied' = [denied EXCEPT ![ip] = at]
                     /\ UNCHANGED granted
<1> DEFINE ip == waiting[c].ip
           at == waiting[c].at
           B(kept) == IF ip \in DOMAIN kept THEN Refilled(kept[ip], at) ELSE Full(at)
<1>1. ip \in Ip /\ at \in Time
  BY DEF TypeOK
<1>2. PICK kept \in Evicted(buckets, at, MaxBuckets, IdleWindow) :
        /\ forgiven' = [j \in Ip |-> forgiven[j] +
                          (IF j \in Dropped(kept, at) THEN 1 ELSE 0)]
        /\ \/ /\ B(kept).tokens >= Cost
              /\ buckets' = Put(kept, ip, [B(kept) EXCEPT !.tokens = @ - Cost])
              /\ granted' = [granted EXCEPT ![ip][at] = @ + 1]
              /\ denied' = [denied EXCEPT ![ip] = Never]
           \/ /\ B(kept).tokens < Cost
              /\ buckets' = Put(kept, ip, B(kept))
              /\ denied' = [denied EXCEPT ![ip] = at]
              /\ UNCHANGED granted
  BY DEF Acquire
<1> HIDE DEF ip, at
<1>3. /\ DOMAIN kept \subseteq DOMAIN buckets
      /\ \A j \in DOMAIN kept : kept[j] = buckets[j]
  BY BucketsAreFinite, EvictionDrops
<1>4. B(kept) \in Bucket
  <2>1. CASE ip \in DOMAIN kept
    BY <1>1, <1>3, <2>1, RefillShape DEF TypeOK
  <2>2. CASE ip \notin DOMAIN kept
    BY <1>1, <2>2, NumbersAssumption DEF Full, Bucket
  <2> QED
    BY <2>1, <2>2
<1>5. /\ forgiven' \in [Ip -> Nat]
      /\ \A j \in Ip : forgiven'[j] = forgiven[j] + (IF j \in Dropped(kept, at) THEN 1 ELSE 0)
  <2> DEFINE more(j) == IF j \in Dropped(kept, at) THEN 1 ELSE 0
  <2>1. forgiven' = [j \in Ip |-> forgiven[j] + more(j)]
    BY <1>2
  <2>2. \A j \in Ip : more(j) \in Nat /\ forgiven[j] \in Nat
    BY DEF TypeOK
  <2>3. /\ forgiven' \in [Ip -> Nat]
        /\ \A j \in Ip : forgiven'[j] = forgiven[j] + more(j)
    <3> HIDE DEF more
    <3> QED
      BY <2>1, <2>2
  <2> QED
    BY <2>3
<1> QED
  BY <1>2, <1>3, <1>4, <1>5 DEF ip, at

\* The bucket that a call leaves behind.
LEMMA BucketsStep ==
  ASSUME TypeOK, RefusalsRecorded, BucketsBounded, NEW c \in DOMAIN waiting, Acquire(c)
  PROVE  /\ DOMAIN buckets' \subseteq Ip
         /\ \A ip \in DOMAIN buckets' : buckets'[ip] \in Bucket
         /\ RefusalsRecorded'
         /\ BucketsBounded'
         /\ granted' \in [Ip -> [Time -> Nat]]
         /\ denied' \in [Ip -> Time \cup {Never}]
<1> DEFINE ip == waiting[c].ip
           at == waiting[c].at
<1>1. PICK kept \in Evicted(buckets, at, MaxBuckets, IdleWindow), b \in Bucket :
        /\ DOMAIN kept \subseteq DOMAIN buckets
        /\ \A j \in DOMAIN kept : kept[j] = buckets[j]
        /\ b = IF ip \in DOMAIN kept THEN Refilled(kept[ip], at) ELSE Full(at)
        /\ \/ /\ b.tokens >= Cost
              /\ buckets' = Put(kept, ip, [b EXCEPT !.tokens = @ - Cost])
              /\ granted' = [granted EXCEPT ![ip][at] = @ + 1]
              /\ denied' = [denied EXCEPT ![ip] = Never]
           \/ /\ b.tokens < Cost
              /\ buckets' = Put(kept, ip, b)
              /\ denied' = [denied EXCEPT ![ip] = at]
              /\ UNCHANGED granted
  BY AcquireShape
<1>2. ip \in Ip /\ at \in Time
  BY DEF TypeOK
<1> HIDE DEF ip, at
<1>3. b.touched = at
  BY <1>1, <1>2, RefillShape DEF Full, TypeOK
<1>4. PICK e \in Bucket :
        /\ buckets' = Put(kept, ip, e)
        /\ e.touched = at
        /\ denied'[ip] = Never \/ denied'[ip] = e.touched
        /\ \A j \in Ip \ {ip} : denied'[j] = denied[j]
  <2>1. CASE /\ b.tokens >= Cost
             /\ buckets' = Put(kept, ip, [b EXCEPT !.tokens = @ - Cost])
             /\ denied' = [denied EXCEPT ![ip] = Never]
    <3> DEFINE e == [b EXCEPT !.tokens = b.tokens - Cost]
    <3>1. b.tokens - Cost \in 0..Capacity
      BY <2>1, NumbersAssumption DEF Bucket
    <3>2. e \in Bucket /\ e.touched = at
      BY <1>3, <3>1 DEF Bucket
    <3>3. buckets' = Put(kept, ip, e)
      BY <2>1
    <3> HIDE DEF e
    <3> QED
      BY <1>2, <2>1, <3>2, <3>3 DEF TypeOK
  <2>2. CASE buckets' = Put(kept, ip, b) /\ denied' = [denied EXCEPT ![ip] = at]
    BY <1>2, <1>3, <2>2 DEF TypeOK
  <2> QED
    BY <1>1, <2>1, <2>2
<1>5. /\ DOMAIN buckets' = DOMAIN kept \cup {ip}
      /\ buckets'[ip] = e
      /\ \A j \in DOMAIN kept : j # ip => buckets'[j] = buckets[j]
  <2> DEFINE w == Put(kept, ip, e)
  <2>1. /\ DOMAIN w = DOMAIN kept \cup {ip}
        /\ w[ip] = e
        /\ \A j \in DOMAIN kept : j # ip => w[j] = kept[j]
    BY DEF Put
  <2>2. buckets' = w
    BY <1>4
  <2> HIDE DEF w
  <2> QED
    BY <1>1, <2>1, <2>2
<1>6. /\ DOMAIN buckets' \subseteq Ip
      /\ \A j \in DOMAIN buckets' : buckets'[j] \in Bucket
  BY <1>1, <1>2, <1>5 DEF TypeOK
<1>7. RefusalsRecorded'
  BY <1>1, <1>4, <1>5, <1>6 DEF RefusalsRecorded
<1>8. BucketsBounded'
  <2>1. /\ MaxBuckets \in Nat \ {0} /\ IsFiniteSet(DOMAIN buckets)
        /\ Size(buckets) <= MaxBuckets
    BY NumbersAssumption, BucketsAreFinite DEF BucketsBounded
  <2>2. Size(Put(kept, ip, e)) <= MaxBuckets
    BY <2>1, CapHolds
  <2> QED
    BY <1>4, <2>2 DEF BucketsBounded
<1>9. granted' \in [Ip -> [Time -> Nat]]
  <2>1. CASE granted' = [granted EXCEPT ![ip][at] = @ + 1]
    BY <1>2, <2>1 DEF TypeOK
  <2> QED
    BY <1>1, <2>1 DEF TypeOK
<1>10. denied' \in [Ip -> Time \cup {Never}]
  BY <1>1, <1>2 DEF TypeOK
<1> QED
  BY <1>6, <1>7, <1>8, <1>9, <1>10

-----------------------------------------------------------------------------
(* What the requests let through have cost, and what has paid for it. *)

\* Of g[t] requests let through since t, and of what is spare besides, all up to
\* the time "at" is paid for by "full" full buckets and the refill since t.
Paid(g, spare, full, at) ==
  \A t \in Time :
    /\ t <= at => g[t] * Cost + spare <= Capacity * full + Rate * (at - t)
    /\ t > at  => g[t] = 0

Grants(ip) == [t \in Time |-> GrantsSince(ip, t)]

Account(ip) ==
  IF ip \in DOMAIN buckets
  THEN /\ buckets[ip].touched <= latest
       /\ Paid(Grants(ip), buckets[ip].tokens, 1 + forgiven[ip], buckets[ip].touched)
  ELSE Paid(Grants(ip), 0, forgiven[ip], latest)

ReadBefore == latest <= now /\ \A c \in DOMAIN waiting : waiting[c].at <= now

RateInv == ReadBefore /\ (~overtaken => \A ip \in Ip : Account(ip))

\* A bucket that was dropped as idle was full by then.
IdleIsFull == Capacity <= Rate * IdleWindow

LEMMA Numbers == {Capacity, Rate, Cost, IdleWindow} \subseteq Nat /\ Time \subseteq Nat
BY NumbersAssumption DEF Time

LEMMA Products ==
  /\ \A k \in Nat : Capacity * k \in Nat /\ Capacity * (1 + k) = Capacity + Capacity * k
  /\ \A k \in Nat : Rate * k \in Nat /\ k * Cost \in Nat /\ (k + 1) * Cost = k * Cost + Cost
  /\ \A j, k \in Nat : Rate * (j + k) = Rate * j + Rate * k
  /\ \A j, k \in Nat : j <= k => Rate * j <= Rate * k
<1>1. Capacity \in Nat /\ Rate \in Nat /\ Cost \in Nat
  BY NumbersAssumption
<1>2. \A j, k \in Nat : Rate * (j + k) = Rate * j + Rate * k /\ Rate * k \in Nat
  BY <1>1
<1>3. ASSUME NEW j \in Nat, NEW k \in Nat, j <= k
      PROVE  Rate * j <= Rate * k
  <2>1. k - j \in Nat /\ j + (k - j) = k
    BY <1>3
  <2>2. Rate * k = Rate * j + Rate * (k - j) /\ Rate * (k - j) \in Nat
    BY <1>2, <2>1
  <2> QED
    BY <1>2, <2>2
<1>4. \A k \in Nat : k * Cost \in Nat /\ (k + 1) * Cost = k * Cost + Cost
  BY <1>1
<1>5. \A k \in Nat : Capacity * k \in Nat /\ Capacity * (1 + k) = Capacity + Capacity * k
  BY <1>1
<1> QED
  BY <1>2, <1>3, <1>4, <1>5

\* Time refills, up to a full bucket.
LEMMA PaidLater ==
  ASSUME NEW g \in [Time -> Nat], NEW spare \in Nat, NEW full \in Nat,
         NEW at \in Time, Paid(g, spare, full, at),
         NEW later \in Time, at <= later,
         NEW more \in Nat, more <= spare + Rate * (later - at), more <= Capacity * full
  PROVE  Paid(g, more, full, later)
<1> SUFFICES ASSUME NEW t \in Time
             PROVE  /\ t <= later => g[t] * Cost + more <= Capacity * full + Rate * (later - t)
                    /\ t > later => g[t] = 0
  BY DEF Paid
<1>1. t \in Nat /\ at \in Nat /\ later \in Nat /\ g[t] \in Nat
  BY NumbersAssumption DEF Time
<1>2. CASE t <= at
  <2>1. at - t \in Nat /\ later - at \in Nat /\ later - t = (later - at) + (at - t)
    BY <1>1, <1>2
  <2>2. /\ Rate * (later - t) = Rate * (later - at) + Rate * (at - t)
        /\ Rate * (later - at) \in Nat /\ Rate * (at - t) \in Nat
    BY <2>1, Products
  <2>3. g[t] * Cost \in Nat /\ Capacity * full \in Nat
    BY <1>1, Products
  <2>4. g[t] * Cost + spare <= Capacity * full + Rate * (at - t)
    BY <1>2 DEF Paid
  <2> QED
    BY <1>1, <1>2, <2>2, <2>3, <2>4
<1>3. CASE t > at
  <2>1. g[t] = 0 /\ 0 * Cost = 0
    BY <1>3, NumbersAssumption DEF Paid
  <2>2. ASSUME t <= later
        PROVE  Rate * (later - t) \in Nat /\ Capacity * full \in Nat
    <3>1. later - t \in Nat
      BY <1>1, <2>2
    <3> QED
      BY <3>1, Products
  <2> QED
    BY <2>1, <2>2
<1> QED
  BY <1>1, <1>2, <1>3

\* An idle time that fills a bucket pays for the next one.
LEMMA PaidAfterIdle ==
  ASSUME NEW g \in [Time -> Nat], NEW spare \in Nat, NEW full \in Nat,
         NEW at \in Time, Paid(g, spare, 1 + full, at),
         NEW later \in Time, at + IdleWindow <= later, IdleIsFull
  PROVE  Paid(g, 0, full, later)
<1> SUFFICES ASSUME NEW t \in Time
             PROVE  /\ t <= later => g[t] * Cost <= Capacity * full + Rate * (later - t)
                    /\ t > later => g[t] = 0
  <2>1. \A t \in Time : g[t] \in Nat /\ g[t] * Cost \in Nat
    BY Products
  <2> QED
    BY <2>1 DEF Paid
<1>1. t \in Nat /\ at \in Nat /\ later \in Nat /\ IdleWindow \in Nat /\ g[t] \in Nat
  BY NumbersAssumption DEF Time
<1>2. CASE t <= at
  <2>1. at - t \in Nat /\ later - at \in Nat /\ later - t = (later - at) + (at - t)
    BY <1>1, <1>2
  <2>2. Rate * (later - t) = Rate * (later - at) + Rate * (at - t)
    BY <2>1, Products
  <2>3. IdleWindow <= later - at
    BY <1>1
  <2>4. /\ Rate * IdleWindow <= Rate * (later - at)
        /\ Rate * (later - at) \in Nat /\ Rate * (at - t) \in Nat /\ Rate * IdleWindow \in Nat
    BY <1>1, <2>1, <2>3, Products
  <2>5. /\ g[t] * Cost \in Nat /\ Capacity * full \in Nat
        /\ Capacity * (1 + full) = Capacity + Capacity * full
    BY <1>1, Products
  <2>6. g[t] * Cost + spare <= Capacity * (1 + full) + Rate * (at - t)
    BY <1>2 DEF Paid
  <2> QED
    BY <1>1, <1>2, <2>2, <2>4, <2>5, <2>6, NumbersAssumption DEF IdleIsFull
<1>3. CASE t > at
  <2>1. g[t] = 0 /\ 0 * Cost = 0
    BY <1>3, NumbersAssumption DEF Paid
  <2>2. ASSUME t <= later
        PROVE  Rate * (later - t) \in Nat /\ Capacity * full \in Nat
    <3>1. later - t \in Nat
      BY <1>1, <2>2
    <3> QED
      BY <3>1, Products
  <2> QED
    BY <2>1, <2>2
<1> QED
  BY <1>1, <1>2, <1>3

\* One request more, paid from the spare tokens.
LEMMA PaidByToken ==
  ASSUME NEW g \in [Time -> Nat], NEW h \in [Time -> Nat], NEW spare \in Nat, NEW full \in Nat,
         NEW at \in Time, Paid(g, spare, full, at), Cost <= spare,
         \A t \in Time : h[t] = g[t] + (IF t <= at THEN 1 ELSE 0)
  PROVE  Paid(h, spare - Cost, full, at)
<1> SUFFICES ASSUME NEW t \in Time
             PROVE  /\ t <= at => h[t] * Cost + (spare - Cost) <= Capacity * full + Rate * (at - t)
                    /\ t > at => h[t] = 0
  BY DEF Paid
<1>1. t \in Nat /\ at \in Nat /\ g[t] \in Nat /\ Cost \in Nat
  BY Numbers
<1>2. CASE t <= at
  <2>1. h[t] = g[t] + 1
    BY <1>2
  <2>2. h[t] * Cost = g[t] * Cost + Cost /\ g[t] * Cost \in Nat
    BY <1>1, <2>1, Products
  <2>3. g[t] * Cost + spare <= Capacity * full + Rate * (at - t)
    BY <1>2 DEF Paid
  <2>4. at - t \in Nat
    BY <1>1, <1>2
  <2>5. Rate * (at - t) \in Nat /\ Capacity * full \in Nat
    BY <2>4, Products
  <2> QED
    BY <1>1, <1>2, <2>2, <2>3, <2>5
<1>3. CASE t > at
  BY <1>1, <1>3 DEF Paid
<1> QED
  BY <1>1, <1>2, <1>3

LEMMA GrantsAreSums ==
  ASSUME NEW ip, NEW t
  PROVE  /\ GrantsSince(ip, t) = Sum(granted[ip], t..MaxTime)
         /\ GrantsSince(ip, t)' = Sum(granted'[ip], t..MaxTime)
BY Zenon DEF GrantsSince, Sum, MapThenSumSet, MapThenFoldSet

LEMMA GrantsType ==
  ASSUME TypeOK, NEW ip \in Ip
  PROVE  Grants(ip) \in [Time -> Nat]
<1>1. ASSUME NEW t \in Time
      PROVE  GrantsSince(ip, t) \in Nat
  <2> DEFINE g == granted[ip]
  <2>1. IsFiniteSet(t..MaxTime) /\ t..MaxTime \subseteq Time
    <3>1. t \in Int /\ MaxTime \in Int /\ t..MaxTime \subseteq Time
      BY NumbersAssumption DEF Time
    <3> QED
      BY <3>1, FS_Interval
  <2>2. \A u \in t..MaxTime : g[u] \in Nat
    BY <2>1 DEF TypeOK
  <2> HIDE DEF g
  <2>3. Sum(g, t..MaxTime) \in Nat
    BY <2>1, <2>2, SumType
  <2> QED
    BY <2>3, GrantsAreSums DEF g
<1> QED
  BY <1>1 DEF Grants

LEMMA GrantsKept ==
  ASSUME UNCHANGED granted
  PROVE  \A j \in Ip : Grants(j)' = Grants(j)
<1>1. ASSUME NEW j \in Ip, NEW t \in Time
      PROVE  GrantsSince(j, t)' = GrantsSince(j, t)
  BY GrantsAreSums
<1> QED
  BY <1>1 DEF Grants

\* A request let through at a time counts in every window that starts by then.
LEMMA OneGrantMore ==
  ASSUME TypeOK, NEW ip \in Ip, NEW at \in Time,
         granted' = [granted EXCEPT ![ip][at] = @ + 1]
  PROVE  /\ Grants(ip)' \in [Time -> Nat]
         /\ \A t \in Time : Grants(ip)'[t] = Grants(ip)[t] + (IF t <= at THEN 1 ELSE 0)
         /\ \A j \in Ip \ {ip} : Grants(j)' = Grants(j)
<1>1. ASSUME NEW t \in Time
      PROVE  GrantsSince(ip, t)' = GrantsSince(ip, t) + (IF t <= at THEN 1 ELSE 0)
  <2> DEFINE f == granted[ip]
             g == granted'[ip]
             S == t..MaxTime
  <2>1. IsFiniteSet(S) /\ (at \in S <=> t <= at)
    BY FS_Interval, NumbersAssumption DEF Time
  <2>2. \A u \in S : f[u] \in Nat /\ g[u] = f[u] + (IF u = at THEN 1 ELSE 0)
    BY NumbersAssumption DEF TypeOK, Time
  <2> HIDE DEF f, g, S
  <2>3. Sum(g, S) = Sum(f, S) + (IF at \in S THEN 1 ELSE 0)
    BY <2>1, <2>2, SumOneMore
  <2>4. GrantsSince(ip, t) = Sum(f, S) /\ GrantsSince(ip, t)' = Sum(g, S)
    BY GrantsAreSums DEF f, g, S
  <2> QED
    BY <2>1, <2>3, <2>4
<1>2. ASSUME NEW j \in Ip \ {ip}, NEW t \in Time
      PROVE  GrantsSince(j, t)' = GrantsSince(j, t)
  <2>1. granted'[j] = granted[j]
    BY DEF TypeOK
  <2> QED
    BY <2>1, GrantsAreSums
<1>3. \A t \in Time : Grants(ip)[t] \in Nat /\ Grants(ip)[t] = GrantsSince(ip, t)
  BY GrantsType DEF Grants
<1>4. /\ Grants(ip)' = [t \in Time |-> GrantsSince(ip, t)']
      /\ \A j \in Ip : Grants(j)' = [t \in Time |-> GrantsSince(j, t)']
  BY DEF Grants
<1>5. \A t \in Time : Grants(ip)'[t] = Grants(ip)[t] + (IF t <= at THEN 1 ELSE 0)
  BY <1>1, <1>3, <1>4
<1>6. Grants(ip)' \in [Time -> Nat]
  BY <1>3, <1>4, <1>5
<1>7. \A j \in Ip \ {ip} : Grants(j)' = Grants(j)
  BY <1>2, <1>4 DEF Grants
<1> QED
  BY <1>5, <1>6, <1>7

\* Making room, by a call that is in order: who keeps a bucket keeps what it has
\* paid for, who loses one starts again, having paid for what it got before.
LEMMA EvictionPaid ==
  ASSUME TypeOK, IdleIsFull, \A ip \in Ip : Account(ip),
         NEW at \in Time, latest <= at,
         NEW kept \in Evicted(buckets, at, MaxBuckets, IdleWindow),
         NEW f \in [Ip -> Nat],
         \A j \in Ip : f[j] = forgiven[j] + (IF j \in Dropped(kept, at) THEN 1 ELSE 0)
  PROVE  \A ip \in Ip :
           IF ip \in DOMAIN kept
           THEN /\ kept[ip] = buckets[ip] /\ kept[ip] \in Bucket /\ kept[ip].touched <= at
                /\ Paid(Grants(ip), kept[ip].tokens, 1 + f[ip], kept[ip].touched)
           ELSE Paid(Grants(ip), 0, f[ip], at)
<1> SUFFICES ASSUME NEW ip \in Ip
             PROVE  IF ip \in DOMAIN kept
                    THEN /\ kept[ip] = buckets[ip] /\ kept[ip] \in Bucket /\ kept[ip].touched <= at
                         /\ Paid(Grants(ip), kept[ip].tokens, 1 + f[ip], kept[ip].touched)
                    ELSE Paid(Grants(ip), 0, f[ip], at)
  OBVIOUS
<1>1. DOMAIN kept \subseteq DOMAIN buckets /\ \A j \in DOMAIN kept : kept[j] = buckets[j]
  BY BucketsAreFinite, EvictionDrops
<1>2. /\ Grants(ip) \in [Time -> Nat] /\ forgiven[ip] \in Nat
      /\ at \in Nat /\ latest \in Nat /\ latest \in Time
  BY GrantsType, Numbers DEF TypeOK
<1> DEFINE g == Grants(ip)
           b == buckets[ip]
<1>3. CASE ip \notin DOMAIN buckets
  <2>1. f[ip] = forgiven[ip] /\ Paid(g, 0, forgiven[ip], latest)
    BY <1>2, <1>3 DEF Account, Dropped
  <2>2. at - latest \in Nat
    BY <1>2
  <2>3. 0 <= 0 + Rate * (at - latest) /\ 0 <= Capacity * forgiven[ip]
    <3>1. Rate * (at - latest) \in Nat /\ Capacity * forgiven[ip] \in Nat
      BY <1>2, <2>2, Products
    <3> QED
      BY <3>1
  <2> HIDE DEF g
  <2>4. Paid(g, 0, forgiven[ip], at)
    BY <1>2, <2>1, <2>3, PaidLater DEF g
  <2> QED
    BY <1>1, <1>3, <2>1, <2>4 DEF g
<1>4. CASE ip \in DOMAIN buckets
  <2>1. /\ b \in Bucket /\ b.touched <= latest
        /\ Paid(g, b.tokens, 1 + forgiven[ip], b.touched)
    BY <1>4 DEF Account, TypeOK
  <2>2. b.tokens \in Nat /\ b.touched \in Nat /\ b.touched \in Time /\ b.touched <= at
    BY <1>2, <2>1, NumbersAssumption DEF Bucket, Time
  <2>3. CASE ip \in DOMAIN kept
    <3>1. f[ip] = forgiven[ip] /\ kept[ip] = b
      BY <1>1, <1>2, <2>3 DEF Dropped
    <3> HIDE DEF g, b
    <3>2. kept[ip] = buckets[ip]
      BY <1>1, <2>3
    <3> QED
      BY <2>1, <2>2, <2>3, <3>1, <3>2 DEF g
  <2>4. CASE ip \notin DOMAIN kept /\ ip \in Idle(buckets, at, IdleWindow)
    <3>1. f[ip] = forgiven[ip] /\ b.touched + IdleWindow <= at
      BY <1>2, <2>2, <2>4, Numbers DEF Dropped, Idle
    <3> HIDE DEF g, b
    <3>2. Paid(g, 0, forgiven[ip], at)
      BY <1>2, <2>1, <2>2, <3>1, PaidAfterIdle DEF g
    <3> QED
      BY <2>4, <3>1, <3>2 DEF g
  <2>5. CASE ip \notin DOMAIN kept /\ ip \notin Idle(buckets, at, IdleWindow)
    <3>1. f[ip] = 1 + forgiven[ip]
      BY <1>2, <1>4, <2>5 DEF Dropped
    <3> HIDE DEF g, b
    <3>2. at - b.touched \in Nat /\ 1 + forgiven[ip] \in Nat
      BY <1>2, <2>2
    <3>3. Rate * (at - b.touched) \in Nat /\ Capacity * (1 + forgiven[ip]) \in Nat
      BY <3>2, Products
    <3>4. 0 <= b.tokens + Rate * (at - b.touched) /\ 0 <= Capacity * (1 + forgiven[ip])
      BY <2>2, <3>3
    <3>5. Paid(g, 0, 1 + forgiven[ip], at)
      BY <1>2, <2>1, <2>2, <3>2, <3>4, PaidLater DEF g
    <3> QED
      BY <2>5, <3>1, <3>5 DEF g
  <2> QED
    BY <2>3, <2>4, <2>5
<1> QED
  BY <1>3, <1>4

\* What a call may take from has been paid for: a bucket that time refilled, or a
\* new one, which is the full bucket everyone starts with.
LEMMA RefillPaid ==
  ASSUME NEW g \in [Time -> Nat], NEW b \in Bucket, NEW full \in Nat, NEW at \in Time,
         b.touched <= at, Paid(g, b.tokens, 1 + full, b.touched)
  PROVE  Paid(g, Refilled(b, at).tokens, 1 + full, at)
<1>1. /\ Capacity \in Nat /\ at \in Nat /\ b.touched \in Nat /\ b.touched \in Time
      /\ b.tokens \in Nat /\ 1 + full \in Nat
  <2>1. b.touched \in Time /\ b.tokens \in 0..Capacity
    BY DEF Bucket
  <2>2. Capacity \in Nat /\ at \in Nat /\ b.touched \in Nat
    BY <2>1, Numbers
  <2>3. b.tokens \in Nat /\ 1 + full \in Nat
    BY <2>1, <2>2
  <2> QED
    BY <2>1, <2>2, <2>3
<1>2. at - b.touched \in Nat
  BY <1>1
<1>3. Rate * (at - b.touched) \in Nat
  BY <1>2, Products
<1>4. Elapsed(b.touched, at) * Rate = Rate * (at - b.touched)
  <2>1. Elapsed(b.touched, at) = at - b.touched
    BY <1>1 DEF Elapsed
  <2>2. \A k \in Nat : k * Rate = Rate * k
    BY Numbers
  <2> QED
    BY <1>2, <2>1, <2>2
<1> DEFINE more == Refilled(b, at).tokens
<1>5. more = Capped(b.tokens + Rate * (at - b.touched))
  BY <1>4 DEF Refilled
<1>6. more \in Nat /\ more <= Capacity /\ more <= b.tokens + Rate * (at - b.touched)
  BY <1>1, <1>3, <1>5 DEF Capped
<1>7. Capacity <= Capacity * (1 + full)
  BY <1>1, Products
<1> HIDE DEF more
<1>8. more <= Capacity * (1 + full)
  <2>1. Capacity * (1 + full) \in Nat
    BY <1>1, Products
  <2> QED
    BY <1>1, <1>6, <1>7, <2>1
<1>9. Paid(g, more, 1 + full, at)
  BY <1>1, <1>6, <1>8, PaidLater
<1> QED
  BY <1>9 DEF more

LEMMA FullPaid ==
  ASSUME NEW g \in [Time -> Nat], NEW full \in Nat, NEW at \in Time, Paid(g, 0, full, at)
  PROVE  Paid(g, Capacity, 1 + full, at)
<1> SUFFICES ASSUME NEW t \in Time
             PROVE  /\ t <= at => g[t] * Cost + Capacity <= Capacity * (1 + full) + Rate * (at - t)
                    /\ t > at => g[t] = 0
  BY DEF Paid
<1>1. t \in Nat /\ at \in Nat /\ g[t] \in Nat /\ Capacity \in Nat
  BY Numbers
<1>2. /\ g[t] * Cost \in Nat /\ Capacity * full \in Nat
      /\ Capacity * (1 + full) = Capacity + Capacity * full
  BY <1>1, Products
<1>3. CASE t <= at
  <2>1. at - t \in Nat
    BY <1>1, <1>3
  <2>2. Rate * (at - t) \in Nat
    BY <2>1, Products
  <2>3. g[t] * Cost + 0 <= Capacity * full + Rate * (at - t)
    BY <1>3 DEF Paid
  <2> QED
    BY <1>1, <1>2, <1>3, <2>2, <2>3
<1>4. CASE t > at
  BY <1>1, <1>4 DEF Paid
<1> QED
  BY <1>1, <1>3, <1>4

IndInv == TypeOK /\ RefusalsRecorded /\ BucketsBounded

LEMMA IndInvInit == Init => IndInv
<1> SUFFICES ASSUME Init PROVE IndInv
  OBVIOUS
<1>1. DOMAIN buckets = {} /\ DOMAIN waiting = {}
  BY DEF Init
<1>2. TypeOK
  <2>1. overtaken \in BOOLEAN
    BY Zenon DEF Init
  <2> QED
    BY <1>1, <2>1, NumbersAssumption DEF Init, TypeOK, Time
<1>3. BucketsBounded
  BY <1>1, FS_EmptySet, NumbersAssumption DEF BucketsBounded, Size
<1> QED
  BY <1>1, <1>2, <1>3 DEF IndInv, RefusalsRecorded

LEMMA IndInvStep == IndInv /\ [Next]_vars => IndInv'
<1> SUFFICES ASSUME IndInv, [Next]_vars PROVE IndInv'
  OBVIOUS
<1> USE DEF IndInv
<1>1. CASE UNCHANGED vars
  BY <1>1 DEF vars, TypeOK, RefusalsRecorded, BucketsBounded
<1>2. CASE Tick
  BY <1>2, NumbersAssumption DEF Tick, TypeOK, Time, RefusalsRecorded, BucketsBounded
<1>3. ASSUME NEW c \in Call, NEW ip \in Ip, ReadClock(c, ip)
      PROVE  IndInv'
  <2> DEFINE call == [ip |-> ip, at |-> now]
  <2>1. call \in [ip : Ip, at : Time]
    BY DEF TypeOK
  <2>2. waiting' = Put(waiting, c, call)
    BY <1>3 DEF ReadClock
  <2> HIDE DEF call
  <2>3. /\ DOMAIN waiting' \subseteq Call
        /\ \A d \in DOMAIN waiting' : waiting'[d] \in [ip : Ip, at : Time]
    BY <2>1, <2>2 DEF Put, TypeOK
  <2> QED
    BY <1>3, <2>3 DEF ReadClock, TypeOK, RefusalsRecorded, BucketsBounded
<1>4. ASSUME NEW c \in DOMAIN waiting, Acquire(c)
      PROVE  IndInv'
  <2>1. /\ DOMAIN waiting' \subseteq Call
        /\ \A d \in DOMAIN waiting' : waiting'[d] \in [ip : Ip, at : Time]
    BY <1>4 DEF Acquire, Without, TypeOK
  <2>2. forgiven' \in [Ip -> Nat]
    BY <1>4, AcquireShape
  <2>3. overtaken' \in BOOLEAN
    BY <1>4, Zenon DEF Acquire
  <2>4. latest' \in Time
    BY <1>4 DEF Acquire, TypeOK
  <2> QED
    BY <1>4, <2>1, <2>2, <2>3, <2>4, BucketsStep DEF Acquire, TypeOK
<1> QED
  BY <1>1, <1>2, <1>3, <1>4 DEF Next

\* A call in its turn leaves everything paid for, what it let through included.
LEMMA AcquirePaid ==
  ASSUME IndInv, IdleIsFull, \A ip \in Ip : Account(ip),
         NEW c \in DOMAIN waiting, Acquire(c), latest <= waiting[c].at
  PROVE  \A ip \in Ip : Account(ip)'
<1>1. PICK ip \in Ip, at \in Time :
        ip = waiting[c].ip /\ at = waiting[c].at /\ TypeOK /\ latest' = at
  BY DEF IndInv, TypeOK, Acquire
<1>2. PICK kept \in Evicted(buckets, at, MaxBuckets, IdleWindow), b \in Bucket :
        /\ DOMAIN kept \subseteq DOMAIN buckets
        /\ \A j \in DOMAIN kept : kept[j] = buckets[j]
        /\ b = IF ip \in DOMAIN kept THEN Refilled(kept[ip], at) ELSE Full(at)
        /\ forgiven' \in [Ip -> Nat]
        /\ \A j \in Ip : forgiven'[j] = forgiven[j] +
                          (IF j \in Dropped(kept, at) THEN 1 ELSE 0)
        /\ \/ /\ b.tokens >= Cost
              /\ buckets' = Put(kept, ip, [b EXCEPT !.tokens = @ - Cost])
              /\ granted' = [granted EXCEPT ![ip][at] = @ + 1]
              /\ denied' = [denied EXCEPT ![ip] = Never]
           \/ /\ b.tokens < Cost
              /\ buckets' = Put(kept, ip, b)
              /\ denied' = [denied EXCEPT ![ip] = at]
              /\ UNCHANGED granted
  <2> DEFINE i == waiting[c].ip
             a == waiting[c].at
  <2>1. \E kept \in Evicted(buckets, a, MaxBuckets, IdleWindow), b \in Bucket :
        /\ DOMAIN kept \subseteq DOMAIN buckets
        /\ \A j \in DOMAIN kept : kept[j] = buckets[j]
        /\ b = IF i \in DOMAIN kept THEN Refilled(kept[i], a) ELSE Full(a)
        /\ forgiven' \in [Ip -> Nat]
        /\ \A j \in Ip : forgiven'[j] = forgiven[j] +
                          (IF j \in Dropped(kept, a) THEN 1 ELSE 0)
        /\ \/ /\ b.tokens >= Cost
              /\ buckets' = Put(kept, i, [b EXCEPT !.tokens = @ - Cost])
              /\ granted' = [granted EXCEPT ![i][a] = @ + 1]
              /\ denied' = [denied EXCEPT ![i] = Never]
           \/ /\ b.tokens < Cost
              /\ buckets' = Put(kept, i, b)
              /\ denied' = [denied EXCEPT ![i] = a]
              /\ UNCHANGED granted
    BY <1>1, AcquireShape
  <2>2. i = ip /\ a = at
    BY <1>1
  <2> HIDE DEF i, a
  <2> QED
    BY <2>1, <2>2
<1>3. forgiven' \in [Ip -> Nat] /\ latest <= at
  BY <1>1, <1>2
<1>5. \A j \in Ip :
        IF j \in DOMAIN kept
        THEN /\ kept[j] = buckets[j] /\ kept[j] \in Bucket /\ kept[j].touched <= at
             /\ Paid(Grants(j), kept[j].tokens, 1 + forgiven'[j], kept[j].touched)
        ELSE Paid(Grants(j), 0, forgiven'[j], at)
  BY <1>1, <1>2, <1>3, EvictionPaid
<1>6. /\ forgiven'[ip] \in Nat /\ Grants(ip) \in [Time -> Nat]
      /\ b.touched = at /\ b.tokens \in Nat /\ at \in Nat
  <2>1. b.touched = at
    BY <1>1, <1>2, <1>5, RefillShape DEF Full
  <2>2. b.tokens \in 0..Capacity /\ Capacity \in Nat
    BY NumbersAssumption DEF Bucket
  <2> QED
    BY <1>1, <1>3, <2>1, <2>2, GrantsType, Numbers
\* What the caller's bucket holds when the call looks into it.
<1>7. Paid(Grants(ip), b.tokens, 1 + forgiven'[ip], at)
  <2>1. CASE ip \in DOMAIN kept
    <3>1. b = Refilled(kept[ip], at)
      BY <1>2, <2>1
    <3>2. /\ kept[ip] \in Bucket /\ kept[ip].touched <= at
          /\ Paid(Grants(ip), kept[ip].tokens, 1 + forgiven'[ip], kept[ip].touched)
      BY <1>1, <1>5, <2>1
    <3> QED
      BY <1>1, <1>6, <3>1, <3>2, RefillPaid
  <2>2. CASE ip \notin DOMAIN kept
    <3>1. b.tokens = Capacity
      BY <1>2, <2>2 DEF Full
    <3>2. Paid(Grants(ip), 0, forgiven'[ip], at)
      BY <1>1, <1>5, <2>2
    <3> QED
      BY <1>1, <1>6, <3>1, <3>2, FullPaid
  <2> QED
    BY <2>1, <2>2
\* The caller's own account, and that nobody else's requests changed.
<1>8. PICK e : /\ buckets' = Put(kept, ip, e)
               /\ e.touched = at
               /\ Paid(Grants(ip)', e.tokens, 1 + forgiven'[ip], at)
               /\ \A j \in Ip \ {ip} : Grants(j)' = Grants(j)
  <2>1. CASE /\ b.tokens >= Cost
             /\ buckets' = Put(kept, ip, [b EXCEPT !.tokens = @ - Cost])
             /\ granted' = [granted EXCEPT ![ip][at] = @ + 1]
    <3> DEFINE e == [b EXCEPT !.tokens = b.tokens - Cost]
    <3>1. /\ Grants(ip)' \in [Time -> Nat]
          /\ \A t \in Time : Grants(ip)'[t] = Grants(ip)[t] + (IF t <= at THEN 1 ELSE 0)
          /\ \A j \in Ip \ {ip} : Grants(j)' = Grants(j)
      BY <1>1, <2>1, OneGrantMore
    <3>2. Cost <= b.tokens /\ 1 + forgiven'[ip] \in Nat
      BY <1>6, <2>1, Numbers
    <3>3. ASSUME NEW g, g = Grants(ip), NEW h, h = Grants(ip)'
          PROVE  Paid(h, b.tokens - Cost, 1 + forgiven'[ip], at)
      BY <1>1, <1>6, <1>7, <3>1, <3>2, <3>3, PaidByToken
    <3>4. e.tokens = b.tokens - Cost /\ e.touched = at /\ buckets' = Put(kept, ip, e)
      BY <1>6, <2>1 DEF Bucket
    <3> HIDE DEF e
    <3> QED
      BY <3>1, <3>3, <3>4
  <2>2. CASE buckets' = Put(kept, ip, b) /\ UNCHANGED granted
    <3>1. \A j \in Ip : Grants(j)' = Grants(j)
      BY <2>2, GrantsKept
    <3>2. Paid(Grants(ip)', b.tokens, 1 + forgiven'[ip], at)
      BY <1>7, <3>1
    <3> QED
      BY <1>6, <2>2, <3>1, <3>2
  <2> QED
    BY <1>2, <2>1, <2>2
<1>9. /\ DOMAIN buckets' = DOMAIN kept \cup {ip}
      /\ buckets'[ip] = e
      /\ \A j \in DOMAIN kept : j # ip => buckets'[j] = kept[j]
  <2> DEFINE w == Put(kept, ip, e)
  <2>1. /\ DOMAIN w = DOMAIN kept \cup {ip}
        /\ w[ip] = e
        /\ \A j \in DOMAIN kept : j # ip => w[j] = kept[j]
    BY DEF Put
  <2> HIDE DEF w
  <2> QED
    BY <1>8, <2>1 DEF w
<1>10. ASSUME NEW j \in Ip
       PROVE  Account(j)'
  <2>1. CASE j = ip
    BY <1>1, <1>6, <1>8, <1>9, <2>1 DEF Account
  <2>2. CASE j # ip
    <3>1. Grants(j)' = Grants(j) /\ (j \in DOMAIN buckets' <=> j \in DOMAIN kept)
      BY <1>8, <1>9, <2>2
    <3>2. j \in DOMAIN kept => buckets'[j] = kept[j]
      BY <1>9, <2>2
    <3> QED
      BY <1>1, <1>5, <3>1, <3>2 DEF Account
  <2> QED
    BY <2>1, <2>2
<1> QED
  BY <1>10

LEMMA RateInvInit == Init => RateInv
<1> SUFFICES ASSUME Init PROVE RateInv
  OBVIOUS
<1>1. ReadBefore
  BY DEF Init, ReadBefore
<1>2. ASSUME NEW ip \in Ip
      PROVE  Account(ip)
  <2>1. ASSUME NEW t \in Time
        PROVE  GrantsSince(ip, t) = 0
    <3>1. t \in Int /\ MaxTime \in Int /\ t..MaxTime \subseteq Time
      BY NumbersAssumption DEF Time
    <3>2. IsFiniteSet(t..MaxTime)
      BY <3>1, FS_Interval
    <3>3. \A u \in t..MaxTime : granted[ip][u] = 0
      BY <3>1 DEF Init
    <3>4. Sum(granted[ip], t..MaxTime) = 0
      BY <3>2, <3>3, SumOfNothing
    <3> QED
      BY <3>4, GrantsAreSums
  <2>2. \A t \in Time : Grants(ip)[t] = 0
    BY <2>1 DEF Grants
  <2>3. ip \notin DOMAIN buckets /\ forgiven[ip] = 0 /\ latest = 0
    BY DEF Init
  <2>4. ASSUME NEW t \in Time, t <= 0
        PROVE  0 * Cost + 0 <= Capacity * 0 + Rate * (0 - t)
    <3>1. t = 0
      BY <2>4, Numbers
    <3> QED
      BY <3>1, Numbers
  <2> QED
    BY <2>2, <2>3, <2>4 DEF Account, Paid
<1> QED
  BY <1>1, <1>2 DEF RateInv

LEMMA RateInvStep == IdleIsFull /\ IndInv /\ RateInv /\ [Next]_vars => RateInv'
<1> SUFFICES ASSUME IdleIsFull, IndInv, RateInv, [Next]_vars PROVE RateInv'
  OBVIOUS
\* Steps that read the clock or let it pass leave every account as it is.
<1>1. ASSUME UNCHANGED <<buckets, granted, forgiven, latest, overtaken>>
      PROVE  (~overtaken => \A ip \in Ip : Account(ip))'
  <2>1. \A j \in Ip : Grants(j)' = Grants(j)
    BY <1>1, GrantsKept
  <2> QED
    BY <1>1, <2>1 DEF RateInv, Account
<1>2. CASE UNCHANGED vars
  BY <1>1, <1>2 DEF vars, RateInv, ReadBefore
<1>3. CASE Tick
  <2>1. ReadBefore'
    <3>1. now \in Nat /\ latest \in Nat /\ \A c \in DOMAIN waiting : waiting[c].at \in Nat
      BY Numbers DEF IndInv, TypeOK
    <3> QED
      BY <1>3, <3>1 DEF Tick, RateInv, ReadBefore
  <2> QED
    BY <1>1, <1>3, <2>1 DEF Tick, RateInv
<1>4. ASSUME NEW c \in Call, NEW ip \in Ip, ReadClock(c, ip)
      PROVE  RateInv'
  <2>1. now \in Nat
    BY Numbers DEF IndInv, TypeOK
  <2>2. \A d \in DOMAIN waiting' : waiting'[d].at <= now
    BY <1>4, <2>1 DEF ReadClock, Put, RateInv, ReadBefore
  <2> QED
    BY <1>1, <1>4, <2>2 DEF ReadClock, RateInv, ReadBefore
<1>5. ASSUME NEW c \in DOMAIN waiting, Acquire(c)
      PROVE  RateInv'
  <2>1. ReadBefore'
    BY <1>5 DEF Acquire, Without, RateInv, ReadBefore
  <2>2. ASSUME ~overtaken'
        PROVE  \A ip \in Ip : Account(ip)'
    <3>1. ~overtaken /\ ~(waiting[c].at < latest)
      BY <1>5, <2>2 DEF Acquire
    <3>2. latest \in Nat /\ waiting[c].at \in Nat
      BY Numbers DEF IndInv, TypeOK
    <3>3. latest <= waiting[c].at
      BY <3>1, <3>2
    <3> QED
      BY <1>5, <3>1, <3>3, AcquirePaid DEF RateInv
  <2> QED
    BY <2>1, <2>2 DEF RateInv
<1> QED
  BY <1>2, <1>3, <1>4, <1>5 DEF Next

LEMMA AccountsHonoured == IndInv /\ RateInv => RateHonouredInOrder
<1> SUFFICES ASSUME IndInv, RateInv, ~overtaken, NEW ip \in Ip, NEW t \in 0..now
             PROVE  GrantsSince(ip, t) * Cost
                      <= Capacity * (1 + forgiven[ip]) + Rate * (now - t)
  BY DEF RateHonouredInOrder, RateHonoured
<1> DEFINE g == Grants(ip)
           k == forgiven[ip]
<1>1. /\ TypeOK /\ g \in [Time -> Nat] /\ k \in Nat /\ 1 + k \in Nat
      /\ now \in Time /\ now \in Nat /\ latest \in Time /\ latest \in Nat /\ latest <= now
  BY GrantsType, Numbers DEF IndInv, TypeOK, RateInv, ReadBefore
<1>2. t \in Time /\ t <= now
  BY <1>1, NumbersAssumption DEF Time
<1>3. g[t] = GrantsSince(ip, t)
  BY <1>2 DEF Grants
<1>4. Capacity * (1 + k) = Capacity + Capacity * k /\ Capacity * k \in Nat /\ Capacity \in Nat
  BY <1>1, Products, Numbers
<1>5. PICK at \in Time, spare \in Nat, full \in {k, 1 + k} :
        at <= now /\ Paid(g, spare, full, at)
  <2>1. CASE ip \in DOMAIN buckets
    <3>1. buckets[ip] \in Bucket /\ buckets[ip].touched <= latest
      BY <1>1, <2>1 DEF TypeOK, RateInv, Account
    <3>2. buckets[ip].touched \in Time /\ buckets[ip].tokens \in 0..Capacity
      BY <3>1 DEF Bucket
    <3>3. buckets[ip].touched \in Nat /\ buckets[ip].tokens \in Nat
      BY <3>2, NumbersAssumption DEF Time
    <3>4. buckets[ip].touched <= now
      BY <1>1, <3>1, <3>3
    <3>5. Paid(g, buckets[ip].tokens, 1 + k, buckets[ip].touched)
      BY <2>1 DEF RateInv, Account
    <3> HIDE DEF g, k
    <3> QED
      BY <3>2, <3>3, <3>4, <3>5
  <2>2. CASE ip \notin DOMAIN buckets
    <3>1. Paid(g, 0, k, latest)
      BY <2>2 DEF RateInv, Account
    <3> HIDE DEF g, k
    <3> QED
      BY <1>1, <3>1
  <2> QED
    BY <2>1, <2>2
<1> HIDE DEF g, k
<1>6. Paid(g, 0, full, now)
  <2>1. now - at \in Nat /\ full \in Nat
    BY <1>1, <1>5, Numbers
  <2>2. Rate * (now - at) \in Nat /\ Capacity * full \in Nat
    BY <2>1, Products
  <2>3. 0 <= spare + Rate * (now - at) /\ 0 <= Capacity * full
    BY <2>2
  <2> QED
    BY <1>1, <1>5, <2>1, <2>3, PaidLater
<1>7. g[t] * Cost + 0 <= Capacity * full + Rate * (now - t)
  BY <1>2, <1>6 DEF Paid
<1>8. now - t \in Nat /\ g[t] \in Nat
  BY <1>1, <1>2, Numbers
<1>9. Rate * (now - t) \in Nat /\ g[t] * Cost \in Nat
  BY <1>8, Products
<1>10. Capacity * full <= Capacity * (1 + k)
  BY <1>4, <1>5
<1>11. Capacity * full \in Nat /\ Capacity * (1 + k) \in Nat
  BY <1>1, <1>5, Products
<1>12. g[t] * Cost <= Capacity * (1 + k) + Rate * (now - t)
  BY <1>7, <1>9, <1>10, <1>11
<1> QED
  BY <1>3, <1>12 DEF k

\* The buckets stay buckets, within their capacity, in every order in which the
\* calls get the mutex (RateLimit::try_acquire).
THEOREM TypeCorrect == Spec => []TypeOK
<1>1. IndInv => TypeOK
  BY DEF IndInv
<1> QED
  BY <1>1, IndInvInit, IndInvStep, PTL DEF Spec

\* However many clients call, the map holds at most max_buckets of them: room is
\* made before each insertion (evict_if_full).
THEOREM MapStaysBounded == Spec => []BucketsBounded
<1>1. IndInv => BucketsBounded
  BY DEF IndInv
<1> QED
  BY <1>1, IndInvInit, IndInvStep, PTL DEF Spec

\* A client refused at one clock reading and calling again at a later one is let
\* through, whoever else called in between: the Retry-After that the refusal
\* carried was long enough.
THEOREM RetryAfterSuffices == Spec => RetryAfterIsEnough
<1> DEFINE Retry(c) ==
      /\ Rate >= Cost /\ Capacity >= Cost
      /\ c \notin DOMAIN waiting'
      /\ denied[waiting[c].ip] # Never /\ waiting[c].at > denied[waiting[c].ip]
      => granted'[waiting[c].ip] # granted[waiting[c].ip]
<1>1. IndInv /\ [Next]_vars => [\A c \in DOMAIN waiting : Retry(c)]_vars
  <2> SUFFICES ASSUME IndInv, [Next]_vars, NEW c \in DOMAIN waiting,
                      Rate >= Cost, Capacity >= Cost, c \notin DOMAIN waiting',
                      denied[waiting[c].ip] # Never,
                      waiting[c].at > denied[waiting[c].ip]
               PROVE  granted'[waiting[c].ip] # granted[waiting[c].ip]
    OBVIOUS
  <2> DEFINE ip == waiting[c].ip
             at == waiting[c].at
  <2>1. Acquire(c)
    <3>1. ASSUME NEW d \in Call, NEW j \in Ip, ReadClock(d, j)
          PROVE  FALSE
      BY <3>1 DEF ReadClock, Put
    <3>2. ASSUME NEW d \in DOMAIN waiting, Acquire(d)
          PROVE  d = c
      BY <3>2 DEF Acquire, Without
    <3> QED
      BY <3>1, <3>2 DEF Next, Tick, vars
  <2>2. ip \in Ip /\ at \in Time /\ TypeOK
    BY DEF IndInv, TypeOK
  <2>3. PICK kept \in Evicted(buckets, at, MaxBuckets, IdleWindow), b \in Bucket :
          /\ DOMAIN kept \subseteq DOMAIN buckets
          /\ \A j \in DOMAIN kept : kept[j] = buckets[j]
          /\ b = IF ip \in DOMAIN kept THEN Refilled(kept[ip], at) ELSE Full(at)
          /\ b.tokens < Cost \/ granted' = [granted EXCEPT ![ip][at] = @ + 1]
    BY <2>1, <2>2, AcquireShape
  <2>4. b.tokens >= Cost
    <3>1. CASE ip \in DOMAIN kept
      <4>1. /\ kept[ip] = buckets[ip] /\ buckets[ip] \in Bucket
            /\ at > buckets[ip].touched
        BY <2>2, <2>3, <3>1 DEF IndInv, TypeOK, RefusalsRecorded
      <4> HIDE DEF ip, at
      <4> QED
        BY <2>2, <2>3, <3>1, <4>1, RefillShape
    <3>2. CASE ip \notin DOMAIN kept
      BY <2>3, <3>2 DEF Full
    <3> QED
      BY <3>1, <3>2
  <2>5. b.tokens \in Nat /\ Cost \in Nat
    BY NumbersAssumption DEF Bucket
  <2>6. granted' = [granted EXCEPT ![ip][at] = @ + 1]
    BY <2>3, <2>4, <2>5
  <2>7. granted[ip][at] \in Nat /\ granted'[ip][at] = granted[ip][at] + 1
    BY <2>2, <2>6 DEF TypeOK
  <2> QED
    BY <2>7
<1> QED
  BY <1>1, IndInvInit, IndInvStep, PTL DEF Spec, RetryAfterIsEnough, Retry

\* Where a bucket fills within the idle time, as those of RateLimit::per_second do
\* and those of RateLimit::new whose capacity is at most a minute's refill, calls
\* that get the mutex in the order in which they read the clock never let a
\* client through more often, over any stretch of time, than full buckets and the
\* refill pay for: neither eviction nor the refill gives a token away.
THEOREM RateIsHonoured == IdleIsFull => (Spec => []RateHonouredInOrder)
<1> SUFFICES ASSUME IdleIsFull PROVE Spec => []RateHonouredInOrder
  OBVIOUS
<1>1. IndInv /\ RateInv /\ [Next]_vars => RateInv'
  BY RateInvStep
<1> QED
  BY <1>1, IndInvInit, IndInvStep, RateInvInit, AccountsHonoured, PTL DEF Spec

=============================================================================
