---------------------------- MODULE LruMapProofs ----------------------------
(* What making room does, for every map and every cap but zero. *)
EXTENDS LruMap, FiniteSetTheorems, TLAPS

\* Dropping entries leaves a finite map, with the other entries as they were.
LEMMA WithoutShrinks ==
  ASSUME NEW m, NEW S, IsFiniteSet(DOMAIN m)
  PROVE  /\ DOMAIN Without(m, S) = DOMAIN m \ S
         /\ IsFiniteSet(DOMAIN Without(m, S))
         /\ Size(Without(m, S)) \in Nat
         /\ Size(Without(m, S)) <= Size(m)
         /\ \A k \in DOMAIN Without(m, S) : Without(m, S)[k] = m[k]
<1>1. DOMAIN Without(m, S) = DOMAIN m \ S
  BY DEF Without
<1>2. DOMAIN m \ S \in SUBSET DOMAIN m
  OBVIOUS
<1>3. /\ IsFiniteSet(DOMAIN m \ S)
      /\ Cardinality(DOMAIN m \ S) <= Cardinality(DOMAIN m)
  BY <1>2, FS_Subset
<1>4. Cardinality(DOMAIN m \ S) \in Nat
  BY <1>3, FS_CardinalityType
<1>5. \A k \in DOMAIN Without(m, S) : Without(m, S)[k] = m[k]
  BY DEF Without
<1> QED
  BY <1>1, <1>3, <1>4, <1>5 DEF Size

\* An insertion adds at most one entry and leaves the others as they were.
LEMMA PutAddsOne ==
  ASSUME NEW m, NEW k, NEW e, IsFiniteSet(DOMAIN m)
  PROVE  /\ DOMAIN Put(m, k, e) = DOMAIN m \cup {k}
         /\ IsFiniteSet(DOMAIN Put(m, k, e))
         /\ Size(Put(m, k, e)) <= Size(m) + 1
         /\ Put(m, k, e)[k] = e
         /\ \A j \in DOMAIN m : j # k => Put(m, k, e)[j] = m[j]
<1>1. DOMAIN Put(m, k, e) = DOMAIN m \cup {k}
  BY DEF Put
<1>2. /\ IsFiniteSet(DOMAIN m \cup {k})
      /\ Cardinality(DOMAIN m \cup {k}) =
           IF k \in DOMAIN m THEN Cardinality(DOMAIN m) ELSE Cardinality(DOMAIN m) + 1
  BY FS_AddElement
<1>3. Cardinality(DOMAIN m) \in Nat
  BY FS_CardinalityType
<1>4. Cardinality(DOMAIN m \cup {k}) <= Cardinality(DOMAIN m) + 1
  BY <1>2, <1>3
<1>5. /\ Put(m, k, e)[k] = e
      /\ \A j \in DOMAIN m : j # k => Put(m, k, e)[j] = m[j]
  BY DEF Put
<1> QED
  BY <1>1, <1>2, <1>4, <1>5 DEF Size

\* Making room only drops entries.
LEMMA EvictionDrops ==
  ASSUME NEW m, NEW now, NEW cap, NEW window, IsFiniteSet(DOMAIN m),
         NEW kept \in Evicted(m, now, cap, window)
  PROVE  /\ DOMAIN kept \subseteq DOMAIN m
         /\ IsFiniteSet(DOMAIN kept)
         /\ \A k \in DOMAIN kept : kept[k] = m[k]
<1> DEFINE idle == Idle(m, now, window)
           busy == Without(m, idle)
<1>1. /\ DOMAIN busy = DOMAIN m \ idle
      /\ IsFiniteSet(DOMAIN busy)
      /\ \A k \in DOMAIN busy : busy[k] = m[k]
  <2> HIDE DEF idle
  <2> QED
    BY WithoutShrinks
<1>2. kept = m \/ kept = busy \/ \E k \in Oldest(busy) : kept = Without(busy, {k})
  BY DEF Evicted
<1> HIDE DEF busy, idle
<1>3. ASSUME NEW k, kept = Without(busy, {k})
      PROVE  /\ DOMAIN kept = DOMAIN busy \ {k}
             /\ IsFiniteSet(DOMAIN kept)
             /\ \A j \in DOMAIN kept : kept[j] = busy[j]
  <2> DEFINE S == {k}
  <2>1. kept = Without(busy, S)
    BY <1>3
  <2> HIDE DEF S
  <2>2. /\ DOMAIN Without(busy, S) = DOMAIN busy \ S
        /\ IsFiniteSet(DOMAIN Without(busy, S))
        /\ \A j \in DOMAIN Without(busy, S) : Without(busy, S)[j] = busy[j]
    BY <1>1, WithoutShrinks
  <2> QED
    BY <2>1, <2>2 DEF S
<1> QED
  BY <1>1, <1>2, <1>3

\* Making room leaves room, unless there can be none.
LEMMA EvictionMakesRoom ==
  ASSUME NEW m, NEW now, NEW cap \in Nat \ {0}, NEW window,
         IsFiniteSet(DOMAIN m), Size(m) <= cap,
         NEW kept \in Evicted(m, now, cap, window)
  PROVE  Size(kept) \in Nat /\ Size(kept) < cap
<1> DEFINE busy == Without(m, Idle(m, now, window))
<1>0. Size(m) \in Nat
  BY FS_CardinalityType DEF Size
<1>1. /\ IsFiniteSet(DOMAIN busy)
      /\ Size(busy) \in Nat
      /\ Size(busy) <= Size(m)
  BY WithoutShrinks
<1>2. CASE Size(m) < cap
  BY <1>2, <1>0 DEF Evicted
<1>3. CASE ~(Size(m) < cap) /\ (Size(busy) < cap \/ DOMAIN busy = {})
  <2>1. kept = busy
    BY <1>3 DEF Evicted
  <2>2. Size(busy) < cap
    BY <1>3, FS_EmptySet DEF Size
  <2> QED
    BY <2>1, <2>2, <1>1
<1>4. CASE ~(Size(m) < cap) /\ ~(Size(busy) < cap \/ DOMAIN busy = {})
  <2>1. PICK k \in Oldest(busy) : kept = Without(busy, {k})
    BY <1>4 DEF Evicted
  <2>2. k \in DOMAIN busy
    BY DEF Oldest
  <2> HIDE DEF busy
  <2>3. DOMAIN kept = DOMAIN busy \ {k} /\ Size(kept) \in Nat
    BY <2>1, <1>1, WithoutShrinks
  <2>4. Cardinality(DOMAIN kept) = Cardinality(DOMAIN busy) - 1
    BY <2>2, <2>3, <1>1, FS_RemoveElement
  <2> QED
    BY <2>4, <2>3, <1>0, <1>1 DEF Size
<1> QED
  BY <1>2, <1>3, <1>4

\* So a map that makes room before it inserts stays within its cap.
THEOREM CapHolds ==
  ASSUME NEW m, NEW now, NEW cap \in Nat \ {0}, NEW window, NEW key, NEW entry,
         IsFiniteSet(DOMAIN m), Size(m) <= cap,
         NEW kept \in Evicted(m, now, cap, window)
  PROVE  /\ IsFiniteSet(DOMAIN Put(kept, key, entry))
         /\ Size(Put(kept, key, entry)) <= cap
<1>1. /\ IsFiniteSet(DOMAIN kept)
      /\ Size(kept) \in Nat
      /\ Size(kept) < cap
  BY EvictionDrops, EvictionMakesRoom
<1>2. /\ IsFiniteSet(DOMAIN Put(kept, key, entry))
      /\ Size(Put(kept, key, entry)) <= Size(kept) + 1
  BY <1>1, PutAddsOne
<1>3. Size(Put(kept, key, entry)) \in Nat
  BY <1>2, FS_CardinalityType DEF Size
<1> QED
  BY <1>1, <1>2, <1>3

=============================================================================
