----------------------------- MODULE FoldProofs -----------------------------
(***************************************************************************)
(* What the folds of the other modules compute: sums over sets of times    *)
(* (RateLimit), the walk along a chain of proxies (ServerOptions) and the   *)
(* resolution of a path (ServeDir).                                        *)
(*                                                                         *)
(* A fold is a recursive function on the subsets of what it folds.  That   *)
(* it exists, that it is the only one, and what holds of it all are        *)
(* inductions over those subsets; SubsetInduction draws them from the      *)
(* least element that WFMin finds among the subsets where they fail, so    *)
(* that sets of subsets take the place of predicates.                      *)
(***************************************************************************)
EXTENDS FiniteSetsExt, SequencesExt, FiniteSetTheorems, SequenceTheorems, TLAPS

\* What belongs to a set of subsets whenever everything smaller does is in it.
LEMMA SubsetInduction ==
  ASSUME NEW S, IsFiniteSet(S), NEW G,
         \A T \in SUBSET S : (\A U \in SUBSET T : U # T => U \in G) => T \in G
  PROVE  \A T \in SUBSET S : T \in G
<1> DEFINE R == StrictSubsetOrdering(S)
           Bad == (SUBSET S) \ G
<1>1. IsWellFoundedOn(R, SUBSET S)
  BY FS_StrictSubsetOrderingWellFounded, FS_FiniteSubsetsOfFinite
<1>2. ASSUME Bad # {}
      PROVE  FALSE
  <2>1. Bad \subseteq SUBSET S
    OBVIOUS
  <2> HIDE DEF R, Bad
  <2>2. PICK T \in Bad : \A U \in Bad : ~ (<<U, T>> \in R)
    BY <1>1, <1>2, <2>1, WFMin
  <2>3. \A U \in SUBSET T : U # T => <<U, T>> \in R
    BY <2>1, <2>2 DEF R, StrictSubsetOrdering
  <2>4. ASSUME NEW U \in SUBSET T, U # T
        PROVE  U \in G
    <3>1. U \in SUBSET S /\ U \notin Bad
      BY <2>1, <2>2, <2>3, <2>4
    <3> QED
      BY <3>1 DEF Bad
  <2> QED
    BY <2>1, <2>2, <2>4 DEF Bad
<1> QED
  BY <1>2

-----------------------------------------------------------------------------
(* Folds in general: the next element is pick's, and h puts it in. *)

Picks(pick, S) == \A s \in SUBSET S : s # {} => pick[s] \in s

FoldsOf(S, V, base, pick, h) ==
  { f \in [SUBSET S -> V] : \A s \in SUBSET S :
      f[s] = IF s = {} THEN base ELSE h[<<pick[s], f[s \ {pick[s]}]>>] }

LEMMA FoldIsUnique ==
  ASSUME NEW S, IsFiniteSet(S), NEW V, NEW base, NEW pick, NEW h, Picks(pick, S),
         NEW f \in FoldsOf(S, V, base, pick, h), NEW g \in FoldsOf(S, V, base, pick, h)
  PROVE  f = g
<1> DEFINE G == { s \in SUBSET S : f[s] = g[s] }
<1>1. ASSUME NEW T \in SUBSET S, \A U \in SUBSET T : U # T => U \in G
      PROVE  T \in G
  <2>1. CASE T = {}
    BY <2>1 DEF FoldsOf
  <2>2. CASE T # {}
    <3>1. pick[T] \in T
      BY <2>2 DEF Picks
    <3>2. T \ {pick[T]} \in G
      BY <1>1, <3>1
    <3> QED
      BY <2>2, <3>2 DEF FoldsOf
  <2> QED
    BY <2>1, <2>2
<1> HIDE DEF G
<1>2. \A T \in SUBSET S : T \in G
  BY <1>1, SubsetInduction
<1> QED
  BY <1>2 DEF G, FoldsOf

\* A fold over a set is one over each of its subsets.
LEMMA FoldRestricts ==
  ASSUME NEW S, NEW V, NEW base, NEW pick, NEW h, Picks(pick, S),
         NEW f \in FoldsOf(S, V, base, pick, h), NEW T \in SUBSET S
  PROVE  [s \in SUBSET T |-> f[s]] \in FoldsOf(T, V, base, pick, h)
<1> DEFINE g == [s \in SUBSET T |-> f[s]]
<1>1. g \in [SUBSET T -> V]
  BY DEF FoldsOf
<1>2. ASSUME NEW s \in SUBSET T
      PROVE  g[s] = IF s = {} THEN base ELSE h[<<pick[s], g[s \ {pick[s]}]>>]
  <2>1. s \in SUBSET S /\ s \ {pick[s]} \in SUBSET T
    OBVIOUS
  <2> QED
    BY <2>1 DEF FoldsOf
<1> QED
  BY <1>1, <1>2 DEF FoldsOf

LEMMA FoldExists ==
  ASSUME NEW S, IsFiniteSet(S), NEW V, NEW base \in V, NEW pick, NEW h \in [S \X V -> V],
         Picks(pick, S)
  PROVE  FoldsOf(S, V, base, pick, h) # {}
<1> DEFINE F(T) == FoldsOf(T, V, base, pick, h)
           G == { T \in SUBSET S : F(T) # {} }
<1>1. ASSUME NEW T \in SUBSET S, \A U \in SUBSET T : U # T => U \in G
      PROVE  T \in G
  <2> DEFINE fold(U) == CHOOSE f : f \in F(U)
             rest == T \ {pick[T]}
             top == IF T = {} THEN base ELSE h[<<pick[T], fold(rest)[rest]>>]
             g == [U \in SUBSET T |-> IF U = T THEN top ELSE fold(U)[U]]
  <2>1. \A U \in SUBSET T : U # T => fold(U) \in F(U)
    BY <1>1
  <2>2. T # {} => pick[T] \in T /\ rest \in SUBSET T /\ rest # T
    BY DEF Picks
  <2>3. \A U \in SUBSET T : U # T => fold(U)[U] \in V
    BY <2>1 DEF FoldsOf
  <2>4. top \in V
    BY <2>2, <2>3
  <2>5. g \in [SUBSET T -> V]
    <3> HIDE DEF top, fold
    <3> QED
      BY <2>3, <2>4
  \* The folds over two subsets agree where both are defined.
  <2>6. ASSUME NEW U \in SUBSET T, U # T, NEW W \in SUBSET U
        PROVE  fold(W)[W] = fold(U)[W]
    <3> DEFINE r == [s \in SUBSET W |-> fold(U)[s]]
    <3> HIDE DEF fold
    <3>1. W \in SUBSET T /\ W # T /\ W \in SUBSET S
      BY <2>6
    <3>2. fold(U) \in F(U) /\ fold(W) \in F(W)
      BY <2>1, <2>6, <3>1
    <3>3. Picks(pick, U) /\ Picks(pick, W) /\ IsFiniteSet(W)
      BY <2>6, <3>1, FS_Subset DEF Picks
    <3>4. r \in F(W)
      BY <2>6, <3>2, <3>3, FoldRestricts
    <3> HIDE DEF r
    <3>5. r = fold(W)
      BY <3>2, <3>3, <3>4, FoldIsUnique
    <3> QED
      BY <3>5 DEF r
  <2>7. ASSUME NEW s \in SUBSET T
        PROVE  g[s] = IF s = {} THEN base ELSE h[<<pick[s], g[s \ {pick[s]}]>>]
    <3> HIDE DEF fold
    <3>1. CASE s = T
      BY <2>2, <3>1
    <3>2. CASE s # T
      <4>1. fold(s)[s] = IF s = {} THEN base ELSE h[<<pick[s], fold(s)[s \ {pick[s]}]>>]
        BY <2>1, <3>2 DEF FoldsOf
      <4>2. s # {} => s \ {pick[s]} \in SUBSET s /\ s \ {pick[s]} # T
        BY <3>2
      <4>3. s # {} => g[s \ {pick[s]}] = fold(s)[s \ {pick[s]}]
        BY <2>6, <3>2, <4>2
      <4> QED
        BY <3>2, <4>1, <4>3
    <3> QED
      BY <3>1, <3>2
  <2>8. g \in F(T)
    <3> HIDE DEF g
    <3> QED
      BY <2>5, <2>7 DEF FoldsOf
  <2> QED
    BY <2>8
<1> HIDE DEF G
<1>2. \A T \in SUBSET S : T \in G
  BY <1>1, SubsetInduction
<1> QED
  BY <1>2 DEF G

-----------------------------------------------------------------------------
(* Sums. *)

Sum(f, S) == MapThenSumSet(LAMBDA x : f[x], S)

Some(s) == CHOOSE x \in s : TRUE

SumsOf(f, S) ==
  { it \in [SUBSET S -> Nat] : \A s \in SUBSET S :
      it[s] = IF s = {} THEN 0 ELSE f[Some(s)] + it[s \ {Some(s)}] }

LEMMA SumIsFold ==
  ASSUME NEW S, IsFiniteSet(S), NEW f, \A x \in S : f[x] \in Nat
  PROVE  \E it \in SumsOf(f, S) : Sum(f, S) = it[S]
<1> DEFINE pick == [s \in SUBSET S |-> Some(s)]
           h == [z \in S \X Nat |-> f[z[1]] + z[2]]
           step(it) == [s \in SUBSET S |->
                          IF s = {} THEN 0 ELSE f[Some(s)] + it[s \ {Some(s)}]]
           sum == CHOOSE it : it = step(it)
<1>1. \A s \in SUBSET S : s # {} => Some(s) \in s
  BY DEF Some
<1>2. Picks(pick, S)
  BY <1>1 DEF Picks
<1>3. h \in [S \X Nat -> Nat]
  OBVIOUS
<1>4. PICK it \in FoldsOf(S, Nat, 0, pick, h) : TRUE
  <2> HIDE DEF pick, h
  <2> QED
    BY <1>2, <1>3, FoldExists
<1>5. /\ it \in [SUBSET S -> Nat]
      /\ \A s \in SUBSET S : it[s] = IF s = {} THEN 0 ELSE h[<<pick[s], it[s \ {pick[s]}]>>]
  BY <1>4 DEF FoldsOf
<1>6. ASSUME NEW s \in SUBSET S
      PROVE  it[s] = IF s = {} THEN 0 ELSE f[Some(s)] + it[s \ {Some(s)}]
  <2>1. CASE s = {}
    BY <1>5, <2>1
  <2>2. CASE s # {}
    <3>1. Some(s) \in S /\ s \ {Some(s)} \in SUBSET S /\ pick[s] = Some(s)
      BY <1>1, <2>2
    <3> HIDE DEF pick
    <3>2. h[<<Some(s), it[s \ {Some(s)}]>>] = f[Some(s)] + it[s \ {Some(s)}]
      BY <1>5, <3>1
    <3> QED
      BY <1>5, <2>2, <3>1, <3>2
  <2> QED
    BY <2>1, <2>2
<1>7. it = step(it)
  BY <1>5, <1>6
<1>8. sum = step(sum)
  <2> HIDE DEF step
  <2> QED
    BY <1>7
<1>9. Sum(f, S) = sum[S]
  BY Zenon DEF Sum, MapThenSumSet, MapThenFoldSet, Some
<1> HIDE DEF sum, h, pick
<1>10. \A s \in SUBSET S : sum[s] = IF s = {} THEN 0 ELSE f[Some(s)] + sum[s \ {Some(s)}]
  BY <1>8
<1>11. \A s \in SUBSET S : sum[s] \in Nat
  <2> DEFINE G == { s \in SUBSET S : sum[s] \in Nat }
  <2>1. ASSUME NEW T \in SUBSET S, \A U \in SUBSET T : U # T => U \in G
        PROVE  T \in G
    <3> HIDE DEF step
    <3>1. CASE T = {}
      <4>1. sum[T] = 0
        BY <1>10, <3>1
      <4> QED
        BY <4>1
    <3>2. CASE T # {}
      <4>1. Some(T) \in T /\ T \ {Some(T)} \in SUBSET T /\ T \ {Some(T)} # T
        BY <1>1, <3>2
      <4>2. sum[T \ {Some(T)}] \in Nat /\ f[Some(T)] \in Nat
        BY <2>1, <4>1
      <4>3. sum[T] = f[Some(T)] + sum[T \ {Some(T)}]
        BY <1>10, <3>2
      <4> QED
        BY <4>2, <4>3
    <3> QED
      BY <3>1, <3>2
  <2> HIDE DEF G
  <2>2. \A T \in SUBSET S : T \in G
    BY <2>1, SubsetInduction
  <2> QED
    BY <2>2 DEF G
<1>12. sum \in SumsOf(f, S)
  <2>1. sum = [s \in SUBSET S |-> sum[s]]
    BY <1>8
  <2> QED
    BY <1>10, <1>11, <2>1 DEF SumsOf
<1> QED
  BY <1>9, <1>12

LEMMA SumType ==
  ASSUME NEW S, IsFiniteSet(S), NEW f, \A x \in S : f[x] \in Nat
  PROVE  Sum(f, S) \in Nat
<1>1. PICK it \in SumsOf(f, S) : Sum(f, S) = it[S]
  BY SumIsFold
<1> QED
  BY <1>1 DEF SumsOf

\* Two sums over the same set differ by what their terms differ by, when that is
\* one at x and nothing elsewhere.
LEMMA SumOneMore ==
  ASSUME NEW S, IsFiniteSet(S), NEW f, NEW g, NEW x,
         \A y \in S : f[y] \in Nat /\ g[y] = f[y] + (IF y = x THEN 1 ELSE 0)
  PROVE  Sum(g, S) = Sum(f, S) + (IF x \in S THEN 1 ELSE 0)
<1>1. PICK a \in SumsOf(f, S) : Sum(f, S) = a[S]
  BY SumIsFold
<1>2. \A y \in S : g[y] \in Nat
  OBVIOUS
<1>3. PICK b \in SumsOf(g, S) : Sum(g, S) = b[S]
  BY <1>2, SumIsFold
<1> DEFINE extra(s) == IF x \in s THEN 1 ELSE 0
           G == { s \in SUBSET S : b[s] = a[s] + extra(s) }
<1>4. ASSUME NEW T \in SUBSET S, \A U \in SUBSET T : U # T => U \in G
      PROVE  T \in G
  <2>1. CASE T = {}
    <3>1. a[T] = 0 /\ b[T] = 0 /\ extra(T) = 0
      BY <1>1, <1>3, <2>1 DEF SumsOf
    <3> QED
      BY <3>1
  <2>2. CASE T # {}
    <3> DEFINE y == Some(T)
               rest == T \ {y}
    <3>1. y \in T
      BY <2>2 DEF Some
    <3> HIDE DEF y
    <3>2. b[rest] = a[rest] + extra(rest)
      BY <1>4, <3>1
    <3>3. /\ a[T] = f[y] + a[rest]
          /\ b[T] = g[y] + b[rest]
          /\ a[rest] \in Nat
      BY <1>1, <1>3, <2>2, <3>1 DEF SumsOf, y
    <3>4. f[y] \in Nat /\ g[y] = f[y] + (IF y = x THEN 1 ELSE 0)
      BY <3>1
    <3>5. extra(T) = (IF y = x THEN 1 ELSE 0) + extra(rest)
      BY <3>1
    <3>6. extra(rest) \in Nat /\ extra(T) \in Nat
      OBVIOUS
    <3> HIDE DEF extra, rest
    <3>7. b[T] = a[T] + extra(T)
      BY <3>2, <3>3, <3>4, <3>5, <3>6
    <3> QED
      BY <3>7
  <2> QED
    BY <2>1, <2>2
<1> HIDE DEF G
<1>5. S \in G
  BY <1>4, SubsetInduction
<1> QED
  BY <1>1, <1>3, <1>5 DEF G

LEMMA SumOfNothing ==
  ASSUME NEW S, IsFiniteSet(S), NEW f, \A x \in S : f[x] = 0
  PROVE  Sum(f, S) = 0
<1>1. PICK a \in SumsOf(f, S) : Sum(f, S) = a[S]
  BY SumIsFold
<1> DEFINE G == { s \in SUBSET S : a[s] = 0 }
<1>2. ASSUME NEW T \in SUBSET S, \A U \in SUBSET T : U # T => U \in G
      PROVE  T \in G
  <2>1. CASE T = {}
    BY <1>1, <2>1 DEF SumsOf
  <2>2. CASE T # {}
    <3>1. Some(T) \in T
      BY <2>2 DEF Some
    <3>2. a[T \ {Some(T)}] = 0 /\ f[Some(T)] = 0
      BY <1>2, <3>1
    <3> QED
      BY <1>1, <2>2, <3>2 DEF SumsOf
  <2> QED
    BY <2>1, <2>2
<1> HIDE DEF G
<1>3. S \in G
  BY <1>2, SubsetInduction
<1> QED
  BY <1>1, <1>3 DEF G

-----------------------------------------------------------------------------
(* Sequences, and folding them from the left. *)

LEMMA LeastAndGreatest ==
  ASSUME NEW n \in Nat, NEW s \in SUBSET (1..n), s # {}
  PROVE  /\ Min(s) \in s /\ \A i \in s : Min(s) <= i
         /\ Max(s) \in s /\ \A i \in s : i <= Max(s)
<1> DEFINE G == { t \in SUBSET (1..n) :
                    t # {} => (\E i \in t : \A j \in t : i <= j) /\ (\E i \in t : \A j \in t : j <= i) }
<1>1. ASSUME NEW t \in SUBSET (1..n), \A u \in SUBSET t : u # t => u \in G
      PROVE  t \in G
  <2>1. CASE \E i \in t : t = {i}
    <3>1. PICK i \in t : t = {i}
      BY <2>1
    <3> QED
      BY <3>1
  <2>2. CASE t # {} /\ ~ \E i \in t : t = {i}
    <3>1. PICK i \in t : t \ {i} # {}
      <4>1. PICK i : i \in t
        BY <2>2
      <4>2. t # {i}
        BY <2>2, <4>1
      <4>3. t \ {i} # {}
        BY <4>1, <4>2
      <4> QED
        BY <4>1, <4>3
    <3>2. t \ {i} \in G
      BY <1>1, <3>1
    <3>3. PICK j \in t \ {i}, k \in t \ {i} : \A x \in t \ {i} : j <= x /\ x <= k
      BY <3>1, <3>2
    <3>4. i \in Nat /\ j \in Nat /\ k \in Nat /\ t \subseteq Nat
      OBVIOUS
    <3>5. \E a \in t : \A x \in t : a <= x
      <4>1. CASE i <= j
        BY <3>3, <3>4, <4>1
      <4>2. CASE j <= i
        BY <3>3, <3>4, <4>2
      <4> QED
        BY <3>4, <4>1, <4>2
    <3>6. \E a \in t : \A x \in t : x <= a
      <4>1. CASE i <= k
        BY <3>3, <3>4, <4>1
      <4>2. CASE k <= i
        BY <3>3, <3>4, <4>2
      <4> QED
        BY <3>4, <4>1, <4>2
    <3> QED
      BY <3>5, <3>6
  <2> QED
    BY <2>1, <2>2
<1>2. IsFiniteSet(1..n)
  BY FS_Interval
<1>3. \A t \in SUBSET (1..n) : t \in G
  <2> DEFINE S == 1..n
  <2>1. \A t \in SUBSET S : (\A u \in SUBSET t : u # t => u \in G) => t \in G
    BY <1>1
  <2>2. IsFiniteSet(S)
    BY <1>2
  <2> HIDE DEF G, S
  <2>3. \A t \in SUBSET S : t \in G
    BY <2>1, <2>2, SubsetInduction
  <2> QED
    BY <2>3 DEF S
<1> QED
  BY <1>3 DEF G, Min, Max

\* Of an initial or a final piece of a sequence, the last or first index.
LEMMA EndsOfIntervals ==
  ASSUME NEW n \in Nat
  PROVE  /\ \A k \in 1..n : Min(k..n) = k /\ (k..n) \ {k} = (k + 1)..n
         /\ \A k \in 1..n : Max(1..k) = k /\ (1..k) \ {k} = 1..(k - 1)
<1>1. ASSUME NEW k \in 1..n
      PROVE  Min(k..n) = k /\ (k..n) \ {k} = (k + 1)..n
  <2>1. k..n \in SUBSET (1..n) /\ k \in k..n
    OBVIOUS
  <2>2. Min(k..n) \in k..n /\ Min(k..n) <= k
    BY <2>1, LeastAndGreatest
  <2> QED
    BY <2>2
<1>2. ASSUME NEW k \in 1..n
      PROVE  Max(1..k) = k /\ (1..k) \ {k} = 1..(k - 1)
  <2>1. 1..k \in SUBSET (1..n) /\ k \in 1..k
    OBVIOUS
  <2>2. Max(1..k) \in 1..k /\ k <= Max(1..k)
    BY <2>1, LeastAndGreatest
  <2> QED
    BY <2>2
<1> QED
  BY <1>1, <1>2

LEMMA Appended ==
  ASSUME NEW S, NEW s \in Seq(S), NEW x \in S
  PROVE  /\ Len(s) \in Nat /\ DOMAIN s = 1..Len(s) /\ DOMAIN Append(s, x) = 1..(Len(s) + 1)
         /\ Append(s, x) \in Seq(S) /\ Append(s, x)[Len(s) + 1] = x
         /\ \A i \in 1..Len(s) : Append(s, x)[i] = s[i]
<1>1. /\ Append(s, x) \in Seq(S) /\ Len(Append(s, x)) = Len(s) + 1
      /\ Append(s, x)[Len(s) + 1] = x
      /\ \A i \in 1..Len(s) : Append(s, x)[i] = s[i]
  BY AppendProperties
<1>2. Len(s) \in Nat /\ DOMAIN s = 1..Len(s)
  OBVIOUS
<1>3. DOMAIN Append(s, x) = 1..(Len(s) + 1)
  BY <1>1
<1> QED
  BY <1>1, <1>2, <1>3

LEMMA SeqDomain ==
  ASSUME NEW E, NEW seq \in Seq(E)
  PROVE  /\ IsFiniteSet(DOMAIN seq)
         /\ \A s \in SUBSET DOMAIN seq : s # {} => Max(s) \in s /\ Min(s) \in s
<1>1. PICK n \in Nat : DOMAIN seq = 1..n
  OBVIOUS
<1>2. IsFiniteSet(1..n)
  BY FS_Interval
<1> QED
  BY <1>1, <1>2, LeastAndGreatest

\* The folds of a sequence from the left, by a function that puts in one element.
LeftFolds(seq, V, base, op) ==
  { it \in [SUBSET DOMAIN seq -> V] : \A s \in SUBSET DOMAIN seq :
      it[s] = IF s = {} THEN base ELSE op[<<it[s \ {Max(s)}], seq[Max(s)]>>] }

LEMMA LeftFoldExists ==
  ASSUME NEW E, NEW V, NEW base \in V, NEW op \in [V \X E -> V], NEW seq \in Seq(E)
  PROVE  LeftFolds(seq, V, base, op) # {}
<1> DEFINE D == DOMAIN seq
           pick == [s \in SUBSET D |-> Max(s)]
           h == [z \in D \X V |-> op[<<z[2], seq[z[1]]>>]]
<1>1. /\ IsFiniteSet(D) /\ \A s \in SUBSET D : s # {} => Max(s) \in s
      /\ \A i \in D : seq[i] \in E
  BY SeqDomain
<1>2. Picks(pick, D)
  BY <1>1 DEF Picks
<1>3. h \in [D \X V -> V]
  <2> HIDE DEF D
  <2> QED
    BY <1>1
<1>4. PICK it \in FoldsOf(D, V, base, pick, h) : TRUE
  <2> HIDE DEF D, pick, h
  <2> QED
    BY <1>1, <1>2, <1>3, FoldExists
<1>5. ASSUME NEW s \in SUBSET D
      PROVE  it[s] = IF s = {} THEN base ELSE op[<<it[s \ {Max(s)}], seq[Max(s)]>>]
  <2>1. /\ it \in [SUBSET D -> V]
        /\ it[s] = IF s = {} THEN base ELSE h[<<pick[s], it[s \ {pick[s]}]>>]
    BY <1>4 DEF FoldsOf
  <2>2. CASE s # {}
    <3>1. Max(s) \in D /\ s \ {Max(s)} \in SUBSET D /\ pick[s] = Max(s)
      BY <1>1, <2>2
    <3> HIDE DEF pick, D
    <3>2. h[<<Max(s), it[s \ {Max(s)}]>>] = op[<<it[s \ {Max(s)}], seq[Max(s)]>>]
      BY <2>1, <3>1
    <3> QED
      BY <2>1, <2>2, <3>1, <3>2
  <2> QED
    BY <2>1, <2>2
<1> HIDE DEF pick, h
<1> QED
  BY <1>4, <1>5 DEF FoldsOf, LeftFolds

FoldsAlong(fold, seq, V, base, op) ==
  \A s \in SUBSET DOMAIN seq :
    IF s = {} THEN fold[s] = base
    ELSE fold[s \ {Max(s)}] \in V => fold[s] = op[<<fold[s \ {Max(s)}], seq[Max(s)]>>]

LEMMA LeftFoldIsUnique ==
  ASSUME NEW E, NEW V, NEW base, NEW op, NEW seq \in Seq(E),
         NEW it \in LeftFolds(seq, V, base, op), NEW fold,
         FoldsAlong(fold, seq, V, base, op)
  PROVE  \A s \in SUBSET DOMAIN seq : fold[s] = it[s]
<1> DEFINE D == DOMAIN seq
           G == { s \in SUBSET D : fold[s] = it[s] }
<1>1. IsFiniteSet(D) /\ \A s \in SUBSET D : s # {} => Max(s) \in s
  BY SeqDomain
<1>2. ASSUME NEW T \in SUBSET D, \A U \in SUBSET T : U # T => U \in G
      PROVE  T \in G
  <2>1. CASE T = {}
    BY <2>1 DEF LeftFolds, FoldsAlong
  <2>2. CASE T # {}
    <3>1. Max(T) \in T /\ T \ {Max(T)} \in SUBSET D
      BY <1>1, <2>2
    <3>2. fold[T \ {Max(T)}] = it[T \ {Max(T)}]
      BY <1>2, <3>1
    <3>3. it[T \ {Max(T)}] \in V
      BY <3>1 DEF LeftFolds
    <3>4. fold[T] = op[<<fold[T \ {Max(T)}], seq[Max(T)]>>]
      BY <2>2, <3>2, <3>3 DEF FoldsAlong
    <3>5. it[T] = op[<<it[T \ {Max(T)}], seq[Max(T)]>>]
      BY <2>2 DEF LeftFolds
    <3> QED
      BY <3>2, <3>4, <3>5
  <2> QED
    BY <2>1, <2>2
<1> HIDE DEF G, D
<1>3. \A T \in SUBSET D : T \in G
  BY <1>1, <1>2, SubsetInduction
<1> QED
  BY <1>3 DEF G, D

\* Folding one element more is putting it into the fold of the others.
LEMMA LeftFoldStep ==
  ASSUME NEW E, NEW V, NEW base, NEW op, NEW seq \in Seq(E), NEW x \in E,
         NEW a \in LeftFolds(seq, V, base, op),
         NEW b \in LeftFolds(Append(seq, x), V, base, op)
  PROVE  b[DOMAIN Append(seq, x)] = op[<<a[DOMAIN seq], x>>]
<1> DEFINE longer == Append(seq, x)
           n == Len(seq)
<1>1. /\ n \in Nat /\ DOMAIN seq = 1..n /\ DOMAIN longer = 1..(n + 1)
      /\ longer \in Seq(E) /\ longer[n + 1] = x
      /\ \A i \in 1..n : longer[i] = seq[i]
  BY Appended
<1> HIDE DEF longer, n
<1>2. ASSUME NEW s \in SUBSET (1..n)
      PROVE  IF s = {} THEN b[s] = base
             ELSE b[s] = op[<<b[s \ {Max(s)}], seq[Max(s)]>>]
  <2>1. s \in SUBSET DOMAIN longer
    BY <1>1
  <2>2. b[s] = IF s = {} THEN base ELSE op[<<b[s \ {Max(s)}], longer[Max(s)]>>]
    BY <2>1 DEF LeftFolds, longer
  <2>3. s # {} => Max(s) \in s
    BY <1>1, LeastAndGreatest
  <2> QED
    BY <1>1, <2>2, <2>3
<1>3. b[1..n] = a[1..n]
  <2>1. FoldsAlong(b, seq, V, base, op)
    BY <1>1, <1>2 DEF FoldsAlong
  <2>2. \A s \in SUBSET DOMAIN seq : b[s] = a[s]
    BY <2>1, LeftFoldIsUnique
  <2> QED
    BY <1>1, <2>2
<1>4. Max(1..(n + 1)) = n + 1 /\ (1..(n + 1)) \ {n + 1} = 1..n /\ 1..(n + 1) # {}
  <2>1. n + 1 \in Nat /\ n + 1 \in 1..(n + 1) /\ (n + 1) - 1 = n
    BY <1>1
  <2> QED
    BY <2>1, EndsOfIntervals
<1>5. b[1..(n + 1)] = op[<<b[1..n], x>>]
  <2>1. 1..(n + 1) \in SUBSET DOMAIN longer
    BY <1>1
  <2>2. b[1..(n + 1)] = op[<<b[(1..(n + 1)) \ {Max(1..(n + 1))}], longer[Max(1..(n + 1))]>>]
    BY <1>4, <2>1 DEF LeftFolds, longer
  <2> QED
    BY <1>1, <1>4, <2>2
<1> QED
  BY <1>1, <1>3, <1>5 DEF longer

(* Resolving a path. *)

LEMMA FrontAndLast ==
  ASSUME NEW S, NEW s \in Seq(S), s # << >>
  PROVE  /\ Front(s) \in Seq(S) /\ Last(s) \in S
         /\ s = Append(Front(s), Last(s))
         /\ Len(s) \in Nat /\ Len(Front(s)) \in Nat /\ Len(Front(s)) + 1 = Len(s)
<1> DEFINE f == SubSeq(s, 1, Len(s) - 1)
<1>1. Len(s) \in Nat \ {0} /\ 1..(Len(s) - 1) \subseteq DOMAIN s
  BY EmptySeq
<1>2. f \in Seq(S) /\ Len(f) = Len(s) - 1 /\ \A i \in 1..(Len(s) - 1) : f[i] = s[i]
  <2>1. 1 \in Int /\ Len(s) - 1 \in Int /\ \A i \in 1..(Len(s) - 1) : s[i] \in S
    BY <1>1
  <2>2. /\ f \in Seq(S)
        /\ Len(f) = IF 1 <= Len(s) - 1 THEN (Len(s) - 1) - 1 + 1 ELSE 0
        /\ \A i \in 1..((Len(s) - 1) - 1 + 1) : f[i] = s[1 + i - 1]
    BY <2>1, SubSeqProperties
  <2> HIDE DEF f
  <2>3. (Len(s) - 1) - 1 + 1 = Len(s) - 1
    BY <1>1
  <2>4. Len(f) = Len(s) - 1
    <3>1. \A m \in Nat \ {0} : (IF 1 <= m - 1 THEN (m - 1) - 1 + 1 ELSE 0) = m - 1
      OBVIOUS
    <3> QED
      BY <1>1, <2>2, <3>1
  <2>5. \A i \in 1..(Len(s) - 1) : 1 + i - 1 = i
    BY <1>1
  <2>6. \A i \in 1..(Len(s) - 1) : f[i] = s[i]
    BY <2>2, <2>3, <2>5
  <2> QED
    BY <2>2, <2>4, <2>6
<1>3. s[Len(s)] \in S
  BY <1>1
<1> HIDE DEF f
<1>4. s = Append(f, s[Len(s)])
  BY <1>1, <1>2, <1>3
<1> QED
  BY <1>1, <1>2, <1>3, <1>4 DEF Front, Last, f

LEMMA AppendEnds ==
  ASSUME NEW S, NEW s \in Seq(S), NEW x \in S
  PROVE  /\ Append(s, x) # << >> /\ Append(s, x) \in Seq(S)
         /\ Front(Append(s, x)) = s /\ Last(Append(s, x)) = x
<1> DEFINE t == Append(s, x)
<1>1. /\ Len(s) \in Nat /\ t \in Seq(S) /\ t[Len(s) + 1] = x /\ Len(t) = Len(s) + 1
      /\ \A i \in 1..Len(s) : t[i] = s[i]
  BY Appended
<1> HIDE DEF t
<1>2. t # << >> /\ Len(t) - 1 = Len(s)
  BY <1>1
<1>3. SubSeq(t, 1, Len(s)) = s
  BY <1>1
<1> QED
  BY <1>1, <1>2, <1>3 DEF Front, Last, t

LEMMA PrefixGrows ==
  ASSUME NEW S, NEW s \in Seq(S), NEW t \in Seq(S), NEW x \in S
  PROVE  /\ IsPrefix(s, s \o t)
         /\ IsPrefix(s, t) => IsPrefix(s, Append(t, x))
<1>1. /\ Len(s) \in Nat /\ Len(t) \in Nat /\ Len(s \o t) = Len(s) + Len(t)
      /\ SubSeq(s \o t, 1, Len(s)) = SubSeq(s, 1, Len(s))
  <2>1. Len(s) \in Nat /\ Len(t) \in Nat /\ Len(s \o t) = Len(s) + Len(t)
    OBVIOUS
  <2>2. SubSeq(s \o t, 1, Len(s)) = SubSeq(s, 1, Len(s))
    OBVIOUS
  <2> QED
    BY <2>1, <2>2
<1>2. ASSUME Len(s) <= Len(t)
      PROVE  /\ Len(s) <= Len(Append(t, x))
             /\ SubSeq(Append(t, x), 1, Len(s)) = SubSeq(t, 1, Len(s))
  BY <1>2, Appended
<1> QED
  BY <1>1, <1>2 DEF IsPrefix

LEMMA PrefixShrinks ==
  ASSUME NEW S, NEW s \in Seq(S), NEW t \in Seq(S), NEW x \in S,
         IsPrefix(s, Append(t, x)), s # Append(t, x)
  PROVE  IsPrefix(s, t)
<1> DEFINE u == Append(t, x)
<1>1. /\ Len(s) \in Nat /\ Len(t) \in Nat /\ u \in Seq(S) /\ Len(u) = Len(t) + 1
      /\ SubSeq(s, 1, Len(s)) = s /\ SubSeq(u, 1, Len(u)) = u
  <2>1. u \in Seq(S) /\ Len(u) = Len(t) + 1
    BY Appended
  <2> HIDE DEF u
  <2>2. SubSeq(u, 1, Len(u)) = u
    BY <2>1
  <2>3. SubSeq(s, 1, Len(s)) = s
    OBVIOUS
  <2>4. Len(s) \in Nat /\ Len(t) \in Nat
    OBVIOUS
  <2> QED
    BY <2>1, <2>2, <2>3, <2>4, Zenon
<1>2. ASSUME Len(s) <= Len(t)
      PROVE  SubSeq(u, 1, Len(s)) = SubSeq(t, 1, Len(s))
  BY <1>2, Appended
<1> HIDE DEF u
<1>3. IsPrefix(s, u) /\ s # u
  BY DEF u
<1>4. Len(s) # Len(u) /\ Len(s) <= Len(u)
  BY <1>1, <1>3 DEF IsPrefix
<1>5. Len(s) <= Len(t)
  <2>1. \A m, n \in Nat : m <= n + 1 /\ m # n + 1 => m <= n
    OBVIOUS
  <2> QED
    BY <1>1, <1>4, <2>1
<1> QED
  BY <1>2, <1>3, <1>5 DEF IsPrefix

LEMMA Wider == ASSUME NEW S, NEW T, S \subseteq T, NEW s \in Seq(S) PROVE s \in Seq(T)
  OBVIOUS

=============================================================================
