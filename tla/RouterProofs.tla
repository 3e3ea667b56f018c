---------------------------- MODULE RouterProofs ----------------------------
(***************************************************************************)
(* Theorems about Router: for any routers, methods, routes and paths.      *)
(***************************************************************************)
EXTENDS Router, WellFoundedInduction, SequenceTheorems, TLAPS

-----------------------------------------------------------------------------
(* Numbers and paths. *)

\* A set of naturals that is not empty has a least element.
LEMMA LeastExists ==
  ASSUME NEW S \in SUBSET Nat, S # {}
  PROVE  \E i \in S : \A j \in S : i <= j
<1>1. PICK i \in S : \A j \in S : ~(<<j, i>> \in OpToRel(<, Nat))
  BY NatLessThanWellFounded, WFMin
<1>2. \A j \in S : ~(j < i)
  BY <1>1 DEF OpToRel
<1> QED
  BY <1>2

\* A set of naturals that is not empty and has a bound has a greatest element.
LEMMA GreatestExists ==
  ASSUME NEW n \in Nat, NEW S \in SUBSET (1..n), S # {}
  PROVE  \E i \in S : \A j \in S : j <= i
<1> DEFINE T == {n - i : i \in S}
<1>1. T \in SUBSET Nat /\ T # {}
  <2>1. \A i \in S : n - i \in Nat
    OBVIOUS
  <2> QED
    BY <2>1
<1>2. PICK k \in T : \A j \in T : k <= j
  <2> HIDE DEF T
  <2> QED
    BY <1>1, LeastExists
<1>3. PICK i \in S : k = n - i
  OBVIOUS
<1>4. \A j \in S : n - i <= n - j
  BY <1>2, <1>3
<1> QED
  BY <1>4

\* A path is a sequence, and no path is empty.
LEMMA PathShape ==
  ASSUME NEW p \in Paths
  PROVE  /\ p \in Seq(Text) /\ Len(p) \in Nat /\ Len(p) > 0
         /\ DOMAIN p = 1..Len(p)
BY DEF Paths

LEMMA LongIsPath ==
  ASSUME NEW p \in Seq(Text), Len(p) > 0
  PROVE  p \in Paths
<1>1. Len(<< >>) = 0
  OBVIOUS
<1> QED
  BY <1>1 DEF Paths

LEMMA NoPrefixShape == NoPrefix \in Paths /\ NoPrefix \in Seq(Text) /\ Len(NoPrefix) = 1
<1>1. "" \in Text
  BY TextAssumption
<1>2. ASSUME NEW x \in Text
      PROVE  <<x>> \in Seq(Text) /\ Len(<<x>>) = 1
  OBVIOUS
<1>3. NoPrefix \in Seq(Text) /\ Len(NoPrefix) = 1
  BY <1>1, <1>2, Zenon DEF NoPrefix
<1> QED
  BY <1>3, LongIsPath

\* Joining to a sequence that is not empty gives a path.
LEMMA JoinShape ==
  ASSUME NEW p \in Paths, NEW q \in Seq(Text)
  PROVE  p \o q \in Paths
<1>1. p \o q \in Seq(Text) /\ Len(p \o q) = Len(p) + Len(q) /\ Len(q) \in Nat
  BY DEF Paths
<1> QED
  BY <1>1, PathShape DEF Paths

LEMMA RootlessShape ==
  ASSUME NEW p \in Paths
  PROVE  Rootless(p) \in Paths
<1>1. Len(p) > 1 => Tail(p) \in Seq(Text) /\ Len(Tail(p)) = Len(p) - 1
  BY PathShape
<1>2. ASSUME Len(p) > 1
      PROVE  Tail(p) \in Paths
  <2>1. Tail(p) \in Seq(Text) /\ Len(Tail(p)) > 0
    BY <1>1, <1>2, PathShape
  <2> QED
    BY <2>1, LongIsPath
<1> QED
  BY <1>2 DEF Rootless

LEMMA FrontShape ==
  ASSUME NEW p \in Paths, Len(p) > 2
  PROVE  Front(p) \in Paths /\ Len(Front(p)) = Len(p) - 1
<1>1. Front(p) \in Seq(Text) /\ Len(Front(p)) = Len(p) - 1
  BY PathShape DEF Front
<1> QED
  BY <1>1, PathShape, LongIsPath

LEMMA AppendShape ==
  ASSUME NEW S, NEW s \in Seq(S), NEW x \in S
  PROVE  /\ Append(s, x) \in Seq(S)
         /\ Len(Append(s, x)) = Len(s) + 1
         /\ Append(s, x)[Len(s) + 1] = x
         /\ Front(Append(s, x)) = s
<1> DEFINE t == Append(s, x)
<1>1. t \in Seq(S) /\ Len(t) = Len(s) + 1 /\ t[Len(s) + 1] = x /\ Len(s) \in Nat
  OBVIOUS
<1>2. \A i \in 1..Len(s) : t[i] = s[i]
  OBVIOUS
<1> HIDE DEF t
<1>3. SubSeq(t, 1, Len(s)) \in Seq(S) /\ Len(SubSeq(t, 1, Len(s))) = Len(s)
  BY <1>1
<1>4. \A i \in 1..Len(s) : SubSeq(t, 1, Len(s))[i] = s[i]
  BY <1>1, <1>2
<1>5. SubSeq(t, 1, Len(s)) = s
  BY <1>3, <1>4, SeqEqual
<1> QED
  BY <1>1, <1>5 DEF Front, t

LEMMA NormalisedShape ==
  ASSUME NEW p \in Paths
  PROVE  Normalised(p) \in Paths
<1> DEFINE used == {i \in DOMAIN p : p[i] # ""}
           last == CHOOSE i \in used : \A j \in used : j <= i
           core == SubSeq(p, 1, last)
<1>1. CASE used = {}
  <2>1. Normalised(p) = NoPrefix
    BY <1>1 DEF Normalised
  <2> QED
    BY <2>1, NoPrefixShape
<1>2. CASE used # {}
  <2>1. Len(p) \in Nat /\ used \in SUBSET (1..Len(p))
    BY PathShape
  <2>2. \E i \in used : \A j \in used : j <= i
    <3> HIDE DEF used
    <3> QED
      BY <1>2, <2>1, GreatestExists
  <2>3. last \in 1..Len(p)
    <3>1. last \in used
      BY <2>2
    <3> QED
      BY <2>1, <3>1
  <2>4. core \in Paths
    <3> HIDE DEF last
    <3> QED
      BY <2>3 DEF Paths
  <2>5. Normalised(p) = IF core[1] = "" THEN core ELSE NoPrefix \o core
    BY <1>2 DEF Normalised, NoPrefix
  <2> QED
    <3> HIDE DEF core
    <3> QED
      BY <2>4, <2>5, PathShape, NoPrefixShape, JoinShape
<1> QED
  BY <1>1, <1>2

-----------------------------------------------------------------------------
(* Maps and tables. *)

\* The values of an exact map or a pattern table.
Maps == UNION {[D -> Endpoint] : D \in SUBSET Paths}

LEMMA MapShape ==
  ASSUME NEW m \in Maps
  PROVE  /\ DOMAIN m \in SUBSET Paths
         /\ m \in [DOMAIN m -> Endpoint]
         /\ IsMap(m)
BY DEF Maps, IsMap

LEMMA IsInMaps ==
  ASSUME NEW D \in SUBSET Paths, NEW m \in [D -> Endpoint]
  PROVE  m \in Maps
BY DEF Maps

LEMMA EntryShape ==
  ASSUME NEW p \in Paths, NEW e \in Endpoint
  PROVE  /\ Entry(p, e) \in Maps
         /\ DOMAIN Entry(p, e) = {p}
         /\ Entry(p, e)[p] = e
<1>1. Entry(p, e) \in [{p} -> Endpoint]
  BY DEF Entry
<1> QED
  BY <1>1, IsInMaps DEF Entry

LEMMA OverShape ==
  ASSUME NEW f \in Maps, NEW g \in Maps
  PROVE  /\ Over(f, g) \in Maps
         /\ DOMAIN Over(f, g) = DOMAIN f \cup DOMAIN g
         /\ \A p \in DOMAIN f : Over(f, g)[p] = f[p]
         /\ \A p \in DOMAIN g \ DOMAIN f : Over(f, g)[p] = g[p]
<1>1. Over(f, g) \in [DOMAIN f \cup DOMAIN g -> Endpoint]
  BY MapShape DEF Over
<1>2. DOMAIN f \cup DOMAIN g \in SUBSET Paths
  BY MapShape
<1> QED
  BY <1>1, <1>2, IsInMaps DEF Over

LEMMA EmptyShape == << >> \in Maps /\ DOMAIN << >> = {}
<1>1. << >> \in [{} -> Endpoint]
  OBVIOUS
<1> QED
  BY <1>1, IsInMaps

\* The patterns that a table of "ts" has are together in a table of "us" too.
Covered(ts, us) ==
  \A i \in DOMAIN ts : \E j \in DOMAIN us : DOMAIN ts[i] \subseteq DOMAIN us[j]

\* The endpoints in a list of tables.
Held(ts) == UNION {{ts[i][p] : p \in DOMAIN ts[i]} : i \in DOMAIN ts}

\* Adding a pattern keeps the tables that were there, and their patterns.
LEMMA AddedShape ==
  ASSUME NEW ts \in Seq(Maps), NEW path \in Paths, NEW e \in Endpoint
  PROVE  /\ Added(ts, path, e) \in Seq(Maps)
         /\ Covered(ts, Added(ts, path, e))
         /\ \E i \in DOMAIN Added(ts, path, e) :
              Rootless(path) \in DOMAIN Added(ts, path, e)[i]
         /\ Held(Added(ts, path, e)) \subseteq Held(ts) \cup {e}
<1> DEFINE entry == Entry(Rootless(path), e)
           us == Added(ts, path, e)
<1>1. entry \in Maps /\ DOMAIN entry = {Rootless(path)} /\ entry[Rootless(path)] = e
  BY RootlessShape, EntryShape
<1>2. CASE ts = << >>
  <2> HIDE DEF entry
  <2>1. us = <<entry>>
    BY <1>2 DEF Added, entry
  <2>2. us \in Seq(Maps) /\ DOMAIN us = {1} /\ us[1] = entry
    BY <1>1, <2>1
  <2>3. DOMAIN ts = {}
    BY <1>2
  <2> HIDE DEF us
  <2> QED
    BY <1>1, <2>2, <2>3 DEF us, Covered, Held
<1>3. CASE ts # << >>
  <2> DEFINE n == Len(ts)
             last == Over(entry, ts[n])
  <2>1. n \in Nat /\ n > 0 /\ DOMAIN ts = 1..n /\ n \in 1..n /\ ts[n] \in Maps
    BY <1>3
  <2>2. us = [ts EXCEPT ![n] = last]
    BY <1>3 DEF Added
  <2> HIDE DEF entry
  <2>3. /\ last \in Maps
        /\ DOMAIN last = {Rootless(path)} \cup DOMAIN ts[n]
        /\ \A p \in DOMAIN last : last[p] = e \/ (p \in DOMAIN ts[n] /\ last[p] = ts[n][p])
    <3>1. /\ last \in Maps
          /\ DOMAIN last = DOMAIN entry \cup DOMAIN ts[n]
          /\ \A p \in DOMAIN entry : last[p] = entry[p]
          /\ \A p \in DOMAIN ts[n] \ DOMAIN entry : last[p] = ts[n][p]
      <4> HIDE DEF n
      <4> QED
        BY <1>1, <2>1, OverShape
    <3> HIDE DEF last, n
    <3> QED
      BY <1>1, <3>1
  <2> HIDE DEF last, n, us
  <2>4. /\ us \in Seq(Maps) /\ DOMAIN us = 1..n /\ us[n] = last
        /\ \A i \in (1..n) \ {n} : us[i] = ts[i]
    BY <2>1, <2>2, <2>3
  <2>5. Held(us) \subseteq Held(ts) \cup {e}
    BY <2>1, <2>3, <2>4 DEF Held
  <2> QED
    BY <2>1, <2>3, <2>4, <2>5 DEF us, Covered
<1> QED
  BY <1>2, <1>3

LEMMA Between ==
  ASSUME NEW m \in Nat, NEW n \in Nat, NEW i \in (1..(m + n)) \ (1..m)
  PROVE  i - m \in 1..n /\ m + (i - m) = i
OBVIOUS

LEMMA ExtendedShape ==
  ASSUME NEW ts \in Seq(Maps), NEW us \in Seq(Maps)
  PROVE  /\ Extended(ts, us) \in Seq(Maps)
         /\ Covered(ts, Extended(ts, us))
         /\ Covered(us, Extended(ts, us))
         /\ Held(Extended(ts, us)) \subseteq Held(ts) \cup Held(us)
<1> DEFINE vs == Extended(ts, us)
<1>1. /\ vs \in Seq(Maps) /\ DOMAIN vs = 1..(Len(ts) + Len(us))
      /\ DOMAIN ts = 1..Len(ts) /\ DOMAIN us = 1..Len(us)
      /\ Len(ts) \in Nat /\ Len(us) \in Nat
  BY DEF Extended
<1>2. \A i \in 1..Len(ts) : vs[i] = ts[i]
  BY DEF Extended
<1>3. \A i \in 1..Len(us) : vs[Len(ts) + i] = us[i]
  BY DEF Extended
<1>4. ASSUME NEW i \in (1..(Len(ts) + Len(us))) \ (1..Len(ts))
      PROVE  i - Len(ts) \in 1..Len(us) /\ vs[i] = us[i - Len(ts)]
  <2> HIDE DEF vs
  <2>1. /\ i - Len(ts) \in 1..Len(us)
        /\ Len(ts) + (i - Len(ts)) = i
    BY <1>1, Between
  <2> QED
    BY <1>3, <2>1, Zenon
<1> HIDE DEF vs
<1>5. Covered(ts, vs)
  BY <1>1, <1>2 DEF Covered
<1>6. Held(vs) \subseteq Held(ts) \cup Held(us)
  <2> SUFFICES ASSUME NEW i \in DOMAIN vs, NEW p \in DOMAIN vs[i]
               PROVE  vs[i][p] \in Held(ts) \cup Held(us)
    BY DEF Held
  <2>1. CASE i \in 1..Len(ts)
    BY <1>1, <1>2, <2>1 DEF Held
  <2>2. CASE i \notin 1..Len(ts)
    <3>1. i - Len(ts) \in DOMAIN us /\ vs[i] = us[i - Len(ts)]
      BY <1>1, <1>4, <2>2
    <3> QED
      BY <3>1 DEF Held
  <2> QED
    BY <2>1, <2>2
<1>7. Covered(us, vs)
  <2>1. \A i \in DOMAIN us : Len(ts) + i \in DOMAIN vs /\ vs[Len(ts) + i] = us[i]
    BY <1>1, <1>3
  <2> QED
    BY <2>1 DEF Covered
<1> QED
  BY <1>1, <1>5, <1>6, <1>7 DEF vs

-----------------------------------------------------------------------------
(* Lookups. *)

Recognizes(ts, p) == \E i \in DOMAIN ts : Recognized(ts[i], p) # {}

\* A path is served: some form of it is in the exact map or in a table.
Reaches(m, ts, path) ==
  \E p \in Forms(path) : p \in DOMAIN m \/ Recognizes(ts, p)

LEMMA TryOneFinds ==
  ASSUME NEW ts \in Seq(Maps), NEW p
  PROVE  /\ TryOne(ts, p) # {} <=> Recognizes(ts, p)
         /\ TryOne(ts, p) \subseteq Held(ts)
<1> DEFINE hits == {i \in DOMAIN ts : Recognized(ts[i], p) # {}}
           first == {i \in hits : \A j \in hits : i <= j}
<1>1. TryOne(ts, p) = UNION {Recognized(ts[i], p) : i \in first}
  BY DEF TryOne
<1>2. hits \in SUBSET Nat
  OBVIOUS
<1>3. hits # {} => first # {}
  <2> HIDE DEF hits
  <2> QED
    BY <1>2, LeastExists
<1>4. \A i \in first : i \in DOMAIN ts /\ Recognized(ts[i], p) # {}
  OBVIOUS
<1>5. hits # {} <=> Recognizes(ts, p)
  BY DEF Recognizes
<1>6. first # {} => hits # {}
  OBVIOUS
<1>7. \A i \in DOMAIN ts : Recognized(ts[i], p) \subseteq Held(ts)
  BY DEF Recognized, Held
<1> HIDE DEF first
<1> QED
  BY <1>1, <1>3, <1>4, <1>5, <1>6, <1>7

LEMMA FormsShape == ASSUME NEW path PROVE path \in Forms(path)
BY DEF Forms

LEMMA MatchPathFinds ==
  ASSUME NEW ts \in Seq(Maps), NEW path
  PROVE  /\ MatchPath(ts, path) # {} <=> \E p \in Forms(path) : Recognizes(ts, p)
         /\ MatchPath(ts, path) \subseteq Held(ts)
<1>1. MatchPath(ts, path) = IF TryOne(ts, path) # {} THEN TryOne(ts, path)
                            ELSE UNION {TryOne(ts, p) : p \in Forms(path)}
  BY DEF MatchPath, Trimming
<1>2. \A p : /\ TryOne(ts, p) # {} <=> Recognizes(ts, p)
             /\ TryOne(ts, p) \subseteq Held(ts)
  BY TryOneFinds
<1>3. CASE TryOne(ts, path) # {}
  <2>1. MatchPath(ts, path) = TryOne(ts, path)
    BY <1>1, <1>3
  <2>2. Recognizes(ts, path)
    BY <1>2, <1>3
  <2> QED
    BY <1>2, <1>3, <2>1, <2>2, FormsShape
<1>4. CASE TryOne(ts, path) = {}
  <2>1. MatchPath(ts, path) = UNION {TryOne(ts, p) : p \in Forms(path)}
    BY <1>1, <1>4
  <2>2. MatchPath(ts, path) # {} <=> \E p \in Forms(path) : TryOne(ts, p) # {}
    BY <2>1
  <2> QED
    BY <1>2, <2>1, <2>2
<1> QED
  BY <1>3, <1>4

LEMMA StaticAnswers ==
  ASSUME NEW m, NEW ts, NEW path \in DOMAIN m
  PROVE  LookupIn(m, ts, path) = {m[path]}
BY DEF LookupIn, Trimming, StaticExact

\* A lookup finds something exactly when a form of the path is served, and what
\* it finds comes from the map or from the tables.
LEMMA LookupFinds ==
  ASSUME NEW m \in Maps, NEW ts \in Seq(Maps), NEW path
  PROVE  /\ LookupIn(m, ts, path) # {} <=> Reaches(m, ts, path)
         /\ LookupIn(m, ts, path) \subseteq {m[p] : p \in DOMAIN m} \cup Held(ts)
<1> DEFINE hit == IF StaticExact(m, path) # {} THEN StaticExact(m, path)
                  ELSE UNION {StaticExact(m, p) : p \in Forms(path)}
<1>1. LookupIn(m, ts, path) = IF hit # {} THEN hit ELSE MatchPath(ts, path)
  BY DEF LookupIn, Trimming
<1>2. hit # {} <=> \E p \in Forms(path) : p \in DOMAIN m
  BY FormsShape DEF StaticExact
<1>3. hit \subseteq {m[p] : p \in DOMAIN m}
  BY DEF StaticExact
<1> HIDE DEF hit
<1> QED
  BY <1>1, <1>2, <1>3, MatchPathFinds DEF Reaches

\* What is served stays served as the map and the tables grow.
LEMMA ReachesGrows ==
  ASSUME NEW m, NEW n, DOMAIN m \subseteq DOMAIN n,
         NEW ts, NEW us, Covered(ts, us),
         NEW path, Reaches(m, ts, path)
  PROVE  Reaches(n, us, path)
<1>1. \A p : Recognizes(ts, p) => Recognizes(us, p)
  BY DEF Recognizes, Recognized, Covered
<1> QED
  BY <1>1 DEF Reaches

-----------------------------------------------------------------------------
(* The inductive invariant. *)

Shape ==
  /\ prefix \in [App -> Paths]
  /\ layers \in [App -> Seq(Layer)]
  /\ tables \in [App -> [Method -> Seq(Maps)]]
  /\ fast \in [App -> [Method -> Maps]]
  /\ merged \subseteq App
  /\ count \in 0..MaxRoutes
  /\ registered \in Seq(Registration) /\ Len(registered) = count

Values(m) == {m[p] : p \in DOMAIN m}

Visible(m, ts) ==
  \A p \in DOMAIN m : \E i \in DOMAIN ts : Rootless(p) \in DOMAIN ts[i]

\* The middlewares of a router are its own, in the order of their places.
Numbered == \A r \in App : layers[r] = Chain(r, Len(layers[r]))

\* The chain of an endpoint is that of its router when it was registered.
Captured(e) ==
  /\ e.id < count
  /\ e.layers = Chain(registered[e.id + 1].router, registered[e.id + 1].depth)

OwnChains ==
  /\ Numbered
  /\ \A r \in App, m \in Method :
       \A e \in Values(fast[r][m]) \cup Held(tables[r][m]) : Captured(e)

IndInv == Shape /\ VisibleInTables /\ OwnChains

LEMMA VisibleGrows ==
  ASSUME NEW m, NEW ts, NEW us, Visible(m, ts), Covered(ts, us)
  PROVE  Visible(m, us)
BY DEF Visible, Covered

LEMMA InFastMapShape ==
  ASSUME NEW m \in Maps, NEW path \in Paths, NEW e \in Endpoint
  PROVE  /\ InFastMap(m, path, e) \in Maps
         /\ DOMAIN m \subseteq DOMAIN InFastMap(m, path, e)
         /\ DOMAIN InFastMap(m, path, e) \subseteq DOMAIN m \cup {path}
         /\ \A p \in DOMAIN m : InFastMap(m, path, e)[p] = m[p]
         /\ Values(InFastMap(m, path, e)) \subseteq Values(m) \cup {e}
<1> DEFINE entry == Entry(path, e)
           new == Over(m, entry)
<1>1. entry \in Maps /\ DOMAIN entry = {path} /\ entry[path] = e
  BY EntryShape
<1> HIDE DEF entry
<1>2. /\ new \in Maps
      /\ DOMAIN new = DOMAIN m \cup {path}
      /\ \A p \in DOMAIN m : new[p] = m[p]
      /\ \A p \in {path} \ DOMAIN m : new[p] = e
  <2>1. /\ new \in Maps
        /\ DOMAIN new = DOMAIN m \cup DOMAIN entry
        /\ \A p \in DOMAIN m : new[p] = m[p]
        /\ \A p \in DOMAIN entry \ DOMAIN m : new[p] = entry[p]
    BY <1>1, OverShape
  <2> HIDE DEF new
  <2> QED
    BY <1>1, <2>1
<1> HIDE DEF new
<1>3. Values(new) \subseteq Values(m) \cup {e}
  BY <1>2 DEF Values
<1> QED
  BY <1>2, <1>3 DEF InFastMap, new, entry

LEMMA PrefixedShape ==
  ASSUME Shape, NEW r \in App, NEW route \in Paths
  PROVE  Prefixed(r, route) \in Paths
<1>1. Tail(route) \in Seq(Text)
  BY PathShape
<1>2. prefix[r] \in Paths
  BY DEF Shape
<1> QED
  BY <1>1, <1>2, JoinShape DEF Prefixed

LEMMA OneChanged ==
  ASSUME NEW V, NEW f \in [App -> [Method -> V]],
         NEW r \in App, NEW m \in Method, NEW v \in V
  PROVE  LET g == [f EXCEPT ![r][m] = v]
         IN  /\ g \in [App -> [Method -> V]]
             /\ g[r][m] = v
             /\ \A s \in App, k \in Method : (s # r \/ k # m) => g[s][k] = f[s][k]
OBVIOUS

\* What a registration leaves behind.
LEMMA AtEffect ==
  ASSUME Shape, NEW r \in App, NEW m \in Method, NEW route \in Route,
         At(r, m, route)
  PROVE  /\ Shape'
         /\ layers' = layers /\ merged' = merged /\ count' = count + 1
         /\ registered' = Append(registered, [router |-> r, depth |-> Len(layers[r])])
         /\ \E path \in Paths, e \in Endpoint :
              /\ e.id = count /\ e.layers = layers[r]
              /\ tables'[r][m] = Added(tables[r][m], path, e)
              /\ fast'[r][m] = InFastMap(fast[r][m], path, e)
         /\ \A s \in App, k \in Method :
              (s # r \/ k # m) => /\ tables'[s][k] = tables[s][k]
                                 /\ fast'[s][k] = fast[s][k]
<1> DEFINE path == Prefixed(r, route)
           e == [id |-> count, layers |-> layers[r]]
<1>1. path \in Paths
  BY PrefixedShape, RouteAssumption
<1>2. e \in Endpoint /\ e.id = count /\ e.layers = layers[r]
  BY DEF Shape, Endpoint
<1>3. /\ tables' = [tables EXCEPT ![r][m] = Added(tables[r][m], path, e)]
      /\ fast' = [fast EXCEPT ![r][m] = InFastMap(fast[r][m], path, e)]
      /\ UNCHANGED <<prefix, layers, merged>>
      /\ count < MaxRoutes /\ count' = count + 1
      /\ registered' = Append(registered, [router |-> r, depth |-> Len(layers[r])])
  BY DEF At
<1> HIDE DEF path, e
<1>4. Added(tables[r][m], path, e) \in Seq(Maps) /\ InFastMap(fast[r][m], path, e) \in Maps
  BY <1>1, <1>2, AddedShape, InFastMapShape DEF Shape
<1>5. count' \in 0..MaxRoutes
  BY <1>3, BoundsAssumption DEF Shape
<1>6. /\ tables' \in [App -> [Method -> Seq(Maps)]]
      /\ tables'[r][m] = Added(tables[r][m], path, e)
      /\ \A s \in App, k \in Method :
           (s # r \/ k # m) => tables'[s][k] = tables[s][k]
  <2>1. tables \in [App -> [Method -> Seq(Maps)]]
    BY DEF Shape
  <2> QED
    BY <1>3, <1>4, <2>1, OneChanged
<1>7. /\ fast' \in [App -> [Method -> Maps]]
      /\ fast'[r][m] = InFastMap(fast[r][m], path, e)
      /\ \A s \in App, k \in Method :
           (s # r \/ k # m) => fast'[s][k] = fast[s][k]
  <2>1. fast \in [App -> [Method -> Maps]]
    BY DEF Shape
  <2> QED
    BY <1>3, <1>4, <2>1, OneChanged
<1>8. registered' \in Seq(Registration) /\ Len(registered') = count'
  <2>1. [router |-> r, depth |-> Len(layers[r])] \in Registration
    BY DEF Shape, Registration
  <2> QED
    BY <1>3, <2>1 DEF Shape
<1>9. Shape'
  BY <1>3, <1>5, <1>6, <1>7, <1>8 DEF Shape
<1> QED
  BY <1>1, <1>2, <1>3, <1>6, <1>7, <1>9

LEMMA AtElsewhere ==
  ASSUME Shape, NEW r \in App, NEW m \in Method, NEW route \in Route,
         At(r, m, route), NEW s \in App, NEW k \in Method, s # r \/ k # m
  PROVE  tables'[s][k] = tables[s][k] /\ fast'[s][k] = fast[s][k]
<1>1. \A q \in App, l \in Method :
        (q # r \/ l # m) => tables'[q][l] = tables[q][l] /\ fast'[q][l] = fast[q][l]
  BY AtEffect
<1> QED
  BY <1>1

LEMMA AtHere ==
  ASSUME Shape, NEW r \in App, NEW m \in Method, NEW route \in Route, At(r, m, route)
  PROVE  \E path \in Paths, e \in Endpoint :
           /\ e.id = count /\ e.layers = layers[r]
           /\ tables'[r][m] = Added(tables[r][m], path, e)
           /\ fast'[r][m] = InFastMap(fast[r][m], path, e)
BY AtEffect

\* What a merge leaves behind.
LEMMA MergeEffect ==
  ASSUME Shape, NEW r \in App, NEW t \in App, Merge(r, t)
  PROVE  /\ Shape'
         /\ UNCHANGED <<layers, count, registered>> /\ merged' = merged \cup {t}
         /\ \A k \in Method :
              /\ tables'[r][k] = Extended(tables[r][k], tables[t][k])
              /\ fast'[r][k] = Over(fast[r][k], fast[t][k])
         /\ \A s \in App \ {r}, k \in Method :
              tables'[s][k] = tables[s][k] /\ fast'[s][k] = fast[s][k]
<1>1. /\ tables' = [tables EXCEPT ![r] = [k \in Method |-> Extended(tables[r][k], tables[t][k])]]
      /\ fast' = [fast EXCEPT ![r] = [k \in Method |-> Over(fast[r][k], fast[t][k])]]
      /\ UNCHANGED <<prefix, layers, count, registered>> /\ merged' = merged \cup {t}
  BY DEF Merge, Shape
<1>2. \A k \in Method : /\ Extended(tables[r][k], tables[t][k]) \in Seq(Maps)
                        /\ Over(fast[r][k], fast[t][k]) \in Maps
  <2> SUFFICES ASSUME NEW k \in Method
               PROVE  /\ Extended(tables[r][k], tables[t][k]) \in Seq(Maps)
                      /\ Over(fast[r][k], fast[t][k]) \in Maps
    OBVIOUS
  <2>1. /\ tables[r][k] \in Seq(Maps) /\ tables[t][k] \in Seq(Maps)
        /\ fast[r][k] \in Maps /\ fast[t][k] \in Maps
    BY DEF Shape
  <2> QED
    BY <2>1, ExtendedShape, OverShape
<1>3. /\ tables' \in [App -> [Method -> Seq(Maps)]]
      /\ fast' \in [App -> [Method -> Maps]]
  BY <1>1, <1>2 DEF Shape
<1>4. Shape'
  BY <1>1, <1>3 DEF Shape
<1> QED
  BY <1>1, <1>4 DEF Shape

-----------------------------------------------------------------------------
(* What every step preserves. *)

\* The maps and tables of a router grow, and what they had stays in place.
Grows ==
  \A r \in App, m \in Method :
    /\ DOMAIN fast[r][m] \subseteq DOMAIN fast'[r][m]
    /\ \A p \in DOMAIN fast[r][m] : fast'[r][m][p] = fast[r][m][p]
    /\ Covered(tables[r][m], tables'[r][m])

LEMMA CoveredSame == ASSUME NEW ts PROVE Covered(ts, ts)
BY DEF Covered

LEMMA StepShape ==
  ASSUME Shape, [Next]_vars
  PROVE  Shape' /\ Grows
<1>1. ASSUME NEW r \in App, NEW m \in Method, NEW route \in Route, At(r, m, route)
      PROVE  Shape' /\ Grows
  <2>1. /\ Shape'
        /\ \A s \in App, k \in Method :
             (s # r \/ k # m) => tables'[s][k] = tables[s][k] /\ fast'[s][k] = fast[s][k]
    BY <1>1, AtEffect
  <2>2. PICK path \in Paths, e \in Endpoint :
             /\ tables'[r][m] = Added(tables[r][m], path, e)
             /\ fast'[r][m] = InFastMap(fast[r][m], path, e)
    BY <1>1, AtEffect
  <2>3. tables[r][m] \in Seq(Maps) /\ fast[r][m] \in Maps
    BY DEF Shape
  <2>4. /\ DOMAIN fast[r][m] \subseteq DOMAIN fast'[r][m]
        /\ \A p \in DOMAIN fast[r][m] : fast'[r][m][p] = fast[r][m][p]
        /\ Covered(tables[r][m], tables'[r][m])
    BY <2>2, <2>3, AddedShape, InFastMapShape
  <2> QED
    BY <2>1, <2>4, CoveredSame DEF Grows
<1>2. ASSUME NEW r \in App, NEW t \in App, Merge(r, t)
      PROVE  Shape' /\ Grows
  <2>1. /\ Shape'
        /\ \A s \in App \ {r}, k \in Method :
             tables'[s][k] = tables[s][k] /\ fast'[s][k] = fast[s][k]
    BY <1>2, MergeEffect
  <2>2. ASSUME NEW k \in Method
        PROVE  /\ DOMAIN fast[r][k] \subseteq DOMAIN fast'[r][k]
               /\ \A p \in DOMAIN fast[r][k] : fast'[r][k][p] = fast[r][k][p]
               /\ Covered(tables[r][k], tables'[r][k])
    <3>1. /\ tables[r][k] \in Seq(Maps) /\ tables[t][k] \in Seq(Maps)
          /\ fast[r][k] \in Maps /\ fast[t][k] \in Maps
      BY DEF Shape
    <3>2. /\ tables'[r][k] = Extended(tables[r][k], tables[t][k])
          /\ fast'[r][k] = Over(fast[r][k], fast[t][k])
      BY <1>2, MergeEffect
    <3>3. Covered(tables[r][k], tables'[r][k])
      BY <3>1, <3>2, ExtendedShape
    <3>4. /\ DOMAIN Over(fast[r][k], fast[t][k]) = DOMAIN fast[r][k] \cup DOMAIN fast[t][k]
          /\ \A p \in DOMAIN fast[r][k] : Over(fast[r][k], fast[t][k])[p] = fast[r][k][p]
      BY <3>1, OverShape
    <3> QED
      BY <3>2, <3>3, <3>4
  <2> QED
    BY <2>1, <2>2, CoveredSame DEF Grows
<1>3. ASSUME NEW r \in App, With(r)
      PROVE  Shape' /\ Grows
  <2>1. layers[r] \in Seq(Layer) /\ Len(layers[r]) + 1 \in Nat \ {0}
    BY DEF Shape
  <2>2. <<r, Len(layers[r]) + 1>> \in Layer
    BY <2>1 DEF Layer
  <2>3. Append(layers[r], <<r, Len(layers[r]) + 1>>) \in Seq(Layer)
    BY <2>1, <2>2
  <2> QED
    BY <1>3, <2>3, CoveredSame DEF With, Shape, Grows
<1>4. ASSUME NEW r \in App, NEW p \in Prefix, SetPrefix(r, p)
      PROVE  Shape' /\ Grows
  <2>1. Normalised(p) \in Paths
    BY RouteAssumption, NormalisedShape
  <2> QED
    BY <1>4, <2>1, CoveredSame DEF SetPrefix, Shape, Grows
<1>5. ASSUME UNCHANGED vars
      PROVE  Shape' /\ Grows
  BY <1>5, CoveredSame DEF vars, Shape, Grows
<1> QED
  BY <1>1, <1>2, <1>3, <1>4, <1>5 DEF Next

LEMMA StepVisible ==
  ASSUME Shape, VisibleInTables, [Next]_vars
  PROVE  VisibleInTables'
<1>1. SUFFICES ASSUME NEW r \in App, NEW m \in Method
               PROVE  Visible(fast'[r][m], tables'[r][m])
  BY DEF VisibleInTables, Visible
<1>2. Visible(fast[r][m], tables[r][m])
  BY DEF VisibleInTables, Visible
<1>3. fast'[r][m] = fast[r][m] => Visible(fast'[r][m], tables'[r][m])
  BY <1>2, StepShape, VisibleGrows DEF Grows
<1>4. ASSUME NEW s \in App, NEW k \in Method, NEW route \in Route, At(s, k, route)
      PROVE  Visible(fast'[r][m], tables'[r][m])
  <2>1. CASE s = r /\ k = m
    <3>1. PICK path \in Paths, e \in Endpoint :
               /\ tables'[r][m] = Added(tables[r][m], path, e)
               /\ fast'[r][m] = InFastMap(fast[r][m], path, e)
      BY <1>4, <2>1, AtHere
    <3>2. tables[r][m] \in Seq(Maps) /\ fast[r][m] \in Maps
      BY DEF Shape
    <3>3. /\ DOMAIN fast'[r][m] \subseteq DOMAIN fast[r][m] \cup {path}
          /\ \E i \in DOMAIN tables'[r][m] : Rootless(path) \in DOMAIN tables'[r][m][i]
          /\ Covered(tables[r][m], tables'[r][m])
      BY <3>1, <3>2, AddedShape, InFastMapShape
    <3> QED
      BY <1>2, <3>3 DEF Visible, Covered
  <2>2. CASE s # r \/ k # m
    BY <1>3, <1>4, <2>2, AtElsewhere
  <2> QED
    BY <2>1, <2>2
<1>5. ASSUME NEW s \in App, NEW t \in App, Merge(s, t)
      PROVE  Visible(fast'[r][m], tables'[r][m])
  <2>1. CASE s = r
    <3>1. /\ tables'[r][m] = Extended(tables[r][m], tables[t][m])
          /\ fast'[r][m] = Over(fast[r][m], fast[t][m])
      BY <1>5, <2>1, MergeEffect
    <3>2. /\ tables[r][m] \in Seq(Maps) /\ tables[t][m] \in Seq(Maps)
          /\ fast[r][m] \in Maps /\ fast[t][m] \in Maps
      BY DEF Shape
    <3>3. /\ Covered(tables[r][m], tables'[r][m])
          /\ Covered(tables[t][m], tables'[r][m])
      BY <3>1, <3>2, ExtendedShape
    <3>4. DOMAIN fast'[r][m] = DOMAIN fast[r][m] \cup DOMAIN fast[t][m]
      <4>1. DOMAIN Over(fast[r][m], fast[t][m]) = DOMAIN fast[r][m] \cup DOMAIN fast[t][m]
        BY <3>2, OverShape
      <4> QED
        BY <3>1, <4>1
    <3>5. Visible(fast[t][m], tables[t][m])
      BY DEF VisibleInTables, Visible
    <3> QED
      BY <1>2, <3>3, <3>4, <3>5 DEF Visible, Covered
  <2>2. CASE s # r
    BY <1>3, <1>5, <2>2, MergeEffect
  <2> QED
    BY <2>1, <2>2
<1>6. ASSUME UNCHANGED fast
      PROVE  Visible(fast'[r][m], tables'[r][m])
  BY <1>3, <1>6
<1> QED
  BY <1>4, <1>5, <1>6 DEF Next, With, SetPrefix, vars

LEMMA MembersShape ==
  ASSUME NEW m \in Maps, NEW ts \in Seq(Maps)
  PROVE  Values(m) \cup Held(ts) \subseteq Endpoint
<1>1. \A n \in Maps : \A p \in DOMAIN n : n[p] \in Endpoint
  BY MapShape DEF IsMap
<1>2. \A i \in DOMAIN ts : ts[i] \in Maps
  OBVIOUS
<1> QED
  BY <1>1, <1>2 DEF Values, Held

\* Registrations are only added: what was captured stays as it was.
LEMMA StepCaptured ==
  ASSUME Shape, [Next]_vars, NEW e \in Endpoint, Captured(e)
  PROVE  Captured(e)'
<1>1. e.id \in Nat /\ e.id < count /\ count \in Nat
  BY DEF Endpoint, Captured, Shape
<1>2. (count' = count /\ registered' = registered) => Captured(e)'
  BY DEF Captured
<1>3. ASSUME NEW s \in App, NEW k \in Method, NEW route \in Route, At(s, k, route)
      PROVE  Captured(e)'
  <2>1. /\ count' = count + 1
        /\ registered' = Append(registered, [router |-> s, depth |-> Len(layers[s])])
    BY <1>3, AtEffect
  <2>2. registered \in Seq(Registration) /\ Len(registered) = count
    BY DEF Shape
  <2>3. registered'[e.id + 1] = registered[e.id + 1]
    BY <1>1, <2>1, <2>2
  <2>4. e.id < count'
    <3> HIDE DEF Captured
    <3> QED
      BY <1>1, <2>1
  <2> QED
    BY <2>3, <2>4 DEF Captured
<1> QED
  BY <1>2, <1>3 DEF Next, With, Merge, SetPrefix, vars

LEMMA StepNumbered ==
  ASSUME Shape, Numbered, [Next]_vars
  PROVE  Numbered'
<1>1. layers' = layers => Numbered'
  BY DEF Numbered
<1>2. ASSUME NEW r \in App, With(r)
      PROVE  Numbered'
  <2> DEFINE x == <<r, Len(layers[r]) + 1>>
  <2>1. layers[r] \in Seq(Layer) /\ Len(layers[r]) \in Nat /\ layers[r] = Chain(r, Len(layers[r]))
    BY DEF Shape, Numbered
  <2>2. x \in Layer
    BY <2>1 DEF Layer
  <2>3. /\ layers'[r] = Append(layers[r], x)
        /\ \A s \in App \ {r} : layers'[s] = layers[s]
    BY <1>2 DEF With, Shape
  <2>4. Append(layers[r], x) = Chain(r, Len(layers[r]) + 1)
    <3> DEFINE n == Len(layers[r])
    <3> HIDE DEF x
    <3>1. /\ Append(layers[r], x) \in Seq(Layer) /\ Len(Append(layers[r], x)) = n + 1
          /\ Append(layers[r], x)[n + 1] = x
          /\ \A i \in 1..n : Append(layers[r], x)[i] = layers[r][i]
      BY <2>1, <2>2
    <3>2. \A i \in 1..n : layers[r][i] = <<r, i>>
      BY <2>1 DEF Chain
    <3>3. Append(layers[r], x) = [i \in 1..(n + 1) |-> Append(layers[r], x)[i]]
      BY <3>1
    <3>4. \A i \in 1..(n + 1) : Append(layers[r], x)[i] = <<r, i>>
      <4>1. \A i \in 1..(n + 1) : i \in 1..n \/ i = n + 1
        BY <2>1
      <4> HIDE DEF n
      <4> QED
        BY <3>1, <3>2, <4>1 DEF x, n
    <3> HIDE DEF n
    <3>5. Append(layers[r], x) = Chain(r, n + 1)
      BY <3>3, <3>4 DEF Chain
    <3> QED
      BY <3>5 DEF n
  <2>5. Len(layers'[r]) = Len(layers[r]) + 1
    BY <2>1, <2>2, <2>3
  <2>6. layers'[r] = Chain(r, Len(layers'[r]))
    BY <2>3, <2>4, <2>5
  <2> QED
    BY <2>3, <2>6 DEF Numbered
<1> QED
  BY <1>1, <1>2 DEF Next, At, Merge, SetPrefix, vars

LEMMA StepOwnChains ==
  ASSUME Shape, OwnChains, [Next]_vars
  PROVE  OwnChains'
<1>1. SUFFICES ASSUME NEW r \in App, NEW m \in Method,
                      NEW e \in Values(fast'[r][m]) \cup Held(tables'[r][m])
               PROVE  Captured(e)'
  BY StepNumbered DEF OwnChains
<1>2. ASSUME NEW s \in App, e \in Values(fast[s][m]) \cup Held(tables[s][m])
      PROVE  Captured(e)'
  <2>1. Captured(e)
    BY <1>2 DEF OwnChains
  <2>2. e \in Endpoint
    BY <1>2, MembersShape DEF Shape
  <2> QED
    BY <2>1, <2>2, StepCaptured
<1>3. CASE fast'[r][m] = fast[r][m] /\ tables'[r][m] = tables[r][m]
  BY <1>2, <1>3
<1>4. ASSUME NEW s \in App, NEW k \in Method, NEW route \in Route, At(s, k, route)
      PROVE  Captured(e)'
  <2>1. CASE s = r /\ k = m
    <3>1. PICK path \in Paths, d \in Endpoint :
               /\ d.id = count /\ d.layers = layers[r]
               /\ tables'[r][m] = Added(tables[r][m], path, d)
               /\ fast'[r][m] = InFastMap(fast[r][m], path, d)
      BY <1>4, <2>1, AtHere
    <3>2. tables[r][m] \in Seq(Maps) /\ fast[r][m] \in Maps
      BY DEF Shape
    <3>3. Values(fast'[r][m]) \subseteq Values(fast[r][m]) \cup {d}
      BY <3>1, <3>2, InFastMapShape
    <3>4. Held(tables'[r][m]) \subseteq Held(tables[r][m]) \cup {d}
      BY <3>1, <3>2, AddedShape
    <3>5. Captured(d)'
      <4>1. /\ count' = count + 1
            /\ registered' = Append(registered, [router |-> r, depth |-> Len(layers[r])])
        BY <1>4, <2>1, AtEffect
      <4>2. registered'[count + 1] = [router |-> r, depth |-> Len(layers[r])]
        BY <4>1 DEF Shape
      <4>3. layers[r] = Chain(r, Len(layers[r]))
        BY DEF OwnChains, Numbered
      <4> QED
        BY <3>1, <4>1, <4>2, <4>3 DEF Captured, Shape
    <3> QED
      BY <1>2, <3>3, <3>4, <3>5
  <2>2. CASE s # r \/ k # m
    BY <1>3, <1>4, <2>2, AtElsewhere
  <2> QED
    BY <2>1, <2>2
<1>5. ASSUME NEW s \in App, NEW t \in App, Merge(s, t)
      PROVE  Captured(e)'
  <2>1. CASE s = r
    <3>1. /\ tables'[r][m] = Extended(tables[r][m], tables[t][m])
          /\ fast'[r][m] = Over(fast[r][m], fast[t][m])
      BY <1>5, <2>1, MergeEffect
    <3>2. /\ tables[r][m] \in Seq(Maps) /\ tables[t][m] \in Seq(Maps)
      BY DEF Shape
    <3>3. Held(tables'[r][m]) \subseteq Held(tables[r][m]) \cup Held(tables[t][m])
      BY <3>1, <3>2, ExtendedShape
    <3>4. Values(Over(fast[r][m], fast[t][m])) \subseteq Values(fast[r][m]) \cup Values(fast[t][m])
      BY DEF Values, Over
    <3> QED
      BY <1>2, <3>1, <3>3, <3>4
  <2>2. CASE s # r
    BY <1>3, <1>5, <2>2, MergeEffect
  <2> QED
    BY <2>1, <2>2
<1> QED
  BY <1>3, <1>4, <1>5 DEF Next, With, SetPrefix, vars

LEMMA InitInv == Init => IndInv
<1> SUFFICES ASSUME Init PROVE IndInv
  OBVIOUS
<1>1. \A r \in App, m \in Method : fast[r][m] = << >> /\ tables[r][m] = << >>
  BY DEF Init
<1>2. /\ << >> \in Seq(Maps) /\ << >> \in Seq(Layer) /\ DOMAIN << >> = {}
      /\ << >> \in Seq(Registration) /\ Len(<< >>) = 0
  OBVIOUS
<1>3. Shape
  BY <1>2, EmptyShape, NoPrefixShape, BoundsAssumption DEF Init, Shape
<1>4. VisibleInTables
  BY <1>1, <1>2 DEF VisibleInTables
<1>5. OwnChains
  <2>1. \A r \in App : Chain(r, 0) = << >>
    BY DEF Chain
  <2>2. Numbered
    BY <1>2, <2>1 DEF Numbered, Init
  <2> QED
    BY <1>1, <1>2, <2>2 DEF OwnChains, Values, Held
<1> QED
  BY <1>3, <1>4, <1>5 DEF IndInv

LEMMA StepInv == IndInv /\ [Next]_vars => IndInv'
BY StepShape, StepVisible, StepOwnChains DEF IndInv

LEMMA AlwaysInv == Spec => []IndInv
BY InitInv, StepInv, PTL DEF Spec

-----------------------------------------------------------------------------
(* The theorems. *)

\* Routers keep the types of their parts, whatever is registered and merged.
THEOREM TypeCorrect == Spec => []TypeOK
<1>1. IndInv => TypeOK
  <2> SUFFICES ASSUME Shape PROVE TypeOK
    BY DEF IndInv
  <2>1. ASSUME NEW r \in App, NEW m \in Method
        PROVE  /\ IsMap(fast[r][m])
               /\ \A i \in DOMAIN tables[r][m] : IsMap(tables[r][m][i])
    <3>1. fast[r][m] \in Maps /\ tables[r][m] \in Seq(Maps)
      BY DEF Shape
    <3>2. \A i \in DOMAIN tables[r][m] : tables[r][m][i] \in Maps
      BY <3>1
    <3> QED
      BY <3>1, <3>2, MapShape
  <2> QED
    BY <2>1 DEF Shape, TypeOK
<1> QED
  BY <1>1, AlwaysInv, PTL

\* Each route of the exact map has its pattern in the tables, for good.
THEOREM StaticsStayVisible == Spec => []VisibleInTables
BY AlwaysInv, PTL DEF IndInv

LEMMA LookupReaches ==
  ASSUME Shape, NEW r \in App, NEW m \in Method, NEW path
  PROVE  Lookup(r, m, path) # {} <=> Reaches(fast[r][m], tables[r][m], path)
BY LookupFinds DEF Lookup, Shape

LEMMA AllowIsLookup ==
  ASSUME IndInv, NEW r \in App, NEW path \in Path, NEW m \in Method
  PROVE  m \in MatchingMethods(r, path) <=> Lookup(r, m, path) # {}
<1>1. m \in MatchingMethods(r, path)
        <=> tables[r][m] # << >> /\ Reaches(fast[r][m], tables[r][m], path)
  BY DEF MatchingMethods, Reaches, Recognizes
<1>2. tables[r][m] = << >> => DOMAIN tables[r][m] = {}
  OBVIOUS
<1>3. ASSUME Reaches(fast[r][m], tables[r][m], path)
      PROVE  DOMAIN tables[r][m] # {}
  BY <1>3 DEF IndInv, VisibleInTables, Reaches, Recognizes
<1> QED
  BY <1>1, <1>2, <1>3, LookupReaches DEF IndInv

\* The Allow header names the methods that a route answers, HEAD among them only
\* when it has a route of its own; HEAD is answered when it or GET is named.
THEOREM AllowMatchesDispatch == Spec => []AllowIsExact
<1>1. IndInv => AllowIsExact
  <2> SUFFICES ASSUME IndInv, NEW r \in App, NEW path \in Path
               PROVE  LET allow == MatchingMethods(r, path)
                      IN  /\ \A m \in Method \ {"HEAD"} : m \in allow <=> Found(r, m, path) # {}
                          /\ "HEAD" \in allow <=> Lookup(r, "HEAD", path) # {}
                          /\ Found(r, "HEAD", path) # {} <=> allow \cap {"HEAD", "GET"} # {}
    BY DEF AllowIsExact
  <2>1. \A m \in Method : m \in MatchingMethods(r, path) <=> Lookup(r, m, path) # {}
    BY AllowIsLookup
  <2>2. {"HEAD", "GET"} \subseteq Method
    BY MethodAssumption
  <2>3. \A m \in Method \ {"HEAD"} : Found(r, m, path) = Lookup(r, m, path)
    BY DEF Found
  <2>4. Found(r, "HEAD", path) # {} <=> Lookup(r, "HEAD", path) # {} \/ Lookup(r, "GET", path) # {}
    BY DEF Found
  <2> QED
    BY <2>1, <2>2, <2>3, <2>4
<1> QED
  BY <1>1, AlwaysInv, PTL

LEMMA FoundReaches ==
  ASSUME Shape, NEW r \in App, NEW m \in Method, NEW path
  PROVE  Found(r, m, path) # {}
           <=> \/ Reaches(fast[r][m], tables[r][m], path)
               \/ m = "HEAD" /\ Reaches(fast[r]["GET"], tables[r]["GET"], path)
<1>1. "GET" \in Method
  BY MethodAssumption
<1>2. /\ Lookup(r, m, path) # {} <=> Reaches(fast[r][m], tables[r][m], path)
      /\ Lookup(r, "GET", path) # {} <=> Reaches(fast[r]["GET"], tables[r]["GET"], path)
  BY <1>1, LookupReaches
<1>3. CASE m = "HEAD" /\ Lookup(r, "HEAD", path) = {}
  BY <1>2, <1>3 DEF Found
<1>4. CASE ~(m = "HEAD" /\ Lookup(r, "HEAD", path) = {})
  <2>1. Found(r, m, path) = Lookup(r, m, path)
    BY <1>4 DEF Found
  <2> QED
    BY <1>2, <1>4, <2>1
<1> QED
  BY <1>3, <1>4

\* The path with a slash added (Router::lookup's trimmed.len() > 1) is long
\* enough to be trimmed.
LEMMA OneMore == \A n \in Nat : n > 1 => n + 1 > 2
  OBVIOUS

\* Wherever a path is served, so is the path with a slash at its end.
THEOREM SlashesAreTolerated == Spec => []SlashTolerated
<1>1. IndInv => SlashTolerated
  <2> SUFFICES ASSUME Shape, NEW r \in App, NEW m \in Method, NEW path \in Path,
                      path[Len(path)] # "", Found(r, m, path) # {}
               PROVE  Found(r, m, Append(path, "")) # {}
    BY DEF IndInv, SlashTolerated
  <2> DEFINE long == Append(path, "")
  <2>1. path \in Paths /\ Len(path) > 1
    BY PathAssumption
  <2>2. path \in Seq(Text) /\ Len(path) \in Nat
    BY <2>1, PathShape
  <2>3. "" \in Text
    BY TextAssumption
  <2>4. ASSUME NEW x \in Text
        PROVE  /\ Append(path, x) \in Seq(Text)
               /\ Len(Append(path, x)) = Len(path) + 1
               /\ Append(path, x)[Len(path) + 1] = x
               /\ Front(Append(path, x)) = path
    BY <2>2, AppendShape
  <2>5. Len(long) > 2 /\ long[Len(long)] = "" /\ Front(long) = path
    <3>1. /\ Len(long) = Len(path) + 1 /\ long[Len(path) + 1] = ""
          /\ Front(long) = path
      BY <2>3, <2>4
    <3> HIDE DEF long
    <3>2. Len(path) + 1 > 2
      BY <2>1, <2>2, OneMore, Zenon
    <3>3. Len(long) > 2
      BY <3>1, <3>2
    <3>4. long[Len(long)] = ""
      BY <3>1, Zenon
    <3> QED
      BY <3>1, <3>3, <3>4
  <2>6. path \in Forms(long)
    <3> HIDE DEF long
    <3> QED
      BY <2>5 DEF Forms
  <2>7. Forms(path) = {path}
    BY DEF Forms
  <2>8. \A f, ts : Reaches(f, ts, path) => Reaches(f, ts, long)
    BY <2>6, <2>7 DEF Reaches
  <2> HIDE DEF long
  <2>9. Found(r, m, long) # {}
    BY <2>8, FoundReaches
  <2> QED
    BY <2>9 DEF long
<1> QED
  BY <1>1, AlwaysInv, PTL

\* A matched route runs what its router had when it was registered, in order;
\* the fallbacks run all that the dispatching router has.
THEOREM RequestsRunOneChain == Spec => []OneChain
<1>1. IndInv => OneChain
  <2> SUFFICES ASSUME IndInv, NEW r \in App, NEW m \in Method, NEW path \in Path,
                      NEW answer \in Dispatch(r, m, path)
               PROVE  /\ \A id \in answer.routes :
                           answer.runs = Chain(registered[id + 1].router,
                                               registered[id + 1].depth)
                      /\ answer.routes = {} => answer.runs = Chain(r, Len(layers[r]))
    BY DEF OneChain
  <2>1. CASE Found(r, m, path) # {}
    <3>1. PICK e \in Found(r, m, path) : answer.routes = {e.id} /\ answer.runs = e.layers
      BY <2>1 DEF Dispatch, Runs
    <3>2. PICK k \in Method : e \in Lookup(r, k, path)
      BY <3>1, MethodAssumption DEF Found
    <3>3. e \in Values(fast[r][k]) \cup Held(tables[r][k])
      BY <3>2, LookupFinds DEF Lookup, IndInv, Shape, Values
    <3>4. Captured(e)
      BY <3>3 DEF IndInv, OwnChains
    <3> QED
      BY <3>1, <3>4 DEF Captured
  <2>2. CASE Found(r, m, path) = {}
    <3>1. answer.runs = layers[r] /\ answer.routes = {}
      BY <2>2 DEF Dispatch
    <3> QED
      BY <3>1 DEF IndInv, OwnChains, Numbered
  <2> QED
    BY <2>1, <2>2
<1> QED
  BY <1>1, AlwaysInv, PTL

\* What a router, or a router merged into it, served is served from then on.
THEOREM RoutesAreNotLost == Spec => NothingLost
<1>1. IndInv /\ [Next]_vars =>
        [\A r, t \in App, m \in Method, path \in Path :
           /\ r \notin merged'
           /\ \/ t = r
              \/ t \in merged' \ merged /\ tables'[r] # tables[r]
           /\ Found(t, m, path) # {}
           => Found(r, m, path)' # {}]_vars
  <2> SUFFICES ASSUME Shape, [Next]_vars,
                      NEW r \in App, NEW t \in App, NEW m \in Method, NEW path \in Path,
                      \/ t = r
                      \/ t \in merged' \ merged /\ tables'[r] # tables[r],
                      Found(t, m, path) # {}
               PROVE  Found(r, m, path)' # {}
    BY DEF IndInv
  <2>1. ASSUME NEW k \in Method
        PROVE  /\ DOMAIN fast[t][k] \subseteq DOMAIN fast'[r][k]
               /\ Covered(tables[t][k], tables'[r][k])
    <3>1. CASE t = r
      BY <3>1, StepShape DEF Grows
    <3>2. CASE t \in merged' \ merged /\ tables'[r] # tables[r]
      <4>1. PICK s \in App, u \in App : Merge(s, u)
        BY <3>2, AtEffect DEF Next, With, SetPrefix, vars
      <4>2. u = t
        BY <3>2, <4>1 DEF Merge
      <4>3. s = r
        BY <3>2, <4>1 DEF Merge, Shape
      <4>4. /\ tables'[r][k] = Extended(tables[r][k], tables[t][k])
            /\ fast'[r][k] = Over(fast[r][k], fast[t][k])
        BY <4>1, <4>2, <4>3, MergeEffect
      <4>5. tables[r][k] \in Seq(Maps) /\ tables[t][k] \in Seq(Maps)
        BY DEF Shape
      <4>6. Covered(tables[t][k], tables'[r][k])
        BY <4>4, <4>5, ExtendedShape
      <4>7. DOMAIN fast[t][k] \subseteq DOMAIN Over(fast[r][k], fast[t][k])
        BY DEF Over
      <4> QED
        BY <4>4, <4>6, <4>7
    <3> QED
      BY <3>1, <3>2
  <2>2. ASSUME NEW k \in Method, Reaches(fast[t][k], tables[t][k], path)
        PROVE  Reaches(fast'[r][k], tables'[r][k], path)
    BY <2>1, <2>2, ReachesGrows
  <2>3. "GET" \in Method
    BY MethodAssumption
  <2>4. \/ Reaches(fast[t][m], tables[t][m], path)
        \/ m = "HEAD" /\ Reaches(fast[t]["GET"], tables[t]["GET"], path)
    BY FoundReaches
  <2>5. \/ Reaches(fast'[r][m], tables'[r][m], path)
        \/ m = "HEAD" /\ Reaches(fast'[r]["GET"], tables'[r]["GET"], path)
    BY <2>2, <2>3, <2>4
  <2>6. \A k \in Method : fast'[r][k] \in Maps /\ tables'[r][k] \in Seq(Maps)
    BY StepShape DEF Shape
  <2>7. \A k \in Method : LookupIn(fast'[r][k], tables'[r][k], path) # {}
                            <=> Reaches(fast'[r][k], tables'[r][k], path)
    BY <2>6, LookupFinds
  <2> QED
    BY <2>3, <2>5, <2>7 DEF Found, Lookup
<1> QED
  BY <1>1, AlwaysInv, PTL DEF Spec, NothingLost

\* A static route keeps its path, against every later registration and merge.
THEOREM StaticRoutesAreFinal == Spec => StaticIsFinal
<1>1. IndInv /\ [Next]_vars =>
        [\A r \in App \ merged', m \in Method : \A path \in DOMAIN fast[r][m] :
           Lookup(r, m, path)' = Lookup(r, m, path)]_vars
  <2> SUFFICES ASSUME Shape, [Next]_vars, NEW r \in App, NEW m \in Method,
                      NEW path \in DOMAIN fast[r][m]
               PROVE  Lookup(r, m, path)' = Lookup(r, m, path)
    BY DEF IndInv
  <2>1. path \in DOMAIN fast'[r][m] /\ fast'[r][m][path] = fast[r][m][path]
    BY StepShape DEF Grows
  <2>2. LookupIn(fast[r][m], tables[r][m], path) = {fast[r][m][path]}
    BY StaticAnswers
  <2>3. LookupIn(fast'[r][m], tables'[r][m], path) = {fast'[r][m][path]}
    BY <2>1, StaticAnswers
  <2> QED
    BY <2>1, <2>2, <2>3 DEF Lookup
<1> QED
  BY <1>1, AlwaysInv, PTL DEF Spec, StaticIsFinal

=============================================================================
