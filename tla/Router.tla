------------------------------- MODULE Router -------------------------------
(***************************************************************************)
(* Building routers and looking up requests in them (src/router.rs).       *)
(*                                                                         *)
(* A program builds routers in any order of at, with, prefix and merge,    *)
(* and serves one of them.  A route is kept twice when it has no parameter *)
(* and no wildcard: in an exact map, asked first, and in a pattern table;  *)
(* two lookups written apart, one per method and one for the Allow header, *)
(* go over both.  The properties relate the copies and the lookups.        *)
(*                                                                         *)
(* A path is the sequence of what lies between its slashes: "/a/b" is      *)
(* <<"", "a", "b">>, "/a/" is <<"", "a", "">>, "/" is <<"", "">>, "a" is   *)
(* <<"a">>.  In routes, ":" stands for any parameter, "*" for a wildcard.  *)
(***************************************************************************)
EXTENDS Naturals, Sequences, SequencesExt

CONSTANTS
  Text,           \* what may stand between two slashes
  App,            \* the routers a program builds
  Method,
  Route,          \* what at() is called with
  Prefix,         \* what prefix() is called with
  Path,           \* the paths of requests
  MaxRoutes,      \* bound: calls of at()
  MaxLayers       \* bound: calls of with()

Paths == Seq(Text) \ {<< >>}

ASSUME TextAssumption == {"", ":", "*"} \subseteq Text
ASSUME MethodAssumption == {"GET", "HEAD"} \subseteq Method
ASSUME RouteAssumption == Route \cup Prefix \subseteq Paths
ASSUME PathAssumption ==   \* the path of a request begins with a slash
  Path \subseteq {p \in Paths : Len(p) > 1 /\ p[1] = ""}
ASSUME BoundsAssumption == {MaxRoutes, MaxLayers} \subseteq Nat

VARIABLES
  prefix,         \* Router::prefix
  layers,         \* Router::middlewares
  tables,         \* Router::routes: per method, a list of pattern tables
  fast,           \* Router::static_routes: per method, endpoints by exact path
  merged,         \* the routers that merge() has consumed
  count,          \* calls of at(): endpoints are told apart by it
  registered      \* history: for each call of at(), on which router, after
                  \* how many calls of with(); read by properties only

vars == <<prefix, layers, tables, fast, merged, count, registered>>

\* A middleware is the router that it was added to, and its place there.
Layer == App \X (Nat \ {0})

\* A handler with the chain captured at registration (ScopedEndpoint).
Endpoint == [id : Nat, layers : Seq(Layer)]

Registration == [router : App, depth : Nat]

IsMap(m) == DOMAIN m \subseteq Paths /\ \A p \in DOMAIN m : m[p] \in Endpoint

NoPrefix == <<"">>

TypeOK ==
  /\ prefix \in [App -> Paths]
  /\ layers \in [App -> Seq(Layer)]
  /\ \A r \in App, m \in Method :
       /\ IsMap(fast[r][m])
       /\ \A i \in DOMAIN tables[r][m] : IsMap(tables[r][m][i])
  /\ merged \subseteq App
  /\ count \in 0..MaxRoutes
  /\ registered \in Seq(Registration) /\ Len(registered) = count

Init ==
  /\ prefix = [r \in App |-> NoPrefix]
  /\ layers = [r \in App |-> << >>]
  /\ tables = [r \in App |-> [m \in Method |-> << >>]]
  /\ fast = [r \in App |-> [m \in Method |-> << >>]]
  /\ merged = {}
  /\ count = 0
  /\ registered = << >>

-----------------------------------------------------------------------------
(* Registration. *)

\* Map f, and map g where f has no entry.
Over(f, g) == [p \in DOMAIN f \cup DOMAIN g |-> IF p \in DOMAIN f THEN f[p] ELSE g[p]]

Entry(p, e) == [q \in {p} |-> e]

\* Mutant: nothing is put back, and "/" leaves an empty prefix.
NormalisedBare(p) == SelectSeq(p, LAMBDA s : s # "")

\* prefix(): no slash at the end, one at the beginning, or no prefix at all.
Normalised(p) ==
  LET used == {i \in DOMAIN p : p[i] # ""}
      core == SubSeq(p, 1, CHOOSE i \in used : \A j \in used : j <= i)
  IN  IF used = {} THEN NoPrefix
      ELSE IF core[1] = "" THEN core ELSE <<"">> \o core

SetPrefix(r, p) ==
  /\ r \notin merged
  /\ prefix' = [prefix EXCEPT ![r] = Normalised(p)]
  /\ UNCHANGED <<layers, tables, fast, merged, count, registered>>

Withs == UNION { {r} \X DOMAIN layers[r] : r \in App }

With(r) ==
  /\ r \notin merged
  /\ Cardinality(Withs) < MaxLayers
  /\ layers' = [layers EXCEPT ![r] = Append(@, <<r, Len(@) + 1>>)]
  /\ UNCHANGED <<prefix, tables, fast, merged, count, registered>>

Prefixed(r, route) == IF route[1] = "" THEN prefix[r] \o Tail(route) ELSE route

IsStatic(path) == \A i \in DOMAIN path : path[i] \notin {":", "*"}

\* route_recognizer does not tell a path from the same without its first slash.
Rootless(path) == IF Len(path) > 1 /\ path[1] = "" THEN Tail(path) ELSE path

\* Adding to the last table, where the same pattern is overwritten.
Added(ts, path, e) ==
  IF ts = << >> THEN << Entry(Rootless(path), e) >>
  ELSE [ts EXCEPT ![Len(ts)] = Over(Entry(Rootless(path), e), @)]

\* Mutant: the last registration of an exact path wins.
InFastMapLast(m, path, e) == IF IsStatic(path) THEN Over(Entry(path, e), m) ELSE m

InFastMap(m, path, e) == IF IsStatic(path) THEN Over(m, Entry(path, e)) ELSE m

At(r, m, route) ==
  /\ r \notin merged
  /\ count < MaxRoutes
  \* bound: a route without its first slash is not tried with a prefix
  /\ route[1] = "" \/ prefix[r] = NoPrefix
  /\ LET path == Prefixed(r, route)
         e == [id |-> count, layers |-> layers[r]]
     IN  /\ tables' = [tables EXCEPT ![r][m] = Added(@, path, e)]
         /\ fast' = [fast EXCEPT ![r][m] = InFastMap(@, path, e)]
  /\ count' = count + 1
  /\ registered' = Append(registered, [router |-> r, depth |-> Len(layers[r])])
  /\ UNCHANGED <<prefix, layers, merged>>

\* Mutant: HashMap::extend replaces the tables of a method both routers have.
ExtendedBy(ts, us) == IF us = << >> THEN ts ELSE us

Extended(ts, us) == ts \o us

Merge(r, t) ==              \* the target is consumed
  /\ r # t
  /\ {r, t} \cap merged = {}
  /\ tables' = [tables EXCEPT ![r] = [m \in Method |-> Extended(@[m], tables[t][m])]]
  /\ fast' = [fast EXCEPT ![r] = [m \in Method |-> Over(@[m], fast[t][m])]]
  /\ merged' = merged \cup {t}
  /\ UNCHANGED <<prefix, layers, count, registered>>

Next ==
  \E r \in App :
    \/ \E p \in Prefix : SetPrefix(r, p)
    \/ With(r)
    \/ \E m \in Method, route \in Route : At(r, m, route)
    \/ \E t \in App : Merge(r, t)

Spec == Init /\ [][Next]_vars

-----------------------------------------------------------------------------
(* Lookup.  Where several patterns of one table match, the choice is       *)
(* route_recognizer's: a lookup is the set of endpoints that may answer.   *)

FitsSegment(pattern, segment) ==
  pattern = segment \/ (pattern \in {":", "*"} /\ segment # "")

\* A wildcard ends a route and takes the rest of a path.
Fits(pattern, path) ==
  /\ \/ Len(pattern) = Len(path)
     \/ Len(pattern) < Len(path) /\ pattern[Len(pattern)] = "*"
  /\ \A i \in 1..Len(pattern) :
       FitsSegment(pattern[i], path[i]) \/ (i = Len(pattern) /\ i < Len(path))

Recognized(table, path) ==
  {table[p] : p \in {q \in DOMAIN table : Fits(q, Rootless(path))}}

\* The path, and the path without a slash at its end.
Forms(path) ==
  IF path[Len(path)] = "" /\ Len(path) > 2 THEN {path, Front(path)} ELSE {path}

\* find_map over the tables: the first one that recognizes the path.
TryOne(ts, path) ==
  LET hits == {i \in DOMAIN ts : Recognized(ts[i], path) # {}}
      first == {i \in hits : \A j \in hits : i <= j}
  IN  UNION {Recognized(ts[i], path) : i \in first}

\* What the path itself finds, or else what the trimmed path finds.
Trimming(Find(_), path) ==
  IF Find(path) # {} THEN Find(path) ELSE UNION {Find(p) : p \in Forms(path)}

MatchPathAsIs(ts, path) == TryOne(ts, path)     \* mutant: no second try

MatchPath(ts, path) == Trimming(LAMBDA p : TryOne(ts, p), path)

StaticExact(m, path) == IF path \in DOMAIN m THEN {m[path]} ELSE {}

LookupIn(m, ts, path) ==
  LET hit == Trimming(LAMBDA p : StaticExact(m, p), path)
  IN  IF hit # {} THEN hit ELSE MatchPath(ts, path)

Lookup(r, m, path) == LookupIn(fast[r][m], tables[r][m], path)

\* Mutant: only the path as it was sent counts.
MatchingMethodsAsIs(r, path) ==
  {m \in Method :
     \/ path \in DOMAIN fast[r][m]
     \/ \E i \in DOMAIN tables[r][m] : Recognized(tables[r][m][i], path) # {}}

MatchingMethods(r, path) ==
  {m \in Method :
     /\ tables[r][m] # << >>
     /\ \E p \in Forms(path) :
          \/ p \in DOMAIN fast[r][m]
          \/ \E i \in DOMAIN tables[r][m] : Recognized(tables[r][m][i], p) # {}}

-----------------------------------------------------------------------------
(* Router::dispatch, up to the handler. *)

Found(r, m, path) ==
  IF m = "HEAD" /\ Lookup(r, "HEAD", path) = {} THEN Lookup(r, "GET", path)
  ELSE Lookup(r, m, path)

\* Mutant: a matched route runs inside the router's own chain as well.
RunsTwice(r, e) == layers[r] \o e.layers

Runs(r, e) == e.layers

\* The status, the route that answers (none in the fallbacks), and the
\* middlewares that run on the way to it.
Dispatch(r, m, path) ==
  IF Found(r, m, path) # {}
  THEN {[status |-> 200, routes |-> {e.id}, runs |-> Runs(r, e)] : e \in Found(r, m, path)}
  ELSE {[status |-> IF MatchingMethods(r, path) = {} THEN 404 ELSE 405,
         routes |-> {}, runs |-> layers[r]]}

-----------------------------------------------------------------------------
\* The Allow header and the dispatch agree, through whichever copy and form of
\* the path: a method other than HEAD is named exactly when a request with it is
\* answered by a route; HEAD is named exactly when it has a route of its own,
\* and it is answered exactly when HEAD or GET is named (the fallback to GET is
\* served and not named, as README.md:67 shows: "405 + Allow: GET").
AllowIsExact ==
  \A r \in App, path \in Path :
    LET allow == MatchingMethods(r, path)
    IN  /\ \A m \in Method \ {"HEAD"} : m \in allow <=> Found(r, m, path) # {}
        /\ "HEAD" \in allow <=> Lookup(r, "HEAD", path) # {}
        /\ Found(r, "HEAD", path) # {} <=> allow \cap {"HEAD", "GET"} # {}

\* "Static routes stay visible in the public routes field": each entry of the
\* exact map has a pattern next to it, merges and prefixes included.
VisibleInTables ==
  \A r \in App, m \in Method : \A p \in DOMAIN fast[r][m] :
    \E i \in DOMAIN tables[r][m] : Rootless(p) \in DOMAIN tables[r][m][i]

\* A trailing slash is tolerated wherever the path without it is served, by
\* static and parameterised routes, prefixed or merged.
SlashTolerated ==
  \A r \in App, m \in Method, path \in Path :
    path[Len(path)] # "" /\ Found(r, m, path) # {}
      => Found(r, m, Append(path, "")) # {}

\* The first n middlewares that were added to router r, in order.
Chain(r, n) == [i \in 1..n |-> <<r, i>>]

\* A matched route runs the middlewares that its own router had when it was
\* registered, all of them, each once, in the order in which they were added,
\* and no others: whatever was added later, and whichever routers it has been
\* merged into since.  The 404 and 405 answers run all of the router's own.
OneChain ==
  \A r \in App, m \in Method, path \in Path : \A answer \in Dispatch(r, m, path) :
    /\ \A id \in answer.routes :
         answer.runs = Chain(registered[id + 1].router, registered[id + 1].depth)
    /\ answer.routes = {} => answer.runs = Chain(r, Len(layers[r]))

\* No registration and no merge makes a path unreachable, and a merge carries
\* over all that the target served.
NothingLost ==
  [][\A r, t \in App, m \in Method, path \in Path :
       /\ r \notin merged'
       /\ \/ t = r
          \/ t \in merged' \ merged /\ tables'[r] # tables[r]
       /\ Found(t, m, path) # {}
       => Found(r, m, path)' # {}]_vars

\* Once a static route answers its own path, nothing that is registered or
\* merged later takes the path away from it.
StaticIsFinal ==
  [][\A r \in App \ merged', m \in Method : \A path \in DOMAIN fast[r][m] :
       Lookup(r, m, path)' = Lookup(r, m, path)]_vars

=============================================================================
