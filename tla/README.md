# Verification of desirable

TLA+ models of the desirable web framework (the Rust crate under `src/`),
checked with TLC on small instances and, where marked, proved with TLAPS for
every value of the constants. `PROJECT.json` maps each definition to the lines
it was translated from, and lists the runs, the mutants that show each property
can fail, the theorems, the hazards and the findings.

## The system

desirable is a thin layer over hyper and tokio. A `Server` accepts connections
and runs one task per connection; hyper parses requests and calls `Svc`, which
goes through `dispatch` (extensions, client IP, router, error rendering), the
router and its middleware chain, down to a handler. What is shared between
requests, and so what can go wrong between them, is little: the server's
permits, task tracker and shutdown token, the session store, the rate limiter's
buckets, the metrics counters, the error renderer and the ETag cache. Everything
else is private to one request, where what is hard is that layers written apart
act on one request and one response: each may answer in place of the others,
change what they read or dress what they answered, and be dropped with them.

| Component | State it keeps | Operations | Talks to | What is hard about it | What makes it correct |
|---|---|---|---|---|---|
| Server lifecycle (`server.rs`) | cancellation token, task tracker, semaphore of permits | accept, refuse, signal, close, wait, time out | connection tasks through token, tracker and permits | the loop, the signal, every connection and every session run on several threads at once | permits balance; the tracker counts all the work there is; a clean return means nothing is left; the call returns |
| TLS handshake (`server.rs`, `tls.rs`) | none of its own: a stage of the connection task | start, succeed, fail, time out | holds a permit and a tracker place | stalls, and the signal arriving meanwhile | a stalled handshake neither keeps a permit for ever nor holds up the drain for ever |
| WebSocket upgrade (`websocket.rs`) | a task that waits for its connection's upgrade, then the callback | spawn, be upgraded, fail, end | hyper's upgrade, the tracker | outlives its connection; the upgrade may never come | it learns the outcome; the drain waits for it |
| Sessions (`middleware/session.rs`, `session/`) | signed cookies at the clients; a private copy per request | read, insert, remove, clear, destroy, regenerate, revoke, save | the store, in steps of their own | requests of one session overlap; cookies are replayed at any age | rotation hides the login from the earlier id; what is over stays over; sessions age; no one loses another's session |
| Session store (`session/store.rs`) | a capped map with times of last use | load, save, remove, evict | its callers, under a mutex | idle and least-recently-used eviction at the cap | the cap holds |
| Rate limiter (`middleware/rate_limit.rs`) | token buckets per client in a capped map | take the time, refill, grant or refuse, evict | requests, under a mutex | the clock is read before the lock; saturating arithmetic | the rate is honoured; the map stays capped; a client that waits is let through |
| Router (`router.rs`) | an exact map of static paths, a pattern table per method, a middleware list | at, with, merge, prefix, fallback; lookup with trailing slash, HEAD and 405 | the chain | two tables that must agree | a lookup finds what registration promised, in any order of registration |
| Dispatch (`server.rs`) | the server's options; extensions of each request | bind, setters; set extensions, find the client IP, render errors | the chain, the renderer | X-Forwarded-For through several proxies; errors from anywhere | the client is the last address nobody trusted vouches for; every request gets a response |
| Middleware chain (`kernel.rs`, `timeout.rs`, `metrics.rs`) | the position in the chain; counters | run the next one, end it by a timeout, drop it | handlers | a future that is dropped half-way | no request is lost between the counters; behind a timeout there is an answer |
| Request body (`request.rs`, `body_limit.rs`, `multipart.rs`) | one incoming body; the limit in the extensions | read whole, stream, save, parse as multipart, drain | hyper, multer | limits that nest, several readers, errors half-way, a drain before an answer | the innermost limit governs; no reader goes beyond it; it fails only for what is larger; the status is 413 |
| Layers (`cors.rs`, `csrf.rs`, `security_headers.rs`, `request_id.rs`, `compression.rs`, `logger.rs`) | their configuration | answer themselves, or change the request or the response | each other through the chain | their order, and answers that start half-way | headers are those of the outermost layer; bodies are encoded once and announced as they are |
| Responses and errors (`response.rs`, `into_response.rs`, `error.rs`, `body.rs`) | the process's renderer | construct, set, convert, render | everything above | a number that is no status; an error of the wrong kind | a response always has a status |
| Static files (`fs.rs`) | an ETag cache; the file system outside | find the file of a path; conditional and range requests, compressed siblings | the file system | the file changes between the steps; links lead elsewhere | validators belong to the bytes that are sent; a file that is sent is inside the directory |
| Accessors (`request.rs`), `session/config.rs`, `tls.rs`, `test.rs` | none | parse, configure | – | – | not modelled beyond the errors they give: no state, and unit tests reach them |

## Modules

| Module | What it is | State and actions, and the code they stand for |
|---|---|---|
| `ShutdownPromise` | what `run_with_shutdown` promises its caller, without sockets, permits or handlers | work begins while the server runs; asked to stop, it lets work finish and returns when none is left, or when it has waited long enough |
| `Server` | `serve_listener`, `accept_loop`, the connection task, `on_upgrade` and the session task | `serve` is where `serve_listener` is; `shutdown` the token; `trackerClosed`, `tracked` the `TaskTracker`; `permits` the semaphore; `conn` the stage of each connection's task; `graceful` the connections hyper was told to wind up; `ws` the session task a connection left behind. One action per step between two await points. `HandshakeOk`, `HandshakeFails`, `Respond`, `ConnEnds` and `Upgraded` stand for hyper, rustls and the peers as this code uses them |
| `LruMap` | the capped map that the session store and the rate limiter both build from a `HashMap` | `Evicted` is the set of maps that making room may leave: the idle entries go first, then the least recently used, any one of several equals |
| `Sessions` | `SessionLayer` around `SessionManager`, `Session` and `MemorySessionStore` | every request is a process with the session's private copy and a program counter over the layer's steps: read (`StartFresh`, `Resume`, `Replace`), handler (`Insert`, `Remove`, `Clear`, `Destroy`, `RegenerateId`), `Returned`, `RevokeArriving`, `RevokeCurrent`, `AnswerDestroyed`, `AnswerPersisted`. `issued` holds every cookie ever set; `history` is for the properties |
| `RateLimit` | `try_acquire` | `ReadClock` is the code before the mutex, `Acquire` all that happens under it |
| `Router` | building routers with `at`, `with`, `prefix` and `merge`, and looking up requests | `tables` and `fast` are `routes` and `static_routes`; a path is the sequence of what lies between its slashes; an endpoint is a number and the chain captured with it. `Lookup` follows `lookup`, `MatchingMethods` follows `matching_methods`, `Dispatch` is `dispatch` up to the handler. `Recognized` stands for route_recognizer |
| `ByteRange` | `parse_byte_range` | a header is the pair of positions that its text parses to; `ParseByteRange` follows the code's arithmetic, `Asked` is the reference definition: the set of positions that exist and are asked for |
| `StaticFile` | `serve_file_with_cache` and `strong_etag_for`, for one file and its siblings | a request stops at each await point: `Begin` (open and fstat), `TrySibling`, `TakeTag`, `HashFile`, `StoreTag`, `Answer`, `Send`. A file is an inode, a content is the number of the write that made it, its hash is that number. `Replace`, `Overwrite` and `Remove` are what deployments do to the disk; a later request repeats the tag or date of an earlier answer |
| `Replies` | responses, errors and bodies as values | a response is its status, type, body, coding, length, the headers that layers set and whose cookies it carries. Constructors, setters, `From` and `IntoResponse` conversions, `StatusOf` each error, the default renderer |
| `ServerOptions` | the options of a `Server`, and `resolve_client_ip` | a network is the set of its addresses; `ResolveClientIp` folds `Walk`, the body of the code's loop, over the chain from the right |
| `Layers` | what each built-in middleware does to a request and to a response | a layer is a kind, the headers it sets, and a number. `Blocks`, `Preflight`, `Oversized`, `RequestIdOf` on the way in, `After` on the way out; setters of `Cors`, `SecurityHeaders` and `BodyLimit` |
| `ServeDir` | which file a path names | `Tree` is the file system; `ResolveWithin` folds `Push`, the body of the code's loop, over the path; `Escapes` and `OpenForServe` follow the code's functions; `CodingOf` and `SentFrom` are the part of `serve_file_with_cache` that opens a compressed sibling in the file's place, by its name and through any link; `Canonicalize`, a fold of `Enters`, stands for the operating system |
| `Exchange` | one request and its response, composed from the four modules above | `pos` frames of the chain are alive. Down: `Dispatch`, `EnterMetrics`, `EnterFlight`, `AnswerPreflight`, `BlockForgery`, `RejectOversized`, `PassThrough`, `Call`. The handler: `OpenReader`, `ChunkFits`, `ChunkTooMuch`, `BodyEnds`, `BodyBreaks`, `Drained`, `Access`, `Finish`, `Fail`, `ServeFromDir`. Up: `LeaveMetrics`, `Classify`, `LeaveLayer`, `Respond`. At any await: `TimesOut`, `ClientLeaves`. `ext` is the request's extensions, `reader` the reader opened last, `counters` the shared `MetricsState`, whose atomics are touched one at a time (a request is "arriving" between two of them on the way in, "classifying" on the way out), `renderer` the process's; `origin` and `lost` are for the properties |
| `MC...` | the same modules with symmetry sets for TLC; `MCExchange` has the requests, chains and trees | |
| `ServerProofs`, `LruMapProofs`, `SessionProofs`, `RateLimitProofs`, `RouterProofs`, `StaticFileProofs`, `ExchangeProofs` | the theorems | see below |
| `FoldProofs` | lemmas about folds over sets and sequences, for `RateLimitProofs` and `ExchangeProofs` | see below |

Definitions marked "mutant" are never used by the specifications. Each is a
plausible bug (a dropped guard, a missing release, the wrong key) in the place
of the definition that follows it, and the property named in `PROJECT.json`
fails under it.

## Runs

| Run | Configuration | Shows |
|---|---|---|
| `server` | 4 connection slots, 3 permits, TLS | permits, tracker, sessions and the drain stay in step; shutdown returns whatever peers do; idle connections do not hold it up; `Server` implements `ShutdownPromise` |
| `sessions` | 3 requests, 3 ids, store of 2, store mode | the cap, rotation, destruction, eviction and expiry, under every overlap of the requests |
| `sessions_revived` | the same | finding: a slow request brings an ended session back |
| `rate_crowd` | 3 clients, 2 buckets, 2 calls at once | the map stays capped, tokens in range, a refused client that waits gets through, and until a call is overtaken, grants in every window are paid for by a full bucket and its refill |
| `rate_race` | 1 client, 2 calls at once | finding: calls that overtake each other refill the same time twice |
| `router` | 2 routers, 2 registrations, 2 middlewares, GET and HEAD | the exact map, the pattern tables and the two lookups agree; no route is lost or taken over; a route runs the chain its own router had when it was registered, all of it and in order, whatever is added or merged later, and a fallback the dispatching router's |
| `files` | 2 requests, one file and two siblings, one deployment | tags, lengths, ranges, 304s and conditional 206s belong to the bytes that go out, at whatever point the deployment comes |
| `files_tags` | 2 requests, no deployment | finding: a plain and a compressed answer under one strong tag |
| `exchange` | 2 requests; 9 kinds of layer in 5 chains, 4 chains of limits, 5 readers, bodies of 0 to 4 bytes, 14 answers, paths of 2 names in a tree with 7 links, siblings for both encodings, chains of 3 proxies | no request is lost between the counters, limits govern, answers are dressed, encoded and addressed as each layer promises, what is sent is inside the directory unless it is a sibling that is a link, and a timeout brings an answer |
| `exchange_upload` | 1 multipart upload of 4 bytes under a limit of 2 | finding: an upload that goes over the limit inside a field is answered with 400 |
| `exchange_gauge` | 2 requests behind a Timeout and a Metrics | finding: a dropped request stays in the in-flight gauge |
| `exchange_proxies` | chains of proxies of every shape | finding: a chain with nobody but proxies, or a malformed one, gives a hop and not the peer |

Three more configurations are not among these runs; each is one property that
TLC refutes, of a finding that is settled by reading the code:

| Configuration | Bounds | Shows |
|---|---|---|
| `MCServer_fatal.cfg` | 2 slots, 1 permit | finding 1: a fatal accept error is returned with no drain |
| `MCSessions_readback.cfg` | 2 requests, 2 ids, cookie mode, one request that stores a pipe | finding 3: the session does not come back from its cookie |
| `MCExchange_siblings.cfg` | files with siblings, one of them a link that leads outside | finding 9: the sibling is sent |

### Bounds

- `Conn` slots are reused without limit, so the number of connections over time
  is not bounded, only the number at once. One slot more than permits lets a
  connection be refused while others are at every stage; three permits let a
  handshake, a busy connection and an upgrade meet the same drain. The proofs
  have no bound on either. `max_connections` unset is `MaxConnections = |Conn|`.
- `MaxId` counts random ids, which are never repeated: three let one session be
  rotated twice, or two sessions live beside a rotation. `MaxSessions` is one
  less than `MaxId`, so that a save must evict. `MaxTime`, `IdleEviction` and
  `MaxAge` let an entry be fresh, idle, and expired. Each request is one
  process that runs once: three of them are a login, a request that overlaps
  with it, and one that comes after.
- The rate limiter's clock is cut into ticks; `Cost` shares make a token, so in
  `rate_crowd` a tick refills a token and a half, and a bucket of two is full in
  a tick and a third. `IdleWindow` is longer than that, which keeps the ratio
  that `BUCKET_IDLE_SECS` has to capacities of up to a minute's refill: a bucket
  that is dropped as idle is full anyway. A bucket that takes longer to fill
  than the idle time is forgiven its debt by idleness, which the code accepts;
  that setting is not what the run is about. `MaxGrants` and `MaxTime` stop the
  run after buckets have been emptied, refilled in part and to the brim, and
  dropped for room. `latest` is the clock reading of the call that had the mutex
  last, and `overtaken` remembers whether a call ever got it after one that had
  read the clock later, for whatever client: from then on `rate_race` shows what
  happens to the rate. It is not enough to look at the client's own bucket: it
  may have been dropped in the meantime, and the late call then starts a full
  one in the past.
- `files` needs two requests, one that fills the cache or has a copy and one
  that uses it, and one deployment between any two of their steps. Two sizes
  and two times a second and a half apart let a tag change by either, and let a
  date lose its half second. `MaxInt` is 3, so that ranges start and end
  inside, at and past the end of a file of one or two bytes. A kind of request
  stands for each branch: no condition, a range, If-Range with a suffix range,
  If-None-Match, If-Modified-Since with GET and with POST.

- `exchange` starts from a set of cases, each a request with the layers and the
  handler that it meets (`MCWorkloads`), so that each case varies what belongs
  together and not every combination of everything. The limits 1, 2 and 3
  against bodies of 0 to 4 bytes put a body below, at and above each limit, in
  chunks of any size; the default limit is 2 for the code's 2 MiB, `MinSize` 4
  for 256. `MaxReads` is 2: a second reader finds what a first one left. The
  chains put a Metrics inside and outside of a Timeout and of another Metrics,
  a Cors inside and outside of what answers in its place, two of a kind above
  each other. One of the two requests is the other's company only where they
  share something (`Counted`); the renderer may be installed at any step.
- A path in `exchange` has up to two names below the directory, enough for a
  link at its first and at its last component; the page and the index have
  siblings for brotli and gzip, some of them links within the directory, one a
  link out of it. `GaugeWorkloads`, `ProxyWorkloads` and `SiblingWorkloads` are
  the cases of the configurations that expect a violation, cut down to what they are
  about.
- Two registrations in `router` are enough for a collision: of a path with
  itself, of a static route with a parameter or a wildcard, of `/a` with `/a/`,
  with `a` and with `/p/a` under a prefix, on one router or on two that are
  merged before or after. Which of several matching patterns of one table
  answers is left open, as it is route_recognizer's choice. A route without its
  first slash is registered without a prefix only (the code would glue the two
  together in the middle of a segment). Two calls of `with`
  in all put two middlewares on one router, so that their order can be wrong, or
  one on each, so that a merged route could run the wrong router's.

### Fairness

`RuntimeFairness` is weak fairness of what the tokio runtime does for any task
that was woken: `serve_listener` moves on, a connection notices the token, a
handshake ends (it is under a timeout), an upgrade is written or fails, a
session whose upgrade failed returns. `TimerFairness` is the timeout that
`serve_listener` puts around the wait. Nothing makes a peer send, a handler
answer, or a session callback return: `ShutdownReturns`, `UpgradeResolves` and
`KeepsPromise` hold without it. `WorkDrains` takes the good behaviour
of handlers and sessions as its premise, `WorkEnds`.

In `Exchange` the runtime polls what is ready and fires timers that are due:
the layers on the way down and up (`Enter`, `Leave`), the drain, which has its
own timeout in the code (`EndsDrain`), and a Timeout layer's timer
(`TimerFires`). Handlers, bodies and clients owe nothing. `TimeoutAnswers` needs
all four and no more.

`Sessions`, `RateLimit`, `Router` and `StaticFile` state safety only: none waits
for another.

## Theorems

All proofs take the constants as they come, under the assumptions named in the
modules (`ConnAssumption`, `MaxAssumption`, `TlsAssumption`, `ReqAssumption`,
`BoundsAssumption`, `ModeAssumption`, `SetsAssumption`, `NumbersAssumption`,
`TextAssumption`, `MethodAssumption`, `RouteAssumption`, `PathAssumption`,
`MaxIntAssumption`, `KindAssumption`, `FileAssumption`, `NameAssumption`,
`GarbageAssumption`, `WorkloadAssumption`, `OptionsAssumption`,
`RendererAssumption`, `MaxReadsAssumption`, `OneFileAssumption`,
`TreeAssumption`, `ExtensionAssumption`, `DirAssumption`),
and where a theorem says so on more (`MaxSessions # 0`, `HonestParts`,
`IdleIsFull`). Three of them are about the world around `ServeDir`:
`TreeAssumption` is what any file system is like (what exists is in a directory
that exists, the root is no file, no entry is called `.` or `..`; and, as
modelled, a link leads to no link), `ExtensionAssumption` that a name with an
extension is a name, `DirAssumption` that the directory that is served is not a file, and
`OneFileAssumption` that a route parameter has one value.

- **Server.** The inductive invariant is the type invariant with
  `PermitsConserved`, `TrackerCoversWork`, `UpgradeHasItsConnection` and
  `QuietAfterCleanReturn`, and the facts that tie `serve` to the token and to
  the tracker's state: a clean return needs the exact tracker to conclude from
  "no task is counted" to "there is no task", and needs a stopped listener to
  stay that way. Permits are a cardinality argument: one lemma for adding a live
  connection, one for taking it away. `KeepsPromiseSafely` is the safety part of
  the refinement: each action maps to a step of `ShutdownPromise` or a stutter.
- **LruMap.** `Evicted` leaves room or an empty map, drops nothing it should
  not, and so `Put` after it stays within any cap but zero (`CapHolds`).
- **Sessions.** `TypeCorrect` proves types together with `IdsUsed`: every id
  that appears anywhere was handed out before. `SessionsAge` rests on
  `CreatedKept`, that every copy of a session, stored, carried or in a cookie,
  has the creation time of the first session of its line. `FixationShowsNothing`
  rests on `LoginHidden`: once a request has moved off an id, what it wrote is
  not in any copy that bears the id, wherever the copy is.
  `CookiesKeepTheirSessions` rests on `Accounted`: an issued id is stored, or
  ended, or being ended, or evicted. `OverIsOver` and `EndedIdsAreDead` rest on
  `Serial`: an id that was not shared is in one request's hands at a time, so
  nobody is left to save it once it is over.
- **Rate limiter.** `TypeCorrect` and `MapStaysBounded` follow from `LruMap`'s
  lemmas; `RetryAfterSuffices` needs `RefusalsRecorded`: a bucket whose client
  was refused at some time was last refilled at that time or is gone.
  `RateIsHonoured` is about sums of grants over every window of time, and its
  invariant, `Account`, keeps the books: for a client with a bucket, every sum
  of grants from a time on, with the tokens that are left, is within the
  capacity of a full bucket, what evictions forgave, and the refill up to
  `touched`; for one without, the same without the tokens, up to `latest`. A
  grant moves `Cost` from the tokens to the sum, a refill adds at most what the
  time allows, an eviction for room is paid by `forgiven`, and a bucket that was
  dropped as idle had become full again. The last needs `IdleIsFull`, that a
  bucket fills within the idle time: true of `RateLimit::per_second`, and of
  `RateLimit::new` with a capacity of at most a minute's refill; the code does
  not keep anyone from asking for more.
- **Folds.** A sum over a set of times, the walk along a chain of proxies and
  the resolution of a path are folds of the community modules, that is recursive
  functions on the subsets of what is folded. The library's induction theorems
  take an operator, which the provers cannot instantiate; `WFMin`, that a set
  which is not empty has a least element in a well-founded order, takes only
  sets. `SubsetInduction` draws from it that a set of subsets which contains
  whatever all its smaller subsets are in contains everything; `FoldExists` and
  `FoldIsUnique` show by it that a fold is a function and which, and from those
  follow the equations that the proofs use: `SumOneMore`, `LeftFoldStep`, and,
  for the walk from the right, `WalkIsFold`.

- **Router.** The inductive invariant is the shape of the maps,
  `VisibleInTables`, and that every endpoint, wherever merges have taken it,
  holds the chain that its own router had at its registration (`OneChain`
  compares with what `registered` says of that, not with what the endpoint
  holds). All that a lookup can find is reduced to one predicate, `Reaches` (some
  form of the path is in the exact map, or recognized by a table):
  `AllowMatchesDispatch` shows both lookups to decide it (a HEAD request that
  falls back to GET is answered and HEAD is not in Allow, as the README's own
  example has it; the property says so), `SlashesAreTolerated`
  that a slash more keeps it, and `RoutesAreNotLost` that every step keeps it,
  since tables only grow (`Covered`) and the exact map never drops a key.
- **Static files.** `EveryRangeIsExact` compares the arithmetic of
  `parse_byte_range` with the set of positions asked for, case by case, for any
  `MaxInt`. The protocol's invariant is the type invariant with `InOrder` (which
  fields a stage has set), `HandleHeld` (while nothing is written in place, the
  open file is the one whose metadata was taken), `LengthHeld` (what is left to
  send is there), `TagHeld` and `EntryHeld` (a tag, cached or taken, names a
  version of the second and size it is used for) and `Justified` (a 304 or a
  conditional 206 records that its tags were equal or its dates in order). Each
  step of a request has a lemma that says what it makes of the request's fields;
  steps of the disk only need `Kept`: versions are never changed, and open files
  only by writing in place.

- **Exchange.** For any number of requests, any chain of layers and any
  renderers. `MetricsAddUp` is a cardinality argument over the frames of Metrics
  layers that are alive, those that were dropped, and the requests between two
  counters; its invariant says too that they are apart, which a dropped frame
  below a live one makes the hard part.
  `ReadsAreHonest` needs that what a reader has and what is unread make up what
  it found. `LimitsGovern` says of a request on its way down that its extension
  is what the frames above make of the server's limit, and that no declared
  length above one of them got past; `TimesOut` and `Drained` only leave the
  handler. `AnswersAreDressed` follows an answer from where it was made
  (`origin`) through each frame that it passes: a header is the origin's until
  some layer sets it and that layer's until one further out does.
  `CompressedOnce` takes one assumption more, `HonestParts`: what the
  application itself makes (responses it builds, bodies it returns, its
  renderers) tells its encoding and its length truthfully.
  `ClientIsResolved` and `ServesInside` are inductions along a sequence.
  `Walked` says what `resolve_client_ip` has established when it has passed the
  entries from `k` on: as long as it goes on, all of them are trusted and the
  client is the `k`-th; once it stopped, `Speaks` says where.
  `SpeaksFromChain` draws `ClientIpFromChain` from it: what speaks for a client
  is the first from the right that is no proxy's, if there is one. Dispatch stores the outcome, and no layer below touches it (`Resolved`).
  For a path, `CanonicalizeStep` reduces resolving it to entering its last
  component from what leads there. `RealPath` and `ResolvesBelow` follow: what
  exists under its own name resolves to itself, and below the directory to what
  is below the directory's own resolution, through whatever link that leads. So
  what is opened has been resolved and is held against the right base
  (`OpenedBelow`), an index too, and nothing that is named below it is turned
  away (`NamedIsOpened`). A sibling is entered from the directory of a file that
  is below the base, and so is below it if it is no link (`SiblingInside`). `BarredOpensNothing` makes the arms of
  `ServeDir::call` exclusive.

### Only model-checked

Every invariant and every action property of a passing run is proved. Liveness
(`ShutdownReturns`, `UpgradeResolves`, `WorkDrains`, `TimeoutAnswers` and the
fairness part of `KeepsPromise`) is out of the prover's reach, which has no rules
for ENABLED and so none for weak fairness. `RateHonoured`, without its premise,
and the other properties of the runs that expect a violation are false of the
code.

## Findings

1. A fatal accept error leaves `serve_listener` by `result?`, before the token
   is cancelled and the tracker closed. The changelog (2.7.0) says connections
   are drained first. (`MCServer_fatal.cfg`)
2. `persist_session` saves without asking whether the id is still stored: a
   request that read the session before it was destroyed or rotated revives it,
   and the old cookie works again, against the README. (`sessions_revived`)
   What does hold, and is proved: it takes two requests with the session in
   hand at once (`EndedUnlessShared`), and even then the login is not visible
   under the earlier id (`OldIdSeesNoLogin`).
3. In cookie mode `read_session` ends the payload at the first `|` of the
   decoded cookie, and JSON leaves that character as it is: a session with a
   `|` in a key or a value fails the check of its own signature and is replaced
   by a fresh one at the next request. (`MCSessions_readback.cfg`)
4. `try_acquire` reads the clock before it takes the mutex and stores what it
   read: two calls in the other order move `last_refill` back, and the stretch
   between is refilled twice. (`rate_race`) What does hold, and is proved: while
  calls get the mutex in the order of their readings, the rate is honoured
  (`RateHonouredInOrder`).
5. The cache of strong tags is keyed by the plain file, and what is hashed is
   the representation that is open: a `.br` answer and a plain one share a
   strong tag, and If-Range lets a client put parts of both together.
   (`files_tags`)
6. `Multipart::next_field` recovers the framework's 413 from multer's error, but
   a field is multer's own type: a limit that trips while a field is read comes
   out as `Error::Multipart`, a 400. The test for it sends the whole upload in
   a frame that goes over the limit before the first field is found.
   (`exchange_upload`)
7. `Metrics::handle` takes a request out of `in_flight` after `next.run` has
   returned; a future that is dropped inside it, by a Timeout further out or
   with its connection, never comes there, and the gauge never comes back to
   zero. The field's doc and the HELP text say "Requests currently in flight".
   (`exchange_gauge`) What does hold, and is proved: the other counters account
   for every request, and the gauge is right until one is dropped
   (`MetricsBalance`).
8. `resolve_client_ip` says that it falls back to the peer's address for a chain
   that is malformed or entirely trusted; it returns the last hop that it walked
   over. (`exchange_proxies`) What does hold, and is proved: an address that
   speaks for a client is found, and otherwise the outcome is a trusted hop
   (`ClientIpFromChain`).
9. With `precompressed(true)` the `.br` or `.gz` sibling of a file is opened by
   name, through any link, and neither the `lstat` of `open_for_serve` nor the
   `canonicalize` of `ServeDir::call` looks at it: a sibling that is a link
   sends what lies outside the directory. (`MCExchange_siblings.cfg`) What does hold,
   and is proved: that is the only way out (`ServedInside`).

Observations that no run is about:

- A WebSocket session keeps its socket and gives back the permit of its
  connection, so `max_connections` bounds connection tasks and not sockets.
- The body of a 206 is the file from the range's start to its end, which hyper
  cuts at Content-Length (`Send` models what the code offers, so
  `NeverCutShort` says that it is enough).
- A TLS handshake is awaited under its timeout only; the changelog (2.7.0) and
  the comment at `server.rs:824` say shutdown interrupts it.
- In cookie mode the cookie from before a rotation verifies until `max_age`;
  the changelog (3.6.0) says it does not.
- `is_not_modified` looks at If-Modified-Since whatever the method is, so that a
  POST which repeats a date is refused with 412; the changelog (2.6.0) says the
  header is ignored.
- A larger BodyLimit inside a smaller one governs bodies without a declared
  length, while a declared length above the outer one is refused: an inner
  layer can raise the limit for chunked bodies only.
- Metrics counts an Err as a server error even if it is rendered as 400 or 413
  further out, and a 101 too.
- HEAD on a path that has only GET is answered, and a 405 there does not name
  HEAD (`AllowIsExact`).
- Compression keeps a strong ETag and adds no Vary, and compresses a 206 whose
  body is in memory.
- A path that goes on below a file (`/page/x`) makes `symlink_metadata` fail
  with ENOTDIR, which comes out as 500 and not 404.
- Of two RequestId layers the handler sees the inner id and the client the
  outer one, if the client sent none.

## Not modelled

- HTTP/2 streams run on hyper's executor, without a handle in this code.
- Capacity zero (`MemorySessionStore::default()`): the store then holds one
  session rather than none. `StoreBounded` is stated and proved for capacities
  above zero.
- The lost update between two requests of one session is allowed by the model
  and promised by nobody.
- `update_access`, session getters, cookie attributes, the text of cookies and
  their signatures: a cookie is its content, a signature is that it is one of
  `issued`, and all that is left of the text is where its payload is cut.
- A custom `SessionStore` that really awaits: `MemorySessionStore` never yields
  inside an operation, so a request is not dropped between two of its steps
  (`Abandoned` is dropped at the handler, where the code can be).
- A router's fallbacks, state and handlers; an overwritten pattern's parameters.
  A static route that is registered without its first slash (`users`) is never
  asked for in the exact map, so that its table copy answers; the comment in
  `Router::at`, that the copy is never dispatched, leaves this out.
- Of static files: Cache-Control, Vary and Content-Type; `*` and lists in If-None-Match; the
  chunks in which a file is hashed and sent (a file written in place may change
  between two of them, and no property claims anything for such files). The
  tag properties are about plain representations with weak tags, or strong tags
  without siblings (`Tidy`); finding 5 is what happens otherwise.
  `ServeDir` resolves and opens against one tree that does not change, and sends
  a file whole: what changes meanwhile is `StaticFile`'s subject, for one name.
  Links lead to what is no link; an `index.html` is no directory. Which headers
  and which validators a sibling is sent with is `StaticFile`'s subject too.
- An application's own middlewares, which may do anything with a request or a
  response; SessionLayer and RateLimit, which have models of their own, in the
  chains of `Exchange`.
- Of bodies: a parser that gives up before the end of the body (`BodyEnds` parses
  at the end), a handler that polls a stream on after its error, the polling
  and back-pressure of response streams. Of a handler: several readers at once,
  which the borrow of the request rules out.
- Of Metrics: the time that requests took, and the separate loads of
  `snapshot`, which may fall between two counters of one request or of several.
  Memory is taken as sequentially consistent: the Relaxed atomics of one request
  are seen in the order in which it touches them.
- An empty `X-Request-Id` from a client: the models have one value, `Absent`, for
  it and for none.
- What parsing and building make of text: header values, queries, parameters,
  forms and cookies are opaque, with the errors they may give (`Access`).
- The session configuration (a builder of constants), certificate loading, the
  test client, the tracing span and the log lines.
- A TLS setup and a WebSocket's own message loop, which belong to rustls and
  tungstenite.

## Plan

The modules above are done. What is left to add, in this order:

1. `SessionLayer` and `RateLimit` as layers of `Exchange`, to relate a request
   that is dropped by a Timeout to the session that it had in hand.
2. `Stack`: `Server` with `Exchange`, to relate a request's end to its
   connection's, and a drain to the requests it waits for.
3. `ServeDir` over a tree that changes between the check and the opening.
