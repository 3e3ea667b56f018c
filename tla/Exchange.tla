------------------------------ MODULE Exchange ------------------------------
(***************************************************************************)
(* One request and its response: Svc::call and dispatch (src/server.rs),   *)
(* Next::run (src/kernel.rs), the built-in middlewares around an endpoint, *)
(* and what a handler does with the body (src/request.rs).                 *)
(*                                                                         *)
(* Each exchange runs down its layers, through the handler and up again.   *)
(* The frames 1 .. pos of its chain are alive.  Only a handler or a drain  *)
(* ever waits, so only then can a Timeout layer or a client that leaves    *)
(* drop the frames below.  Which layers a request meets is Router's        *)
(* business; here it is part of the case.  The exchanges share a Metrics   *)
(* and the error renderer of the process.                                  *)
(***************************************************************************)
EXTENDS Layers, ServerOptions, ServeDir, FiniteSets

CONSTANTS
  Exchanges,     \* requests
  Workloads,     \* what the requests are like and what they meet
  Options,       \* the Server that each is sent to
  Renderers,     \* name -> error renderer
  MaxReads       \* bound: readers a handler may open

ReaderKind == {"json", "form", "stream", "save", "multipart"}
Whole      == {"json", "form"}      \* readers that buffer the body

Strings == SUBSET STRING

Case ==
  [sent : BOOLEAN, layers : Seq(Layer), endpoint : {"function", "trait", "dir"},
   method : STRING, declared : BOOLEAN, size : Nat, form : STRING,
   parses : BOOLEAN, gzip : BOOLEAN, br : BOOLEAN, id : Value, token : Strings,
   provided : Strings, peer : SUBSET Addr, chain : Seq(Addr \cup {Garbage}),
   access : SUBSET ErrorKind, file : SUBSET Seq(STRING), precompressed : BOOLEAN,
   returns : SUBSET Returnable, reads : SUBSET ReaderKind]

RendererSet == [ErrorKind -> Response]
ASSUME WorkloadAssumption == Workloads \subseteq [Exchanges -> Case]
ASSUME OneFileAssumption ==      \* a route parameter has one value
  \A w \in Workloads, e \in Exchanges : \A f, g \in w[e].file : f = g
ASSUME OptionsAssumption ==
  \A e \in Exchanges : /\ Options[e].body_limit \in Nat \cup {NoLimit}
                       /\ Options[e].trusted_proxies \in Seq(SUBSET Addr)
ASSUME RendererAssumption ==
  "default" \notin DOMAIN Renderers /\ \A n \in DOMAIN Renderers : Renderers[n] \in RendererSet
ASSUME MaxReadsAssumption == MaxReads \in Nat

Renderer == DOMAIN Renderers \cup {"default"}
RendererNamed == [n \in Renderer |-> IF n = "default" THEN DefaultRenderer ELSE Renderers[n]]

VARIABLES
  case,          \* the workload: what each request is; never changes
  at,            \* where it is
  pos,           \* how many frames of its chain are alive
  ext,           \* the request's extensions
  unread,        \* bytes of the body that nobody has taken
  reader,        \* the reader the handler opened last
  reads,         \* how many it opened
  fault,         \* the error the handler has in hand, or "none"
  result,        \* what is on its way up
  origin,        \* where result came from (for the properties only)
  counters,      \* MetricsState
  lost,          \* Metrics frames that were dropped (for the properties only)
  renderer       \* ERROR_RENDERER

request == <<unread, reader, reads, fault>>
answer  == <<result, origin>>
vars == <<case, at, pos, ext, request, answer, counters, lost, renderer>>

Ask(e)    == case[e]
Chain(e)  == Ask(e).layers
Depth(e)  == Len(Chain(e))
IsLayer(e, p, kind) == Chain(e)[p].kind = kind

Place ==
  {"new", "down", "arriving", "draining", "handler", "classifying", "up", "done", "gone"}
Limit == Nat \cup {NoLimit}
Extensions == [limit : Limit, id : Value, ip : SUBSET Addr]
Outcome == {"reading", "all", "too large", "broken"}
Reader == [kind : ReaderKind \cup {"none"}, limit : Limit, before : Nat, got : Nat, outcome : Outcome]
Origin == [res : Result, frames : Nat]
Frame == Exchanges \X Nat
Counters == [requests : Nat, ok : Nat, redirects : Nat, client : Nat, server : Nat, in_flight : Int]

NoReader == [kind |-> "none", limit |-> NoLimit, before |-> 0, got |-> 0, outcome |-> "all"]
Nothing  == Ok(New(200, "none", FullBody(0)))

TypeOK ==
  /\ case \in [Exchanges -> Case]
  /\ at \in [Exchanges -> Place]
  /\ pos \in [Exchanges -> Nat] /\ \A e \in Exchanges : pos[e] <= Depth(e)
  /\ ext \in [Exchanges -> Extensions]
  /\ unread \in [Exchanges -> Nat]
  /\ reader \in [Exchanges -> Reader]
  /\ reads \in [Exchanges -> 0..MaxReads]
  /\ fault \in [Exchanges -> ErrorKind \cup {"none"}]
  /\ result \in [Exchanges -> Result]
  /\ origin \in [Exchanges -> Origin]
  /\ counters \in Counters
  /\ lost \subseteq Frame
  /\ renderer \in Renderer

Init ==
  /\ case \in Workloads
  /\ at = [e \in Exchanges |-> "new"]
  /\ pos = [e \in Exchanges |-> 0]
  /\ ext = [e \in Exchanges |-> [limit |-> NoLimit, id |-> Absent, ip |-> {}]]
  /\ unread = [e \in Exchanges |-> Ask(e).size]
  /\ reader = [e \in Exchanges |-> NoReader]
  /\ reads = [e \in Exchanges |-> 0]
  /\ fault = [e \in Exchanges |-> "none"]
  /\ result = [e \in Exchanges |-> Nothing]
  /\ origin = [e \in Exchanges |-> [res |-> Nothing, frames |-> 0]]
  /\ counters = [requests |-> 0, ok |-> 0, redirects |-> 0, client |-> 0, server |-> 0, in_flight |-> 0]
  /\ lost = {}
  /\ renderer = "default"

Move(e, place) == at' = [at EXCEPT ![e] = place]

\* A result starts its way up, through the frames 1 .. frames.
Answer(e, r, frames) ==
  /\ Move(e, "up")
  /\ pos' = [pos EXCEPT ![e] = frames]
  /\ result' = [result EXCEPT ![e] = r]
  /\ origin' = [origin EXCEPT ![e] = [res |-> r, frames |-> frames]]

\* set_error_handler: the first one stays.
SetErrorHandler(n) ==
  /\ renderer' = IF renderer = "default" THEN n ELSE renderer
  /\ UNCHANGED <<case, at, pos, ext, request, answer, counters, lost>>

-----------------------------------------------------------------------------
(* Down. *)

Dispatch(e) ==
  /\ at[e] = "new"
  /\ Ask(e).sent
  /\ Move(e, "down")
  /\ ext' = [ext EXCEPT ![e] =
       [limit |-> Options[e].body_limit, id |-> Absent,
        ip |-> ClientIp(Ask(e).peer, Ask(e).chain, Options[e].trusted_proxies)]]
  /\ UNCHANGED <<case, pos, request, answer, counters, lost, renderer>>

Next1(e) == pos[e] + 1
Reaches(e) == at[e] = "down" /\ pos[e] < Depth(e)
Meets(e, kind) == Reaches(e) /\ IsLayer(e, Next1(e), kind)
NextLayer(e) == Chain(e)[Next1(e)]

\* Metrics::handle: each counter is an atomic of its own, and another request
\* may count between two of them.
EnterMetrics(e) ==
  /\ Meets(e, "metrics")
  /\ counters' = [counters EXCEPT !.requests = @ + 1]
  /\ pos' = [pos EXCEPT ![e] = Next1(e)]
  /\ Move(e, "arriving")
  /\ UNCHANGED <<case, ext, request, answer, lost, renderer>>

EnterFlight(e) ==
  /\ at[e] = "arriving"
  /\ counters' = [counters EXCEPT !.in_flight = @ + 1]
  /\ Move(e, "down")
  /\ UNCHANGED <<case, pos, ext, request, answer, lost, renderer>>

AnswerPreflight(e) ==      \* Cors answers itself, and dresses what it answers
  /\ Meets(e, "cors")
  /\ Preflight(Ask(e).method)
  /\ Answer(e, Ok(NoContent), Next1(e))
  /\ UNCHANGED <<case, ext, request, counters, lost, renderer>>

Forged(e) == Blocks(Ask(e).method, Ask(e).token, Ask(e).provided)

BlockForgery(e) ==         \* Csrf
  /\ Meets(e, "csrf")
  /\ Forged(e)
  /\ Answer(e, Ok(Forbidden(Next1(e))), pos[e])
  /\ UNCHANGED <<case, ext, request, counters, lost, renderer>>

TooBig(e) == Oversized(NextLayer(e), Ask(e).declared, Ask(e).size)

RejectOversized(e) ==      \* BodyLimit: first the drain, then the 413
  /\ Meets(e, "body limit")
  /\ TooBig(e)
  /\ Move(e, "draining")
  /\ pos' = [pos EXCEPT ![e] = Next1(e)]
  /\ UNCHANGED <<case, ext, request, answer, counters, lost, renderer>>

Stopped(e) ==              \* the next layer will not simply call the one below
  \/ IsLayer(e, Next1(e), "metrics")
  \/ IsLayer(e, Next1(e), "cors") /\ Preflight(Ask(e).method)
  \/ IsLayer(e, Next1(e), "csrf") /\ Forged(e)
  \/ IsLayer(e, Next1(e), "body limit") /\ TooBig(e)

\* Mutant: a limit that is set already stays.
ExtendedOnce(layer, x, given) ==
  CASE layer.kind = "body limit" -> [x EXCEPT !.limit = IF @ = NoLimit THEN layer.max ELSE @]
    [] layer.kind = "request id" -> [x EXCEPT !.id = RequestIdOf(layer, given)]
    [] OTHER                     -> x

\* What a layer leaves in the extensions for those below.
Extended(layer, x, given) ==
  CASE layer.kind = "body limit" -> [x EXCEPT !.limit = layer.max]
    [] layer.kind = "request id" -> [x EXCEPT !.id = RequestIdOf(layer, given)]
    [] OTHER                     -> x

PassThrough(e) ==
  /\ Reaches(e)
  /\ ~Stopped(e)
  /\ ext' = [ext EXCEPT ![e] = Extended(NextLayer(e), ext[e], Ask(e).id)]
  /\ pos' = [pos EXCEPT ![e] = Next1(e)]
  /\ UNCHANGED <<case, at, request, answer, counters, lost, renderer>>

Call(e) ==
  /\ at[e] = "down"
  /\ pos[e] = Depth(e)
  /\ Move(e, "handler")
  /\ UNCHANGED <<case, pos, ext, request, answer, counters, lost, renderer>>

-----------------------------------------------------------------------------
(* The handler. *)

Handling(e) == at[e] = "handler"
IsReading(e) == reader[e].outcome = "reading"

\* A stream may be dropped half-way; a buffering read is awaited to its end.
Free(e) == Handling(e) /\ ~(IsReading(e) /\ reader[e].kind \in Whole \cup {"save"})

\* Request::multipart looks at the content type first.
Refusal(e, kind) ==
  CASE kind # "multipart"            -> "none"
    [] Ask(e).form = "multipart"     -> "none"
    [] Ask(e).form = "no boundary"   -> "multipart"
    [] OTHER                         -> "media type"

\* Each reader counts from zero against the limit in force when it is opened.
OpenReader(e, kind) ==
  /\ Free(e)
  /\ reads[e] < MaxReads
  /\ reads' = [reads EXCEPT ![e] = @ + 1]
  /\ fault' = [fault EXCEPT ![e] = Refusal(e, kind)]
  /\ reader' = [reader EXCEPT ![e] =
       [kind |-> kind, limit |-> ext[e].limit, before |-> unread[e], got |-> 0,
        outcome |-> IF Refusal(e, kind) = "none" THEN "reading" ELSE "broken"]]
  /\ UNCHANGED <<case, at, pos, ext, unread, answer, counters, lost, renderer>>

\* Mutant: a body of exactly the limit is too large.
AtLimit(limit, n) == limit # NoLimit /\ n >= limit

Exceeds(limit, n) == limit # NoLimit /\ n > limit

\* What a reader says when it is over its limit.  Multipart::next_field finds
\* the framework's error inside multer's; MultipartField is multer's own type,
\* and what its chunk and text return is converted as it is.
OverErrors(kind) ==
  IF kind = "multipart" THEN {"too large", "multipart"} ELSE {"too large"}

\* A chunk of n bytes arrives.  Over the limit, a buffering read drains the
\* rest before it fails; a stream fails at once.
ChunkFits(e, n) ==
  /\ Handling(e)
  /\ IsReading(e)
  /\ ~Exceeds(reader[e].limit, reader[e].got + n)
  /\ reader' = [reader EXCEPT ![e] = [reader[e] EXCEPT !.got = reader[e].got + n]]
  /\ unread' = [unread EXCEPT ![e] = @ - n]
  /\ UNCHANGED <<case, at, pos, ext, reads, fault, answer, counters, lost, renderer>>

ChunkTooMuch(e, n) ==
  /\ Handling(e)
  /\ IsReading(e)
  /\ Exceeds(reader[e].limit, reader[e].got + n)
  /\ reader' = [reader EXCEPT ![e] =
       [reader[e] EXCEPT !.got = reader[e].got + n, !.outcome = "too large"]]
  /\ unread' = [unread EXCEPT ![e] = @ - n]
  /\ Move(e, IF reader[e].kind \in Whole THEN "draining" ELSE "handler")
  /\ \E k \in OverErrors(reader[e].kind) : fault' = [fault EXCEPT ![e] = k]
  /\ UNCHANGED <<case, pos, ext, reads, answer, counters, lost, renderer>>

ParseError(kind) ==
  CASE kind = "json" -> "json" [] kind = "form" -> "urlencoded" [] OTHER -> "multipart"

\* The end of the body: what was buffered is parsed, what was streamed is not.
BodyEnds(e) ==
  /\ Handling(e)
  /\ IsReading(e)
  /\ unread[e] = 0
  /\ reader' = [reader EXCEPT ![e] = [reader[e] EXCEPT !.outcome = "all"]]
  /\ fault' = [fault EXCEPT ![e] =
       IF Ask(e).parses \/ reader[e].kind \in {"stream", "save"} THEN "none"
       ELSE ParseError(reader[e].kind)]
  /\ UNCHANGED <<case, at, pos, ext, unread, reads, answer, counters, lost, renderer>>

BreakErrors(r) ==
  CASE r.kind \in Whole    -> IF r.limit = NoLimit THEN {"hyper"} ELSE {"any"}
    [] r.kind = "save"      -> {"hyper", "io"}
    [] r.kind = "multipart" -> {"multipart"}
    [] OTHER                -> {"hyper"}

\* The connection fails in the middle of the body, or the disk does.
BodyBreaks(e, k) ==
  /\ Handling(e)
  /\ IsReading(e)
  /\ unread[e] > 0
  /\ k \in BreakErrors(reader[e])
  /\ reader' = [reader EXCEPT ![e] = [reader[e] EXCEPT !.outcome = "broken"]]
  /\ fault' = [fault EXCEPT ![e] = k]
  /\ UNCHANGED <<case, at, pos, ext, unread, reads, answer, counters, lost, renderer>>

\* drain_unread_body: to the end, to OVERSIZED_DRAIN_CAP or for as long as
\* OVERSIZED_DRAIN_TIMEOUT allows.
Drained(e, left) ==
  /\ at[e] = "draining"
  /\ left <= unread[e]
  /\ unread' = [unread EXCEPT ![e] = left]
  /\ IF reader[e].kind = "none"
     THEN Answer(e, Ok(PayloadTooLarge), pos[e])
     ELSE Move(e, "handler") /\ UNCHANGED <<pos, answer>>
  /\ UNCHANGED <<case, ext, reader, reads, fault, counters, lost, renderer>>

\* param, query and their like fail on what the request says.
Access(e, k) ==
  /\ Free(e)
  /\ k \in Ask(e).access
  /\ fault' = [fault EXCEPT ![e] = k]
  /\ UNCHANGED <<case, at, pos, ext, unread, reader, reads, answer, counters, lost, renderer>>

Render == RendererNamed[renderer]

\* impl Endpoint for F: the returned value, an error in it, becomes a response.
\* An endpoint that is a type of its own returns a Result as it is.
Returns(e, v) ==
  IF Ask(e).endpoint = "trait" /\ v.as = "error" THEN Err(v.err)
  ELSE IntoResponse(v, Render)

FinishWith(e, r) ==
  /\ Free(e)
  /\ Answer(e, r, pos[e])
  /\ UNCHANGED <<case, ext, request, counters, lost, renderer>>

Finish(e) ==
  Ask(e).endpoint # "dir" /\ \E v \in Ask(e).returns : FinishWith(e, Returns(e, v))

\* The `?` of a handler that fails with the error it has in hand.
Fail(e) ==
  /\ fault[e] # "none"
  /\ FinishWith(e, Returns(e, [as |-> "error", err |-> fault[e]]))

ServeFromDir(e) == Ask(e).endpoint = "dir" /\ FinishWith(e, ServeDirCall(Ask(e)))

-----------------------------------------------------------------------------
(* Up. *)

\* Metrics::classify, and its arm for Err.
ClassOf(r) ==
  CASE r.tag = "err"                -> "server"
    [] r.res.status \in 200..299    -> "ok"
    [] r.res.status \in 300..399    -> "redirects"
    [] r.res.status \in 400..499    -> "client"
    [] OTHER                        -> "server"

Climbs(e) ==
  /\ at[e] = "up"
  /\ pos[e] > 0
  /\ pos' = [pos EXCEPT ![e] = @ - 1]

\* Mutant: a response that is an error leaves through `?`.
LeaveMetricsIfOk(e) ==
  /\ Climbs(e)
  /\ IsLayer(e, pos[e], "metrics")
  /\ IF result[e].tag = "err" THEN UNCHANGED <<at, counters>>
     ELSE Move(e, "classifying") /\ counters' = [counters EXCEPT !.in_flight = @ - 1]
  /\ UNCHANGED <<case, ext, request, answer, lost, renderer>>

LeaveMetrics(e) ==
  /\ Climbs(e)
  /\ IsLayer(e, pos[e], "metrics")
  /\ Move(e, "classifying")
  /\ counters' = [counters EXCEPT !.in_flight = @ - 1]
  /\ UNCHANGED <<case, ext, request, answer, lost, renderer>>

Classify(e) ==
  /\ at[e] = "classifying"
  /\ Move(e, "up")
  /\ LET class == ClassOf(result[e]) IN counters' = [counters EXCEPT ![class] = @ + 1]
  /\ UNCHANGED <<case, pos, ext, request, answer, lost, renderer>>

\* An Err passes every layer as it is.
Dressed1(e) ==
  IF result[e].tag = "err" THEN result[e]
  ELSE Ok(After(Chain(e)[pos[e]], pos[e], Ask(e), result[e].res))

LeaveLayer(e) ==
  /\ Climbs(e)
  /\ ~IsLayer(e, pos[e], "metrics")
  /\ result' = [result EXCEPT ![e] = Dressed1(e)]
  /\ UNCHANGED <<case, at, ext, request, origin, counters, lost, renderer>>

\* dispatch renders what is still an error, so that the client gets an answer.
Respond(e) ==
  /\ at[e] = "up"
  /\ pos[e] = 0
  /\ Move(e, "done")
  /\ LET r == IF result[e].tag = "err" THEN Ok(Render[result[e].err]) ELSE result[e]
     IN /\ result' = [result EXCEPT ![e] = r]
        /\ origin' = IF result[e].tag = "err"
                     THEN [origin EXCEPT ![e] = [res |-> r, frames |-> 0]] ELSE origin
  /\ UNCHANGED <<case, pos, ext, request, counters, lost, renderer>>

-----------------------------------------------------------------------------
(* Cancellation: the frames from p on are dropped where they stand. *)

Pending(e) == at[e] \in {"handler", "draining"}

MetricsFrames(e, from) ==
  { <<e, p>> : p \in { q \in from..pos[e] : IsLayer(e, q, "metrics") } }

Drop(e, from) ==
  /\ lost' = lost \cup MetricsFrames(e, from)
  /\ reader' = [reader EXCEPT ![e] = NoReader]
  /\ fault' = [fault EXCEPT ![e] = "none"]
  /\ UNCHANGED <<case, ext, unread, reads, counters, renderer>>

\* Mutant: the timer covers the drain only.
TimesOutDraining(e, p) ==
  /\ at[e] = "draining"
  /\ p \in 1..pos[e]
  /\ IsLayer(e, p, "timeout")
  /\ Answer(e, Ok(RequestTimeout), p - 1)
  /\ Drop(e, p)

TimesOut(e, p) ==
  /\ Pending(e)
  /\ p \in 1..pos[e]
  /\ IsLayer(e, p, "timeout")
  /\ Answer(e, Ok(RequestTimeout), p - 1)
  /\ Drop(e, p)

ClientLeaves(e) ==         \* hyper drops the whole future
  /\ Pending(e)
  /\ Move(e, "gone")
  /\ pos' = [pos EXCEPT ![e] = 0]
  /\ Drop(e, 1)
  /\ UNCHANGED answer

-----------------------------------------------------------------------------
Enter(e) ==
  \/ EnterMetrics(e) \/ EnterFlight(e) \/ AnswerPreflight(e) \/ BlockForgery(e)
  \/ RejectOversized(e) \/ PassThrough(e) \/ Call(e)

Handle(e) ==
  \/ \E kind \in Ask(e).reads : OpenReader(e, kind)
  \/ \E n \in 1..unread[e] : ChunkFits(e, n) \/ ChunkTooMuch(e, n)
  \/ BodyEnds(e)
  \/ \E k \in ErrorKind : BodyBreaks(e, k) \/ Access(e, k)
  \/ Finish(e) \/ Fail(e) \/ ServeFromDir(e)

EndsDrain(e) == \E left \in 0..unread[e] : Drained(e, left)

Leave(e) == LeaveMetrics(e) \/ Classify(e) \/ LeaveLayer(e) \/ Respond(e)

TimerFires(e) == \E p \in 1..pos[e] : TimesOut(e, p)

Step(e) ==
  \/ Dispatch(e) \/ Enter(e) \/ Handle(e) \/ EndsDrain(e) \/ Leave(e)
  \/ TimerFires(e) \/ ClientLeaves(e)

Next ==
  \/ \E e \in Exchanges : Step(e)
  \/ \E n \in DOMAIN Renderers : SetErrorHandler(n)

\* The runtime polls what is ready and fires timers that are due.  Handlers,
\* clients and bodies owe nothing.
Fairness ==
  \A e \in Exchanges :
    WF_vars(Enter(e)) /\ WF_vars(EndsDrain(e)) /\ WF_vars(Leave(e)) /\ WF_vars(TimerFires(e))

Spec == Init /\ [][Next]_vars /\ Fairness

-----------------------------------------------------------------------------
(* Properties. *)

Live == UNION { MetricsFrames(e, 1) : e \in Exchanges }

Arriving    == { e \in Exchanges : at[e] = "arriving" }
Classifying == { e \in Exchanges : at[e] = "classifying" }

\* Metrics::handle: every request it counted is in exactly one class, or it is
\* inside the layer, or about to be classified, or was dropped inside the layer;
\* and as long as none was dropped, the gauge is the number of those inside,
\* less those that it has yet to count.
MetricsBalance ==
  LET c == counters
      classified == c.ok + c.redirects + c.client + c.server
  IN /\ c.requests = classified + Cardinality(Live) + Cardinality(Classifying) + Cardinality(lost)
     /\ lost = {} => c.in_flight = Cardinality(Live) - Cardinality(Arriving)

\* metrics.rs:23, the HELP text and tests/observability.rs:52: when no request
\* is between two of its counters, the gauge tells how many are in flight, so
\* that it returns to zero when traffic stops.
InFlightIsLive == Arriving = {} => counters.in_flight = Cardinality(Live)

\* Request::body, form, body_stream, save_body_to, multipart: a read that ends
\* well got everything that was there, a read that fails for the limit really
\* met more than it, and no reader hands out more than its limit.
ReadsHonest ==
  \A e \in Exchanges :
    LET r == reader[e]
    IN /\ r.outcome = "all" => r.got = r.before
       /\ r.outcome = "too large" => r.limit # NoLimit /\ r.got > r.limit /\ r.before > r.limit
       /\ r.outcome \in {"all", "reading"} => ~Exceeds(r.limit, r.got)
       /\ r.before <= Ask(e).size

\* The limit that the innermost BodyLimit around the handler sets, else the
\* server's own.
LimitsAbove(e) == { p \in 1..pos[e] : IsLayer(e, p, "body limit") }
IsInForce(e, limit) ==
  \/ LimitsAbove(e) = {} /\ limit = Options[e].body_limit
  \/ \E p \in LimitsAbove(e) :
       /\ limit = Chain(e)[p].max
       /\ \A q \in LimitsAbove(e) : q <= p

\* BodyLimit::handle and dispatch: whoever reads a body reads it under the
\* limit in force, and no handler runs for a declared length above any of the
\* limits around it.
LimitInForce ==
  \A e \in Exchanges : Handling(e) =>
    /\ IsInForce(e, ext[e].limit)
    /\ reader[e].kind # "none" => reader[e].limit = ext[e].limit
    /\ Ask(e).declared => \A p \in LimitsAbove(e) : Ask(e).size <= Chain(e)[p].max

\* Layers that a result has passed and that set header h.
Setters(e, h) ==
  { p \in (pos[e] + 1)..origin[e].frames : Dressing(Chain(e)[p], Ask(e).id)[h] # Absent }

\* Cors, SecurityHeaders, RequestId: an answer carries, of each header, what
\* the outermost layer sets that it came through, whoever made the answer: the
\* handler, a layer that called nobody or a timeout; one that was an error
\* until the end carries nothing.
Dressed ==
  \A e \in Exchanges :
    result[e].tag = "ok" => \A h \in Header :
      \/ Setters(e, h) = {} /\ result[e].res.headers[h] = origin[e].res.res.headers[h]
      \/ \E p \in Setters(e, h) :
           /\ result[e].res.headers[h] = Dressing(Chain(e)[p], Ask(e).id)[h]
           /\ \A q \in Setters(e, h) : p <= q

\* Compression, ResponseBuilder: whatever layers an answer passes, its body is
\* compressed as often as its Content-Encoding says, by request, and what the
\* client is told about its length is true.
EncodedOnce ==
  \A e \in Exchanges : result[e].tag = "ok" =>
    LET r == result[e].res
    IN /\ r.body.zipped = IF r.coding = "none" THEN 0 ELSE 1
       /\ Announced(r) \in {NoLength, r.body.size}
       /\ r.coding # origin[e].res.res.coding => Ask(e).gzip

HasTimeout(e) == \E p \in 1..Depth(e) : IsLayer(e, p, "timeout")

\* Timeout: behind one, a client that stays gets an answer, whatever the
\* handler does.
TimeoutAnswers ==
  \A e \in Exchanges :
    HasTimeout(e) /\ at[e] # "new" ~> at[e] \in {"done", "gone"}

\* Every entry of the chain to the right of i is a proxy that is trusted.
TrustedRightOf(proxies, chain, i) ==
  \A j \in (i + 1)..Len(chain) : chain[j] # Garbage /\ Trusts(proxies, chain[j])

\* The place of the first address from the right that is no proxy's, if what is
\* to the right of it are trusted proxies.
Speakers(proxies, chain) ==
  { i \in DOMAIN chain : /\ chain[i] # Garbage /\ ~Trusts(proxies, chain[i])
                         /\ TrustedRightOf(proxies, chain, i) }

\* resolve_client_ip: a peer that is no proxy speaks for itself; else the
\* client is the first address from the right that is no proxy's; and when
\* there is none it is a proxy that is trusted, the peer or one in the chain,
\* never an entry to the left of one that is not trusted or no address.
ClientIpFromChain ==
  \A e \in Exchanges : at[e] \notin {"new", "gone"} =>
    LET chain == Ask(e).chain
        proxies == Options[e].trusted_proxies
        speakers == Speakers(proxies, chain)
    IN \A peer \in Ask(e).peer : \E ip \in ext[e].ip :
         CASE ~Trusts(proxies, peer) -> ip = peer
           [] Trusts(proxies, peer) /\ speakers # {} -> \E i \in speakers : ip = chain[i]
           [] OTHER ->
                \/ ip = peer
                \/ \E i \in DOMAIN chain : /\ ip = chain[i] /\ Trusts(proxies, ip)
                                           /\ TrustedRightOf(proxies, chain, i)

\* The doc of resolve_client_ip: it "falls back to the peer address when absent,
\* malformed, or entirely trusted".
FallsBackToPeer ==
  \A e \in Exchanges :
    /\ at[e] \notin {"new", "gone"}
    /\ Speakers(Options[e].trusted_proxies, Ask(e).chain) = {}
    => ext[e].ip = Ask(e).peer

\* What lies below the directory that is served.
Inside == { f \in DOMAIN Tree : IsPrefix(CanonicalBase, f) }
Below  == { f \in Inside : IsA(f, "file") }

Sent(e) == result[e].tag = "ok" /\ result[e].res.status = 200

SentBy(e) == UNION { SentFrom(path, Accepted(Ask(e))) : path \in Paths(Ask(e)) }

\* The siblings of what is asked for that are links, and where they lead.
LinkedSiblings(e) ==
  { s \in { Sibling(path, coding) : path \in Paths(Ask(e)), coding \in Accepted(Ask(e)) } :
      IsA(LinkPath(s), "link") }

\* ServeDir::call: no link at any component of a path, nor the lexical form of
\* it, leads out of the directory: what is sent lies below it, unless it is a
\* precompressed sibling that is itself a link; and every file below the
\* directory is sent when it is asked for by its own names.
ServedInside ==
  [][\A e \in Exchanges : ServeFromDir(e) =>
       /\ Sent(e)' => /\ SentBy(e) # {}
                      /\ SentBy(e) \subseteq Inside \cup { Canonicalize(s) : s \in LinkedSiblings(e) }
       /\ (\E f \in Ask(e).file : CanonicalBase \o f \in Below) => Sent(e)']_vars

\* CHANGELOG.md:413-417, fs.rs:572: links are rejected, so that nothing from
\* outside the base directory is served.
NothingFromOutside ==
  [][\A e \in Exchanges : ServeFromDir(e) /\ Sent(e)' => SentBy(e) \subseteq Inside]_vars

\* README, tests/multipart.rs: a multipart upload that goes over the limit is
\* aborted with 413, so that is what a handler that gives up on it answers.
OversizedUploadIs413 ==
  [][\A e \in Exchanges :
       Fail(e) /\ reader[e].outcome = "too large" /\ fault[e] \notin Ask(e).access
         => StatusOf(fault[e]) = 413]_vars

=============================================================================
