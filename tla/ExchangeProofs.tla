--------------------------- MODULE ExchangeProofs ---------------------------
(***************************************************************************)
(* Theorems about Exchange: any requests, layers, bodies and limits.       *)
(***************************************************************************)
EXTENDS Exchange, FoldProofs, NaturalsInduction, TLAPS

(* Responses. *)

LEMMA KnownStatuses == {200, 204, 400, 403, 404, 408, 413, 415, 500} \subseteq Status
BY DEF Status

LEMMA BodyType ==
  ASSUME NEW n \in Nat
  PROVE  FullBody(n) \in Body /\ StreamBody(n) \in Body
BY DEF FullBody, StreamBody, Body, BodyKind

LEMMA NewType ==
  ASSUME NEW s \in Status, NEW t \in Type, NEW b \in Body
  PROVE  New(s, t, b) \in Response
<1>1. NoHeaders \in HeaderMap
  BY DEF NoHeaders, HeaderMap, Value
<1>2. NoLength \in Length /\ {} \in CookieLines /\ "none" \in Coding
  BY DEF NoLength, Length, CookieLines, Coding
<1> HIDE DEF NoHeaders, HeaderMap, Length, NoLength, CookieLines, Coding, Status, Type, Body
<1> QED
  BY <1>1, <1>2 DEF New, Response

LEMMA SimpleReplies ==
  ASSUME NEW n \in Nat
  PROVE  /\ \A s \in Status : Text(s, n) \in Response
         /\ Json(n) \in Response
         /\ \A b \in Body : New(200, "none", b) \in Response
         /\ \A s \in Status, t \in Type : Build(s, t, FullBody(n)) \in Response
<1>1. {"text", "json", "none"} \subseteq Type
  BY DEF Type
<1>2. 200 \in Status /\ FullBody(n) \in Body
  BY KnownStatuses, BodyType
<1> HIDE DEF Type, Status, Body, Response
<1> QED
  BY <1>1, <1>2, NewType DEF Text, Json, Build

LEMMA RenderedStatus ==
  ASSUME NEW k \in ErrorKind
  PROVE  StatusOf(k) \in Status
<1>1. StatusOf(k) \in {400, 413, 415, 500}
  BY DEF StatusOf, BadRequest
<1> QED
  BY <1>1, KnownStatuses

LEMMA DefaultRendererType == DefaultRenderer \in RendererSet
<1> SUFFICES ASSUME NEW k \in ErrorKind
             PROVE  (IF IsServerError(k) THEN Text(500, 21) ELSE Text(StatusOf(k), 30)) \in Response
  BY DEF DefaultRenderer, RendererSet
<1>1. Text(500, 21) \in Response
  BY KnownStatuses, SimpleReplies
<1>2. Text(StatusOf(k), 30) \in Response
  BY RenderedStatus, SimpleReplies
<1> QED
  BY <1>1, <1>2

LEMMA IntoType ==
  ASSUME NEW v \in Returnable, NEW render \in RendererSet
  PROVE  IntoResponse(v, render) \in Result
<1>0. ASSUME NEW r \in Response PROVE Ok(r) \in Result
  BY <1>0 DEF Ok, Result
<1>1. CASE v.as = "error"
  <2>1. v.err \in ErrorKind
    BY <1>1 DEF Returnable
  <2> QED
    BY <1>0, <1>1, <2>1 DEF IntoResponse, RendererSet
<1>2. CASE v.as = "response"
  <2>1. v.res \in Response
    BY <1>2 DEF Returnable
  <2> QED
    BY <1>0, <1>2, <2>1 DEF IntoResponse
<1>3. CASE v.as = "body"
  <2>1. v.body \in Body
    BY <1>3 DEF Returnable
  <2> QED
    BY <1>0, <1>3, <2>1, SimpleReplies DEF IntoResponse, FromBody
<1>4. CASE v.as = "json"
  <2>1. v.size \in Nat
    BY <1>4 DEF Returnable
  <2> QED
    BY <1>0, <1>4, <2>1, SimpleReplies DEF IntoResponse
<1>5. CASE v.as = "u16"
  <2>1. v.size \in Nat
    BY <1>5 DEF Returnable
  <2>2. IntoResponse(v, render) = Checked(v.status, Text(v.status, v.size))
    BY <1>5 DEF IntoResponse, WithStatus
  <2>3. CASE v.status \in Status
    <3>1. Text(v.status, v.size) \in Response
      BY <2>1, <2>3, SimpleReplies
    <3> QED
      BY <1>0, <2>2, <2>3, <3>1 DEF Checked
  <2>4. CASE v.status \notin Status
    <3>1. Err("status code") \in Result
      BY DEF Err, Result, ErrorKind
    <3> QED
      BY <2>2, <2>4, <3>1 DEF Checked
  <2> QED
    BY <2>3, <2>4
<1>6. CASE v.as \in {"unit", "text", "bytes"}
  <2>1. v.size \in Nat
    BY <1>6 DEF Returnable
  <2>2. TypeOf(v.as) \in Type
    BY <1>6 DEF TypeOf, Type
  <2>3. IntoResponse(v, render) = Ok(Build(200, TypeOf(v.as), FullBody(v.size)))
    BY <1>6 DEF IntoResponse
  <2>4. Build(200, TypeOf(v.as), FullBody(v.size)) \in Response
    BY <2>1, <2>2, SimpleReplies, KnownStatuses
  <2> QED
    BY <1>0, <2>3, <2>4
<1> QED
  BY <1>1, <1>2, <1>3, <1>4, <1>5, <1>6 DEF Returnable

LEMMA GzipType ==
  ASSUME NEW r \in Response
  PROVE  Gzip(r) \in Response
<1> DEFINE n == GzipSize(r.body.size)
           b == [kind |-> "full", size |-> n, zipped |-> r.body.zipped + 1]
<1>1. r.body \in Body
  BY DEF Response
<1>2. n \in Nat /\ r.body.zipped + 1 \in Nat
  BY <1>1 DEF Body, GzipSize
<1>3. b \in Body
  BY <1>2 DEF Body, BodyKind
<1>4. n \in Length /\ "gzip" \in Coding
  BY <1>2 DEF Length, Coding
<1>5. Gzip(r) = [r EXCEPT !.coding = "gzip", !.length = n, !.body = b]
  BY DEF Gzip, Response
<1> HIDE DEF n, b
<1> QED
  BY <1>3, <1>4, <1>5 DEF Response

LEMMA OverlayType ==
  ASSUME NEW x \in HeaderMap, NEW y \in HeaderMap
  PROVE  Overlay(x, y) \in HeaderMap
BY DEF Overlay, HeaderMap

LEMMA RequestIdType ==
  ASSUME NEW layer \in Layer, NEW given \in Value
  PROVE  RequestIdOf(layer, given) \in Value
BY DEF RequestIdOf, Layer, HeaderMap, Header

LEMMA DressingType ==
  ASSUME NEW layer \in Layer, NEW given \in Value
  PROVE  Dressing(layer, given) \in HeaderMap
<1>1. layer.values \in HeaderMap
  BY DEF Layer
<1>2. NoHeaders \in HeaderMap
  BY DEF NoHeaders, HeaderMap, Value
<1>3. [NoHeaders EXCEPT !["id"] = RequestIdOf(layer, given)] \in HeaderMap
  BY <1>2, RequestIdType DEF HeaderMap
<1> QED
  BY <1>1, <1>3 DEF Dressing

LEMMA AfterType ==
  ASSUME NEW layer \in Layer, NEW who \in Nat, NEW ask \in Case, NEW r \in Response
  PROVE  After(layer, who, ask, r) \in Response
<1>0. ask.id \in Value
  BY DEF Case
<1>1. CASE layer.kind = "compression"
  BY <1>1, GzipType DEF After
<1>2. CASE layer.kind = "csrf"
  <2>1. r.cookies \cup {who} \in CookieLines
    BY DEF Response, CookieLines
  <2>2. AppendCookie(r, who) \in Response
    BY <2>1 DEF AppendCookie, Response
  <2>3. After(layer, who, ask, r) = Arm(r, who, ask.token)
    BY <1>2 DEF After
  <2> QED
    BY <2>2, <2>3 DEF Arm, SendToken
<1>3. CASE layer.kind \notin {"compression", "csrf"}
  <2>1. After(layer, who, ask, r) = [r EXCEPT !.headers = Overlay(Dressing(layer, ask.id), r.headers)]
    BY <1>3 DEF After
  <2>2. r.headers \in HeaderMap
    BY DEF Response
  <2>3. Overlay(Dressing(layer, ask.id), r.headers) \in HeaderMap
    BY <1>0, <2>2, DressingType, OverlayType
  <2> QED
    BY <2>1, <2>3 DEF Response
<1> QED
  BY <1>1, <1>2, <1>3

LEMMA CodingType == \A path, accepted : CodingOf(path, accepted) \in Coding
BY DEF CodingOf, Coding

LEMMA PrecodedType ==
  ASSUME NEW r \in Response, NEW coding \in Coding
  PROVE  Precoded(r, coding) \in Response
<1>1. r.body \in Body
  BY DEF Response
<1>2. [r.body EXCEPT !.zipped = IF coding = "none" THEN 0 ELSE 1] \in Body
  BY <1>1 DEF Body
<1> HIDE DEF Body, Coding
<1> QED
  BY <1>2 DEF Precoded, Response

\* What is sent with 200 was asked for by a path in the directory.
LEMMA SomePath ==
  ASSUME NEW ask, \E f \in ask.file : Opened(f) # {}
  PROVE  Paths(ask) # {}
<1>1. PICK f \in ask.file : Opened(f) # {}
  OBVIOUS
<1>2. ResolveWithin(f) # {}
  BY <1>1 DEF Opened
<1> QED
  BY <1>1, <1>2 DEF Paths

LEMMA ContentEncodingType ==
  ASSUME NEW ask, \E f \in ask.file : Opened(f) # {}
  PROVE  ContentEncoding(ask) \in Coding
<1>1. \E c \in Coding : \E path \in Paths(ask) : c = CodingOf(path, Accepted(ask))
  BY SomePath, CodingType
<1> QED
  BY <1>1 DEF ContentEncoding

LEMMA ServeDirType ==
  ASSUME NEW ask, ask.size \in Nat
  PROVE  ServeDirCall(ask) \in Result
<1>0. ASSUME NEW r \in Response PROVE Ok(r) \in Result
  BY <1>0 DEF Ok, Result
<1>1. Err("missing param") \in Result /\ Err("io") \in Result
  BY DEF Err, Result, ErrorKind
<1>2. Text(403, 9) \in Response /\ Text(404, 9) \in Response
  BY KnownStatuses, SimpleReplies
<1>3. New(200, "html", StreamBody(ask.size)) \in Response
  BY KnownStatuses, BodyType, NewType DEF Type
<1>4. ASSUME \E f \in ask.file : Opened(f) # {}
      PROVE  Precoded(New(200, "html", StreamBody(ask.size)), ContentEncoding(ask)) \in Response
  BY <1>3, <1>4, ContentEncodingType, PrecodedType
<1> HIDE DEF Result, Response, Ok, Err
<1> QED
  BY <1>0, <1>1, <1>2, <1>4 DEF ServeDirCall

-----------------------------------------------------------------------------
(* Types. *)

LEMMA CaseFacts ==
  ASSUME NEW w \in [Exchanges -> Case], NEW e \in Exchanges
  PROVE  /\ w[e] \in Case
         /\ w[e].layers \in Seq(Layer)
         /\ Len(w[e].layers) \in Nat
         /\ w[e].size \in Nat
         /\ w[e].id \in Value
         /\ w[e].access \subseteq ErrorKind
         /\ w[e].returns \subseteq Returnable
         /\ \A p \in 1..Len(w[e].layers) : w[e].layers[p] \in Layer
<1>1. w[e] \in Case
  OBVIOUS
<1>2. w[e].layers \in Seq(Layer)
  BY <1>1 DEF Case
<1>3. /\ w[e].size \in Nat
      /\ w[e].id \in Value
      /\ w[e].access \subseteq ErrorKind
      /\ w[e].returns \subseteq Returnable
  BY <1>1 DEF Case
<1> HIDE DEF Case, Layer
<1> QED
  BY <1>1, <1>2, <1>3

LEMMA RenderType ==
  ASSUME renderer \in Renderer
  PROVE  Render \in RendererSet
BY RendererAssumption, DefaultRendererType DEF Render, RendererNamed, Renderer

LEMMA TypeInit == Init => TypeOK
<1> SUFFICES ASSUME Init PROVE TypeOK
  OBVIOUS
<1>1. case \in [Exchanges -> Case]
  BY WorkloadAssumption DEF Init
<1>2. \A e \in Exchanges : Depth(e) \in Nat /\ Ask(e).size \in Nat
  BY <1>1, CaseFacts DEF Depth, Chain, Ask
<1>3. Nothing \in Result
  <2>1. New(200, "none", FullBody(0)) \in Response
    BY SimpleReplies, KnownStatuses, BodyType
  <2> QED
    BY <2>1 DEF Nothing, Ok, Result
<1>4. [res |-> Nothing, frames |-> 0] \in Origin
  BY <1>3 DEF Origin
<1>5. NoReader \in Reader
  BY DEF NoReader, Reader, Limit, NoLimit, Outcome
<1>6. [limit |-> NoLimit, id |-> Absent, ip |-> {}] \in Extensions
  BY DEF Extensions, Limit, Value
<1>7. counters \in Counters
  BY DEF Init, Counters
<1>8. "new" \in Place
  BY DEF Place
<1>9. renderer \in Renderer
  BY DEF Init, Renderer
<1>10. reads \in [Exchanges -> 0..MaxReads]
  BY MaxReadsAssumption DEF Init
<1> HIDE DEF Result, Origin, Reader, Extensions, Counters, Place, Renderer, Case, Nothing, NoReader
<1>11. pos \in [Exchanges -> Nat] /\ \A e \in Exchanges : pos[e] <= Depth(e)
  BY <1>2 DEF Init
<1>12. unread \in [Exchanges -> Nat]
  BY <1>2 DEF Init
<1> QED
  BY <1>1, <1>3, <1>4, <1>5, <1>6, <1>7, <1>8, <1>9, <1>10, <1>11, <1>12 DEF Init, TypeOK

LEMMA AnswerType ==
  ASSUME TypeOK, NEW e \in Exchanges, NEW r \in Result, NEW frames \in Nat,
         frames <= Depth(e), Answer(e, r, frames), UNCHANGED case
  PROVE  /\ at' \in [Exchanges -> Place]
         /\ pos' \in [Exchanges -> Nat] /\ \A d \in Exchanges : pos'[d] <= Depth(d)'
         /\ result' \in [Exchanges -> Result]
         /\ origin' \in [Exchanges -> Origin]
<1>1. "up" \in Place
  BY DEF Place
<1>2. [res |-> r, frames |-> frames] \in Origin
  BY DEF Origin
<1> HIDE DEF Place, Result, Origin, Case
<1>3. \A d \in Exchanges : Depth(d)' = Depth(d)
  BY DEF Depth, Chain, Ask
<1> HIDE DEF Depth
<1>4. pos' \in [Exchanges -> Nat] /\ \A d \in Exchanges : pos'[d] <= Depth(d)
  BY DEF Answer, TypeOK
<1> QED
  BY <1>1, <1>2, <1>3, <1>4 DEF Answer, Move, TypeOK

LEMMA LayerAt ==
  ASSUME TypeOK, NEW e \in Exchanges, NEW p \in 1..Depth(e)
  PROVE  Chain(e)[p] \in Layer
BY CaseFacts DEF TypeOK, Depth, Chain, Ask

\* What most actions leave alone.
LEMMA DepthKept ==
  ASSUME UNCHANGED case
  PROVE  \A e : Depth(e)' = Depth(e) /\ Ask(e)' = Ask(e) /\ Chain(e)' = Chain(e)
BY DEF Depth, Chain, Ask


LEMMA TypeDown ==
  ASSUME TypeOK, NEW e \in Exchanges, Dispatch(e) \/ Enter(e)
  PROVE  TypeOK'
<1>0. UNCHANGED case
  BY DEF Dispatch, Enter, EnterMetrics, EnterFlight, AnswerPreflight, BlockForgery, RejectOversized,
         PassThrough, Call
<1>1. case \in [Exchanges -> Case] /\ Ask(e).id \in Value /\ Depth(e) \in Nat
  BY CaseFacts DEF TypeOK, Ask, Depth, Chain
<1>2. \A d \in Exchanges : Depth(d)' = Depth(d)
  BY <1>0, DepthKept
<1>3. pos[e] \in Nat /\ pos[e] <= Depth(e)
  BY DEF TypeOK
<1>4. Reaches(e) => Next1(e) \in Nat /\ Next1(e) <= Depth(e)
  BY <1>1, <1>3 DEF Reaches, Next1
<1>5. {"down", "arriving", "draining", "handler"} \subseteq Place
  BY DEF Place
<1>6. ASSUME NEW place \in Place, Move(e, place)
      PROVE  at' \in [Exchanges -> Place]
  BY <1>6 DEF Move, TypeOK
<1>7. ASSUME Reaches(e), pos' = [pos EXCEPT ![e] = Next1(e)]
      PROVE  pos' \in [Exchanges -> Nat] /\ \A d \in Exchanges : pos'[d] <= Depth(d)'
  <2> HIDE DEF Next1, Reaches, Depth
  <2> QED
    BY <1>2, <1>4, <1>7 DEF TypeOK
<1>8. UNCHANGED pos => pos' \in [Exchanges -> Nat] /\ \A d \in Exchanges : pos'[d] <= Depth(d)'
  BY <1>2 DEF TypeOK
<1>9. \A s \in {204, 403} : \A n \in Nat : Text(s, n) \in Response
  BY SimpleReplies, KnownStatuses
<1> HIDE DEF Place, Case, Extensions, Reader, Result, Origin, Counters, Renderer, Response,
             Depth, Next1, Reaches
<1>10. CASE Dispatch(e)
  <2>1. [limit |-> Options[e].body_limit, id |-> Absent,
         ip |-> ClientIp(Ask(e).peer, Ask(e).chain, Options[e].trusted_proxies)] \in Extensions
    BY OptionsAssumption DEF Extensions, ClientIp, Limit, Value
  <2> HIDE DEF Value
  <2>2. ext' \in [Exchanges -> Extensions]
    BY <1>10, <2>1 DEF Dispatch, TypeOK
  <2> QED
    BY <1>5, <1>6, <1>8, <1>10, <2>2 DEF Dispatch, TypeOK, request, answer
<1>11. CASE EnterMetrics(e)
  <2>1. counters' \in Counters
    <3>1. counters \in Counters
      BY DEF TypeOK
    <3>2. counters' = [counters EXCEPT !.requests = @ + 1]
      BY <1>11 DEF EnterMetrics
    <3>3. counters.requests + 1 \in Nat
      BY <3>1 DEF Counters
    <3>4. ASSUME NEW r \in Nat PROVE [counters EXCEPT !.requests = r] \in Counters
      BY <3>1 DEF Counters
    <3> QED
      BY <3>2, <3>3, <3>4
  <2> QED
    BY <1>5, <1>6, <1>7, <1>11, <2>1 DEF EnterMetrics, Meets, TypeOK, request, answer
<1>17. CASE EnterFlight(e)
  <2>1. counters' \in Counters
    <3>1. counters \in Counters
      BY DEF TypeOK
    <3>2. counters' = [counters EXCEPT !.in_flight = @ + 1]
      BY <1>17 DEF EnterFlight
    <3>3. counters.in_flight + 1 \in Int
      BY <3>1 DEF Counters
    <3>4. ASSUME NEW i \in Int PROVE [counters EXCEPT !.in_flight = i] \in Counters
      BY <3>1 DEF Counters
    <3> QED
      BY <3>2, <3>3, <3>4
  <2> QED
    BY <1>5, <1>6, <1>8, <1>17, <2>1 DEF EnterFlight, TypeOK, request, answer
<1>12. CASE AnswerPreflight(e)
  <2>1. Ok(NoContent) \in Result
    BY <1>9 DEF NoContent, Ok, Result
  <2>2. Next1(e) \in Nat /\ Next1(e) <= Depth(e)
    BY <1>4, <1>12 DEF AnswerPreflight, Meets
  <2> QED
    BY <1>0, <1>12, <2>1, <2>2, AnswerType DEF AnswerPreflight, TypeOK, request
<1>13. CASE BlockForgery(e)
  <2>1. ASSUME NEW who \in Nat PROVE Ok(Forbidden(who)) \in Result
    <3>1. Text(403, 17) \in Response
      BY <1>9
    <3>2. AppendCookie(Text(403, 17), who) \in Response
      BY <3>1 DEF AppendCookie, Response, CookieLines
    <3> QED
      BY <3>2 DEF Forbidden, SendToken, Ok, Result
  <2>2. Ok(Forbidden(Next1(e))) \in Result
    BY <1>4, <1>13, <2>1 DEF BlockForgery, Meets
  <2> QED
    BY <1>0, <1>3, <1>13, <2>2, AnswerType DEF BlockForgery, TypeOK, request
<1>14. CASE RejectOversized(e)
  BY <1>5, <1>6, <1>7, <1>14 DEF RejectOversized, Meets, TypeOK, request, answer
<1>15. CASE PassThrough(e)
  <2>1. NextLayer(e) \in Layer
    <3>1. Next1(e) \in 1..Depth(e)
      BY <1>1, <1>3, <1>15 DEF PassThrough, Reaches, Next1
    <3> QED
      BY <3>1, LayerAt DEF NextLayer
  <2>2. Extended(NextLayer(e), ext[e], Ask(e).id) \in Extensions
    <3>1. ext[e] \in Extensions
      BY DEF TypeOK
    <3>2. NextLayer(e).max \in Limit
      BY <2>1 DEF Layer, Limit
    <3>3. RequestIdOf(NextLayer(e), Ask(e).id) \in Value
      BY <1>1, <2>1, RequestIdType
    <3> HIDE DEF Limit, Value
    <3> QED
      BY <3>1, <3>2, <3>3 DEF Extended, Extensions
  <2>3. ext' \in [Exchanges -> Extensions]
    BY <1>15, <2>2 DEF PassThrough, TypeOK
  <2> QED
    BY <1>7, <1>15, <2>3 DEF PassThrough, TypeOK, request, answer
<1>16. CASE Call(e)
  BY <1>5, <1>6, <1>8, <1>16 DEF Call, TypeOK, request, answer
<1> QED
  BY <1>10, <1>11, <1>12, <1>13, <1>14, <1>15, <1>16, <1>17 DEF Enter

LEMMA TypeRead ==
  ASSUME TypeOK, NEW e \in Exchanges,
         \/ \E kind \in Ask(e).reads : OpenReader(e, kind)
         \/ \E n \in 1..unread[e] : ChunkFits(e, n) \/ ChunkTooMuch(e, n)
         \/ BodyEnds(e)
         \/ \E k \in ErrorKind : BodyBreaks(e, k) \/ Access(e, k)
  PROVE  TypeOK'
<1>0. UNCHANGED <<case, pos, ext, answer, counters, lost, renderer>>
  BY DEF OpenReader, ChunkFits, ChunkTooMuch, BodyEnds, BodyBreaks, Access
<1>1. pos' \in [Exchanges -> Nat] /\ \A d \in Exchanges : pos'[d] <= Depth(d)'
  BY <1>0, DepthKept DEF TypeOK
<1>2. Ask(e).reads \subseteq ReaderKind
  BY CaseFacts DEF TypeOK, Case, Ask
<1>3. unread[e] \in Nat /\ reader[e] \in Reader /\ reads[e] \in Nat /\ ext[e].limit \in Limit
  BY MaxReadsAssumption DEF TypeOK, Extensions
<1>4. {"draining", "handler"} \subseteq Place
  BY DEF Place
<1>5. ASSUME NEW place \in Place, Move(e, place)
      PROVE  at' \in [Exchanges -> Place]
  BY <1>5 DEF Move, TypeOK
<1>6. ASSUME /\ at' \in [Exchanges -> Place]
             /\ unread' \in [Exchanges -> Nat]
             /\ reader' \in [Exchanges -> Reader]
             /\ reads' \in [Exchanges -> 0..MaxReads]
             /\ fault' \in [Exchanges -> ErrorKind \cup {"none"}]
      PROVE  TypeOK'
  BY <1>0, <1>1, <1>6 DEF TypeOK, answer
<1> HIDE DEF Place, Case, Extensions, Result, Origin, Counters, Renderer, Response, Depth
<1>10. ASSUME NEW kind \in Ask(e).reads, OpenReader(e, kind) PROVE TypeOK'
  <2>1. Refusal(e, kind) \in ErrorKind \cup {"none"}
    BY DEF Refusal, ErrorKind
  <2>2. reads' \in [Exchanges -> 0..MaxReads]
    BY <1>3, <1>10, MaxReadsAssumption DEF OpenReader, TypeOK
  <2>3. fault' \in [Exchanges -> ErrorKind \cup {"none"}]
    BY <1>10, <2>1 DEF OpenReader, TypeOK
  <2>4. [kind |-> kind, limit |-> ext[e].limit, before |-> unread[e], got |-> 0,
         outcome |-> IF Refusal(e, kind) = "none" THEN "reading" ELSE "broken"] \in Reader
    BY <1>2, <1>3 DEF Reader, Outcome
  <2>5. reader' \in [Exchanges -> Reader]
    BY <1>10, <2>4 DEF OpenReader, TypeOK
  <2> QED
    BY <1>6, <1>10, <2>2, <2>3, <2>5 DEF OpenReader, TypeOK
<1>11. ASSUME NEW n \in 1..unread[e], ChunkFits(e, n) PROVE TypeOK'
  <2>0. unread[e] - n \in Nat /\ reader[e].got + n \in Nat
    BY <1>3 DEF Reader
  <2>1. unread' \in [Exchanges -> Nat]
    BY <1>11, <2>0 DEF ChunkFits, TypeOK
  <2>2. [reader[e] EXCEPT !.got = reader[e].got + n] \in Reader
    BY <1>3, <2>0 DEF Reader
  <2>3. reader' \in [Exchanges -> Reader]
    BY <1>11, <2>2 DEF ChunkFits, TypeOK
  <2> QED
    BY <1>6, <1>11, <2>1, <2>3 DEF ChunkFits, TypeOK
<1>12. ASSUME NEW n \in 1..unread[e], ChunkTooMuch(e, n) PROVE TypeOK'
  <2>0. unread[e] - n \in Nat /\ reader[e].got + n \in Nat
    BY <1>3 DEF Reader
  <2>1. unread' \in [Exchanges -> Nat]
    BY <1>12, <2>0 DEF ChunkTooMuch, TypeOK
  <2>2. [reader[e] EXCEPT !.got = reader[e].got + n, !.outcome = "too large"] \in Reader
    <3>1. "too large" \in Outcome
      BY DEF Outcome
    <3> HIDE DEF Outcome, Limit, ReaderKind
    <3> QED
      BY <1>3, <2>0, <3>1 DEF Reader
  <2>3. reader' \in [Exchanges -> Reader]
    BY <1>12, <2>2 DEF ChunkTooMuch, TypeOK
  <2>4. OverErrors(reader[e].kind) \subseteq ErrorKind
    BY DEF OverErrors, ErrorKind
  <2>5. fault' \in [Exchanges -> ErrorKind \cup {"none"}]
    BY <1>12, <2>4 DEF ChunkTooMuch, TypeOK
  <2>6. at' \in [Exchanges -> Place]
    BY <1>4, <1>5, <1>12 DEF ChunkTooMuch
  <2> QED
    BY <1>6, <1>12, <2>1, <2>3, <2>5, <2>6 DEF ChunkTooMuch, TypeOK
<1>13. CASE BodyEnds(e)
  <2>1. ParseError(reader[e].kind) \in ErrorKind
    BY DEF ParseError, ErrorKind
  <2>2. fault' \in [Exchanges -> ErrorKind \cup {"none"}]
    BY <1>13, <2>1 DEF BodyEnds, TypeOK
  <2>3. [reader[e] EXCEPT !.outcome = "all"] \in Reader
    BY <1>3 DEF Reader, Outcome
  <2>4. reader' \in [Exchanges -> Reader]
    BY <1>13, <2>3 DEF BodyEnds, TypeOK
  <2> QED
    BY <1>6, <1>13, <2>2, <2>4 DEF BodyEnds, TypeOK
<1>14. ASSUME NEW k \in ErrorKind, BodyBreaks(e, k) PROVE TypeOK'
  <2>1. fault' \in [Exchanges -> ErrorKind \cup {"none"}]
    BY <1>14 DEF BodyBreaks, TypeOK
  <2>2. [reader[e] EXCEPT !.outcome = "broken"] \in Reader
    BY <1>3 DEF Reader, Outcome
  <2>3. reader' \in [Exchanges -> Reader]
    BY <1>14, <2>2 DEF BodyBreaks, TypeOK
  <2> QED
    BY <1>6, <1>14, <2>1, <2>3 DEF BodyBreaks, TypeOK
<1>15. ASSUME NEW k \in ErrorKind, Access(e, k) PROVE TypeOK'
  <2>1. fault' \in [Exchanges -> ErrorKind \cup {"none"}]
    BY <1>15 DEF Access, TypeOK
  <2> QED
    BY <1>6, <1>15, <2>1 DEF Access, TypeOK
<1> QED
  BY <1>10, <1>11, <1>12, <1>13, <1>14, <1>15

LEMMA ReturnsType ==
  ASSUME TypeOK, NEW e \in Exchanges, NEW v \in Returnable
  PROVE  Returns(e, v) \in Result
<1>1. CASE Ask(e).endpoint = "trait" /\ v.as = "error"
  <2>1. v.err \in ErrorKind
    BY <1>1 DEF Returnable
  <2> QED
    BY <1>1, <2>1 DEF Returns, Err, Result
<1>2. CASE ~(Ask(e).endpoint = "trait" /\ v.as = "error")
  <2>1. Render \in RendererSet
    BY RenderType DEF TypeOK
  <2> HIDE DEF Returnable, Result
  <2> QED
    BY <1>2, <2>1, IntoType DEF Returns
<1> QED
  BY <1>1, <1>2

LEMMA TypeFinish ==
  ASSUME TypeOK, NEW e \in Exchanges, Finish(e) \/ Fail(e) \/ ServeFromDir(e)
  PROVE  TypeOK'
<1>0. PICK r \in Result : FinishWith(e, r)
  <2>1. CASE Finish(e)
    <3>1. PICK v \in Ask(e).returns : FinishWith(e, Returns(e, v))
      BY <2>1 DEF Finish
    <3>2. v \in Returnable
      BY CaseFacts DEF TypeOK, Ask
    <3> HIDE DEF Result, Returnable
    <3> QED
      BY <3>1, <3>2, ReturnsType
  <2>2. CASE Fail(e)
    <3>1. fault[e] \in ErrorKind
      BY <2>2 DEF Fail, TypeOK
    <3>2. [as |-> "error", err |-> fault[e]] \in Returnable
      BY <3>1 DEF Returnable
    <3> HIDE DEF Result, Returnable
    <3> QED
      BY <2>2, <3>2, ReturnsType DEF Fail
  <2>3. CASE ServeFromDir(e)
    <3>1. Ask(e).size \in Nat
      BY CaseFacts DEF TypeOK, Ask
    <3> HIDE DEF Result
    <3> QED
      BY <2>3, <3>1, ServeDirType DEF ServeFromDir
  <2> QED
    BY <2>1, <2>2, <2>3
<1>1. pos[e] \in Nat /\ pos[e] <= Depth(e)
  BY DEF TypeOK
<1> HIDE DEF Place, Case, Extensions, Reader, Result, Origin, Counters, Renderer, Response, Depth
<1> QED
  BY <1>0, <1>1, AnswerType DEF FinishWith, TypeOK, request

LEMMA TypeDrained ==
  ASSUME TypeOK, NEW e \in Exchanges, EndsDrain(e)
  PROVE  TypeOK'
<1>1. PICK left \in 0..unread[e] : Drained(e, left)
  BY DEF EndsDrain
<1>2. pos[e] \in Nat /\ pos[e] <= Depth(e) /\ unread[e] \in Nat
  BY DEF TypeOK
<1>3. Ok(PayloadTooLarge) \in Result
  <2>1. Text(413, 17) \in Response
    BY SimpleReplies, KnownStatuses
  <2> QED
    BY <2>1 DEF PayloadTooLarge, Ok, Result
<1>4. unread' \in [Exchanges -> Nat]
  BY <1>1, <1>2 DEF Drained, TypeOK
<1>5. /\ at' \in [Exchanges -> Place]
      /\ pos' \in [Exchanges -> Nat] /\ \A d \in Exchanges : pos'[d] <= Depth(d)'
      /\ result' \in [Exchanges -> Result]
      /\ origin' \in [Exchanges -> Origin]
  <2>0. UNCHANGED case
    BY <1>1 DEF Drained
  <2>1. CASE reader[e].kind = "none"
    <3>1. Answer(e, Ok(PayloadTooLarge), pos[e])
      BY <1>1, <2>1 DEF Drained
    <3> HIDE DEF Place, Result, Origin, Depth
    <3> QED
      BY <1>2, <1>3, <2>0, <3>1, AnswerType
  <2>2. CASE reader[e].kind # "none"
    <3>1. Move(e, "handler") /\ UNCHANGED <<pos, answer>>
      BY <1>1, <2>2 DEF Drained
    <3>2. "handler" \in Place
      BY DEF Place
    <3>3. \A d \in Exchanges : Depth(d)' = Depth(d)
      BY <2>0, DepthKept
    <3> HIDE DEF Place, Result, Origin, Depth
    <3> QED
      BY <3>1, <3>2, <3>3 DEF Move, TypeOK, answer
  <2> QED
    BY <2>1, <2>2
<1> HIDE DEF Place, Case, Extensions, Reader, Result, Origin, Counters, Renderer, Depth
<1> QED
  BY <1>1, <1>4, <1>5 DEF Drained, TypeOK

LEMMA ClassType == ASSUME NEW r \in Result PROVE ClassOf(r) \in {"ok", "redirects", "client", "server"}
BY DEF ClassOf

LEMMA TypeUp ==
  ASSUME TypeOK, NEW e \in Exchanges, Leave(e)
  PROVE  TypeOK'
<1>0. UNCHANGED case
  BY DEF Leave, LeaveMetrics, Classify, LeaveLayer, Respond
<1>1. \A d \in Exchanges : Depth(d)' = Depth(d)
  BY <1>0, DepthKept
<1>2. pos[e] \in Nat /\ pos[e] <= Depth(e) /\ Depth(e) \in Nat
  BY CaseFacts DEF TypeOK, Depth, Chain, Ask
<1>3. ASSUME Climbs(e)
      PROVE  /\ pos' \in [Exchanges -> Nat] /\ \A d \in Exchanges : pos'[d] <= Depth(d)'
             /\ pos[e] \in 1..Depth(e)
  <2>1. pos[e] - 1 \in Nat /\ pos[e] - 1 <= Depth(e) /\ pos[e] \in 1..Depth(e)
    BY <1>2, <1>3 DEF Climbs
  <2> HIDE DEF Depth
  <2> QED
    BY <1>1, <1>3, <2>1 DEF Climbs, TypeOK
<1>4. result[e] \in Result
  BY DEF TypeOK
<1>5. ASSUME NEW r \in Response PROVE Ok(r) \in Result
  BY <1>5 DEF Ok, Result
<1>6. CASE LeaveMetrics(e)
  <2>1. counters \in Counters
    BY DEF TypeOK
  <2>2. counters' = [counters EXCEPT !.in_flight = @ - 1]
    BY <1>6 DEF LeaveMetrics
  <2>3. ASSUME NEW i \in Int PROVE [counters EXCEPT !.in_flight = i] \in Counters
    BY <2>1 DEF Counters
  <2>4. counters' \in Counters
    BY <2>1, <2>2, <2>3 DEF Counters
  <2>5. "classifying" \in Place
    BY DEF Place
  <2> HIDE DEF Place, Case, Extensions, Reader, Result, Origin, Counters, Renderer, Depth
  <2>6. at' \in [Exchanges -> Place]
    BY <1>6, <2>5 DEF LeaveMetrics, Move, TypeOK
  <2> QED
    BY <1>3, <1>6, <2>4, <2>6 DEF LeaveMetrics, TypeOK, request, answer
<1>9. CASE Classify(e)
  <2> DEFINE class == ClassOf(result[e])
  <2>1. class \in {"ok", "redirects", "client", "server"}
    BY <1>4, ClassType
  <2>2. counters' = [counters EXCEPT ![class] = @ + 1]
    BY <1>9 DEF Classify
  <2>3. counters \in Counters
    BY DEF TypeOK
  <2> HIDE DEF class
  <2>4. counters[class] + 1 \in Nat
    BY <2>1, <2>3 DEF Counters
  <2>5. ASSUME NEW n \in Nat PROVE [counters EXCEPT ![class] = n] \in Counters
    BY <2>1, <2>3 DEF Counters
  <2>6. counters' \in Counters
    BY <2>1, <2>2, <2>4, <2>5
  <2>7. "up" \in Place
    BY DEF Place
  <2> HIDE DEF Place, Case, Extensions, Reader, Result, Origin, Counters, Renderer, Depth
  <2>8. at' \in [Exchanges -> Place]
    BY <1>9, <2>7 DEF Classify, Move, TypeOK
  <2> QED
    BY <1>1, <1>9, <2>6, <2>8 DEF Classify, TypeOK, request, answer
<1>7. CASE LeaveLayer(e)
  <2>1. Dressed1(e) \in Result
    <3>1. CASE result[e].tag = "err"
      BY <1>4, <3>1 DEF Dressed1
    <3>2. CASE result[e].tag # "err"
      <4>1. result[e].res \in Response
        BY <1>4, <3>2 DEF Result
      <4>2. Chain(e)[pos[e]] \in Layer
        BY <1>3, <1>7, LayerAt DEF LeaveLayer
      <4>3. Ask(e) \in Case
        BY CaseFacts DEF TypeOK, Ask
      <4> HIDE DEF Response, Layer, Case, Result
      <4>4. After(Chain(e)[pos[e]], pos[e], Ask(e), result[e].res) \in Response
        BY <1>2, <4>1, <4>2, <4>3, AfterType
      <4> QED
        BY <1>5, <3>2, <4>4 DEF Dressed1
    <3> QED
      BY <3>1, <3>2
  <2> HIDE DEF Place, Case, Extensions, Reader, Result, Origin, Counters, Renderer, Depth
  <2>2. result' \in [Exchanges -> Result]
    BY <1>7, <2>1 DEF LeaveLayer, TypeOK
  <2> QED
    BY <1>3, <1>7, <2>2 DEF LeaveLayer, TypeOK, request
<1>8. CASE Respond(e)
  <2> DEFINE r == IF result[e].tag = "err" THEN Ok(Render[result[e].err]) ELSE result[e]
  <2>1. r \in Result
    <3>1. CASE result[e].tag = "err"
      <4>1. result[e].err \in ErrorKind
        BY <1>4, <3>1 DEF Result
      <4>2. Render \in RendererSet
        BY RenderType DEF TypeOK
      <4>3. Render[result[e].err] \in Response
        BY <4>1, <4>2 DEF RendererSet
      <4> HIDE DEF Response, Result
      <4> QED
        BY <1>5, <3>1, <4>3
    <3> QED
      BY <1>4, <3>1
  <2>2. [res |-> r, frames |-> 0] \in Origin
    BY <2>1 DEF Origin
  <2>3. /\ result' = [result EXCEPT ![e] = r]
        /\ origin' = IF result[e].tag = "err"
                     THEN [origin EXCEPT ![e] = [res |-> r, frames |-> 0]] ELSE origin
    BY <1>8 DEF Respond
  <2>4. "done" \in Place
    BY DEF Place
  <2> HIDE DEF r, Place, Case, Extensions, Reader, Result, Origin, Counters, Renderer, Depth
  <2>5. result' \in [Exchanges -> Result] /\ origin' \in [Exchanges -> Origin]
    BY <2>1, <2>2, <2>3 DEF TypeOK
  <2>6. at' \in [Exchanges -> Place]
    BY <1>8, <2>4 DEF Respond, Move, TypeOK
  <2> QED
    BY <1>1, <1>8, <2>5, <2>6 DEF Respond, TypeOK, request
<1> QED
  BY <1>6, <1>7, <1>8, <1>9 DEF Leave

LEMMA TypeDropped ==
  ASSUME TypeOK, NEW e \in Exchanges, TimerFires(e) \/ ClientLeaves(e)
  PROVE  TypeOK'
<1>1. ASSUME NEW from \in Nat, Drop(e, from)
      PROVE  /\ lost' \subseteq Frame
             /\ reader' \in [Exchanges -> Reader]
             /\ fault' \in [Exchanges -> ErrorKind \cup {"none"}]
             /\ UNCHANGED <<case, ext, unread, reads, counters, renderer>>
  <2>1. MetricsFrames(e, from) \subseteq Frame
    BY DEF MetricsFrames, Frame, TypeOK
  <2>2. NoReader \in Reader
    BY DEF NoReader, Reader, Limit, NoLimit, Outcome
  <2> HIDE DEF Reader, NoReader, MetricsFrames
  <2> QED
    BY <1>1, <2>1, <2>2 DEF Drop, TypeOK
<1>2. pos[e] \in Nat /\ pos[e] <= Depth(e) /\ Depth(e) \in Nat
  BY CaseFacts DEF TypeOK, Depth, Chain, Ask
<1>3. ASSUME NEW p \in 1..pos[e], TimesOut(e, p) PROVE TypeOK'
  <2>1. Ok(RequestTimeout) \in Result
    <3>1. Text(408, 15) \in Response
      BY SimpleReplies, KnownStatuses
    <3> QED
      BY <3>1 DEF RequestTimeout, Ok, Result
  <2>2. p \in Nat /\ p - 1 \in Nat /\ p - 1 <= Depth(e)
    BY <1>2
  <2>3. Answer(e, Ok(RequestTimeout), p - 1) /\ Drop(e, p)
    BY <1>3 DEF TimesOut
  <2>4. UNCHANGED case
    BY <2>3 DEF Drop
  <2> HIDE DEF Place, Case, Extensions, Reader, Result, Origin, Counters, Renderer, Depth, Drop
  <2>5. /\ at' \in [Exchanges -> Place]
        /\ pos' \in [Exchanges -> Nat] /\ \A d \in Exchanges : pos'[d] <= Depth(d)'
        /\ result' \in [Exchanges -> Result]
        /\ origin' \in [Exchanges -> Origin]
    BY <2>1, <2>2, <2>3, <2>4, AnswerType
  <2> QED
    BY <1>1, <2>2, <2>3, <2>5 DEF TypeOK
<1>4. CASE ClientLeaves(e)
  <2>1. "gone" \in Place
    BY DEF Place
  <2>2. UNCHANGED case /\ Drop(e, 1)
    BY <1>4 DEF ClientLeaves, Drop
  <2>3. \A d \in Exchanges : Depth(d)' = Depth(d) /\ Depth(d) \in Nat
    BY <2>2, DepthKept, CaseFacts DEF TypeOK, Depth, Chain, Ask
  <2> HIDE DEF Place, Case, Extensions, Reader, Result, Origin, Counters, Renderer, Depth, Drop
  <2>4. at' \in [Exchanges -> Place]
    BY <1>4, <2>1 DEF ClientLeaves, Move, TypeOK
  <2>5. pos' \in [Exchanges -> Nat] /\ \A d \in Exchanges : pos'[d] <= Depth(d)'
    BY <1>4, <2>3 DEF ClientLeaves, TypeOK
  <2> QED
    BY <1>1, <1>4, <2>2, <2>4, <2>5 DEF ClientLeaves, TypeOK, answer
<1> QED
  BY <1>3, <1>4 DEF TimerFires

LEMMA TypeStep == TypeOK /\ [Next]_vars => TypeOK'
<1> SUFFICES ASSUME TypeOK, [Next]_vars PROVE TypeOK'
  OBVIOUS
<1>1. ASSUME NEW e \in Exchanges, Step(e) PROVE TypeOK'
  <2>1. CASE Dispatch(e) \/ Enter(e)
    BY <2>1, TypeDown
  <2>2. CASE Handle(e)
    BY <2>2, TypeRead, TypeFinish DEF Handle
  <2>3. CASE EndsDrain(e)
    BY <2>3, TypeDrained
  <2>4. CASE Leave(e)
    BY <2>4, TypeUp
  <2>5. CASE TimerFires(e) \/ ClientLeaves(e)
    BY <2>5, TypeDropped
  <2> QED
    BY <1>1, <2>1, <2>2, <2>3, <2>4, <2>5 DEF Step
<1>2. ASSUME NEW n \in DOMAIN Renderers, SetErrorHandler(n) PROVE TypeOK'
  <2>1. renderer' \in Renderer
    BY <1>2 DEF SetErrorHandler, Renderer, TypeOK
  <2>2. \A d \in Exchanges : Depth(d)' = Depth(d)
    BY <1>2, DepthKept DEF SetErrorHandler
  <2> HIDE DEF Place, Case, Extensions, Reader, Result, Origin, Counters, Renderer, Depth
  <2> QED
    BY <1>2, <2>1, <2>2 DEF SetErrorHandler, TypeOK, request, answer
<1>3. CASE UNCHANGED vars
  <2>1. \A d \in Exchanges : Depth(d)' = Depth(d)
    BY <1>3, DepthKept DEF vars
  <2> HIDE DEF Place, Case, Extensions, Reader, Result, Origin, Counters, Renderer, Depth
  <2> QED
    BY <1>3, <2>1 DEF vars, TypeOK, request, answer
<1> QED
  BY <1>1, <1>2, <1>3 DEF Next

\* Whatever requests, layers and handlers meet, every variable of an exchange
\* keeps its type; above all, no response has a status that is none.
THEOREM TypeCorrect == Spec => []TypeOK
BY TypeInit, TypeStep, PTL DEF Spec

-----------------------------------------------------------------------------
(***************************************************************************)
(* Metrics.  A frame of a Metrics layer is in Live while it runs; it       *)
(* leaves when its result passes it, or joins lost, above everything that  *)
(* is still alive of its exchange, and nothing of that exchange starts     *)
(* again.                                                                  *)
(***************************************************************************)
Leaving == {"classifying", "up", "done", "gone"}

LostAreAbove == \A f \in lost : f[2] > pos[f[1]] /\ at[f[1]] \in Leaving

InClasses == counters.ok + counters.redirects + counters.client + counters.server

\* The gauge counts the frames that were dropped with those that live.
Balanced ==
  /\ counters.requests = InClasses + Cardinality(Live \cup lost) + Cardinality(Classifying)
  /\ counters.in_flight = Cardinality(Live \cup lost) - Cardinality(Arriving)
  /\ Live \cap lost = {}
  /\ IsFiniteSet(Live \cup lost) /\ IsFiniteSet(Arriving) /\ IsFiniteSet(Classifying)
  /\ LostAreAbove

LEMMA BalancedBalances == TypeOK /\ Balanced => MetricsBalance
<1> SUFFICES ASSUME TypeOK, Balanced PROVE MetricsBalance
  OBVIOUS
<1>1. /\ IsFiniteSet(Live) /\ IsFiniteSet(lost)
      /\ Cardinality(Live) \in Nat /\ Cardinality(lost) \in Nat /\ Cardinality({}) = 0
  <2> HIDE DEF Live
  <2> QED
    BY FS_Subset, FS_CardinalityType, FS_EmptySet DEF Balanced
<1>2. Cardinality(Live \cup lost) = Cardinality(Live) + Cardinality(lost)
  <2>1. Cardinality(Live \cup lost)
          = Cardinality(Live) + Cardinality(lost) - Cardinality(Live \cap lost)
    BY <1>1, FS_Union
  <2>2. Cardinality(Live \cap lost) = 0
    BY <1>1 DEF Balanced
  <2> HIDE DEF Live
  <2> QED
    BY <1>1, <2>1, <2>2
<1>3. lost = {} => Live \cup lost = Live
  OBVIOUS
<1> DEFINE inside == Cardinality(Live \cup lost)
           classifying == Cardinality(Classifying)
<1>4. counters.requests = InClasses + Cardinality(Live) + classifying + Cardinality(lost)
  <2>1. counters.requests = InClasses + inside + classifying
    BY DEF Balanced
  <2>2. InClasses \in Nat /\ classifying \in Nat
    BY FS_CardinalityType DEF TypeOK, Counters, InClasses, Balanced
  <2> HIDE DEF InClasses, classifying
  <2> QED
    BY <1>1, <1>2, <2>1, <2>2
<1> HIDE DEF Live, Classifying, Arriving
<1> QED
  BY <1>3, <1>4 DEF Balanced, MetricsBalance, InClasses

Counts(e, p) == p \in 1..pos[e] /\ IsLayer(e, p, "metrics")

LEMMA LiveFrames == \A f : f \in Live <=> \E e \in Exchanges : \E p : Counts(e, p) /\ f = <<e, p>>
BY DEF Live, MetricsFrames, Counts

LEMMA LiveFramesNext == \A f : f \in Live' <=> \E e \in Exchanges : \E p : Counts(e, p)' /\ f = <<e, p>>
BY DEF Live, MetricsFrames, Counts

LEMMA LivePairs ==
  ASSUME NEW e \in Exchanges, NEW p
  PROVE  /\ <<e, p>> \in Live <=> Counts(e, p)
         /\ <<e, p>> \in Live' <=> Counts(e, p)'
<1> HIDE DEF Counts, Live
<1> QED
  BY LiveFrames, LiveFramesNext

AtCounters == {"arriving", "classifying"}

\* What every step but those at a Metrics layer does to the frames.
Ordinary(e) ==
  /\ Step(e)
  /\ ~EnterMetrics(e) /\ ~EnterFlight(e) /\ ~LeaveMetrics(e) /\ ~Classify(e)
  /\ ~TimerFires(e) /\ ~ClientLeaves(e)

LEMMA OrdinaryFrames ==
  ASSUME TypeOK, NEW e \in Exchanges, Ordinary(e)
  PROVE  /\ UNCHANGED <<case, lost, counters>>
         /\ \A d \in Exchanges : d # e => pos'[d] = pos[d] /\ at'[d] = at[d]
         /\ at[e] \in Leaving => at'[e] \in Leaving /\ pos'[e] <= pos[e]
         /\ at[e] \notin AtCounters /\ at'[e] \notin AtCounters
         /\ \/ pos'[e] = pos[e]
            \/ pos'[e] = pos[e] + 1 /\ ~IsLayer(e, pos[e] + 1, "metrics")
            \/ pos'[e] = pos[e] - 1 /\ ~IsLayer(e, pos[e], "metrics")
<1>0. pos[e] \in Nat /\ pos \in [Exchanges -> Nat] /\ at \in [Exchanges -> Place]
  BY DEF TypeOK
<1>1. CASE Dispatch(e)
  BY <1>0, <1>1 DEF Dispatch, Move, Leaving, AtCounters
<1>2. CASE AnswerPreflight(e)
  BY <1>0, <1>2 DEF AnswerPreflight, Meets, Reaches, Answer, Move, Leaving, AtCounters, IsLayer, Next1
<1>3. CASE BlockForgery(e)
  BY <1>0, <1>3 DEF BlockForgery, Meets, Reaches, Answer, Move, Leaving, AtCounters
<1>4. CASE RejectOversized(e)
  BY <1>0, <1>4 DEF RejectOversized, Meets, Reaches, Move, Leaving, AtCounters, IsLayer, Next1
<1>5. CASE PassThrough(e)
  BY <1>0, <1>5 DEF PassThrough, Reaches, Stopped, Leaving, AtCounters, Next1
<1>6. CASE Call(e)
  BY <1>0, <1>6 DEF Call, Move, Leaving, AtCounters
<1>7. CASE Handle(e)
  <2>1. /\ UNCHANGED <<case, lost, counters>>
        /\ at[e] = "handler"
        /\ \/ UNCHANGED at
           \/ \E place \in {"handler", "draining", "up"} : Move(e, place)
        /\ pos'[e] = pos[e]
        /\ \A d \in Exchanges : pos'[d] = pos[d]
    <3>1. CASE \/ \E kind \in Ask(e).reads : OpenReader(e, kind)
               \/ BodyEnds(e)
               \/ \E k \in ErrorKind : BodyBreaks(e, k) \/ Access(e, k)
      BY <3>1 DEF OpenReader, BodyEnds, BodyBreaks, Access, Free, Handling
    <3>2. CASE \E n \in 1..unread[e] : ChunkFits(e, n) \/ ChunkTooMuch(e, n)
      BY <3>2 DEF ChunkFits, ChunkTooMuch, Handling
    <3>3. CASE Finish(e) \/ Fail(e) \/ ServeFromDir(e)
      BY <1>0, <3>3 DEF Finish, Fail, ServeFromDir, FinishWith, Answer, Free, Handling
    <3> QED
      BY <1>7, <3>1, <3>2, <3>3 DEF Handle
  <2> QED
    BY <1>0, <2>1 DEF Move, Leaving, AtCounters
<1>8. CASE EndsDrain(e)
  BY <1>0, <1>8 DEF EndsDrain, Drained, Answer, Move, Leaving, AtCounters, answer
<1>9. CASE LeaveLayer(e)
  BY <1>0, <1>9 DEF LeaveLayer, Climbs, Leaving, AtCounters
<1>10. CASE Respond(e)
  BY <1>0, <1>10 DEF Respond, Move, Leaving, AtCounters
<1> QED
  BY <1>1, <1>2, <1>3, <1>4, <1>5, <1>6, <1>7, <1>8, <1>9, <1>10 DEF Ordinary, Step, Enter, Leave

LEMMA SameFrames ==
  ASSUME TypeOK, Balanced, UNCHANGED <<lost, counters>>,
         \A d \in Exchanges : \A p : Counts(d, p)' <=> Counts(d, p),
         \A d \in Exchanges : at[d] \in Leaving => at'[d] \in Leaving /\ pos'[d] <= pos[d],
         UNCHANGED <<Arriving, Classifying>>, TypeOK'
  PROVE  Balanced'
<1>1. Live' = Live
  <2> HIDE DEF Live, Counts
  <2> QED
    BY LiveFrames, LiveFramesNext
<1>2. LostAreAbove'
  <2> SUFFICES ASSUME NEW f \in lost PROVE f[2] > pos'[f[1]] /\ at'[f[1]] \in Leaving
    BY DEF LostAreAbove
  <2>1. f[1] \in Exchanges /\ f[2] \in Nat
    BY DEF TypeOK, Frame
  <2>2. f[2] > pos[f[1]] /\ at[f[1]] \in Leaving
    BY DEF Balanced, LostAreAbove
  <2>3. pos[f[1]] \in Nat /\ pos'[f[1]] \in Nat
    BY <2>1 DEF TypeOK
  <2> HIDE DEF Leaving
  <2> QED
    BY <2>1, <2>2, <2>3
<1> HIDE DEF Live, LostAreAbove, Arriving, Classifying
<1> QED
  BY <1>1, <1>2 DEF Balanced, InClasses

\* Whoever goes from one counter to the next.
LEMMA Moved ==
  ASSUME at \in [Exchanges -> Place], NEW e \in Exchanges, NEW from, NEW place,
         at[e] = from, Move(e, place), from # place
  PROVE  /\ Arriving' = IF place = "arriving" THEN Arriving \cup {e}
                        ELSE Arriving \ {e}
         /\ Classifying' = IF place = "classifying" THEN Classifying \cup {e}
                           ELSE Classifying \ {e}
         /\ e \in Arriving <=> from = "arriving"
         /\ e \in Classifying <=> from = "classifying"
BY DEF Arriving, Classifying, Move

LEMMA MovedCount ==
  ASSUME TypeOK, Balanced, NEW e \in Exchanges, NEW from, NEW place,
         at[e] = from, Move(e, place), from # place
  PROVE  /\ IsFiniteSet(Arriving') /\ IsFiniteSet(Classifying')
         /\ Cardinality(Arriving) \in Nat /\ Cardinality(Classifying) \in Nat
         /\ Cardinality(Arriving') = CASE place = "arriving" -> Cardinality(Arriving) + 1
                                       [] from = "arriving" -> Cardinality(Arriving) - 1
                                       [] OTHER -> Cardinality(Arriving)
         /\ Cardinality(Classifying') = CASE place = "classifying" -> Cardinality(Classifying) + 1
                                          [] from = "classifying" -> Cardinality(Classifying) - 1
                                          [] OTHER -> Cardinality(Classifying)
<1>1. /\ Arriving' = IF place = "arriving" THEN Arriving \cup {e} ELSE Arriving \ {e}
      /\ Classifying' = IF place = "classifying" THEN Classifying \cup {e} ELSE Classifying \ {e}
      /\ e \in Arriving <=> from = "arriving"
      /\ e \in Classifying <=> from = "classifying"
  <2>1. at \in [Exchanges -> Place]
    BY DEF TypeOK
  <2> QED
    BY <2>1, Moved
<1>2. IsFiniteSet(Arriving) /\ IsFiniteSet(Classifying)
  BY DEF Balanced
<1> HIDE DEF Arriving, Classifying
<1>3. ASSUME NEW S, IsFiniteSet(S)
      PROVE  /\ Cardinality(S) \in Nat
             /\ IsFiniteSet(S \cup {e}) /\ IsFiniteSet(S \ {e})
             /\ Cardinality(S \cup {e}) = IF e \in S THEN Cardinality(S) ELSE Cardinality(S) + 1
             /\ Cardinality(S \ {e}) = IF e \in S THEN Cardinality(S) - 1 ELSE Cardinality(S)
  BY <1>3, FS_AddElement, FS_RemoveElement, FS_CardinalityType
<1>4. CASE place = "arriving"
  BY <1>1, <1>2, <1>3, <1>4
<1>5. CASE place = "classifying"
  BY <1>1, <1>2, <1>3, <1>5
<1>6. CASE place \notin {"arriving", "classifying"}
  BY <1>1, <1>2, <1>3, <1>6
<1> QED
  BY <1>4, <1>5, <1>6

LEMMA EnterBalanced ==
  ASSUME TypeOK, Balanced, NEW e \in Exchanges, EnterMetrics(e)
  PROVE  Balanced'
<1> DEFINE f == <<e, pos[e] + 1>>
<1>0. /\ pos \in [Exchanges -> Nat] /\ pos[e] \in Nat
      /\ at[e] = "down"
      /\ pos' = [pos EXCEPT ![e] = pos[e] + 1]
      /\ IsLayer(e, pos[e] + 1, "metrics")
      /\ UNCHANGED <<case, lost>>
      /\ Move(e, "arriving") /\ \A d \in Exchanges \ {e} : at'[d] = at[d]
      /\ counters' = [counters EXCEPT !.requests = @ + 1]
  BY DEF EnterMetrics, Meets, Reaches, Next1, Move, TypeOK
<1>1. Live' = Live \cup {f}
  <2>1. \A d \in Exchanges : \A p : Counts(d, p)' <=> Counts(d, p) \/ <<d, p>> = f
    <3> SUFFICES ASSUME NEW d \in Exchanges, NEW p
                 PROVE  Counts(d, p)' <=> Counts(d, p) \/ <<d, p>> = f
      OBVIOUS
    <3>0. IsLayer(d, p, "metrics")' <=> IsLayer(d, p, "metrics")
      BY <1>0 DEF IsLayer, Chain, Ask
    <3>1. CASE d = e
      <4>1. p \in 1..(pos[e] + 1) <=> p \in 1..pos[e] \/ p = pos[e] + 1
        BY <1>0
      <4>2. pos'[d] = pos[e] + 1
        BY <1>0, <3>1
      <4>3. <<d, p>> = f <=> p = pos[e] + 1
        BY <3>1
      <4> QED
        BY <1>0, <3>0, <3>1, <4>1, <4>2, <4>3 DEF Counts
    <3>2. CASE d # e
      BY <1>0, <3>0, <3>2 DEF Counts
    <3> QED
      BY <3>1, <3>2
  <2> HIDE DEF Live, Counts
  <2> QED
    BY <2>1, LiveFrames, LiveFramesNext
<1>2. f \notin Live \cup lost
  <2>1. f \notin Live
    <3>1. ~Counts(e, pos[e] + 1)
      BY <1>0 DEF Counts
    <3> HIDE DEF Live, Counts
    <3> QED
      BY <3>1, LivePairs
  <2>2. f \notin lost
    BY <1>0 DEF Balanced, LostAreAbove, Leaving
  <2> QED
    BY <2>1, <2>2
<1>3. Live' \cup lost' = (Live \cup lost) \cup {f}
  BY <1>0, <1>1
<1>4. LostAreAbove'
  <2> SUFFICES ASSUME NEW g \in lost PROVE g[2] > pos'[g[1]] /\ at'[g[1]] \in Leaving
    BY <1>0 DEF LostAreAbove
  <2>1. g[1] # e /\ g[1] \in Exchanges
    BY <1>0 DEF Balanced, LostAreAbove, Leaving, TypeOK, Frame
  <2> QED
    BY <1>0, <2>1 DEF Balanced, LostAreAbove
<1>5. /\ IsFiniteSet(Live' \cup lost')
      /\ Cardinality(Live' \cup lost') = Cardinality(Live \cup lost) + 1
  <2> HIDE DEF Live, f
  <2> QED
    BY <1>2, <1>3, FS_AddElement DEF Balanced
<1>6. Live' \cap lost' = {}
  <2> HIDE DEF Live, f
  <2> QED
    BY <1>0, <1>1, <1>2 DEF Balanced
<1>7. counters \in Counters
  BY DEF TypeOK
<1>8. InClasses' = InClasses /\ InClasses \in Nat
      /\ counters'.requests = counters.requests + 1
      /\ counters'.in_flight = counters.in_flight
  BY <1>0, <1>7 DEF Counters, InClasses
<1>9. /\ IsFiniteSet(Arriving') /\ IsFiniteSet(Classifying')
      /\ Cardinality(Arriving) \in Nat /\ Cardinality(Classifying) \in Nat
      /\ Cardinality(Arriving') = Cardinality(Arriving) + 1
      /\ Cardinality(Classifying') = Cardinality(Classifying)
  BY <1>0, MovedCount
<1>10. Cardinality(Live \cup lost) \in Nat
  BY FS_CardinalityType DEF Balanced
<1> HIDE DEF Live, LostAreAbove, Arriving, Classifying, InClasses
<1> QED
  BY <1>4, <1>5, <1>6, <1>8, <1>9, <1>10 DEF Balanced

LEMMA FlightBalanced ==
  ASSUME TypeOK, TypeOK', Balanced, NEW e \in Exchanges, EnterFlight(e)
  PROVE  Balanced'
<1>0. /\ at[e] = "arriving" /\ Move(e, "down")
      /\ UNCHANGED <<case, pos, lost>>
      /\ counters' = [counters EXCEPT !.in_flight = @ + 1]
  BY DEF EnterFlight
<1>1. Live' = Live
  BY <1>0 DEF Live, MetricsFrames, IsLayer, Chain, Ask
<1>2. LostAreAbove'
  BY <1>0 DEF Balanced, LostAreAbove, Leaving, Move, TypeOK, Frame
<1>3. counters \in Counters
  BY DEF TypeOK
<1>4. InClasses' = InClasses
      /\ counters'.requests = counters.requests
      /\ counters'.in_flight = counters.in_flight + 1
  BY <1>0, <1>3 DEF Counters, InClasses
<1>5. /\ IsFiniteSet(Arriving') /\ IsFiniteSet(Classifying')
      /\ Cardinality(Arriving) \in Nat
      /\ Cardinality(Arriving') = Cardinality(Arriving) - 1
      /\ Cardinality(Classifying') = Cardinality(Classifying)
  BY <1>0, MovedCount
<1>6. Cardinality(Live \cup lost) \in Nat
  BY FS_CardinalityType DEF Balanced
<1> HIDE DEF Live, LostAreAbove, Arriving, Classifying, InClasses
<1> QED
  BY <1>0, <1>1, <1>2, <1>4, <1>5, <1>6 DEF Balanced

LEMMA LeaveBalanced ==
  ASSUME TypeOK, Balanced, NEW e \in Exchanges, LeaveMetrics(e)
  PROVE  Balanced'
<1> DEFINE f == <<e, pos[e]>>
<1>0. /\ pos \in [Exchanges -> Nat] /\ pos[e] \in Nat /\ pos[e] > 0
      /\ at[e] = "up"
      /\ pos' = [pos EXCEPT ![e] = pos[e] - 1]
      /\ IsLayer(e, pos[e], "metrics")
      /\ UNCHANGED <<case, lost>>
      /\ Move(e, "classifying")
      /\ at'[e] \in Leaving /\ \A d \in Exchanges \ {e} : at'[d] = at[d]
      /\ counters' = [counters EXCEPT !.in_flight = @ - 1]
  BY DEF LeaveMetrics, Climbs, Move, Leaving, TypeOK
<1>1. Live' = Live \ {f}
  <2>1. \A d \in Exchanges : \A p : Counts(d, p)' <=> Counts(d, p) /\ <<d, p>> # f
    <3> SUFFICES ASSUME NEW d \in Exchanges, NEW p
                 PROVE  Counts(d, p)' <=> Counts(d, p) /\ <<d, p>> # f
      OBVIOUS
    <3>0. IsLayer(d, p, "metrics")' <=> IsLayer(d, p, "metrics")
      BY <1>0 DEF IsLayer, Chain, Ask
    <3>1. CASE d = e
      <4>1. p \in 1..(pos[e] - 1) <=> p \in 1..pos[e] /\ p # pos[e]
        BY <1>0
      <4>2. pos'[d] = pos[e] - 1
        BY <1>0, <3>1
      <4>3. <<d, p>> = f <=> p = pos[e]
        BY <3>1
      <4> QED
        BY <1>0, <3>0, <3>1, <4>1, <4>2, <4>3 DEF Counts
    <3>2. CASE d # e
      BY <1>0, <3>0, <3>2 DEF Counts
    <3> QED
      BY <3>1, <3>2
  <2> HIDE DEF Live, Counts
  <2> QED
    BY <2>1, LiveFrames, LiveFramesNext
<1>2. f \in Live
  <2>1. Counts(e, pos[e])
    BY <1>0 DEF Counts
  <2> HIDE DEF Live, Counts
  <2> QED
    BY <2>1, LivePairs
<1>3. f \notin lost
  BY <1>0 DEF Balanced, LostAreAbove
<1>4. Live' \cup lost' = (Live \cup lost) \ {f} /\ Live' \cap lost' = {}
  <2> HIDE DEF Live, f
  <2> QED
    BY <1>0, <1>1, <1>3 DEF Balanced
<1>5. LostAreAbove'
  <2> SUFFICES ASSUME NEW g \in lost PROVE g[2] > pos'[g[1]] /\ at'[g[1]] \in Leaving
    BY <1>0 DEF LostAreAbove
  <2>1. g[1] \in Exchanges /\ g[2] \in Nat /\ g[2] > pos[g[1]] /\ at[g[1]] \in Leaving
    BY DEF Balanced, LostAreAbove, TypeOK, Frame
  <2> HIDE DEF Leaving
  <2> QED
    BY <1>0, <2>1
<1>6. /\ IsFiniteSet(Live' \cup lost')
      /\ Cardinality(Live' \cup lost') = Cardinality(Live \cup lost) - 1
  <2> HIDE DEF Live, f
  <2> QED
    BY <1>2, <1>4, FS_RemoveElement DEF Balanced
<1>7. counters \in Counters
  BY DEF TypeOK
<1>8. InClasses' = InClasses /\ InClasses \in Nat
      /\ counters'.requests = counters.requests
      /\ counters'.in_flight = counters.in_flight - 1
  BY <1>0, <1>7 DEF Counters, InClasses
<1>9. /\ IsFiniteSet(Arriving') /\ IsFiniteSet(Classifying')
      /\ Cardinality(Arriving) \in Nat /\ Cardinality(Classifying) \in Nat
      /\ Cardinality(Arriving') = Cardinality(Arriving)
      /\ Cardinality(Classifying') = Cardinality(Classifying) + 1
  BY <1>0, MovedCount
<1>10. Cardinality(Live \cup lost) \in Nat
  BY FS_CardinalityType DEF Balanced
<1> HIDE DEF Live, LostAreAbove, Arriving, Classifying, InClasses
<1> QED
  BY <1>4, <1>5, <1>6, <1>8, <1>9, <1>10 DEF Balanced

LEMMA ClassifyBalanced ==
  ASSUME TypeOK, Balanced, NEW e \in Exchanges, Classify(e)
  PROVE  Balanced'
<1> DEFINE class == ClassOf(result[e])
<1>0. /\ at[e] = "classifying" /\ Move(e, "up")
      /\ UNCHANGED <<case, pos, lost>>
      /\ counters' = [counters EXCEPT ![class] = @ + 1]
  BY DEF Classify
<1>1. Live' = Live
  BY <1>0 DEF Live, MetricsFrames, IsLayer, Chain, Ask
<1>2. LostAreAbove'
  BY <1>0 DEF Balanced, LostAreAbove, Leaving, Move, TypeOK, Frame
<1>3. counters \in Counters /\ class \in {"ok", "redirects", "client", "server"}
  <2>1. result[e] \in Result
    BY DEF TypeOK
  <2> QED
    BY <2>1, ClassType DEF TypeOK
<1> HIDE DEF class
<1>4. InClasses' = InClasses + 1 /\ InClasses \in Nat
      /\ counters'.requests = counters.requests
      /\ counters'.in_flight = counters.in_flight
  BY <1>0, <1>3 DEF Counters, InClasses
<1>5. /\ IsFiniteSet(Arriving') /\ IsFiniteSet(Classifying')
      /\ Cardinality(Arriving') = Cardinality(Arriving)
      /\ Cardinality(Classifying) \in Nat
      /\ Cardinality(Classifying') = Cardinality(Classifying) - 1
  BY <1>0, MovedCount
<1>6. Cardinality(Live \cup lost) \in Nat
  BY FS_CardinalityType DEF Balanced
<1> HIDE DEF Live, LostAreAbove, Arriving, Classifying, InClasses
<1> QED
  BY <1>0, <1>1, <1>2, <1>4, <1>5, <1>6 DEF Balanced

\* The frames from the first on are dropped, those below it stay.
LEMMA DropBalanced ==
  ASSUME TypeOK, TypeOK', Balanced, NEW e \in Exchanges, NEW from \in Nat, from > 0,
         Pending(e), Drop(e, from), pos' = [pos EXCEPT ![e] = from - 1],
         from <= pos[e] + 1,
         at' \in [Exchanges -> Place], at'[e] \in Leaving \ AtCounters,
         \A d \in Exchanges : d # e => at'[d] = at[d]
  PROVE  Balanced'
<1>0. /\ pos \in [Exchanges -> Nat] /\ pos[e] \in Nat
      /\ UNCHANGED <<case, counters>>
      /\ lost' = lost \cup MetricsFrames(e, from)
      /\ at[e] \notin Leaving
  BY DEF Drop, TypeOK, Pending, Leaving
<1>1. \A d \in Exchanges : \A p :
        /\ <<d, p>> \in MetricsFrames(e, from) <=> d = e /\ p >= from /\ Counts(e, p)
        /\ Counts(d, p)' <=> Counts(d, p) /\ <<d, p>> \notin MetricsFrames(e, from)
  <2> SUFFICES ASSUME NEW d \in Exchanges, NEW p
               PROVE  /\ <<d, p>> \in MetricsFrames(e, from) <=> d = e /\ p >= from /\ Counts(e, p)
                      /\ Counts(d, p)' <=> Counts(d, p) /\ <<d, p>> \notin MetricsFrames(e, from)
    OBVIOUS
  <2>0. IsLayer(d, p, "metrics")' <=> IsLayer(d, p, "metrics")
    BY <1>0 DEF IsLayer, Chain, Ask
  <2>1. <<d, p>> \in MetricsFrames(e, from) <=> d = e /\ p \in from..pos[e] /\ IsLayer(e, p, "metrics")
    BY DEF MetricsFrames
  <2>2. p \in from..pos[e] <=> p \in 1..pos[e] /\ p >= from
    BY <1>0
  <2>3. CASE d = e
    <3>1. p \in 1..pos'[e] <=> p \in 1..pos[e] /\ ~(p >= from)
      BY <1>0
    <3> QED
      BY <2>0, <2>1, <2>2, <2>3, <3>1 DEF Counts
  <2>4. CASE d # e
    <3>1. pos'[d] = pos[d]
      BY <1>0, <2>4
    <3> QED
      BY <2>0, <2>1, <2>4, <3>1 DEF Counts
  <2> QED
    BY <2>1, <2>2, <2>3, <2>4 DEF Counts
<1>2. \A f \in MetricsFrames(e, from) : f[1] = e /\ f[2] \in from..pos[e] /\ f = <<e, f[2]>>
  BY DEF MetricsFrames
<1>3. Live' = Live \ MetricsFrames(e, from) /\ MetricsFrames(e, from) \subseteq Live
  <2> HIDE DEF Live, Counts, MetricsFrames
  <2> QED
    BY <1>1, <1>2, LiveFrames, LiveFramesNext
<1>4. Live' \cup lost' = Live \cup lost /\ Live' \cap lost' = {}
  <2> HIDE DEF Live, MetricsFrames
  <2> QED
    BY <1>0, <1>3 DEF Balanced
<1>5. LostAreAbove'
  <2> SUFFICES ASSUME NEW g \in lost' PROVE g[2] > pos'[g[1]] /\ at'[g[1]] \in Leaving
    BY DEF LostAreAbove
  <2>1. CASE g \in lost
    <3>1. g[1] \in Exchanges /\ g[1] # e /\ g[2] > pos[g[1]] /\ at[g[1]] \in Leaving
      BY <1>0, <2>1 DEF Balanced, LostAreAbove, TypeOK, Frame
    <3> QED
      BY <1>0, <3>1
  <2>2. CASE g \in MetricsFrames(e, from)
    <3>1. g[1] = e /\ g[2] >= from
      BY <1>0, <1>2, <2>2
    <3>2. g[2] \in Nat
      BY <1>0, <1>2, <2>2
    <3> QED
      BY <1>0, <3>1, <3>2
  <2> QED
    BY <1>0, <2>1, <2>2
<1>6. UNCHANGED <<Arriving, Classifying>>
  BY DEF Arriving, Classifying, Pending, AtCounters
<1> HIDE DEF Live, LostAreAbove, Arriving, Classifying
<1> QED
  BY <1>0, <1>4, <1>5, <1>6 DEF Balanced, InClasses

LEMMA BalancedInit == Init => Balanced
<1> SUFFICES ASSUME Init PROVE Balanced
  OBVIOUS
<1>1. Live = {}
  <2>1. \A e \in Exchanges : \A p : ~Counts(e, p)
    BY DEF Init, Counts
  <2> HIDE DEF Live, Counts
  <2> QED
    BY <2>1, LiveFrames
<1>2. lost = {} /\ Arriving = {} /\ Classifying = {}
  BY DEF Init, Arriving, Classifying
<1>3. counters.requests = InClasses /\ counters.in_flight = 0 /\ InClasses \in Nat
  BY DEF Init, InClasses
<1>4. LostAreAbove
  BY <1>2 DEF LostAreAbove
<1> HIDE DEF Live, Arriving, Classifying, InClasses
<1> QED
  BY <1>1, <1>2, <1>3, <1>4, FS_EmptySet DEF Balanced

LEMMA BalancedStep == TypeOK /\ TypeOK' /\ Balanced /\ [Next]_vars => Balanced'
<1> SUFFICES ASSUME TypeOK, TypeOK', Balanced, [Next]_vars PROVE Balanced'
  OBVIOUS
<1>0. pos \in [Exchanges -> Nat] /\ pos' \in [Exchanges -> Nat] /\ at' \in [Exchanges -> Place]
  BY DEF TypeOK
<1>1. ASSUME NEW e \in Exchanges, Step(e) PROVE Balanced'
  <2>1. CASE EnterMetrics(e)
    BY <2>1, EnterBalanced
  <2>2. CASE LeaveMetrics(e)
    BY <2>2, LeaveBalanced
  <2>6. CASE EnterFlight(e)
    BY <2>6, FlightBalanced
  <2>7. CASE Classify(e)
    BY <2>7, ClassifyBalanced
  <2>3. ASSUME NEW p \in 1..pos[e], TimesOut(e, p) PROVE Balanced'
    <3>1. p \in Nat /\ p > 0 /\ p <= pos[e] + 1
      BY <1>0
    <3>2. /\ Pending(e) /\ Drop(e, p) /\ pos' = [pos EXCEPT ![e] = p - 1]
          /\ at'[e] \in Leaving \ AtCounters
          /\ \A d \in Exchanges : d # e => at'[d] = at[d]
      BY <2>3 DEF TimesOut, Answer, Move, Leaving, AtCounters, TypeOK
    <3> HIDE DEF Pending, Drop, Leaving, AtCounters
    <3> QED
      BY <1>0, <3>1, <3>2, DropBalanced
  <2>4. CASE ClientLeaves(e)
    <3>1. /\ Pending(e) /\ Drop(e, 1) /\ pos' = [pos EXCEPT ![e] = 1 - 1]
          /\ at'[e] \in Leaving \ AtCounters
          /\ \A d \in Exchanges : d # e => at'[d] = at[d]
      BY <2>4 DEF ClientLeaves, Move, Leaving, AtCounters, TypeOK
    <3>2. 1 \in Nat /\ 1 > 0 /\ 1 <= pos[e] + 1
      BY <1>0
    <3> HIDE DEF Pending, Drop, Leaving, AtCounters
    <3> QED
      BY <1>0, <3>1, <3>2, DropBalanced
  <2>5. CASE Ordinary(e)
    <3>1. /\ UNCHANGED <<case, lost, counters>>
          /\ \A d \in Exchanges : d # e => pos'[d] = pos[d] /\ at'[d] = at[d]
          /\ at[e] \in Leaving => at'[e] \in Leaving /\ pos'[e] <= pos[e]
          /\ at[e] \notin AtCounters /\ at'[e] \notin AtCounters
          /\ \/ pos'[e] = pos[e]
             \/ pos'[e] = pos[e] + 1 /\ ~IsLayer(e, pos[e] + 1, "metrics")
             \/ pos'[e] = pos[e] - 1 /\ ~IsLayer(e, pos[e], "metrics")
      BY <2>5, OrdinaryFrames
    <3>2. ASSUME NEW d \in Exchanges, NEW p PROVE Counts(d, p)' <=> Counts(d, p)
      <4>0. IsLayer(d, p, "metrics")' <=> IsLayer(d, p, "metrics")
        BY <3>1 DEF IsLayer, Chain, Ask
      <4>1. CASE d # e \/ pos'[e] = pos[e]
        BY <3>1, <4>0, <4>1 DEF Counts
      <4>2. CASE d = e /\ pos'[e] = pos[e] + 1 /\ ~IsLayer(e, pos[e] + 1, "metrics")
        <5>1. p \in 1..pos'[e] <=> p \in 1..pos[e] \/ p = pos[e] + 1
          BY <1>0, <4>2
        <5> QED
          BY <4>0, <4>2, <5>1 DEF Counts
      <4>3. CASE d = e /\ pos'[e] = pos[e] - 1 /\ ~IsLayer(e, pos[e], "metrics")
        <5>1. p \in 1..pos[e] <=> p \in 1..pos'[e] \/ p = pos[e]
          BY <1>0, <4>3
        <5> QED
          BY <4>0, <4>3, <5>1 DEF Counts
      <4> QED
        BY <3>1, <4>1, <4>2, <4>3
    <3>3. \A d \in Exchanges : at[d] \in Leaving => at'[d] \in Leaving /\ pos'[d] <= pos[d]
      BY <1>0, <3>1
    <3>4. UNCHANGED <<Arriving, Classifying>>
      BY <3>1 DEF Arriving, Classifying, AtCounters
    <3> HIDE DEF Arriving, Classifying
    <3> QED
      BY <3>1, <3>2, <3>3, <3>4, SameFrames
  <2> QED
    BY <1>1, <2>1, <2>2, <2>3, <2>4, <2>5, <2>6, <2>7 DEF Ordinary, TimerFires
<1>2. ASSUME UNCHANGED <<case, at, pos, lost, counters>> PROVE Balanced'
  <2>1. \A d \in Exchanges : \A p : Counts(d, p)' <=> Counts(d, p)
    BY <1>2 DEF Counts, IsLayer, Chain, Ask
  <2>2. \A d \in Exchanges : at[d] \in Leaving => at'[d] \in Leaving /\ pos'[d] <= pos[d]
    BY <1>0, <1>2
  <2>3. UNCHANGED <<Arriving, Classifying>>
    BY <1>2 DEF Arriving, Classifying
  <2> QED
    BY <1>2, <2>1, <2>2, <2>3, SameFrames
<1> QED
  BY <1>1, <1>2 DEF Next, SetErrorHandler, vars

\* Metrics: any number of requests with any chains, nested Metrics included:
\* every request counted is in one class, inside the layer, about to be
\* classified or dropped, and the gauge is right until one is dropped.
THEOREM MetricsAddUp == Spec => []MetricsBalance
BY TypeInit, TypeStep, BalancedInit, BalancedStep, BalancedBalances, PTL DEF Spec

-----------------------------------------------------------------------------
(* A step of one exchange leaves the others where they are. *)

Untouched(d) ==
  /\ at'[d] = at[d] /\ pos'[d] = pos[d] /\ ext'[d] = ext[d]
  /\ unread'[d] = unread[d] /\ reader'[d] = reader[d]
  /\ result'[d] = result[d] /\ origin'[d] = origin[d]

Typed ==
  /\ at \in [Exchanges -> Place] /\ pos \in [Exchanges -> Nat]
  /\ ext \in [Exchanges -> Extensions] /\ unread \in [Exchanges -> Nat]
  /\ reader \in [Exchanges -> Reader] /\ result \in [Exchanges -> Result]
  /\ origin \in [Exchanges -> Origin]

LEMMA OthersUntouched ==
  ASSUME TypeOK, NEW e \in Exchanges, Step(e)
  PROVE  UNCHANGED case /\ \A d \in Exchanges : d # e => Untouched(d)
<1>0. Typed
  BY DEF Typed, TypeOK
<1> HIDE DEF Place, Extensions, Reader, Result, Origin
<1> USE <1>0 DEF Typed, Untouched
<1>1. CASE Dispatch(e)
  BY <1>1 DEF Dispatch, Move, request, answer
<1>2. CASE Enter(e)
  BY <1>2 DEF Enter, EnterMetrics, EnterFlight, AnswerPreflight, BlockForgery, RejectOversized, PassThrough,
              Call, Answer, Move, request, answer
<1>3. CASE Handle(e)
  <2>1. CASE \E kind \in Ask(e).reads : OpenReader(e, kind)
    BY <2>1 DEF OpenReader, answer
  <2>2. CASE \E n \in 1..unread[e] : ChunkFits(e, n) \/ ChunkTooMuch(e, n)
    BY <2>2 DEF ChunkFits, ChunkTooMuch, Move, answer
  <2>3. CASE BodyEnds(e) \/ \E k \in ErrorKind : BodyBreaks(e, k) \/ Access(e, k)
    BY <2>3 DEF BodyEnds, BodyBreaks, Access, answer
  <2>4. CASE Finish(e) \/ Fail(e) \/ ServeFromDir(e)
    BY <2>4 DEF Finish, Fail, ServeFromDir, FinishWith, Answer, Move, request
  <2> QED
    BY <1>3, <2>1, <2>2, <2>3, <2>4 DEF Handle
<1>4. CASE EndsDrain(e)
  BY <1>4 DEF EndsDrain, Drained, Answer, Move, answer
<1>5. CASE Leave(e)
  BY <1>5 DEF Leave, LeaveMetrics, Classify, LeaveLayer, Respond, Climbs, Move, request, answer
<1>6. CASE TimerFires(e) \/ ClientLeaves(e)
  BY <1>6 DEF TimerFires, TimesOut, ClientLeaves, Drop, Answer, Move, answer
<1> QED
  BY <1>1, <1>2, <1>3, <1>4, <1>5, <1>6 DEF Step

-----------------------------------------------------------------------------
(* Reading the body. *)

Counted(r, left, size) ==
  /\ r.outcome = "reading" => r.got + left = r.before
  /\ r.outcome = "all" => r.got = r.before
  /\ r.outcome = "too large" => r.limit # NoLimit /\ r.got > r.limit /\ r.before > r.limit
  /\ r.outcome \in {"all", "reading"} => ~Exceeds(r.limit, r.got)
  /\ r.before <= size
  /\ left <= size

Reads(e) ==
  /\ Counted(reader[e], unread[e], Ask(e).size)
  /\ at[e] = "draining" => reader[e].outcome # "reading"
  /\ at[e] \in {"new", "down", "arriving"} => reader[e] = NoReader

LEMMA NoReaderCounted ==
  ASSUME NEW left \in Nat, NEW size \in Nat, left <= size
  PROVE  Counted(NoReader, left, size)
BY DEF Counted, NoReader, Exceeds, NoLimit

LEMMA ReadsInit == Init => \A e \in Exchanges : Reads(e)
<1> SUFFICES ASSUME Init, NEW e \in Exchanges PROVE Reads(e)
  OBVIOUS
<1>1. reader[e] = NoReader /\ unread[e] = Ask(e).size /\ at[e] = "new"
  BY DEF Init
<1>2. Ask(e).size \in Nat
  BY TypeInit, CaseFacts DEF TypeOK, Ask
<1>3. Counted(NoReader, Ask(e).size, Ask(e).size)
  BY <1>2, NoReaderCounted
<1> QED
  BY <1>1, <1>3 DEF Reads

\* Steps that touch neither the reader nor the body.
LEMMA ReadsKept ==
  ASSUME NEW e \in Exchanges, Reads(e), Ask(e)' = Ask(e),
         unread'[e] = unread[e], reader'[e] = reader[e],
         at'[e] = "draining" => at[e] \in {"down", "draining"},
         at'[e] \in {"new", "down", "arriving"} => at[e] \in {"new", "down", "arriving"}
  PROVE  Reads(e)'
<1>1. NoReader.outcome # "reading"
  BY DEF NoReader
<1>2. Counted(reader[e], unread[e], Ask(e).size)'
  BY DEF Reads, Counted
<1> QED
  BY <1>1, <1>2 DEF Reads

LEMMA ReadsStep ==
  ASSUME TypeOK, TypeOK', NEW e \in Exchanges, Reads(e), Step(e)
  PROVE  Reads(e)'
<1>0. UNCHANGED case /\ Ask(e)' = Ask(e)
  BY OthersUntouched, DepthKept
<1>1. /\ Typed /\ unread[e] \in Nat /\ unread'[e] \in Nat
      /\ reader[e] \in Reader
  BY DEF TypeOK, Typed
<1>2. Ask(e).size \in Nat
  BY CaseFacts DEF TypeOK, Ask
<1>3. Counted(reader[e], unread[e], Ask(e).size)
  BY DEF Reads
<1>4. /\ reader[e].got \in Nat /\ reader[e].before \in Nat /\ reader[e].limit \in Int
      /\ reader[e].outcome \in Outcome
  BY <1>1 DEF Reader, Limit, NoLimit
<1>5. ASSUME Counted(reader'[e], unread'[e], Ask(e).size),
             \/ at'[e] \in {"handler", "up", "gone"}
             \/ at'[e] = "draining" /\ reader'[e].outcome # "reading"
      PROVE  Reads(e)'
  BY <1>0, <1>5 DEF Reads
<1> HIDE DEF Place, Extensions, Reader, Result, Origin, Counted
<1>10. CASE Dispatch(e) \/ Enter(e)
  <2>1. /\ unread'[e] = unread[e] /\ reader'[e] = reader[e]
        /\ at[e] \in {"new", "down", "arriving"}
    BY <1>10 DEF Dispatch, Enter, EnterMetrics, EnterFlight, AnswerPreflight, BlockForgery, RejectOversized,
                 PassThrough, Call, Meets, Reaches, request
  <2>2. at'[e] = "draining" => at[e] = "down"
    BY <1>1, <1>10 DEF Dispatch, Enter, EnterMetrics, EnterFlight, AnswerPreflight, BlockForgery,
                 RejectOversized, PassThrough, Call, Meets, Reaches, Answer, Move, Typed
  <2> QED
    BY <1>0, <2>1, <2>2, ReadsKept
<1>11. ASSUME NEW kind \in Ask(e).reads, OpenReader(e, kind) PROVE Reads(e)'
  <2> DEFINE r == [kind |-> kind, limit |-> ext[e].limit, before |-> unread[e], got |-> 0,
                   outcome |-> IF Refusal(e, kind) = "none" THEN "reading" ELSE "broken"]
  <2>1. reader'[e] = r /\ unread'[e] = unread[e] /\ at'[e] = "handler"
    BY <1>1, <1>11 DEF OpenReader, Free, Handling, Typed
  <2>2. ext[e].limit \in Limit
    BY <1>1 DEF Typed, Extensions
  <2>3. unread[e] <= Ask(e).size
    BY <1>3 DEF Counted
  <2>4. Counted(r, unread[e], Ask(e).size)
    BY <1>1, <1>2, <2>2, <2>3 DEF Counted, Exceeds, Limit, NoLimit
  <2> HIDE DEF r
  <2> QED
    BY <1>5, <2>1, <2>4
<1>12. ASSUME NEW n \in 1..unread[e], ChunkFits(e, n) PROVE Reads(e)'
  <2> DEFINE r == [reader[e] EXCEPT !.got = reader[e].got + n]
  <2>1. /\ reader'[e] = r /\ unread'[e] = unread[e] - n /\ at'[e] = "handler"
        /\ reader[e].outcome = "reading" /\ ~Exceeds(reader[e].limit, reader[e].got + n)
    BY <1>1, <1>12 DEF ChunkFits, Handling, IsReading, Typed
  <2>2. /\ r.got = reader[e].got + n /\ r.before = reader[e].before
        /\ r.limit = reader[e].limit /\ r.outcome = "reading"
    BY <1>1, <2>1 DEF Reader
  <2> HIDE DEF r
  <2>3. reader[e].got + unread[e] = reader[e].before /\ reader[e].before <= Ask(e).size
        /\ unread[e] <= Ask(e).size
    BY <1>3, <2>1 DEF Counted
  <2>4. (reader[e].got + n) + (unread[e] - n) = reader[e].before /\ unread[e] - n <= Ask(e).size
    BY <1>1, <1>2, <1>4, <2>3
  <2>5. Counted(r, unread[e] - n, Ask(e).size)
    BY <2>1, <2>2, <2>3, <2>4 DEF Counted
  <2> QED
    BY <1>5, <2>1, <2>5
<1>13. ASSUME NEW n \in 1..unread[e], ChunkTooMuch(e, n) PROVE Reads(e)'
  <2> DEFINE r == [reader[e] EXCEPT !.got = reader[e].got + n, !.outcome = "too large"]
  <2>1. /\ reader'[e] = r /\ unread'[e] = unread[e] - n /\ at'[e] \in {"handler", "draining"}
        /\ reader[e].outcome = "reading" /\ Exceeds(reader[e].limit, reader[e].got + n)
    BY <1>1, <1>13 DEF ChunkTooMuch, IsReading, Move, Typed
  <2>2. /\ r.got = reader[e].got + n /\ r.before = reader[e].before
        /\ r.limit = reader[e].limit /\ r.outcome = "too large"
    BY <1>1, <2>1 DEF Reader
  <2> HIDE DEF r
  <2>3. reader[e].got + unread[e] = reader[e].before /\ reader[e].before <= Ask(e).size
        /\ unread[e] <= Ask(e).size
    BY <1>3, <2>1 DEF Counted
  <2>4. /\ reader[e].limit # NoLimit /\ reader[e].got + n > reader[e].limit
        /\ reader[e].before > reader[e].limit /\ unread[e] - n <= Ask(e).size
    BY <1>1, <1>2, <1>4, <2>1, <2>3 DEF Exceeds
  <2>5. Counted(r, unread[e] - n, Ask(e).size)
    BY <2>1, <2>2, <2>3, <2>4 DEF Counted
  <2> QED
    BY <1>5, <2>1, <2>2, <2>5
<1>14. CASE BodyEnds(e)
  <2> DEFINE r == [reader[e] EXCEPT !.outcome = "all"]
  <2>1. /\ reader'[e] = r /\ unread'[e] = unread[e] /\ at'[e] = "handler"
        /\ reader[e].outcome = "reading" /\ unread[e] = 0
    BY <1>1, <1>14 DEF BodyEnds, Handling, IsReading, Typed
  <2>2. /\ r.got = reader[e].got /\ r.before = reader[e].before
        /\ r.limit = reader[e].limit /\ r.outcome = "all"
    BY <1>1, <2>1 DEF Reader
  <2> HIDE DEF r
  <2>3. /\ reader[e].got + 0 = reader[e].before /\ reader[e].before <= Ask(e).size
        /\ unread[e] <= Ask(e).size /\ ~Exceeds(reader[e].limit, reader[e].got)
    BY <1>3, <2>1 DEF Counted
  <2>4. reader[e].got = reader[e].before
    BY <1>4, <2>3
  <2>5. Counted(r, unread[e], Ask(e).size)
    BY <2>2, <2>3, <2>4 DEF Counted
  <2> QED
    BY <1>5, <2>1, <2>5
<1>15. ASSUME NEW k \in ErrorKind, BodyBreaks(e, k) PROVE Reads(e)'
  <2> DEFINE r == [reader[e] EXCEPT !.outcome = "broken"]
  <2>1. reader'[e] = r /\ unread'[e] = unread[e] /\ at'[e] = "handler"
    BY <1>1, <1>15 DEF BodyBreaks, Handling, Typed
  <2>2. r.before = reader[e].before /\ r.outcome = "broken"
    BY <1>1, <2>1 DEF Reader
  <2> HIDE DEF r
  <2>3. Counted(r, unread[e], Ask(e).size)
    BY <1>3, <2>2 DEF Counted
  <2> QED
    BY <1>5, <2>1, <2>3
<1>16. ASSUME NEW k \in ErrorKind, Access(e, k) PROVE Reads(e)'
  <2>1. unread'[e] = unread[e] /\ reader'[e] = reader[e] /\ at'[e] = "handler"
    BY <1>16 DEF Access, Free, Handling
  <2> QED
    BY <1>0, <2>1, ReadsKept
<1>17. CASE Finish(e) \/ Fail(e) \/ ServeFromDir(e)
  <2>1. unread'[e] = unread[e] /\ reader'[e] = reader[e] /\ at'[e] = "up"
    BY <1>1, <1>17 DEF Finish, Fail, ServeFromDir, FinishWith, Answer, Move, request, Typed
  <2> QED
    BY <1>0, <2>1, ReadsKept
<1>18. CASE EndsDrain(e)
  <2>1. PICK left \in 0..unread[e] : Drained(e, left)
    BY <1>18 DEF EndsDrain
  <2>2. /\ unread'[e] = left /\ reader'[e] = reader[e] /\ at'[e] \in {"up", "handler"}
        /\ reader[e].outcome # "reading"
    BY <1>1, <2>1 DEF Drained, Answer, Move, Reads, Typed
  <2>3. left <= Ask(e).size
    <3>1. unread[e] <= Ask(e).size
      BY <1>3 DEF Counted
    <3> QED
      BY <1>1, <1>2, <3>1
  <2>4. Counted(reader[e], left, Ask(e).size)
    BY <1>3, <2>2, <2>3 DEF Counted
  <2> QED
    BY <1>5, <2>2, <2>4
<1>19. CASE Leave(e)
  <2>1. unread'[e] = unread[e] /\ reader'[e] = reader[e] /\ at'[e] \in {"up", "classifying", "done"}
    BY <1>1, <1>19 DEF Leave, LeaveMetrics, Classify, LeaveLayer, Respond, Climbs, Move, request, Typed
  <2> QED
    BY <1>0, <2>1, ReadsKept
<1>20. CASE TimerFires(e) \/ ClientLeaves(e)
  <2>1. unread'[e] = unread[e] /\ reader'[e] = NoReader /\ at'[e] \in {"up", "gone"}
    BY <1>1, <1>20 DEF TimerFires, TimesOut, ClientLeaves, Drop, Answer, Move, Typed
  <2>2. unread[e] <= Ask(e).size
    BY <1>3 DEF Counted
  <2>3. Counted(NoReader, unread[e], Ask(e).size)
    BY <1>1, <1>2, <2>2, NoReaderCounted
  <2> HIDE DEF NoReader
  <2> QED
    BY <1>5, <2>1, <2>3
<1> QED
  BY <1>10, <1>11, <1>12, <1>13, <1>14, <1>15, <1>16, <1>17, <1>18, <1>19, <1>20
     DEF Step, Handle

LEMMA ReadsNext ==
  ASSUME TypeOK, TypeOK', [Next]_vars, \A e \in Exchanges : Reads(e)
  PROVE  \A e \in Exchanges : Reads(e)'
<1>1. ASSUME NEW e \in Exchanges, Step(e), NEW d \in Exchanges, d # e PROVE Reads(d)'
  <2>1. Untouched(d) /\ Ask(d)' = Ask(d)
    BY <1>1, OthersUntouched, DepthKept
  <2> QED
    BY <2>1, ReadsKept DEF Untouched
<1>2. ASSUME UNCHANGED <<case, at, unread, reader>>, NEW d \in Exchanges PROVE Reads(d)'
  <2>1. Ask(d)' = Ask(d)
    BY <1>2, DepthKept
  <2> QED
    BY <1>2, <2>1, ReadsKept
<1> QED
  BY <1>1, <1>2, ReadsStep DEF Next, SetErrorHandler, request, vars

\* Bodies of any length in any chunks, under any limits, with any number of
\* readers: what a read reports about length and limit is true.
THEOREM ReadsAreHonest == Spec => []ReadsHonest
<1>1. (\A e \in Exchanges : Reads(e)) => ReadsHonest
  BY DEF Reads, Counted, ReadsHonest
<1>2. TypeOK /\ TypeOK' /\ (\A e \in Exchanges : Reads(e)) /\ [Next]_vars
      => (\A e \in Exchanges : Reads(e))'
  BY ReadsNext
<1> QED
  BY <1>1, <1>2, TypeInit, TypeStep, ReadsInit, PTL DEF Spec

-----------------------------------------------------------------------------
(* Limits on the way down. *)

Governed(e) ==
  \/ at[e] \in {"down", "arriving", "handler"}
  \/ at[e] = "draining" /\ reader[e].kind # "none"

Allowed(e) ==
  /\ IsInForce(e, ext[e].limit)
  /\ reader[e].kind # "none" => reader[e].limit = ext[e].limit
  /\ Ask(e).declared => \A p \in LimitsAbove(e) : Ask(e).size <= Chain(e)[p].max

Limited(e) ==
  /\ Governed(e) => Allowed(e)
  /\ at[e] = "new" => pos[e] = 0
  /\ at[e] \in {"new", "down", "arriving"} => reader[e] = NoReader

\* Steps that leave the limit and the frames alone.
LEMMA LimitedKept ==
  ASSUME NEW e \in Exchanges, Limited(e), UNCHANGED case,
         pos'[e] = pos[e], ext'[e] = ext[e],
         Governed(e)' => Governed(e),
         reader'[e].kind = "none" \/ (reader'[e].kind = reader[e].kind /\ reader'[e].limit = reader[e].limit),
         at'[e] = "new" => at[e] = "new",
         at'[e] \in {"new", "down", "arriving"} =>
           at[e] \in {"new", "down", "arriving"} /\ reader'[e] = reader[e]
  PROVE  Limited(e)'
<1>1. LimitsAbove(e)' = LimitsAbove(e) /\ Ask(e)' = Ask(e) /\ Chain(e)' = Chain(e)
  BY DEF LimitsAbove, IsLayer, Chain, Ask
<1>2. IsInForce(e, ext[e].limit)' <=> IsInForce(e, ext[e].limit)
  BY <1>1 DEF IsInForce
<1>3. Allowed(e) => Allowed(e)'
  BY <1>1, <1>2 DEF Allowed
<1> HIDE DEF Allowed, Governed
<1> QED
  BY <1>3 DEF Limited

\* Steps after which nobody reads under a limit any more.
LEMMA Ungoverned ==
  ASSUME NEW e \in Exchanges, at'[e] \in {"classifying", "up", "done", "gone"}
  PROVE  Limited(e)'
BY DEF Limited, Governed

LEMMA FrameAdded ==
  ASSUME TypeOK, NEW e \in Exchanges, UNCHANGED case, pos'[e] = pos[e] + 1
  PROVE  LimitsAbove(e)' =
           LimitsAbove(e) \cup (IF IsLayer(e, Next1(e), "body limit") THEN {Next1(e)} ELSE {})
<1>1. \A p : IsLayer(e, p, "body limit")' <=> IsLayer(e, p, "body limit")
  BY DEF IsLayer, Chain, Ask
<1>2. pos[e] \in Nat
  BY DEF TypeOK
<1>3. \A p : p \in 1..pos'[e] <=> p \in 1..pos[e] \/ p = Next1(e)
  BY <1>2 DEF Next1
<1> HIDE DEF Next1, IsLayer
<1> QED
  BY <1>1, <1>3 DEF LimitsAbove

\* A layer that is no BodyLimit changes neither side.
LEMMA OtherFrame ==
  ASSUME TypeOK, NEW e \in Exchanges, Limited(e), UNCHANGED <<case, reader>>,
         at[e] = "down", at'[e] \in {"down", "arriving"}, pos'[e] = pos[e] + 1,
         ext'[e].limit = ext[e].limit,
         ~IsLayer(e, Next1(e), "body limit")
  PROVE  Limited(e)'
<1>1. LimitsAbove(e)' = LimitsAbove(e)
  BY FrameAdded
<1>2. Ask(e)' = Ask(e) /\ Chain(e)' = Chain(e)
  BY DepthKept
<1>3. Allowed(e)
  BY DEF Limited, Governed
<1>4. IsInForce(e, ext[e].limit)'
  BY <1>1, <1>2, <1>3 DEF Allowed, IsInForce
<1>5. Allowed(e)'
  BY <1>1, <1>2, <1>3, <1>4 DEF Allowed
<1> HIDE DEF Allowed
<1> QED
  BY <1>5 DEF Limited

LEMMA Successor == ASSUME NEW p \in Nat PROVE p + 1 \in Nat /\ \A q \in 1..p : q <= p + 1
OBVIOUS

LEMMA TopAdded ==
  ASSUME NEW n \in Nat, NEW S, \A q \in S : q <= n
  PROVE  \A q \in S \cup {n} : q <= n
OBVIOUS

LEMMA NotAbove == \A m, n \in Nat : ~(m > n) => m <= n
OBVIOUS

LEMMA NoReaderIsNone == NoReader.kind = "none"
BY DEF NoReader

LEMMA BodyLimitFrame ==
  ASSUME TypeOK, NEW e \in Exchanges, Limited(e), UNCHANGED <<case, reader>>,
         at[e] = "down", at'[e] = "down", pos'[e] = pos[e] + 1,
         ext'[e].limit = NextLayer(e).max,
         IsLayer(e, Next1(e), "body limit"), ~TooBig(e), Next1(e) \in 1..Depth(e)
  PROVE  Limited(e)'
<1>1. LimitsAbove(e)' = LimitsAbove(e) \cup {Next1(e)}
  BY FrameAdded
<1>2. Ask(e)' = Ask(e) /\ Chain(e)' = Chain(e)
  BY DepthKept
<1>3. Allowed(e) /\ reader[e] = NoReader
  BY DEF Limited, Governed
<1>4. pos[e] \in Nat
  BY DEF TypeOK
<1>5. Next1(e) \in Nat /\ \A q \in 1..pos[e] : q <= Next1(e)
  BY <1>4, Successor DEF Next1
<1>11. \A q \in LimitsAbove(e) : q <= Next1(e)
  BY <1>5 DEF LimitsAbove
<1>6. IsInForce(e, ext[e].limit)'
  <2>1. Next1(e) \in LimitsAbove(e)'
    BY <1>1
  <2>3. ext'[e].limit = Chain(e)'[Next1(e)].max
    BY <1>2 DEF NextLayer
  <2>2. \A q \in LimitsAbove(e)' : q <= Next1(e)
    BY <1>1, <1>5, <1>11, TopAdded
  <2> HIDE DEF LimitsAbove, Next1, Chain
  <2> QED
    BY <2>1, <2>3, <2>2 DEF IsInForce
<1>7. Ask(e).declared => \A p \in LimitsAbove(e)' : Ask(e).size <= Chain(e)[p].max
  <2>1. Ask(e).declared => \A p \in LimitsAbove(e) : Ask(e).size <= Chain(e)[p].max
    BY <1>3 DEF Allowed
  <2>2. Ask(e).size \in Nat /\ Chain(e)[Next1(e)].max \in Nat
    <3>1. Chain(e)[Next1(e)] \in Layer
      BY LayerAt
    <3> QED
      BY <3>1, CaseFacts DEF TypeOK, Ask, Layer
  <2>3. Ask(e).declared => Ask(e).size <= Chain(e)[Next1(e)].max
    <3>1. Ask(e).declared => ~(Ask(e).size > Chain(e)[Next1(e)].max)
      BY DEF TooBig, Oversized, NextLayer
    <3> HIDE DEF Chain, Next1, Ask
    <3> QED
      BY <2>2, <3>1, NotAbove
  <2> HIDE DEF LimitsAbove, Next1, Chain, Ask
  <2> QED
    BY <1>1, <2>1, <2>3
<1>8. reader'[e].kind = "none"
  <2>1. reader'[e] = NoReader
    BY <1>3
  <2> QED
    BY <2>1, NoReaderIsNone
<1>9. (Ask(e).declared => \A p \in LimitsAbove(e) : Ask(e).size <= Chain(e)[p].max)'
  <2> HIDE DEF LimitsAbove, Chain, Ask
  <2> QED
    BY <1>2, <1>7
<1>10. Allowed(e)'
  BY <1>6, <1>8, <1>9 DEF Allowed
<1> HIDE DEF Allowed
<1> QED
  BY <1>3, <1>10 DEF Limited

LEMMA LimitedInit == Init => \A e \in Exchanges : Limited(e)
<1> SUFFICES ASSUME Init, NEW e \in Exchanges PROVE Limited(e)
  OBVIOUS
<1> QED
  BY DEF Init, Limited, Governed

LEMMA LimitedStep ==
  ASSUME TypeOK, NEW e \in Exchanges, Limited(e), Step(e)
  PROVE  Limited(e)'
<1>0. UNCHANGED case /\ Ask(e)' = Ask(e) /\ Chain(e)' = Chain(e)
  BY OthersUntouched, DepthKept
<1>1. Typed /\ Depth(e) \in Nat /\ pos[e] \in Nat
  BY CaseFacts DEF TypeOK, Typed, Depth, Chain, Ask
<1> HIDE DEF Place, Extensions, Reader, Result, Origin
<1>2. CASE Dispatch(e)
  <2>1. /\ at[e] = "new" /\ at'[e] = "down" /\ pos'[e] = 0
        /\ reader'[e] = NoReader
        /\ ext'[e].limit = Options[e].body_limit
    BY <1>1, <1>2 DEF Dispatch, Move, Limited, Typed, request
  <2>2. LimitsAbove(e)' = {}
    BY <2>1 DEF LimitsAbove
  <2>3. Allowed(e)'
    BY <2>1, <2>2 DEF Allowed, IsInForce, NoReader
  <2> HIDE DEF Allowed
  <2> QED
    BY <2>1, <2>3 DEF Limited
<1>3. CASE EnterMetrics(e)
  <2>1. /\ UNCHANGED reader /\ at[e] = "down" /\ at'[e] = "arriving"
        /\ pos'[e] = pos[e] + 1 /\ ext'[e] = ext[e]
        /\ ~IsLayer(e, Next1(e), "body limit")
    BY <1>1, <1>3 DEF EnterMetrics, Meets, Reaches, IsLayer, Next1, Move, Typed, request
  <2> QED
    BY <1>0, <2>1, OtherFrame
<1>14. CASE EnterFlight(e)
  <2>1. /\ reader'[e] = reader[e] /\ at[e] = "arriving" /\ at'[e] = "down"
        /\ pos'[e] = pos[e] /\ ext'[e] = ext[e]
    BY <1>1, <1>14 DEF EnterFlight, Move, Typed, request
  <2>2. Governed(e)
    BY <2>1 DEF Governed
  <2> QED
    BY <1>0, <2>1, <2>2, LimitedKept
<1>4. CASE AnswerPreflight(e) \/ BlockForgery(e)
  <2>1. at'[e] = "up"
    BY <1>1, <1>4 DEF AnswerPreflight, BlockForgery, Answer, Move, Typed
  <2> QED
    BY <2>1, Ungoverned
<1>5. CASE RejectOversized(e)
  <2>1. at'[e] = "draining" /\ reader'[e] = NoReader
    BY <1>1, <1>5 DEF RejectOversized, Meets, Reaches, Move, Limited, Typed, request
  <2> QED
    BY <2>1 DEF Limited, Governed, NoReader
<1>6. CASE PassThrough(e)
  <2>1. /\ UNCHANGED reader /\ at[e] = "down" /\ at'[e] = "down"
        /\ pos'[e] = pos[e] + 1
        /\ ext'[e] = Extended(NextLayer(e), ext[e], Ask(e).id)
        /\ ext[e] \in Extensions
        /\ ~Stopped(e)
    BY <1>1, <1>6 DEF PassThrough, Reaches, Next1, Typed, request
  <2>2. Next1(e) \in 1..Depth(e)
    BY <1>1, <1>6 DEF PassThrough, Reaches, Next1
  <2>3. CASE IsLayer(e, Next1(e), "body limit")
    <3>1. ext'[e].limit = NextLayer(e).max /\ ~TooBig(e)
      BY <2>1, <2>3 DEF Extended, NextLayer, IsLayer, Stopped, Extensions
    <3> QED
      BY <1>0, <2>1, <2>2, <2>3, <3>1, BodyLimitFrame
  <2>4. CASE ~IsLayer(e, Next1(e), "body limit")
    <3>1. ext'[e].limit = ext[e].limit
      BY <2>1, <2>4 DEF Extended, NextLayer, IsLayer, Extensions
    <3> QED
      BY <1>0, <2>1, <2>4, <3>1, OtherFrame
  <2> QED
    BY <2>3, <2>4
<1>7. CASE Call(e)
  <2>1. /\ at[e] = "down" /\ at'[e] = "handler" /\ pos'[e] = pos[e] /\ ext'[e] = ext[e]
        /\ reader'[e] = reader[e]
    BY <1>1, <1>7 DEF Call, Move, Typed, request
  <2> QED
    BY <1>0, <2>1, LimitedKept DEF Governed
<1>8. ASSUME NEW kind \in Ask(e).reads, OpenReader(e, kind) PROVE Limited(e)'
  <2>1. /\ at[e] = "handler" /\ at'[e] = "handler" /\ pos'[e] = pos[e] /\ ext'[e] = ext[e]
        /\ reader'[e].limit = ext[e].limit
    BY <1>1, <1>8 DEF OpenReader, Free, Handling, Typed
  <2>2. Allowed(e)
    BY <2>1 DEF Limited, Governed
  <2>3. LimitsAbove(e)' = LimitsAbove(e)
    BY <1>0, <2>1 DEF LimitsAbove, IsLayer
  <2>4. Allowed(e)'
    BY <1>0, <2>1, <2>2, <2>3 DEF Allowed, IsInForce
  <2> HIDE DEF Allowed
  <2> QED
    BY <2>1, <2>4 DEF Limited
<1>9. ASSUME \/ \E n \in 1..unread[e] : ChunkFits(e, n) \/ ChunkTooMuch(e, n)
             \/ BodyEnds(e)
             \/ \E k \in ErrorKind : BodyBreaks(e, k) \/ Access(e, k)
      PROVE  Limited(e)'
  <2>1. /\ at[e] = "handler" /\ at'[e] \in {"handler", "draining"}
        /\ pos'[e] = pos[e] /\ ext'[e] = ext[e]
        /\ reader'[e].kind = reader[e].kind /\ reader'[e].limit = reader[e].limit
    <3>1. ASSUME NEW n \in 1..unread[e], ChunkFits(e, n) \/ ChunkTooMuch(e, n)
          PROVE  /\ at[e] = "handler" /\ at'[e] \in {"handler", "draining"}
                 /\ pos'[e] = pos[e] /\ ext'[e] = ext[e]
                 /\ reader'[e].kind = reader[e].kind /\ reader'[e].limit = reader[e].limit
      <4>1. \/ reader'[e] = [reader[e] EXCEPT !.got = reader[e].got + n]
            \/ reader'[e] = [reader[e] EXCEPT !.got = reader[e].got + n, !.outcome = "too large"]
        BY <1>1, <3>1 DEF ChunkFits, ChunkTooMuch, Typed
      <4>2. reader'[e].kind = reader[e].kind /\ reader'[e].limit = reader[e].limit
        <5>1. reader[e] \in Reader
          BY <1>1 DEF Typed
        <5> QED
          BY <4>1, <5>1 DEF Reader
      <4>3. /\ at[e] = "handler" /\ at'[e] \in {"handler", "draining"}
            /\ pos'[e] = pos[e] /\ ext'[e] = ext[e]
        BY <1>1, <3>1 DEF ChunkFits, ChunkTooMuch, Handling, Move, Typed
      <4> QED
        BY <4>2, <4>3
    <3>2. CASE BodyEnds(e) \/ \E k \in ErrorKind : BodyBreaks(e, k) \/ Access(e, k)
      BY <1>1, <3>2 DEF BodyEnds, BodyBreaks, Access, Free, Handling, Typed, Reader
    <3> QED
      BY <1>9, <3>1, <3>2
  <2>2. Governed(e)
    BY <2>1 DEF Governed
  <2> QED
    BY <1>0, <2>1, <2>2, LimitedKept
<1>10. CASE Finish(e) \/ Fail(e) \/ ServeFromDir(e)
  <2>1. at'[e] = "up"
    BY <1>1, <1>10 DEF Finish, Fail, ServeFromDir, FinishWith, Answer, Move, Typed
  <2> QED
    BY <2>1, Ungoverned
<1>11. CASE EndsDrain(e)
  <2>1. \/ at'[e] = "up"
        \/ /\ at[e] = "draining" /\ reader[e].kind # "none" /\ at'[e] = "handler"
           /\ pos'[e] = pos[e] /\ ext'[e] = ext[e] /\ reader'[e] = reader[e]
    BY <1>1, <1>11 DEF EndsDrain, Drained, Answer, Move, Typed
  <2>2. CASE at'[e] = "up"
    BY <2>2, Ungoverned
  <2>3. CASE at'[e] # "up"
    <3>1. Governed(e)
      BY <2>1, <2>3 DEF Governed
    <3> QED
      BY <1>0, <2>1, <2>3, <3>1, LimitedKept
  <2> QED
    BY <2>2, <2>3
<1>12. CASE Leave(e)
  <2>1. at'[e] \in {"classifying", "up", "done"}
    BY <1>1, <1>12 DEF Leave, LeaveMetrics, Classify, LeaveLayer, Respond, Climbs, Move, Typed
  <2> QED
    BY <2>1, Ungoverned
<1>13. CASE TimerFires(e) \/ ClientLeaves(e)
  <2>1. at'[e] \in {"up", "gone"}
    BY <1>1, <1>13 DEF TimerFires, TimesOut, ClientLeaves, Answer, Move, Typed
  <2> QED
    BY <2>1, Ungoverned
<1> QED
  BY <1>2, <1>3, <1>4, <1>5, <1>6, <1>7, <1>8, <1>9, <1>10, <1>11, <1>12, <1>13, <1>14
     DEF Step, Enter, Handle

LEMMA LimitedNext ==
  ASSUME TypeOK, [Next]_vars, \A e \in Exchanges : Limited(e)
  PROVE  \A e \in Exchanges : Limited(e)'
<1>1. ASSUME NEW e \in Exchanges, Step(e), NEW d \in Exchanges, d # e PROVE Limited(d)'
  <2>1. Untouched(d) /\ UNCHANGED case
    BY <1>1, OthersUntouched
  <2>2. Governed(d)' => Governed(d)
    BY <2>1 DEF Untouched, Governed
  <2> QED
    BY <2>1, <2>2, LimitedKept DEF Untouched
<1>2. ASSUME UNCHANGED <<case, at, pos, ext, reader>>, NEW d \in Exchanges PROVE Limited(d)'
  <2>1. Governed(d)' => Governed(d)
    BY <1>2 DEF Governed
  <2> QED
    BY <1>2, <2>1, LimitedKept
<1> QED
  BY <1>1, <1>2, LimitedStep DEF Next, SetErrorHandler, request, vars

\* Any chain of layers: the limit a body is read under is that of the innermost
\* BodyLimit, or else the server's, and no handler runs for a body that was
\* declared larger than some BodyLimit around it allows.
THEOREM LimitsGovern == Spec => []LimitInForce
<1>1. (\A e \in Exchanges : Limited(e)) => LimitInForce
  BY DEF Limited, Governed, Allowed, LimitInForce, Handling
<1>2. TypeOK /\ (\A e \in Exchanges : Limited(e)) /\ [Next]_vars
      => (\A e \in Exchanges : Limited(e))'
  BY LimitedNext
<1> QED
  BY <1>1, <1>2, TypeInit, TypeStep, LimitedInit, PTL DEF Spec

-----------------------------------------------------------------------------
(* The headers of what is on its way up. *)

\* Of one header: what the outermost layer passed so far sets, else what the
\* answer had when it was made.
DressedIn(e, h) ==
  \/ Setters(e, h) = {} /\ result[e].res.headers[h] = origin[e].res.res.headers[h]
  \/ \E p \in Setters(e, h) :
       /\ result[e].res.headers[h] = Dressing(Chain(e)[p], Ask(e).id)[h]
       /\ \A q \in Setters(e, h) : p <= q

DressedOk(e) == result[e].tag = "ok" => \A h \in Header : DressedIn(e, h)

\* An answer starts at the frames that made it, and there is none before.
Rising == {"classifying", "up"}

Risen(e) ==
  /\ DressedOk(e)
  /\ at[e] \in Rising => pos[e] <= origin[e].frames
  /\ at[e] \notin Rising \cup {"done"} =>
       result[e] = Nothing /\ origin[e] = [res |-> Nothing, frames |-> 0]

LEMMA Undressed ==
  ASSUME NEW layer \in Layer, layer.kind \notin Dressers, NEW given
  PROVE  Dressing(layer, given) = NoHeaders
BY DEF Layer, Dressing, Dressers

\* What a layer does to a header it does not set, and to one it does.
LEMMA AfterHeaders ==
  ASSUME NEW layer \in Layer, NEW who \in Nat, NEW ask \in Case, NEW r \in Response, NEW h \in Header
  PROVE  After(layer, who, ask, r).headers[h] =
           IF Dressing(layer, ask.id)[h] # Absent THEN Dressing(layer, ask.id)[h] ELSE r.headers[h]
<1>1. CASE layer.kind \in {"compression", "csrf"}
  <2>1. Dressing(layer, ask.id)[h] = Absent
    BY <1>1, Undressed DEF Dressers, NoHeaders
  <2>2. Gzip(r).headers = r.headers
    BY DEF Gzip, Response
  <2>3. AppendCookie(r, who).headers = r.headers
    BY DEF AppendCookie, Response
  <2>4. After(layer, who, ask, r) \in {Gzip(r), AppendCookie(r, who), r}
    BY <1>1 DEF After, Arm, SendToken
  <2>5. After(layer, who, ask, r).headers = r.headers
    BY <2>2, <2>3, <2>4
  <2> QED
    BY <2>1, <2>5
<1>2. CASE layer.kind \notin {"compression", "csrf"}
  <2>1. After(layer, who, ask, r) = [r EXCEPT !.headers = Overlay(Dressing(layer, ask.id), r.headers)]
    BY <1>2 DEF After
  <2>2. After(layer, who, ask, r).headers = Overlay(Dressing(layer, ask.id), r.headers)
    BY <2>1 DEF Response
  <2> QED
    BY <2>2 DEF Overlay
<1> QED
  BY <1>1, <1>2

LEMMA NoneBetween == \A low, high \in Nat : high <= low => (low + 1)..high = {}
OBVIOUS

\* An answer that was made just now, before a step and after it.
LEMMA FreshlyDressed ==
  ASSUME NEW e \in Exchanges, pos[e] \in Nat, origin[e].frames \in Nat,
         origin[e].frames <= pos[e], origin[e].res = result[e]
  PROVE  DressedOk(e)
<1>1. \A h : Setters(e, h) = {}
  BY NoneBetween DEF Setters
<1> QED
  BY <1>1 DEF DressedOk, DressedIn

LEMMA FreshlyDressedNext ==
  ASSUME NEW e \in Exchanges, pos'[e] \in Nat, origin'[e].frames \in Nat,
         origin'[e].frames <= pos'[e], origin'[e].res = result'[e]
  PROVE  DressedOk(e)'
<1>1. \A h : Setters(e, h)' = {}
  BY NoneBetween DEF Setters
<1> QED
  BY <1>1 DEF DressedOk, DressedIn

LEMMA DressedKept ==
  ASSUME NEW e \in Exchanges, UNCHANGED case, DressedOk(e),
         pos'[e] = pos[e], result'[e] = result[e], origin'[e] = origin[e]
  PROVE  DressedOk(e)'
<1>1. \A h : Setters(e, h)' = Setters(e, h)
  BY DepthKept DEF Setters
<1>2. Ask(e)' = Ask(e) /\ Chain(e)' = Chain(e)
  BY DepthKept
<1> QED
  BY <1>1, <1>2 DEF DressedOk, DressedIn

\* The layer at pos lets the answer out.
LEMMA LayerPassed ==
  ASSUME NEW e \in Exchanges, UNCHANGED case, DressedOk(e), result[e].tag = "ok",
         pos[e] \in Nat, pos[e] > 0, pos'[e] = pos[e] - 1,
         NEW top \in Nat, origin[e].frames = top, pos[e] <= top,
         origin'[e] = origin[e],
         NEW d, d = Dressing(Chain(e)[pos[e]], Ask(e).id),
         \A h \in Header : result'[e].res.headers[h] =
           IF d[h] # Absent THEN d[h] ELSE result[e].res.headers[h]
  PROVE  DressedOk(e)'
<1> SUFFICES ASSUME NEW h \in Header PROVE DressedIn(e, h)'
  BY DEF DressedOk
<1>1. DressedIn(e, h)
  BY DEF DressedOk
<1>2. Ask(e)' = Ask(e) /\ Chain(e)' = Chain(e)
  BY DepthKept
<1> DEFINE p0 == pos[e]
           Sets(p) == Dressing(Chain(e)[p], Ask(e).id)[h] # Absent
<1>3. p0 \in Nat /\ p0 > 0 /\ p0 <= top /\ pos'[e] = p0 - 1
  OBVIOUS
<1>4. Setters(e, h) = { p \in (p0 + 1)..top : Sets(p) }
  BY DEF Setters
<1>5. Setters(e, h)' = { p \in (p0 - 1 + 1)..top : Sets(p) }
  BY <1>2, <1>3 DEF Setters
<1> HIDE DEF p0, Sets
<1>6. (p0 - 1 + 1)..top = {p0} \cup ((p0 + 1)..top)
  BY <1>3
<1>7. Setters(e, h)' = Setters(e, h) \cup (IF Sets(p0) THEN {p0} ELSE {})
  BY <1>4, <1>5, <1>6
<1>8. \A q \in (p0 + 1)..top : p0 <= q
  BY <1>3
<1>9. CASE Sets(p0)
  <2>1. p0 \in Setters(e, h)' /\ \A q \in Setters(e, h)' : p0 <= q
    BY <1>3, <1>4, <1>7, <1>8, <1>9
  <2>2. result'[e].res.headers[h] = Dressing(Chain(e)'[p0], Ask(e)'.id)[h]
    BY <1>2, <1>9 DEF Sets, p0
  <2> QED
    BY <2>1, <2>2 DEF DressedIn
<1>10. CASE ~Sets(p0)
  <2>1. Setters(e, h)' = Setters(e, h)
    BY <1>7, <1>10
  <2>2. result'[e].res.headers[h] = result[e].res.headers[h]
    BY <1>10 DEF Sets, p0
  <2> QED
    BY <1>1, <1>2, <2>1, <2>2 DEF DressedIn
<1> QED
  BY <1>9, <1>10

LEMMA RisenInit == Init => \A e \in Exchanges : Risen(e)
<1> SUFFICES ASSUME Init, NEW e \in Exchanges PROVE Risen(e)
  OBVIOUS
<1>1. at[e] = "new" /\ pos[e] = 0 /\ result[e] = Nothing /\ origin[e] = [res |-> Nothing, frames |-> 0]
  BY DEF Init
<1>2. DressedOk(e)
  <2> HIDE DEF Nothing
  <2>1. origin[e].frames = 0 /\ origin[e].res = result[e]
    BY <1>1
  <2>2. origin[e].frames \in Nat /\ pos[e] \in Nat /\ origin[e].frames <= pos[e]
    BY <1>1, <2>1
  <2> QED
    BY <2>1, <2>2, FreshlyDressed
<1> QED
  BY <1>1, <1>2 DEF Risen, Rising

\* A step that makes the answer, and one that leaves it alone.
LEMMA Answered ==
  ASSUME TypeOK, TypeOK', NEW e \in Exchanges, NEW r, NEW frames, Answer(e, r, frames)
  PROVE  Risen(e)'
<1>1. Typed /\ Typed'
  BY DEF TypeOK, Typed
<1>2. /\ at'[e] = "up" /\ pos'[e] = frames /\ result'[e] = r
      /\ origin'[e] = [res |-> r, frames |-> frames]
  <2> HIDE DEF Place, Result, Origin
  <2> QED
    BY <1>1 DEF Answer, Move, Typed
<1>3. pos'[e] \in Nat
  BY <1>1 DEF Typed
<1>4. origin'[e].frames = frames /\ origin'[e].res = result'[e]
  BY <1>2
<1>5. origin'[e].frames \in Nat /\ origin'[e].frames <= pos'[e] /\ pos'[e] <= origin'[e].frames
  <2>1. frames \in Nat
    BY <1>2, <1>3
  <2> QED
    BY <1>2, <1>4, <2>1
<1>6. DressedOk(e)'
  BY <1>3, <1>4, <1>5, FreshlyDressedNext
<1> QED
  BY <1>2, <1>5, <1>6 DEF Risen, Rising

LEMMA Unanswered ==
  ASSUME TypeOK, TypeOK', NEW e \in Exchanges, Risen(e), at[e] \notin Rising \cup {"done"},
         at'[e] \notin Rising \cup {"done"}, result'[e] = result[e], origin'[e] = origin[e]
  PROVE  Risen(e)'
<1>1. pos'[e] \in Nat
  BY DEF TypeOK
<1>2. result'[e] = Nothing /\ origin'[e] = [res |-> Nothing, frames |-> 0]
  BY DEF Risen, Rising
<1>3. DressedOk(e)'
  <2> HIDE DEF Nothing
  <2>1. origin'[e].frames = 0 /\ origin'[e].res = result'[e]
    BY <1>2
  <2>2. origin'[e].frames \in Nat /\ origin'[e].frames <= pos'[e]
    BY <1>1, <2>1
  <2> QED
    BY <1>1, <2>1, <2>2, FreshlyDressedNext
<1> QED
  BY <1>2, <1>3 DEF Risen, Rising

\* The way up: a layer that lets the answer out, or the end of the way.
LEMMA RisenUp ==
  ASSUME TypeOK, TypeOK', NEW e \in Exchanges, Risen(e), Leave(e)
  PROVE  Risen(e)'
<1>0. UNCHANGED case
  BY DEF Leave, LeaveMetrics, Classify, LeaveLayer, Respond
<1>1. Typed /\ Typed'
  BY DEF TypeOK, Typed
<1>2. pos[e] \in Nat /\ pos[e] <= Depth(e) /\ Depth(e) \in Nat /\ origin[e].frames \in Nat
  BY CaseFacts DEF TypeOK, Depth, Chain, Ask, Origin
<1>3. at[e] \in Rising /\ pos[e] <= origin[e].frames /\ DressedOk(e)
  BY DEF Rising, Leave, LeaveMetrics, Classify, LeaveLayer, Respond, Climbs, Risen
<1>4. result[e] \in Result
  BY <1>1 DEF Typed
<1> DEFINE top == origin[e].frames
           layer == Chain(e)[pos[e]]
           d == Dressing(layer, Ask(e).id)
<1>5. ASSUME Climbs(e), origin' = origin, at'[e] \in Rising,
             result[e].tag = "err" => result'[e].tag = "err",
             result[e].tag = "ok" => \A h \in Header : result'[e].res.headers[h] =
               IF d[h] # Absent THEN d[h] ELSE result[e].res.headers[h]
      PROVE  Risen(e)'
  <2>1. pos'[e] = pos[e] - 1 /\ pos[e] > 0
    <3> HIDE DEF Place, Extensions, Reader, Result, Origin
    <3> QED
      BY <1>1, <1>5 DEF Climbs, Typed
  <2>2. DressedOk(e)'
    <3>1. CASE result[e].tag = "ok"
      <4> HIDE DEF d, layer
      <4>1. top \in Nat /\ origin[e].frames = top /\ pos[e] <= top
        BY <1>2, <1>3
      <4>2. d = Dressing(Chain(e)[pos[e]], Ask(e).id)
        BY DEF d, layer
      <4> HIDE DEF top
      <4>3. origin'[e] = origin[e]
        BY <1>5
      <4>4. \A h \in Header : result'[e].res.headers[h] =
               IF d[h] # Absent THEN d[h] ELSE result[e].res.headers[h]
        BY <1>5, <3>1
      <4>5. pos[e] \in Nat
        BY <1>2
      <4> QED
        BY <1>0, <1>3, <2>1, <3>1, <4>1, <4>2, <4>3, <4>4, <4>5, LayerPassed
    <3>2. CASE result[e].tag # "ok"
      <4>1. result[e].tag = "err"
        BY <1>4, <3>2 DEF Result
      <4> QED
        BY <1>5, <4>1 DEF DressedOk
    <3> QED
      BY <3>1, <3>2
  <2>3. pos'[e] <= origin'[e].frames
    <3> HIDE DEF d, layer, top
    <3>1. origin'[e].frames = origin[e].frames
      BY <1>5
    <3>2. pos[e] - 1 <= origin[e].frames
      BY <1>2, <1>3
    <3> QED
      BY <2>1, <3>1, <3>2
  <2> HIDE DEF d, layer, top
  <2> QED
    BY <1>3, <1>5, <2>2, <2>3 DEF Risen
<1>6. ASSUME Climbs(e) PROVE layer \in Layer /\ pos[e] \in Nat
  <2>1. pos[e] \in 1..Depth(e)
    BY <1>2, <1>6 DEF Climbs
  <2> QED
    BY <2>1, LayerAt
<1>7. CASE LeaveMetrics(e)
  <2>1. layer \in Layer /\ layer.kind \notin Dressers
    BY <1>6, <1>7 DEF LeaveMetrics, IsLayer, Dressers
  <2>2. d = NoHeaders
    BY <2>1, Undressed
  <2>3. \A h \in Header : d[h] = Absent
    BY <2>2 DEF NoHeaders
  <2>4. Climbs(e) /\ origin' = origin /\ at'[e] \in Rising /\ result' = result
    <3> HIDE DEF Place, Extensions, Reader, Result, Origin
    <3> QED
      BY <1>1, <1>7 DEF LeaveMetrics, Move, Rising, Typed, answer
  <2> HIDE DEF d, layer, top
  <2> QED
    BY <1>5, <2>3, <2>4
<1>8. CASE LeaveLayer(e)
  <2>1. Climbs(e) /\ origin' = origin /\ at'[e] \in Rising /\ result'[e] = Dressed1(e)
    BY <1>1, <1>8 DEF LeaveLayer, Climbs, Rising, Typed
  <2>2. ASSUME result[e].tag = "err" PROVE result'[e].tag = "err"
    BY <2>1, <2>2 DEF Dressed1
  <2>3. ASSUME result[e].tag = "ok", NEW h \in Header
        PROVE  result'[e].res.headers[h] =
                 IF d[h] # Absent THEN d[h] ELSE result[e].res.headers[h]
    <3>1. result[e].res \in Response
      BY <1>4, <2>3 DEF Result
    <3>2. result'[e].res = After(layer, pos[e], Ask(e), result[e].res)
      BY <2>1, <2>3 DEF Dressed1, Ok
    <3>3. Ask(e) \in Case
      BY CaseFacts DEF TypeOK, Ask
    <3>4. layer \in Layer /\ pos[e] \in Nat
      BY <1>6, <2>1
    <3> HIDE DEF layer, Response, Case, Layer
    <3> QED
      BY <3>1, <3>2, <3>3, <3>4, AfterHeaders
  <2> HIDE DEF d, layer, top
  <2> QED
    BY <1>5, <2>1, <2>2, <2>3
<1>9. CASE Respond(e)
  <2>1. /\ at'[e] = "done" /\ pos' = pos /\ pos[e] = 0
        /\ result[e].tag # "err" => result'[e] = result[e] /\ origin'[e] = origin[e]
        /\ result[e].tag = "err" =>
             origin'[e].frames = 0 /\ origin'[e].res = result'[e]
    <3> HIDE DEF Place, Extensions, Reader, Result, Origin
    <3> QED
      BY <1>1, <1>9 DEF Respond, Move, Typed
  <2>2. CASE result[e].tag = "err"
    <3>1. pos'[e] \in Nat /\ origin'[e].frames \in Nat /\ origin'[e].frames <= pos'[e]
      BY <2>1, <2>2
    <3>2. DressedOk(e)'
      BY <2>1, <2>2, <3>1, FreshlyDressedNext
    <3> QED
      BY <2>1, <3>2 DEF Risen
  <2>3. CASE result[e].tag # "err"
    <3>1. DressedOk(e)'
      BY <1>0, <1>3, <2>1, <2>3, DressedKept
    <3> QED
      BY <2>1, <3>1 DEF Risen
  <2> QED
    BY <2>2, <2>3
<1>10. CASE Classify(e)
  <2>1. /\ at'[e] \in Rising /\ pos' = pos
        /\ result'[e] = result[e] /\ origin'[e] = origin[e]
    <3> HIDE DEF Place, Extensions, Reader, Result, Origin
    <3> QED
      BY <1>1, <1>10 DEF Classify, Move, Rising, Typed, answer
  <2>2. DressedOk(e)'
    BY <1>0, <1>3, <2>1, DressedKept
  <2> QED
    BY <1>3, <2>1, <2>2 DEF Risen
<1> QED
  BY <1>7, <1>8, <1>9, <1>10 DEF Leave

LEMMA RisenStep ==
  ASSUME TypeOK, TypeOK', NEW e \in Exchanges, Risen(e), Step(e)
  PROVE  Risen(e)'
<1>1. Typed /\ Typed'
  BY DEF TypeOK, Typed
<1> HIDE DEF Place, Extensions, Reader, Result, Origin
<1>2. CASE \/ AnswerPreflight(e) \/ BlockForgery(e) \/ Finish(e) \/ Fail(e) \/ ServeFromDir(e)
           \/ TimerFires(e)
  <2>1. \E r, frames : Answer(e, r, frames)
    BY <1>2 DEF AnswerPreflight, BlockForgery, Finish, Fail, ServeFromDir, FinishWith, TimerFires, TimesOut
  <2> QED
    BY <2>1, Answered
<1>3. CASE EndsDrain(e)
  <2>1. \/ \E r, frames : Answer(e, r, frames)
        \/ at[e] = "draining" /\ at'[e] = "handler" /\ UNCHANGED answer
    BY <1>1, <1>3 DEF EndsDrain, Drained, Move, Typed
  <2> QED
    BY <2>1, Answered, Unanswered DEF Rising, answer
<1>4. CASE Dispatch(e) \/ EnterMetrics(e) \/ EnterFlight(e) \/ RejectOversized(e) \/ PassThrough(e) \/ Call(e)
  <2>1. /\ at[e] \in {"new", "down", "arriving"}
        /\ at'[e] \in {"down", "arriving", "draining", "handler"}
        /\ UNCHANGED answer
    BY <1>1, <1>4 DEF Dispatch, EnterMetrics, EnterFlight, RejectOversized, PassThrough, Call, Meets, Reaches, Move, Typed
  <2> QED
    BY <2>1, Unanswered DEF Rising, answer
<1>5. CASE \/ \E kind \in Ask(e).reads : OpenReader(e, kind)
           \/ \E n \in 1..unread[e] : ChunkFits(e, n) \/ ChunkTooMuch(e, n)
           \/ BodyEnds(e) \/ \E k \in ErrorKind : BodyBreaks(e, k) \/ Access(e, k)
  <2>1. at[e] = "handler" /\ at'[e] \in {"handler", "draining"} /\ UNCHANGED answer
    BY <1>1, <1>5 DEF OpenReader, ChunkFits, ChunkTooMuch, BodyEnds, BodyBreaks, Access, Free, Handling, Move, Typed
  <2> QED
    BY <2>1, Unanswered DEF Rising, answer
<1>6. CASE ClientLeaves(e)
  <2>1. at[e] \in {"handler", "draining"} /\ at'[e] = "gone" /\ UNCHANGED answer
    BY <1>1, <1>6 DEF ClientLeaves, Pending, Move, Typed
  <2> QED
    BY <2>1, Unanswered DEF Rising, answer
<1> QED
  BY <1>2, <1>3, <1>4, <1>5, <1>6, RisenUp DEF Step, Enter, Handle

LEMMA RisenNext ==
  ASSUME TypeOK, TypeOK', [Next]_vars, \A e \in Exchanges : Risen(e)
  PROVE  \A e \in Exchanges : Risen(e)'
<1>1. ASSUME NEW d \in Exchanges, UNCHANGED case, at'[d] = at[d], pos'[d] = pos[d],
             result'[d] = result[d], origin'[d] = origin[d]
      PROVE  Risen(d)'
  <2>1. DressedOk(d)'
    BY <1>1, DressedKept DEF Risen
  <2> QED
    BY <1>1, <2>1 DEF Risen
<1>2. ASSUME NEW e \in Exchanges, Step(e), NEW d \in Exchanges, d # e PROVE Risen(d)'
  BY <1>1, <1>2, OthersUntouched DEF Untouched
<1> QED
  BY <1>1, <1>2, RisenStep DEF Next, SetErrorHandler, answer, vars

\* Any chain of layers around any endpoint: of each header an answer carries
\* what the outermost layer sets that it came through, whoever made it.
THEOREM AnswersAreDressed == Spec => []Dressed
<1>1. (\A e \in Exchanges : Risen(e)) => Dressed
  BY DEF Risen, DressedOk, DressedIn, Dressed
<1>2. TypeOK /\ TypeOK' /\ (\A e \in Exchanges : Risen(e)) /\ [Next]_vars
      => (\A e \in Exchanges : Risen(e))'
  BY RisenNext
<1> QED
  BY <1>1, <1>2, TypeInit, TypeStep, RisenInit, PTL DEF Spec

-----------------------------------------------------------------------------
(* Content codings. *)

\* A body is compressed as often as the response says, and no length is told
\* that is not the body's.
Honest(r) ==
  /\ r.body.zipped = IF r.coding = "none" THEN 0 ELSE 1
  /\ Announced(r) \in {NoLength, r.body.size}

\* What the application brings along is honest: responses that handlers build
\* with headers of their own, bodies they return, what renderers make.
HonestParts ==
  /\ \A w \in Workloads, e \in Exchanges : \A v \in w[e].returns :
       /\ v.as = "response" => Honest(v.res)
       /\ v.as = "body" => v.body.zipped = 0
  /\ \A n \in DOMAIN Renderers : \A k \in ErrorKind : Honest(Renderers[n][k])

HonestResult(r) == r.tag = "ok" => Honest(r.res)

Coded(e) ==
  result[e].tag = "ok" =>
    /\ Honest(result[e].res)
    /\ result[e].res.coding # origin[e].res.res.coding => Ask(e).gzip

LEMMA NewIsHonest ==
  ASSUME NEW status, NEW type, NEW body, body.zipped = 0
  PROVE  Honest(New(status, type, body))
BY DEF Honest, New, Announced, SizeHint, NoLength

LEMMA FullIsHonest ==
  ASSUME NEW status, NEW type, NEW n
  PROVE  Honest(New(status, type, FullBody(n))) /\ Honest(New(status, type, StreamBody(n)))
<1>1. FullBody(n).zipped = 0 /\ StreamBody(n).zipped = 0
  BY DEF FullBody, StreamBody
<1> QED
  BY <1>1, NewIsHonest

LEMMA TextIsHonest == \A status, n : Honest(Text(status, n))
BY FullIsHonest DEF Text

LEMMA HonestOk == \A r : Honest(r) => HonestResult(Ok(r))
BY DEF HonestResult, Ok

LEMMA HonestErr == \A k : HonestResult(Err(k))
BY DEF HonestResult, Err

LEMMA RenderIsHonest ==
  ASSUME HonestParts, renderer \in Renderer, NEW k \in ErrorKind
  PROVE  Honest(Render[k])
<1>1. CASE renderer = "default"
  <2>1. Render[k] = DefaultRenderer[k]
    BY <1>1 DEF Render, RendererNamed, Renderer
  <2>2. DefaultRenderer[k] \in {Text(500, 21), Text(StatusOf(k), 30)}
    BY DEF DefaultRenderer
  <2> QED
    BY <2>1, <2>2, TextIsHonest
<1>2. CASE renderer # "default"
  <2>1. renderer \in DOMAIN Renderers /\ Render[k] = Renderers[renderer][k]
    BY <1>2 DEF Render, RendererNamed, Renderer
  <2> QED
    BY <2>1 DEF HonestParts
<1> QED
  BY <1>1, <1>2

LEMMA IntoIsHonest ==
  ASSUME HonestParts, renderer \in Renderer, NEW v \in Returnable,
         v.as = "response" => Honest(v.res), v.as = "body" => v.body.zipped = 0
  PROVE  HonestResult(IntoResponse(v, Render))
<1>1. CASE v.as = "error"
  <2>1. v.err \in ErrorKind
    BY <1>1 DEF Returnable
  <2> QED
    BY <1>1, <2>1, RenderIsHonest, HonestOk DEF IntoResponse
<1>2. CASE v.as = "response"
  BY <1>2, HonestOk DEF IntoResponse
<1>3. CASE v.as = "body"
  BY <1>3, NewIsHonest, HonestOk DEF IntoResponse, FromBody
<1>4. CASE v.as = "json"
  BY <1>4, FullIsHonest, HonestOk DEF IntoResponse, Json
<1>5. CASE v.as = "u16"
  BY <1>5, TextIsHonest, HonestOk, HonestErr DEF IntoResponse, WithStatus, Checked
<1>6. CASE v.as \in {"unit", "text", "bytes"}
  <2>1. IntoResponse(v, Render) = Ok(Build(200, TypeOf(v.as), FullBody(v.size)))
    BY <1>6 DEF IntoResponse
  <2> QED
    BY <2>1, FullIsHonest, HonestOk DEF Build
<1> QED
  BY <1>1, <1>2, <1>3, <1>4, <1>5, <1>6 DEF Returnable

LEMMA AnswersHonest ==
  ASSUME HonestParts, TypeOK, case \in Workloads, NEW e \in Exchanges, NEW r,
         \/ \E v \in Ask(e).returns : r = Returns(e, v)
         \/ fault[e] # "none" /\ r = Returns(e, [as |-> "error", err |-> fault[e]])
  PROVE  HonestResult(r)
<1>1. PICK v \in Returnable : /\ r = Returns(e, v)
                              /\ v.as = "response" => Honest(v.res)
                              /\ v.as = "body" => v.body.zipped = 0
  <2>1. CASE \E v \in Ask(e).returns : r = Returns(e, v)
    <3>1. PICK v \in Ask(e).returns : r = Returns(e, v)
      BY <2>1
    <3>2. v \in Returnable
      BY CaseFacts DEF TypeOK, Ask
    <3>3. (v.as = "response" => Honest(v.res)) /\ (v.as = "body" => v.body.zipped = 0)
      BY DEF HonestParts, Ask
    <3> HIDE DEF Returnable
    <3> QED
      BY <3>1, <3>2, <3>3
  <2>2. CASE fault[e] # "none" /\ r = Returns(e, [as |-> "error", err |-> fault[e]])
    <3> DEFINE v == [as |-> "error", err |-> fault[e]]
    <3>1. fault[e] \in ErrorKind
      BY <2>2 DEF TypeOK
    <3>2. v \in Returnable /\ v.as = "error"
      BY <3>1 DEF Returnable
    <3>3. r = Returns(e, v)
      BY <2>2
    <3> HIDE DEF v, Returnable
    <3> QED
      BY <3>2, <3>3
  <2> QED
    BY <2>1, <2>2
<1>2. renderer \in Renderer
  BY DEF TypeOK
<1>3. r = IntoResponse(v, Render) \/ r = Err(v.err)
  BY <1>1 DEF Returns
<1> HIDE DEF Returnable, HonestResult, Honest
<1> QED
  BY <1>1, <1>2, <1>3, IntoIsHonest, HonestErr

LEMMA PrecodedIsHonest ==
  ASSUME NEW n \in Nat, NEW coding
  PROVE  Honest(Precoded(New(200, "html", StreamBody(n)), coding))
BY DEF Honest, Precoded, New, StreamBody, Announced, SizeHint, NoLength

LEMMA DirIsHonest ==
  ASSUME NEW ask, ask.size \in Nat
  PROVE  HonestResult(ServeDirCall(ask))
<1> DEFINE sent == Precoded(New(200, "html", StreamBody(ask.size)), ContentEncoding(ask))
<1>1. \/ ServeDirCall(ask) = Err("missing param")
      \/ ServeDirCall(ask) = Err("io")
      \/ ServeDirCall(ask) = Ok(Text(403, 9))
      \/ ServeDirCall(ask) = Ok(Text(404, 9))
      \/ ServeDirCall(ask) = Ok(sent)
  <2> DEFINE bare    == ask.file = {}
             outside == \E f \in ask.file : ResolveWithin(f) = {}
             barred  == \E path \in Paths(ask) : IsBarred(path)
             opened  == \E f \in ask.file : Opened(f) # {}
  <2>1. ServeDirCall(ask) = CASE bare    -> Err("missing param")
                              [] outside -> Ok(Text(403, 9))
                              [] barred  -> Err("io")
                              [] opened  -> Ok(sent)
                              [] OTHER   -> Ok(Text(404, 9))
    BY DEF ServeDirCall
  <2> HIDE DEF bare, outside, barred, opened, sent
  <2> QED
    BY <2>1
<1>2. CASE \/ ServeDirCall(ask) = Err("missing param")
           \/ ServeDirCall(ask) = Err("io")
  BY <1>2, HonestErr
<1>3. CASE ServeDirCall(ask) = Ok(Text(403, 9))
  BY <1>3, TextIsHonest, HonestOk
<1>4. CASE ServeDirCall(ask) = Ok(Text(404, 9))
  BY <1>4, TextIsHonest, HonestOk
<1>5. CASE ServeDirCall(ask) = Ok(sent)
  BY <1>5, PrecodedIsHonest, HonestOk
<1> QED
  BY <1>1, <1>2, <1>3, <1>4, <1>5

LEMMA HonestKept ==
  ASSUME NEW r, NEW s, Honest(r), s.body = r.body, s.coding = r.coding, s.length = r.length
  PROVE  Honest(s)
BY DEF Honest, Announced

LEMMA GzipIsHonest ==
  ASSUME NEW r \in Response, Honest(r), r.coding = "none"
  PROVE  Honest(Gzip(r))
<1> DEFINE n == GzipSize(r.body.size)
           z == r.body.zipped + 1
<1>1. r.body \in Body
  BY DEF Response
<1>2. n \in Nat /\ r.body.zipped = 0
  BY <1>1 DEF Body, GzipSize, Honest
<1>3. z = 1 /\ n # NoLength
  BY <1>2 DEF NoLength
<1>4. Gzip(r) = [r EXCEPT !.coding = "gzip", !.length = n,
                          !.body = [kind |-> "full", size |-> n, zipped |-> z]]
  BY DEF Gzip, Response
<1> HIDE DEF n, z
<1>5. /\ Gzip(r).coding = "gzip" /\ Gzip(r).length = n
      /\ Gzip(r).body = [kind |-> "full", size |-> n, zipped |-> z]
  BY <1>4 DEF Response
<1>6. Gzip(r).body.zipped = 1 /\ Gzip(r).body.size = n
  BY <1>3, <1>5
<1>7. Announced(Gzip(r)) = n
  BY <1>3, <1>5 DEF Announced
<1> QED
  BY <1>5, <1>6, <1>7 DEF Honest

LEMMA AfterHonest ==
  ASSUME NEW layer \in Layer, NEW who \in Nat, NEW ask, NEW r \in Response, Honest(r)
  PROVE  /\ Honest(After(layer, who, ask, r))
         /\ After(layer, who, ask, r).coding # r.coding => ask.gzip
<1>1. CASE layer.kind = "compression"
  <2>1. After(layer, who, ask, r) = IF ask.gzip /\ WorthCompressing(r) THEN Gzip(r) ELSE r
    BY <1>1 DEF After
  <2>2. WorthCompressing(r) => r.coding = "none"
    BY DEF WorthCompressing
  <2> HIDE DEF Honest, Gzip, WorthCompressing, Response
  <2> QED
    BY <2>1, <2>2, GzipIsHonest
<1>2. CASE layer.kind = "csrf"
  <2> DEFINE s == AppendCookie(r, who)
  <2>1. s.body = r.body /\ s.coding = r.coding /\ s.length = r.length
    BY DEF AppendCookie, Response
  <2>2. After(layer, who, ask, r) \in {r, s}
    BY <1>2 DEF After, Arm, SendToken
  <2> HIDE DEF s, Honest
  <2> QED
    BY <2>1, <2>2, HonestKept
<1>3. CASE layer.kind \notin {"compression", "csrf"}
  <2> DEFINE s == After(layer, who, ask, r)
  <2>1. s = [r EXCEPT !.headers = Overlay(Dressing(layer, ask.id), r.headers)]
    BY <1>3 DEF After
  <2>2. s.body = r.body /\ s.coding = r.coding /\ s.length = r.length
    BY <2>1 DEF Response
  <2> HIDE DEF s, Honest
  <2>3. Honest(s) /\ s.coding = r.coding
    BY <2>2, HonestKept
  <2> QED
    BY <2>3 DEF s
<1> QED
  BY <1>1, <1>2, <1>3

LEMMA CodedInit == Init => \A e \in Exchanges : Coded(e)
<1> SUFFICES ASSUME Init, NEW e \in Exchanges PROVE Coded(e)
  OBVIOUS
<1>1. result[e] = Nothing /\ origin[e].res = Nothing
  BY DEF Init
<1>2. Honest(Nothing.res)
  BY FullIsHonest DEF Nothing, Ok
<1> HIDE DEF Nothing, Honest
<1> QED
  BY <1>1, <1>2 DEF Coded

LEMMA CodedFresh ==
  ASSUME NEW e \in Exchanges, HonestResult(result'[e]), origin'[e].res = result'[e]
  PROVE  Coded(e)'
BY DEF Coded, HonestResult

LEMMA CodedKept ==
  ASSUME NEW e \in Exchanges, UNCHANGED case, Coded(e),
         result'[e] = result[e], origin'[e] = origin[e]
  PROVE  Coded(e)'
BY DepthKept DEF Coded

LEMMA CodedUp ==
  ASSUME HonestParts, TypeOK, NEW e \in Exchanges, Coded(e), Leave(e)
  PROVE  Coded(e)'
<1>0. UNCHANGED case /\ Ask(e)' = Ask(e)
  BY DepthKept DEF Leave, LeaveMetrics, Classify, LeaveLayer, Respond
<1>1. Typed /\ renderer \in Renderer
  BY DEF TypeOK, Typed
<1>2. result[e] \in Result
  BY <1>1 DEF Typed
<1>3. CASE LeaveMetrics(e) \/ Classify(e)
  BY <1>0, <1>3, CodedKept DEF LeaveMetrics, Classify, answer
<1>4. CASE LeaveLayer(e)
  <2>1. origin' = origin /\ result'[e] = Dressed1(e)
    BY <1>1, <1>4 DEF LeaveLayer, Typed
  <2>2. CASE result[e].tag = "err"
    BY <1>0, <2>1, <2>2, CodedKept DEF Dressed1
  <2>3. CASE result[e].tag # "err"
    <3> DEFINE layer == Chain(e)[pos[e]]
               r == result[e].res
    <3>1. r \in Response /\ result[e].tag = "ok"
      BY <1>2, <2>3 DEF Result
    <3>2. pos[e] \in 1..Depth(e) /\ pos[e] \in Nat
      BY <1>4, CaseFacts DEF LeaveLayer, Climbs, TypeOK, Depth, Chain, Ask
    <3>3. layer \in Layer
      BY <3>2, LayerAt
    <3>4. Honest(r) /\ (r.coding # origin[e].res.res.coding => Ask(e).gzip)
      BY <3>1 DEF Coded
    <3>5. result'[e].res = After(layer, pos[e], Ask(e), r)
      BY <2>1, <2>3 DEF Dressed1, Ok
    <3> HIDE DEF layer, r, Honest, Response, Layer
    <3>6. /\ Honest(result'[e].res)
          /\ result'[e].res.coding # r.coding => Ask(e).gzip
      BY <3>1, <3>2, <3>3, <3>4, <3>5, AfterHonest
    <3> QED
      BY <1>0, <2>1, <3>4, <3>6 DEF Coded
  <2> QED
    BY <2>2, <2>3
<1>5. CASE Respond(e)
  <2>1. CASE result[e].tag = "err"
    <3>1. result[e].err \in ErrorKind
      BY <1>2, <2>1 DEF Result
    <3>2. HonestResult(Ok(Render[result[e].err]))
      BY <1>1, <3>1, RenderIsHonest, HonestOk
    <3>3. result'[e] = Ok(Render[result[e].err]) /\ origin'[e].res = result'[e]
      <4> HIDE DEF Place, Extensions, Reader, Result, Origin, Render
      <4> QED
        BY <1>1, <1>5, <2>1 DEF Respond, Typed
    <3> QED
      BY <3>2, <3>3, CodedFresh
  <2>2. CASE result[e].tag # "err"
    <3>1. result'[e] = result[e] /\ origin'[e] = origin[e]
      <4> HIDE DEF Place, Extensions, Reader, Result, Origin, Render
      <4> QED
        BY <1>1, <1>5, <2>2 DEF Respond, Typed
    <3> QED
      BY <1>0, <3>1, CodedKept
  <2> QED
    BY <2>1, <2>2
<1> QED
  BY <1>3, <1>4, <1>5 DEF Leave

LEMMA CodedStep ==
  ASSUME HonestParts, TypeOK, case \in Workloads, NEW e \in Exchanges, Coded(e), Step(e)
  PROVE  Coded(e)'
<1>1. Typed /\ UNCHANGED case
  BY OthersUntouched DEF TypeOK, Typed
<1> HIDE DEF Place, Extensions, Reader, Result, Origin
<1>2. ASSUME NEW r, NEW frames, Answer(e, r, frames), HonestResult(r) PROVE Coded(e)'
  <2>1. result'[e] = r /\ origin'[e].res = r
    BY <1>1, <1>2 DEF Answer, Typed
  <2> QED
    BY <1>2, <2>1, CodedFresh
<1>3. CASE AnswerPreflight(e) \/ BlockForgery(e) \/ TimerFires(e)
  <2>1. Honest(NoContent) /\ Honest(RequestTimeout)
    BY TextIsHonest DEF NoContent, RequestTimeout
  <2>2. Honest(Forbidden(Next1(e)))
    <3>1. \A r, who : r = Text(403, 17) =>
            LET s == AppendCookie(r, who)
            IN s.body = r.body /\ s.coding = r.coding /\ s.length = r.length
      BY DEF AppendCookie, Text, New
    <3> HIDE DEF Honest
    <3> QED
      BY <3>1, TextIsHonest, HonestKept DEF Forbidden, SendToken
  <2>3. \E r \in {NoContent, RequestTimeout, Forbidden(Next1(e))} : \E frames : Answer(e, Ok(r), frames)
    BY <1>3 DEF AnswerPreflight, BlockForgery, TimerFires, TimesOut
  <2> HIDE DEF Honest, NoContent, RequestTimeout, Forbidden, Next1
  <2> QED
    BY <1>2, <2>1, <2>2, <2>3, HonestOk
<1>4. CASE Finish(e) \/ Fail(e)
  <2>1. \E r : /\ Answer(e, r, pos[e])
               /\ \/ \E v \in Ask(e).returns : r = Returns(e, v)
                  \/ fault[e] # "none" /\ r = Returns(e, [as |-> "error", err |-> fault[e]])
    BY <1>4 DEF Finish, Fail, FinishWith
  <2> QED
    BY <1>2, <2>1, AnswersHonest
<1>5. CASE ServeFromDir(e)
  <2>1. Ask(e).size \in Nat
    BY CaseFacts DEF TypeOK, Ask
  <2> QED
    BY <1>2, <1>5, <2>1, DirIsHonest DEF ServeFromDir, FinishWith
<1>6. CASE EndsDrain(e)
  <2>1. Honest(PayloadTooLarge)
    BY TextIsHonest DEF PayloadTooLarge
  <2>2. Answer(e, Ok(PayloadTooLarge), pos[e]) \/ UNCHANGED answer
    BY <1>6 DEF EndsDrain, Drained, answer
  <2> QED
    BY <1>1, <1>2, <2>1, <2>2, HonestOk, CodedKept DEF answer
<1>7. CASE \/ Dispatch(e) \/ EnterMetrics(e) \/ EnterFlight(e) \/ RejectOversized(e) \/ PassThrough(e) \/ Call(e)
           \/ \E kind \in Ask(e).reads : OpenReader(e, kind)
           \/ \E n \in 1..unread[e] : ChunkFits(e, n) \/ ChunkTooMuch(e, n)
           \/ BodyEnds(e) \/ \E k \in ErrorKind : BodyBreaks(e, k) \/ Access(e, k)
           \/ ClientLeaves(e)
  <2>1. UNCHANGED answer
    BY <1>7 DEF Dispatch, EnterMetrics, EnterFlight, RejectOversized, PassThrough, Call, OpenReader, ChunkFits,
                ChunkTooMuch, BodyEnds, BodyBreaks, Access, ClientLeaves, answer
  <2> QED
    BY <1>1, <2>1, CodedKept DEF answer
<1> QED
  BY <1>3, <1>4, <1>5, <1>6, <1>7, CodedUp DEF Step, Enter, Handle

LEMMA CodedNext ==
  ASSUME HonestParts, TypeOK, case \in Workloads, [Next]_vars, \A e \in Exchanges : Coded(e)
  PROVE  case' \in Workloads /\ \A e \in Exchanges : Coded(e)'
<1>1. UNCHANGED case
  BY OthersUntouched DEF Next, SetErrorHandler, vars
<1>2. ASSUME NEW e \in Exchanges, Step(e), NEW d \in Exchanges, d # e PROVE Coded(d)'
  BY <1>1, <1>2, OthersUntouched, CodedKept DEF Untouched
<1>3. ASSUME UNCHANGED answer, NEW d \in Exchanges PROVE Coded(d)'
  BY <1>1, <1>3, CodedKept DEF answer
<1> QED
  BY <1>1, <1>2, <1>3, CodedStep DEF Next, SetErrorHandler, answer, vars

\* As long as the application is honest about its own responses, so are the
\* layers: no chain compresses twice, compresses for a client that did not ask,
\* or announces a length that the body does not have.
THEOREM CompressedOnce == ASSUME HonestParts PROVE Spec => []EncodedOnce
<1>1. (\A e \in Exchanges : Coded(e)) => EncodedOnce
  BY DEF Coded, Honest, EncodedOnce
<1>2. Init => case \in Workloads
  BY DEF Init
<1>3. TypeOK /\ case \in Workloads /\ (\A e \in Exchanges : Coded(e)) /\ [Next]_vars
      => (case \in Workloads)' /\ (\A e \in Exchanges : Coded(e))'
  BY CodedNext
<1> QED
  BY <1>1, <1>2, <1>3, TypeInit, TypeStep, CodedInit, PTL DEF Spec

-----------------------------------------------------------------------------
(* The address of the client. *)

WalksOf(proxies, chain, walk0) ==
  { it \in [SUBSET DOMAIN chain -> [client : Addr, on : BOOLEAN]] :
      \A s \in SUBSET DOMAIN chain :
        it[s] = IF s = {} THEN walk0
                ELSE Walk(proxies, chain[Min(s)], it[s \ {Min(s)}]) }

ClientWalk(proxies, chain, walk0) ==
  FoldRight(LAMBDA part, walk : Walk(proxies, part, walk), chain, walk0)

LEMMA WalkIsFold ==
  ASSUME NEW proxies, NEW chain \in Seq(Addr \cup {Garbage}),
         NEW walk0 \in [client : Addr, on : BOOLEAN]
  PROVE  \E it \in WalksOf(proxies, chain, walk0) :
           ClientWalk(proxies, chain, walk0) = it[DOMAIN chain]
<1> DEFINE D == DOMAIN chain
           V == [client : Addr, on : BOOLEAN]
           pick == [s \in SUBSET D |-> Min(s)]
           h == [z \in D \X V |-> Walk(proxies, chain[z[1]], z[2])]
           step(it) == [s \in SUBSET D |->
                          IF s = {} THEN walk0
                          ELSE Walk(proxies, chain[Min(s)], it[s \ {Min(s)}])]
           fold == CHOOSE it : it = step(it)
<1>1. PICK n \in Nat : D = 1..n
  BY DEF D
<1>2. IsFiniteSet(D) /\ \A s \in SUBSET D : s # {} => Min(s) \in s
  <2> HIDE DEF D
  <2>1. IsFiniteSet(D)
    BY <1>1, FS_Interval
  <2>2. \A s \in SUBSET D : s # {} => Min(s) \in s
    BY <1>1, LeastAndGreatest
  <2> QED
    BY <2>1, <2>2
<1>3. Picks(pick, D)
  BY <1>2 DEF Picks
<1>4. h \in [D \X V -> V]
  <2>1. ASSUME NEW part \in Addr \cup {Garbage}, NEW walk \in V
        PROVE  Walk(proxies, part, walk) \in V
    BY <2>1 DEF Walk, Trusts
  <2>2. \A i \in D : chain[i] \in Addr \cup {Garbage}
    OBVIOUS
  <2> HIDE DEF V
  <2> QED
    BY <2>1, <2>2
<1>5. PICK it \in FoldsOf(D, V, walk0, pick, h) : TRUE
  <2> HIDE DEF D, pick, h
  <2> QED
    BY <1>2, <1>3, <1>4, FoldExists
<1>6. ASSUME NEW s \in SUBSET D
      PROVE  it[s] = IF s = {} THEN walk0 ELSE Walk(proxies, chain[Min(s)], it[s \ {Min(s)}])
  <2>1. /\ it \in [SUBSET D -> V]
        /\ it[s] = IF s = {} THEN walk0 ELSE h[<<pick[s], it[s \ {pick[s]}]>>]
    BY <1>5 DEF FoldsOf
  <2>2. CASE s # {}
    <3>1. Min(s) \in D /\ s \ {Min(s)} \in SUBSET D /\ pick[s] = Min(s)
      BY <1>2, <2>2
    <3> HIDE DEF pick, D, V
    <3>2. h[<<Min(s), it[s \ {Min(s)}]>>] = Walk(proxies, chain[Min(s)], it[s \ {Min(s)}])
      BY <2>1, <3>1
    <3> QED
      BY <2>1, <2>2, <3>1, <3>2
  <2> QED
    BY <2>1, <2>2
<1>7. it = step(it)
  BY <1>5, <1>6 DEF FoldsOf
<1>8. fold = step(fold)
  <2> HIDE DEF step
  <2> QED
    BY <1>7
<1>9. ClientWalk(proxies, chain, walk0) = fold[D]
  BY Zenon DEF ClientWalk, FoldRight, MapThenFoldSet
<1> HIDE DEF fold, D, pick, h, V
<1>10. fold = it
  <2> DEFINE G == { s \in SUBSET D : fold[s] = it[s] }
  <2>1. ASSUME NEW T \in SUBSET D, \A U \in SUBSET T : U # T => U \in G
        PROVE  T \in G
    <3>1. fold[T] = IF T = {} THEN walk0 ELSE Walk(proxies, chain[Min(T)], fold[T \ {Min(T)}])
      BY <1>8
    <3>2. T # {} => fold[T \ {Min(T)}] = it[T \ {Min(T)}]
      BY <1>2, <2>1
    <3> HIDE DEF step
    <3> QED
      BY <1>6, <3>1, <3>2
  <2> HIDE DEF G
  <2>2. \A T \in SUBSET D : T \in G
    BY <1>2, <2>1, SubsetInduction
  <2>3. step(fold) = step(it)
    <3>1. \A s \in SUBSET D : s \ {Min(s)} \in SUBSET D
      OBVIOUS
    <3> QED
      BY <2>2, <3>1 DEF G
  <2> HIDE DEF step
  <2> QED
    BY <1>7, <1>8, <2>3
<1> QED
  BY <1>5, <1>6, <1>9, <1>10 DEF WalksOf, FoldsOf, D, V

\* What the walk has established when it has passed the entries from k on.
Walked(proxies, chain, peer, k, walk) ==
  IF walk.on
  THEN /\ TrustedRightOf(proxies, chain, k - 1)
       /\ walk.client = IF k > Len(chain) THEN peer ELSE chain[k]
  ELSE \/ /\ chain # << >> /\ chain[Len(chain)] = Garbage
          /\ walk.client = peer
       \/ \E i \in k..Len(chain) :
            /\ chain[i] = walk.client
            /\ TrustedRightOf(proxies, chain, i)
            /\ Trusts(proxies, chain[i]) => i # 1 /\ chain[i - 1] = Garbage

LEMMA WalkOneFurther ==
  ASSUME NEW proxies, NEW chain \in Seq(Addr \cup {Garbage}), NEW peer, NEW k \in 1..Len(chain),
         NEW walk \in [client : Addr, on : BOOLEAN],
         Walked(proxies, chain, peer, k + 1, walk)
  PROVE  Walked(proxies, chain, peer, k, Walk(proxies, chain[k], walk))
<1> DEFINE n == Len(chain)
           next == Walk(proxies, chain[k], walk)
<1>1. n \in Nat /\ k \in Nat /\ k >= 1 /\ k <= n /\ DOMAIN chain = 1..n /\ (k + 1) - 1 = k
      /\ chain # << >>
  OBVIOUS
<1>2. CASE ~walk.on
  <2>1. next = walk
    BY <1>2 DEF Walk
  <2>2. \A i \in (k + 1)..n : i \in k..n
    BY <1>1
  <2> QED
    BY <1>2, <2>1, <2>2 DEF Walked
<1>3. CASE walk.on /\ chain[k] = Garbage
  <2>1. next.client = walk.client /\ ~next.on
    BY <1>3 DEF Walk
  <2>2. TrustedRightOf(proxies, chain, k) /\ walk.client = IF k + 1 > n THEN peer ELSE chain[k + 1]
    BY <1>1, <1>3 DEF Walked
  <2>3. CASE k + 1 > n
    <3>1. k = n
      <4> HIDE DEF n, next
      <4> QED
        BY <1>1, <2>3
    <3> QED
      BY <1>1, <1>3, <2>1, <2>2, <2>3, <3>1 DEF Walked
  <2>4. CASE ~(k + 1 > n)
    <3>1. k + 1 \in k..n /\ k + 1 # 1
      BY <1>1, <2>4
    <3>2. TrustedRightOf(proxies, chain, k + 1)
      BY <1>1, <2>2 DEF TrustedRightOf
    <3>3. chain[k + 1] = next.client /\ chain[(k + 1) - 1] = Garbage
      BY <1>1, <1>3, <2>1, <2>2, <2>4
    <3> QED
      BY <2>1, <3>1, <3>2, <3>3 DEF Walked
  <2> QED
    BY <2>3, <2>4
<1>4. CASE walk.on /\ chain[k] # Garbage
  <2>1. next.client = chain[k] /\ next.on = Trusts(proxies, chain[k])
    BY <1>4 DEF Walk
  <2>2. TrustedRightOf(proxies, chain, k)
    BY <1>1, <1>4 DEF Walked
  <2> HIDE DEF next
  <2>3. CASE Trusts(proxies, chain[k])
    <3>1. TrustedRightOf(proxies, chain, k - 1)
      BY <1>1, <1>4, <2>2, <2>3 DEF TrustedRightOf
    <3> QED
      BY <1>1, <2>1, <2>3, <3>1 DEF Walked, next
  <2>4. CASE ~Trusts(proxies, chain[k])
    <3>1. k \in k..n
      BY <1>1
    <3> QED
      BY <1>1, <2>1, <2>2, <2>4, <3>1 DEF Walked, next
  <2> QED
    BY <2>3, <2>4
<1> QED
  BY <1>2, <1>3, <1>4

\* What resolve_client_ip returns.
Speaks(proxies, chain, peer, ip) ==
  IF ~Trusts(proxies, peer) THEN ip = peer
  ELSE \/ \E i \in DOMAIN chain :
            /\ chain[i] = ip /\ TrustedRightOf(proxies, chain, i)
            /\ (Trusts(proxies, ip) => i = 1 \/ chain[i - 1] = Garbage)
       \/ ip = peer /\ (chain = << >> \/ chain[Len(chain)] = Garbage)

LEMMA ClientResolved ==
  ASSUME NEW proxies, NEW chain \in Seq(Addr \cup {Garbage}), NEW peer \in Addr
  PROVE  /\ ResolveClientIp(peer, chain, proxies) \in Addr
         /\ Speaks(proxies, chain, peer, ResolveClientIp(peer, chain, proxies))
<1> DEFINE n == Len(chain)
           D == DOMAIN chain
           walk0 == [client |-> peer, on |-> TRUE]
           V == [client : Addr, on : BOOLEAN]
<1>1. n \in Nat /\ D = 1..n /\ walk0 \in V /\ IsFiniteSet(D)
  BY FS_Interval
<1>2. CASE ~Trusts(proxies, peer)
  BY <1>2 DEF ResolveClientIp, Speaks
<1>3. CASE Trusts(proxies, peer)
  <2>1. PICK it \in WalksOf(proxies, chain, walk0) :
          ClientWalk(proxies, chain, walk0) = it[D]
    BY <1>1, WalkIsFold
  <2>2. /\ \A s \in SUBSET D : it[s] \in V
        /\ \A s \in SUBSET D :
             it[s] = IF s = {} THEN walk0 ELSE Walk(proxies, chain[Min(s)], it[s \ {Min(s)}])
    BY <2>1 DEF WalksOf
  <2> DEFINE G == { s \in SUBSET D :
                      \A k \in 1..(n + 1) : s = k..n => Walked(proxies, chain, peer, k, it[s]) }
  <2> HIDE DEF V, walk0, D, n
  <2>3. ASSUME NEW T \in SUBSET D, \A U \in SUBSET T : U # T => U \in G
        PROVE  T \in G
    <3> SUFFICES ASSUME NEW k \in 1..(n + 1), T = k..n
                 PROVE  Walked(proxies, chain, peer, k, it[T])
      OBVIOUS
    <3>1. CASE k = n + 1
      <4>1. T = {} /\ k > n /\ (k - 1) + 1 = n + 1 /\ (n + 1)..n = {}
        BY <1>1, <3>1
      <4>2. it[T] = walk0
        BY <2>2, <4>1
      <4> QED
        BY <4>1, <4>2 DEF Walked, TrustedRightOf, walk0, n
    <3>2. CASE k # n + 1
      <4>1. k \in 1..n /\ k + 1 \in 1..(n + 1)
        BY <1>1, <3>2
      <4>2. Min(T) = k /\ T \ {k} = (k + 1)..n /\ T # {} /\ k \in T
        <5>1. k \in k..n
          BY <1>1, <4>1
        <5>2. Min(k..n) = k /\ (k..n) \ {k} = (k + 1)..n
          BY <1>1, <4>1, EndsOfIntervals
        <5> QED
          BY <5>1, <5>2
      <4>3. it[T] = Walk(proxies, chain[k], it[(k + 1)..n])
        BY <2>2, <4>2
      <4>4. (k + 1)..n \in SUBSET T /\ (k + 1)..n # T
        BY <4>2
      <4>5. Walked(proxies, chain, peer, k + 1, it[(k + 1)..n])
        BY <2>3, <4>1, <4>4
      <4>6. it[(k + 1)..n] \in V
        BY <2>2, <4>4
      <4> QED
        BY <4>1, <4>3, <4>5, <4>6, WalkOneFurther DEF V, n
    <3> QED
      BY <3>1, <3>2
  <2>4. D \in G
    <3> HIDE DEF G
    <3>1. IsFiniteSet(D)
      BY <1>1
    <3>2. \A T \in SUBSET D : T \in G
      BY <2>3, <3>1, SubsetInduction
    <3> QED
      BY <3>2
  <2>5. Walked(proxies, chain, peer, 1, it[D])
    <3>1. 1 \in 1..(n + 1)
      BY <1>1
    <3> QED
      BY <1>1, <2>4, <3>1
  <2>6. ResolveClientIp(peer, chain, proxies) = it[D].client
    <3>1. ResolveClientIp(peer, chain, proxies) = ClientWalk(proxies, chain, walk0).client
      BY <1>3, Zenon DEF ResolveClientIp, ClientWalk, walk0
    <3> QED
      BY <2>1, <3>1
  <2>7. it[D] \in V
    BY <2>2
  <2> DEFINE walk == it[D]
  <2>8. walk.client \in Addr
    BY <2>7 DEF V
  <2> HIDE DEF walk
  <2>9. Speaks(proxies, chain, peer, walk.client)
    <3>1. CASE walk.on
      <4>1. TrustedRightOf(proxies, chain, 0) /\ walk.client = IF 1 > n THEN peer ELSE chain[1]
        BY <2>5, <3>1 DEF Walked, walk, n
      <4>2. CASE n = 0
        <5>1. chain = << >>
          BY <4>2 DEF n
        <5> QED
          BY <1>1, <1>3, <4>1, <4>2, <5>1 DEF Speaks
      <4>3. CASE n # 0
        <5>1. 1 \in DOMAIN chain /\ ~(1 > n)
          BY <1>1, <4>3 DEF D
        <5>2. TrustedRightOf(proxies, chain, 1)
          BY <1>1, <4>1 DEF TrustedRightOf, n
        <5> QED
          BY <1>3, <4>1, <5>1, <5>2 DEF Speaks
      <4> QED
        BY <4>2, <4>3
    <3>2. CASE ~walk.on
      <4>1. \/ chain[Len(chain)] = Garbage /\ walk.client = peer
            \/ \E i \in DOMAIN chain :
                 /\ chain[i] = walk.client
                 /\ TrustedRightOf(proxies, chain, i)
                 /\ Trusts(proxies, chain[i]) => chain[i - 1] = Garbage
        BY <1>1, <2>5, <3>2 DEF Walked, walk, n, D
      <4> QED
        BY <1>3, <4>1 DEF Speaks
    <3> QED
      BY <3>1, <3>2
  <2> QED
    BY <2>6, <2>8, <2>9 DEF walk
<1> QED
  BY <1>2, <1>3

\* Dispatch settles the address, and no layer below it touches it.
Resolved(e) ==
  at[e] # "new" => ext[e].ip = ClientIp(Ask(e).peer, Ask(e).chain, Options[e].trusted_proxies)

LEMMA ResolvedKept ==
  ASSUME NEW e \in Exchanges, Resolved(e), UNCHANGED case, ext'[e].ip = ext[e].ip,
         at[e] # "new" \/ at'[e] = at[e]
  PROVE  Resolved(e)'
BY DEF Resolved, Ask

LEMMA ResolvedStep ==
  ASSUME TypeOK, NEW e \in Exchanges, Resolved(e), Step(e)
  PROVE  Resolved(e)'
<1>1. Typed /\ UNCHANGED case
  BY OthersUntouched DEF TypeOK, Typed
<1>2. Ask(e)' = Ask(e)
  BY <1>1 DEF Ask
<1> HIDE DEF Place, Reader, Result, Origin
<1>3. CASE Dispatch(e)
  <2>1. ext'[e].ip = ClientIp(Ask(e).peer, Ask(e).chain, Options[e].trusted_proxies)
    BY <1>1, <1>3 DEF Dispatch, Typed
  <2> QED
    BY <1>2, <2>1 DEF Resolved
<1>4. CASE PassThrough(e)
  <2>1. ext'[e] = Extended(NextLayer(e), ext[e], Ask(e).id) /\ at[e] # "new"
    BY <1>1, <1>4 DEF PassThrough, Typed, Reaches
  <2>2. \A layer, given : Extended(layer, ext[e], given).ip = ext[e].ip
    <3>1. ext[e] \in Extensions
      BY <1>1 DEF Typed
    <3>2. \A v : /\ [ext[e] EXCEPT !.limit = v].ip = ext[e].ip
                 /\ [ext[e] EXCEPT !.id = v].ip = ext[e].ip
      BY <3>1 DEF Extensions
    <3>3. ASSUME NEW layer, NEW given
          PROVE  Extended(layer, ext[e], given).ip = ext[e].ip
      <4>1. CASE layer.kind = "body limit"
        BY <3>2, <4>1 DEF Extended
      <4>2. CASE layer.kind = "request id"
        BY <3>2, <4>2 DEF Extended
      <4>3. CASE layer.kind \notin {"body limit", "request id"}
        BY <4>3 DEF Extended
      <4> QED
        BY <4>1, <4>2, <4>3
    <3> QED
      BY <3>3
  <2> QED
    BY <1>1, <2>1, <2>2, ResolvedKept
<1>5. CASE Step(e) /\ ~Dispatch(e) /\ ~PassThrough(e)
  <2>1. CASE \/ EnterMetrics(e) \/ EnterFlight(e) \/ AnswerPreflight(e) \/ BlockForgery(e)
             \/ RejectOversized(e) \/ Call(e)
    <3>1. UNCHANGED ext /\ at[e] \in {"down", "arriving"}
      BY <2>1 DEF EnterMetrics, EnterFlight, AnswerPreflight, BlockForgery, RejectOversized, Call, Meets, Reaches
    <3> QED
      BY <1>1, <3>1, ResolvedKept
  <2>2. CASE Handle(e)
    <3>1. UNCHANGED ext /\ at[e] = "handler"
      <4>1. CASE \E kind \in Ask(e).reads : OpenReader(e, kind)
        BY <4>1 DEF OpenReader, Free, Handling
      <4>2. CASE \E n \in 1..unread[e] : ChunkFits(e, n) \/ ChunkTooMuch(e, n)
        BY <4>2 DEF ChunkFits, ChunkTooMuch, Handling
      <4>3. CASE BodyEnds(e) \/ \E k \in ErrorKind : BodyBreaks(e, k) \/ Access(e, k)
        BY <4>3 DEF BodyEnds, BodyBreaks, Access, Free, Handling
      <4>4. CASE Finish(e) \/ Fail(e) \/ ServeFromDir(e)
        BY <4>4 DEF Finish, Fail, ServeFromDir, FinishWith, Free, Handling
      <4> QED
        BY <2>2, <4>1, <4>2, <4>3, <4>4 DEF Handle
    <3> QED
      BY <1>1, <3>1, ResolvedKept
  <2>3. CASE EndsDrain(e) \/ Leave(e) \/ TimerFires(e) \/ ClientLeaves(e)
    <3>1. UNCHANGED ext /\ at[e] \in {"draining", "handler", "classifying", "up"}
      <4>1. CASE EndsDrain(e)
        BY <4>1 DEF EndsDrain, Drained
      <4>2. CASE Leave(e)
        BY <4>2 DEF Leave, LeaveMetrics, Classify, LeaveLayer, Respond, Climbs
      <4>3. CASE TimerFires(e) \/ ClientLeaves(e)
        BY <4>3 DEF TimerFires, TimesOut, ClientLeaves, Drop, Pending
      <4> QED
        BY <2>3, <4>1, <4>2, <4>3
    <3> QED
      BY <1>1, <3>1, ResolvedKept
  <2> QED
    BY <1>5, <2>1, <2>2, <2>3 DEF Step, Enter
<1> QED
  BY <1>3, <1>4, <1>5

LEMMA ResolvedNext ==
  ASSUME TypeOK, [Next]_vars, \A e \in Exchanges : Resolved(e)
  PROVE  \A e \in Exchanges : Resolved(e)'
<1>1. UNCHANGED case
  BY OthersUntouched DEF Next, SetErrorHandler, vars
<1>2. ASSUME NEW e \in Exchanges, Step(e), NEW d \in Exchanges, d # e PROVE Resolved(d)'
  BY <1>1, <1>2, OthersUntouched, ResolvedKept DEF Untouched
<1>3. ASSUME UNCHANGED <<at, ext>>, NEW d \in Exchanges PROVE Resolved(d)'
  BY <1>1, <1>3, ResolvedKept
<1> QED
  BY <1>2, <1>3, ResolvedStep DEF Next, SetErrorHandler, vars

\* A sequence of names and what Speaks says of an address fix where it stands.
LEMMA SpeaksFromChain ==
  ASSUME NEW proxies, NEW chain \in Seq(Addr \cup {Garbage}), NEW peer, NEW ip \in Addr,
         Trusts(proxies, peer), Speaks(proxies, chain, peer, ip)
  PROVE  /\ Speakers(proxies, chain) # {} => \E i \in Speakers(proxies, chain) : ip = chain[i]
         /\ Speakers(proxies, chain) = {} =>
              \/ ip = peer
              \/ \E i \in DOMAIN chain : /\ ip = chain[i] /\ Trusts(proxies, ip)
                                         /\ TrustedRightOf(proxies, chain, i)
<1> DEFINE n == Len(chain)
<1>1. n \in Nat /\ DOMAIN chain = 1..n /\ ip # Garbage
  BY GarbageAssumption
<1>2. CASE ip = peer /\ (chain = << >> \/ chain[n] = Garbage)
  <2> SUFFICES ASSUME NEW j \in Speakers(proxies, chain) PROVE FALSE
    BY <1>2
  <2>1. /\ j \in 1..n /\ chain[j] # Garbage
        /\ \A i \in (j + 1)..n : chain[i] # Garbage
    BY <1>1 DEF Speakers, TrustedRightOf
  <2> HIDE DEF n
  <2>2. n = j \/ n \in (j + 1)..n
    BY <1>1, <2>1
  <2>3. chain # << >>
    BY <2>1 DEF n
  <2> QED
    BY <1>2, <2>1, <2>2, <2>3
<1>3. CASE \E i \in DOMAIN chain :
             /\ chain[i] = ip /\ TrustedRightOf(proxies, chain, i)
             /\ (Trusts(proxies, ip) => i = 1 \/ chain[i - 1] = Garbage)
  <2>1. PICK i \in 1..n : /\ chain[i] = ip /\ TrustedRightOf(proxies, chain, i)
                          /\ (Trusts(proxies, ip) => i = 1 \/ chain[i - 1] = Garbage)
    BY <1>1, <1>3
  <2>2. ASSUME NEW j \in Speakers(proxies, chain)
        PROVE  i = j
    <3>1. /\ j \in 1..n /\ chain[j] # Garbage /\ ~Trusts(proxies, chain[j])
          /\ \A k \in (j + 1)..n : chain[k] # Garbage /\ Trusts(proxies, chain[k])
          /\ \A k \in (i + 1)..n : chain[k] # Garbage /\ Trusts(proxies, chain[k])
      BY <1>1, <2>1, <2>2 DEF Speakers, TrustedRightOf
    <3> HIDE DEF n
    <3>2. ~(j > i)
      <4>1. j > i => j \in (i + 1)..n
        BY <1>1, <2>1, <3>1
      <4> QED
        BY <3>1, <4>1
    <3>3. ~(i > j)
      <4> SUFFICES ASSUME i > j PROVE FALSE
        OBVIOUS
      <4>1. i \in (j + 1)..n /\ i # 1 /\ (i - 1 = j \/ i - 1 \in (j + 1)..n)
        BY <1>1, <2>1, <3>1
      <4>2. Trusts(proxies, ip)
        BY <2>1, <3>1, <4>1
      <4>3. chain[i - 1] = Garbage
        BY <2>1, <4>1, <4>2
      <4> QED
        BY <3>1, <4>1, <4>3
    <3> QED
      BY <1>1, <2>1, <3>1, <3>2, <3>3
  <2>3. Speakers(proxies, chain) # {} => \E k \in Speakers(proxies, chain) : ip = chain[k]
    BY <2>1, <2>2
  <2>4. Speakers(proxies, chain) = {} => Trusts(proxies, ip)
    BY <1>1, <2>1 DEF Speakers
  <2> QED
    BY <1>1, <2>1, <2>3, <2>4
<1> QED
  BY <1>2, <1>3 DEF Speaks

LEMMA ResolvedClient ==
  ASSUME TypeOK, \A e \in Exchanges : Resolved(e)
  PROVE  ClientIpFromChain
<1> SUFFICES ASSUME NEW e \in Exchanges, at[e] \notin {"new", "gone"}, NEW peer \in Ask(e).peer
             PROVE  LET chain == Ask(e).chain
                        proxies == Options[e].trusted_proxies
                        speakers == Speakers(proxies, chain)
                    IN \E ip \in ext[e].ip :
                         CASE ~Trusts(proxies, peer) -> ip = peer
                           [] Trusts(proxies, peer) /\ speakers # {} ->
                                \E i \in speakers : ip = chain[i]
                           [] OTHER ->
                                \/ ip = peer
                                \/ \E i \in DOMAIN chain :
                                     /\ ip = chain[i] /\ Trusts(proxies, ip)
                                     /\ TrustedRightOf(proxies, chain, i)
  BY DEF ClientIpFromChain
<1> DEFINE chain == Ask(e).chain
           proxies == Options[e].trusted_proxies
           ip == ResolveClientIp(peer, chain, proxies)
           untrusted == ~Trusts(proxies, peer)
           spoken == Speakers(proxies, chain) # {}
           bySpeaker == \E i \in Speakers(proxies, chain) : ip = chain[i]
           byProxy == \/ ip = peer
                      \/ \E i \in DOMAIN chain : /\ ip = chain[i] /\ Trusts(proxies, ip)
                                                 /\ TrustedRightOf(proxies, chain, i)
<1>1. chain \in Seq(Addr \cup {Garbage}) /\ peer \in Addr
  <2>1. Ask(e) \in Case
    BY DEF TypeOK, Ask
  <2> QED
    BY <2>1 DEF Case
<1>2. ext[e].ip = ClientIp(Ask(e).peer, chain, proxies)
  BY DEF Resolved
<1> HIDE DEF chain, proxies
<1>3. ip \in Addr /\ Speaks(proxies, chain, peer, ip)
  BY <1>1, ClientResolved
<1>4. ip \in ext[e].ip
  BY <1>2, <1>3 DEF ClientIp
<1> HIDE DEF ip
<1>5. /\ untrusted => ip = peer
      /\ ~untrusted /\ spoken => bySpeaker
      /\ ~untrusted /\ ~spoken => byProxy
  <2>1. CASE untrusted
    BY <1>3, <2>1 DEF Speaks
  <2>2. CASE ~untrusted
    BY <1>1, <1>3, <2>2, SpeaksFromChain
  <2> QED
    BY <2>1, <2>2
<1> HIDE DEF untrusted, spoken, bySpeaker, byProxy
<1>6. (CASE untrusted -> ip = peer
         [] ~untrusted /\ spoken -> bySpeaker
         [] OTHER -> byProxy)
  BY <1>5
<1> USE DEF untrusted, spoken, bySpeaker, byProxy
<1> QED
  BY <1>4, <1>6, Zenon DEF chain, proxies

\* Whatever networks are trusted and however long the chain of proxies is, the
\* address a request is taken to come from is the peer's own, or the one that
\* the trusted proxies between it and the server vouch for.
THEOREM ClientIsResolved == Spec => []ClientIpFromChain
<1>1. Init => \A e \in Exchanges : Resolved(e)
  BY DEF Init, Resolved
<1>2. TypeOK /\ (\A e \in Exchanges : Resolved(e)) /\ [Next]_vars
      => (\A e \in Exchanges : Resolved(e))'
  BY ResolvedNext
<1>3. TypeOK /\ (\A e \in Exchanges : Resolved(e)) => ClientIpFromChain
  BY ResolvedClient
<1> QED
  BY <1>1, <1>2, <1>3, TypeInit, TypeStep, PTL DEF Spec

-----------------------------------------------------------------------------
(* The file that a path under a ServeDir names. *)

Name == STRING

LEMMA TreePaths == DOMAIN Tree \subseteq Seq(Name) /\ Dir \in Seq(Name)
BY TreeAssumption, DirAssumption DEF Name

\* The places that resolving a path can come to.
Places == DOMAIN Tree \cup {<< >>, Nowhere, Barred}

LEMMA EntersType ==
  ASSUME NEW dir, NEW name
  PROVE  Enters(dir, name) \in Places
BY DEF Enters, Places, Exists, IsA

Entering == [z \in Places \X Name |-> Enters(z[1], z[2])]

LEMMA CanonicalIsFold ==
  ASSUME NEW path \in Seq(Name)
  PROVE  \E it \in LeftFolds(path, Places, << >>, Entering) : Canonicalize(path) = it[DOMAIN path]
<1> DEFINE D == DOMAIN path
           step(it) == [s \in SUBSET D |->
                          IF s = {} THEN << >> ELSE Enters(it[s \ {Max(s)}], path[Max(s)])]
           fold == CHOOSE it : it = step(it)
<1>1. Entering \in [Places \X Name -> Places] /\ << >> \in Places
  BY EntersType DEF Entering, Places
<1>2. PICK it \in LeftFolds(path, Places, << >>, Entering) : TRUE
  <2>1. LeftFolds(path, Places, << >>, Entering) # {}
    BY <1>1, LeftFoldExists
  <2> QED
    BY <2>1
<1>3. \A s \in SUBSET D : s # {} => Max(s) \in s /\ path[Max(s)] \in Name
  BY SeqDomain
<1>4. ASSUME NEW s \in SUBSET D, s # {}, NEW v \in Places
      PROVE  Entering[<<v, path[Max(s)]>>] = Enters(v, path[Max(s)])
  BY <1>3, <1>4 DEF Entering
<1>5. it = step(it)
  <2>1. \A s \in SUBSET D : s \ {Max(s)} \in SUBSET D /\ it[s \ {Max(s)}] \in Places
    BY DEF LeftFolds
  <2> QED
    BY <1>4, <2>1 DEF LeftFolds
<1>6. fold = step(fold)
  <2> HIDE DEF step
  <2> QED
    BY <1>5
<1>7. Canonicalize(path) = fold[D]
  BY Zenon DEF Canonicalize, FoldLeft, MapThenFoldSet
<1> HIDE DEF fold
<1>8. FoldsAlong(fold, path, Places, << >>, Entering)
  BY <1>4, <1>6 DEF FoldsAlong
<1>9. fold[D] = it[D]
  <2>1. \A s \in SUBSET DOMAIN path : fold[s] = it[s]
    BY <1>8, LeftFoldIsUnique
  <2> QED
    BY <2>1
<1> QED
  BY <1>7, <1>9

LEMMA CanonicalRoot == Canonicalize(<< >>) = << >>
<1>1. << >> \in Seq(Name) /\ DOMAIN << >> = {}
  OBVIOUS
<1>2. PICK it \in LeftFolds(<< >>, Places, << >>, Entering) :
        Canonicalize(<< >>) = it[DOMAIN << >>]
  BY <1>1, CanonicalIsFold
<1> QED
  BY <1>1, <1>2 DEF LeftFolds

\* Resolving a path is resolving what leads to its last component, and entering
\* that.
LEMMA CanonicalizeStep ==
  ASSUME NEW path \in Seq(Name), NEW name \in Name
  PROVE  Canonicalize(Append(path, name)) = Enters(Canonicalize(path), name)
<1>1. Append(path, name) \in Seq(Name)
  BY Appended
<1>2. PICK a \in LeftFolds(path, Places, << >>, Entering) :
        Canonicalize(path) = a[DOMAIN path]
  BY CanonicalIsFold
<1>3. PICK b \in LeftFolds(Append(path, name), Places, << >>, Entering) :
        Canonicalize(Append(path, name)) = b[DOMAIN Append(path, name)]
  BY <1>1, CanonicalIsFold
<1>4. b[DOMAIN Append(path, name)] = Entering[<<a[DOMAIN path], name>>]
  BY <1>2, <1>3, LeftFoldStep
<1>5. Canonicalize(path) \in Places
  BY <1>2 DEF LeftFolds
<1> QED
  BY <1>2, <1>3, <1>4, <1>5 DEF Entering

(* resolve_within *)

Pushed(relative) == FoldLeft(Push, Dir, relative)

NameSeqs == Seq(Name)

Pushing == [z \in NameSeqs \X Name |-> Push(z[1], z[2])]

LEMMA PushedIsFold ==
  ASSUME NEW path \in Seq(Name)
  PROVE  \E it \in LeftFolds(path, NameSeqs, Dir, Pushing) : Pushed(path) = it[DOMAIN path]
<1> DEFINE D == DOMAIN path
           step(it) == [s \in SUBSET D |->
                          IF s = {} THEN Dir ELSE Push(it[s \ {Max(s)}], path[Max(s)])]
           fold == CHOOSE it : it = step(it)
<1>1. Pushing \in [NameSeqs \X Name -> NameSeqs] /\ Dir \in NameSeqs
  <2>1. ASSUME NEW v \in Seq(Name), NEW part \in Name
        PROVE  Push(v, part) \in Seq(Name)
    <3>1. Append(v, part) \in Seq(Name)
      BY Appended
    <3> QED
      BY <3>1 DEF Push
  <2> QED
    BY <2>1, TreePaths DEF Pushing, NameSeqs
<1>2. PICK it \in LeftFolds(path, NameSeqs, Dir, Pushing) : TRUE
  <2>1. LeftFolds(path, NameSeqs, Dir, Pushing) # {}
    BY <1>1, LeftFoldExists
  <2> QED
    BY <2>1
<1>3. \A s \in SUBSET D : s # {} => Max(s) \in s /\ path[Max(s)] \in Name
  BY SeqDomain
<1>4. ASSUME NEW s \in SUBSET D, s # {}, NEW v \in NameSeqs
      PROVE  Pushing[<<v, path[Max(s)]>>] = Push(v, path[Max(s)])
  BY <1>3, <1>4 DEF Pushing
<1>5. it = step(it)
  <2>1. \A s \in SUBSET D : s \ {Max(s)} \in SUBSET D /\ it[s \ {Max(s)}] \in NameSeqs
    BY DEF LeftFolds
  <2> QED
    BY <1>4, <2>1 DEF LeftFolds
<1>6. fold = step(fold)
  <2> HIDE DEF step
  <2> QED
    BY <1>5
<1>7. Pushed(path) = fold[D]
  BY Zenon DEF Pushed, FoldLeft, MapThenFoldSet
<1> HIDE DEF fold
<1>8. FoldsAlong(fold, path, NameSeqs, Dir, Pushing)
  BY <1>4, <1>6 DEF FoldsAlong
<1>9. fold[D] = it[D]
  <2>1. \A s \in SUBSET DOMAIN path : fold[s] = it[s]
    BY <1>8, LeftFoldIsUnique
  <2> QED
    BY <2>1
<1> QED
  BY <1>7, <1>9

LEMMA PushedNothing == Pushed(<< >>) = Dir
<1>1. << >> \in Seq(Name) /\ DOMAIN << >> = {}
  OBVIOUS
<1>2. PICK it \in LeftFolds(<< >>, NameSeqs, Dir, Pushing) : Pushed(<< >>) = it[DOMAIN << >>]
  BY <1>1, PushedIsFold
<1> QED
  BY <1>1, <1>2 DEF LeftFolds

LEMMA PushedType ==
  ASSUME NEW path \in Seq(Name)
  PROVE  Pushed(path) \in Seq(Name)
<1>1. PICK a \in LeftFolds(path, NameSeqs, Dir, Pushing) : Pushed(path) = a[DOMAIN path]
  BY PushedIsFold
<1> QED
  BY <1>1 DEF LeftFolds, NameSeqs

LEMMA PushedStep ==
  ASSUME NEW path \in Seq(Name), NEW name \in Name
  PROVE  Pushed(Append(path, name)) = Push(Pushed(path), name)
<1>1. Append(path, name) \in Seq(Name)
  BY Appended
<1>2. PICK a \in LeftFolds(path, NameSeqs, Dir, Pushing) : Pushed(path) = a[DOMAIN path]
  BY PushedIsFold
<1>3. PICK b \in LeftFolds(Append(path, name), NameSeqs, Dir, Pushing) :
        Pushed(Append(path, name)) = b[DOMAIN Append(path, name)]
  BY <1>1, PushedIsFold
<1>4. b[DOMAIN Append(path, name)] = Pushing[<<a[DOMAIN path], name>>]
  BY <1>2, <1>3, LeftFoldStep
<1>5. Pushed(path) \in NameSeqs
  BY PushedType DEF NameSeqs
<1> QED
  BY <1>2, <1>3, <1>4, <1>5 DEF Pushing, NameSeqs

\* Induction on the length of a path.
LEMMA PathInduction ==
  ASSUME NEW G, << >> \in G,
         \A path \in Seq(Name) : path # << >> /\ Front(path) \in G => path \in G
  PROVE  Seq(Name) \subseteq G
<1> DEFINE R == OpToRel(<, Nat)
           Bad == { k \in Nat : \E path \in Seq(Name) : Len(path) = k /\ path \notin G }
<1>1. IsWellFoundedOn(R, Nat)
  BY NatLessThanWellFounded
<1>2. ASSUME Bad # {}
      PROVE  FALSE
  <2>1. Bad \subseteq Nat
    OBVIOUS
  <2> HIDE DEF R, Bad
  <2>2. PICK k \in Bad : \A j \in Bad : ~(<<j, k>> \in R)
    BY <1>1, <1>2, <2>1, WFMin
  <2>3. PICK path \in Seq(Name) : Len(path) = k /\ path \notin G
    BY <2>2 DEF Bad
  <2>4. path # << >> /\ Front(path) \notin G
    BY <2>3
  <2>5. /\ Front(path) \in Seq(Name) /\ k \in Nat
        /\ Len(Front(path)) \in Nat /\ Len(Front(path)) + 1 = k
    BY <2>3, <2>4, FrontAndLast
  <2>6. Len(Front(path)) \in Bad
    BY <2>4, <2>5 DEF Bad
  <2>7. Len(Front(path)) < k
    BY <2>5
  <2>8. <<Len(Front(path)), k>> \in R
    BY <2>5, <2>7 DEF R, OpToRel
  <2> QED
    BY <2>2, <2>6, <2>8
<1>3. \A path \in Seq(Name) : Len(path) \in Nat
  OBVIOUS
<1> QED
  BY <1>2, <1>3

\* What is there under its own name, and no link, resolves to itself.
LEMMA RealPath ==
  ASSUME NEW path \in DOMAIN Tree, ~IsA(path, "link")
  PROVE  Canonicalize(path) = path
<1> DEFINE G == { p \in Seq(Name) : Exists(p) /\ ~IsA(p, "link") => Canonicalize(p) = p }
<1>1. << >> \in G
  BY CanonicalRoot
<1>2. ASSUME NEW p \in Seq(Name), p # << >>, Front(p) \in G,
             Exists(p), ~IsA(p, "link")
      PROVE  Canonicalize(p) = p
  <2>1. IsA(Front(p), "dir")
    BY <1>2, TreeAssumption DEF Exists
  <2>2. Canonicalize(Front(p)) = Front(p) /\ ~IsA(Front(p), "file") /\ Front(p) # Barred
    BY <1>2, <2>1, TreeAssumption DEF IsA
  <2>3. Canonicalize(p) = Enters(Front(p), Last(p))
    BY <1>2, <2>2, FrontAndLast, CanonicalizeStep
  <2>4. Append(Front(p), Last(p)) = p
    BY <1>2, FrontAndLast
  <2> QED
    BY <1>2, <2>2, <2>3, <2>4 DEF Enters
<1>3. Seq(Name) \subseteq G
  <2>1. \A p \in Seq(Name) : p # << >> /\ Front(p) \in G => p \in G
    BY <1>2
  <2> HIDE DEF G
  <2> QED
    BY <1>1, <2>1, PathInduction
<1>4. path \in Seq(Name) /\ Exists(path)
  BY TreePaths DEF Exists
<1> QED
  BY <1>3, <1>4

\* A name below the directory resolves below the directory's own resolution.
LEMMA ResolvesBelow ==
  ASSUME NEW relative \in Seq(Name),
         Exists(CanonicalBase \o relative), ~IsA(CanonicalBase \o relative, "link")
  PROVE  Canonicalize(Dir \o relative) = CanonicalBase \o relative
<1> DEFINE B == CanonicalBase
           G == { p \in Seq(Name) : Exists(B \o p) /\ ~IsA(B \o p, "link")
                                        => Canonicalize(Dir \o p) = B \o p }
<1>1. Dir \in Seq(Name) /\ B \in Seq(Name)
  BY TreePaths DEF CanonicalBase, Exists
<1> HIDE DEF B
<1>2. << >> \in G
  <2>1. B \o << >> = B /\ Dir \o << >> = Dir
    BY <1>1, ConcatEmptySeq
  <2>2. ASSUME Exists(B), ~IsA(B, "link")
        PROVE  Canonicalize(Dir) = B
    <3>1. CASE Exists(Canonicalize(Dir))
      BY <3>1 DEF B, CanonicalBase
    <3>2. CASE ~Exists(Canonicalize(Dir))
      <4>1. B = Dir
        BY <3>2 DEF B, CanonicalBase
      <4> QED
        BY <2>2, <4>1, RealPath DEF Exists
    <3> QED
      BY <3>1, <3>2
  <2>3. << >> \in Seq(Name)
    OBVIOUS
  <2> QED
    BY <2>1, <2>2, <2>3
<1>3. ASSUME NEW p \in Seq(Name), p # << >>, Front(p) \in G,
             Exists(B \o p), ~IsA(B \o p, "link")
      PROVE  Canonicalize(Dir \o p) = B \o p
  <2> DEFINE q == Front(p)
             x == Last(p)
  <2>1. q \in Seq(Name) /\ x \in Name /\ p = Append(q, x)
    BY <1>3, FrontAndLast
  <2> HIDE DEF q, x
  <2>2. /\ B \o p = Append(B \o q, x) /\ Dir \o p = Append(Dir \o q, x)
        /\ B \o q \in Seq(Name) /\ Dir \o q \in Seq(Name)
    BY <1>1, <2>1
  <2>3. Front(B \o p) = B \o q /\ B \o p # << >>
    BY <2>1, <2>2 DEF Front
  <2>4. IsA(B \o q, "dir")
    BY <1>3, <2>3, TreeAssumption DEF Exists
  <2>5. ~IsA(B \o q, "file") /\ ~IsA(B \o q, "link") /\ Exists(B \o q) /\ B \o q # Barred
    BY <2>4, TreeAssumption DEF IsA
  <2>6. Canonicalize(Dir \o q) = B \o q
    BY <1>3, <2>1, <2>5 DEF q
  <2>7. Canonicalize(Dir \o p) = Enters(B \o q, x)
    BY <2>1, <2>2, <2>6, CanonicalizeStep
  <2> QED
    BY <1>3, <2>2, <2>5, <2>7 DEF Enters
<1>4. Seq(Name) \subseteq G
  <2>1. \A p \in Seq(Name) : p # << >> /\ Front(p) \in G => p \in G
    BY <1>3
  <2> HIDE DEF G
  <2> QED
    BY <1>2, <2>1, PathInduction
<1> QED
  BY <1>4 DEF B

LEMMA PushedNames ==
  ASSUME NEW relative \in Seq(Name), \A i \in DOMAIN relative : relative[i] # "."
  PROVE  Pushed(relative) = Dir \o relative
<1> DEFINE plain(p) == \A i \in DOMAIN p : p[i] # "."
           G == { p \in Seq(Name) : plain(p) => Pushed(p) = Dir \o p }
<1>1. << >> \in G
  <2>1. Dir \o << >> = Dir /\ << >> \in Seq(Name)
    BY TreePaths, ConcatEmptySeq
  <2> QED
    BY <2>1, PushedNothing
<1>2. ASSUME NEW p \in Seq(Name), p # << >>, Front(p) \in G, plain(p)
      PROVE  Pushed(p) = Dir \o p
  <2> DEFINE q == Front(p)
             x == Last(p)
  <2>1. q \in Seq(Name) /\ x \in Name /\ p = Append(q, x)
    BY <1>2, FrontAndLast
  <2> HIDE DEF q, x
  <2>2. Len(q) \in Nat /\ DOMAIN q = 1..Len(q) /\ DOMAIN p = 1..(Len(q) + 1) /\ p[Len(q) + 1] = x
        /\ \A i \in 1..Len(q) : p[i] = q[i]
    BY <2>1, Appended
  <2>3. plain(q) /\ x # "."
    <3>1. \A i \in 1..Len(q) : i \in DOMAIN p
      BY <2>2
    <3>2. Len(q) + 1 \in DOMAIN p
      BY <2>2
    <3> QED
      BY <1>2, <2>2, <3>1, <3>2
  <2>4. Pushed(q) = Dir \o q
    BY <1>2, <2>3 DEF q
  <2>5. Pushed(p) = Append(Dir \o q, x)
    BY <2>1, <2>3, <2>4, PushedStep DEF Push
  <2>6. Dir \o Append(q, x) = Append(Dir \o q, x)
    BY <2>1, TreePaths
  <2> QED
    BY <2>1, <2>5, <2>6
<1>3. Seq(Name) \subseteq G
  <2>1. \A p \in Seq(Name) : p # << >> /\ Front(p) \in G => p \in G
    BY <1>2
  <2> HIDE DEF G
  <2> QED
    BY <1>1, <2>1, PathInduction
<1> QED
  BY <1>3

LEMMA OpenedBelow ==
  ASSUME NEW relative \in Seq(Name), \A path \in ResolveWithin(relative) : ~IsBarred(path)
  PROVE  Opened(relative) \subseteq Below
<1> SUFFICES ASSUME NEW path \in ResolveWithin(relative), ~Escapes(path),
                    NEW file \in OpenForServe(path)
             PROVE  file \in Below
  BY DEF Opened
<1> DEFINE here == LinkPath(path)
<1>1. path \in Seq(Name) /\ Canonicalize(path) # Barred
  <2>1. path = Pushed(relative)
    BY DEF ResolveWithin, Pushed
  <2> QED
    BY <2>1, PushedType DEF IsBarred
<1>2. \/ file = here /\ IsA(here, "file")
      \/ file = Append(here, "index.html") /\ IsA(here, "dir") /\ IsA(file, "file")
  BY DEF OpenForServe
<1>3. Canonicalize(path) = here
  <2>1. CASE path = << >>
    BY <2>1, CanonicalRoot DEF LinkPath
  <2>2. CASE path # << >>
    <3>1. /\ here = Append(Canonicalize(Front(path)), Last(path))
          /\ Canonicalize(path) = Enters(Canonicalize(Front(path)), Last(path))
      BY <1>1, <2>2, FrontAndLast, CanonicalizeStep DEF LinkPath
    <3> HIDE DEF here
    <3>2. Exists(here) /\ ~IsA(here, "link")
      BY <1>2 DEF IsA
    <3> QED
      BY <1>1, <3>1, <3>2 DEF Enters
  <2> QED
    BY <2>1, <2>2
<1> HIDE DEF here
<1>4. here \in DOMAIN Tree /\ here \in Seq(Name) /\ file \in DOMAIN Tree /\ IsA(file, "file")
  BY <1>2, TreePaths DEF IsA, Exists
<1>5. IsPrefix(CanonicalBase, here)
  BY <1>3, <1>4 DEF Escapes, Exists
<1>6. CanonicalBase \in Seq(Name)
  BY TreePaths DEF CanonicalBase, Exists
<1>7. IsPrefix(CanonicalBase, file)
  <2> DEFINE S == Name \cup {"index.html"}
  <2>1. CanonicalBase \in Seq(S) /\ here \in Seq(S) /\ "index.html" \in S
    <3>1. Name \subseteq S /\ "index.html" \in S
      OBVIOUS
    <3> HIDE DEF S
    <3> QED
      BY <1>4, <1>6, <3>1, Wider
  <2> HIDE DEF S
  <2>2. IsPrefix(CanonicalBase, Append(here, "index.html"))
    BY <1>5, <2>1, PrefixGrows
  <2> QED
    BY <1>2, <1>5, <2>2
<1> QED
  BY <1>4, <1>7 DEF Below, Inside

LEMMA NamedIsOpened ==
  ASSUME NEW relative \in Seq(Name), CanonicalBase \o relative \in Below
  PROVE  /\ ResolveWithin(relative) # {}
         /\ \A path \in ResolveWithin(relative) : ~IsBarred(path)
         /\ Opened(relative) # {}
<1> DEFINE B == CanonicalBase
           file == B \o relative
<1>1. B \in Seq(Name) /\ Dir \in Seq(Name)
  BY TreePaths DEF CanonicalBase, Exists
<1>2. file \in DOMAIN Tree /\ IsA(file, "file") /\ Exists(file) /\ ~IsA(file, "link") /\ file # Barred
  BY TreeAssumption DEF Below, IsA, Exists
<1> HIDE DEF B
<1>3. \A i \in DOMAIN relative : relative[i] \notin {"..", "/", "."}
  <2>1. ASSUME NEW i \in DOMAIN relative
        PROVE  Len(B) + i \in DOMAIN file /\ file[Len(B) + i] = relative[i]
    BY <1>1
  <2>2. \A j \in DOMAIN file : file[j] \notin {"..", "/", "."}
    BY <1>2, TreeAssumption
  <2> HIDE DEF file
  <2> QED
    BY <2>1, <2>2
<1> DEFINE path == Dir \o relative
<1>4. ResolveWithin(relative) = {path}
  <2>1. Pushed(relative) = path
    BY <1>3, PushedNames
  <2>2. ResolveWithin(relative) = {Pushed(relative)}
    BY <1>3 DEF ResolveWithin, Pushed
  <2> QED
    BY <2>1, <2>2
<1>5. Canonicalize(path) = file
  BY <1>2, ResolvesBelow DEF B
<1>6. relative # << >>
  <2> SUFFICES ASSUME relative = << >> PROVE FALSE
    OBVIOUS
  <2>1. path = Dir /\ file = B
    BY <1>1, ConcatEmptySeq
  <2>2. IsA(Canonicalize(Dir), "file")
    BY <1>2, <1>5, <2>1
  <2> QED
    BY <2>2, DirAssumption
<1>7. LinkPath(path) = file
  <2> DEFINE q == Front(relative)
             x == Last(relative)
  <2>1. q \in Seq(Name) /\ x \in Name /\ relative = Append(q, x)
    BY <1>6, FrontAndLast
  <2> HIDE DEF q, x
  <2>2. /\ file = Append(B \o q, x) /\ path = Append(Dir \o q, x)
        /\ B \o q \in Seq(Name) /\ Dir \o q \in Seq(Name)
    BY <1>1, <2>1
  <2> HIDE DEF file, path
  <2>3. Front(file) = B \o q /\ Front(path) = Dir \o q /\ Last(path) = x
        /\ path # << >> /\ file # << >>
    BY <2>1, <2>2, AppendEnds
  <2>4. IsA(B \o q, "dir")
    BY <1>2, <2>3, TreeAssumption DEF Exists
  <2>5. Canonicalize(Dir \o q) = B \o q
    BY <2>1, <2>4, ResolvesBelow DEF IsA, B
  <2> QED
    BY <2>2, <2>3, <2>5 DEF LinkPath
<1>8. ~Escapes(path)
  <2>1. IsPrefix(B, file)
    <3>1. Name # {}
      BY <1>6, FrontAndLast
    <3> QED
      BY <1>1, <3>1, PrefixGrows
  <2> QED
    BY <1>5, <2>1 DEF Escapes, B
<1>9. OpenForServe(path) = {file}
  <2> HIDE DEF path, file
  <2>1. ~IsA(file, "dir")
    BY <1>2 DEF IsA
  <2> QED
    BY <1>2, <1>7, <2>1 DEF OpenForServe
<1> HIDE DEF path, file
<1> QED
  BY <1>2, <1>4, <1>5, <1>8, <1>9 DEF IsBarred, Opened

\* An answer that says why a path could not be looked at opens nothing: where a
\* file stands in the way there is no file to open.
LEMMA BarredOpensNothing ==
  ASSUME NEW relative \in Seq(Name), NEW path \in ResolveWithin(relative), IsBarred(path)
  PROVE  OpenForServe(path) = {}
<1> DEFINE dir == Canonicalize(Front(path))
           S == Name \cup {"?", "!"}
<1>1. path \in Seq(Name) /\ path # << >>
  <2>1. path = Pushed(relative)
    BY DEF ResolveWithin, Pushed
  <2>2. Canonicalize(<< >>) # Barred
    BY CanonicalRoot DEF Barred
  <2> QED
    BY <2>1, <2>2, PushedType DEF IsBarred
<1>2. /\ Front(path) \in Seq(Name) /\ Last(path) \in Name
      /\ LinkPath(path) = Append(dir, Last(path))
      /\ Canonicalize(path) = Enters(dir, Last(path))
  BY <1>1, FrontAndLast, CanonicalizeStep DEF LinkPath
<1>3. dir \in Seq(S) /\ Last(path) \in S
  <2>1. dir \in Places
    <3>1. PICK it \in LeftFolds(Front(path), Places, << >>, Entering) : dir = it[DOMAIN Front(path)]
      BY <1>2, CanonicalIsFold
    <3> QED
      BY <3>1 DEF LeftFolds
  <2>2. Name \subseteq S /\ << >> \in Seq(S) /\ Nowhere \in Seq(S) /\ Barred \in Seq(S)
    BY DEF Nowhere, Barred
  <2> HIDE DEF S, dir
  <2>3. DOMAIN Tree \subseteq Seq(S)
    BY <2>2, TreePaths, Wider
  <2> QED
    BY <1>2, <2>1, <2>2, <2>3 DEF Places
<1> HIDE DEF dir, S
<1>4. IsA(dir, "file") \/ dir = Barred
  <2> DEFINE next == Append(dir, Last(path))
  <2> SUFFICES ASSUME ~IsA(dir, "file"), dir # Barred PROVE FALSE
    OBVIOUS
  <2>1. Enters(dir, Last(path)) = Barred /\ ~Exists(Barred) /\ Nowhere # Barred
    BY <1>2, TreeAssumption DEF IsBarred, Nowhere, Barred
  <2> HIDE DEF next
  <2>2. CASE ~Exists(next)
    <3>1. Enters(dir, Last(path)) = Nowhere
      BY <2>2 DEF Enters, IsA, next
    <3> QED
      BY <2>1, <3>1
  <2>3. CASE IsA(next, "link")
    <3>1. Enters(dir, Last(path)) = IF Exists(Tree[next].to) THEN Tree[next].to ELSE Nowhere
      BY <2>3 DEF Enters, IsA, next
    <3> QED
      BY <2>1, <3>1
  <2>4. CASE Exists(next) /\ ~IsA(next, "link")
    <3>1. Enters(dir, Last(path)) = next
      BY <2>4 DEF Enters, next
    <3> QED
      BY <2>1, <2>4, <3>1
  <2> QED
    BY <2>2, <2>3, <2>4
<1>5. ~IsA(dir, "dir")
  BY <1>4, TreeAssumption DEF IsA
<1>6. ~Exists(LinkPath(path))
  <2> SUFFICES ASSUME Exists(LinkPath(path)) PROVE FALSE
    OBVIOUS
  <2> DEFINE here == LinkPath(path)
  <2>1. here # << >> /\ Front(here) = dir
    BY <1>2, <1>3, AppendEnds
  <2> HIDE DEF here
  <2>2. IsA(Front(here), "dir")
    BY <2>1, TreeAssumption DEF here, Exists
  <2> QED
    BY <1>5, <2>1, <2>2
<1> QED
  BY <1>6 DEF OpenForServe, IsA

\* What ServeDir::call answers when it comes to nothing that it could open.
LEMMA NothingOpened ==
  ASSUME NEW ask, NEW relative, ask.file = {relative}, Opened(relative) = {}
  PROVE  ServeDirCall(ask).tag = "err" \/ ServeDirCall(ask).res.status # 200
<1> DEFINE r == ServeDirCall(ask)
           outside == ResolveWithin(relative) = {}
           barred == \E path \in ResolveWithin(relative) : IsBarred(path)
<1>1. /\ ask.file # {}
      /\ (\E f \in ask.file : ResolveWithin(f) = {}) <=> outside
      /\ (\E path \in Paths(ask) : IsBarred(path)) <=> barred
      /\ ~ \E f \in ask.file : Opened(f) # {}
  BY DEF Paths
<1>2. outside => ~barred
  OBVIOUS
<1> HIDE DEF outside, barred
<1>3. CASE outside
  <2>1. r = Ok(Text(403, 9))
    BY <1>1, <1>2, <1>3, Zenon DEF ServeDirCall
  <2> QED
    BY <2>1 DEF Ok, Text, New
<1>4. CASE barred
  <2>1. r = Err("io")
    BY <1>1, <1>2, <1>4, Zenon DEF ServeDirCall
  <2> QED
    BY <2>1 DEF Err
<1>5. CASE ~outside /\ ~barred
  <2>1. r = Ok(Text(404, 9))
    BY <1>1, <1>5, Zenon DEF ServeDirCall
  <2> QED
    BY <2>1 DEF Ok, Text, New
<1> QED
  BY <1>3, <1>4, <1>5

\* A sibling that is no link is in the directory of the file it stands for.
LEMMA SiblingInside ==
  ASSUME NEW path \in Seq(Name), NEW coding \in {"br", "gzip"}, ~Escapes(path),
         IsA(LinkPath(path), "file"), Opens(Sibling(path, coding)),
         ~IsA(LinkPath(Sibling(path, coding)), "link")
  PROVE  Canonicalize(Sibling(path, coding)) \in Inside
<1> DEFINE dir == Canonicalize(Front(path))
           here == Append(dir, Last(path))
           name == WithExtension(Last(path), coding)
           there == Append(dir, name)
<1>1. /\ path # << >> /\ LinkPath(path) = here
      /\ Front(path) \in Seq(Name) /\ Last(path) \in Name
      /\ Canonicalize(path) = Enters(dir, Last(path))
  <2>1. path # << >>
    BY TreeAssumption DEF LinkPath
  <2>2. /\ Front(path) \in Seq(Name) /\ Last(path) \in Name
        /\ path = Append(Front(path), Last(path))
    BY <2>1, FrontAndLast
  <2> QED
    BY <2>1, <2>2, CanonicalizeStep DEF LinkPath
<1>2. here \in DOMAIN Tree /\ IsA(here, "file") /\ here \in Seq(Name)
  BY <1>1, TreePaths DEF IsA, Exists
<1>3. dir \in DOMAIN Tree /\ dir \in Seq(Name) /\ IsA(dir, "dir") /\ Last(here) = Last(path)
  <2> DEFINE S == Name \cup {"?", "!"}
  <2>1. dir \in Places
    <3>1. PICK it \in LeftFolds(Front(path), Places, << >>, Entering) : dir = it[DOMAIN Front(path)]
      BY <1>1, CanonicalIsFold
    <3> QED
      BY <3>1 DEF LeftFolds
  <2>2. Name \subseteq S /\ << >> \in Seq(S) /\ Nowhere \in Seq(S) /\ Barred \in Seq(S)
    BY DEF Nowhere, Barred
  <2> HIDE DEF S, dir
  <2>3. DOMAIN Tree \subseteq Seq(S)
    BY <2>2, TreePaths, Wider
  <2>4. dir \in Seq(S) /\ Last(path) \in S
    BY <1>1, <2>1, <2>2, <2>3 DEF Places
  <2> HIDE DEF here
  <2>5. here # << >> /\ Front(here) = dir /\ Last(here) = Last(path)
    BY <2>4, AppendEnds DEF here
  <2>6. IsA(dir, "dir")
    BY <1>2, <2>5, TreeAssumption
  <2> QED
    BY <2>5, <2>6, TreePaths DEF IsA, Exists
<1>4. here # << >> /\ name \in Name
  <2>1. here # << >>
    BY <1>1, <1>3, AppendEnds
  <2> QED
    BY <1>2, <1>3, <2>1, ExtensionAssumption DEF Name
<1>5. ~IsA(dir, "file") /\ dir # Barred
  BY <1>3, TreeAssumption DEF IsA, Exists
<1>6. Canonicalize(path) = here
  <2> HIDE DEF here, dir
  <2>1. Exists(here) /\ ~IsA(here, "link")
    BY <1>2 DEF IsA
  <2> QED
    BY <1>1, <1>5, <2>1 DEF Enters, here
<1>7. Canonicalize(Sibling(path, coding)) = there /\ there \in DOMAIN Tree
  <2>1. Sibling(path, coding) = Append(Front(path), name)
    BY DEF Sibling
  <2> HIDE DEF name
  <2>2. Canonicalize(Sibling(path, coding)) = Enters(dir, name)
    BY <1>1, <1>4, <2>1, CanonicalizeStep
  <2>3. LinkPath(Sibling(path, coding)) = there
    <3>1. /\ Sibling(path, coding) # << >>
          /\ Front(Sibling(path, coding)) = Front(path) /\ Last(Sibling(path, coding)) = name
      BY <1>1, <1>4, <2>1, AppendEnds
    <3> QED
      BY <3>1 DEF LinkPath
  <2> HIDE DEF dir, there
  <2>4. Exists(there)
    <3> SUFFICES ASSUME ~Exists(there) PROVE FALSE
      OBVIOUS
    <3>1. Enters(dir, name) = Nowhere
      BY <1>5 DEF Enters, IsA, there
    <3> QED
      BY <2>2, <3>1, TreeAssumption DEF Opens
  <2>5. Enters(dir, name) = there
    BY <1>5, <2>3, <2>4 DEF Enters, there
  <2> QED
    BY <2>2, <2>4, <2>5 DEF Exists
<1> HIDE DEF name
<1> HIDE DEF here
<1>8. CanonicalBase \in Seq(Name) /\ CanonicalBase # here
  <2>1. CanonicalBase \in Seq(Name)
    BY TreePaths DEF CanonicalBase, Exists
  <2>2. ASSUME Exists(Canonicalize(Dir))
        PROVE  CanonicalBase # here
    <3>1. CanonicalBase = Canonicalize(Dir)
      BY <2>2 DEF CanonicalBase
    <3> QED
      BY <1>2, <3>1, DirAssumption
  <2>3. ASSUME ~Exists(Canonicalize(Dir))
        PROVE  CanonicalBase # here
    <3>1. Canonicalize(here) = here
      <4>1. ~IsA(here, "link")
        BY <1>2 DEF IsA
      <4> QED
        BY <1>2, <4>1, RealPath
    <3>2. CanonicalBase = Dir
      BY <2>3 DEF CanonicalBase
    <3>3. Exists(here)
      BY <1>2 DEF Exists
    <3> QED
      BY <2>3, <3>1, <3>2, <3>3
  <2> QED
    BY <2>1, <2>2, <2>3
<1>9. IsPrefix(CanonicalBase, here)
  BY <1>2, <1>6 DEF Escapes, Exists
<1> HIDE DEF dir
<1>10. IsPrefix(CanonicalBase, dir)
  BY <1>1, <1>3, <1>8, <1>9, PrefixShrinks DEF here
<1>11. IsPrefix(CanonicalBase, there)
  BY <1>3, <1>4, <1>8, <1>10, PrefixGrows
<1> QED
  BY <1>7, <1>11 DEF Inside

\* The siblings of a path that are links.
LinkedOf(path, accepted) ==
  { s \in { Sibling(path, coding) : coding \in accepted } : IsA(LinkPath(s), "link") }

LEMMA FileSent ==
  ASSUME NEW ask, NEW relative \in Seq(Name), ask.file = {relative},
         ServeDirCall(ask).tag = "ok", ServeDirCall(ask).res.status = 200
  PROVE  \E path \in Seq(Name) :
           /\ Paths(ask) = {path}
           /\ SentFrom(path, Accepted(ask)) # {}
           /\ SentFrom(path, Accepted(ask)) \subseteq
                Inside \cup { Canonicalize(s) : s \in LinkedOf(path, Accepted(ask)) }
<1>1. Opened(relative) # {}
  BY NothingOpened
<1>2. PICK path \in Seq(Name) :
        ResolveWithin(relative) = {path} /\ ~Escapes(path) /\ OpenForServe(path) # {}
  <2>1. ResolveWithin(relative) = {Pushed(relative)}
    BY <1>1 DEF ResolveWithin, Pushed, Opened
  <2> QED
    BY <1>1, <2>1, PushedType DEF Opened
<1>3. OpenForServe(path) \subseteq Below
  <2>1. ~IsBarred(path)
    BY <1>2, BarredOpensNothing
  <2>2. Opened(relative) \subseteq Below
    BY <1>2, <2>1, OpenedBelow
  <2>3. OpenForServe(path) \subseteq Opened(relative)
    BY <1>2 DEF Opened
  <2> QED
    BY <2>2, <2>3
<1>4. Paths(ask) = {path}
  BY <1>2 DEF Paths
<1> DEFINE accepted == Accepted(ask)
           coding == CodingOf(path, accepted)
<1>5. CASE coding = "none"
  <2>1. SentFrom(path, accepted) = OpenForServe(path)
    BY <1>5 DEF SentFrom
  <2>2. SentFrom(path, accepted) \subseteq Inside
    BY <1>3, <2>1 DEF Below
  <2> QED
    BY <1>2, <1>4, <2>1, <2>2
<1>6. CASE coding # "none"
  <2>1. SentFrom(path, accepted) = {Canonicalize(Sibling(path, coding))}
    BY <1>6 DEF SentFrom
  <2>2. /\ coding \in {"br", "gzip"} /\ coding \in accepted
        /\ IsA(LinkPath(path), "file") /\ Opens(Sibling(path, coding))
    BY <1>6 DEF CodingOf
  <2> HIDE DEF accepted, coding
  <2>3. ASSUME IsA(LinkPath(Sibling(path, coding)), "link")
        PROVE  Sibling(path, coding) \in LinkedOf(path, accepted)
    BY <2>2, <2>3 DEF LinkedOf
  <2>4. ASSUME ~IsA(LinkPath(Sibling(path, coding)), "link")
        PROVE  Canonicalize(Sibling(path, coding)) \in Inside
    BY <1>2, <2>2, <2>4, SiblingInside
  <2>5. Canonicalize(Sibling(path, coding)) \in
          Inside \cup { Canonicalize(s) : s \in LinkedOf(path, accepted) }
    BY <2>3, <2>4
  <2>6. /\ SentFrom(path, accepted) # {}
        /\ SentFrom(path, accepted) \subseteq
             Inside \cup { Canonicalize(s) : s \in LinkedOf(path, accepted) }
    <3> DEFINE allowed == Inside \cup { Canonicalize(s) : s \in LinkedOf(path, accepted) }
    <3> HIDE DEF allowed
    <3>1. Canonicalize(Sibling(path, coding)) \in allowed
      BY <2>5 DEF allowed
    <3>2. SentFrom(path, accepted) # {} /\ SentFrom(path, accepted) \subseteq allowed
      BY <2>1, <3>1
    <3> QED
      BY <3>2 DEF allowed
  <2> QED
    BY <1>4, <2>6, Zenon DEF accepted
<1> QED
  BY <1>5, <1>6

LEMMA NamedIsSent ==
  ASSUME NEW ask, NEW relative \in Seq(Name), ask.file = {relative},
         CanonicalBase \o relative \in Below
  PROVE  ServeDirCall(ask).tag = "ok" /\ ServeDirCall(ask).res.status = 200
<1>1. /\ ResolveWithin(relative) # {}
      /\ \A path \in ResolveWithin(relative) : ~IsBarred(path)
      /\ Opened(relative) # {}
  BY NamedIsOpened
<1> DEFINE sent == Precoded(New(200, "html", StreamBody(ask.size)), ContentEncoding(ask))
<1>2. /\ ask.file # {} /\ ~ \E f \in ask.file : ResolveWithin(f) = {}
      /\ ~ \E path \in Paths(ask) : IsBarred(path)
      /\ \E f \in ask.file : Opened(f) # {}
  BY <1>1 DEF Paths
<1>3. ServeDirCall(ask) = Ok(sent)
  BY <1>2, Zenon DEF ServeDirCall
<1>4. sent.status = 200
  BY DEF Precoded, New
<1> HIDE DEF sent
<1> QED
  BY <1>3, <1>4 DEF Ok

\* What ServedInside asks of one exchange.
Guarded(e) ==
  /\ Sent(e)' => /\ SentBy(e) # {}
                 /\ SentBy(e) \subseteq Inside \cup { Canonicalize(s) : s \in LinkedSiblings(e) }
  /\ (\E f \in Ask(e).file : CanonicalBase \o f \in Below) => Sent(e)'

LEMMA ServesStep ==
  ASSUME TypeOK, case \in Workloads, NEW e \in Exchanges, ServeFromDir(e)
  PROVE  Guarded(e)
<1> DEFINE ask == Ask(e)
<1>1. result'[e] = ServeDirCall(ask)
  <2>1. result \in [Exchanges -> Result]
    BY DEF TypeOK
  <2> HIDE DEF Result
  <2> QED
    BY <2>1 DEF ServeFromDir, FinishWith, Answer
<1>2. ask.file \subseteq Seq(Name) /\ \A f, g \in ask.file : f = g
  <2>1. ask \in Case
    BY DEF TypeOK, Ask
  <2>2. \A f, g \in ask.file : f = g
    BY OneFileAssumption DEF Ask
  <2> QED
    BY <2>1, <2>2 DEF Case, Name
<1> HIDE DEF ask
<1>3. CASE ask.file = {}
  <2>1. /\ ~ \E f \in ask.file : ResolveWithin(f) = {}
        /\ ~ \E path \in Paths(ask) : IsBarred(path)
        /\ ~ \E f \in ask.file : Opened(f) # {}
    BY <1>3 DEF Paths
  <2>2. ServeDirCall(ask) = Err("missing param")
    BY <1>3, <2>1, Zenon DEF ServeDirCall
  <2>3. ~Sent(e)'
    <3>1. Err("missing param").tag = "err"
      BY DEF Err
    <3>2. result'[e] = Err("missing param")
      BY <1>1, <2>2, Zenon
    <3> QED
      BY <3>1, <3>2 DEF Sent
  <2> QED
    BY <1>3, <2>3 DEF Guarded, ask
<1>4. ASSUME NEW relative \in ask.file
      PROVE  Guarded(e)
  <2>1. relative \in Seq(Name) /\ ask.file = {relative}
    BY <1>2
  <2>2. ASSUME CanonicalBase \o relative \in Below
        PROVE  Sent(e)'
    BY <1>1, <2>1, <2>2, NamedIsSent DEF Sent
  <2>3. ASSUME Sent(e)'
        PROVE  /\ SentBy(e) # {}
               /\ SentBy(e) \subseteq Inside \cup { Canonicalize(s) : s \in LinkedSiblings(e) }
    <3>1. ServeDirCall(ask).tag = "ok" /\ ServeDirCall(ask).res.status = 200
      BY <1>1, <2>3 DEF Sent
    <3>2. PICK path \in Seq(Name) :
            /\ Paths(ask) = {path}
            /\ SentFrom(path, Accepted(ask)) # {}
            /\ SentFrom(path, Accepted(ask)) \subseteq
                 Inside \cup { Canonicalize(s) : s \in LinkedOf(path, Accepted(ask)) }
      BY <2>1, <3>1, FileSent
    <3>3. SentBy(e) = SentFrom(path, Accepted(ask))
      BY <3>2 DEF SentBy, ask
    <3>4. LinkedSiblings(e) = LinkedOf(path, Accepted(ask))
      BY <3>2 DEF LinkedSiblings, LinkedOf, ask
    <3> QED
      BY <3>2, <3>3, <3>4
  <2> QED
    BY <2>1, <2>2, <2>3 DEF Guarded, ask
<1> QED
  BY <1>3, <1>4

\* Whatever links the tree holds and however a path is spelled, ServeDir sends
\* nothing from outside its directory but what a precompressed sibling that is
\* itself a link leads to, and every file below it is sent under its own names.
THEOREM ServesInside == Spec => ServedInside
<1>1. Init => case \in Workloads
  BY DEF Init
<1>2. TypeOK /\ case \in Workloads /\ [Next]_vars => (case \in Workloads)'
  BY OthersUntouched DEF Next, SetErrorHandler, vars
<1>3. TypeOK /\ case \in Workloads /\ [Next]_vars
      => \A e \in Exchanges : ServeFromDir(e) => Guarded(e)
  BY ServesStep
<1>4. ASSUME \A e \in Exchanges : ServeFromDir(e) => Guarded(e)
      PROVE  \A e \in Exchanges : ServeFromDir(e) =>
               /\ Sent(e)' => /\ SentBy(e) # {}
                              /\ SentBy(e) \subseteq
                                   Inside \cup { Canonicalize(s) : s \in LinkedSiblings(e) }
               /\ (\E f \in Ask(e).file : CanonicalBase \o f \in Below) => Sent(e)'
  BY <1>4, Zenon DEF Guarded
<1> QED
  BY <1>1, <1>2, <1>3, <1>4, TypeInit, TypeStep, PTL DEF Spec, ServedInside

=============================================================================
