------------------------------- MODULE Layers -------------------------------
(***************************************************************************)
(* What each built-in middleware makes of a request on the way in and of a *)
(* response on the way out (src/cors.rs, src/middleware).  A layer is a    *)
(* kind, the headers it sets, and a number: BodyLimit's maximum.           *)
(***************************************************************************)
EXTENDS Replies

LayerKind ==
  {"metrics", "timeout", "body limit", "cors", "security headers", "request id",
   "compression", "csrf", "logger"}

Dressers == {"cors", "security headers", "request id"}

Layer ==
  { layer \in [kind : LayerKind, values : HeaderMap, max : Nat] :
      layer.kind \notin Dressers => layer.values = NoHeaders }

Plain(kind) == [kind |-> kind, values |-> NoHeaders, max |-> 0]

LimitTo(max) == [Plain("body limit") EXCEPT !.max = max]

-----------------------------------------------------------------------------
(* Configuration. *)

\* "origin" stands for the three Allow- headers that are always there.
DefaultCors ==
  [Plain("cors") EXCEPT
     !.values = [@ EXCEPT !["origin"] = "*", !["max age"] = "86400"]]

\* A setter of Cors or of SecurityHeaders: the last value of a header counts.
Configure(layer, h, v) == [layer EXCEPT !.values = [@ EXCEPT ![h] = v]]
AllowCredentials(layer, yes) ==
  Configure(layer, "credentials", IF yes THEN "true" ELSE Absent)
Harden(layer, h, v) == Configure(layer, h, v)

-----------------------------------------------------------------------------
(* On the way in. *)

SafeMethods == {"GET", "HEAD", "OPTIONS"}

\* Csrf: cookie and provided are sets, empty for none.
TokenMatches(cookie, provided) == cookie # {} /\ cookie = provided
Blocks(method, cookie, provided) ==
  method \notin SafeMethods /\ ~TokenMatches(cookie, provided)

\* A fresh token goes out in a cookie.
SendToken(r, who) == AppendCookie(r, who)
Forbidden(who) == SendToken(Text(403, 17), who)

Preflight(method) == method = "OPTIONS"
NoContent == Text(204, 0)

\* BodyLimit looks at what the client declares, before it reads anything.
Oversized(layer, declared, size) == declared /\ size > layer.max
PayloadTooLarge == Text(413, 17)

RequestTimeout == Text(408, 15)

\* RequestId: the client's id, else the one this layer generates.
RequestIdOf(layer, given) == IF given # Absent THEN given ELSE layer.values["id"]

-----------------------------------------------------------------------------
(* On the way out, of a response that is not an error. *)

MinSize == 4           \* bytes worth compressing (256 in the code)
GzipSize(n) == n \div 2 + 1

AlreadyCompressed == {"image", "octet"}
Compressible(r) == r.type # "none" /\ r.type \notin AlreadyCompressed

\* Mutant: what the response is already encoded in is not looked at.
WorthCompressingAgain(r) ==
  /\ r.status \in 200..299
  /\ Compressible(r)
  /\ r.body.kind = "full"
  /\ r.body.size >= MinSize

WorthCompressing(r) ==
  /\ r.status \in 200..299
  /\ r.coding = "none"
  /\ Compressible(r)
  /\ r.body.kind = "full"
  /\ r.body.size >= MinSize

Gzip(r) ==
  LET n == GzipSize(r.body.size)
  IN [r EXCEPT !.coding = "gzip", !.length = n,
               !.body = [kind |-> "full", size |-> n, zipped |-> @.zipped + 1]]

\* Csrf arms a client that sent no token.
Arm(r, who, cookie) == IF cookie = {} THEN SendToken(r, who) ELSE r

\* The headers a layer inserts: those of Cors and SecurityHeaders are fixed.
Dressing(layer, given) ==
  IF layer.kind = "request id"
  THEN [NoHeaders EXCEPT !["id"] = RequestIdOf(layer, given)]
  ELSE layer.values

\* The response as it leaves layer, which stands at position who of its chain.
After(layer, who, ask, r) ==
  CASE layer.kind = "compression" -> IF ask.gzip /\ WorthCompressing(r) THEN Gzip(r) ELSE r
    [] layer.kind = "csrf"        -> Arm(r, who, ask.token)
    [] OTHER -> [r EXCEPT !.headers = Overlay(Dressing(layer, ask.id), @)]

=============================================================================
