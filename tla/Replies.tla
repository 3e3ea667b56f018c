------------------------------ MODULE Replies ------------------------------
(***************************************************************************)
(* Responses, errors and bodies as values (src/response.rs, src/error.rs,  *)
(* src/into_response.rs, src/body.rs).  A response is its status, content  *)
(* type, body, content coding, explicit Content-Length, the other headers  *)
(* that layers set, and who attached a Set-Cookie line to it.  What a body *)
(* says is left out; how long it is, whether it is in memory and how often *)
(* it was compressed is not.                                               *)
(***************************************************************************)
EXTENDS Integers

NoLength == -1          \* no Content-Length, no upper bound on the size
Absent == ""            \* a header that is not set

Header == {"origin", "credentials", "expose", "max age", "nosniff", "frame", "id"}
Type   == {"none", "text", "json", "html", "octet", "image"}
Coding == {"none", "gzip", "br"}
Status == 100..999      \* what StatusCode::from_u16 takes

BodyKind == {"full", "streaming"}
Body == [kind : BodyKind, size : Nat, zipped : Nat]

Value == STRING \cup {Absent}
HeaderMap == [Header -> Value]
CookieLines == SUBSET Nat
Length == Nat \cup {NoLength}

Response ==
  [status : Status, type : Type, body : Body, coding : Coding,
   length : Length, headers : HeaderMap, cookies : CookieLines]

ErrorKind ==
  {"hyper", "http", "json", "io", "any", "urlencoded", "addr", "status code",
   "missing param", "invalid param", "message", "session", "too large",
   "media type", "multipart"}

\* crate::Result
Ok(r)  == [tag |-> "ok", res |-> r]
Err(k) == [tag |-> "err", err |-> k]
Result == [tag : {"ok"}, res : Response] \cup [tag : {"err"}, err : ErrorKind]

-----------------------------------------------------------------------------
(* Bodies. *)

FullBody(n) == [kind |-> "full", size |-> n, zipped |-> 0]
StreamBody(n) == [kind |-> "streaming", size |-> n, zipped |-> 0]

SizeHint(b) == IF b.kind = "full" THEN b.size ELSE NoLength

\* What the client is told to expect.
Announced(r) == IF r.length # NoLength THEN r.length ELSE SizeHint(r.body)

-----------------------------------------------------------------------------
(* Constructors, setters and the builder. *)

NoHeaders == [h \in Header |-> Absent]

New(status, type, body) ==
  [status |-> status, type |-> type, body |-> body, coding |-> "none",
   length |-> NoLength, headers |-> NoHeaders, cookies |-> {}]

Text(status, n) == New(status, "text", FullBody(n))
Json(n) == New(200, "json", FullBody(n))
Html(n) == New(200, "html", FullBody(n))

\* The From impls of Response: a body, a string, an anyhow::Error.
FromBody(body) == New(200, "none", body)
FromText(n) == Text(200, n)
FromAnyhow(n) == Text(500, n)

\* Mutant: the status code is taken as it is.
Unchecked(status, r) == Ok(r)

\* A status given as a number may be none: that is an error, not a response.
Checked(status, r) == IF status \in Status THEN Ok(r) ELSE Err("status code")
WithStatus(status, n) == Checked(status, Text(status, n))
Redirect(status) == Checked(status, New(status, "none", FullBody(0)))

\* Mutant: a header that is there stays.
OverlayMissing(new, old) ==
  [h \in Header |-> IF old[h] # Absent THEN old[h] ELSE new[h]]

\* HeaderMap::insert for every header that new has.
Overlay(new, old) ==
  [h \in Header |-> IF new[h] # Absent THEN new[h] ELSE old[h]]

SetHeader(r, h, v) == [r EXCEPT !.headers = [@ EXCEPT ![h] = v]]
Precoded(r, coding) ==          \* set_header(CONTENT_ENCODING)
  [r EXCEPT !.coding = coding, !.body.zipped = IF coding = "none" THEN 0 ELSE 1]
AppendCookie(r, who) == [r EXCEPT !.cookies = @ \cup {who}]

\* ResponseBuilder: the status is a StatusCode, text() and json() bring a type.
Build(status, type, body) == New(status, type, body)

-----------------------------------------------------------------------------
(* Errors. *)

BadRequest == {"missing param", "invalid param", "urlencoded", "json", "multipart"}

StatusOf(err) ==
  CASE err \in BadRequest     -> 400
    [] err = "too large"      -> 413
    [] err = "media type"     -> 415
    [] OTHER                  -> 500

IsServerError(err) == StatusOf(err) = 500

\* What went wrong in the server is not told: a fixed text, 21 bytes long.
DefaultRenderer ==
  [err \in ErrorKind |->
     IF IsServerError(err) THEN Text(500, 21) ELSE Text(StatusOf(err), 30)]

-----------------------------------------------------------------------------
(***************************************************************************)
(* IntoResponse: what a handler function may return, and what becomes of   *)
(* it.  render is the renderer in force; an Error is rendered here, so no  *)
(* error of a function leaves as Err, except a number that is no status.   *)
(***************************************************************************)
TypeOf(as) ==
  CASE as \in {"unit", "body"} -> "none"
    [] as = "bytes"            -> "octet"
    [] OTHER                   -> "text"

IntoResponse(v, render) ==
  CASE v.as = "error"    -> Ok(render[v.err])
    [] v.as = "response" -> Ok(v.res)
    [] v.as = "body"     -> Ok(FromBody(v.body))
    [] v.as = "json"     -> Ok(Json(v.size))
    [] v.as = "u16"      -> WithStatus(v.status, v.size)
    [] OTHER             -> Ok(Build(200, TypeOf(v.as), FullBody(v.size)))

Returnable ==
  [as : {"error"}, err : ErrorKind] \cup [as : {"response"}, res : Response]
    \cup [as : {"body"}, body : Body]
    \cup [as : {"unit", "text", "bytes", "json"}, size : Nat]
    \cup [as : {"u16"}, status : Nat, size : Nat]

=============================================================================
