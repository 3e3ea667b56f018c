----------------------------- MODULE MCExchange -----------------------------
(***************************************************************************)
(* Exchange with two requests.  The first meets every kind of layer, body, *)
(* handler and answer; the second goes to a server without a limit, or is  *)
(* counted by the same Metrics at the same time.                           *)
(***************************************************************************)
EXTENDS Exchange, TLC

Metrics == Plain("metrics")
Timeout == Plain("timeout")
Secure  == Harden(Harden(Plain("security headers"), "nosniff", "nosniff"), "frame", "DENY")
Outer   == AllowCredentials(Configure(DefaultCors, "origin", "a"), TRUE)
Inner   == Configure(Configure(DefaultCors, "expose", "x"), "max age", "60")
Id(v)   == Configure(Plain("request id"), "id", v)

\* The first is sent to a server behind two proxies, one of them given as a
\* bare address, with the default limit of the model; the second to one on a
\* Unix domain socket without a limit.
MCOptions ==
  [e \in {"e1", "e2"} |->
     IF e = "e1"
     THEN With(DefaultOptions("tcp"), "trusted_proxies",
               ParseTrustedProxies(<<Network({"p1", "p2"}), Host("p3")>>))
     ELSE NoBodyLimit(DefaultOptions("unix"))]

\* /srv is a link to /v1; v1 holds a page, a directory with an index, a link
\* to it, a link to a file in it and links out of it.  The page has a sibling
\* for each coding, the brotli one a link within v1; the index has one too.
File == [kind |-> "file", to |-> << >>]
Folder == [kind |-> "dir", to |-> << >>]
Link(path) == [kind |-> "link", to |-> path]
MCDir == <<"srv">>
MCTree ==
  (<< >> :> Folder) @@ (<<"srv">> :> Link(<<"v1">>)) @@ (<<"v1">> :> Folder)
  @@ (<<"v1", "page">> :> File) @@ (<<"v1", "docs">> :> Folder)
  @@ (<<"v1", "docs", "index.html">> :> File) @@ (<<"v1", "more">> :> Link(<<"v1", "docs">>))
  @@ (<<"v1", "copy">> :> Link(<<"v1", "page">>)) @@ (<<"v1", "home">> :> Link(<<"home">>))
  @@ (<<"home">> :> Folder) @@ (<<"home", "index.html">> :> File) @@ (<<"home", "note">> :> File)
  @@ (<<"v1", "empty">> :> Folder) @@ (<<"v1", "gone">> :> Link(<<"v0">>))
  @@ (<<"v1", "page.br">> :> Link(<<"v1", "docs", "page.br">>)) @@ (<<"v1", "docs", "page.br">> :> File)
  @@ (<<"v1", "page.gz">> :> File) @@ (<<"v1", "docs", "index.html.gz">> :> File)
  @@ (<<"v1", "bin">> :> File) @@ (<<"v1", "bin.gz">> :> Link(<<"home", "note">>))

MCWithExtension(name, coding) == name \o (IF coding = "br" THEN ".br" ELSE ".gz")

-----------------------------------------------------------------------------
(* Requests. *)

Say == [as |-> "text", size |-> 2]
Reply(r) == [as |-> "response", res |-> r]

Simple ==
  [sent |-> TRUE, layers |-> << >>, endpoint |-> "function", method |-> "GET", declared |-> TRUE,
   size |-> 0, form |-> "plain", parses |-> TRUE, gzip |-> FALSE, br |-> FALSE, id |-> Absent,
   token |-> {}, provided |-> {}, peer |-> {"c1"}, chain |-> << >>, access |-> {},
   file |-> {}, precompressed |-> FALSE, returns |-> {Say}, reads |-> {}]

\* Chains of proxies, as the server is told them.
Proxied ==
  { [Simple EXCEPT !.peer = peer, !.chain = chain] :
      peer \in {{}, {"c1"}, {"p1"}, {"p3"}},
      chain \in UNION { [1..n -> {"c1", "c2", "p2", "?"}] : n \in 0..3 } }

\* Bodies under limits: the server's own, a larger one, a smaller one inside.
LimitChains == { << >>, <<LimitTo(3)>>, <<LimitTo(3), LimitTo(1)>>, <<LimitTo(1), LimitTo(3)>> }
Posting ==
  [Simple EXCEPT !.method = "POST", !.returns = {Say}]
Bodies ==
  { [Posting EXCEPT !.layers = chain, !.reads = {kind}, !.size = size,
                    !.declared = declared, !.parses = parses] :
      chain \in LimitChains, kind \in {"json", "form", "stream", "save"},
      size \in 0..4, declared \in BOOLEAN, parses \in BOOLEAN }
  \cup { [Posting EXCEPT !.reads = {"multipart", "stream"}, !.size = size, !.form = form, !.parses = parses] :
      size \in {0, 2, 3}, form \in {"plain", "multipart", "no boundary"}, parses \in BOOLEAN }

\* Chains in which layers answer in each other's place.
Chains ==
  { <<Metrics, Outer, Timeout, Secure, Inner, Id("g1")>>,
    <<Outer, Metrics, Timeout, Metrics, Inner>>,
    <<Id("g1"), Timeout, Metrics, Id("g2"), Timeout, Outer>>,
    <<Secure, Plain("compression"), Plain("csrf"), Plain("logger"), Inner, Timeout>>,
    <<Plain("compression"), Metrics, Timeout, Plain("compression"), LimitTo(1), Outer>> }

Answers ==
  { Reply(FromText(6)), Reply(FromAnyhow(6)), Reply(Json(3)), [as |-> "bytes", size |-> 6],
    [as |-> "u16", status |-> 404, size |-> 6], [as |-> "u16", status |-> 42, size |-> 6],
    [as |-> "error", err |-> "message"], [as |-> "error", err |-> "too large"],
    [as |-> "body", body |-> StreamBody(6)], [as |-> "unit", size |-> 0],
    Reply(Precoded(Html(6), "gzip")), Reply(New(200, "html", StreamBody(6))),
    Reply(SetHeader(Html(6), "frame", "own")), Reply(Redirect(302).res) }

Layered ==
  { [Simple EXCEPT !.layers = chain, !.endpoint = kind, !.method = method, !.size = 2,
                   !.gzip = gzip, !.id = id, !.token = token, !.provided = {"t"},
                   !.returns = {v}] :
      chain \in Chains, kind \in {"function", "trait"}, method \in {"OPTIONS", "GET", "POST"},
      gzip \in BOOLEAN, id \in {Absent, "sent"}, token \in {{}, {"t"}, {"u"}}, v \in Answers }

Names == {"docs", "page", "more", "copy", "home", "gone", "index.html", "note", "empty", ".", ".."}
Files ==
  { [Simple EXCEPT !.endpoint = "dir", !.file = {f}, !.size = 3] :
      f \in UNION { [1..n -> Names] : n \in 0..2 } }
  \cup { [Simple EXCEPT !.endpoint = "dir"] }

\* Siblings: taken or not, with a Compression layer around the directory.
Siblings ==
  { [Simple EXCEPT !.endpoint = "dir", !.file = {f}, !.size = 6, !.layers = layers,
                   !.precompressed = yes, !.gzip = gzip, !.br = br] :
      f \in { <<"page">>, <<"docs">>, <<"docs", "index.html">>, <<"bin">>, <<"copy">>, <<"more", "index.html">> },
      layers \in { << >>, <<Plain("compression")>> },
      yes \in BOOLEAN, gzip \in BOOLEAN, br \in BOOLEAN }

Failing ==
  { [Simple EXCEPT !.access = {"missing param", "invalid param", "urlencoded"}, !.layers = <<Outer, Metrics>>,
                   !.endpoint = kind] : kind \in {"function", "trait"} }

Counted ==
  { [Simple EXCEPT !.layers = <<Metrics, Timeout, Metrics>>, !.endpoint = "trait",
                   !.returns = {Say, [as |-> "error", err |-> "io"]}] }

Upload ==
  { [Posting EXCEPT !.reads = {"multipart"}, !.size = 4, !.form = "multipart", !.returns = {}] }

Unsent == [Simple EXCEPT !.sent = FALSE]

One(cases) == { [e \in {"e1", "e2"} |-> IF e = "e1" THEN c ELSE Unsent] : c \in cases }
Two(cases) == { [e \in {"e1", "e2"} |-> IF e = "e1" THEN c ELSE d] : c, d \in cases }

Other(cases) == { [e \in {"e1", "e2"} |-> IF e = "e2" THEN c ELSE Unsent] : c \in cases }

\* Without a peer address and, but for a BodyLimit, without a limit.
Unlimited ==
  { [Posting EXCEPT !.peer = NoPeer, !.layers = chain, !.reads = {kind}, !.size = 4, !.declared = FALSE] :
      chain \in { << >>, <<LimitTo(3)>> }, kind \in {"json", "form", "stream", "multipart"} }

MCWorkloads ==
  One(Proxied \cup Bodies \cup Layered \cup Files \cup Siblings \cup Failing) \cup Other(Unlimited) \cup Two(Counted)
UploadWorkloads == One(Upload)
GaugeWorkloads == Two({ [Simple EXCEPT !.layers = <<Timeout, Metrics>>] })
ProxyWorkloads == One(Proxied)
SiblingWorkloads == One(Siblings)

\* An application's own renderer: every error as JSON, with its own status.
MCRenderers == [n \in {"own"} |-> [k \in ErrorKind |-> [Json(9) EXCEPT !.status = StatusOf(k)]]]

=============================================================================
