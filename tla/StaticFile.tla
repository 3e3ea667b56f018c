----------------------------- MODULE StaticFile -----------------------------
(***************************************************************************)
(* Serving one file while it is deployed anew (src/fs.rs,                  *)
(* serve_file_with_cache).                                                 *)
(*                                                                         *)
(* Between its await points a request opens the file, tries compressed     *)
(* siblings, takes a tag from the cache or hashes what it has open, decides *)
(* and streams; other requests share the cache, and the files are replaced, *)
(* written in place or removed in between.  A file's content is the number *)
(* of the write that made it (its version), its hash is that number.       *)
(***************************************************************************)
EXTENDS ByteRange, Sequences, FiniteSets

CONSTANTS
  Req,            \* requests
  Nobody,         \* not a request
  Accept,         \* sets of codings that Accept-Encoding may name
  Kind,           \* method, header that makes the request conditional, Range
  Size,           \* sizes of files
  Time,           \* modification times, in half seconds
  Deployed,       \* names that are written while requests are served
  MaxWrites       \* bound on writes to the disk

ASSUME ReqAssumption == Nobody \notin Req
Kinds ==
  [method : {"GET", "HEAD", "POST"},
   how : {"plain", "if-none-match", "if-modified-since", "if-range"},
   range : Header]

ASSUME KindAssumption == Kind \subseteq Kinds
ASSUME FileAssumption ==
  Size \subseteq Number /\ 0 \in Time /\ Time \subseteq Nat /\ MaxWrites \in Nat
ASSUME NameAssumption ==
  Deployed \subseteq {"plain", "br", "gzip"} /\ Accept \subseteq SUBSET {"br", "gzip"}

VARIABLES
  options,        \* ServeOptions
  written,        \* size and modification time of each version
  inode,          \* the version that each open or named file holds
  disk,           \* the inode under each name, or 0
  inPlace,        \* history: whether a file was written without being replaced
  cache,          \* CACHE: the entry of this path, if there is one
  req             \* the requests

vars == <<options, written, inode, disk, inPlace, cache, req>>

Coding == {"br", "gzip"}
Name == {"plain"} \cup Coding

Preferred(codings) == IF "br" \in codings THEN "br" ELSE "gzip"

Stage == {"idle", "sibling", "tag", "hash", "store", "answer", "send", "done"}

Secs(v) == written[v].mtime \div 2
Stamp(v) == [secs |-> Secs(v), size |-> written[v].size]

Stamps == [secs : Nat, size : Number]
WeakTag(v) == [kind |-> "weak", secs |-> Secs(v), size |-> written[v].size]
StrongTag(hash, v) == [kind |-> "strong", hash |-> hash, size |-> written[v].size]
Tags == [kind : {"weak"}, secs : Nat, size : Number]
          \cup [kind : {"strong"}, hash : Nat, size : Number]
NoTag == [kind |-> "none"]

NoRange == [first |-> Missing, last |-> Missing]
Unsent == [version |-> 0, bytes |-> 0]

\* A request that has not begun.
Idle == [stage |-> "idle", tries |-> {}, prev |-> Nobody,
         kind |-> [method |-> "GET", how |-> "plain", range |-> NoRange],
         meta |-> 0, handle |-> 0, encoding |-> "plain", etag |-> NoTag,
         status |-> 0, total |-> 0, len |-> 0, start |-> 0, sent |-> Unsent]

Tries == SUBSET Coding
Earlier == Req \cup {Nobody}
TagOrNone == Tags \cup {NoTag}
Status == {0, 200, 206, 304, 404, 412, 416}
Sent == [version : Nat, bytes : Number]

Requests ==
  [stage : Stage, tries : Tries, prev : Earlier, kind : Kinds, meta : Nat,
   handle : Nat, encoding : Name, etag : TagOrNone, status : Status,
   total : Number, len : Number, start : Number, sent : Sent]

TypeOK ==
  /\ options \in [strong : BOOLEAN, precompressed : BOOLEAN]
  /\ written \in Seq([size : Size, mtime : Time])
  /\ inode \in Seq(DOMAIN written)
  /\ disk \in [Name -> DOMAIN inode \cup {0}]
  /\ inPlace \in BOOLEAN
  /\ cache \subseteq [stamp : Stamps, tag : Tags]
  /\ req \in [Req -> Requests]
  /\ \A r \in Req : req[r].stage \notin {"idle", "done"} =>
       req[r].handle \in DOMAIN inode /\ req[r].meta \in DOMAIN written

Init ==
  /\ options \in [strong : BOOLEAN, precompressed : BOOLEAN]
  /\ \E size, compressed \in Size :
       written = << [size |-> size, mtime |-> 0], [size |-> compressed, mtime |-> 0],
                    [size |-> compressed, mtime |-> 0] >>
  /\ inode = <<1, 2, 3>>
  /\ disk \in [plain : {1}, br : {0, 2}, gzip : {0, 3}]
  /\ inPlace = FALSE
  /\ cache = {}
  /\ req = [r \in Req |-> Idle]

-----------------------------------------------------------------------------
(* The disk, as deployments change it. *)

NewVersion(size, mtime) ==
  /\ Len(written) < MaxWrites + 3
  /\ written' = Append(written, [size |-> size, mtime |-> mtime])

Replace(name) ==                \* rename over it: open handles keep the old file
  /\ inode' = Append(inode, Len(written) + 1)
  /\ disk' = [disk EXCEPT ![name] = Len(inode) + 1]
  /\ UNCHANGED <<options, inPlace, cache, req>>

Overwrite(name) ==
  /\ disk[name] # 0
  /\ inode' = [inode EXCEPT ![disk[name]] = Len(written) + 1]
  /\ inPlace' = TRUE
  /\ UNCHANGED <<options, disk, cache, req>>

Remove(name) ==
  /\ disk[name] # 0
  /\ disk' = [disk EXCEPT ![name] = 0]
  /\ UNCHANGED <<options, written, inode, inPlace, cache, req>>

-----------------------------------------------------------------------------
(* A request, await point by await point. *)

Becomes(r, changes) == req' = [req EXCEPT ![r] = changes]

\* lstat, open and fstat; nothing in between depends on what the disk does.
Begin(r, ask) ==
  /\ req[r].stage = "idle"
  /\ \/ /\ disk["plain"] = 0
        /\ Becomes(r, [Idle EXCEPT !.stage = "done", !.status = 404])
     \/ /\ disk["plain"] # 0
        /\ Becomes(r, [ask EXCEPT
             !.stage = IF ask.tries # {} THEN "sibling" ELSE "tag",
             !.handle = disk["plain"],
             !.meta = inode[disk["plain"]]])
  /\ UNCHANGED <<options, written, inode, disk, inPlace, cache>>

TrySibling(r) ==                \* the next coding that the client accepts
  /\ req[r].stage = "sibling"
  /\ LET coding == Preferred(req[r].tries)
         rest == req[r].tries \ {coding}
     IN  \/ /\ disk[coding] # 0
            /\ Becomes(r, [req[r] EXCEPT !.stage = "tag", !.tries = {},
                          !.handle = disk[coding], !.encoding = coding])
         \/ /\ disk[coding] = 0
            /\ Becomes(r, [req[r] EXCEPT
                          !.stage = IF rest = {} THEN "tag" ELSE "sibling",
                          !.tries = rest])
  /\ UNCHANGED <<options, written, inode, disk, inPlace, cache>>

\* Mutant: the size is not compared.
HitsAnySize(v) == {e \in cache : e.stamp.secs = Secs(v)}

Hits(v) == {e \in cache : e.stamp = Stamp(v)}

TakeTag(r) ==
  /\ req[r].stage = "tag"
  /\ \/ /\ ~options.strong
        /\ Becomes(r, [req[r] EXCEPT !.stage = "answer", !.etag = WeakTag(req[r].meta)])
     \/ /\ options.strong
        /\ \E e \in Hits(req[r].meta) :
             Becomes(r, [req[r] EXCEPT !.stage = "answer", !.etag = e.tag])
     \/ /\ options.strong
        /\ Hits(req[r].meta) = {}
        /\ Becomes(r, [req[r] EXCEPT !.stage = "hash"])
  /\ UNCHANGED <<options, written, inode, disk, inPlace, cache>>

HashFile(r) ==                  \* of the file that is open, the sibling if it is one
  /\ req[r].stage = "hash"
  /\ Becomes(r, [req[r] EXCEPT !.stage = "store",
                !.etag = StrongTag(inode[req[r].handle], req[r].meta)])
  /\ UNCHANGED <<options, written, inode, disk, inPlace, cache>>

StoreTag(r) ==
  /\ req[r].stage = "store"
  /\ cache' = {[stamp |-> Stamp(req[r].meta), tag |-> req[r].etag]}
  /\ Becomes(r, [req[r] EXCEPT !.stage = "answer"])
  /\ UNCHANGED <<options, written, inode, disk, inPlace>>

ForgetTags ==                   \* tags of other paths have filled the cache
  /\ cache # {}
  /\ cache' = {}
  /\ UNCHANGED <<options, written, inode, disk, inPlace, req>>

\* is_not_modified: a client repeats the tag or the date of what it got before;
\* the date has lost the fraction of the second.
NotModified(q) ==
  \/ q.kind.how = "if-none-match" /\ req[q.prev].etag = q.etag
  \/ q.kind.how = "if-modified-since" /\ written[q.meta].mtime <= 2 * Secs(req[q.prev].meta)

ServedLengthOfPlain(q) == written[q.meta].size    \* mutant: no second fstat

ServedLength(q) ==
  IF q.encoding = "plain" THEN written[q.meta].size ELSE written[inode[q.handle]].size

IfRangeIgnored(q) == TRUE       \* mutant

IfRangeAllows(q) == q.kind.how = "if-range" => req[q.prev].etag = q.etag

\* The range of the answer, when it is one.
RangeOf(q) ==
  IF q.kind.method = "GET" /\ IfRangeAllows(q)
  THEN ParseByteRange(q.kind.range, ServedLength(q)) ELSE Whole

Reads == {"GET", "HEAD"}

Answered(q) ==
  LET range == RangeOf(q)
  IN  IF NotModified(q)
      THEN [q EXCEPT !.stage = "done", !.status = IF q.kind.method \in Reads THEN 304 ELSE 412]
      ELSE [q EXCEPT
              !.stage = IF range.kind = "unsatisfiable" THEN "done" ELSE "send",
              !.status = CASE range.kind = "whole" -> 200
                           [] range.kind = "part" -> 206
                           [] OTHER -> 416,
              !.total = ServedLength(q),
              !.len = IF range.kind = "part" THEN range.len ELSE ServedLength(q),
              !.start = IF range.kind = "part" THEN range.start ELSE 0]

Answer(r) ==
  /\ req[r].stage = "answer"
  /\ Becomes(r, Answered(req[r]))
  /\ UNCHANGED <<options, written, inode, disk, inPlace, cache>>

\* The body is read from its start to the end of the file, whatever its length.
Send(r) ==
  /\ req[r].stage = "send"
  /\ LET v == inode[req[r].handle]
     IN  Becomes(r, [req[r] EXCEPT !.stage = "done", !.handle = 0,
           !.sent = [version |-> v,
                     bytes |-> Saturating(written[v].size, req[r].start)]])
  /\ UNCHANGED <<options, written, inode, disk, inPlace, cache>>

-----------------------------------------------------------------------------
\* The requests whose answers had a tag and a date to repeat.
Tagged == {r \in Req : req[r].stage = "done" /\ req[r].etag # NoTag}

\* A client asks with nothing, or with what an earlier answer gave it.
Ask(kind, accept, prev) ==
  [Idle EXCEPT !.kind = kind, !.prev = prev,
     !.tries = IF options.precompressed THEN accept ELSE {}]

Deploy ==
  \E name \in Deployed :
    \/ \E size \in Size, mtime \in Time :
         NewVersion(size, mtime) /\ (Replace(name) \/ Overwrite(name))
    \/ Remove(name)

Serve(r) ==
  \/ \E kind \in Kind, accept \in Accept, prev \in Tagged \cup {Nobody} :
       /\ kind.how = "plain" <=> prev = Nobody
       /\ Begin(r, Ask(kind, accept, prev))
  \/ TrySibling(r) \/ TakeTag(r) \/ HashFile(r) \/ StoreTag(r) \/ Answer(r) \/ Send(r)

Next == Deploy \/ ForgetTags \/ \E r \in Req : Serve(r)

Spec == Init /\ [][Next]_vars

-----------------------------------------------------------------------------
\* A tag names a version up to what the cache is keyed by: second and size.
Names(tag, v) ==
  IF tag.kind = "weak" THEN tag = WeakTag(v) ELSE Stamp(tag.hash) = Stamp(v)

\* Files are replaced and not written in place, and strong tags are not used
\* together with siblings: what tags can be relied on for.
Tidy == ~inPlace /\ (options.strong => ~options.precompressed)

Whole200(r) == req[r].sent.version # 0 /\ req[r].encoding = "plain"

\* The bytes that go out are of a version that the tag of the answer names,
\* whatever was deployed between opening, hashing and streaming, and whoever
\* else filled the cache.
CopyMatchesTag ==
  Tidy => \A r \in Req : Whole200(r) => Names(req[r].etag, req[r].sent.version)

\* A client that is told to keep its copy, or is sent a part to add to it, has a
\* copy of the file that was opened, up to what a tag tells apart; and one that
\* was told so by date has a copy that is not older.
ValidatorsHold ==
  Tidy => \A r \in Req :
    LET q == req[r]
        p == req[q.prev]
    IN  /\ q.prev # Nobody /\ Whole200(q.prev) /\ q.encoding = "plain"
        /\ q.status = 304 \/ (q.status = 206 /\ q.kind.how = "if-range")
        => IF q.kind.how = "if-modified-since"
           THEN written[q.meta].mtime <= written[p.sent.version].mtime
           ELSE Stamp(p.sent.version) = Stamp(q.meta)

\* The length announced is there to be sent, siblings included, unless a file
\* was written in place: no answer is cut short.
NeverCutShort ==
  ~inPlace => \A r \in Req : req[r].sent.version # 0 => req[r].sent.bytes >= req[r].len

\* A partial answer has the positions that were asked for and that the file that
\* is sent has; 416 says that there are none.
RangesExact ==
  \A r \in Req :
    /\ req[r].status = 206 =>
         /\ req[r].len > 0
         /\ Positions(req[r].start, req[r].len) = Asked(req[r].kind.range, req[r].total)
    /\ req[r].status = 416 => Asked(req[r].kind.range, req[r].total) = {}

\* "Replaces the default weak validator with a SHA-256 content hash": two whole
\* answers with one strong tag have one content.
StrongTagNamesOneBody ==
  \A r, s \in Req :
    /\ req[r].etag = req[s].etag /\ req[r].etag.kind = "strong"
    /\ {req[r].status, req[s].status} = {200}
    /\ {req[r].stage, req[s].stage} = {"done"}
    => req[r].sent.version = req[s].sent.version

=============================================================================
