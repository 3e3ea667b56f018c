-------------------------- MODULE StaticFileProofs --------------------------
(***************************************************************************)
(* Theorems about ByteRange and StaticFile, for any requests, files,        *)
(* deployments and bounds.                                                 *)
(***************************************************************************)
EXTENDS StaticFile, TLAPS

-----------------------------------------------------------------------------
(* Ranges. *)

\* A range that says what is asked for: not a whole file.
Exact(range, header, total) ==
  \/ range = Unsatisfiable /\ Asked(header, total) = {}
  \/ \E start, len \in Number :
       /\ range = Part(start, len)
       /\ len > 0 /\ start + len <= total
       /\ Positions(start, len) = Asked(header, total)

\* Each of the three kinds of answer is what the reference definition asks for.
LEMMA SuffixExact ==
  ASSUME NEW n \in Number, NEW total \in Number,
         NEW header \in Header, header.first = Missing, header.last = n
  PROVE  Exact(Suffix(n, total), header, total)
<1>1. n \in Nat /\ total \in Nat /\ n <= MaxInt /\ total <= MaxInt
  BY MaxIntAssumption DEF Number
<1>2. CASE n = 0 \/ total = 0
  <2>1. Suffix(n, total) = Unsatisfiable
    BY <1>2 DEF Suffix
  <2>2. Asked(header, total) = {}
    BY <1>1, <1>2 DEF Asked
  <2> QED BY <2>1, <2>2 DEF Exact
<1>3. CASE n # 0 /\ total # 0
  <2> DEFINE start == Saturating(total, n)
  <2>1. Suffix(n, total) = Part(start, total - start)
    BY <1>3 DEF Suffix
  <2>2. start \in Number /\ total - start \in Number /\ total - start > 0
    BY <1>1, <1>3, MaxIntAssumption DEF Saturating, Number
  <2>3. Positions(start, total - start) = Asked(header, total)
    BY <1>1, <1>3 DEF Positions, Asked, Saturating
  <2>4. start + (total - start) <= total
    BY <1>1, <2>2 DEF Number
  <2> HIDE DEF start
  <2> QED BY <2>1, <2>2, <2>3, <2>4 DEF Exact
<1> QED BY <1>2, <1>3

LEMMA FromToExact ==
  ASSUME NEW start \in Number, NEW end \in Number, NEW total \in Number,
         NEW header \in Header, header.first = start,
         \/ header.last = end
         \/ header.last = Missing /\ end = Saturating(total, 1)
  PROVE  Exact(FromTo(start, end, total), header, total)
<1>1. /\ start \in Nat /\ end \in Nat /\ total \in Nat
      /\ start # Missing /\ end # Missing
      /\ start <= MaxInt /\ end <= MaxInt /\ total <= MaxInt
  BY MaxIntAssumption DEF Number, Missing
<1>2. Asked(header, total) = {p \in 0..(total - 1) : start <= p /\ p <= end}
  <2>1. CASE header.last = end
    BY <1>1, <2>1 DEF Asked
  <2>2. CASE header.last = Missing /\ end = Saturating(total, 1)
    <3>1. \A p \in 0..(total - 1) : p <= end
      BY <1>1, <2>2 DEF Saturating
    <3> QED BY <1>1, <2>2, <3>1 DEF Asked
  <2> QED BY <2>1, <2>2
<1>3. CASE end < start \/ start >= total
  <2>1. FromTo(start, end, total) = Unsatisfiable
    BY <1>3 DEF FromTo
  <2>2. {p \in 0..(total - 1) : start <= p /\ p <= end} = {}
    BY <1>1, <1>3
  <2> QED BY <1>2, <2>1, <2>2 DEF Exact
<1>4. CASE ~(end < start \/ start >= total)
  <2> DEFINE len == Less(end, total - 1) - start + 1
  <2>1. FromTo(start, end, total) = Part(start, len)
    BY <1>4 DEF FromTo
  <2>2. len \in Nat /\ len > 0 /\ start + len <= total
    BY <1>1, <1>4 DEF Less
  <2>3. Positions(start, len) = {p \in 0..(total - 1) : start <= p /\ p <= end}
    BY <1>1, <1>4 DEF Positions, Less
  <2> HIDE DEF len
  <2>4. len \in Number
    BY <1>1, <2>2, MaxIntAssumption DEF Number
  <2> QED BY <1>1, <1>2, <2>1, <2>2, <2>3, <2>4 DEF Exact
<1> QED BY <1>3, <1>4

LEMMA Parsed ==
  ASSUME NEW header \in Header, NEW total \in Number
  PROVE  \/ /\ ParseByteRange(header, total) = Whole
            /\ header.first = Missing /\ header.last = Missing
         \/ Exact(ParseByteRange(header, total), header, total)
<1>1. /\ header.first \in Number \cup {Missing}
      /\ header.last \in Number \cup {Missing}
      /\ Missing \notin Number
  BY MaxIntAssumption DEF Header, Missing, Number
<1>2. Saturating(total, 1) \in Number
  BY MaxIntAssumption DEF Saturating, Number
<1>3. CASE header.first = Missing /\ header.last = Missing
  BY <1>3 DEF ParseByteRange
<1>4. CASE header.first = Missing /\ header.last # Missing
  <2>1. ParseByteRange(header, total) = Suffix(header.last, total)
    BY <1>4 DEF ParseByteRange
  <2> QED BY <1>1, <1>4, <2>1, SuffixExact
<1>5. CASE header.first # Missing
  <2> DEFINE end == IF header.last = Missing THEN Saturating(total, 1) ELSE header.last
  <2>1. ParseByteRange(header, total) = FromTo(header.first, end, total)
    BY <1>5 DEF ParseByteRange
  <2>2. /\ end \in Number
        /\ header.last = end \/ (header.last = Missing /\ end = Saturating(total, 1))
    BY <1>1, <1>2
  <2> HIDE DEF end
  <2> QED BY <1>1, <1>5, <2>1, <2>2, FromToExact
<1> QED BY <1>3, <1>4, <1>5

\* parse_byte_range: for every header and every length, the range is exactly
\* the positions that are asked for and exist, within u64, and 416 is the
\* answer exactly when there are none.
THEOREM EveryRangeIsExact ==
  ASSUME NEW header \in Header, NEW total \in Number
  PROVE  RangeIsExact(header, total)
<1> DEFINE range == ParseByteRange(header, total)
<1>1. CASE range = Whole /\ header.first = Missing /\ header.last = Missing
  <2>1. range.kind = "whole"
    BY <1>1 DEF Whole
  <2> QED BY <1>1, <2>1 DEF RangeIsExact
<1>2. CASE range = Unsatisfiable /\ Asked(header, total) = {}
  <2>1. range.kind = "unsatisfiable"
    BY <1>2 DEF Unsatisfiable
  <2> QED BY <1>2, <2>1 DEF RangeIsExact
<1>3. ASSUME NEW start \in Number, NEW len \in Number, range = Part(start, len),
             len > 0, start + len <= total,
             Positions(start, len) = Asked(header, total)
      PROVE  RangeIsExact(header, total)
  <2>1. range.kind = "part" /\ range.start = start /\ range.len = len
    BY <1>3 DEF Part
  <2> HIDE DEF range
  <2>2. {range.start, range.len} \subseteq Number
    BY <2>1
  <2> QED BY <1>3, <2>1, <2>2 DEF RangeIsExact, range
<1> QED BY <1>1, <1>2, <1>3, Parsed DEF Exact

-----------------------------------------------------------------------------
(* Types. *)

LEMMA AppendFacts ==
  ASSUME NEW S, NEW seq \in Seq(S), NEW x \in S
  PROVE  /\ Append(seq, x) \in Seq(S)
         /\ DOMAIN Append(seq, x) = DOMAIN seq \cup {Len(seq) + 1}
         /\ Append(seq, x)[Len(seq) + 1] = x
         /\ \A i \in DOMAIN seq : Append(seq, x)[i] = seq[i]
OBVIOUS

LEMMA ElementFacts ==
  ASSUME NEW S, NEW seq \in Seq(S), NEW i \in DOMAIN seq
  PROVE  seq[i] \in S /\ i \in Nat
OBVIOUS

LEMMA ExceptFacts ==
  ASSUME NEW S, NEW seq \in Seq(S), NEW i \in DOMAIN seq, NEW x \in S
  PROVE  /\ [seq EXCEPT ![i] = x] \in Seq(S)
         /\ DOMAIN [seq EXCEPT ![i] = x] = DOMAIN seq
OBVIOUS

LEMMA SeqOfMore ==
  ASSUME NEW S, NEW T, S \subseteq T, NEW seq \in Seq(S)
  PROVE  seq \in Seq(T)
OBVIOUS

\* What no step undoes: a version, once written, stays as it is, and so does what
\* an open file holds as long as nothing is written in place.
Kept ==
  /\ options' = options
  /\ \A v \in DOMAIN written : v \in DOMAIN written' /\ written'[v] = written[v]
  /\ DOMAIN inode \subseteq DOMAIN inode'
  /\ ~inPlace' => ~inPlace /\ \A h \in DOMAIN inode : inode'[h] = inode[h]

FilesOK ==
  /\ options \in [strong : BOOLEAN, precompressed : BOOLEAN]
  /\ written \in Seq([size : Size, mtime : Time])
  /\ inode \in Seq(DOMAIN written)
  /\ disk \in [Name -> DOMAIN inode \cup {0}]
  /\ inPlace \in BOOLEAN

LEMMA WriteKeeps ==
  ASSUME FilesOK, NEW size \in Size, NEW mtime \in Time, NewVersion(size, mtime)
  PROVE  /\ written' \in Seq([size : Size, mtime : Time])
         /\ DOMAIN written' = DOMAIN written \cup {Len(written) + 1}
         /\ \A v \in DOMAIN written : written'[v] = written[v]
         /\ inode \in Seq(DOMAIN written')
<1>1. [size |-> size, mtime |-> mtime] \in [size : Size, mtime : Time]
  OBVIOUS
<1>2. /\ written' \in Seq([size : Size, mtime : Time])
      /\ DOMAIN written' = DOMAIN written \cup {Len(written) + 1}
      /\ \A v \in DOMAIN written : written'[v] = written[v]
  BY <1>1, AppendFacts DEF NewVersion, FilesOK
<1>3. inode \in Seq(DOMAIN written')
  BY <1>2, SeqOfMore DEF FilesOK
<1> QED BY <1>2, <1>3

LEMMA DeployKeeps ==
  ASSUME FilesOK, Deploy
  PROVE  FilesOK' /\ Kept /\ UNCHANGED <<cache, req>>
<1> USE NameAssumption DEF Name, Coding
<1>1. PICK name \in Deployed :
        \/ \E size \in Size, mtime \in Time :
             NewVersion(size, mtime) /\ (Replace(name) \/ Overwrite(name))
        \/ Remove(name)
  BY DEF Deploy
<1>2. name \in Name
  BY <1>1
<1>3. ASSUME NEW size \in Size, NEW mtime \in Time, NewVersion(size, mtime), Replace(name)
      PROVE  FilesOK' /\ Kept /\ UNCHANGED <<cache, req>>
  <2>1. Len(written) + 1 \in DOMAIN written'
    BY <1>3, WriteKeeps
  <2>2. /\ inode' \in Seq(DOMAIN written')
        /\ DOMAIN inode' = DOMAIN inode \cup {Len(inode) + 1}
        /\ \A h \in DOMAIN inode : inode'[h] = inode[h]
    BY <1>3, <2>1, WriteKeeps, AppendFacts DEF Replace
  <2>3. disk' \in [Name -> DOMAIN inode' \cup {0}]
    BY <1>2, <1>3, <2>2 DEF Replace, FilesOK
  <2> QED BY <1>3, <2>2, <2>3, WriteKeeps DEF Replace, FilesOK, Kept
<1>4. ASSUME NEW size \in Size, NEW mtime \in Time, NewVersion(size, mtime), Overwrite(name)
      PROVE  FilesOK' /\ Kept /\ UNCHANGED <<cache, req>>
  <2>1. Len(written) + 1 \in DOMAIN written'
    BY <1>4, WriteKeeps
  <2>2. inode' \in Seq(DOMAIN written') /\ DOMAIN inode' = DOMAIN inode
    <3>1. disk[name] \in DOMAIN inode /\ inode \in Seq(DOMAIN written')
      BY <1>2, <1>4, WriteKeeps DEF Overwrite, FilesOK
    <3> QED BY <1>4, <2>1, <3>1, ExceptFacts DEF Overwrite
  <2>3. inPlace' = TRUE /\ UNCHANGED <<options, disk, cache, req>>
    BY <1>4 DEF Overwrite
  <2> QED BY <1>4, <2>2, <2>3, WriteKeeps DEF FilesOK, Kept
<1>5. CASE Remove(name)
  <2>1. disk' \in [Name -> DOMAIN inode \cup {0}]
    BY <1>2, <1>5 DEF Remove, FilesOK
  <2> QED BY <1>5, <2>1 DEF Remove, FilesOK, Kept
<1> QED BY <1>1, <1>3, <1>4, <1>5

LEMMA VersionFacts ==
  ASSUME FilesOK, NEW v \in DOMAIN written
  PROVE  /\ v \in Nat
         /\ written[v].size \in Number /\ written[v].mtime \in Nat
         /\ Secs(v) \in Nat /\ 2 * Secs(v) <= written[v].mtime
         /\ Stamp(v) \in Stamps /\ WeakTag(v) \in Tags
         /\ \A hash \in Nat : StrongTag(hash, v) \in Tags
<1>1. v \in Nat
  BY DEF FilesOK
<1>2. written[v].size \in Number /\ written[v].mtime \in Nat
  <2>1. written[v] \in [size : Size, mtime : Time]
    BY ElementFacts DEF FilesOK
  <2> QED BY <2>1, FileAssumption
<1>3. Secs(v) \in Nat /\ 2 * Secs(v) <= written[v].mtime
  BY <1>2 DEF Secs
<1>4. Stamp(v) \in Stamps /\ WeakTag(v) \in Tags
  BY <1>2, <1>3 DEF Stamp, Stamps, WeakTag, Tags
<1>5. ASSUME NEW hash \in Nat PROVE StrongTag(hash, v) \in Tags
  BY <1>2 DEF StrongTag, Tags
<1> QED BY <1>1, <1>2, <1>3, <1>4, <1>5

\* What the step of one request leaves alone.
Frame(r) ==
  /\ req' \in [Req -> Requests]
  /\ \A s \in Req : s # r => req'[s] = req[s]
  /\ UNCHANGED <<options, written, inode, disk, inPlace>>

LEMMA Moved ==
  ASSUME req \in [Req -> Requests], NEW r \in Req, NEW q \in Requests, Becomes(r, q),
         UNCHANGED <<options, written, inode, disk, inPlace>>
  PROVE  Frame(r) /\ req'[r] = q
BY DEF Becomes, Frame

LEMMA IdleTyped == Idle \in Requests
<1>1. /\ NoTag \in TagOrNone /\ {} \in Tries /\ Nobody \in Earlier /\ 0 \in Number
      /\ "idle" \in Stage /\ "plain" \in Name /\ 0 \in Status /\ NoRange \in Header
  BY MaxIntAssumption
     DEF TagOrNone, Tries, Earlier, Number, Stage, Name, Status, NoRange, Header
<1>2. [method |-> "GET", how |-> "plain", range |-> NoRange] \in Kinds
  BY <1>1 DEF Kinds
<1>3. Unsent \in Sent
  BY <1>1 DEF Unsent, Sent
<1> QED BY <1>1, <1>2, <1>3 DEF Idle, Requests

\* An answer that says nothing but its status is typed.
LEMMA StatusTyped ==
  ASSUME NEW q \in Requests, NEW stage \in Stage, NEW status \in Status
  PROVE  [q EXCEPT !.stage = stage, !.status = status] \in Requests
BY DEF Requests

LEMMA TypeParts ==
  TypeOK <=> /\ FilesOK
             /\ cache \subseteq [stamp : Stamps, tag : Tags]
             /\ req \in [Req -> Requests]
             /\ \A r \in Req : req[r].stage \notin {"idle", "done"} =>
                  req[r].handle \in DOMAIN inode /\ req[r].meta \in DOMAIN written
BY DEF TypeOK, FilesOK

LEMMA OpenFacts ==
  ASSUME TypeOK, NEW r \in Req, req[r].stage \notin {"idle", "done"}
  PROVE  /\ FilesOK /\ req[r] \in Requests
         /\ req[r].handle \in DOMAIN inode /\ req[r].handle \in Nat
         /\ req[r].meta \in DOMAIN written
         /\ inode[req[r].handle] \in DOMAIN written
<1>1. FilesOK /\ req[r] \in Requests /\ req[r].handle \in DOMAIN inode
      /\ req[r].meta \in DOMAIN written
  BY TypeParts
<1>2. req[r].handle \in Nat
  BY <1>1 DEF Requests
<1>3. inode[req[r].handle] \in DOMAIN written
  BY <1>1 DEF FilesOK
<1> QED BY <1>1, <1>2, <1>3

-----------------------------------------------------------------------------
(* One lemma for each step of a request: what it makes of it. *)

LEMMA BeginStep ==
  ASSUME TypeOK, NEW r \in Req, NEW kind \in Kind, NEW accept \in Accept,
         NEW prev \in Tagged \cup {Nobody}, Begin(r, Ask(kind, accept, prev))
  PROVE  /\ req[r].stage = "idle"
         /\ Frame(r) /\ cache' = cache
         /\ \/ req'[r] = [Idle EXCEPT !.stage = "done", !.status = 404]
            \/ /\ req'[r].stage \in {"sibling", "tag"} /\ req'[r].encoding = "plain"
               /\ req'[r].handle \in DOMAIN inode
               /\ req'[r].meta = inode[req'[r].handle] /\ req'[r].meta \in DOMAIN written
               /\ req'[r].kind = kind /\ req'[r].prev = prev
               /\ (~options.precompressed => req'[r].tries = {})
               /\ (req'[r].stage = "sibling" => options.precompressed)
               /\ req'[r].etag = NoTag /\ req'[r].status = 0 /\ req'[r].sent.version = 0
<1> DEFINE missing == [Idle EXCEPT !.stage = "done", !.status = 404]
           ask == Ask(kind, accept, prev)
           begun == [ask EXCEPT !.stage = IF ask.tries # {} THEN "sibling" ELSE "tag",
                                !.handle = disk["plain"], !.meta = inode[disk["plain"]]]
<1>1. req \in [Req -> Requests] /\ FilesOK
  BY TypeParts
<1>2. CASE disk["plain"] = 0 /\ Becomes(r, missing)
  <2>1. missing \in Requests
    <3>1. "done" \in Stage /\ 404 \in Status
      BY DEF Stage, Status
    <3> HIDE DEF ask, begun
    <3> QED BY <3>1, StatusTyped, IdleTyped
  <2> QED BY <1>1, <1>2, <2>1, Moved DEF Begin
<1>3. CASE disk["plain"] # 0 /\ Becomes(r, begun)
  <2>1. disk["plain"] \in DOMAIN inode
    BY <1>1, <1>3 DEF FilesOK, Name
  <2>2. /\ disk["plain"] \in Nat
        /\ inode[disk["plain"]] \in DOMAIN written
        /\ inode[disk["plain"]] \in Nat
    BY <1>1, <2>1, VersionFacts DEF FilesOK
  <2>3. /\ kind \in Kinds /\ prev \in Earlier
        /\ (IF options.precompressed THEN accept ELSE {}) \in Tries
    BY KindAssumption, NameAssumption DEF Tagged, Coding, Tries, Earlier
  <2>4. ask \in Requests
    BY <2>3, IdleTyped DEF Ask, Requests
  <2>5. begun \in Requests
    <3>1. (IF ask.tries # {} THEN "sibling" ELSE "tag") \in Stage
      BY DEF Stage
    <3> HIDE DEF ask
    <3> QED BY <2>2, <2>4, <3>1 DEF Requests
  <2>6. Frame(r) /\ req'[r] = begun
    BY <1>1, <1>3, <2>5, Moved DEF Begin
  <2>7. /\ ask.encoding = "plain" /\ ask.etag = NoTag /\ ask.status = 0
        /\ ask.sent.version = 0 /\ ask.kind = kind /\ ask.prev = prev
        /\ (~options.precompressed => ask.tries = {})
    BY DEF Ask, Idle, Unsent
  <2>8. /\ begun.encoding = ask.encoding /\ begun.etag = ask.etag
        /\ begun.status = ask.status /\ begun.sent = ask.sent /\ begun.kind = ask.kind
        /\ begun.prev = ask.prev /\ begun.tries = ask.tries
        /\ begun.stage \in {"sibling", "tag"}
        /\ (begun.stage = "sibling" => ask.tries # {})
        /\ begun.handle = disk["plain"] /\ begun.meta = inode[disk["plain"]]
    <3> HIDE DEF ask
    <3> QED BY <2>4 DEF Requests
  <2> HIDE DEF begun, ask
  <2> QED BY <2>1, <2>2, <2>6, <2>7, <2>8 DEF Begin
<1> QED BY <1>2, <1>3 DEF Begin

\* What a request keeps while it is served.
SameAsk(p, q) == p.prev = q.prev /\ p.kind = q.kind /\ p.meta = q.meta
SameFile(p, q) == p.handle = q.handle /\ p.encoding = q.encoding /\ p.tries = q.tries
SameAnswer(p, q) ==
  /\ p.status = q.status /\ p.total = q.total
  /\ p.len = q.len /\ p.start = q.start /\ p.sent = q.sent

LEMMA SiblingStep ==
  ASSUME TypeOK, NEW r \in Req, TrySibling(r)
  PROVE  /\ req[r].stage = "sibling"
         /\ Frame(r) /\ cache' = cache
         /\ SameAsk(req[r], req'[r]) /\ SameAnswer(req[r], req'[r])
         /\ req'[r].etag = req[r].etag
         /\ \/ /\ req'[r].stage = "tag"
               /\ req'[r].encoding = Preferred(req[r].tries)
               /\ req'[r].handle \in DOMAIN inode /\ req'[r].tries = {}
            \/ /\ req'[r].stage \in {"tag", "sibling"}
               /\ req'[r].encoding = req[r].encoding
               /\ req'[r].handle = req[r].handle /\ req'[r].tries \subseteq req[r].tries
<1> DEFINE coding == Preferred(req[r].tries)
           rest == req[r].tries \ {coding}
           found == [req[r] EXCEPT !.stage = "tag", !.tries = {},
                                   !.handle = disk[coding], !.encoding = coding]
           missed == [req[r] EXCEPT !.stage = IF rest = {} THEN "tag" ELSE "sibling",
                                    !.tries = rest]
<1>1. req[r].stage = "sibling"
  BY DEF TrySibling
<1>2. FilesOK /\ req \in [Req -> Requests] /\ req[r] \in Requests
  BY TypeParts
<1>3. coding \in Coding /\ coding \in Name
  BY DEF Preferred, Coding, Name
<1>4. CASE disk[coding] # 0 /\ Becomes(r, found)
  <2>1. disk[coding] \in DOMAIN inode /\ disk[coding] \in Nat
    BY <1>2, <1>3, <1>4, ElementFacts DEF FilesOK
  <2>2. found \in Requests
    <3>1. "tag" \in Stage /\ {} \in Tries
      BY DEF Stage, Tries
    <3> HIDE DEF coding
    <3> QED BY <1>2, <1>3, <2>1, <3>1 DEF Requests
  <2>3. Frame(r) /\ req'[r] = found
    BY <1>2, <1>4, <2>2, Moved DEF TrySibling
  <2>4. /\ SameAsk(req[r], found) /\ SameAnswer(req[r], found)
        /\ found.etag = req[r].etag /\ found.stage = "tag" /\ found.tries = {}
        /\ found.encoding = coding /\ found.handle = disk[coding]
    <3> HIDE DEF coding
    <3> QED BY <1>2 DEF Requests, SameAsk, SameAnswer
  <2> HIDE DEF found
  <2> QED BY <1>1, <2>1, <2>3, <2>4 DEF TrySibling
<1>5. CASE disk[coding] = 0 /\ Becomes(r, missed)
  <2>1. missed \in Requests
    <3>1. (IF rest = {} THEN "tag" ELSE "sibling") \in Stage
      BY DEF Stage
    <3>2. req[r].tries \in Tries
      BY <1>2 DEF Requests
    <3>3. rest \in Tries
      BY <3>2 DEF Tries
    <3> HIDE DEF coding, rest
    <3> QED BY <1>2, <3>1, <3>3 DEF Requests
  <2>2. Frame(r) /\ req'[r] = missed
    BY <1>2, <1>5, <2>1, Moved DEF TrySibling
  <2>3. /\ SameAsk(req[r], missed) /\ SameAnswer(req[r], missed)
        /\ missed.etag = req[r].etag /\ missed.stage \in {"tag", "sibling"}
        /\ missed.encoding = req[r].encoding /\ missed.handle = req[r].handle
        /\ missed.tries = rest
    <3> HIDE DEF coding, rest
    <3> QED BY <1>2 DEF Requests, SameAsk, SameAnswer
  <2> HIDE DEF missed
  <2> QED BY <1>1, <2>2, <2>3 DEF TrySibling
<1> QED BY <1>4, <1>5 DEF TrySibling

\* A step that sets the stage and the tag only.
LEMMA SetTag ==
  ASSUME TypeOK, NEW r \in Req, NEW stage \in Stage, NEW tag \in TagOrNone,
         Becomes(r, [req[r] EXCEPT !.stage = stage, !.etag = tag]),
         UNCHANGED <<options, written, inode, disk, inPlace>>
  PROVE  /\ Frame(r)
         /\ SameAsk(req[r], req'[r]) /\ SameFile(req[r], req'[r])
         /\ SameAnswer(req[r], req'[r])
         /\ req'[r].stage = stage /\ req'[r].etag = tag
<1> DEFINE moved == [req[r] EXCEPT !.stage = stage, !.etag = tag]
<1>1. req \in [Req -> Requests] /\ req[r] \in Requests
  BY TypeParts
<1>2. moved \in Requests
  BY <1>1 DEF Requests
<1>3. Frame(r) /\ req'[r] = moved
  BY <1>1, <1>2, Moved
<1>4. /\ SameAsk(req[r], moved) /\ SameFile(req[r], moved) /\ SameAnswer(req[r], moved)
      /\ moved.stage = stage /\ moved.etag = tag
  BY <1>1 DEF Requests, SameAsk, SameFile, SameAnswer
<1> HIDE DEF moved
<1> QED BY <1>3, <1>4

\* A step that sets the stage only.
LEMMA SetStage ==
  ASSUME TypeOK, NEW r \in Req, NEW stage \in Stage,
         Becomes(r, [req[r] EXCEPT !.stage = stage]),
         UNCHANGED <<options, written, inode, disk, inPlace>>
  PROVE  /\ Frame(r)
         /\ SameAsk(req[r], req'[r]) /\ SameFile(req[r], req'[r])
         /\ SameAnswer(req[r], req'[r])
         /\ req'[r].stage = stage /\ req'[r].etag = req[r].etag
<1> DEFINE moved == [req[r] EXCEPT !.stage = stage]
<1>1. req \in [Req -> Requests] /\ req[r] \in Requests
  BY TypeParts
<1>2. moved \in Requests
  BY <1>1 DEF Requests
<1>3. Frame(r) /\ req'[r] = moved
  BY <1>1, <1>2, Moved
<1>4. /\ SameAsk(req[r], moved) /\ SameFile(req[r], moved) /\ SameAnswer(req[r], moved)
      /\ moved.stage = stage /\ moved.etag = req[r].etag
  BY <1>1 DEF Requests, SameAsk, SameFile, SameAnswer
<1> HIDE DEF moved
<1> QED BY <1>3, <1>4

LEMMA TakeTagStep ==
  ASSUME TypeOK, NEW r \in Req, TakeTag(r)
  PROVE  /\ req[r].stage = "tag"
         /\ Frame(r) /\ cache' = cache
         /\ SameAsk(req[r], req'[r]) /\ SameFile(req[r], req'[r])
         /\ SameAnswer(req[r], req'[r])
         /\ \/ /\ req'[r].stage = "answer" /\ ~options.strong
               /\ req'[r].etag = WeakTag(req[r].meta)
            \/ /\ req'[r].stage = "answer" /\ options.strong
               /\ \E e \in Hits(req[r].meta) : req'[r].etag = e.tag
            \/ /\ req'[r].stage = "hash" /\ options.strong
               /\ req'[r].etag = req[r].etag
<1>1. req[r].stage = "tag" /\ UNCHANGED <<options, written, inode, disk, inPlace, cache>>
  BY DEF TakeTag
<1>2. "answer" \in Stage /\ "hash" \in Stage
  BY DEF Stage
<1>3. CASE /\ ~options.strong
           /\ Becomes(r, [req[r] EXCEPT !.stage = "answer", !.etag = WeakTag(req[r].meta)])
  <2>1. WeakTag(req[r].meta) \in TagOrNone
    BY <1>1, OpenFacts, VersionFacts DEF TagOrNone
  <2>2. /\ Frame(r)
        /\ SameAsk(req[r], req'[r]) /\ SameFile(req[r], req'[r])
        /\ SameAnswer(req[r], req'[r])
        /\ req'[r].stage = "answer" /\ req'[r].etag = WeakTag(req[r].meta)
    BY <1>1, <1>2, <1>3, <2>1, SetTag
  <2> QED BY <1>1, <1>3, <2>2
<1>4. ASSUME options.strong, NEW e \in Hits(req[r].meta),
             Becomes(r, [req[r] EXCEPT !.stage = "answer", !.etag = e.tag])
      PROVE  /\ Frame(r)
             /\ SameAsk(req[r], req'[r]) /\ SameFile(req[r], req'[r])
             /\ SameAnswer(req[r], req'[r])
             /\ req'[r].stage = "answer" /\ req'[r].etag = e.tag
  <2>1. e \in [stamp : Stamps, tag : Tags]
    BY <1>4, TypeParts DEF Hits
  <2>2. e.tag \in TagOrNone
    BY <2>1 DEF TagOrNone
  <2> QED BY <1>1, <1>2, <1>4, <2>2, SetTag
<1>5. CASE options.strong /\ Becomes(r, [req[r] EXCEPT !.stage = "hash"])
  BY <1>1, <1>2, <1>5, SetStage
<1> QED BY <1>1, <1>3, <1>4, <1>5 DEF TakeTag

LEMMA HashStep ==
  ASSUME TypeOK, NEW r \in Req, HashFile(r)
  PROVE  /\ req[r].stage = "hash"
         /\ Frame(r) /\ cache' = cache
         /\ SameAsk(req[r], req'[r]) /\ SameFile(req[r], req'[r])
         /\ SameAnswer(req[r], req'[r])
         /\ req'[r].stage = "store"
         /\ req'[r].etag = StrongTag(inode[req[r].handle], req[r].meta)
         /\ req'[r].etag \in Tags /\ req'[r].etag.kind = "strong"
<1> DEFINE tag == StrongTag(inode[req[r].handle], req[r].meta)
<1>1. /\ req[r].stage = "hash"
      /\ UNCHANGED <<options, written, inode, disk, inPlace, cache>>
      /\ Becomes(r, [req[r] EXCEPT !.stage = "store",
                    !.etag = tag])
  BY DEF HashFile
<1>2. "store" \in Stage
  BY DEF Stage
<1>3. tag \in Tags
  BY <1>1, OpenFacts, VersionFacts
<1>4. tag \in TagOrNone
  <2> HIDE DEF tag
  <2> QED BY <1>3 DEF TagOrNone
<1>5. tag.kind = "strong"
  BY DEF StrongTag
<1>6. /\ Frame(r)
      /\ SameAsk(req[r], req'[r]) /\ SameFile(req[r], req'[r])
      /\ SameAnswer(req[r], req'[r])
      /\ req'[r].stage = "store"
      /\ req'[r].etag = tag
  <2> HIDE DEF tag
  <2>1. UNCHANGED <<options, written, inode, disk, inPlace>>
    BY <1>1
  <2> QED BY <1>1, <1>2, <1>4, <2>1, SetTag
<1> QED BY <1>1, <1>3, <1>5, <1>6

LEMMA StoreStep ==
  ASSUME TypeOK, NEW r \in Req, StoreTag(r)
  PROVE  /\ req[r].stage = "store"
         /\ Frame(r)
         /\ cache' = {[stamp |-> Stamp(req[r].meta), tag |-> req[r].etag]}
         /\ SameAsk(req[r], req'[r]) /\ SameFile(req[r], req'[r])
         /\ SameAnswer(req[r], req'[r])
         /\ req'[r].stage = "answer" /\ req'[r].etag = req[r].etag
<1>1. "answer" \in Stage
  BY DEF Stage
<1> QED BY <1>1, SetStage DEF StoreTag

\* The length of what is served, and the range of it.
LEMMA LengthTyped ==
  ASSUME TypeOK, NEW r \in Req, req[r].stage \notin {"idle", "done"}
  PROVE  ServedLength(req[r]) \in Number
BY OpenFacts, VersionFacts DEF ServedLength

LEMMA RangeFacts ==
  ASSUME TypeOK, NEW r \in Req, req[r].stage \notin {"idle", "done"}
  PROVE  \/ RangeOf(req[r]) = Whole
         \/ /\ IfRangeAllows(req[r])
            /\ Exact(RangeOf(req[r]), req[r].kind.range, ServedLength(req[r]))
<1>1. req[r] \in Requests /\ ServedLength(req[r]) \in Number
  BY LengthTyped, OpenFacts
<1>2. req[r].kind \in Kinds
  BY <1>1 DEF Requests
<1>3. req[r].kind.range \in Header
  BY <1>2 DEF Kinds
<1> QED BY <1>1, <1>3, Parsed DEF RangeOf

\* What Answered makes of a request: a refusal, no such range, a part, the whole.
Refused(q, p) ==
  NotModified(q) /\ p.stage = "done" /\ p.status \in {304, 412}
    /\ p.total = q.total /\ p.len = q.len /\ p.start = q.start
Nothing(q, p) ==
  /\ p.stage = "done" /\ p.status = 416 /\ p.total = ServedLength(q)
  /\ Asked(q.kind.range, p.total) = {}
PartOf(q, p) ==
  /\ IfRangeAllows(q)
  /\ p.stage = "send" /\ p.status = 206 /\ p.total = ServedLength(q)
  /\ p.len \in Number /\ p.start \in Number /\ p.len > 0 /\ p.start + p.len <= p.total
  /\ Positions(p.start, p.len) = Asked(q.kind.range, p.total)
WholeOf(q, p) ==
  /\ p.stage = "send" /\ p.status = 200 /\ p.total = ServedLength(q)
  /\ p.len = p.total /\ p.start = 0

LEMMA AnswerStep ==
  ASSUME TypeOK, NEW r \in Req, Answer(r)
  PROVE  /\ req[r].stage = "answer"
         /\ Frame(r) /\ cache' = cache
         /\ SameAsk(req[r], req'[r]) /\ SameFile(req[r], req'[r])
         /\ req'[r].etag = req[r].etag /\ req'[r].sent = req[r].sent
         /\ \/ Refused(req[r], req'[r]) \/ Nothing(req[r], req'[r])
            \/ PartOf(req[r], req'[r]) \/ WholeOf(req[r], req'[r])
<1> DEFINE q == req[r]
           status == IF q.kind.method \in Reads THEN 304 ELSE 412
           answered(st, code, total, len, start) ==
             [q EXCEPT !.stage = st, !.status = code, !.total = total, !.len = len,
                       !.start = start]
<1>1. /\ q.stage = "answer" /\ UNCHANGED <<options, written, inode, disk, inPlace, cache>>
      /\ Becomes(r, Answered(q))
  BY DEF Answer
<1>2. req \in [Req -> Requests] /\ q \in Requests /\ ServedLength(q) \in Number
  BY <1>1, LengthTyped, TypeParts
<1>3. CASE NotModified(q)
  <2> DEFINE p == [q EXCEPT !.stage = "done", !.status = status]
  <2>1. Answered(q) = p
    BY <1>3 DEF Answered
  <2>2. "done" \in Stage /\ status \in Status /\ status \in {304, 412}
    BY DEF Stage, Status
  <2> HIDE DEF status
  <2>3. p \in Requests
    BY <1>2, <2>2 DEF Requests
  <2>4. /\ SameAsk(q, p) /\ SameFile(q, p) /\ p.etag = q.etag /\ p.sent = q.sent
        /\ p.stage = "done" /\ p.status = status
        /\ p.total = q.total /\ p.len = q.len /\ p.start = q.start
    BY <1>2 DEF Requests, SameAsk, SameFile
  <2>5. Frame(r) /\ req'[r] = p
    BY <1>1, <1>2, <2>1, <2>3, Moved
  <2> HIDE DEF p
  <2> QED BY <1>1, <1>3, <2>2, <2>4, <2>5 DEF Refused
<1>4. ASSUME ~NotModified(q), NEW stage \in Stage, NEW code \in Status,
             NEW total \in Number, NEW len \in Number, NEW start \in Number,
             Answered(q) = answered(stage, code, total, len, start)
      PROVE  /\ Frame(r)
             /\ SameAsk(q, req'[r]) /\ SameFile(q, req'[r])
             /\ req'[r].etag = q.etag /\ req'[r].sent = q.sent
             /\ req'[r].stage = stage /\ req'[r].status = code
             /\ req'[r].total = total /\ req'[r].len = len /\ req'[r].start = start
  <2> DEFINE p == answered(stage, code, total, len, start)
  <2>1. p \in Requests
    BY <1>2 DEF Requests
  <2>2. /\ SameAsk(q, p) /\ SameFile(q, p) /\ p.etag = q.etag /\ p.sent = q.sent
        /\ p.stage = stage /\ p.status = code
        /\ p.total = total /\ p.len = len /\ p.start = start
    BY <1>2 DEF Requests, SameAsk, SameFile
  <2>3. Frame(r) /\ req'[r] = p
    BY <1>1, <1>2, <1>4, <2>1, Moved
  <2> HIDE DEF p
  <2> QED BY <2>2, <2>3
<1>5. {"done", "send"} \subseteq Stage /\ {200, 206, 416} \subseteq Status /\ 0 \in Number
  BY MaxIntAssumption DEF Stage, Status, Number
<1>6. CASE ~NotModified(q) /\ RangeOf(q) = Whole
  <2>1. RangeOf(q).kind = "whole"
    BY <1>6 DEF Whole
  <2>2. Answered(q) = answered("send", 200, ServedLength(q), ServedLength(q), 0)
    BY <1>6, <2>1 DEF Answered
  <2> HIDE DEF q, answered
  <2> QED BY <1>1, <1>2, <1>4, <1>5, <1>6, <2>2 DEF WholeOf, q
<1>7. CASE /\ ~NotModified(q) /\ RangeOf(q) = Unsatisfiable
           /\ Asked(q.kind.range, ServedLength(q)) = {}
  <2>1. RangeOf(q).kind = "unsatisfiable"
    BY <1>7 DEF Unsatisfiable
  <2>2. Answered(q) = answered("done", 416, ServedLength(q), ServedLength(q), 0)
    BY <1>7, <2>1 DEF Answered
  <2> HIDE DEF answered
  <2>3. /\ Frame(r)
        /\ SameAsk(q, req'[r]) /\ SameFile(q, req'[r])
        /\ req'[r].etag = q.etag /\ req'[r].sent = q.sent
        /\ req'[r].stage = "done" /\ req'[r].status = 416
        /\ req'[r].total = ServedLength(q)
    BY <1>2, <1>4, <1>5, <1>7, <2>2
  <2> QED BY <1>1, <1>7, <2>3 DEF Nothing
<1>8. ASSUME ~NotModified(q), IfRangeAllows(q), NEW start \in Number, NEW len \in Number,
             RangeOf(q) = Part(start, len), len > 0, start + len <= ServedLength(q),
             Positions(start, len) = Asked(q.kind.range, ServedLength(q))
      PROVE  /\ Frame(r)
             /\ SameAsk(q, req'[r]) /\ SameFile(q, req'[r])
             /\ req'[r].etag = q.etag /\ req'[r].sent = q.sent
             /\ PartOf(q, req'[r])
  <2>1. RangeOf(q).kind = "part" /\ RangeOf(q).start = start /\ RangeOf(q).len = len
    BY <1>8 DEF Part
  <2>2. Answered(q) = answered("send", 206, ServedLength(q), len, start)
    BY <1>8, <2>1 DEF Answered
  <2> HIDE DEF answered
  <2>3. /\ Frame(r)
        /\ SameAsk(q, req'[r]) /\ SameFile(q, req'[r])
        /\ req'[r].etag = q.etag /\ req'[r].sent = q.sent
        /\ req'[r].stage = "send" /\ req'[r].status = 206
        /\ req'[r].total = ServedLength(q)
        /\ req'[r].len = len /\ req'[r].start = start
    BY <1>2, <1>4, <1>5, <1>8, <2>2
  <2> QED BY <1>8, <2>3 DEF PartOf
<1>9. \/ RangeOf(q) = Whole
      \/ RangeOf(q) = Unsatisfiable /\ Asked(q.kind.range, ServedLength(q)) = {}
      \/ /\ IfRangeAllows(q)
         /\ \E start, len \in Number :
              /\ RangeOf(q) = Part(start, len)
              /\ len > 0 /\ start + len <= ServedLength(q)
              /\ Positions(start, len) = Asked(q.kind.range, ServedLength(q))
  BY <1>1, RangeFacts DEF Exact
<1> HIDE DEF answered
<1> QED BY <1>1, <1>3, <1>6, <1>7, <1>8, <1>9

LEMMA SendStep ==
  ASSUME TypeOK, NEW r \in Req, Send(r)
  PROVE  /\ req[r].stage = "send"
         /\ Frame(r) /\ cache' = cache
         /\ SameAsk(req[r], req'[r])
         /\ req'[r].etag = req[r].etag /\ req'[r].encoding = req[r].encoding
         /\ req'[r].tries = req[r].tries
         /\ req'[r].status = req[r].status /\ req'[r].total = req[r].total
         /\ req'[r].len = req[r].len /\ req'[r].start = req[r].start
         /\ req'[r].stage = "done"
         /\ req'[r].sent.version = inode[req[r].handle]
         /\ req'[r].sent.bytes
              = Saturating(written[inode[req[r].handle]].size, req[r].start)
<1> DEFINE q == req[r]
           v == inode[q.handle]
           sent == [version |-> v, bytes |-> Saturating(written[v].size, q.start)]
           p == [q EXCEPT !.stage = "done", !.handle = 0, !.sent = sent]
<1>1. /\ q.stage = "send" /\ UNCHANGED <<options, written, inode, disk, inPlace, cache>>
      /\ Becomes(r, p)
  BY DEF Send
<1>2. req \in [Req -> Requests] /\ q \in Requests /\ v \in DOMAIN written /\ FilesOK
  BY <1>1, OpenFacts, TypeParts
<1>3. v \in Nat /\ written[v].size \in Number /\ q.start \in Number
  BY <1>2, VersionFacts DEF Requests
<1>4. Saturating(written[v].size, q.start) \in Number
  BY <1>3, MaxIntAssumption DEF Saturating, Number
<1>5. sent \in Sent /\ sent.version = v /\ sent.bytes = Saturating(written[v].size, q.start)
  BY <1>3, <1>4 DEF Sent
<1>6. "done" \in Stage
  BY DEF Stage
<1>7. p \in Requests
  <2> HIDE DEF sent, q
  <2> QED BY <1>2, <1>5, <1>6 DEF Requests
<1>8. /\ SameAsk(q, p)
      /\ p.etag = q.etag /\ p.encoding = q.encoding /\ p.tries = q.tries
      /\ p.status = q.status /\ p.total = q.total /\ p.len = q.len /\ p.start = q.start
      /\ p.stage = "done" /\ p.sent = sent
  <2> HIDE DEF sent, q
  <2> QED BY <1>2 DEF Requests, SameAsk
<1>9. Frame(r) /\ req'[r] = p
  BY <1>1, <1>2, <1>7, Moved
<1> HIDE DEF p, sent
<1> QED BY <1>1, <1>5, <1>8, <1>9

-----------------------------------------------------------------------------
(* The type invariant. *)

LEMMA InitTyped == Init => TypeOK
<1> SUFFICES ASSUME Init PROVE TypeOK
  OBVIOUS
<1>1. req \in [Req -> Requests] /\ \A r \in Req : req[r].stage = "idle"
  BY IdleTyped DEF Init, Idle
<1>2. cache \subseteq [stamp : Stamps, tag : Tags] /\ inPlace \in BOOLEAN
      /\ options \in [strong : BOOLEAN, precompressed : BOOLEAN]
  BY DEF Init
<1>3. written \in Seq([size : Size, mtime : Time]) /\ DOMAIN written = 1..3
  <2>1. PICK size \in Size, compressed \in Size :
          written = << [size |-> size, mtime |-> 0], [size |-> compressed, mtime |-> 0],
                       [size |-> compressed, mtime |-> 0] >>
    BY DEF Init
  <2> DEFINE File == [size : Size, mtime : Time]
  <2>2. [size |-> size, mtime |-> 0] \in File /\ [size |-> compressed, mtime |-> 0] \in File
    BY FileAssumption
  <2> HIDE DEF File
  <2>3. written \in Seq(File) /\ DOMAIN written = 1..3
    BY <2>1, <2>2
  <2> QED BY <2>3 DEF File
<1>4. inode \in Seq(1..3) /\ DOMAIN inode = 1..3
  BY DEF Init
<1>5. disk \in [Name -> 0..3]
  BY DEF Init, Name, Coding
<1>6. disk \in [Name -> DOMAIN inode \cup {0}]
  BY <1>4, <1>5
<1> QED BY <1>1, <1>2, <1>3, <1>4, <1>6 DEF TypeOK

\* The step of one request: what holds of any of them.
LEMMA ServeSteps ==
  ASSUME TypeOK, NEW r \in Req, Serve(r)
  PROVE  /\ req[r].stage # "done"
         /\ Frame(r)
         /\ cache' = cache \/ StoreTag(r)
         /\ req'[r].stage \notin {"idle", "done"} =>
              req'[r].handle \in DOMAIN inode /\ req'[r].meta \in DOMAIN written
<1>1. ASSUME NEW kind \in Kind, NEW accept \in Accept, NEW prev \in Tagged \cup {Nobody},
             Begin(r, Ask(kind, accept, prev))
      PROVE  /\ req[r].stage # "done" /\ Frame(r) /\ cache' = cache
             /\ req'[r].stage \notin {"idle", "done"} =>
                  req'[r].handle \in DOMAIN inode /\ req'[r].meta \in DOMAIN written
  <2>1. [Idle EXCEPT !.stage = "done", !.status = 404].stage = "done"
    BY DEF Idle
  <2> QED BY <1>1, <2>1, BeginStep
<1>2. CASE TrySibling(r)
  BY <1>2, SiblingStep, OpenFacts DEF SameAsk
<1>3. CASE TakeTag(r)
  BY <1>3, TakeTagStep, OpenFacts DEF SameAsk, SameFile
<1>4. CASE HashFile(r)
  BY <1>4, HashStep, OpenFacts DEF SameAsk, SameFile
<1>5. CASE StoreTag(r)
  BY <1>5, StoreStep, OpenFacts DEF SameAsk, SameFile
<1>6. CASE Answer(r)
  BY <1>6, AnswerStep, OpenFacts DEF SameAsk, SameFile
<1>7. CASE Send(r)
  BY <1>7, SendStep
<1> QED BY <1>1, <1>2, <1>3, <1>4, <1>5, <1>6, <1>7 DEF Serve

\* The fields of a request follow its stage.
InOrder(q) ==
  /\ q.stage \in {"store", "answer", "send"} => q.etag \in Tags
  /\ q.stage \in {"hash", "store"} => options.strong
  /\ q.stage = "store" => q.etag.kind = "strong"
  /\ q.stage = "sibling" => q.encoding = "plain" /\ options.precompressed
  /\ ~options.precompressed => q.encoding = "plain" /\ q.tries = {}
  /\ q.etag # NoTag => q.meta \in DOMAIN written
  /\ q.status # 0 => q.stage \in {"send", "done"}
  /\ q.status \in {206, 304} => q.etag \in Tags
  /\ q.sent.version # 0 =>
       q.stage = "done" /\ q.etag \in Tags /\ q.sent.version \in DOMAIN written

StagesInOrder == \A r \in Req : InOrder(req[r])

LEMMA ServeInOrder ==
  ASSUME TypeOK, StagesInOrder, NEW r \in Req, Serve(r)
  PROVE  InOrder(req[r])'
<1> USE DEF Frame, InOrder
<1>1. InOrder(req[r])
  BY DEF StagesInOrder
<1>2. ASSUME NEW kind \in Kind, NEW accept \in Accept, NEW prev \in Tagged \cup {Nobody},
             Begin(r, Ask(kind, accept, prev))
      PROVE  InOrder(req[r])'
  <2>1. Frame(r) /\ options' = options
    BY <1>2, BeginStep
  <2>2. CASE req'[r] = [Idle EXCEPT !.stage = "done", !.status = 404]
    <3>1. /\ req'[r].stage = "done" /\ req'[r].etag = NoTag /\ req'[r].status = 404
          /\ req'[r].sent.version = 0 /\ req'[r].encoding = "plain" /\ req'[r].tries = {}
      BY <2>2 DEF Idle, Unsent
    <3> QED BY <3>1
  <2>3. CASE /\ req'[r].stage \in {"sibling", "tag"} /\ req'[r].encoding = "plain"
             /\ (~options.precompressed => req'[r].tries = {})
             /\ (req'[r].stage = "sibling" => options.precompressed)
             /\ req'[r].etag = NoTag /\ req'[r].status = 0 /\ req'[r].sent.version = 0
    BY <2>1, <2>3
  <2> QED BY <1>2, <2>2, <2>3, BeginStep
<1>3. CASE TrySibling(r)
  BY <1>1, <1>3, SiblingStep DEF SameAsk, SameAnswer
<1>4. CASE TakeTag(r)
  BY <1>1, <1>4, TakeTagStep, OpenFacts, VersionFacts, TypeParts
     DEF SameAsk, SameFile, SameAnswer, Hits
<1>5. CASE HashFile(r)
  BY <1>1, <1>5, HashStep, OpenFacts DEF SameAsk, SameFile, SameAnswer
<1>6. CASE StoreTag(r)
  BY <1>1, <1>6, StoreStep, OpenFacts DEF SameAsk, SameFile, SameAnswer
<1>7. CASE Answer(r)
  BY <1>1, <1>7, AnswerStep, OpenFacts
     DEF SameAsk, SameFile, Refused, Nothing, PartOf, WholeOf
<1>8. CASE Send(r)
  BY <1>1, <1>8, SendStep, OpenFacts DEF SameAsk
<1> QED BY <1>2, <1>3, <1>4, <1>5, <1>6, <1>7, <1>8 DEF Serve

\* A step that is not of a request.
Quiet == FilesOK' /\ Kept /\ req' = req /\ cache' \subseteq cache

LEMMA QuietOrServe ==
  ASSUME TypeOK, [Next]_vars
  PROVE  Quiet \/ \E r \in Req : Serve(r)
<1>1. FilesOK
  BY TypeParts
<1>2. CASE Deploy
  BY <1>1, <1>2, DeployKeeps DEF Quiet
<1>3. CASE ForgetTags \/ UNCHANGED vars
  BY <1>1, <1>3 DEF ForgetTags, vars, Quiet, FilesOK, Kept
<1> QED BY <1>2, <1>3 DEF Next

LEMMA TypedStep ==
  ASSUME TypeOK, StagesInOrder, [Next]_vars
  PROVE  TypeOK' /\ StagesInOrder'
<1> USE DEF StagesInOrder
<1>1. CASE Quiet
  <2>1. cache' \subseteq [stamp : Stamps, tag : Tags]
    BY <1>1, TypeParts DEF Quiet
  <2>2. req' \in [Req -> Requests]
    BY <1>1, TypeParts DEF Quiet
  <2>3. \A r \in Req : req'[r].stage \notin {"idle", "done"} =>
          req'[r].handle \in DOMAIN inode' /\ req'[r].meta \in DOMAIN written'
    BY <1>1, TypeParts DEF Quiet, Kept
  <2>4. TypeOK'
    BY <1>1, <2>1, <2>2, <2>3 DEF TypeOK, FilesOK, Quiet
  <2>5. ASSUME NEW r \in Req PROVE InOrder(req[r])'
    BY <1>1 DEF Quiet, Kept, InOrder
  <2> QED BY <2>4, <2>5
<1>2. ASSUME NEW r \in Req, Serve(r) PROVE TypeOK' /\ StagesInOrder'
  <2>1. Frame(r) /\ (cache' = cache \/ StoreTag(r))
    BY <1>2, ServeSteps
  <2>2. cache' \subseteq [stamp : Stamps, tag : Tags]
    <3>1. CASE cache' = cache
      BY <3>1, TypeParts
    <3>2. CASE StoreTag(r)
      <4>1. req[r].etag \in Tags
        BY <3>2, StoreStep DEF InOrder
      <4>2. Stamp(req[r].meta) \in Stamps
        BY <3>2, StoreStep, OpenFacts, VersionFacts
      <4> QED BY <3>2, <4>1, <4>2, StoreStep
    <3> QED BY <2>1, <3>1, <3>2
  <2>3. ASSUME NEW s \in Req, req'[s].stage \notin {"idle", "done"}
        PROVE  req'[s].handle \in DOMAIN inode' /\ req'[s].meta \in DOMAIN written'
    BY <1>2, <2>1, <2>3, ServeSteps, TypeParts DEF Frame
  <2>4. TypeOK'
    BY <2>1, <2>2, <2>3, TypeParts DEF TypeOK, FilesOK, Frame
  <2>5. ASSUME NEW s \in Req PROVE InOrder(req[s])'
    <3>1. CASE s = r
      BY <1>2, <3>1, ServeInOrder
    <3>2. CASE s # r
      BY <2>1, <3>2 DEF Frame, InOrder
    <3> QED BY <3>1, <3>2
  <2> QED BY <2>4, <2>5
<1> QED BY <1>1, <1>2, QuietOrServe

LEMMA InitInOrder == Init => StagesInOrder
BY DEF Init, StagesInOrder, InOrder, Idle, Unsent

\* TypeOK of every reachable state: what a request holds exists, what it computes
\* from sizes, seconds and ranges stays within u64.
THEOREM TypeCorrect == Spec => []TypeOK
<1>1. Init => TypeOK /\ StagesInOrder
  BY InitTyped, InitInOrder
<1>2. TypeOK /\ StagesInOrder /\ [Next]_vars => (TypeOK /\ StagesInOrder)'
  BY TypedStep
<1> QED BY <1>1, <1>2, PTL DEF Spec

-----------------------------------------------------------------------------
(* Lengths and ranges. *)

RangeHeld(q) ==
  /\ q.status = 206 =>
       q.len > 0 /\ Positions(q.start, q.len) = Asked(q.kind.range, q.total)
  /\ q.status = 416 => Asked(q.kind.range, q.total) = {}

LEMMA RangesAre == RangesExact <=> \A r \in Req : RangeHeld(req[r])
BY DEF RangesExact, RangeHeld

LEMMA ServeRange ==
  ASSUME TypeOK, StagesInOrder, NEW r \in Req, RangeHeld(req[r]), Serve(r)
  PROVE  RangeHeld(req'[r])
<1> USE DEF RangeHeld
<1>1. ASSUME NEW kind \in Kind, NEW accept \in Accept, NEW prev \in Tagged \cup {Nobody},
             Begin(r, Ask(kind, accept, prev))
      PROVE  RangeHeld(req'[r])
  <2>1. [Idle EXCEPT !.stage = "done", !.status = 404].status = 404
    BY DEF Idle
  <2>2. req'[r].status \in {0, 404}
    BY <1>1, <2>1, BeginStep
  <2> QED BY <2>2
<1>2. CASE TrySibling(r)
  BY <1>2, SiblingStep DEF SameAsk, SameAnswer
<1>3. CASE TakeTag(r)
  BY <1>3, TakeTagStep DEF SameAsk, SameAnswer
<1>4. CASE HashFile(r)
  BY <1>4, HashStep DEF SameAsk, SameAnswer
<1>5. CASE StoreTag(r)
  BY <1>5, StoreStep DEF SameAsk, SameAnswer
<1>6. CASE Answer(r)
  BY <1>6, AnswerStep DEF SameAsk, Refused, Nothing, PartOf, WholeOf
<1>7. CASE Send(r)
  BY <1>7, SendStep DEF SameAsk
<1> QED BY <1>1, <1>2, <1>3, <1>4, <1>5, <1>6, <1>7 DEF Serve

LEMMA RangeStep ==
  ASSUME TypeOK, StagesInOrder, \A r \in Req : RangeHeld(req[r]), [Next]_vars
  PROVE  \A s \in Req : RangeHeld(req'[s])
<1>1. CASE Quiet
  BY <1>1 DEF Quiet
<1>2. ASSUME NEW r \in Req, Serve(r), NEW s \in Req PROVE RangeHeld(req'[s])
  <2>1. CASE s = r
    BY <1>2, <2>1, ServeRange
  <2>2. CASE s # r
    <3>1. req'[s] = req[s]
      BY <1>2, <2>2, ServeSteps DEF Frame
    <3> QED BY <3>1
  <2> QED BY <2>1, <2>2
<1> QED BY <1>1, <1>2, QuietOrServe

\* Every partial answer has exactly the positions asked for that the file has,
\* and 416 is said exactly when there are none.
THEOREM RangesAreExact == Spec => []RangesExact
<1> DEFINE Inv == TypeOK /\ StagesInOrder /\ \A r \in Req : RangeHeld(req[r])
<1>1. Init => Inv
  <2>1. Init => \A r \in Req : RangeHeld(req[r])
    BY DEF Init, Idle, RangeHeld
  <2> QED BY <2>1, InitTyped, InitInOrder
<1>2. Inv /\ [Next]_vars => Inv'
  BY TypedStep, RangeStep
<1>3. Inv => RangesExact
  BY RangesAre
<1> QED BY <1>1, <1>2, <1>3, PTL DEF Spec

\* While nothing is written in place an answer's length fits what its open file
\* holds, and what has been sent reached it.
LengthHeld(q) ==
  ~inPlace =>
    /\ q.stage = "send" => q.start + q.len <= written[inode[q.handle]].size
    /\ q.sent.version # 0 => q.sent.bytes >= q.len

\* While nothing is written in place, the open file is the one whose metadata was
\* taken, unless it is a sibling.
HandleHeld(q) ==
  ~inPlace /\ q.encoding = "plain" =>
    /\ q.stage \notin {"idle", "done"} => inode[q.handle] = q.meta
    /\ q.sent.version # 0 => q.sent.version = q.meta

LEMMA ServeHandle ==
  ASSUME TypeOK, StagesInOrder, NEW r \in Req, HandleHeld(req[r]), Serve(r)
  PROVE  HandleHeld(req[r])'
<1> USE DEF HandleHeld, Frame
<1>1. ASSUME NEW kind \in Kind, NEW accept \in Accept, NEW prev \in Tagged \cup {Nobody},
             Begin(r, Ask(kind, accept, prev))
      PROVE  HandleHeld(req[r])'
  <2>1. [Idle EXCEPT !.stage = "done", !.status = 404].stage = "done"
        /\ [Idle EXCEPT !.stage = "done", !.status = 404].sent.version = 0
    BY DEF Idle, Unsent
  <2>2. CASE req'[r] = [Idle EXCEPT !.stage = "done", !.status = 404]
    <3>1. req'[r].stage = "done" /\ req'[r].sent.version = 0
      BY <2>1, <2>2
    <3> QED BY <3>1
  <2>3. CASE /\ Frame(r) /\ req'[r].meta = inode[req'[r].handle]
             /\ req'[r].sent.version = 0
    BY <2>3
  <2> QED BY <1>1, <2>2, <2>3, BeginStep
<1>2. CASE TrySibling(r)
  BY <1>2, SiblingStep DEF SameAsk, SameAnswer, Preferred
<1>3. CASE TakeTag(r)
  BY <1>3, TakeTagStep DEF SameAsk, SameFile, SameAnswer
<1>4. CASE HashFile(r)
  BY <1>4, HashStep DEF SameAsk, SameFile, SameAnswer
<1>5. CASE StoreTag(r)
  BY <1>5, StoreStep DEF SameAsk, SameFile, SameAnswer
<1>6. CASE Answer(r)
  BY <1>6, AnswerStep DEF SameAsk, SameFile
<1>7. CASE Send(r)
  BY <1>7, SendStep DEF SameAsk
<1> QED BY <1>1, <1>2, <1>3, <1>4, <1>5, <1>6, <1>7 DEF Serve

LEMMA ServeLength ==
  ASSUME TypeOK, StagesInOrder, NEW r \in Req,
         HandleHeld(req[r]), LengthHeld(req[r]), Serve(r)
  PROVE  LengthHeld(req[r])'
<1> USE DEF LengthHeld, Frame
<1>0. InOrder(req[r])
  BY DEF StagesInOrder
<1>1. ASSUME NEW kind \in Kind, NEW accept \in Accept, NEW prev \in Tagged \cup {Nobody},
             Begin(r, Ask(kind, accept, prev))
      PROVE  LengthHeld(req[r])'
  <2>1. [Idle EXCEPT !.stage = "done", !.status = 404].stage = "done"
        /\ [Idle EXCEPT !.stage = "done", !.status = 404].sent.version = 0
    BY DEF Idle, Unsent
  <2> QED BY <1>1, <2>1, BeginStep
<1>2. CASE TrySibling(r)
  BY <1>2, SiblingStep DEF SameAnswer
<1>3. CASE TakeTag(r)
  BY <1>3, TakeTagStep DEF SameAnswer
<1>4. CASE HashFile(r)
  BY <1>4, HashStep DEF SameAnswer
<1>5. CASE StoreTag(r)
  BY <1>5, StoreStep DEF SameAnswer
<1>6. CASE Answer(r)
  <2>1. /\ req[r].stage = "answer" /\ req[r].sent.version = 0
        /\ req'[r].sent = req[r].sent /\ req'[r].handle = req[r].handle
        /\ UNCHANGED <<written, inode, inPlace>>
    BY <1>0, <1>6, AnswerStep DEF InOrder, SameFile
  <2>2. ~inPlace => ServedLength(req[r]) = written[inode[req[r].handle]].size
    BY <2>1 DEF HandleHeld, ServedLength
  <2>3. ServedLength(req[r]) \in Nat
    BY <2>1, LengthTyped, MaxIntAssumption DEF Number
  <2>4. req'[r].stage = "send" =>
          req'[r].start + req'[r].len <= ServedLength(req[r])
    BY <1>6, <2>3, AnswerStep DEF Refused, Nothing, PartOf, WholeOf
  <2> QED BY <2>1, <2>2, <2>4
<1>7. CASE Send(r)
  <2>1. /\ req[r].stage = "send" /\ req'[r].stage = "done"
        /\ req'[r].len = req[r].len
        /\ req'[r].sent.bytes = Saturating(written[inode[req[r].handle]].size, req[r].start)
        /\ UNCHANGED inPlace
    BY <1>7, SendStep
  <2>2. /\ written[inode[req[r].handle]].size \in Nat
        /\ req[r].start \in Nat /\ req[r].len \in Nat
    BY <2>1, OpenFacts, VersionFacts, MaxIntAssumption DEF Requests, Number
  <2>3. ~inPlace => req'[r].sent.bytes >= req[r].len
    BY <2>1, <2>2 DEF Saturating
  <2> QED BY <2>1, <2>3
<1> QED BY <1>1, <1>2, <1>3, <1>4, <1>5, <1>6, <1>7 DEF Serve

FilesHeld == \A r \in Req : HandleHeld(req[r]) /\ LengthHeld(req[r])

LEMMA HeldStep ==
  ASSUME TypeOK, StagesInOrder, FilesHeld, [Next]_vars
  PROVE  FilesHeld'
<1> USE DEF FilesHeld
<1>1. ASSUME Quiet, NEW r \in Req PROVE HandleHeld(req[r])' /\ LengthHeld(req[r])'
  <2>1. req' = req /\ (~inPlace' => ~inPlace)
    BY <1>1 DEF Quiet, Kept
  <2>2. CASE req[r].stage \in {"idle", "done"}
    BY <2>1, <2>2 DEF HandleHeld, LengthHeld
  <2>3. CASE req[r].stage \notin {"idle", "done"}
    <3>1. /\ req[r].handle \in DOMAIN inode
          /\ inode[req[r].handle] \in DOMAIN written
      BY <2>3, OpenFacts
    <3>2. ~inPlace' => /\ inode'[req[r].handle] = inode[req[r].handle]
                       /\ written'[inode[req[r].handle]] = written[inode[req[r].handle]]
      BY <1>1, <3>1 DEF Quiet, Kept
    <3> QED BY <2>1, <3>2 DEF HandleHeld, LengthHeld
  <2> QED BY <2>2, <2>3
<1>2. ASSUME NEW r \in Req, Serve(r), NEW s \in Req
      PROVE  HandleHeld(req[s])' /\ LengthHeld(req[s])'
  <2>1. CASE s = r
    BY <1>2, <2>1, ServeHandle, ServeLength
  <2>2. CASE s # r
    <3>1. req'[s] = req[s] /\ UNCHANGED <<written, inode, inPlace>>
      BY <1>2, <2>2, ServeSteps DEF Frame
    <3> QED BY <3>1 DEF HandleHeld, LengthHeld
  <2> QED BY <2>1, <2>2
<1> QED BY <1>1, <1>2, QuietOrServe

LEMMA InitHeld == Init => FilesHeld
BY DEF Init, Idle, Unsent, FilesHeld, HandleHeld, LengthHeld

\* Unless a file was written in place, the body reaches the length announced,
\* whatever was replaced or removed between fstat, seek and the last byte.
THEOREM NoAnswerIsCutShort == Spec => []NeverCutShort
<1> DEFINE Inv == TypeOK /\ StagesInOrder /\ FilesHeld
<1>1. Init => Inv
  BY InitTyped, InitInOrder, InitHeld
<1>2. Inv /\ [Next]_vars => Inv'
  BY TypedStep, HeldStep
<1>3. Inv => NeverCutShort
  BY DEF FilesHeld, LengthHeld, NeverCutShort
<1> QED BY <1>1, <1>2, <1>3, PTL DEF Spec

-----------------------------------------------------------------------------
(* Tags. *)

\* A tag names a version that was written, up to second and size.
Named(tag, v) ==
  \/ tag.kind = "weak" /\ tag = WeakTag(v)
  \/ tag.kind = "strong" /\ tag.hash \in DOMAIN written /\ Stamp(tag.hash) = Stamp(v)

LEMMA NamedNames ==
  ASSUME NEW tag, NEW v, Named(tag, v)
  PROVE  Names(tag, v)
BY DEF Named, Names

\* A tag keeps naming what it names.
LEMMA NamedKept ==
  ASSUME Kept, NEW tag, NEW v \in DOMAIN written, Named(tag, v)
  PROVE  Named(tag, v)'
<1>1. WeakTag(v)' = WeakTag(v) /\ Stamp(v)' = Stamp(v)
  BY DEF Kept, WeakTag, Stamp, Secs
<1>2. CASE tag.kind = "weak" /\ tag = WeakTag(v)
  BY <1>1, <1>2 DEF Named
<1>3. CASE tag.kind = "strong" /\ tag.hash \in DOMAIN written /\ Stamp(tag.hash) = Stamp(v)
  <2>1. tag.hash \in DOMAIN written' /\ Stamp(tag.hash)' = Stamp(tag.hash)
    BY <1>3 DEF Kept, Stamp, Secs
  <2> QED BY <1>1, <1>3, <2>1 DEF Named
<1> QED BY <1>2, <1>3 DEF Named

\* Tags belong to the metadata they are sent with, and cached tags to the second
\* and size they are found by.
TagHeld(q) == Tidy /\ q.encoding = "plain" /\ q.etag # NoTag => Named(q.etag, q.meta)

EntryHeld(e) ==
  e.tag.kind = "strong" /\ e.tag.hash \in DOMAIN written /\ Stamp(e.tag.hash) = e.stamp

TagsHeld ==
  /\ \A r \in Req : TagHeld(req[r])
  /\ Tidy => \A e \in cache : EntryHeld(e)

LEMMA TagsAreDistinct == NoTag \notin Tags
BY DEF NoTag, Tags

LEMMA QuietTags ==
  ASSUME TypeOK, StagesInOrder, TagsHeld, Quiet
  PROVE  TagsHeld'
<1> USE DEF TagsHeld
<1>1. Kept /\ req' = req /\ cache' \subseteq cache /\ (Tidy' => Tidy)
  BY DEF Quiet, Kept, Tidy
<1>2. ASSUME NEW r \in Req PROVE TagHeld(req[r])'
  <2>1. CASE Tidy' /\ req[r].encoding = "plain" /\ req[r].etag # NoTag
    <3>1. Named(req[r].etag, req[r].meta) /\ req[r].meta \in DOMAIN written
      BY <1>1, <2>1 DEF TagHeld, StagesInOrder, InOrder
    <3> DEFINE tag == req[r].etag
               v == req[r].meta
    <3>2. tag' = tag /\ v' = v
      BY <1>1
    <3>3. \A t, u : u \in DOMAIN written /\ Named(t, u) =>
            \/ t.kind = "weak" /\ t = [kind |-> "weak", secs |-> written'[u].mtime \div 2,
                                       size |-> written'[u].size]
            \/ /\ t.kind = "strong" /\ t.hash \in DOMAIN written'
               /\ [secs |-> written'[t.hash].mtime \div 2, size |-> written'[t.hash].size]
                    = [secs |-> written'[u].mtime \div 2, size |-> written'[u].size]
      BY <1>1, NamedKept DEF Named, WeakTag, Stamp, Secs
    <3> QED BY <1>1, <3>1, <3>3 DEF TagHeld, Named, WeakTag, Stamp, Secs
  <2> QED BY <1>1, <2>1 DEF TagHeld
<1>3. ASSUME Tidy', NEW e \in cache' PROVE EntryHeld(e)'
  BY <1>1, <1>3 DEF EntryHeld, Kept, Stamp, Secs
<1> QED BY <1>2, <1>3

LEMMA ServeTags ==
  ASSUME TypeOK, StagesInOrder, FilesHeld, TagsHeld, NEW r \in Req, Serve(r)
  PROVE  TagHeld(req[r])' /\ (Tidy' => \A e \in cache' : EntryHeld(e)')
<1> DEFINE Kept2 == UNCHANGED <<options, written, inPlace>>
<1>0. /\ Kept2 /\ (Tidy' <=> Tidy) /\ InOrder(req[r]) /\ TagHeld(req[r])
      /\ (Tidy => \A e \in cache : EntryHeld(e)) /\ HandleHeld(req[r])
      /\ \A e : EntryHeld(e) => EntryHeld(e)'
      /\ \A tag, v : Named(tag, v) => Named(tag, v)'
  <2>1. Kept2
    BY ServeSteps DEF Frame
  <2>2. \A e : EntryHeld(e) => EntryHeld(e)'
    BY <2>1 DEF EntryHeld, Stamp, Secs
  <2>3. \A tag, v : Named(tag, v) => Named(tag, v)'
    BY <2>1 DEF Named, WeakTag, Stamp, Secs
  <2> QED BY <2>1, <2>2, <2>3 DEF TagsHeld, Tidy, StagesInOrder, FilesHeld
<1>1. ASSUME NEW kind \in Kind, NEW accept \in Accept, NEW prev \in Tagged \cup {Nobody},
             Begin(r, Ask(kind, accept, prev))
      PROVE  TagHeld(req[r])'
  <2>1. [Idle EXCEPT !.stage = "done", !.status = 404].etag = NoTag
    BY DEF Idle
  <2>2. req'[r].etag = NoTag
    BY <1>1, <2>1, BeginStep
  <2> QED BY <1>1, <2>2, BeginStep DEF TagHeld
<1>2. ASSUME TrySibling(r) \/ StoreTag(r) \/ Answer(r) \/ Send(r)
      PROVE  TagHeld(req[r])'
  <2>1. /\ req'[r].etag = req[r].etag /\ req'[r].meta = req[r].meta
        /\ req'[r].encoding = "plain" => req[r].encoding = "plain"
    BY <1>2, SiblingStep, StoreStep, AnswerStep, SendStep
       DEF SameAsk, SameFile, Preferred
  <2> QED BY <1>0, <2>1 DEF TagHeld, Named, WeakTag, Stamp, Secs
<1>3. ASSUME TakeTag(r) PROVE TagHeld(req[r])'
  <2>1. /\ req[r].stage = "tag"
        /\ req'[r].meta = req[r].meta /\ req'[r].encoding = req[r].encoding
    BY <1>3, TakeTagStep DEF SameAsk, SameFile
  <2>2. CASE req'[r].etag = WeakTag(req[r].meta)
    <3>1. Named(req'[r].etag, req[r].meta)
      BY <2>2 DEF Named, WeakTag
    <3> QED BY <1>0, <2>1, <3>1 DEF TagHeld, Named, WeakTag, Stamp, Secs
  <2>3. ASSUME NEW e \in Hits(req[r].meta), req'[r].etag = e.tag
        PROVE  TagHeld(req[r])'
    <3>1. Tidy => Named(e.tag, req[r].meta)
      BY <1>0, <2>3 DEF Hits, EntryHeld, Named
    <3> QED BY <1>0, <2>1, <2>3, <3>1 DEF TagHeld, Named, WeakTag, Stamp, Secs
  <2>4. CASE req'[r].etag = req[r].etag
    BY <1>0, <2>1, <2>4 DEF TagHeld, Named, WeakTag, Stamp, Secs
  <2> QED BY <1>3, <2>2, <2>3, <2>4, TakeTagStep
<1>4. ASSUME HashFile(r) PROVE TagHeld(req[r])'
  <2>1. /\ req[r].stage = "hash"
        /\ req'[r].meta = req[r].meta /\ req'[r].encoding = req[r].encoding
        /\ req'[r].etag = StrongTag(inode[req[r].handle], req[r].meta)
    BY <1>4, HashStep DEF SameAsk, SameFile
  <2>2. Tidy /\ req[r].encoding = "plain" => Named(req'[r].etag, req[r].meta)
    <3>1. Tidy /\ req[r].encoding = "plain" =>
            inode[req[r].handle] = req[r].meta /\ req[r].meta \in DOMAIN written
      BY <1>0, <2>1, OpenFacts DEF HandleHeld, Tidy
    <3> QED BY <2>1, <3>1 DEF Named, StrongTag
  <2> QED BY <1>0, <2>1, <2>2 DEF TagHeld, Named, WeakTag, Stamp, Secs
<1>5. ASSUME StoreTag(r) PROVE Tidy' => \A e \in cache' : EntryHeld(e)'
  <2>1. /\ req[r].stage = "store"
        /\ cache' = {[stamp |-> Stamp(req[r].meta), tag |-> req[r].etag]}
    BY <1>5, StoreStep
  <2>2. ASSUME Tidy
        PROVE  EntryHeld([stamp |-> Stamp(req[r].meta), tag |-> req[r].etag])
    <3>1. /\ req[r].encoding = "plain" /\ req[r].etag # NoTag
          /\ req[r].etag.kind = "strong"
      BY <1>0, <2>1, <2>2, TagsAreDistinct DEF InOrder, Tidy
    <3>2. Named(req[r].etag, req[r].meta)
      BY <1>0, <2>2, <3>1 DEF TagHeld
    <3> QED BY <3>1, <3>2 DEF Named, EntryHeld
  <2> QED BY <1>0, <2>1, <2>2
<1>6. cache' = cache \/ StoreTag(r)
  BY ServeSteps
<1>7. Tidy' => \A e \in cache' : EntryHeld(e)'
  BY <1>0, <1>5, <1>6
<1>8. TagHeld(req[r])'
  BY <1>1, <1>2, <1>3, <1>4 DEF Serve
<1> QED BY <1>7, <1>8

LEMMA TagsStep ==
  ASSUME TypeOK, StagesInOrder, FilesHeld, TagsHeld, [Next]_vars
  PROVE  TagsHeld'
<1>1. CASE Quiet
  BY <1>1, QuietTags
<1>2. ASSUME NEW r \in Req, Serve(r) PROVE TagsHeld'
  <2>1. ASSUME NEW s \in Req PROVE TagHeld(req[s])'
    <3>1. CASE s = r
      BY <1>2, <3>1, ServeTags
    <3>2. CASE s # r
      <4>1. req'[s] = req[s] /\ UNCHANGED <<options, written, inPlace>>
        BY <1>2, <3>2, ServeSteps DEF Frame
      <4>2. TagHeld(req[s])
        BY DEF TagsHeld
      <4> QED BY <4>1, <4>2 DEF TagHeld, Tidy, Named, WeakTag, Stamp, Secs
    <3> QED BY <3>1, <3>2
  <2> QED BY <1>2, <2>1, ServeTags DEF TagsHeld
<1> QED BY <1>1, <1>2, QuietOrServe

LEMMA InitTags == Init => TagsHeld
BY DEF Init, Idle, TagsHeld, TagHeld

\* Whatever is deployed between opening, hashing and streaming, and whoever filled
\* the cache, the bytes that go out are of a version that the answer's tag names.
THEOREM CopiesMatchTags == Spec => []CopyMatchesTag
<1> DEFINE Inv == TypeOK /\ StagesInOrder /\ FilesHeld /\ TagsHeld
<1>1. Init => Inv
  BY InitTyped, InitInOrder, InitHeld, InitTags
<1>2. Inv /\ [Next]_vars => Inv'
  BY TypedStep, HeldStep, TagsStep
<1>3. Inv => CopyMatchesTag
  <2> SUFFICES ASSUME Inv, Tidy, NEW r \in Req, Whole200(r)
               PROVE  Names(req[r].etag, req[r].sent.version)
    BY DEF CopyMatchesTag
  <2>1. req[r].sent.version = req[r].meta
    BY DEF Whole200, FilesHeld, HandleHeld, Tidy
  <2>2. req[r].etag # NoTag
    BY TagsAreDistinct DEF Whole200, StagesInOrder, InOrder
  <2>3. Named(req[r].etag, req[r].meta)
    BY <2>2 DEF Whole200, TagsHeld, TagHeld
  <2> QED BY <2>1, <2>3, NamedNames
<1> QED BY <1>1, <1>2, <1>3, PTL DEF Spec


-----------------------------------------------------------------------------
(* Validators. *)

\* The answer a request repeats something of is given for good.
EarlierDone(q) ==
  q.prev # Nobody =>
    q.prev \in Req /\ req[q.prev].stage = "done" /\ req[q.prev].etag # NoTag

\* Why a client was told to keep its copy, or to add to it.
Justified(q) ==
  q.prev # Nobody =>
    /\ q.status = 304 =>
         \/ q.kind.how = "if-none-match" /\ req[q.prev].etag = q.etag
         \/ /\ q.kind.how = "if-modified-since"
            /\ written[q.meta].mtime <= 2 * Secs(req[q.prev].meta)
    /\ q.status = 206 /\ q.kind.how = "if-range" => req[q.prev].etag = q.etag

AllJustified == \A r \in Req : EarlierDone(req[r]) /\ Justified(req[r])

LEMMA ServeJustified ==
  ASSUME TypeOK, StagesInOrder, AllJustified, NEW r \in Req, Serve(r)
  PROVE  EarlierDone(req[r])' /\ Justified(req[r])'
<1>0. /\ InOrder(req[r]) /\ EarlierDone(req[r]) /\ Justified(req[r])
      /\ UNCHANGED written
      /\ \A s \in Req : req[s].stage = "done" => req'[s] = req[s]
  BY ServeSteps DEF StagesInOrder, AllJustified, Frame
<1>1. ASSUME NEW kind \in Kind, NEW accept \in Accept, NEW prev \in Tagged \cup {Nobody},
             Begin(r, Ask(kind, accept, prev))
      PROVE  EarlierDone(req[r])' /\ Justified(req[r])'
  <2>1. CASE req'[r] = [Idle EXCEPT !.stage = "done", !.status = 404]
    <3>1. req'[r].prev = Nobody
      BY <2>1 DEF Idle
    <3> QED BY <3>1 DEF EarlierDone, Justified
  <2>2. CASE req'[r].prev = prev /\ req'[r].status = 0
    <3>1. prev # Nobody => prev \in Req /\ req[prev].stage = "done" /\ req[prev].etag # NoTag
      BY DEF Tagged
    <3>2. prev # Nobody => req'[prev] = req[prev]
      BY <1>0, <3>1
    <3> QED BY <2>2, <3>1, <3>2 DEF EarlierDone, Justified
  <2> QED BY <1>1, <2>1, <2>2, BeginStep
<1>2. ASSUME SameAsk(req[r], req'[r])
      PROVE  /\ EarlierDone(req[r])'
             /\ req[r].prev # Nobody => req'[req[r].prev] = req[req[r].prev]
  BY <1>0, <1>2 DEF SameAsk, EarlierDone
<1>3. ASSUME SameAsk(req[r], req'[r]), req'[r].status = req[r].status,
             req'[r].status # 0 => req'[r].etag = req[r].etag
      PROVE  Justified(req[r])'
  BY <1>0, <1>2, <1>3 DEF SameAsk, Justified, Secs
<1>4. CASE TrySibling(r) \/ TakeTag(r) \/ HashFile(r)
  <2>1. /\ SameAsk(req[r], req'[r])
        /\ req'[r].status = req[r].status /\ req[r].stage \notin {"send", "done"}
    BY <1>4, SiblingStep, TakeTagStep, HashStep DEF SameAnswer
  <2>2. req[r].status = 0
    BY <1>0, <2>1 DEF InOrder
  <2> QED BY <1>2, <1>3, <2>1, <2>2
<1>5. CASE StoreTag(r) \/ Send(r)
  <2>1. /\ SameAsk(req[r], req'[r])
        /\ req'[r].status = req[r].status /\ req'[r].etag = req[r].etag
    BY <1>5, StoreStep, SendStep DEF SameAnswer
  <2> QED BY <1>2, <1>3, <2>1
<1>6. CASE Answer(r)
  <2>1. SameAsk(req[r], req'[r]) /\ req'[r].etag = req[r].etag
    BY <1>6, AnswerStep
  <2>2. req[r].prev # Nobody => req'[req[r].prev] = req[req[r].prev]
    BY <1>2, <2>1
  <2>3. CASE Refused(req[r], req'[r])
    <3>1. NotModified(req[r]) /\ req'[r].status \in {304, 412}
      BY <2>3 DEF Refused
    <3> QED BY <1>0, <1>2, <2>1, <2>2, <3>1
            DEF NotModified, SameAsk, Justified, Secs
  <2>4. CASE PartOf(req[r], req'[r])
    <3>1. IfRangeAllows(req[r]) /\ req'[r].status = 206
      BY <2>4 DEF PartOf
    <3> QED BY <1>0, <1>2, <2>1, <2>2, <3>1 DEF IfRangeAllows, SameAsk, Justified
  <2>5. CASE Nothing(req[r], req'[r]) \/ WholeOf(req[r], req'[r])
    <3>1. req'[r].status \in {200, 416}
      BY <2>5 DEF Nothing, WholeOf
    <3> QED BY <1>2, <2>1, <3>1 DEF Justified
  <2> QED BY <1>6, <2>3, <2>4, <2>5, AnswerStep
<1> QED BY <1>1, <1>4, <1>5, <1>6 DEF Serve

LEMMA JustifiedStep ==
  ASSUME TypeOK, StagesInOrder, AllJustified, [Next]_vars
  PROVE  AllJustified'
<1>1. ASSUME Quiet, NEW r \in Req PROVE EarlierDone(req[r])' /\ Justified(req[r])'
  <2>1. req' = req /\ InOrder(req[r]) /\ EarlierDone(req[r]) /\ Justified(req[r])
    BY <1>1 DEF Quiet, StagesInOrder, AllJustified
  <2>2. EarlierDone(req[r])'
    BY <2>1 DEF EarlierDone
  <2>3. CASE req[r].prev # Nobody /\ req[r].status = 304
    <3>1. req[r].meta \in DOMAIN written /\ req[req[r].prev].meta \in DOMAIN written
      BY <2>1, <2>3, TagsAreDistinct DEF InOrder, EarlierDone, StagesInOrder
    <3>2. /\ written'[req[r].meta] = written[req[r].meta]
          /\ written'[req[req[r].prev].meta] = written[req[req[r].prev].meta]
      BY <1>1, <3>1 DEF Quiet, Kept
    <3> QED BY <2>1, <2>2, <2>3, <3>2 DEF Justified, Secs
  <2>4. CASE ~(req[r].prev # Nobody /\ req[r].status = 304)
    BY <2>1, <2>2, <2>4 DEF Justified
  <2> QED BY <2>3, <2>4
<1>2. ASSUME NEW r \in Req, Serve(r), NEW s \in Req
      PROVE  EarlierDone(req[s])' /\ Justified(req[s])'
  <2>1. CASE s = r
    BY <1>2, <2>1, ServeJustified
  <2>2. CASE s # r
    <3>1. /\ req'[s] = req[s] /\ UNCHANGED written
          /\ \A t \in Req : req[t].stage = "done" => req'[t] = req[t]
      BY <1>2, <2>2, ServeSteps DEF Frame
    <3>2. EarlierDone(req[s]) /\ Justified(req[s])
      BY DEF AllJustified
    <3>3. req[s].prev # Nobody => req'[req[s].prev] = req[req[s].prev]
      BY <3>1, <3>2 DEF EarlierDone
    <3> QED BY <3>1, <3>2, <3>3 DEF EarlierDone, Justified, Secs
  <2> QED BY <2>1, <2>2
<1> QED BY <1>1, <1>2, QuietOrServe DEF AllJustified

LEMMA OneStamp ==
  ASSUME NEW tag, NEW u, NEW v, Named(tag, u), Named(tag, v)
  PROVE  Stamp(u) = Stamp(v)
<1>1. WeakTag(u) = WeakTag(v) => Stamp(u) = Stamp(v)
  <2>1. /\ WeakTag(u).secs = Secs(u) /\ WeakTag(u).size = written[u].size
        /\ WeakTag(v).secs = Secs(v) /\ WeakTag(v).size = written[v].size
    BY DEF WeakTag
  <2> QED BY <2>1 DEF Stamp
<1> QED BY <1>1 DEF Named

\* A client that is told to keep its copy, or is sent a part of one, has a copy of
\* the file that was opened, as far as second and size tell.
THEOREM ValidatorsAreSound == Spec => []ValidatorsHold
<1> DEFINE Inv == TypeOK /\ StagesInOrder /\ FilesHeld /\ TagsHeld /\ AllJustified
<1>1. Init => Inv
  <2>1. Init => AllJustified
    BY DEF Init, Idle, AllJustified, EarlierDone, Justified
  <2> QED BY <2>1, InitTyped, InitInOrder, InitHeld, InitTags
<1>2. Inv /\ [Next]_vars => Inv'
  BY TypedStep, HeldStep, TagsStep, JustifiedStep
<1>3. Inv => ValidatorsHold
  <2> SUFFICES ASSUME Inv, Tidy, NEW r \in Req,
                      req[r].prev # Nobody, Whole200(req[r].prev),
                      req[r].encoding = "plain",
                      req[r].status = 304
                        \/ (req[r].status = 206 /\ req[r].kind.how = "if-range")
               PROVE  IF req[r].kind.how = "if-modified-since"
                      THEN written[req[r].meta].mtime
                             <= written[req[req[r].prev].sent.version].mtime
                      ELSE Stamp(req[req[r].prev].sent.version) = Stamp(req[r].meta)
    BY DEF ValidatorsHold
  <2> DEFINE q == req[r]
             p == req[q.prev]
  <2>1. q.prev \in Req /\ p.etag # NoTag /\ Justified(q)
    BY DEF AllJustified, EarlierDone
  <2>2. p.sent.version = p.meta
    BY <2>1 DEF Whole200, FilesHeld, HandleHeld, Tidy
  <2>3. q.etag # NoTag /\ q.meta \in DOMAIN written /\ p.meta \in DOMAIN written
    BY <2>1, TagsAreDistinct DEF StagesInOrder, InOrder
  <2>4. CASE q.kind.how = "if-modified-since"
    <3>1. written[q.meta].mtime <= 2 * Secs(p.meta)
      BY <2>1, <2>4 DEF Justified
    <3>2. /\ written[q.meta].mtime \in Nat /\ written[p.meta].mtime \in Nat
          /\ Secs(p.meta) \in Nat /\ 2 * Secs(p.meta) <= written[p.meta].mtime
      BY <2>3, TypeParts, VersionFacts
    <3>3. written[q.meta].mtime <= written[p.meta].mtime
      BY <3>1, <3>2
    <3> QED BY <2>2, <2>4, <3>3
  <2>5. CASE q.kind.how # "if-modified-since"
    <3>1. p.etag = q.etag
      BY <2>1, <2>5 DEF Justified
    <3>2. Named(p.etag, p.meta) /\ Named(q.etag, q.meta)
      BY <2>1, <2>3 DEF Whole200, TagsHeld, TagHeld
    <3> QED BY <2>2, <2>5, <3>1, <3>2, OneStamp
  <2> QED BY <2>4, <2>5
<1> QED BY <1>1, <1>2, <1>3, PTL DEF Spec

=============================================================================
