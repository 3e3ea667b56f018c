------------------------------ MODULE ServeDir ------------------------------
(***************************************************************************)
(* Which file a path under a ServeDir names (src/fs.rs): the path is put   *)
(* together component by component, resolved through every symbolic link,  *)
(* held against the directory that is served, and opened; a precompressed  *)
(* sibling of a file may be opened in its place.  Tree is the file system: *)
(* from a path, a sequence of names, to what is there.  Links lead to      *)
(* places that are no links.                                               *)
(***************************************************************************)
EXTENDS Replies, Sequences, SequencesExt

CONSTANTS
  Tree,          \* path -> [kind |-> "file" | "dir" | "link", to |-> path]
  Dir,           \* the directory ServeDir::new was given
  WithExtension(_, _)   \* a name and a coding -> the name with ".br" or ".gz"

Nowhere == <<"?">>       \* ENOENT
Barred  == <<"!">>       \* ENOTDIR: a file where a directory should be
Exists(path) == path \in DOMAIN Tree
IsA(path, kind) == Exists(path) /\ Tree[path].kind = kind

\* What any file system is like: everything but the root is in a directory, and
\* the root is no file; no name means this directory or the one above, and
\* errors are no paths.
ASSUME TreeAssumption ==
  /\ DOMAIN Tree \subseteq Seq(STRING)
  /\ \A path \in DOMAIN Tree :
       /\ path # << >> => IsA(Front(path), "dir")
       /\ \A i \in DOMAIN path : path[i] \notin {"..", "/", "."}
  /\ \A path \in DOMAIN Tree :
       IsA(path, "link") => ~IsA(Tree[path].to, "link")
  /\ ~IsA(<< >>, "file") /\ ~Exists(Nowhere) /\ ~Exists(Barred)

\* What a file name is with an extension is a name again.
ASSUME ExtensionAssumption ==
  \A path \in DOMAIN Tree : path # << >> =>
    \A coding \in {"br", "gzip"} : WithExtension(Last(path), coding) \in STRING

-----------------------------------------------------------------------------
(* The operating system. *)

\* One component further, through a link if there is one.
Enters(dir, name) ==
  LET next == Append(dir, name)
  IN CASE IsA(dir, "file") \/ dir = Barred -> Barred
       [] ~Exists(next)     -> Nowhere
       [] IsA(next, "link") -> IF Exists(Tree[next].to) THEN Tree[next].to ELSE Nowhere
       [] OTHER             -> next

Canonicalize(path) == FoldLeft(Enters, << >>, path)

IsBarred(path) == Canonicalize(path) = Barred

\* ServeDir::new is given a directory, or what is to be one.
ASSUME DirAssumption == Dir \in Seq(STRING) /\ ~IsA(Canonicalize(Dir), "file")

\* The last component itself, not what it may link to.
LinkPath(path) ==
  IF path = << >> THEN << >> ELSE Append(Canonicalize(Front(path)), Last(path))

-----------------------------------------------------------------------------
(* ServeDir. *)

\* ServeDir::new and the get_or_init of call.
CanonicalBase == IF Exists(Canonicalize(Dir)) THEN Canonicalize(Dir) ELSE Dir

Push(path, part) == IF part = "." THEN path ELSE Append(path, part)

\* resolve_within: empty for a path that would step out of the directory.
ResolveWithin(relative) ==
  IF \E i \in DOMAIN relative : relative[i] \in {"..", "/"} THEN {}
  ELSE { FoldLeft(Push, Dir, relative) }

\* open_for_serve: the file that is opened, empty when the answer is an error.
OpenForServe(path) ==
  LET here == LinkPath(path)
  IN CASE IsA(here, "file") -> {here}
       [] IsA(here, "dir")  -> { f \in {Append(here, "index.html")} : IsA(f, "file") }
       [] OTHER             -> {}

\* Mutant: what a path resolves to is not looked at.
NeverEscapes(path) == FALSE

Escapes(path) ==
  LET actual == Canonicalize(path)
  IN Exists(actual) /\ ~IsPrefix(CanonicalBase, actual)

Opened(relative) ==
  UNION { OpenForServe(path) : path \in {p \in ResolveWithin(relative) : ~Escapes(p)} }

\* The codings for which siblings are looked for.
Accepted(ask) ==
  IF ask.precompressed
  THEN { c \in {"br", "gzip"} : (c = "br" /\ ask.br) \/ (c = "gzip" /\ ask.gzip) } ELSE {}

Sibling(path, coding) == Append(Front(path), WithExtension(Last(path), coding))

\* File::open goes through links, and opens a directory too.
Opens(path) == Exists(Canonicalize(path))

\* serve_file_with_cache: the sibling that is opened in place of the file that
\* path names, brotli before gzip; the index of a directory has none.
CodingOf(path, accepted) ==
  LET opens(coding) ==
        /\ IsA(LinkPath(path), "file")
        /\ coding \in accepted
        /\ Opens(Sibling(path, coding))
  IN CASE opens("br") -> "br" [] opens("gzip") -> "gzip" [] OTHER -> "none"

\* Where the bytes come from when path is served.
SentFrom(path, accepted) ==
  LET coding == CodingOf(path, accepted)
  IN IF coding = "none" THEN OpenForServe(path) ELSE {Canonicalize(Sibling(path, coding))}

\* What the request asks for; file is empty when the route has no such parameter.
Paths(ask) == UNION { ResolveWithin(f) : f \in ask.file }

ContentEncoding(ask) ==
  CHOOSE c \in Coding : \E path \in Paths(ask) : c = CodingOf(path, Accepted(ask))

\* ServeDir::call.
ServeDirCall(ask) ==
  CASE ask.file = {} -> Err("missing param")
    [] \E f \in ask.file : ResolveWithin(f) = {} -> Ok(Text(403, 9))
    [] \E path \in Paths(ask) : IsBarred(path) -> Err("io")
    [] \E f \in ask.file : Opened(f) # {} ->
         Ok(Precoded(New(200, "html", StreamBody(ask.size)), ContentEncoding(ask)))
    [] OTHER -> Ok(Text(404, 9))

=============================================================================
