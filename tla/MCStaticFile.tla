---------------------------- MODULE MCStaticFile ----------------------------
(* StaticFile with a few small files and the requests that differ. *)
EXTENDS StaticFile, TLC

Symmetry == Permutations(Req)

Accepts == { {}, {"br", "gzip"} }

RequestKinds ==
  [method : {"GET"}, how : {"plain"}, range : {NoRange, [first |-> 1, last |-> 3]}]
  \cup [method : {"GET"}, how : {"if-range"}, range : {[first |-> Missing, last |-> 2]}]
  \cup [method : {"GET"}, how : {"if-none-match"}, range : {NoRange}]
  \cup [method : {"GET", "POST"}, how : {"if-modified-since"}, range : {NoRange}]

=============================================================================
