----------------------------- MODULE ByteRange ------------------------------
(***************************************************************************)
(* The Range header (src/fs.rs, parse_byte_range).                         *)
(*                                                                         *)
(* A header is what its text parses to: a first and a last position, either *)
(* of which may be missing.  Both are when the code ignores the header (not *)
(* bytes=, several ranges, numbers that do not parse).                     *)
(***************************************************************************)
EXTENDS Integers

CONSTANT MaxInt           \* the largest number that parses: u64::MAX

ASSUME MaxIntAssumption == MaxInt \in Nat

Missing == MaxInt + 1
Number == 0..MaxInt
Header == [first : Number \cup {Missing}, last : Number \cup {Missing}]

Whole == [kind |-> "whole"]
Unsatisfiable == [kind |-> "unsatisfiable"]
Part(start, len) == [kind |-> "part", start |-> start, len |-> len]

Less(a, b) == IF a < b THEN a ELSE b
Saturating(a, b) == IF a > b THEN a - b ELSE 0

\* Mutant: more bytes than there are, counted from before the first one.
SuffixUnbounded(n, total) ==
  IF n = 0 \/ total = 0 THEN Unsatisfiable ELSE Part(total - n, n)

\* bytes=-n: the last n bytes.
Suffix(n, total) ==
  IF n = 0 \/ total = 0 THEN Unsatisfiable
  ELSE Part(Saturating(total, n), total - Saturating(total, n))

\* Mutant: a last position past the end is kept.
FromToUnclamped(start, end, total) ==
  IF end < start \/ start >= total THEN Unsatisfiable
  ELSE Part(start, end - start + 1)

FromTo(start, end, total) ==
  IF end < start \/ start >= total THEN Unsatisfiable
  ELSE Part(start, Less(end, total - 1) - start + 1)

ParseByteRange(header, total) ==
  IF header.first = Missing
  THEN IF header.last = Missing THEN Whole ELSE Suffix(header.last, total)
  ELSE FromTo(header.first,
              IF header.last = Missing THEN Saturating(total, 1) ELSE header.last, total)

-----------------------------------------------------------------------------
\* What is asked for, as positions: the reference definition.
Asked(header, total) ==
  {p \in 0..(total - 1) :
     IF header.first = Missing THEN p + header.last >= total
     ELSE header.first <= p /\ (header.last # Missing => p <= header.last)}

Positions(start, len) == start..(start + len - 1)

\* The positions served are the ones asked for that the file has, and 416 is
\* the answer exactly when there are none; the result fits a u64.
RangeIsExact(header, total) ==
  LET range == ParseByteRange(header, total)
  IN  CASE range.kind = "whole" ->
             header.first = Missing /\ header.last = Missing
        [] range.kind = "unsatisfiable" -> Asked(header, total) = {}
        [] range.kind = "part" ->
             /\ {range.start, range.len} \subseteq Number
             /\ range.len > 0
             /\ range.start + range.len <= total
             /\ Positions(range.start, range.len) = Asked(header, total)

=============================================================================
