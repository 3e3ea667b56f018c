------------------------------- MODULE LruMap -------------------------------
(***************************************************************************)
(* The capped map that MemorySessionStore (src/session/store.rs) and       *)
(* RateLimit (src/middleware/rate_limit.rs) each build from a HashMap: an  *)
(* entry carries the time it was last touched, and room is made before an  *)
(* insertion by dropping the idle entries, then the least recently touched. *)
(*                                                                         *)
(* A map is a function from its keys to records with a field "touched";    *)
(* "cap" bounds its entries and one untouched for longer than "window" is  *)
(* idle.                                                                   *)
(***************************************************************************)
EXTENDS Naturals, FiniteSets

Without(m, S) == [k \in DOMAIN m \ S |-> m[k]]

Put(m, k, e) == [j \in DOMAIN m \cup {k} |-> IF j = k THEN e ELSE m[j]]

Size(m) == Cardinality(DOMAIN m)

\* duration_since is zero when the entry was touched after "now" was read.
Idle(m, now, window) == {k \in DOMAIN m : now > m[k].touched + window}

\* min_by_key over a HashMap: among equals, whichever comes first in it.
Oldest(m) == {k \in DOMAIN m : \A j \in DOMAIN m : m[k].touched <= m[j].touched}

\* Mutant: only idle entries make room.
EvictedIdleOnly(m, now, cap, window) ==
  {IF Size(m) < cap THEN m ELSE Without(m, Idle(m, now, window))}

\* The maps that making room for one insertion may leave.
Evicted(m, now, cap, window) ==
  LET busy == Without(m, Idle(m, now, window))
  IN  IF Size(m) < cap THEN {m}
      ELSE IF Size(busy) < cap \/ DOMAIN busy = {} THEN {busy}
      ELSE {Without(busy, {k}) : k \in Oldest(busy)}

=============================================================================
