----------------------------- MODULE MCSessions -----------------------------
(* Sessions with interchangeable requests, for the safety runs. *)
EXTENDS Sessions, TLC

Symmetry == Permutations(Req)

=============================================================================
