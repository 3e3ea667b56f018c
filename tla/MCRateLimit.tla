---------------------------- MODULE MCRateLimit -----------------------------
(* RateLimit with interchangeable clients and calls, for the safety runs. *)
EXTENDS RateLimit, TLC

Symmetry == Permutations(Ip) \cup Permutations(Call)

=============================================================================
