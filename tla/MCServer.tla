------------------------------ MODULE MCServer ------------------------------
(* Server with interchangeable connection slots, for the safety runs. *)
EXTENDS Server, TLC

Symmetry == Permutations(Conn)

=============================================================================
