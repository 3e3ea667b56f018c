------------------------------ MODULE MCRouter ------------------------------
(* Router with two routers and a handful of colliding routes. *)
EXTENDS Router, TLC

Symmetry == Permutations(App)

Routes ==
  { <<"", "a">>, <<"", "a", "">>, <<"", ":">>, <<"", "*">>, <<"a">> }

PrefixTexts == { <<"p">>, <<"", "">> }

RequestPaths ==
  { <<"", "">>, <<"", "a">>, <<"", "a", "">>, <<"", "b">>, <<"", "p", "a">> }

=============================================================================
