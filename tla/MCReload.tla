------------------------------ MODULE MCReload ------------------------------
(* Contents that differ in one respect from a good one. *)
EXTENDS Reload, TLC

Good == [parses |-> TRUE, builds |-> TRUE, sockets |-> 1, weight |-> 1]
Heavier == [Good EXCEPT !.weight = 2]
Moved == [Good EXCEPT !.sockets = 2]
Conflict == [Good EXCEPT !.builds = FALSE]
Typo == [Good EXCEPT !.parses = FALSE]

MCContents == {Good, Heavier, Moved, Conflict, Typo}

(* Nothing tells the gateways apart. *)
Symmetry == Permutations(Gateways)
=============================================================================
