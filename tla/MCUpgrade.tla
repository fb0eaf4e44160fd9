------------------------------ MODULE MCUpgrade -----------------------------
(* What the files on disk may amount to: as started, replaced, rejected by *)
(* `-t`, or accepted by it and impossible to build.                        *)
EXTENDS Upgrade

Same == [loads |-> TRUE, builds |-> TRUE, version |-> 1]
Replaced == [Same EXCEPT !.version = 2]
Rejected == [Replaced EXCEPT !.loads = FALSE]
Conflict == [Replaced EXCEPT !.builds = FALSE]

MCKinds == {Same, Replaced, Rejected, Conflict}
=============================================================================
