---------------------------- MODULE MCTokenBucket ----------------------------
(* Two threads on one bucket, over small policies: a zero limit, an         *)
(* emission interval that does not divide the window, bursts.  Policies     *)
(* whose tolerance saturates u64 (a window above 584 years) are left to the *)
(* proofs: TLC would count their acceptances without end.                   *)
EXTENDS TokenBucket

MCConfigs == {[limit |-> 0, burst |-> 1, window |-> 1],
              [limit |-> 1, burst |-> 0, window |-> 1],
              [limit |-> 3, burst |-> 0, window |-> 2],
              [limit |-> 2, burst |-> 1, window |-> 1]}
=============================================================================
