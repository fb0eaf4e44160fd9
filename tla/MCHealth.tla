------------------------------ MODULE MCHealth ------------------------------
(* Two health_check blocks with different thresholds and intervals. *)
EXTENDS Health

MCNoCheck == [healthy_threshold |-> 0, unhealthy_threshold |-> 0, interval |-> 0]

Quick == [healthy_threshold |-> 1, unhealthy_threshold |-> 2, interval |-> 1]
Slow == [healthy_threshold |-> 2, unhealthy_threshold |-> 0, interval |-> 2]

MCSettings == {Quick, Slow}
MCQuickThenNone == {Quick, MCNoCheck}
=============================================================================
