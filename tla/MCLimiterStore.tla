--------------------------- MODULE MCLimiterStore ---------------------------
EXTENDS LimiterStore

(* One token per millisecond, a bucket of two. *)
MCPolicy == [limit |-> 1, burst |-> 1, window |-> 1]
=============================================================================
