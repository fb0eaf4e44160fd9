---------------------------- MODULE SlidingWindow ----------------------------
(***************************************************************************)
(* limiter/algorithm/sliding_window.rs: four atomic words shared by the    *)
(* request threads, one action per atomic operation of check.  Rotating    *)
(* the window takes four operations (one CAS, one swap, two stores), and   *)
(* the stamp of a check is read before it, so checks of two neighbouring   *)
(* windows overlap.  Weak-CAS spurious failures are stuttering steps.      *)
(***************************************************************************)
EXTENDS Integers

CONSTANTS
  Threads,       \* request threads
  MaxRequests,   \* max_requests
  WindowSecs,    \* window_secs
  MsPerSec,      \* milliseconds per second, 1000 in the code
  MaxMs          \* bound: the clock stops at this millisecond

ASSUME SlidingWindowAssumption ==
  /\ MaxRequests \in Nat
  /\ WindowSecs \in Nat \ {0}
  /\ MsPerSec \in Nat \ {0}
  /\ MaxMs \in Nat

VARIABLES
  currentWindow, currentCount, previousWindow, previousCount,
  clock,     \* monotonic clock, milliseconds
  pc,        \* pc[t]: the next atomic operation of t's check
  stamp,     \* stamp[t]: now_ms of t's check
  window,    \* window[t]: local `current`, the window t loaded
  weighed,   \* weighed[t]: local `previous_count`
  count,     \* count[t]: local `old`, then `current_count`
  granted,   \* history: granted[w], accepted requests stamped in window w
  overlapped \* history: a rotation has met another check in progress

shared == <<currentWindow, currentCount, previousWindow, previousCount>>
locals == <<stamp, window, weighed, count>>
vars == <<shared, clock, pc, locals, granted, overlapped>>

WindowMs == WindowSecs * MsPerSec

WindowOf(ms) == ms \div WindowMs

Elapsed(ms) == ms % WindowMs

Windows == 0 .. WindowOf(MaxMs)

(* effective <= limit, both scaled by the window size. *)
Fits(previous, current, ms) ==
  previous * (WindowMs - Elapsed(ms)) + (current + 1) * WindowMs
    <= MaxRequests * WindowMs

Operations == {"idle", "load", "rotate", "swap", "storeCount", "storeWindow",
               "readWindow", "readCount", "readCurrent", "loop"}

TypeOK ==
  /\ currentWindow \in Windows /\ previousWindow \in Windows
  /\ currentCount \in Nat /\ previousCount \in Nat
  /\ clock \in 0 .. MaxMs
  /\ pc \in [Threads -> Operations]
  /\ stamp \in [Threads -> 0 .. MaxMs]
  /\ window \in [Threads -> Windows]
  /\ weighed \in [Threads -> Nat]
  /\ count \in [Threads -> Nat]
  /\ granted \in [Windows -> Nat]
  /\ overlapped \in BOOLEAN

Init ==
  /\ currentWindow = 0 /\ currentCount = 0
  /\ previousWindow = 0 /\ previousCount = 0
  /\ clock = 0
  /\ pc = [t \in Threads |-> "idle"]
  /\ stamp = [t \in Threads |-> 0]
  /\ window = [t \in Threads |-> 0]
  /\ weighed = [t \in Threads |-> 0]
  /\ count = [t \in Threads |-> 0]
  /\ granted = [w \in Windows |-> 0]
  /\ overlapped = FALSE

Goto(t, from, to) ==
  /\ pc[t] = from
  /\ pc' = [pc EXCEPT ![t] = to]

(* consume reads the clock, then calls check. *)
Arrive(t) ==
  /\ Goto(t, "idle", "load")
  /\ stamp' = [stamp EXCEPT ![t] = clock]
  /\ UNCHANGED <<shared, clock, window, weighed, count, granted>>

LoadWindow(t) ==
  /\ Goto(t, "load", IF currentWindow = WindowOf(stamp[t]) THEN "readWindow"
                                                           ELSE "rotate")
  /\ window' = [window EXCEPT ![t] = currentWindow]
  /\ UNCHANGED <<shared, clock, stamp, weighed, count, granted>>

(* The compare-and-swap of current_window succeeds: t rotates. *)
Rotate(t) ==
  /\ Goto(t, "rotate", "swap")
  /\ currentWindow = window[t]
  /\ currentWindow' = WindowOf(stamp[t])
  /\ UNCHANGED <<currentCount, previousWindow, previousCount, clock, locals, granted>>

(* Another thread rotated first. *)
RotateLost(t) ==
  /\ Goto(t, "rotate", "readWindow")
  /\ currentWindow # window[t]
  /\ UNCHANGED <<shared, clock, locals, granted>>

SwapCount(t) ==
  /\ Goto(t, "swap", "storeCount")
  /\ count' = [count EXCEPT ![t] = currentCount]
  /\ currentCount' = 0
  /\ UNCHANGED <<currentWindow, previousWindow, previousCount, clock, stamp,
                 window, weighed, granted>>

StoreCount(t) ==
  /\ Goto(t, "storeCount", "storeWindow")
  /\ previousCount' = count[t]
  /\ UNCHANGED <<currentWindow, currentCount, previousWindow, clock, locals, granted>>

(* Slip: the new window is recorded as the previous one. *)
StoreWindowNew(t) ==
  /\ Goto(t, "storeWindow", "readWindow")
  /\ previousWindow' = WindowOf(stamp[t])
  /\ UNCHANGED <<currentWindow, currentCount, previousCount, clock, locals, granted>>

StoreWindow(t) ==
  /\ Goto(t, "storeWindow", "readWindow")
  /\ previousWindow' = window[t]
  /\ UNCHANGED <<currentWindow, currentCount, previousCount, clock, locals, granted>>

(* Only the window just before the stamp's weighs in. *)
ReadPreviousWindow(t) ==
  LET adjacent == previousWindow + 1 = WindowOf(stamp[t])
  IN  /\ Goto(t, "readWindow", IF adjacent THEN "readCount" ELSE "readCurrent")
      /\ weighed' = IF adjacent THEN weighed ELSE [weighed EXCEPT ![t] = 0]
      /\ UNCHANGED <<shared, clock, stamp, window, count, granted>>

ReadPreviousCount(t) ==
  /\ Goto(t, "readCount", "readCurrent")
  /\ weighed' = [weighed EXCEPT ![t] = previousCount]
  /\ UNCHANGED <<shared, clock, stamp, window, count, granted>>

ReadCurrentCount(t) ==
  /\ Goto(t, "readCurrent", "loop")
  /\ count' = [count EXCEPT ![t] = currentCount]
  /\ UNCHANGED <<shared, clock, stamp, window, weighed, granted>>

(* check returns: its locals go out of scope. *)
Return(t) ==
  /\ Goto(t, "loop", "idle")
  /\ stamp' = [stamp EXCEPT ![t] = 0]
  /\ window' = [window EXCEPT ![t] = 0]
  /\ weighed' = [weighed EXCEPT ![t] = 0]
  /\ count' = [count EXCEPT ![t] = 0]

Reject(t) ==
  /\ Return(t)
  /\ ~Fits(weighed[t], count[t], stamp[t])
  /\ UNCHANGED <<shared, clock, granted>>

(* The compare-and-swap of current_count succeeds. *)
Accept(t) ==
  /\ Return(t)
  /\ Fits(weighed[t], count[t], stamp[t])
  /\ currentCount = count[t]
  /\ currentCount' = count[t] + 1
  /\ granted' = [granted EXCEPT ![WindowOf(stamp[t])] = @ + 1]
  /\ UNCHANGED <<currentWindow, previousWindow, previousCount, clock>>

Retry(t) ==
  /\ pc[t] = "loop"
  /\ Fits(weighed[t], count[t], stamp[t])
  /\ currentCount # count[t]
  /\ count' = [count EXCEPT ![t] = currentCount]
  /\ UNCHANGED <<shared, clock, pc, stamp, window, weighed, granted>>

Tick ==
  /\ clock < MaxMs
  /\ clock' = clock + 1
  /\ UNCHANGED <<shared, pc, locals, granted>>

Check(t) ==
  \/ LoadWindow(t)
  \/ Rotate(t) \/ RotateLost(t) \/ SwapCount(t) \/ StoreCount(t) \/ StoreWindow(t)
  \/ ReadPreviousWindow(t) \/ ReadPreviousCount(t) \/ ReadCurrentCount(t)
  \/ Reject(t) \/ Accept(t) \/ Retry(t)

(* A thread between its compare-and-swap of current_window and its last    *)
(* store while another thread is anywhere inside check.                    *)
RotationOverlaps ==
  \E t \in Threads : /\ pc[t] \in {"swap", "storeCount", "storeWindow"}
                     /\ \E u \in Threads \ {t} : pc[u] # "idle"

Next ==
  /\ Tick \/ \E t \in Threads : Arrive(t) \/ Check(t)
  /\ overlapped' = (overlapped \/ RotationOverlaps')

Spec == Init /\ [][Next]_vars
-----------------------------------------------------------------------------
(* What the window of a stamp and the one before have really let through.  *)
Accepted(ms) ==
  [current |-> granted[WindowOf(ms)],
   previous |-> IF WindowOf(ms) = 0 THEN 0 ELSE granted[WindowOf(ms) - 1]]

(* The promise of the algorithm (sliding_window.rs:11-16), as long as no   *)
(* rotation has met another check, checks of one window interleaving       *)
(* freely: a request is accepted exactly when what its window and, by its  *)
(* weight, the window before really let through leaves room for it.        *)
SlidingPromise ==
  [][\A t \in Threads :
       LET real == Accepted(stamp[t])
           room == Fits(real.previous, real.current, stamp[t])
       IN  ~overlapped => (Accept(t) => room) /\ (Reject(t) => ~room)]_vars
=============================================================================
