--------------------------- MODULE MCTimerContext ---------------------------
(* Two timers with delays up to two ticks and a slice of one tick: equal   *)
(* and different deadlines, a deadline beyond one slice, a negative delay, *)
(* and one the clock cannot hold, and every overlap of a delivery with a   *)
(* stop request and a destructor.                                          *)
EXTENDS TimerContext, TLC

TheDelays == {-1, 2, 9}

Symmetry == Permutations(Ops)

(* The worker never sleeps past a deadline, nor fires before it, however   *)
(* far the delay is beyond the clock, and when ~__op has returned no other *)
(* thread touches the operation.                                           *)
TimersExact == NeverOversleeps /\ DestroyIsBarrier
=============================================================================
