---------------------------- MODULE MCTimerQueue ----------------------------
(* Instances of TimerQueue for TLC. *)
EXTENDS TimerQueue

\* The wall clock steps back by one unit; Tick takes it forward again.
Back == {-1}

=============================================================================
