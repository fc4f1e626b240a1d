------------------------------ MODULE MCTimers -------------------------------
(* Two timers, called twice or for ever; a callback may sleep.     *)
EXTENDS Timers

MCRepeats == {2, Forever}
=============================================================================
