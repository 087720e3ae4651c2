----------------------------- MODULE MCSWTimer -----------------------------
(* Two timers, a resolution of two units, timeouts before boot, in the     *)
(* past, on and between the steps of the clock.                            *)
EXTENDS SWTimer, TLC

CONSTANTS t1, t2

MCTimers == {t1, t2}
MCTimeouts == {-1, 1, 2, 5}
=============================================================================
