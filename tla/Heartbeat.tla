----------------------------- MODULE Heartbeat -----------------------------
(***************************************************************************)
(* The heartbeat: a coroutine that shows one colour after the other.  It   *)
(* is resumed by the timer's interrupt, goes on in thread mode by a        *)
(* message, which may have to wait for the main loop, and sets the timer   *)
(* to the end of the colour's own time, which may be over already.         *)
(*                                                                         *)
(* co_await sw2main in thread mode does nothing here, at the start and     *)
(* when the timer has fired before the coroutine waits for it;             *)
(* usbcom_switch shows what it does.                                       *)
(***************************************************************************)
EXTENDS Naturals, Sequences

CONSTANTS
  Delays,                 \* of heartBeatSequence; its steps stand for the colours
  MaxSteps, MaxWait       \* bounds: colours shown, how long one may be late

VARIABLES
  coro,          \* "switch", "beat", "await", "delay" or "posted"
  elapsed,       \* timer_ticker has a value
  nextTimeout, running,   \* the timer, and whether it is set
  time,
  shown,         \* history: the colours shown, with when and how late
  late           \* history: ticks since the next colour was due

vars == <<coro, elapsed, nextTimeout, running, time, shown, late>>

Init ==
  /\ coro = "switch" /\ elapsed = FALSE
  /\ nextTimeout = 0 /\ running = FALSE
  /\ time = 0 /\ shown = << >> /\ late = 0

(* The step of the sequence that is next, from one. *)
Step == (Len(shown) % Len(Delays)) + 1

Due == time >= nextTimeout

Tick ==
  /\ late < MaxWait
  /\ time' = time + 1
  /\ late' = IF Due THEN late + 1 ELSE late
  /\ UNCHANGED <<coro, elapsed, nextTimeout, running, shown>>

(* co_await sw2main in thread mode. *)
GoesOn ==
  /\ coro = "switch" /\ coro' = "beat"
  /\ UNCHANGED <<elapsed, nextTimeout, running, time, shown, late>>

Trampoline ==
  /\ coro = "posted" /\ coro' = "beat"
  /\ UNCHANGED <<elapsed, nextTimeout, running, time, shown, late>>

Show == shown' = Append(shown, [step |-> Step, at |-> time, late |-> late])

(* Faulty variant: the colour's time begins when it is shown. *)
BeatFromNow ==
  /\ coro = "beat" /\ Len(shown) < MaxSteps
  /\ Show /\ late' = 0
  /\ nextTimeout' = time + Delays[Step] /\ running' = TRUE
  /\ coro' = "await"
  /\ UNCHANGED <<elapsed, time>>

Beat ==
  /\ coro = "beat" /\ Len(shown) < MaxSteps
  /\ Show /\ late' = 0
  /\ nextTimeout' = nextTimeout + Delays[Step] /\ running' = TRUE
  /\ coro' = "await"
  /\ UNCHANGED <<elapsed, time>>

(* The timer's interrupt. *)
Alarm ==
  /\ running /\ Due /\ running' = FALSE
  /\ \/ coro = "delay" /\ coro' = "posted" /\ UNCHANGED elapsed
     \/ coro = "await" /\ elapsed' = TRUE /\ UNCHANGED coro
  /\ UNCHANGED <<nextTimeout, time, shown, late>>

(* co_await timer_ticker *)
Await ==
  /\ coro = "await"
  /\ coro' = IF elapsed THEN "switch" ELSE "delay"
  /\ elapsed' = FALSE
  /\ UNCHANGED <<nextTimeout, running, time, shown, late>>

Next == Tick \/ GoesOn \/ Trampoline \/ Beat \/ Alarm \/ Await

Spec == Init /\ [][Next]_vars

-----------------------------------------------------------------------------
(* Properties. *)

(* When step k is due, from the delays of all steps before it. *)
DueAt(k) ==
  LET Sum[j \in 1..k] ==
        IF j = 1 THEN 0 ELSE Sum[j - 1] + Delays[((j - 2) % Len(Delays)) + 1]
  IN Sum[k]

Later(a, b) == IF a > b THEN a ELSE b

(* The heartbeat does not drift: no colour is skipped or shown early, and  *)
(* one that is late has waited itself; its predecessor's delay is made up  *)
(* for.  The coroutine never waits for a timer that does not run.          *)
BeatKeepsTime ==
  /\ \A k \in 1..Len(shown) :
       /\ shown[k].step = ((k - 1) % Len(Delays)) + 1
       /\ shown[k].at = shown[k].late +
            (IF k = 1 THEN 0 ELSE Later(DueAt(k), shown[k - 1].at))
  /\ coro = "delay" => running /\ ~elapsed
=============================================================================
