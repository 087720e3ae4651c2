---------------------------- MODULE Timekeeping ----------------------------
(***************************************************************************)
(* How long the processor is busy: the main loop keeps a WorkingTime while *)
(* it handles a message, the interrupts of the timer, the USB and the DMA  *)
(* an ISRTime, whose time is taken off the WorkingTime that it interrupts  *)
(* by moving its start; those of the I2C and of the pins keep none.        *)
(* ISRTime locks, WorkingTime does not: an interrupt may come between its  *)
(* reading of the clock and the change of current.  They do not nest.      *)
(***************************************************************************)
EXTENDS Naturals

CONSTANT MaxTime   \* bound of the clock

VARIABLES
  now,
  work,               \* of the main loop: "loop", "begun", "busy", "ended"
  current, startTime, \* WorkingTime, the latter also if it is not yet current
  inISR, isrStart,    \* ISRTime
  inOther,            \* in an interrupt that keeps none
  timeSpentBusy, timeSpentInISRs,
  worked, interrupted, blurred  \* history: ticks of the main loop's work, of
                                \* ISRTimes, and of interrupts taken for work

totals == <<timeSpentBusy, timeSpentInISRs>>
history == <<worked, interrupted, blurred>>
vars == <<now, work, current, startTime, inISR, isrStart, inOther, totals, history>>

Init ==
  /\ now = 0 /\ work = "loop" /\ current = FALSE /\ startTime = 0
  /\ inISR = FALSE /\ isrStart = 0 /\ inOther = FALSE
  /\ timeSpentBusy = 0 /\ timeSpentInISRs = 0
  /\ worked = 0 /\ interrupted = 0 /\ blurred = 0

InMainLoop == ~inISR /\ ~inOther

(* An interrupt whose time is part of a WorkingTime's. *)
TakenForWork ==
  \/ inISR /\ work \in {"begun", "ended"}
  \/ inOther /\ work # "loop"

(* The time goes on, and with it the account of who runs.                  *)
Tick ==
  /\ now < MaxTime
  /\ now' = now + 1
  /\ interrupted' = interrupted + (IF inISR THEN 1 ELSE 0)
  /\ worked' = worked + (IF InMainLoop /\ work # "loop" THEN 1 ELSE 0)
  /\ blurred' = blurred + (IF TakenForWork THEN 1 ELSE 0)
  /\ UNCHANGED <<work, current, startTime, inISR, isrStart, inOther, totals>>

(* WorkingTime's constructor and destructor, two steps each.               *)
Begin ==
  /\ InMainLoop /\ work = "loop"
  /\ work' = "begun" /\ startTime' = now
  /\ UNCHANGED <<now, current, inISR, isrStart, inOther, totals, history>>

BecomesCurrent ==
  /\ InMainLoop /\ work = "begun"
  /\ work' = "busy" /\ current' = TRUE
  /\ UNCHANGED <<now, startTime, inISR, isrStart, inOther, totals, history>>

End ==
  /\ InMainLoop /\ work = "busy"
  /\ work' = "ended" /\ current' = FALSE
  /\ UNCHANGED <<now, startTime, inISR, isrStart, inOther, totals, history>>

Account ==
  /\ InMainLoop /\ work = "ended"
  /\ work' = "loop" /\ timeSpentBusy' = timeSpentBusy + (now - startTime)
  /\ UNCHANGED <<now, current, startTime, inISR, isrStart, inOther, timeSpentInISRs, history>>

(* ISRTime's constructor and destructor. *)
Enter ==
  /\ InMainLoop
  /\ inISR' = TRUE /\ isrStart' = now
  /\ UNCHANGED <<now, work, current, startTime, inOther, totals, history>>

(* Faulty variant: the interrupted work keeps its start. *)
LeaveStartKept ==
  /\ inISR
  /\ inISR' = FALSE
  /\ timeSpentInISRs' = timeSpentInISRs + (now - isrStart)
  /\ UNCHANGED <<now, work, current, startTime, isrStart, inOther, timeSpentBusy, history>>

Leave ==
  /\ inISR
  /\ inISR' = FALSE
  /\ timeSpentInISRs' = timeSpentInISRs + (now - isrStart)
  /\ startTime' = IF current THEN startTime + (now - isrStart) ELSE startTime
  /\ UNCHANGED <<now, work, current, isrStart, inOther, timeSpentBusy, history>>

(* An interrupt without an ISRTime: i2c_irq or gpio_callback.              *)
EnterOther ==
  /\ InMainLoop
  /\ inOther' = TRUE
  /\ UNCHANGED <<now, work, current, startTime, inISR, isrStart, totals, history>>

LeaveOther ==
  /\ inOther
  /\ inOther' = FALSE
  /\ UNCHANGED <<now, work, current, startTime, inISR, isrStart, totals, history>>

Next ==
  \/ Tick \/ Begin \/ BecomesCurrent \/ End \/ Account
  \/ Enter \/ Leave \/ EnterOther \/ LeaveOther

Spec == Init /\ [][Next]_vars

-----------------------------------------------------------------------------
(* Properties. *)

(* The one total is the time of the interrupts with an ISRTime, the other  *)
(* that of the main loop's work and of the interrupts taken for it: those  *)
(* in the gaps of WorkingTime, counted in both, and those without an       *)
(* ISRTime that come during work, which are lost when they come at other   *)
(* times.  Each holds as soon as what is going on is accounted for.        *)
TimesAddUp ==
  /\ interrupted = timeSpentInISRs + (IF inISR THEN now - isrStart ELSE 0)
  /\ worked + blurred = timeSpentBusy +
       (IF work = "loop" THEN 0
        ELSE (IF inISR /\ current THEN isrStart ELSE now) - startTime)
=============================================================================
