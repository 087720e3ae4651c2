------------------------------ MODULE SWTimer ------------------------------
(***************************************************************************)
(* The software timers of cranc on top of one hardware alarm.              *)
(*                                                                         *)
(* Timers are started and stopped from thread mode, with interrupts locked *)
(* out, and from timer callbacks.  The alarm interrupt walks the timers    *)
(* and calls those that are due; thread mode does not run meanwhile, time  *)
(* does.  A timer started during the walk is put in front of the walk's    *)
(* position, so it is not visited by it, and a stopped one leaves it.  The *)
(* position is therefore modelled by the set of timers not visited yet;    *)
(* the order of the list only decides which of several due timers is       *)
(* called first, and the model allows every order.                         *)
(*                                                                         *)
(* Times are integers in units finer than the resolution of the hardware   *)
(* timer (nanoseconds and microseconds in the code).                       *)
(***************************************************************************)
EXTENDS Integers, FiniteSets

CONSTANTS
  Timers,   \* the Timer objects
  Timeouts, \* absolute timeouts a client may ask for
  Delays,   \* periods a client may ask for, 0 for a one-shot timer
  Res,      \* time units per step of the hardware timer
  MaxTime,  \* bound: the clock stops here
  None      \* no alarm; no timer

ASSUME TimerAssumption ==
  /\ Timeouts \subseteq Int
  /\ Delays \subseteq Nat
  /\ Res \in Nat \ {0}
  /\ MaxTime \in Nat
  /\ None \notin Int \cup Timers

VARIABLES
  now,       \* getSystemTime()
  linked,    \* mTimers: the timers that run
  timeout,   \* Timer::mTimeout
  delay,     \* Timer::mDelay
  alarm,     \* time of the pending hardware alarm
  pc,        \* "idle", "scan" (in trigger) or "callback" (in a timer's mCB)
  snap,      \* the constant now of trigger
  unvisited, \* timers the walk in trigger has yet to look at
  running,   \* the timer whose callback runs
  origin,    \* history: the timeout the timer was started with
  total      \* history: sum of the elapsed arguments since then

vars == <<now, linked, timeout, delay, alarm, pc, snap, unvisited, running,
          origin, total>>

(* HWTimer::setup: the alarm has the resolution of the hardware timer and  *)
(* is never before boot.                                                   *)
Truncate(t) == IF t < 0 THEN 0 ELSE (t \div Res) * Res

(* Faulty variant: the alarm goes to the latest timeout. *)
SetupTimerLatest(active, ts, to) ==
  \/ active /\ UNCHANGED alarm
  \/ ~active /\ ts = {} /\ alarm' = None
  \/ /\ ~active
     /\ \E m \in ts : /\ \A t \in ts : to[m] >= to[t]
                      /\ alarm' = Truncate(to[m])

(* setupTimer: rearm the alarm for the earliest timeout, but not while the *)
(* walk of trigger is under way.                                           *)
SetupTimer(active, ts, to) ==
  \/ active /\ UNCHANGED alarm
  \/ ~active /\ ts = {} /\ alarm' = None
  \/ /\ ~active
     /\ \E m \in ts : /\ \A t \in ts : to[m] <= to[t]
                      /\ alarm' = Truncate(to[m])

Init ==
  /\ now = 0
  /\ linked = {}
  /\ timeout = [t \in Timers |-> 0]
  /\ delay = [t \in Timers |-> 0]
  /\ alarm = None
  /\ pc = "idle"
  /\ snap = 0
  /\ unvisited = {}
  /\ running = None
  /\ origin = [t \in Timers |-> 0]
  /\ total = [t \in Timers |-> 0]

-----------------------------------------------------------------------------
(* Clients: thread mode when pc = "idle", a callback when pc = "callback". *)

ClientRuns == pc \in {"idle", "callback"}

(* Timer::start; registerTimer asserts that the timer is not running.      *)
Start(t, to, d) ==
  /\ ClientRuns
  /\ t \notin linked
  /\ timeout' = [timeout EXCEPT ![t] = to]
  /\ delay' = [delay EXCEPT ![t] = d]
  /\ linked' = linked \cup {t}
  /\ SetupTimer(pc = "callback", linked', timeout')
  /\ origin' = [origin EXCEPT ![t] = to]
  /\ total' = [total EXCEPT ![t] = 0]
  /\ UNCHANGED <<now, pc, snap, unvisited, running>>

(* Timer::stop of a running timer, also from the destructor. *)
Stop(t) ==
  /\ ClientRuns
  /\ t \in linked
  /\ linked' = linked \ {t}
  /\ unvisited' = unvisited \ {t}
  /\ SetupTimer(pc = "callback", linked', timeout)
  /\ UNCHANGED <<now, timeout, delay, pc, snap, running, origin, total>>

-----------------------------------------------------------------------------
(* The hardware. *)

Tick ==
  /\ now + Res <= MaxTime
  /\ now' = now + Res
  /\ UNCHANGED <<linked, timeout, delay, alarm, pc, snap, unvisited, running,
                 origin, total>>

-----------------------------------------------------------------------------
(* SWTimer::trigger, called by the alarm interrupt. *)

Trigger ==
  /\ pc = "idle"
  /\ alarm # None
  /\ now >= alarm
  /\ alarm' = None
  /\ pc' = "scan"
  /\ snap' = now
  /\ unvisited' = linked
  /\ UNCHANGED <<now, linked, timeout, delay, running, origin, total>>

VisitNotDue(t) ==
  /\ pc = "scan"
  /\ t \in unvisited
  /\ snap <= timeout[t]
  /\ unvisited' = unvisited \ {t}
  /\ UNCHANGED <<now, linked, timeout, delay, alarm, pc, snap, running,
                 origin, total>>

(* A one-shot timer leaves the list before its callback runs.              *)
VisitOneShot(t) ==
  /\ pc = "scan"
  /\ t \in unvisited
  /\ snap > timeout[t]
  /\ delay[t] <= 0
  /\ linked' = linked \ {t}
  /\ unvisited' = unvisited \ {t}
  /\ total' = [total EXCEPT ![t] = @ + 1]
  /\ running' = t
  /\ pc' = "callback"
  /\ UNCHANGED <<now, timeout, delay, alarm, snap, origin>>

(* Faulty variant: only whole periods after the timeout count. *)
ElapsedOneLess(t) == (snap - timeout[t]) \div delay[t]

Elapsed(t) == 1 + (snap - timeout[t]) \div delay[t]

(* A periodic timer is moved past the present; its callback is told how    *)
(* many periods have elapsed.                                              *)
VisitPeriodic(t) ==
  /\ pc = "scan"
  /\ t \in unvisited
  /\ snap > timeout[t]
  /\ delay[t] > 0
  /\ timeout' = [timeout EXCEPT ![t] = @ + Elapsed(t) * delay[t]]
  /\ unvisited' = unvisited \ {t}
  /\ total' = [total EXCEPT ![t] = @ + Elapsed(t)]
  /\ running' = t
  /\ pc' = "callback"
  /\ UNCHANGED <<now, linked, delay, alarm, snap, origin>>

CallbackReturns ==
  /\ pc = "callback"
  /\ pc' = "scan"
  /\ running' = None
  /\ UNCHANGED <<now, linked, timeout, delay, alarm, snap, unvisited, origin,
                 total>>

(* Faulty variant: the alarm is not rearmed after the walk. *)
TriggerReturnsUnarmed ==
  /\ pc = "scan"
  /\ unvisited = {}
  /\ pc' = "idle"
  /\ UNCHANGED <<now, linked, timeout, delay, alarm, snap, unvisited, running,
                 origin, total>>

TriggerReturns ==
  /\ pc = "scan"
  /\ unvisited = {}
  /\ pc' = "idle"
  /\ SetupTimer(FALSE, linked, timeout)
  /\ UNCHANGED <<now, linked, timeout, delay, snap, unvisited, running,
                 origin, total>>

Visit(t) == VisitNotDue(t) \/ VisitOneShot(t) \/ VisitPeriodic(t)

Handler ==
  \/ Trigger
  \/ \E t \in Timers : Visit(t)
  \/ CallbackReturns
  \/ TriggerReturns

Client ==
  \/ \E t \in Timers, to \in Timeouts, d \in Delays : Start(t, to, d)
  \/ \E t \in Timers : Stop(t)

Next == Client \/ Tick \/ Handler

Spec == Init /\ [][Next]_vars

(* The clock runs; a due alarm interrupts thread mode; the handler runs to *)
(* its end provided the callbacks return.                                  *)
Fairness ==
  /\ WF_vars(Tick)
  /\ WF_vars(Trigger)
  /\ WF_vars(\E t \in Timers : Visit(t))
  /\ WF_vars(CallbackReturns)
  /\ WF_vars(TriggerReturns)

FairSpec == Spec /\ Fairness

-----------------------------------------------------------------------------
(* Properties. *)

(* Every variable has its type; the alarm is never before boot.            *)
TypeOK ==
  /\ now \in Nat
  /\ linked \in SUBSET Timers
  /\ timeout \in [Timers -> Int]
  /\ delay \in [Timers -> Nat]
  /\ alarm \in Nat \cup {None}
  /\ pc \in {"idle", "scan", "callback"}
  /\ snap \in Nat
  /\ unvisited \in SUBSET Timers
  /\ running \in Timers \cup {None}
  /\ origin \in [Timers -> Int]
  /\ total \in [Timers -> Nat]

(* Whenever thread mode runs, the alarm is armed so that no running timer  *)
(* is missed: it is pending exactly if a timer runs, and it is not later   *)
(* than any timeout (or the past).  The handler suppresses rearming while  *)
(* callbacks start and stop timers, and makes up for it at its end.        *)
AlarmArmed ==
  pc = "idle" =>
    /\ alarm = None <=> linked = {}
    /\ \A t \in linked : alarm <= timeout[t] \/ alarm = 0

(* A periodic timer keeps its phase: its next timeout lies a whole number  *)
(* of periods after the one it was started with, however late the handler  *)
(* was.                                                                    *)
PhaseKept ==
  \A t \in linked : timeout[t] = origin[t] + total[t] * delay[t]

PeriodsOver(t) == {k \in 0..(snap - origin[t]) :
                     origin[t] + k * delay[t] <= snap}

(* When a callback is called, the elapsed arguments since the start add up *)
(* to the number of periods that are over: none is lost, none is counted   *)
(* twice and none early.                                                   *)
CountsPeriods ==
  [][\A t \in Timers :
       running' = t /\ running # t =>
         /\ snap > origin[t]
         /\ total'[t] = IF delay[t] = 0 THEN 1
                        ELSE Cardinality(PeriodsOver(t))]_vars

(* A running timer whose timeout comes is called unless it is stopped.     *)
FiresEventually ==
  \A t \in Timers :
    (t \in linked /\ timeout[t] < MaxTime) ~> (running = t \/ t \notin linked)
-----------------------------------------------------------------------------
(* The inductive invariant of the proofs. What the walk has yet to look at *)
(* is in the list, which is how the walk is represented; that the code's   *)
(* iterator keeps to it is what LinkedList is about.                       *)
WalkInList == unvisited \subseteq linked

IInv ==
  /\ TypeOK
  /\ AlarmArmed
  /\ WalkInList
  /\ PhaseKept
=============================================================================
