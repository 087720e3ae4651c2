---------------------------- MODULE SWTimerProofs ----------------------------
(***************************************************************************)
(* Proofs about the software timers, for any timers, timeouts, periods and *)
(* resolution of the hardware timer.                                       *)
(***************************************************************************)
EXTENDS SWTimer, FiniteSetTheorems, TLAPS

LEMMA DivisionFloors ==
  ASSUME NEW a \in Int, NEW b \in Nat \ {0}
  PROVE  /\ a \div b \in Int
         /\ (a \div b) * b \in Int
         /\ (a \div b) * b <= a
         /\ a >= 0 => a \div b \in Nat /\ (a \div b) * b \in Nat
OBVIOUS

LEMMA TruncateFloors ==
  ASSUME NEW t \in Int
  PROVE  /\ Truncate(t) \in Nat
         /\ Truncate(t) <= t \/ Truncate(t) = 0
BY DivisionFloors, TimerAssumption DEF Truncate

(* What setupTimer leaves behind when it is not suppressed.                *)
LEMMA SetupArms ==
  ASSUME NEW ts \in SUBSET Timers, NEW to \in [Timers -> Int],
         SetupTimer(FALSE, ts, to)
  PROVE  /\ alarm' \in Nat \cup {None}
         /\ alarm' = None <=> ts = {}
         /\ \A t \in ts : alarm' <= to[t] \/ alarm' = 0
<1>1. CASE ts = {}
  BY <1>1 DEF SetupTimer
<1>2. CASE ts # {}
  <2>1. PICK m \in ts : /\ \A t \in ts : to[m] <= to[t]
                        /\ alarm' = Truncate(to[m])
    BY <1>2 DEF SetupTimer
  <2>2. /\ alarm' \in Nat
        /\ alarm' <= to[m] \/ alarm' = 0
    BY <2>1, TruncateFloors
  <2>3. \A t \in ts : alarm' <= to[t] \/ alarm' = 0
    BY <2>1, <2>2
  <2>4. alarm' # None
    BY <2>2, TimerAssumption
  <2>5. QED
    BY <1>2, <2>2, <2>3, <2>4
<1>3. QED
  BY <1>1, <1>2

LEMMA InitIInv == Init => IInv
BY TimerAssumption DEF Init, IInv, TypeOK, AlarmArmed, WalkInList,
                       PhaseKept

LEMMA StartStep ==
  ASSUME IInv, NEW t \in Timers, NEW to \in Timeouts, NEW d \in Delays,
         Start(t, to, d)
  PROVE  IInv'
<1> USE DEF IInv
<1>1. /\ linked' \in SUBSET Timers
      /\ timeout' \in [Timers -> Int]
      /\ delay' \in [Timers -> Nat]
      /\ origin' \in [Timers -> Int]
      /\ total' \in [Timers -> Nat]
  BY TimerAssumption DEF Start, TypeOK
<1>2. CASE pc = "idle"
  <2>1. SetupTimer(FALSE, linked', timeout')
    BY <1>2 DEF Start
  <2>2. /\ alarm' \in Nat \cup {None}
        /\ alarm' = None <=> linked' = {}
        /\ \A u \in linked' : alarm' <= timeout'[u] \/ alarm' = 0
    BY <1>1, <2>1, SetupArms
  <2>3. TypeOK'
    BY <1>1, <2>2 DEF Start, TypeOK
  <2>4. AlarmArmed'
    BY <2>2 DEF AlarmArmed
  <2>5. QED
    BY <1>1, <2>3, <2>4, TimerAssumption
       DEF Start, TypeOK, WalkInList, PhaseKept
<1>3. CASE pc = "callback"
  <2>1. UNCHANGED alarm
    BY <1>3 DEF Start, SetupTimer
  <2>2. TypeOK' /\ AlarmArmed'
    BY <1>1, <1>3, <2>1 DEF Start, TypeOK, AlarmArmed
  <2>3. QED
    BY <1>1, <2>2, TimerAssumption
       DEF Start, TypeOK, WalkInList, PhaseKept
<1>4. QED
  BY <1>2, <1>3 DEF Start, ClientRuns

LEMMA StopStep ==
  ASSUME IInv, NEW t \in Timers, Stop(t)
  PROVE  IInv'
<1> USE DEF IInv
<1>1. linked' \in SUBSET Timers /\ timeout' = timeout /\ pc' = pc
  BY DEF Stop, TypeOK
<1>2. WalkInList' /\ PhaseKept'
  BY DEF Stop, WalkInList, PhaseKept
<1>3. CASE pc = "idle"
  <2>1. SetupTimer(FALSE, linked', timeout)
    BY <1>3 DEF Stop
  <2>2. /\ alarm' \in Nat \cup {None}
        /\ alarm' = None <=> linked' = {}
        /\ \A u \in linked' : alarm' <= timeout[u] \/ alarm' = 0
    BY <1>1, <2>1, SetupArms DEF TypeOK
  <2>3. TypeOK' /\ AlarmArmed'
    BY <1>1, <2>2 DEF Stop, TypeOK, AlarmArmed
  <2>4. QED
    BY <1>2, <2>3
<1>4. CASE pc = "callback"
  <2>1. UNCHANGED alarm
    BY <1>4 DEF Stop, SetupTimer
  <2>2. TypeOK' /\ AlarmArmed'
    BY <1>1, <1>4, <2>1 DEF Stop, TypeOK, AlarmArmed
  <2>3. QED
    BY <1>2, <2>2
<1>5. QED
  BY <1>3, <1>4 DEF Stop, ClientRuns

(* Moving the timeout by whole periods keeps the phase.                    *)
LEMMA VisitPeriodicStep ==
  ASSUME IInv, NEW t \in Timers, VisitPeriodic(t)
  PROVE  IInv'
<1> USE DEF IInv
<1> DEFINE e == Elapsed(t)
<1>1. /\ delay[t] \in Nat \ {0} /\ timeout[t] \in Int /\ snap \in Nat
      /\ snap - timeout[t] \in Nat /\ total[t] \in Nat /\ origin[t] \in Int
  BY DEF VisitPeriodic, TypeOK
<1>2. e \in Nat
  BY <1>1, DivisionFloors DEF Elapsed
<1> HIDE DEF e
<1>3. /\ timeout' = [timeout EXCEPT ![t] = timeout[t] + e * delay[t]]
      /\ total' = [total EXCEPT ![t] = total[t] + e]
  BY DEF VisitPeriodic, e
<1>4. e * delay[t] \in Nat
  BY <1>1, <1>2
<1>5. TypeOK'
  BY <1>1, <1>2, <1>3, <1>4 DEF VisitPeriodic, TypeOK
<1>6. AlarmArmed' /\ WalkInList'
  BY DEF VisitPeriodic, AlarmArmed, WalkInList
<1>7. PhaseKept'
  <2>1. t \in linked =>
          timeout'[t] = origin[t] + (total[t] * delay[t]) + e * delay[t]
    BY <1>1, <1>3, <1>4 DEF PhaseKept, TypeOK
  <2>2. (total[t] * delay[t]) + e * delay[t] = (total[t] + e) * delay[t]
    BY <1>1, <1>2
  <2>3. total[t] * delay[t] \in Int
    BY <1>1
  <2>4. t \in linked => timeout'[t] = origin[t] + total'[t] * delay[t]
    BY <1>1, <1>3, <1>4, <2>1, <2>2, <2>3 DEF TypeOK
  <2>5. \A u \in linked : u # t =>
          timeout'[u] = origin[u] + total'[u] * delay[u]
    BY <1>3 DEF PhaseKept, TypeOK
  <2>6. QED
    BY <2>4, <2>5 DEF VisitPeriodic, PhaseKept
<1>8. QED
  BY <1>5, <1>6, <1>7

(* The remaining steps of the handler, and the clock.                      *)
LEMMA HandlerStep ==
  ASSUME IInv, Tick \/ Trigger \/ CallbackReturns \/ TriggerReturns
  PROVE  IInv'
<1> USE DEF IInv
<1>1. CASE Tick
  BY <1>1, TimerAssumption
     DEF Tick, TypeOK, AlarmArmed, WalkInList, PhaseKept
<1>2. CASE Trigger
  BY <1>2 DEF Trigger, TypeOK, AlarmArmed, WalkInList, PhaseKept
<1>3. CASE CallbackReturns
  BY <1>3 DEF CallbackReturns, TypeOK, AlarmArmed, WalkInList,
              PhaseKept
<1>4. CASE TriggerReturns
  <2>1. /\ alarm' \in Nat \cup {None}
        /\ alarm' = None <=> linked = {}
        /\ \A t \in linked : alarm' <= timeout[t] \/ alarm' = 0
    BY <1>4, SetupArms DEF TriggerReturns, TypeOK
  <2>2. TypeOK' /\ AlarmArmed'
    BY <1>4, <2>1 DEF TriggerReturns, TypeOK, AlarmArmed
  <2>3. QED
    BY <1>4, <2>2 DEF TriggerReturns, WalkInList, PhaseKept
<1>5. QED
  BY <1>1, <1>2, <1>3, <1>4

LEMMA VisitStep ==
  ASSUME IInv, NEW t \in Timers, Visit(t)
  PROVE  IInv'
<1> USE DEF IInv
<1>1. CASE VisitNotDue(t)
  BY <1>1 DEF VisitNotDue, TypeOK, AlarmArmed, WalkInList, PhaseKept
<1>2. CASE VisitOneShot(t)
  BY <1>2 DEF VisitOneShot, TypeOK, AlarmArmed, WalkInList, PhaseKept
<1>3. CASE VisitPeriodic(t)
  BY <1>3, VisitPeriodicStep
<1>4. QED
  BY <1>1, <1>2, <1>3 DEF Visit

LEMMA NextIInv == IInv /\ [Next]_vars => IInv'
<1> SUFFICES ASSUME IInv, [Next]_vars PROVE IInv'
  OBVIOUS
<1>1. CASE UNCHANGED vars
  BY <1>1 DEF vars, IInv, TypeOK, AlarmArmed, WalkInList, PhaseKept
<1>2. CASE Client
  BY <1>2, StartStep, StopStep DEF Client
<1>3. CASE Tick \/ Handler
  BY <1>3, HandlerStep, VisitStep DEF Handler
<1>4. QED
  BY <1>1, <1>2, <1>3 DEF Next

(* A one-shot timer that runs has not been called since it was started.    *)
OneShotsAreNew == \A t \in linked : delay[t] = 0 => total[t] = 0

LEMMA OneShotsInit == Init => OneShotsAreNew
BY DEF Init, OneShotsAreNew

LEMMA OneShotsStep == IInv /\ OneShotsAreNew /\ [Next]_vars => OneShotsAreNew'
<1> SUFFICES ASSUME IInv, OneShotsAreNew, [Next]_vars PROVE OneShotsAreNew'
  OBVIOUS
<1> USE DEF OneShotsAreNew
<1>1. TypeOK
  BY DEF IInv
<1>2. ASSUME NEW t \in Timers, NEW to \in Timeouts, NEW d \in Delays, Start(t, to, d)
      PROVE  OneShotsAreNew'
  BY <1>1, <1>2 DEF Start, TypeOK
<1>3. ASSUME NEW t \in Timers, Stop(t) PROVE OneShotsAreNew'
  BY <1>3 DEF Stop
<1>4. ASSUME NEW t \in Timers, Visit(t) PROVE OneShotsAreNew'
  <2>1. CASE VisitNotDue(t)
    BY <2>1 DEF VisitNotDue
  <2>2. CASE VisitOneShot(t)
    BY <1>1, <2>2 DEF VisitOneShot, TypeOK
  <2>3. CASE VisitPeriodic(t)
    BY <1>1, <2>3 DEF VisitPeriodic, TypeOK
  <2> QED
    BY <1>4, <2>1, <2>2, <2>3 DEF Visit
<1>5. CASE Tick \/ Trigger \/ CallbackReturns \/ TriggerReturns \/ UNCHANGED vars
  BY <1>5 DEF Tick, Trigger, CallbackReturns, TriggerReturns, vars
<1> QED
  BY <1>2, <1>3, <1>4, <1>5 DEF Next, Client, Handler

(* The multiples of d up to a are those of 0..q.                           *)
LEMMA Multiples ==
  ASSUME NEW a \in Nat, NEW d \in Nat \ {0}, NEW q \in Nat,
         q * d <= a, a < (q + 1) * d
  PROVE  {k \in 0..a : k * d <= a} = 0..q
<1>1. ASSUME NEW k \in 0..q PROVE k \in 0..a /\ k * d <= a
  <2>1. k * d <= q * d
    BY <1>1, SMTT(30)
  <2>2. k <= k * d
    BY <1>1, SMTT(30)
  <2> QED
    BY <2>1, <2>2, k * d \in Int, q * d \in Int
<1>2. ASSUME NEW k \in 0..a, k * d <= a PROVE k \in 0..q
  <2>1. CASE k >= q + 1
    <3>1. k * d >= (q + 1) * d
      BY <2>1, SMTT(30)
    <3> QED
      BY <1>2, <3>1, k * d \in Int, (q + 1) * d \in Int
  <2> QED
    BY <2>1
<1> QED
  BY <1>1, <1>2

LEMMA DivisionBounds ==
  ASSUME NEW a \in Nat, NEW d \in Nat \ {0}
  PROVE  /\ a \div d \in Nat /\ (a \div d) * d <= a
         /\ a < ((a \div d) + 1) * d
OBVIOUS

LEMMA PeriodicCounts ==
  ASSUME IInv, NEW t \in Timers, VisitPeriodic(t)
  PROVE  snap > origin[t] /\ total'[t] = Cardinality(PeriodsOver(t))
<1> DEFINE d == delay[t]
           n == total[t]
           e == (snap - timeout[t]) \div d
           b == snap - timeout[t]
           a == snap - origin[t]
           q == n + e
<1>1. /\ t \in linked /\ d \in Nat \ {0} /\ timeout[t] \in Int /\ snap \in Nat
      /\ b \in Nat /\ b > 0 /\ n \in Nat /\ origin[t] \in Int
      /\ timeout[t] = origin[t] + n * d
  BY DEF VisitPeriodic, IInv, TypeOK, WalkInList, PhaseKept
<1>2. total'[t] = n + (1 + e)
  BY DEF VisitPeriodic, Elapsed, IInv, TypeOK
<1>3. e \in Nat /\ e * d <= b /\ b < (e + 1) * d
  BY <1>1, DivisionBounds
<1>4. PeriodsOver(t) = {k \in 0..a : origin[t] + k * d <= snap}
  BY DEF PeriodsOver
<1> HIDE DEF d, n, e
<1>5. n * d \in Nat /\ e * d \in Nat /\ a = b + n * d
  BY <1>1, <1>3
<1>6. q \in Nat /\ q * d = n * d + e * d /\ (q + 1) * d = n * d + (e + 1) * d
  BY <1>1, <1>3
<1>7. a \in Nat /\ a > 0 /\ q * d <= a /\ a < (q + 1) * d
  <2>1. (e + 1) * d \in Nat
    BY <1>1, <1>3
  <2> HIDE DEF q
  <2> QED
    BY <1>1, <1>3, <1>5, <1>6, <2>1
<1>8. PeriodsOver(t) = {k \in 0..a : k * d <= a}
  <2>1. ASSUME NEW k \in 0..a PROVE origin[t] + k * d <= snap <=> k * d <= a
    <3>1. k * d \in Int
      BY <1>1
    <3> QED
      BY <1>1, <3>1
  <2> QED
    BY <1>4, <2>1
<1> HIDE DEF a, b, q
<1>9. PeriodsOver(t) = 0..q
  BY <1>1, <1>6, <1>7, <1>8, Multiples
<1>10. Cardinality(0..q) = q + 1
  BY <1>6, FS_Interval
<1>11. total'[t] = q + 1
  BY <1>1, <1>2, <1>3 DEF q
<1>12. snap > origin[t]
  BY <1>1, <1>7 DEF a
<1> QED
  BY <1>9, <1>10, <1>11, <1>12

THEOREM TimerInvariant == Spec => []IInv
BY InitIInv, NextIInv, PTL DEF Spec

(* The state of the timers always has its types. *)
THEOREM TimerTypes == Spec => []TypeOK
<1>1. IInv => TypeOK
  BY DEF IInv
<1>2. QED
  BY <1>1, TimerInvariant, PTL

(* In thread mode the alarm is armed for every running timer.              *)
THEOREM TimerAlarmArmed == Spec => []AlarmArmed
<1>1. IInv => AlarmArmed
  BY DEF IInv
<1>2. QED
  BY <1>1, TimerInvariant, PTL

(* Periodic timers do not drift. *)
THEOREM TimerPhaseKept == Spec => []PhaseKept
<1>1. IInv => PhaseKept
  BY DEF IInv
<1>2. QED
  BY <1>1, TimerInvariant, PTL

(* When a callback is called, exactly the periods that are over have been  *)
(* told of, however late the handler was before.                           *)
THEOREM TimerCountsPeriods == Spec => CountsPeriods
<1>1. Init => OneShotsAreNew
  BY OneShotsInit
<1>2. IInv /\ OneShotsAreNew /\ [Next]_vars => OneShotsAreNew'
  BY OneShotsStep
<1>3. IInv /\ OneShotsAreNew /\ [Next]_vars =>
        [\A t \in Timers :
           running' = t /\ running # t =>
             /\ snap > origin[t]
             /\ total'[t] = IF delay[t] = 0 THEN 1
                            ELSE Cardinality(PeriodsOver(t))]_vars
  <2> SUFFICES ASSUME IInv, OneShotsAreNew, [Next]_vars, NEW t \in Timers,
                      running' = t, running # t
               PROVE  /\ snap > origin[t]
                      /\ total'[t] = IF delay[t] = 0 THEN 1
                                     ELSE Cardinality(PeriodsOver(t))
    OBVIOUS
  <2>1. t # None
    BY TimerAssumption
  <2>2. VisitOneShot(t) \/ VisitPeriodic(t)
    BY <2>1 DEF Next, Client, Start, Stop, Tick, Handler, Trigger, Visit, VisitNotDue,
                VisitOneShot, VisitPeriodic, CallbackReturns, TriggerReturns, vars
  <2>3. CASE VisitOneShot(t)
    <3>1. /\ t \in linked /\ delay[t] \in Nat /\ delay[t] = 0 /\ total[t] = 0
          /\ timeout[t] = origin[t] + total[t] * delay[t]
          /\ snap > timeout[t] /\ origin[t] \in Int
      BY <2>3 DEF VisitOneShot, IInv, TypeOK, WalkInList, PhaseKept, OneShotsAreNew
    <3>2. total'[t] = 1
      BY <2>3, <3>1 DEF VisitOneShot, IInv, TypeOK
    <3> QED
      BY <3>1, <3>2
  <2>4. CASE VisitPeriodic(t)
    <3>1. delay[t] # 0
      BY <2>4 DEF VisitPeriodic
    <3> QED
      BY <2>4, <3>1, PeriodicCounts
  <2> QED
    BY <2>2, <2>3, <2>4
<1> QED
  BY <1>1, <1>2, <1>3, TimerInvariant, PTL DEF Spec, CountsPeriods
=============================================================================
