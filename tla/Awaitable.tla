----------------------------- MODULE Awaitable -----------------------------
(***************************************************************************)
(* One coroutine waiting for one Awaitable of cranc::coro that locks       *)
(* (LockT = LockGuard).                                                    *)
(*                                                                         *)
(* Interrupts preempt thread mode but neither each other nor a locked      *)
(* section.  What an interrupt does is therefore one step, including the   *)
(* run of a coroutine it resumes up to the coroutine's next suspension;    *)
(* what thread mode does takes a step per locked section.  A producer in   *)
(* thread mode takes the handle under the lock and resumes after it.       *)
(***************************************************************************)
EXTENDS Integers

CONSTANTS
  MaxFires, \* bound: number of events
  MaxElapse \* bound: periods a timer reports at once

VARIABLES
  kind,   \* Awaitable<T>, Awaitable<void> or AwaitableDelay
  val,    \* val or has_value: 0 if empty; "value": the number of the event
          \* it holds; "void": 1; "delay": the pending periods
  handle, \* "null", or the handle of the "coroutine"
  co,     \* the coroutine: "away" from this awaitable; in thread mode and
          \* about to call await_"ready", await_"suspend" or await_"resume";
          \* or "suspended" in this awaitable
  mpc,    \* thread mode producer: "idle", or "call" with the handle taken
  fired,  \* history: number of events (periods for a delay)
  seen    \* history: events the coroutine has been resumed for or cleared

Kinds == {"value", "void", "delay"}

vars == <<kind, val, handle, co, mpc, fired, seen>>

Init ==
  /\ kind \in Kinds
  /\ val = 0
  /\ handle = "null"
  /\ co = "away"
  /\ mpc = "idle"
  /\ fired = 0
  /\ seen = 0

-----------------------------------------------------------------------------
(* The parts of the awaitable. *)

(* Faulty variant: a delay forgets the periods that are still pending.     *)
EmplaceOverwrites(n) ==
  IF kind = "value" THEN fired + n
  ELSE IF kind = "delay" THEN n
  ELSE IF handle # "null" THEN val ELSE 1

(* The value after an event of n: a value replaces the last one, a flag is *)
(* only set if nobody waits, a delay adds to what is pending.              *)
Emplace(n) ==
  IF kind = "value" THEN fired + n
  ELSE IF kind = "delay" THEN val + n
  ELSE IF handle # "null" THEN val ELSE 1

(* The events known to the coroutine once await_resume has given it v.     *)
SeenAfter(v, f) ==
  IF kind = "value" THEN v ELSE IF kind = "delay" THEN seen + v ELSE f

Amounts == IF kind = "delay" THEN 1..MaxElapse ELSE {1}

-----------------------------------------------------------------------------
(* Interrupts. *)

(* operator() in an interrupt with nobody waiting. *)
IsrFire ==
  \E n \in Amounts :
    /\ fired + n <= MaxFires
    /\ handle = "null"
    /\ val' = Emplace(n)
    /\ fired' = fired + n
    /\ UNCHANGED <<kind, handle, co, mpc, seen>>

(* operator() in an interrupt resumes the coroutine, which consumes the    *)
(* value and either awaits again or goes on to something else.             *)
IsrFireResumes ==
  \E n \in Amounts, again \in BOOLEAN :
    /\ fired + n <= MaxFires
    /\ handle # "null"
    /\ fired' = fired + n
    /\ seen' = SeenAfter(Emplace(n), fired')
    /\ val' = 0
    /\ handle' = IF again THEN "coroutine" ELSE "null"
    /\ co' = IF again THEN "suspended" ELSE "away"
    /\ UNCHANGED <<kind, mpc>>

(* Another event resumes the coroutine in an interrupt, and it comes here  *)
(* and finds a value.                                                      *)
IsrAwaitReady ==
  /\ co = "away"
  /\ val # 0
  /\ seen' = SeenAfter(val, fired)
  /\ val' = 0
  /\ handle' = "null"
  /\ UNCHANGED <<kind, co, mpc, fired>>

(* Likewise, and it suspends. *)
IsrAwaitSuspend ==
  /\ co = "away"
  /\ val = 0
  /\ handle' = "coroutine"
  /\ co' = "suspended"
  /\ UNCHANGED <<kind, val, mpc, fired, seen>>

-----------------------------------------------------------------------------
(* The coroutine in thread mode. *)

MainArrives ==
  /\ co = "away"
  /\ mpc = "idle"
  /\ co' = "ready"
  /\ UNCHANGED <<kind, val, handle, mpc, fired, seen>>

(* The coroutine discards what has happened so far. *)
Clear ==
  /\ co = "ready"
  /\ val' = 0
  /\ handle' = "null"
  /\ seen' = fired
  /\ UNCHANGED <<kind, co, mpc, fired>>

AwaitReady ==
  /\ co = "ready"
  /\ co' = IF val # 0 THEN "resume" ELSE "suspend"
  /\ UNCHANGED <<kind, val, handle, mpc, fired, seen>>

(* Faulty variant: the value is not looked at again under the lock. *)
AwaitSuspendBlindly ==
  /\ co = "suspend"
  /\ handle' = "coroutine"
  /\ co' = "suspended"
  /\ UNCHANGED <<kind, val, mpc, fired, seen>>

(* await_suspend looks again: an event may have come since await_ready.    *)
AwaitSuspend ==
  /\ co = "suspend"
  /\ \/ val # 0 /\ co' = "resume" /\ UNCHANGED handle
     \/ val = 0 /\ co' = "suspended" /\ handle' = "coroutine"
  /\ UNCHANGED <<kind, val, mpc, fired, seen>>

AwaitResume ==
  /\ co = "resume"
  /\ seen' = SeenAfter(val, fired)
  /\ val' = 0
  /\ handle' = "null"
  /\ co' = "away"
  /\ UNCHANGED <<kind, mpc, fired>>

-----------------------------------------------------------------------------
(* A producer in thread mode, for which the coroutine is not running there *)
(* itself.  Timers only fire in interrupts.                                *)

(* Faulty variant: the handle is copied and stays behind. *)
MainFireKeepsHandle ==
  /\ mpc = "idle"
  /\ co \in {"away", "suspended"}
  /\ kind # "delay"
  /\ fired < MaxFires
  /\ val' = Emplace(1)
  /\ fired' = fired + 1
  /\ mpc' = IF handle # "null" THEN "call" ELSE "idle"
  /\ UNCHANGED <<kind, handle, co, seen>>

MainFire ==
  /\ mpc = "idle"
  /\ co \in {"away", "suspended"}
  /\ kind # "delay"
  /\ fired < MaxFires
  /\ val' = Emplace(1)
  /\ fired' = fired + 1
  /\ mpc' = IF handle # "null" THEN "call" ELSE "idle"
  /\ handle' = "null"
  /\ UNCHANGED <<kind, co, seen>>

MainCall ==
  /\ mpc = "call"
  /\ mpc' = "idle"
  /\ co' = "resume"
  /\ UNCHANGED <<kind, val, handle, fired, seen>>

Interrupt == IsrFire \/ IsrFireResumes \/ IsrAwaitReady \/ IsrAwaitSuspend
Thread ==
  MainArrives \/ Clear \/ AwaitReady \/ AwaitSuspend \/ AwaitResume \/ MainFire
    \/ MainCall

Next == Interrupt \/ Thread

Spec == Init /\ [][Next]_vars

-----------------------------------------------------------------------------
(* Properties. *)

(* Every variable has its type. *)
TypeOK ==
  /\ kind \in Kinds
  /\ val \in 0..MaxFires
  /\ handle \in {"null", "coroutine"}
  /\ co \in {"away", "ready", "suspend", "suspended", "resume"}
  /\ mpc \in {"idle", "call"}
  /\ fired \in 0..MaxFires
  /\ seen \in 0..MaxFires

(* No wakeup is lost between await_ready, await_suspend and operator():    *)
(* a coroutine that stays suspended has been told of every event, and the  *)
(* next event finds its handle.                                            *)
NoLostWakeup ==
  co = "suspended" /\ mpc = "idle" => seen = fired /\ handle # "null"

(* A coroutine has one wakeup at most, and for a reason: nobody holds its  *)
(* handle while it runs or waits elsewhere, not two at a time, and a       *)
(* producer that has taken it brings something new.  Resuming it twice     *)
(* would run a coroutine that is not suspended.                            *)
OneWakeup ==
  /\ handle # "null" => co = "suspended" /\ mpc = "idle"
  /\ mpc = "call" => co = "suspended" /\ fired > seen

(* await_resume runs for an event not seen yet, and finds the value it     *)
(* moves from, although it looks at it in a locked section of its own.     *)
ResumedByEvent ==
  co = "resume" => fired > seen /\ (kind # "void" => val # 0)

(* What the awaitable holds is just what the coroutine has not seen: the   *)
(* latest value if there is a new one, all periods of a delay; a flag may  *)
(* be down although an event is new, but then its handle is on the way.    *)
NothingStale ==
  /\ seen <= fired
  /\ kind = "value" => val = IF seen = fired THEN 0 ELSE fired
  /\ kind = "delay" => val = fired - seen
  /\ kind = "void" =>
       (fired > seen <=> val # 0 \/ mpc = "call" \/ co = "resume")

-----------------------------------------------------------------------------
(* The inductive invariant of the proofs. *)
IInv ==
  /\ TypeOK
  /\ NoLostWakeup
  /\ OneWakeup
  /\ ResumedByEvent
  /\ NothingStale
=============================================================================
