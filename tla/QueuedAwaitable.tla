--------------------------- MODULE QueuedAwaitable ---------------------------
(***************************************************************************)
(* QueuedAwaitable with its FIFO, a ring of N, and its variant for void,   *)
(* which only counts.  Interrupts put, one coroutine takes, in thread mode *)
(* or where an interrupt resumes it.  operator() leaves the handle where   *)
(* it is until await_resume takes it away: it must not be interrupted by   *)
(* another one in between, and in interrupts it is not.                    *)
(***************************************************************************)
EXTENDS Naturals, Sequences

CONSTANTS
  N,      \* capacity of the FIFO
  MaxPuts \* bound: events

VARIABLES
  sort,   \* the variant: "value" or "void"
  ring,   \* mStorage, mStart, mEnd and mCount (of "void" only the count)
  waiter, \* whether handle is set
  reader, \* the coroutine: "away", in thread mode and about to call await_
          \* "ready", "suspend" or "resume"; or "suspended"
  puts,   \* history: number of events
  kept,   \* history: those that were not refused or cleared
  taken   \* history: those the coroutine has got

vars == <<sort, ring, waiter, reader, puts, kept, taken>>

Init ==
  /\ sort \in {"value", "void"}
  /\ ring = [arr |-> [i \in 0..N-1 |-> 0], start |-> 0, end |-> 0, count |-> 0]
  /\ waiter = FALSE
  /\ reader = "away"
  /\ puts = 0 /\ kept = << >> /\ taken = << >>

(* Faulty variant: a full ring takes one more. *)
RoomOffByOne == sort = "void" \/ ring.count <= N

Room == sort = "void" \/ ring.count < N

(* FIFO::put, ++queue *)
Put(r, v) ==
  IF ~Room THEN r
  ELSE [arr |-> [r.arr EXCEPT ![r.end] = v], start |-> r.start,
        end |-> (r.end + 1) % N, count |-> r.count + 1]

(* FIFO::pop, --queue *)
Pop(r) == [arr |-> r.arr, start |-> (r.start + 1) % N,
           end |-> r.end, count |-> r.count - 1]

First(r) == IF sort = "void" THEN Len(taken) + 1 ELSE r.arr[r.start]

(* operator(): the event is noted, and whoever waits is resumed. *)
Event ==
  /\ puts < MaxPuts /\ puts' = puts + 1
  /\ kept' = IF Room
               THEN Append(kept, IF sort = "void" THEN Len(kept) + 1 ELSE puts')
               ELSE kept
  /\ UNCHANGED sort

IsrPut ==
  /\ Event /\ ~waiter
  /\ ring' = Put(ring, puts')
  /\ UNCHANGED <<waiter, reader, taken>>

(* The coroutine takes the event in the interrupt and may wait again.      *)
IsrPutResumes ==
  /\ Event /\ waiter
  /\ LET r == Put(ring, puts') IN ring' = Pop(r) /\ taken' = Append(taken, First(r))
  /\ \E again \in BOOLEAN :
       waiter' = again /\ reader' = IF again THEN "suspended" ELSE "away"

UnchangedByReader == UNCHANGED <<sort, puts>>

Arrives ==
  /\ reader = "away" /\ reader' = "ready"
  /\ UNCHANGED <<ring, waiter, kept, taken>> /\ UnchangedByReader

AwaitReady ==
  /\ reader = "ready"
  /\ reader' = IF ring.count # 0 THEN "resume" ELSE "suspend"
  /\ UNCHANGED <<ring, waiter, kept, taken>> /\ UnchangedByReader

(* Faulty variant: the queue is not looked at again under the lock. *)
AwaitSuspendBlindly ==
  /\ reader = "suspend"
  /\ reader' = "suspended" /\ waiter' = TRUE
  /\ UNCHANGED <<ring, kept, taken>> /\ UnchangedByReader

AwaitSuspend ==
  /\ reader = "suspend"
  /\ IF ring.count # 0 THEN reader' = "resume" /\ UNCHANGED waiter
     ELSE reader' = "suspended" /\ waiter' = TRUE
  /\ UNCHANGED <<ring, kept, taken>> /\ UnchangedByReader

AwaitResume ==
  /\ reader = "resume"
  /\ reader' = "away" /\ waiter' = FALSE
  /\ taken' = Append(taken, First(ring)) /\ ring' = Pop(ring)
  /\ UNCHANGED kept /\ UnchangedByReader

Clear ==
  /\ reader = "away"
  /\ ring' = [arr |-> ring.arr, start |-> 0, end |-> 0, count |-> 0]
  /\ waiter' = FALSE
  /\ kept' = taken
  /\ UNCHANGED <<reader, taken>> /\ UnchangedByReader

Next ==
  IsrPut \/ IsrPutResumes \/ Arrives \/ AwaitReady \/ AwaitSuspend \/ AwaitResume \/ Clear

Spec == Init /\ [][Next]_vars

-----------------------------------------------------------------------------
(* The coroutine gets what was put, in order and once, but for what found  *)
(* no room or was cleared; and it is not left suspended with something to  *)
(* take, whenever the events come.                                         *)
QueueIsRead ==
  /\ Len(taken) + ring.count = Len(kept)
  /\ \A i \in DOMAIN taken : taken[i] = kept[i]
  /\ sort = "value" =>
       \A i \in 1..ring.count :
         ring.arr[(ring.start + i - 1) % N] = kept[Len(taken) + i]
  /\ reader = "suspended" <=> waiter
  /\ waiter => ring.count = 0
=============================================================================
