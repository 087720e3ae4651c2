-------------------------------- MODULE Tasks --------------------------------
(***************************************************************************)
(* Tasks that await tasks, as the answers to USB control requests do: the  *)
(* worker holds the outermost one, each may call another one and await it, *)
(* and the innermost awaits an event.  All of them run in one interrupt,   *)
(* so that none ends between await_ready and await_suspend of the one that *)
(* awaits it.                                                              *)
(***************************************************************************)
EXTENDS Naturals, FiniteSets

CONSTANTS
  MaxTasks, \* bound: tasks in a behaviour, numbered in their order
  MaxDepth  \* bound: tasks at a time

Ids == 1..MaxTasks
Nobody == 0

VARIABLES
  frame,  \* of each task: "none", in its "body", has called a task ("calls"),
          \* suspended in a "task" or the "event", at its "final" suspension,
          \* or destroyed ("gone")
  parent, \* the task that holds it; Nobody for the worker's subtask
  handle, \* handle of its promise: the task that awaits it
  result, \* whether its promise has a value
  runs,   \* the task that runs
  waits,  \* the handle in the awaitable of the event
  flagged, \* has_value of that awaitable
  taken   \* history: how often its value was taken

vars == <<frame, parent, handle, result, runs, waits, flagged, taken>>

Init ==
  /\ frame = [t \in Ids |-> "none"]
  /\ parent = [t \in Ids |-> Nobody]
  /\ handle = [t \in Ids |-> Nobody]
  /\ result = [t \in Ids |-> FALSE]
  /\ runs = Nobody /\ waits = Nobody /\ flagged = FALSE
  /\ taken = [t \in Ids |-> 0]

Alive == {t \in Ids : frame[t] \notin {"none", "gone"}}
Child(t) == CHOOSE c \in Alive : parent[c] = t

(* When t suspends or ends, control returns to the one that has called it  *)
(* and not yet awaited it, or else leaves the interrupt.                   *)
Caller(t) ==
  IF parent[t] # Nobody /\ frame[parent[t]] = "calls" THEN parent[t] ELSE Nobody

(* A task is called and runs at once (initial_suspend is suspend_never).   *)
Start(by) ==
  /\ \E t \in Ids :
       /\ frame[t] = "none" /\ \A u \in 1..t-1 : frame[u] # "none"
       /\ frame' = [u \in Ids |-> CASE u = t -> "body" [] u = by -> "calls"
                                    [] OTHER -> frame[u]]
       /\ parent' = [parent EXCEPT ![t] = by]
       /\ runs' = t
  /\ UNCHANGED <<handle, result, waits, flagged, taken>>

StartSubtask == runs = Nobody /\ Alive = {} /\ Start(Nobody)

CallTask ==
  /\ runs # Nobody /\ frame[runs] = "body" /\ Cardinality(Alive) < MaxDepth
  /\ Start(runs)

(* Faulty variant: the first to await the event stays the one it resumes. *)
AwaitEventFirst ==
  /\ runs # Nobody /\ frame[runs] = "body" /\ ~flagged
  /\ frame' = [frame EXCEPT ![runs] = "event"]
  /\ waits' = IF waits = Nobody THEN runs ELSE waits
  /\ runs' = Caller(runs)
  /\ UNCHANGED <<parent, handle, result, flagged, taken>>

(* co_await of the event: what the awaitable holds of an earlier await is  *)
(* overwritten.  Nobody suspends if the event came before.                 *)
AwaitEvent ==
  /\ runs # Nobody /\ frame[runs] = "body" /\ ~flagged
  /\ frame' = [frame EXCEPT ![runs] = "event"]
  /\ waits' = runs
  /\ runs' = Caller(runs)
  /\ UNCHANGED <<parent, handle, result, flagged, taken>>

AwaitPast ==
  /\ runs # Nobody /\ frame[runs] = "body" /\ flagged
  /\ flagged' = FALSE /\ waits' = Nobody
  /\ UNCHANGED <<frame, parent, handle, result, runs, taken>>

(* clear() before something is started that the event will tell of.        *)
ClearEvent ==
  /\ runs # Nobody /\ frame[runs] = "body"
  /\ flagged' = FALSE /\ waits' = Nobody
  /\ UNCHANGED <<frame, parent, handle, result, runs, taken>>

(* co_await of the task that was called: it has ended already, *)
AwaitEnded ==
  /\ runs # Nobody /\ frame[runs] = "calls"
  /\ LET c == Child(runs)
     IN /\ result[c]
        /\ frame' = [frame EXCEPT ![runs] = "body", ![c] = "gone"]
        /\ result' = [result EXCEPT ![c] = FALSE]
        /\ taken' = [taken EXCEPT ![c] = @ + 1]
  /\ UNCHANGED <<parent, handle, runs, waits, flagged>>

(* or it has not. *)
AwaitTask ==
  /\ runs # Nobody /\ frame[runs] = "calls"
  /\ ~result[Child(runs)]
  /\ frame' = [frame EXCEPT ![runs] = "task"]
  /\ handle' = [handle EXCEPT ![Child(runs)] = runs]
  /\ runs' = Caller(runs)
  /\ UNCHANGED <<parent, result, waits, flagged, taken>>

(* Faulty variant: who awaits the task is not resumed. *)
EndSilently ==
  /\ runs # Nobody /\ frame[runs] = "body" /\ handle[runs] # Nobody
  /\ frame' = [frame EXCEPT ![runs] = "final"]
  /\ result' = [result EXCEPT ![runs] = TRUE]
  /\ runs' = Nobody
  /\ UNCHANGED <<parent, handle, waits, flagged, taken>>

(* The end of a task that is awaited: final_suspend resumes the one that   *)
(* awaits it, which takes the value and destroys it. *)
EndAwaited ==
  /\ runs # Nobody /\ frame[runs] = "body" /\ handle[runs] # Nobody
  /\ frame' = [frame EXCEPT ![runs] = "gone", ![handle[runs]] = "body"]
  /\ handle' = [handle EXCEPT ![runs] = Nobody]
  /\ taken' = [taken EXCEPT ![runs] = @ + 1]
  /\ runs' = handle[runs]
  /\ UNCHANGED <<parent, result, waits, flagged>>

(* The end of one that is not. *)
EndAlone ==
  /\ runs # Nobody /\ frame[runs] = "body" /\ handle[runs] = Nobody
  /\ frame' = [frame EXCEPT ![runs] = "final"]
  /\ result' = [result EXCEPT ![runs] = TRUE]
  /\ runs' = Caller(runs)
  /\ UNCHANGED <<parent, handle, waits, flagged, taken>>

(* The event: whatever handle is stored is resumed, also that of a task    *)
(* which was terminated meanwhile.  Then the processor runs a frame that   *)
(* is gone, and what follows is undefined: no action goes on from there.   *)
Event ==
  /\ runs = Nobody
  /\ IF waits = Nobody
       THEN flagged' = TRUE /\ UNCHANGED <<frame, runs, waits>>
       ELSE /\ frame' = IF waits \in Alive THEN [frame EXCEPT ![waits] = "body"]
                        ELSE frame
            /\ runs' = waits /\ waits' = Nobody /\ UNCHANGED flagged
  /\ UNCHANGED <<parent, handle, result, taken>>

(* Faulty variant: the tasks below are left. *)
TerminateOne ==
  /\ runs = Nobody
  /\ \E t \in Alive : parent[t] = Nobody /\ frame' = [frame EXCEPT ![t] = "gone"]
  /\ UNCHANGED <<parent, handle, result, runs, waits, flagged, taken>>

(* terminate: a frame takes what it holds with it, down to the innermost.  *)
(* A handle in the awaitable of the event stays there.                     *)
Terminate ==
  /\ runs = Nobody /\ Alive # {}
  /\ frame' = [t \in Ids |-> IF t \in Alive THEN "gone" ELSE frame[t]]
  /\ handle' = [t \in Ids |-> Nobody]
  /\ UNCHANGED <<parent, result, runs, waits, flagged, taken>>

Next ==
  \/ StartSubtask \/ CallTask \/ AwaitEvent \/ AwaitPast \/ ClearEvent
  \/ AwaitEnded \/ AwaitTask \/ EndAwaited \/ EndAlone \/ Event \/ Terminate

Spec == Init /\ [][Next]_vars

-----------------------------------------------------------------------------
(* When the interrupt ends, each task but the innermost is awaited by the  *)
(* one that holds it, and the innermost awaits the event or is the whole   *)
(* subtask, at its end; no frame is left without an owner; and the result  *)
(* of a task that has ended is taken once, by the one that awaits it.      *)
(* A frame that is gone is resumed only by an event that comes after its   *)
(* terminate and before the next await of the event (or clear): never      *)
(* while a task awaits that event.                                         *)
TasksReturn ==
  /\ \A t \in Alive : parent[t] # Nobody => parent[t] \in Alive
  /\ \A t \in Alive : handle[t] # Nobody => handle[t] = parent[t] /\ frame[handle[t]] = "task"
  /\ \A t \in Ids : taken[t] <= 1
  /\ runs = Nobody =>
       \A t \in Alive :
         CASE frame[t] = "task" -> \E c \in Alive : handle[c] = t /\ ~result[c]
           [] frame[t] = "event" -> waits = t
           [] frame[t] = "final" -> parent[t] = Nobody
           [] OTHER -> FALSE
  /\ runs \notin Alive \cup {Nobody} => \A t \in Alive : frame[t] # "event"
=============================================================================
