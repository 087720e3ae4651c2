-------------------------------- MODULE Heap --------------------------------
(***************************************************************************)
(* The heap that thread mode and interrupts share.  operator new and       *)
(* delete lock and call malloc and free, which are wrapped: they lock      *)
(* again around the C library's functions.  Task::terminate frees a frame  *)
(* while it holds a guard of its own, so up to three guards are nested.    *)
(*                                                                         *)
(* A LockGuard saves PRIMASK, masks interrupts and restores what it saved. *)
(* The library's function is two steps, its look at the heap and its       *)
(* change of it.                                                           *)
(***************************************************************************)
EXTENDS Naturals, SequencesExt

CONSTANTS
  Blocks,  \* what the heap has
  MaxCalls \* bound: calls

VARIABLES
  masked, \* PRIMASK
  nest,   \* for each context the states its guards have saved
  job,    \* what it is doing, with the block to be freed
  seen,   \* the heap as the library's function has seen it
  inUse,  \* the heap
  owners, \* history: how many have got each block and not freed it
  calls   \* history

vars == <<masked, nest, job, seen, inUse, owners, calls>>

Contexts == {"thread", "isr"}
Guards == [malloc |-> 1, free |-> 1, new |-> 2, delete |-> 2, terminate |-> 3]
Allocates(op) == op \in {"malloc", "new"}

NoJob == [op |-> "none", block |-> "none", done |-> FALSE]
NotSeen == {"none"}
Idle(c) == job[c].op = "none"
Halted == \E c \in Contexts : job[c].op = "panic"

Init ==
  /\ masked = FALSE
  /\ nest = [c \in Contexts |-> << >>]
  /\ job = [c \in Contexts |-> NoJob]
  /\ seen = [c \in Contexts |-> NotSeen]
  /\ inUse = {}
  /\ owners = [b \in Blocks |-> 0]
  /\ calls = 0

(* Thread mode runs while no interrupt does. *)
Runs(c) == ~Halted /\ (c = "thread" => Idle("isr"))

(* An interrupt is only taken if it is not masked. *)
Call(c) ==
  /\ Runs(c) /\ Idle(c) /\ (c = "isr" => ~masked)
  /\ calls < MaxCalls /\ calls' = calls + 1
  /\ \E op \in DOMAIN Guards, b \in Blocks :
       /\ ~Allocates(op) => owners[b] > 0 /\ \A d \in Contexts : job[d].block # b
       /\ job' = [job EXCEPT ![c] =
                    [op |-> op, done |-> FALSE,
                     block |-> IF Allocates(op) THEN "none" ELSE b]]
  /\ UNCHANGED <<masked, nest, seen, inUse, owners>>

Inside(c) == ~Idle(c) /\ Len(nest[c]) = Guards[job[c].op]

(* Faulty variant: the guard of the library's function is forgotten.       *)
LockOnceLess(c) ==
  /\ Runs(c) /\ ~Idle(c) /\ ~job[c].done /\ ~Inside(c)
  /\ nest' = [nest EXCEPT ![c] = Append(@, masked)]
  /\ masked' = (Len(nest'[c]) < Guards[job[c].op])
  /\ UNCHANGED <<job, seen, inUse, owners, calls>>

(* LockGuard() *)
Lock(c) ==
  /\ Runs(c) /\ ~Idle(c) /\ ~job[c].done /\ ~Inside(c)
  /\ nest' = [nest EXCEPT ![c] = Append(@, masked)]
  /\ masked' = TRUE
  /\ UNCHANGED <<job, seen, inUse, owners, calls>>

Look(c) ==
  /\ Runs(c) /\ Inside(c) /\ ~job[c].done /\ seen[c] = NotSeen
  /\ seen' = [seen EXCEPT ![c] = inUse]
  /\ UNCHANGED <<masked, nest, job, inUse, owners, calls>>

(* check_alloc: there is no memory for what is asked for. *)
Panic(c) ==
  /\ Runs(c) /\ seen[c] = Blocks /\ Allocates(job[c].op)
  /\ job' = [job EXCEPT ![c].op = "panic"]
  /\ UNCHANGED <<masked, nest, seen, inUse, owners, calls>>

Change(c) ==
  /\ Runs(c) /\ seen[c] # NotSeen
  /\ \E b \in Blocks :
       IF Allocates(job[c].op)
         THEN /\ b \notin seen[c]
              /\ inUse' = seen[c] \cup {b}
              /\ owners' = [owners EXCEPT ![b] = @ + 1]
         ELSE /\ b = job[c].block
              /\ inUse' = seen[c] \ {b}
              /\ owners' = [owners EXCEPT ![b] = @ - 1]
  /\ seen' = [seen EXCEPT ![c] = NotSeen]
  /\ job' = [job EXCEPT ![c].done = TRUE, ![c].block = "none"]
  /\ UNCHANGED <<masked, nest, calls>>

(* Faulty variant: interrupts are enabled whatever they were before.       *)
UnlockEnables(c) ==
  /\ Runs(c) /\ job[c].done
  /\ masked' = FALSE
  /\ nest' = [nest EXCEPT ![c] = Front(@)]
  /\ job' = IF nest'[c] = << >> THEN [job EXCEPT ![c] = NoJob] ELSE job
  /\ UNCHANGED <<seen, inUse, owners, calls>>

(* ~LockGuard() *)
Unlock(c) ==
  /\ Runs(c) /\ job[c].done
  /\ masked' = Last(nest[c])
  /\ nest' = [nest EXCEPT ![c] = Front(@)]
  /\ job' = IF nest'[c] = << >> THEN [job EXCEPT ![c] = NoJob] ELSE job
  /\ UNCHANGED <<seen, inUse, owners, calls>>

Next ==
  \E c \in Contexts :
    Call(c) \/ Lock(c) \/ Look(c) \/ Panic(c) \/ Change(c) \/ Unlock(c)

Spec == Init /\ [][Next]_vars

-----------------------------------------------------------------------------
(* Guards may be nested ("must be safe for recursive usage"): whoever      *)
(* holds one is not interrupted, also after an inner one was released, and *)
(* interrupts are back when the outermost is.  So every block has one      *)
(* owner, and the heap knows of it.                                        *)
HeapAlone ==
  /\ nest["thread"] # << >> => masked /\ (Idle("isr") \/ Halted)
  /\ nest["thread"] = << >> /\ Idle("isr") => ~masked
  /\ \A b \in Blocks : owners[b] = (IF b \in inUse THEN 1 ELSE 0)
=============================================================================
