---------------------------- MODULE MCFramework ----------------------------
(* Parts of the framework that share no state of their models: every       *)
(* behaviour is one of one part, the others stay as they are.  The claims  *)
(* are two pairs of the same priority and one that is less important.      *)
EXTENDS Claimable

CONSTANTS c1, c2, c3, c4, c5,
          MaxTasks, MaxDepth, N, MaxPuts, MaxYields, MaxEvents, Blocks, MaxCalls,
          MaxFires, MaxElapse

(* A ring has room for one event, a block has a name of its own, and a      *)
(* timer that fires reports a period at least.                              *)
ASSUME RingAssumption == N \in Nat \ {0}
ASSUME TaskAssumption == MaxTasks \in Nat
ASSUME HeapAssumption == "none" \notin Blocks
ASSUME EventsAssumption == MaxFires \in Nat /\ MaxElapse \in Nat \ {0}

VARIABLES part,
          frame, parent, handle, result, runs, waits, flagged, taken,
          sort, ring, waiter, reader, puts, kept, got,
          gen, more, value, caller, user, event, made, read, early,
          masked, nest, job, seen, inUse, owners, calls,
          kind, val, sleeper, co, mpc, fired, known

Subtasks == INSTANCE Tasks
Queued == INSTANCE QueuedAwaitable WITH taken <- got
Generated == INSTANCE AsyncGenerator
Shared == INSTANCE Heap
Woken == INSTANCE Awaitable WITH handle <- sleeper, seen <- known

taskVars == <<frame, parent, handle, result, runs, waits, flagged, taken>>
queueVars == <<sort, ring, waiter, reader, puts, kept, got>>
generatorVars == <<gen, more, value, caller, user, event, made, read, early>>
heapVars == <<masked, nest, job, seen, inUse, owners, calls>>
wakeVars == <<kind, val, sleeper, co, mpc, fired, known>>

MCVars ==
  <<part, vars, taskVars, queueVars, generatorVars, heapVars, wakeVars>>

MCInit ==
  /\ part \in {"claims", "tasks", "queue", "generator", "heap", "awaitable"}
  /\ Init /\ Subtasks!Init /\ Generated!Init /\ Shared!Init
  /\ Queued!Init /\ (part # "queue" => sort = "value")
  /\ Woken!Init /\ (part # "awaitable" => kind = "value")

Claiming ==
  /\ part = "claims" /\ Next
  /\ UNCHANGED <<part, taskVars, queueVars, generatorVars, heapVars, wakeVars>>
Awaiting ==
  /\ part = "tasks" /\ Subtasks!Next
  /\ UNCHANGED <<part, vars, queueVars, generatorVars, heapVars, wakeVars>>
Queueing ==
  /\ part = "queue" /\ Queued!Next
  /\ UNCHANGED <<part, vars, taskVars, generatorVars, heapVars, wakeVars>>
Generating ==
  /\ part = "generator" /\ Generated!Next
  /\ UNCHANGED <<part, vars, taskVars, queueVars, heapVars, wakeVars>>
Allocating ==
  /\ part = "heap" /\ Shared!Next
  /\ UNCHANGED <<part, vars, taskVars, queueVars, generatorVars, wakeVars>>
Waking ==
  /\ part = "awaitable" /\ Woken!Next
  /\ UNCHANGED <<part, vars, taskVars, queueVars, generatorVars, heapVars>>

MCNext ==
  Claiming \/ Awaiting \/ Queueing \/ Generating \/ Allocating \/ Waking

MCSpec ==
  /\ MCInit
  /\ [][MCNext]_MCVars
  /\ part = "claims" => \A c \in Claims : WF_vars(Release(c))

(* The properties of the parts, as they are stated there; those of the     *)
(* claims are in Claimable. *)
TasksReturn == Subtasks!TasksReturn
EventsAreRead == Queued!QueueIsRead /\ Generated!GeneratorInStep
HeapAlone == Shared!HeapAlone
NoLostWakeup == Woken!NoLostWakeup
OneWakeup == Woken!OneWakeup
NothingStale == Woken!NothingStale

MCClaims == {c1, c2, c3, c4, c5}
MCPrio == [c \in MCClaims |-> CASE c \in {c1, c2} -> 0
                         [] c \in {c3, c4} -> 1
                         [] c = c5 -> 2]
=============================================================================
