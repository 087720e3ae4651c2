---------------------------- MODULE PriorityLock ----------------------------
(* What Claimable promises: one holder at a time, and the next one is the  *)
(* most important waiter, the first to come among equals.                  *)
EXTENDS Integers

CONSTANTS
  Claims, \* the clients of the resource
  Prio,   \* their priorities, the lowest number first
  None    \* nobody

VARIABLES
  waiting, \* those waiting
  before,  \* for each of them, those that wait for longer
  holder

Best ==
  {c \in waiting : \A d \in waiting \ {c} :
     \/ Prio[c] < Prio[d]
     \/ Prio[c] = Prio[d] /\ d \notin before[c]}

(* c waits no longer. *)
Leave(c) ==
  /\ waiting' = waiting \ {c}
  /\ before' = [d \in Claims |-> IF d = c THEN {} ELSE before[d] \ {c}]

Init == waiting = {} /\ before = [c \in Claims |-> {}] /\ holder = None

Ask(c) ==
  /\ c # holder /\ c \notin waiting
  /\ IF holder = None
       THEN holder' = c /\ UNCHANGED <<waiting, before>>
       ELSE /\ waiting' = waiting \cup {c}
            /\ before' = [before EXCEPT ![c] = waiting]
            /\ UNCHANGED holder

Withdraw(c) == c \in waiting /\ Leave(c) /\ UNCHANGED holder

HandOver ==
  /\ holder # None
  /\ IF waiting = {}
       THEN holder' = None /\ UNCHANGED <<waiting, before>>
       ELSE \E c \in Best : holder' = c /\ Leave(c)

Next == (\E c \in Claims : Ask(c) \/ Withdraw(c)) \/ HandOver

Spec == Init /\ [][Next]_<<waiting, before, holder>>
=============================================================================
