--------------------------- MODULE MessageChannel ---------------------------
(***************************************************************************)
(* What the message pump promises its users: an unbounded channel that     *)
(* hands every posted value on exactly once, in the order of posting.      *)
(***************************************************************************)
EXTENDS Sequences

CONSTANT Values

VARIABLES
  waiting,  \* values posted and not handled yet
  handled   \* values handled, oldest first

Init ==
  /\ waiting = << >>
  /\ handled = << >>

Post(v) ==
  /\ waiting' = Append(waiting, v)
  /\ UNCHANGED handled

Handle ==
  /\ waiting # << >>
  /\ handled' = Append(handled, Head(waiting))
  /\ waiting' = Tail(waiting)

Next == Handle \/ \E v \in Values : Post(v)

Spec == Init /\ [][Next]_<<waiting, handled>>
=============================================================================
