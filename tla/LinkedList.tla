----------------------------- MODULE LinkedList -----------------------------
(***************************************************************************)
(* The ring of elements that everything in the program is registered with, *)
(* pointer by pointer, and an iteration of it.  ListHead is the list.      *)
(* An iterator links a sentinel of its own behind the element it is at, so *)
(* that this element may go while it is visited.                           *)
(*                                                                         *)
(* insertNext, insertBefore and remove hold the lock.  Iterating does not, *)
(* except within these: an interrupt may insert elements between any two   *)
(* of its steps.  What the body of the loop does, and what interrupts do   *)
(* while it runs, may insert, remove or replace any element.               *)
(***************************************************************************)
EXTENDS Naturals, FiniteSets

CONSTANTS
  ListHead, Sentinel,
  Elements,
  MaxChanges       \* bound: insertions, removals and moves

VARIABLES
  next, prev,      \* the pointers
  step,            \* of the iteration: "no", "begin", "body", "fetch", "remove", "insert"
  element,         \* where the iterator is
  changes,
  staying, visits  \* history: members all the time since begin; visits of each

vars == <<next, prev, step, element, changes, staying, visits>>

Nodes == Elements \cup {ListHead, Sentinel}
Self == [n \in Nodes |-> n]
Linked == {e \in Elements : next[e] # e}

Init ==
  /\ next = Self /\ prev = Self
  /\ step = "no" /\ element = ListHead
  /\ changes = 0
  /\ staying = {} /\ visits = [e \in Elements |-> 0]

-----------------------------------------------------------------------------
(* The operations, as the pointers that they leave. *)

(* this.insertNext(other) *)
InsertNext(this, other) ==
  /\ next' = [next EXCEPT ![other] = next[this], ![this] = other]
  /\ prev' = [prev EXCEPT ![next[this]] = other, ![other] = this]

(* this.insertBefore(other) *)
InsertBefore(this, other) ==
  /\ next' = [next EXCEPT ![prev[this]] = other, ![other] = this]
  /\ prev' = [prev EXCEPT ![other] = prev[this], ![this] = other]

Unlink(this) ==
  /\ next' = [next EXCEPT ![prev[this]] = next[this], ![this] = this]
  /\ prev' = [prev EXCEPT ![next[this]] = prev[this], ![this] = this]

(* this = std::move(rhs), of an element that is not linked: it takes the   *)
(* place of rhs. *)
MoveFrom(this, rhs) ==
  /\ next' = [next EXCEPT ![this] = next[rhs], ![rhs] = rhs, ![prev[rhs]] = this]
  /\ prev' = [prev EXCEPT ![this] = prev[rhs], ![rhs] = rhs, ![next[rhs]] = this]

Change == changes < MaxChanges /\ changes' = changes + 1

(* Elements register when they are made, at any time: at the end, or at    *)
(* the front. *)
Register ==
  /\ Change
  /\ \E e \in Elements \ Linked : InsertBefore(ListHead, e) \/ InsertNext(ListHead, e)
  /\ UNCHANGED <<step, element, staying, visits>>

(* Next to an element (SortedLinkedList::insert). *)
RegisterAt ==
  /\ Change
  /\ \E e \in Elements \ Linked, f \in Linked : InsertBefore(f, e)
  /\ UNCHANGED <<step, element, staying, visits>>

(* They are removed when they are destroyed, and moved with their owners,  *)
(* but not while an iterator is between two elements. *)
InBody == step \in {"no", "body"}

Destroy ==
  /\ Change /\ InBody
  /\ \E e \in Linked : Unlink(e) /\ staying' = staying \ {e}
  /\ UNCHANGED <<step, element, visits>>

Move ==
  /\ Change /\ InBody
  /\ \E e \in Elements \ Linked, f \in Linked :
       MoveFrom(e, f) /\ staying' = staying \ {f}
  /\ UNCHANGED <<step, element, visits>>

-----------------------------------------------------------------------------
(* for (auto& e : list) *)

(* begin() reads the first element, *)
Begin ==
  /\ step = "no"
  /\ element' = next[ListHead] /\ step' = "begin"
  /\ staying' = Linked /\ visits' = [e \in Elements |-> 0]
  /\ UNCHANGED <<next, prev, changes>>

Visited == IF element \in Elements THEN [visits EXCEPT ![element] = @ + 1] ELSE visits

(* ... and the iterator links its sentinel behind it. *)
LinkSentinel ==
  /\ step \in {"begin", "insert"}
  /\ InsertNext(element, Sentinel)
  /\ step' = "body" /\ visits' = Visited
  /\ UNCHANGED <<element, changes, staying>>

(* Faulty variant: the element itself says what comes next. *)
FetchFromElement ==
  /\ step = "body" /\ element # ListHead
  /\ element' = next[element] /\ step' = "remove"
  /\ UNCHANGED <<next, prev, changes, staying, visits>>

(* ++ in three steps. *)
Fetch ==
  /\ step = "body" /\ element # ListHead
  /\ element' = next[Sentinel] /\ step' = "remove"
  /\ UNCHANGED <<next, prev, changes, staying, visits>>

TakeSentinel ==
  /\ step = "remove"
  /\ Unlink(Sentinel) /\ step' = "insert"
  /\ UNCHANGED <<element, changes, staying, visits>>

(* The loop ends at the head; the iterator's sentinel is destroyed.        *)
End ==
  /\ step = "body" /\ element = ListHead
  /\ Unlink(Sentinel) /\ step' = "no"
  /\ UNCHANGED <<element, changes, staying, visits>>

Next ==
  \/ Register \/ RegisterAt \/ Destroy \/ Move
  \/ Begin \/ LinkSentinel \/ Fetch \/ TakeSentinel \/ End

Spec == Init /\ [][Next]_vars

-----------------------------------------------------------------------------
(* Properties. *)

(* The pointers of the two directions agree. *)
RingKept == \A n \in Nodes : prev[next[n]] = n /\ next[prev[n]] = n

(* An iteration that is through has visited every element that was there   *)
(* all the time exactly once, and between its steps it is in the ring:     *)
(* whatever was inserted, removed or moved, the element it is at included. *)
VisitsOnce ==
  /\ RingKept
  /\ \A e \in staying : visits[e] <= 1
  /\ step = "body" /\ element = ListHead => \A e \in staying : visits[e] = 1
  /\ step \in {"body", "remove"} => Sentinel # next[Sentinel]
  /\ step \in {"begin", "remove", "insert"} => element = ListHead \/ element \in Linked
=============================================================================
