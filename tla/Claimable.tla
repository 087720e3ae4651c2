----------------------------- MODULE Claimable -----------------------------
(***************************************************************************)
(* The list of claims on a shared resource (the I2C bus).                  *)
(*                                                                         *)
(* A claim is put into the list by priority.  If the list was empty it is  *)
(* granted at once, else when those before it have released the resource.  *)
(* Claiming is one locked section.  The release of an Access unlinks the   *)
(* claim in one and notifies the next one in another; the firmware         *)
(* releases in interrupts only, for which the two are one step.            *)
(***************************************************************************)
EXTENDS Integers, Sequences

CONSTANTS
  Claims, \* the Claim objects
  Prio,   \* their mPriority
  None    \* no claim

ASSUME ClaimAssumption ==
  /\ Prio \in [Claims -> Int]
  /\ None \notin Claims

VARIABLES
  list,   \* waitList(), the head first
  access, \* for each claim, how many Access objects it has
  earlier \* history: for each claim in the list, those that came before it

vars == <<list, access, earlier>>

Member(l, c) == \E i \in 1..Len(l) : l[i] = c

InList(c) == Member(list, c)

(* Faulty variant: an equal goes in front of those who came before. *)
InsertBeforeEquals(l, c) ==
  LET i == CHOOSE i \in 1..(Len(l) + 1) :
             /\ i <= Len(l) => Prio[l[i]] >= Prio[c]
             /\ \A j \in 1..(i - 1) : Prio[l[j]] < Prio[c]
  IN [k \in 1..(Len(l) + 1) |->
        IF k < i THEN l[k] ELSE IF k = i THEN c ELSE l[k - 1]]

(* SortedLinkedList::insert: before the first element of a lower priority. *)
Insert(l, c) ==
  LET i == CHOOSE i \in 1..(Len(l) + 1) :
             /\ i <= Len(l) => Prio[l[i]] > Prio[c]
             /\ \A j \in 1..(i - 1) : Prio[l[j]] <= Prio[c]
  IN [k \in 1..(Len(l) + 1) |->
        IF k < i THEN l[k] ELSE IF k = i THEN c ELSE l[k - 1]]

(* LinkedList::remove; it has no effect on an element that is not linked. *)
Remove(l, c) ==
  IF Member(l, c)
    THEN LET i == CHOOSE i \in 1..Len(l) : l[i] = c
         IN [k \in 1..(Len(l) - 1) |-> IF k < i THEN l[k] ELSE l[k + 1]]
    ELSE l

(* History: c is not in the list any more. *)
Forget(c) == [d \in Claims |-> IF d = c THEN {} ELSE earlier[d] \ {c}]

(* notify_head: the head of list l gets an Access. *)
NotifyHead(l, a) == IF l = << >> THEN a ELSE [a EXCEPT ![l[1]] = @ + 1]

Init ==
  /\ list = << >>
  /\ access = [c \in Claims |-> 0]
  /\ earlier = [c \in Claims |-> {}]

(* Claimable::claim, in an interrupt or in thread mode. *)
Claim(c) ==
  /\ ~InList(c)
  /\ access[c] = 0
  /\ list' = Insert(list, c)
  /\ access' = IF list = << >> THEN NotifyHead(list', access) ELSE access
  /\ earlier' = [earlier EXCEPT ![c] = {d \in Claims : InList(d)}]

(* ~Claim of a claim still waiting. *)
Withdraw(c) ==
  /\ InList(c)
  /\ access[c] = 0
  /\ list' = Remove(list, c)
  /\ earlier' = Forget(c)
  /\ UNCHANGED access

(* Faulty variant: the next claim is not notified. *)
ReleaseSilently(c) ==
  /\ access[c] > 0
  /\ list' = Remove(list, c)
  /\ access' = [access EXCEPT ![c] = @ - 1]
  /\ earlier' = Forget(c)

(* ~Access in an interrupt: the claim is unlinked, the next one notified. *)
Release(c) ==
  /\ access[c] > 0
  /\ list' = Remove(list, c)
  /\ access' = NotifyHead(list', [access EXCEPT ![c] = @ - 1])
  /\ earlier' = Forget(c)

Next == \E c \in Claims : Claim(c) \/ Withdraw(c) \/ Release(c)

Spec == Init /\ [][Next]_vars

(* A client uses the resource for a while. *)
FairSpec == Spec /\ (\A c \in Claims : WF_vars(Release(c)))

-----------------------------------------------------------------------------
(* Properties. *)

Holders == {c \in Claims : access[c] > 0}

(* Every variable has its type. *)
TypeOK ==
  /\ list \in Seq(Claims)
  /\ access \in [Claims -> Nat]
  /\ earlier \in [Claims -> SUBSET Claims]

(* One client has the resource, and only once, although a more important   *)
(* claim may be linked in front of the one that has it.                    *)
MutualExclusion ==
  \A c \in Claims :
    /\ access[c] <= 1
    /\ \A d \in Claims : access[c] > 0 /\ access[d] > 0 => c = d

(* The resource is not left unused while somebody waits for it.            *)
HandedOver == list # << >> => Holders # {}

Foremost(c) == \A d \in Claims : Prio[c] <= Prio[d]

(* Waiting comes to an end for the most important claims.                  *)
ForemostIsServed ==
  \A c \in Claims : Foremost(c) => (InList(c) ~> (access[c] > 0 \/ ~InList(c)))

(* The list does what the abstract lock does: the next holder is the most  *)
(* important waiter, and the first to come among equals.                   *)
TheHolder == IF Holders = {} THEN None ELSE CHOOSE c \in Claims : access[c] > 0
Waiting == {c \in Claims : InList(c) /\ access[c] = 0}
Lock == INSTANCE PriorityLock WITH
          waiting <- Waiting,
          before <- [c \in Claims |-> IF c \in Waiting THEN earlier[c] \cap Waiting ELSE {}],
          holder <- TheHolder
(* The list is a priority lock: it is handed over to the best waiter.      *)
ImplementsLock == Lock!Spec

-----------------------------------------------------------------------------
(* Nobody has an Access without being in the list.                         *)
HolderIsListed == \A c \in Claims : access[c] > 0 => InList(c)

(* The list is in the order of the priorities, and in the one the claims   *)
(* came among equals, and every claim is in it once.                       *)
ListInOrder ==
  \A i, j \in 1..Len(list) : i < j =>
    /\ list[i] # list[j]
    /\ \/ Prio[list[i]] < Prio[list[j]]
       \/ Prio[list[i]] = Prio[list[j]] /\ list[i] \in earlier[list[j]]

(* Who came before another one is in the list, as that one is, and did not *)
(* come after it.                                                          *)
HistoryInOrder ==
  \A c, d \in Claims : c \in earlier[d] =>
    InList(c) /\ InList(d) /\ c # d /\ d \notin earlier[c]

(* The inductive invariant of the proofs. *)
IInv ==
  /\ TypeOK
  /\ MutualExclusion
  /\ HandedOver
  /\ HolderIsListed
  /\ ListInOrder
  /\ HistoryInOrder
=============================================================================
