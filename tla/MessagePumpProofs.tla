-------------------------- MODULE MessagePumpProofs --------------------------
(***************************************************************************)
(* Proofs about the message pump, for any set of buffers and capacities.   *)
(***************************************************************************)
EXTENDS MessagePump, FiniteSets, FiniteSetTheorems, FunctionTheorems,
        SequenceTheorems, TLAPS

(* A slot is a pair whose buffer is in Buffers. *)
LEMMA SlotBuffer ==
  ASSUME NEW s \in Slots
  PROVE  s[1] \in Buffers
BY DEF Slots

(* Unlinking the front message leaves the rest of the queue in order. *)
LEMMA UnlinkFront ==
  ASSUME NEW S, NEW q \in Seq(S), q # << >>
  PROVE  /\ Unlink(q, 1) \in Seq(S)
         /\ Len(Unlink(q, 1)) = Len(q) - 1
         /\ \A i \in 1..(Len(q) - 1) : Unlink(q, 1)[i] = q[i + 1]
<1> DEFINE u == Unlink(q, 1)
           n == Len(q) - 1
<1>1. n \in Nat
  BY EmptySeq
<1>2. u = [j \in 1..n |-> q[j + 1]]
  BY <1>1 DEF Unlink
<1>3. \A j \in 1..n : q[j + 1] \in S
  BY <1>1, ElementOfSeq
<1>4. u \in [1..n -> S]
  BY <1>2, <1>3
<1>5. u \in Seq(S)
  BY <1>4, <1>1, SeqDef
<1>6. Len(u) = n
  BY <1>5, <1>1, <1>2, LenProperties
<1>7. QED
  BY <1>5, <1>6, <1>2, <1>1

LEMMA InitIInv == Init => IInv
<1> SUFFICES ASSUME Init PROVE IInv
  OBVIOUS
<1> USE PumpAssumption DEF Init
<1>1. TypeOK
  BY DEF TypeOK
<1>2. NoDoubleLink /\ NothingLost /\ HeardInOrder
  BY DEF NoDoubleLink, NothingLost, HeardInOrder, Linked
<1>3. LoopShape
  BY DEF LoopShape
<1>4. QED
  BY <1>1, <1>2, <1>3 DEF IInv

(* Linking a slot that is not linked at the back of the queue. *)
LEMMA AppendSlot ==
  ASSUME NEW s \in Slots, TypeOK, NoDoubleLink, s \notin Linked,
         queue' = Append(queue, s)
  PROVE  /\ queue' \in Seq(Slots)
         /\ Len(queue') = Len(queue) + 1
         /\ \A i \in 1..Len(queue) : queue'[i] = queue[i]
         /\ queue'[Len(queue) + 1] = s
         /\ \A i, j \in 1..Len(queue') : queue'[i] = queue'[j] => i = j
         /\ Linked' = Linked \cup {s}
<1>1. queue \in Seq(Slots)
  BY DEF TypeOK
<1>2. /\ queue' \in Seq(Slots)
      /\ Len(queue') = Len(queue) + 1
      /\ \A i \in 1..Len(queue) : queue'[i] = queue[i]
      /\ queue'[Len(queue) + 1] = s
  BY <1>1, AppendProperties
<1>3. Len(queue) \in Nat
  BY <1>1, LenProperties
<1>4. \A i \in 1..Len(queue') : i \in 1..Len(queue) \/ i = Len(queue) + 1
  BY <1>2, <1>3
<1>5. \A i \in 1..Len(queue) : queue[i] # s
  BY DEF Linked
<1>6. \A i, j \in 1..Len(queue') : queue'[i] = queue'[j] => i = j
  BY <1>2, <1>4, <1>5 DEF NoDoubleLink
<1>7. Linked' = Linked \cup {s}
  BY <1>2, <1>3, <1>4 DEF Linked
<1>8. QED
  BY <1>2, <1>6, <1>7

(* Posting the value v in slot s keeps the record of what was posted.      *)
LEMMA PostKeepsNothingLost ==
  ASSUME TypeOK, NoDoubleLink, NothingLost, NEW s \in Slots, NEW v \in Values,
         s \notin Linked, queue' = Append(queue, s),
         posted' = Append(posted, v), done' = done,
         payload' = [payload EXCEPT ![s] = v]
  PROVE  NothingLost'
<1>1. /\ queue \in Seq(Slots) /\ posted \in Seq(Values) /\ done \in Nat
      /\ payload \in [Slots -> Values \cup {NoValue}]
  BY DEF TypeOK
<1>2. /\ Len(queue') = Len(queue) + 1
      /\ \A i \in 1..Len(queue) : queue'[i] = queue[i]
      /\ queue'[Len(queue) + 1] = s
  BY AppendSlot
<1>3. /\ Len(posted') = Len(posted) + 1
      /\ \A i \in 1..Len(posted) : posted'[i] = posted[i]
      /\ posted'[Len(posted) + 1] = v
  BY <1>1, AppendProperties
<1>4. Len(queue) \in Nat /\ Len(posted) \in Nat
  BY <1>1, LenProperties
<1>5. Len(posted') = done' + Len(queue')
  BY <1>1, <1>2, <1>3, <1>4 DEF NothingLost
<1>6. ASSUME NEW i \in 1..Len(queue')
      PROVE  payload'[queue'[i]] = posted'[done' + i]
  <2>1. CASE i = Len(queue) + 1
    BY <2>1, <1>1, <1>2, <1>3, <1>4 DEF NothingLost
  <2>2. CASE i \in 1..Len(queue)
    <3>1. queue[i] \in Slots /\ queue[i] # s
      BY <2>2, <1>1, ElementOfSeq DEF Linked
    <3>2. payload'[queue'[i]] = payload[queue[i]]
      BY <3>1, <2>2, <1>1, <1>2
    <3>3. done + i \in 1..Len(posted)
      BY <2>2, <1>1, <1>4 DEF NothingLost
    <3>4. posted'[done' + i] = posted[done + i]
      BY <3>3, <1>3
    <3>5. QED
      BY <3>2, <3>4, <2>2 DEF NothingLost
  <2>3. i \in 1..Len(queue) \/ i = Len(queue) + 1
    BY <1>2, <1>4
  <2>4. QED
    BY <2>1, <2>2, <2>3
<1>7. QED
  BY <1>5, <1>6 DEF NothingLost

(* What listeners have heard stays right when another value is posted.     *)
LEMMA PostKeepsHeard ==
  ASSUME TypeOK, HeardInOrder, NEW v \in Values,
         posted' = Append(posted, v), heard' = heard
  PROVE  HeardInOrder'
<1>1. /\ Len(posted') = Len(posted) + 1
      /\ \A i \in 1..Len(posted) : posted'[i] = posted[i]
  BY AppendProperties DEF TypeOK
<1>2. Len(posted) \in Nat
  BY LenProperties DEF TypeOK
<1>3. ASSUME NEW l \in 1..NumListeners
      PROVE  Len(heard[l]) \in Nat
  BY LenProperties DEF TypeOK
<1>4. QED
  BY <1>1, <1>2, <1>3 DEF HeardInOrder

(* The front slot that a main-context sender obtains is a slot of a main   *)
(* buffer; an interrupt never obtains it.                                  *)
LEMMA IsrSlotDiffers ==
  ASSUME IInv, NEW b \in Buffers, NEW s \in Slots,
         Context[b] = "isr", FirstFree(b, s)
  PROVE  s # held
BY PumpAssumption DEF IInv, LoopShape, FirstFree

LEMMA MainGetStep ==
  ASSUME IInv, NEW b \in Buffers, NEW s \in Slots, NEW v \in Values,
         MainGet(b, s, v)
  PROVE  IInv'
<1> USE DEF MainGet, IInv
<1>1. TypeOK'
  BY DEF TypeOK
<1>2. NoDoubleLink'
  BY DEF NoDoubleLink, FirstFree, Linked
<1>3. NothingLost'
  <2>1. \A i \in 1..Len(queue) : queue[i] \in Slots /\ queue[i] # s
    BY ElementOfSeq DEF TypeOK, FirstFree, Linked
  <2>2. QED
    BY <2>1 DEF NothingLost, TypeOK
<1>4. LoopShape'
  BY DEF LoopShape, MainSends, TypeOK, FirstFree
<1>5. HeardInOrder'
  BY DEF HeardInOrder
<1>6. QED
  BY <1>1, <1>2, <1>3, <1>4, <1>5

LEMMA MainPostStep ==
  ASSUME IInv, MainPost
  PROVE  IInv'
<1> USE DEF MainPost, IInv
<1>1. /\ held \in Slots /\ held \notin Linked /\ payload[held] \in Values
      /\ queue \in Seq(Slots)
  BY DEF TypeOK, NoDoubleLink, LoopShape
<1>2. /\ queue' \in Seq(Slots)
      /\ \A i, j \in 1..Len(queue') : queue'[i] = queue'[j] => i = j
      /\ Linked' = Linked \cup {held}
      /\ Len(queue') = Len(queue) + 1
      /\ \A i \in 1..Len(queue) : queue'[i] = queue[i]
  BY <1>1, AppendSlot
<1>3. posted' \in Seq(Values)
  BY <1>1, AppendProperties DEF TypeOK
<1>4. TypeOK'
  BY <1>2, <1>3 DEF TypeOK
<1>5. NoDoubleLink'
  <2>1. \A i \in 1..Len(queue') : queue'[i] \in Slots
    BY <1>2, ElementOfSeq
  <2>2. NoSlot \notin Linked'
    BY <2>1, PumpAssumption DEF Linked
  <2>3. QED
    BY <1>2, <2>2 DEF NoDoubleLink
<1>6. NothingLost'
  <2>1. payload' = [payload EXCEPT ![held] = payload[held]]
    BY DEF TypeOK
  <2>2. QED
    BY <1>1, <2>1, PostKeepsNothingLost
<1>7. LoopShape'
  <2>1. Len(queue) \in Nat
    BY <1>1, LenProperties
  <2>2. pc \in {"invoke", "remove"} => queue' # << >> /\ queue'[1] = cur
    BY <1>1, <1>2, <2>1, EmptySeq DEF LoopShape
  <2>3. QED
    BY <2>2 DEF LoopShape
<1>8. HeardInOrder'
  BY <1>1, PostKeepsHeard
<1>9. QED
  BY <1>4, <1>5, <1>6, <1>7, <1>8

LEMMA IsrSendStep ==
  ASSUME IInv, NEW b \in Buffers, NEW s \in Slots, NEW v \in Values,
         IsrSend(b, s, v)
  PROVE  IInv'
<1> USE DEF IsrSend, IInv
<1>1. s \notin Linked /\ s # held /\ queue \in Seq(Slots)
  BY IsrSlotDiffers DEF FirstFree, TypeOK
<1>2. /\ queue' \in Seq(Slots)
      /\ \A i, j \in 1..Len(queue') : queue'[i] = queue'[j] => i = j
      /\ Linked' = Linked \cup {s}
      /\ Len(queue') = Len(queue) + 1
      /\ \A i \in 1..Len(queue) : queue'[i] = queue[i]
  BY <1>1, AppendSlot
<1>3. posted' \in Seq(Values)
  BY AppendProperties DEF TypeOK
<1>4. TypeOK'
  BY <1>2, <1>3 DEF TypeOK
<1>5. NoDoubleLink'
  BY <1>1, <1>2 DEF NoDoubleLink
<1>6. NothingLost'
  BY <1>1, PostKeepsNothingLost
<1>7. LoopShape'
  <2>1. Len(queue) \in Nat
    BY <1>1, LenProperties
  <2>2. pc \in {"invoke", "remove"} => queue' # << >> /\ queue'[1] = cur
    BY <1>1, <1>2, <2>1, EmptySeq DEF LoopShape
  <2>3. held # NoSlot => payload'[held] = payload[held]
    BY <1>1 DEF TypeOK
  <2>4. QED
    BY <2>2, <2>3 DEF LoopShape
<1>8. HeardInOrder'
  BY PostKeepsHeard
<1>9. QED
  BY <1>4, <1>5, <1>6, <1>7, <1>8

LEMMA CallListenerStep ==
  ASSUME IInv, CallListener
  PROVE  IInv'
<1> USE DEF CallListener, IInv
<1> DEFINE k == called + 1
<1>1. /\ k \in 1..NumListeners /\ heard[k] \in Seq(Values)
      /\ queue # << >> /\ cur = queue[1]
      /\ queue \in Seq(Slots) /\ posted \in Seq(Values) /\ done \in Nat
  BY PumpAssumption DEF TypeOK, LoopShape
<1>2. Len(queue) \in Nat \ {0} /\ Len(posted) \in Nat
  BY <1>1, EmptySeq, LenProperties
<1>3. done + 1 \in 1..Len(posted)
  BY <1>1, <1>2 DEF NothingLost
<1>4. payload[cur] = posted[done + 1] /\ payload[cur] \in Values
  <2>1. 1 \in 1..Len(queue)
    BY <1>2
  <2>2. payload[queue[1]] = posted[done + 1]
    BY <2>1 DEF NothingLost
  <2>3. posted[done + 1] \in Values
    BY <1>1, <1>3, ElementOfSeq
  <2>4. QED
    BY <1>1, <2>2, <2>3
<1>5. Len(heard[k]) = done
  BY <1>1 DEF LoopShape, TypeOK
<1>6. /\ heard'[k] \in Seq(Values)
      /\ Len(heard'[k]) = done + 1
      /\ \A n \in 1..done : heard'[k][n] = heard[k][n]
      /\ heard'[k][done + 1] = payload[cur]
  BY <1>1, <1>4, <1>5, AppendProperties DEF TypeOK
<1>7. \A l \in (1..NumListeners) \ {k} : heard'[l] = heard[l]
  BY DEF TypeOK
<1>8. TypeOK'
  BY <1>1, <1>6, <1>7 DEF TypeOK
<1>9. NoDoubleLink' /\ NothingLost'
  BY DEF NoDoubleLink, NothingLost, Linked
<1>10. LoopShape'
  BY <1>1, <1>6, <1>7 DEF LoopShape, TypeOK
<1>11. HeardInOrder'
  <2>1. ASSUME NEW l \in 1..NumListeners, l # k
        PROVE  /\ Len(heard'[l]) <= Len(posted')
               /\ \A n \in 1..Len(heard'[l]) : heard'[l][n] = posted'[n]
    BY <2>1, <1>7 DEF HeardInOrder
  <2>2. ASSUME NEW n \in 1..(done + 1)
        PROVE  heard'[k][n] = posted[n]
    <3>1. CASE n = done + 1
      BY <3>1, <1>4, <1>6
    <3>2. CASE n \in 1..done
      <4>1. heard[k][n] = posted[n]
        BY <3>2, <1>1, <1>5 DEF HeardInOrder
      <4>2. QED
        BY <4>1, <3>2, <1>6
    <3>3. n = done + 1 \/ n \in 1..done
      BY <1>1
    <3>4. QED
      BY <3>1, <3>2, <3>3
  <2>3. QED
    BY <2>1, <2>2, <1>3, <1>6 DEF HeardInOrder
<1>12. QED
  BY <1>8, <1>9, <1>10, <1>11

LEMMA RemoveStep ==
  ASSUME IInv, Remove
  PROVE  IInv'
<1> USE DEF Remove, IInv
<1>1. /\ queue # << >> /\ cur = queue[1]
      /\ queue \in Seq(Slots) /\ posted \in Seq(Values) /\ done \in Nat
  BY DEF TypeOK, LoopShape
<1>2. Len(queue) \in Nat \ {0} /\ Len(posted) \in Nat
  BY <1>1, EmptySeq, LenProperties
<1>3. queue' = Unlink(queue, 1)
  BY <1>1, <1>2 DEF NoDoubleLink
<1>4. /\ queue' \in Seq(Slots)
      /\ Len(queue') = Len(queue) - 1
      /\ \A i \in 1..Len(queue') : queue'[i] = queue[i + 1]
  BY <1>1, <1>3, UnlinkFront
<1>5. TypeOK'
  BY <1>1, <1>4, PumpAssumption DEF TypeOK
<1>6. NoDoubleLink'
  <2>1. Linked' \subseteq Linked
    BY <1>2, <1>4 DEF Linked
  <2>2. \A i \in 1..Len(queue') : i + 1 \in 1..Len(queue)
    BY <1>2, <1>4
  <2>3. \A i, j \in 1..Len(queue') : queue'[i] = queue'[j] => i + 1 = j + 1
    BY <2>2, <1>4 DEF NoDoubleLink
  <2>4. QED
    BY <2>1, <2>3 DEF NoDoubleLink
<1>7. NothingLost'
  <2>1. Len(posted') = done' + Len(queue')
    <3>1. Len(posted) = done + Len(queue) /\ posted' = posted /\ done' = done + 1
      BY DEF NothingLost
    <3>2. QED
      BY <3>1, <1>1, <1>2, <1>4
  <2>2. ASSUME NEW i \in 1..Len(queue')
        PROVE  payload'[queue'[i]] = posted'[done' + i]
    <3>1. i + 1 \in 1..Len(queue) /\ done + (i + 1) = done' + i
      BY <1>1, <1>2, <1>4
    <3>2. QED
      BY <3>1, <1>4 DEF NothingLost
  <2>3. QED
    BY <2>1, <2>2 DEF NothingLost
<1>8. LoopShape'
  BY <1>1 DEF LoopShape
<1>9. HeardInOrder'
  BY DEF HeardInOrder
<1>10. QED
  BY <1>5, <1>6, <1>7, <1>8, <1>9

(* The steps of the main loop that touch neither queue nor payload.        *)
LEMMA ControlStep ==
  ASSUME IInv, InitDone \/ FrontMessage \/ FrontBreakpoint \/ InvokeReturns
  PROVE  IInv'
<1> USE DEF IInv
<1>1. CASE InitDone
  BY <1>1 DEF InitDone, TypeOK, NoDoubleLink, NothingLost, LoopShape,
              HeardInOrder, Linked
<1>2. CASE FrontMessage
  <2>1. Head(queue) = queue[1] /\ Head(queue) \in Slots
    BY <1>2, HeadTailProperties DEF FrontMessage, TypeOK
  <2>2. QED
    BY <1>2, <2>1, PumpAssumption
       DEF FrontMessage, TypeOK, NoDoubleLink, NothingLost, LoopShape,
           HeardInOrder, Linked
<1>3. CASE FrontBreakpoint
  BY <1>3 DEF FrontBreakpoint, TypeOK, NoDoubleLink, NothingLost, LoopShape,
              HeardInOrder, Linked
<1>4. CASE InvokeReturns
  BY <1>4 DEF InvokeReturns, TypeOK, NoDoubleLink, NothingLost, LoopShape,
              HeardInOrder, Linked
<1>5. QED
  BY <1>1, <1>2, <1>3, <1>4

LEMMA NextIInv == IInv /\ [Next]_vars => IInv'
<1> SUFFICES ASSUME IInv, [Next]_vars PROVE IInv'
  OBVIOUS
<1>1. ASSUME NEW b \in Buffers, NEW s \in Slots, NEW v \in Values,
             MainGet(b, s, v) \/ IsrSend(b, s, v)
      PROVE  IInv'
  BY <1>1, MainGetStep, IsrSendStep
<1>2. CASE MainPost
  BY <1>2, MainPostStep
<1>3. CASE UNCHANGED vars
  BY <1>3 DEF vars, IInv, TypeOK, NoDoubleLink, NothingLost, LoopShape,
              HeardInOrder, Linked
<1>4. CASE \E b \in Buffers : MainDrop(b) \/ IsrDrop(b)
  BY <1>3, <1>4 DEF MainDrop, IsrDrop
<1>5. CASE FrontEmpty
  BY <1>3, <1>5 DEF FrontEmpty
<1>6. CASE InitDone \/ FrontMessage \/ FrontBreakpoint \/ InvokeReturns
  BY <1>6, ControlStep
<1>7. CASE CallListener
  BY <1>7, CallListenerStep
<1>8. CASE Remove
  BY <1>8, RemoveStep
<1>9. QED
  BY <1>1, <1>2, <1>3, <1>4, <1>5, <1>6, <1>7, <1>8 DEF Next, MainLoop

THEOREM PumpInvariant == Spec => []IInv
<1>1. Init => IInv
  BY InitIInv
<1>2. IInv /\ [Next]_vars => IInv'
  BY NextIInv
<1>3. QED
  BY <1>1, <1>2, PTL DEF Spec

(* The state of the pump always has its types.                             *)
THEOREM PumpTypes == Spec => []TypeOK
<1>1. IInv => TypeOK
  BY DEF IInv
<1>2. QED
  BY <1>1, PumpInvariant, PTL

(* No slot is ever linked into the queue twice.                            *)
THEOREM PumpNoDoubleLink == Spec => []NoDoubleLink
<1>1. IInv => NoDoubleLink
  BY DEF IInv
<1>2. QED
  BY <1>1, PumpInvariant, PTL

(* No posted message is lost or altered while it waits.                    *)
THEOREM PumpNothingLost == Spec => []NothingLost
<1>1. IInv => NothingLost
  BY DEF IInv
<1>2. QED
  BY <1>1, PumpInvariant, PTL

(* Every listener hears every payload once and in the order of posting.    *)
THEOREM PumpHeardInOrder == Spec => []HeardInOrder
<1>1. IInv => HeardInOrder
  BY DEF IInv
<1>2. QED
  BY <1>1, PumpInvariant, PTL

(* A queue without repeated slots is no longer than the buffers together.  *)
LEMMA QueueFits ==
  ASSUME TypeOK, NoDoubleLink, IsFiniteSet(Slots)
  PROVE  Len(queue) <= Cardinality(Slots)
<1>1. /\ queue \in [1..Len(queue) -> Slots]
      /\ Len(queue) \in Nat
  BY LenProperties DEF TypeOK
<1>2. queue \in Injection(1..Len(queue), Slots)
  BY <1>1 DEF NoDoubleLink, Injection, IsInjective
<1>3. Cardinality(1..Len(queue)) <= Cardinality(Slots)
  BY <1>2, FS_Injection
<1>4. Cardinality(1..Len(queue)) = Len(queue)
  <2>1. Cardinality(1..Len(queue)) =
          IF 1 > Len(queue) THEN 0 ELSE Len(queue) - 1 + 1
    BY <1>1, FS_Interval
  <2>2. QED
    BY <1>1, <2>1
<1>5. QED
  BY <1>3, <1>4

(* With no more slots than MaxDepth the breakpoint is never reached.       *)
THEOREM PumpNeverTooDeep ==
  ASSUME IsFiniteSet(Slots), Cardinality(Slots) <= MaxDepth
  PROVE  Spec => []NeverTooDeep
<1>1. Init => NeverTooDeep
  BY DEF Init, NeverTooDeep
<1>2. IInv /\ NeverTooDeep /\ [Next]_vars => NeverTooDeep'
  <2> SUFFICES ASSUME IInv, NeverTooDeep, [Next]_vars
               PROVE  NeverTooDeep'
    OBVIOUS
  <2>1. ~FrontBreakpoint
    <3>1. Len(queue) <= Cardinality(Slots) /\ Len(queue) \in Nat
      BY QueueFits, LenProperties DEF IInv, TypeOK
    <3>2. Cardinality(Slots) \in Nat
      BY FS_CardinalityType
    <3>3. QED
      BY <3>1, <3>2, PumpAssumption DEF FrontBreakpoint
  <2>2. QED
    BY <2>1 DEF NeverTooDeep, Next, MainLoop, vars, MainGet, MainPost, IsrSend,
                MainDrop, IsrDrop, InitDone, FrontEmpty, FrontMessage,
                CallListener, InvokeReturns, Remove
<1>3. QED
  BY <1>1, <1>2, PumpInvariant, PTL DEF Spec

-----------------------------------------------------------------------------
(* The pump implements MessageChannel. *)

(* The waiting values are the posted ones the last listener has not heard. *)
LEMMA WaitingIsUnheard ==
  ASSUME IInv, NumListeners > 0
  PROVE  Waiting = [i \in 1..(Len(posted) - Len(Handled)) |->
                      posted[i + Len(Handled)]]
<1>1. /\ Len(queue) \in Nat /\ Len(posted) \in Nat /\ done \in Nat
      /\ Len(posted) = done + Len(queue)
  BY LenProperties DEF IInv, TypeOK, NothingLost
<1>2. Len(Handled) = done \/ Len(Handled) = done + 1
  BY PumpAssumption DEF IInv, LoopShape, Handled
<1>3. ASSUME NEW i \in 1..(Len(posted) - Len(Handled))
      PROVE  payload[queue[i + Len(Handled) - done]] = posted[i + Len(Handled)]
  <2>1. /\ i + Len(Handled) - done \in 1..Len(queue)
        /\ done + (i + Len(Handled) - done) = i + Len(Handled)
    BY <1>1, <1>2
  <2>2. QED
    BY <2>1 DEF IInv, NothingLost
<1>4. QED
  BY <1>3 DEF Waiting

(* Steps that neither post nor call the last listener are invisible.       *)
LEMMA QuietStep ==
  ASSUME IInv, IInv', NumListeners > 0, posted' = posted,
         heard'[NumListeners] = heard[NumListeners]
  PROVE  UNCHANGED <<Waiting, Handled>>
<1>1. Handled' = Handled
  BY DEF Handled
<1>2. Waiting' = [i \in 1..(Len(posted') - Len(Handled')) |->
                    posted'[i + Len(Handled')]]
  <2>1. (NumListeners > 0)'
    OBVIOUS
  <2>2. (Waiting = [i \in 1..(Len(posted) - Len(Handled)) |->
                      posted[i + Len(Handled)]])'
    BY <2>1, WaitingIsUnheard, PTL
  <2>3. QED
    BY <2>2
<1>3. QED
  BY <1>1, <1>2, WaitingIsUnheard

(* The same characterisation of the waiting values after a step.           *)
LEMMA WaitingIsUnheardNext ==
  ASSUME IInv', NumListeners > 0
  PROVE  Waiting' = [i \in 1..(Len(posted') - Len(Handled')) |->
                       posted'[i + Len(Handled')]]
<1>1. (NumListeners > 0)'
  OBVIOUS
<1>2. (Waiting = [i \in 1..(Len(posted) - Len(Handled)) |->
                    posted[i + Len(Handled)]])'
  BY <1>1, WaitingIsUnheard, PTL
<1>3. QED
  BY <1>2

(* How far the last listener is, and the types this rests on.              *)
LEMMA HandledTypes ==
  ASSUME IInv, NumListeners > 0
  PROVE  /\ Handled \in Seq(Values) /\ posted \in Seq(Values)
         /\ Len(Handled) \in Nat /\ Len(posted) \in Nat
         /\ Len(Handled) <= Len(posted)
<1>1. NumListeners \in 1..NumListeners
  BY PumpAssumption
<1>2. Handled \in Seq(Values) /\ posted \in Seq(Values)
  BY <1>1 DEF IInv, TypeOK, Handled
<1>3. Len(Handled) <= Len(posted)
  BY <1>1 DEF IInv, HeardInOrder, Handled
<1>4. QED
  BY <1>2, <1>3, LenProperties

LEMMA PostIsPost ==
  ASSUME IInv, IInv', NumListeners > 0, NEW v \in Values,
         posted' = Append(posted, v), heard' = heard
  PROVE  Channel!Post(v)
<1> DEFINE h == Len(Handled)
           n == Len(posted)
<1>1. Handled' = Handled
  BY DEF Handled
<1>2. /\ h \in Nat /\ n \in Nat /\ h <= n /\ posted \in Seq(Values)
  BY HandledTypes
<1>3. /\ Len(posted') = n + 1
      /\ \A i \in 1..n : posted'[i] = posted[i]
      /\ posted'[n + 1] = v
  BY <1>2, AppendProperties
<1>4. Waiting = [i \in 1..(n - h) |-> posted[i + h]]
  BY WaitingIsUnheard
<1>5. Waiting' = [i \in 1..(n + 1 - h) |-> posted'[i + h]]
  BY <1>1, <1>3, WaitingIsUnheardNext
<1>6. \A i \in 1..(n - h) : posted[i + h] \in Values
  BY <1>2, ElementOfSeq
<1>7. Waiting \in Seq(Values) /\ Len(Waiting) = n - h
  BY <1>2, <1>4, <1>6, IsASeq, LenProperties
<1>8. Append(Waiting, v) = Waiting'
  <2>1. /\ Append(Waiting, v) \in Seq(Values)
        /\ Len(Append(Waiting, v)) = n - h + 1
        /\ \A i \in 1..(n - h) : Append(Waiting, v)[i] = posted[i + h]
        /\ Append(Waiting, v)[n - h + 1] = v
    <3>1. /\ Append(Waiting, v) \in Seq(Values)
          /\ Len(Append(Waiting, v)) = Len(Waiting) + 1
          /\ \A i \in 1..Len(Waiting) : Append(Waiting, v)[i] = Waiting[i]
          /\ Append(Waiting, v)[Len(Waiting) + 1] = v
      BY <1>7, AppendProperties
    <3>2. \A i \in 1..(n - h) : Waiting[i] = posted[i + h]
      BY <1>4
    <3>3. QED
      BY <3>1, <3>2, <1>7
  <2>2. Append(Waiting, v) = [i \in 1..(n - h + 1) |-> Append(Waiting, v)[i]]
    BY <2>1, LenProperties
  <2>3. ASSUME NEW i \in 1..(n - h + 1)
        PROVE  Append(Waiting, v)[i] = posted'[i + h]
    <3>1. CASE i = n - h + 1
      BY <3>1, <2>1, <1>2, <1>3
    <3>2. CASE i \in 1..(n - h)
      <4>1. i + h \in 1..n
        BY <3>2, <1>2
      <4>2. QED
        BY <4>1, <3>2, <2>1, <1>3
    <3>3. i = n - h + 1 \/ i \in 1..(n - h)
      BY <1>2
    <3>4. QED
      BY <3>1, <3>2, <3>3
  <2>4. n - h + 1 = n + 1 - h
    BY <1>2
  <2>5. QED
    BY <2>2, <2>3, <2>4, <1>5
<1>9. QED
  BY <1>1, <1>8 DEF Channel!Post

LEMMA LastCallIsHandle ==
  ASSUME IInv, IInv', NumListeners > 0, CallListener,
         called + 1 = NumListeners
  PROVE  Channel!Handle
<1> DEFINE h == Len(Handled)
           n == Len(posted)
           x == payload[cur]
<1>1. /\ h \in Nat /\ n \in Nat /\ h <= n /\ posted \in Seq(Values)
      /\ Handled \in Seq(Values)
  BY HandledTypes
<1>2. posted' = posted
  BY DEF CallListener
<1>3. Handled' = Append(Handled, x)
  BY PumpAssumption DEF CallListener, Handled, IInv, TypeOK
<1>4. h = done
  <2>1. /\ NumListeners \in 1..NumListeners
        /\ ~(NumListeners <= called)
        /\ pc = "invoke"
    BY PumpAssumption DEF CallListener, IInv, TypeOK
  <2>2. Len(heard[NumListeners]) = done
    BY <2>1 DEF IInv, LoopShape
  <2>3. QED
    BY <2>2 DEF Handled
<1>5. queue # << >> /\ cur = queue[1] /\ queue \in Seq(Slots)
  BY DEF CallListener, IInv, LoopShape, TypeOK
<1>6. 1 \in 1..Len(queue) /\ Len(queue) \in Nat
  BY <1>5, EmptySeq, LenProperties
<1>7. h < n /\ x = posted[h + 1]
  BY <1>1, <1>4, <1>5, <1>6 DEF IInv, NothingLost
<1>8. x \in Values
  BY <1>1, <1>7, ElementOfSeq
<1>9. Len(Handled') = h + 1
  BY <1>1, <1>3, <1>8, AppendProperties
<1>10. Waiting = [i \in 1..(n - h) |-> posted[i + h]]
  BY WaitingIsUnheard
<1>11. Waiting' = [i \in 1..(n - h - 1) |-> posted[i + h + 1]]
  <2>1. Waiting' = [i \in 1..(n - (h + 1)) |-> posted[i + (h + 1)]]
    BY <1>2, <1>9, WaitingIsUnheardNext
  <2>2. n - (h + 1) = n - h - 1 /\ \A i \in Nat : i + (h + 1) = i + h + 1
    BY <1>1
  <2>3. QED
    BY <2>1, <2>2
<1>12. \A i \in 1..(n - h) : posted[i + h] \in Values
  BY <1>1, ElementOfSeq
<1>13. Waiting \in Seq(Values) /\ Len(Waiting) = n - h
  BY <1>1, <1>10, <1>12, IsASeq, LenProperties
<1>14. Waiting # << >>
  BY <1>1, <1>7, <1>13, EmptySeq
<1>15. Head(Waiting) = x
  BY <1>1, <1>7, <1>10, <1>13, <1>14
<1>16. Tail(Waiting) = Waiting'
  <2>1. /\ Tail(Waiting) \in Seq(Values)
        /\ Len(Tail(Waiting)) = n - h - 1
        /\ \A i \in 1..(n - h - 1) : Tail(Waiting)[i] = Waiting[i + 1]
    BY <1>13, <1>14, HeadTailProperties
  <2>2. Tail(Waiting) = [i \in 1..(n - h - 1) |-> Tail(Waiting)[i]]
    BY <2>1, LenProperties
  <2>3. ASSUME NEW i \in 1..(n - h - 1)
        PROVE  Tail(Waiting)[i] = posted[i + h + 1]
    <3>1. i + 1 \in 1..(n - h) /\ (i + 1) + h = i + h + 1
      BY <1>1
    <3>2. QED
      BY <3>1, <2>1, <1>10
  <2>4. QED
    BY <2>2, <2>3, <1>11
<1>17. QED
  BY <1>3, <1>14, <1>15, <1>16 DEF Channel!Handle

(* The pump implements a channel that hands every posted value on once and *)
(* in order, whatever its buffers and wherever interrupts strike.          *)
THEOREM PumpImplementsChannel ==
  ASSUME NumListeners > 0
  PROVE  Spec => ImplementsChannel
<1>1. Init => Channel!Init
  <2> SUFFICES ASSUME Init PROVE Channel!Init
    OBVIOUS
  <2>1. Handled = << >>
    BY PumpAssumption DEF Init, Handled
  <2>2. Len(posted) - Len(Handled) = 0
    BY <2>1, EmptySeq DEF Init
  <2>3. Waiting = [i \in 1..0 |-> payload[queue[i + Len(Handled) - done]]]
    BY <2>2 DEF Waiting
  <2>4. Waiting = << >>
    BY <2>3
  <2>5. QED
    BY <2>1, <2>4 DEF Channel!Init
<1>2. IInv /\ IInv' /\ [Next]_vars
        => [Channel!Next]_<<Waiting, Handled>>
  <2> SUFFICES ASSUME IInv, IInv', [Next]_vars
               PROVE  [Channel!Next]_<<Waiting, Handled>>
    OBVIOUS
  <2>1. ASSUME NEW b \in Buffers, NEW s \in Slots, NEW v \in Values,
               IsrSend(b, s, v)
        PROVE  Channel!Next
    BY <2>1, PostIsPost DEF IsrSend, Channel!Next
  <2>2. CASE MainPost
    <3>1. payload[held] \in Values
      BY <2>2 DEF MainPost, IInv, LoopShape
    <3>2. QED
      BY <2>2, <3>1, PostIsPost DEF MainPost, Channel!Next
  <2>3. CASE CallListener /\ called + 1 = NumListeners
    BY <2>3, LastCallIsHandle DEF Channel!Next
  <2>4. CASE CallListener /\ called + 1 # NumListeners
    <3>1. heard'[NumListeners] = heard[NumListeners]
      BY <2>4, PumpAssumption DEF CallListener, IInv, TypeOK
    <3>2. QED
      BY <2>4, <3>1, QuietStep DEF CallListener
  <2>5. CASE UNCHANGED <<posted, heard>>
    BY <2>5, QuietStep
  <2>6. QED
    BY <2>1, <2>2, <2>3, <2>4, <2>5
       DEF Next, MainLoop, vars, MainGet, MainDrop, IsrDrop, InitDone,
           FrontEmpty, FrontMessage, FrontBreakpoint, InvokeReturns, Remove
<1>3. QED
  BY <1>1, <1>2, PumpInvariant, PTL DEF Spec, ImplementsChannel, Channel!Spec
=============================================================================
