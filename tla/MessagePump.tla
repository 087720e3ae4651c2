---------------------------- MODULE MessagePump ----------------------------
(***************************************************************************)
(* The message pump of cranc: fixed message buffers, the one global queue  *)
(* of posted messages, and the main loop that hands every message to its   *)
(* listeners.                                                              *)
(*                                                                         *)
(* A message is in use exactly while it is linked into the queue.  Sending *)
(* takes two separately locked steps: getFreeMessage finds an unlinked     *)
(* slot and fills it, post links it.  The main loop may be interrupted     *)
(* between them; an interrupt handler is not interrupted by the main loop, *)
(* so its two steps are one step here.                                     *)
(***************************************************************************)
EXTENDS Naturals, Sequences

CONSTANTS
  Buffers,      \* the MessageBufferMemory objects
  Capacity,     \* slots of each buffer (template argument N)
  Context,      \* "main" or "isr": where the code sends from this buffer
  Values,       \* payloads
  NoValue,      \* the empty optional of a slot never filled
  NoSlot,       \* a null Message*
  NumListeners, \* listeners of a message, called in list order
  MaxDepth,     \* frontMessage stops at a breakpoint above this depth (16)
  MaxPosts      \* bound: messages posted in a behaviour

Slots == UNION {{b} \X (1..Capacity[b]) : b \in Buffers}

ASSUME PumpAssumption ==
  /\ Capacity \in [Buffers -> Nat \ {0}]
  /\ Context \in [Buffers -> {"main", "isr"}]
  /\ NoSlot \notin Slots
  /\ NoValue \notin Values
  /\ NumListeners \in Nat
  /\ MaxDepth \in Nat
  /\ MaxPosts \in Nat

VARIABLES
  queue,    \* the linked list of posted messages, front first
  payload,  \* the optional payload in each slot
  pc,       \* where the main loop is
  cur,      \* msg in main(): the message being processed
  called,   \* how many listeners of cur have been called
  held,     \* slot main got from getFreeMessage and has not posted yet
  posted,   \* history: payloads in the order they were posted
  heard,    \* history: payloads each listener was called with
  done      \* history: number of messages removed from the queue

vars == <<queue, payload, pc, cur, called, held, posted, heard, done>>

Linked == {queue[i] : i \in 1..Len(queue)}

(* Faulty variant: in_use is not asked. *)
FirstFreeIgnoresUse(b, s) == s[1] = b

(* getFreeMessage: the first slot of the buffer that is not in use.        *)
FirstFree(b, s) ==
  /\ s[1] = b
  /\ s \notin Linked
  /\ \A i \in 1..(s[2] - 1) : <<b, i>> \in Linked

(* LinkedList::remove of the i-th element.                                 *)
Unlink(q, i) == [j \in 1..(Len(q) - 1) |-> IF j < i THEN q[j] ELSE q[j + 1]]

Exhausted(b) == \A i \in 1..Capacity[b] : <<b, i>> \in Linked

Init ==
  /\ queue = << >>
  /\ payload = [s \in Slots |-> NoValue]
  /\ pc = "init"
  /\ cur = NoSlot
  /\ called = 0
  /\ held = NoSlot
  /\ posted = << >>
  /\ heard = [l \in 1..NumListeners |-> << >>]
  /\ done = 0

-----------------------------------------------------------------------------
(* Senders.  Code in thread mode sends while the modules are initialised   *)
(* and from a listener.                                                    *)

MainSends == pc \in {"init", "invoke"} /\ held = NoSlot

MainGet(b, s, v) ==
  /\ MainSends
  /\ Context[b] = "main"
  /\ Len(posted) < MaxPosts
  /\ FirstFree(b, s)
  /\ payload' = [payload EXCEPT ![s] = v]
  /\ held' = s
  /\ UNCHANGED <<queue, pc, cur, called, posted, heard, done>>

(* Faulty variant: insertNext on the head, a stack instead of a queue. *)
MainPostInFront ==
  /\ held # NoSlot
  /\ queue' = <<held>> \o queue
  /\ posted' = Append(posted, payload[held])
  /\ held' = NoSlot
  /\ UNCHANGED <<payload, pc, cur, called, heard, done>>

MainPost ==
  /\ held # NoSlot
  /\ queue' = Append(queue, held)
  /\ posted' = Append(posted, payload[held])
  /\ held' = NoSlot
  /\ UNCHANGED <<payload, pc, cur, called, heard, done>>

IsrSend(b, s, v) ==
  /\ Context[b] = "isr"
  /\ Len(posted) < MaxPosts
  /\ FirstFree(b, s)
  /\ payload' = [payload EXCEPT ![s] = v]
  /\ queue' = Append(queue, s)
  /\ posted' = Append(posted, v)
  /\ UNCHANGED <<pc, cur, called, held, heard, done>>

(* getFreeMessage returns nullptr: the sender returns, the value is gone.  *)
MainDrop(b) ==
  /\ MainSends
  /\ Context[b] = "main"
  /\ Exhausted(b)
  /\ UNCHANGED vars

IsrDrop(b) ==
  /\ Context[b] = "isr"
  /\ Exhausted(b)
  /\ UNCHANGED vars

-----------------------------------------------------------------------------
(* The main loop. *)

InitDone ==
  /\ pc = "init"
  /\ held = NoSlot
  /\ pc' = "front"
  /\ UNCHANGED <<queue, payload, cur, called, held, posted, heard, done>>

FrontEmpty ==
  /\ pc = "front"
  /\ queue = << >>
  /\ UNCHANGED vars

FrontMessage ==
  /\ pc = "front"
  /\ queue # << >>
  /\ Len(queue) <= MaxDepth
  /\ cur' = Head(queue)
  /\ called' = 0
  /\ pc' = "invoke"
  /\ UNCHANGED <<queue, payload, held, posted, heard, done>>

(* Faulty variant: the depth check is off by one. *)
FrontBreakpointEarly ==
  /\ pc = "front"
  /\ Len(queue) >= MaxDepth
  /\ pc' = "breakpoint"
  /\ UNCHANGED <<queue, payload, cur, called, held, posted, heard, done>>

FrontBreakpoint ==
  /\ pc = "front"
  /\ Len(queue) > MaxDepth
  /\ pc' = "breakpoint"
  /\ UNCHANGED <<queue, payload, cur, called, held, posted, heard, done>>

(* The next listener is called with a reference to the payload in its slot. *)
CallListener ==
  /\ pc = "invoke"
  /\ held = NoSlot
  /\ called < NumListeners
  /\ called' = called + 1
  /\ heard' = [heard EXCEPT ![called + 1] = Append(@, payload[cur])]
  /\ UNCHANGED <<queue, payload, pc, cur, held, posted, done>>

(* All listeners have returned. *)
InvokeReturns ==
  /\ pc = "invoke"
  /\ held = NoSlot
  /\ called = NumListeners
  /\ pc' = "remove"
  /\ UNCHANGED <<queue, payload, cur, called, held, posted, heard, done>>

Remove ==
  /\ pc = "remove"
  /\ \E i \in 1..Len(queue) : queue[i] = cur /\ queue' = Unlink(queue, i)
  /\ pc' = "front"
  /\ cur' = NoSlot
  /\ called' = 0
  /\ done' = done + 1
  /\ UNCHANGED <<payload, held, posted, heard>>

MainLoop ==
  \/ FrontEmpty
  \/ FrontMessage
  \/ FrontBreakpoint
  \/ CallListener
  \/ InvokeReturns
  \/ Remove

Next ==
  \/ \E b \in Buffers, s \in Slots, v \in Values : MainGet(b, s, v)
  \/ MainPost
  \/ \E b \in Buffers, s \in Slots, v \in Values : IsrSend(b, s, v)
  \/ \E b \in Buffers : MainDrop(b)
  \/ \E b \in Buffers : IsrDrop(b)
  \/ InitDone
  \/ MainLoop

Spec == Init /\ [][Next]_vars

(* Thread mode runs whenever no interrupt is being served, so each step of *)
(* the main program that stays possible is eventually taken.  No sender is *)
(* obliged to send.                                                        *)
Fairness == WF_vars(MainPost) /\ WF_vars(InitDone) /\ WF_vars(MainLoop)

FairSpec == Spec /\ Fairness

-----------------------------------------------------------------------------
(* Properties. *)

(* Every variable has its type; what is linked are slots of the buffers.  *)
TypeOK ==
  /\ queue \in Seq(Slots)
  /\ payload \in [Slots -> Values \cup {NoValue}]
  /\ pc \in {"init", "front", "invoke", "remove", "breakpoint"}
  /\ cur \in Slots \cup {NoSlot}
  /\ called \in 0..NumListeners
  /\ held \in Slots \cup {NoSlot}
  /\ posted \in Seq(Values)
  /\ heard \in [1..NumListeners -> Seq(Values)]
  /\ done \in Nat

(* A slot is never linked twice, and the slot main is about to link is not *)
(* linked already: getFreeMessage and post are two locked steps, and an    *)
(* interrupt may send from another buffer between them.                    *)
NoDoubleLink ==
  /\ \A i, j \in 1..Len(queue) : queue[i] = queue[j] => i = j
  /\ held \notin Linked

(* Every listener hears the posted payloads in the order they were posted, *)
(* none twice and none altered, although a slot is reused as soon as its   *)
(* message is removed and senders run while listeners read the payload.    *)
HeardInOrder ==
  \A l \in 1..NumListeners :
    /\ Len(heard[l]) <= Len(posted)
    /\ \A n \in 1..Len(heard[l]) : heard[l][n] = posted[n]

(* Nothing that was posted disappears: what is not removed yet waits in    *)
(* the queue with the payload it was posted with.                          *)
NothingLost ==
  /\ Len(posted) = done + Len(queue)
  /\ \A i \in 1..Len(queue) : payload[queue[i]] = posted[done + i]

(* If the buffers together have no more than MaxDepth slots, the check of  *)
(* the queue depth in frontMessage never stops the main loop.              *)
NeverTooDeep == pc # "breakpoint"

(* Every posted message reaches every listener, unless the main loop stops *)
(* at the breakpoint; and it only does if there are more slots than it     *)
(* tolerates in the queue.                                                 *)
Delivered ==
  \A n \in 1..MaxPosts : \A l \in 1..NumListeners :
    (Len(posted) >= n) ~>
      (Len(heard[l]) >= n \/ (pc = "breakpoint" /\ Len(queue) > MaxDepth))

-----------------------------------------------------------------------------
(* The inductive invariant behind the safety properties. *)

(* What the program counter of the main loop says about the rest.          *)
LoopShape ==
  /\ pc \in {"invoke", "remove"} => queue # << >> /\ cur = queue[1]
  /\ held # NoSlot => /\ pc \in {"init", "invoke"}
                      /\ Context[held[1]] = "main"
                      /\ payload[held] \in Values
  /\ \A l \in 1..NumListeners :
       Len(heard[l]) =
         IF pc = "remove" \/ (pc = "invoke" /\ l <= called)
         THEN done + 1 ELSE done

IInv ==
  /\ TypeOK
  /\ NoDoubleLink
  /\ NothingLost
  /\ LoopShape
  /\ HeardInOrder

(* The pump implements MessageChannel: a value is handled when the last    *)
(* listener of its message is called.                                      *)
Handled == heard[NumListeners]
Waiting == [i \in 1..(Len(posted) - Len(Handled)) |->
              payload[queue[i + Len(Handled) - done]]]

Channel == INSTANCE MessageChannel
             WITH waiting <- Waiting, handled <- Handled

(* The pump is a channel: what is posted is handled once and in order.     *)
ImplementsChannel == Channel!Spec
=============================================================================
