------------------------------ MODULE UsbCom ------------------------------
(***************************************************************************)
(* The worker of the "general interface" (misc/usbCom.cpp): a coroutine    *)
(* that takes a request packet by packet, answers it packet by packet, and *)
(* changes from the USB interrupt to the main loop (SwitchToMainLoop) to   *)
(* read or to write a configuration value.  The host may restart it at any *)
(* time by choosing an altsetting.                                         *)
(*                                                                         *)
(* The completion of a transfer and the interrupt it causes are one step,  *)
(* with the run of the worker up to its next suspension.  In thread mode   *)
(* the worker takes a step per co_await, and interrupts come in between.   *)
(***************************************************************************)
EXTENDS Naturals, Sequences

CONSTANTS
  Shapes,       \* the requests: records of Shape
  Capacity,     \* packets that fit into rx_buffer
  AnytimeHost,  \* whether the host changes the altsetting also while the
                \* worker is on its way to, or in, thread mode
  MaxRequests,  \* bound: requests of the host
  MaxWorkers    \* bound: workers started

(* What tells requests apart: "local" (operations 0 to 3), "get", "set",   *)
(* "bad" (the worker returns), "unknown" (operation above 5); the packets  *)
(* they come in, and the packets of the answer.                            *)
Shape == [op : {"local", "get", "set", "bad", "unknown"},
          parts : Nat \ {0}, answers : Nat]

ASSUME UsbComAssumption ==
  /\ \A s \in Shapes :
       /\ s \in Shape
       /\ s.op # "set" => s.parts = 1
       /\ s.op \in {"bad", "unknown"} <=> s.answers = 0
  /\ Capacity \in Nat \ {0}
  /\ AnytimeHost \in BOOLEAN
  /\ MaxRequests \in Nat
  /\ MaxWorkers \in Nat

VARIABLES
  active,  \* iface.cur_active_altsetting has a value
  gen,     \* which worker is in worker_task
  w,       \* the worker, its buffers, endpoints and awaitables
  msgs,    \* the SwitchMsgs in the pump: the workers their handles are of
  reqs,    \* history: the shapes of the requests begun
  sent,    \* packets the host has sent of the last request
  got,     \* history: packets the host has read for each request
  applied  \* history: what setValue was called with

vars == <<active, gen, w, msgs, reqs, sent, got, applied>>

(* pc: "gone"; "end" after co_return; suspended on "rx", "rxdata", "tx" or *)
(* "queued" for the main loop; in thread mode, about to co_await after     *)
(* "listening" or "collecting" (start_rx) or "sending" (send); and the     *)
(* undefined behaviours "nomessage" (await_resume without a message) and   *)
(* "dangling" (a destroyed coroutine is run).                              *)
(* rx, tx: has_value and handle of usb_rx and usb_tx_done.  armed: the OUT *)
(* buffer is available.  flight: the request whose answer is in the IN     *)
(* buffer.  buf: the packets in rx_buffer.  response: a request, and the   *)
(* packets left of its answer.                                             *)
Init ==
  /\ active = FALSE
  /\ gen = 0
  /\ w = [pc |-> "gone",
          rx |-> [val |-> FALSE, handle |-> 0],
          tx |-> [val |-> FALSE, handle |-> 0],
          armed |-> FALSE, flight |-> 0, buf |-> <<>>,
          response |-> [id |-> 0, left |-> 0]]
  /\ msgs = <<>>
  /\ reqs = <<>>
  /\ sent = 0
  /\ got = <<>>
  /\ applied = <<>>

Cleared == [val |-> FALSE, handle |-> 0]
InThread == w.pc \in {"listening", "collecting", "sending"}
Undefined == w.pc \in {"nomessage", "dangling"}

-----------------------------------------------------------------------------
(* The pieces of the worker's code between its suspensions: functions from *)
(* a worker to the worker at the next co_await.                            *)

Listen(v) == [v EXCEPT !.rx = Cleared, !.armed = TRUE, !.pc = "listening"]

(* Faulty variant: the endpoint is not started again.                      *)
CollectUnarmed(v) == [v EXCEPT !.pc = "collecting"]

Collect(v) == [v EXCEPT !.armed = TRUE, !.pc = "collecting"]

(* Faulty variant: a note left by an earlier packet stays.                 *)
SendWithoutClear(v) ==
  IF v.response.left = 0 THEN Listen(v)
  ELSE [v EXCEPT !.pc = "sending", !.flight = v.response.id,
                 !.response.left = @ - 1]

(* The head of the loop that sends the response. *)
Send(v) ==
  IF v.response.left = 0 THEN Listen(v)
  ELSE [v EXCEPT !.pc = "sending", !.tx = Cleared,
                 !.flight = v.response.id, !.response.left = @ - 1]

(* The response is filled in and the receive buffer is free again. *)
Answer(v, all) ==
  LET id == v.buf[1].id
  IN Send([v EXCEPT !.response = [id |-> id, left |-> all[id].answers],
                    !.buf = <<>>])

(* co_await sw2main: ready at once in thread mode, where await_resume then *)
(* finds no message.                                                       *)
Switch(v, isr) == [v EXCEPT !.pc = IF isr THEN "queued" ELSE "nomessage"]

(* Faulty variant: the last packet of a payload is not waited for.         *)
IncompleteOffByOne(v, all) == Len(v.buf) + 1 < all[v.buf[1].id].parts

(* A payload of which packets are missing. *)
Incomplete(v, all) == Len(v.buf) < all[v.buf[1].id].parts

(* What the worker does with what it has received. *)
Dispatch(v, isr, all) ==
  LET op == all[v.buf[1].id].op
  IN IF op = "bad" THEN [v EXCEPT !.pc = "end"]
     ELSE IF op = "unknown" THEN Send([v EXCEPT !.buf = <<>>])
     ELSE IF op = "local" THEN Answer(v, all)
     ELSE IF op = "set" /\ Incomplete(v, all) THEN Collect(v)
     ELSE Switch(v, isr)

(* await_suspend of the co_await the worker has come to. *)
Suspend(v, g) ==
  IF v.pc = "listening" THEN [v EXCEPT !.pc = "rx", !.rx.handle = g]
  ELSE IF v.pc = "collecting" THEN [v EXCEPT !.pc = "rxdata", !.rx.handle = g]
  ELSE IF v.pc = "sending" THEN [v EXCEPT !.pc = "tx", !.tx.handle = g]
  ELSE v

(* The worker runs in an interrupt as far as v; a switch posts a message.  *)
RunInIsr(v) ==
  /\ w' = Suspend(v, gen)
  /\ msgs' = IF v.pc = "queued" THEN Append(msgs, gen) ELSE msgs

-----------------------------------------------------------------------------
(* The host moves packets. *)

(* The cb of the OUT endpoint: data that does not fit is dropped; other    *)
(* data is stored and resumes the worker, or is noted for its co_await.    *)
Received(packet, all) ==
  IF Len(w.buf) = Capacity
  THEN /\ w' = [w EXCEPT !.armed = FALSE]
       /\ UNCHANGED msgs
  ELSE LET v == [w EXCEPT !.armed = FALSE, !.buf = Append(@, packet)]
       IN IF w.rx.handle = 0
          THEN /\ w' = [v EXCEPT !.rx.val = TRUE]
               /\ UNCHANGED msgs
          ELSE IF w.rx.handle # gen
          THEN /\ w' = [v EXCEPT !.pc = "dangling"]
               /\ UNCHANGED msgs
          ELSE RunInIsr(Dispatch([v EXCEPT !.rx = Cleared], TRUE, all))

(* The first packet of a request. *)
HostBegins ==
  \E s \in Shapes :
    /\ Len(reqs) < MaxRequests
    /\ active /\ w.armed /\ ~Undefined
    /\ reqs # <<>> => sent \in {0, reqs[Len(reqs)].parts}
    /\ reqs' = Append(reqs, s)
    /\ sent' = 1
    /\ got' = Append(got, 0)
    /\ Received([id |-> Len(reqs) + 1, part |-> 1], reqs')
    /\ UNCHANGED <<active, gen, applied>>

(* A further packet. *)
HostGoesOn ==
  /\ active /\ w.armed /\ ~Undefined
  /\ sent # 0 /\ sent < reqs[Len(reqs)].parts
  /\ sent' = sent + 1
  /\ Received([id |-> Len(reqs), part |-> sent'], reqs)
  /\ UNCHANGED <<active, gen, reqs, got, applied>>

(* A packet of the answer is read, and the cb of the IN endpoint resumes   *)
(* the worker or leaves a note.                                            *)
HostReads ==
  /\ active /\ w.flight # 0 /\ ~Undefined
  /\ got' = [got EXCEPT ![w.flight] = @ + 1]
  /\ LET v == [w EXCEPT !.flight = 0]
     IN IF w.tx.handle = 0
        THEN /\ w' = [v EXCEPT !.tx.val = TRUE]
             /\ UNCHANGED msgs
        ELSE IF w.tx.handle # gen
        THEN /\ w' = [v EXCEPT !.pc = "dangling"]
             /\ UNCHANGED msgs
        ELSE RunInIsr(Send([v EXCEPT !.tx = Cleared]))
  /\ UNCHANGED <<active, gen, reqs, sent, applied>>

-----------------------------------------------------------------------------
(* Thread mode: the trampoline, and the worker after it. *)

Reply == Answer(w, reqs)

(* The listener of SwitchMsg resumes the handle: the worker reads or sets  *)
(* the value under the lock and goes on without it.                        *)
Trampoline ==
  /\ msgs # <<>> /\ ~InThread /\ ~Undefined
  /\ msgs' = Tail(msgs)
  /\ IF Head(msgs) # gen \/ w.pc # "queued"
     THEN /\ w' = [w EXCEPT !.pc = "dangling"]
          /\ UNCHANGED applied
     ELSE /\ w' = Reply
          /\ applied' = IF reqs[w.buf[1].id].op = "set"
                        THEN Append(applied, w.buf) ELSE applied
  /\ UNCHANGED <<active, gen, reqs, sent, got>>

(* co_await usb_tx_done in thread mode. *)
ThreadAwaitsTx ==
  /\ w.pc = "sending"
  /\ w' = IF w.tx.val THEN Send([w EXCEPT !.tx = Cleared])
          ELSE Suspend(w, gen)
  /\ UNCHANGED <<active, gen, msgs, reqs, sent, got, applied>>

(* co_await usb_rx in thread mode. *)
ThreadAwaitsRx ==
  /\ w.pc \in {"listening", "collecting"}
  /\ w' = IF w.rx.val THEN Dispatch([w EXCEPT !.rx = Cleared], FALSE, reqs)
          ELSE Suspend(w, gen)
  /\ UNCHANGED <<active, gen, msgs, reqs, sent, got, applied>>

-----------------------------------------------------------------------------
(* The host chooses an altsetting or none: on_altsetting_changed.          *)

MayChange == /\ ~Undefined
             /\ AnytimeHost \/ (~InThread /\ w.pc # "queued")

(* Faulty variant: the buffer control registers are left alone.            *)
EndpointsKept(v) == v

(* The endpoints are cleared. *)
EndpointsOff(v) == [v EXCEPT !.armed = FALSE, !.flight = 0]

(* The old worker is destroyed, wherever it is, and a new one runs up to   *)
(* its first co_await.  Only what it assigns itself is reset.              *)
Enable ==
  /\ MayChange
  /\ gen < MaxWorkers
  /\ gen' = gen + 1
  /\ active' = TRUE
  /\ w' = IF InThread THEN [w EXCEPT !.pc = "dangling"]
          ELSE Suspend(Listen([EndpointsOff(w) EXCEPT !.buf = <<>>]), gen')
  /\ sent' = 0
  /\ UNCHANGED <<msgs, reqs, got, applied>>

Disable ==
  /\ MayChange
  /\ active
  /\ gen < MaxWorkers
  /\ active' = FALSE
  /\ w' = [EndpointsOff(w) EXCEPT !.pc = IF InThread THEN "dangling"
                                         ELSE "gone"]
  /\ sent' = 0
  /\ UNCHANGED <<gen, msgs, reqs, got, applied>>

Next ==
  \/ HostBegins \/ HostGoesOn \/ HostReads
  \/ Trampoline \/ ThreadAwaitsTx \/ ThreadAwaitsRx
  \/ Enable \/ Disable

Spec == Init /\ [][Next]_vars

(* The main loop runs, and a host that has begun a request sends the rest  *)
(* of it and reads the answer.                                             *)
FairSpec == /\ Spec
            /\ WF_vars(HostGoesOn) /\ WF_vars(HostReads)
            /\ WF_vars(Trampoline \/ ThreadAwaitsTx \/ ThreadAwaitsRx)

-----------------------------------------------------------------------------
(* Properties. *)

(* Every variable has its type. *)
TypeOK ==
  LET Ids == 0..MaxRequests
      Note == [val : BOOLEAN, handle : 0..MaxWorkers]
  IN /\ active \in BOOLEAN
     /\ gen \in 0..MaxWorkers
     /\ w.pc \in {"gone", "end", "rx", "rxdata", "tx", "queued", "listening",
                  "collecting", "sending", "nomessage", "dangling"}
     /\ w.rx \in Note /\ w.tx \in Note
     /\ w.armed \in BOOLEAN /\ w.flight \in Ids
     /\ Len(w.buf) <= Capacity
     /\ w.response.id \in Ids /\ w.response.left \in Nat
     /\ \A i \in DOMAIN msgs : msgs[i] \in 1..gen
     /\ Len(reqs) <= MaxRequests /\ \A i \in DOMAIN reqs : reqs[i] \in Shapes
     /\ DOMAIN got = DOMAIN reqs

(* An answer on its way to the host is the answer to the last request, of  *)
(* which the host has sent everything: no restart of the worker in the     *)
(* middle of an answer lets the rest of it pass for the next one.  The     *)
(* exception is a request with an operation that the worker does not know: *)
(* it sends what such a restart has left in response.                      *)
OwnAnswer ==
  /\ w.flight # 0 =>
       /\ sent = reqs[Len(reqs)].parts
       /\ w.flight = Len(reqs) \/ reqs[Len(reqs)].op = "unknown"
  /\ \A i \in DOMAIN reqs : got[i] <= reqs[i].answers

(* The cb of the OUT endpoint writes into rx_buffer only while the worker  *)
(* waits for it, never while a request is read from it, in the interrupt,  *)
(* in the main loop or in between.                                         *)
BufferIsOwned ==
  w.armed => w.pc \in {"rx", "rxdata", "listening", "collecting"}

(* A worker that waits for an endpoint is the one its awaitable will       *)
(* resume, and the transfer that does it is under way: an interrupt        *)
(* between start_rx or send and the co_await in thread mode is not lost.   *)
(* The exception is a packet that did not fit.                             *)
NeverStranded ==
  /\ w.pc = "tx" => w.flight # 0 /\ w.tx.handle = gen
  /\ w.pc \in {"rx", "rxdata"} =>
       w.rx.handle = gen /\ (w.armed \/ Len(w.buf) = Capacity)

(* setValue gets the packets of one request, all of them and in order, and *)
(* once; and the answer to a request to set a value is only sent after it. *)
SetsAreWhole ==
  /\ \A j \in DOMAIN applied :
       LET id == applied[j][1].id
       IN /\ applied[j] = [p \in 1..reqs[id].parts |-> [id |-> id, part |-> p]]
          /\ \A k \in 1..j-1 : applied[k][1].id < id
  /\ \A i \in DOMAIN reqs :
       reqs[i].op = "set" /\ (got[i] > 0 \/ w.flight = i) =>
         \E j \in DOMAIN applied : applied[j][1].id = i

(* Whatever restarts the worker in between: rx_buffer is only filled while *)
(* it waits for it, the transfer it waits for is under way and will resume *)
(* it, and no destroyed worker is run through a handle that its            *)
(* predecessor left in usb_rx or usb_tx_done, which only it clears.        *)
RunsLive ==
  /\ TypeOK
  /\ BufferIsOwned
  /\ NeverStranded
  /\ w.pc # "dangling"

(* What the trampoline asserts of a message it is about to resume          *)
(* (SwitchToMainLoop.cpp:16): it has a coroutine to resume, the one that   *)
(* waits for the main loop.                                                *)
PostedHandleIsLive == \A i \in DOMAIN msgs : msgs[i] = gen /\ w.pc = "queued"

(* Behind a co_await of SwitchToMainLoop there is the message that         *)
(* await_suspend asserts and await_resume dereferences                     *)
(* (SwitchToMainLoop.h:21 and 25).                                         *)
SwitchHasMessage == w.pc # "nomessage"

(* A request the worker knows and has room for is answered completely,     *)
(* unless the host restarts the worker.                                    *)
Answered ==
  \A i \in 1..MaxRequests, g \in 0..MaxWorkers :
    (/\ Len(reqs) = i /\ gen = g /\ active /\ sent # 0
     /\ reqs[i].parts <= Capacity) ~>
    (\/ i \in DOMAIN reqs /\ got[i] = reqs[i].answers
     \/ gen # g \/ ~active
     \/ w.pc = "nomessage")

=============================================================================
