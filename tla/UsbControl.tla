----------------------------- MODULE UsbControl -----------------------------
(***************************************************************************)
(* The control pipe: the host's transfers on endpoint 0, the interrupt     *)
(* that handles SETUP, completions and bus reset in this order, and the    *)
(* coroutines that answer.  A step is one of the interrupt's or of a       *)
(* coroutine's between two co_awaits; the host goes on at any time, also   *)
(* with a SETUP or a reset in the middle of a transfer, and leaves its     *)
(* traces in the pending bits.  A packet that was offered, and a buffer    *)
(* that waits for one, stay when the transfer is given up.                 *)
(*                                                                         *)
(* Requests are told apart by what they make the device do: "chunks" are   *)
(* answered packet by packet with tx_data, "short" ones with one prefilled *)
(* packet; "config" is acknowledged with tx_data, "ack" (interfaces,       *)
(* features) and "address" with a prefilled packet of no length; "bad"     *)
(* ones are stalled, and "long" ones have more data than the buffer holds. *)
(* parts is the number of data packets.                                    *)
(***************************************************************************)
EXTENDS Naturals, Sequences

CONSTANTS
  Requests,     \* the requests of the host: records of type, in, parts
  MaxTransfers, \* bound: control transfers
  MaxResets     \* bound: bus resets

VARIABLES
  host,  \* transfer, its request, stage, packets, toggle, address, resets
  got,   \* history: packets the host has accepted in this transfer
  lost,  \* history: one of its packets had a PID that was not expected
  rested, \* history: its SETUP found the device at rest
  pend,  \* the interrupt bits: SETUP, IN and OUT completions, bus reset
  todo,  \* what the running interrupt has read of them and not yet handled
  ep,    \* the buffer control registers of endpoint 0
  dev    \* the coroutine, the two awaitables, the next PIDs, the address

vars == <<host, got, lost, rested, pend, todo, ep, dev>>

Off == [val |-> FALSE, handle |-> 0]
NoRequest == [type |-> "none", in |-> FALSE, parts |-> 0]
Packet(n, k) == [n |-> n, k |-> k]
EmptyBuffer == [avail |-> FALSE, pid |-> 0, pkt |-> Packet(0, 0)]

Init ==
  /\ host = [n |-> 0, req |-> NoRequest, stage |-> "idle", k |-> 0, pid |-> 0,
             addr |-> 0, resets |-> 0]
  /\ got = << >>
  /\ lost = FALSE
  /\ rested = TRUE
  /\ pend = {}
  /\ todo = {}
  /\ ep = [in |-> EmptyBuffer, out |-> EmptyBuffer, stall |-> FALSE]
  /\ dev = [pc |-> "none", n |-> 0, req |-> NoRequest, k |-> 0,
            tx |-> Off, rx |-> Off, pidIn |-> 0, pidOut |-> 0, addr |-> 0]

Flip(pid) == 1 - pid

(* No coroutine runs; and the interrupt has nothing to do either.          *)
Suspended == dev.pc \in {"none", "tx", "rx", "ack"}
Quiet == Suspended /\ todo = {} /\ pend = {}

-----------------------------------------------------------------------------
(* The host. *)

UnchangedByHost == UNCHANGED <<rested, todo, dev>>

(* Tokens are for one device. *)
Addressed == dev.addr = host.addr

(* Nothing is left of the transfer before: no packet is offered or awaited *)
(* and no completion is noted. *)
AtRest == Quiet /\ ~ep.in.avail /\ ~ep.out.avail /\ ~dev.tx.val

(* SETUP is accepted whatever the device does; it ends a stall. *)
HostSetup ==
  /\ host.n < MaxTransfers /\ Addressed
  /\ \E r \in Requests :
       host' = [host EXCEPT !.n = @ + 1, !.req = r, !.k = 0, !.pid = 1,
                  !.stage = CASE r.in -> "in" [] ~r.in /\ r.parts > 0 -> "out"
                              [] OTHER -> "statusIn"]
  /\ got' = << >> /\ lost' = FALSE /\ rested' = AtRest
  /\ pend' = pend \cup {"setup"}
  /\ ep' = [ep EXCEPT !.stall = FALSE]
  /\ UNCHANGED <<todo, dev>>

(* The IN token of a data or status stage finds a packet.  One that is not *)
(* expected is taken for a repetition. *)
HostIn ==
  /\ host.stage \in {"in", "statusIn"}
  /\ ep.in.avail /\ ~ep.stall /\ Addressed
  /\ ep' = [ep EXCEPT !.in.avail = FALSE]
  /\ pend' = pend \cup {"in"}
  /\ LET expected == ep.in.pid = host.pid
         last == host.stage = "statusIn" \/ host.k + 1 = host.req.parts
     IN /\ lost' = (lost \/ ~expected)
        /\ IF expected
             THEN /\ got' = Append(got, ep.in.pkt)
                  /\ host' = [host EXCEPT !.k = @ + 1,
                       !.pid = IF last THEN 1 ELSE Flip(@),
                       !.addr = IF host.req.type = "address" THEN host.n ELSE @,
                       !.stage = CASE @ = "statusIn" -> "idle"
                                   [] @ = "in" /\ last -> "statusOut"
                                   [] OTHER -> @]
             ELSE UNCHANGED <<got, host>>
  /\ UnchangedByHost

(* ... or a stall. *)
HostStalled ==
  /\ host.stage \in {"in", "statusIn"}
  /\ ep.stall /\ Addressed
  /\ host' = [host EXCEPT !.stage = "idle"]
  /\ UNCHANGED <<got, lost, pend, ep>> /\ UnchangedByHost

(* A data packet, or the acknowledgement of an IN transfer.  One that the  *)
(* device does not expect is acknowledged and dropped.                     *)
HostOut ==
  /\ host.stage \in {"out", "statusOut"}
  /\ ep.out.avail /\ Addressed
  /\ LET expected == ep.out.pid = host.pid
     IN /\ lost' = (lost \/ ~expected)
        /\ IF expected THEN ep' = [ep EXCEPT !.out.avail = FALSE] /\ pend' = pend \cup {"out"}
                       ELSE UNCHANGED <<ep, pend>>
  /\ LET last == host.k + 1 = host.req.parts
     IN host' = [host EXCEPT !.k = @ + 1,
                   !.pid = IF last THEN 1 ELSE Flip(@),
                   !.stage = CASE @ = "statusOut" -> "idle"
                               [] @ = "out" /\ last -> "statusIn"
                               [] OTHER -> @]
  /\ UNCHANGED got /\ UnchangedByHost

(* The device only stalls IN: the host gives up sending what is too long.  *)
HostGivesUp ==
  /\ host.stage = "out" /\ host.req.type = "long"
  /\ dev.n = host.n /\ Quiet
  /\ host' = [host EXCEPT !.stage = "idle"]
  /\ UNCHANGED <<got, lost, pend, ep>> /\ UnchangedByHost

HostReset ==
  /\ host.resets < MaxResets
  /\ host' = [host EXCEPT !.stage = "idle", !.addr = 0, !.resets = @ + 1]
  /\ pend' = pend \cup {"reset"}
  /\ UNCHANGED <<got, lost, ep>> /\ UnchangedByHost

Host == HostIn \/ HostStalled \/ HostOut \/ HostGivesUp

-----------------------------------------------------------------------------
(* The interrupt. *)

UnchangedByDevice == UNCHANGED <<host, got, lost, rested>>

(* The bits are tested in this order, the faulty variant's has reset first. *)
OrderResetFirst == [reset |-> 1, setup |-> 2, status |-> 3, in |-> 4, out |-> 5]
Order == [setup |-> 1, status |-> 2, in |-> 3, out |-> 4, reset |-> 5]

Completions == {"in", "out"}

(* ints is read once: of the completions it only tells that there are any. *)
Enter ==
  /\ Suspended /\ todo = {} /\ pend # {}
  /\ todo' = (pend \ Completions) \cup (IF pend \cap Completions # {} THEN {"status"} ELSE {})
  /\ UNCHANGED <<pend, ep, dev>> /\ UnchangedByDevice

(* A bit is cleared before what it stands for is handled. *)
Handling(bit) ==
  /\ Suspended /\ bit \in todo
  /\ \A b \in todo \ {bit} : Order[bit] < Order[b]
  /\ pend' = pend \ {bit}

(* usb_handle_buff_status reads which buffers are done. *)
BuffStatus ==
  /\ Handling("status")
  /\ todo' = (todo \ {"status"}) \cup (pend \cap Completions)
  /\ UNCHANGED <<ep, dev>> /\ UnchangedByDevice

(* on_setup_packet: whatever is going on is destroyed, where it stands.    *)
Setup ==
  /\ Handling("setup") /\ todo' = todo \ {"setup"}
  /\ dev' = [dev EXCEPT !.n = host.n, !.req = host.req, !.k = 0,
               !.pidIn = 1, !.pidOut = 1,
               !.pc = CASE host.req.type = "long" -> "stall"
                        [] host.req.in -> "dispatch" [] OTHER -> "receive"]
  /\ UNCHANGED ep /\ UnchangedByDevice

(* An awaitable resumes the coroutine whose handle it has, if it still     *)
(* exists, or notes the completion. *)
Resumed(a, waits, next) ==
  IF a.handle = 0 THEN [tag |-> dev.pc, a |-> [a EXCEPT !.val = TRUE]]
  ELSE IF a.handle = dev.n /\ waits THEN [tag |-> next, a |-> Off]
  ELSE [tag |-> "dangling", a |-> Off]

TxDone ==
  /\ Handling("in") /\ todo' = todo \ {"in"}
  /\ LET r == Resumed(dev.tx, dev.pc = "tx", "sent")
     IN dev' = [dev EXCEPT !.pc = r.tag, !.tx = r.a]
  /\ UNCHANGED ep /\ UnchangedByDevice

RxDone ==
  /\ Handling("out") /\ todo' = todo \ {"out"}
  /\ LET r == Resumed(dev.rx, dev.pc \in {"rx", "ack"},
                      IF dev.pc = "rx" THEN "received" ELSE "none")
     IN dev' = [dev EXCEPT !.pc = r.tag, !.rx = r.a]
  /\ UNCHANGED ep /\ UnchangedByDevice

Reset ==
  /\ Handling("reset") /\ todo' = todo \ {"reset"}
  /\ dev' = [dev EXCEPT !.addr = 0]
  /\ UNCHANGED ep /\ UnchangedByDevice

-----------------------------------------------------------------------------
(* The coroutines. *)

Runs(pc) == dev.pc = pc
UnchangedByCoroutine == UNCHANGED <<pend, todo>> /\ UnchangedByDevice

(* co_await ep0_tx_done, with the awaitable a. *)
AwaitTx(d, a) ==
  IF a.val THEN [d EXCEPT !.tx = Off, !.pc = "sent"]
  ELSE [d EXCEPT !.tx = [val |-> FALSE, handle |-> d.n], !.pc = "tx"]

(* flush_prefilled_buffer: the register is written whatever it holds.      *)
Flush(pkt) ==
  /\ ep' = [ep EXCEPT !.in = [avail |-> TRUE, pid |-> dev.pidIn, pkt |-> pkt],
                      !.stall = FALSE]
  /\ dev' = [AwaitTx(dev, Off) EXCEPT !.pidIn = Flip(@)]

(* tx_data: without a free buffer the data are dropped, the PID toggles,   *)
(* and what is awaited is the completion of the packet before. *)
TxData(d, pkt) ==
  /\ ep' = IF ep.in.avail THEN ep
           ELSE [ep EXCEPT !.in = [avail |-> TRUE, pid |-> d.pidIn, pkt |-> pkt],
                           !.stall = FALSE]
  /\ dev' = [AwaitTx(d, d.tx) EXCEPT !.pidIn = Flip(@)]

(* start_rx, once the awaitable is cleared. *)
StartRx(next) ==
  /\ ep' = IF ep.out.avail THEN ep
           ELSE [ep EXCEPT !.out.avail = TRUE, !.out.pid = dev.pidOut]
  /\ dev' = [dev EXCEPT !.rx = [val |-> FALSE, handle |-> dev.n], !.pc = next,
               !.pidOut = IF ep.out.avail THEN @ ELSE Flip(@)]

(* The head of the loop of handle_out_control_packet. *)
Receive ==
  /\ Runs("receive")
  /\ IF dev.k < dev.req.parts
       THEN StartRx("rx")
       ELSE dev' = [dev EXCEPT !.pc = "dispatch"] /\ UNCHANGED ep
  /\ UnchangedByCoroutine

Received ==
  /\ Runs("received")
  /\ dev' = [dev EXCEPT !.k = @ + 1, !.pc = "receive"]
  /\ UNCHANGED ep /\ UnchangedByCoroutine

(* dispatch_control_packet: the requests that fill the buffer themselves,  *)
(* with data, *)
DispatchShort ==
  /\ Runs("dispatch") /\ dev.req.type = "short"
  /\ Flush(Packet(dev.n, 1))
  /\ UnchangedByCoroutine

(* to acknowledge an interface's setting or an endpoint's feature, *)
DispatchAck ==
  /\ Runs("dispatch") /\ dev.req.type = "ack"
  /\ Flush(Packet(dev.n, 0))
  /\ UnchangedByCoroutine

(* or a new address; *)
DispatchAddress ==
  /\ Runs("dispatch") /\ dev.req.type = "address"
  /\ Flush(Packet(dev.n, 0))
  /\ UnchangedByCoroutine

(* those that use tx_data, *)
DispatchTxData ==
  /\ Runs("dispatch") /\ dev.req.type \in {"chunks", "config"}
  /\ IF dev.req.in THEN TxData([dev EXCEPT !.k = 1], Packet(dev.n, 1))
     ELSE TxData(dev, Packet(dev.n, 0))
  /\ UnchangedByCoroutine

(* and those it knows no answer to. *)
DispatchBad ==
  /\ Runs("dispatch") /\ dev.req.type = "bad"
  /\ dev' = [dev EXCEPT !.pc = "stall"]
  /\ UNCHANGED ep /\ UnchangedByCoroutine


Stall ==
  /\ Runs("stall")
  /\ ep' = [ep EXCEPT !.stall = TRUE]
  /\ dev' = [dev EXCEPT !.pc = "none"]
  /\ UnchangedByCoroutine

(* After a packet: the next chunk; the host's acknowledgement; or the end  *)
(* of an OUT request, when a new address takes effect. *)
SentChunk ==
  /\ Runs("sent") /\ dev.req.type = "chunks" /\ dev.req.in
  /\ dev.k < dev.req.parts
  /\ TxData([dev EXCEPT !.k = @ + 1], Packet(dev.n, dev.k + 1))
  /\ UnchangedByCoroutine

SentAll ==
  /\ Runs("sent") /\ dev.req.in
  /\ dev.req.type = "chunks" => dev.k = dev.req.parts
  /\ StartRx("ack")
  /\ UnchangedByCoroutine

SentStatus ==
  /\ Runs("sent") /\ ~dev.req.in
  /\ dev' = [dev EXCEPT !.pc = "none",
                        !.addr = IF dev.req.type = "address" THEN dev.n ELSE @]
  /\ UNCHANGED ep /\ UnchangedByCoroutine

Interrupt == Enter \/ Setup \/ BuffStatus \/ TxDone \/ RxDone \/ Reset
Coroutine ==
  \/ Receive \/ Received \/ DispatchShort \/ DispatchAck \/ DispatchAddress
  \/ DispatchTxData \/ DispatchBad
  \/ Stall \/ SentChunk \/ SentAll \/ SentStatus

Next == HostSetup \/ Host \/ HostReset \/ Interrupt \/ Coroutine

(* Interrupts are served and the host goes on with a transfer. *)
Fairness == WF_vars(Host) /\ WF_vars(Interrupt \/ Coroutine)

Spec == Init /\ [][Next]_vars /\ Fairness

-----------------------------------------------------------------------------
(* Properties. *)

(* In a transfer that begins when the device is at rest, the host gets the *)
(* packets of its own request, all of them, in order and with the PIDs it  *)
(* expects; the acknowledgement of a request with data comes when the      *)
(* device has all of them; no destroyed coroutine is run; and when nothing *)
(* is under way any more both have the same idea of the address.  This     *)
(* holds wherever the transfer is given up or the bus is reset, and        *)
(* whatever happened in the transfers before.                              *)
RightAnswer ==
  rested =>
    /\ ~lost
    /\ dev.pc # "dangling"
    /\ \A j \in DOMAIN got :
         /\ host.req.in => got[j] = Packet(host.n, j)
         /\ ~host.req.in => /\ got[j] = Packet(host.n, 0)
                            /\ dev.n = host.n /\ dev.k = host.req.parts
    /\ host.stage = "statusOut" => Len(got) = host.req.parts
    /\ Quiet /\ host.stage = "idle" => Addressed

(* Such a transfer comes to an end: done, stalled if it is not known, or   *)
(* given up by the host. *)
Answered == (host.stage # "idle" /\ rested) ~> (host.stage = "idle" \/ ~rested)

(* The worker's comment "Reset PID to 1 for EP0 IN": the first packet that *)
(* is offered in answer to a SETUP, before the host has got any, has PID 1. *)
AnswerStartsAtOne ==
  /\ dev.pc = "tx" /\ dev.n = host.n /\ host.stage = "in" /\ got = << >>
  /\ ~lost /\ ep.in.avail
  => ep.in.pid = 1
=============================================================================
