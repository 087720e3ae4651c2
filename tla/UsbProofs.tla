------------------------------ MODULE UsbProofs ------------------------------
(* Proofs about the USB stack: transfers on the control pipe that begin at *)
(* rest get the answers to their own requests, device and host agree on    *)
(* the data PIDs of all endpoints and on the end of a descriptor, numbers in *)
(* it stand, and endpoints do not share memory.  Every part has an         *)
(* inductive invariant, which the steps of the other parts leave alone.    *)
EXTENDS MCUsb, Integers, SequenceTheorems, WellFoundedInduction, TLAPS

-----------------------------------------------------------------------------
(* The inductive invariant: which situations of the host, the interrupt    *)
(* and the coroutine go together.                                          *)

Bits == {"setup", "in", "out", "reset"}
Stages == {"idle", "in", "out", "statusIn", "statusOut"}
Places == {"none", "receive", "rx", "received", "dispatch", "stall", "tx", "sent", "ack",
           "dangling"}

HostOK ==
  /\ DOMAIN host = {"n", "req", "stage", "k", "pid", "addr", "resets"}
  /\ host.n \in Nat /\ host.k \in Nat /\ host.pid \in {0, 1} /\ host.stage \in Stages
DevOK ==
  /\ DOMAIN dev = {"pc", "n", "req", "k", "tx", "rx", "pidIn", "pidOut", "addr"}
  /\ dev.k \in Nat /\ dev.pidIn \in {0, 1} /\ dev.pidOut \in {0, 1} /\ dev.pc \in Places
EpOK ==
  /\ DOMAIN ep = {"in", "out", "stall"}
  /\ DOMAIN ep.in = {"avail", "pid", "pkt"} /\ DOMAIN ep.out = {"avail", "pid", "pkt"}
  /\ ep.in.avail \in BOOLEAN /\ ep.out.avail \in BOOLEAN /\ ep.stall \in BOOLEAN
BitsOK == pend \subseteq Bits /\ todo \subseteq Bits \cup {"status"}
TypesOK == HostOK /\ DevOK /\ EpOK /\ BitsOK

(* What the host has accepted is its own request's.                        *)
PacketSet == [n : Nat, k : Nat]
OwnPackets ==
  \A j \in DOMAIN got :
    /\ host.req.in => got[j] = Control!Packet(host.n, j)
    /\ ~host.req.in => /\ got[j] = Control!Packet(host.n, 0)
                       /\ dev.n = host.n /\ dev.k = host.req.parts

(* The bits apart from a bus reset: none; a SETUP, not yet read or read;   *)
(* or a completion, not yet read, read as one of some, or found.           *)
Silent == pend \subseteq {"reset"} /\ todo \subseteq {"reset"}
Raised(b) ==
  /\ b \in pend /\ pend \subseteq {b, "reset"}
  /\ \/ todo = {}
     \/ b \in todo /\ todo \subseteq {b, "reset"}
     \/ b # "setup" /\ "status" \in todo /\ todo \subseteq {"status", "reset"}

(* The host has finished its transfer, or given it up.                     *)
GivenUp == host.stage = "idle"

(* What the device's address is when all that is under way is done is the  *)
(* host's idea of it.                                                      *)
ResetComes == "reset" \in pend \cup todo
AddressComes == /\ dev.pc \in {"tx", "sent"} /\ dev.req.type = "address"
                /\ got # << >>
AddressesAgree ==
  /\ ResetComes => GivenUp /\ host.addr = 0
  /\ ~ResetComes => host.addr = IF AddressComes THEN dev.n ELSE dev.addr

(* Buffers are offered, and awaited, where the coroutine says so; a packet *)
(* that is awaited is the running request's. *)
Waiting == [val |-> FALSE, handle |-> dev.n]
Waits ==
  /\ dev.pc = "tx" => dev.tx = Waiting
  /\ dev.pc \in {"rx", "ack"} => dev.rx = Waiting
  /\ ~dev.tx.val
  /\ ep.in.avail => dev.pc = "tx"
  /\ ep.out.avail => dev.pc \in {"rx", "ack"}
  /\ ep.stall => dev.pc = "none"
Asking == host.n > 0 /\ host.req \in Requests
Running == Asking /\ dev.n = host.n /\ dev.req = host.req

(* A SETUP that the interrupt has not handled yet; nothing but the handles *)
(* in the awaitables is left of what was there before. *)
FirstStage == IF host.req.in THEN "in" ELSE IF host.req.parts > 0 THEN "out" ELSE "statusIn"
Asked ==
  /\ Asking /\ Control!Suspended /\ Raised("setup")
  /\ ~ep.in.avail /\ ~ep.out.avail /\ ~ep.stall /\ ~dev.tx.val /\ got = << >>
  /\ GivenUp \/ (host.stage = FirstStage /\ host.k = 0 /\ host.pid = 1)

(* The two situations without a coroutine. *)
Over == GivenUp /\ Silent
Unanswerable ==
  /\ got = << >> /\ Silent
  /\ GivenUp \/ host.stage \in {"in", "statusIn"} \/ (host.stage = "out" /\ host.req.type = "long")
Stalled == ep.stall /\ Running /\ Unanswerable

(* Receiving: the host is one packet ahead from its transfer to the loop's *)
(* next round.                                                             *)
Expects(k) ==
  \/ GivenUp
  \/ /\ host.k = k
     /\ IF k < host.req.parts THEN host.stage = "out" /\ host.pid = dev.pidOut
                              ELSE host.stage = "statusIn" /\ host.pid = 1
Receiving ==
  /\ Running /\ ~host.req.in /\ host.req.type # "long" /\ got = << >>
  /\ dev.pidIn = 1 /\ dev.k <= host.req.parts
Ahead == dev.k < host.req.parts /\ Expects(dev.k + 1)
Sought ==
  /\ ep.out.pid = host.pid /\ dev.pidOut = 1 - host.pid
  /\ host.k = dev.k /\ host.stage = "out"
Listening ==
  \/ ep.out.avail /\ Silent /\ dev.k < host.req.parts /\ (GivenUp \/ Sought)
  \/ ~ep.out.avail /\ Raised("out") /\ Ahead

(* Everything is received; nothing is sent. *)
Dispatching ==
  /\ Running /\ Silent /\ got = << >> /\ host.req.type # "long" /\ dev.pidIn = 1
  /\ IF host.req.in THEN dev.pidOut = 1 ELSE dev.k = host.req.parts
  /\ \/ GivenUp
     \/ /\ host.pid = 1
        /\ IF host.req.in THEN host.stage = "in" /\ host.k = 0 ELSE host.stage = "statusIn"

(* The packet that is sent, offered or taken. *)
Nth == IF host.req.type = "short" THEN 1 ELSE dev.k
Sending ==
  /\ Running /\ host.req.type \notin {"bad", "long"}
  /\ IF host.req.in THEN Nth \in 1..host.req.parts /\ dev.pidOut = 1
                    ELSE dev.k = host.req.parts
Fresh ==
  /\ ep.in.pid = host.pid /\ dev.pidIn = 1 - host.pid
  /\ IF host.req.in THEN /\ host.stage = "in" /\ host.k + 1 = Nth /\ Len(got) = host.k
                         /\ ep.in.pkt = Control!Packet(host.n, Nth)
                    ELSE /\ host.stage = "statusIn"
                         /\ ep.in.pkt = Control!Packet(host.n, 0)
Offered ==
  /\ ep.in.avail /\ Silent
  /\ ~host.req.in => got = << >>
  /\ GivenUp \/ Fresh
Accepted ==
  /\ host.req.in /\ host.k = Nth /\ Len(got) = Nth
  /\ IF Nth = host.req.parts THEN host.stage = "statusOut" /\ host.pid = 1
                             ELSE host.stage = "in" /\ host.pid = dev.pidIn
Given ==
  /\ ~host.req.in => got # << >>
  /\ GivenUp \/ Accepted
Answering == Offered \/ (~ep.in.avail /\ Raised("in") /\ Given)

(* The host acknowledges. *)
Expected ==
  /\ Len(got) = host.req.parts /\ ep.out.pid = 1 /\ host.pid = 1
  /\ host.stage = "statusOut"
Acknowledging ==
  /\ Running /\ host.req.in
  /\ \/ ep.out.avail /\ Silent /\ (GivenUp \/ Expected)
     \/ ~ep.out.avail /\ Raised("out") /\ GivenUp

Situation ==
  /\ dev.pc # "dangling"
  /\ dev.pc = "none" => Over \/ Stalled
  /\ dev.pc = "receive" => Receiving /\ Silent /\ Expects(dev.k)
  /\ dev.pc = "rx" => Receiving /\ Listening
  /\ dev.pc = "received" => Receiving /\ Silent /\ Ahead
  /\ dev.pc = "dispatch" => Dispatching
  /\ dev.pc = "stall" => Running /\ Unanswerable
  /\ dev.pc = "tx" => Sending /\ Answering
  /\ dev.pc = "sent" => Sending /\ Silent /\ Given
  /\ dev.pc = "ack" => Acknowledging

(* It is known of a transfer whose SETUP found the device at rest.         *)
Orderly ==
  /\ TypesOK /\ ~lost /\ got \in Seq(PacketSet) /\ OwnPackets /\ AddressesAgree
  /\ Asked \/ (Waits /\ Situation)
ControlInv == TypesOK /\ (rested => Orderly)

-----------------------------------------------------------------------------
(* Types, also where a transfer was not begun at rest.                     *)

LEMMA ControlInit == Control!Init => ControlInv
<1> SUFFICES ASSUME Control!Init PROVE ControlInv
  OBVIOUS
<1>1. /\ HostOK /\ host.stage = "idle" /\ host.addr = 0
      /\ DevOK /\ dev.pc = "none" /\ dev.tx = Control!Off /\ dev.rx = Control!Off /\ dev.addr = 0
  BY DEF Control!Init, HostOK, DevOK, Stages, Places
<1>2. EpOK /\ ~ep.in.avail /\ ~ep.out.avail /\ ~ep.stall
  BY DEF Control!Init, EpOK, Control!EmptyBuffer
<1>3. pend = {} /\ todo = {} /\ got = << >> /\ ~lost
  BY DEF Control!Init
<1>4. TypesOK
  BY <1>1, <1>2, <1>3 DEF TypesOK, BitsOK
<1>5. OwnPackets
  BY <1>3 DEF OwnPackets
<1>6. AddressesAgree
  BY <1>1, <1>3 DEF AddressesAgree, ResetComes, AddressComes
<1>7. Waits
  BY <1>1, <1>2 DEF Waits, Control!Off
<1>8. Situation
  BY <1>1, <1>3 DEF Situation, Over, GivenUp, Silent
<1>9. got \in Seq(PacketSet)
  BY <1>3
<1> QED
  BY <1>3, <1>4, <1>5, <1>6, <1>7, <1>8, <1>9 DEF ControlInv, Orderly

(* A buffer that the host has used. *)
LEMMA EpTaken ==
  ASSUME EpOK,
         \/ ep' = ep
         \/ ep' = [ep EXCEPT !.in.avail = FALSE]
         \/ ep' = [ep EXCEPT !.out.avail = FALSE]
  PROVE  EpOK'
  BY DEF EpOK

LEMMA HostTypes ==
  ASSUME TypesOK,
         Control!HostSetup \/ Control!Host \/ Control!HostReset
  PROVE  TypesOK'
<1>1. HostOK /\ DevOK /\ EpOK /\ BitsOK
  BY DEF TypesOK
<1>2. CASE Control!HostSetup
  <2>1. /\ pend' = pend \cup {"setup"} /\ ep' = [ep EXCEPT !.stall = FALSE]
        /\ todo' = todo /\ dev' = dev
    BY <1>2, Zenon DEF Control!HostSetup
  <2>2. PICK r \in Requests :
          host' = [host EXCEPT !.n = @ + 1, !.req = r, !.k = 0, !.pid = 1,
                    !.stage = CASE r.in -> "in" [] ~r.in /\ r.parts > 0 -> "out"
                                [] OTHER -> "statusIn"]
    BY <1>2, Zenon DEF Control!HostSetup
  <2>3. HostOK'
    BY <1>1, <2>2 DEF HostOK, Stages
  <2> QED
    BY <1>1, <2>1, <2>3 DEF TypesOK, DevOK, EpOK, BitsOK, Bits
<1>3. CASE Control!HostIn
  <2>1. /\ ep' = [ep EXCEPT !.in.avail = FALSE] /\ pend' = pend \cup {"in"}
        /\ todo' = todo /\ dev' = dev
    BY <1>3 DEF Control!HostIn, Control!UnchangedByHost
  <2> DEFINE last == host.stage = "statusIn" \/ host.k + 1 = host.req.parts
             taken == [host EXCEPT !.k = @ + 1,
                         !.pid = IF last THEN 1 ELSE Control!Flip(@),
                         !.addr = IF host.req.type = "address" THEN host.n ELSE @,
                         !.stage = CASE @ = "statusIn" -> "idle"
                                     [] @ = "in" /\ last -> "statusOut"
                                     [] OTHER -> @]
  <2>2. host' = host \/ host' = taken
    BY <1>3, Zenon DEF Control!HostIn
  <2>3. HostOK'
    <3>1. CASE host' = host
      BY <1>1, <3>1 DEF HostOK
    <3>2. CASE host' = taken
      <4>1. /\ DOMAIN host' = DOMAIN host /\ host'.n = host.n /\ host'.k = host.k + 1
            /\ host'.pid \in {1, Control!Flip(host.pid)}
        BY <1>1, <3>2 DEF HostOK
      <4>2. host'.stage \in {"idle", "statusOut", host.stage}
        BY <1>1, <3>2 DEF HostOK
      <4> HIDE DEF taken
      <4> QED
        BY <1>1, <4>1, <4>2 DEF HostOK, Stages, Control!Flip
    <3> HIDE DEF taken
    <3> QED
      BY <2>2, <3>1, <3>2
  <2> HIDE DEF taken
  <2> QED
    BY <1>1, <2>1, <2>3, EpTaken DEF TypesOK, DevOK, BitsOK, Bits
<1>4. CASE Control!HostStalled \/ Control!HostGivesUp
  <2>1. /\ host' = [host EXCEPT !.stage = "idle"]
        /\ pend' = pend /\ ep' = ep /\ todo' = todo /\ dev' = dev
    BY <1>4 DEF Control!HostStalled, Control!HostGivesUp, Control!UnchangedByHost
  <2> QED
    BY <1>1, <2>1 DEF TypesOK, HostOK, DevOK, EpOK, BitsOK, Stages
<1>5. CASE Control!HostOut
  <2>1. /\ ep' = ep \/ ep' = [ep EXCEPT !.out.avail = FALSE]
        /\ pend' = pend \/ pend' = pend \cup {"out"}
        /\ todo' = todo /\ dev' = dev
    BY <1>5 DEF Control!HostOut, Control!UnchangedByHost
  <2> DEFINE last == host.k + 1 = host.req.parts
  <2>2. host' = [host EXCEPT !.k = @ + 1,
                   !.pid = IF last THEN 1 ELSE Control!Flip(@),
                   !.stage = CASE @ = "statusOut" -> "idle"
                               [] @ = "out" /\ last -> "statusIn"
                               [] OTHER -> @]
    BY <1>5 DEF Control!HostOut
  <2>3. HostOK'
    <3>1. /\ DOMAIN host' = DOMAIN host /\ host'.n = host.n /\ host'.k = host.k + 1
          /\ host'.pid \in {1, Control!Flip(host.pid)}
      BY <1>1, <2>2 DEF HostOK
    <3>2. host'.stage \in {"idle", "statusIn", host.stage}
      BY <1>1, <2>2 DEF HostOK
    <3> QED
      BY <1>1, <3>1, <3>2 DEF HostOK, Stages, Control!Flip
  <2> QED
    BY <1>1, <2>1, <2>3, EpTaken DEF TypesOK, DevOK, BitsOK, Bits
<1>6. CASE Control!HostReset
  <2>1. /\ host' = [host EXCEPT !.stage = "idle", !.addr = 0, !.resets = @ + 1]
        /\ pend' = pend \cup {"reset"} /\ ep' = ep /\ todo' = todo /\ dev' = dev
    BY <1>6 DEF Control!HostReset, Control!UnchangedByHost
  <2> QED
    BY <1>1, <2>1 DEF TypesOK, HostOK, DevOK, EpOK, BitsOK, Bits, Stages
<1> QED
  BY <1>2, <1>3, <1>4, <1>5, <1>6 DEF Control!Host

LEMMA InterruptTypes ==
  ASSUME TypesOK, Control!Interrupt
  PROVE  TypesOK'
<1>1. HostOK /\ DevOK /\ EpOK /\ BitsOK
  BY DEF TypesOK
<1>2. host' = host /\ ep' = ep
  BY DEF Control!Interrupt, Control!Enter, Control!Setup, Control!BuffStatus, Control!TxDone,
         Control!RxDone, Control!Reset, Control!UnchangedByDevice
<1>3. pend' \subseteq pend
  BY DEF Control!Interrupt, Control!Enter, Control!Setup, Control!BuffStatus, Control!TxDone,
         Control!RxDone, Control!Reset, Control!Handling
<1>4. todo' \subseteq todo \cup pend \cup {"status"}
  BY DEF Control!Interrupt, Control!Enter, Control!Setup, Control!BuffStatus, Control!TxDone,
         Control!RxDone, Control!Reset
<1>5. DevOK'
  <2>1. CASE Control!Enter \/ Control!BuffStatus
    BY <1>1, <2>1 DEF Control!Enter, Control!BuffStatus, DevOK
  <2>2. CASE Control!Setup
    BY <1>1, <2>2 DEF Control!Setup, DevOK, Places
  <2>3. CASE Control!TxDone
    <3> DEFINE r == Control!Resumed(dev.tx, dev.pc = "tx", "sent")
    <3>1. dev' = [dev EXCEPT !.pc = r.tag, !.tx = r.a]
      BY <2>3 DEF Control!TxDone
    <3>2. r.tag \in Places
      BY <1>1 DEF Control!Resumed, DevOK, Places
    <3> HIDE DEF r
    <3> QED
      BY <1>1, <3>1, <3>2 DEF DevOK
  <2>4. CASE Control!RxDone
    <3> DEFINE next == IF dev.pc = "rx" THEN "received" ELSE "none"
               r == Control!Resumed(dev.rx, dev.pc \in {"rx", "ack"}, next)
    <3>1. dev' = [dev EXCEPT !.pc = r.tag, !.rx = r.a]
      BY <2>4 DEF Control!RxDone
    <3>2. r.tag \in Places
      BY <1>1 DEF Control!Resumed, DevOK, Places
    <3> HIDE DEF r
    <3> QED
      BY <1>1, <3>1, <3>2 DEF DevOK
  <2>5. CASE Control!Reset
    BY <1>1, <2>5 DEF Control!Reset, DevOK
  <2> QED
    BY <2>1, <2>2, <2>3, <2>4, <2>5 DEF Control!Interrupt
<1> QED
  BY <1>1, <1>2, <1>3, <1>4, <1>5 DEF TypesOK, HostOK, EpOK, BitsOK

(* What a packet does to the registers and the coroutine, whatever is      *)
(* offered before. *)
LEMMA FlushTypes ==
  ASSUME DevOK, EpOK, NEW pkt, Control!Flush(pkt)
  PROVE  DevOK' /\ EpOK'
<1>1. ep' = [ep EXCEPT !.in = [avail |-> TRUE, pid |-> dev.pidIn, pkt |-> pkt],
                       !.stall = FALSE]
  BY DEF Control!Flush
<1> DEFINE d == [dev EXCEPT !.tx = [val |-> FALSE, handle |-> dev.n], !.pc = "tx"]
<1>2. dev' = [d EXCEPT !.pidIn = Control!Flip(@)]
  BY DEF Control!Flush, Control!AwaitTx, Control!Off
<1>3. EpOK'
  BY <1>1 DEF EpOK, DevOK
<1>4. DOMAIN d = DOMAIN dev /\ d.k = dev.k /\ d.pidIn = dev.pidIn /\ d.pidOut = dev.pidOut /\ d.pc = "tx"
  BY DEF DevOK
<1> HIDE DEF d
<1>5. DevOK'
  BY <1>2, <1>4 DEF DevOK, Places, Control!Flip
<1> QED
  BY <1>3, <1>5

LEMMA TxDataTypes ==
  ASSUME DevOK, EpOK, NEW c, NEW k \in Nat, c = dev \/ c = [dev EXCEPT !.k = k],
         NEW pkt, Control!TxData(c, pkt)
  PROVE  DevOK' /\ EpOK'
<1>1. /\ DOMAIN c = DOMAIN dev /\ c.k \in Nat /\ c.pidIn \in {0, 1} /\ c.pidOut \in {0, 1}
  BY DEF DevOK
<1>2. ep' = ep \/ ep' = [ep EXCEPT !.in = [avail |-> TRUE, pid |-> c.pidIn, pkt |-> pkt],
                                   !.stall = FALSE]
  BY DEF Control!TxData
<1>3. EpOK'
  <2>1. CASE ep' = ep
    BY <2>1 DEF EpOK
  <2>2. CASE ep' = [ep EXCEPT !.in = [avail |-> TRUE, pid |-> c.pidIn, pkt |-> pkt],
                              !.stall = FALSE]
    BY <2>2 DEF EpOK
  <2> QED
    BY <1>2, <2>1, <2>2
<1> DEFINE d == Control!AwaitTx(c, c.tx)
<1>4. DOMAIN d = DOMAIN dev /\ d.k \in Nat /\ d.pidIn \in {0, 1} /\ d.pidOut \in {0, 1} /\ d.pc \in Places
  BY <1>1 DEF Control!AwaitTx, DevOK, Places
<1>5. dev' = [d EXCEPT !.pidIn = Control!Flip(@)]
  BY DEF Control!TxData
<1> HIDE DEF d
<1>6. DevOK'
  BY <1>4, <1>5 DEF DevOK, Control!Flip
<1> QED
  BY <1>3, <1>6

LEMMA StartRxTypes ==
  ASSUME DevOK, EpOK, NEW next \in Places, Control!StartRx(next)
  PROVE  DevOK' /\ EpOK'
<1>1. ep' = ep \/ ep' = [ep EXCEPT !.out.avail = TRUE, !.out.pid = dev.pidOut]
  BY DEF Control!StartRx
<1>2. dev' = [dev EXCEPT !.rx = [val |-> FALSE, handle |-> dev.n], !.pc = next,
                !.pidOut = IF ep.out.avail THEN @ ELSE Control!Flip(@)]
  BY DEF Control!StartRx
<1>3. EpOK'
  <2>1. CASE ep' = ep
    BY <2>1 DEF EpOK
  <2>2. CASE ep' = [ep EXCEPT !.out.avail = TRUE, !.out.pid = dev.pidOut]
    BY <2>2 DEF EpOK
  <2> QED
    BY <1>1, <2>1, <2>2
<1>4. DevOK'
  <2>1. /\ DOMAIN dev' = DOMAIN dev /\ dev'.k = dev.k /\ dev'.pidIn = dev.pidIn /\ dev'.pc = next
        /\ dev'.pidOut \in {dev.pidOut, Control!Flip(dev.pidOut)}
    BY <1>2 DEF DevOK
  <2> QED
    BY <2>1 DEF DevOK, Control!Flip
<1> QED
  BY <1>3, <1>4

LEMMA CoroutineTypes ==
  ASSUME TypesOK, Control!Coroutine
  PROVE  TypesOK'
<1>1. HostOK /\ DevOK /\ EpOK /\ BitsOK
  BY DEF TypesOK
<1>2. host' = host /\ pend' = pend /\ todo' = todo
  BY DEF Control!Coroutine, Control!Receive, Control!Received, Control!DispatchShort,
         Control!DispatchAck, Control!DispatchAddress, Control!DispatchTxData,
         Control!DispatchBad, Control!Stall, Control!SentChunk, Control!SentAll,
         Control!SentStatus, Control!UnchangedByCoroutine, Control!UnchangedByDevice
<1>3. DevOK' /\ EpOK'
  <2>1. CASE Control!Receive
    <3>1. \/ Control!StartRx("rx")
          \/ dev' = [dev EXCEPT !.pc = "dispatch"] /\ ep' = ep
      BY <2>1 DEF Control!Receive
    <3> QED
      BY <1>1, <3>1, StartRxTypes DEF DevOK, EpOK, Places
  <2>2. CASE Control!Received \/ Control!DispatchBad \/ Control!SentStatus
    <3>1. ep' = ep
      BY <2>2 DEF Control!Received, Control!DispatchBad, Control!SentStatus
    <3>2. DevOK'
      <4>1. CASE Control!Received
        BY <1>1, <4>1 DEF Control!Received, DevOK, Places
      <4>2. CASE Control!DispatchBad
        BY <1>1, <4>2 DEF Control!DispatchBad, DevOK, Places
      <4>3. CASE Control!SentStatus
        BY <1>1, <4>3 DEF Control!SentStatus, DevOK, Places
      <4> QED
        BY <2>2, <4>1, <4>2, <4>3
    <3> QED
      BY <1>1, <3>1, <3>2 DEF EpOK
  <2>3. CASE Control!DispatchShort \/ Control!DispatchAck \/ Control!DispatchAddress
    <3>1. PICK pkt : Control!Flush(pkt)
      BY <2>3 DEF Control!DispatchShort, Control!DispatchAck, Control!DispatchAddress
    <3> QED
      BY <1>1, <3>1, FlushTypes
  <2>4. CASE Control!DispatchTxData
    <3>1. \/ Control!TxData([dev EXCEPT !.k = 1], Control!Packet(dev.n, 1))
          \/ Control!TxData(dev, Control!Packet(dev.n, 0))
      BY <2>4 DEF Control!DispatchTxData
    <3> QED
      BY <1>1, <3>1, TxDataTypes
  <2>5. CASE Control!Stall
    BY <1>1, <2>5 DEF Control!Stall, DevOK, EpOK, Places
  <2>6. CASE Control!SentChunk
    <3>1. Control!TxData([dev EXCEPT !.k = dev.k + 1], Control!Packet(dev.n, dev.k + 1))
      BY <2>6 DEF Control!SentChunk
    <3>2. dev.k + 1 \in Nat
      BY <1>1 DEF DevOK
    <3> QED
      BY <1>1, <3>1, <3>2, TxDataTypes
  <2>7. CASE Control!SentAll
    <3>1. Control!StartRx("ack") /\ "ack" \in Places
      BY <2>7 DEF Control!SentAll, Places
    <3> QED
      BY <1>1, <3>1, StartRxTypes
  <2> QED
    BY <2>1, <2>2, <2>3, <2>4, <2>5, <2>6, <2>7 DEF Control!Coroutine
<1> QED
  BY <1>1, <1>2, <1>3 DEF TypesOK, HostOK, BitsOK

-----------------------------------------------------------------------------
(* Steps of the host.                                                      *)

LEMMA Known ==
  ASSUME Orderly
  PROVE  /\ DOMAIN host = {"n", "req", "stage", "k", "pid", "addr", "resets"}
         /\ host.n \in Nat /\ host.k \in Nat /\ host.pid \in {0, 1} /\ host.stage \in Stages
         /\ DOMAIN dev = {"pc", "n", "req", "k", "tx", "rx", "pidIn", "pidOut", "addr"}
         /\ dev.k \in Nat /\ dev.pidIn \in {0, 1} /\ dev.pidOut \in {0, 1}
         /\ DOMAIN ep = {"in", "out", "stall"}
         /\ DOMAIN ep.in = {"avail", "pid", "pkt"} /\ DOMAIN ep.out = {"avail", "pid", "pkt"}
         /\ ep.in.avail \in BOOLEAN /\ ep.out.avail \in BOOLEAN /\ ep.stall \in BOOLEAN
         /\ ~lost /\ got \in Seq(PacketSet) /\ OwnPackets /\ AddressesAgree
         /\ Asked \/ (Waits /\ Situation)
  BY DEF Orderly, TypesOK, HostOK, DevOK, EpOK

(* Where a SETUP finds the device at rest, nothing that happened before it *)
(* matters. *)
LEMMA HostSetupStep ==
  ASSUME TypesOK, TypesOK', Control!HostSetup, rested'
  PROVE  Orderly'
<1>1. /\ got' = << >> /\ pend' = pend \cup {"setup"} /\ ep' = [ep EXCEPT !.stall = FALSE]
      /\ ~lost' /\ todo' = todo /\ dev' = dev /\ Control!Addressed /\ Control!AtRest
  BY Zenon DEF Control!HostSetup
<1>2. PICK r \in Requests :
        host' = [host EXCEPT !.n = @ + 1, !.req = r, !.k = 0, !.pid = 1,
                  !.stage = CASE r.in -> "in" [] ~r.in /\ r.parts > 0 -> "out"
                              [] OTHER -> "statusIn"]
  BY Zenon DEF Control!HostSetup
<1>3. /\ Control!Suspended /\ pend = {} /\ todo = {}
      /\ ~ep.in.avail /\ ~ep.out.avail /\ ~dev.tx.val /\ dev.addr = host.addr
  BY <1>1 DEF Control!AtRest, Control!Quiet, Control!Addressed
<1>4. RequestOK(r)
  BY RequestsAssumption
<1>5. /\ host'.n = host.n + 1 /\ host'.req = r
      /\ host'.k = 0 /\ host'.pid = 1 /\ host'.addr = host.addr
      /\ host'.stage = IF r.in THEN "in" ELSE IF r.parts > 0 THEN "out" ELSE "statusIn"
  BY <1>2, <1>4 DEF TypesOK, HostOK, RequestOK
<1>6. ep'.in = ep.in /\ ep'.out = ep.out /\ ep'.stall = FALSE
  BY <1>1 DEF TypesOK, EpOK
<1>7. OwnPackets'
  BY <1>1 DEF OwnPackets
<1>8. AddressesAgree'
  BY <1>1, <1>3, <1>5 DEF AddressesAgree, ResetComes, AddressComes
<1>9. Asked'
  <2>1. Asking' /\ host'.stage = FirstStage'
    BY <1>2, <1>5 DEF Asking, FirstStage, TypesOK, HostOK
  <2>2. Raised("setup")' /\ Control!Suspended'
    BY <1>1, <1>3 DEF Raised, Control!Suspended
  <2> QED
    BY <1>1, <1>3, <1>5, <1>6, <2>1, <2>2 DEF Asked
<1> QED
  BY <1>1, <1>7, <1>8, <1>9 DEF Orderly

(* An IN token finds a packet only where the coroutine waits for it to be  *)
(* taken. *)
LEMMA HostInStep ==
  ASSUME Orderly, TypesOK', Control!HostIn
  PROVE  Orderly'
<1> DEFINE last == host.stage = "statusIn" \/ host.k + 1 = host.req.parts
           taken == [host EXCEPT !.k = @ + 1,
                       !.pid = IF last THEN 1 ELSE Control!Flip(@),
                       !.addr = IF host.req.type = "address" THEN host.n ELSE @,
                       !.stage = CASE @ = "statusIn" -> "idle"
                                   [] @ = "in" /\ last -> "statusOut"
                                   [] OTHER -> @]
<1>1. /\ host.stage \in {"in", "statusIn"} /\ ep.in.avail
      /\ ep' = [ep EXCEPT !.in.avail = FALSE] /\ pend' = pend \cup {"in"}
      /\ todo' = todo /\ dev' = dev
  BY DEF Control!HostIn, Control!UnchangedByHost
<1>2. dev.pc = "tx" /\ Sending /\ Offered /\ Fresh /\ Waits
  BY <1>1, Known DEF Asked, Waits, Situation, Answering, Offered, GivenUp
<1>3. Running /\ RequestOK(host.req) /\ ep.in.pid = host.pid /\ Silent
  BY <1>2, RequestsAssumption DEF Sending, Running, Asking, Offered, Fresh
<1>4. ~lost' /\ got' = Append(got, ep.in.pkt) /\ host' = taken
  <2>1. /\ lost' = (lost \/ ~(ep.in.pid = host.pid))
        /\ IF ep.in.pid = host.pid THEN got' = Append(got, ep.in.pkt) /\ host' = taken
                                  ELSE UNCHANGED <<got, host>>
    BY Zenon DEF Control!HostIn
  <2>2. ~lost
    BY Known
  <2> QED
    BY <1>3, <2>1, <2>2, Zenon
<1>5. /\ DOMAIN host' = DOMAIN host /\ host'.n = host.n /\ host'.req = host.req
      /\ host'.k = host.k + 1
      /\ host'.addr = IF host.req.type = "address" THEN host.n ELSE host.addr
  BY <1>4, Known
<1>6. /\ host.req.in => /\ host.stage = "in" /\ host.k + 1 = Nth
                        /\ Nth \in 1..host.req.parts
                        /\ ep.in.pkt = Control!Packet(host.n, Nth) /\ Len(got) = host.k
      /\ ~host.req.in => /\ host.stage = "statusIn" /\ got = << >>
                         /\ ep.in.pkt = Control!Packet(host.n, 0)
  BY <1>2 DEF Offered, Fresh, Sending
<1>7. /\ host.req.in /\ Nth = host.req.parts =>
           host'.stage = "statusOut" /\ host'.pid = 1
      /\ host.req.in /\ Nth # host.req.parts =>
           host'.stage = "in" /\ host'.pid = dev.pidIn
      /\ ~host.req.in => host'.stage = "idle" /\ host'.pid = 1
  <2>1. DOMAIN host = {"n", "req", "stage", "k", "pid", "addr", "resets"}
    BY Known
  <2>2. dev.pidIn = 1 - host.pid
    BY <1>2 DEF Fresh
  <2>3. host'.pid = (IF last THEN 1 ELSE Control!Flip(host.pid))
    BY <1>4, <2>1
  <2>4. host'.stage = CASE host.stage = "statusIn" -> "idle"
                        [] host.stage = "in" /\ last -> "statusOut"
                        [] OTHER -> host.stage
    BY <1>4, <2>1
  <2> QED
    BY <1>6, <2>2, <2>3, <2>4 DEF Control!Flip
<1>8. /\ DOMAIN ep' = DOMAIN ep /\ ep'.out = ep.out /\ ep'.stall = ep.stall
      /\ DOMAIN ep'.in = DOMAIN ep.in /\ ep'.in.avail = FALSE
  BY <1>1, Known
<1>9. /\ ep.in.pkt \in PacketSet /\ got \in Seq(PacketSet)
      /\ got' \in Seq(PacketSet) /\ Len(got') = Len(got) + 1
      /\ \A j \in 1..Len(got) : got'[j] = got[j]
      /\ got'[Len(got) + 1] = ep.in.pkt
  <2>1. got \in Seq(PacketSet) /\ host.n \in Nat /\ dev.k \in Nat
    BY Known
  <2>2. Control!Packet(host.n, Nth) \in PacketSet /\ Control!Packet(host.n, 0) \in PacketSet
    BY <2>1 DEF Control!Packet, PacketSet, Nth
  <2> QED
    BY <1>4, <1>6, <2>1, <2>2
<1> HIDE DEF taken
<1>10. OwnPackets'
  <2>1. DOMAIN got' = 1..Len(got) + 1 /\ DOMAIN got = 1..Len(got) /\ Len(got) \in Nat
    BY <1>9
  <2>2. CASE host.req.in
    BY <1>5, <1>6, <1>9, <2>1, <2>2, Known DEF OwnPackets
  <2>3. CASE ~host.req.in
    <3>1. dev.n = host.n /\ dev.k = host.req.parts
      BY <1>2, <1>3, <2>3 DEF Sending, Running
    <3>2. DOMAIN got' = {1} /\ got'[1] = Control!Packet(host.n, 0)
      BY <1>6, <1>9, <2>1, <2>3
    <3> QED
      BY <1>1, <1>5, <2>3, <3>1, <3>2 DEF OwnPackets
  <2> QED
    BY <2>2, <2>3
<1>11. got' # << >>
  BY <1>9
<1>12. AddressesAgree'
  <2>1. AddressesAgree /\ ~GivenUp
    BY <1>1, Known DEF GivenUp
  <2>2. host.req.type = "address" => ~host.req.in
    BY <1>3 DEF RequestOK
  <2>3. ~AddressComes
    <3>1. ~host.req.in => got = << >>
      BY <1>6
    <3> QED
      BY <1>3, <2>2, <3>1 DEF AddressComes, Running
  <2>4. ~ResetComes /\ host.addr = dev.addr
    BY <2>1, <2>3 DEF AddressesAgree
  <2>5. ~ResetComes'
    BY <1>1, <2>4 DEF ResetComes
  <2>6. AddressComes' <=> host.req.type = "address"
    BY <1>1, <1>2, <1>3, <1>11 DEF AddressComes, Running
  <2> QED
    BY <1>1, <1>3, <1>5, <2>4, <2>5, <2>6 DEF AddressesAgree, Running
<1>13. Waits'
  BY <1>1, <1>2, <1>8 DEF Waits, Waiting
<1>14. Situation'
  <2>1. Sending'
    BY <1>1, <1>2, <1>5 DEF Sending, Running, Asking, Nth
  <2>2. Raised("in")'
    <3>1. "reset" \notin pend \cup todo
      BY <1>1, Known DEF AddressesAgree, ResetComes, GivenUp
    <3> QED
      BY <1>1, <1>3, <3>1 DEF Silent, Raised
  <2>3. Given'
    BY <1>1, <1>5, <1>6, <1>7, <1>9, <1>11 DEF Given, Accepted, GivenUp, Nth
  <2> QED
    BY <1>1, <1>2, <1>8, <2>1, <2>2, <2>3 DEF Situation, Answering
<1> QED
  BY <1>4, <1>9, <1>10, <1>12, <1>13, <1>14 DEF Orderly

(* The host gives the transfer up, or is done with it: what the device     *)
(* still has to do of it stays to be done. *)
LEMMA GivenUpStep ==
  ASSUME Orderly, TypesOK',
         got' = got, ~lost', ep' = ep, dev' = dev, todo' = todo,
         pend' = pend \/ pend' = pend \cup {"reset"},
         host'.stage = "idle", host'.n = host.n, host'.req = host.req,
         AddressesAgree'
  PROVE  Orderly'
<1>1. GivenUp'
  BY DEF GivenUp
<1>2. OwnPackets'
  BY Known DEF OwnPackets
<1>3. Silent => Silent'
  BY DEF Silent
<1>4. \A b \in Bits : Raised(b) => Raised(b)'
  BY DEF Raised
<1>5. CASE Asked
  BY <1>1, <1>2, <1>4, <1>5, Known DEF Asked, Asking, Control!Suspended, Bits, Orderly
<1>6. CASE Waits /\ Situation
  <2>1. Waits'
    BY <1>6 DEF Waits, Waiting
  <2>2. Running => Running'
    BY DEF Running, Asking
  <2>3. Sending => Sending'
    BY <2>2 DEF Sending, Nth
  <2>4. Situation'
    <3>1. Stalled => Stalled'
      BY <1>1, <1>3, <2>2 DEF Stalled, Unanswerable
    <3>2. Receiving => Receiving'
      BY <2>2 DEF Receiving
    <3>3. Listening => Listening'
      BY <1>1, <1>3, <1>4 DEF Listening, Ahead, Expects, Bits
    <3>4. Ahead => Ahead'
      BY <1>1 DEF Ahead, Expects
    <3>5. Expects(dev.k)'
      BY <1>1 DEF Expects
    <3>6. Dispatching => Dispatching'
      BY <1>1, <1>3, <2>2 DEF Dispatching
    <3>7. Running /\ Unanswerable => (Running /\ Unanswerable)'
      BY <1>1, <1>3, <2>2 DEF Unanswerable
    <3>8. Answering => Answering'
      BY <1>1, <1>3, <1>4 DEF Answering, Offered, Given, Bits
    <3>9. Given => Given'
      BY <1>1 DEF Given
    <3>10. Acknowledging => Acknowledging'
      BY <1>1, <1>3, <1>4, <2>2 DEF Acknowledging, Bits
    <3>11. Over => Over'
      BY <1>1, <1>3 DEF Over
    <3> QED
      BY <1>3, <1>6, <2>3, <3>1, <3>2, <3>3, <3>4, <3>5, <3>6, <3>7, <3>8, <3>9, <3>10, <3>11
         DEF Situation
  <2> QED
    BY <1>2, <2>1, <2>4, Known DEF Orderly
<1> QED
  BY <1>5, <1>6, Known

LEMMA HostStalledStep ==
  ASSUME Orderly, TypesOK', Control!HostStalled \/ Control!HostGivesUp
  PROVE  Orderly'
<1>1. /\ ~GivenUp /\ host' = [host EXCEPT !.stage = "idle"]
      /\ got' = got /\ lost' = lost /\ pend' = pend /\ ep' = ep
      /\ todo' = todo /\ dev' = dev
  BY DEF Control!HostStalled, Control!HostGivesUp, Control!UnchangedByHost, GivenUp
<1>2. /\ host'.n = host.n /\ host'.req = host.req /\ host'.addr = host.addr
      /\ host'.stage = "idle"
  BY <1>1, Known
<1>3. AddressesAgree'
  BY <1>1, <1>2, Known DEF AddressesAgree, ResetComes, AddressComes
<1>4. ~lost'
  BY <1>1, Known, Zenon
<1> QED
  BY <1>1, <1>2, <1>3, <1>4, GivenUpStep

(* The bus is reset at any time. *)
LEMMA HostResetStep ==
  ASSUME Orderly, TypesOK', Control!HostReset
  PROVE  Orderly'
<1>1. /\ host' = [host EXCEPT !.stage = "idle", !.addr = 0, !.resets = @ + 1]
      /\ pend' = pend \cup {"reset"}
      /\ got' = got /\ lost' = lost /\ ep' = ep /\ todo' = todo /\ dev' = dev
  BY DEF Control!HostReset, Control!UnchangedByHost
<1>2. /\ host'.n = host.n /\ host'.req = host.req /\ host'.addr = 0
      /\ host'.stage = "idle"
  BY <1>1, Known
<1>3. AddressesAgree'
  BY <1>1, <1>2 DEF AddressesAgree, ResetComes, GivenUp
<1>4. ~lost'
  BY <1>1, Known, Zenon
<1> QED
  BY <1>1, <1>2, <1>3, <1>4, GivenUpStep

(* A packet of the host finds a buffer where the coroutine listens, or     *)
(* waits for the acknowledgement. *)
LEMMA HostOutStep ==
  ASSUME Orderly, TypesOK', Control!HostOut
  PROVE  Orderly'
<1> DEFINE last == host.k + 1 = host.req.parts
<1>1. /\ host.stage \in {"out", "statusOut"} /\ ep.out.avail
      /\ host' = [host EXCEPT !.k = @ + 1,
                   !.pid = IF last THEN 1 ELSE Control!Flip(@),
                   !.stage = CASE @ = "statusOut" -> "idle"
                               [] @ = "out" /\ last -> "statusIn"
                               [] OTHER -> @]
      /\ got' = got /\ todo' = todo /\ dev' = dev
  BY DEF Control!HostOut, Control!UnchangedByHost
<1>2. dev.pc \in {"rx", "ack"} /\ ~ep.in.avail /\ Waits /\ Situation
  BY <1>1, Known DEF Asked, Waits
<1>3. Silent /\ ep.out.pid = host.pid
  BY <1>1, <1>2 DEF Situation, Listening, Sought, Acknowledging, Expected, GivenUp
<1>4. ~lost' /\ ep' = [ep EXCEPT !.out.avail = FALSE] /\ pend' = pend \cup {"out"}
  <2>1. /\ lost' = (lost \/ ~(ep.out.pid = host.pid))
        /\ IF ep.out.pid = host.pid
             THEN ep' = [ep EXCEPT !.out.avail = FALSE] /\ pend' = pend \cup {"out"}
             ELSE UNCHANGED <<ep, pend>>
    BY Zenon DEF Control!HostOut
  <2>2. ~lost
    BY Known
  <2> QED
    BY <1>3, <2>1, <2>2, Zenon
<1>5. /\ DOMAIN host' = DOMAIN host /\ host'.n = host.n /\ host'.req = host.req
      /\ host'.k = host.k + 1 /\ host'.addr = host.addr
      /\ host'.pid = (IF last THEN 1 ELSE Control!Flip(host.pid))
  BY <1>1, Known
<1>6. /\ host.stage = "statusOut" => host'.stage = "idle"
      /\ host.stage = "out" => host'.stage = IF last THEN "statusIn" ELSE "out"
  BY <1>1, Known
<1>7. /\ ep'.in = ep.in /\ ep'.stall = ep.stall /\ ep'.out.avail = FALSE
  BY <1>4, Known
<1>8. OwnPackets'
  BY <1>1, <1>5, Known DEF OwnPackets
<1>9. ~ResetComes
  BY <1>1, Known DEF AddressesAgree, GivenUp
<1>10. AddressesAgree'
  <2>1. ~ResetComes'
    BY <1>1, <1>4, <1>9 DEF ResetComes
  <2>2. ~AddressComes /\ ~AddressComes'
    BY <1>1, <1>2 DEF AddressComes
  <2> QED
    BY <1>1, <1>5, <1>9, <2>1, <2>2, Known DEF AddressesAgree
<1>11. Waits'
  BY <1>1, <1>2, <1>7 DEF Waits, Waiting
<1>12. Raised("out")'
  BY <1>1, <1>3, <1>4, <1>9 DEF Silent, Raised, ResetComes
<1>13. Situation'
  <2>1. CASE dev.pc = "rx"
    <3>1. /\ Receiving /\ dev.pidOut = 1 - host.pid
          /\ dev.k < host.req.parts /\ host.k = dev.k /\ host.stage = "out"
      BY <1>1, <1>2, <2>1 DEF Situation, Listening, Sought, GivenUp
    <3>2. Receiving'
      BY <1>1, <1>5, <3>1 DEF Receiving, Running, Asking
    <3>3. RequestOK(host.req)
      BY <3>1, RequestsAssumption DEF Receiving, Running, Asking
    <3>4. Ahead'
      BY <1>1, <1>5, <1>6, <3>1, <3>3, Known
         DEF Ahead, Expects, Control!Flip, RequestOK
    <3> QED
      BY <1>1, <1>7, <1>12, <2>1, <3>2, <3>4 DEF Situation, Listening
  <2>2. CASE dev.pc = "ack"
    <3>1. Acknowledging /\ host.stage = "statusOut"
      BY <1>1, <1>2, <2>2 DEF Situation, Acknowledging, Expected, GivenUp
    <3>2. Acknowledging'
      BY <1>1, <1>5, <1>6, <1>7, <1>12, <3>1 DEF Acknowledging, Running, Asking, GivenUp
    <3> QED
      BY <1>1, <2>2, <3>2 DEF Situation
  <2> QED
    BY <1>2, <2>1, <2>2
<1> QED
  BY <1>1, <1>4, <1>8, <1>10, <1>11, <1>13, Known DEF Orderly

-----------------------------------------------------------------------------
(* Steps of the interrupt.                                                 *)

(* The situations do not tell how far the interrupt has read the bits.     *)
LEMMA ReadingKeeps ==
  ASSUME Orderly, TypesOK', UNCHANGED <<host, got, lost, ep, dev>>,
         ResetComes' <=> ResetComes, Silent => Silent',
         \A b \in Bits : Raised(b) => Raised(b)'
  PROVE  Orderly'
<1>1. OwnPackets' /\ AddressesAgree' /\ ~lost' /\ (got \in Seq(PacketSet))'
  <2>1. AddressComes' <=> AddressComes
    BY DEF AddressComes
  <2>2. GivenUp' <=> GivenUp
    BY DEF GivenUp
  <2>3. AddressesAgree'
    BY <2>1, <2>2, Known DEF AddressesAgree
  <2> QED
    BY <2>3, Known DEF OwnPackets
<1>2. Asked => Asked'
  BY DEF Asked, Asking, Control!Suspended, FirstStage, GivenUp, Bits
<1>3. Waits => Waits'
  BY DEF Waits, Waiting
<1>4. Situation => Situation'
  <2>1. Running => Running'
    BY DEF Running, Asking
  <2>2. (Sending => Sending') /\ (Given => Given')
    BY <2>1 DEF Sending, Given, Accepted, GivenUp, Nth
  <2>3. (Over => Over') /\ (Unanswerable => Unanswerable') /\ (Stalled => Stalled')
    BY <2>1 DEF Over, Unanswerable, Stalled, GivenUp
  <2>4. (Receiving => Receiving') /\ (Expects(dev.k) => Expects(dev.k)') /\ (Ahead => Ahead')
    BY <2>1 DEF Receiving, Expects, Ahead, GivenUp
  <2>5. Listening => Listening'
    BY <2>4 DEF Listening, Sought, GivenUp, Bits
  <2>6. Dispatching => Dispatching'
    BY <2>1 DEF Dispatching, GivenUp
  <2>7. Answering => Answering'
    BY <2>2 DEF Answering, Offered, Fresh, Nth, GivenUp, Bits
  <2>8. Acknowledging => Acknowledging'
    BY <2>1 DEF Acknowledging, Expected, GivenUp, Bits
  <2> QED
    BY <2>1, <2>2, <2>3, <2>4, <2>5, <2>6, <2>7, <2>8 DEF Situation
<1> QED
  BY <1>1, <1>2, <1>3, <1>4, Known DEF Orderly

LEMMA EnterStep ==
  ASSUME Orderly, TypesOK', Control!Enter
  PROVE  Orderly'
<1>1. /\ todo = {} /\ pend' = pend /\ UNCHANGED <<host, got, lost, ep, dev>>
      /\ todo' = (pend \ {"in", "out"})
                   \cup (IF pend \cap {"in", "out"} # {} THEN {"status"} ELSE {})
  BY DEF Control!Enter, Control!UnchangedByDevice, Control!Completions
<1>2. Silent => Silent'
  BY <1>1 DEF Silent
<1>3. \A b \in Bits : Raised(b) => Raised(b)'
  BY <1>1 DEF Raised, Bits
<1>4. ResetComes' <=> ResetComes
  BY <1>1 DEF ResetComes
<1> QED
  BY <1>1, <1>2, <1>3, <1>4, ReadingKeeps

LEMMA BuffStatusStep ==
  ASSUME Orderly, TypesOK', Control!BuffStatus
  PROVE  Orderly'
<1>1. /\ "status" \in todo /\ pend' = pend \ {"status"}
      /\ todo' = (todo \ {"status"}) \cup (pend \cap {"in", "out"})
      /\ UNCHANGED <<host, got, lost, ep, dev>>
  BY DEF Control!BuffStatus, Control!Handling, Control!UnchangedByDevice, Control!Completions
<1>2. pend' = pend
  BY <1>1 DEF Orderly, TypesOK, BitsOK, Bits
<1>3. Silent => Silent'
  BY <1>1, <1>2 DEF Silent
<1>4. \A b \in Bits : Raised(b) => Raised(b)'
  BY <1>1, <1>2 DEF Raised, Bits
<1>5. ResetComes' <=> ResetComes
  BY <1>1, <1>2 DEF ResetComes
<1> QED
  BY <1>1, <1>3, <1>4, <1>5, ReadingKeeps

(* A SETUP finds nothing that its coroutine would be disturbed by.         *)
LEMMA SetupStep ==
  ASSUME Orderly, TypesOK', Control!Setup
  PROVE  Orderly'
<1>1. /\ Control!Suspended /\ "setup" \in todo
      /\ todo' = todo \ {"setup"} /\ pend' = pend \ {"setup"}
      /\ dev' = [dev EXCEPT !.n = host.n, !.req = host.req, !.k = 0,
                   !.pidIn = 1, !.pidOut = 1,
                   !.pc = CASE host.req.type = "long" -> "stall"
                            [] host.req.in -> "dispatch" [] OTHER -> "receive"]
      /\ ep' = ep /\ host' = host /\ got' = got /\ lost' = lost
  BY DEF Control!Setup, Control!Handling, Control!UnchangedByDevice
<1>2. Asked
  <2>1. ~Silent /\ ~Raised("in") /\ ~Raised("out")
    BY <1>1 DEF Silent, Raised
  <2>2. ~Situation
    BY <1>1, <2>1 DEF Situation, Control!Suspended, Over, Stalled, Unanswerable, Listening,
         Answering, Offered, Acknowledging
  <2> QED
    BY <2>2, Known
<1>3. RequestOK(host.req)
  BY <1>2, RequestsAssumption DEF Asked, Asking
<1>4. /\ dev'.n = host.n /\ dev'.req = host.req
      /\ dev'.k = 0 /\ dev'.pidIn = 1 /\ dev'.pidOut = 1 /\ dev'.addr = dev.addr
      /\ dev'.tx = dev.tx /\ dev'.rx = dev.rx
  BY <1>1, Known
<1>5. dev'.pc = IF host.req.type = "long" THEN "stall"
                ELSE IF host.req.in THEN "dispatch" ELSE "receive"
  BY <1>1, <1>3, Known DEF RequestOK
<1>6. Silent' /\ GivenUp' = GivenUp
  BY <1>1, <1>2 DEF Asked, Raised, Silent, GivenUp
<1>7. OwnPackets'
  BY <1>1, <1>2 DEF Asked, OwnPackets
<1>8. AddressesAgree'
  <2>1. ResetComes' <=> ResetComes
    BY <1>1 DEF ResetComes
  <2>2. ~AddressComes /\ ~AddressComes'
    BY <1>1, <1>2 DEF AddressComes, Asked
  <2> QED
    BY <1>1, <1>4, <1>6, <2>1, <2>2, Known DEF AddressesAgree
<1>9. Waits'
  BY <1>1, <1>2, <1>4, <1>5 DEF Waits, Asked
<1>10. Running'
  BY <1>1, <1>2, <1>4 DEF Running, Asking, Asked
<1>11. got' = << >> /\ (GivenUp' \/ (host.stage = FirstStage /\ host.k = 0 /\ host.pid = 1))
  BY <1>1, <1>2, <1>6 DEF Asked
<1>12. Situation'
  <2>1. CASE dev'.pc = "stall"
    <3>1. host.req.type = "long"
      BY <1>5, <2>1
    <3>2. GivenUp' \/ host.stage = "out"
      BY <1>3, <1>11, <3>1 DEF FirstStage, RequestOK
    <3>3. Unanswerable'
      BY <1>1, <1>6, <1>11, <3>1, <3>2 DEF Unanswerable
    <3> QED
      BY <1>10, <2>1, <3>3 DEF Situation
  <2>2. CASE dev'.pc = "dispatch"
    <3>1. host.req.type # "long" /\ host.req.in
      BY <1>5, <2>2
    <3>2. Dispatching'
      BY <1>1, <1>4, <1>6, <1>10, <1>11, <3>1 DEF Dispatching, FirstStage
    <3> QED
      BY <2>2, <3>2 DEF Situation
  <2>3. CASE dev'.pc = "receive"
    <3>1. host.req.type # "long" /\ ~host.req.in
      BY <1>5, <2>3
    <3>2. Receiving'
      BY <1>1, <1>3, <1>4, <1>10, <1>11, <3>1 DEF Receiving, RequestOK
    <3>3. Expects(0)'
      BY <1>1, <1>3, <1>4, <1>11, <3>1 DEF Expects, FirstStage, RequestOK
    <3> QED
      BY <1>4, <1>6, <2>3, <3>2, <3>3 DEF Situation, Expects
  <2> QED
    BY <1>5, <2>1, <2>2, <2>3
<1> QED
  BY <1>1, <1>7, <1>8, <1>9, <1>12, Known DEF Orderly

(* The completion of a packet resumes the coroutine that waits for it, and *)
(* no other. *)
LEMMA TxDoneStep ==
  ASSUME Orderly, TypesOK', Control!TxDone
  PROVE  Orderly'
<1> DEFINE r == Control!Resumed(dev.tx, dev.pc = "tx", "sent")
<1>1. /\ Control!Suspended /\ "in" \in todo
      /\ todo' = todo \ {"in"} /\ pend' = pend \ {"in"}
      /\ dev' = [dev EXCEPT !.pc = r.tag, !.tx = r.a]
      /\ ep' = ep /\ host' = host /\ got' = got /\ lost' = lost
  BY DEF Control!TxDone, Control!Handling, Control!UnchangedByDevice
<1>2. ~Silent /\ ~Raised("setup") /\ ~Raised("out")
  BY <1>1 DEF Silent, Raised
<1>3. Waits /\ Situation
  BY <1>2, Known DEF Asked
<1>4. dev.pc = "tx" /\ Sending /\ ~ep.in.avail /\ Raised("in") /\ Given
  <2>1. dev.pc # "none"
    BY <1>2, <1>3 DEF Situation, Over, Stalled, Unanswerable
  <2>2. dev.pc # "rx"
    BY <1>2, <1>3 DEF Situation, Listening
  <2>3. dev.pc # "ack"
    BY <1>2, <1>3 DEF Situation, Acknowledging
  <2> QED
    BY <1>1, <1>2, <1>3, <2>1, <2>2, <2>3 DEF Control!Suspended, Situation, Answering, Offered
<1>5. Running /\ dev.n > 0 /\ dev.n \in Nat
  BY <1>4, Known DEF Sending, Running, Asking
<1>6. r = [tag |-> "sent", a |-> Control!Off]
  <2>1. dev.tx.handle = dev.n
    BY <1>3, <1>4 DEF Waits, Waiting
  <2> QED
    BY <1>4, <1>5, <2>1 DEF Control!Resumed
<1>7. /\ dev'.pc = "sent" /\ dev'.tx = Control!Off
      /\ dev'.n = dev.n /\ dev'.req = dev.req /\ dev'.k = dev.k /\ dev'.rx = dev.rx
      /\ dev'.pidIn = dev.pidIn /\ dev'.pidOut = dev.pidOut /\ dev'.addr = dev.addr
  <2>1. r.tag = "sent" /\ r.a = Control!Off
    BY <1>6
  <2> HIDE DEF r
  <2> QED
    BY <1>1, <2>1, Known
<1> HIDE DEF r
<1>8. Silent'
  BY <1>1, <1>4 DEF Raised, Silent
<1>9. OwnPackets'
  BY <1>1, <1>7, Known DEF OwnPackets
<1>10. AddressesAgree'
  <2>1. ResetComes' <=> ResetComes
    BY <1>1 DEF ResetComes
  <2>2. AddressComes' <=> AddressComes
    BY <1>1, <1>4, <1>7 DEF AddressComes
  <2> QED
    BY <1>1, <1>7, <2>1, <2>2, Known DEF AddressesAgree, GivenUp
<1>11. Waits'
  BY <1>1, <1>3, <1>4, <1>7 DEF Waits, Control!Off
<1>12. Situation'
  <2>1. Sending' /\ Given'
    BY <1>1, <1>4, <1>7 DEF Sending, Running, Given, Accepted, GivenUp, Asking, Nth
  <2> QED
    BY <1>7, <1>8, <2>1 DEF Situation
<1> QED
  BY <1>1, <1>9, <1>10, <1>11, <1>12, Known DEF Orderly

LEMMA RxDoneStep ==
  ASSUME Orderly, TypesOK', Control!RxDone
  PROVE  Orderly'
<1> DEFINE next == IF dev.pc = "rx" THEN "received" ELSE "none"
           r == Control!Resumed(dev.rx, dev.pc \in {"rx", "ack"}, next)
<1>1. /\ Control!Suspended /\ "out" \in todo
      /\ todo' = todo \ {"out"} /\ pend' = pend \ {"out"}
      /\ dev' = [dev EXCEPT !.pc = r.tag, !.rx = r.a]
      /\ ep' = ep /\ host' = host /\ got' = got /\ lost' = lost
  BY DEF Control!RxDone, Control!Handling, Control!UnchangedByDevice
<1>2. ~Silent /\ ~Raised("setup") /\ ~Raised("in")
  BY <1>1 DEF Silent, Raised
<1>3. Waits /\ Situation
  BY <1>2, Known DEF Asked
<1>4. dev.pc \in {"rx", "ack"}
  <2>1. dev.pc # "none"
    BY <1>2, <1>3 DEF Situation, Over, Stalled, Unanswerable
  <2>2. dev.pc # "tx"
    BY <1>2, <1>3 DEF Situation, Answering, Offered
  <2> QED
    BY <1>1, <2>1, <2>2 DEF Control!Suspended
<1>5. /\ ~ep.out.avail /\ ~ep.in.avail /\ ~ep.stall /\ Raised("out") /\ Running
      /\ dev.pc = "rx" => Receiving /\ Ahead
      /\ dev.pc = "ack" => GivenUp
  BY <1>2, <1>3, <1>4 DEF Waits, Situation, Listening, Acknowledging, Receiving
<1>6. dev.n > 0 /\ dev.n \in Nat
  BY <1>5, Known DEF Running, Asking
<1>7. r = [tag |-> next, a |-> Control!Off]
  <2>1. dev.rx.handle = dev.n
    BY <1>3, <1>4 DEF Waits, Waiting
  <2> QED
    BY <1>4, <1>6, <2>1 DEF Control!Resumed
<1>8. /\ dev'.pc = next /\ dev'.rx = Control!Off
      /\ dev'.n = dev.n /\ dev'.req = dev.req /\ dev'.k = dev.k /\ dev'.tx = dev.tx
      /\ dev'.pidIn = dev.pidIn /\ dev'.pidOut = dev.pidOut /\ dev'.addr = dev.addr
  <2>1. r.tag = next /\ r.a = Control!Off
    BY <1>7
  <2> HIDE DEF r, next
  <2> QED
    BY <1>1, <2>1, Known
<1> HIDE DEF r
<1>9. Silent'
  BY <1>1, <1>5 DEF Raised, Silent
<1>10. OwnPackets'
  BY <1>1, <1>8, Known DEF OwnPackets
<1>11. AddressesAgree'
  <2>1. ResetComes' <=> ResetComes
    BY <1>1 DEF ResetComes
  <2>2. ~AddressComes' /\ ~AddressComes
    BY <1>4, <1>8 DEF AddressComes
  <2> QED
    BY <1>1, <1>8, <2>1, <2>2, Known DEF AddressesAgree, GivenUp
<1>12. Waits'
  BY <1>1, <1>3, <1>5, <1>8 DEF Waits
<1>13. Situation'
  <2>1. CASE dev.pc = "rx"
    <3>1. Receiving' /\ Ahead'
      BY <1>1, <1>5, <1>8, <2>1 DEF Receiving, Running, Asking, Ahead, Expects, GivenUp
    <3> QED
      BY <1>8, <1>9, <2>1, <3>1 DEF Situation
  <2>2. CASE dev.pc = "ack"
    <3>1. Over'
      BY <1>1, <1>5, <1>9, <2>2 DEF Over, GivenUp
    <3> QED
      BY <1>8, <2>2, <3>1 DEF Situation
  <2> QED
    BY <1>4, <2>1, <2>2
<1> QED
  BY <1>1, <1>10, <1>11, <1>12, <1>13, Known DEF Orderly

(* A bus reset is the last that an interrupt handles: an address that was  *)
(* set before it is forgotten, and none is set after it.                   *)
LEMMA ResetStep ==
  ASSUME Orderly, TypesOK', Control!Reset
  PROVE  Orderly'
<1>1. /\ Control!Suspended /\ "reset" \in todo
      /\ todo' = todo \ {"reset"} /\ pend' = pend \ {"reset"} /\ dev' = [dev EXCEPT !.addr = 0]
      /\ \A b \in todo \ {"reset"} : Control!Order["reset"] < Control!Order[b]
      /\ ep' = ep /\ host' = host /\ got' = got /\ lost' = lost
  BY DEF Control!Reset, Control!Handling, Control!UnchangedByDevice
<1>2. todo = {"reset"}
  <2>1. \A b \in (Bits \cup {"status"}) \ {"reset"} : ~(Control!Order["reset"] < Control!Order[b])
    BY DEF Control!Order, Bits
  <2>2. todo \subseteq Bits \cup {"status"}
    BY DEF Orderly, TypesOK, BitsOK
  <2> QED
    BY <1>1, <2>1, <2>2
<1>3. GivenUp /\ host.addr = 0
  BY <1>1, Known DEF AddressesAgree, ResetComes
<1>4. \A b \in {"setup", "in", "out"} : ~Raised(b)
  BY <1>2 DEF Raised
<1>5. Waits /\ Situation
  BY <1>4, Known DEF Asked
<1>6. Silent
  <2>1. dev.pc = "tx" => Offered
    BY <1>4, <1>5 DEF Situation, Answering
  <2>2. dev.pc = "rx" => Silent
    BY <1>4, <1>5 DEF Situation, Listening
  <2>3. dev.pc = "ack" => Silent
    BY <1>4, <1>5 DEF Situation, Acknowledging
  <2> QED
    BY <1>1, <1>5, <2>1, <2>2, <2>3
       DEF Situation, Control!Suspended, Over, Stalled, Unanswerable, Offered
<1>7. /\ dev'.pc = dev.pc /\ dev'.tx = dev.tx
      /\ dev'.n = dev.n /\ dev'.req = dev.req /\ dev'.k = dev.k /\ dev'.rx = dev.rx
      /\ dev'.pidIn = dev.pidIn /\ dev'.pidOut = dev.pidOut /\ dev'.addr = 0
  BY <1>1, Known
<1>8. OwnPackets'
  BY <1>1, <1>7, Known DEF OwnPackets
<1>9. Silent' /\ GivenUp' /\ ~ResetComes'
  BY <1>1, <1>2, <1>3, <1>6 DEF Silent, GivenUp, ResetComes
<1>10. ~AddressComes'
  <2> SUFFICES ASSUME dev.pc = "tx", dev.req.type = "address", got # << >> PROVE FALSE
    BY <1>1, <1>7 DEF AddressComes, Control!Suspended
  <2>1. Offered /\ Sending
    BY <1>4, <1>5 DEF Situation, Answering
  <2>2. dev.req = host.req /\ RequestOK(host.req)
    BY <2>1, RequestsAssumption DEF Sending, Running, Asking
  <2> QED
    BY <2>1, <2>2 DEF Offered, RequestOK
<1>11. AddressesAgree'
  BY <1>1, <1>3, <1>7, <1>9, <1>10 DEF AddressesAgree
<1>12. Waits'
  BY <1>1, <1>5, <1>7 DEF Waits, Waiting
<1>13. Situation'
  <2>1. Running => Running'
    BY <1>1, <1>7 DEF Running, Asking
  <2>2. CASE dev.pc = "none"
    BY <1>7, <1>9, <2>2 DEF Situation, Over
  <2>3. CASE dev.pc = "tx"
    <3>1. Offered /\ Sending
      BY <1>4, <1>5, <2>3 DEF Situation, Answering
    <3>2. Sending'
      BY <1>1, <1>7, <2>1, <3>1 DEF Sending, Nth
    <3>3. Offered'
      BY <1>1, <1>9, <3>1 DEF Offered
    <3> QED
      BY <1>7, <2>3, <3>2, <3>3 DEF Situation, Answering
  <2>4. CASE dev.pc = "rx"
    <3>1. Receiving /\ ep.out.avail /\ dev.k < host.req.parts
      BY <1>4, <1>5, <2>4 DEF Situation, Listening
    <3>2. Receiving'
      BY <1>1, <1>7, <2>1, <3>1 DEF Receiving
    <3>3. Listening'
      BY <1>1, <1>7, <1>9, <3>1 DEF Listening
    <3> QED
      BY <1>7, <2>4, <3>2, <3>3 DEF Situation
  <2>5. CASE dev.pc = "ack"
    <3>1. Running /\ host.req.in /\ ep.out.avail
      BY <1>4, <1>5, <2>5 DEF Situation, Acknowledging
    <3>2. Acknowledging'
      BY <1>1, <1>9, <2>1, <3>1 DEF Acknowledging
    <3> QED
      BY <1>7, <2>5, <3>2 DEF Situation
  <2> QED
    BY <1>1, <2>2, <2>3, <2>4, <2>5 DEF Control!Suspended
<1> QED
  BY <1>1, <1>8, <1>11, <1>12, <1>13, Known DEF Orderly

-----------------------------------------------------------------------------
(* Steps of the coroutine.                                                 *)

(* A step that only the running coroutine and the buffers take part in.    *)
Alone ==
  /\ host' = host /\ got' = got /\ lost' = lost /\ pend' = pend /\ todo' = todo
  /\ dev'.n = dev.n /\ dev'.req = dev.req

LEMMA Runs ==
  ASSUME Orderly, ~Control!Suspended
  PROVE  Waits /\ Situation
  BY Known DEF Asked

(* It keeps the situation of a running request, whoever goes on then.      *)
LEMMA AloneStep ==
  ASSUME Orderly, TypesOK', Alone, Running,
         ~host.req.in => got = << >> \/ dev'.k = dev.k,
         AddressComes' <=> AddressComes, dev'.addr = dev.addr,
         Waits', Situation'
  PROVE  Orderly'
<1>1. OwnPackets'
  BY Known DEF Alone, OwnPackets
<1>2. AddressesAgree'
  <2>1. (ResetComes' <=> ResetComes) /\ (GivenUp' <=> GivenUp)
    BY DEF Alone, ResetComes, GivenUp
  <2> QED
    BY <2>1, Known DEF Alone, AddressesAgree
<1> QED
  BY <1>1, <1>2, Known DEF Alone, Orderly

LEMMA AloneKeeps ==
  ASSUME Alone
  PROVE  /\ Running => Running'
         /\ Silent => Silent'
         /\ GivenUp' <=> GivenUp
  BY DEF Alone, Running, Asking, Silent, GivenUp

(* The registers and the awaitable after start_rx.                         *)
LEMMA StartedRx ==
  ASSUME Orderly, NEW next, Control!StartRx(next), Control!UnchangedByCoroutine, ~ep.out.avail
  PROVE  /\ Alone
         /\ dev'.k = dev.k /\ dev'.pc = next /\ dev'.tx = dev.tx
         /\ dev'.rx = [val |-> FALSE, handle |-> dev.n]
         /\ dev'.pidIn = dev.pidIn /\ dev'.pidOut = Control!Flip(dev.pidOut)
         /\ dev'.addr = dev.addr
         /\ ep'.in = ep.in /\ ep'.stall = ep.stall
         /\ ep'.out.avail = TRUE /\ ep'.out.pid = dev.pidOut
<1>1. ep' = [ep EXCEPT !.out.avail = TRUE, !.out.pid = dev.pidOut]
  BY DEF Control!StartRx
<1>2. dev' = [dev EXCEPT !.rx = [val |-> FALSE, handle |-> dev.n], !.pc = next,
                !.pidOut = Control!Flip(@)]
  BY DEF Control!StartRx
<1>3. /\ dev'.n = dev.n /\ dev'.req = dev.req
      /\ dev'.k = dev.k /\ dev'.pc = next /\ dev'.tx = dev.tx
      /\ dev'.rx = [val |-> FALSE, handle |-> dev.n]
      /\ dev'.pidIn = dev.pidIn /\ dev'.pidOut = Control!Flip(dev.pidOut)
      /\ dev'.addr = dev.addr
  BY <1>2, Known
<1>4. /\ ep'.in = ep.in /\ ep'.stall = ep.stall
      /\ ep'.out.avail = TRUE /\ ep'.out.pid = dev.pidOut
  BY <1>1, Known
<1> QED
  BY <1>3, <1>4 DEF Alone, Control!UnchangedByCoroutine, Control!UnchangedByDevice

(* A coroutine that goes on without the registers. *)
GoesTo(next, k) == dev' = [dev EXCEPT !.k = k, !.pc = next]
LEMMA GoesOn ==
  ASSUME Orderly, NEW next, NEW k, GoesTo(next, k), ep' = ep, Control!UnchangedByCoroutine
  PROVE  /\ Alone
         /\ dev'.k = k /\ dev'.pc = next /\ dev'.tx = dev.tx /\ dev'.rx = dev.rx
         /\ dev'.pidIn = dev.pidIn /\ dev'.pidOut = dev.pidOut /\ dev'.addr = dev.addr
<1>1. /\ dev'.n = dev.n /\ dev'.req = dev.req
      /\ dev'.k = k /\ dev'.pc = next /\ dev'.tx = dev.tx /\ dev'.rx = dev.rx
      /\ dev'.pidIn = dev.pidIn /\ dev'.pidOut = dev.pidOut /\ dev'.addr = dev.addr
  BY Known DEF GoesTo
<1> QED
  BY <1>1 DEF Alone, Control!UnchangedByCoroutine, Control!UnchangedByDevice

LEMMA ReceiveStep ==
  ASSUME Orderly, TypesOK', Control!Receive
  PROVE  Orderly'
<1>1. dev.pc = "receive" /\ Control!UnchangedByCoroutine
  BY DEF Control!Receive, Control!Runs
<1>2. Waits /\ Situation
  BY <1>1, Runs DEF Control!Suspended
<1>3. /\ Receiving /\ Silent /\ Expects(dev.k) /\ Running /\ dev.req = host.req /\ got = << >>
      /\ ~ep.in.avail /\ ~ep.out.avail /\ ~ep.stall /\ ~dev.tx.val
  BY <1>1, <1>2 DEF Situation, Waits, Receiving, Running
<1>4. RequestOK(host.req)
  BY <1>3, RequestsAssumption DEF Running, Asking
<1>5. CASE dev.k < host.req.parts
  <2>1. Control!StartRx("rx")
    BY <1>3, <1>5 DEF Control!Receive
  <2>2. /\ Alone
        /\ dev'.k = dev.k /\ dev'.pc = "rx" /\ dev'.tx = dev.tx
        /\ dev'.rx = [val |-> FALSE, handle |-> dev.n]
        /\ dev'.pidIn = dev.pidIn /\ dev'.pidOut = Control!Flip(dev.pidOut)
        /\ dev'.addr = dev.addr
        /\ ep'.in = ep.in /\ ep'.stall = ep.stall
        /\ ep'.out.avail = TRUE /\ ep'.out.pid = dev.pidOut
    BY <1>1, <1>3, <2>1, StartedRx
  <2>3. Waits'
    BY <1>3, <2>2 DEF Waits, Waiting, Alone
  <2>4. Running' /\ Silent' /\ (GivenUp' <=> GivenUp)
    BY <1>3, <2>2, AloneKeeps
  <2>5. Receiving'
    BY <1>3, <2>2, <2>4 DEF Receiving, Alone
  <2>6. GivenUp \/ Sought'
    BY <1>3, <1>5, <2>2, Known DEF Expects, Sought, Control!Flip, Alone
  <2>7. Listening'
    BY <1>5, <2>2, <2>4, <2>6 DEF Listening, Alone
  <2>8. Situation'
    BY <2>2, <2>5, <2>7 DEF Situation
  <2>9. ~AddressComes /\ ~AddressComes'
    BY <1>1, <2>2 DEF AddressComes
  <2> QED
    BY <1>3, <2>2, <2>3, <2>8, <2>9, AloneStep
<1>6. CASE ~(dev.k < host.req.parts)
  <2>1. dev' = [dev EXCEPT !.pc = "dispatch"] /\ ep' = ep
    BY <1>3, <1>6 DEF Control!Receive
  <2>2. GoesTo("dispatch", dev.k)
    BY <2>1, Known DEF GoesTo
  <2>3. /\ Alone
        /\ dev'.k = dev.k /\ dev'.pc = "dispatch" /\ dev'.tx = dev.tx /\ dev'.rx = dev.rx
        /\ dev'.pidIn = dev.pidIn /\ dev'.pidOut = dev.pidOut /\ dev'.addr = dev.addr
    BY <1>1, <2>1, <2>2, GoesOn
  <2>4. Waits'
    BY <1>3, <2>1, <2>3 DEF Waits
  <2>5. Running' /\ Silent' /\ (GivenUp' <=> GivenUp)
    BY <1>3, <2>3, AloneKeeps
  <2>6. dev.k = host.req.parts
    BY <1>3, <1>4, <1>6, Known DEF Receiving, RequestOK
  <2>7. Dispatching'
    BY <1>3, <1>6, <2>3, <2>5, <2>6 DEF Dispatching, Receiving, Expects, Alone
  <2>8. Situation'
    BY <2>3, <2>7 DEF Situation
  <2>9. ~AddressComes /\ ~AddressComes'
    BY <1>1, <2>3 DEF AddressComes
  <2> QED
    BY <1>3, <2>3, <2>4, <2>8, <2>9, AloneStep
<1> QED
  BY <1>5, <1>6

LEMMA ReceivedStep ==
  ASSUME Orderly, TypesOK', Control!Received
  PROVE  Orderly'
<1>1. /\ dev.pc = "received" /\ Control!UnchangedByCoroutine
      /\ dev' = [dev EXCEPT !.k = dev.k + 1, !.pc = "receive"] /\ ep' = ep
  BY DEF Control!Received, Control!Runs
<1>2. Waits /\ Situation
  BY <1>1, Runs DEF Control!Suspended
<1>3. /\ Receiving /\ Silent /\ Ahead /\ Running /\ got = << >>
      /\ ~ep.in.avail /\ ~ep.out.avail /\ ~ep.stall /\ ~dev.tx.val
  BY <1>1, <1>2 DEF Situation, Waits, Receiving
<1>4. RequestOK(host.req)
  BY <1>3, RequestsAssumption DEF Running, Asking
<1>5. /\ Alone
      /\ dev'.k = dev.k + 1 /\ dev'.pc = "receive" /\ dev'.tx = dev.tx /\ dev'.rx = dev.rx
      /\ dev'.pidIn = dev.pidIn /\ dev'.pidOut = dev.pidOut /\ dev'.addr = dev.addr
  <2>1. GoesTo("receive", dev.k + 1)
    BY <1>1 DEF GoesTo
  <2> QED
    BY <1>1, <2>1, GoesOn
<1>6. Waits'
  BY <1>1, <1>3, <1>5 DEF Waits
<1>7. Running' /\ Silent' /\ (GivenUp' <=> GivenUp)
  BY <1>3, <1>5, AloneKeeps
<1>8. Receiving' /\ Expects(dev.k)'
  BY <1>3, <1>4, <1>5, <1>7, Known DEF Receiving, Ahead, Expects, Alone, RequestOK
<1>9. Situation'
  BY <1>5, <1>7, <1>8 DEF Situation
<1>10. ~AddressComes /\ ~AddressComes'
  BY <1>1, <1>5 DEF AddressComes
<1> QED
  BY <1>3, <1>5, <1>6, <1>9, <1>10, AloneStep

(* A packet is offered and awaited. *)
Sends(k, pkt) ==
  /\ Alone
  /\ dev'.k = k /\ dev'.pc = "tx" /\ dev'.rx = dev.rx
  /\ dev'.tx = [val |-> FALSE, handle |-> dev.n]
  /\ dev'.pidIn = Control!Flip(dev.pidIn) /\ dev'.pidOut = dev.pidOut /\ dev'.addr = dev.addr
  /\ ep'.in.avail = TRUE /\ ep'.in.pid = dev.pidIn /\ ep'.in.pkt = pkt
  /\ ep'.out = ep.out /\ ep'.stall = FALSE

LEMMA FlushSends ==
  ASSUME Orderly, NEW pkt, Control!Flush(pkt), Control!UnchangedByCoroutine
  PROVE  Sends(dev.k, pkt)
<1>1. ep' = [ep EXCEPT !.in = [avail |-> TRUE, pid |-> dev.pidIn, pkt |-> pkt],
                       !.stall = FALSE]
  BY DEF Control!Flush
<1>2. /\ ep'.out = ep.out /\ ep'.stall = FALSE
      /\ ep'.in.avail = TRUE /\ ep'.in.pid = dev.pidIn /\ ep'.in.pkt = pkt
  BY <1>1, Known
<1> DEFINE d == [dev EXCEPT !.tx = [val |-> FALSE, handle |-> dev.n], !.pc = "tx"]
<1>3. dev' = [d EXCEPT !.pidIn = Control!Flip(@)]
  BY DEF Control!Flush, Control!AwaitTx, Control!Off
<1>4. /\ DOMAIN d = DOMAIN dev /\ d.n = dev.n /\ d.req = dev.req
      /\ d.k = dev.k /\ d.pc = "tx" /\ d.rx = dev.rx
      /\ d.tx = [val |-> FALSE, handle |-> dev.n]
      /\ d.pidIn = dev.pidIn /\ d.pidOut = dev.pidOut /\ d.addr = dev.addr
  BY Known
<1> HIDE DEF d
<1>5. /\ dev'.n = dev.n /\ dev'.req = dev.req
      /\ dev'.k = dev.k /\ dev'.pc = "tx" /\ dev'.rx = dev.rx
      /\ dev'.tx = [val |-> FALSE, handle |-> dev.n]
      /\ dev'.pidIn = Control!Flip(dev.pidIn) /\ dev'.pidOut = dev.pidOut
      /\ dev'.addr = dev.addr
  BY <1>3, <1>4, Known
<1> QED
  BY <1>2, <1>5 DEF Sends, Alone, Control!UnchangedByCoroutine, Control!UnchangedByDevice

(* c is the coroutine's state, with its new number of packets.             *)
Counting(c, k) ==
  /\ DOMAIN c = DOMAIN dev /\ c.n = dev.n /\ c.req = dev.req
  /\ c.k = k /\ c.pc = dev.pc /\ c.rx = dev.rx /\ c.tx = dev.tx
  /\ c.pidIn = dev.pidIn /\ c.pidOut = dev.pidOut /\ c.addr = dev.addr

LEMMA CountingNext ==
  ASSUME Orderly, NEW k
  PROVE  Counting([dev EXCEPT !.k = k], k)
  BY Known DEF Counting

LEMMA TxDataSends ==
  ASSUME Orderly, NEW c, NEW k, NEW pkt, Counting(c, k), Control!TxData(c, pkt),
         Control!UnchangedByCoroutine, ~dev.tx.val, ~ep.in.avail
  PROVE  Sends(k, pkt)
<1>1. /\ DOMAIN c = DOMAIN dev /\ c.n = dev.n /\ c.req = dev.req
      /\ c.k = k /\ c.pc = dev.pc /\ c.rx = dev.rx /\ c.tx = dev.tx
      /\ c.pidIn = dev.pidIn /\ c.pidOut = dev.pidOut /\ c.addr = dev.addr
  BY DEF Counting
<1>2. Control!TxData(c, pkt)
  OBVIOUS
<1>3. ep' = [ep EXCEPT !.in = [avail |-> TRUE, pid |-> c.pidIn, pkt |-> pkt],
                       !.stall = FALSE]
  BY <1>2 DEF Control!TxData
<1>4. /\ ep'.out = ep.out /\ ep'.stall = FALSE
      /\ ep'.in.avail = TRUE /\ ep'.in.pid = dev.pidIn /\ ep'.in.pkt = pkt
  BY <1>1, <1>3, Known
<1> DEFINE d == [c EXCEPT !.tx = [val |-> FALSE, handle |-> c.n], !.pc = "tx"]
<1>5. dev' = [d EXCEPT !.pidIn = Control!Flip(@)]
  BY <1>1, <1>2 DEF Control!TxData, Control!AwaitTx
<1>6. /\ DOMAIN d = DOMAIN dev /\ d.n = dev.n /\ d.req = dev.req
      /\ d.k = k /\ d.pc = "tx" /\ d.rx = dev.rx
      /\ d.tx = [val |-> FALSE, handle |-> c.n]
      /\ d.pidIn = dev.pidIn /\ d.pidOut = dev.pidOut /\ d.addr = dev.addr
  BY <1>1, Known
<1>7. d.tx = [val |-> FALSE, handle |-> dev.n]
  BY <1>1, <1>6
<1> HIDE DEF d
<1>8. /\ dev'.n = dev.n /\ dev'.req = dev.req
      /\ dev'.k = k /\ dev'.pc = "tx" /\ dev'.rx = dev.rx
      /\ dev'.tx = [val |-> FALSE, handle |-> dev.n]
      /\ dev'.pidIn = Control!Flip(dev.pidIn) /\ dev'.pidOut = dev.pidOut
      /\ dev'.addr = dev.addr
  BY <1>5, <1>6, <1>7, Known
<1> QED
  BY <1>4, <1>8 DEF Sends, Alone, Control!UnchangedByCoroutine, Control!UnchangedByDevice

(* Where the host still wants it, the PID is the one that it expects, and  *)
(* the packet the next one. *)
LEMMA SendsStep ==
  ASSUME Orderly, TypesOK', NEW k \in Nat, NEW pkt, Sends(k, pkt), Running, Silent,
         dev.pc \in {"dispatch", "sent"}, ~AddressComes,
         host.req.type \notin {"bad", "long"},
         NEW j \in Nat,
         j = IF host.req.type = "short" THEN 1 ELSE k,
         host.req.in => j \in 1..host.req.parts /\ dev.pidOut = 1,
         ~host.req.in => k = host.req.parts /\ got = << >>,
         \/ GivenUp
         \/ /\ host.pid = dev.pidIn
            /\ host.req.in => /\ host.stage = "in" /\ host.k + 1 = j /\ Len(got) = host.k
                              /\ pkt = Control!Packet(host.n, j)
            /\ ~host.req.in => /\ host.stage = "statusIn"
                               /\ pkt = Control!Packet(host.n, 0)
  PROVE  Orderly'
<1>1. /\ Alone /\ dev'.k = k /\ dev'.pc = "tx" /\ dev'.rx = dev.rx
      /\ dev'.tx = [val |-> FALSE, handle |-> dev.n]
      /\ dev'.pidIn = Control!Flip(dev.pidIn) /\ dev'.pidOut = dev.pidOut
      /\ dev'.addr = dev.addr
      /\ ep'.in.avail = TRUE /\ ep'.in.pid = dev.pidIn /\ ep'.in.pkt = pkt
      /\ ep'.out = ep.out /\ ep'.stall = FALSE
  BY DEF Sends
<1>2. ~ep.out.avail
  BY Runs DEF Control!Suspended, Waits
<1>3. Waits'
  BY <1>1, <1>2 DEF Waits, Waiting, Alone
<1>4. Running' /\ Silent' /\ (GivenUp' <=> GivenUp)
  BY <1>1, AloneKeeps
<1>5. Nth' = j
  BY <1>1 DEF Nth, Alone
<1>6. Sending'
  BY <1>1, <1>4, <1>5 DEF Sending, Alone
<1>7. GivenUp \/ Fresh'
  BY <1>1, <1>4, <1>5 DEF Fresh, Alone, Control!Flip
<1>8. Offered'
  BY <1>1, <1>4, <1>7 DEF Offered, Alone
<1>9. Situation'
  BY <1>1, <1>6, <1>8 DEF Situation, Answering
<1>10. ~AddressComes'
  <2>1. host.req.type = "address" => ~host.req.in
    BY RequestsAssumption DEF Running, Asking, RequestOK
  <2> QED
    BY <1>1, <2>1 DEF AddressComes, Alone, Running
<1>11. ~host.req.in => got = << >> \/ dev'.k = dev.k
  OBVIOUS
<1> QED
  BY <1>1, <1>3, <1>9, <1>10, <1>11, AloneStep

(* What a coroutine that dispatches a request knows.                       *)
LEMMA DispatchKnows ==
  ASSUME Orderly, dev.pc = "dispatch"
  PROVE  /\ Dispatching /\ Running /\ Silent /\ dev.req = host.req /\ dev.n = host.n
         /\ RequestOK(host.req) /\ ~dev.tx.val /\ got = << >> /\ ~AddressComes
         /\ ~ep.in.avail /\ ~ep.out.avail /\ ~ep.stall /\ dev.k \in Nat
<1>1. Waits /\ Situation
  BY Runs DEF Control!Suspended
<1>2. Dispatching /\ Running /\ Silent /\ dev.req = host.req /\ dev.n = host.n /\ got = << >>
  BY <1>1 DEF Situation, Dispatching, Running
<1>3. RequestOK(host.req)
  BY <1>2, RequestsAssumption DEF Running, Asking
<1>4. ~AddressComes /\ ~dev.tx.val /\ ~ep.in.avail /\ ~ep.out.avail /\ ~ep.stall
  BY <1>1 DEF Waits, AddressComes
<1> QED
  BY <1>2, <1>3, <1>4, Known

(* Acknowledgements of no length. *)
LEMMA AcknowledgedStep ==
  ASSUME Orderly, TypesOK', dev.pc = "dispatch", dev.req.type \in {"ack", "address"},
         Control!Flush(Control!Packet(dev.n, 0)), Control!UnchangedByCoroutine
  PROVE  Orderly'
<1>1. /\ Dispatching /\ Running /\ Silent /\ dev.req = host.req /\ dev.n = host.n
      /\ RequestOK(host.req) /\ got = << >> /\ ~AddressComes /\ dev.k \in Nat
  BY DispatchKnows
<1>2. Sends(dev.k, Control!Packet(host.n, 0))
  BY <1>1, FlushSends
<1>3. ~host.req.in
  BY <1>1 DEF RequestOK
<1>4. /\ dev.k = host.req.parts
      /\ GivenUp \/ (host.pid = dev.pidIn /\ host.stage = "statusIn")
  BY <1>1, <1>3 DEF Dispatching
<1> DEFINE j == IF host.req.type = "short" THEN 1 ELSE dev.k
<1>5. j \in Nat /\ host.req.type \notin {"bad", "long"}
  BY <1>1
<1> QED
  BY <1>1, <1>2, <1>3, <1>4, <1>5, SendsStep

LEMMA DispatchShortStep ==
  ASSUME Orderly, TypesOK', Control!DispatchShort
  PROVE  Orderly'
<1>1. /\ dev.pc = "dispatch" /\ dev.req.type = "short"
      /\ Control!Flush(Control!Packet(dev.n, 1)) /\ Control!UnchangedByCoroutine
  BY DEF Control!DispatchShort, Control!Runs
<1>2. /\ Dispatching /\ Running /\ Silent /\ dev.req = host.req /\ dev.n = host.n
      /\ RequestOK(host.req) /\ got = << >> /\ ~AddressComes /\ dev.k \in Nat
  BY <1>1, DispatchKnows
<1>3. Sends(dev.k, Control!Packet(host.n, 1))
  BY <1>1, <1>2, FlushSends
<1>4. host.req.in /\ host.req.parts = 1
  BY <1>1, <1>2 DEF RequestOK
<1>5. /\ dev.pidOut = 1 /\ Len(got) = 0
      /\ GivenUp \/ (host.pid = dev.pidIn /\ host.stage = "in" /\ host.k = 0)
  BY <1>2, <1>4 DEF Dispatching
<1> QED
  BY <1>1, <1>2, <1>3, <1>4, <1>5, SendsStep

LEMMA DispatchTxDataStep ==
  ASSUME Orderly, TypesOK', Control!DispatchTxData
  PROVE  Orderly'
<1>1. dev.pc = "dispatch" /\ dev.req.type \in {"chunks", "config"} /\ Control!UnchangedByCoroutine
  BY DEF Control!DispatchTxData, Control!Runs
<1>2. /\ Dispatching /\ Running /\ Silent /\ dev.req = host.req /\ dev.n = host.n
      /\ RequestOK(host.req) /\ ~dev.tx.val /\ got = << >> /\ dev.k \in Nat
      /\ ~ep.in.avail /\ ~AddressComes
  BY <1>1, DispatchKnows
<1>3. CASE host.req.in
  <2>1. Control!TxData([dev EXCEPT !.k = 1], Control!Packet(dev.n, 1))
    BY <1>2, <1>3 DEF Control!DispatchTxData
  <2>2. Sends(1, Control!Packet(host.n, 1))
    BY <1>1, <1>2, <2>1, CountingNext, TxDataSends
  <2>3. /\ dev.pidOut = 1 /\ Len(got) = 0 /\ host.req.parts \in Nat /\ host.req.parts > 0
        /\ GivenUp \/ (host.pid = dev.pidIn /\ host.stage = "in" /\ host.k = 0)
    BY <1>2, <1>3 DEF Dispatching, RequestOK
  <2> QED
    BY <1>1, <1>2, <1>3, <2>2, <2>3, SendsStep
<1>4. CASE ~host.req.in
  <2>1. Control!TxData(dev, Control!Packet(dev.n, 0))
    BY <1>2, <1>4 DEF Control!DispatchTxData
  <2>2. Counting(dev, dev.k)
    BY DEF Counting
  <2>3. Sends(dev.k, Control!Packet(host.n, 0))
    BY <1>1, <1>2, <2>1, <2>2, TxDataSends
  <2>4. /\ dev.k = host.req.parts
        /\ GivenUp \/ (host.pid = dev.pidIn /\ host.stage = "statusIn")
    BY <1>2, <1>4 DEF Dispatching
  <2> QED
    BY <1>1, <1>2, <1>4, <2>3, <2>4, SendsStep
<1> QED
  BY <1>3, <1>4

LEMMA SentKnows ==
  ASSUME Orderly, dev.pc = "sent"
  PROVE  /\ Sending /\ Silent /\ Given /\ Running /\ dev.req = host.req /\ dev.n = host.n
         /\ ~dev.tx.val /\ ~ep.in.avail /\ ~ep.out.avail /\ ~ep.stall
         /\ RequestOK(host.req) /\ dev.k \in Nat
<1>1. Waits /\ Situation
  BY Runs DEF Control!Suspended
<1>2. Sending /\ Silent /\ Given /\ Running /\ dev.req = host.req /\ dev.n = host.n
  BY <1>1 DEF Situation, Sending, Running
<1>3. RequestOK(host.req)
  BY <1>2, RequestsAssumption DEF Running, Asking
<1> QED
  BY <1>1, <1>2, <1>3, Known DEF Waits

LEMMA SentChunkStep ==
  ASSUME Orderly, TypesOK', Control!SentChunk
  PROVE  Orderly'
<1>1. /\ dev.pc = "sent" /\ dev.req.type = "chunks" /\ dev.req.in
      /\ dev.k < dev.req.parts /\ Control!UnchangedByCoroutine
      /\ Control!TxData([dev EXCEPT !.k = dev.k + 1], Control!Packet(dev.n, dev.k + 1))
  BY DEF Control!SentChunk, Control!Runs
<1>2. /\ Sending /\ Silent /\ Given /\ Running /\ dev.req = host.req /\ dev.n = host.n
      /\ ~dev.tx.val /\ ~ep.in.avail /\ RequestOK(host.req) /\ dev.k \in Nat
  BY <1>1, SentKnows
<1>3. Sends(dev.k + 1, Control!Packet(host.n, dev.k + 1))
  BY <1>1, <1>2, CountingNext, TxDataSends
<1>4. Nth = dev.k /\ Nth # host.req.parts
  BY <1>1, <1>2 DEF Nth, RequestOK
<1>5. /\ dev.pidOut = 1
      /\ GivenUp \/ /\ host.k = dev.k /\ Len(got) = dev.k /\ host.stage = "in"
                    /\ host.pid = dev.pidIn
  BY <1>1, <1>2, <1>4 DEF Given, Accepted, Sending
<1>6. dev.k + 1 \in Nat /\ dev.k + 1 \in 1..host.req.parts
  BY <1>1, <1>2 DEF RequestOK
<1>7. ~AddressComes
  BY <1>1 DEF AddressComes
<1> QED
  BY <1>1, <1>2, <1>3, <1>5, <1>6, <1>7, SendsStep

LEMMA DispatchBadStep ==
  ASSUME Orderly, TypesOK', Control!DispatchBad
  PROVE  Orderly'
<1>1. /\ dev.pc = "dispatch" /\ Control!UnchangedByCoroutine
      /\ dev' = [dev EXCEPT !.pc = "stall"] /\ ep' = ep
  BY DEF Control!DispatchBad, Control!Runs
<1>2. /\ Dispatching /\ Running /\ Silent /\ ~dev.tx.val /\ ~AddressComes
      /\ ~ep.in.avail /\ ~ep.out.avail /\ ~ep.stall /\ got = << >>
  BY <1>1, DispatchKnows
<1>3. GoesTo("stall", dev.k)
  BY <1>1, Known DEF GoesTo
<1>4. /\ Alone
      /\ dev'.k = dev.k /\ dev'.pc = "stall" /\ dev'.tx = dev.tx /\ dev'.rx = dev.rx
      /\ dev'.pidIn = dev.pidIn /\ dev'.pidOut = dev.pidOut /\ dev'.addr = dev.addr
  BY <1>1, <1>3, GoesOn
<1>5. Waits'
  BY <1>1, <1>2, <1>4 DEF Waits
<1>6. Running' /\ Silent' /\ (GivenUp' <=> GivenUp)
  BY <1>2, <1>4, AloneKeeps
<1>7. Situation'
  BY <1>2, <1>4, <1>6 DEF Situation, Unanswerable, Dispatching, Alone
<1>8. ~AddressComes'
  BY <1>4 DEF AddressComes
<1> QED
  BY <1>2, <1>4, <1>5, <1>7, <1>8, AloneStep

LEMMA StallStep ==
  ASSUME Orderly, TypesOK', Control!Stall
  PROVE  Orderly'
<1>1. /\ dev.pc = "stall" /\ Control!UnchangedByCoroutine
      /\ dev' = [dev EXCEPT !.pc = "none"] /\ ep' = [ep EXCEPT !.stall = TRUE]
  BY DEF Control!Stall, Control!Runs
<1>2. Waits /\ Situation
  BY <1>1, Runs DEF Control!Suspended
<1>3. /\ Running /\ Unanswerable /\ ~dev.tx.val
      /\ ~ep.in.avail /\ ~ep.out.avail /\ got = << >> /\ Silent
  BY <1>1, <1>2 DEF Situation, Waits, Unanswerable
<1>4. /\ dev'.n = dev.n /\ dev'.req = dev.req
      /\ dev'.k = dev.k /\ dev'.pc = "none" /\ dev'.tx = dev.tx /\ dev'.addr = dev.addr
  BY <1>1, Known
<1>5. ep'.in = ep.in /\ ep'.out = ep.out /\ ep'.stall = TRUE
  BY <1>1, Known
<1>6. Alone
  BY <1>1, <1>4 DEF Alone, Control!UnchangedByCoroutine, Control!UnchangedByDevice
<1>7. Waits'
  BY <1>3, <1>4, <1>5 DEF Waits
<1>8. Running' /\ Silent' /\ (GivenUp' <=> GivenUp)
  BY <1>3, <1>6, AloneKeeps
<1>9. Situation'
  BY <1>3, <1>4, <1>5, <1>6, <1>8 DEF Situation, Stalled, Unanswerable, Alone
<1>10. ~AddressComes /\ ~AddressComes'
  BY <1>1, <1>4 DEF AddressComes
<1> QED
  BY <1>3, <1>4, <1>6, <1>7, <1>9, <1>10, AloneStep

LEMMA SentAllStep ==
  ASSUME Orderly, TypesOK', Control!SentAll
  PROVE  Orderly'
<1>1. /\ dev.pc = "sent" /\ dev.req.in /\ Control!UnchangedByCoroutine /\ Control!StartRx("ack")
      /\ dev.req.type = "chunks" => dev.k = dev.req.parts
  BY DEF Control!SentAll, Control!Runs
<1>2. /\ Sending /\ Silent /\ Given /\ Running /\ dev.req = host.req
      /\ ~dev.tx.val /\ ~ep.in.avail /\ ~ep.out.avail /\ ~ep.stall
      /\ RequestOK(host.req) /\ dev.k \in Nat
  BY <1>1, SentKnows
<1>3. Nth = host.req.parts
  BY <1>1, <1>2 DEF RequestOK, Nth, Sending
<1>4. /\ dev.pidOut = 1
      /\ GivenUp \/ (Len(got) = host.req.parts /\ host.stage = "statusOut" /\ host.pid = 1)
  BY <1>1, <1>2, <1>3 DEF Given, Accepted, Sending
<1>5. /\ Alone
      /\ dev'.k = dev.k /\ dev'.pc = "ack" /\ dev'.tx = dev.tx
      /\ dev'.rx = [val |-> FALSE, handle |-> dev.n]
      /\ dev'.pidIn = dev.pidIn /\ dev'.pidOut = Control!Flip(dev.pidOut)
      /\ dev'.addr = dev.addr
      /\ ep'.in = ep.in /\ ep'.stall = ep.stall
      /\ ep'.out.avail = TRUE /\ ep'.out.pid = dev.pidOut
  BY <1>1, <1>2, StartedRx
<1>6. Waits'
  BY <1>2, <1>5 DEF Waits, Waiting, Alone
<1>7. Running' /\ Silent' /\ (GivenUp' <=> GivenUp)
  BY <1>2, <1>5, AloneKeeps
<1>8. GivenUp \/ Expected'
  BY <1>4, <1>5 DEF Expected, Alone
<1>9. Situation'
  BY <1>1, <1>2, <1>5, <1>7, <1>8 DEF Situation, Acknowledging, Alone
<1>10. ~AddressComes /\ ~AddressComes'
  BY <1>1, <1>2, <1>5 DEF AddressComes, Alone, RequestOK
<1> QED
  BY <1>2, <1>5, <1>6, <1>9, <1>10, AloneStep

(* The end of an OUT request; a new address takes effect.                  *)
LEMMA SentStatusStep ==
  ASSUME Orderly, TypesOK', Control!SentStatus
  PROVE  Orderly'
<1>1. /\ dev.pc = "sent" /\ ~dev.req.in /\ Control!UnchangedByCoroutine /\ ep' = ep
      /\ dev' = [dev EXCEPT !.pc = "none",
                            !.addr = IF dev.req.type = "address" THEN dev.n ELSE @]
  BY DEF Control!SentStatus, Control!Runs
<1>2. /\ Sending /\ Silent /\ Given /\ Running /\ dev.req = host.req
      /\ ~dev.tx.val /\ ~ep.in.avail /\ ~ep.out.avail /\ ~ep.stall
  BY <1>1, SentKnows
<1>3. GivenUp /\ got # << >>
  BY <1>1, <1>2 DEF Given, Accepted
<1>4. /\ dev'.n = dev.n /\ dev'.req = dev.req
      /\ dev'.k = dev.k /\ dev'.pc = "none" /\ dev'.tx = dev.tx
      /\ dev'.addr = IF dev.req.type = "address" THEN dev.n ELSE dev.addr
  BY <1>1, Known
<1>5. host' = host /\ got' = got /\ lost' = lost /\ pend' = pend /\ todo' = todo
  BY <1>1 DEF Control!UnchangedByCoroutine, Control!UnchangedByDevice
<1>6. OwnPackets'
  BY <1>4, <1>5, Known DEF OwnPackets
<1>7. AddressesAgree'
  BY <1>1, <1>3, <1>4, <1>5, Known DEF AddressesAgree, ResetComes, AddressComes, GivenUp
<1>8. Waits'
  BY <1>1, <1>2, <1>4 DEF Waits
<1>9. Situation'
  BY <1>2, <1>3, <1>4, <1>5 DEF Situation, Over, GivenUp, Silent
<1> QED
  BY <1>5, <1>6, <1>7, <1>8, <1>9, Known DEF Orderly

-----------------------------------------------------------------------------
(* The theorem. *)

LEMMA OrderlyStep ==
  ASSUME Orderly, TypesOK',
         Control!Host \/ Control!HostReset \/ Control!Interrupt \/ Control!Coroutine
  PROVE  Orderly'
<1>1. CASE Control!HostIn
  BY <1>1, HostInStep
<1>2. CASE Control!HostStalled \/ Control!HostGivesUp
  BY <1>2, HostStalledStep
<1>3. CASE Control!HostOut
  BY <1>3, HostOutStep
<1>4. CASE Control!HostReset
  BY <1>4, HostResetStep
<1>5. CASE Control!Enter
  BY <1>5, EnterStep
<1>6. CASE Control!Setup
  BY <1>6, SetupStep
<1>7. CASE Control!BuffStatus
  BY <1>7, BuffStatusStep
<1>8. CASE Control!TxDone
  BY <1>8, TxDoneStep
<1>9. CASE Control!RxDone
  BY <1>9, RxDoneStep
<1>10. CASE Control!Reset
  BY <1>10, ResetStep
<1>11. CASE Control!Receive
  BY <1>11, ReceiveStep
<1>12. CASE Control!Received
  BY <1>12, ReceivedStep
<1>13. CASE Control!DispatchShort
  BY <1>13, DispatchShortStep
<1>14. CASE Control!DispatchAck
  BY <1>14, AcknowledgedStep DEF Control!DispatchAck, Control!Runs
<1>15. CASE Control!DispatchAddress
  BY <1>15, AcknowledgedStep DEF Control!DispatchAddress, Control!Runs
<1>16. CASE Control!DispatchTxData
  BY <1>16, DispatchTxDataStep
<1>17. CASE Control!DispatchBad
  BY <1>17, DispatchBadStep
<1>18. CASE Control!Stall
  BY <1>18, StallStep
<1>19. CASE Control!SentChunk
  BY <1>19, SentChunkStep
<1>20. CASE Control!SentAll
  BY <1>20, SentAllStep
<1>21. CASE Control!SentStatus
  BY <1>21, SentStatusStep
<1> QED
  BY <1>1, <1>2, <1>3, <1>4, <1>5, <1>6, <1>7, <1>8, <1>9, <1>10, <1>11, <1>12, <1>13,
     <1>14, <1>15, <1>16, <1>17, <1>18, <1>19, <1>20, <1>21
     DEF Control!Host, Control!Interrupt, Control!Coroutine

LEMMA ControlStep ==
  ASSUME ControlInv, [Control!Next]_(Control!vars)
  PROVE  ControlInv'
<1>1. TypesOK /\ (rested => Orderly)
  BY SMTT(30) DEF ControlInv
<1>2. CASE UNCHANGED Control!vars
  BY <1>1, <1>2
     DEF Control!vars, ControlInv, Orderly, TypesOK, HostOK, DevOK, EpOK, BitsOK, OwnPackets,
         AddressesAgree, ResetComes, AddressComes, Waits, Waiting, Situation, Over, GivenUp, Asked,
         Stalled, Unanswerable, Asking, FirstStage, Receiving, Running, Expects, Listening,
         Sought, Ahead, Dispatching, Sending, Answering, Offered, Fresh, Given, Accepted, Nth,
         Acknowledging, Expected, Silent, Raised, Control!Suspended
<1>3. CASE Control!Next
  <2>1. TypesOK'
    BY <1>1, <1>3, HostTypes, InterruptTypes, CoroutineTypes DEF Control!Next
  <2>2. CASE Control!HostSetup
    BY <1>1, <2>1, <2>2, HostSetupStep DEF ControlInv
  <2>3. CASE Control!Host \/ Control!HostReset \/ Control!Interrupt \/ Control!Coroutine
    <3>1. rested' = rested
      BY <2>3 DEF Control!Host, Control!HostIn, Control!HostStalled, Control!HostOut,
           Control!HostGivesUp, Control!HostReset, Control!UnchangedByHost,
           Control!Interrupt, Control!Enter, Control!Setup, Control!BuffStatus,
           Control!TxDone, Control!RxDone, Control!Reset,
           Control!Coroutine, Control!Receive, Control!Received, Control!DispatchShort,
           Control!DispatchAck, Control!DispatchAddress, Control!DispatchTxData,
           Control!DispatchBad, Control!Stall, Control!SentChunk, Control!SentAll,
           Control!SentStatus, Control!UnchangedByCoroutine, Control!UnchangedByDevice
    <3>2. Orderly => Orderly'
      BY <2>1, <2>3, OrderlyStep
    <3> QED
      BY <1>1, <2>1, <3>1, <3>2, Zenon DEF ControlInv
  <2> QED
    BY <1>3, <2>2, <2>3 DEF Control!Next
<1> QED
  BY <1>2, <1>3

LEMMA ControlAnswers == ControlInv => Control!RightAnswer
<1> SUFFICES ASSUME ControlInv, rested PROVE Control!RightAnswer
  BY DEF Control!RightAnswer
<1>1. Orderly
  BY DEF ControlInv
<1>2. ~lost /\ OwnPackets /\ dev.pc # "dangling"
  BY <1>1, Known DEF Situation, Asked, Control!Suspended
<1>3. host.stage = "statusOut" => Len(got) = host.req.parts
  <2> SUFFICES ASSUME host.stage = "statusOut" PROVE Len(got) = host.req.parts
    OBVIOUS
  <2>1. ~GivenUp /\ ~Asked
    BY DEF GivenUp, Asked, FirstStage
  <2>2. Situation
    BY <1>1, <2>1, Known
  <2>3. dev.pc \in {"tx", "sent", "ack"}
    BY <1>1, <2>1, <2>2 DEF Orderly, TypesOK, DevOK, Places, Situation, Over, Stalled,
         Unanswerable, Expects, Listening, Sought, Ahead, Dispatching
  <2> QED
    BY <2>1, <2>2, <2>3 DEF Situation, Answering, Offered, Fresh, Given, Accepted, GivenUp,
         Sending, Acknowledging, Expected
<1>4. Control!Quiet /\ host.stage = "idle" => Control!Addressed
  <2> SUFFICES ASSUME Control!Quiet, host.stage = "idle" PROVE dev.addr = host.addr
    BY DEF Control!Addressed
  <2>1. Control!Suspended /\ pend = {} /\ todo = {}
    BY DEF Control!Quiet
  <2>2. ~ResetComes /\ \A b \in Bits : ~Raised(b)
    BY <2>1 DEF ResetComes, Raised
  <2>3. Situation
    BY <1>1, <2>2, Known DEF Asked, Bits
  <2>4. ~AddressComes
    <3> SUFFICES ASSUME dev.pc = "tx", dev.req.type = "address", got # << >> PROVE FALSE
      BY <2>1 DEF AddressComes, Control!Suspended
    <3>1. Offered /\ Sending
      BY <2>2, <2>3 DEF Situation, Answering, Bits
    <3>2. dev.req = host.req /\ RequestOK(host.req)
      BY <3>1, RequestsAssumption DEF Sending, Running, Asking
    <3> QED
      BY <3>1, <3>2 DEF Offered, RequestOK
  <2> QED
    BY <1>1, <2>2, <2>4, Known DEF AddressesAgree
<1> QED
  BY <1>2, <1>3, <1>4 DEF Control!RightAnswer, OwnPackets

-----------------------------------------------------------------------------
(* Endpoints. *)

Fields == {"enabled", "avail", "stall", "next", "max", "buffer", "half0", "half1"}

(* What an endpoint's configuration is, as far as PIDs depend on it.       *)
RecordOK(r) ==
  DOMAIN r = Fields /\ r.next \in {0, 1} /\ r.avail \in BOOLEAN /\ r.enabled \in BOOLEAN

(* t is the PID that the host uses or expects next. *)
Agrees(r, t) ==
  r.enabled /\ r.half1 = Endpoints!Nothing => t = (IF r.avail THEN 1 - r.next ELSE r.next)

ConfigOK(cfg) == DOMAIN cfg = Endpoints!Addresses /\ \A a \in Endpoints!Addresses : RecordOK(cfg[a])

EndpointsInv ==
  /\ ConfigOK(config)
  /\ toggle \in [Endpoints!Addresses -> {0, 1}]
  /\ \A a \in Endpoints!Addresses \ apart : Agrees(config[a], toggle[a])

-----------------------------------------------------------------------------
(* What the helpers do to one endpoint.                                    *)

LEMMA StartedAgrees ==
  ASSUME NEW r, NEW t, RecordOK(r), Agrees(r, t)
  PROVE  RecordOK(Endpoints!Started(r)) /\ Agrees(Endpoints!Started(r), t)
<1>1. CASE r.avail
  BY <1>1 DEF Endpoints!Started
<1>2. CASE ~r.avail
  <2> DEFINE s == [r EXCEPT !.avail = TRUE, !.next = 1 - @, !.stall = FALSE]
  <2>1. DOMAIN s = Fields
    BY DEF RecordOK, Fields
  <2>2. s.next = 1 - r.next
    BY DEF RecordOK, Fields
  <2>3. s.avail = TRUE
    BY DEF RecordOK, Fields
  <2>4. s.enabled = r.enabled /\ s.half1 = r.half1
    BY DEF RecordOK, Fields
  <2>5. Endpoints!Started(r) = s
    BY <1>2 DEF Endpoints!Started
  <2> HIDE DEF s
  <2>6. RecordOK(s)
    <3>1. s.next \in {0, 1}
      BY <2>2, SMT DEF RecordOK
    <3> QED BY <2>1, <2>3, <2>4, <3>1 DEF RecordOK
  <2>7. Agrees(s, t)
    <3> SUFFICES ASSUME s.enabled, s.half1 = Endpoints!Nothing
                 PROVE  t = (IF s.avail THEN 1 - s.next ELSE s.next)
      BY DEF Agrees
    <3>1. t = r.next
      BY <1>2, <2>4 DEF Agrees
    <3>2. 1 - (1 - r.next) = r.next
      BY SMT DEF RecordOK
    <3>3. 1 - s.next = r.next
      BY <2>2, <3>2
    <3> QED BY <2>3, <3>1, <3>3
  <2> QED BY <2>5, <2>6, <2>7
<1> QED BY <1>1, <1>2

LEMMA SwitchedOffIsOff ==
  ASSUME NEW r, RecordOK(r)
  PROVE  RecordOK(Endpoints!SwitchedOff(r)) /\ ~Endpoints!SwitchedOff(r).enabled
<1> DEFINE s == Endpoints!SwitchedOff(r)
<1>1. DOMAIN s = Fields
  BY DEF RecordOK, Fields, Endpoints!SwitchedOff
<1>2. s.next = r.next
  BY DEF RecordOK, Fields, Endpoints!SwitchedOff
<1>3. s.avail = r.avail
  BY DEF RecordOK, Fields, Endpoints!SwitchedOff
<1>4. s.enabled = FALSE
  BY DEF RecordOK, Fields, Endpoints!SwitchedOff
<1> QED BY <1>1, <1>2, <1>3, <1>4 DEF RecordOK

LEMMA SwitchedOnBegins ==
  ASSUME NEW r, NEW e, RecordOK(r)
  PROVE  RecordOK(Endpoints!SwitchedOn(r, e)) /\ Agrees(Endpoints!SwitchedOn(r, e), 0)
<1> DEFINE s == Endpoints!SwitchedOn(r, e)
<1>1. DOMAIN s = Fields
  BY DEF RecordOK, Fields, Endpoints!SwitchedOn
<1>2. s.next = 0
  BY DEF RecordOK, Fields, Endpoints!SwitchedOn
<1>3. s.avail = FALSE
  BY DEF RecordOK, Fields, Endpoints!SwitchedOn
<1>4. s.enabled = TRUE
  BY DEF RecordOK, Fields, Endpoints!SwitchedOn
<1> QED BY <1>1, <1>2, <1>3, <1>4 DEF RecordOK, Agrees

(* Endpoints of the new setting begin with DATA0, those of the old one are *)
(* off, and all others stay as they are. *)
LEMMA EnabledAgrees ==
  ASSUME NEW cfg, NEW old, NEW new, ConfigOK(cfg)
  PROVE  /\ ConfigOK(Endpoints!Enabled(cfg, old, new))
         /\ \A a \in Endpoints!Addresses :
              /\ a \in Endpoints!AddressesOf(new) => Agrees(Endpoints!Enabled(cfg, old, new)[a], 0)
              /\ a \notin Endpoints!AddressesOf(new) =>
                   \/ Endpoints!Enabled(cfg, old, new)[a] = cfg[a]
                   \/ ~Endpoints!Enabled(cfg, old, new)[a].enabled
<1> DEFINE on == Endpoints!Enabled(cfg, old, new)
           off == Endpoints!Disabled(cfg, old)
<1>1. ASSUME NEW a \in Endpoints!Addresses
      PROVE  RecordOK(off[a]) /\ (off[a] = cfg[a] \/ ~off[a].enabled)
  <2>1. RecordOK(cfg[a])
    BY DEF ConfigOK
  <2>2. CASE a \in Endpoints!AddressesOf(old)
    <3>1. off[a] = Endpoints!SwitchedOff(cfg[a])
      BY <2>2 DEF Endpoints!Disabled
    <3> QED BY <2>1, <3>1, SwitchedOffIsOff
  <2>3. CASE a \notin Endpoints!AddressesOf(old)
    <3>1. off[a] = cfg[a]
      BY <2>3 DEF Endpoints!Disabled
    <3> QED BY <2>1, <3>1
  <2> QED BY <2>2, <2>3
<1>2. DOMAIN on = Endpoints!Addresses
  BY Zenon DEF Endpoints!Enabled
<1>3. ASSUME NEW a \in Endpoints!Addresses
      PROVE  /\ RecordOK(on[a])
             /\ a \in Endpoints!AddressesOf(new) => Agrees(on[a], 0)
             /\ a \notin Endpoints!AddressesOf(new) => on[a] = cfg[a] \/ ~on[a].enabled
  <2>1. CASE a \in Endpoints!AddressesOf(new)
    <3>1. on[a] = Endpoints!SwitchedOn(off[a], CHOOSE e \in new : e.addr = a)
      BY <2>1, Zenon DEF Endpoints!Enabled
    <3>2. RecordOK(on[a]) /\ Agrees(on[a], 0)
      BY <1>1, <3>1, SwitchedOnBegins, Zenon
    <3> QED BY <2>1, <3>2
  <2>2. CASE a \notin Endpoints!AddressesOf(new)
    <3>1. on[a] = off[a]
      BY <2>2, Zenon DEF Endpoints!Enabled
    <3> QED BY <1>1, <2>2, <3>1
  <2> QED BY <2>1, <2>2
<1>4. ConfigOK(on)
  BY <1>2, <1>3, Zenon DEF ConfigOK
<1> HIDE DEF on
<1>5. \A a \in Endpoints!Addresses :
        /\ a \in Endpoints!AddressesOf(new) => Agrees(on[a], 0)
        /\ a \notin Endpoints!AddressesOf(new) => on[a] = cfg[a] \/ ~on[a].enabled
  BY <1>3, Zenon
<1> QED BY <1>4, <1>5, Zenon DEF on

(* Interfaces start to receive; others are not touched.                    *)
LEMMA NotifiedAgrees ==
  ASSUME NEW cfg, NEW new, ConfigOK(cfg)
  PROVE  /\ ConfigOK(Endpoints!Notified(cfg, new))
         /\ \A a \in Endpoints!Addresses, t \in {0, 1} :
              Agrees(cfg[a], t) => Agrees(Endpoints!Notified(cfg, new)[a], t)
<1> DEFINE n == Endpoints!Notified(cfg, new)
<1>1. DOMAIN n = Endpoints!Addresses
  BY Zenon DEF Endpoints!Notified
<1>2. ASSUME NEW a \in Endpoints!Addresses
      PROVE  /\ RecordOK(n[a])
             /\ \A t \in {0, 1} : Agrees(cfg[a], t) => Agrees(n[a], t)
  <2>1. RecordOK(cfg[a])
    BY Zenon DEF ConfigOK
  <2>2. n[a] = cfg[a] \/ n[a] = Endpoints!Started(cfg[a])
    BY Zenon DEF Endpoints!Notified
  <2>3. Agrees(cfg[a], 0) \/ Agrees(cfg[a], 1)
    <3>1. cfg[a].next \in {0, 1} /\ 1 - cfg[a].next \in {0, 1}
      BY <2>1, SMT DEF RecordOK
    <3> QED BY <3>1 DEF Agrees
  <2>4. RecordOK(n[a])
    BY <2>1, <2>2, <2>3, StartedAgrees, Zenon
  <2>5. ASSUME NEW t \in {0, 1}, Agrees(cfg[a], t) PROVE Agrees(n[a], t)
    BY <2>1, <2>2, <2>5, StartedAgrees, Zenon
  <2> QED BY <2>4, <2>5, Zenon
<1> HIDE DEF n
<1>3. ConfigOK(n)
  BY <1>1, <1>2, Zenon DEF ConfigOK
<1>4. \A a \in Endpoints!Addresses, t \in {0, 1} : Agrees(cfg[a], t) => Agrees(n[a], t)
  BY <1>2, Zenon
<1> QED BY <1>3, <1>4, Zenon DEF n

(* A packet offered takes the PID that the host waits for, and one that    *)
(* was taken leaves both sides at the next. *)
LEMMA FilledAgrees ==
  ASSUME NEW r, NEW t, RecordOK(r), Agrees(r, t), ~r.avail
  PROVE  RecordOK(Endpoints!Filled(r)) /\ Agrees(Endpoints!Filled(r), t)
<1>1. Endpoints!Filled(r) = Endpoints!Started(r)
  BY Zenon DEF Endpoints!Filled, Endpoints!Started
<1> QED BY <1>1, StartedAgrees, Zenon

LEMMA TakenAgrees ==
  ASSUME NEW r, NEW t \in {0, 1}, RecordOK(r), Agrees(r, t), r.avail
  PROVE  /\ RecordOK([r EXCEPT !.avail = FALSE])
         /\ Agrees([r EXCEPT !.avail = FALSE], 1 - t)
<1> DEFINE s == [r EXCEPT !.avail = FALSE]
<1>1. DOMAIN s = Fields
  BY DEF RecordOK, Fields
<1>2. s.next = r.next
  BY DEF RecordOK, Fields
<1>3. s.avail = FALSE
  BY DEF RecordOK, Fields
<1>4. s.enabled = r.enabled /\ s.half1 = r.half1
  BY DEF RecordOK, Fields
<1> HIDE DEF s
<1>5. RecordOK(s)
  BY <1>1, <1>2, <1>3, <1>4 DEF RecordOK
<1>6. Agrees(s, 1 - t)
  <2> SUFFICES ASSUME s.enabled, s.half1 = Endpoints!Nothing PROVE 1 - t = s.next
    BY <1>3 DEF Agrees
  <2>1. t = 1 - r.next
    BY <1>4 DEF Agrees
  <2>2. 1 - (1 - r.next) = r.next
    BY SMT DEF RecordOK
  <2> QED BY <1>2, <2>1, <2>2
<1> QED BY <1>5, <1>6 DEF s

(* Stalling, and taking a buffer back, keep the configuration's type.      *)
LEMMA StallAgrees ==
  ASSUME NEW r, NEW t, NEW v \in BOOLEAN, RecordOK(r)
  PROVE  RecordOK(Endpoints!StallEp(r, v)) /\ (Agrees(r, t) => Agrees(Endpoints!StallEp(r, v), t))
<1> DEFINE s == Endpoints!StallEp(r, v)
<1>1. DOMAIN s = Fields
  BY DEF RecordOK, Fields, Endpoints!StallEp
<1>2. s.next = r.next
  BY DEF RecordOK, Fields, Endpoints!StallEp
<1>3. s.avail = r.avail
  BY DEF RecordOK, Fields, Endpoints!StallEp
<1>4. s.enabled = r.enabled /\ s.half1 = r.half1
  BY DEF RecordOK, Fields, Endpoints!StallEp
<1> HIDE DEF s
<1> QED BY <1>1, <1>2, <1>3, <1>4 DEF RecordOK, Agrees, s

LEMMA StoppedOK ==
  ASSUME NEW r, RecordOK(r)
  PROVE  RecordOK(Endpoints!Stopped(r))
<1> DEFINE s == Endpoints!Stopped(r)
<1>1. DOMAIN s = Fields
  BY DEF RecordOK, Fields, Endpoints!Stopped
<1>2. s.next = r.next
  BY DEF RecordOK, Fields, Endpoints!Stopped
<1>3. s.avail = FALSE
  BY DEF RecordOK, Fields, Endpoints!Stopped
<1>4. s.enabled = r.enabled
  BY DEF RecordOK, Fields, Endpoints!Stopped
<1> HIDE DEF s
<1> QED BY <1>1, <1>2, <1>3, <1>4 DEF RecordOK, s

-----------------------------------------------------------------------------
(* The inductive invariant.                                                *)

LEMMA EndpointsInit == Endpoints!Init => EndpointsInv
<1> SUFFICES ASSUME Endpoints!Init PROVE EndpointsInv
  OBVIOUS
<1> DEFINE r == [enabled |-> FALSE, avail |-> FALSE, stall |-> FALSE, next |-> 0,
                 max |-> 0, buffer |-> Endpoints!Nothing, half0 |-> Endpoints!Nothing, half1 |-> Endpoints!Nothing]
<1>1. DOMAIN r = Fields
  BY DEF Fields
<1>2. r.next = 0 /\ r.avail = FALSE /\ r.enabled = FALSE
  OBVIOUS
<1>3. config = [a \in Endpoints!Addresses |-> r] /\ toggle = [a \in Endpoints!Addresses |-> 0]
  BY DEF Endpoints!Init
<1> HIDE DEF r
<1>4. RecordOK(r) /\ Agrees(r, 0)
  BY <1>1, <1>2 DEF RecordOK, Agrees
<1>5. ConfigOK(config)
  BY <1>3, <1>4 DEF ConfigOK
<1>6. toggle \in [Endpoints!Addresses -> {0, 1}]
  BY <1>3
<1>7. \A a \in Endpoints!Addresses : Agrees(config[a], toggle[a])
  BY <1>3, <1>4
<1> QED BY <1>5, <1>6, <1>7 DEF EndpointsInv

(* A step that changes the configuration of one endpoint.                  *)
LEMMA OneEndpoint ==
  ASSUME EndpointsInv, NEW a \in Endpoints!Addresses, NEW r, RecordOK(r),
         config' = [config EXCEPT ![a] = r],
         toggle' \in [Endpoints!Addresses -> {0, 1}],
         \A b \in Endpoints!Addresses \ {a} : toggle'[b] = toggle[b],
         apart \subseteq apart', apart' \subseteq apart \cup {a},
         a \notin apart' => Agrees(r, toggle'[a])
  PROVE  EndpointsInv'
<1>1. DOMAIN config = Endpoints!Addresses
  BY DEF EndpointsInv, ConfigOK
<1>2. DOMAIN config' = Endpoints!Addresses /\ config'[a] = r
  BY <1>1, Zenon
<1>3. \A b \in Endpoints!Addresses \ {a} : config'[b] = config[b]
  BY <1>1
<1>4. ConfigOK(config')
  BY <1>2, <1>3 DEF EndpointsInv, ConfigOK
<1>5. ASSUME NEW b \in Endpoints!Addresses \ apart' PROVE Agrees(config'[b], toggle'[b])
  <2>1. CASE b = a
    BY <1>2, <2>1
  <2>2. CASE b # a
    BY <1>3, <2>2 DEF EndpointsInv
  <2> QED BY <2>1, <2>2
<1> QED BY <1>4, <1>5 DEF EndpointsInv

LEMMA SetConfigurationStep ==
  ASSUME EndpointsInv, Endpoints!SetConfiguration
  PROVE  EndpointsInv'
<1>1. PICK value \in 0..Len(Configs) + 1 :
    LET off == [a \in Endpoints!Addresses |-> [config[a] EXCEPT
                  !.enabled = FALSE, !.avail = FALSE, !.stall = FALSE, !.next = 0]]
        laid == [a \in Endpoints!Addresses |->
                   [off[a] EXCEPT !.buffer =
                      [at |-> Endpoints!Offset(value, a), size |-> Endpoints!SizeOf(value, a)]]]
        default == UNION {Configs[value][i][1] : i \in DOMAIN Configs[value]}
    IN IF value \in DOMAIN Configs
         THEN /\ config' = Endpoints!Notified(Endpoints!Enabled(laid, {}, default), default)
              /\ toggle' = [a \in Endpoints!Addresses |-> 0]
              /\ apart' = {}
         ELSE config' = off /\ UNCHANGED <<toggle, apart>>
  BY Zenon DEF Endpoints!SetConfiguration
<1> DEFINE off == [a \in Endpoints!Addresses |-> [config[a] EXCEPT
                    !.enabled = FALSE, !.avail = FALSE, !.stall = FALSE, !.next = 0]]
           region(a) == [at |-> Endpoints!Offset(value, a), size |-> Endpoints!SizeOf(value, a)]
           laid == [a \in Endpoints!Addresses |-> [off[a] EXCEPT !.buffer = region(a)]]
           default == UNION {Configs[value][i][1] : i \in DOMAIN Configs[value]}
           on == Endpoints!Enabled(laid, {}, default)
<1>2. ASSUME NEW a \in Endpoints!Addresses PROVE RecordOK(off[a]) /\ ~off[a].enabled
  <2> DEFINE s == [config[a] EXCEPT
                     !.enabled = FALSE, !.avail = FALSE, !.stall = FALSE, !.next = 0]
  <2>1. DOMAIN config[a] = Fields
    BY DEF EndpointsInv, ConfigOK, RecordOK
  <2>2. off[a] = s
    OBVIOUS
  <2>3. DOMAIN s = Fields
    BY <2>1 DEF Fields
  <2>4. s.next = 0
    BY <2>1 DEF Fields
  <2>5. s.avail = FALSE
    BY <2>1 DEF Fields
  <2>6. s.enabled = FALSE
    BY <2>1 DEF Fields
  <2> QED BY <2>2, <2>3, <2>4, <2>5, <2>6 DEF RecordOK
<1>3. ConfigOK(off)
  BY <1>2 DEF ConfigOK
<1> HIDE DEF off, region
<1>4. ASSUME NEW a \in Endpoints!Addresses PROVE RecordOK(laid[a]) /\ ~laid[a].enabled
  <2> DEFINE s == [off[a] EXCEPT !.buffer = region(a)]
  <2>1. DOMAIN off[a] = Fields
    BY <1>2 DEF RecordOK
  <2>2. laid[a] = s
    OBVIOUS
  <2>3. DOMAIN s = Fields
    BY <2>1 DEF Fields
  <2>4. s.next = off[a].next
    BY <2>1 DEF Fields
  <2>5. s.avail = off[a].avail
    BY <2>1 DEF Fields
  <2>6. s.enabled = off[a].enabled
    BY <2>1 DEF Fields
  <2> QED BY <1>2, <2>2, <2>3, <2>4, <2>5, <2>6 DEF RecordOK
<1>5. ConfigOK(laid)
  BY <1>4 DEF ConfigOK
<1>6. IF value \in DOMAIN Configs
        THEN /\ config' = Endpoints!Notified(on, default)
             /\ toggle' = [a \in Endpoints!Addresses |-> 0] /\ apart' = {}
        ELSE config' = off /\ UNCHANGED <<toggle, apart>>
  BY <1>1, Zenon DEF off, region
<1> HIDE DEF laid, default
<1>7. CASE value \in DOMAIN Configs
  <2>1. ConfigOK(on) /\ \A a \in Endpoints!Addresses : Agrees(on[a], 0)
    <3>1. /\ ConfigOK(on)
          /\ \A a \in Endpoints!Addresses :
               /\ a \in Endpoints!AddressesOf(default) => Agrees(on[a], 0)
               /\ a \notin Endpoints!AddressesOf(default) => on[a] = laid[a] \/ ~on[a].enabled
      BY <1>5, EnabledAgrees, Zenon
    <3> QED BY <1>4, <3>1 DEF Agrees
  <2> HIDE DEF on
  <2>2. ConfigOK(config') /\ \A a \in Endpoints!Addresses : Agrees(config'[a], 0)
    BY <1>6, <1>7, <2>1, NotifiedAgrees
  <2>3. toggle' = [a \in Endpoints!Addresses |-> 0]
    BY <1>6, <1>7
  <2> QED BY <2>2, <2>3 DEF EndpointsInv
<1>8. CASE value \notin DOMAIN Configs
  <2>1. config' = off /\ toggle' = toggle /\ apart' = apart
    BY <1>6, <1>8
  <2> QED BY <1>2, <1>3, <2>1 DEF EndpointsInv, Agrees
<1> QED BY <1>7, <1>8

LEMMA SetInterfaceStep ==
  ASSUME EndpointsInv, Endpoints!SetInterface
  PROVE  EndpointsInv'
<1>0. PICK i \in Endpoints!Interfaces : \E s \in DOMAIN Configs[active][i] :
        LET new == Endpoints!Setting(active, i, s)
            old == Endpoints!Setting(active, i, setting[i])
        IN /\ config' = Endpoints!Notified(Endpoints!Enabled(config, old, new), new)
           /\ toggle' = [a \in Endpoints!Addresses |->
                        IF a \in Endpoints!AddressesOf(new) THEN 0 ELSE toggle[a]]
           /\ apart' = apart \ Endpoints!AddressesOf(new)
  BY Zenon DEF Endpoints!SetInterface
<1>1. PICK s \in DOMAIN Configs[active][i] :
        LET new == Endpoints!Setting(active, i, s)
            old == Endpoints!Setting(active, i, setting[i])
        IN /\ config' = Endpoints!Notified(Endpoints!Enabled(config, old, new), new)
           /\ toggle' = [a \in Endpoints!Addresses |->
                        IF a \in Endpoints!AddressesOf(new) THEN 0 ELSE toggle[a]]
           /\ apart' = apart \ Endpoints!AddressesOf(new)
  BY <1>0, Zenon
<1> DEFINE new == Endpoints!Setting(active, i, s)
           old == Endpoints!Setting(active, i, setting[i])
           on == Endpoints!Enabled(config, old, new)
<1>2. /\ config' = Endpoints!Notified(on, new)
      /\ toggle' = [a \in Endpoints!Addresses |->
                        IF a \in Endpoints!AddressesOf(new) THEN 0 ELSE toggle[a]]
      /\ apart' = apart \ Endpoints!AddressesOf(new)
  BY <1>1, Zenon
<1> HIDE DEF new, old
<1>3. /\ ConfigOK(on)
      /\ \A a \in Endpoints!Addresses :
           /\ a \in Endpoints!AddressesOf(new) => Agrees(on[a], 0)
           /\ a \notin Endpoints!AddressesOf(new) => on[a] = config[a] \/ ~on[a].enabled
  BY EnabledAgrees, Zenon DEF EndpointsInv
<1> HIDE DEF on
<1>4. toggle' \in [Endpoints!Addresses -> {0, 1}]
  BY <1>2 DEF EndpointsInv
<1>5. ASSUME NEW a \in Endpoints!Addresses \ apart' PROVE Agrees(on[a], toggle'[a])
  <2>1. CASE a \in Endpoints!AddressesOf(new)
    BY <1>2, <1>3, <2>1
  <2>2. CASE a \notin Endpoints!AddressesOf(new)
    BY <1>2, <1>3, <2>2 DEF EndpointsInv, Agrees
  <2> QED BY <2>1, <2>2
<1>6. ConfigOK(config') /\ \A a \in Endpoints!Addresses \ apart' : Agrees(config'[a], toggle'[a])
  BY <1>2, <1>3, <1>4, <1>5, NotifiedAgrees
<1> QED BY <1>4, <1>6 DEF EndpointsInv

LEMMA EndpointStep ==
  ASSUME EndpointsInv, NEW a \in Endpoints!Addresses,
         \/ Endpoints!Send(a) \/ Endpoints!StartRx(a) \/ Endpoints!StopRx(a)
         \/ Endpoints!Transfer(a) \/ Endpoints!SetHalt(a) \/ Endpoints!ClearHalt(a)
  PROVE  EndpointsInv'
<1>1. RecordOK(config[a]) /\ toggle \in [Endpoints!Addresses -> {0, 1}]
      /\ (a \notin apart => Agrees(config[a], toggle[a]))
  BY DEF EndpointsInv, ConfigOK
<1>2. CASE Endpoints!Send(a)
  <2>1. /\ config' = [config EXCEPT ![a] = Endpoints!Filled(config[a])] /\ ~config[a].avail
        /\ UNCHANGED <<toggle, apart>>
    BY <1>2 DEF Endpoints!Send
  <2>2. RecordOK(Endpoints!Filled(config[a])) /\ (a \notin apart => Agrees(Endpoints!Filled(config[a]), toggle[a]))
    <3>1. RecordOK(Endpoints!Filled(config[a]))
      <4>1. Agrees(config[a], 0) \/ Agrees(config[a], 1)
        BY <1>1, <2>1 DEF RecordOK, Agrees
      <4> QED BY <1>1, <2>1, <4>1, FilledAgrees
    <3> QED BY <1>1, <2>1, <3>1, FilledAgrees
  <2> QED BY <1>1, <2>1, <2>2, OneEndpoint
<1>3. CASE Endpoints!StartRx(a)
  <2>1. config' = [config EXCEPT ![a] = Endpoints!Started(config[a])] /\ UNCHANGED <<toggle, apart>>
    BY <1>3 DEF Endpoints!StartRx
  <2>2. RecordOK(Endpoints!Started(config[a])) /\ (a \notin apart => Agrees(Endpoints!Started(config[a]), toggle[a]))
    <3>1. RecordOK(Endpoints!Started(config[a]))
      <4>1. 1 - config[a].next \in {0, 1}
        BY <1>1, SMT DEF RecordOK
      <4>2. Agrees(config[a], 0) \/ Agrees(config[a], 1)
        BY <1>1, <4>1 DEF RecordOK, Agrees
      <4> QED BY <1>1, <4>2, StartedAgrees
    <3> QED BY <1>1, <3>1, StartedAgrees
  <2> QED BY <1>1, <2>1, <2>2, OneEndpoint
<1>4. CASE Endpoints!StopRx(a)
  <2>1. /\ config' = [config EXCEPT ![a] = Endpoints!Stopped(config[a])]
        /\ apart' = apart \cup {a} /\ toggle' = toggle
    BY <1>4 DEF Endpoints!StopRx
  <2> QED BY <1>1, <2>1, StoppedOK, OneEndpoint
<1>5. CASE Endpoints!Transfer(a)
  <2> DEFINE r == [config[a] EXCEPT !.avail = FALSE]
  <2>1. /\ config' = [config EXCEPT ![a] = r] /\ config[a].avail
        /\ toggle' = [toggle EXCEPT ![a] = 1 - @] /\ apart' = apart
    BY <1>5 DEF Endpoints!Transfer
  <2>2. toggle' \in [Endpoints!Addresses -> {0, 1}] /\ toggle'[a] = 1 - toggle[a]
        /\ \A b \in Endpoints!Addresses \ {a} : toggle'[b] = toggle[b]
    BY <1>1, <2>1
  <2>3. RecordOK(r) /\ (a \notin apart => Agrees(r, 1 - toggle[a]))
    <3>1. toggle[a] \in {0, 1}
      BY <1>1
    <3>2. RecordOK(r)
      <4>1. Agrees(config[a], 1 - config[a].next) /\ 1 - config[a].next \in {0, 1}
        BY <1>1, <2>1 DEF RecordOK, Agrees
      <4> QED BY <1>1, <2>1, <4>1, TakenAgrees
    <3> QED BY <1>1, <2>1, <3>1, <3>2, TakenAgrees
  <2> HIDE DEF r
  <2> QED BY <2>1, <2>2, <2>3, OneEndpoint
<1>6. CASE Endpoints!SetHalt(a)
  <2>1. config' = [config EXCEPT ![a] = Endpoints!StallEp(config[a], TRUE)] /\ UNCHANGED <<toggle, apart>>
    BY <1>6 DEF Endpoints!SetHalt
  <2> QED BY <1>1, <2>1, StallAgrees, OneEndpoint
<1>7. CASE Endpoints!ClearHalt(a)
  <2>1. /\ config' = [config EXCEPT ![a] = Endpoints!StallEp(config[a], FALSE)]
        /\ toggle' = [toggle EXCEPT ![a] = 0] /\ apart' = apart \cup {a}
    BY <1>7 DEF Endpoints!ClearHalt
  <2>2. toggle' \in [Endpoints!Addresses -> {0, 1}] /\ \A b \in Endpoints!Addresses \ {a} : toggle'[b] = toggle[b]
    BY <1>1, <2>1
  <2> QED BY <1>1, <2>1, <2>2, StallAgrees, OneEndpoint
<1> QED BY <1>2, <1>3, <1>4, <1>5, <1>6, <1>7

-----------------------------------------------------------------------------
LEMMA EndpointsStep == EndpointsInv /\ [Endpoints!Next]_(Endpoints!vars) => EndpointsInv'
<1> SUFFICES ASSUME EndpointsInv, [Endpoints!Next]_(Endpoints!vars) PROVE EndpointsInv'
  OBVIOUS
<1>1. CASE UNCHANGED Endpoints!vars
  BY <1>1 DEF Endpoints!vars, EndpointsInv
<1>2. ASSUME NEW a \in Endpoints!Addresses,
             \/ Endpoints!Send(a) \/ Endpoints!StartRx(a) \/ Endpoints!StopRx(a)
             \/ Endpoints!Transfer(a) \/ Endpoints!SetHalt(a) \/ Endpoints!ClearHalt(a)
      PROVE  EndpointsInv'
  BY <1>2, EndpointStep
<1> QED
  BY <1>1, <1>2, SetConfigurationStep, SetInterfaceStep DEF Endpoints!Next

-----------------------------------------------------------------------------
(* Descriptors in packets.                                                 *)

LEMMA Joined ==
  ASSUME NEW S, NEW s \in Seq(S), NEW t \in Seq(S), NEW u \in Seq(S),
         Len(u) = Len(s) + Len(t),
         \A k \in 1..Len(s) : u[k] = s[k],
         \A k \in 1..Len(t) : u[k + Len(s)] = t[k]
  PROVE  s \o t = u
<1>1. s \o t \in Seq(S) /\ Len(s \o t) = Len(u)
  BY ConcatProperties
<1>2. ASSUME NEW k \in 1..Len(u) PROVE (s \o t)[k] = u[k]
  <2>1. (s \o t)[k] = IF k <= Len(s) THEN s[k] ELSE t[k - Len(s)]
    BY ConcatProperties
  <2>2. Len(s) \in Nat /\ Len(t) \in Nat
    OBVIOUS
  <2>3. CASE k <= Len(s)
    BY <2>1, <2>2, <2>3
  <2>4. CASE ~(k <= Len(s))
    <3>1. k - Len(s) \in 1..Len(t) /\ k = (k - Len(s)) + Len(s)
      BY <2>2, <2>4
    <3> QED BY <2>1, <2>4, <3>1
  <2> QED BY <2>3, <2>4
<1> QED BY <1>1, <1>2, SeqEqual

(* A set of numbers has a least one: what proofs by induction rest on.     *)
LEMMA LeastOne ==
  ASSUME NEW T, T \subseteq Nat, T # {}
  PROVE  \E m \in T : \A n \in T : ~(n < m)
<1> DEFINE R == OpToRel(<, Nat)
<1>1. IsWellFoundedOn(R, Nat)
  BY NatLessThanWellFounded
<1>2. \A i, j \in Nat : i < j => <<i, j>> \in R
  BY DEF OpToRel
<1> HIDE DEF R
<1>3. \E m \in T : \A n \in T : ~ (<<n, m>> \in R)
  BY <1>1, WFMin
<1> QED
  BY <1>2, <1>3

(* Numbers: a packet's length is a remainder by the length of a full one.  *)
LEMMA DivMod ==
  ASSUME NEW c \in Nat \ {0}, NEW a \in Nat
  PROVE  a = c * (a \div c) + (a % c) /\ a % c \in 0..c - 1 /\ a \div c \in Int
OBVIOUS

LEMMA ModUnique ==
  ASSUME NEW c \in Nat \ {0}, NEW q \in Int, NEW w \in 0..c - 1, NEW p \in Int, NEW m \in 0..c - 1, c * q + w = c * p + m
  PROVE  w = m
<1>1. CASE q > p
  <2>1. c * (q - p) >= c
    <3> DEFINE d == q - p
    <3>1. d \in Int /\ d >= 1
      BY <1>1
    <3> HIDE DEF d
    <3>2. c * d >= c * 1
      BY <3>1
    <3> QED
      BY <3>2 DEF d
  <2>2. c * (q - p) = c * q - c * p
    OBVIOUS
  <2> QED
    BY <2>1, <2>2
<1>2. CASE q < p
  <2>1. c * (p - q) >= c
    <3> DEFINE d == p - q
    <3>1. d \in Int /\ d >= 1
      BY <1>2
    <3> HIDE DEF d
    <3>2. c * d >= c * 1
      BY <3>1
    <3> QED
      BY <3>2 DEF d
  <2>2. c * (p - q) = c * p - c * q
    OBVIOUS
  <2> QED
    BY <2>1, <2>2
<1>3. CASE q = p
  BY <1>3
<1> QED
  BY <1>1, <1>2, <1>3
LEMMA ModAdds ==
  ASSUME NEW c \in Nat \ {0}, NEW h \in Nat, h % c = 0, NEW w \in 0..c - 1
  PROVE  (h + w) % c = w /\ (h + c) % c = 0
<1>1. h = c * (h \div c) /\ h \div c \in Int
  BY DivMod
<1>2. (h + w) % c = w
  <2>1. /\ h + w = c * ((h + w) \div c) + ((h + w) % c)
        /\ (h + w) % c \in 0..c - 1 /\ (h + w) \div c \in Int
    <3> DEFINE a == h + w
    <3>1. a \in Nat
      OBVIOUS
    <3> HIDE DEF a
    <3>2. a = c * (a \div c) + (a % c) /\ a % c \in 0..c - 1 /\ a \div c \in Int
      BY <3>1, DivMod
    <3> QED
      BY <3>2 DEF a
  <2> DEFINE q == h \div c  p == (h + w) \div c  m == (h + w) % c
  <2>2. c * q + w = c * p + m /\ q \in Int /\ p \in Int /\ m \in 0..c - 1
    BY <1>1, <2>1
  <2> HIDE DEF q, p, m
  <2>3. w = m
    BY <2>2, ModUnique
  <2> QED
    BY <2>3 DEF m
<1>3. (h + c) % c = 0
  <2>1. /\ h + c = c * ((h + c) \div c) + ((h + c) % c)
        /\ (h + c) % c \in 0..c - 1 /\ (h + c) \div c \in Int
    <3> DEFINE a == h + c
    <3>1. a \in Nat
      OBVIOUS
    <3> HIDE DEF a
    <3>2. a = c * (a \div c) + (a % c) /\ a % c \in 0..c - 1 /\ a \div c \in Int
      BY <3>1, DivMod
    <3> QED
      BY <3>2 DEF a
  <2> DEFINE q == (h \div c) + 1  p == (h + c) \div c  m == (h + c) % c
  <2>2. c * ((h \div c) + 1) = c * (h \div c) + c
    BY <1>1
  <2>3. c * q + 0 = c * p + m /\ q \in Int /\ p \in Int /\ m \in 0..c - 1 /\ 0 \in 0..c - 1
    BY <1>1, <2>1, <2>2
  <2> HIDE DEF q, p, m
  <2>4. 0 = m
    BY <2>3, ModUnique
  <2> QED
    BY <2>4 DEF m
<1> QED
  BY <1>2, <1>3

LEMMA ModOfSum ==
  ASSUME NEW c, NEW h, NEW w, NEW t,
         c \in Nat \ {0}, h \in Nat, h % c = 0, w \in 0..c - 1, t = h + w
  PROVE  t % c = w
BY ModAdds, ZenonT(60)


(* Where the pieces begin: the sum exists for as many as there are.        *)
StartsUpTo(k) ==
  {f \in [0..k -> Nat] : \A j \in 0..k : f[j] = IF j = 0 THEN 0 ELSE f[j - 1] + pieces[j]}

PiecesOK == pieces \in Seq(Nat) /\ Len(pieces) > 0

LEMMA StartsExist ==
  ASSUME PiecesOK
  PROVE  StartsUpTo(Len(pieces)) # {}
<1> DEFINE Without == {n \in 0..Len(pieces) : StartsUpTo(n) = {}}
<1> SUFFICES ASSUME Without # {} PROVE FALSE
  BY DEF PiecesOK
<1>0. Len(pieces) \in Nat /\ \A j \in 1..Len(pieces) : pieces[j] \in Nat
  BY DEF PiecesOK
<1>1. PICK m \in Without : \A n \in Without : ~(n < m)
  <2>1. Without \subseteq Nat
    BY <1>0
  <2> HIDE DEF Without
  <2> QED
    BY <2>1, LeastOne
<1>2. m \in 0..Len(pieces) /\ StartsUpTo(m) = {}
  OBVIOUS
<1>3. CASE m = 0
  <2>1. [j \in 0..0 |-> 0] \in StartsUpTo(0)
    BY DEF StartsUpTo
  <2> QED
    BY <1>2, <1>3, <2>1
<1>4. CASE m # 0
  <2>1. m - 1 \in 0..Len(pieces) /\ m - 1 < m /\ m \in 1..Len(pieces)
    BY <1>0, <1>2, <1>4
  <2>2. PICK f : f \in StartsUpTo(m - 1)
    BY <1>1, <2>1
  <2> DEFINE g == [j \in 0..m |-> IF j <= m - 1 THEN f[j] ELSE f[m - 1] + pieces[m]]
  <2>3. /\ f \in [0..m - 1 -> Nat]
        /\ \A j \in 0..m - 1 : f[j] = IF j = 0 THEN 0 ELSE f[j - 1] + pieces[j]
    BY <2>2 DEF StartsUpTo
  <2>4. m - 1 \in 0..m - 1 /\ f[m - 1] + pieces[m] \in Nat
    BY <1>0, <2>1, <2>3
  <2>5. g \in [0..m -> Nat]
    BY <2>1, <2>3, <2>4
  <2>6. ASSUME NEW j \in 0..m
        PROVE  g[j] = IF j = 0 THEN 0 ELSE g[j - 1] + pieces[j]
    <3>1. CASE j <= m - 1
      <4>1. j \in 0..m - 1 /\ (j # 0 => j - 1 \in 0..m - 1 /\ j - 1 <= m - 1 /\ j - 1 \in 0..m)
        BY <2>1, <3>1
      <4> QED
        BY <2>3, <3>1, <4>1
    <3>2. CASE ~(j <= m - 1)
      <4>1. j = m /\ j # 0 /\ j - 1 = m - 1 /\ j - 1 \in 0..m
        BY <2>1, <3>2
      <4> QED
        BY <2>4, <3>2, <4>1
    <3> QED
      BY <3>1, <3>2
  <2>7. g \in StartsUpTo(m)
    BY <2>5, <2>6 DEF StartsUpTo
  <2> QED
    BY <1>2, <2>7
<1> QED
  BY <1>3, <1>4

LEMMA StartIs ==
  ASSUME PiecesOK
  PROVE  /\ \A k \in 0..Len(pieces) : Descriptors!Start(k) \in Nat
         /\ Descriptors!Start(0) = 0
         /\ \A k \in 1..Len(pieces) : Descriptors!Start(k) = Descriptors!Start(k - 1) + pieces[k]
         /\ \A k \in 1..Len(pieces) : pieces[1] <= Descriptors!Start(k)
<1> DEFINE Body(h) == [j \in 0..Len(pieces) |-> IF j = 0 THEN 0 ELSE h[j - 1] + pieces[j]]
           Sum == CHOOSE h : h = Body(h)
<1>0. Len(pieces) \in Nat /\ \A j \in 1..Len(pieces) : pieces[j] \in Nat
  BY DEF PiecesOK
<1>1. \A k \in 0..Len(pieces) : Descriptors!Start(k) = Sum[k]
  BY DEF Descriptors!Start
<1>2. PICK f : f \in StartsUpTo(Len(pieces))
  BY StartsExist
<1>3. f = Body(f)
  BY <1>2 DEF StartsUpTo
<1>4. Sum = Body(Sum)
  <2> HIDE DEF Body
  <2> QED
    BY <1>3
<1> HIDE DEF Sum
<1>5. /\ DOMAIN Sum = 0..Len(pieces)
      /\ \A j \in 0..Len(pieces) : Sum[j] = IF j = 0 THEN 0 ELSE Sum[j - 1] + pieces[j]
  BY <1>4
<1> DEFINE Odd == {n \in 0..Len(pieces) : Sum[n] \notin Nat \/ (n > 0 /\ Sum[n] < pieces[1])}
<1>6. Odd = {}
  <2> SUFFICES ASSUME Odd # {} PROVE FALSE
    OBVIOUS
  <2>1. PICK d \in Odd : \A n \in Odd : ~(n < d)
    <3>1. Odd \subseteq Nat
      BY <1>0
    <3> HIDE DEF Odd
    <3> QED
      BY <3>1, LeastOne
  <2>2. d \in 0..Len(pieces) /\ (Sum[d] \notin Nat \/ (d > 0 /\ Sum[d] < pieces[1]))
    OBVIOUS
  <2>3. d # 0
    BY <1>5, <2>2
  <2>4. d - 1 \in 0..Len(pieces) /\ d - 1 < d /\ d \in 1..Len(pieces) /\ 1 \in 1..Len(pieces)
    BY <1>0, <2>2, <2>3
  <2>5. Sum[d - 1] \in Nat /\ (d - 1 > 0 => pieces[1] <= Sum[d - 1])
    <3>1. d - 1 \notin Odd
      BY <2>1, <2>4
    <3>2. Sum[d - 1] \in Nat
      BY <2>4, <3>1
    <3>3. d - 1 > 0 => ~(Sum[d - 1] < pieces[1])
      BY <2>4, <3>1
    <3> QED
      BY <1>0, <2>4, <3>2, <3>3
  <2>6. Sum[d] = Sum[d - 1] + pieces[d]
    BY <1>5, <2>2, <2>3
  <2>7. d = 1 => Sum[d] = pieces[1]
    <3>1. Sum[0] = 0
      BY <1>0, <1>5
    <3> QED
      BY <1>0, <2>4, <2>6, <3>1
  <2> QED
    BY <1>0, <2>2, <2>4, <2>5, <2>6, <2>7
<1>7. \A n \in 0..Len(pieces) : Sum[n] \in Nat /\ (n > 0 => pieces[1] <= Sum[n])
  <2> SUFFICES ASSUME NEW n \in 0..Len(pieces)
               PROVE  Sum[n] \in Nat /\ (n > 0 => pieces[1] <= Sum[n])
    OBVIOUS
  <2>1. Sum[n] \in Nat /\ (n > 0 => ~(Sum[n] < pieces[1]))
    BY <1>6
  <2>2. n > 0 => pieces[1] \in Nat
    BY <1>0
  <2> QED
    BY <2>1, <2>2
<1>8. \A k \in 1..Len(pieces) : k \in 0..Len(pieces) /\ k - 1 \in 0..Len(pieces) /\ k > 0
  BY <1>0
<1>9. 0 \in 0..Len(pieces)
  BY <1>0
<1> QED
  BY <1>1, <1>5, <1>7, <1>8, <1>9

(* Ranges of bytes. *)
LEMMA BytesOf ==
  ASSUME NEW f \in Nat, NEW n \in Nat
  PROVE  /\ Descriptors!Bytes(f, n) \in Seq(Nat) /\ Len(Descriptors!Bytes(f, n)) = n
         /\ \A j \in 1..n : Descriptors!Bytes(f, n)[j] = f + j
<1>1. Descriptors!Bytes(f, n) \in [1..n -> Nat]
  BY DEF Descriptors!Bytes
<1>2. Len(Descriptors!Bytes(f, n)) = n
  BY DEF Descriptors!Bytes
<1> QED
  BY <1>1, <1>2 DEF Descriptors!Bytes

LEMMA BytesJoin ==
  ASSUME NEW f \in Nat, NEW n \in Nat, NEW m \in Nat
  PROVE  Descriptors!Bytes(f, n) \o Descriptors!Bytes(f + n, m) = Descriptors!Bytes(f, n + m)
<1>1. /\ Descriptors!Bytes(f, n) \in Seq(Nat) /\ Len(Descriptors!Bytes(f, n)) = n
      /\ \A j \in 1..n : Descriptors!Bytes(f, n)[j] = f + j
  BY BytesOf
<1>2. /\ Descriptors!Bytes(f + n, m) \in Seq(Nat) /\ Len(Descriptors!Bytes(f + n, m)) = m
      /\ \A j \in 1..m : Descriptors!Bytes(f + n, m)[j] = (f + n) + j
  <2>1. f + n \in Nat
    OBVIOUS
  <2> QED
    BY <2>1, BytesOf
<1>3. /\ Descriptors!Bytes(f, n + m) \in Seq(Nat) /\ Len(Descriptors!Bytes(f, n + m)) = n + m
      /\ \A j \in 1..n + m : Descriptors!Bytes(f, n + m)[j] = f + j
  <2>1. n + m \in Nat
    OBVIOUS
  <2> QED
    BY <2>1, BytesOf
<1>4. \A j \in 1..n : Descriptors!Bytes(f, n + m)[j] = Descriptors!Bytes(f, n)[j]
  BY <1>1, <1>3
<1>5. \A j \in 1..m : Descriptors!Bytes(f, n + m)[j + n] = Descriptors!Bytes(f + n, m)[j]
  <2> SUFFICES ASSUME NEW j \in 1..m PROVE Descriptors!Bytes(f, n + m)[j + n] = Descriptors!Bytes(f + n, m)[j]
    OBVIOUS
  <2>1. j + n \in 1..n + m
    OBVIOUS
  <2> QED
    BY <1>2, <1>3, <2>1
<1> DEFINE s == Descriptors!Bytes(f, n)  t == Descriptors!Bytes(f + n, m)  u == Descriptors!Bytes(f, n + m)
<1>6. s \in Seq(Nat) /\ t \in Seq(Nat) /\ u \in Seq(Nat) /\ Len(u) = Len(s) + Len(t)
  BY <1>1, <1>2, <1>3
<1>7. \A k \in 1..Len(s) : u[k] = s[k]
  BY <1>1, <1>4
<1>8. \A k \in 1..Len(t) : u[k + Len(s)] = t[k]
  BY <1>1, <1>2, <1>5
<1> HIDE DEF s, t, u
<1>9. s \o t = u
  BY <1>6, <1>7, <1>8, Joined
<1> QED
  BY <1>9 DEF s, t, u

LEMMA BytesCut ==
  ASSUME NEW f \in Nat, NEW n \in Nat, NEW m \in 0..n
  PROVE  /\ SubSeq(Descriptors!Bytes(f, n), 1, m) = Descriptors!Bytes(f, m)
         /\ SubSeq(Descriptors!Bytes(f, n), m + 1, n) = Descriptors!Bytes(f + m, n - m)
<1> DEFINE b == Descriptors!Bytes(f, n)
<1>1. /\ b \in Seq(Nat) /\ Len(b) = n
      /\ \A j \in 1..n : b[j] = f + j
  BY BytesOf
<1>2. /\ Descriptors!Bytes(f, m) \in Seq(Nat) /\ Len(Descriptors!Bytes(f, m)) = m
      /\ \A j \in 1..m : Descriptors!Bytes(f, m)[j] = f + j
  BY BytesOf
<1>3. /\ Descriptors!Bytes(f + m, n - m) \in Seq(Nat) /\ Len(Descriptors!Bytes(f + m, n - m)) = n - m
      /\ \A j \in 1..n - m : Descriptors!Bytes(f + m, n - m)[j] = (f + m) + j
  <2>1. f + m \in Nat /\ n - m \in Nat
    OBVIOUS
  <2> QED
    BY <2>1, BytesOf
<1> HIDE DEF b
<1>4. /\ SubSeq(b, 1, m) \in Seq(Nat) /\ Len(SubSeq(b, 1, m)) = m
      /\ \A j \in 1..m : SubSeq(b, 1, m)[j] = b[j]
  BY <1>1
<1>5. /\ SubSeq(b, m + 1, n) \in Seq(Nat) /\ Len(SubSeq(b, m + 1, n)) = n - m
      /\ \A j \in 1..n - m : SubSeq(b, m + 1, n)[j] = b[j + m]
  BY <1>1
<1>6. SubSeq(b, 1, m) = Descriptors!Bytes(f, m)
  BY <1>1, <1>2, <1>4, SeqEqual
<1>7. SubSeq(b, m + 1, n) = Descriptors!Bytes(f + m, n - m)
  <2>1. \A j \in 1..n - m : SubSeq(b, m + 1, n)[j] = Descriptors!Bytes(f + m, n - m)[j]
    <3> SUFFICES ASSUME NEW j \in 1..n - m
                 PROVE SubSeq(b, m + 1, n)[j] = Descriptors!Bytes(f + m, n - m)[j]
      OBVIOUS
    <3>1. j + m \in 1..n
      OBVIOUS
    <3> QED
      BY <1>1, <1>3, <1>5, <3>1
  <2> QED
    BY <1>3, <1>5, <2>1, SeqEqual
<1> QED
  BY <1>6, <1>7 DEF b


(* What the generator has taken of the descriptor is what the host has     *)
(* heard, what waits in a packet, the buffer and the rest, in this order.  *)
InPacket == IF packet = << >> THEN 0 ELSE Len(packet[1])
Taken == Descriptors!Smaller(Descriptors!Start(piece), asked)
All == Descriptors!Smaller(Descriptors!Total, asked)

Shape ==
  /\ PiecesOK /\ asked \in Nat \ {0} /\ piece \in 0..Len(pieces)
  /\ kind \in {"config", "string"}
  /\ kind = "string" => Len(pieces) = 1
  /\ kind = "config" => pieces[1] > 0
  /\ phase \in {"push", "zlp", "end"} /\ closed \in BOOLEAN
Content ==
  /\ Len(heard) \in Nat /\ InPacket \in Nat /\ Len(buffer) \in Nat /\ Len(rest) \in Nat
  /\ heard = Descriptors!Bytes(0, Len(heard))
  /\ packet # << >> => packet = <<Descriptors!Bytes(Len(heard), InPacket)>>
  /\ buffer = Descriptors!Bytes(Len(heard) + InPacket, Len(buffer))
  /\ rest = Descriptors!Bytes(Len(heard) + InPacket + Len(buffer), Len(rest))
  /\ Len(heard) + InPacket + Len(buffer) + Len(rest) = Taken
  /\ budget = asked - Taken

(* A descriptor that is not empty goes out in full packets, but perhaps    *)
(* for the last one, which then tells the host that there is no more.      *)
Pushing ==
  /\ Len(buffer) < Chunk /\ Len(heard) % Chunk = 0
  /\ packet # << >> => InPacket = Chunk
  /\ closed <=> Len(heard) = asked
Flushed ==
  /\ piece = Len(pieces) /\ Len(buffer) = 0 /\ Len(rest) = 0
  /\ packet # << >> => InPacket \in 1..Chunk - 1 /\ Len(heard) % Chunk = 0
  /\ closed <=> packet = << >> /\ (Len(heard) = asked \/ All % Chunk # 0)
Ended ==
  /\ piece = Len(pieces) /\ Len(buffer) = 0 /\ Len(rest) = 0
  /\ InPacket = 0
  /\ closed <=> packet = << >>
Empty ==
  /\ kind = "string" /\ Len(heard) = 0
  /\ InPacket = 0 /\ Len(buffer) = 0 /\ Len(rest) = 0
  /\ closed <=> piece = 1 /\ packet = << >>
  /\ packet # << >> => piece = 1
  /\ phase # "push" => piece = 1 /\ packet = << >>
DescriptorInv ==
  /\ Shape /\ Content
  /\ Descriptors!Total = 0 => Empty
  /\ Descriptors!Total > 0 /\ phase = "push" => Pushing
  /\ Descriptors!Total > 0 /\ phase = "zlp" => Flushed
  /\ Descriptors!Total > 0 /\ phase = "end" => Ended

(* Sums, as the steps need them. *)
LEMMA Sums ==
  ASSUME Shape
  PROVE  /\ Len(pieces) \in Nat /\ Len(pieces) > 0 /\ piece \in Nat
         /\ Descriptors!Start(piece) \in Nat /\ Descriptors!Total \in Nat
         /\ Taken \in Nat /\ Taken <= asked /\ All \in Nat /\ All <= asked
         /\ piece = Len(pieces) => Taken = All
         /\ piece = 0 => Descriptors!Start(piece) = 0
         /\ Descriptors!Total = 0 => kind = "string" /\ pieces[1] = 0
         /\ Descriptors!Total > 0 /\ kind = "string" => pieces[1] > 0
         /\ pieces[1] \in Nat
<1>1. Len(pieces) \in Nat /\ Len(pieces) > 0 /\ piece \in 0..Len(pieces) /\ pieces[1] \in Nat
  BY DEF Shape, PiecesOK
<1>2. /\ Descriptors!Start(piece) \in Nat /\ Descriptors!Total \in Nat
      /\ piece = 0 => Descriptors!Start(piece) = 0
      /\ pieces[1] <= Descriptors!Total
      /\ Len(pieces) = 1 => Descriptors!Total = pieces[1]
  <2>1. PiecesOK /\ 1 \in 1..Len(pieces) /\ Len(pieces) \in 0..Len(pieces)
        /\ Len(pieces) \in 1..Len(pieces) /\ 1 - 1 = 0
    BY <1>1 DEF Shape
  <2>2. Descriptors!Start(piece) \in Nat /\ Descriptors!Total \in Nat /\ (piece = 0 => Descriptors!Start(piece) = 0)
    BY <1>1, <2>1, StartIs DEF Descriptors!Total
  <2>3. pieces[1] <= Descriptors!Total
    BY <2>1, StartIs DEF Descriptors!Total
  <2>4. Descriptors!Start(1) = pieces[1]
    BY <1>1, <2>1, StartIs
  <2> QED
    BY <2>2, <2>3, <2>4 DEF Descriptors!Total
<1>3. /\ Taken \in Nat /\ Taken <= asked /\ All \in Nat /\ All <= asked
  BY <1>2 DEF Shape, Taken, All, Descriptors!Smaller
<1>4. piece = Len(pieces) => Taken = All
  BY DEF Taken, All, Descriptors!Total
<1>5. Descriptors!Total = 0 => kind = "string" /\ pieces[1] = 0
  BY <1>1, <1>2 DEF Shape
<1>6. Descriptors!Total > 0 /\ kind = "string" => pieces[1] > 0
  BY <1>2 DEF Shape
<1> QED
  BY <1>1, <1>2, <1>3, <1>4, <1>5, <1>6

LEMMA HostReadsIt == DescriptorInv => Descriptors!HostReadsDescriptor
<1> SUFFICES ASSUME DescriptorInv PROVE Descriptors!HostReadsDescriptor
  OBVIOUS
<1> USE PacketsAssumption
<1>1. Shape /\ Content
  BY DEF DescriptorInv
<1>2. /\ Descriptors!Total \in Nat /\ Taken \in Nat /\ Taken <= asked /\ asked \in Nat
      /\ piece = Len(pieces) => Taken = All
  BY <1>1, Sums DEF Shape
<1>3. /\ Len(heard) \in Nat /\ InPacket \in Nat /\ Len(buffer) \in Nat /\ Len(rest) \in Nat
      /\ Len(heard) + InPacket + Len(buffer) + Len(rest) = Taken
  BY <1>1 DEF Content
<1>4. packet # << >> => ~closed
  <2>1. CASE Descriptors!Total = 0
    BY <2>1 DEF DescriptorInv, Empty
  <2>2. CASE Descriptors!Total > 0 /\ phase = "push"
    <3>1. packet # << >> => InPacket = Chunk
      BY <2>2 DEF DescriptorInv, Pushing
    <3>2. packet # << >> => Len(heard) # asked
      BY <1>2, <1>3, <3>1
    <3> QED
      BY <2>2, <3>2 DEF DescriptorInv, Pushing
  <2>3. CASE Descriptors!Total > 0 /\ phase = "zlp"
    BY <2>3 DEF DescriptorInv, Flushed
  <2>4. CASE Descriptors!Total > 0 /\ phase = "end"
    BY <2>4 DEF DescriptorInv, Ended
  <2> QED
    BY <1>1, <1>2, <2>1, <2>2, <2>3, <2>4 DEF Shape
<1>5. phase = "end" /\ packet = << >> => closed /\ Len(heard) = Descriptors!Smaller(asked, Descriptors!Total)
  <2> SUFFICES ASSUME phase = "end", packet = << >>
               PROVE  closed /\ Len(heard) = Descriptors!Smaller(asked, Descriptors!Total)
    OBVIOUS
  <2>1. All = Descriptors!Smaller(asked, Descriptors!Total)
    BY <1>2 DEF All, Descriptors!Smaller
  <2>2. CASE Descriptors!Total = 0
    <3>1. closed /\ Len(heard) = 0
      BY <2>2 DEF DescriptorInv, Empty
    <3> QED
      BY <1>2, <2>2, <3>1 DEF Descriptors!Smaller
  <2>3. CASE Descriptors!Total > 0
    <3>1. Ended
      BY <2>3 DEF DescriptorInv
    <3>2. closed /\ InPacket = 0 /\ Len(buffer) = 0 /\ Len(rest) = 0 /\ piece = Len(pieces)
      BY <3>1 DEF Ended
    <3> QED
      BY <1>2, <1>3, <2>1, <3>2
  <2> QED
    BY <1>2, <2>2, <2>3
<1>6. heard = Descriptors!Bytes(0, Len(heard))
  BY <1>1 DEF Content
<1> QED
  BY <1>4, <1>5, <1>6 DEF Descriptors!HostReadsDescriptor

LEMMA DescriptorInit == Descriptors!Init => DescriptorInv
<1> SUFFICES ASSUME Descriptors!Init PROVE DescriptorInv
  OBVIOUS
<1> USE PacketsAssumption
<1>1. PICK n : /\ n \in IF kind = "string" THEN {1} ELSE 1..MaxPieces
               /\ pieces \in [1..n -> Lengths]
  BY DEF Descriptors!Init
<1>2. n \in Nat \ {0} /\ (kind = "string" => n = 1)
  BY <1>1
<1>3. PiecesOK /\ Len(pieces) = n
  <2>1. pieces \in [1..n -> Nat]
    BY <1>1
  <2>2. pieces \in Seq(Nat) /\ Len(pieces) = n
    BY <1>2, <2>1
  <2> QED
    BY <1>2, <2>2 DEF PiecesOK
<1>4. /\ piece = 0 /\ rest = << >> /\ budget = asked /\ buffer = << >> /\ phase = "push"
      /\ packet = << >> /\ heard = << >> /\ closed = FALSE /\ asked \in 1..MaxAsked
      /\ kind \in {"config", "string"} /\ (kind = "config" => pieces[1] > 0)
  BY DEF Descriptors!Init
<1>5. Shape
  <2>1. piece \in 0..Len(pieces)
    BY <1>2, <1>3, <1>4
  <2>2. asked \in Nat \ {0}
    BY <1>4
  <2>3. closed \in BOOLEAN
    BY <1>4
  <2> QED
    BY <1>2, <1>3, <1>4, <2>1, <2>2, <2>3 DEF Shape
<1>6. Taken = 0 /\ InPacket = 0 /\ asked \in Nat \ {0}
  <2>1. Descriptors!Start(0) = 0 /\ asked \in Nat \ {0}
    BY <1>3, <1>4, StartIs
  <2> QED
    BY <1>4, <2>1 DEF Taken, Descriptors!Smaller, InPacket
<1>7. Len(heard) = 0 /\ Len(buffer) = 0 /\ Len(rest) = 0 /\ Descriptors!Bytes(0, 0) = << >>
  BY <1>4 DEF Descriptors!Bytes
<1>8. Content
  <2>1. Descriptors!Bytes(Len(heard) + InPacket, 0) = << >> /\ Descriptors!Bytes(Len(heard) + InPacket + Len(buffer), 0) = << >>
    BY DEF Descriptors!Bytes
  <2> QED
    BY <1>4, <1>6, <1>7, <2>1 DEF Content
<1>9. Descriptors!Total = 0 => Empty
  BY <1>4, <1>5, <1>6, <1>7, Sums DEF Empty
<1>10. Pushing
  <2>1. 0 % Chunk = 0
    OBVIOUS
  <2> QED
    BY <1>4, <1>6, <1>7, <2>1 DEF Pushing
<1> QED
  BY <1>4, <1>5, <1>8, <1>9, <1>10 DEF DescriptorInv


(* The sums are those of the same pieces. *)
LEMMA SumsStay ==
  ASSUME UNCHANGED <<pieces, asked>>
  PROVE  /\ Descriptors!Total' = Descriptors!Total /\ All' = All
         /\ \A k : Descriptors!Start(k)' = Descriptors!Start(k)
         /\ PiecesOK' <=> PiecesOK
BY DEF Descriptors!Total, All, Descriptors!Start, PiecesOK

LEMMA NextPieceStep ==
  ASSUME DescriptorInv, Descriptors!NextPiece PROVE DescriptorInv'
<1> USE PacketsAssumption
<1> DEFINE n == Descriptors!Smaller(pieces[piece + 1], budget)
           h == Len(heard)  b == Len(buffer)
<1>1. Shape /\ Content
  BY DEF DescriptorInv
<1>2. /\ phase = "push" /\ packet = << >> /\ rest = << >> /\ piece < Len(pieces)
      /\ piece' = piece + 1 /\ rest' = Descriptors!Bytes(Descriptors!Start(piece), n) /\ budget' = budget - n
      /\ packet' = IF kind = "string" /\ n = 0 THEN << << >> >> ELSE << >>
      /\ UNCHANGED <<buffer, phase, heard, closed, pieces, asked, kind>>
  BY DEF Descriptors!NextPiece, Descriptors!UnchangedInputs
<1>3. /\ Len(pieces) \in Nat /\ piece \in Nat /\ Descriptors!Start(piece) \in Nat
      /\ Taken \in Nat /\ Taken <= asked /\ asked \in Nat \ {0} /\ Descriptors!Total \in Nat
  BY <1>1, Sums DEF Shape
<1>4. piece + 1 \in 1..Len(pieces) /\ pieces[piece + 1] \in Nat /\ (piece + 1) - 1 = piece
  BY <1>1, <1>2, <1>3 DEF Shape, PiecesOK
<1>5. Descriptors!Start(piece + 1) = Descriptors!Start(piece) + pieces[piece + 1]
  BY <1>1, <1>4, StartIs DEF Shape
<1>6. h \in Nat /\ b \in Nat /\ InPacket = 0 /\ Len(rest) = 0 /\ h + b = Taken
      /\ budget = asked - Taken
  BY <1>1, <1>2 DEF Content, InPacket
<1>7. n \in Nat /\ Descriptors!Smaller(Descriptors!Start(piece + 1), asked) = Taken + n
      /\ (n > 0 => Descriptors!Start(piece) = Taken)
  <2> DEFINE f == Descriptors!Start(piece)  p == pieces[piece + 1]  t == Taken  e == Descriptors!Start(piece + 1)
  <2>1. t = IF f < asked THEN f ELSE asked
    BY DEF Taken, Descriptors!Smaller
  <2>2. /\ f \in Nat /\ p \in Nat /\ e = f + p /\ asked \in Nat /\ t \in Nat
        /\ budget = asked - t
    BY <1>3, <1>4, <1>5, <1>6
  <2>3. n = (IF p < budget THEN p ELSE budget) /\ Descriptors!Smaller(e, asked) = IF e < asked THEN e ELSE asked
    BY DEF Descriptors!Smaller
  <2> HIDE DEF f, p, t, e, n
  <2>4. n \in Nat /\ Descriptors!Smaller(e, asked) = t + n /\ (n > 0 => f = t)
    <3>1. CASE f < asked
      BY <2>1, <2>2, <2>3, <3>1
    <3>2. CASE ~(f < asked)
      <4>1. t = asked /\ budget = 0 /\ n = 0 /\ ~(e < asked)
        BY <2>1, <2>2, <2>3, <3>2
      <4>2. Descriptors!Smaller(e, asked) = asked
        BY <2>3, <4>1
      <4> QED
        BY <2>2, <4>1, <4>2
    <3> QED
      BY <3>1, <3>2
  <2> QED
    BY <2>4 DEF f, t, e
<1>8. Taken' = Taken + n
  <2>1. Taken' = Descriptors!Smaller(Descriptors!Start(piece'), asked)
    BY <1>2 DEF Taken, Descriptors!Start
  <2> QED
    BY <1>2, <1>7, <2>1
<1>9. InPacket' = 0
  <2>1. Len(<< >>) = 0 /\ << << >> >>[1] = << >>
    OBVIOUS
  <2> HIDE DEF n
  <2> QED
    BY <1>2, <2>1 DEF InPacket
<1>10. rest' = Descriptors!Bytes(h + b, n) /\ Len(rest') = n
  <2>1. CASE n > 0
    <3>1. Descriptors!Start(piece) = h + b
      BY <1>6, <1>7, <2>1
    <3>2. h + b \in Nat
      BY <1>6
    <3> HIDE DEF n, h, b
    <3> QED
      BY <1>2, <1>7, <3>1, <3>2, BytesOf
  <2>2. CASE n = 0
    <3>1. Descriptors!Bytes(Descriptors!Start(piece), 0) = << >> /\ Descriptors!Bytes(h + b, 0) = << >>
      BY DEF Descriptors!Bytes
    <3> HIDE DEF n, h, b
    <3> QED
      BY <1>2, <2>2, <3>1
  <2> QED
    BY <1>7, <2>1, <2>2
<1> HIDE DEF n
<1>11. Shape'
  <2>1. piece' \in 0..Len(pieces)' /\ PiecesOK'
    BY <1>1, <1>2, <1>3, SumsStay DEF Shape
  <2> QED
    BY <1>1, <1>2, <2>1 DEF Shape
<1>12. Content'
  <2>1. Len(heard') = h /\ Len(buffer') = b /\ heard' = Descriptors!Bytes(0, h)
        /\ buffer' = Descriptors!Bytes(h + 0, b)
    BY <1>1, <1>2, <1>6 DEF Content
  <2>2. packet' # << >> => packet' = <<Descriptors!Bytes(h, 0)>>
    <3>1. Descriptors!Bytes(h, 0) = << >>
      BY DEF Descriptors!Bytes
    <3> QED
      BY <1>2, <3>1
  <2>3. h + 0 + b = h + b /\ h + 0 + b + n = Taken' /\ budget' = asked' - Taken'
    BY <1>2, <1>3, <1>6, <1>7, <1>8
  <2> HIDE DEF h, b
  <2> QED
    BY <1>6, <1>7, <1>9, <1>10, <2>1, <2>2, <2>3 DEF Content
<1>13. Descriptors!Total' = Descriptors!Total /\ All' = All
  BY <1>2, SumsStay
<1>14. CASE Descriptors!Total = 0
  <2>1. Empty
    BY <1>14 DEF DescriptorInv
  <2>2. piece = 0 /\ kind = "string" /\ pieces[1] = 0 /\ h = 0 /\ b = 0
    <3>1. kind = "string" /\ pieces[1] = 0
      BY <1>1, <1>14, Sums
    <3>2. piece = 0
      <4>1. Len(pieces) = 1
        BY <1>1, <3>1 DEF Shape
      <4> QED
        BY <1>2, <1>3, <4>1
    <3> QED
      BY <2>1, <3>1, <3>2 DEF Empty
  <2>3. n = 0
    <3>1. pieces[piece + 1] = 0 /\ budget \in Nat
      <4>1. piece + 1 = 1
        BY <2>2
      <4> QED
        BY <1>3, <1>6, <2>2, <4>1
    <3> QED
      BY <3>1 DEF n, Descriptors!Smaller
  <2>4. packet' # << >>
    BY <1>2, <2>2, <2>3
  <2>5. ~closed
    BY <2>1, <2>2 DEF Empty
  <2>6. Empty'
    BY <1>2, <1>9, <1>10, <2>2, <2>3, <2>4, <2>5 DEF Empty
  <2> QED
    BY <1>11, <1>12, <1>13, <1>14, <2>6 DEF DescriptorInv
<1>15. CASE Descriptors!Total > 0
  <2>1. Pushing
    BY <1>2, <1>15 DEF DescriptorInv
  <2>2. packet' = << >>
    <3>1. kind = "string" => n > 0
      <4> SUFFICES ASSUME kind = "string" PROVE n > 0
        OBVIOUS
      <4>1. piece = 0 /\ pieces[1] > 0
        <5>1. Len(pieces) = 1
          BY <1>1 DEF Shape
        <5>2. pieces[1] > 0
          BY <1>1, <1>15, Sums
        <5> QED
          BY <1>2, <1>3, <5>1, <5>2
      <4>2. Taken = 0
        <5>1. Descriptors!Start(piece) = 0
          BY <1>1, <4>1, Sums
        <5> QED
          BY <1>3, <5>1 DEF Taken, Descriptors!Smaller
      <4>3. piece + 1 = 1
        BY <4>1
      <4> QED
        BY <1>3, <1>4, <1>6, <4>1, <4>2, <4>3 DEF n, Descriptors!Smaller
    <3> QED
      BY <1>2, <3>1
  <2>3. Pushing'
    BY <1>2, <2>1, <2>2 DEF Pushing
  <2> QED
    BY <1>2, <1>11, <1>12, <1>13, <1>15, <2>3 DEF DescriptorInv
<1> QED
  BY <1>3, <1>14, <1>15

LEMMA PushStep ==
  ASSUME DescriptorInv, Descriptors!Push PROVE DescriptorInv'
<1> USE PacketsAssumption
<1> DEFINE h == Len(heard)  b == Len(buffer)  r == Len(rest)
           n == Descriptors!Smaller(r, Chunk - b)
           filled == buffer \o SubSeq(rest, 1, n)
<1>1. Shape /\ Content
  BY DEF DescriptorInv
<1>2. /\ phase = "push" /\ packet = << >> /\ rest # << >>
      /\ rest' = SubSeq(rest, n + 1, r)
      /\ IF Len(filled) = Chunk THEN packet' = <<filled>> /\ buffer' = << >>
         ELSE buffer' = filled /\ packet' = packet
      /\ UNCHANGED <<piece, budget, phase, heard, closed, pieces, asked, kind>>
  BY DEF Descriptors!Push, Descriptors!UnchangedInputs
<1>3. /\ h \in Nat /\ b \in Nat /\ r \in Nat /\ InPacket = 0
      /\ heard = Descriptors!Bytes(0, h) /\ buffer = Descriptors!Bytes(h, b) /\ rest = Descriptors!Bytes(h + b, r)
      /\ h + b + r = Taken /\ budget = asked - Taken
  <2>1. /\ h \in Nat /\ b \in Nat /\ r \in Nat /\ InPacket = 0
        /\ heard = Descriptors!Bytes(0, h) /\ buffer = Descriptors!Bytes(h + InPacket, b)
        /\ rest = Descriptors!Bytes(h + InPacket + b, r)
        /\ h + InPacket + b + r = Taken /\ budget = asked - Taken
    BY <1>1, <1>2 DEF Content, InPacket
  <2>2. h + InPacket = h /\ h + InPacket + b = h + b
    BY <2>1
  <2> QED
    BY <2>1, <2>2
<1>4. r > 0
  <2>1. Descriptors!Bytes(h + b, 0) = << >>
    BY DEF Descriptors!Bytes
  <2> QED
    BY <1>2, <1>3, <2>1
<1>5. Descriptors!Total > 0
  <2>1. Descriptors!Total = 0 => r = 0
    BY DEF DescriptorInv, Empty
  <2> QED
    BY <1>1, <1>4, <2>1, Sums
<1>6. Pushing
  BY <1>2, <1>5 DEF DescriptorInv
<1>7. b < Chunk /\ h % Chunk = 0 /\ (closed <=> h = asked)
  BY <1>6 DEF Pushing
<1>8. n \in 0..r /\ n > 0 /\ b + n <= Chunk /\ h + b \in Nat /\ b + n \in Nat
  BY <1>3, <1>4, <1>7 DEF Descriptors!Smaller
<1> HIDE DEF h, b, r, n
<1>9. filled = Descriptors!Bytes(h, b + n) /\ Len(filled) = b + n
  <2>1. SubSeq(rest, 1, n) = Descriptors!Bytes(h + b, n)
    BY <1>3, <1>8, BytesCut
  <2>2. n \in Nat
    BY <1>3, <1>8
  <2>3. filled = Descriptors!Bytes(h, b) \o Descriptors!Bytes(h + b, n)
    BY <1>3, <2>1
  <2>4. Descriptors!Bytes(h, b) \o Descriptors!Bytes(h + b, n) = Descriptors!Bytes(h, b + n)
    BY <1>3, <2>2, BytesJoin, ZenonT(60)
  <2>5. Len(Descriptors!Bytes(h, b + n)) = b + n
    BY <1>3, <1>8, BytesOf
  <2> HIDE DEF filled
  <2> QED
    BY <2>3, <2>4, <2>5
<1> HIDE DEF filled
<1>10. rest' = Descriptors!Bytes(h + b + n, r - n) /\ Len(rest') = r - n /\ r - n \in Nat
  <2>1. r - n \in Nat /\ h + b + n \in Nat
    BY <1>3, <1>8
  <2>2. rest' = Descriptors!Bytes(h + b + n, r - n)
    BY <1>2, <1>3, <1>8, BytesCut, ZenonT(60)
  <2> QED
    BY <2>1, <2>2, BytesOf
<1>11. Descriptors!Total' = Descriptors!Total /\ All' = All /\ Taken' = Taken /\ Shape'
  <2>1. Descriptors!Total' = Descriptors!Total /\ All' = All /\ PiecesOK'
    BY <1>1, <1>2, SumsStay DEF Shape
  <2>2. Taken' = Taken
    BY <1>2 DEF Taken, Descriptors!Start
  <2> QED
    BY <1>1, <1>2, <2>1, <2>2 DEF Shape
<1>12. Len(heard') = h /\ heard' = Descriptors!Bytes(0, h) /\ budget' = asked' - Taken'
  BY <1>2, <1>3, <1>11 DEF h
<1>13. CASE b + n = Chunk
  <2>1. packet' = <<Descriptors!Bytes(h, Chunk)>> /\ buffer' = << >>
    BY <1>2, <1>9, <1>13
  <2>2. InPacket' = Chunk /\ Len(buffer') = 0 /\ packet' # << >>
    <3>1. Len(Descriptors!Bytes(h, Chunk)) = Chunk
      BY <1>3, BytesOf
    <3> QED
      BY <2>1, <3>1 DEF InPacket
  <2>3. Descriptors!Bytes(h + Chunk, 0) = << >>
    BY DEF Descriptors!Bytes
  <2>4. h + Chunk + 0 = h + b + n /\ h + Chunk + 0 + (r - n) = Taken
    BY <1>3, <1>8, <1>13
  <2>5. Content'
    <3>1. /\ Len(heard') \in Nat /\ InPacket' \in Nat /\ Len(buffer') \in Nat
          /\ Len(rest') \in Nat
      BY <1>3, <1>10, <1>12, <2>2
    <3>2. packet' = <<Descriptors!Bytes(Len(heard'), InPacket')>>
      BY <1>12, <2>1, <2>2
    <3>3. buffer' = Descriptors!Bytes(Len(heard') + InPacket', Len(buffer'))
      BY <1>12, <2>1, <2>2, <2>3
    <3>4. rest' = Descriptors!Bytes(Len(heard') + InPacket' + Len(buffer'), Len(rest'))
      BY <1>10, <1>12, <2>2, <2>4
    <3>5. Len(heard') + InPacket' + Len(buffer') + Len(rest') = Taken'
      BY <1>10, <1>11, <1>12, <2>2, <2>4
    <3> QED
      BY <1>12, <3>1, <3>2, <3>3, <3>4, <3>5 DEF Content
  <2>6. Pushing'
    BY <1>2, <1>7, <1>12, <2>2 DEF Pushing
  <2> QED
    BY <1>2, <1>5, <1>11, <2>5, <2>6 DEF DescriptorInv
<1>14. CASE b + n # Chunk
  <2>1. packet' = << >> /\ buffer' = Descriptors!Bytes(h, b + n) /\ Len(buffer') = b + n
    BY <1>2, <1>9, <1>14
  <2>2. InPacket' = 0
    BY <2>1 DEF InPacket
  <2>3. h + 0 = h /\ h + 0 + (b + n) = h + b + n /\ h + 0 + (b + n) + (r - n) = Taken
        /\ b + n < Chunk
    BY <1>3, <1>8, <1>14
  <2>4. Content'
    <3>1. /\ Len(heard') \in Nat /\ InPacket' \in Nat /\ Len(buffer') \in Nat
          /\ Len(rest') \in Nat
      BY <1>3, <1>8, <1>10, <1>12, <2>1, <2>2
    <3>2. buffer' = Descriptors!Bytes(Len(heard') + InPacket', Len(buffer'))
      BY <1>12, <2>1, <2>2, <2>3
    <3>3. rest' = Descriptors!Bytes(Len(heard') + InPacket' + Len(buffer'), Len(rest'))
      BY <1>10, <1>12, <2>1, <2>2, <2>3
    <3>4. Len(heard') + InPacket' + Len(buffer') + Len(rest') = Taken'
      BY <1>10, <1>11, <1>12, <2>1, <2>2, <2>3
    <3> QED
      BY <1>12, <2>1, <3>1, <3>2, <3>3, <3>4 DEF Content
  <2>5. Pushing'
    BY <1>2, <1>7, <1>12, <2>1, <2>3 DEF Pushing
  <2> QED
    BY <1>2, <1>5, <1>11, <2>4, <2>5 DEF DescriptorInv
<1> QED
  BY <1>13, <1>14

LEMMA FlushStep ==
  ASSUME DescriptorInv, Descriptors!Flush PROVE DescriptorInv'
<1> USE PacketsAssumption
<1> DEFINE h == Len(heard)  b == Len(buffer)
<1>1. Shape /\ Content
  BY DEF DescriptorInv
<1>2. /\ phase = "push" /\ packet = << >> /\ rest = << >> /\ piece = Len(pieces)
      /\ phase' = "zlp" /\ buffer' = << >>
      /\ packet' = IF buffer = << >> THEN << >> ELSE <<buffer>>
      /\ UNCHANGED <<piece, rest, budget, heard, closed, pieces, asked, kind>>
  BY DEF Descriptors!Flush, Descriptors!UnchangedInputs
<1>3. /\ h \in Nat /\ b \in Nat /\ Len(rest) = 0 /\ InPacket = 0
      /\ heard = Descriptors!Bytes(0, h) /\ buffer = Descriptors!Bytes(h, b)
      /\ h + b = Taken /\ budget = asked - Taken
  <2>1. /\ h \in Nat /\ b \in Nat /\ Len(rest) = 0 /\ InPacket = 0
        /\ heard = Descriptors!Bytes(0, h) /\ buffer = Descriptors!Bytes(h + InPacket, b)
        /\ h + InPacket + b + Len(rest) = Taken /\ budget = asked - Taken
    BY <1>1, <1>2 DEF Content, InPacket
  <2>2. h + InPacket = h
    BY <2>1
  <2> QED
    BY <2>1, <2>2
<1>4. Descriptors!Total \in Nat /\ Taken = All /\ All <= asked /\ asked \in Nat /\ Len(pieces) \in Nat
  BY <1>1, <1>2, Sums DEF Shape
<1>5. buffer = << >> <=> b = 0
  <2>1. Descriptors!Bytes(h, 0) = << >>
    BY DEF Descriptors!Bytes
  <2> QED
    BY <1>3, <2>1 DEF b
<1> HIDE DEF h, b
<1>6. Descriptors!Total' = Descriptors!Total /\ All' = All /\ Taken' = Taken /\ Shape'
  <2>1. Descriptors!Total' = Descriptors!Total /\ All' = All /\ PiecesOK'
    BY <1>1, <1>2, SumsStay DEF Shape
  <2>2. Taken' = Taken
    BY <1>2 DEF Taken, Descriptors!Start
  <2> QED
    BY <1>1, <1>2, <2>1, <2>2 DEF Shape
<1>7. InPacket' = b /\ (packet' # << >> <=> b # 0) /\ Len(buffer') = 0 /\ Len(rest') = 0
  <2>1. CASE buffer = << >>
    BY <1>2, <1>3, <1>5, <2>1 DEF InPacket
  <2>2. CASE buffer # << >>
    <3>1. packet' = <<buffer>>
      BY <1>2, <2>2
    <3>2. packet'[1] = buffer /\ packet' # << >>
      BY <3>1
    <3> QED
      BY <1>2, <1>3, <1>5, <2>2, <3>2 DEF InPacket, b
  <2> QED
    BY <2>1, <2>2
<1>8. Len(heard') = h /\ heard' = Descriptors!Bytes(0, h)
  BY <1>2, <1>3 DEF h
<1>9. Content'
  <2>1. packet' # << >> => packet' = <<Descriptors!Bytes(Len(heard'), InPacket')>>
    BY <1>2, <1>3, <1>7, <1>8
  <2>2. Descriptors!Bytes(h + b, 0) = << >> /\ Descriptors!Bytes(h + b + 0, 0) = << >> /\ h + b + 0 + 0 = Taken
    BY <1>3 DEF Descriptors!Bytes
  <2>3. /\ buffer' = Descriptors!Bytes(Len(heard') + InPacket', Len(buffer'))
        /\ rest' = Descriptors!Bytes(Len(heard') + InPacket' + Len(buffer'), Len(rest'))
        /\ Len(heard') + InPacket' + Len(buffer') + Len(rest') = Taken'
    BY <1>2, <1>6, <1>7, <1>8, <2>2
  <2>4. budget' = asked' - Taken'
    BY <1>2, <1>3, <1>6
  <2> QED
    BY <1>3, <1>7, <1>8, <2>1, <2>3, <2>4 DEF Content
<1>10. CASE Descriptors!Total = 0
  <2>1. Empty /\ b = 0
    BY <1>10 DEF DescriptorInv, Empty, b
  <2>2. piece = 1
    BY <1>1, <1>2, <2>1 DEF Shape, Empty
  <2>3. packet' = << >>
    BY <1>7, <2>1
  <2>4. Empty'
    BY <1>2, <1>7, <2>1, <2>2, <2>3 DEF Empty
  <2> QED
    BY <1>6, <1>9, <1>10, <2>4 DEF DescriptorInv
<1>11. CASE Descriptors!Total > 0
  <2>1. b < Chunk /\ h % Chunk = 0 /\ (closed <=> h = asked)
    BY <1>2, <1>11 DEF DescriptorInv, Pushing, b, h
  <2>2. b # 0 => b \in 1..Chunk - 1 /\ ~closed
    BY <1>3, <1>4, <2>1
  <2>3. b = 0 => All % Chunk = 0
    <3> SUFFICES ASSUME b = 0 PROVE All % Chunk = 0
      OBVIOUS
    <3>1. All = h
      BY <1>3, <1>4
    <3> QED
      BY <2>1, <3>1
  <2>4. Flushed'
    <3>1. closed' <=> packet' = << >> /\ (Len(heard') = asked' \/ All' % Chunk # 0)
      BY <1>2, <1>6, <1>7, <1>8, <2>1, <2>2, <2>3
    <3>2. packet' # << >> => InPacket' \in 1..Chunk - 1 /\ Len(heard') % Chunk = 0
      BY <1>7, <1>8, <2>1, <2>2
    <3> QED
      BY <1>2, <1>7, <3>1, <3>2 DEF Flushed
  <2> QED
    BY <1>2, <1>6, <1>9, <1>11, <2>4 DEF DescriptorInv
<1> QED
  BY <1>4, <1>10, <1>11


LEMMA ZlpStep ==
  ASSUME DescriptorInv, Descriptors!Zlp PROVE DescriptorInv'
<1> USE PacketsAssumption
<1> DEFINE h == Len(heard)
<1>1. Shape /\ Content
  BY DEF DescriptorInv
<1>2. /\ phase = "zlp" /\ packet = << >> /\ phase' = "end"
      /\ packet' = IF Descriptors!NeedsZlp THEN << << >> >> ELSE << >>
      /\ UNCHANGED <<piece, rest, budget, buffer, heard, closed, pieces, asked, kind>>
  BY DEF Descriptors!Zlp, Descriptors!UnchangedInputs
<1>3. Descriptors!Total \in Nat /\ Descriptors!Total' = Descriptors!Total /\ All' = All /\ Taken' = Taken /\ Shape'
  <2>1. Descriptors!Total \in Nat /\ Descriptors!Total' = Descriptors!Total /\ All' = All /\ PiecesOK'
    BY <1>1, <1>2, Sums, SumsStay DEF Shape
  <2>2. Taken' = Taken
    BY <1>2 DEF Taken, Descriptors!Start
  <2> QED
    BY <1>1, <1>2, <2>1, <2>2 DEF Shape
<1>4. InPacket = 0 /\ InPacket' = 0
  <2>1. Len(<< >>) = 0 /\ << << >> >>[1] = << >>
    OBVIOUS
  <2> QED
    BY <1>2, <2>1 DEF InPacket
<1>5. Content'
  <2>1. h \in Nat /\ Descriptors!Bytes(h, 0) = << >>
    BY <1>1 DEF Content, Descriptors!Bytes
  <2>2. packet' # << >> => packet' = <<Descriptors!Bytes(Len(heard'), InPacket')>>
    BY <1>2, <1>4, <2>1
  <2> QED
    BY <1>1, <1>2, <1>3, <1>4, <2>2 DEF Content
<1>6. CASE Descriptors!Total = 0
  <2>1. Empty
    BY <1>6 DEF DescriptorInv
  <2>2. packet' = << >>
    BY <1>2, <1>6 DEF Descriptors!NeedsZlp
  <2>3. Empty'
    BY <1>2, <1>4, <2>1, <2>2 DEF Empty
  <2> QED
    BY <1>3, <1>5, <1>6, <2>3 DEF DescriptorInv
<1>7. CASE Descriptors!Total > 0
  <2>1. Flushed
    BY <1>2, <1>7 DEF DescriptorInv
  <2>2. /\ piece = Len(pieces) /\ Len(buffer) = 0 /\ Len(rest) = 0 /\ h = All
        /\ closed <=> h = asked \/ All % Chunk # 0
    <3>1. piece = Len(pieces) /\ Len(buffer) = 0 /\ Len(rest) = 0
      BY <2>1 DEF Flushed
    <3>2. Taken = All
      BY <1>1, <3>1, Sums
    <3>3. h = All
      BY <1>1, <1>4, <3>1, <3>2 DEF Content
    <3>4. closed <=> h = asked \/ All % Chunk # 0
      BY <1>2, <2>1 DEF Flushed
    <3> QED
      BY <3>1, <3>3, <3>4
  <2>3. closed <=> ~Descriptors!NeedsZlp
    <3>1. asked \in Nat
      BY <1>1 DEF Shape
    <3>2. CASE Descriptors!Total < asked
      <4>1. All = Descriptors!Total /\ h # asked
        BY <1>3, <2>2, <3>1, <3>2 DEF All, Descriptors!Smaller
      <4> QED
        BY <1>7, <2>2, <3>2, <4>1 DEF Descriptors!NeedsZlp
    <3>3. CASE ~(Descriptors!Total < asked)
      <4>1. All = asked
        BY <3>3 DEF All, Descriptors!Smaller
      <4> QED
        BY <2>2, <3>3, <4>1 DEF Descriptors!NeedsZlp
    <3> QED
      BY <3>2, <3>3
  <2>4. packet' = << >> <=> ~Descriptors!NeedsZlp
    <3>1. << << >> >> # << >>
      OBVIOUS
    <3> QED
      BY <1>2, <3>1
  <2>5. Ended'
    BY <1>2, <1>4, <2>2, <2>3, <2>4 DEF Ended
  <2> QED
    BY <1>2, <1>3, <1>5, <1>7, <2>5 DEF DescriptorInv
<1> QED
  BY <1>3, <1>6, <1>7

LEMMA HostReadsStep ==
  ASSUME DescriptorInv, Descriptors!HostReads PROVE DescriptorInv'
<1> USE PacketsAssumption
<1> DEFINE h == Len(heard)  w == InPacket  b == Len(buffer)  r == Len(rest)
<1>1. Shape /\ Content
  BY DEF DescriptorInv
<1>2. /\ packet # << >> /\ ~closed /\ heard' = heard \o Head(packet) /\ packet' = << >>
      /\ closed' = (Len(Head(packet)) < Chunk \/ Len(heard') = asked)
      /\ UNCHANGED <<piece, rest, budget, buffer, phase, pieces, asked, kind>>
  BY DEF Descriptors!HostReads, Descriptors!UnchangedInputs
<1>3. /\ h \in Nat /\ w \in Nat /\ b \in Nat /\ r \in Nat
      /\ heard = Descriptors!Bytes(0, h) /\ packet = <<Descriptors!Bytes(h, w)>>
      /\ buffer = Descriptors!Bytes(h + w, b) /\ rest = Descriptors!Bytes(h + w + b, r)
      /\ h + w + b + r = Taken /\ budget = asked - Taken
  BY <1>1, <1>2 DEF Content
<1> HIDE DEF h, w, b, r
<1>4. Head(packet) = Descriptors!Bytes(h, w)
  BY <1>3
<1>5. heard' = Descriptors!Bytes(0, h + w) /\ Len(heard') = h + w /\ h + w \in Nat
  <2>1. heard' = Descriptors!Bytes(0, h) \o Descriptors!Bytes(h, w)
    BY <1>2, <1>3, <1>4
  <2>2. 0 + h = h /\ 0 \in Nat /\ h + w \in Nat
    BY <1>3
  <2>3. Descriptors!Bytes(0, h) \o Descriptors!Bytes(0 + h, w) = Descriptors!Bytes(0, h + w)
    <3> DEFINE z == 0
    <3>1. z \in Nat
      OBVIOUS
    <3> HIDE DEF z
    <3>2. Descriptors!Bytes(z, h) \o Descriptors!Bytes(z + h, w) = Descriptors!Bytes(z, h + w)
      BY <1>3, <3>1, BytesJoin
    <3> QED
      BY <3>2 DEF z
  <2>4. Len(Descriptors!Bytes(0, h + w)) = h + w
    BY <2>2, BytesOf
  <2> QED
    BY <2>1, <2>2, <2>3, <2>4
<1>6. closed' <=> w < Chunk \/ h + w = asked
  <2>1. Len(Descriptors!Bytes(h, w)) = w
    BY <1>3, BytesOf
  <2> QED
    BY <1>2, <1>4, <1>5, <2>1
<1>7. InPacket' = 0
  BY <1>2 DEF InPacket
<1>8. Descriptors!Total \in Nat /\ Descriptors!Total' = Descriptors!Total /\ All' = All /\ Taken' = Taken /\ Shape'
  <2>1. Descriptors!Total \in Nat /\ Descriptors!Total' = Descriptors!Total /\ All' = All /\ PiecesOK'
    BY <1>1, <1>2, Sums, SumsStay DEF Shape
  <2>2. Taken' = Taken
    BY <1>2 DEF Taken, Descriptors!Start
  <2>3. closed' \in BOOLEAN
    BY <1>2
  <2> QED
    BY <1>1, <1>2, <2>1, <2>2, <2>3 DEF Shape
<1>9. Len(buffer') = b /\ Len(rest') = r
  BY <1>2 DEF b, r
<1>10. Content'
  <2>1. h + w + 0 = h + w /\ h + w + 0 + b = h + w + b /\ h + w + 0 + b + r = Taken
    BY <1>3
  <2>2. buffer' = Descriptors!Bytes(Len(heard') + InPacket', Len(buffer'))
    BY <1>2, <1>3, <1>5, <1>7, <1>9, <2>1
  <2>3. rest' = Descriptors!Bytes(Len(heard') + InPacket' + Len(buffer'), Len(rest'))
    BY <1>2, <1>3, <1>5, <1>7, <1>9, <2>1
  <2>4. Len(heard') + InPacket' + Len(buffer') + Len(rest') = Taken'
    BY <1>5, <1>7, <1>8, <1>9, <2>1
  <2>5. budget' = asked' - Taken'
    BY <1>2, <1>3, <1>8
  <2> QED
    BY <1>2, <1>3, <1>5, <1>7, <1>9, <2>2, <2>3, <2>4, <2>5 DEF Content
<1>11. CASE Descriptors!Total = 0
  <2>1. Empty
    BY <1>11 DEF DescriptorInv
  <2>2. kind = "string" /\ h = 0 /\ w = 0 /\ b = 0 /\ r = 0 /\ phase = "push"
    <3>1. kind = "string" /\ h = 0 /\ w = 0 /\ b = 0 /\ r = 0
      BY <2>1 DEF Empty, h, w, b, r
    <3>2. phase # "push" => packet = << >>
      BY <2>1 DEF Empty
    <3> QED
      BY <1>2, <3>1, <3>2
  <2>3. piece = 1 /\ closed'
    <3>1. Len(pieces) = 1 /\ piece \in 0..1
      BY <1>1, <2>2 DEF Shape
    <3>2. piece # 0
      BY <1>2, <2>1 DEF Empty
    <3>3. closed'
      BY <1>6, <2>2
    <3> QED
      BY <3>1, <3>2, <3>3
  <2>4. Empty'
    BY <1>2, <1>5, <1>7, <1>9, <2>2, <2>3 DEF Empty
  <2> QED
    BY <1>8, <1>10, <1>11, <2>4 DEF DescriptorInv
<1>12. CASE Descriptors!Total > 0 /\ phase = "push"
  <2>1. b < Chunk /\ h % Chunk = 0 /\ w = Chunk
    BY <1>2, <1>12 DEF DescriptorInv, Pushing, b, h, w
  <2>2. (h + w) % Chunk = 0
    <3>1. (h + Chunk) % Chunk = 0
      <4> DEFINE z == 0
      <4>1. z \in 0..Chunk - 1
        OBVIOUS
      <4> HIDE DEF z
      <4> QED
        BY <1>3, <2>1, <4>1, ModAdds
    <3> QED
      BY <2>1, <3>1
  <2>3. closed' <=> h + w = asked
    BY <1>6, <2>1
  <2>4. Pushing'
    BY <1>2, <1>5, <1>9, <2>1, <2>2, <2>3 DEF Pushing
  <2> QED
    BY <1>2, <1>8, <1>10, <1>12, <2>4 DEF DescriptorInv
<1>13. CASE Descriptors!Total > 0 /\ phase = "zlp"
  <2>1. /\ piece = Len(pieces) /\ b = 0 /\ r = 0 /\ w \in 1..Chunk - 1 /\ h % Chunk = 0
    BY <1>2, <1>13 DEF DescriptorInv, Flushed, b, r, w, h
  <2>2. Taken = All /\ h + w = All
    <3>1. Taken = All
      BY <1>1, <2>1, Sums
    <3> QED
      BY <1>3, <2>1, <3>1
  <2>3. All % Chunk # 0
    <3>1. w \in 0..Chunk - 1 /\ w # 0
      BY <2>1
    <3>2. (h + w) % Chunk = w
      <4> DEFINE t == h + w
      <4>1. h \in Nat /\ h % Chunk = 0 /\ t = h + w /\ Chunk \in Nat \ {0}
        BY <1>3, <2>1
      <4> HIDE DEF t
      <4>2. t % Chunk = w
        BY <3>1, <4>1, ModOfSum
      <4> QED
        BY <4>2 DEF t
    <3> QED
      BY <2>2, <3>1, <3>2
  <2>4. closed'
    BY <1>6, <2>1
  <2>5. Flushed'
    BY <1>2, <1>8, <1>9, <2>1, <2>3, <2>4 DEF Flushed
  <2> QED
    BY <1>2, <1>8, <1>10, <1>13, <2>5 DEF DescriptorInv
<1>14. CASE Descriptors!Total > 0 /\ phase = "end"
  <2>1. piece = Len(pieces) /\ b = 0 /\ r = 0 /\ w = 0
    BY <1>14 DEF DescriptorInv, Ended, b, r, w
  <2>2. closed'
    BY <1>6, <2>1
  <2>3. Ended'
    BY <1>2, <1>7, <1>9, <2>1, <2>2 DEF Ended
  <2> QED
    BY <1>2, <1>8, <1>10, <1>14, <2>3 DEF DescriptorInv
<1> QED
  BY <1>1, <1>8, <1>11, <1>12, <1>13, <1>14 DEF Shape

LEMMA DescriptorNext == DescriptorInv /\ [Descriptors!Next]_(Descriptors!vars) => DescriptorInv'
<1>1. DescriptorInv /\ UNCHANGED Descriptors!vars => DescriptorInv'
  BY DEF Descriptors!vars, DescriptorInv, Shape, Content, Pushing, Flushed, Ended, Empty, PiecesOK,
         InPacket, Taken, All, Descriptors!Total, Descriptors!Start
<1> QED
  BY <1>1, NextPieceStep, PushStep, FlushStep, ZlpStep, HostReadsStep DEF Descriptors!Next

-----------------------------------------------------------------------------
(* Numbers of strings and interfaces.                                      *)

(* Lists with one sentinel, and lists of distinct elements. *)
Distinct(s) == \A j, k \in 1..Len(s) : s[j] = s[k] => j = k

LEMMA PlaceOf ==
  ASSUME NEW S, NEW s \in Seq(S), Distinct(s), NEW k \in 1..Len(s)
  PROVE  Numbers!Place(s, s[k]) = k /\ Numbers!Has(s, s[k])
<1>1. DOMAIN s = 1..Len(s)
  OBVIOUS
<1>2. \A j \in DOMAIN s : s[j] = s[k] => j = k
  BY <1>1 DEF Distinct
<1>3. Numbers!Has(s, s[k])
  BY <1>1 DEF Numbers!Has, Numbers!ToSet
<1>4. Numbers!Place(s, s[k]) = k
  BY <1>1, <1>2 DEF Numbers!Place
<1> QED
  BY <1>3, <1>4

LEMMA Placed ==
  ASSUME NEW S, NEW s \in Seq(S), NEW e
  PROVE  Numbers!Has(s, e) => Numbers!Place(s, e) \in 1..Len(s) /\ s[Numbers!Place(s, e)] = e
BY DEF Numbers!Has, Numbers!ToSet, Numbers!Place

LEMMA SentinelFree ==
  ASSUME NEW S, Sentinel \notin S, NEW s \in Seq(S)
  PROVE  ~Numbers!Has(s, Sentinel) /\ Numbers!Without(s) = s
<1>1. \A k \in DOMAIN s : s[k] # Sentinel
  BY ElementOfSeq
<1>2. ~Numbers!Has(s, Sentinel)
  BY <1>1 DEF Numbers!Has, Numbers!ToSet
<1> QED
  BY <1>2 DEF Numbers!Without

LEMMA SentinelAt ==
  ASSUME NEW S, NEW s \in Seq(S), NEW k \in 1..Len(s)
  PROVE  /\ Numbers!At(s, k) \in Seq(S \cup {Sentinel}) /\ Len(Numbers!At(s, k)) = Len(s) + 1
         /\ \A j \in 1..k : Numbers!At(s, k)[j] = s[j]
         /\ Numbers!At(s, k)[k + 1] = Sentinel
         /\ \A j \in k + 2..Len(s) + 1 : Numbers!At(s, k)[j] = s[j - 1]
<1> DEFINE X == S \cup {Sentinel}
           before == SubSeq(s, 1, k)  after == SubSeq(s, k + 1, Len(s))  mark == <<Sentinel>>
<1>0. Len(s) \in Nat /\ k \in Nat
  OBVIOUS
<1>1. Numbers!At(s, k) = (before \o mark) \o after
  <2>1. (k + 1) - 1 = k
    OBVIOUS
  <2> QED
    BY <2>1 DEF Numbers!At, Numbers!InsertAt
<1>2. /\ before \in Seq(X) /\ Len(before) = k
      /\ \A j \in 1..k : before[j] = s[j]
  <2>1. \A j \in 1..k : s[j] \in X
    BY ElementOfSeq
  <2> HIDE DEF X
  <2> QED
    BY <2>1, SubSeqProperties
<1>3. /\ after \in Seq(X) /\ Len(after) = Len(s) - k
      /\ \A j \in 1..Len(s) - k : after[j] = s[j + k]
  <2>1. \A j \in k + 1..Len(s) : s[j] \in X
    BY ElementOfSeq
  <2>2. k + 1 \in Int /\ Len(s) \in Int
    OBVIOUS
  <2>3. /\ after \in Seq(X) /\ Len(after) = IF k + 1 <= Len(s) THEN Len(s) - (k + 1) + 1 ELSE 0
        /\ \A j \in 1..Len(s) - (k + 1) + 1 : after[j] = s[(k + 1) + j - 1]
    <3> HIDE DEF X
    <3> QED
      BY <2>1, <2>2, SubSeqProperties
  <2>4. Len(s) - (k + 1) + 1 = Len(s) - k
    BY <1>0
  <2>5. Len(after) = Len(s) - k
    <3>1. Len(after) = IF k + 1 <= Len(s) THEN Len(s) - (k + 1) + 1 ELSE 0
      BY <2>3
    <3> DEFINE l == Len(after)  n == Len(s)
    <3>2. n \in Nat /\ k \in Nat /\ k \in 1..n /\ (l = IF k + 1 <= n THEN n - (k + 1) + 1 ELSE 0)
      BY <1>0, <3>1
    <3> HIDE DEF l, n
    <3>3. l = n - k
      BY <3>2, SMTT(40)
    <3> QED
      BY <3>3 DEF l, n
  <2>6. ASSUME NEW j \in 1..Len(s) - k PROVE after[j] = s[j + k]
    <3>1. (k + 1) + j - 1 = j + k
      BY <1>0
    <3> HIDE DEF X, after
    <3> QED
      BY <2>3, <2>4, <3>1
  <2> QED
    BY <2>3, <2>5, <2>6
<1>4. mark \in Seq(X) /\ Len(mark) = 1 /\ mark[1] = Sentinel
  OBVIOUS
<1> HIDE DEF X, before, after, mark
<1> DEFINE half == before \o mark
<1>5. /\ half \in Seq(X) /\ Len(half) = k + 1
      /\ \A j \in 1..k + 1 : half[j] = IF j <= k THEN before[j] ELSE mark[j - k]
  <2>1. /\ half \in Seq(X) /\ Len(half) = Len(before) + Len(mark)
        /\ \A j \in 1..Len(before) + Len(mark) :
             half[j] = IF j <= Len(before) THEN before[j] ELSE mark[j - Len(before)]
    BY <1>2, <1>4, ConcatProperties
  <2> HIDE DEF half
  <2> QED
    BY <1>2, <1>4, <2>1
<1>6. half[k + 1] = Sentinel /\ \A j \in 1..k : half[j] = s[j]
  <2>1. k + 1 \in 1..k + 1 /\ ~(k + 1 <= k) /\ (k + 1) - k = 1
    BY <1>0
  <2>2. \A j \in 1..k : j \in 1..k + 1 /\ j <= k
    BY <1>0
  <2> QED
    BY <1>2, <1>4, <1>5, <2>1, <2>2
<1> HIDE DEF half
<1> DEFINE all == half \o after
<1>7. /\ all \in Seq(X) /\ Len(all) = (k + 1) + (Len(s) - k)
      /\ \A j \in 1..(k + 1) + (Len(s) - k) :
           all[j] = IF j <= k + 1 THEN half[j] ELSE after[j - (k + 1)]
  <2>1. /\ all \in Seq(X) /\ Len(all) = Len(half) + Len(after)
        /\ \A j \in 1..Len(half) + Len(after) :
             all[j] = IF j <= Len(half) THEN half[j] ELSE after[j - Len(half)]
    BY <1>3, <1>5, ConcatProperties
  <2> HIDE DEF all
  <2> QED
    BY <1>3, <1>5, <2>1
<1> HIDE DEF all
<1>8. Len(all) = Len(s) + 1 /\ all[k + 1] = Sentinel /\ \A j \in 1..k : all[j] = s[j]
  <2>1. (k + 1) + (Len(s) - k) = Len(s) + 1
    BY <1>0
  <2>2. k + 1 \in 1..(k + 1) + (Len(s) - k)
    BY <1>0
  <2>3. \A j \in 1..k : j \in 1..(k + 1) + (Len(s) - k) /\ j <= k + 1
    BY <1>0
  <2>4. Len(all) = Len(s) + 1
    BY <1>7, <2>1
  <2>5. all[k + 1] = Sentinel
    BY <1>0, <1>6, <1>7, <2>2
  <2>6. \A j \in 1..k : all[j] = s[j]
    <3> SUFFICES ASSUME NEW j \in 1..k PROVE all[j] = s[j]
      OBVIOUS
    <3>1. all[j] = half[j]
      BY <1>7, <2>3
    <3> QED
      BY <1>6, <3>1
  <2> QED
    BY <2>4, <2>5, <2>6
<1>9. ASSUME NEW j \in k + 2..Len(s) + 1 PROVE all[j] = s[j - 1]
  <2>1. /\ j \in 1..(k + 1) + (Len(s) - k) /\ ~(j <= k + 1)
        /\ j - (k + 1) \in 1..Len(s) - k /\ (j - (k + 1)) + k = j - 1
    BY <1>0
  <2>2. all[j] = after[j - (k + 1)]
    BY <1>7, <2>1
  <2>3. after[j - (k + 1)] = s[(j - (k + 1)) + k]
    BY <1>3, <2>1
  <2> QED
    BY <2>1, <2>2, <2>3
<1> QED
  BY <1>1, <1>7, <1>8, <1>9 DEF all, half, X

LEMMA SentinelOut ==
  ASSUME NEW S, Sentinel \notin S, NEW s \in Seq(S), NEW k \in 1..Len(s)
  PROVE  /\ Numbers!Has(Numbers!At(s, k), Sentinel) /\ Numbers!Here(Numbers!At(s, k)) = k
         /\ Numbers!Without(Numbers!At(s, k)) = s
<1> DEFINE X == S \cup {Sentinel}  a == Numbers!At(s, k)  n == Len(s)
<1>1. /\ a \in Seq(X) /\ Len(a) = n + 1
      /\ \A j \in 1..k : a[j] = s[j]
      /\ a[k + 1] = Sentinel
      /\ \A j \in k + 2..n + 1 : a[j] = s[j - 1]
  BY SentinelAt
<1>2. n \in Nat /\ k \in 1..n /\ \A j \in 1..n : s[j] \in S /\ s[j] # Sentinel
  BY ElementOfSeq
<1> HIDE DEF X, a, n
<1>3. DOMAIN a = 1..n + 1 /\ k + 1 \in 1..n + 1
  BY <1>1, <1>2
<1>4. \A j \in 1..n + 1 : a[j] = Sentinel => j = k + 1
  <2> SUFFICES ASSUME NEW j \in 1..n + 1, j # k + 1 PROVE a[j] # Sentinel
    OBVIOUS
  <2>1. CASE j \in 1..k
    BY <1>1, <1>2, <2>1, SMTT(40)
  <2>2. CASE j \notin 1..k
    <3>1. j \in k + 2..n + 1 /\ j - 1 \in 1..n
      BY <1>2, <2>2
    <3> QED
      BY <1>1, <1>2, <3>1
  <2> QED
    BY <2>1, <2>2
<1>5. Numbers!Has(a, Sentinel)
  BY <1>1, <1>3 DEF Numbers!Has, Numbers!ToSet
<1>6. Numbers!Place(a, Sentinel) = k + 1
  BY <1>1, <1>3, <1>4 DEF Numbers!Place
<1>7. Numbers!Here(a) = k
  BY <1>2, <1>6 DEF Numbers!Here
<1>8. Numbers!RemoveAt(a, k + 1) = s
  <2> DEFINE before == SubSeq(a, 1, k)  after == SubSeq(a, k + 2, n + 1)
  <2>1. Numbers!RemoveAt(a, k + 1) = before \o after
    <3>1. (k + 1) - 1 = k /\ (k + 1) + 1 = k + 2
      BY <1>2
    <3> QED
      BY <1>1, <3>1 DEF Numbers!RemoveAt
  <2>2. /\ before \in Seq(S) /\ Len(before) = k
        /\ \A j \in 1..k : before[j] = a[j]
    <3>1. \A j \in 1..k : a[j] \in S
      BY <1>1, <1>2
    <3> QED
      BY <1>2, <3>1, SubSeqProperties
  <2>3. /\ after \in Seq(S) /\ Len(after) = n - k
        /\ \A j \in 1..n - k : after[j] = a[k + 1 + j]
    <3>1. ASSUME NEW j \in k + 2..n + 1 PROVE a[j] \in S
      <4>1. j - 1 \in 1..n
        BY <1>2
      <4> QED
        BY <1>1, <1>2, <4>1
    <3>2. k + 2 \in Int /\ n + 1 \in Int
      BY <1>2
    <3>3. /\ after \in Seq(S)
          /\ Len(after) = IF k + 2 <= n + 1 THEN (n + 1) - (k + 2) + 1 ELSE 0
          /\ \A j \in 1..(n + 1) - (k + 2) + 1 : after[j] = a[(k + 2) + j - 1]
      BY <3>1, <3>2, SubSeqProperties
    <3>4. (n + 1) - (k + 2) + 1 = n - k /\ \A j \in Nat : (k + 2) + j - 1 = k + 1 + j
      BY <1>2
    <3> HIDE DEF after
    <3> QED
      BY <1>2, <3>3, <3>4
  <2> HIDE DEF before, after
  <2>4. Len(s) = Len(before) + Len(after)
    BY <1>2, <2>2, <2>3 DEF n
  <2>5. \A j \in 1..Len(before) : s[j] = before[j]
    BY <1>1, <2>2
  <2>6. ASSUME NEW j \in 1..Len(after) PROVE s[j + Len(before)] = after[j]
    <3>1. j \in 1..n - k /\ k + 1 + j \in k + 2..n + 1 /\ (k + 1 + j) - 1 = j + k
      BY <1>2, <2>3
    <3> QED
      BY <1>1, <2>2, <2>3, <3>1
  <2>7. before \o after = s
    BY <2>2, <2>3, <2>4, <2>5, <2>6, Joined
  <2> QED
    BY <2>1, <2>7
<1> QED
  BY <1>5, <1>6, <1>7, <1>8 DEF Numbers!Without, a


(* A list as the program made it, but for the sentinel of a walk.          *)
ListOK(list, s, walked) ==
  IF walked THEN \E k \in 1..Len(s) : list = Numbers!At(s, k) ELSE list = s

LEMMA ListIs ==
  ASSUME NEW S, Sentinel \notin S, NEW s \in Seq(S), NEW walked \in BOOLEAN, NEW list,
         ListOK(list, s, walked)
  PROVE  Numbers!Without(list) = s /\ (Numbers!Has(list, Sentinel) <=> walked)
<1>1. CASE walked
  <2>1. PICK k \in 1..Len(s) : list = Numbers!At(s, k)
    BY <1>1 DEF ListOK
  <2> QED
    BY <1>1, <2>1, SentinelOut
<1>2. CASE ~walked
  BY <1>2, SentinelFree DEF ListOK
<1> QED
  BY <1>1, <1>2

(* The numbers given so far mean the places in the two lists; so does the  *)
(* number of the string that is being sent.                                *)
CalledOK(s) == \A pair \in called : pair[1] \in 1..Len(s) /\ s[pair[1]] = pair[2]
NumberedOK(f) ==
  \A pair \in numbered : pair[1] + 1 \in 1..Len(f) /\ f[pair[1] + 1] = pair[2]
SentOK(s) == sent # << >> => wanted \in 1..Len(s) /\ sent = <<s[wanted]>>
Walks == walk \in {"none", "strings", "ifaces"} /\ (walk # "none" => serving)
NumbersOf(s, f) ==
  /\ Distinct(s) /\ Distinct(f) /\ Walks
  /\ ListOK(strings, s, walk = "strings") /\ ListOK(ifaces, f, walk = "ifaces")
  /\ CalledOK(s) /\ NumberedOK(f) /\ SentOK(s)
NumbersInv == \E s \in Seq(AllStrings), f \in Seq(AllInterfaces) : NumbersOf(s, f)

LEMMA NumbersAreStanding == NumbersInv => Numbers!NumbersStand
<1> SUFFICES ASSUME NumbersInv PROVE Numbers!NumbersStand
  OBVIOUS
<1>1. PICK s \in Seq(AllStrings), f \in Seq(AllInterfaces) : NumbersOf(s, f)
  BY DEF NumbersInv
<1>2. Numbers!Without(strings) = s /\ (Numbers!Has(strings, Sentinel) <=> walk = "strings")
  <2>1. Sentinel \notin AllStrings /\ (walk = "strings") \in BOOLEAN
    BY SentinelAssumption
  <2> QED
    BY <1>1, <2>1, ListIs DEF NumbersOf
<1>3. Numbers!Without(ifaces) = f /\ (Numbers!Has(ifaces, Sentinel) <=> walk = "ifaces")
  <2>1. Sentinel \notin AllInterfaces /\ (walk = "ifaces") \in BOOLEAN
    BY SentinelAssumption
  <2> QED
    BY <1>1, <2>1, ListIs DEF NumbersOf
<1>4. \A pair \in called : Numbers!Without(strings)[pair[1]] = pair[2]
  BY <1>1, <1>2 DEF NumbersOf, CalledOK
<1>5. \A pair \in numbered : Numbers!Without(ifaces)[pair[1] + 1] = pair[2]
  BY <1>1, <1>3 DEF NumbersOf, NumberedOK
<1>6. sent # << >> => sent = <<Numbers!Without(strings)[wanted]>>
  BY <1>1, <1>2 DEF NumbersOf, SentOK
<1> QED
  BY <1>2, <1>3, <1>4, <1>5, <1>6 DEF Numbers!NumbersStand

LEMMA NumbersInit == Numbers!Init => NumbersInv
<1> SUFFICES ASSUME Numbers!Init PROVE NumbersInv
  OBVIOUS
<1>1. /\ strings = << >> /\ ifaces = << >> /\ walk = "none" /\ sent = << >>
      /\ called = {} /\ numbered = {}
  BY DEF Numbers!Init
<1>2. << >> \in Seq(AllStrings) /\ << >> \in Seq(AllInterfaces) /\ Distinct(<< >>)
  BY DEF Distinct
<1>3. NumbersOf(<< >>, << >>)
  BY <1>1, <1>2 DEF NumbersOf, Walks, ListOK, CalledOK, NumberedOK, SentOK
<1> QED
  BY <1>2, <1>3 DEF NumbersInv

(* A list that grows keeps the places of its elements.                     *)
LEMMA Grown ==
  ASSUME NEW S, NEW s \in Seq(S), Distinct(s), NEW e \in S, ~Numbers!Has(s, e)
  PROVE  /\ Append(s, e) \in Seq(S) /\ Distinct(Append(s, e))
         /\ \A k \in 1..Len(s) : k \in 1..Len(Append(s, e)) /\ Append(s, e)[k] = s[k]
<1> DEFINE t == Append(s, e)
<1>1. /\ t \in Seq(S) /\ Len(t) = Len(s) + 1 /\ Len(s) \in Nat
      /\ \A k \in 1..Len(s) : t[k] = s[k]
      /\ t[Len(s) + 1] = e
  BY AppendProperties
<1>2. \A k \in 1..Len(s) : s[k] # e
  BY DEF Numbers!Has, Numbers!ToSet
<1> HIDE DEF t
<1>3. ASSUME NEW j \in 1..Len(t), NEW k \in 1..Len(t), t[j] = t[k] PROVE j = k
  <2>1. j \in 1..Len(s) \/ j = Len(s) + 1
    BY <1>1
  <2>2. k \in 1..Len(s) \/ k = Len(s) + 1
    BY <1>1
  <2>3. CASE j \in 1..Len(s) /\ k \in 1..Len(s)
    BY <1>1, <1>3, <2>3 DEF Distinct
  <2>4. CASE j \in 1..Len(s) /\ k = Len(s) + 1
    BY <1>1, <1>2, <1>3, <2>4
  <2>5. CASE j = Len(s) + 1 /\ k \in 1..Len(s)
    BY <1>1, <1>2, <1>3, <2>5
  <2> QED
    BY <2>1, <2>2, <2>3, <2>4, <2>5
<1>4. \A k \in 1..Len(s) : k \in 1..Len(t)
  BY <1>1
<1> QED
  BY <1>1, <1>3, <1>4 DEF Distinct, t

LEMMA NumbersNext == NumbersInv /\ [Numbers!Next]_(Numbers!vars) => NumbersInv'
<1> SUFFICES ASSUME NumbersInv, [Numbers!Next]_(Numbers!vars) PROVE NumbersInv'
  OBVIOUS
<1>1. PICK s \in Seq(AllStrings), f \in Seq(AllInterfaces) : NumbersOf(s, f)
  BY DEF NumbersInv
<1>2. /\ Distinct(s) /\ Distinct(f)
      /\ ListOK(strings, s, walk = "strings") /\ ListOK(ifaces, f, walk = "ifaces")
      /\ CalledOK(s) /\ NumberedOK(f) /\ SentOK(s)
  BY <1>1 DEF NumbersOf
<1>3. Numbers!Without(strings) = s /\ Numbers!Without(ifaces) = f
  <2>1. Sentinel \notin AllStrings /\ (walk = "strings") \in BOOLEAN
        /\ Sentinel \notin AllInterfaces /\ (walk = "ifaces") \in BOOLEAN
    BY SentinelAssumption
  <2> QED
    BY <1>2, <2>1, ListIs
<1>4. Walks
  BY <1>1 DEF NumbersOf
<1>5. ~serving => walk = "none" /\ strings = s /\ ifaces = f
  BY <1>2, <1>4 DEF Walks, ListOK
<1>6. Numbers!Terminated(strings) = s /\ Numbers!Terminated(ifaces) = f
  BY <1>3 DEF Numbers!Terminated
<1>7. ASSUME NumbersOf(s, f)' PROVE NumbersInv'
  BY <1>7 DEF NumbersInv
<1>8. CASE UNCHANGED Numbers!vars
  <2>1. NumbersOf(s, f)'
    BY <1>1, <1>8 DEF Numbers!vars, NumbersOf, Walks, ListOK, CalledOK, NumberedOK, SentOK
  <2> QED
    BY <1>7, <2>1
<1>9. CASE Numbers!MakeString
  <2>1. PICK e \in AllStrings : ~Numbers!Has(strings, e) /\ strings' = Append(strings, e)
    BY <1>9 DEF Numbers!MakeString
  <2>2. /\ ~serving /\ strings = s /\ walk = "none" /\ ~Numbers!Has(s, e)
        /\ UNCHANGED <<ifaces, serving, walk, sent, wanted, called, numbered>>
    BY <1>5, <1>9, <2>1 DEF Numbers!MakeString
  <2> DEFINE t == Append(s, e)
  <2>3. /\ t \in Seq(AllStrings) /\ Distinct(t) /\ strings' = t
        /\ \A k \in 1..Len(s) : k \in 1..Len(t) /\ t[k] = s[k]
    BY <1>2, <2>1, <2>2, Grown
  <2> HIDE DEF t
  <2>4. NumbersOf(t, f)'
    <3>1. ListOK(strings, t, walk = "strings")' /\ ListOK(ifaces, f, walk = "ifaces")'
      BY <1>5, <2>2, <2>3 DEF ListOK
    <3>2. CalledOK(t)'
      BY <1>2, <2>2, <2>3 DEF CalledOK
    <3>3. NumberedOK(f)' /\ Walks'
      BY <1>2, <1>4, <2>2 DEF NumberedOK, Walks
    <3>4. SentOK(t)'
      BY <1>2, <2>2, <2>3 DEF SentOK
    <3> QED
      BY <1>2, <2>3, <3>1, <3>2, <3>3, <3>4 DEF NumbersOf, Distinct
  <2> QED
    BY <2>3, <2>4 DEF NumbersInv
<1>10. CASE Numbers!MakeInterface
  <2>1. PICK i \in AllInterfaces, e \in AllStrings :
          /\ ~Numbers!Has(ifaces, i) /\ Numbers!Has(strings, e)
          /\ ifaces' = Append(ifaces, i) /\ Numbers!Call(e)
    BY <1>10 DEF Numbers!MakeInterface
  <2>2. /\ strings = s /\ ifaces = f /\ walk = "none"
        /\ UNCHANGED <<strings, serving, walk, sent, wanted, numbered>>
    BY <1>5, <1>10 DEF Numbers!MakeInterface
  <2> DEFINE t == Append(f, i)
  <2>3. /\ t \in Seq(AllInterfaces) /\ Distinct(t) /\ ifaces' = t
        /\ \A k \in 1..Len(f) : k \in 1..Len(t) /\ t[k] = f[k]
    BY <1>2, <2>1, <2>2, Grown
  <2> HIDE DEF t
  <2>4. Numbers!Place(s, e) \in 1..Len(s) /\ s[Numbers!Place(s, e)] = e
    BY <2>1, <2>2, Placed
  <2>5. called' = called \cup {<<Numbers!Place(s, e), e>>}
    BY <2>1, <2>2 DEF Numbers!Call, Numbers!Index
  <2>6. NumbersOf(s, t)'
    <3>1. ListOK(strings, s, walk = "strings")' /\ ListOK(ifaces, t, walk = "ifaces")'
      BY <2>2, <2>3 DEF ListOK
    <3>2. CalledOK(s)'
      BY <1>2, <2>4, <2>5 DEF CalledOK
    <3>3. NumberedOK(t)'
      BY <1>2, <2>2, <2>3 DEF NumberedOK
    <3>4. SentOK(s)' /\ Walks'
      BY <1>2, <1>4, <2>2 DEF SentOK, Walks
    <3> QED
      BY <1>2, <2>3, <3>1, <3>2, <3>3, <3>4 DEF NumbersOf, Distinct
  <2> QED
    BY <2>3, <2>6 DEF NumbersInv
<1>11. CASE Numbers!MakeAssociation
  <2>1. PICK i \in AllInterfaces : Numbers!Has(ifaces, i) /\ Numbers!Count(i)
    BY <1>11 DEF Numbers!MakeAssociation
  <2>2. /\ ifaces = f /\ UNCHANGED <<strings, ifaces, serving, walk, sent, wanted, called>>
    BY <1>5, <1>11 DEF Numbers!MakeAssociation
  <2>3. Numbers!Place(f, i) \in 1..Len(f) /\ f[Numbers!Place(f, i)] = i
    BY <2>1, <2>2, Placed
  <2>4. numbered' = numbered \cup {<<Numbers!Place(f, i) - 1, i>>}
    BY <2>1, <2>2 DEF Numbers!Count, Numbers!Number
  <2>5. NumberedOK(f)'
    <3>1. (Numbers!Place(f, i) - 1) + 1 = Numbers!Place(f, i)
      BY <2>3
    <3> QED
      BY <1>2, <2>3, <2>4, <3>1 DEF NumberedOK
  <2>6. NumbersOf(s, f)'
    BY <1>2, <1>4, <2>2, <2>5 DEF NumbersOf, Distinct, ListOK, CalledOK, SentOK, Walks
  <2> QED
    BY <1>7, <2>6
<1>12. CASE Numbers!Start
  <2>1. serving' = TRUE /\ UNCHANGED <<strings, ifaces, walk, sent, wanted, called, numbered>>
    BY <1>12 DEF Numbers!Start
  <2>2. NumbersOf(s, f)'
    BY <1>2, <1>4, <2>1
       DEF NumbersOf, Distinct, ListOK, CalledOK, NumberedOK, SentOK, Walks
  <2> QED
    BY <1>7, <2>2
<1>13. CASE Numbers!HostAsksDevice
  <2>1. /\ strings' = s /\ ifaces' = f /\ walk' = "none" /\ sent' = << >>
        /\ UNCHANGED <<serving, wanted, numbered>> /\ Numbers!Names(s)
    BY <1>6, <1>13 DEF Numbers!HostAsksDevice
  <2>2. CalledOK(s)'
    <3>1. PICK e \in AllStrings : Numbers!Has(s, e) /\ called' = called \cup {<<Numbers!Place(s, e), e>>}
      BY <2>1 DEF Numbers!Names
    <3>2. Numbers!Place(s, e) \in 1..Len(s) /\ s[Numbers!Place(s, e)] = e
      BY <3>1, Placed
    <3> QED
      BY <1>2, <3>1, <3>2 DEF CalledOK
  <2>3. NumbersOf(s, f)'
    BY <1>2, <2>1, <2>2 DEF NumbersOf, Distinct, ListOK, NumberedOK, SentOK, Walks
  <2> QED
    BY <1>7, <2>3
<1>14. CASE Numbers!HostAsksConfig
  <2>1. /\ serving /\ f # << >> /\ strings' = s /\ ifaces' = Numbers!At(f, 1)
        /\ walk' = "ifaces" /\ sent' = << >>
        /\ UNCHANGED <<serving, wanted, numbered>> /\ Numbers!Names(s)
    BY <1>3, <1>6, <1>14 DEF Numbers!HostAsksConfig
  <2>2. CalledOK(s)'
    <3>1. PICK e \in AllStrings : Numbers!Has(s, e) /\ called' = called \cup {<<Numbers!Place(s, e), e>>}
      BY <2>1 DEF Numbers!Names
    <3>2. Numbers!Place(s, e) \in 1..Len(s) /\ s[Numbers!Place(s, e)] = e
      BY <3>1, Placed
    <3> QED
      BY <1>2, <3>1, <3>2 DEF CalledOK
  <2>3. 1 \in 1..Len(f)
    BY <2>1, EmptySeq
  <2>4. ListOK(strings, s, walk = "strings")' /\ ListOK(ifaces, f, walk = "ifaces")'
    BY <2>1, <2>3 DEF ListOK
  <2>5. NumbersOf(s, f)'
    BY <1>2, <2>1, <2>2, <2>4 DEF NumbersOf, Distinct, NumberedOK, SentOK, Walks
  <2> QED
    BY <1>7, <2>5
<1>15. CASE Numbers!NextInterface
  <2>1. /\ walk = "ifaces" /\ Numbers!Count(ifaces[Numbers!Here(ifaces)])
        /\ UNCHANGED <<strings, serving, sent, wanted, called>>
    BY <1>15 DEF Numbers!NextInterface
  <2>2. PICK k \in 1..Len(f) : ifaces = Numbers!At(f, k)
    BY <1>2, <2>1 DEF ListOK
  <2>3. /\ ifaces \in Seq(AllInterfaces \cup {Sentinel}) /\ Len(ifaces) = Len(f) + 1
        /\ \A j \in 1..k : ifaces[j] = f[j]
        /\ ifaces[k + 1] = Sentinel
        /\ \A j \in k + 2..Len(f) + 1 : ifaces[j] = f[j - 1]
    BY <2>2, SentinelAt
  <2>4. Numbers!Here(ifaces) = k /\ Len(f) \in Nat /\ k \in Nat
    BY <2>2, SentinelOut, SentinelAssumption
  <2>5. Numbers!Place(ifaces, f[k]) = k
    <3>1. DOMAIN ifaces = 1..Len(f) + 1 /\ k \in 1..Len(f) + 1 /\ k \in 1..k
      BY <2>3, <2>4
    <3>2. ifaces[k] = f[k] /\ f[k] \in AllInterfaces
      BY <2>3, <3>1, ElementOfSeq
    <3>3. ASSUME NEW j \in 1..Len(f) + 1, ifaces[j] = f[k] PROVE j = k
      <4>1. j \in 1..k \/ j = k + 1 \/ j \in k + 2..Len(f) + 1
        BY <2>4
      <4>2. CASE j \in 1..k
        <5>1. j \in 1..Len(f)
          BY <2>4, <4>2
        <5> QED
          BY <1>2, <2>3, <3>3, <4>2, <5>1 DEF Distinct
      <4>3. CASE j = k + 1
        BY <2>3, <3>2, <3>3, <4>3, SentinelAssumption
      <4>4. CASE j \in k + 2..Len(f) + 1
        <5>1. j - 1 \in 1..Len(f) /\ j - 1 # k
          BY <2>4, <4>4
        <5>2. f[j - 1] = f[k]
          BY <2>3, <3>3, <4>4
        <5> QED
          BY <1>2, <5>1, <5>2 DEF Distinct
      <4> QED
        BY <4>1, <4>2, <4>3, <4>4
    <3> QED
      BY <3>1, <3>2, <3>3 DEF Numbers!Place
  <2>6. numbered' = numbered \cup {<<k - 1, f[k]>>}
    <3>1. ifaces[k] = f[k]
      <4>1. k \in 1..k
        BY <2>4
      <4> QED
        BY <2>3, <4>1
    <3> QED
      BY <2>1, <2>4, <2>5, <3>1 DEF Numbers!Count, Numbers!Number
  <2>7. NumberedOK(f)'
    <3>1. (k - 1) + 1 = k
      BY <2>4
    <3> QED
      BY <1>2, <2>6, <3>1 DEF NumberedOK
  <2>8. CASE k + 1 = Len(ifaces)
    <3>1. ifaces' = f /\ walk' = "none"
      BY <1>3, <1>15, <2>4, <2>8 DEF Numbers!NextInterface
    <3>2. NumbersOf(s, f)'
      BY <1>2, <1>4, <2>1, <2>7, <3>1
         DEF NumbersOf, Distinct, ListOK, CalledOK, SentOK, Walks
    <3> QED
      BY <1>7, <3>2
  <2>9. CASE k + 1 # Len(ifaces)
    <3>1. ifaces' = Numbers!At(f, k + 1) /\ walk' = walk
      BY <1>3, <1>15, <2>4, <2>9 DEF Numbers!NextInterface, Numbers!Ahead
    <3>2. k + 1 \in 1..Len(f)
      BY <2>3, <2>4, <2>9
    <3>3. ListOK(ifaces, f, walk = "ifaces")'
      BY <2>1, <3>1, <3>2 DEF ListOK
    <3>4. NumbersOf(s, f)'
      BY <1>2, <1>4, <2>1, <2>7, <3>1, <3>3
         DEF NumbersOf, Distinct, ListOK, CalledOK, SentOK, Walks
    <3> QED
      BY <1>7, <3>4
  <2> QED
    BY <2>8, <2>9
<1>16. CASE Numbers!HostAsksString
  <2>1. PICK n \in 1..Len(s) :
          strings' = Numbers!At(s, n) /\ wanted' = n /\ sent' = <<strings'[n]>>
    BY <1>3, <1>6, <1>16 DEF Numbers!HostAsksString
  <2>2. serving /\ ifaces' = f /\ walk' = "strings" /\ UNCHANGED <<serving, called, numbered>>
    BY <1>6, <1>16 DEF Numbers!HostAsksString
  <2>3. sent' = <<s[n]>>
    <3>1. n \in 1..n
      OBVIOUS
    <3>2. Numbers!At(s, n)[n] = s[n]
      BY <3>1, SentinelAt
    <3> QED
      BY <2>1, <3>2
  <2>4. ListOK(strings, s, walk = "strings")' /\ ListOK(ifaces, f, walk = "ifaces")'
    BY <2>1, <2>2 DEF ListOK
  <2>5. SentOK(s)'
    BY <2>1, <2>3 DEF SentOK
  <2>6. NumbersOf(s, f)'
    BY <1>2, <2>2, <2>4, <2>5 DEF NumbersOf, Distinct, CalledOK, NumberedOK, Walks
  <2> QED
    BY <1>7, <2>6
<1>17. CASE Numbers!StringSent
  <2>1. /\ walk = "strings" /\ strings' = s /\ walk' = "none" /\ sent' = << >>
        /\ UNCHANGED <<ifaces, serving, wanted, called, numbered>>
    BY <1>3, <1>17 DEF Numbers!StringSent
  <2>2. NumbersOf(s, f)'
    BY <1>2, <2>1 DEF NumbersOf, Distinct, ListOK, CalledOK, NumberedOK, SentOK, Walks
  <2> QED
    BY <1>7, <2>2
<1> QED
  BY <1>8, <1>9, <1>10, <1>11, <1>12, <1>13, <1>14, <1>15, <1>16, <1>17 DEF Numbers!Next

-----------------------------------------------------------------------------
(* Memory of endpoints.                                                    *)

(* Sizes of buffers. *)
Distances == {64, 128, 256, 512, 1024}

LEMMA Ceiled ==
  ASSUME NEW n \in 1..1024
  PROVE  /\ Endpoints!Ceil64(n) \in 64..1024 /\ Endpoints!Ceil64(n) >= n
         /\ n <= 64 => Endpoints!Ceil64(n) = 64
BY DEF Endpoints!Ceil64

LEMMA Rounded ==
  ASSUME NEW n \in 64..1024
  PROVE  Endpoints!Round2Pow(n) \in Distances /\ Endpoints!Round2Pow(n) >= n
<1>1. \E p \in Endpoints!Powers : p >= n /\ (p = 1 \/ p \div 2 < n)
  <2>1. \/ n = 64 \/ (n > 64 /\ n <= 128) \/ (n > 128 /\ n <= 256)
        \/ (n > 256 /\ n <= 512) \/ (n > 512 /\ n <= 1024)
    OBVIOUS
  <2>2. /\ 64 \div 2 = 32 /\ 128 \div 2 = 64 /\ 256 \div 2 = 128 /\ 512 \div 2 = 256
        /\ 1024 \div 2 = 512
    OBVIOUS
  <2> QED
    BY <2>1, <2>2 DEF Endpoints!Powers
<1>2. /\ Endpoints!Round2Pow(n) \in Endpoints!Powers /\ Endpoints!Round2Pow(n) >= n
      /\ Endpoints!Round2Pow(n) = 1 \/ Endpoints!Round2Pow(n) \div 2 < n
  BY <1>1 DEF Endpoints!Round2Pow
<1> DEFINE p == Endpoints!Round2Pow(n)
<1>3. p \in Endpoints!Powers /\ p >= 64 /\ p \div 2 < 1024
  <2>1. p # 1
    BY <1>2
  <2>2. p \in Nat
    BY <1>2 DEF Endpoints!Powers
  <2> HIDE DEF p
  <2> QED
    BY <1>2, <2>1, <2>2 DEF p
<1> HIDE DEF p
<1>4. p # 2048 /\ p # 4096
  <2>1. 2048 \div 2 = 1024 /\ 4096 \div 2 = 2048
    OBVIOUS
  <2> QED
    BY <1>3, <2>1
<1>5. p \in Distances
  BY <1>3, <1>4 DEF Endpoints!Powers, Distances
<1> QED
  BY <1>2, <1>5 DEF p

LEMMA BufferIs ==
  ASSUME NEW e, EndpointOK(e)
  PROVE  /\ Endpoints!OneBuffer(e) \in 64..1024 /\ Endpoints!OneBuffer(e) >= e.max
         /\ e.double => Endpoints!OneBuffer(e) \in Distances
         /\ Endpoints!AllBuffers(e) = IF e.double THEN Endpoints!OneBuffer(e) + Endpoints!OneBuffer(e) ELSE Endpoints!OneBuffer(e)
<1> DEFINE n == e.max
<1>1. n \in 1..1023 /\ n \in 1..1024 /\ e.iso \in BOOLEAN /\ e.double \in BOOLEAN
      /\ (e.double => e.iso \/ n <= 64)
  BY DEF EndpointOK
<1>2. /\ Endpoints!Ceil64(n) \in 64..1024 /\ Endpoints!Ceil64(n) >= n
      /\ n <= 64 => Endpoints!Ceil64(n) = 64
  <2>1. n \in 1..1024
    BY <1>1
  <2> HIDE DEF n
  <2> QED
    BY <2>1, Ceiled, ZenonT(60)
<1> DEFINE c == Endpoints!Ceil64(n)
<1>3. Endpoints!Round2Pow(c) \in Distances /\ Endpoints!Round2Pow(c) >= c
  <2>1. c \in 64..1024
    BY <1>2
  <2> HIDE DEF c
  <2> QED
    BY <2>1, Rounded
<1> DEFINE p == Endpoints!Round2Pow(c)
<1>4. Endpoints!OneBuffer(e) = IF e.iso THEN Endpoints!Larger(128, p) ELSE c
  BY DEF Endpoints!OneBuffer
<1>5. p \in Distances /\ p >= c /\ c \in 64..1024 /\ c >= n /\ (n <= 64 => c = 64)
  BY <1>2, <1>3
<1> HIDE DEF p, c, n
<1>6. Endpoints!Larger(128, p) \in Distances /\ Endpoints!Larger(128, p) >= p
  BY <1>5 DEF Endpoints!Larger, Distances
<1>7. Endpoints!OneBuffer(e) \in 64..1024 /\ Endpoints!OneBuffer(e) >= n
  <2>1. CASE e.iso
    BY <1>1, <1>4, <1>5, <1>6, <2>1 DEF Distances
  <2>2. CASE ~e.iso
    BY <1>1, <1>4, <1>5, <2>2
  <2> QED
    BY <2>1, <2>2
<1>8. e.double => Endpoints!OneBuffer(e) \in Distances
  <2>1. CASE e.iso
    BY <1>4, <1>6, <2>1
  <2>2. CASE ~e.iso /\ n <= 64
    BY <1>4, <1>5, <2>2 DEF Distances
  <2> QED
    BY <1>1, <2>1, <2>2
<1>9. Endpoints!AllBuffers(e) = IF e.double THEN Endpoints!OneBuffer(e) + Endpoints!OneBuffer(e) ELSE Endpoints!OneBuffer(e)
  BY <1>1, <1>7 DEF Endpoints!AllBuffers
<1> QED
  BY <1>7, <1>8, <1>9 DEF n

(* An endpoint's memory is enough for each of its settings.                *)
LEMMA SizeIs ==
  ASSUME NEW c \in DOMAIN Configs, NEW a
  PROVE  /\ Endpoints!SizeOf(c, a) \in Nat
         /\ \A e \in Endpoints!Endpoints(c) : e.addr = a => Endpoints!AllBuffers(e) <= Endpoints!SizeOf(c, a)
<1> DEFINE sizes == {0} \cup {Endpoints!AllBuffers(e) : e \in {f \in Endpoints!Endpoints(c) : f.addr = a}}
           Bounds == {m \in Nat : \A n \in sizes : n <= m}
<1>1. sizes \subseteq 0..2048
  <2>1. ASSUME NEW e \in Endpoints!Endpoints(c) PROVE Endpoints!AllBuffers(e) \in 0..2048
    <3>1. EndpointOK(e)
      BY ConfigsAssumption
    <3>2. Endpoints!OneBuffer(e) \in 64..1024
      BY <3>1, BufferIs
    <3>3. Endpoints!AllBuffers(e) = IF e.double THEN Endpoints!OneBuffer(e) + Endpoints!OneBuffer(e) ELSE Endpoints!OneBuffer(e)
      BY <3>1, BufferIs
    <3> QED
      BY <3>2, <3>3
  <2> QED
    BY <2>1
<1>2. PICK m \in Bounds : \A n \in Bounds : ~(n < m)
  <2>1. 2048 \in Bounds
    <3> HIDE DEF sizes
    <3>1. \A n \in sizes : n \in 0..2048
      BY <1>1
    <3>2. \A n \in sizes : n <= 2048
      BY <3>1, SMTT(30)
    <3> QED
      BY <3>2
  <2>2. Bounds \subseteq Nat
    OBVIOUS
  <2>3. Bounds # {}
    <3> HIDE DEF Bounds
    <3> QED
      BY <2>1
  <2> HIDE DEF Bounds
  <2> QED
    BY <2>2, <2>3, LeastOne
<1>3. 0 \in sizes
  OBVIOUS
<1>4. Endpoints!SizeOf(c, a) = CHOOSE x \in sizes : \A n \in sizes : n <= x
  BY DEF Endpoints!SizeOf
<1>5. \A e \in Endpoints!Endpoints(c) : e.addr = a => Endpoints!AllBuffers(e) \in sizes
  OBVIOUS
<1> HIDE DEF sizes
<1>6. m \in sizes
  <2> SUFFICES ASSUME m \notin sizes PROVE FALSE
    OBVIOUS
  <2>1. m \in Nat /\ m # 0 /\ \A n \in sizes : n <= m /\ n # m /\ n \in Nat
    BY <1>1, <1>3
  <2>2. m - 1 \in Nat /\ \A n \in sizes : n <= m - 1
    BY <2>1
  <2> QED
    BY <1>2, <2>1, <2>2
<1>7. Endpoints!SizeOf(c, a) \in sizes /\ \A n \in sizes : n <= Endpoints!SizeOf(c, a)
  BY <1>4, <1>6
<1> HIDE DEF Bounds
<1>8. Endpoints!SizeOf(c, a) \in Nat
  <2>1. Endpoints!SizeOf(c, a) \in sizes
    BY <1>7
  <2>2. \A n \in sizes : n \in Nat
    BY <1>1
  <2> QED
    BY <2>1, <2>2
<1>9. \A e \in Endpoints!Endpoints(c) : e.addr = a => Endpoints!AllBuffers(e) <= Endpoints!SizeOf(c, a)
  BY <1>5, <1>7
<1> QED
  BY <1>8, <1>9

(* Memory is laid out endpoint by endpoint.                                *)
LaidUpTo(c, k) ==
  {f \in [0..k -> Nat] :
     \A j \in 0..k : f[j] = IF j = 0 THEN 0 ELSE f[j - 1] + Endpoints!SizeOf(c, Endpoints!Ranked(j))}

LEMMA LaidExists ==
  ASSUME NEW c \in DOMAIN Configs, NEW k \in Nat
  PROVE  LaidUpTo(c, k) # {}
<1> DEFINE Never == {n \in Nat : LaidUpTo(c, n) = {}}
<1> SUFFICES ASSUME Never # {} PROVE FALSE
  OBVIOUS
<1>1. PICK m \in Never : \A n \in Never : ~(n < m)
  <2>1. Never \subseteq Nat
    OBVIOUS
  <2> HIDE DEF Never
  <2> QED
    BY <2>1, LeastOne
<1>2. m \in Nat /\ LaidUpTo(c, m) = {}
  OBVIOUS
<1>3. CASE m = 0
  <2>1. [j \in 0..0 |-> 0] \in LaidUpTo(c, 0)
    BY DEF LaidUpTo
  <2> QED
    BY <1>2, <1>3, <2>1
<1>4. CASE m # 0
  <2>1. m - 1 \in Nat /\ m - 1 < m
    BY <1>2, <1>4
  <2>2. PICK f : f \in LaidUpTo(c, m - 1)
    BY <1>1, <2>1
  <2> DEFINE last == Endpoints!SizeOf(c, Endpoints!Ranked(m))
             g == [j \in 0..m |-> IF j <= m - 1 THEN f[j] ELSE f[m - 1] + last]
  <2>3. last \in Nat
    BY SizeIs
  <2>4. /\ f \in [0..m - 1 -> Nat]
        /\ \A j \in 0..m - 1 : f[j] = IF j = 0 THEN 0 ELSE f[j - 1] + Endpoints!SizeOf(c, Endpoints!Ranked(j))
    BY <2>2 DEF LaidUpTo
  <2> HIDE DEF last
  <2>5. m - 1 \in 0..m - 1 /\ f[m - 1] + last \in Nat
    BY <2>1, <2>3, <2>4
  <2>6. g \in [0..m -> Nat]
    BY <1>2, <2>1, <2>4, <2>5
  <2>7. ASSUME NEW j \in 0..m
        PROVE  g[j] = IF j = 0 THEN 0 ELSE g[j - 1] + Endpoints!SizeOf(c, Endpoints!Ranked(j))
    <3>1. CASE j <= m - 1
      <4>1. j \in 0..m - 1 /\ (j # 0 => j - 1 \in 0..m - 1 /\ j - 1 <= m - 1 /\ j - 1 \in 0..m)
        BY <1>2, <2>1, <3>1
      <4> QED
        BY <2>4, <3>1, <4>1
    <3>2. CASE ~(j <= m - 1)
      <4>1. j = m /\ j # 0 /\ j - 1 = m - 1 /\ j - 1 \in 0..m
        BY <1>2, <2>1, <3>2
      <4> QED
        BY <2>5, <3>2, <4>1 DEF last
    <3> QED
      BY <3>1, <3>2
  <2>8. g \in LaidUpTo(c, m)
    BY <2>6, <2>7 DEF LaidUpTo
  <2> QED
    BY <1>2, <2>8
<1> QED
  BY <1>3, <1>4

LEMMA LaidIs ==
  ASSUME NEW c \in DOMAIN Configs
  PROVE  /\ \A r \in 0..2 * Last : Endpoints!Laid(c, r) \in Nat
         /\ \A r \in 1..2 * Last : Endpoints!Laid(c, r) = Endpoints!Laid(c, r - 1) + Endpoints!SizeOf(c, Endpoints!Ranked(r))
         /\ \A q, r \in 0..2 * Last : q <= r => Endpoints!Laid(c, q) <= Endpoints!Laid(c, r)
<1> DEFINE N == 2 * Last
           Body(h) == [n \in 0..N |-> IF n = 0 THEN 0 ELSE h[n - 1] + Endpoints!SizeOf(c, Endpoints!Ranked(n))]
           Sum == CHOOSE h : h = Body(h)
<1>0. N \in Nat
  BY ConfigsAssumption
<1>1. \A r \in 0..N : Endpoints!Laid(c, r) = Sum[r]
  BY DEF Endpoints!Laid
<1>2. PICK f : f \in LaidUpTo(c, N)
  <2> HIDE DEF N
  <2> QED
    BY <1>0, LaidExists
<1> HIDE DEF N
<1>3. f = Body(f)
  BY <1>2 DEF LaidUpTo
<1>4. Sum = Body(Sum)
  <2> HIDE DEF Body
  <2> QED
    BY <1>3
<1> HIDE DEF Sum
<1>5. /\ DOMAIN Sum = 0..N
      /\ \A r \in 0..N : Sum[r] = IF r = 0 THEN 0 ELSE Sum[r - 1] + Endpoints!SizeOf(c, Endpoints!Ranked(r))
  BY <1>4
<1>6. \A r \in 1..N : r \in 0..N /\ r - 1 \in 0..N /\ r # 0
  BY <1>0
<1>7. \A r \in 1..N : Endpoints!Laid(c, r) = Endpoints!Laid(c, r - 1) + Endpoints!SizeOf(c, Endpoints!Ranked(r))
  BY <1>1, <1>5, <1>6
<1>8. \A r \in Nat : Endpoints!SizeOf(c, Endpoints!Ranked(r)) \in Nat
  BY SizeIs
<1> DEFINE Odd == {r \in 0..N : Endpoints!Laid(c, r) \notin Nat
                                  \/ \E q \in 0..N : q <= r /\ ~(Endpoints!Laid(c, q) <= Endpoints!Laid(c, r))}
<1>9. Odd = {}
  <2> SUFFICES ASSUME Odd # {} PROVE FALSE
    OBVIOUS
  <2>1. PICK d \in Odd : \A r \in Odd : ~(r < d)
    <3>1. Odd \subseteq Nat
      BY <1>0
    <3> HIDE DEF Odd
    <3> QED
      BY <3>1, LeastOne
  <2>2. d \in 0..N
    OBVIOUS
  <2>3. CASE d = 0
    <3>1. Endpoints!Laid(c, 0) = 0
      BY <1>0, <1>1, <1>5
    <3>2. \A q \in 0..N : q <= 0 => q = 0
      BY <1>0
    <3> QED
      BY <2>3, <3>1, <3>2
  <2>4. CASE d # 0
    <3>1. d - 1 \in 0..N /\ d \in 1..N /\ d - 1 < d /\ d - 1 \in Nat
      BY <1>0, <2>2, <2>4
    <3>2. d - 1 \notin Odd
      BY <2>1, <3>1
    <3>3. /\ Endpoints!Laid(c, d - 1) \in Nat
          /\ \A q \in 0..N : q <= d - 1 => Endpoints!Laid(c, q) <= Endpoints!Laid(c, d - 1)
      BY <3>1, <3>2
    <3> DEFINE before == Endpoints!Laid(c, d - 1)  here == Endpoints!Laid(c, d)  more == Endpoints!SizeOf(c, Endpoints!Ranked(d))
    <3>4. here = before + more /\ before \in Nat /\ more \in Nat
      BY <1>0, <1>7, <1>8, <3>1, <3>3
    <3>5. \A q \in 0..N : q <= d - 1 => Endpoints!Laid(c, q) <= before
      BY <3>3
    <3>6. \A q \in 0..N : q <= d - 1 => Endpoints!Laid(c, q) \in Nat
      <4> SUFFICES ASSUME NEW q \in 0..N, q <= d - 1 PROVE Endpoints!Laid(c, q) \in Nat
        OBVIOUS
      <4>1. q < d
        BY <3>1
      <4>2. q \notin Odd
        BY <2>1, <4>1
      <4> QED
        BY <4>2
    <3> HIDE DEF before, here, more
    <3>7. here \in Nat /\ before <= here
      BY <3>4
    <3>8. ASSUME NEW q \in 0..N, q <= d PROVE Endpoints!Laid(c, q) <= here
      <4>1. CASE q = d
        BY <3>7, <4>1 DEF here
      <4>2. CASE q # d
        <5>1. q <= d - 1
          BY <2>2, <3>8, <4>2
        <5> QED
          BY <3>4, <3>5, <3>6, <3>7, <5>1
      <4> QED
        BY <4>1, <4>2
    <3> QED
      BY <3>7, <3>8 DEF here
  <2> QED
    BY <2>3, <2>4
<1>10. \A r \in 0..N : Endpoints!Laid(c, r) \in Nat /\ \A q \in 0..N : q <= r => Endpoints!Laid(c, q) <= Endpoints!Laid(c, r)
  BY <1>9
<1> QED
  BY <1>7, <1>10 DEF N

(* Endpoints do not share memory.                                          *)
LEMMA RanksDiffer ==
  ASSUME NEW a \in Endpoints!Addresses, NEW b \in Endpoints!Addresses, a # b
  PROVE  Endpoints!Rank(a) \in 1..2 * Last /\ Endpoints!Rank(b) \in 1..2 * Last
         /\ (Endpoints!Rank(a) < Endpoints!Rank(b) \/ Endpoints!Rank(b) < Endpoints!Rank(a))
<1>1. /\ a = <<a[1], a[2]>> /\ a[1] \in {"in", "out"} /\ a[2] \in 1..Last
      /\ b = <<b[1], b[2]>> /\ b[1] \in {"in", "out"} /\ b[2] \in 1..Last
  BY DEF Endpoints!Addresses, Endpoints!Number
<1>2. a[1] # b[1] \/ a[2] # b[2]
  BY <1>1
<1> QED
  BY <1>1, <1>2, ConfigsAssumption DEF Endpoints!Rank

LEMMA RankedBack ==
  ASSUME NEW a \in Endpoints!Addresses
  PROVE  Endpoints!Rank(a) \in 1..2 * Last /\ Endpoints!Ranked(Endpoints!Rank(a)) = a
<1>1. a = <<a[1], a[2]>> /\ a[1] \in {"in", "out"} /\ a[2] \in 1..Last
  BY DEF Endpoints!Addresses, Endpoints!Number
<1>2. CASE a[1] = "in"
  BY <1>1, <1>2, ConfigsAssumption DEF Endpoints!Rank, Endpoints!Ranked
<1>3. CASE a[1] = "out"
  <2>1. Endpoints!Rank(a) = Last + a[2]
    BY <1>3 DEF Endpoints!Rank
  <2>2. ~(Last + a[2] <= Last) /\ (Last + a[2]) - Last = a[2] /\ Last + a[2] \in 1..2 * Last
    BY <1>1, ConfigsAssumption
  <2> QED
    BY <1>1, <1>3, <2>1, <2>2 DEF Endpoints!Ranked
<1> QED
  BY <1>1, <1>2, <1>3

LEMMA RoomIs ==
  ASSUME NEW c \in DOMAIN Configs, NEW a \in Endpoints!Addresses
  PROVE  /\ Endpoints!Offset(c, a) \in Nat /\ Endpoints!SizeOf(c, a) \in Nat
         /\ Endpoints!Offset(c, a) + Endpoints!SizeOf(c, a) = Endpoints!Laid(c, Endpoints!Rank(a))
         /\ Endpoints!Offset(c, a) + Endpoints!SizeOf(c, a) <= Memory
<1>1. Endpoints!Rank(a) \in 1..2 * Last /\ Endpoints!Ranked(Endpoints!Rank(a)) = a
  BY RankedBack
<1>2. /\ Endpoints!Rank(a) - 1 \in 0..2 * Last /\ Endpoints!Rank(a) \in 0..2 * Last /\ 2 * Last \in 0..2 * Last
      /\ Endpoints!Rank(a) <= 2 * Last
  BY <1>1, ConfigsAssumption
<1>3. Endpoints!SizeOf(c, a) \in Nat
  BY SizeIs
<1>4. Endpoints!Offset(c, a) \in Nat
  BY <1>2, LaidIs DEF Endpoints!Offset
<1>5. Endpoints!Laid(c, Endpoints!Rank(a)) = Endpoints!Offset(c, a) + Endpoints!SizeOf(c, a)
  BY <1>1, LaidIs DEF Endpoints!Offset
<1>6. Endpoints!Laid(c, Endpoints!Rank(a)) <= Endpoints!Laid(c, 2 * Last) /\ Endpoints!Laid(c, 2 * Last) \in Nat
      /\ Endpoints!Laid(c, Endpoints!Rank(a)) \in Nat
  BY <1>2, LaidIs
<1>7. Endpoints!Laid(c, 2 * Last) <= Memory /\ Memory \in Nat
  BY ConfigsAssumption
<1> QED
  BY <1>3, <1>4, <1>5, <1>6, <1>7

LEMMA RoomsApart ==
  ASSUME NEW c \in DOMAIN Configs, NEW a \in Endpoints!Addresses, NEW b \in Endpoints!Addresses, a # b
  PROVE  \/ Endpoints!Offset(c, a) + Endpoints!SizeOf(c, a) <= Endpoints!Offset(c, b)
         \/ Endpoints!Offset(c, b) + Endpoints!SizeOf(c, b) <= Endpoints!Offset(c, a)
<1>1. /\ Endpoints!Rank(a) \in 1..2 * Last /\ Endpoints!Rank(b) \in 1..2 * Last
      /\ Endpoints!Rank(a) < Endpoints!Rank(b) \/ Endpoints!Rank(b) < Endpoints!Rank(a)
  BY RanksDiffer
<1>2. /\ Endpoints!Rank(a) - 1 \in 0..2 * Last /\ Endpoints!Rank(a) \in 0..2 * Last
      /\ Endpoints!Rank(b) - 1 \in 0..2 * Last /\ Endpoints!Rank(b) \in 0..2 * Last
      /\ Endpoints!Rank(a) < Endpoints!Rank(b) => Endpoints!Rank(a) <= Endpoints!Rank(b) - 1
      /\ Endpoints!Rank(b) < Endpoints!Rank(a) => Endpoints!Rank(b) <= Endpoints!Rank(a) - 1
  BY <1>1, ConfigsAssumption
<1>3. CASE Endpoints!Rank(a) < Endpoints!Rank(b)
  <2>1. Endpoints!Laid(c, Endpoints!Rank(a)) <= Endpoints!Laid(c, Endpoints!Rank(b) - 1)
    BY <1>2, <1>3, LaidIs
  <2>2. Endpoints!Offset(c, a) + Endpoints!SizeOf(c, a) = Endpoints!Laid(c, Endpoints!Rank(a))
    BY RoomIs
  <2> QED
    BY <2>1, <2>2 DEF Endpoints!Offset
<1>4. CASE Endpoints!Rank(b) < Endpoints!Rank(a)
  <2>1. Endpoints!Laid(c, Endpoints!Rank(b)) <= Endpoints!Laid(c, Endpoints!Rank(a) - 1)
    BY <1>2, <1>4, LaidIs
  <2>2. Endpoints!Offset(c, b) + Endpoints!SizeOf(c, b) = Endpoints!Laid(c, Endpoints!Rank(b))
    BY RoomIs
  <2> QED
    BY <2>1, <2>2 DEF Endpoints!Offset
<1> QED
  BY <1>1, <1>3, <1>4

(* An endpoint has its room in the memory of the configuration; if it is   *)
(* enabled its buffers are those of an endpoint of some setting.           *)
Room(c, a) == [at |-> Endpoints!Offset(c, a), size |-> Endpoints!SizeOf(c, a)]
OnFor(c, a, r) ==
  \E e \in Endpoints!Endpoints(c) :
    /\ e.addr = a /\ r.max = e.max
    /\ r.half0 = Endpoints!FirstHalf(r.buffer, e) /\ r.half1 = Endpoints!SecondHalf(r.buffer, e)
BufferOK(c, a, r) ==
  /\ c # 0 => c \in DOMAIN Configs /\ r.buffer = Room(c, a)
  /\ r.enabled => c # 0 /\ OnFor(c, a, r)
BuffersInv == \A a \in Endpoints!Addresses : BufferOK(active, a, config[a])

(* What does not change buffers. *)
Same(q, r) ==
  /\ DOMAIN q = Fields /\ q.enabled = r.enabled /\ q.max = r.max
  /\ q.buffer = r.buffer /\ q.half0 = r.half0 /\ q.half1 = r.half1

LEMMA SameBuffers ==
  ASSUME NEW c, NEW a, NEW q, NEW r, Same(q, r), BufferOK(c, a, r)
  PROVE  BufferOK(c, a, q)
BY DEF Same, BufferOK, OnFor

LEMMA Kept ==
  ASSUME NEW r, DOMAIN r = Fields, NEW s
  PROVE  /\ Same(Endpoints!Started(r), r) /\ Same(Endpoints!Filled(r), r) /\ Same(Endpoints!Stopped(r), r)
         /\ Same(Endpoints!StallEp(r, s), r) /\ Same([r EXCEPT !.avail = FALSE], r)
<1>1. Same(Endpoints!Started(r), r)
  BY DEF Endpoints!Started, Same, Fields
<1>2. Same(Endpoints!Filled(r), r)
  BY DEF Endpoints!Filled, Same, Fields
<1>3. Same(Endpoints!Stopped(r), r)
  BY DEF Endpoints!Stopped, Same, Fields
<1>4. Same(Endpoints!StallEp(r, s), r)
  BY DEF Endpoints!StallEp, Same, Fields
<1>5. Same([r EXCEPT !.avail = FALSE], r)
  BY DEF Same, Fields
<1> QED
  BY <1>1, <1>2, <1>3, <1>4, <1>5

LEMMA SwitchedBuffers ==
  ASSUME NEW c, NEW a, NEW r, DOMAIN r = Fields, BufferOK(c, a, r)
  PROVE  /\ DOMAIN Endpoints!SwitchedOff(r) = Fields /\ BufferOK(c, a, Endpoints!SwitchedOff(r))
         /\ \A e : c # 0 /\ e \in Endpoints!Endpoints(c) /\ e.addr = a =>
              DOMAIN Endpoints!SwitchedOn(r, e) = Fields /\ BufferOK(c, a, Endpoints!SwitchedOn(r, e))
<1>1. /\ DOMAIN Endpoints!SwitchedOff(r) = Fields /\ Endpoints!SwitchedOff(r).enabled = FALSE
      /\ Endpoints!SwitchedOff(r).buffer = r.buffer
  BY DEF Endpoints!SwitchedOff, Fields
<1>2. BufferOK(c, a, Endpoints!SwitchedOff(r))
  BY <1>1 DEF BufferOK
<1>3. ASSUME NEW e, c # 0, e \in Endpoints!Endpoints(c), e.addr = a
      PROVE  DOMAIN Endpoints!SwitchedOn(r, e) = Fields /\ BufferOK(c, a, Endpoints!SwitchedOn(r, e))
  <2> DEFINE q == Endpoints!SwitchedOn(r, e)
  <2>1. DOMAIN q = Fields
    BY DEF Endpoints!SwitchedOn, Fields
  <2>2. q.buffer = r.buffer /\ q.max = e.max
    BY DEF Endpoints!SwitchedOn, Fields
  <2>3. q.half0 = Endpoints!FirstHalf(r.buffer, e)
    BY DEF Endpoints!SwitchedOn, Fields
  <2>4. q.half1 = Endpoints!SecondHalf(r.buffer, e)
    BY DEF Endpoints!SwitchedOn, Fields
  <2> HIDE DEF q
  <2>5. OnFor(c, a, q)
    BY <1>3, <2>2, <2>3, <2>4 DEF OnFor
  <2>6. BufferOK(c, a, q)
    BY <1>3, <2>2, <2>5 DEF BufferOK
  <2> QED
    BY <2>1, <2>6 DEF q
<1> QED
  BY <1>1, <1>2, <1>3

LEMMA SettingBuffers ==
  ASSUME NEW c, NEW old, NEW new, c # 0, new \subseteq Endpoints!Endpoints(c),
         NEW cfg, DOMAIN cfg = Endpoints!Addresses,
         \A a \in Endpoints!Addresses : DOMAIN cfg[a] = Fields /\ BufferOK(c, a, cfg[a])
  PROVE  \A a \in Endpoints!Addresses : BufferOK(c, a, Endpoints!Notified(Endpoints!Enabled(cfg, old, new), new)[a])
<1> SUFFICES ASSUME NEW a \in Endpoints!Addresses
             PROVE  BufferOK(c, a, Endpoints!Notified(Endpoints!Enabled(cfg, old, new), new)[a])
  OBVIOUS
<1> DEFINE off == Endpoints!Disabled(cfg, old)[a]  on == Endpoints!Enabled(cfg, old, new)[a]
           e == CHOOSE x \in new : x.addr = a
           told == Endpoints!Notified(Endpoints!Enabled(cfg, old, new), new)[a]
<1>1. off = IF a \in Endpoints!AddressesOf(old) THEN Endpoints!SwitchedOff(cfg[a]) ELSE cfg[a]
  BY DEF Endpoints!Disabled
<1>2. on = IF a \in Endpoints!AddressesOf(new) THEN Endpoints!SwitchedOn(off, e) ELSE off
  BY DEF Endpoints!Enabled
<1>3. told = IF a \in Endpoints!AddressesOf(new) /\ a[1] = "out" THEN Endpoints!Started(on) ELSE on
  BY DEF Endpoints!Notified
<1>4. a \in Endpoints!AddressesOf(new) => e \in new /\ e.addr = a /\ e \in Endpoints!Endpoints(c)
  BY DEF Endpoints!AddressesOf
<1> HIDE DEF off, on, e, told
<1>5. DOMAIN off = Fields /\ BufferOK(c, a, off)
  <2>1. DOMAIN Endpoints!SwitchedOff(cfg[a]) = Fields /\ BufferOK(c, a, Endpoints!SwitchedOff(cfg[a]))
    BY SwitchedBuffers
  <2> QED
    BY <1>1, <2>1
<1>6. DOMAIN on = Fields /\ BufferOK(c, a, on)
  <2>1. CASE a \in Endpoints!AddressesOf(new)
    BY <1>2, <1>4, <1>5, <2>1, SwitchedBuffers
  <2>2. CASE a \notin Endpoints!AddressesOf(new)
    BY <1>2, <1>5, <2>2
  <2> QED
    BY <2>1, <2>2
<1>7. Same(Endpoints!Started(on), on)
  BY <1>6, Kept
<1>8. BufferOK(c, a, told)
  BY <1>3, <1>6, <1>7, SameBuffers
<1> QED
  BY <1>8 DEF told

LEMMA BuffersInit == Endpoints!Init => BuffersInv
<1> SUFFICES ASSUME Endpoints!Init, NEW a \in Endpoints!Addresses PROVE BufferOK(active, a, config[a])
  BY DEF BuffersInv
<1>1. active = 0 /\ config[a].enabled = FALSE
  BY DEF Endpoints!Init
<1> QED
  BY <1>1 DEF BufferOK

LEMMA OneBuffersStep ==
  ASSUME BuffersInv, ConfigOK(config), active' = active, NEW a \in Endpoints!Addresses, NEW q,
         Same(q, config[a]), config' = [config EXCEPT ![a] = q]
  PROVE  BuffersInv'
<1> SUFFICES ASSUME NEW b \in Endpoints!Addresses PROVE BufferOK(active, b, config'[b])
  BY DEF BuffersInv
<1>1. CASE b = a
  <2>1. config'[b] = q
    BY <1>1 DEF ConfigOK
  <2> QED
    BY <1>1, <2>1, SameBuffers DEF BuffersInv
<1>2. CASE b # a
  <2>1. config'[b] = config[b]
    BY <1>2 DEF ConfigOK
  <2> QED
    BY <2>1 DEF BuffersInv
<1> QED
  BY <1>1, <1>2

LEMMA BuffersPacketStep ==
  ASSUME BuffersInv, ConfigOK(config), NEW a \in Endpoints!Addresses,
         \/ Endpoints!Send(a) \/ Endpoints!StartRx(a) \/ Endpoints!StopRx(a)
         \/ Endpoints!Transfer(a) \/ Endpoints!SetHalt(a) \/ Endpoints!ClearHalt(a)
  PROVE  BuffersInv'
<1>1. DOMAIN config[a] = Fields /\ active' = active
  BY DEF ConfigOK, RecordOK, Endpoints!Send, Endpoints!StartRx, Endpoints!StopRx, Endpoints!Transfer, Endpoints!SetHalt, Endpoints!ClearHalt
<1>2. /\ Same(Endpoints!Started(config[a]), config[a]) /\ Same(Endpoints!Filled(config[a]), config[a])
      /\ Same(Endpoints!Stopped(config[a]), config[a])
      /\ Same(Endpoints!StallEp(config[a], TRUE), config[a]) /\ Same(Endpoints!StallEp(config[a], FALSE), config[a])
      /\ Same([config[a] EXCEPT !.avail = FALSE], config[a])
  BY <1>1, Kept
<1>3. \/ config' = [config EXCEPT ![a] = Endpoints!Filled(config[a])]
      \/ config' = [config EXCEPT ![a] = Endpoints!Started(config[a])]
      \/ config' = [config EXCEPT ![a] = Endpoints!Stopped(config[a])]
      \/ config' = [config EXCEPT ![a] = [config[a] EXCEPT !.avail = FALSE]]
      \/ config' = [config EXCEPT ![a] = Endpoints!StallEp(config[a], TRUE)]
      \/ config' = [config EXCEPT ![a] = Endpoints!StallEp(config[a], FALSE)]
  BY DEF Endpoints!Send, Endpoints!StartRx, Endpoints!StopRx, Endpoints!Transfer, Endpoints!SetHalt, Endpoints!ClearHalt
<1> QED
  BY <1>1, <1>2, <1>3, OneBuffersStep

LEMMA BuffersInterfaceStep ==
  ASSUME BuffersInv, ConfigOK(config), Endpoints!SetInterface
  PROVE  BuffersInv'
<1>0. PICK i \in Endpoints!Interfaces : \E s \in DOMAIN Configs[active][i] :
        config' = Endpoints!Notified(Endpoints!Enabled(config, Endpoints!Setting(active, i, setting[i]),
                                   Endpoints!Setting(active, i, s)), Endpoints!Setting(active, i, s))
  BY DEF Endpoints!SetInterface
<1>1. PICK s \in DOMAIN Configs[active][i] :
        config' = Endpoints!Notified(Endpoints!Enabled(config, Endpoints!Setting(active, i, setting[i]),
                                   Endpoints!Setting(active, i, s)), Endpoints!Setting(active, i, s))
  BY <1>0
<1>2. active # 0 /\ active' = active
  BY DEF Endpoints!SetInterface
<1> DEFINE new == Endpoints!Setting(active, i, s)  old == Endpoints!Setting(active, i, setting[i])
<1>3. new \subseteq Endpoints!Endpoints(active)
  BY DEF Endpoints!Setting, Endpoints!Endpoints, Endpoints!Interfaces
<1>4. DOMAIN config = Endpoints!Addresses /\ \A a \in Endpoints!Addresses : DOMAIN config[a] = Fields
  BY DEF ConfigOK, RecordOK
<1>5. \A a \in Endpoints!Addresses : BufferOK(active, a, config[a])
  BY DEF BuffersInv
<1> HIDE DEF new, old
<1>6. \A a \in Endpoints!Addresses : BufferOK(active, a, Endpoints!Notified(Endpoints!Enabled(config, old, new), new)[a])
  BY <1>2, <1>3, <1>4, <1>5, SettingBuffers
<1> QED
  BY <1>1, <1>2, <1>6 DEF BuffersInv, new, old

LEMMA BuffersConfigurationStep ==
  ASSUME BuffersInv, ConfigOK(config), Endpoints!SetConfiguration
  PROVE  BuffersInv'
<1> DEFINE off == [a \in Endpoints!Addresses |-> [config[a] EXCEPT
                     !.enabled = FALSE, !.avail = FALSE, !.stall = FALSE, !.next = 0]]
<1>1. PICK value \in 0..Len(Configs) + 1 :
        LET laid == [a \in Endpoints!Addresses |->
                       [off[a] EXCEPT !.buffer =
                          [at |-> Endpoints!Offset(value, a), size |-> Endpoints!SizeOf(value, a)]]]
            default == UNION {Configs[value][i][1] : i \in DOMAIN Configs[value]}
        IN IF value \in DOMAIN Configs
             THEN active' = value /\ config' = Endpoints!Notified(Endpoints!Enabled(laid, {}, default), default)
             ELSE active' = 0 /\ config' = off
  BY DEF Endpoints!SetConfiguration
<1>2. \A a \in Endpoints!Addresses : off[a].enabled = FALSE /\ DOMAIN off[a] = Fields
  <2> SUFFICES ASSUME NEW a \in Endpoints!Addresses PROVE off[a].enabled = FALSE /\ DOMAIN off[a] = Fields
    OBVIOUS
  <2>1. DOMAIN config[a] = Fields
    BY DEF ConfigOK, RecordOK
  <2> QED
    BY <2>1 DEF Fields
<1> HIDE DEF off
<1>3. CASE value \notin DOMAIN Configs
  <2>1. active' = 0 /\ config' = off
    BY <1>1, <1>3
  <2> QED
    BY <1>2, <2>1 DEF BuffersInv, BufferOK
<1>4. CASE value \in DOMAIN Configs
  <2> DEFINE laid == [a \in Endpoints!Addresses |-> [off[a] EXCEPT !.buffer = Room(value, a)]]
             default == UNION {Configs[value][i][1] : i \in DOMAIN Configs[value]}
  <2>1. active' = value /\ config' = Endpoints!Notified(Endpoints!Enabled(laid, {}, default), default)
    BY <1>1, <1>4 DEF Room
  <2>2. value # 0
    BY <1>4, ConfigsAssumption
  <2>3. default \subseteq Endpoints!Endpoints(value)
    <3> SUFFICES ASSUME NEW e \in default PROVE e \in Endpoints!Endpoints(value)
      OBVIOUS
    <3>1. PICK i \in DOMAIN Configs[value] : e \in Configs[value][i][1]
      OBVIOUS
    <3>2. 1 \in DOMAIN Configs[value][i]
      BY <1>4, ConfigsAssumption
    <3> QED
      BY <3>1, <3>2 DEF Endpoints!Endpoints
  <2>4. DOMAIN laid = Endpoints!Addresses
    OBVIOUS
  <2>5. ASSUME NEW a \in Endpoints!Addresses PROVE DOMAIN laid[a] = Fields /\ BufferOK(value, a, laid[a])
    <3>1. laid[a] = [off[a] EXCEPT !.buffer = Room(value, a)]
      OBVIOUS
    <3>2. off[a].enabled = FALSE /\ DOMAIN off[a] = Fields
      BY <1>2
    <3> HIDE DEF laid
    <3>3. DOMAIN laid[a] = Fields /\ laid[a].enabled = FALSE /\ laid[a].buffer = Room(value, a)
      BY <3>1, <3>2 DEF Fields
    <3> QED
      BY <1>4, <3>3 DEF BufferOK
  <2> HIDE DEF laid, default
  <2>6. \A a \in Endpoints!Addresses : BufferOK(value, a, Endpoints!Notified(Endpoints!Enabled(laid, {}, default), default)[a])
    BY <2>2, <2>3, <2>4, <2>5, SettingBuffers
  <2> QED
    BY <2>1, <2>6 DEF BuffersInv
<1> QED
  BY <1>3, <1>4

LEMMA BuffersStep == BuffersInv /\ ConfigOK(config) /\ [Endpoints!Next]_(Endpoints!vars) => BuffersInv'
<1> SUFFICES ASSUME BuffersInv, ConfigOK(config), [Endpoints!Next]_(Endpoints!vars) PROVE BuffersInv'
  OBVIOUS
<1>1. CASE UNCHANGED Endpoints!vars
  BY <1>1 DEF Endpoints!vars, BuffersInv, BufferOK
<1>2. ASSUME NEW a \in Endpoints!Addresses,
             \/ Endpoints!Send(a) \/ Endpoints!StartRx(a) \/ Endpoints!StopRx(a)
             \/ Endpoints!Transfer(a) \/ Endpoints!SetHalt(a) \/ Endpoints!ClearHalt(a)
      PROVE  BuffersInv'
  BY <1>2, BuffersPacketStep
<1> QED
  BY <1>1, <1>2, BuffersConfigurationStep, BuffersInterfaceStep DEF Endpoints!Next

(* The buffers of one endpoint. *)
Within(r, c, a) ==
  /\ r.at \in Nat /\ r.size \in Nat
  /\ Endpoints!Offset(c, a) <= r.at /\ r.at + r.size <= Endpoints!Offset(c, a) + Endpoints!SizeOf(c, a)

LEMMA HalvesAre ==
  ASSUME BuffersInv, NEW a \in Endpoints!Addresses, config[a].enabled
  PROVE  /\ active \in DOMAIN Configs /\ config[a].max \in Nat
         /\ Within(config[a].half0, active, a) /\ config[a].half0.size >= config[a].max
         /\ config[a].half1 # Endpoints!Nothing =>
              /\ Within(config[a].half1, active, a) /\ config[a].half1.size >= config[a].max
              /\ config[a].half0.at + config[a].half0.size <= config[a].half1.at
              /\ config[a].half1.at - config[a].half0.at \in Distances
<1> DEFINE r == config[a]
<1>1. /\ active \in DOMAIN Configs /\ r.buffer = Room(active, a) /\ OnFor(active, a, r)
  BY DEF BuffersInv, BufferOK
<1>2. PICK e \in Endpoints!Endpoints(active) :
        /\ e.addr = a /\ r.max = e.max
        /\ r.half0 = Endpoints!FirstHalf(r.buffer, e) /\ r.half1 = Endpoints!SecondHalf(r.buffer, e)
  BY <1>1 DEF OnFor
<1> DEFINE one == Endpoints!OneBuffer(e)  at == Endpoints!Offset(active, a)  size == Endpoints!SizeOf(active, a)
<1>3. EndpointOK(e)
  BY <1>1, ConfigsAssumption
<1>4. /\ one \in 64..1024 /\ one >= e.max /\ (e.double => one \in Distances)
      /\ Endpoints!AllBuffers(e) = IF e.double THEN one + one ELSE one
      /\ e.max \in Nat
  BY <1>3, BufferIs DEF EndpointOK
<1>5. Endpoints!AllBuffers(e) <= size /\ at \in Nat /\ size \in Nat
  BY <1>1, <1>2, SizeIs, RoomIs
<1>6. r.buffer.at = at /\ r.buffer.size = size
  BY <1>1 DEF Room
<1> HIDE DEF r, one, at, size
<1>7. CASE ~e.double
  <2>1. r.half0 = r.buffer /\ r.half1 = Endpoints!Nothing
    BY <1>2, <1>7 DEF Endpoints!FirstHalf, Endpoints!SecondHalf
  <2>2. one <= size
    BY <1>4, <1>5, <1>7
  <2>3. r.half0.at = at /\ r.half0.size = size
    BY <1>6, <2>1
  <2>4. r.half0.size >= r.max
    BY <1>2, <1>4, <1>5, <2>2, <2>3
  <2>5. Within(r.half0, active, a)
    BY <1>5, <2>3 DEF Within, at, size
  <2> QED
    BY <1>1, <1>2, <1>4, <2>1, <2>4, <2>5 DEF r
<1>8. CASE e.double
  <2>1. /\ r.half0 = [at |-> at, size |-> one]
        /\ r.half1 = [at |-> at + one, size |-> one]
    BY <1>2, <1>6, <1>8 DEF Endpoints!FirstHalf, Endpoints!SecondHalf, one
  <2>2. /\ r.half0.at = at /\ r.half0.size = one
        /\ r.half1.at = at + one /\ r.half1.size = one
    BY <2>1
  <2>3. one + one <= size /\ one \in Nat /\ one \in Distances
    BY <1>4, <1>5, <1>8
  <2>4. Within(r.half0, active, a)
    <3>1. at + one <= at + size
      BY <1>5, <2>3
    <3> QED
      BY <1>5, <2>2, <2>3, <3>1 DEF Within, at, size
  <2>5. Within(r.half1, active, a)
    <3>1. (at + one) + one <= at + size /\ at <= at + one /\ at + one \in Nat
      BY <1>5, <2>3
    <3> QED
      BY <2>2, <2>3, <3>1 DEF Within, at, size
  <2>6. (at + one) - at = one
    BY <1>5, <2>3
  <2>7. r.half1.at - r.half0.at \in Distances /\ r.half0.at + r.half0.size <= r.half1.at
    BY <1>5, <2>2, <2>3, <2>6
  <2>8. r.half0.size >= r.max /\ r.half1.size >= r.max
    BY <1>2, <1>4, <2>2
  <2> QED
    BY <1>1, <1>2, <1>4, <2>4, <2>5, <2>7, <2>8 DEF r
<1> QED
  BY <1>3, <1>7, <1>8 DEF EndpointOK

LEMMA BuffersAreApart == BuffersInv => Endpoints!BuffersApart
<1> SUFFICES ASSUME BuffersInv PROVE Endpoints!BuffersApart
  OBVIOUS
<1> DEFINE on == {a \in Endpoints!Addresses : config[a].enabled}
           bufs == UNION {{<<a, 0>>, <<a, 1>>} : a \in on}
           Region(p) == IF p[2] = 0 THEN config[p[1]].half0 ELSE config[p[1]].half1
<1>1. ASSUME NEW p \in bufs
      PROVE  p[1] \in on /\ p[2] \in {0, 1} /\ p = <<p[1], p[2]>>
  BY <1>1
<1>2. ASSUME NEW p \in bufs, Region(p) # Endpoints!Nothing
      PROVE  /\ active \in DOMAIN Configs /\ Within(Region(p), active, p[1])
             /\ config[p[1]].max \in Nat /\ Region(p).size >= config[p[1]].max
  <2>1. p[1] \in Endpoints!Addresses /\ config[p[1]].enabled /\ p[2] \in {0, 1}
    BY <1>1
  <2>2. CASE p[2] = 0
    BY <2>1, <2>2, HalvesAre
  <2>3. CASE p[2] # 0
    BY <1>2, <2>1, <2>3, HalvesAre
  <2> QED
    BY <2>2, <2>3
<1>3. ASSUME NEW p \in bufs, NEW q \in bufs \ {p}, Region(p) # Endpoints!Nothing
      PROVE  ~Endpoints!Overlap(Region(p), Region(q))
  <2> DEFINE r == Region(p)  s == Region(q)
  <2>1. active \in DOMAIN Configs /\ Within(r, active, p[1])
    BY <1>2, <1>3
  <2>2. /\ p[1] \in Endpoints!Addresses /\ q[1] \in Endpoints!Addresses /\ config[p[1]].enabled
        /\ p[2] \in {0, 1} /\ q[2] \in {0, 1} /\ (p[1] = q[1] => p[2] # q[2])
    BY <1>1
  <2>3. CASE s = Endpoints!Nothing
    <3>1. s.at + s.size = 0 /\ r.at \in Nat
      BY <2>1, <2>3 DEF Endpoints!Nothing, Within
    <3> HIDE DEF r, s
    <3>2. ~Endpoints!Overlap(r, s)
      BY <3>1 DEF Endpoints!Overlap
    <3> QED
      BY <3>2 DEF r, s
  <2>4. CASE s # Endpoints!Nothing /\ p[1] # q[1]
    <3>1. Within(s, active, q[1])
      BY <1>2, <2>4
    <3> DEFINE x == Endpoints!Offset(active, p[1])  y == Endpoints!Offset(active, q[1])
               m == Endpoints!SizeOf(active, p[1])  n == Endpoints!SizeOf(active, q[1])
    <3>2. x + m <= y \/ y + n <= x
      BY <2>1, <2>2, <2>4, RoomsApart
    <3>3. x \in Nat /\ y \in Nat /\ m \in Nat /\ n \in Nat
      BY <2>1, <2>2, RoomIs
    <3>4. /\ r.at \in Nat /\ r.size \in Nat /\ x <= r.at /\ r.at + r.size <= x + m
          /\ s.at \in Nat /\ s.size \in Nat /\ y <= s.at /\ s.at + s.size <= y + n
      BY <2>1, <3>1 DEF Within
    <3> HIDE DEF r, s, x, y, m, n
    <3>5. ~Endpoints!Overlap(r, s)
      BY <3>2, <3>3, <3>4 DEF Endpoints!Overlap
    <3> QED
      BY <3>5 DEF r, s
  <2>5. CASE s # Endpoints!Nothing /\ p[1] = q[1]
    <3> DEFINE f == config[p[1]].half0  g == config[p[1]].half1
    <3>1. (r = f /\ s = g) \/ (r = g /\ s = f)
      BY <2>2, <2>5
    <3>2. g # Endpoints!Nothing
      BY <1>3, <2>5, <3>1
    <3>3. /\ Within(f, active, p[1]) /\ Within(g, active, p[1])
          /\ f.at + f.size <= g.at
      BY <2>2, <3>2, HalvesAre
    <3>4. /\ f.at \in Nat /\ f.size \in Nat /\ g.at \in Nat /\ g.size \in Nat
      BY <3>3 DEF Within
    <3> HIDE DEF r, s, f, g
    <3>5. ~Endpoints!Overlap(r, s)
      BY <3>1, <3>3, <3>4 DEF Endpoints!Overlap
    <3> QED
      BY <3>5 DEF r, s
  <2> QED
    BY <2>3, <2>4, <2>5
<1>4. ASSUME NEW p \in bufs, Region(p) # Endpoints!Nothing
      PROVE  Region(p).at + Region(p).size <= Memory
  <2> DEFINE r == Region(p)  x == Endpoints!Offset(active, p[1])  m == Endpoints!SizeOf(active, p[1])
  <2>1. /\ active \in DOMAIN Configs /\ p[1] \in Endpoints!Addresses
        /\ r.at \in Nat /\ r.size \in Nat /\ r.at + r.size <= x + m
    BY <1>1, <1>2, <1>4 DEF Within
  <2>2. x \in Nat /\ m \in Nat /\ x + m <= Memory
    BY <2>1, RoomIs
  <2>3. Memory \in Nat
    BY ConfigsAssumption
  <2> HIDE DEF r, x, m
  <2>4. r.at + r.size <= Memory
    BY <2>1, <2>2, <2>3
  <2> QED
    BY <2>4 DEF r
<1>5. \A p \in bufs : Region(p) # Endpoints!Nothing =>
        /\ Region(p).at + Region(p).size <= Memory
        /\ Region(p).size >= config[p[1]].max
        /\ \A q \in bufs \ {p} : ~Endpoints!Overlap(Region(p), Region(q))
  <2> HIDE DEF bufs, Region
  <2> QED
    BY <1>2, <1>3, <1>4
<1>6. \A a \in on : config[a].half1 # Endpoints!Nothing =>
        config[a].half1.at - config[a].half0.at \in {64, 128, 256, 512, 1024}
  BY HalvesAre DEF Distances
<1> QED
  BY <1>5, <1>6 DEF Endpoints!BuffersApart

-----------------------------------------------------------------------------
(* All parts together.                                                     *)

LEMMA PartsStep ==
  ASSUME [Next]_vars
  PROVE  /\ [Control!Next]_(Control!vars)
         /\ [Endpoints!Next]_(Endpoints!vars)
         /\ [Descriptors!Next]_(Descriptors!vars) /\ part' = part
         /\ [Numbers!Next]_(Numbers!vars)
  BY DEF Next, vars, Controls, Configures, Describes, Names, controlVars, endpointVars,
         descriptorVars, numberVars, Control!vars, Endpoints!vars,
         Descriptors!vars, Numbers!vars

(* The control pipe is in one of the situations of the invariant from a     *)
(* SETUP that finds the device at rest on, wherever the transfer is given   *)
(* up and whenever the bus is reset. *)
THEOREM ControlInvariant == Spec => []ControlInv
<1>1. Init => ControlInv
  BY ControlInit DEF Init
<1>2. ControlInv /\ [Next]_vars => ControlInv'
  BY ControlStep, PartsStep
<1> QED
  BY <1>1, <1>2, PTL DEF Spec

(* In a transfer whose SETUP finds the device at rest, the host gets no    *)
(* packet that is not its own or that it takes for a repetition, no        *)
(* destroyed coroutine is run, and both sides agree on the address when it *)
(* is over, also where the host gives the transfer up or resets the bus in *)
(* the middle of it, and whatever was left of the transfers before.        *)
THEOREM UsbRightAnswer == Spec => []RightAnswer
<1>1. ControlInv => RightAnswer
  BY ControlAnswers DEF RightAnswer
<1> QED
  BY <1>1, ControlInvariant, PTL

(* The types and PIDs of all endpoints, for any configurations.            *)
THEOREM EndpointsInvariant == Spec => []EndpointsInv
<1>1. Init => EndpointsInv
  BY EndpointsInit DEF Init
<1>2. EndpointsInv /\ [Next]_vars => EndpointsInv'
  BY EndpointsStep, PartsStep
<1> QED
  BY <1>1, <1>2, PTL DEF Spec

(* No packet is taken for a repetition of the one before, whatever         *)
(* configurations and settings the host chooses and whenever it does.      *)
THEOREM UsbTogglesAgree == Spec => []TogglesAgree
<1>1. EndpointsInv => TogglesAgree
  BY DEF EndpointsInv, TogglesAgree, Endpoints!TogglesAgree, Endpoints!Single, Agrees
<1> QED
  BY <1>1, EndpointsInvariant, PTL

(* What the host has heard, the packet, the buffer and what is left of the *)
(* piece follow one another, whatever the pieces are and whatever the host *)
(* asks for.                                                               *)
THEOREM DescriptorInvariant == Spec => [](part = "descriptors" => DescriptorInv)
<1>1. Init => (part = "descriptors" => DescriptorInv)
  BY DescriptorInit DEF Init
<1>2. /\ (part = "descriptors" => DescriptorInv) /\ [Next]_vars
      => (part = "descriptors" => DescriptorInv)'
  BY DescriptorNext, PartsStep
<1> QED
  BY <1>1, <1>2, PTL DEF Spec

(* Numbers in descriptors mean places in the lists, however many strings   *)
(* and interfaces register, and whichever requests come between them.      *)
THEOREM NumbersInvariant == Spec => []NumbersInv
<1>1. Init => NumbersInv
  BY NumbersInit DEF Init
<1>2. NumbersInv /\ [Next]_vars => NumbersInv'
  BY NumbersNext, PartsStep
<1> QED
  BY <1>1, <1>2, PTL DEF Spec

(* The host reads its descriptor, as much as it asked for or all of it, it *)
(* and the device agree on where it ends, and the numbers in descriptors   *)
(* mean the strings and interfaces they were given for.                    *)
THEOREM UsbHostReadsDescriptor == Spec => []HostReadsDescriptor
<1>1. (part = "descriptors" => DescriptorInv) /\ NumbersInv => HostReadsDescriptor
  BY HostReadsIt, NumbersAreStanding DEF HostReadsDescriptor
<1> QED
  BY <1>1, DescriptorInvariant, NumbersInvariant, PTL

(* Every endpoint has its own room in the memory, and those that are       *)
(* enabled have the buffers of an endpoint of the configuration.           *)
THEOREM BuffersInvariant == Spec => []BuffersInv
<1>1. Init => BuffersInv
  BY BuffersInit DEF Init
<1>2. BuffersInv /\ EndpointsInv /\ [Next]_vars => BuffersInv'
  <2>1. EndpointsInv => ConfigOK(config)
    BY DEF EndpointsInv
  <2> QED
    BY <2>1, BuffersStep, PartsStep
<1> QED
  BY <1>1, <1>2, EndpointsInvariant, PTL DEF Spec

(* No two buffers share a byte, all are in the memory and hold a packet,   *)
(* and pairs are as far apart as the controller takes them to be, for any  *)
(* configurations that set_device_configuration's asserts let pass.        *)
THEOREM UsbBuffersApart == Spec => []BuffersApart
<1>1. BuffersInv => BuffersApart
  BY BuffersAreApart DEF BuffersApart
<1> QED
  BY <1>1, BuffersInvariant, PTL
=============================================================================
