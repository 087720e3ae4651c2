-------------------------------- MODULE I2c --------------------------------
(***************************************************************************)
(* The I2C driver: a queue of actions, the coroutine that works them off,  *)
(* the interrupt that resumes it, and the controller with its FIFOs.       *)
(*                                                                         *)
(* Everything but the controller runs in interrupts of one priority: an    *)
(* interrupt runs from its entry until the coroutine is suspended and the  *)
(* client has put all actions of its transfer.  The controller takes the   *)
(* next command out of its FIFO at any time, but a byte takes 90 us on the *)
(* bus: no byte ends while an interrupt runs.  Data are abstracted to the  *)
(* transfer they belong to; RESTART and STOP only frame the bytes.         *)
(***************************************************************************)
EXTENDS Naturals, Sequences

CONSTANTS
  Kinds,    \* the transfers clients ask for, as sequences of actions
  MaxAsked, \* bound: how many transfers are asked for
  TxDepth,  \* depth of the controller's transmit FIFO
  Capacity  \* size of the queue of actions

Action == [type : {"SetAddr", "RecoverBus", "Sync", "Write", "Read"},
           len : Nat, restart : BOOLEAN, cb : BOOLEAN]

(* What the clients keep to.  The last action, a Sync or a Read, has the   *)
(* callback.  A write that is synchronised begins with SetAddr, and none   *)
(* of its actions but the first write restarts.  In a transfer that reads, *)
(* the reads come last and the first of them restarts; before them         *)
(* something flushes the FIFO or is written to it.                         *)
Transfer(k) ==
  /\ k \in Seq(Action)
  /\ Len(k) \in 1..(Capacity - 1)
  /\ \A j \in 1..Len(k) :
       /\ k[j].cb <=> j = Len(k)
       /\ k[j].type \in {"Write", "Read"} => k[j].len > 0

SyncedWrite(k) ==
  /\ k[1].type = "SetAddr"
  /\ k[Len(k)].type = "Sync"
  /\ \A j \in 2..(Len(k) - 1) : k[j].type = "Write" /\ (j > 2 => ~k[j].restart)

LastRead(k) ==
  /\ k[1].type \in {"SetAddr", "RecoverBus", "Write"}
  /\ k[Len(k)].type = "Read"
  /\ \A j \in 2..Len(k) :
       /\ k[j].type = "Read" => (k[j].restart <=> k[j - 1].type # "Read")
       /\ k[j - 1].type = "Read" => k[j].type = "Read"

ASSUME KindsAssumption ==
  \A k \in Kinds : Transfer(k) /\ (SyncedWrite(k) \/ LastRead(k))

ASSUME SizesAssumption ==
  /\ TxDepth \in Nat \ {0}
  /\ Capacity \in Nat \ {0}

VARIABLES
  queue,     \* the queue of actions
  queueTick, \* queue_tick has a value
  w,         \* the coroutine: pc, what it awaits, and its variables i and rb
  hw,        \* tx FIFO, byte on the bus, rx FIFO, TX_ABRT, unmasked interrupt
  puts,      \* actions the client, in its interrupt or callback, still puts
  asked,     \* number of transfers the clients have asked for
  reports,   \* history: the callbacks, their transfer and argument
  got,       \* history: the transfers the bytes of the current read belong to
  broken     \* history: transfer and direction of the commands that failed

vars == <<queue, queueTick, w, hw, puts, asked, reports, got, broken>>

NoCmd == [t |-> 0, rd |-> FALSE]
Reset == [tx |-> << >>, shift |-> NoCmd, rx |-> << >>, abrt |-> FALSE,
          mask |-> "none"]

Init ==
  /\ queue = << >>
  /\ queueTick = FALSE
  /\ w = [pc |-> "next", awaits |-> "queue_tick", i |-> 0, rb |-> 0,
          recover |-> FALSE]
  /\ hw = Reset
  /\ puts = << >>
  /\ asked = 0
  /\ reports = << >>
  /\ got = << >>
  /\ broken = {}

Running == w.awaits = "none"
InInterrupt == Running \/ puts # << >>
At(pc) == Running /\ w.pc = pc
Doing(type) == Head(queue).type = type
TxEmpty(h) == h.tx = << >> /\ h.shift = NoCmd

-----------------------------------------------------------------------------
(* The client. *)

(* Action a as part of transfer t. *)
Of(a, t) ==
  [type |-> a.type, len |-> a.len, restart |-> a.restart, cb |-> a.cb, t |-> t]

(* It asks for a transfer, in an interrupt or in the callback of the last. *)
Ask ==
  /\ asked < MaxAsked
  /\ Len(reports) = asked
  /\ puts = << >>
  /\ Running => w.pc = "callback"
  /\ \E k \in Kinds : puts' = [j \in 1..Len(k) |-> Of(k[j], asked + 1)]
  /\ asked' = asked + 1
  /\ UNCHANGED <<queue, queueTick, w, hw, reports, got, broken>>

(* set_addr, write, read, sync, recover_bus: one action into the queue.    *)
Put ==
  /\ puts # << >>
  /\ Running => w.pc = "callback"
  /\ queue' = Append(queue, Head(puts))
  /\ puts' = Tail(puts)
  /\ IF w.awaits = "queue_tick"
       THEN w' = [w EXCEPT !.awaits = "none"] /\ UNCHANGED queueTick
       ELSE queueTick' = TRUE /\ UNCHANGED w
  /\ UNCHANGED <<hw, asked, reports, got, broken>>

-----------------------------------------------------------------------------
(* The coroutine.  Go and Await say where it goes on. *)

UnchangedByWorker == UNCHANGED <<puts, asked, broken>>

Go(pc) == w' = [w EXCEPT !.pc = pc]
GoRecover == w' = [[w EXCEPT !.pc = "finish"] EXCEPT !.recover = TRUE]
Await(event) ==
  /\ w' = [w EXCEPT !.awaits = "i2c_tick"]
  /\ hw' = [hw EXCEPT !.mask = event]

(* The next action, or co_await queue_tick. *)
NextAction ==
  /\ At("next")
  /\ IF queue # << >>
       THEN /\ w' = [pc |-> "begin", awaits |-> w.awaits, i |-> 0, rb |-> 0,
                  recover |-> w.recover]
            /\ UNCHANGED queueTick
       ELSE /\ w' = [w EXCEPT !.awaits = IF queueTick THEN "none" ELSE "queue_tick"]
            /\ queueTick' = FALSE
  /\ got' = << >>
  /\ UNCHANGED <<queue, hw, reports>> /\ UnchangedByWorker

(* Turning the controller off and on flushes its FIFOs. *)
BeginSetAddr ==
  /\ At("begin") /\ Doing("SetAddr")
  /\ hw' = [Reset EXCEPT !.mask = hw.mask]
  /\ Go("finish")
  /\ UNCHANGED <<queue, queueTick, reports, got>> /\ UnchangedByWorker

BeginRecoverBus ==
  /\ At("begin") /\ Doing("RecoverBus")
  /\ GoRecover
  /\ UNCHANGED <<queue, queueTick, hw, reports, got>> /\ UnchangedByWorker

BeginOther ==
  /\ At("begin") /\ (Doing("Sync") \/ Doing("Write") \/ Doing("Read"))
  /\ Go(IF Doing("Sync") \/ Head(queue).restart THEN "drain" ELSE "push")
  /\ UNCHANGED <<queue, queueTick, hw, reports, got>> /\ UnchangedByWorker

(* Faulty variant: errors of the last transfer are left standing. *)
DrainedKeepsError ==
  /\ At("drain") /\ hw.tx = << >>
  /\ Go(IF Doing("Sync") THEN "finish" ELSE "push")
  /\ UNCHANGED <<queue, queueTick, hw, reports, got>> /\ UnchangedByWorker

(* The FIFO is empty: Sync is done, Write and Read clear_error and go on.  *)
Drained ==
  /\ At("drain") /\ hw.tx = << >>
  /\ IF Doing("Sync") THEN UNCHANGED hw ELSE hw' = [hw EXCEPT !.abrt = FALSE]
  /\ Go(IF Doing("Sync") THEN "finish" ELSE "push")
  /\ UNCHANGED <<queue, queueTick, reports, got>> /\ UnchangedByWorker

(* The FIFO is not: wait until it is, or give up. *)
Draining ==
  /\ At("drain") /\ hw.tx # << >>
  /\ IF hw.abrt THEN GoRecover /\ UNCHANGED hw ELSE Await("tx_empty")
  /\ UNCHANGED <<queue, queueTick, reports, got>> /\ UnchangedByWorker

Pushed == w.i = Head(queue).len

(* What the controller does of a command written to data_cmd: the FIFO is  *)
(* held empty as long as TX_ABRT is set. *)
Command(h) ==
  IF h.abrt THEN h
  ELSE [h EXCEPT !.tx = Append(@, [t |-> Head(queue).t, rd |-> Doing("Read")])]

(* One byte of a Write; errors are only looked at when the FIFO is full.   *)
PushWrite ==
  /\ At("push") /\ Doing("Write")
  /\ CASE Pushed -> Go("finish") /\ UNCHANGED hw
       [] ~Pushed /\ Len(hw.tx) < TxDepth ->
            /\ hw' = Command(hw)
            /\ w' = [w EXCEPT !.i = @ + 1]
       [] OTHER -> IF hw.abrt THEN Go("finish") /\ UNCHANGED hw ELSE Await("tx_empty")
  /\ UNCHANGED <<queue, queueTick, reports, got>> /\ UnchangedByWorker

(* The head of the loop of a Read looks for errors, the wait does not.     *)
PushRead ==
  /\ At("push") /\ Doing("Read")
  /\ Go(CASE Pushed -> "fetch" [] ~Pushed /\ hw.abrt -> "finish" [] OTHER -> "room")
  /\ UNCHANGED <<queue, queueTick, hw, reports, got>> /\ UnchangedByWorker

(* One read command; what has arrived is taken out of the rx FIFO.         *)
Room ==
  /\ At("room")
  /\ IF Len(hw.tx) < TxDepth
       THEN /\ hw' = [Command(hw) EXCEPT !.rx = << >>]
            /\ w' = [pc |-> "push", awaits |-> w.awaits, i |-> w.i + 1,
                     rb |-> w.rb + Len(hw.rx), recover |-> w.recover]
            /\ got' = got \o hw.rx
       ELSE Await("tx_empty") /\ UNCHANGED got
  /\ UNCHANGED <<queue, queueTick, reports>> /\ UnchangedByWorker

(* Faulty variant: an error counts before the bytes that arrived. *)
FetchErrorFirst ==
  /\ At("fetch")
  /\ CASE w.rb = Head(queue).len \/ hw.abrt -> Go("finish") /\ UNCHANGED <<hw, got>>
       [] w.rb < Head(queue).len /\ ~hw.abrt /\ hw.rx # << >> ->
            /\ w' = [w EXCEPT !.rb = @ + 1]
            /\ hw' = [hw EXCEPT !.rx = Tail(@)]
            /\ got' = Append(got, Head(hw.rx))
       [] OTHER -> Await("rx_full") /\ UNCHANGED got
  /\ UNCHANGED <<queue, queueTick, reports>> /\ UnchangedByWorker

(* The rest of the bytes of a Read. *)
Fetch ==
  /\ At("fetch")
  /\ CASE w.rb = Head(queue).len -> Go("finish") /\ UNCHANGED <<hw, got>>
       [] w.rb < Head(queue).len /\ hw.rx # << >> ->
            /\ w' = [w EXCEPT !.rb = @ + 1]
            /\ hw' = [hw EXCEPT !.rx = Tail(@)]
            /\ got' = Append(got, Head(hw.rx))
       [] w.rb < Head(queue).len /\ hw.rx = << >> /\ hw.abrt ->
            Go("finish") /\ UNCHANGED <<hw, got>>
       [] OTHER -> Await("rx_full") /\ UNCHANGED got
  /\ UNCHANGED <<queue, queueTick, reports>> /\ UnchangedByWorker

(* The Finally of the loop: the callback hears whether there is an error.  *)
Finish ==
  /\ At("finish")
  /\ Go("callback")
  /\ reports' = IF Head(queue).cb
                  THEN Append(reports, [t |-> Head(queue).t, ok |-> ~hw.abrt])
                  ELSE reports
  /\ UNCHANGED <<queue, queueTick, hw, got>> /\ UnchangedByWorker

(* Faulty variant: an action that failed is left in the queue. *)
PopUnlessFailed ==
  /\ At("callback") /\ puts = << >>
  /\ queue' = IF hw.abrt /\ Doing("Read") THEN queue ELSE Tail(queue)
  /\ IF w.recover THEN hw' = Reset ELSE UNCHANGED hw
  /\ w' = [[w EXCEPT !.pc = "next"] EXCEPT !.recover = FALSE]
  /\ UNCHANGED <<queueTick, reports, got>> /\ UnchangedByWorker

(* After the callback the action leaves the queue; recover() may follow.   *)
Pop ==
  /\ At("callback") /\ puts = << >>
  /\ queue' = Tail(queue)
  /\ IF w.recover THEN hw' = Reset ELSE UNCHANGED hw
  /\ w' = [[w EXCEPT !.pc = "next"] EXCEPT !.recover = FALSE]
  /\ UNCHANGED <<queueTick, reports, got>> /\ UnchangedByWorker

Worker ==
  \/ NextAction \/ BeginSetAddr \/ BeginRecoverBus \/ BeginOther
  \/ Drained \/ Draining \/ PushWrite \/ PushRead \/ Room \/ Fetch
  \/ Finish \/ Pop

-----------------------------------------------------------------------------
(* The controller and its interrupt. *)

Raised ==
  \/ hw.abrt
  \/ hw.mask = "tx_empty" /\ TxEmpty(hw)
  \/ hw.mask = "rx_full" /\ hw.rx # << >>

(* i2c_irq: nobody looks at an error while the coroutine has no action.    *)
Irq ==
  /\ ~InInterrupt
  /\ Raised
  /\ hw' = [hw EXCEPT !.mask = "none"]
  /\ w' = [w EXCEPT !.awaits = IF @ = "i2c_tick" THEN "none" ELSE @]
  /\ UNCHANGED <<queue, queueTick, puts, asked, reports, got, broken>>

UnchangedByBus == UNCHANGED <<queue, queueTick, w, puts, asked, reports, got>>

(* The controller takes the next command out of its FIFO. *)
TakeCommand ==
  /\ hw.shift = NoCmd
  /\ hw.tx # << >>
  /\ hw' = [[hw EXCEPT !.shift = Head(hw.tx)] EXCEPT !.tx = Tail(hw.tx)]
  /\ UNCHANGED broken /\ UnchangedByBus

ByteDone ==
  /\ ~InInterrupt
  /\ hw.shift # NoCmd
  /\ hw' = [[hw EXCEPT !.shift = NoCmd] EXCEPT
               !.rx = IF hw.shift.rd THEN Append(hw.rx, hw.shift.t) ELSE hw.rx]
  /\ UNCHANGED broken /\ UnchangedByBus

(* Nobody acknowledges, or the bus is lost: TX_ABRT, the FIFO is flushed.  *)
ByteFails ==
  /\ ~InInterrupt
  /\ hw.shift # NoCmd
  /\ hw' = [tx |-> << >>, shift |-> NoCmd, rx |-> hw.rx, abrt |-> TRUE,
            mask |-> hw.mask]
  /\ broken' = broken \cup {hw.shift}
  /\ UnchangedByBus

Bus == TakeCommand \/ ByteDone \/ ByteFails

Next == Ask \/ Put \/ Worker \/ Irq \/ Bus

(* Interrupts end and the bus does not stand still. *)
Spec ==
  /\ Init /\ [][Next]_vars
  /\ WF_vars(Put) /\ WF_vars(Worker) /\ WF_vars(Irq) /\ WF_vars(Bus)

-----------------------------------------------------------------------------
(* Properties. *)

Broke(t, rd) == [t |-> t, rd |-> rd] \in broken
LastReport == reports[Len(reports)]

(* What a callback hears is true: a transfer reported as failed did fail   *)
(* itself, not the one before it; a write whose Sync reports success was   *)
(* acknowledged to the last byte; and a read that succeeds has all its     *)
(* bytes, none of them left over from another transfer.                    *)
ReportsTruth ==
  At("callback") /\ Head(queue).cb =>
    LET r == LastReport
    IN /\ ~r.ok => Broke(r.t, TRUE) \/ Broke(r.t, FALSE)
       /\ r.ok /\ Doing("Sync") => ~Broke(r.t, FALSE)
       /\ r.ok /\ Doing("Read") =>
            /\ ~Broke(r.t, TRUE)
            /\ got = [j \in 1..Head(queue).len |-> r.t]

(* The driver's assertions: an action finds room in the queue, a Read      *)
(* begins with an empty rx FIFO, and no more bytes come than asked for.    *)
AssertsHold ==
  /\ Len(queue) <= Capacity
  /\ At("begin") /\ Doing("Read") => hw.rx = << >>
  /\ w.pc \in {"push", "room", "fetch"} /\ Doing("Read") =>
       w.rb + Len(hw.rx) <= Head(queue).len

(* Each transfer is reported once, in order, and in the end: no interrupt  *)
(* that the coroutine waits for is lost or left masked.                    *)
Client == INSTANCE Transfers
ImplementsTransfers == Client!Spec

(* What clear_error's comment is after: no address that is not             *)
(* acknowledged goes undetected. The write that selects the register to    *)
(* read has no report of its own; the read clears its error.               *)
NacksDetected ==
  At("callback") /\ Head(queue).cb /\ LastReport.ok => ~Broke(LastReport.t, FALSE)
=============================================================================
