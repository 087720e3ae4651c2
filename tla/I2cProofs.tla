----------------------------- MODULE I2cProofs -----------------------------
(***************************************************************************)
(* Proofs about the I2C driver: its callbacks tell the truth about their   *)
(* transfer, its assertions hold, and every step is one of the clients'    *)
(* view of it, for any transfers of the kinds the driver is made for, any  *)
(* number of them, and any sizes of the FIFO and of the queue that hold a  *)
(* transfer.                                                               *)
(***************************************************************************)
EXTENDS I2c, SequenceTheorems, TLAPS

Events == {"none", "queue_tick", "i2c_tick"}
Pcs == {"next", "begin", "drain", "push", "room", "fetch", "finish", "callback"}
Cmd == [t : Nat, rd : BOOLEAN]
Types == {"SetAddr", "RecoverBus", "Sync", "Write", "Read"}
Queued == [type : Types, len : Nat, restart : BOOLEAN, cb : BOOLEAN, t : Nat]

TypeOK ==
  /\ queue \in Seq(Queued)
  /\ puts \in Seq(Queued)
  /\ queueTick \in BOOLEAN
  /\ w \in [pc : Pcs, awaits : Events, i : Nat, rb : Nat, recover : BOOLEAN]
  /\ hw \in [tx : Seq(Cmd), shift : Cmd, rx : Seq(Nat), abrt : BOOLEAN,
             mask : {"none", "tx_empty", "rx_full"}]
  /\ asked \in Nat
  /\ reports \in Seq([t : Nat, ok : BOOLEAN])
  /\ got \in Seq(Nat)
  /\ broken \subseteq Cmd

Stale == w.pc = "callback" /\ queue[1].cb
Begun == asked = Len(reports) + 1
Off == IF Stale THEN 1 ELSE 0
Reading == w.pc \in {"push", "room", "fetch"} /\ queue[1].type = "Read"
Busy == IF hw.shift = NoCmd THEN 0 ELSE 1
Quiet == hw.tx = << >> /\ hw.shift = NoCmd
Own == hw.shift = NoCmd \/ hw.shift.t = asked

(* Where the coroutine is. *)
ControlOK ==
  /\ w.pc # "next" => queue # << >>
  /\ w.awaits = "queue_tick" => w.pc = "next"
  /\ w.awaits = "i2c_tick" =>
       \/ w.pc \in {"drain", "room", "fetch"}
       \/ w.pc = "push" /\ queue[1].type = "Write"
  /\ w.pc = "drain" => queue[1].type = "Sync" \/ queue[1].restart
  /\ w.pc \in {"drain", "push"} => queue[1].type \in {"Sync", "Write", "Read"}
  /\ w.pc = "push" => queue[1].type # "Sync" /\ w.i <= queue[1].len
  /\ w.pc \in {"room", "fetch"} => queue[1].type = "Read"
  /\ w.pc = "room" => w.i < queue[1].len
  /\ w.pc = "fetch" => w.i = queue[1].len
  /\ w.pc \in {"begin", "drain"} => w.i = 0 /\ w.rb = 0 /\ got = << >>
  /\ w.recover => w.pc \in {"finish", "callback"}
  /\ w.pc \in {"finish", "callback"} => (w.recover <=> queue[1].type = "RecoverBus")

(* The actions of a transfer that is under way. *)
Position(k, n) ==
  /\ n \in 1..Len(k) /\ (Stale => n = 1)
  /\ n = Len(k) + 1 + Off - Len(queue) - Len(puts)
  /\ \A j \in 1..Len(queue) :
       j > Off => queue[j] = Of(k[Len(k) - Len(puts) - Len(queue) + j], asked)
  /\ \A j \in 1..Len(puts) : puts[j] = Of(k[Len(k) - Len(puts) + j], asked)

(* The FIFOs and the byte on the bus. *)
PipeOK ==
  /\ hw.abrt => Quiet
  /\ hw.shift = NoCmd \/ hw.shift.t \in 1..asked
  /\ \A j \in 1..Len(hw.tx) : hw.tx[j].t = asked /\ (hw.tx[j].rd <=> Reading)
  /\ ~Begun => hw.tx = << >>
  /\ ~Reading => hw.rx = << >> /\ ~hw.shift.rd
  /\ Reading =>
       /\ Own
       /\ \A j \in 1..Len(hw.rx) : hw.rx[j] = asked
       /\ Len(got) = w.rb
       /\ \A j \in 1..Len(got) : got[j] = asked
       /\ ~hw.abrt /\ (hw.shift = NoCmd \/ hw.shift.rd) =>
            w.rb + Len(hw.rx) + Len(hw.tx) + Busy = w.i
       /\ hw.shift # NoCmd /\ ~hw.shift.rd =>
            w.rb = 0 /\ hw.rx = << >> /\ Len(hw.tx) = w.i
       /\ hw.abrt => w.rb + Len(hw.rx) <= w.i
       /\ w.pc = "push" => hw.rx = << >>
  /\ w.pc \in {"finish", "callback"} /\ queue[1].type = "Read" =>
       /\ Quiet
       /\ ~hw.abrt => /\ Len(got) = queue[1].len
                       /\ \A j \in 1..Len(got) : got[j] = queue[1].t
  /\ w.pc \in {"finish", "callback"} /\ queue[1].type = "Sync" => hw.tx = << >>
  /\ \A b \in broken : b.t \in 1..asked

(* Errors of the transfer under way: k's action n is the next to be done.  *)
Untouched(n) ==
  /\ n = 1
  /\ \/ Stale
     \/ w.pc \in {"next", "begin", "drain"}
     \/ w.pc = "push" /\ w.i = 0
     \/ w.pc = "finish" /\ w.recover
     \/ w.pc = "callback" /\ w.recover
WriteErrors(k, n) ==
  IF n = 1 /\ (Stale \/ w.pc \in {"next", "begin"})
    THEN hw.tx = << >> /\ hw.shift.t # asked /\ ~Broke(asked, FALSE)
    ELSE /\ hw.abrt <=> Broke(asked, FALSE)
         /\ Own
         /\ n = 1 \/ (n = 2 /\ w.pc \in {"next", "begin", "drain"}) =>
              Quiet /\ ~hw.abrt
ToRead(k, n) ==
  \/ k[n].type # "Read"
  \/ k[n].restart /\ w.pc \in {"next", "begin", "drain"}
ReadErrors(k, n) ==
  IF ToRead(k, n)
    THEN /\ ~Broke(asked, TRUE)
         /\ Untouched(n) => hw.tx = << >>
         /\ ~Untouched(n) => Own \/ hw.tx # << >>
    ELSE /\ Own
         /\ hw.abrt => Broke(asked, FALSE) \/ Broke(asked, TRUE)
         /\ Broke(asked, TRUE) => hw.abrt
         /\ ~Reading => Quiet
Underway ==
  \E k \in Kinds : \E n \in 1..Len(k) :
    /\ Position(k, n)
    /\ SyncedWrite(k) => WriteErrors(k, n)
    /\ LastRead(k) => ReadErrors(k, n)

(* The reports, and the action that has made the last one. *)
ReportsOK ==
  /\ \A j \in 1..Len(reports) : reports[j].t = j
  /\ IF asked = Len(reports) THEN puts = << >> /\ Len(queue) = Off
                            ELSE Begun /\ Underway
Told ==
  Stale =>
    /\ Len(reports) > 0 /\ queue[1].t = Len(reports)
    /\ queue[1].type \in {"Sync", "Read"}
    /\ LastReport.ok <=> ~hw.abrt
    /\ ~LastReport.ok => Broke(LastReport.t, TRUE) \/ Broke(LastReport.t, FALSE)
    /\ LastReport.ok => ~Broke(LastReport.t, queue[1].type = "Read")

IInv == TypeOK /\ ControlOK /\ PipeOK /\ ReportsOK /\ Told


-----------------------------------------------------------------------------
(* Init establishes the invariant. *)
LEMMA InitIInv == Init => IInv
<1> SUFFICES ASSUME Init PROVE IInv
  OBVIOUS
<1>1. /\ queue = << >> /\ puts = << >> /\ reports = << >> /\ got = << >>
      /\ asked = 0 /\ broken = {} /\ queueTick = FALSE
      /\ w.pc = "next" /\ w.awaits = "queue_tick" /\ ~w.recover
      /\ hw.tx = << >> /\ hw.shift = NoCmd /\ hw.rx = << >> /\ ~hw.abrt
  BY DEF Init, Reset
<1>2. TypeOK
  <2>1. w \in [pc : Pcs, awaits : Events, i : Nat, rb : Nat, recover : BOOLEAN]
    BY DEF Init, Pcs, Events
  <2>2. hw \in [tx : Seq(Cmd), shift : Cmd, rx : Seq(Nat), abrt : BOOLEAN,
               mask : {"none", "tx_empty", "rx_full"}]
    <3>1. << >> \in Seq(Cmd) /\ << >> \in Seq(Nat) /\ NoCmd \in Cmd
      BY EmptySeq DEF NoCmd, Cmd
    <3> QED
      BY <3>1 DEF Init, Reset
  <2>3. /\ queue \in Seq(Queued) /\ puts \in Seq(Queued) /\ got \in Seq(Nat)
        /\ reports \in Seq([t : Nat, ok : BOOLEAN])
    BY <1>1, EmptySeq
  <2>4. queueTick \in BOOLEAN /\ asked \in Nat /\ broken \subseteq Cmd
    BY <1>1
  <2> QED
    BY <2>1, <2>2, <2>3, <2>4 DEF TypeOK
<1>3. ControlOK
  BY <1>1 DEF ControlOK
<1>4. ~Reading /\ ~Stale /\ Off = 0 /\ ~Begun
  BY <1>1 DEF Reading, Stale, Off, Begun
<1>5. PipeOK
  BY <1>1, <1>4 DEF PipeOK, Quiet, NoCmd
<1>6. ReportsOK
  BY <1>1, <1>4 DEF ReportsOK
<1>7. Told
  BY <1>4 DEF Told
<1> QED
  BY <1>2, <1>3, <1>5, <1>6, <1>7 DEF IInv

(* Where the transfer under way is, is what the head of the queue says. *)
LEMMA HeadAt ==
  ASSUME IInv, NEW k \in Kinds, NEW n \in 1..Len(k), Position(k, n),
         queue # << >>, ~Stale
  PROVE  queue[1] = Of(k[n], asked)
<1>1. Off = 0 /\ Transfer(k)
  BY KindsAssumption DEF Off
<1>2. Len(queue) \in Nat \ {0} /\ Len(puts) \in Nat /\ Len(k) \in Nat
  BY <1>1, EmptySeq DEF IInv, TypeOK, Transfer
<1>3. 1 \in 1..Len(queue) /\ 1 > Off
  BY <1>1, <1>2
<1>4. Len(k) - Len(puts) - Len(queue) + 1 = n
  BY <1>1, <1>2 DEF Position
<1> QED
  BY <1>3, <1>4 DEF Position

(* While the coroutine is at an action whose report is still to come, the  *)
(* action is one of the transfer under way.                                *)
LEMMA Current ==
  ASSUME IInv, w.pc # "next", ~Stale
  PROVE  /\ Begun /\ asked \in Nat \ {0}
         /\ \E k \in Kinds : \E n \in 1..Len(k) :
              /\ Position(k, n)
              /\ SyncedWrite(k) => WriteErrors(k, n)
              /\ LastRead(k) => ReadErrors(k, n)
              /\ Transfer(k)
              /\ SyncedWrite(k) \/ LastRead(k)
              /\ queue # << >> /\ queue[1] = Of(k[n], asked)
<1>1. queue # << >> /\ Off = 0
  BY DEF IInv, ControlOK, Off
<1>2. Begun /\ Underway
  BY <1>1 DEF IInv, ReportsOK, TypeOK
<1>. PICK k \in Kinds : \E n \in 1..Len(k) :
       /\ Position(k, n)
       /\ SyncedWrite(k) => WriteErrors(k, n)
       /\ LastRead(k) => ReadErrors(k, n)
  BY <1>2 DEF Underway
<1>3. PICK n \in 1..Len(k) :
        /\ Position(k, n)
        /\ SyncedWrite(k) => WriteErrors(k, n)
        /\ LastRead(k) => ReadErrors(k, n)
  OBVIOUS
<1>4. Transfer(k) /\ (SyncedWrite(k) \/ LastRead(k))
  BY KindsAssumption
<1>5. queue[1] = Of(k[n], asked)
  BY <1>1, <1>3, HeadAt
<1> QED
  <2>1. asked \in Nat \ {0}
    BY <1>2 DEF Begun, IInv, TypeOK
  <2> QED
    BY <1>1, <1>2, <1>3, <1>4, <1>5, <2>1

-----------------------------------------------------------------------------
(* The steps of the clients. *)

LEMMA AskKeeps == IInv /\ Ask => IInv'
<1> SUFFICES ASSUME IInv, Ask PROVE IInv'
  OBVIOUS
<1>1. /\ asked' = asked + 1 /\ asked = Len(reports) /\ puts = << >>
      /\ UNCHANGED <<queue, queueTick, w, hw, reports, got, broken>>
      /\ Len(queue) = Off /\ asked \in Nat /\ ~Begun /\ hw.tx = << >>
  BY DEF Ask, IInv, TypeOK, ReportsOK, Begun, PipeOK
<1>2. PICK k \in Kinds : puts' = [j \in 1..Len(k) |-> Of(k[j], asked + 1)]
  BY DEF Ask
<1>3. Transfer(k) /\ (SyncedWrite(k) \/ LastRead(k)) /\ Len(k) \in Nat \ {0}
  BY KindsAssumption DEF Transfer
<1>4. puts' \in Seq(Queued) /\ Len(puts') = Len(k)
  <2>1. \A j \in 1..Len(k) : Of(k[j], asked + 1) \in Queued
    <3> SUFFICES ASSUME NEW j \in 1..Len(k)
                 PROVE  Of(k[j], asked + 1) \in Queued
      OBVIOUS
    <3>1. k[j] \in Action /\ asked + 1 \in Nat
      BY <1>1, <1>3, ElementOfSeq DEF Transfer
    <3>2. \A a \in Action, t \in Nat : Of(a, t) \in Queued
      BY DEF Action, Of, Queued, Types
    <3> QED
      BY <3>1, <3>2
  <2>2. puts' \in [1..Len(k) -> Queued]
    BY <1>2, <2>1
  <2> QED
    BY <1>2, <1>3, <2>2, IsASeq, LenProperties
<1>5. /\ Stale' = Stale /\ Reading' = Reading /\ Off' = Off /\ Begun'
      /\ Off \in {0, 1} /\ Len(queue) \in {0, 1}
      /\ w.pc # "next" => Stale
  <2>1. Off \in {0, 1} /\ (~Stale => Off = 0)
    BY DEF Off
  <2>2. Begun'
    BY <1>1 DEF Begun
  <2>3. w.pc # "next" => Len(queue) # 0
    BY DEF IInv, ControlOK, TypeOK
  <2> QED
    BY <1>1, <2>1, <2>2, <2>3 DEF Stale, Reading, Off
<1>6. ~Reading
  BY <1>5 DEF Stale, Reading
<1>7. TypeOK'
  BY <1>1, <1>4 DEF IInv, TypeOK
<1>8. ControlOK'
  BY <1>1 DEF IInv, ControlOK
<1>9. PipeOK'
  <2>1. hw.shift = NoCmd \/ hw.shift.t \in 1..asked'
    BY <1>1 DEF IInv, PipeOK
  <2>2. \A b \in broken : b.t \in 1..asked'
    BY <1>1 DEF IInv, PipeOK
  <2>3. \A j \in 1..Len(hw.tx) : FALSE
    BY <1>1
  <2> QED
    BY <1>1, <1>5, <1>6, <2>1, <2>2, <2>3 DEF IInv, PipeOK, Quiet
<1>10. Position(k, 1)'
  <2>1. 1 = Len(k) + 1 + Off - Len(queue) - Len(puts')
    BY <1>1, <1>3, <1>4, <1>5
  <2>2. \A j \in 1..Len(queue) : ~(j > Off)
    BY <1>1, <1>5
  <2>3. \A j \in 1..Len(puts') :
           puts'[j] = Of(k[Len(k) - Len(puts') + j], asked')
    <3> SUFFICES ASSUME NEW j \in 1..Len(puts')
                 PROVE  puts'[j] = Of(k[Len(k) - Len(puts') + j], asked')
      OBVIOUS
    <3>1. Len(k) - Len(puts') + j = j
      BY <1>3, <1>4
    <3> QED
      BY <3>1, <1>1, <1>2, <1>4
  <2> QED
    BY <1>1, <1>3, <1>5, <2>1, <2>2, <2>3 DEF Position
<1>11. ~Broke(asked', FALSE) /\ ~Broke(asked', TRUE) /\ hw.shift.t # asked'
  <2>1. \A b \in broken : b.t # asked'
    BY <1>1 DEF IInv, PipeOK
  <2>2. hw.shift.t # asked'
    BY <1>1 DEF IInv, PipeOK, NoCmd
  <2> QED
    BY <2>1, <2>2 DEF Broke
<1>12. ReportsOK'
  <2>1. SyncedWrite(k) => WriteErrors(k, 1)'
    BY <1>1, <1>5, <1>11 DEF WriteErrors, Broke
  <2>2. LastRead(k) => ReadErrors(k, 1)'
    BY <1>1, <1>5, <1>11 DEF LastRead, ReadErrors, ToRead, Untouched, Broke
  <2>3. Underway'
    <3>1. 1 \in 1..Len(k)
      BY <1>3
    <3> QED
      BY <1>10, <2>1, <2>2, <3>1 DEF Underway
  <2>4. asked' # Len(reports')
    BY <1>1
  <2> QED
    BY <1>1, <1>5, <2>3, <2>4 DEF IInv, ReportsOK
<1>13. Told'
  BY <1>1, <1>5 DEF IInv, Told, LastReport, Broke
<1> QED
  BY <1>7, <1>8, <1>9, <1>12, <1>13 DEF IInv

LEMMA PutKeeps == IInv /\ Put => IInv'
<1> SUFFICES ASSUME IInv, Put PROVE IInv'
  OBVIOUS
<1>1. /\ puts # << >> /\ puts' = Tail(puts) /\ queue' = Append(queue, Head(puts))
      /\ UNCHANGED <<hw, asked, reports, got, broken>>
      /\ w'.pc = w.pc /\ w'.i = w.i /\ w'.rb = w.rb /\ w'.recover = w.recover
      /\ w'.awaits = w.awaits \/ w'.awaits = "none"
      /\ w' \in [pc : Pcs, awaits : Events, i : Nat, rb : Nat, recover : BOOLEAN]
      /\ queueTick' \in BOOLEAN
  BY DEF Put, IInv, TypeOK, Events
<1>2. /\ puts \in Seq(Queued) /\ queue \in Seq(Queued)
      /\ Len(puts) \in Nat \ {0} /\ Len(queue) \in Nat
      /\ Len(puts') = Len(puts) - 1 /\ Len(queue') = Len(queue) + 1
      /\ puts' \in Seq(Queued) /\ queue' \in Seq(Queued)
      /\ \A j \in 1..Len(queue) : queue'[j] = queue[j]
      /\ queue'[Len(queue) + 1] = puts[1]
      /\ \A j \in 1..Len(puts') : puts'[j] = puts[j + 1]
  BY <1>1, AppendProperties, HeadTailProperties DEF IInv, TypeOK
<1>3. w.pc # "next" => queue # << >> /\ queue'[1] = queue[1]
  BY <1>2 DEF IInv, ControlOK
<1>4. /\ Stale' = Stale /\ Reading' = Reading /\ Off' = Off /\ Begun' = Begun
      /\ queue' # << >>
  <2>1. Stale' = Stale /\ Reading' = Reading
    BY <1>1, <1>3 DEF Stale, Reading
  <2> QED
    BY <1>1, <1>2, <2>1 DEF Off, Begun
<1>5. TypeOK'
  BY <1>1, <1>2 DEF IInv, TypeOK
<1>6. ControlOK'
  BY <1>1, <1>3, <1>4 DEF IInv, ControlOK
<1>7. PipeOK'
  BY <1>1, <1>3, <1>4 DEF IInv, PipeOK, Quiet, Own, Busy
<1>8. Begun /\ Underway
  BY <1>1 DEF IInv, ReportsOK
<1>9. PICK k \in Kinds : \E n \in 1..Len(k) :
        /\ Position(k, n)
        /\ SyncedWrite(k) => WriteErrors(k, n)
        /\ LastRead(k) => ReadErrors(k, n)
  BY <1>8 DEF Underway
<1>10. PICK n \in 1..Len(k) :
        /\ Position(k, n)
        /\ SyncedWrite(k) => WriteErrors(k, n)
        /\ LastRead(k) => ReadErrors(k, n)
  BY <1>9
<1>11. Position(k, n)'
  <2>1. Off \in {0, 1} /\ Len(k) \in Nat
    BY KindsAssumption DEF Off, Transfer
  <2>2. n = Len(k) + 1 + Off - Len(queue') - Len(puts')
    BY <1>2, <1>10, <2>1 DEF Position
  <2>3. \A j \in 1..Len(queue') : j > Off =>
           queue'[j] = Of(k[Len(k) - Len(puts') - Len(queue') + j], asked)
    <3> SUFFICES ASSUME NEW j \in 1..Len(queue'), j > Off
                 PROVE  queue'[j] = Of(k[Len(k) - Len(puts') - Len(queue') + j], asked)
      OBVIOUS
    <3>1. CASE j \in 1..Len(queue)
      <4>1. queue[j] = Of(k[Len(k) - Len(puts) - Len(queue) + j], asked)
        BY <1>10, <3>1 DEF Position
      <4>2. Len(k) - Len(puts') - Len(queue') + j
              = Len(k) - Len(puts) - Len(queue) + j
        BY <1>2, <2>1
      <4> QED
        BY <4>1, <4>2, <3>1, <1>2
    <3>2. CASE j = Len(queue) + 1
      <4>1. 1 \in 1..Len(puts) /\ puts[1] = Of(k[Len(k) - Len(puts) + 1], asked)
        BY <1>10, <1>2 DEF Position
      <4>2. Len(k) - Len(puts') - Len(queue') + j = Len(k) - Len(puts) + 1
        BY <1>2, <2>1, <3>2
      <4> QED
        BY <4>1, <4>2, <3>2, <1>2
    <3> QED
      BY <3>1, <3>2, <1>2
  <2>4. \A j \in 1..Len(puts') : puts'[j] = Of(k[Len(k) - Len(puts') + j], asked)
    <3> SUFFICES ASSUME NEW j \in 1..Len(puts')
                 PROVE  puts'[j] = Of(k[Len(k) - Len(puts') + j], asked)
      OBVIOUS
    <3>1. j + 1 \in 1..Len(puts)
      BY <1>2
    <3>2. puts[j + 1] = Of(k[Len(k) - Len(puts) + (j + 1)], asked)
      BY <1>10, <3>1 DEF Position
    <3>3. Len(k) - Len(puts) + (j + 1) = Len(k) - Len(puts') + j
      BY <1>2, <2>1
    <3> QED
      BY <1>2, <3>2, <3>3
  <2> QED
    BY <1>1, <1>4, <1>10, <2>2, <2>3, <2>4 DEF Position
<1>12. ReportsOK'
  <2>1. SyncedWrite(k) => WriteErrors(k, n)'
    BY <1>1, <1>4, <1>10 DEF WriteErrors, Broke, Own, Quiet
  <2>2. LastRead(k) => ReadErrors(k, n)'
    BY <1>1, <1>4, <1>10 DEF ReadErrors, ToRead, Untouched, Broke, Own, Quiet
  <2>3. Underway'
    BY <1>11, <2>1, <2>2 DEF Underway
  <2> QED
    BY <1>1, <1>4, <1>8, <2>3 DEF IInv, ReportsOK, Begun
<1>13. Told'
  BY <1>1, <1>3, <1>4 DEF IInv, Told, LastReport, Broke, Stale
<1> QED
  BY <1>5, <1>6, <1>7, <1>12, <1>13 DEF IInv

-----------------------------------------------------------------------------
(* The steps of the coroutine. *)

LEMMA NextActionKeeps == IInv /\ NextAction => IInv'
<1> SUFFICES ASSUME IInv, NextAction PROVE IInv'
  OBVIOUS
<1> w \in [pc : Pcs, awaits : Events, i : Nat, rb : Nat, recover : BOOLEAN]
  BY DEF IInv, TypeOK
<1>0. /\ w.pc = "next" /\ w.awaits = "none" /\ got' = << >>
      /\ UNCHANGED <<queue, hw, reports, puts, asked, broken>>
  BY DEF NextAction, At, Running, UnchangedByWorker
<1>1. /\ w.pc = "next" /\ w.awaits = "none" /\ got' = << >>
      /\ UNCHANGED <<queue, hw, reports, puts, asked, broken>>
      /\ w' \in [pc : Pcs, awaits : Events, i : Nat, rb : Nat, recover : BOOLEAN]
      /\ queueTick' \in BOOLEAN
      /\ w'.recover = w.recover
      /\ \/ /\ queue # << >> /\ w'.pc = "begin" /\ w'.i = 0 /\ w'.rb = 0
            /\ w'.awaits = "none"
         \/ w'.pc = "next" /\ w'.awaits \in {"none", "queue_tick"}
  <2>1. CASE queue # << >>
    <3>1. /\ w' = [pc |-> "begin", awaits |-> w.awaits, i |-> 0, rb |-> 0,
                   recover |-> w.recover]
          /\ queueTick' = queueTick
      BY <2>1 DEF NextAction
    <3> QED
      BY <2>1, <3>1, <1>0 DEF Pcs, Events, IInv, TypeOK
  <2>2. CASE queue = << >>
    <3>1. PICK e \in {"none", "queue_tick"} :
            w' = [w EXCEPT !.awaits = e] /\ queueTick' = FALSE
      BY <2>2 DEF NextAction
    <3> QED
      BY <2>2, <3>1, <1>0 DEF Pcs, Events
  <2> QED
    BY <2>1, <2>2
<1>3. /\ ~Stale /\ ~Stale' /\ ~Reading /\ ~Reading' /\ Off' = Off
      /\ Begun' = Begun /\ Reading' = Reading
  BY <1>1 DEF Stale, Reading, Off, Begun
<1>4. TypeOK'
  BY <1>1, EmptySeq DEF IInv, TypeOK
<1>5. ControlOK'
  BY <1>1 DEF IInv, ControlOK
<1>6. PipeOK'
  BY <1>1, <1>3 DEF IInv, PipeOK, Quiet
<1>7. ASSUME asked # Len(reports) PROVE Underway'
  <2>1. PICK k \in Kinds : \E n \in 1..Len(k) :
         /\ Position(k, n)
         /\ SyncedWrite(k) => WriteErrors(k, n)
         /\ LastRead(k) => ReadErrors(k, n)
    BY <1>7 DEF IInv, ReportsOK, Underway
  <2>2. PICK n \in 1..Len(k) :
         /\ Position(k, n)
         /\ SyncedWrite(k) => WriteErrors(k, n)
         /\ LastRead(k) => ReadErrors(k, n)
    BY <2>1
  <2>3. Position(k, n)'
    BY <1>1, <1>3, <2>2 DEF Position
  <2>4. SyncedWrite(k) => WriteErrors(k, n)'
    BY <1>1, <1>3, <2>2 DEF WriteErrors, Broke, Own, Quiet
  <2>5. LastRead(k) => ReadErrors(k, n)'
    BY <1>1, <1>3, <2>2 DEF ReadErrors, ToRead, Untouched, Broke, Own, Quiet
  <2> QED
    BY <1>1, <2>3, <2>4, <2>5 DEF Underway
<1>8. ReportsOK'
  BY <1>1, <1>3, <1>7 DEF IInv, ReportsOK, Begun
<1>9. Told'
  BY <1>3 DEF Told
<1> QED
  BY <1>4, <1>5, <1>6, <1>8, <1>9 DEF IInv

(* A step of an action of a transfer under way: it is left to show what    *)
(* the step does to the controller and to the errors.                      *)
LEMMA ActionStep ==
  ASSUME IInv, w.pc # "next", ~Stale, ~Stale',
         UNCHANGED <<queue, puts, asked, reports>>,
         TypeOK', ControlOK', PipeOK',
         \A k \in Kinds : \A n \in 1..Len(k) :
           /\ Transfer(k) /\ queue[1] = Of(k[n], asked)
           /\ SyncedWrite(k) => WriteErrors(k, n)
           /\ LastRead(k) => ReadErrors(k, n)
           => /\ SyncedWrite(k) => WriteErrors(k, n)'
              /\ LastRead(k) => ReadErrors(k, n)'
  PROVE  IInv'
<1>1. PICK k \in Kinds : \E n \in 1..Len(k) :
         /\ Position(k, n)
         /\ SyncedWrite(k) => WriteErrors(k, n)
         /\ LastRead(k) => ReadErrors(k, n)
         /\ Transfer(k)
         /\ queue[1] = Of(k[n], asked)
  BY Current
<1>2. PICK n \in 1..Len(k) :
         /\ Position(k, n)
         /\ SyncedWrite(k) => WriteErrors(k, n)
         /\ LastRead(k) => ReadErrors(k, n)
         /\ Transfer(k)
         /\ queue[1] = Of(k[n], asked)
  BY <1>1
<1>3. Position(k, n)'
  BY <1>2 DEF Position, Off
<1>4. (SyncedWrite(k) => WriteErrors(k, n)') /\ (LastRead(k) => ReadErrors(k, n)')
  BY <1>2
<1>5. Underway'
  BY <1>3, <1>4 DEF Underway
<1>6. ReportsOK'
  <2>1. Begun /\ asked \in Nat /\ Len(reports) \in Nat
    BY Current DEF IInv, TypeOK
  <2> QED
    BY <1>5, <2>1 DEF IInv, ReportsOK, Begun
<1>7. Told'
  BY DEF Told
<1> QED
  BY <1>6, <1>7 DEF IInv

(* What an action finds: the queue is not empty, its head is an action of  *)
(* the transfer under way.                                                 *)
LEMMA AtAction ==
  ASSUME IInv, Running, w.pc \notin {"next", "callback"}
  PROVE  /\ queue # << >> /\ Head(queue) = queue[1] /\ queue[1] \in Queued
         /\ queue[1].t = asked /\ asked \in Nat \ {0} /\ Begun
         /\ queue[1].type \in {"Write", "Read"} => queue[1].len > 0
         /\ w.awaits = "none" /\ ~Stale
         /\ queue[1].type # "SetAddr" /\ queue[1].type # "RecoverBus" => ~w.recover
         /\ w \in [pc : Pcs, awaits : Events, i : Nat, rb : Nat, recover : BOOLEAN]
         /\ hw \in [tx : Seq(Cmd), shift : Cmd, rx : Seq(Nat), abrt : BOOLEAN,
                    mask : {"none", "tx_empty", "rx_full"}]
<1>1. ~Stale /\ w.awaits = "none"
  BY DEF Stale, Running
<1>2. PICK k \in Kinds : \E n \in 1..Len(k) :
         Transfer(k) /\ queue[1] = Of(k[n], asked)
  BY <1>1, Current
<1>3. PICK n \in 1..Len(k) : Transfer(k) /\ queue[1] = Of(k[n], asked)
  BY <1>2
<1>4. queue[1].t = asked /\ queue[1].type = k[n].type /\ queue[1].len = k[n].len
  BY <1>3 DEF Of
<1>5. queue[1].type \in {"Write", "Read"} => queue[1].len > 0
  BY <1>3, <1>4 DEF Transfer
<1>6. queue # << >> /\ queue \in Seq(Queued)
  BY <1>1, Current DEF IInv, TypeOK
<1>7. Head(queue) = queue[1] /\ queue[1] \in Queued
  BY <1>6, HeadTailProperties, ElementOfSeq
<1> QED
  BY <1>1, <1>4, <1>5, <1>6, <1>7, Current DEF IInv, TypeOK, ControlOK

LEMMA BeginSetAddrKeeps == IInv /\ BeginSetAddr => IInv'
<1> SUFFICES ASSUME IInv, BeginSetAddr PROVE IInv'
  OBVIOUS
<1>1. /\ w.pc = "begin" /\ Running
      /\ UNCHANGED <<queue, queueTick, reports, got, puts, asked, broken>>
  BY DEF BeginSetAddr, At, UnchangedByWorker
<1>2. /\ queue # << >> /\ queue[1].type = "SetAddr" /\ queue[1].t = asked
      /\ asked \in Nat \ {0} /\ Begun /\ ~Stale
  BY <1>1, AtAction DEF BeginSetAddr, Doing
<1>3. /\ w' \in [pc : Pcs, awaits : Events, i : Nat, rb : Nat, recover : BOOLEAN]
      /\ w'.pc = "finish" /\ w'.awaits = "none" /\ ~w'.recover
  BY <1>1, AtAction DEF BeginSetAddr, Go, Pcs, IInv, ControlOK
<1>4. /\ hw' \in [tx : Seq(Cmd), shift : Cmd, rx : Seq(Nat), abrt : BOOLEAN,
                  mask : {"none", "tx_empty", "rx_full"}]
      /\ hw'.tx = << >> /\ hw'.shift = NoCmd /\ hw'.rx = << >> /\ ~hw'.abrt
  <2>1. hw' = [tx |-> << >>, shift |-> NoCmd, rx |-> << >>, abrt |-> FALSE,
               mask |-> hw.mask]
    BY DEF BeginSetAddr, Reset
  <2>2. << >> \in Seq(Cmd) /\ << >> \in Seq(Nat) /\ NoCmd \in Cmd
    BY EmptySeq DEF NoCmd, Cmd
  <2>3. hw.mask \in {"none", "tx_empty", "rx_full"}
    BY <1>1, AtAction
  <2> QED
    BY <2>1, <2>2, <2>3
<1>5. ~Stale' /\ ~Reading' /\ Begun' /\ Quiet'
  BY <1>1, <1>2, <1>3, <1>4 DEF Stale, Reading, Begun, Quiet
<1>6. TypeOK'
  BY <1>1, <1>3, <1>4 DEF IInv, TypeOK
<1>7. ControlOK'
  BY <1>1, <1>2, <1>3 DEF ControlOK
<1>8. PipeOK'
  <2>1. \A j \in 1..Len(hw'.tx) : FALSE
    BY <1>4, EmptySeq
  <2>2. ~(NoCmd.rd)
    BY DEF NoCmd
  <2>3. \A b \in broken : b.t \in 1..asked
    BY DEF IInv, PipeOK
  <2> QED
    BY <1>1, <1>2, <1>3, <1>4, <1>5, <2>1, <2>2, <2>3 DEF PipeOK
<1>9. ASSUME NEW k \in Kinds, NEW n \in 1..Len(k), Transfer(k),
             queue[1] = Of(k[n], asked),
             SyncedWrite(k) => WriteErrors(k, n),
             LastRead(k) => ReadErrors(k, n)
      PROVE  /\ SyncedWrite(k) => WriteErrors(k, n)'
             /\ LastRead(k) => ReadErrors(k, n)'
  <2>1. k[n].type = "SetAddr" /\ n \in Nat /\ Len(k) \in Nat
    BY <1>2, <1>9 DEF Of, Transfer
  <2>2. ASSUME SyncedWrite(k) PROVE WriteErrors(k, n)'
    <3>1. n = 1
      <4>1. k[n].type # "Write" /\ k[n].type # "Sync"
        BY <2>1
      <4> QED
        BY <2>1, <2>2, <4>1 DEF SyncedWrite
    <3>2. ~Broke(asked, FALSE)
      BY <1>1, <2>2, <3>1, <1>9 DEF WriteErrors
    <3> QED
      BY <1>1, <1>3, <1>4, <1>5, <3>2 DEF WriteErrors, Own, Broke
  <2>3. ASSUME LastRead(k) PROVE ReadErrors(k, n)'
    BY <1>1, <1>3, <1>4, <1>5, <1>9, <2>1, <2>3
    DEF ReadErrors, ToRead, Own, Broke
  <2> QED
    BY <2>2, <2>3
<1> QED
  BY <1>1, <1>2, <1>5, <1>6, <1>7, <1>8, <1>9, ActionStep

LEMMA BeginRecoverBusKeeps == IInv /\ BeginRecoverBus => IInv'
<1> SUFFICES ASSUME IInv, BeginRecoverBus PROVE IInv'
  OBVIOUS
<1>1. /\ w.pc = "begin" /\ Running
      /\ UNCHANGED <<queue, queueTick, hw, reports, got, puts, asked, broken>>
  BY DEF BeginRecoverBus, At, UnchangedByWorker
<1>2. /\ queue # << >> /\ queue[1].type = "RecoverBus" /\ queue[1].t = asked
      /\ asked \in Nat \ {0} /\ Begun /\ ~Stale
  BY <1>1, AtAction DEF BeginRecoverBus, Doing
<1>3. /\ w' \in [pc : Pcs, awaits : Events, i : Nat, rb : Nat, recover : BOOLEAN]
      /\ w'.pc = "finish" /\ w'.awaits = "none" /\ w'.recover
  BY <1>1, AtAction DEF BeginRecoverBus, GoRecover, Pcs
<1>5. ~Stale' /\ ~Reading' /\ ~Reading /\ Reading' = Reading /\ Begun'
  BY <1>1, <1>2, <1>3 DEF Stale, Reading, Begun
<1>6. TypeOK'
  BY <1>1, <1>3 DEF IInv, TypeOK
<1>7. ControlOK'
  BY <1>1, <1>2, <1>3 DEF ControlOK
<1>8. PipeOK'
  BY <1>1, <1>2, <1>3, <1>5 DEF IInv, PipeOK, Quiet
<1>9. ASSUME NEW k \in Kinds, NEW n \in 1..Len(k), Transfer(k),
             queue[1] = Of(k[n], asked),
             SyncedWrite(k) => WriteErrors(k, n),
             LastRead(k) => ReadErrors(k, n)
      PROVE  /\ SyncedWrite(k) => WriteErrors(k, n)'
             /\ LastRead(k) => ReadErrors(k, n)'
  <2>1. k[n].type = "RecoverBus" /\ n \in Nat /\ Len(k) \in Nat
    BY <1>2, <1>9 DEF Of, Transfer
  <2>2. ~SyncedWrite(k)
    <3>1. k[n].type # "Write" /\ k[n].type # "Sync" /\ k[n].type # "SetAddr"
      BY <2>1
    <3> QED
      BY <2>1, <3>1 DEF SyncedWrite
  <2>3. ASSUME LastRead(k) PROVE ReadErrors(k, n)'
    BY <1>1, <1>2, <1>3, <1>5, <1>9, <2>1, <2>3
    DEF ReadErrors, ToRead, Untouched, Own, Broke
  <2> QED
    BY <2>2, <2>3
<1> QED
  BY <1>1, <1>2, <1>5, <1>6, <1>7, <1>8, <1>9, ActionStep

LEMMA BeginOtherKeeps == IInv /\ BeginOther => IInv'
<1> SUFFICES ASSUME IInv, BeginOther PROVE IInv'
  OBVIOUS
<1>1. /\ w.pc = "begin" /\ Running
      /\ UNCHANGED <<queue, queueTick, hw, reports, got, puts, asked, broken>>
  BY DEF BeginOther, At, UnchangedByWorker
<1>2. /\ queue # << >> /\ queue[1].type \in {"Sync", "Write", "Read"}
      /\ queue[1].t = asked /\ asked \in Nat \ {0} /\ Begun /\ ~Stale
      /\ queue[1].len \in Nat /\ queue[1].restart \in BOOLEAN
  BY <1>1, AtAction DEF BeginOther, Doing, Queued
<1>3. /\ w' \in [pc : Pcs, awaits : Events, i : Nat, rb : Nat, recover : BOOLEAN]
      /\ w'.pc = IF queue[1].type = "Sync" \/ queue[1].restart THEN "drain" ELSE "push"
      /\ w'.awaits = "none" /\ ~w'.recover
      /\ w'.i = 0 /\ w'.rb = 0 /\ got = << >>
  BY <1>1, AtAction DEF BeginOther, Go, Doing, Pcs, IInv, ControlOK
<1>4. ~Stale' /\ ~Reading /\ Begun'
  BY <1>1, <1>2, <1>3 DEF Stale, Reading, Begun
<1>5. TypeOK'
  BY <1>1, <1>3 DEF IInv, TypeOK
<1>6. ControlOK'
  BY <1>1, <1>2, <1>3 DEF ControlOK
<1>7. ASSUME NEW k \in Kinds, NEW n \in 1..Len(k), Transfer(k),
             queue[1] = Of(k[n], asked),
             SyncedWrite(k) => WriteErrors(k, n),
             LastRead(k) => ReadErrors(k, n)
      PROVE  /\ SyncedWrite(k) => WriteErrors(k, n)'
             /\ LastRead(k) => ReadErrors(k, n)'
             /\ Reading' /\ (SyncedWrite(k) \/ LastRead(k)) => Quiet
  <2>1. /\ k[n].type = queue[1].type /\ k[n].restart = queue[1].restart
        /\ n \in Nat /\ Len(k) \in Nat /\ k[n].type # "SetAddr"
    BY <1>2, <1>7 DEF Of, Transfer
  <2>2. ASSUME SyncedWrite(k) PROVE WriteErrors(k, n)' /\ ~Reading'
    <3>1. n # 1
      BY <2>1, <2>2 DEF SyncedWrite
    <3>2. k[n].type # "Read"
      BY <2>1, <2>2, <3>1 DEF SyncedWrite
    <3>3. WriteErrors(k, n)'
      BY <1>1, <1>3, <1>4, <1>7, <2>2, <3>1 DEF WriteErrors, Own, Quiet, Broke
    <3> QED
      BY <1>1, <2>1, <3>2, <3>3 DEF Reading
  <2>3. ASSUME LastRead(k) PROVE ReadErrors(k, n)' /\ (Reading' => Quiet)
    <3>1. CASE queue[1].type = "Read"
      <4>1. CASE queue[1].restart
        BY <1>1, <1>3, <1>4, <1>7, <2>1, <2>3, <3>1, <4>1
        DEF ReadErrors, ToRead, Untouched, Own, Quiet, Broke, Reading
      <4>2. CASE ~queue[1].restart
        BY <1>1, <1>3, <1>4, <1>7, <2>1, <2>3, <3>1, <4>2
        DEF ReadErrors, ToRead, Untouched, Own, Quiet, Broke, Reading
      <4> QED
        BY <4>1, <4>2
    <3>2. CASE queue[1].type # "Read"
      <4>1. Untouched(n)' = Untouched(n)
        BY <1>1, <1>3, <1>4 DEF Untouched
      <4> QED
        BY <1>1, <1>3, <1>4, <1>7, <2>1, <2>3, <3>2, <4>1
        DEF ReadErrors, ToRead, Own, Quiet, Broke, Reading
    <3> QED
      BY <3>1, <3>2
  <2> QED
    BY <2>2, <2>3
<1>8. Reading' => Quiet
  <2>1. PICK k \in Kinds : \E n \in 1..Len(k) :
         /\ SyncedWrite(k) => WriteErrors(k, n)
         /\ LastRead(k) => ReadErrors(k, n)
         /\ Transfer(k)
         /\ SyncedWrite(k) \/ LastRead(k)
         /\ queue[1] = Of(k[n], asked)
    BY <1>1, <1>2, Current
  <2> QED
    BY <2>1, <1>7
<1>9. PipeOK'
  <2>1. CASE Reading'
    <3>1. /\ hw.tx = << >> /\ hw.shift = NoCmd /\ hw.rx = << >>
          /\ Own' /\ Quiet' /\ Busy' = 0
      BY <1>1, <1>4, <1>8, <2>1 DEF IInv, PipeOK, Quiet, Own, Busy
    <3>2. /\ Len(hw.rx) = 0 /\ Len(hw.tx) = 0 /\ Len(got) = 0
      BY <3>1, <1>3, EmptySeq
    <3> QED
      BY <1>1, <1>2, <1>3, <1>4, <2>1, <3>1, <3>2, EmptySeq DEF IInv, PipeOK
  <2>2. CASE ~Reading'
    <3>1. Reading' = Reading
      BY <1>4, <2>2 DEF Reading
    <3> QED
      BY <1>1, <1>2, <1>3, <1>4, <2>2, <3>1 DEF IInv, PipeOK, Quiet
  <2> QED
    BY <2>1, <2>2
<1> QED
  BY <1>1, <1>2, <1>4, <1>5, <1>6, <1>7, <1>9, ActionStep

LEMMA DrainedKeeps == IInv /\ Drained => IInv'
<1> SUFFICES ASSUME IInv, Drained PROVE IInv'
  OBVIOUS
<1>1. /\ w.pc = "drain" /\ Running /\ hw.tx = << >>
      /\ UNCHANGED <<queue, queueTick, reports, got, puts, asked, broken>>
  BY DEF Drained, At, UnchangedByWorker
<1>2. /\ queue # << >> /\ queue[1].type \in {"Sync", "Write", "Read"}
      /\ queue[1].t = asked /\ asked \in Nat \ {0} /\ Begun /\ ~Stale
      /\ queue[1].len \in Nat
      /\ queue[1].type # "Sync" => queue[1].restart
  BY <1>1, AtAction DEF Queued, IInv, ControlOK
<1>3. /\ w' \in [pc : Pcs, awaits : Events, i : Nat, rb : Nat, recover : BOOLEAN]
      /\ w'.pc = IF queue[1].type = "Sync" THEN "finish" ELSE "push"
      /\ w'.awaits = "none" /\ ~w'.recover
      /\ w'.i = 0 /\ w'.rb = 0 /\ got = << >>
  BY <1>1, AtAction DEF Drained, Go, Doing, Pcs, IInv, ControlOK
<1>4. /\ hw' \in [tx : Seq(Cmd), shift : Cmd, rx : Seq(Nat), abrt : BOOLEAN,
                  mask : {"none", "tx_empty", "rx_full"}]
      /\ hw'.tx = << >> /\ hw'.shift = hw.shift /\ hw'.rx = hw.rx
      /\ hw'.abrt = (hw.abrt /\ queue[1].type = "Sync")
  BY <1>1, AtAction DEF Drained, Doing
<1>5. ~Stale' /\ ~Reading /\ Begun'
  BY <1>1, <1>2, <1>3 DEF Stale, Reading, Begun
<1>6. TypeOK'
  BY <1>1, <1>3, <1>4 DEF IInv, TypeOK
<1>7. ControlOK'
  BY <1>1, <1>2, <1>3 DEF ControlOK
<1>8. ASSUME NEW k \in Kinds, NEW n \in 1..Len(k), Transfer(k),
             queue[1] = Of(k[n], asked),
             SyncedWrite(k) => WriteErrors(k, n),
             LastRead(k) => ReadErrors(k, n)
      PROVE  /\ SyncedWrite(k) => WriteErrors(k, n)'
             /\ LastRead(k) => ReadErrors(k, n)'
             /\ Reading' /\ (SyncedWrite(k) \/ LastRead(k)) => Own
  <2>1. /\ k[n].type = queue[1].type /\ k[n].restart = queue[1].restart
        /\ n \in Nat /\ Len(k) \in Nat /\ k[n].type # "SetAddr"
    BY <1>2, <1>8 DEF Of, Transfer
  <2>2. ASSUME SyncedWrite(k) PROVE WriteErrors(k, n)' /\ ~Reading'
    <3>1. n # 1
      BY <2>1, <2>2 DEF SyncedWrite
    <3>2. k[n].type # "Read" /\ (k[n].type # "Sync" => n = 2)
      BY <1>2, <2>1, <2>2, <3>1 DEF SyncedWrite
    <3>3. WriteErrors(k, n)'
      BY <1>1, <1>3, <1>4, <1>5, <1>8, <2>1, <2>2, <3>1, <3>2
      DEF WriteErrors, Own, Quiet, Broke
    <3> QED
      BY <1>1, <2>1, <3>2, <3>3 DEF Reading
  <2>3. ASSUME LastRead(k) PROVE ReadErrors(k, n)' /\ (Reading' => Own)
    <3>1. CASE queue[1].type = "Read"
      <4>1. n # 1 /\ ~Broke(asked, TRUE) /\ Own
        BY <1>1, <1>2, <1>5, <1>8, <2>1, <2>3, <3>1
        DEF LastRead, ReadErrors, ToRead, Untouched
      <4> QED
        BY <1>1, <1>3, <1>4, <1>5, <1>8, <2>1, <2>3, <3>1, <4>1
        DEF ReadErrors, ToRead, Own, Quiet, Broke, Reading
    <3>2. CASE queue[1].type # "Read"
      <4>1. Untouched(n)' \/ n # 1
        BY <1>1, <1>2, <1>3, <1>5, <2>1, <2>3, <3>2 DEF Untouched, LastRead
      <4>2. n # 1 => Own
        BY <1>1, <1>5, <1>8, <2>1, <2>3, <3>2 DEF ReadErrors, ToRead, Untouched
      <4> QED
        BY <1>1, <1>3, <1>4, <1>5, <1>8, <2>1, <2>3, <3>2, <4>1, <4>2
        DEF ReadErrors, ToRead, Own, Broke, Reading
    <3> QED
      BY <3>1, <3>2
  <2> QED
    BY <2>2, <2>3
<1>9. PipeOK'
  <2>1. PICK k \in Kinds : \E n \in 1..Len(k) :
         /\ SyncedWrite(k) => WriteErrors(k, n)
         /\ LastRead(k) => ReadErrors(k, n)
         /\ Transfer(k)
         /\ SyncedWrite(k) \/ LastRead(k)
         /\ queue[1] = Of(k[n], asked)
    BY <1>1, <1>2, Current
  <2>2. Reading' => Own
    BY <2>1, <1>8
  <2>3. hw.rx = << >> /\ ~hw.shift.rd /\ (hw.abrt => hw.shift = NoCmd)
    BY <1>5 DEF IInv, PipeOK, Quiet
  <2>4. \A j \in 1..Len(hw'.tx) : FALSE
    BY <1>4, EmptySeq
  <2>5. Len(hw.rx) = 0 /\ Len(hw'.tx) = 0 /\ Len(got) = 0
    BY <1>3, <1>4, <2>3, EmptySeq
  <2>6. hw'.shift = NoCmd => Busy' = 0
    BY DEF Busy
  <2>7. hw.shift = NoCmd \/ hw.shift.t \in 1..asked
    BY DEF IInv, PipeOK
  <2>8. \A b \in broken : b.t \in 1..asked
    BY DEF IInv, PipeOK
  <2>9. CASE Reading'
    BY <1>1, <1>2, <1>3, <1>4, <1>5, <2>2, <2>3, <2>4, <2>5, <2>6, <2>7, <2>8, <2>9
    DEF PipeOK, Quiet, Own, Reading
  <2>10. CASE ~Reading'
    BY <1>1, <1>2, <1>3, <1>4, <1>5, <2>3, <2>4, <2>5, <2>7, <2>8, <2>10
    DEF PipeOK, Quiet, Reading
  <2> QED
    BY <2>9, <2>10
<1> QED
  BY <1>1, <1>2, <1>5, <1>6, <1>7, <1>8, <1>9, ActionStep

(* The coroutine suspends until the interrupt. *)
LEMMA AwaitKeeps ==
  ASSUME IInv, Running, NEW event \in {"tx_empty", "rx_full"}, Await(event),
         w.pc \in {"drain", "push", "room", "fetch"},
         w.pc = "push" => queue[1].type = "Write",
         UNCHANGED <<queue, queueTick, reports, got, puts, asked, broken>>
  PROVE  IInv'
<1>2. /\ queue # << >> /\ Begun /\ ~Stale
  BY AtAction
<1>3. /\ w' \in [pc : Pcs, awaits : Events, i : Nat, rb : Nat, recover : BOOLEAN]
      /\ hw' \in [tx : Seq(Cmd), shift : Cmd, rx : Seq(Nat), abrt : BOOLEAN,
                  mask : {"none", "tx_empty", "rx_full"}]
      /\ w'.pc = w.pc /\ w'.i = w.i /\ w'.rb = w.rb /\ w'.recover = w.recover
      /\ w'.awaits = "i2c_tick"
      /\ hw'.tx = hw.tx /\ hw'.shift = hw.shift /\ hw'.rx = hw.rx
      /\ hw'.abrt = hw.abrt
  BY AtAction DEF Await, Events
<1>4. TypeOK'
  BY <1>3 DEF IInv, TypeOK
<1>5. ControlOK'
  BY <1>2, <1>3 DEF IInv, ControlOK
<1>6. ~Stale' /\ Reading' = Reading /\ Begun'
  BY <1>2, <1>3 DEF Stale, Reading, Begun
<1>7. PipeOK'
  BY <1>2, <1>3, <1>6 DEF IInv, PipeOK, Quiet, Own, Busy
<1>8. \A k \in Kinds : \A n \in 1..Len(k) :
        /\ WriteErrors(k, n) => WriteErrors(k, n)'
        /\ ReadErrors(k, n) => ReadErrors(k, n)'
  BY <1>2, <1>3, <1>6
  DEF WriteErrors, ReadErrors, ToRead, Untouched, Own, Quiet, Broke
<1> QED
  BY <1>2, <1>4, <1>5, <1>6, <1>7, <1>8, ActionStep

LEMMA DrainingKeeps == IInv /\ Draining => IInv'
<1> SUFFICES ASSUME IInv, Draining PROVE IInv'
  OBVIOUS
<1>1. /\ w.pc = "drain" /\ Running /\ Await("tx_empty")
      /\ UNCHANGED <<queue, queueTick, reports, got, puts, asked, broken>>
  BY DEF Draining, At, UnchangedByWorker, IInv, PipeOK, Quiet
<1> QED
  BY <1>1, AwaitKeeps

LEMMA PushWriteKeeps == IInv /\ PushWrite => IInv'
<1> SUFFICES ASSUME IInv, PushWrite PROVE IInv'
  OBVIOUS
<1>1. /\ w.pc = "push" /\ Running
      /\ UNCHANGED <<queue, queueTick, reports, got, puts, asked, broken>>
  BY DEF PushWrite, At, UnchangedByWorker
<1>2. /\ queue # << >> /\ queue[1].type = "Write" /\ queue[1].t = asked
      /\ asked \in Nat \ {0} /\ Begun /\ ~Stale /\ ~Reading
      /\ queue[1].len \in Nat /\ queue[1].len > 0 /\ Head(queue) = queue[1]
      /\ ~w.recover /\ w.awaits = "none"
  BY <1>1, AtAction DEF PushWrite, Doing, Queued, Reading
<1>3. /\ w.i \in Nat /\ w.i <= queue[1].len
  BY <1>1, AtAction DEF IInv, ControlOK
<1>4. CASE Pushed
  <2>1. /\ w' \in [pc : Pcs, awaits : Events, i : Nat, rb : Nat, recover : BOOLEAN]
        /\ w'.pc = "finish" /\ w'.awaits = "none" /\ ~w'.recover
        /\ hw' = hw
    BY <1>1, <1>2, <1>4, AtAction DEF PushWrite, Go, Pcs
  <2>2. ~Stale' /\ ~Reading' /\ Reading' = Reading /\ Begun'
    BY <1>1, <1>2, <2>1 DEF Stale, Reading, Begun
  <2>3. TypeOK'
    BY <1>1, <2>1 DEF IInv, TypeOK
  <2>4. ControlOK'
    BY <1>1, <1>2, <2>1 DEF ControlOK
  <2>5. PipeOK'
    BY <1>1, <1>2, <2>1, <2>2 DEF IInv, PipeOK, Quiet
  <2>6. ~(w.i = 0)
    BY <1>2, <1>4 DEF Pushed
  <2>7. \A k \in Kinds : \A n \in 1..Len(k) :
          queue[1] = Of(k[n], asked) =>
            /\ WriteErrors(k, n) => WriteErrors(k, n)'
            /\ ReadErrors(k, n) => ReadErrors(k, n)'
    BY <1>1, <1>2, <2>1, <2>2, <2>6
    DEF WriteErrors, ReadErrors, ToRead, Untouched, Own, Quiet, Broke, Of
  <2> QED
    BY <1>1, <1>2, <2>2, <2>3, <2>4, <2>5, <2>7, ActionStep
<1>5. CASE ~Pushed /\ Len(hw.tx) < TxDepth
  <2> DEFINE cmd == [t |-> asked, rd |-> FALSE]
  <2>1. hw' = Command(hw) /\ w' = [w EXCEPT !.i = @ + 1]
    BY <1>1, <1>5 DEF PushWrite
  <2>2. /\ w' \in [pc : Pcs, awaits : Events, i : Nat, rb : Nat, recover : BOOLEAN]
        /\ w'.pc = "push" /\ w'.awaits = "none" /\ ~w'.recover
        /\ w'.i = w.i + 1 /\ w'.i <= queue[1].len
    <3>1. w.i # queue[1].len
      BY <1>2, <1>5 DEF Pushed
    <3>2. w.i + 1 \in Nat /\ w.i + 1 <= queue[1].len
      BY <1>2, <1>3, <3>1
    <3> QED
      BY <1>1, <1>2, <2>1, <3>2, AtAction
  <2>3. cmd \in Cmd /\ hw.tx \in Seq(Cmd)
    BY <1>1, <1>2, AtAction DEF Cmd
  <2>4. /\ hw' \in [tx : Seq(Cmd), shift : Cmd, rx : Seq(Nat), abrt : BOOLEAN,
                    mask : {"none", "tx_empty", "rx_full"}]
        /\ hw'.tx = (IF hw.abrt THEN hw.tx ELSE Append(hw.tx, cmd))
        /\ hw'.shift = hw.shift /\ hw'.rx = hw.rx /\ hw'.abrt = hw.abrt
    <3>1. CASE hw.abrt
      BY <1>1, <2>1, <3>1, AtAction DEF Command
    <3>2. CASE ~hw.abrt
      <4>1. hw' = [hw EXCEPT !.tx = Append(@, cmd)]
        BY <1>2, <2>1, <3>2 DEF Command, Doing
      <4>2. Append(hw.tx, cmd) \in Seq(Cmd)
        BY <2>3, AppendProperties
      <4> HIDE DEF cmd
      <4> QED
        BY <1>1, <3>2, <4>1, <4>2, AtAction
    <3> QED
      BY <3>1, <3>2
  <2>5. \A j \in 1..Len(hw'.tx) : hw'.tx[j].t = asked /\ ~hw'.tx[j].rd
    <3>1. \A j \in 1..Len(hw.tx) : hw.tx[j].t = asked /\ ~hw.tx[j].rd
      BY <1>2 DEF IInv, PipeOK
    <3>2. cmd.t = asked /\ ~cmd.rd
      OBVIOUS
    <3> HIDE DEF cmd
    <3> QED
      BY <2>3, <2>4, <3>1, <3>2, AppendProperties
  <2>6. hw.abrt \/ hw'.tx # << >>
    <3> HIDE DEF cmd
    <3> QED
      BY <2>3, <2>4, AppendProperties
  <2>7. ~Stale' /\ ~Reading' /\ Reading' = Reading /\ Begun'
    BY <1>1, <1>2, <2>2 DEF Stale, Reading, Begun
  <2>8. TypeOK'
    BY <1>1, <2>2, <2>4 DEF IInv, TypeOK
  <2>9. ControlOK'
    BY <1>1, <1>2, <2>2 DEF ControlOK
  <2>10. PipeOK'
    <3>1. \A j \in 1..Len(hw'.tx) :
             hw'.tx[j].t = asked /\ (hw'.tx[j].rd <=> Reading')
      BY <1>2, <2>5, <2>7
    <3>2. hw'.rx = << >> /\ ~hw'.shift.rd
      BY <1>2, <2>4 DEF IInv, PipeOK
    <3>3. hw'.abrt => Quiet'
      BY <2>4 DEF IInv, PipeOK, Quiet
    <3>4. hw'.shift = NoCmd \/ hw'.shift.t \in 1..asked
      BY <2>4 DEF IInv, PipeOK
    <3>5. \A b \in broken : b.t \in 1..asked
      BY DEF IInv, PipeOK
    <3> QED
      BY <1>1, <2>2, <2>7, <3>1, <3>2, <3>3, <3>4, <3>5 DEF PipeOK
  <2>11. \A k \in Kinds : \A n \in 1..Len(k) :
          Transfer(k) /\ queue[1] = Of(k[n], asked) =>
            /\ SyncedWrite(k) /\ WriteErrors(k, n) => WriteErrors(k, n)'
            /\ LastRead(k) /\ ReadErrors(k, n) => ReadErrors(k, n)'
    <3> SUFFICES ASSUME NEW k \in Kinds, NEW n \in 1..Len(k), Transfer(k),
                        queue[1] = Of(k[n], asked)
                 PROVE  /\ SyncedWrite(k) /\ WriteErrors(k, n) => WriteErrors(k, n)'
                        /\ LastRead(k) /\ ReadErrors(k, n) => ReadErrors(k, n)'
      OBVIOUS
    <3>1. k[n].type = "Write"
      BY <1>2 DEF Of
    <3>2. SyncedWrite(k) => n # 1
      BY <3>1 DEF SyncedWrite
    <3>3. SyncedWrite(k) /\ WriteErrors(k, n) => WriteErrors(k, n)'
      BY <1>1, <1>2, <2>2, <2>4, <2>7, <3>2 DEF WriteErrors, Own, Broke
    <3>4. hw.abrt => Own
      BY DEF IInv, PipeOK, Quiet, Own
    <3>5. ~Untouched(n)'
      BY <1>3, <2>2, <2>7 DEF Untouched
    <3>6. ReadErrors(k, n) => ReadErrors(k, n)'
      BY <1>1, <2>2, <2>4, <2>6, <3>1, <3>4, <3>5 DEF ReadErrors, ToRead, Own, Broke
    <3> QED
      BY <3>3, <3>6
  <2> QED
    BY <1>1, <1>2, <2>7, <2>8, <2>9, <2>10, <2>11, ActionStep
<1>6. CASE ~Pushed /\ ~(Len(hw.tx) < TxDepth)
  <2>1. ~hw.abrt
    BY <1>6, SizesAssumption, EmptySeq DEF IInv, PipeOK, Quiet
  <2>2. Await("tx_empty")
    BY <1>6, <2>1 DEF PushWrite
  <2> QED
    BY <1>1, <1>2, <2>2, AwaitKeeps
<1> QED
  BY <1>4, <1>5, <1>6

LEMMA PushReadKeeps == IInv /\ PushRead => IInv'
<1> SUFFICES ASSUME IInv, PushRead PROVE IInv'
  OBVIOUS
<1>1. /\ w.pc = "push" /\ Running
      /\ UNCHANGED <<queue, queueTick, hw, reports, got, puts, asked, broken>>
  BY DEF PushRead, At, UnchangedByWorker
<1>2. /\ queue # << >> /\ queue[1].type = "Read" /\ queue[1].t = asked
      /\ asked \in Nat \ {0} /\ Begun /\ ~Stale /\ Reading
      /\ queue[1].len \in Nat /\ queue[1].len > 0 /\ Head(queue) = queue[1]
      /\ ~w.recover /\ w.awaits = "none"
  BY <1>1, AtAction DEF PushRead, Doing, Queued, Reading
<1>3. /\ w.i \in Nat /\ w.i <= queue[1].len /\ hw.rx = << >>
  BY <1>1, <1>2, AtAction DEF IInv, ControlOK, PipeOK
<1>4. /\ w' \in [pc : Pcs, awaits : Events, i : Nat, rb : Nat, recover : BOOLEAN]
      /\ w'.awaits = "none" /\ ~w'.recover /\ w'.i = w.i /\ w'.rb = w.rb
      /\ \/ w'.pc = "fetch" /\ w.i = queue[1].len
         \/ w'.pc = "room" /\ w.i < queue[1].len
         \/ w'.pc = "finish" /\ hw.abrt
  <2>1. CASE Pushed
    BY <1>1, <1>2, <2>1, AtAction DEF PushRead, Go, Pushed, Pcs
  <2>2. CASE ~Pushed /\ hw.abrt
    BY <1>1, <1>2, <2>2, AtAction DEF PushRead, Go, Pushed, Pcs
  <2>3. CASE ~Pushed /\ ~hw.abrt
    <3>1. w' = [w EXCEPT !.pc = "room"]
      BY <2>3 DEF PushRead, Go
    <3>2. w.i < queue[1].len
      BY <1>2, <1>3, <2>3 DEF Pushed
    <3> QED
      BY <1>1, <1>2, <3>1, <3>2, AtAction DEF Pcs
  <2> QED
    BY <2>1, <2>2, <2>3
<1>5. ~Stale' /\ Begun' /\ (w'.pc # "finish" => Reading')
      /\ (w'.pc = "finish" => ~Reading')
  BY <1>1, <1>2, <1>4 DEF Stale, Reading, Begun
<1>6. TypeOK'
  BY <1>1, <1>4 DEF IInv, TypeOK
<1>7. ControlOK'
  BY <1>1, <1>2, <1>4 DEF ControlOK
<1>8. PipeOK'
  <2>1. CASE Reading'
    <3>1. Reading' = Reading
      BY <1>2, <2>1 DEF Reading
    <3> QED
      BY <1>1, <1>2, <1>4, <1>5, <2>1, <3>1 DEF IInv, PipeOK, Quiet, Own, Busy
  <2>2. CASE ~Reading'
    <3>1. hw.abrt /\ w'.pc = "finish" /\ Quiet /\ ~hw.shift.rd
      BY <1>4, <1>5, <2>2 DEF IInv, PipeOK, Quiet, NoCmd
    <3>2. \A j \in 1..Len(hw.tx) : FALSE
      BY <3>1, EmptySeq DEF Quiet
    <3> QED
      BY <1>1, <1>2, <1>3, <1>4, <1>5, <2>2, <3>1, <3>2 DEF IInv, PipeOK, Quiet
  <2> QED
    BY <2>1, <2>2
<1>9. hw.abrt => Quiet
  BY DEF IInv, PipeOK
<1>10. \A k \in Kinds : \A n \in 1..Len(k) :
        queue[1] = Of(k[n], asked) /\ Transfer(k) =>
          /\ SyncedWrite(k) /\ WriteErrors(k, n) => WriteErrors(k, n)'
          /\ LastRead(k) /\ ReadErrors(k, n) => ReadErrors(k, n)'
  <2> SUFFICES ASSUME NEW k \in Kinds, NEW n \in 1..Len(k), Transfer(k),
                      queue[1] = Of(k[n], asked)
               PROVE  /\ SyncedWrite(k) /\ WriteErrors(k, n) => WriteErrors(k, n)'
                      /\ LastRead(k) /\ ReadErrors(k, n) => ReadErrors(k, n)'
    OBVIOUS
  <2>1. k[n].type = "Read" /\ n \in Nat /\ Len(k) \in Nat
    BY <1>2 DEF Of, Transfer
  <2>2. ~SyncedWrite(k)
    <3>1. k[n].type # "Write" /\ k[n].type # "Sync" /\ k[n].type # "SetAddr"
      BY <2>1
    <3> QED
      BY <2>1, <3>1 DEF SyncedWrite
  <2>3. ReadErrors(k, n) => ReadErrors(k, n)'
    BY <1>1, <1>4, <1>5, <1>9, <2>1 DEF ReadErrors, ToRead, Own, Quiet, Broke
  <2> QED
    BY <2>2, <2>3
<1> QED
  BY <1>1, <1>2, <1>5, <1>6, <1>7, <1>8, <1>10, ActionStep

(* During a Read the bytes outstanding, arrived and taken add up. *)
LEMMA RoomKeeps == IInv /\ Room => IInv'
<1> SUFFICES ASSUME IInv, Room PROVE IInv'
  OBVIOUS
<1>1. /\ w.pc = "room" /\ Running
      /\ UNCHANGED <<queue, queueTick, reports, puts, asked, broken>>
  BY DEF Room, At, UnchangedByWorker
<1>2. /\ queue # << >> /\ queue[1].type = "Read" /\ queue[1].t = asked
      /\ asked \in Nat \ {0} /\ Begun /\ ~Stale /\ Reading
      /\ queue[1].len \in Nat /\ Head(queue) = queue[1]
      /\ ~w.recover /\ w.awaits = "none"
  BY <1>1, AtAction DEF Queued, Reading, IInv, ControlOK
<1>3. /\ w.i \in Nat /\ w.rb \in Nat /\ w.i < queue[1].len
  BY <1>1, AtAction DEF IInv, ControlOK
<1>4. CASE Len(hw.tx) < TxDepth
  <2> DEFINE cmd == [t |-> asked, rd |-> TRUE]
  <2>1. /\ hw' = [Command(hw) EXCEPT !.rx = << >>]
        /\ w' = [pc |-> "push", awaits |-> w.awaits, i |-> w.i + 1,
                 rb |-> w.rb + Len(hw.rx), recover |-> w.recover]
        /\ got' = got \o hw.rx
    BY <1>4 DEF Room
  <2>2. /\ hw.tx \in Seq(Cmd) /\ hw.rx \in Seq(Nat) /\ got \in Seq(Nat) /\ cmd \in Cmd
        /\ Len(hw.tx) \in Nat /\ Len(hw.rx) \in Nat /\ Len(got) = w.rb
        /\ Len(Append(hw.tx, cmd)) = Len(hw.tx) + 1
        /\ Append(hw.tx, cmd) \in Seq(Cmd)
    <3>1. cmd \in Cmd
      BY <1>2 DEF Cmd
    <3>2. hw.tx \in Seq(Cmd) /\ hw.rx \in Seq(Nat)
      BY <1>1, AtAction
    <3>3. got \in Seq(Nat) /\ Len(got) = w.rb
      BY <1>2 DEF IInv, TypeOK, PipeOK
    <3> HIDE DEF cmd
    <3> QED
      BY <3>1, <3>2, <3>3, AppendProperties
  <2>3. /\ w' \in [pc : Pcs, awaits : Events, i : Nat, rb : Nat, recover : BOOLEAN]
        /\ w'.pc = "push" /\ w'.awaits = "none" /\ ~w'.recover
        /\ w'.i = w.i + 1 /\ w'.i <= queue[1].len /\ w'.rb = w.rb + Len(hw.rx)
    <3>1. w.i + 1 \in Nat /\ w.i + 1 <= queue[1].len /\ w.rb + Len(hw.rx) \in Nat
      BY <1>2, <1>3, <2>2
    <3>2. w.recover = FALSE /\ w.awaits = "none"
      BY <1>1, <1>2, AtAction
    <3> QED
      BY <2>1, <3>1, <3>2 DEF Pcs, Events
  <2>4. /\ hw' \in [tx : Seq(Cmd), shift : Cmd, rx : Seq(Nat), abrt : BOOLEAN,
                    mask : {"none", "tx_empty", "rx_full"}]
        /\ hw'.tx = (IF hw.abrt THEN hw.tx ELSE Append(hw.tx, cmd))
        /\ hw'.shift = hw.shift /\ hw'.rx = << >> /\ hw'.abrt = hw.abrt
    <3>1. CASE hw.abrt
      BY <1>1, <2>1, <3>1, AtAction, EmptySeq DEF Command
    <3>2. CASE ~hw.abrt
      <4>1. hw' = [[hw EXCEPT !.tx = Append(@, cmd)] EXCEPT !.rx = << >>]
        BY <1>2, <2>1, <3>2 DEF Command, Doing
      <4> HIDE DEF cmd
      <4> QED
        BY <1>1, <3>2, <2>2, <4>1, AtAction, EmptySeq
    <3> QED
      BY <3>1, <3>2
  <2>5. /\ got' \in Seq(Nat) /\ Len(got') = w'.rb
        /\ \A j \in 1..Len(got') : got'[j] = asked
    <3>1. \A j \in 1..Len(got) : got[j] = asked
      BY <1>2 DEF IInv, PipeOK
    <3>2. \A j \in 1..Len(hw.rx) : hw.rx[j] = asked
      BY <1>2 DEF IInv, PipeOK
    <3>3. got' \in Seq(Nat) /\ Len(got') = Len(got) + Len(hw.rx)
      BY <2>1, <2>2, ConcatProperties
    <3>4. \A j \in 1..Len(got') :
             got'[j] = IF j <= Len(got) THEN got[j] ELSE hw.rx[j - Len(got)]
      BY <2>1, <2>2, ConcatProperties
    <3>5. Len(got) \in Nat /\ Len(got') \in Nat
      BY <2>2, <3>3
    <3>6. ASSUME NEW j \in 1..Len(got') PROVE got'[j] = asked
      <4>1. CASE j <= Len(got)
        BY <3>1, <3>4, <3>5, <4>1
      <4>2. CASE ~(j <= Len(got))
        <5>1. j - Len(got) \in 1..Len(hw.rx)
          BY <2>2, <3>3, <3>5, <4>2
        <5> QED
          BY <3>2, <3>4, <4>2, <5>1
      <4> QED
        BY <4>1, <4>2
    <3> QED
      BY <2>2, <2>3, <3>3, <3>6
  <2>6. \A j \in 1..Len(hw'.tx) : hw'.tx[j].t = asked /\ hw'.tx[j].rd
    <3>1. \A j \in 1..Len(hw.tx) : hw.tx[j].t = asked /\ hw.tx[j].rd
      BY <1>2 DEF IInv, PipeOK
    <3>2. cmd.t = asked /\ cmd.rd
      OBVIOUS
    <3> HIDE DEF cmd
    <3> QED
      BY <2>2, <2>4, <3>1, <3>2, AppendProperties
  <2>7. ~Stale' /\ Reading' /\ Reading' = Reading /\ Begun'
    BY <1>1, <1>2, <2>3 DEF Stale, Reading, Begun
  <2>8. TypeOK'
    BY <1>1, <2>3, <2>4, <2>5 DEF IInv, TypeOK
  <2>9. ControlOK'
    BY <1>1, <1>2, <2>3 DEF ControlOK
  <2>10. /\ ~hw'.abrt /\ (hw'.shift = NoCmd \/ hw'.shift.rd) =>
               w'.rb + Len(hw'.rx) + Len(hw'.tx) + Busy' = w'.i
         /\ hw'.shift # NoCmd /\ ~hw'.shift.rd =>
              w'.rb = 0 /\ hw'.rx = << >> /\ Len(hw'.tx) = w'.i
         /\ hw'.abrt => w'.rb + Len(hw'.rx) <= w'.i
    <3>1. Busy' = Busy /\ Busy \in {0, 1} /\ Len(hw'.rx) = 0
      BY <2>4, EmptySeq DEF Busy
    <3>2. ~hw.abrt => Len(hw'.tx) = Len(hw.tx) + 1
      BY <2>2, <2>4
    <3>3. CASE ~hw.abrt /\ (hw.shift = NoCmd \/ hw.shift.rd)
      <4>1. w.rb + Len(hw.rx) + Len(hw.tx) + Busy = w.i
        BY <1>2, <3>3 DEF IInv, PipeOK
      <4>2. w'.rb + Len(hw'.rx) + Len(hw'.tx) + Busy' = w'.i
        BY <1>3, <2>2, <2>3, <3>1, <3>2, <3>3, <4>1
      <4> QED
        BY <2>4, <3>3, <4>2
    <3>4. CASE hw.shift # NoCmd /\ ~hw.shift.rd
      <4>1. w.rb = 0 /\ hw.rx = << >> /\ Len(hw.tx) = w.i /\ ~hw.abrt
        BY <1>2, <3>4 DEF IInv, PipeOK, Quiet
      <4>2. w'.rb = 0 /\ Len(hw'.tx) = w'.i
        BY <1>3, <2>2, <2>3, <3>2, <4>1, EmptySeq
      <4> QED
        BY <2>4, <3>4, <4>1, <4>2
    <3>5. CASE hw.abrt
      <4>1. w.rb + Len(hw.rx) <= w.i /\ hw.shift = NoCmd
        BY <1>2, <3>5 DEF IInv, PipeOK, Quiet
      <4>2. w'.rb + Len(hw'.rx) <= w'.i
        BY <1>3, <2>2, <2>3, <3>1, <4>1
      <4> QED
        BY <2>4, <3>5, <4>1, <4>2
    <3> QED
      BY <3>3, <3>4, <3>5
  <2>11. PipeOK'
    <3>1. hw'.abrt => Quiet'
      BY <2>4 DEF IInv, PipeOK, Quiet
    <3>2. hw'.shift = NoCmd \/ hw'.shift.t \in 1..asked
      BY <2>4 DEF IInv, PipeOK
    <3>3. \A b \in broken : b.t \in 1..asked
      BY DEF IInv, PipeOK
    <3>4. Own'
      BY <1>1, <1>2, <2>4 DEF IInv, PipeOK, Own
    <3>5. \A j \in 1..Len(hw'.rx) : FALSE
      BY <2>4, EmptySeq
    <3> QED
      BY <1>1, <2>3, <2>4, <2>5, <2>6, <2>7, <2>10, <3>1, <3>2, <3>3, <3>4, <3>5
      DEF PipeOK
  <2>12. \A k \in Kinds : \A n \in 1..Len(k) :
          Transfer(k) /\ queue[1] = Of(k[n], asked) =>
            /\ SyncedWrite(k) /\ WriteErrors(k, n) => WriteErrors(k, n)'
            /\ LastRead(k) /\ ReadErrors(k, n) => ReadErrors(k, n)'
    <3> SUFFICES ASSUME NEW k \in Kinds, NEW n \in 1..Len(k), Transfer(k),
                        queue[1] = Of(k[n], asked)
                 PROVE  /\ SyncedWrite(k) /\ WriteErrors(k, n) => WriteErrors(k, n)'
                        /\ LastRead(k) /\ ReadErrors(k, n) => ReadErrors(k, n)'
      OBVIOUS
    <3>1. k[n].type = "Read" /\ n \in Nat /\ Len(k) \in Nat
      BY <1>2 DEF Of, Transfer
    <3>2. ~SyncedWrite(k)
      <4>1. k[n].type # "Write" /\ k[n].type # "Sync" /\ k[n].type # "SetAddr"
        BY <3>1
      <4> QED
        BY <3>1, <4>1 DEF SyncedWrite
    <3>3. ReadErrors(k, n) => ReadErrors(k, n)'
      BY <1>1, <2>3, <2>4, <2>7, <3>1 DEF ReadErrors, ToRead, Own, Broke
    <3> QED
      BY <3>2, <3>3
  <2> QED
    BY <1>1, <1>2, <2>7, <2>8, <2>9, <2>11, <2>12, ActionStep
<1>5. CASE ~(Len(hw.tx) < TxDepth)
  <2>1. Await("tx_empty") /\ UNCHANGED got
    BY <1>5 DEF Room
  <2> QED
    BY <1>1, <2>1, AwaitKeeps
<1> QED
  BY <1>4, <1>5

LEMMA FetchKeeps == IInv /\ Fetch => IInv'
<1> SUFFICES ASSUME IInv, Fetch PROVE IInv'
  OBVIOUS
<1>1. /\ w.pc = "fetch" /\ Running
      /\ UNCHANGED <<queue, queueTick, reports, puts, asked, broken>>
  BY DEF Fetch, At, UnchangedByWorker
<1>2. /\ queue # << >> /\ queue[1].type = "Read" /\ queue[1].t = asked
      /\ asked \in Nat \ {0} /\ Begun /\ ~Stale /\ Reading
      /\ queue[1].len \in Nat /\ queue[1].len > 0 /\ Head(queue) = queue[1]
      /\ ~w.recover /\ w.awaits = "none"
  BY <1>1, AtAction DEF Queued, Reading, IInv, ControlOK
<1>3. /\ w.i \in Nat /\ w.rb \in Nat /\ w.i = queue[1].len
      /\ Len(hw.tx) \in Nat /\ Len(hw.rx) \in Nat
      /\ hw.tx \in Seq(Cmd) /\ hw.rx \in Seq(Nat) /\ got \in Seq(Nat)
      /\ Len(got) = w.rb /\ \A j \in 1..Len(got) : got[j] = asked
      /\ \A j \in 1..Len(hw.rx) : hw.rx[j] = asked
  BY <1>1, <1>2, AtAction DEF IInv, ControlOK, TypeOK, PipeOK
<1>4. /\ ~hw.abrt /\ (hw.shift = NoCmd \/ hw.shift.rd) =>
            w.rb + Len(hw.rx) + Len(hw.tx) + Busy = w.i
      /\ hw.shift # NoCmd /\ ~hw.shift.rd =>
            w.rb = 0 /\ hw.rx = << >> /\ Len(hw.tx) = w.i
      /\ hw.abrt => w.rb + Len(hw.rx) <= w.i /\ Quiet
      /\ Own
  BY <1>2 DEF IInv, PipeOK
<1>5. \A k \in Kinds : \A n \in 1..Len(k) :
        Transfer(k) /\ queue[1] = Of(k[n], asked) => k[n].type = "Read" /\ ~SyncedWrite(k)
  <2> SUFFICES ASSUME NEW k \in Kinds, NEW n \in 1..Len(k), Transfer(k),
                      queue[1] = Of(k[n], asked)
               PROVE  k[n].type = "Read" /\ ~SyncedWrite(k)
    OBVIOUS
  <2>1. k[n].type = "Read" /\ n \in Nat /\ Len(k) \in Nat
    BY <1>2 DEF Of, Transfer
  <2>2. k[n].type # "Write" /\ k[n].type # "Sync" /\ k[n].type # "SetAddr"
    BY <2>1
  <2> QED
    BY <2>1, <2>2 DEF SyncedWrite
<1>6. CASE \/ w.rb = queue[1].len
           \/ w.rb < queue[1].len /\ hw.rx = << >> /\ hw.abrt
  <2>1. Go("finish") /\ UNCHANGED <<hw, got>>
    BY <1>2, <1>3, <1>6 DEF Fetch
  <2>2. Quiet /\ hw.rx = << >>
    <3>1. CASE hw.abrt
      <4>1. Len(hw.rx) = 0
        BY <1>2, <1>3, <1>4, <1>6, <3>1, EmptySeq
      <4> QED
        BY <1>3, <1>4, <3>1, <4>1, EmptySeq
    <3>2. CASE ~hw.abrt
      <4>1. w.rb = queue[1].len /\ w.rb # 0
        BY <1>2, <1>6, <3>2
      <4>2. w.rb + Len(hw.rx) + Len(hw.tx) + Busy = w.i
        BY <1>4, <3>2, <4>1
      <4>3. Busy \in {0, 1} /\ (Busy = 0 => hw.shift = NoCmd)
        BY DEF Busy
      <4>4. Len(hw.rx) = 0 /\ Len(hw.tx) = 0 /\ Busy = 0
        BY <1>3, <4>1, <4>2, <4>3
      <4> QED
        BY <1>3, <4>3, <4>4, EmptySeq DEF Quiet
    <3> QED
      BY <3>1, <3>2
  <2>3. /\ w' \in [pc : Pcs, awaits : Events, i : Nat, rb : Nat, recover : BOOLEAN]
        /\ w'.pc = "finish" /\ w'.awaits = "none" /\ ~w'.recover
    BY <1>1, <1>2, <2>1, AtAction DEF Go, Pcs
  <2>4. ~Stale' /\ ~Reading' /\ Begun'
    BY <1>1, <1>2, <2>3 DEF Stale, Reading, Begun
  <2>5. TypeOK'
    BY <1>1, <2>1, <2>3 DEF IInv, TypeOK
  <2>6. ControlOK'
    BY <1>1, <1>2, <2>3 DEF ControlOK
  <2>7. PipeOK'
    <3>1. \A j \in 1..Len(hw.tx) : FALSE
      BY <2>2, EmptySeq DEF Quiet
    <3>2. \A b \in broken : b.t \in 1..asked
      BY DEF IInv, PipeOK
    <3>3. ~hw.shift.rd /\ Quiet' /\ hw.shift = NoCmd /\ hw.tx = << >>
      BY <2>1, <2>2 DEF Quiet, NoCmd
    <3>4. ~hw.abrt => Len(got) = queue[1].len
      BY <1>3, <1>6
    <3> QED
      BY <1>1, <1>2, <1>3, <2>1, <2>2, <2>3, <2>4, <3>1, <3>2, <3>3, <3>4 DEF PipeOK
  <2>8. \A k \in Kinds : \A n \in 1..Len(k) :
          Transfer(k) /\ queue[1] = Of(k[n], asked) =>
            (ReadErrors(k, n) => ReadErrors(k, n)')
    BY <1>1, <1>5, <2>1, <2>2, <2>3, <2>4 DEF ReadErrors, ToRead, Own, Broke, Quiet
  <2> QED
    BY <1>1, <1>2, <1>5, <2>4, <2>5, <2>6, <2>7, <2>8, ActionStep
<1>7. CASE w.rb < queue[1].len /\ hw.rx # << >>
  <2>1. /\ w' = [w EXCEPT !.rb = @ + 1]
        /\ hw' = [hw EXCEPT !.rx = Tail(@)]
        /\ got' = Append(got, Head(hw.rx))
    BY <1>2, <1>3, <1>7 DEF Fetch
  <2>2. /\ Tail(hw.rx) \in Seq(Nat) /\ Len(Tail(hw.rx)) = Len(hw.rx) - 1
        /\ Head(hw.rx) = asked
        /\ \A j \in 1..Len(Tail(hw.rx)) : Tail(hw.rx)[j] = asked
    <3> DEFINE s == hw.rx
    <3>1. /\ s \in Seq(Nat) /\ s # << >> /\ \A j \in 1..Len(s) : s[j] = asked
      BY <1>3, <1>7
    <3> HIDE DEF s
    <3>2. /\ Tail(s) \in Seq(Nat) /\ Len(Tail(s)) = Len(s) - 1 /\ Len(s) \in Nat
          /\ Len(s) > 0
      BY <3>1, HeadTailProperties, EmptySeq
    <3>3. Head(s) = asked
      BY <3>1, <3>2
    <3>4. ASSUME NEW j \in 1..Len(Tail(s)) PROVE Tail(s)[j] = asked
      <4>1. j + 1 \in 1..Len(s)
        BY <3>2
      <4>2. Tail(s)[j] = s[j + 1]
        BY <3>1, <3>2
      <4> QED
        BY <3>1, <4>1, <4>2
    <3> QED
      BY <3>2, <3>3, <3>4 DEF s
  <2>3. /\ w' \in [pc : Pcs, awaits : Events, i : Nat, rb : Nat, recover : BOOLEAN]
        /\ w'.pc = "fetch" /\ w'.awaits = "none" /\ ~w'.recover
        /\ w'.rb = w.rb + 1 /\ w'.i = w.i
    <3>1. w.rb + 1 \in Nat
      BY <1>3
    <3> QED
      BY <1>1, <1>2, <2>1, <3>1, AtAction
  <2>4. /\ hw' \in [tx : Seq(Cmd), shift : Cmd, rx : Seq(Nat), abrt : BOOLEAN,
                    mask : {"none", "tx_empty", "rx_full"}]
        /\ hw'.rx = Tail(hw.rx) /\ hw'.tx = hw.tx /\ hw'.shift = hw.shift
        /\ hw'.abrt = hw.abrt
    BY <1>1, <2>1, <2>2, AtAction
  <2>5. /\ got' \in Seq(Nat) /\ Len(got') = w'.rb
        /\ \A j \in 1..Len(got') : got'[j] = asked
    BY <1>2, <1>3, <2>1, <2>2, <2>3, AppendProperties
  <2>6. ~Stale' /\ Reading' /\ Reading' = Reading /\ Begun'
    BY <1>1, <1>2, <2>3 DEF Stale, Reading, Begun
  <2>7. TypeOK'
    BY <1>1, <2>3, <2>4, <2>5 DEF IInv, TypeOK
  <2>8. ControlOK'
    BY <1>1, <1>2, <1>3, <2>3 DEF ControlOK
  <2>9. /\ ~hw'.abrt /\ (hw'.shift = NoCmd \/ hw'.shift.rd) =>
               w'.rb + Len(hw'.rx) + Len(hw'.tx) + Busy' = w'.i
        /\ hw.shift = NoCmd \/ hw.shift.rd
        /\ hw'.abrt => w'.rb + Len(hw'.rx) <= w'.i
    <3>1. Busy' = Busy /\ Busy \in {0, 1}
      BY <2>4 DEF Busy
    <3>2. hw.shift = NoCmd \/ hw.shift.rd
      BY <1>4, <1>7
    <3>3. CASE hw.abrt
      <4>1. w.rb + Len(hw.rx) <= w.i
        BY <1>4, <3>3
      <4>2. w'.rb + Len(hw'.rx) <= w'.i
        BY <1>3, <2>2, <2>3, <2>4, <4>1
      <4> QED
        BY <2>4, <3>2, <3>3, <4>2
    <3>4. CASE ~hw.abrt
      <4>1. w.rb + Len(hw.rx) + Len(hw.tx) + Busy = w.i
        BY <1>4, <3>2, <3>4
      <4>2. /\ Len(hw'.rx) = Len(hw.rx) - 1 /\ Len(hw'.tx) = Len(hw.tx)
            /\ w'.rb = w.rb + 1 /\ w'.i = w.i /\ Busy' = Busy
        BY <2>2, <2>3, <2>4, <3>1
      <4>3. /\ w.rb \in Nat /\ w.i \in Nat /\ Len(hw.rx) \in Nat
            /\ Len(hw.tx) \in Nat /\ Busy \in Nat
        BY <1>3, <3>1
      <4>4. w'.rb + Len(hw'.rx) + Len(hw'.tx) + Busy' = w'.i
        <5> DEFINE a == w.rb  b == Len(hw.rx)  c == Len(hw.tx)  d == Busy
        <5>1. a \in Nat /\ b \in Nat /\ c \in Nat /\ d \in Nat
          BY <4>3
        <5>2. a + b + c + d = w'.i
          BY <4>1, <4>2
        <5>3. w'.rb = a + 1 /\ Len(hw'.rx) = b - 1 /\ Len(hw'.tx) = c /\ Busy' = d
          BY <4>2
        <5> HIDE DEF a, b, c, d
        <5>4. (a + 1) + (b - 1) + c + d = a + b + c + d
          BY <5>1
        <5> QED
          BY <5>2, <5>3, <5>4
      <4> QED
        BY <2>4, <3>2, <3>4, <4>4
    <3> QED
      BY <3>3, <3>4
  <2>10. PipeOK'
    <3>1. hw'.abrt => Quiet'
      BY <2>4 DEF IInv, PipeOK, Quiet
    <3>2. hw'.shift = NoCmd \/ hw'.shift.t \in 1..asked
      BY <2>4 DEF IInv, PipeOK
    <3>3. \A b \in broken : b.t \in 1..asked
      BY DEF IInv, PipeOK
    <3>4. Own'
      BY <1>1, <1>2, <2>4 DEF IInv, PipeOK, Own
    <3>5. \A j \in 1..Len(hw'.rx) : hw'.rx[j] = asked
      BY <2>2, <2>4
    <3>6. \A j \in 1..Len(hw'.tx) : hw'.tx[j].t = asked /\ hw'.tx[j].rd
      BY <1>2, <2>4 DEF IInv, PipeOK
    <3> QED
      BY <1>1, <2>3, <2>4, <2>5, <2>6, <2>9, <3>1, <3>2, <3>3, <3>4, <3>5, <3>6
      DEF PipeOK
  <2>11. \A k \in Kinds : \A n \in 1..Len(k) :
          Transfer(k) /\ queue[1] = Of(k[n], asked) =>
            (ReadErrors(k, n) => ReadErrors(k, n)')
    BY <1>1, <1>5, <2>3, <2>4, <2>6 DEF ReadErrors, ToRead, Own, Broke
  <2> QED
    BY <1>1, <1>2, <1>5, <2>6, <2>7, <2>8, <2>10, <2>11, ActionStep
<1>8. CASE w.rb < queue[1].len /\ hw.rx = << >> /\ ~hw.abrt
  <2>1. Await("rx_full") /\ UNCHANGED got
    BY <1>2, <1>3, <1>8 DEF Fetch
  <2> QED
    BY <1>1, <2>1, AwaitKeeps
<1>9. w.rb <= queue[1].len
  <2>1. Busy \in {0, 1}
    BY DEF Busy
  <2>2. w.rb <= w.i
    <3>1. CASE hw.abrt
      BY <1>3, <1>4, <3>1
    <3>2. CASE ~hw.abrt /\ (hw.shift = NoCmd \/ hw.shift.rd)
      <4>1. w.rb + Len(hw.rx) + Len(hw.tx) + Busy = w.i
        BY <1>4, <3>2
      <4> QED
        BY <1>3, <2>1, <4>1
    <3>3. CASE hw.shift # NoCmd /\ ~hw.shift.rd
      <4>1. w.rb = 0
        BY <1>4, <3>3
      <4> QED
        BY <1>3, <4>1
    <3> QED
      BY <3>1, <3>2, <3>3
  <2> QED
    BY <1>2, <1>3, <2>2
<1> QED
  BY <1>2, <1>3, <1>6, <1>7, <1>8, <1>9

(* The callback of a transfer comes with its last action; what it says is  *)
(* what the controller and the bytes say.                                  *)
LEMMA FinishKeeps == IInv /\ Finish => IInv'
<1> SUFFICES ASSUME IInv, Finish PROVE IInv'
  OBVIOUS
<1>1. /\ w.pc = "finish" /\ Running
      /\ UNCHANGED <<queue, queueTick, hw, got, puts, asked, broken>>
  BY DEF Finish, At, UnchangedByWorker
<1>2. /\ queue # << >> /\ queue[1].t = asked /\ queue[1].cb \in BOOLEAN
      /\ asked \in Nat \ {0} /\ Begun /\ ~Stale /\ ~Reading
      /\ Head(queue) = queue[1] /\ w.awaits = "none"
      /\ (w.recover <=> queue[1].type = "RecoverBus")
      /\ reports \in Seq([t : Nat, ok : BOOLEAN])
  BY <1>1, AtAction DEF Queued, Reading, IInv, ControlOK, TypeOK
<1>3. /\ w' \in [pc : Pcs, awaits : Events, i : Nat, rb : Nat, recover : BOOLEAN]
      /\ w'.pc = "callback" /\ w'.awaits = "none" /\ w'.recover = w.recover
      /\ w'.i = w.i /\ w'.rb = w.rb
  BY <1>1, AtAction DEF Finish, Go, Pcs
<1>4. ~Reading' /\ Reading' = Reading /\ (Stale' <=> queue[1].cb)
  BY <1>1, <1>2, <1>3 DEF Stale, Reading
<1>5. ControlOK'
  BY <1>1, <1>2, <1>3 DEF ControlOK
<1>6. CASE ~queue[1].cb
  <2>1. reports' = reports
    BY <1>2, <1>6 DEF Finish
  <2>2. Begun'
    BY <1>1, <1>2, <2>1 DEF Begun
  <2>3. TypeOK'
    BY <1>1, <1>3, <2>1 DEF IInv, TypeOK
  <2>4. PipeOK'
    BY <1>1, <1>2, <1>3, <1>4, <2>2 DEF IInv, PipeOK, Quiet
  <2>5. \A k \in Kinds : \A n \in 1..Len(k) :
          Transfer(k) /\ queue[1] = Of(k[n], asked) =>
            /\ WriteErrors(k, n) => WriteErrors(k, n)'
            /\ ReadErrors(k, n) => ReadErrors(k, n)'
    BY <1>1, <1>2, <1>3, <1>4, <1>6
    DEF WriteErrors, ReadErrors, ToRead, Untouched, Own, Quiet, Broke
  <2> QED
    BY <1>1, <1>2, <1>4, <1>5, <1>6, <2>1, <2>3, <2>4, <2>5, ActionStep
<1>7. CASE queue[1].cb
  <2> DEFINE r == [t |-> asked, ok |-> ~hw.abrt]
  <2>1. reports' = Append(reports, r)
    BY <1>2, <1>7 DEF Finish
  <2>2. hw.abrt \in BOOLEAN
    BY <1>1, AtAction
  <2>3. r \in [t : Nat, ok : BOOLEAN] /\ r.t = asked /\ (r.ok <=> ~hw.abrt)
    BY <1>2, <2>2
  <2> HIDE DEF r
  <2>4. /\ reports' \in Seq([t : Nat, ok : BOOLEAN])
        /\ Len(reports') = Len(reports) + 1 /\ Len(reports) \in Nat
        /\ reports'[Len(reports')] = r
        /\ \A j \in 1..Len(reports) : reports'[j] = reports[j]
    BY <1>2, <2>1, <2>3, AppendProperties
  <2>5. asked = Len(reports') /\ ~Begun'
    BY <1>1, <1>2, <2>4 DEF Begun
  <2>6. Stale' /\ Off' = 1
    BY <1>4, <1>7 DEF Off
  <2>7. PICK k \in Kinds : \E n \in 1..Len(k) :
              /\ Position(k, n)
              /\ SyncedWrite(k) => WriteErrors(k, n)
              /\ LastRead(k) => ReadErrors(k, n)
              /\ Transfer(k)
              /\ SyncedWrite(k) \/ LastRead(k)
              /\ queue[1] = Of(k[n], asked)
    BY <1>1, <1>2, Current
  <2>8. PICK n \in 1..Len(k) :
              /\ Position(k, n)
              /\ SyncedWrite(k) => WriteErrors(k, n)
              /\ LastRead(k) => ReadErrors(k, n)
              /\ Transfer(k)
              /\ SyncedWrite(k) \/ LastRead(k)
              /\ queue[1] = Of(k[n], asked)
    BY <2>7
  <2>9. n = Len(k) /\ k[n].type = queue[1].type /\ Len(k) \in Nat \ {0}
    BY <1>7, <2>8 DEF Of, Transfer
  <2>10. puts = << >> /\ Len(queue) = 1
    <3>1. /\ Len(queue) \in Nat \ {0} /\ Len(puts) \in Nat
          /\ puts \in Seq(Queued)
      BY <1>2 DEF IInv, TypeOK
    <3>2. n = Len(k) + 1 + 0 - Len(queue) - Len(puts)
      BY <1>2, <2>8 DEF Position, Off
    <3>3. Len(queue) = 1 /\ Len(puts) = 0
      <4> DEFINE q == Len(queue)  p == Len(puts)  m == Len(k)
      <4>1. q \in Nat \ {0} /\ p \in Nat /\ m \in Nat
        BY <2>9, <3>1
      <4>2. m = m + 1 + 0 - q - p
        BY <2>9, <3>2
      <4> HIDE DEF q, p, m
      <4>3. q = 1 /\ p = 0
        BY <4>1, <4>2
      <4> QED
        BY <4>3 DEF q, p
    <3> QED
      BY <3>1, <3>3, EmptySeq
  <2>11. \/ /\ queue[1].type = "Sync" /\ hw.tx = << >>
            /\ hw.abrt <=> Broke(asked, FALSE)
         \/ /\ queue[1].type = "Read" /\ hw.tx = << >>
            /\ hw.abrt => Broke(asked, FALSE) \/ Broke(asked, TRUE)
            /\ Broke(asked, TRUE) => hw.abrt
    <3>1. CASE SyncedWrite(k)
      <4>1. k[n].type = "Sync" /\ n # 1
        BY <2>9, <3>1 DEF SyncedWrite
      <4>2. hw.abrt <=> Broke(asked, FALSE)
        BY <1>1, <2>8, <3>1, <4>1 DEF WriteErrors
      <4>3. hw.tx = << >>
        BY <1>1, <2>9, <4>1 DEF IInv, PipeOK
      <4> QED
        BY <2>9, <4>1, <4>2, <4>3
    <3>2. CASE LastRead(k)
      <4>1. k[n].type = "Read"
        BY <2>9, <3>2 DEF LastRead
      <4>2. /\ hw.abrt => Broke(asked, FALSE) \/ Broke(asked, TRUE)
            /\ Broke(asked, TRUE) => hw.abrt
        BY <1>1, <2>8, <3>2, <4>1 DEF ReadErrors, ToRead
      <4>3. hw.tx = << >>
        BY <1>1, <2>9, <4>1 DEF IInv, PipeOK, Quiet
      <4> QED
        BY <2>9, <4>1, <4>2, <4>3
    <3> QED
      BY <2>8, <3>1, <3>2
  <2>12. TypeOK'
    BY <1>1, <1>3, <2>4 DEF IInv, TypeOK
  <2>13. PipeOK'
    BY <1>1, <1>2, <1>3, <1>4, <2>5, <2>11 DEF IInv, PipeOK, Quiet
  <2>14. ReportsOK'
    <3>1. \A j \in 1..Len(reports') : reports'[j].t = j
      <4>1. \A j \in 1..Len(reports) : reports[j].t = j
        BY DEF IInv, ReportsOK
      <4>2. reports'[Len(reports')].t = Len(reports')
        BY <2>3, <2>4, <2>5
      <4> QED
        BY <2>4, <4>1, <4>2
    <3> QED
      BY <1>1, <2>5, <2>6, <2>10, <3>1 DEF ReportsOK
  <2>15. Told'
    <3>1. LastReport' = r
      BY <2>4 DEF LastReport
    <3>2. queue' = queue /\ hw' = hw /\ broken' = broken
      BY <1>1
    <3>3. Len(reports') > 0 /\ queue[1].t = Len(reports')
      BY <1>2, <2>5
    <3>4. ~r.ok => Broke(asked, TRUE) \/ Broke(asked, FALSE)
      BY <2>3, <2>11
    <3>5. r.ok => ~Broke(asked, queue[1].type = "Read")
      <4>1. CASE queue[1].type = "Sync"
        <5>1. (queue[1].type = "Read") = FALSE
          BY <4>1
        <5> QED
          BY <2>3, <2>11, <4>1, <5>1
      <4>2. CASE queue[1].type = "Read"
        <5>1. (queue[1].type = "Read") = TRUE
          BY <4>2
        <5> QED
          BY <2>3, <2>11, <4>2, <5>1
      <4> QED
        BY <2>11, <4>1, <4>2
    <3>6. queue[1].type \in {"Sync", "Read"}
      BY <2>11
    <3> QED
      BY <2>3, <3>1, <3>2, <3>3, <3>4, <3>5, <3>6 DEF Told, Broke
  <2> QED
    BY <1>5, <2>12, <2>13, <2>14, <2>15 DEF IInv
<1> QED
  BY <1>2, <1>6, <1>7

(* The queue without its head. *)
LEMMA PoppedPosition ==
  ASSUME NEW k \in Kinds, NEW n \in 1..Len(k), NEW m \in 1..Len(k),
         IInv, Position(k, n), queue # << >>, queue' = Tail(queue),
         UNCHANGED <<puts, asked>>, Off' = 0, ~Stale',
         m = Len(k) + 1 + 0 - Len(queue') - Len(puts)
  PROVE  Position(k, m)'
<1>1. /\ Len(k) \in Nat /\ Len(puts) \in Nat /\ Off \in {0, 1}
      /\ queue \in Seq(Queued)
  BY KindsAssumption DEF Transfer, IInv, TypeOK, Off
<1>2. /\ Len(queue') = Len(queue) - 1 /\ Len(queue) \in Nat \ {0}
      /\ \A j \in 1..Len(queue') : queue'[j] = queue[j + 1]
  BY <1>1, HeadTailProperties, EmptySeq
<1>3. ASSUME NEW j \in 1..Len(queue')
      PROVE  queue'[j] = Of(k[Len(k) - Len(puts) - Len(queue') + j], asked)
  <2>1. j + 1 \in 1..Len(queue) /\ j + 1 > Off
    BY <1>1, <1>2
  <2>2. Len(k) - Len(puts) - Len(queue) + (j + 1)
          = Len(k) - Len(puts) - Len(queue') + j
    BY <1>1, <1>2
  <2>3. queue[j + 1] = Of(k[Len(k) - Len(puts) - Len(queue) + (j + 1)], asked)
    BY <2>1 DEF Position
  <2> QED
    BY <1>2, <2>2, <2>3
<1> QED
  BY <1>3 DEF Position

LEMMA PopKeeps == IInv /\ Pop => IInv'
<1> SUFFICES ASSUME IInv, Pop PROVE IInv'
  OBVIOUS
<1>1. /\ w.pc = "callback" /\ Running /\ puts = << >> /\ queue' = Tail(queue)
      /\ UNCHANGED <<queueTick, reports, got, puts, asked, broken>>
      /\ IF w.recover THEN hw' = Reset ELSE UNCHANGED hw
      /\ queue # << >> /\ queue \in Seq(Queued)
      /\ (w.recover <=> queue[1].type = "RecoverBus")
  BY DEF Pop, At, UnchangedByWorker, IInv, ControlOK, TypeOK
<1>2. /\ queue' \in Seq(Queued) /\ Len(queue') = Len(queue) - 1
      /\ Len(queue) \in Nat \ {0} /\ queue[1].cb \in BOOLEAN
      /\ \A j \in 1..Len(queue') : queue'[j] = queue[j + 1]
  <2>1. Len(queue) \in Nat \ {0}
    BY <1>1, EmptySeq
  <2>2. queue[1] \in Queued
    BY <1>1, <2>1, ElementOfSeq
  <2>3. /\ queue' \in Seq(Queued) /\ Len(queue') = Len(queue) - 1
        /\ \A j \in 1..Len(queue') : queue'[j] = queue[j + 1]
    BY <1>1, HeadTailProperties
  <2> QED
    BY <2>1, <2>2, <2>3 DEF Queued
<1>3. /\ w' \in [pc : Pcs, awaits : Events, i : Nat, rb : Nat, recover : BOOLEAN]
      /\ w'.pc = "next" /\ w'.awaits = "none" /\ ~w'.recover
  <2>1. w \in [pc : Pcs, awaits : Events, i : Nat, rb : Nat, recover : BOOLEAN]
    BY DEF IInv, TypeOK
  <2>2. w' = [[w EXCEPT !.pc = "next"] EXCEPT !.recover = FALSE]
    BY DEF Pop
  <2> QED
    BY <1>1, <2>1, <2>2 DEF Pcs, Running
<1>4. ~Stale' /\ Off' = 0 /\ ~Reading' /\ ~Reading /\ Reading' = Reading
      /\ Begun' = Begun
  BY <1>1, <1>3 DEF Stale, Off, Reading, Begun
<1>5. /\ hw' \in [tx : Seq(Cmd), shift : Cmd, rx : Seq(Nat), abrt : BOOLEAN,
                  mask : {"none", "tx_empty", "rx_full"}]
      /\ w.recover => /\ hw'.tx = << >> /\ hw'.shift = NoCmd /\ hw'.rx = << >>
                      /\ ~hw'.abrt
  <2>1. << >> \in Seq(Cmd) /\ << >> \in Seq(Nat) /\ NoCmd \in Cmd
    BY EmptySeq DEF NoCmd, Cmd
  <2>2. hw \in [tx : Seq(Cmd), shift : Cmd, rx : Seq(Nat), abrt : BOOLEAN,
                  mask : {"none", "tx_empty", "rx_full"}]
    BY DEF IInv, TypeOK
  <2>3. CASE w.recover
    <3>1. hw' = [tx |-> << >>, shift |-> NoCmd, rx |-> << >>, abrt |-> FALSE,
                 mask |-> "none"]
      BY <1>1, <2>3 DEF Reset
    <3> QED
      BY <2>1, <3>1
  <2>4. CASE ~w.recover
    BY <1>1, <2>2, <2>4
  <2> QED
    BY <2>3, <2>4
<1>6. TypeOK'
  BY <1>1, <1>2, <1>3, <1>5 DEF IInv, TypeOK
<1>7. ControlOK'
  BY <1>1, <1>3 DEF ControlOK
<1>8. PipeOK'
  <2>1. CASE w.recover
    <3>1. \A j \in 1..Len(hw'.tx) : FALSE
      BY <1>5, <2>1, EmptySeq
    <3>2. \A b \in broken : b.t \in 1..asked
      BY DEF IInv, PipeOK
    <3>3. ~NoCmd.rd
      BY DEF NoCmd
    <3> QED
      BY <1>1, <1>3, <1>4, <1>5, <2>1, <3>1, <3>2, <3>3 DEF PipeOK
  <2>2. CASE ~w.recover
    BY <1>1, <1>3, <1>4, <2>2 DEF IInv, PipeOK, Quiet
  <2> QED
    BY <2>1, <2>2
<1>9. Told'
  BY <1>4 DEF Told
<1>10. CASE Stale
  <2>1. Off = 1 /\ ~w.recover /\ hw' = hw
    BY <1>1, <1>10 DEF Off, IInv, Told
  <2>2. CASE asked = Len(reports)
    <3>1. Len(queue') = 0
      BY <1>2, <2>1, <2>2 DEF IInv, ReportsOK
    <3> QED
      BY <1>1, <1>4, <1>6, <1>7, <1>8, <1>9, <2>2, <3>1 DEF IInv, ReportsOK
  <2>3. CASE asked # Len(reports)
    <3>1. PICK k \in Kinds : \E n \in 1..Len(k) :
            /\ Position(k, n)
            /\ SyncedWrite(k) => WriteErrors(k, n)
            /\ LastRead(k) => ReadErrors(k, n)
      BY <2>3 DEF IInv, ReportsOK, Underway
    <3>2. PICK n \in 1..Len(k) :
            /\ Position(k, n)
            /\ SyncedWrite(k) => WriteErrors(k, n)
            /\ LastRead(k) => ReadErrors(k, n)
      BY <3>1
    <3>3. n = 1 /\ Transfer(k)
      BY <1>10, <3>2, KindsAssumption DEF Position
    <3>4. Position(k, n)'
      <4>1. n = Len(k) + 1 + 0 - Len(queue') - Len(puts)
        <5>1. n = Len(k) + 1 + 1 - Len(queue) - Len(puts)
          BY <2>1, <3>2 DEF Position
        <5> QED
          BY <5>1, <1>2, <3>3, EmptySeq, <1>1 DEF Transfer
      <4> QED
        BY <4>1, <1>10, <2>1, <3>2, <3>3, PoppedPosition, <1>1, <1>4
    <3>5. SyncedWrite(k) => WriteErrors(k, n)'
      BY <1>1, <1>3, <1>4, <1>10, <2>1, <3>2, <3>3 DEF WriteErrors, Broke
    <3>6. LastRead(k) => ReadErrors(k, n)'
      <4>1. k[n].type # "Read" \/ ~LastRead(k)
        BY <3>3 DEF LastRead
      <4> QED
        BY <1>1, <1>3, <1>4, <1>10, <2>1, <3>2, <3>3, <4>1
        DEF ReadErrors, ToRead, Untouched, Broke
    <3>7. ReportsOK'
      BY <1>1, <1>4, <2>3, <3>2, <3>4, <3>5, <3>6 DEF IInv, ReportsOK, Underway
    <3> QED
      BY <1>6, <1>7, <1>8, <1>9, <3>7 DEF IInv
  <2> QED
    BY <2>2, <2>3
<1>11. CASE ~Stale
  <2>1. PICK k \in Kinds : \E n \in 1..Len(k) :
              /\ Position(k, n)
              /\ SyncedWrite(k) => WriteErrors(k, n)
              /\ LastRead(k) => ReadErrors(k, n)
              /\ Transfer(k)
              /\ queue[1] = Of(k[n], asked)
    BY <1>1, <1>11, Current
  <2>2. PICK n \in 1..Len(k) :
              /\ Position(k, n)
              /\ SyncedWrite(k) => WriteErrors(k, n)
              /\ LastRead(k) => ReadErrors(k, n)
              /\ Transfer(k)
              /\ queue[1] = Of(k[n], asked)
    BY <2>1
  <2>3. /\ Begun /\ asked # Len(reports) /\ Off = 0
        /\ n \in Nat \ {0} /\ Len(k) \in Nat /\ n # Len(k)
        /\ n + 1 \in 1..Len(k) /\ n + 1 # 1
        /\ k[n].type = queue[1].type
    <3>1. Begun /\ Off = 0
      BY <1>1, <1>11, Current DEF Off
    <3>2. Len(reports) \in Nat /\ Len(k) \in Nat
      BY <2>2 DEF IInv, TypeOK, Transfer
    <3>3. n # Len(k) /\ k[n].type = queue[1].type
      BY <1>1, <1>11, <2>2 DEF Stale, Transfer, Of
    <3> QED
      BY <3>1, <3>2, <3>3 DEF Begun
  <2>4. Position(k, n + 1)'
    <3>1. n + 1 = Len(k) + 1 + 0 - Len(queue') - Len(puts)
      <4>1. n = Len(k) + 1 + 0 - Len(queue) - Len(puts)
        BY <2>2, <2>3 DEF Position
      <4>2. Len(puts) = 0
        BY <1>1, EmptySeq
      <4> QED
        BY <1>2, <2>3, <4>1, <4>2
    <3> QED
      BY <1>1, <1>4, <2>2, <2>3, <3>1, PoppedPosition
  <2>5. SyncedWrite(k) => WriteErrors(k, n + 1)'
    <3>1. SyncedWrite(k) => ~w.recover /\ k[n].type # "Read"
      <4>1. SyncedWrite(k) => k[n].type \in {"SetAddr", "Write"}
        BY <2>3 DEF SyncedWrite
      <4> QED
        BY <1>1, <2>3, <4>1
    <3>2. n + 1 = 2 => n = 1
      BY <2>3
    <3> QED
      BY <1>1, <1>3, <1>4, <1>11, <2>2, <2>3, <3>1, <3>2
      DEF WriteErrors, Own, Quiet, Broke
  <2>6. LastRead(k) => ReadErrors(k, n + 1)'
    <3>1. ~Untouched(n + 1)'
      BY <2>3 DEF Untouched
    <3>2. CASE w.recover
      <4>1. LastRead(k) => k[n].type # "Read" /\ ToRead(k, n + 1)'
        <5>1. LastRead(k) /\ k[n + 1].type = "Read" => k[n + 1].restart
          <6>1. n + 1 \in 2..Len(k) /\ (n + 1) - 1 = n
            BY <2>3
          <6> QED
            BY <1>1, <2>3, <3>2, <6>1 DEF LastRead
        <5> QED
          BY <1>1, <1>3, <2>3, <3>2, <5>1 DEF ToRead
      <4> QED
        BY <1>1, <1>5, <2>2, <3>1, <3>2, <4>1 DEF ReadErrors, ToRead, Own, Broke
    <3>3. CASE ~w.recover
      <4>1. n + 1 \in 2..Len(k) /\ (n + 1) - 1 = n
        BY <2>3
      <4>2. CASE k[n].type = "Read"
        <5>1. LastRead(k) => k[n + 1].type = "Read" /\ ~k[n + 1].restart
          BY <4>1, <4>2 DEF LastRead
        <5> QED
          BY <1>1, <1>4, <2>2, <3>3, <4>2, <5>1
          DEF ReadErrors, ToRead, Own, Quiet, Broke
      <4>3. CASE k[n].type # "Read"
        <5>1. LastRead(k) => ToRead(k, n + 1)'
          BY <1>3, <4>1, <4>3 DEF LastRead, ToRead
        <5>2. ~Untouched(n)
          BY <1>1, <1>11, <3>3 DEF Untouched
        <5> QED
          BY <1>1, <2>2, <3>1, <3>3, <4>3, <5>1, <5>2
          DEF ReadErrors, ToRead, Own, Broke
      <4> QED
        BY <4>2, <4>3
    <3> QED
      BY <3>2, <3>3
  <2>7. ReportsOK'
    BY <1>1, <1>4, <2>3, <2>4, <2>5, <2>6 DEF IInv, ReportsOK, Underway
  <2> QED
    BY <1>6, <1>7, <1>8, <1>9, <2>7 DEF IInv
<1> QED
  BY <1>10, <1>11

-----------------------------------------------------------------------------
(* The steps of the controller and its interrupt. *)

(* Nobody runs: no action is at its callback. *)
LEMMA Away ==
  ASSUME IInv, ~InInterrupt
  PROVE  /\ ~Stale /\ w.awaits # "none" /\ puts = << >>
         /\ w.pc \in {"next", "drain", "push", "room", "fetch"}
         /\ w.pc = "push" => queue[1].type = "Write"
BY DEF IInv, TypeOK, ControlOK, InInterrupt, Running, Stale, Events, Pcs

(* A step of the hardware: it leaves the queue, the coroutine's place and  *)
(* the reports alone.                                                      *)
LEMMA BusStep ==
  ASSUME IInv, UNCHANGED <<queue, puts, asked, reports>>,
         w'.pc = w.pc, w'.i = w.i, w'.rb = w.rb, w'.recover = w.recover,
         TypeOK', ControlOK', PipeOK', Told',
         Begun => \A k \in Kinds : \A n \in 1..Len(k) :
           /\ Transfer(k)
           /\ Position(k, n)
           /\ SyncedWrite(k) => WriteErrors(k, n)
           /\ LastRead(k) => ReadErrors(k, n)
           => /\ SyncedWrite(k) => WriteErrors(k, n)'
              /\ LastRead(k) => ReadErrors(k, n)'
  PROVE  IInv'
<1>1. Stale' = Stale /\ Off' = Off /\ Begun' = Begun
  BY DEF Stale, Off, Begun
<1>2. ASSUME asked # Len(reports) PROVE Underway'
  <2>1. Begun /\ Underway
    BY <1>2 DEF IInv, ReportsOK
  <2>2. PICK k \in Kinds : \E n \in 1..Len(k) :
         /\ Position(k, n)
         /\ SyncedWrite(k) => WriteErrors(k, n)
         /\ LastRead(k) => ReadErrors(k, n)
    BY <2>1 DEF Underway
  <2>3. PICK n \in 1..Len(k) :
         /\ Position(k, n)
         /\ SyncedWrite(k) => WriteErrors(k, n)
         /\ LastRead(k) => ReadErrors(k, n)
    BY <2>2
  <2>4. Transfer(k)
    BY KindsAssumption
  <2>5. (SyncedWrite(k) => WriteErrors(k, n)') /\ (LastRead(k) => ReadErrors(k, n)')
    BY <2>1, <2>3, <2>4
  <2>6. Position(k, n)'
    BY <1>1, <2>3 DEF Position
  <2> QED
    BY <2>5, <2>6 DEF Underway
<1>3. ReportsOK'
  BY <1>1, <1>2 DEF IInv, ReportsOK
<1> QED
  BY <1>3 DEF IInv

LEMMA IrqKeeps == IInv /\ Irq => IInv'
<1> SUFFICES ASSUME IInv, Irq PROVE IInv'
  OBVIOUS
<1>1. /\ ~InInterrupt
      /\ UNCHANGED <<queue, queueTick, puts, asked, reports, got, broken>>
  BY DEF Irq
<1>2. w \in [pc : Pcs, awaits : Events, i : Nat, rb : Nat, recover : BOOLEAN]
  BY DEF IInv, TypeOK
<1>3. /\ w' \in [pc : Pcs, awaits : Events, i : Nat, rb : Nat, recover : BOOLEAN]
      /\ w'.pc = w.pc /\ w'.i = w.i /\ w'.rb = w.rb /\ w'.recover = w.recover
      /\ w'.awaits \in {"none", w.awaits}
  BY <1>2 DEF Irq, Events
<1>4. /\ hw' \in [tx : Seq(Cmd), shift : Cmd, rx : Seq(Nat), abrt : BOOLEAN,
                  mask : {"none", "tx_empty", "rx_full"}]
      /\ hw'.tx = hw.tx /\ hw'.shift = hw.shift /\ hw'.rx = hw.rx
      /\ hw'.abrt = hw.abrt
  BY DEF Irq, IInv, TypeOK
<1>5. Stale' = Stale /\ Reading' = Reading /\ Begun' = Begun /\ ~Stale
  BY <1>1, <1>3, Away DEF Stale, Reading, Begun
<1>6. TypeOK'
  BY <1>1, <1>3, <1>4 DEF IInv, TypeOK
<1>7. ControlOK'
  BY <1>1, <1>3 DEF IInv, ControlOK
<1>8. PipeOK'
  BY <1>1, <1>3, <1>4, <1>5 DEF IInv, PipeOK, Quiet, Own, Busy
<1>9. Told'
  BY <1>5 DEF Told
<1>10. \A k \in Kinds : \A n \in 1..Len(k) :
        /\ WriteErrors(k, n) => WriteErrors(k, n)'
        /\ ReadErrors(k, n) => ReadErrors(k, n)'
  BY <1>1, <1>3, <1>4, <1>5
  DEF WriteErrors, ReadErrors, ToRead, Untouched, Own, Quiet, Broke
<1> QED
  BY <1>1, <1>3, <1>6, <1>7, <1>8, <1>9, <1>10, BusStep

LEMMA TakeCommandKeeps == IInv /\ TakeCommand => IInv'
<1> SUFFICES ASSUME IInv, TakeCommand PROVE IInv'
  OBVIOUS
<1>1. /\ hw.shift = NoCmd /\ hw.tx # << >>
      /\ UNCHANGED <<queue, queueTick, w, puts, asked, reports, got, broken>>
  BY DEF TakeCommand, UnchangedByBus
<1>2. /\ hw.tx \in Seq(Cmd) /\ Len(hw.tx) \in Nat \ {0}
      /\ Head(hw.tx) = hw.tx[1] /\ Head(hw.tx) \in Cmd
      /\ Tail(hw.tx) \in Seq(Cmd) /\ Len(Tail(hw.tx)) = Len(hw.tx) - 1
      /\ \A j \in 1..Len(Tail(hw.tx)) : Tail(hw.tx)[j] = hw.tx[j + 1]
  <2>1. hw.tx \in Seq(Cmd)
    BY DEF IInv, TypeOK
  <2> QED
    BY <1>1, <2>1, HeadTailProperties, EmptySeq
<1>3. /\ hw' \in [tx : Seq(Cmd), shift : Cmd, rx : Seq(Nat), abrt : BOOLEAN,
                  mask : {"none", "tx_empty", "rx_full"}]
      /\ hw'.tx = Tail(hw.tx) /\ hw'.shift = Head(hw.tx) /\ hw'.rx = hw.rx
      /\ hw'.abrt = hw.abrt
  <2>1. hw \in [tx : Seq(Cmd), shift : Cmd, rx : Seq(Nat), abrt : BOOLEAN,
                mask : {"none", "tx_empty", "rx_full"}]
    BY DEF IInv, TypeOK
  <2> QED
    BY <1>2, <2>1 DEF TakeCommand
<1>4. /\ ~hw.abrt /\ Begun /\ asked \in Nat \ {0}
      /\ hw'.shift.t = asked /\ (hw'.shift.rd <=> Reading) /\ hw'.shift # NoCmd
  <2>1. ~hw.abrt
    BY <1>1 DEF IInv, PipeOK, Quiet
  <2>2. Begun
    BY <1>1 DEF IInv, PipeOK
  <2>3. asked \in Nat \ {0}
    BY <2>2 DEF IInv, TypeOK, Begun
  <2>4. hw.tx[1].t = asked /\ (hw.tx[1].rd <=> Reading)
    BY <1>2 DEF IInv, PipeOK
  <2> QED
    BY <1>2, <1>3, <2>1, <2>2, <2>3, <2>4 DEF NoCmd
<1>5. Stale' = Stale /\ Reading' = Reading /\ Begun'
  BY <1>1, <1>4 DEF Stale, Reading, Begun
<1>6. ~Stale
  <2>1. Stale => hw.tx = << >>
    BY DEF IInv, Told, PipeOK, Stale, Quiet
  <2> QED
    BY <1>1, <2>1
<1>7. TypeOK'
  BY <1>1, <1>3 DEF IInv, TypeOK
<1>8. ControlOK'
  BY <1>1 DEF IInv, ControlOK
<1>9. \A j \in 1..Len(hw'.tx) : hw'.tx[j].t = asked /\ (hw'.tx[j].rd <=> Reading)
  <2> SUFFICES ASSUME NEW j \in 1..Len(hw'.tx)
               PROVE  hw'.tx[j].t = asked /\ (hw'.tx[j].rd <=> Reading)
    OBVIOUS
  <2>1. j + 1 \in 1..Len(hw.tx) /\ hw'.tx[j] = hw.tx[j + 1]
    BY <1>2, <1>3
  <2> QED
    BY <2>1 DEF IInv, PipeOK
<1>10. Reading => w.rb + Len(hw'.rx) + Len(hw'.tx) + Busy' = w.i
  <2> SUFFICES ASSUME Reading
               PROVE  w.rb + Len(hw'.rx) + Len(hw'.tx) + Busy' = w.i
    OBVIOUS
  <2> DEFINE a == w.rb  b == Len(hw.rx)  c == Len(hw.tx)
  <2>1. a \in Nat /\ b \in Nat /\ c \in Nat
    BY <1>2 DEF IInv, TypeOK
  <2>2. a + b + c + 0 = w.i
    <3>1. Busy = 0
      BY <1>1 DEF Busy
    <3> QED
      BY <1>1, <1>4, <3>1 DEF IInv, PipeOK
  <2>3. Len(hw'.rx) = b /\ Len(hw'.tx) = c - 1 /\ Busy' = 1
    BY <1>2, <1>3, <1>4 DEF Busy
  <2> HIDE DEF a, b, c
  <2>4. a + b + (c - 1) + 1 = a + b + c + 0
    BY <2>1
  <2> QED
    BY <2>2, <2>3, <2>4 DEF a
<1>11. PipeOK'
  <2>1. hw'.shift.t \in 1..asked
    BY <1>4
  <2>2. Own'
    BY <1>1, <1>4 DEF Own
  <2>3. ~(w.pc \in {"finish", "callback"} /\ queue[1].type \in {"Read", "Sync"})
    BY <1>1 DEF IInv, PipeOK, Quiet
  <2>4. /\ ~Reading => hw.rx = << >>
        /\ Reading => \A j \in 1..Len(hw.rx) : hw.rx[j] = asked
        /\ Reading => Len(got) = w.rb /\ \A j \in 1..Len(got) : got[j] = asked
        /\ Reading /\ w.pc = "push" => hw.rx = << >>
        /\ \A b \in broken : b.t \in 1..asked
    BY DEF IInv, PipeOK
  <2> QED
    BY <1>1, <1>3, <1>4, <1>5, <1>9, <1>10, <2>1, <2>2, <2>3, <2>4 DEF PipeOK
<1>12. Told'
  BY <1>5, <1>6 DEF Told
<1>13. ASSUME NEW k \in Kinds, NEW n \in 1..Len(k)
       PROVE  /\ WriteErrors(k, n) => WriteErrors(k, n)'
              /\ ReadErrors(k, n) => ReadErrors(k, n)'
  <2>1. Own' /\ ~Quiet
    BY <1>1, <1>4 DEF Own, Quiet
  <2>2. Untouched(n)' = Untouched(n)
    BY <1>1, <1>5 DEF Untouched
  <2>3. WriteErrors(k, n) => WriteErrors(k, n)'
    BY <1>1, <1>3, <1>5, <2>1 DEF WriteErrors, Broke
  <2>4. ReadErrors(k, n) => ReadErrors(k, n)'
    BY <1>1, <1>3, <1>5, <2>1, <2>2 DEF ReadErrors, ToRead, Broke
  <2> QED
    BY <2>3, <2>4
<1> QED
  BY <1>1, <1>7, <1>8, <1>11, <1>12, <1>13, BusStep

LEMMA ByteDoneKeeps == IInv /\ ByteDone => IInv'
<1> SUFFICES ASSUME IInv, ByteDone PROVE IInv'
  OBVIOUS
<1>1. /\ hw.shift # NoCmd /\ ~InInterrupt
      /\ UNCHANGED <<queue, queueTick, w, puts, asked, reports, got, broken>>
  BY DEF ByteDone, UnchangedByBus
<1>2. /\ hw.shift.t \in 1..asked /\ asked \in Nat /\ hw.shift.t \in Nat
      /\ hw.rx \in Seq(Nat) /\ hw.tx \in Seq(Cmd)
      /\ Len(hw.rx) \in Nat /\ Len(hw.tx) \in Nat /\ w.rb \in Nat /\ ~hw.abrt
  BY <1>1 DEF IInv, TypeOK, PipeOK, Quiet
<1>3. /\ hw' \in [tx : Seq(Cmd), shift : Cmd, rx : Seq(Nat), abrt : BOOLEAN,
                  mask : {"none", "tx_empty", "rx_full"}]
      /\ hw'.tx = hw.tx /\ hw'.shift = NoCmd /\ hw'.abrt = hw.abrt
      /\ hw'.rx = IF hw.shift.rd THEN Append(hw.rx, hw.shift.t) ELSE hw.rx
  <2>1. hw \in [tx : Seq(Cmd), shift : Cmd, rx : Seq(Nat), abrt : BOOLEAN,
                mask : {"none", "tx_empty", "rx_full"}]
    BY DEF IInv, TypeOK
  <2>2. Append(hw.rx, hw.shift.t) \in Seq(Nat) /\ NoCmd \in Cmd
    BY <1>2, AppendProperties DEF NoCmd, Cmd
  <2> QED
    BY <2>1, <2>2 DEF ByteDone
<1>4. Stale' = Stale /\ ~Stale /\ Reading' = Reading /\ Begun' = Begun
  BY <1>1, Away DEF Stale, Reading, Begun
<1>5. TypeOK'
  BY <1>1, <1>3 DEF IInv, TypeOK
<1>6. ControlOK'
  BY <1>1 DEF IInv, ControlOK
<1>7. ASSUME Reading PROVE PipeOK'
  <2>1. w.pc # "push"
    BY <1>1, <1>7, Away DEF Reading
  <2>2. /\ \A j \in 1..Len(hw.rx) : hw.rx[j] = asked
        /\ Len(got) = w.rb /\ \A j \in 1..Len(got) : got[j] = asked
        /\ hw.shift.t = asked
        /\ \A b \in broken : b.t \in 1..asked
        /\ \A j \in 1..Len(hw.tx) : hw.tx[j].t = asked /\ hw.tx[j].rd
        /\ ~Begun => hw.tx = << >>
    BY <1>1, <1>7 DEF IInv, PipeOK, Own
  <2>3. \A j \in 1..Len(hw'.rx) : hw'.rx[j] = asked
    BY <1>2, <1>3, <2>2, AppendProperties
  <2>4. w.rb + Len(hw'.rx) + Len(hw'.tx) + Busy' = w.i
    <3>1. Busy = 1 /\ Busy' = 0
      BY <1>1, <1>3 DEF Busy
    <3>2. CASE hw.shift.rd
      <4> DEFINE a == w.rb  b == Len(hw.rx)  c == Len(hw.tx)
      <4>1. a \in Nat /\ b \in Nat /\ c \in Nat
        BY <1>2
      <4>2. a + b + c + 1 = w.i
        BY <1>2, <1>7, <3>1, <3>2 DEF IInv, PipeOK
      <4>3. Len(hw'.rx) = b + 1 /\ Len(hw'.tx) = c
        BY <1>2, <1>3, <3>2, AppendProperties
      <4> HIDE DEF a, b, c
      <4>4. a + (b + 1) + c + 0 = a + b + c + 1
        BY <4>1
      <4> QED
        BY <3>1, <4>2, <4>3, <4>4 DEF a
    <3>3. CASE ~hw.shift.rd
      <4>1. w.rb = 0 /\ hw.rx = << >> /\ Len(hw.tx) = w.i
        BY <1>1, <1>7, <3>3 DEF IInv, PipeOK
      <4>2. hw'.rx = << >> /\ hw'.tx = hw.tx
        BY <1>3, <3>3, <4>1
      <4>3. 0 + 0 + Len(hw.tx) + 0 = Len(hw.tx)
        BY <1>2
      <4> QED
        BY <3>1, <4>1, <4>2, <4>3, EmptySeq
    <3> QED
      BY <3>2, <3>3
  <2>5. ~(w.pc \in {"finish", "callback"})
    BY <1>1, Away
  <2>6. Own'
    BY <1>3 DEF Own
  <2> QED
    BY <1>1, <1>2, <1>3, <1>4, <1>7, <2>1, <2>2, <2>3, <2>4, <2>5, <2>6 DEF PipeOK
<1>8. ASSUME ~Reading PROVE PipeOK'
  <2>1. hw'.rx = << >> /\ ~NoCmd.rd
    BY <1>3, <1>8 DEF IInv, PipeOK, NoCmd
  <2>2. ~(w.pc \in {"finish", "callback"})
    BY <1>1, Away
  <2>3. /\ \A b \in broken : b.t \in 1..asked
        /\ \A j \in 1..Len(hw.tx) : hw.tx[j].t = asked /\ ~hw.tx[j].rd
        /\ ~Begun => hw.tx = << >>
    BY <1>8 DEF IInv, PipeOK
  <2> QED
    BY <1>1, <1>2, <1>3, <1>4, <1>8, <2>1, <2>2, <2>3 DEF PipeOK
<1>9. Told'
  BY <1>4 DEF Told
<1>10. ASSUME Begun, NEW k \in Kinds, NEW n \in 1..Len(k)
       PROVE  /\ WriteErrors(k, n) => WriteErrors(k, n)'
              /\ ReadErrors(k, n) => ReadErrors(k, n)'
  <2>1. Own' /\ ~Quiet /\ NoCmd.t # asked
    BY <1>1, <1>3, <1>10 DEF Own, Quiet, NoCmd, IInv, TypeOK, Begun
  <2>2. Untouched(n)' = Untouched(n)
    BY <1>1, <1>4 DEF Untouched
  <2>3. WriteErrors(k, n) => WriteErrors(k, n)'
    BY <1>1, <1>3, <1>4, <2>1 DEF WriteErrors, Broke
  <2>4. ReadErrors(k, n) => ReadErrors(k, n)'
    BY <1>1, <1>3, <1>4, <2>1, <2>2 DEF ReadErrors, ToRead, Broke
  <2> QED
    BY <2>3, <2>4
<1> QED
  BY <1>1, <1>5, <1>6, <1>7, <1>8, <1>9, <1>10, BusStep

LEMMA ByteFailsKeeps == IInv /\ ByteFails => IInv'
<1> SUFFICES ASSUME IInv, ByteFails PROVE IInv'
  OBVIOUS
<1>1. /\ hw.shift # NoCmd /\ ~InInterrupt /\ broken' = broken \cup {hw.shift}
      /\ UNCHANGED <<queue, queueTick, w, puts, asked, reports, got>>
  BY DEF ByteFails, UnchangedByBus
<1>2. /\ hw.shift.t \in 1..asked /\ asked \in Nat /\ hw.shift \in Cmd
      /\ hw.rx \in Seq(Nat) /\ hw.tx \in Seq(Cmd) /\ broken \subseteq Cmd
      /\ Len(hw.rx) \in Nat /\ Len(hw.tx) \in Nat /\ w.rb \in Nat /\ ~hw.abrt
      /\ w.i \in Nat
  BY <1>1 DEF IInv, TypeOK, PipeOK, Quiet
<1>3. /\ hw' \in [tx : Seq(Cmd), shift : Cmd, rx : Seq(Nat), abrt : BOOLEAN,
                  mask : {"none", "tx_empty", "rx_full"}]
      /\ hw'.tx = << >> /\ hw'.shift = NoCmd /\ hw'.abrt /\ hw'.rx = hw.rx
  <2>1. hw.mask \in {"none", "tx_empty", "rx_full"}
    BY DEF IInv, TypeOK
  <2>2. << >> \in Seq(Cmd) /\ NoCmd \in Cmd
    BY EmptySeq DEF NoCmd, Cmd
  <2> QED
    BY <1>2, <2>1, <2>2 DEF ByteFails
<1>4. Stale' = Stale /\ ~Stale /\ Reading' = Reading /\ Begun' = Begun
  BY <1>1, Away DEF Stale, Reading, Begun
<1>5. TypeOK'
  BY <1>1, <1>2, <1>3 DEF IInv, TypeOK
<1>6. ControlOK'
  BY <1>1 DEF IInv, ControlOK
<1>7. Reading => w.rb + Len(hw.rx) <= w.i
  <2> SUFFICES ASSUME Reading PROVE w.rb + Len(hw.rx) <= w.i
    OBVIOUS
  <2>1. CASE hw.shift.rd
    <3> DEFINE a == w.rb  b == Len(hw.rx)  c == Len(hw.tx)
    <3>1. a \in Nat /\ b \in Nat /\ c \in Nat /\ w.i \in Nat
      BY <1>2
    <3>2. a + b + c + 1 = w.i
      BY <1>1, <1>2, <2>1 DEF IInv, PipeOK, Busy
    <3> HIDE DEF a, b, c
    <3>3. a + b <= w.i
      BY <3>1, <3>2
    <3> QED
      BY <3>3 DEF a, b
  <2>2. CASE ~hw.shift.rd
    <3>1. w.rb = 0 /\ hw.rx = << >>
      BY <1>1, <2>2 DEF IInv, PipeOK
    <3> QED
      BY <1>2, <3>1, EmptySeq
  <2> QED
    BY <2>1, <2>2
<1>8. PipeOK'
  <2>1. \A b \in broken' : b.t \in 1..asked
    <3>1. \A b \in broken : b.t \in 1..asked
      BY DEF IInv, PipeOK
    <3> QED
      BY <1>1, <1>2, <3>1
  <2>2. ~(w.pc \in {"finish", "callback"})
    BY <1>1, Away
  <2>3. \A j \in 1..Len(hw'.tx) : FALSE
    BY <1>3, EmptySeq
  <2>4. /\ ~Reading => hw.rx = << >>
        /\ Reading => \A j \in 1..Len(hw.rx) : hw.rx[j] = asked
        /\ Reading => Len(got) = w.rb /\ \A j \in 1..Len(got) : got[j] = asked
        /\ Reading /\ w.pc = "push" => hw.rx = << >>
    BY DEF IInv, PipeOK
  <2>5. Quiet' /\ Own' /\ ~NoCmd.rd
    BY <1>3 DEF Quiet, Own, NoCmd
  <2> QED
    BY <1>1, <1>3, <1>4, <1>7, <2>1, <2>2, <2>3, <2>4, <2>5 DEF PipeOK
<1>9. Told'
  BY <1>4 DEF Told
<1>10. ASSUME Begun, NEW k \in Kinds, NEW n \in 1..Len(k), Transfer(k),
              Position(k, n),
              SyncedWrite(k) => WriteErrors(k, n),
              LastRead(k) => ReadErrors(k, n)
       PROVE  /\ SyncedWrite(k) => WriteErrors(k, n)'
              /\ LastRead(k) => ReadErrors(k, n)'
  <2>1. Own' /\ ~Quiet /\ NoCmd.t # asked
    BY <1>1, <1>3, <1>10 DEF Own, Quiet, NoCmd, IInv, TypeOK, Begun
  <2>2. Untouched(n)' = Untouched(n)
    BY <1>1, <1>4 DEF Untouched
  <2>3. Reading => k[n].type = "Read"
    <3>1. Reading => queue # << >>
      BY DEF Reading, IInv, ControlOK
    <3>2. Reading => queue[1] = Of(k[n], asked)
      BY <1>4, <1>10, <3>1, HeadAt
    <3> QED
      BY <3>2 DEF Reading, Of
  <2>4. hw.shift.rd => Reading
    BY DEF IInv, PipeOK
  <2>5. \/ hw.shift.t = asked /\ hw.shift.rd /\ hw.shift = [t |-> asked, rd |-> TRUE]
        \/ hw.shift.t = asked /\ ~hw.shift.rd /\ hw.shift = [t |-> asked, rd |-> FALSE]
        \/ hw.shift.t # asked
    BY <1>2 DEF Cmd
  <2>6. ASSUME SyncedWrite(k) PROVE WriteErrors(k, n)'
    <3>1. k[n].type # "Read"
      <4>1. n \in Nat /\ Len(k) \in Nat /\ n \in 1..Len(k)
        BY <1>10 DEF Transfer
      <4>2. n = 1 \/ n \in 2..(Len(k) - 1) \/ n = Len(k)
        BY <4>1
      <4> QED
        BY <2>6, <4>2 DEF SyncedWrite
    <3>2. ~hw.shift.rd
      BY <2>3, <2>4, <3>1
    <3>3. CASE n = 1 /\ (Stale \/ w.pc \in {"next", "begin"})
      <4>1. hw.shift.t # asked /\ ~Broke(asked, FALSE)
        BY <1>10, <2>6, <3>3 DEF WriteErrors
      <4>2. ~Broke(asked, FALSE)'
        BY <1>1, <1>2, <4>1 DEF Broke
      <4> QED
        BY <1>1, <1>3, <1>4, <2>1, <3>3, <4>2 DEF WriteErrors
    <3>4. CASE ~(n = 1 /\ (Stale \/ w.pc \in {"next", "begin"}))
      <4>1. /\ hw.shift.t = asked
            /\ ~(n = 1 \/ (n = 2 /\ w.pc \in {"next", "begin", "drain"}))
        BY <1>1, <1>10, <2>1, <2>6, <3>4 DEF WriteErrors, Own
      <4>2. Broke(asked, FALSE)'
        BY <1>1, <2>5, <3>2, <4>1 DEF Broke
      <4> QED
        BY <1>1, <1>3, <1>4, <2>1, <3>4, <4>1, <4>2 DEF WriteErrors
    <3> QED
      BY <3>3, <3>4
  <2>7. ASSUME LastRead(k) PROVE ReadErrors(k, n)'
    <3>1. CASE ToRead(k, n)
      <4>1. ~hw.shift.rd
        BY <2>3, <2>4, <3>1 DEF ToRead, Reading
      <4>2. ~Broke(asked, TRUE)
        BY <1>10, <2>7, <3>1 DEF ReadErrors
      <4>3. ~Broke(asked, TRUE)'
        BY <1>1, <1>2, <4>1, <4>2 DEF Broke
      <4>4. ToRead(k, n)'
        BY <1>1, <3>1 DEF ToRead
      <4> QED
        BY <1>3, <2>1, <4>3, <4>4 DEF ReadErrors
    <3>2. CASE ~ToRead(k, n)
      <4>1. hw.shift.t = asked /\ Reading
        BY <1>1, <1>10, <2>1, <2>7, <3>2 DEF ReadErrors, Own
      <4>2. Broke(asked, FALSE)' \/ Broke(asked, TRUE)'
        BY <1>1, <2>5, <4>1 DEF Broke
      <4>3. ~ToRead(k, n)'
        BY <1>1, <3>2 DEF ToRead
      <4> QED
        BY <1>3, <1>4, <2>1, <4>1, <4>2, <4>3 DEF ReadErrors
    <3> QED
      BY <3>1, <3>2
  <2> QED
    BY <2>6, <2>7
<1> QED
  BY <1>1, <1>5, <1>6, <1>8, <1>9, <1>10, BusStep

-----------------------------------------------------------------------------
(* The invariant, and what follows from it. *)

LEMMA NextIInv == IInv /\ [Next]_vars => IInv'
<1> SUFFICES ASSUME IInv, [Next]_vars PROVE IInv'
  OBVIOUS
<1>1. CASE UNCHANGED vars
  <2>1. /\ Stale' = Stale /\ Off' = Off /\ Reading' = Reading /\ Begun' = Begun
        /\ TypeOK' /\ ControlOK'
    BY <1>1 DEF vars, Stale, Off, Reading, Begun, IInv, TypeOK, ControlOK
  <2>2. PipeOK' /\ Told'
    BY <1>1, <2>1 DEF vars, IInv, PipeOK, Told, LastReport, Broke, Quiet, Own, Busy
  <2>3. \A k \in Kinds : \A n \in 1..Len(k) :
          /\ WriteErrors(k, n) => WriteErrors(k, n)'
          /\ ReadErrors(k, n) => ReadErrors(k, n)'
    BY <1>1, <2>1
    DEF vars, WriteErrors, ReadErrors, ToRead, Untouched, Own, Quiet, Broke
  <2> QED
    BY <1>1, <2>1, <2>2, <2>3, BusStep DEF vars
<1>2. CASE Next
  BY <1>2, AskKeeps, PutKeeps, NextActionKeeps, BeginSetAddrKeeps,
     BeginRecoverBusKeeps, BeginOtherKeeps, DrainedKeeps, DrainingKeeps,
     PushWriteKeeps, PushReadKeeps, RoomKeeps, FetchKeeps, FinishKeeps,
     PopKeeps, IrqKeeps, TakeCommandKeeps, ByteDoneKeeps, ByteFailsKeeps
  DEF Next, Worker, Bus
<1> QED
  BY <1>1, <1>2

LEMMA IInvImpliesTruth == IInv => ReportsTruth
<1> SUFFICES ASSUME IInv, At("callback"), Head(queue).cb
             PROVE  LET r == LastReport
                    IN /\ ~r.ok => Broke(r.t, TRUE) \/ Broke(r.t, FALSE)
                       /\ r.ok /\ Doing("Sync") => ~Broke(r.t, FALSE)
                       /\ r.ok /\ Doing("Read") =>
                            /\ ~Broke(r.t, TRUE)
                            /\ got = [j \in 1..Head(queue).len |-> r.t]
  BY DEF ReportsTruth
<1>1. /\ queue # << >> /\ queue \in Seq(Queued) /\ w.pc = "callback"
      /\ got \in Seq(Nat)
  BY DEF At, IInv, ControlOK, TypeOK
<1>2. Head(queue) = queue[1] /\ Stale
  BY <1>1, HeadTailProperties DEF Stale
<1>3. LastReport.t = queue[1].t
  <2>1. Len(reports) \in Nat \ {0} /\ queue[1].t = Len(reports)
    BY <1>2 DEF IInv, Told, TypeOK
  <2> QED
    BY <2>1 DEF IInv, ReportsOK, LastReport
<1>4. ~LastReport.ok => Broke(LastReport.t, TRUE) \/ Broke(LastReport.t, FALSE)
  BY <1>2 DEF IInv, Told
<1>5. ASSUME LastReport.ok, Doing("Sync") PROVE ~Broke(LastReport.t, FALSE)
  <2>1. (queue[1].type = "Read") = FALSE
    BY <1>2, <1>5 DEF Doing
  <2> QED
    BY <1>2, <1>5, <2>1 DEF IInv, Told
<1>6. ASSUME LastReport.ok, Doing("Read")
      PROVE  /\ ~Broke(LastReport.t, TRUE)
             /\ got = [j \in 1..Head(queue).len |-> LastReport.t]
  <2>1. (queue[1].type = "Read") = TRUE
    BY <1>2, <1>6 DEF Doing
  <2>2. ~Broke(LastReport.t, TRUE)
    BY <1>2, <1>6, <2>1 DEF IInv, Told
  <2>3. Len(got) = queue[1].len /\ \A j \in 1..Len(got) : got[j] = queue[1].t
    <3>1. ~hw.abrt
      BY <1>2, <1>6 DEF IInv, Told
    <3> QED
      BY <1>1, <2>1, <3>1 DEF IInv, PipeOK
  <2>4. got = [j \in 1..Len(got) |-> got[j]]
    BY <1>1, LenProperties
  <2> QED
    BY <1>2, <1>3, <2>2, <2>3, <2>4
<1> QED
  BY <1>4, <1>5, <1>6

LEMMA IInvImpliesAsserts == IInv => AssertsHold
<1> SUFFICES ASSUME IInv PROVE AssertsHold
  OBVIOUS
<1>1. Len(queue) <= Capacity
  <2>1. /\ Len(queue) \in Nat /\ Len(puts) \in Nat /\ Off \in {0, 1}
        /\ Capacity \in Nat \ {0}
    BY SizesAssumption DEF IInv, TypeOK, Off
  <2>2. CASE asked = Len(reports)
    <3>1. Len(queue) = Off
      BY <2>2 DEF IInv, ReportsOK
    <3> QED
      BY <2>1, <3>1
  <2>3. CASE asked # Len(reports)
    <3>1. PICK k \in Kinds : \E n \in 1..Len(k) : Position(k, n)
      BY <2>3 DEF IInv, ReportsOK, Underway
    <3>2. PICK n \in 1..Len(k) : Position(k, n)
      BY <3>1
    <3> DEFINE m == Len(k)
    <3>3. m \in Nat /\ m <= Capacity - 1 /\ n \in Nat /\ n >= 1
      BY <2>1, KindsAssumption DEF Transfer
    <3>4. n = m + 1 + Off - Len(queue) - Len(puts)
      BY <3>2 DEF Position
    <3> HIDE DEF m
    <3> QED
      BY <2>1, <3>3, <3>4
  <2> QED
    BY <2>2, <2>3
<1>2. w.pc # "next" => queue # << >> /\ Head(queue) = queue[1]
  <2>1. queue \in Seq(Queued) /\ (w.pc # "next" => queue # << >>)
    BY DEF IInv, TypeOK, ControlOK
  <2> QED
    BY <2>1, HeadTailProperties
<1>3. At("begin") /\ Doing("Read") => hw.rx = << >>
  BY DEF At, Reading, IInv, PipeOK
<1>4. ASSUME w.pc \in {"push", "room", "fetch"}, Doing("Read")
      PROVE  w.rb + Len(hw.rx) <= Head(queue).len
  <2>1. Reading /\ queue # << >> /\ Head(queue) = queue[1]
    BY <1>2, <1>4 DEF Doing, Reading
  <2>2. /\ w.i \in Nat /\ w.rb \in Nat /\ Len(hw.rx) \in Nat /\ Len(hw.tx) \in Nat
        /\ Busy \in {0, 1}
    BY DEF IInv, TypeOK, Busy
  <2>3. queue[1].len \in Nat
    <3>1. queue[1] \in Queued
      BY <2>1, ElementOfSeq, EmptySeq DEF IInv, TypeOK
    <3> QED
      BY <3>1 DEF Queued
  <2>4. w.i <= queue[1].len
    <3>1. \/ w.i <= queue[1].len
          \/ w.i < queue[1].len
          \/ w.i = queue[1].len
      BY <1>4, <2>1 DEF Reading, IInv, ControlOK
    <3> QED
      BY <2>2, <2>3, <3>1
  <2>5. w.rb + Len(hw.rx) <= w.i
    <3>1. CASE hw.abrt
      BY <2>1, <3>1 DEF IInv, PipeOK
    <3>2. CASE ~hw.abrt /\ (hw.shift = NoCmd \/ hw.shift.rd)
      <4>1. w.rb + Len(hw.rx) + Len(hw.tx) + Busy = w.i
        BY <2>1, <3>2 DEF IInv, PipeOK
      <4> DEFINE a == w.rb  b == Len(hw.rx)  c == Len(hw.tx)  d == Busy
      <4>2. a \in Nat /\ b \in Nat /\ c \in Nat /\ d \in Nat /\ a + b + c + d = w.i
        BY <2>2, <4>1
      <4> HIDE DEF a, b, c, d
      <4>3. a + b <= w.i
        BY <2>2, <4>2
      <4> QED
        BY <4>3 DEF a, b
    <3>3. CASE hw.shift # NoCmd /\ ~hw.shift.rd
      <4>1. w.rb = 0 /\ hw.rx = << >>
        BY <2>1, <3>3 DEF IInv, PipeOK
      <4> QED
        BY <2>2, <4>1, EmptySeq
    <3> QED
      BY <3>1, <3>2, <3>3
  <2> DEFINE a == w.rb + Len(hw.rx)
  <2>6. a \in Nat /\ a <= w.i
    BY <2>2, <2>5
  <2> HIDE DEF a
  <2>7. a <= queue[1].len
    BY <2>2, <2>3, <2>4, <2>6
  <2> QED
    BY <2>1, <2>7 DEF a
<1> QED
  BY <1>1, <1>3, <1>4 DEF AssertsHold

(* Every step of the driver is one that its clients expect. *)
LEMMA ClientStep == IInv /\ [Next]_vars => [Client!Next]_<<asked, reports>>
<1> SUFFICES ASSUME IInv, [Next]_vars
             PROVE  Client!Ask \/ Client!Report \/ UNCHANGED <<asked, reports>>
  BY DEF Client!Next
<1>1. CASE Ask
  BY <1>1 DEF Ask, Client!Ask
<1>2. CASE Finish
  <2>1. CASE Head(queue).cb
    <3>1. w.pc = "finish" /\ Running /\ asked' = asked
      BY <1>2 DEF Finish, At, UnchangedByWorker
    <3>2. /\ Begun /\ Head(queue).t = asked /\ Len(reports) \in Nat
          /\ (~hw.abrt) \in BOOLEAN
      <4>1. Begun /\ queue[1].t = asked /\ Head(queue) = queue[1]
        BY <3>1, AtAction
      <4>2. Len(reports) \in Nat
        BY DEF IInv, TypeOK
      <4> QED
        BY <4>1, <4>2
    <3>3. reports' = Append(reports, [t |-> Head(queue).t, ok |-> ~hw.abrt])
      BY <1>2, <2>1 DEF Finish
    <3>4. Len(reports) < asked /\ Head(queue).t = Len(reports) + 1
      BY <3>2 DEF Begun
    <3> QED
      BY <3>1, <3>2, <3>3, <3>4 DEF Client!Report
  <2>2. CASE ~Head(queue).cb
    BY <1>2, <2>2 DEF Finish, UnchangedByWorker
  <2> QED
    BY <2>1, <2>2
<1>3. CASE NextAction \/ BeginSetAddr \/ BeginRecoverBus \/ BeginOther
  BY <1>3 DEF NextAction, BeginSetAddr, BeginRecoverBus, BeginOther, UnchangedByWorker
<1>4. CASE Drained \/ Draining \/ PushWrite \/ PushRead
  BY <1>4 DEF Drained, Draining, PushWrite, PushRead, UnchangedByWorker
<1>5. CASE Room \/ Fetch \/ Pop
  BY <1>5 DEF Room, Fetch, Pop, UnchangedByWorker
<1>6. CASE Put \/ Irq \/ Bus
  BY <1>6 DEF Put, Irq, Bus, TakeCommand, ByteDone, ByteFails, UnchangedByBus
<1>7. CASE UNCHANGED vars
  BY <1>7 DEF vars
<1> QED
  BY <1>1, <1>2, <1>3, <1>4, <1>5, <1>6, <1>7 DEF Next, Worker

-----------------------------------------------------------------------------
(* The driver keeps its invariant, for any kinds of transfers that its     *)
(* clients may ask for, any number of them, any size of the FIFO and any   *)
(* queue that holds a transfer and the action at its callback.             *)
THEOREM I2cInvariant == Spec => []IInv
<1>1. IInv /\ [Next]_vars => IInv'
  BY NextIInv
<1> QED
  BY InitIInv, <1>1, PTL DEF Spec

(* A transfer that is reported as failed did fail, a write reported as     *)
(* done was acknowledged, a read reported as done has all its bytes and    *)
(* none of another transfer (Finally's callback of I2C.cpp).               *)
THEOREM I2cReportsTruth == Spec => []ReportsTruth
  BY I2cInvariant, IInvImpliesTruth, PTL

(* The assertions of the driver hold: an action finds room in the queue, a *)
(* Read an empty rx FIFO, and no more bytes come than it asked for.        *)
THEOREM I2cAssertsHold == Spec => []AssertsHold
  BY I2cInvariant, IInvImpliesAsserts, PTL

(* The driver implements what its clients rely on, but for its liveness:   *)
(* every transfer is reported at most once and in the order of asking.     *)
THEOREM I2cReportsInOrder ==
  Spec => Client!Init /\ [][Client!Next]_<<asked, reports>>
<1>1. Init => Client!Init
  BY DEF Init, Client!Init
<1>2. IInv /\ [Next]_vars => [Client!Next]_<<asked, reports>>
  BY ClientStep
<1> QED
  BY <1>1, <1>2, I2cInvariant, PTL DEF Spec
=============================================================================
