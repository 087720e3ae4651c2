---------------------------- MODULE UsbComProofs ----------------------------
(***************************************************************************)
(* Proofs about the worker of the general interface: answers are those of  *)
(* the last request, values are set whole, once and before their answer,   *)
(* and only the worker that is there is run, for any requests, any size of *)
(* the buffer and any number of restarts.  Altsettings are not changed     *)
(* while the worker waits for, or runs in, the main loop: what happens     *)
(* then, the model shows with a counterexample.                            *)
(***************************************************************************)
EXTENDS UsbCom, SequenceTheorems, TLAPS

Pcs == {"gone", "end", "rx", "rxdata", "tx", "queued", "listening", "collecting",
        "sending", "nomessage", "dangling"}
Note == [val : BOOLEAN, handle : Nat]
Packet == [id : Nat, part : Nat]
Workers ==
  [pc : Pcs, rx : Note, tx : Note, armed : BOOLEAN, flight : Nat,
   buf : Seq(Packet), response : [id : Nat, left : Nat]]

(* The first k packets of request i. *)
Packets(i, k) == [p \in 1..k |-> [id |-> i, part |-> p]]
Final(rs) == rs[Len(rs)]
Begun(rs, s) == rs # << >> /\ s = Final(rs).parts

-----------------------------------------------------------------------------
(* The worker v at its co_await, with g its number, rs the requests begun  *)
(* and s packets sent of the last one.                                     *)

Still(v) == ~v.armed /\ v.flight = 0

(* It has the first packets of the last request, which has more of them,   *)
(* or is complete.                                                         *)
Holds(v, rs) == rs # << >> /\ v.buf # << >> /\ v.buf = Packets(Len(rs), Len(v.buf))
Complete(v, rs, s) == Holds(v, rs) /\ Begun(rs, s) /\ Len(v.buf) = s

(* It waits for a request. *)
Open(v, rs, s) ==
  v.armed /\ v.flight = 0 /\ v.buf = << >> /\ ~v.rx.val /\ (s = 0 \/ Begun(rs, s))

(* It waits for more of one: the endpoint is started, or a packet did not  *)
(* fit. *)
Gathers(v, rs, s) ==
  /\ Holds(v, rs) /\ v.flight = 0 /\ ~v.rx.val
  /\ Final(rs).op = "set" /\ Len(v.buf) < Final(rs).parts
  /\ IF v.armed THEN s = Len(v.buf) ELSE Len(v.buf) = Capacity

(* A packet came before it awaits it. *)
Noted(v, rs, s) ==
  /\ Still(v) /\ v.rx.val /\ Holds(v, rs) /\ s = Len(v.buf) /\ s <= Final(rs).parts

(* It sends the answer to the last request, or what was left of an earlier *)
(* one if it does not know the operation.                                  *)
Sends(v, rs, s) ==
  /\ ~v.armed /\ v.buf = << >> /\ Begun(rs, s)
  /\ Final(rs).op = "unknown" \/ v.response.id = Len(rs)

At(v, g, rs, s) ==
  /\ v.pc # "dangling"
  /\ v.pc \in {"gone", "end"} => Still(v)
  /\ v.pc = "listening" => v.rx.handle = 0 /\ (Open(v, rs, s) \/ (Noted(v, rs, s) /\ s = 1))
  /\ v.pc = "rx" => v.rx.handle = g /\ Open(v, rs, s)
  /\ v.pc = "collecting" => v.rx.handle = 0 /\ (Gathers(v, rs, s) \/ Noted(v, rs, s))
  /\ v.pc = "rxdata" => v.rx.handle = g /\ Gathers(v, rs, s)
  /\ v.pc \in {"queued", "nomessage"} =>
       Still(v) /\ Complete(v, rs, s) /\ Final(rs).op \in {"get", "set"}
  /\ v.pc = "sending" => v.tx.handle = 0 /\ (v.tx.val <=> v.flight = 0) /\ Sends(v, rs, s)
  /\ v.pc = "tx" => v.tx.handle = g /\ ~v.tx.val /\ v.flight # 0 /\ Sends(v, rs, s)

-----------------------------------------------------------------------------
(* History: gt packets were read of each answer, ap was applied.           *)

Applied(i, ap) == \E j \in 1..Len(ap) : ap[j][1].id = i

Past(rs, gt, ap) ==
  /\ \A j \in 1..Len(ap) :
       LET id == ap[j][1].id
       IN /\ id \in 1..Len(rs) /\ ap[j] = Packets(id, rs[id].parts)
          /\ \A k \in 1..j-1 : ap[k][1].id < id
  /\ \A i \in 1..Len(rs) :
       gt[i] <= rs[i].answers /\ (rs[i].op = "set" /\ gt[i] > 0 => Applied(i, ap))

(* What the worker still has to send, and its packet under way.            *)
Owes(v, rs, gt, ap) ==
  LET id == v.response.id
  IN v.response.left # 0 \/ v.flight # 0 =>
       /\ id \in 1..Len(rs) /\ v.flight \in {0, id}
       /\ gt[id] + v.response.left + (IF v.flight = 0 THEN 0 ELSE 1) <= rs[id].answers
       /\ rs[id].op = "set" => Applied(id, ap)

(* A request that the worker holds is neither answered nor applied yet.    *)
Fresh(v, rs, gt, ap) ==
  rs # << >> /\ v.buf # << >> =>
    gt[Len(rs)] = 0 /\ \A j \in 1..Len(ap) : ap[j][1].id < Len(rs)

Types ==
  /\ active \in BOOLEAN /\ gen \in 0..MaxWorkers
  /\ w \in Workers /\ w.rx.handle <= gen /\ w.tx.handle <= gen
  /\ w.flight <= Len(reqs) /\ w.response.id <= Len(reqs) /\ Len(w.buf) <= Capacity
  /\ reqs \in Seq(Shapes) /\ Len(reqs) <= MaxRequests
  /\ sent \in Nat
  /\ got \in Seq(Nat) /\ Len(got) = Len(reqs)
  /\ applied \in Seq(Seq(Packet))

IInv ==
  /\ Types
  /\ active <=> w.pc # "gone"
  /\ gen = 0 => ~active
  /\ msgs = IF w.pc = "queued" THEN <<gen>> ELSE << >>
  /\ At(w, gen, reqs, sent)
  /\ Past(reqs, got, applied)
  /\ Owes(w, reqs, got, applied)
  /\ Fresh(w, reqs, got, applied)

-----------------------------------------------------------------------------
(* Packets and requests. *)

LEMMA PacketsAre ==
  ASSUME NEW i \in Nat, NEW k \in Nat
  PROVE  /\ Packets(i, k) \in Seq(Packet) /\ Len(Packets(i, k)) = k
         /\ Append(Packets(i, k), [id |-> i, part |-> k + 1]) = Packets(i, k + 1)
         /\ \A p \in 1..k : Packets(i, k)[p].id = i
<1> DEFINE s == Packets(i, k)  t == Append(s, [id |-> i, part |-> k + 1])
<1>1. s \in Seq(Packet) /\ Len(s) = k
  BY DEF Packets, Packet
<1>2. [id |-> i, part |-> k + 1] \in Packet
  BY DEF Packet
<1>3. t \in Seq(Packet) /\ Len(t) = k + 1
  BY <1>1, <1>2, AppendProperties
<1>4. Packets(i, k + 1) \in Seq(Packet) /\ Len(Packets(i, k + 1)) = k + 1
  BY DEF Packets, Packet
<1>5. ASSUME NEW p \in 1..k + 1 PROVE t[p] = Packets(i, k + 1)[p]
  <2>1. CASE p = k + 1
    BY <1>1, <1>2, <2>1, AppendProperties DEF Packets
  <2>2. CASE p # k + 1
    <3>1. p \in 1..k
      BY <2>2
    <3> QED BY <1>1, <1>2, <3>1, AppendProperties DEF Packets
  <2> QED BY <2>1, <2>2
<1>6. t = Packets(i, k + 1)
  <2> HIDE DEF t
  <2> QED BY <1>3, <1>4, <1>5, SeqEqual
<1>7. \A p \in 1..k : s[p].id = i
  BY DEF Packets
<1> QED BY <1>1, <1>6, <1>7

(* The last request, and what its operation says of its packets.           *)
LEMMA FinalIs ==
  ASSUME NEW rs \in Seq(Shapes), rs # << >>
  PROVE  /\ Len(rs) \in Nat \ {0} /\ Len(rs) \in 1..Len(rs)
         /\ Final(rs) \in Shape /\ Final(rs) = rs[Len(rs)]
         /\ Final(rs).parts \in Nat \ {0} /\ Final(rs).answers \in Nat
         /\ Final(rs).op \in {"local", "get", "set", "bad", "unknown"}
         /\ Final(rs).op # "set" => Final(rs).parts = 1
<1>1. Len(rs) \in Nat \ {0} /\ Len(rs) \in 1..Len(rs)
  BY EmptySeq
<1>2. rs[Len(rs)] \in Shapes
  BY <1>1
<1>3. Final(rs) \in Shapes /\ Final(rs) \in Shape
  BY <1>2, UsbComAssumption DEF Final
<1>4. Final(rs).op # "set" => Final(rs).parts = 1
  BY <1>3, UsbComAssumption
<1> QED BY <1>1, <1>3, <1>4 DEF Shape, Final

(* The worker holds packets of the last request.                           *)
LEMMA HeldIs ==
  ASSUME NEW rs \in Seq(Shapes), NEW v \in Workers, Holds(v, rs)
  PROVE  /\ Len(v.buf) \in Nat \ {0} /\ v.buf[1].id = Len(rs)
         /\ rs[v.buf[1].id] = Final(rs)
<1>1. v.buf \in Seq(Packet) /\ v.buf # << >> /\ rs # << >>
  BY DEF Workers, Holds
<1>2. Len(v.buf) \in Nat \ {0}
  BY <1>1, EmptySeq
<1>3. Len(rs) \in Nat
  BY <1>1, FinalIs
<1>4. Packets(Len(rs), Len(v.buf))[1].id = Len(rs)
  <2> DEFINE k == Len(v.buf)  n == Len(rs)
  <2>1. k \in Nat /\ 1 \in 1..k /\ n \in Nat
    BY <1>2, <1>3
  <2> HIDE DEF k, n
  <2>2. \A p \in 1..k : Packets(n, k)[p].id = n
    BY <2>1, PacketsAre
  <2>3. Packets(n, k)[1].id = n
    BY <2>1, <2>2
  <2> QED BY <2>3 DEF k, n
<1> QED BY <1>2, <1>4 DEF Holds, Final

-----------------------------------------------------------------------------
(* The pieces of the worker's code. *)

Contexts(g, rs, s, gt, ap) ==
  /\ g \in Nat /\ rs \in Seq(Shapes) /\ s \in Nat
  /\ gt \in Seq(Nat) /\ Len(gt) = Len(rs) /\ ap \in Seq(Seq(Packet))

(* Numbers of workers, requests and packets stay in their bounds.          *)
Bounds(v, g, rs) ==
  /\ v.rx.handle <= g /\ v.tx.handle <= g
  /\ v.flight <= Len(rs) /\ v.response.id <= Len(rs) /\ Len(v.buf) <= Capacity

Right(v, g, rs, s, gt, ap) ==
  /\ v \in Workers /\ Bounds(v, g, rs) /\ At(v, g, rs, s)
  /\ Owes(v, rs, gt, ap) /\ Fresh(v, rs, gt, ap)

(* The end of an answer or the beginning of one: the request is complete.  *)
Answering(v, rs, s) ==
  /\ Still(v) /\ v.buf = << >> /\ Begun(rs, s)
  /\ v.response.left # 0 => Final(rs).op = "unknown" \/ v.response.id = Len(rs)

LEMMA SendIsRight ==
  ASSUME NEW g, NEW rs, NEW s, NEW gt, NEW ap, Contexts(g, rs, s, gt, ap),
         NEW v \in Workers, Bounds(v, g, rs), Answering(v, rs, s), Owes(v, rs, gt, ap)
  PROVE  /\ Right(Send(v), g, rs, s, gt, ap)
         /\ Send(v).pc \in {"listening", "sending"}
         /\ ~Send(v).rx.val \/ Send(v).pc = "sending"
         /\ ~Send(v).tx.val \/ Send(v).pc = "listening"
<1>1. /\ v.response \in [id : Nat, left : Nat] /\ v.flight = 0 /\ ~v.armed
      /\ v.buf = << >> /\ Begun(rs, s) /\ v.response.left \in Nat /\ v.response.id \in Nat
  BY DEF Answering, Still, Workers
<1>2. g \in Nat /\ rs \in Seq(Shapes)
  BY DEF Contexts
<1>3. CASE v.response.left = 0
  <2> DEFINE u == Listen(v)
  <2>1. Send(v) = u
    BY <1>3 DEF Send
  <2>2. /\ u \in Workers /\ u.pc = "listening" /\ u.rx = Cleared /\ u.armed
        /\ u.tx = v.tx /\ u.flight = 0 /\ u.buf = << >> /\ u.response = v.response
    BY <1>1 DEF Listen, Workers, Pcs, Note, Cleared
  <2> HIDE DEF u
  <2>3. u.rx.handle = 0 /\ u.rx.val = FALSE
    BY <2>2 DEF Cleared
  <2>4. At(u, g, rs, s)
    BY <1>1, <2>2, <2>3 DEF At, Open
  <2>5. Bounds(u, g, rs)
    <3>1. Len(u.buf) = 0 /\ 0 <= Capacity
      BY <2>2, EmptySeq, UsbComAssumption
    <3> QED BY <1>2, <2>2, <2>3, <3>1 DEF Bounds
  <2>6. Owes(u, rs, gt, ap)
    BY <1>1, <1>3, <2>2 DEF Owes
  <2>7. Fresh(u, rs, gt, ap)
    BY <2>2 DEF Fresh
  <2> QED BY <2>1, <2>2, <2>3, <2>4, <2>5, <2>6, <2>7 DEF Right
<1>4. CASE v.response.left # 0
  <2> DEFINE u == [v EXCEPT !.pc = "sending", !.tx = Cleared,
                            !.flight = v.response.id, !.response.left = @ - 1]
  <2>1. Send(v) = u
    BY <1>4 DEF Send
  <2>2. v.response.left - 1 \in Nat
    BY <1>1, <1>4
  <2>3. /\ u \in Workers /\ u.pc = "sending" /\ u.tx = Cleared /\ ~u.armed
        /\ u.rx = v.rx /\ u.flight = v.response.id /\ u.buf = << >>
        /\ u.response.id = v.response.id /\ u.response.left = v.response.left - 1
    BY <1>1, <2>2 DEF Workers, Pcs, Note, Cleared
  <2> HIDE DEF u
  <2>4. u.tx.handle = 0 /\ u.tx.val = FALSE
    BY <2>3 DEF Cleared
  <2>5. v.response.id \in 1..Len(rs) /\ Len(rs) \in Nat
    BY <1>2, <1>4 DEF Owes
  <2>6. At(u, g, rs, s)
    <3>1. Sends(u, rs, s)
      BY <1>1, <1>4, <2>3 DEF Sends, Answering
    <3>2. u.flight # 0
      BY <2>3, <2>5
    <3> QED BY <2>3, <2>4, <3>1, <3>2 DEF At
  <2>7. Bounds(u, g, rs)
    <3>1. Len(u.buf) = 0 /\ 0 <= Capacity
      BY <2>3, EmptySeq, UsbComAssumption
    <3> QED BY <1>2, <2>3, <2>4, <2>5, <3>1 DEF Bounds
  <2>8. Owes(u, rs, gt, ap)
    <3> DEFINE id == v.response.id  left == v.response.left  most == rs[id].answers
    <3>1. gt[id] + left + 0 <= most /\ (rs[id].op = "set" => Applied(id, ap))
      BY <1>1, <1>4 DEF Owes
    <3>2. gt[id] \in Nat
      BY <2>5 DEF Contexts
    <3>3. gt[id] + (left - 1) + 1 <= most
      <4>1. left \in Nat
        BY <1>1
      <4> HIDE DEF left, most
      <4>2. gt[id] + (left - 1) + 1 = gt[id] + left + 0
        BY <3>2, <4>1
      <4> QED BY <3>1, <4>2
    <3>4. id # 0
      BY <2>5
    <3> HIDE DEF left, most, id
    <3>5. /\ u.response.id = id /\ u.response.left = left - 1 /\ u.flight = id
          /\ id \in 1..Len(rs)
      BY <2>3, <2>5 DEF id, left
    <3> QED BY <3>1, <3>3, <3>4, <3>5 DEF Owes, most
  <2>9. Fresh(u, rs, gt, ap)
    BY <2>3 DEF Fresh
  <2> QED BY <2>1, <2>3, <2>4, <2>6, <2>7, <2>8, <2>9 DEF Right
<1> QED BY <1>3, <1>4

(* The answer to the request that the worker holds.                        *)
LEMMA AnswerIsRight ==
  ASSUME NEW g, NEW rs, NEW s, NEW gt, NEW ap, Contexts(g, rs, s, gt, ap),
         NEW v \in Workers, Bounds(v, g, rs), Still(v), Complete(v, rs, s),
         gt[Len(rs)] = 0, Final(rs).op = "set" => Applied(Len(rs), ap)
  PROVE  /\ Right(Answer(v, rs), g, rs, s, gt, ap)
         /\ Answer(v, rs).pc \in {"listening", "sending"}
         /\ ~Answer(v, rs).rx.val \/ Answer(v, rs).pc = "sending"
         /\ ~Answer(v, rs).tx.val \/ Answer(v, rs).pc = "listening"
<1> DEFINE u == [v EXCEPT !.response = [id |-> v.buf[1].id, left |-> rs[v.buf[1].id].answers],
                          !.buf = << >>]
<1>1. Answer(v, rs) = Send(u)
  BY DEF Answer
<1>2. /\ rs \in Seq(Shapes) /\ rs # << >> /\ g \in Nat
      /\ v.buf[1].id = Len(rs) /\ rs[v.buf[1].id] = Final(rs)
  BY HeldIs DEF Complete, Holds, Contexts
<1>3. /\ Len(rs) \in Nat \ {0} /\ Len(rs) \in 1..Len(rs) /\ Final(rs).answers \in Nat
      /\ rs[Len(rs)] = Final(rs)
  BY <1>2, FinalIs
<1>4. /\ u \in Workers /\ u.pc = v.pc /\ u.rx = v.rx /\ u.tx = v.tx /\ u.armed = v.armed
      /\ u.flight = v.flight /\ u.buf = << >>
      /\ u.response = [id |-> Len(rs), left |-> Final(rs).answers]
  BY <1>2, <1>3, EmptySeq DEF Workers, Packet
<1> HIDE DEF u
<1>5. Bounds(u, g, rs)
  <2>1. Len(u.buf) = 0 /\ 0 <= Capacity /\ u.response.id = Len(rs)
    BY <1>4, EmptySeq, UsbComAssumption
  <2> QED BY <1>3, <1>4, <2>1 DEF Bounds
<1>6. Answering(u, rs, s)
  BY <1>4 DEF Answering, Still, Complete
<1>7. Owes(u, rs, gt, ap)
  <2>1. u.flight = 0 /\ u.response.id = Len(rs) /\ u.response.left = Final(rs).answers
    BY <1>4 DEF Still
  <2> QED BY <1>3, <2>1 DEF Owes
<1> QED
  BY <1>1, <1>4, <1>5, <1>6, <1>7, SendIsRight

(* The worker has received a packet, and knows of it.                      *)
Received1(v, rs, s) ==
  /\ Still(v) /\ ~v.rx.val /\ v.rx.handle = 0
  /\ Holds(v, rs) /\ s = Len(v.buf) /\ s <= Final(rs).parts

(* Where it goes to: it ends, waits for more of the request, or for the    *)
(* main loop, or answers. *)
LEMMA DispatchIsRight ==
  ASSUME NEW g, NEW rs, NEW s, NEW gt, NEW ap, Contexts(g, rs, s, gt, ap),
         NEW isr \in BOOLEAN, NEW v \in Workers, Bounds(v, g, rs),
         Received1(v, rs, s), Owes(v, rs, gt, ap), Fresh(v, rs, gt, ap)
  PROVE  /\ Right(Dispatch(v, isr, rs), g, rs, s, gt, ap)
         /\ Dispatch(v, isr, rs).pc \in
              {"end", "collecting", "queued", "nomessage", "listening", "sending"}
         /\ Dispatch(v, isr, rs).pc = "queued" => isr
         /\ Dispatch(v, isr, rs).pc \in {"listening", "collecting"} =>
              ~Dispatch(v, isr, rs).rx.val
         /\ Dispatch(v, isr, rs).pc = "sending" => ~Dispatch(v, isr, rs).tx.val
<1> DEFINE op == Final(rs).op
<1>1. /\ rs \in Seq(Shapes) /\ rs # << >> /\ g \in Nat /\ v.buf # << >>
      /\ Len(v.buf) \in Nat \ {0} /\ rs[v.buf[1].id] = Final(rs)
      /\ v.armed = FALSE /\ v.flight = 0 /\ v.rx.val = FALSE /\ v.rx.handle = 0
      /\ v.buf = Packets(Len(rs), Len(v.buf)) /\ s = Len(v.buf) /\ s <= Final(rs).parts
  <2>1. v.armed = FALSE /\ v.rx.val = FALSE
    BY DEF Received1, Still, Workers, Note
  <2> QED BY <2>1, HeldIs DEF Received1, Holds, Contexts, Still
<1>2. /\ Len(rs) \in Nat \ {0} /\ Final(rs).parts \in Nat \ {0}
      /\ op \in {"local", "get", "set", "bad", "unknown"}
      /\ op # "set" => Final(rs).parts = 1
      /\ rs[Len(rs)] = Final(rs)
  BY <1>1, FinalIs
<1>3. gt[Len(rs)] = 0
  BY <1>1 DEF Fresh
<1>4. op # "set" \/ ~Incomplete(v, rs) => Complete(v, rs, s)
  <2>1. Incomplete(v, rs) <=> Len(v.buf) < Final(rs).parts
    BY <1>1 DEF Incomplete
  <2>2. op # "set" \/ ~Incomplete(v, rs) => s = Final(rs).parts
    BY <1>1, <1>2, <2>1
  <2> QED BY <1>1, <2>2 DEF Complete, Holds, Begun
<1>5. CASE op = "bad"
  <2> DEFINE u == [v EXCEPT !.pc = "end"]
  <2>1. Dispatch(v, isr, rs) = u
    BY <1>1, <1>5 DEF Dispatch
  <2>2. /\ u \in Workers /\ u.pc = "end" /\ u.rx = v.rx /\ u.tx = v.tx /\ u.armed = v.armed
        /\ u.flight = v.flight /\ u.buf = v.buf /\ u.response = v.response
    BY DEF Workers, Pcs
  <2> HIDE DEF u
  <2>3. Bounds(u, g, rs)
    BY <2>2 DEF Bounds
  <2>4. At(u, g, rs, s)
    BY <1>1, <2>2 DEF At, Still
  <2>5. Owes(u, rs, gt, ap) /\ Fresh(u, rs, gt, ap)
    BY <2>2 DEF Owes, Fresh
  <2> QED BY <2>1, <2>2, <2>3, <2>4, <2>5 DEF Right
<1>6. CASE op = "unknown"
  <2> DEFINE u == [v EXCEPT !.buf = << >>]
  <2>1. Dispatch(v, isr, rs) = Send(u)
    BY <1>1, <1>6 DEF Dispatch
  <2>2. /\ u \in Workers /\ u.rx = v.rx /\ u.tx = v.tx /\ u.armed = v.armed
        /\ u.flight = v.flight /\ u.buf = << >> /\ u.response = v.response
    BY EmptySeq DEF Workers, Packet
  <2> HIDE DEF u
  <2>3. Bounds(u, g, rs)
    <3>1. Len(u.buf) = 0 /\ 0 <= Capacity
      BY <2>2, EmptySeq, UsbComAssumption
    <3> QED BY <2>2, <3>1 DEF Bounds
  <2>4. Answering(u, rs, s)
    BY <1>1, <1>4, <1>6, <2>2 DEF Answering, Still, Complete
  <2>5. Owes(u, rs, gt, ap)
    BY <2>2 DEF Owes
  <2> QED BY <2>1, <2>2, <2>3, <2>4, <2>5, SendIsRight
<1>7. CASE op = "local"
  <2>1. Dispatch(v, isr, rs) = Answer(v, rs)
    BY <1>1, <1>7 DEF Dispatch
  <2>2. Still(v) /\ Complete(v, rs, s) /\ op # "set"
    BY <1>4, <1>7 DEF Received1
  <2> QED BY <1>3, <2>1, <2>2, AnswerIsRight
<1>8. CASE op = "set" /\ Incomplete(v, rs)
  <2> DEFINE u == Collect(v)
  <2>1. Dispatch(v, isr, rs) = u
    BY <1>1, <1>8 DEF Dispatch
  <2>2. /\ u \in Workers /\ u.pc = "collecting" /\ u.rx = v.rx /\ u.tx = v.tx /\ u.armed
        /\ u.flight = v.flight /\ u.buf = v.buf /\ u.response = v.response
    BY DEF Collect, Workers, Pcs
  <2> HIDE DEF u
  <2>3. Bounds(u, g, rs)
    BY <2>2 DEF Bounds
  <2>4. Gathers(u, rs, s)
    <3>1. Len(v.buf) < Final(rs).parts
      BY <1>1, <1>8 DEF Incomplete
    <3> QED BY <1>1, <1>8, <2>2, <3>1 DEF Gathers, Holds
  <2>5. At(u, g, rs, s)
    BY <1>1, <2>2, <2>4 DEF At
  <2>6. Owes(u, rs, gt, ap) /\ Fresh(u, rs, gt, ap)
    BY <2>2 DEF Owes, Fresh
  <2> QED BY <1>1, <2>1, <2>2, <2>3, <2>5, <2>6 DEF Right
<1>9. CASE op = "get" \/ (op = "set" /\ ~Incomplete(v, rs))
  <2> DEFINE u == [v EXCEPT !.pc = IF isr THEN "queued" ELSE "nomessage"]
  <2>1. Dispatch(v, isr, rs) = u
    BY <1>1, <1>9 DEF Dispatch, Switch
  <2>2. /\ u \in Workers /\ u.pc \in {"queued", "nomessage"} /\ (u.pc = "queued" => isr)
        /\ u.rx = v.rx /\ u.tx = v.tx /\ u.armed = v.armed
        /\ u.flight = v.flight /\ u.buf = v.buf /\ u.response = v.response
    BY DEF Workers, Pcs
  <2> HIDE DEF u
  <2>3. Bounds(u, g, rs)
    BY <2>2 DEF Bounds
  <2>4. Complete(u, rs, s)
    <3>1. Complete(v, rs, s)
      BY <1>4, <1>9
    <3> QED BY <2>2, <3>1 DEF Complete, Holds
  <2>5. At(u, g, rs, s)
    BY <1>1, <1>9, <2>2, <2>4 DEF At, Still
  <2>6. Owes(u, rs, gt, ap) /\ Fresh(u, rs, gt, ap)
    BY <2>2 DEF Owes, Fresh
  <2> QED BY <2>1, <2>2, <2>3, <2>5, <2>6 DEF Right
<1> QED BY <1>2, <1>5, <1>6, <1>7, <1>8, <1>9

(* It suspends where it has nothing to go on with, and its handle is where *)
(* the endpoint's callback will look.                                      *)
LEMMA SuspendIsRight ==
  ASSUME NEW g, NEW rs, NEW s, NEW gt, NEW ap, Contexts(g, rs, s, gt, ap),
         NEW v, Right(v, g, rs, s, gt, ap),
         v.pc \in {"listening", "collecting"} => ~v.rx.val,
         v.pc = "sending" => ~v.tx.val
  PROVE  /\ Right(Suspend(v, g), g, rs, s, gt, ap)
         /\ Suspend(v, g).pc = "queued" <=> v.pc = "queued"
         /\ Suspend(v, g).pc = "gone" <=> v.pc = "gone"
<1>1. v \in Workers /\ g \in Nat /\ Bounds(v, g, rs) /\ At(v, g, rs, s)
  BY DEF Right, Contexts
<1>2. CASE v.pc \in {"listening", "collecting"}
  <2> DEFINE u == [v EXCEPT !.pc = IF v.pc = "listening" THEN "rx" ELSE "rxdata",
                            !.rx.handle = g]
  <2>1. Suspend(v, g) = u
    BY <1>2 DEF Suspend
  <2>2. /\ u \in Workers /\ u.pc = (IF v.pc = "listening" THEN "rx" ELSE "rxdata")
        /\ u.rx.handle = g /\ u.rx.val = v.rx.val /\ u.tx = v.tx /\ u.armed = v.armed
        /\ u.flight = v.flight /\ u.buf = v.buf /\ u.response = v.response
    BY <1>1 DEF Workers, Pcs, Note
  <2> HIDE DEF u
  <2>3. Bounds(u, g, rs)
    BY <1>1, <2>2 DEF Bounds
  <2>4. At(u, g, rs, s)
    <3>1. CASE v.pc = "listening"
      <4>1. Open(v, rs, s)
        BY <1>1, <3>1 DEF At, Noted
      <4>2. Open(u, rs, s)
        BY <2>2, <4>1 DEF Open
      <4> QED BY <2>2, <3>1, <4>2 DEF At
    <3>2. CASE v.pc = "collecting"
      <4>1. Gathers(v, rs, s)
        BY <1>1, <1>2, <3>2 DEF At, Noted
      <4>2. Gathers(u, rs, s)
        BY <2>2, <4>1 DEF Gathers, Holds
      <4> QED BY <2>2, <3>2, <4>2 DEF At
    <3> QED BY <1>2, <3>1, <3>2
  <2>5. Owes(u, rs, gt, ap) /\ Fresh(u, rs, gt, ap)
    BY <2>2 DEF Right, Owes, Fresh
  <2> QED BY <1>2, <2>1, <2>2, <2>3, <2>4, <2>5 DEF Right
<1>3. CASE v.pc = "sending"
  <2> DEFINE u == [v EXCEPT !.pc = "tx", !.tx.handle = g]
  <2>1. Suspend(v, g) = u
    BY <1>3 DEF Suspend
  <2>2. /\ u \in Workers /\ u.pc = "tx"
        /\ u.tx.handle = g /\ u.tx.val = v.tx.val /\ u.rx = v.rx /\ u.armed = v.armed
        /\ u.flight = v.flight /\ u.buf = v.buf /\ u.response = v.response
    BY <1>1 DEF Workers, Pcs, Note
  <2> HIDE DEF u
  <2>3. Bounds(u, g, rs)
    BY <1>1, <2>2 DEF Bounds
  <2>4. At(u, g, rs, s)
    BY <1>1, <1>3, <2>2 DEF At, Sends
  <2>5. Owes(u, rs, gt, ap) /\ Fresh(u, rs, gt, ap)
    BY <2>2 DEF Right, Owes, Fresh
  <2> QED BY <1>3, <2>1, <2>2, <2>3, <2>4, <2>5 DEF Right
<1>4. CASE v.pc \notin {"listening", "collecting", "sending"}
  BY <1>4 DEF Suspend
<1> QED BY <1>2, <1>3, <1>4

-----------------------------------------------------------------------------
(* The first state, and the steps. *)

LEMMA InitIInv == Init => IInv
<1> SUFFICES ASSUME Init PROVE IInv
  OBVIOUS
<1>1. /\ active = FALSE /\ gen = 0 /\ msgs = << >> /\ reqs = << >> /\ sent = 0 /\ got = << >>
      /\ applied = << >> /\ w.pc = "gone" /\ w.armed = FALSE /\ w.flight = 0 /\ w.buf = << >>
      /\ w.rx.handle = 0 /\ w.tx.handle = 0 /\ w.response.id = 0 /\ w.response.left = 0
  BY DEF Init
<1>2. Len(<< >>) = 0 /\ << >> \in Seq(Shapes) /\ << >> \in Seq(Nat) /\ << >> \in Seq(Packet)
      /\ << >> \in Seq(Seq(Packet))
  BY EmptySeq
<1>3. w \in Workers
  BY <1>2 DEF Init, Workers, Pcs, Note
<1>4. Types
  <2>1. Capacity \in Nat \ {0} /\ MaxRequests \in Nat /\ MaxWorkers \in Nat
    BY UsbComAssumption
  <2>2. gen \in 0..MaxWorkers /\ sent \in Nat /\ w.rx.handle <= gen /\ w.tx.handle <= gen
    BY <1>1, <2>1
  <2>4. active \in BOOLEAN
    BY <1>1
  <2>3. /\ Len(reqs) = 0 /\ Len(w.buf) = 0 /\ Len(got) = 0
        /\ reqs \in Seq(Shapes) /\ got \in Seq(Nat) /\ applied \in Seq(Seq(Packet))
    BY <1>1, <1>2
  <2> QED BY <1>1, <1>3, <2>1, <2>2, <2>3, <2>4 DEF Types
<1>5. At(w, gen, reqs, sent)
  BY <1>1 DEF At, Still
<1>6. Past(reqs, got, applied)
  BY <1>1, <1>2 DEF Past
<1>7. Owes(w, reqs, got, applied) /\ Fresh(w, reqs, got, applied)
  BY <1>1 DEF Owes, Fresh
<1> QED BY <1>1, <1>4, <1>5, <1>6, <1>7 DEF IInv

(* What the invariant says, in the terms of the lemmas above.              *)
Here == Right(w, gen, reqs, sent, got, applied)

LEMMA InvariantIs ==
  ASSUME IInv
  PROVE  Here /\ Contexts(gen, reqs, sent, got, applied)
BY DEF IInv, Types, Here, Right, Bounds, Contexts

(* What remains to be shown of a step.                                     *)
LEMMA InvariantKept ==
  ASSUME active' \in BOOLEAN, gen' \in 0..MaxWorkers, Len(reqs') <= MaxRequests,
         Contexts(gen, reqs, sent, got, applied)', Here',
         active' <=> w.pc' # "gone", gen' = 0 => ~active',
         msgs' = IF w.pc' = "queued" THEN <<gen'>> ELSE << >>,
         Past(reqs, got, applied)'
  PROVE  IInv'
BY DEF IInv, Types, Here, Right, Bounds, Contexts

(* The worker of the interrupt suspends; a switch posts a message.         *)
LEMMA RunIsRight ==
  ASSUME NEW rs, NEW s, NEW gt, NEW ap, Contexts(gen, rs, s, gt, ap),
         NEW v, Right(v, gen, rs, s, gt, ap), v.pc # "gone", msgs = << >>,
         v.pc \in {"listening", "collecting"} => ~v.rx.val,
         v.pc = "sending" => ~v.tx.val,
         RunInIsr(v)
  PROVE  /\ Right(w', gen, rs, s, gt, ap) /\ w'.pc # "gone"
         /\ msgs' = IF w'.pc = "queued" THEN <<gen>> ELSE << >>
<1>1. w' = Suspend(v, gen)
  BY DEF RunInIsr
<1>2. /\ Right(w', gen, rs, s, gt, ap)
      /\ w'.pc = "queued" <=> v.pc = "queued"
      /\ w'.pc = "gone" <=> v.pc = "gone"
  BY <1>1, SuspendIsRight
<1>3. msgs' = IF v.pc = "queued" THEN Append(msgs, gen) ELSE msgs
  BY DEF RunInIsr
<1>4. Append(<< >>, gen) = <<gen>>
  OBVIOUS
<1> QED BY <1>2, <1>3, <1>4

(* A packet of the last request arrives: it is the next one.               *)
LEMMA ReceivedIsRight ==
  ASSUME NEW rs, NEW s, NEW gt, Contexts(gen, rs, s, gt, applied), rs # << >>,
         w \in Workers, Bounds(w, gen, rs), w.armed, w.flight = 0, ~w.rx.val, msgs = << >>,
         \/ w.pc = "listening" /\ w.rx.handle = 0 /\ s = 1 /\ w.buf = << >>
         \/ w.pc = "rx" /\ w.rx.handle = gen /\ s = 1 /\ w.buf = << >>
         \/ /\ Holds(w, rs) /\ s = Len(w.buf) + 1 /\ Final(rs).op = "set"
            /\ \/ w.pc = "collecting" /\ w.rx.handle = 0
               \/ w.pc = "rxdata" /\ w.rx.handle = gen,
         s <= Final(rs).parts, gen # 0,
         Owes(w, rs, gt, applied), gt[Len(rs)] = 0,
         \A j \in 1..Len(applied) : applied[j][1].id < Len(rs),
         Received([id |-> Len(rs), part |-> s], rs)
  PROVE  /\ Right(w', gen, rs, s, gt, applied) /\ w'.pc # "gone"
         /\ msgs' = IF w'.pc = "queued" THEN <<gen>> ELSE << >>
<1> DEFINE packet == [id |-> Len(rs), part |-> s]
<1>1. /\ rs \in Seq(Shapes) /\ s \in Nat /\ gen \in Nat
      /\ Len(rs) \in Nat \ {0} /\ Final(rs).parts \in Nat
  BY FinalIs DEF Contexts
<1>2. w.buf \in Seq(Packet) /\ Len(w.buf) \in Nat /\ packet \in Packet /\ Len(w.buf) <= Capacity
      /\ Capacity \in Nat \ {0}
  BY <1>1, EmptySeq, UsbComAssumption DEF Workers, Packet, Bounds
<1>3. s = Len(w.buf) + 1 /\ w.buf = Packets(Len(rs), Len(w.buf))
  <2>1. CASE w.buf = << >>
    <3>1. Len(w.buf) = 0
      BY <2>1, EmptySeq
    <3>2. Packets(Len(rs), 0) \in Seq(Packet) /\ Len(Packets(Len(rs), 0)) = 0
      BY <1>1, PacketsAre
    <3>3. Packets(Len(rs), 0) = << >>
      BY <3>2, EmptySeq
    <3>4. s = 1
      BY <2>1 DEF Holds
    <3> QED BY <2>1, <3>1, <3>3, <3>4
  <2>2. CASE w.buf # << >>
    BY <2>2 DEF Holds
  <2> QED BY <2>1, <2>2
<1>4. w.rx.handle \in {0, gen}
  OBVIOUS
<1>5. CASE Len(w.buf) = Capacity
  <2> DEFINE u == [w EXCEPT !.armed = FALSE]
  <2>1. w' = u /\ msgs' = msgs
    BY <1>5 DEF Received
  <2>2. /\ u \in Workers /\ u.pc = w.pc /\ u.rx = w.rx /\ u.tx = w.tx /\ u.armed = FALSE
        /\ u.flight = w.flight /\ u.buf = w.buf /\ u.response = w.response
    BY DEF Workers
  <2> HIDE DEF u
  <2>3. w.buf # << >>
    BY <1>2, <1>5, EmptySeq
  <2>4. Gathers(u, rs, s)
    <3>1. Len(w.buf) < Final(rs).parts
      BY <1>1, <1>2, <1>3
    <3> QED BY <1>5, <2>2, <2>3, <3>1 DEF Gathers, Holds
  <2>5. At(u, gen, rs, s)
    BY <2>2, <2>3, <2>4 DEF At
  <2>6. Bounds(u, gen, rs)
    BY <2>2 DEF Bounds
  <2>7. Owes(u, rs, gt, applied)
    BY <2>2 DEF Owes
  <2>8. Fresh(u, rs, gt, applied)
    BY DEF Fresh
  <2>9. w.pc \in {"collecting", "rxdata"}
    BY <2>3
  <2> QED BY <2>1, <2>2, <2>5, <2>6, <2>7, <2>8, <2>9 DEF Right
<1>6. CASE Len(w.buf) # Capacity
  <2> DEFINE u == [w EXCEPT !.armed = FALSE, !.buf = Append(@, packet)]
             k == Len(w.buf)
  <2>1. Append(w.buf, packet) = Packets(Len(rs), k + 1)
    BY <1>1, <1>2, <1>3, PacketsAre
  <2>2. /\ Append(w.buf, packet) \in Seq(Packet) /\ Len(Append(w.buf, packet)) = k + 1
    BY <1>2, AppendProperties
  <2>3. /\ u \in Workers /\ u.pc = w.pc /\ u.rx = w.rx /\ u.tx = w.tx /\ u.armed = FALSE
        /\ u.flight = 0 /\ u.buf = Append(w.buf, packet) /\ u.response = w.response
    BY <2>2 DEF Workers
  <2> HIDE DEF u
  <2>4. Bounds(u, gen, rs)
    <3>1. k + 1 <= Capacity
      BY <1>2, <1>6
    <3> QED BY <2>2, <2>3, <3>1 DEF Bounds
  <2>5. Holds(u, rs) /\ s = Len(u.buf) /\ u.buf # << >>
    <3>1. Len(u.buf) = k + 1 /\ u.buf = Packets(Len(rs), k + 1)
      BY <2>1, <2>2, <2>3
    <3>2. u.buf # << >>
      BY <1>2, <3>1, EmptySeq
    <3> QED BY <1>3, <3>1, <3>2 DEF Holds
  <2>6. Owes(u, rs, gt, applied) /\ Fresh(u, rs, gt, applied)
    BY <2>3 DEF Owes, Fresh
  <2>7. CASE w.rx.handle = 0
    <3> DEFINE x == [u EXCEPT !.rx.val = TRUE]
    <3>1. w' = x /\ msgs' = msgs
      BY <1>6, <2>7 DEF Received, u
    <3>2. /\ x \in Workers /\ x.pc = w.pc /\ x.rx.val = TRUE /\ x.rx.handle = 0
          /\ x.tx = u.tx /\ x.armed = FALSE
          /\ x.flight = 0 /\ x.buf = u.buf /\ x.response = u.response
      BY <2>3, <2>7 DEF Workers, Note
    <3> HIDE DEF x
    <3>3. w.pc \in {"listening", "collecting"} /\ (w.pc = "listening" => s = 1)
      BY <2>7
    <3>4. Noted(x, rs, s)
      BY <2>5, <3>2 DEF Noted, Still, Holds
    <3>5. At(x, gen, rs, s)
      BY <3>2, <3>3, <3>4 DEF At
    <3>6. Bounds(x, gen, rs)
      BY <1>1, <2>3, <2>4, <3>2 DEF Bounds
    <3>7. Owes(x, rs, gt, applied) /\ Fresh(x, rs, gt, applied)
      BY <2>3, <2>6, <3>2 DEF Owes, Fresh
    <3> QED BY <3>1, <3>2, <3>3, <3>5, <3>6, <3>7 DEF Right
  <2>8. CASE w.rx.handle = gen
    <3> DEFINE x == [u EXCEPT !.rx = Cleared]  y == Dispatch(x, TRUE, rs)
    <3>1. RunInIsr(y)
      BY <1>6, <2>8 DEF Received, u
    <3>2. /\ x \in Workers /\ x.rx = Cleared
          /\ x.tx = u.tx /\ x.armed = FALSE
          /\ x.flight = 0 /\ x.buf = u.buf /\ x.response = u.response
      BY <2>3 DEF Workers, Note, Cleared
    <3> HIDE DEF x
    <3>3. x.rx.val = FALSE /\ x.rx.handle = 0
      BY <3>2 DEF Cleared
    <3>4. Received1(x, rs, s)
      BY <2>5, <3>2, <3>3 DEF Received1, Still, Holds
    <3>5. Bounds(x, gen, rs)
      BY <1>1, <2>3, <2>4, <3>2, <3>3 DEF Bounds
    <3>6. Owes(x, rs, gt, applied) /\ Fresh(x, rs, gt, applied)
      BY <2>3, <2>6, <3>2 DEF Owes, Fresh
    <3>7. /\ Right(y, gen, rs, s, gt, applied)
          /\ y.pc \in {"end", "collecting", "queued", "nomessage", "listening", "sending"}
          /\ y.pc \in {"listening", "collecting"} => ~y.rx.val
          /\ y.pc = "sending" => ~y.tx.val
      BY <3>2, <3>4, <3>5, <3>6, DispatchIsRight
    <3> HIDE DEF y
    <3> QED BY <3>1, <3>7, RunIsRight
  <2> QED BY <1>4, <2>7, <2>8
<1> QED BY <1>5, <1>6

LEMMA HostBeginsKeeps == IInv /\ HostBegins => IInv'
<1> SUFFICES ASSUME IInv, HostBegins PROVE IInv'
  OBVIOUS
<1>1. Here /\ Contexts(gen, reqs, sent, got, applied)
  BY InvariantIs
<1>2. PICK shape \in Shapes :
        /\ Len(reqs) < MaxRequests /\ active /\ w.armed
        /\ reqs # << >> => sent \in {0, reqs[Len(reqs)].parts}
        /\ reqs' = Append(reqs, shape) /\ sent' = 1 /\ got' = Append(got, 0)
        /\ Received([id |-> Len(reqs) + 1, part |-> 1], reqs')
        /\ UNCHANGED <<active, gen, applied>>
  BY DEF HostBegins
<1> DEFINE n == Len(reqs)
<1>3. /\ reqs' \in Seq(Shapes) /\ Len(reqs') = n + 1 /\ n \in Nat /\ reqs' # << >>
      /\ \A i \in 1..n : reqs'[i] = reqs[i]
      /\ got' \in Seq(Nat) /\ Len(got') = n + 1 /\ got'[n + 1] = 0
      /\ \A i \in 1..n : got'[i] = got[i]
  BY <1>1, <1>2, AppendProperties, EmptySeq DEF Contexts
<1>4. Contexts(gen, reqs', sent', got', applied)
  BY <1>1, <1>2, <1>3 DEF Contexts
<1>5. Final(reqs').parts \in Nat \ {0} /\ \A i \in 1..n + 1 : reqs'[i].answers \in Nat
  <2>1. \A i \in 1..n + 1 : reqs'[i] \in Shapes
    BY <1>3
  <2> QED BY <1>3, <2>1, FinalIs, UsbComAssumption DEF Shape
<1>6. w \in Workers /\ At(w, gen, reqs, sent) /\ w.armed = TRUE
  BY <1>1, <1>2 DEF Here, Right, Workers
<1>7. Open(w, reqs, sent) /\ w.pc \in {"listening", "rx"}
  <2>1. ~Gathers(w, reqs, sent)
    <3>1. SUFFICES ASSUME Gathers(w, reqs, sent) PROVE FALSE
      OBVIOUS
    <3>2. reqs # << >> /\ sent = Len(w.buf) /\ Len(w.buf) < reqs[n].parts
      BY <1>6, <3>1 DEF Gathers, Holds, Final
    <3>3. Len(w.buf) \in Nat \ {0} /\ reqs[n].parts \in Nat
      BY <1>1, <1>6, <3>1, HeldIs, FinalIs DEF Gathers, Holds, Contexts
    <3> QED BY <1>2, <3>2, <3>3
  <2>2. w.pc \in Pcs
    BY <1>6 DEF Workers
  <2> QED BY <1>6, <2>1, <2>2 DEF At, Still, Sends, Noted, Pcs
<1>8. /\ w.flight = 0 /\ ~w.rx.val /\ w.buf = << >>
      /\ w.pc = "listening" => w.rx.handle = 0
      /\ w.pc = "rx" => w.rx.handle = gen
  BY <1>6, <1>7 DEF At, Open
<1>9. msgs = << >> /\ gen # 0
  BY <1>2, <1>7 DEF IInv
<1>10. Bounds(w, gen, reqs')
  BY <1>1, <1>3, <1>6 DEF Here, Right, Bounds, Workers
<1>11. Owes(w, reqs', got', applied)
  <2> DEFINE id == w.response.id
  <2>1. CASE w.response.left # 0
    <3>1. id \in 1..n /\ id \in 1..n + 1
      BY <1>1, <1>3, <2>1 DEF Here, Right, Owes
    <3>2. reqs'[id] = reqs[id] /\ got'[id] = got[id]
      BY <1>3, <3>1
    <3> QED BY <1>1, <1>3, <2>1, <3>1, <3>2 DEF Here, Right, Owes
  <2>2. CASE w.response.left = 0
    BY <1>8, <2>2 DEF Owes
  <2> QED BY <2>1, <2>2
<1>12. \A j \in 1..Len(applied) : applied[j][1].id < n + 1
  <2>1. \A j \in 1..Len(applied) : applied[j][1].id \in 1..n
    BY DEF IInv, Past
  <2> QED BY <1>3, <2>1
<1>13. /\ Right(w', gen, reqs', sent', got', applied) /\ w'.pc # "gone"
       /\ msgs' = IF w'.pc = "queued" THEN <<gen>> ELSE << >>
  <2>1. Received([id |-> Len(reqs'), part |-> sent'], reqs')
    BY <1>2, <1>3
  <2>2. \A j \in 1..Len(applied) : applied[j][1].id < Len(reqs')
    BY <1>3, <1>12
  <2>3. sent' = 1 /\ sent' <= Final(reqs').parts /\ got'[Len(reqs')] = 0
    BY <1>2, <1>3, <1>5
  <2> QED
    BY <1>3, <1>4, <1>6, <1>7, <1>8, <1>9, <1>10, <1>11, <2>1, <2>2, <2>3, ReceivedIsRight
<1>14. Past(reqs, got, applied)'
  <2>1. \A j \in 1..Len(applied) :
          LET id == applied[j][1].id
          IN /\ id \in 1..n + 1 /\ applied[j] = Packets(id, reqs'[id].parts)
             /\ \A k \in 1..j-1 : applied[k][1].id < id
    BY <1>3 DEF IInv, Past
  <2>2. \A i \in 1..n + 1 :
          got'[i] <= reqs'[i].answers /\ (reqs'[i].op = "set" /\ got'[i] > 0 => Applied(i, applied))
    <3>1. ASSUME NEW i \in 1..n
          PROVE got'[i] <= reqs'[i].answers
                /\ (reqs'[i].op = "set" /\ got'[i] > 0 => Applied(i, applied))
      BY <1>3 DEF IInv, Past
    <3>2. got'[n + 1] = 0 /\ reqs'[n + 1].answers \in Nat
      BY <1>3, <1>5
    <3> QED BY <1>3, <3>1, <3>2
  <2> QED BY <1>2, <1>3, <2>1, <2>2 DEF Past
<1> QED
  <2>1. active' \in BOOLEAN /\ gen' \in 0..MaxWorkers /\ Len(reqs') <= MaxRequests
    BY <1>2, <1>3, UsbComAssumption DEF IInv, Types
  <2>2. Contexts(gen, reqs, sent, got, applied)' /\ Here'
    BY <1>2, <1>4, <1>13 DEF Here
  <2>3. (active' <=> w.pc' # "gone") /\ (gen' = 0 => ~active')
        /\ msgs' = (IF w.pc' = "queued" THEN <<gen'>> ELSE << >>)
    BY <1>2, <1>9, <1>13
  <2> QED BY <1>14, <2>1, <2>2, <2>3, InvariantKept

LEMMA HostGoesOnKeeps == IInv /\ HostGoesOn => IInv'
<1> SUFFICES ASSUME IInv, HostGoesOn PROVE IInv'
  OBVIOUS
<1>1. Here /\ Contexts(gen, reqs, sent, got, applied)
  BY InvariantIs
<1>2. /\ active /\ w.armed = TRUE /\ sent # 0 /\ sent < reqs[Len(reqs)].parts /\ sent' = sent + 1
      /\ Received([id |-> Len(reqs), part |-> sent'], reqs)
      /\ UNCHANGED <<active, gen, reqs, got, applied>>
  BY <1>1 DEF HostGoesOn, Here, Right, Workers
<1>3. w \in Workers /\ At(w, gen, reqs, sent) /\ reqs \in Seq(Shapes) /\ sent \in Nat
  BY <1>1 DEF Here, Right, Contexts
<1>4. Gathers(w, reqs, sent) /\ w.pc \in {"collecting", "rxdata"}
  <2>1. ~Open(w, reqs, sent)
    <3>1. SUFFICES ASSUME Open(w, reqs, sent) PROVE FALSE
      OBVIOUS
    <3>2. reqs # << >> /\ sent = reqs[Len(reqs)].parts
      BY <1>2, <3>1 DEF Open, Begun, Final
    <3>3. reqs[Len(reqs)].parts \in Nat
      BY <1>3, <3>2, FinalIs
    <3> QED BY <1>2, <3>2, <3>3
  <2>2. w.pc \in Pcs
    BY <1>3 DEF Workers
  <2> QED BY <1>2, <1>3, <2>1, <2>2 DEF At, Still, Sends, Noted, Pcs
<1>5. /\ Holds(w, reqs) /\ reqs # << >> /\ w.buf # << >> /\ w.flight = 0 /\ ~w.rx.val
      /\ Final(reqs).op = "set" /\ sent = Len(w.buf)
      /\ w.pc = "collecting" => w.rx.handle = 0
      /\ w.pc = "rxdata" => w.rx.handle = gen
  BY <1>2, <1>3, <1>4 DEF At, Gathers, Holds
<1>6. msgs = << >> /\ gen # 0
  BY <1>2, <1>4 DEF IInv
<1>7. sent' <= Final(reqs).parts
  BY <1>2, <1>3, <1>5, FinalIs
<1>8. Contexts(gen, reqs, sent', got, applied)
  BY <1>1, <1>2, <1>3 DEF Contexts
<1>9. /\ Owes(w, reqs, got, applied) /\ Bounds(w, gen, reqs)
      /\ got[Len(reqs)] = 0 /\ \A j \in 1..Len(applied) : applied[j][1].id < Len(reqs)
  BY <1>1, <1>5 DEF Here, Right, Fresh
<1>10. /\ Right(w', gen, reqs, sent', got, applied) /\ w'.pc # "gone"
       /\ msgs' = IF w'.pc = "queued" THEN <<gen>> ELSE << >>
  <2>1. sent' = Len(w.buf) + 1
    BY <1>2, <1>5
  <2> QED
    BY <1>2, <1>3, <1>4, <1>5, <1>6, <1>7, <1>8, <1>9, <2>1, ReceivedIsRight
<1>11. Past(reqs, got, applied)'
  BY <1>2 DEF IInv, Past, Applied
<1> QED
  <2>1. active' \in BOOLEAN /\ gen' \in 0..MaxWorkers /\ Len(reqs') <= MaxRequests
    BY <1>2 DEF IInv, Types
  <2>2. Contexts(gen, reqs, sent, got, applied)' /\ Here'
    BY <1>2, <1>8, <1>10 DEF Here
  <2>3. (active' <=> w.pc' # "gone") /\ (gen' = 0 => ~active')
        /\ msgs' = (IF w.pc' = "queued" THEN <<gen'>> ELSE << >>)
    BY <1>2, <1>6, <1>10
  <2> QED BY <1>11, <2>1, <2>2, <2>3, InvariantKept

(* What Send needs of a worker whose packet was read.                      *)
LEMMA GotOnIsRight ==
  ASSUME NEW g, NEW rs, NEW s, NEW gt, NEW ap, Contexts(g, rs, s, gt, ap),
         NEW v \in Workers, Bounds(v, g, rs), Sends(v, rs, s), v.flight = 0,
         Owes(v, rs, gt, ap)
  PROVE  LET x == [v EXCEPT !.tx = Cleared]
         IN /\ Right(Send(x), g, rs, s, gt, ap)
            /\ Send(x).pc \in {"listening", "sending"}
            /\ ~Send(x).rx.val \/ Send(x).pc = "sending"
            /\ ~Send(x).tx.val \/ Send(x).pc = "listening"
<1> DEFINE x == [v EXCEPT !.tx = Cleared]
<1>1. /\ x \in Workers /\ x.rx = v.rx /\ x.tx.handle = 0 /\ x.armed = v.armed
      /\ x.flight = v.flight /\ x.buf = v.buf /\ x.response = v.response
  BY DEF Workers, Note, Cleared
<1> HIDE DEF x
<1>2. Bounds(x, g, rs)
  BY <1>1 DEF Bounds, Contexts
<1>3. Answering(x, rs, s)
  BY <1>1 DEF Answering, Still, Sends
<1>4. Owes(x, rs, gt, ap)
  BY <1>1 DEF Owes
<1>5. /\ Right(Send(x), g, rs, s, gt, ap)
      /\ Send(x).pc \in {"listening", "sending"}
      /\ ~Send(x).rx.val \/ Send(x).pc = "sending"
      /\ ~Send(x).tx.val \/ Send(x).pc = "listening"
  BY <1>1, <1>2, <1>3, <1>4, SendIsRight
<1> QED BY <1>5 DEF x

(* Who sends, and has its packet read, is resumed or told of it.           *)
LEMMA HostReadsKeeps == IInv /\ HostReads => IInv'
<1> SUFFICES ASSUME IInv, HostReads PROVE IInv'
  OBVIOUS
<1>1. Here /\ Contexts(gen, reqs, sent, got, applied)
  BY InvariantIs
<1> DEFINE v == [w EXCEPT !.flight = 0]  id == w.flight
<1>2. /\ active /\ id # 0 /\ got' = [got EXCEPT ![id] = @ + 1]
      /\ UNCHANGED <<active, gen, reqs, sent, applied>>
  BY DEF HostReads
<1>3. w \in Workers /\ At(w, gen, reqs, sent) /\ reqs \in Seq(Shapes) /\ gen \in Nat
  BY <1>1 DEF Here, Right, Contexts
<1>4. w.pc \in {"sending", "tx"} /\ Sends(w, reqs, sent)
  <2>1. w.pc \in Pcs
    BY <1>3 DEF Workers
  <2> QED BY <1>2, <1>3, <2>1 DEF At, Still, Open, Gathers, Noted, Pcs
<1>5. /\ v \in Workers /\ v.pc = w.pc /\ v.rx = w.rx /\ v.tx = w.tx /\ v.armed = w.armed
      /\ v.flight = 0 /\ v.buf = w.buf /\ v.response = w.response
  BY <1>3 DEF Workers
<1>6. /\ id = w.response.id /\ id \in 1..Len(reqs) /\ got[id] \in Nat /\ id \in 1..Len(got)
      /\ w.response.left \in Nat /\ reqs[id].answers \in Nat
      /\ got[id] + w.response.left + 1 <= reqs[id].answers
      /\ reqs[id].op = "set" => Applied(id, applied)
  <2>1. /\ id = w.response.id /\ id \in 1..Len(reqs)
        /\ got[id] + w.response.left + 1 <= reqs[id].answers
        /\ reqs[id].op = "set" => Applied(id, applied)
    BY <1>1, <1>2 DEF Here, Right, Owes
  <2>2. id \in 1..Len(got) /\ got[id] \in Nat
    BY <1>1, <2>1 DEF Contexts
  <2>3. w.response.left \in Nat
    BY <1>3 DEF Workers
  <2>4. reqs[id].answers \in Nat
    BY <1>3, <2>1, UsbComAssumption DEF Shape
  <2> QED BY <2>1, <2>2, <2>3, <2>4
<1>7. /\ got' \in Seq(Nat) /\ Len(got') = Len(got) /\ got'[id] = got[id] + 1
      /\ \A i \in 1..Len(got) : i # id => got'[i] = got[i]
  BY <1>1, <1>2, <1>6 DEF Contexts
<1>8. Contexts(gen, reqs, sent, got', applied)
  BY <1>1, <1>7 DEF Contexts
<1>9. Owes(v, reqs, got', applied)
  <2>1. got'[id] + w.response.left + 0 <= reqs[id].answers
    BY <1>6, <1>7
  <2> QED BY <1>5, <1>6, <2>1 DEF Owes
<1>10. Bounds(v, gen, reqs)
  BY <1>1, <1>5 DEF Here, Right, Bounds, Contexts
<1>11. Sends(v, reqs, sent)
  BY <1>4, <1>5 DEF Sends
<1>12. Fresh(v, reqs, got', applied)
  BY <1>11 DEF Sends, Fresh
<1>13. msgs = << >> /\ gen # 0
  BY <1>2, <1>4 DEF IInv
<1> HIDE DEF v
<1>14. /\ Right(w', gen, reqs, sent, got', applied) /\ w'.pc # "gone"
       /\ msgs' = IF w'.pc = "queued" THEN <<gen>> ELSE << >>
  <2>1. CASE w.pc = "sending"
    <3> DEFINE x == [v EXCEPT !.tx.val = TRUE]
    <3>1. w.tx.handle = 0
      BY <1>3, <2>1 DEF At
    <3>2. w' = x /\ msgs' = msgs
      BY <3>1 DEF HostReads, v
    <3>3. /\ x \in Workers /\ x.pc = "sending" /\ x.rx = w.rx /\ x.tx.val = TRUE
          /\ x.tx.handle = 0 /\ x.armed = w.armed
          /\ x.flight = 0 /\ x.buf = w.buf /\ x.response = w.response
      BY <1>5, <2>1, <3>1 DEF Workers, Note
    <3> HIDE DEF x
    <3>4. At(x, gen, reqs, sent)
      BY <1>4, <3>3 DEF At, Sends
    <3>5. Bounds(x, gen, reqs)
      BY <1>3, <1>5, <1>10, <3>3 DEF Bounds
    <3>6. Owes(x, reqs, got', applied) /\ Fresh(x, reqs, got', applied)
      BY <1>5, <1>9, <1>12, <3>3 DEF Owes, Fresh
    <3> QED BY <1>13, <3>2, <3>3, <3>4, <3>5, <3>6 DEF Right
  <2>2. CASE w.pc = "tx"
    <3> DEFINE y == Send([v EXCEPT !.tx = Cleared])
    <3>1. w.tx.handle = gen
      BY <1>3, <2>2 DEF At
    <3>2. RunInIsr(y)
      BY <1>13, <3>1 DEF HostReads, v
    <3>3. /\ Right(y, gen, reqs, sent, got', applied)
          /\ y.pc \in {"listening", "sending"}
          /\ ~y.rx.val \/ y.pc = "sending"
          /\ ~y.tx.val \/ y.pc = "listening"
      BY <1>5, <1>8, <1>9, <1>10, <1>11, GotOnIsRight
    <3> HIDE DEF y
    <3> QED BY <1>8, <1>13, <3>2, <3>3, RunIsRight
  <2> QED BY <1>4, <2>1, <2>2
<1>15. Past(reqs, got, applied)'
  <2>1. ASSUME NEW i \in 1..Len(reqs)
        PROVE got'[i] <= reqs[i].answers
              /\ (reqs[i].op = "set" /\ got'[i] > 0 => Applied(i, applied))
    <3>1. CASE i = id
      <4>1. got[id] + 1 <= reqs[id].answers
        BY <1>6
      <4> QED BY <1>6, <1>7, <3>1, <4>1
    <3>2. CASE i # id
      <4>1. got'[i] = got[i]
        BY <1>1, <1>7, <3>2 DEF Contexts
      <4> QED BY <4>1 DEF IInv, Past
    <3> QED BY <3>1, <3>2
  <2> QED BY <1>2, <2>1 DEF IInv, Past, Applied
<1> QED
  <2>1. active' \in BOOLEAN /\ gen' \in 0..MaxWorkers /\ Len(reqs') <= MaxRequests
    BY <1>2 DEF IInv, Types
  <2>2. Contexts(gen, reqs, sent, got, applied)' /\ Here'
    BY <1>2, <1>8, <1>14 DEF Here
  <2>3. (active' <=> w.pc' # "gone") /\ (gen' = 0 => ~active')
        /\ msgs' = (IF w.pc' = "queued" THEN <<gen'>> ELSE << >>)
    BY <1>2, <1>13, <1>14
  <2> QED BY <1>15, <2>1, <2>2, <2>3, InvariantKept

(* The main loop resumes the worker that waits for it; a value is set      *)
(* before the answer to that request exists.                               *)
LEMMA TrampolineKeeps == IInv /\ Trampoline => IInv'
<1> SUFFICES ASSUME IInv, Trampoline PROVE IInv'
  OBVIOUS
<1>1. Here /\ Contexts(gen, reqs, sent, got, applied)
  BY InvariantIs
<1>2. /\ w.pc = "queued" /\ msgs = <<gen>> /\ msgs' = << >> /\ Head(msgs) = gen
      /\ UNCHANGED <<active, gen, reqs, sent, got>>
  <2>1. w.pc = "queued" /\ msgs = <<gen>>
    BY DEF Trampoline, IInv
  <2> QED BY <2>1 DEF Trampoline
<1> DEFINE op == Final(reqs).op  n == Len(reqs)
<1>3. /\ w \in Workers /\ At(w, gen, reqs, sent) /\ reqs \in Seq(Shapes)
      /\ applied \in Seq(Seq(Packet))
  BY <1>1 DEF Here, Right, Contexts
<1>4. Still(w) /\ Complete(w, reqs, sent)
  BY <1>2, <1>3 DEF At
<1>5. /\ Holds(w, reqs) /\ Len(w.buf) \in Nat \ {0} /\ w.buf[1].id = n
      /\ reqs[w.buf[1].id] = Final(reqs) /\ reqs # << >> /\ n \in 1..n /\ reqs[n] = Final(reqs)
      /\ w.buf = Packets(n, Final(reqs).parts)
  BY <1>3, <1>4, HeldIs, FinalIs DEF Complete, Holds, Begun
<1>6. /\ w' = Answer(w, reqs)
      /\ applied' = IF op = "set" THEN Append(applied, w.buf) ELSE applied
  BY <1>2, <1>5 DEF Trampoline, Reply
<1>7. got[n] = 0 /\ \A j \in 1..Len(applied) : applied[j][1].id < n
  BY <1>1, <1>5 DEF Here, Right, Fresh, Holds
<1>8. /\ applied' \in Seq(Seq(Packet))
      /\ Len(applied') = Len(applied) + (IF op = "set" THEN 1 ELSE 0)
      /\ \A j \in 1..Len(applied) : applied'[j] = applied[j]
      /\ op = "set" => applied'[Len(applied) + 1] = w.buf
  <2>1. w.buf \in Seq(Packet) /\ Len(applied) \in Nat
    BY <1>3 DEF Workers
  <2>2. CASE op = "set"
    BY <1>3, <1>6, <2>1, <2>2, AppendProperties
  <2>3. CASE op # "set"
    BY <1>3, <1>6, <2>1, <2>3
  <2> QED BY <2>2, <2>3
<1>9. Len(applied) \in Nat
  BY <1>3
<1>10. \A i : Applied(i, applied) => Applied(i, applied')
  <2>1. ASSUME NEW i, NEW j \in 1..Len(applied), applied[j][1].id = i
        PROVE  Applied(i, applied')
    <3>1. j \in 1..Len(applied') /\ applied'[j][1].id = i
      BY <1>8, <1>9, <2>1
    <3> QED BY <3>1 DEF Applied
  <2> QED BY <2>1 DEF Applied
<1>11. op = "set" => Applied(n, applied')
  <2>1. SUFFICES ASSUME op = "set" PROVE Applied(n, applied')
    OBVIOUS
  <2>2. Len(applied) + 1 \in 1..Len(applied') /\ applied'[Len(applied) + 1][1].id = n
    BY <1>5, <1>8, <1>9, <2>1
  <2> QED BY <2>2 DEF Applied
<1>12. Contexts(gen, reqs, sent, got, applied')
  BY <1>1, <1>8 DEF Contexts
<1>13. /\ Right(w', gen, reqs, sent, got, applied')
       /\ w'.pc \in {"listening", "sending"}
  <2>1. Bounds(w, gen, reqs)
    BY <1>1 DEF Here, Right
  <2> QED BY <1>3, <1>4, <1>6, <1>7, <1>11, <1>12, <2>1, AnswerIsRight
<1>14. Past(reqs, got, applied)'
  <2>1. ASSUME NEW j \in 1..Len(applied'), NEW id, id = applied'[j][1].id
        PROVE  /\ id \in 1..n /\ applied'[j] = Packets(id, reqs[id].parts)
               /\ \A k \in 1..j-1 : applied'[k][1].id < id
    <3>1. CASE j \in 1..Len(applied)
      <4>1. /\ applied'[j] = applied[j] /\ \A k \in 1..j-1 : k \in 1..Len(applied)
        BY <1>8, <1>9, <3>1
      <4>2. \A k \in 1..j-1 : applied'[k] = applied[k]
        BY <1>8, <4>1
      <4> QED BY <2>1, <3>1, <4>1, <4>2 DEF IInv, Past
    <3>2. CASE j \notin 1..Len(applied)
      <4>1. op = "set" /\ j = Len(applied) + 1
        BY <1>8, <1>9, <3>2
      <4>2. applied'[j] = w.buf /\ id = n
        BY <1>5, <1>8, <2>1, <4>1
      <4>3. \A k \in 1..j-1 : applied'[k] = applied[k] /\ k \in 1..Len(applied)
        BY <1>8, <1>9, <4>1
      <4> QED BY <1>5, <1>7, <4>2, <4>3
    <3> QED BY <3>1, <3>2
  <2>2. \A i \in 1..n :
          got[i] <= reqs[i].answers /\ (reqs[i].op = "set" /\ got[i] > 0 => Applied(i, applied'))
    BY <1>10 DEF IInv, Past
  <2> QED BY <1>2, <2>1, <2>2 DEF Past
<1> QED
  <2>1. active' \in BOOLEAN /\ gen' \in 0..MaxWorkers /\ Len(reqs') <= MaxRequests
    BY <1>2 DEF IInv, Types
  <2>2. Contexts(gen, reqs, sent, got, applied)' /\ Here'
    BY <1>2, <1>12, <1>13 DEF Here
  <2>3. (active' <=> w.pc' # "gone") /\ (gen' = 0 => ~active')
        /\ msgs' = (IF w.pc' = "queued" THEN <<gen'>> ELSE << >>)
    <3>1. w'.pc # "gone" /\ w'.pc # "queued" /\ active /\ gen # 0
      BY <1>2, <1>13 DEF IInv
    <3> QED BY <1>2, <3>1
  <2> QED BY <1>14, <2>1, <2>2, <2>3, InvariantKept

(* A step of the worker alone, in thread mode.                             *)
LEMMA ThreadKeeps ==
  ASSUME IInv, UNCHANGED <<active, gen, msgs, reqs, sent, got, applied>>,
         w.pc \notin {"queued", "gone"}, w'.pc \notin {"queued", "gone"},
         Right(w', gen, reqs, sent, got, applied)
  PROVE  IInv'
<1>1. Here /\ Contexts(gen, reqs, sent, got, applied)
  BY InvariantIs
<1>2. active' \in BOOLEAN /\ gen' \in 0..MaxWorkers /\ Len(reqs') <= MaxRequests
  BY DEF IInv, Types
<1>3. Contexts(gen, reqs, sent, got, applied)' /\ Here'
  BY <1>1 DEF Here
<1>4. (active' <=> w.pc' # "gone") /\ (gen' = 0 => ~active')
      /\ msgs' = (IF w.pc' = "queued" THEN <<gen'>> ELSE << >>)
  BY DEF IInv
<1>5. Past(reqs, got, applied)'
  BY DEF IInv, Past, Applied
<1> QED BY <1>2, <1>3, <1>4, <1>5, InvariantKept

LEMMA ThreadAwaitsTxKeeps == IInv /\ ThreadAwaitsTx => IInv'
<1> SUFFICES ASSUME IInv, ThreadAwaitsTx PROVE IInv'
  OBVIOUS
<1>1. Here /\ Contexts(gen, reqs, sent, got, applied)
  BY InvariantIs
<1>2. w \in Workers /\ At(w, gen, reqs, sent) /\ w.pc = "sending"
      /\ UNCHANGED <<active, gen, msgs, reqs, sent, got, applied>>
  BY <1>1 DEF Here, Right, ThreadAwaitsTx
<1>3. CASE w.tx.val
  <2> DEFINE y == Send([w EXCEPT !.tx = Cleared])
  <2>1. w' = y
    BY <1>3 DEF ThreadAwaitsTx
  <2>2. /\ Right(y, gen, reqs, sent, got, applied)
        /\ y.pc \in {"listening", "sending"}
    <3>1. Sends(w, reqs, sent) /\ w.flight = 0
      BY <1>2, <1>3 DEF At
    <3>2. Bounds(w, gen, reqs) /\ Owes(w, reqs, got, applied)
      BY <1>1 DEF Here, Right
    <3> QED BY <1>1, <1>2, <3>1, <3>2, GotOnIsRight
  <2> HIDE DEF y
  <2> QED BY <1>2, <2>1, <2>2, ThreadKeeps
<1>4. CASE ~w.tx.val
  <2>1. w' = Suspend(w, gen)
    BY <1>4 DEF ThreadAwaitsTx
  <2>2. /\ Right(w', gen, reqs, sent, got, applied)
        /\ w'.pc \notin {"queued", "gone"}
    BY <1>1, <1>2, <1>4, <2>1, SuspendIsRight DEF Here
  <2> QED BY <1>2, <2>2, ThreadKeeps
<1> QED BY <1>3, <1>4

LEMMA ThreadAwaitsRxKeeps == IInv /\ ThreadAwaitsRx => IInv'
<1> SUFFICES ASSUME IInv, ThreadAwaitsRx PROVE IInv'
  OBVIOUS
<1>1. Here /\ Contexts(gen, reqs, sent, got, applied)
  BY InvariantIs
<1>2. w \in Workers /\ At(w, gen, reqs, sent) /\ w.pc \in {"listening", "collecting"}
      /\ UNCHANGED <<active, gen, msgs, reqs, sent, got, applied>>
  BY <1>1 DEF Here, Right, ThreadAwaitsRx
<1>3. CASE w.rx.val
  <2> DEFINE x == [w EXCEPT !.rx = Cleared]  y == Dispatch(x, FALSE, reqs)
  <2>1. w' = y
    BY <1>3 DEF ThreadAwaitsRx
  <2>2. /\ x \in Workers /\ x.rx = Cleared /\ x.tx = w.tx /\ x.armed = w.armed
        /\ x.flight = w.flight /\ x.buf = w.buf /\ x.response = w.response
    BY <1>2 DEF Workers, Note, Cleared
  <2> HIDE DEF x
  <2>3. Noted(w, reqs, sent)
    BY <1>2, <1>3 DEF At, Open, Gathers
  <2>4. Received1(x, reqs, sent)
    BY <2>2, <2>3 DEF Received1, Noted, Still, Holds, Cleared
  <2>5. Bounds(x, gen, reqs)
    <3>1. x.rx.handle = 0
      BY <2>2 DEF Cleared
    <3> QED BY <1>1, <2>2, <3>1 DEF Here, Right, Bounds, Contexts
  <2>6. Owes(x, reqs, got, applied) /\ Fresh(x, reqs, got, applied)
    BY <1>1, <2>2 DEF Here, Right, Owes, Fresh
  <2>7. FALSE \in BOOLEAN
    OBVIOUS
  <2>8. /\ Right(y, gen, reqs, sent, got, applied)
        /\ y.pc \in {"end", "collecting", "queued", "nomessage", "listening", "sending"}
        /\ y.pc # "queued"
    BY <1>1, <2>2, <2>4, <2>5, <2>6, <2>7, DispatchIsRight
  <2> HIDE DEF y
  <2> QED BY <1>2, <2>1, <2>8, ThreadKeeps
<1>4. CASE ~w.rx.val
  <2>1. w' = Suspend(w, gen)
    BY <1>4 DEF ThreadAwaitsRx
  <2>2. /\ Right(w', gen, reqs, sent, got, applied)
        /\ w'.pc \notin {"queued", "gone"}
    BY <1>1, <1>2, <1>4, <2>1, SuspendIsRight DEF Here
  <2> QED BY <1>2, <2>2, ThreadKeeps
<1> QED BY <1>3, <1>4

(* A restart: what the old worker owed stays, but nothing is under way.    *)
LEMMA EnableKeeps == ASSUME ~AnytimeHost PROVE IInv /\ Enable => IInv'
<1> SUFFICES ASSUME IInv, Enable PROVE IInv'
  OBVIOUS
<1>1. Here /\ Contexts(gen, reqs, sent, got, applied)
  BY InvariantIs
<1> DEFINE v == [EndpointsOff(w) EXCEPT !.buf = << >>]  x == Listen(v)
<1>2. /\ gen < MaxWorkers /\ gen' = gen + 1 /\ active' = TRUE /\ sent' = 0
      /\ UNCHANGED <<msgs, reqs, got, applied>>
      /\ w' = Suspend(x, gen + 1) /\ w.pc # "queued"
  BY DEF Enable, MayChange
<1>3. w \in Workers /\ gen \in Nat /\ msgs = << >>
  BY <1>1, <1>2 DEF Here, Right, Contexts, IInv
<1>4. /\ v \in Workers /\ v.rx = w.rx /\ v.tx = w.tx /\ v.armed = FALSE
      /\ v.flight = 0 /\ v.buf = << >> /\ v.response = w.response
  BY <1>3, EmptySeq DEF EndpointsOff, Workers, Packet
<1> HIDE DEF v
<1>5. /\ x \in Workers /\ x.pc = "listening" /\ x.rx = Cleared /\ x.armed = TRUE
      /\ x.tx = w.tx /\ x.flight = 0 /\ x.buf = << >> /\ x.response = w.response
  BY <1>4 DEF Listen, Workers, Pcs, Note, Cleared
<1> HIDE DEF x
<1>6. x.rx.val = FALSE /\ x.rx.handle = 0
  BY <1>5 DEF Cleared
<1>7. Contexts(gen + 1, reqs, 0, got, applied)
  BY <1>1, <1>3 DEF Contexts
<1>8. Right(x, gen + 1, reqs, 0, got, applied)
  <2>1. At(x, gen + 1, reqs, 0)
    BY <1>5, <1>6 DEF At, Open
  <2>2. Bounds(x, gen + 1, reqs)
    <3>1. w.tx.handle <= gen /\ w.tx.handle \in Nat /\ w.response.id <= Len(reqs) /\ Len(reqs) \in Nat
      BY <1>1, <1>3 DEF Here, Right, Bounds, Workers, Note, Contexts
    <3>2. Len(x.buf) = 0 /\ 0 <= Capacity
      BY <1>5, EmptySeq, UsbComAssumption
    <3>3. x.rx.handle <= gen + 1 /\ x.tx.handle <= gen + 1 /\ x.flight <= Len(reqs)
      BY <1>3, <1>5, <1>6, <3>1
    <3> QED BY <1>5, <3>1, <3>2, <3>3 DEF Bounds
  <2>3. Owes(x, reqs, got, applied)
    <3> DEFINE id == w.response.id
    <3>1. SUFFICES ASSUME w.response.left # 0 PROVE Owes(x, reqs, got, applied)
      BY <1>5 DEF Owes
    <3>2. /\ id \in 1..Len(reqs)
          /\ reqs[id].op = "set" => Applied(id, applied)
      BY <1>1, <3>1 DEF Here, Right, Owes
    <3>3. got[id] + w.response.left + (IF w.flight = 0 THEN 0 ELSE 1) <= reqs[id].answers
      BY <1>1, <3>1 DEF Here, Right, Owes
    <3>4. got[id] \in Nat /\ w.response.left \in Nat /\ reqs[id].answers \in Nat
      <4>1. reqs[id] \in Shapes
        BY <1>1, <3>2 DEF Contexts
      <4>2. reqs[id].answers \in Nat
        BY <4>1, UsbComAssumption DEF Shape
      <4>3. got[id] \in Nat
        BY <1>1, <3>2 DEF Contexts
      <4>4. w.response.left \in Nat
        BY <1>3 DEF Workers
      <4> QED BY <4>2, <4>3, <4>4
    <3>5. got[id] + w.response.left + 0 <= reqs[id].answers
      BY <3>3, <3>4
    <3> QED BY <1>5, <3>2, <3>5 DEF Owes
  <2>4. Fresh(x, reqs, got, applied)
    BY <1>5 DEF Fresh
  <2> QED BY <1>5, <2>1, <2>2, <2>3, <2>4 DEF Right
<1>9. /\ Right(w', gen + 1, reqs, 0, got, applied) /\ w'.pc # "queued" /\ w'.pc # "gone"
  BY <1>2, <1>5, <1>6, <1>7, <1>8, SuspendIsRight
<1> QED
  <2>1. active' \in BOOLEAN /\ gen' \in 0..MaxWorkers /\ Len(reqs') <= MaxRequests
    <3>1. gen + 1 \in 0..MaxWorkers
      BY <1>2, <1>3, UsbComAssumption
    <3> QED BY <1>2, <3>1 DEF IInv, Types
  <2>2. Contexts(gen, reqs, sent, got, applied)' /\ Here'
    BY <1>2, <1>7, <1>9 DEF Here
  <2>3. (active' <=> w.pc' # "gone") /\ (gen' = 0 => ~active')
        /\ msgs' = (IF w.pc' = "queued" THEN <<gen'>> ELSE << >>)
    <3>1. gen' # 0
      BY <1>2, <1>3
    <3> QED BY <1>2, <1>3, <1>9, <3>1
  <2>4. Past(reqs, got, applied)'
    BY <1>2 DEF IInv, Past, Applied
  <2> QED BY <2>1, <2>2, <2>3, <2>4, InvariantKept

LEMMA DisableKeeps == ASSUME ~AnytimeHost PROVE IInv /\ Disable => IInv'
<1> SUFFICES ASSUME IInv, Disable PROVE IInv'
  OBVIOUS
<1>1. Here /\ Contexts(gen, reqs, sent, got, applied)
  BY InvariantIs
<1> DEFINE x == [EndpointsOff(w) EXCEPT !.pc = "gone"]
<1>2. /\ active' = FALSE /\ sent' = 0 /\ UNCHANGED <<gen, msgs, reqs, got, applied>>
      /\ w' = x /\ w.pc # "queued"
  BY DEF Disable, MayChange
<1>3. w \in Workers /\ msgs = << >>
  BY <1>1, <1>2 DEF Here, Right, IInv
<1>4. /\ x \in Workers /\ x.pc = "gone" /\ x.rx = w.rx /\ x.tx = w.tx /\ x.armed = FALSE
      /\ x.flight = 0 /\ x.buf = w.buf /\ x.response = w.response
  BY <1>3 DEF EndpointsOff, Workers, Pcs
<1> HIDE DEF x
<1>5. Contexts(gen, reqs, 0, got, applied)
  BY <1>1 DEF Contexts
<1>6. Right(x, gen, reqs, 0, got, applied)
  <2>1. At(x, gen, reqs, 0)
    BY <1>4 DEF At, Still
  <2>2. Bounds(x, gen, reqs)
    BY <1>1, <1>4 DEF Here, Right, Bounds, Contexts
  <2>3. Owes(x, reqs, got, applied)
    <3> DEFINE id == w.response.id
    <3>1. SUFFICES ASSUME w.response.left # 0 PROVE Owes(x, reqs, got, applied)
      BY <1>4 DEF Owes
    <3>2. /\ id \in 1..Len(reqs)
          /\ reqs[id].op = "set" => Applied(id, applied)
      BY <1>1, <3>1 DEF Here, Right, Owes
    <3>3. got[id] + w.response.left + (IF w.flight = 0 THEN 0 ELSE 1) <= reqs[id].answers
      BY <1>1, <3>1 DEF Here, Right, Owes
    <3>4. got[id] \in Nat /\ w.response.left \in Nat /\ reqs[id].answers \in Nat
      <4>1. reqs[id] \in Shapes
        BY <1>1, <3>2 DEF Contexts
      <4>2. reqs[id].answers \in Nat
        BY <4>1, UsbComAssumption DEF Shape
      <4>3. got[id] \in Nat
        BY <1>1, <3>2 DEF Contexts
      <4>4. w.response.left \in Nat
        BY <1>3 DEF Workers
      <4> QED BY <4>2, <4>3, <4>4
    <3>5. got[id] + w.response.left + 0 <= reqs[id].answers
      BY <3>3, <3>4
    <3> QED BY <1>4, <3>2, <3>5 DEF Owes
  <2>4. Fresh(x, reqs, got, applied)
    BY <1>1, <1>4 DEF Here, Right, Fresh
  <2> QED BY <1>4, <2>1, <2>2, <2>3, <2>4 DEF Right
<1> QED
  <2>1. active' \in BOOLEAN /\ gen' \in 0..MaxWorkers /\ Len(reqs') <= MaxRequests
    BY <1>2 DEF IInv, Types
  <2>2. Contexts(gen, reqs, sent, got, applied)' /\ Here'
    BY <1>2, <1>5, <1>6 DEF Here
  <2>3. (active' <=> w.pc' # "gone") /\ (gen' = 0 => ~active')
        /\ msgs' = (IF w.pc' = "queued" THEN <<gen'>> ELSE << >>)
    BY <1>2, <1>3, <1>4
  <2>4. Past(reqs, got, applied)'
    BY <1>2 DEF IInv, Past, Applied
  <2> QED BY <2>1, <2>2, <2>3, <2>4, InvariantKept

LEMMA NextKeeps == ASSUME ~AnytimeHost PROVE IInv /\ [Next]_vars => IInv'
<1> SUFFICES ASSUME IInv, [Next]_vars PROVE IInv'
  OBVIOUS
<1>1. CASE UNCHANGED vars
  BY <1>1 DEF vars, IInv, Types, At, Still, Open, Noted, Gathers, Complete, Sends, Holds,
              Begun, Past, Owes, Fresh, Applied
<1>2. CASE Next
  BY <1>2, HostBeginsKeeps, HostGoesOnKeeps, HostReadsKeeps, TrampolineKeeps,
     ThreadAwaitsTxKeeps, ThreadAwaitsRxKeeps, EnableKeeps, DisableKeeps DEF Next
<1> QED BY <1>1, <1>2

-----------------------------------------------------------------------------
(* What the invariant means. *)

LEMMA AnswersAreOwn == IInv => OwnAnswer
<1> SUFFICES ASSUME IInv PROVE OwnAnswer
  OBVIOUS
<1>1. Here /\ Contexts(gen, reqs, sent, got, applied)
  BY InvariantIs
<1>2. w \in Workers /\ At(w, gen, reqs, sent)
  BY <1>1 DEF Here, Right
<1>3. ASSUME w.flight # 0
      PROVE  /\ sent = reqs[Len(reqs)].parts
             /\ w.flight = Len(reqs) \/ reqs[Len(reqs)].op = "unknown"
  <2>1. w.pc \in Pcs
    BY <1>2 DEF Workers
  <2>2. Sends(w, reqs, sent)
    BY <1>2, <1>3, <2>1 DEF At, Still, Open, Gathers, Noted, Pcs
  <2>3. w.flight = w.response.id
    BY <1>1, <1>3 DEF Here, Right, Owes
  <2> QED BY <2>2, <2>3 DEF Sends, Begun, Final
<1>4. \A i \in DOMAIN reqs : got[i] <= reqs[i].answers
  <2>1. DOMAIN reqs = 1..Len(reqs)
    BY <1>1 DEF Contexts
  <2> QED BY <2>1 DEF IInv, Past
<1> QED BY <1>3, <1>4 DEF OwnAnswer

LEMMA ValuesAreSet == IInv => SetsAreWhole
<1> SUFFICES ASSUME IInv PROVE SetsAreWhole
  OBVIOUS
<1>1. Here /\ Contexts(gen, reqs, sent, got, applied)
  BY InvariantIs
<1>2. DOMAIN reqs = 1..Len(reqs) /\ DOMAIN applied = 1..Len(applied)
  BY <1>1 DEF Contexts
<1>3. ASSUME NEW j \in 1..Len(applied), NEW id, id = applied[j][1].id
      PROVE  /\ applied[j] = [p \in 1..reqs[id].parts |-> [id |-> id, part |-> p]]
             /\ \A k \in 1..j-1 : applied[k][1].id < id
  BY <1>3 DEF IInv, Past, Packets
<1>4. ASSUME NEW i \in 1..Len(reqs), reqs[i].op = "set", got[i] > 0 \/ w.flight = i
      PROVE  \E j \in 1..Len(applied) : applied[j][1].id = i
  <2>1. CASE got[i] > 0
    BY <1>4, <2>1 DEF IInv, Past, Applied
  <2>2. CASE w.flight = i
    <3>1. w.flight # 0
      BY <2>2
    <3>2. w.response.id = i
      BY <1>1, <2>2, <3>1 DEF Here, Right, Owes
    <3> QED BY <1>1, <1>4, <3>1, <3>2 DEF Here, Right, Owes, Applied
  <2> QED BY <1>4, <2>1, <2>2
<1> QED BY <1>2, <1>3, <1>4 DEF SetsAreWhole

LEMMA TheLiveOneRuns == IInv => RunsLive
<1> SUFFICES ASSUME IInv PROVE RunsLive
  OBVIOUS
<1>1. Here /\ Contexts(gen, reqs, sent, got, applied) /\ Types
  BY InvariantIs DEF IInv
<1>2. w \in Workers /\ At(w, gen, reqs, sent) /\ w.pc \in Pcs /\ w.armed \in BOOLEAN
  BY <1>1 DEF Here, Right, Workers
<1>3. BufferIsOwned
  BY <1>2 DEF BufferIsOwned, At, Still, Sends, Pcs
<1>4. NeverStranded
  BY <1>2 DEF NeverStranded, At, Open, Gathers
<1>5. w.pc # "dangling"
  BY <1>2 DEF At
<1>6. TypeOK
  <2>1. MaxRequests \in Nat /\ MaxWorkers \in Nat /\ gen \in Nat /\ gen <= MaxWorkers
        /\ Len(reqs) \in Nat /\ Len(reqs) <= MaxRequests
    BY <1>1, UsbComAssumption DEF Types
  <2>2. w.rx \in [val : BOOLEAN, handle : 0..MaxWorkers]
    <3>1. w.rx \in Note /\ w.rx.handle <= gen
      BY <1>1, <1>2 DEF Types, Workers
    <3>2. w.rx.handle \in 0..MaxWorkers
      BY <2>1, <3>1 DEF Note
    <3> QED BY <3>1, <3>2 DEF Note
  <2>3. w.tx \in [val : BOOLEAN, handle : 0..MaxWorkers]
    <3>1. w.tx \in Note /\ w.tx.handle <= gen
      BY <1>1, <1>2 DEF Types, Workers
    <3>2. w.tx.handle \in 0..MaxWorkers
      BY <2>1, <3>1 DEF Note
    <3> QED BY <3>1, <3>2 DEF Note
  <2>4. w.flight \in 0..MaxRequests /\ w.response.id \in 0..MaxRequests /\ w.response.left \in Nat
    <3>1. w.flight \in Nat /\ w.response.id \in Nat /\ w.response.left \in Nat
      BY <1>2 DEF Workers
    <3> QED BY <1>1, <2>1, <3>1 DEF Types
  <2>5. DOMAIN got = DOMAIN reqs /\ \A i \in DOMAIN reqs : reqs[i] \in Shapes
    BY <1>1 DEF Types
  <2>6. \A i \in DOMAIN msgs : msgs[i] \in 1..gen
    <3>1. CASE w.pc = "queued"
      <4>1. msgs = <<gen>> /\ gen # 0
        BY <3>1 DEF IInv
      <4>2. gen \in 1..gen
        BY <2>1, <4>1
      <4> QED BY <4>1, <4>2
    <3>2. CASE w.pc # "queued"
      <4>1. msgs = << >>
        BY <3>2 DEF IInv
      <4> QED BY <4>1
    <3> QED BY <3>1, <3>2
  <2>7. gen \in 0..MaxWorkers /\ active \in BOOLEAN /\ Len(w.buf) <= Capacity
    BY <1>1 DEF Types
  <2> QED
    BY <1>2, <2>1, <2>2, <2>3, <2>4, <2>5, <2>6, <2>7 DEF TypeOK, Pcs
<1> QED BY <1>3, <1>4, <1>5, <1>6 DEF RunsLive

(* The inductive invariant of the worker: what it has of a request and has *)
(* still to send of an answer, at each of its co_awaits and in the main    *)
(* loop.                                                                   *)
THEOREM UsbComInvariant == ASSUME ~AnytimeHost PROVE Spec => []IInv
<1>1. IInv /\ [Next]_vars => IInv'
  BY NextKeeps
<1> QED BY InitIInv, <1>1, PTL DEF Spec

(* An answer is only sent to the request it was made for, and no more of   *)
(* it than there is, however often the host restarts the worker.           *)
THEOREM UsbComOwnAnswer == ASSUME ~AnytimeHost PROVE Spec => []OwnAnswer
  BY UsbComInvariant, AnswersAreOwn, PTL

(* Values are set whole, once, in order, and before they are confirmed.    *)
THEOREM UsbComSetsAreWhole == ASSUME ~AnytimeHost PROVE Spec => []SetsAreWhole
  BY UsbComInvariant, ValuesAreSet, PTL

(* Whoever is resumed is the worker that is there, rx_buffer is written    *)
(* while it waits, and what it waits for is under way.                     *)
THEOREM UsbComRunsLive == ASSUME ~AnytimeHost PROVE Spec => []RunsLive
  BY UsbComInvariant, TheLiveOneRuns, PTL
=============================================================================
