---------------------------- MODULE DevicesProofs ----------------------------
(* Proofs about the parts around the outputs: the readings posted are of   *)
(* one round, the duty cycle is that of setpoint and calibration, the      *)
(* panel is sent what it understands, the accounts of time add up, the     *)
(* heartbeat does not drift, what was saved is loaded completely or not at *)
(* all, and an iteration of a list visits who stays once.  Every part has  *)
(* an inductive invariant, which the steps of the others leave alone.      *)
EXTENDS MCDevices, SequenceTheorems, WellFoundedInduction, TLAPS

LEMMA Joined ==
  ASSUME NEW S, NEW s \in Seq(S), NEW t \in Seq(S), NEW u \in Seq(S),
         Len(u) = Len(s) + Len(t),
         \A k \in 1..Len(s) : u[k] = s[k],
         \A k \in 1..Len(t) : u[k + Len(s)] = t[k]
  PROVE  s \o t = u
<1>1. s \o t \in Seq(S) /\ Len(s \o t) = Len(u)
  BY ConcatProperties
<1>2. ASSUME NEW k \in 1..Len(u) PROVE (s \o t)[k] = u[k]
  <2>1. (s \o t)[k] = IF k <= Len(s) THEN s[k] ELSE t[k - Len(s)]
    BY ConcatProperties
  <2>2. Len(s) \in Nat /\ Len(t) \in Nat
    OBVIOUS
  <2>3. CASE k <= Len(s)
    BY <2>1, <2>2, <2>3
  <2>4. CASE ~(k <= Len(s))
    <3>1. k - Len(s) \in 1..Len(t) /\ k = (k - Len(s)) + Len(s)
      BY <2>2, <2>4
    <3> QED BY <2>1, <2>4, <3>1
  <2> QED BY <2>3, <2>4
<1> QED BY <1>1, <1>2, SeqEqual

(* A set of numbers has a least one: what proofs by induction rest on.     *)
LEMMA LeastOne ==
  ASSUME NEW T, T \subseteq Nat, T # {}
  PROVE  \E m \in T : \A n \in T : ~(n < m)
<1> DEFINE R == OpToRel(<, Nat)
<1>1. IsWellFoundedOn(R, Nat)
  BY NatLessThanWellFounded
<1>2. \A m, n \in Nat : m < n => <<m, n>> \in R
  BY DEF OpToRel
<1> HIDE DEF R
<1>3. \E m \in T : \A n \in T : ~ (<<n, m>> \in R)
  BY <1>1, WFMin
<1> QED
  BY <1>2, <1>3

-----------------------------------------------------------------------------
(* The analog readings. *)

(* The ADC is idle when a conversion is triggered.  Before the coroutine   *)
(* reads the register, the register is of the last trigger or the ADC      *)
(* still converts that channel; the samples of this round are in their     *)
(* places, and so are those of the posted messages.                        *)
Idle == {"high", "highPause", "trigger", "fetch"}
Awaited ==
  /\ pin \in BOOLEAN
  /\ pin => conv = 0
  /\ pc \in Idle => conv = 0
  /\ pc = "alert" => conv \in {0, i}
  /\ pc = "alert" /\ pin => reg = [ch |-> i, new |-> TRUE]
  /\ pc = "fetch" => reg = [ch |-> i, new |-> TRUE]
RightSample(sample, k) ==
  sample = [ch |-> k, new |-> TRUE] \/ (sample = Analog!Misread /\ faults > 0)
Gathered == \A c \in 1..i - 1 : RightSample(values[c], c)
Posted ==
  /\ msgs \in Seq([Analog!Chans -> Analog!Samples])
  /\ \A n \in 1..Len(msgs), c \in Analog!Chans : RightSample(msgs[n][c], c)
AnalogInv == Analog!TypeOK /\ faults \in Nat /\ Awaited /\ Gathered /\ Posted

LEMMA SamplesHave ==
  ASSUME NEW ch \in 0..N, NEW new \in BOOLEAN
  PROVE  [ch |-> ch, new |-> new] \in Analog!Samples
BY DEF Analog!Samples

LEMMA AnalogInit == Analog!Init => AnalogInv
<1> SUFFICES ASSUME Analog!Init PROVE AnalogInv
  OBVIOUS
<1> USE PartsAssumption
<1>1. Analog!NoSample \in Analog!Samples
  BY DEF Analog!NoSample, Analog!Samples
<1>2. Analog!TypeOK /\ faults \in Nat
  BY <1>1 DEF Analog!Init, Analog!TypeOK, Analog!Chans
<1>3. Awaited /\ Gathered
  <2>1. i = 1 /\ pc = "pause" /\ pin = FALSE
    BY DEF Analog!Init
  <2>2. Awaited
    BY <2>1 DEF Analog!Init, Awaited, Idle
  <2>3. 1..i - 1 = {}
    BY <2>1
  <2> QED
    BY <2>2, <2>3 DEF Gathered
<1>4. Posted
  BY DEF Analog!Init, Posted
<1> QED
  BY <1>2, <1>3, <1>4 DEF AnalogInv

LEMMA RestartResets ==
  ASSUME AnalogInv, Analog!Restart
  PROVE  /\ pc' = "pause" /\ i' \in Analog!Chans /\ values' \in [Analog!Chans -> Analog!Samples]
         /\ Gathered'
<1> USE PartsAssumption
<1>1. Analog!NoSample \in Analog!Samples
  BY DEF Analog!NoSample, Analog!Samples
<1>2. i' = 1 /\ 1 \in Analog!Chans
  BY DEF Analog!Restart, Analog!Chans
<1> QED
  BY <1>1, <1>2 DEF Analog!Restart, Gathered

(* A fault stays counted. *)
FaultsKept == faults' \in Nat /\ (faults > 0 => faults' > 0)

LEMMA FaultsStay == AnalogInv /\ [Analog!Next]_(Analog!vars) => FaultsKept
<1> SUFFICES ASSUME AnalogInv, [Analog!Next]_(Analog!vars) PROVE FaultsKept
  OBVIOUS
<1>1. faults \in Nat
  BY DEF AnalogInv
<1>2. faults' = faults \/ faults' = faults + 1
  BY DEF Analog!Next, Analog!Monitor, Analog!SetUp, Analog!Triggered, Analog!Fetched,
         Analog!SelectLost, Analog!TransferFails, Analog!ReadyIrq, Analog!Timeout,
         Analog!Converted, Analog!ConversionLost, Analog!MainTakes, Analog!Fault, Analog!vars
<1> QED
  BY <1>1, <1>2 DEF FaultsKept

RightLater(sample, k) ==
  sample = [ch |-> k, new |-> TRUE] \/ (sample = Analog!Misread /\ faults' > 0)

(* What happens to the messages, the samples and the register on its own.  *)
LEMMA PostedStays ==
  ASSUME Posted, UNCHANGED msgs, FaultsKept PROVE Posted'
BY DEF Posted, RightSample, FaultsKept

LEMMA GatheredStays ==
  ASSUME Gathered, UNCHANGED <<i, values>>, FaultsKept PROVE Gathered'
<1>1. i' = i /\ values' = values
  OBVIOUS
<1>2. ASSUME NEW c \in 1..i' - 1 PROVE RightSample(values[c], c)'
  <2>1. RightSample(values[c], c)
    BY <1>1 DEF Gathered
  <2> QED
    BY <1>1, <2>1 DEF RightSample, FaultsKept
<1> QED
  BY <1>2 DEF Gathered

LEMMA TriggerStarts ==
  ASSUME AnalogInv, Analog!Start(i), conv = 0
  PROVE  conv' = i /\ conv' \in 0..N /\ pin' = FALSE /\ reg' \in Analog!Samples
<1>1. reg.ch \in 0..N
  BY DEF AnalogInv, Analog!TypeOK, Analog!Samples
<1>2. reg' = [ch |-> reg.ch, new |-> FALSE]
  BY DEF Analog!Start
<1>3. i \in 0..N
  BY PartsAssumption DEF AnalogInv, Analog!TypeOK, Analog!Chans
<1> QED
  BY <1>1, <1>2, <1>3, SamplesHave DEF Analog!Start

(* A sample that is right goes to its place. *)
LEMMA SampleStored ==
  ASSUME AnalogInv, FaultsKept, pc = "fetch", UNCHANGED <<alert, conv, reg, pin>>,
         NEW sample \in Analog!Samples, RightLater(sample, i), Analog!Store(sample)
  PROVE  AnalogInv'
<1> USE PartsAssumption
<1>0. Analog!TypeOK /\ faults \in Nat /\ Awaited /\ Gathered /\ Posted
  BY DEF AnalogInv
<1> DEFINE all == [values EXCEPT ![i] = sample]
<1>1. all \in [Analog!Chans -> Analog!Samples]
  BY <1>0 DEF Analog!TypeOK
<1>2. \A c \in 1..i : RightLater(all[c], c)
  <2>1. i \in Analog!Chans /\ i \in Nat /\ values \in [Analog!Chans -> Analog!Samples]
    BY <1>0 DEF Analog!TypeOK, Analog!Chans
  <2> SUFFICES ASSUME NEW c \in 1..i PROVE RightLater(all[c], c)
    OBVIOUS
  <2>2. c \in Analog!Chans
    BY <2>1 DEF Analog!Chans
  <2>3. CASE c = i
    <3>1. all[c] = sample
      BY <2>1, <2>3
    <3> HIDE DEF all
    <3> QED
      BY <2>3, <3>1
  <2>4. CASE c # i
    <3>1. all[c] = values[c] /\ c \in 1..i - 1
      BY <2>1, <2>2, <2>4
    <3> HIDE DEF all
    <3>2. RightSample(values[c], c)
      BY <1>0, <3>1 DEF Gathered
    <3>3. RightLater(values[c], c)
      BY <3>2 DEF RightSample, RightLater, FaultsKept
    <3> QED
      BY <3>1, <3>3
  <2> QED
    BY <2>3, <2>4
<1>3. /\ values' = IF i = N THEN [c \in Analog!Chans |-> [ch |-> all[c].ch, new |-> FALSE]]
                   ELSE all
      /\ msgs' = IF i = N /\ Len(msgs) < Buffers THEN Append(msgs, all) ELSE msgs
      /\ i' = IF i = N THEN 1 ELSE i + 1
      /\ pc' = "trigger"
  BY DEF Analog!Store
<1> HIDE DEF all
<1>4. i' \in Analog!Chans /\ values' \in [Analog!Chans -> Analog!Samples] /\ Gathered'
  <2>1. CASE i = N
    <3>1. values' = [c \in Analog!Chans |-> [ch |-> all[c].ch, new |-> FALSE]] /\ i' = 1
      BY <1>3, <2>1
    <3>2. \A c \in Analog!Chans : all[c].ch \in 0..N
      BY <1>1 DEF Analog!Samples
    <3>3. \A c \in Analog!Chans : [ch |-> all[c].ch, new |-> FALSE] \in Analog!Samples
      BY <3>2, SamplesHave
    <3>4. i' \in Analog!Chans /\ Gathered'
      BY <3>1 DEF Analog!Chans, Gathered
    <3> QED
      BY <3>1, <3>3, <3>4
  <2>2. CASE i # N
    <3>1. values' = all /\ i' = i + 1
      BY <1>3, <2>2
    <3>2. i' \in Analog!Chans /\ i' - 1 = i
      BY <1>0, <2>2, <3>1 DEF Analog!TypeOK, Analog!Chans
    <3>3. ASSUME NEW c \in 1..i' - 1 PROVE RightSample(values[c], c)'
      <4>1. RightLater(values'[c], c)
        BY <1>2, <3>1, <3>2
      <4> QED
        BY <4>1 DEF RightSample, RightLater
    <3>4. Gathered'
      BY <3>3 DEF Gathered
    <3> QED
      BY <1>1, <3>1, <3>2, <3>4
  <2> QED
    BY <2>1, <2>2
<1>5. Posted' /\ Len(msgs') <= Buffers
  <2>1. CASE i = N /\ Len(msgs) < Buffers
    <3>1. msgs' = Append(msgs, all)
      BY <1>3, <2>1
    <3>2. \A c \in Analog!Chans : RightLater(all[c], c)
      BY <1>2, <2>1 DEF Analog!Chans
    <3>3. msgs \in Seq([Analog!Chans -> Analog!Samples]) /\ Len(msgs) \in Nat
      BY <1>0 DEF Posted
    <3>4. /\ msgs' \in Seq([Analog!Chans -> Analog!Samples]) /\ Len(msgs') = Len(msgs) + 1
          /\ \A n \in 1..Len(msgs) : msgs'[n] = msgs[n]
          /\ msgs'[Len(msgs) + 1] = all
      BY <1>1, <3>1, <3>3
    <3>5. ASSUME NEW n \in 1..Len(msgs'), NEW c \in Analog!Chans
          PROVE  RightLater(msgs'[n][c], c)
      <4>1. CASE n = Len(msgs) + 1
        BY <3>2, <3>4, <4>1
      <4>2. CASE n \in 1..Len(msgs)
        <5>1. RightSample(msgs[n][c], c) /\ msgs'[n] = msgs[n]
          BY <1>0, <3>4, <4>2 DEF Posted
        <5>2. RightLater(msgs[n][c], c)
          BY <5>1 DEF RightSample, RightLater, FaultsKept
        <5> QED
          BY <5>1, <5>2
      <4> QED
        BY <3>3, <3>4, <4>1, <4>2
    <3>6. Posted'
      BY <3>4, <3>5 DEF Posted, RightSample, RightLater
    <3> QED
      BY <2>1, <3>3, <3>4, <3>6
  <2>2. CASE ~(i = N /\ Len(msgs) < Buffers)
    <3>1. UNCHANGED msgs
      BY <1>3, <2>2
    <3> QED
      BY <1>0, <3>1, PostedStays DEF Analog!TypeOK
  <2> QED
    BY <2>1, <2>2
<1>6. Awaited'
  <2>1. conv = 0
    BY <1>0 DEF Awaited, Idle
  <2> QED
    BY <1>0, <1>3, <2>1 DEF Awaited, Idle
<1>7. Analog!TypeOK' /\ faults' \in Nat
  BY <1>0, <1>4, <1>5 DEF Analog!TypeOK, FaultsKept
<1> QED
  BY <1>4, <1>5, <1>6, <1>7 DEF AnalogInv

LEMMA AnalogStep == AnalogInv /\ [Analog!Next]_(Analog!vars) => AnalogInv'
<1> SUFFICES ASSUME AnalogInv, [Analog!Next]_(Analog!vars) PROVE AnalogInv'
  OBVIOUS
<1> USE PartsAssumption
<1>0. Analog!TypeOK /\ faults \in Nat /\ Awaited /\ Gathered /\ Posted
  BY DEF AnalogInv
<1>k. FaultsKept /\ faults' \in Nat
  BY FaultsStay DEF FaultsKept
<1>1. CASE Analog!SetUp
  <2>1. pc' \notin {"alert", "fetch"}
    BY <1>1 DEF Analog!SetUp, Analog!Settled, Analog!Follows, Analog!Restart
  <2>2. i' \in Analog!Chans /\ values' \in [Analog!Chans -> Analog!Samples] /\ Gathered'
    <3>1. CASE Analog!Restart
      BY <3>1, RestartResets
    <3>2. CASE UNCHANGED <<i, values, timer>>
      BY <1>0, <1>k, <3>2, GatheredStays DEF Analog!TypeOK
    <3> QED
      BY <1>1, <3>1, <3>2 DEF Analog!SetUp
  <2>3. Posted'
    BY <1>0, <1>1, <1>k, PostedStays DEF Analog!SetUp
  <2>4. Analog!TypeOK'
    BY <1>0, <1>1, <2>2 DEF Analog!SetUp, Analog!TypeOK, Analog!device
  <2>5. UNCHANGED <<conv, reg, pin>>
    BY <1>1 DEF Analog!SetUp, Analog!device
  <2>6. pc' \in Idle => conv = 0
    <3>1. CASE Analog!Restart
      BY <3>1 DEF Analog!Restart, Idle
    <3>2. CASE pc' = Analog!Follows(pc)
      <4>1. pc' \in Idle => pc \in {"lowPause", "high", "highPause"}
        BY <1>1, <3>2 DEF Analog!SetUp, Analog!Settled, Analog!Follows, Idle
      <4> QED
        BY <1>0, <1>1, <4>1 DEF Analog!SetUp, Awaited, Idle
    <3> QED
      BY <1>1, <3>1, <3>2 DEF Analog!SetUp
  <2>7. Awaited'
    BY <1>0, <2>1, <2>5, <2>6 DEF Awaited
  <2> QED
    BY <1>k, <2>2, <2>3, <2>4, <2>7 DEF AnalogInv
<1>2. CASE Analog!Triggered
  <2>1. conv' = i /\ conv' \in 0..N /\ pin' = FALSE /\ reg' \in Analog!Samples
    <3>1. conv = 0
      BY <1>0, <1>2 DEF Analog!Triggered, Awaited, Idle
    <3> QED
      BY <1>2, <3>1, TriggerStarts DEF Analog!Triggered
  <2>2. UNCHANGED <<i, values, msgs>> /\ pc' = "alert" /\ alert' = "none"
    BY <1>2 DEF Analog!Triggered
  <2>3. Analog!TypeOK'
    BY <1>0, <2>1, <2>2 DEF Analog!TypeOK
  <2>4. Awaited' /\ Gathered'
    BY <1>0, <1>k, <2>1, <2>2, GatheredStays DEF Awaited, Idle
  <2>5. Posted'
    BY <1>0, <2>2, <1>k, PostedStays
  <2> QED
    BY <1>k, <2>3, <2>4, <2>5 DEF AnalogInv
<1>3. CASE Analog!Fetched
  <2>1. RightLater(reg, i) /\ reg \in Analog!Samples
    BY <1>0, <1>3 DEF Analog!Fetched, Awaited, RightLater, Analog!TypeOK
  <2>2. UNCHANGED <<alert, conv, reg, pin>> /\ pc = "fetch" /\ Analog!Store(reg)
    BY <1>3 DEF Analog!Fetched, Analog!device
  <2> QED
    BY <1>k, <2>1, <2>2, SampleStored
<1>11. CASE Analog!SelectLost
  <2>1. UNCHANGED <<alert, conv, reg, pin>> /\ faults' = faults + 1
    BY <1>11 DEF Analog!SelectLost, Analog!Fault, Analog!device
  <2>2. CASE pc = "fetch" /\ Analog!Store(Analog!Misread)
    <3>1. RightLater(Analog!Misread, i)
      BY <1>0, <2>1 DEF RightLater
    <3>2. Analog!Misread \in Analog!Samples
      BY DEF Analog!Misread, Analog!Samples
    <3> QED
      BY <1>k, <2>1, <2>2, <3>1, <3>2, SampleStored
  <2>3. CASE pc = "busy" /\ Analog!Restart /\ UNCHANGED msgs
    <3>1. /\ pc' = "pause" /\ i' \in Analog!Chans
          /\ values' \in [Analog!Chans -> Analog!Samples] /\ Gathered'
      BY <2>3, RestartResets
    <3>2. Posted'
      BY <1>0, <1>k, <2>3, PostedStays
    <3>3. Analog!TypeOK' /\ Awaited'
      BY <1>0, <2>1, <2>3, <3>1 DEF Analog!TypeOK, Awaited, Idle
    <3> QED
      BY <1>k, <3>1, <3>2, <3>3 DEF AnalogInv
  <2>4. CASE /\ pc \in {"busy", "flush"} /\ pc' = Analog!Follows(pc)
             /\ UNCHANGED <<i, values, timer, msgs>>
    <3>1. pc' \in {"flush", "low"}
      BY <2>4 DEF Analog!Follows
    <3>2. Posted' /\ Gathered'
      BY <1>0, <1>k, <2>4, PostedStays, GatheredStays
    <3>3. Analog!TypeOK' /\ Awaited'
      BY <1>0, <2>1, <2>4, <3>1 DEF Analog!TypeOK, Awaited, Idle
    <3> QED
      BY <1>k, <3>2, <3>3 DEF AnalogInv
  <2> QED
    BY <1>11, <2>2, <2>3, <2>4 DEF Analog!SelectLost
<1>4. CASE Analog!TransferFails
  <2>1. /\ pc' = "pause" /\ i' \in Analog!Chans /\ values' \in [Analog!Chans -> Analog!Samples]
        /\ Gathered'
    BY <1>4, RestartResets DEF Analog!TransferFails
  <2>2. conv' \in 0..N /\ reg' \in Analog!Samples /\ pin' \in BOOLEAN /\ (pin' => conv' = 0)
    <3>1. CASE UNCHANGED Analog!device
      BY <1>0, <3>1 DEF Analog!device, Analog!TypeOK, Awaited, Idle
    <3>2. CASE pc = "trigger" /\ Analog!Start(i)
      <4>1. conv = 0
        BY <1>0, <3>2 DEF Awaited, Idle
      <4> QED
        BY <3>2, <4>1, TriggerStarts
    <3> QED
      BY <1>4, <3>1, <3>2 DEF Analog!TransferFails
  <2>3. Posted'
    BY <1>0, <1>4, <1>k, PostedStays DEF Analog!TransferFails
  <2>4. Analog!TypeOK' /\ Awaited'
    BY <1>0, <1>4, <2>1, <2>2 DEF Analog!TransferFails, Analog!TypeOK, Awaited, Idle
  <2> QED
    BY <1>k, <2>1, <2>3, <2>4 DEF AnalogInv
<1>5. CASE Analog!ReadyIrq
  <2>1. UNCHANGED <<i, values, msgs, conv, reg, pin>> /\ pin
    BY <1>5 DEF Analog!ReadyIrq, Analog!Fire, Analog!device, Analog!monitor
  <2>2. (pc' = pc \/ (pc = "alert" /\ pc' = "fetch")) /\ alert' \in {alert, "ready"}
    <3>1. CASE pc = "alert"
      BY <1>5, <3>1 DEF Analog!ReadyIrq, Analog!Fire
    <3>2. CASE pc # "alert"
      <4>1. alert' = "ready" /\ UNCHANGED Analog!monitor
        BY <1>5, <3>2 DEF Analog!ReadyIrq, Analog!Fire
      <4>2. pc' = pc
        BY <4>1 DEF Analog!monitor
      <4> QED
        BY <4>1, <4>2
    <3> QED
      BY <3>1, <3>2
  <2>3. Posted'
    BY <1>0, <2>1, <1>k, PostedStays
  <2>4. Analog!TypeOK' /\ Gathered'
    BY <1>0, <1>k, <2>1, <2>2, GatheredStays DEF Analog!TypeOK
  <2>5. Awaited'
    BY <1>0, <2>1, <2>2 DEF Awaited, Idle
  <2> QED
    BY <1>k, <2>3, <2>4, <2>5 DEF AnalogInv
<1>6. CASE Analog!Timeout
  <2>1. UNCHANGED <<msgs, conv, reg, pin>> /\ alert' \in {alert, "timeout"}
    BY <1>6 DEF Analog!Timeout, Analog!Fire, Analog!device
  <2>2. Posted'
    BY <1>0, <2>1, <1>k, PostedStays
  <2>3. CASE Analog!Restart
    <3>1. /\ pc' = "pause" /\ i' \in Analog!Chans /\ values' \in [Analog!Chans -> Analog!Samples]
          /\ Gathered'
      BY <2>3, RestartResets
    <3>2. Analog!TypeOK' /\ Awaited'
      BY <1>0, <2>1, <3>1 DEF Analog!TypeOK, Awaited, Idle
    <3> QED
      BY <1>k, <2>2, <3>1, <3>2 DEF AnalogInv
  <2>4. CASE UNCHANGED <<pc, i, values>>
    <3>1. Analog!TypeOK' /\ Awaited' /\ Gathered'
      BY <1>0, <2>1, <2>4, <1>k, GatheredStays DEF Analog!TypeOK, Awaited, Idle
    <3> QED
      BY <1>k, <2>2, <3>1 DEF AnalogInv
  <2> QED
    BY <1>6, <2>3, <2>4 DEF Analog!Timeout, Analog!Fire, Analog!monitor
<1>7. CASE Analog!Converted
  <2>1. UNCHANGED <<pc, i, values, alert, msgs>> /\ conv # 0
    BY <1>7 DEF Analog!Converted, Analog!monitor
  <2>2. conv' = 0 /\ pin' = TRUE /\ reg' = [ch |-> conv, new |-> TRUE]
    BY <1>7 DEF Analog!Converted
  <2>3. reg' \in Analog!Samples
    BY <1>0, <2>2, SamplesHave DEF Analog!TypeOK
  <2>4. Posted'
    BY <1>0, <2>1, <1>k, PostedStays
  <2>5. Analog!TypeOK' /\ Gathered'
    BY <1>0, <1>k, <2>1, <2>2, <2>3, GatheredStays DEF Analog!TypeOK
  <2>6. Awaited'
    BY <1>0, <2>1, <2>2 DEF Awaited, Idle
  <2> QED
    BY <1>k, <2>4, <2>5, <2>6 DEF AnalogInv
<1>8. CASE Analog!ConversionLost
  <2>1. UNCHANGED <<pc, i, values, alert, reg, pin, msgs>> /\ conv' = 0
    BY <1>8 DEF Analog!ConversionLost, Analog!monitor
  <2>2. Posted'
    BY <1>0, <2>1, <1>k, PostedStays
  <2>3. Analog!TypeOK' /\ Awaited' /\ Gathered'
    BY <1>0, <2>1, <1>k, GatheredStays DEF Analog!TypeOK, Awaited, Idle
  <2> QED
    BY <1>k, <2>2, <2>3 DEF AnalogInv
<1>9. CASE Analog!MainTakes
  <2>1. UNCHANGED <<pc, i, values, alert, conv, reg, pin>>
    BY <1>9 DEF Analog!MainTakes, Analog!device, Analog!monitor
  <2>2. /\ msgs \in Seq([Analog!Chans -> Analog!Samples]) /\ msgs # << >> /\ msgs' = Tail(msgs)
    BY <1>0, <1>9 DEF Analog!MainTakes, Posted
  <2>3. /\ msgs' \in Seq([Analog!Chans -> Analog!Samples]) /\ Len(msgs') = Len(msgs) - 1
        /\ Len(msgs) \in Nat
        /\ \A n \in 1..Len(msgs') : msgs'[n] = msgs[n + 1]
    BY <2>2
  <2>4. \A n \in 1..Len(msgs') : n + 1 \in 1..Len(msgs)
    BY <2>3
  <2>5. ASSUME NEW n \in 1..Len(msgs'), NEW c \in Analog!Chans
        PROVE  RightLater(msgs'[n][c], c)
    <3>1. n + 1 \in 1..Len(msgs) /\ msgs'[n] = msgs[n + 1]
      BY <2>3, <2>4
    <3>2. RightSample(msgs[n + 1][c], c)
      BY <1>0, <3>1 DEF Posted
    <3> QED
      BY <1>k, <3>1, <3>2 DEF RightSample, RightLater, FaultsKept
  <2>6. Analog!TypeOK' /\ Awaited' /\ Gathered'
    BY <1>0, <2>1, <2>3, <1>k, GatheredStays DEF Analog!TypeOK, Awaited, Idle
  <2>7. Posted'
    BY <2>3, <2>5 DEF Posted, RightSample, RightLater
  <2> QED
    BY <1>k, <2>6, <2>7 DEF AnalogInv
<1>10. CASE UNCHANGED Analog!vars
  <2>1. Posted'
    BY <1>0, <1>10, <1>k, PostedStays DEF Analog!vars
  <2>2. Analog!TypeOK' /\ Awaited' /\ Gathered'
    BY <1>0, <1>k, <1>10, GatheredStays
       DEF Analog!vars, Analog!TypeOK, Awaited, Idle, Analog!device, Analog!monitor
  <2> QED
    BY <1>k, <2>1, <2>2 DEF AnalogInv
<1> QED
  BY <1>1, <1>2, <1>3, <1>4, <1>5, <1>6, <1>7, <1>8, <1>9, <1>10, <1>11 DEF Analog!Next, Analog!Monitor

LEMMA AnalogWhole == AnalogInv => Analog!RoundsAreWhole
BY DEF AnalogInv, Posted, RightSample, Analog!RoundsAreWhole

-----------------------------------------------------------------------------
(* The output. *)

Ops == {"disable", "wrap", "convert", "slice3", "slice4", "post", "enable"}
LEMMA UpdateValsIs == Driven!UpdateVals = <<"convert", "slice3", "slice4", "post">>
<1> DEFINE a == <<"convert">>
           b == <<"slice3", "slice4">>
           c == <<"convert", "slice3", "slice4">>
           d == <<"post">>
           e == <<"convert", "slice3", "slice4", "post">>
<1>1. a \in Seq(Ops) /\ b \in Seq(Ops) /\ c \in Seq(Ops) /\ d \in Seq(Ops) /\ e \in Seq(Ops)
  BY DEF Ops
<1>2. a \o b = c
  <2>1. Len(a) = 1 /\ Len(b) = 2 /\ Len(c) = 3 /\ Len(c) = Len(a) + Len(b)
    OBVIOUS
  <2>2. \A k \in 1..Len(a) : c[k] = a[k]
    BY <2>1
  <2>3. \A k \in 1..Len(b) : c[k + Len(a)] = b[k]
    BY <2>1
  <2> HIDE DEF a, b, c
  <2> QED BY <1>1, <2>1, <2>2, <2>3, Joined
<1>3. c \o d = e
  <2>1. Len(c) = 3 /\ Len(d) = 1 /\ Len(e) = 4 /\ Len(e) = Len(c) + Len(d)
    OBVIOUS
  <2>2. \A k \in 1..Len(c) : e[k] = c[k]
    BY <2>1
  <2>3. \A k \in 1..Len(d) : e[k + Len(c)] = d[k]
    BY <2>1
  <2> HIDE DEF c, d, e
  <2> QED BY <1>1, <2>1, <2>2, <2>3, Joined
<1>4. Driven!UpdateVals = (a \o b) \o d
  BY DEF Driven!UpdateVals, Driven!UpdatePwmVals
<1> QED BY <1>2, <1>3, <1>4
LEMMA UpdateEverythingIs ==
  Driven!UpdateEverything = <<"disable", "wrap", "convert", "slice3", "slice4", "post", "enable">>
<1> DEFINE a == <<"disable", "wrap">>
           b == <<"convert", "slice3", "slice4", "post">>
           c == <<"disable", "wrap", "convert", "slice3", "slice4", "post">>
           d == <<"enable">>
           e == <<"disable", "wrap", "convert", "slice3", "slice4", "post", "enable">>
<1>1. a \in Seq(Ops) /\ b \in Seq(Ops) /\ c \in Seq(Ops) /\ d \in Seq(Ops) /\ e \in Seq(Ops)
  BY DEF Ops
<1>2. a \o b = c
  <2>1. Len(a) = 2 /\ Len(b) = 4 /\ Len(c) = 6 /\ Len(c) = Len(a) + Len(b)
    OBVIOUS
  <2>2. \A k \in 1..Len(a) : c[k] = a[k]
    BY <2>1
  <2>3. \A k \in 1..Len(b) : c[k + Len(a)] = b[k]
    BY <2>1
  <2> HIDE DEF a, b, c
  <2> QED BY <1>1, <2>1, <2>2, <2>3, Joined
<1>3. c \o d = e
  <2>1. Len(c) = 6 /\ Len(d) = 1 /\ Len(e) = 7 /\ Len(e) = Len(c) + Len(d)
    OBVIOUS
  <2>2. \A k \in 1..Len(c) : e[k] = c[k]
    BY <2>1
  <2>3. \A k \in 1..Len(d) : e[k + Len(c)] = d[k]
    BY <2>1
  <2> HIDE DEF c, d, e
  <2> QED BY <1>1, <2>1, <2>2, <2>3, Joined
<1>4. Driven!UpdateEverything = (a \o b) \o d
  BY UpdateValsIs DEF Driven!UpdateEverything
<1> QED BY <1>2, <1>3, <1>4

(* What the callbacks have still to do: all, from the n-th write of        *)
(* update_everything, update_vals and update_pwm_vals on.                  *)
E7 == <<"disable", "wrap", "convert", "slice3", "slice4", "post", "enable">>
E6 == <<"wrap", "convert", "slice3", "slice4", "post", "enable">>
E5 == <<"convert", "slice3", "slice4", "post", "enable">>
E4 == <<"slice3", "slice4", "post", "enable">>
E3 == <<"slice4", "post", "enable">>
E2 == <<"post", "enable">>
E1 == <<"enable">>
V4 == <<"convert", "slice3", "slice4", "post">>
V3 == <<"slice3", "slice4", "post">>
V2 == <<"slice4", "post">>
V1 == <<"post">>
P2 == <<"slice3", "slice4">>
P1 == <<"slice4">>
Scripts == {E7, E6, E5, E4, E3, E2, E1, V4, V3, V2, V1, P2, P1, << >>}

Computes(l) == "flt" \in DOMAIN l
Fits(l, m) == Computes(l) => l.max = m

(* What is right at each point of a script. *)
OutputInv ==
  /\ script \in Scripts
  /\ raw = [c \in Driven!Channels |-> raw[c]] /\ level = [c \in Driven!Channels |-> level[c]]
  /\ on => script \notin {E6, E5, E4, E3, E2, E1}
  /\ script \notin {E7, E6, E5, E4, E3, E2, E1} => on
  /\ conversion = wrap
  /\ script \notin {E7, E6} => wrap = freq
  /\ \A c \in Driven!Channels :
       /\ script # E5 => Fits(raw[c], wrap)
       /\ script # V4 /\ Computes(raw[c]) => raw[c].flt = flt[c]
  /\ \A c \in {0, 1} :
       /\ script \notin {E5, E4} => Fits(level[c], wrap)
       /\ script \in {E3, E2, E1, V2, V1, P1, << >>} => level[c] = raw[c]
  /\ \A c \in {2, 3} :
       /\ script \notin {E5, E4, E3} => Fits(level[c], wrap)
       /\ script \in {E2, E1, V1, << >>} => level[c] = raw[c]

(* The scripts differ, and so do their first writes. *)
LEMMA NextWrite ==
  ASSUME NEW s \in Scripts, NEW what, s # << >>, Head(s) = what
  PROVE  /\ what = "disable" => s = E7 /\ Tail(s) = E6
         /\ what = "wrap" => s = E6 /\ Tail(s) = E5
         /\ what = "convert" => (s = E5 /\ Tail(s) = E4) \/ (s = V4 /\ Tail(s) = V3)
         /\ what = "slice3" => \/ s = E4 /\ Tail(s) = E3
                               \/ s = V3 /\ Tail(s) = V2
                               \/ s = P2 /\ Tail(s) = P1
         /\ what = "slice4" => \/ s = E3 /\ Tail(s) = E2
                               \/ s = V2 /\ Tail(s) = V1
                               \/ s = P1 /\ Tail(s) = << >>
         /\ what = "post" => (s = E2 /\ Tail(s) = E1) \/ (s = V1 /\ Tail(s) = << >>)
         /\ what = "enable" => s = E1 /\ Tail(s) = << >>
<1>1. /\ Head(E7) = "disable" /\ Tail(E7) = E6 /\ Head(E6) = "wrap" /\ Tail(E6) = E5
      /\ Head(E5) = "convert" /\ Tail(E5) = E4
  BY DEF E7, E6, E5, E4
<1>2. /\ Head(E4) = "slice3" /\ Tail(E4) = E3 /\ Head(E3) = "slice4" /\ Tail(E3) = E2
      /\ Head(E2) = "post" /\ Tail(E2) = E1 /\ Head(E1) = "enable" /\ Tail(E1) = << >>
  BY DEF E4, E3, E2, E1
<1>3. /\ Head(V4) = "convert" /\ Tail(V4) = V3 /\ Head(V3) = "slice3" /\ Tail(V3) = V2
      /\ Head(V2) = "slice4" /\ Tail(V2) = V1 /\ Head(V1) = "post" /\ Tail(V1) = << >>
  BY DEF V4, V3, V2, V1
<1>4. /\ Head(P2) = "slice3" /\ Tail(P2) = P1 /\ Head(P1) = "slice4" /\ Tail(P1) = << >>
  BY DEF P2, P1
<1>5. s \in {E7, E6, E5, E4, E3, E2, E1, V4, V3, V2, V1, P2, P1}
  BY DEF Scripts
<1> QED
  BY <1>1, <1>2, <1>3, <1>4, <1>5

LEMMA ScriptsDiffer ==
  /\ \A s \in {E7, E6, E5, E4, E3, E2, E1, V4, V3, V2, V1, P2, P1} : s # << >>
  /\ E7 \notin {E6, E5, E4, E3, E2, E1, V4, V3, V2, V1, P2, P1}
  /\ E6 \notin {E5, E4, E3, E2, E1, V4, V3, V2, V1, P2, P1}
  /\ E5 \notin {E4, E3, E2, E1, V4, V3, V2, V1, P2, P1}
  /\ E4 \notin {E3, E2, E1, V4, V3, V2, V1, P2, P1}
  /\ E3 \notin {E2, E1, V4, V3, V2, V1, P2, P1}
  /\ E2 \notin {E1, V4, V3, V2, V1, P2, P1}
  /\ E1 \notin {V4, V3, V2, V1, P2, P1}
  /\ V4 \notin {V3, V2, V1, P2, P1}
  /\ V3 \notin {V2, V1, P2, P1}
  /\ V2 \notin {V1, P2, P1}
  /\ V1 \notin {P2, P1}
  /\ P2 # P1
<1>1. Len(E7) = 7 /\ Len(E6) = 6 /\ Len(E5) = 5 /\ Len(E4) = 4 /\ Len(E3) = 3
  BY DEF E7, E6, E5, E4, E3
<1>2. Len(E2) = 2 /\ Len(E1) = 1 /\ Len(P2) = 2 /\ Len(P1) = 1 /\ Len(<< >>) = 0
  BY DEF E2, E1, P2, P1
<1>3. Len(V4) = 4 /\ Len(V3) = 3 /\ Len(V2) = 2 /\ Len(V1) = 1
  BY DEF V4, V3, V2, V1
<1>4. E4[1] = "slice3" /\ V4[1] = "convert" /\ E3[1] = "slice4" /\ V3[1] = "slice3"
  BY DEF E4, V4, E3, V3
<1>5. E2[1] = "post" /\ V2[1] = "slice4" /\ P2[1] = "slice3"
  BY DEF E2, V2, P2
<1>6. E1[1] = "enable" /\ V1[1] = "post" /\ P1[1] = "slice4"
  BY DEF E1, V1, P1
<1>7. E7 \notin {E6, E5, E4, E3, E2, E1, V4, V3, V2, V1, P2, P1}
  BY <1>1, <1>2, <1>3, <1>4, <1>5, <1>6
<1>8. E6 \notin {E5, E4, E3, E2, E1, V4, V3, V2, V1, P2, P1}
  BY <1>1, <1>2, <1>3, <1>4, <1>5, <1>6
<1>9. E5 \notin {E4, E3, E2, E1, V4, V3, V2, V1, P2, P1}
  BY <1>1, <1>2, <1>3, <1>4, <1>5, <1>6
<1>10. E4 \notin {E3, E2, E1, V4, V3, V2, V1, P2, P1}
  BY <1>1, <1>2, <1>3, <1>4, <1>5, <1>6
<1>11. E3 \notin {E2, E1, V4, V3, V2, V1, P2, P1}
  BY <1>1, <1>2, <1>3, <1>4, <1>5, <1>6
<1>12. E2 \notin {E1, V4, V3, V2, V1, P2, P1}
  BY <1>1, <1>2, <1>3, <1>4, <1>5, <1>6
<1>13. E1 \notin {V4, V3, V2, V1, P2, P1}
  BY <1>1, <1>2, <1>3, <1>4, <1>5, <1>6
<1>14. V4 \notin {V3, V2, V1, P2, P1}
  BY <1>1, <1>2, <1>3, <1>4, <1>5, <1>6
<1>15. V3 \notin {V2, V1, P2, P1}
  BY <1>1, <1>2, <1>3, <1>4, <1>5, <1>6
<1>16. V2 \notin {V1, P2, P1}
  BY <1>1, <1>2, <1>3, <1>4, <1>5, <1>6
<1>17. V1 \notin {P2, P1}
  BY <1>1, <1>2, <1>3, <1>4, <1>5, <1>6
<1>18. P1 # P2
  BY <1>1, <1>2, <1>3
<1>19. \A s \in {E7, E6, E5, E4, E3, E2, E1, V4, V3, V2, V1, P2, P1} : s # << >>
  BY <1>1, <1>2, <1>3
<1> QED
  BY <1>7, <1>8, <1>9, <1>10, <1>11, <1>12, <1>13, <1>14, <1>15, <1>16, <1>17, <1>18, <1>19

LEMMA OutputInit == Driven!Init => OutputInv
<1> SUFFICES ASSUME Driven!Init PROVE OutputInv
  OBVIOUS
<1>1. script = E7
  BY UpdateEverythingIs DEF Driven!Init, E7
<1>2. raw = [c \in Driven!Channels |-> Driven!RawLevel(0)] /\ level = [c \in Driven!Channels |-> Driven!RawLevel(0)]
  BY DEF Driven!Init
<1>3. \A c \in Driven!Channels : ~Computes(raw[c]) /\ ~Computes(level[c])
  BY <1>2 DEF Driven!RawLevel, Computes
<1>4. conversion = wrap
  BY DEF Driven!Init
<1> QED
  BY <1>1, <1>2, <1>3, <1>4, ScriptsDiffer DEF OutputInv, Scripts, Fits, Driven!Channels

(* A script begins when there is none, with what holds then.               *)
LEMMA HostStep ==
  ASSUME OutputInv,
         Driven!SetFrequency \/ Driven!SetRaw \/ Driven!SetSetpoint \/ Driven!SetPolynomial
  PROVE  OutputInv'
<1>1. script = << >> /\ UNCHANGED <<conversion, Driven!pwm, setpoints>>
  BY DEF Driven!SetFrequency, Driven!SetRaw, Driven!SetSetpoint, Driven!SetPolynomial, Driven!HostSets, Driven!UnchangedByHost
<1>2. wrap' = wrap /\ level' = level /\ on' = on /\ conversion' = conversion
  BY <1>1 DEF Driven!pwm
<1>3. on
  BY <1>1, ScriptsDiffer DEF OutputInv
<1>4. /\ wrap = freq
      /\ \A c \in Driven!Channels : /\ Fits(raw[c], wrap) /\ Fits(level[c], wrap)
                                    /\ Computes(raw[c]) => raw[c].flt = flt[c]
                                    /\ level[c] = raw[c]
  BY <1>1, ScriptsDiffer DEF OutputInv, Driven!Channels
<1>5. /\ raw = [c \in Driven!Channels |-> raw[c]] /\ level = [c \in Driven!Channels |-> level[c]]
      /\ conversion = wrap
  BY DEF OutputInv
<1> HIDE DEF OutputInv
<1>6. CASE Driven!SetFrequency
  <2>1. script' = E7 /\ raw' = raw /\ flt' = flt
    BY <1>6, UpdateEverythingIs DEF Driven!SetFrequency, E7
  <2> QED
    BY <1>2, <1>3, <1>4, <1>5, <2>1, ScriptsDiffer DEF OutputInv, Scripts, Driven!Channels
<1>7. CASE Driven!SetRaw
  <2>1. script' = P2 /\ flt' = flt /\ freq' = freq
    BY <1>7 DEF Driven!SetRaw, Driven!UpdatePwmVals, P2
  <2>2. PICK d \in Driven!Channels : \E n \in RawLevels : raw' = [raw EXCEPT ![d] = Driven!RawLevel(n)]
    BY <1>7 DEF Driven!SetRaw
  <2>3. PICK n : raw' = [raw EXCEPT ![d] = Driven!RawLevel(n)]
    BY <2>2
  <2>4. \A c \in Driven!Channels : ~Computes(raw'[c]) \/ raw'[c] = raw[c]
    BY <1>5, <2>3 DEF Computes, Driven!RawLevel
  <2>5. raw' = [c \in Driven!Channels |-> raw'[c]]
    BY <1>5, <2>3
  <2> QED
    BY <1>2, <1>3, <1>4, <1>5, <2>1, <2>4, <2>5, ScriptsDiffer
       DEF OutputInv, Scripts, Driven!Channels, Fits
<1>8. CASE Driven!SetSetpoint
  <2>1. script' = V4 /\ raw' = raw /\ freq' = freq
    BY <1>8, UpdateValsIs DEF Driven!SetSetpoint, V4
  <2> QED
    BY <1>2, <1>3, <1>4, <1>5, <2>1, ScriptsDiffer DEF OutputInv, Scripts, Driven!Channels
<1>9. CASE Driven!SetPolynomial
  <2>1. script' = script /\ raw' = raw /\ flt' = flt /\ freq' = freq
    BY <1>9 DEF Driven!SetPolynomial
  <2> QED
    BY <1>1, <1>2, <1>3, <1>4, <1>5, <2>1, ScriptsDiffer DEF OutputInv, Scripts, Driven!Channels
<1> QED
  BY <1>6, <1>7, <1>8, <1>9

LEMMA WriteStep ==
  ASSUME OutputInv,
         \/ Driven!Disable \/ Driven!Enable \/ Driven!Wrap \/ Driven!Convert \/ Driven!Post
         \/ Driven!SetLevels("slice3", {0, 1}) \/ Driven!SetLevels("slice4", {2, 3})
  PROVE  OutputInv'
<1>1. CASE Driven!Disable
  <2>1. /\ script = E7 /\ script' = E6 /\ on' = FALSE
        /\ UNCHANGED <<Driven!configs, conversion, wrap, level>>
    BY <1>1, NextWrite DEF Driven!Disable, Driven!Does, OutputInv
  <2>2. UNCHANGED <<freq, raw, flt>>
    BY <2>1 DEF Driven!configs
  <2> QED
    BY <2>1, <2>2, ScriptsDiffer DEF OutputInv, Scripts
<1>2. CASE Driven!Enable
  <2>1. /\ script = E1 /\ script' = << >> /\ on' = TRUE
        /\ UNCHANGED <<Driven!configs, conversion, wrap, level>>
    BY <1>2, NextWrite DEF Driven!Enable, Driven!Does, OutputInv
  <2>2. UNCHANGED <<freq, raw, flt>>
    BY <2>1 DEF Driven!configs
  <2> QED
    BY <2>1, <2>2, ScriptsDiffer DEF OutputInv, Scripts
<1>3. CASE Driven!Wrap
  <2>1. /\ script = E6 /\ script' = E5 /\ on' = on /\ level' = level
        /\ wrap' = freq /\ conversion' = freq /\ UNCHANGED Driven!configs
    BY <1>3, NextWrite DEF Driven!Wrap, Driven!Does, OutputInv
  <2>2. UNCHANGED <<freq, raw, flt>>
    BY <2>1 DEF Driven!configs
  <2> QED
    BY <2>1, <2>2, ScriptsDiffer DEF OutputInv, Scripts
<1>4. CASE Driven!Convert
  <2>1. /\ (script = E5 /\ script' = E4) \/ (script = V4 /\ script' = V3)
        /\ raw' = [c \in Driven!Channels |-> Driven!Computed(c)]
        /\ UNCHANGED <<freq, flt, poly, conversion, Driven!pwm>>
    BY <1>4, NextWrite DEF Driven!Convert, Driven!Does, OutputInv
  <2>2. wrap' = wrap /\ level' = level /\ on' = on
    BY <2>1 DEF Driven!pwm
  <2>3. \A c \in Driven!Channels : raw'[c].max = conversion /\ raw'[c].flt = flt[c]
    BY <2>1 DEF Driven!Computed
  <2>4. raw' = [c \in Driven!Channels |-> raw'[c]]
    BY <2>1
  <2> QED
    BY <2>1, <2>2, <2>3, <2>4, ScriptsDiffer DEF OutputInv, Scripts, Fits
<1>5. CASE Driven!Post
  <2>1. /\ (script = E2 /\ script' = E1) \/ (script = V1 /\ script' = << >>)
        /\ UNCHANGED <<Driven!configs, conversion, Driven!pwm>>
    BY <1>5, NextWrite DEF Driven!Post, Driven!Does, OutputInv
  <2>2. UNCHANGED <<freq, raw, flt, wrap, level, on>>
    BY <2>1 DEF Driven!configs, Driven!pwm
  <2> QED
    BY <2>1, <2>2, ScriptsDiffer DEF OutputInv, Scripts
<1>6. CASE Driven!SetLevels("slice3", {0, 1})
  <2>1. /\ \/ script = E4 /\ script' = E3
           \/ script = V3 /\ script' = V2
           \/ script = P2 /\ script' = P1
        /\ level' = [c \in Driven!Channels |-> IF c \in {0, 1} THEN raw[c] ELSE level[c]]
        /\ UNCHANGED <<Driven!configs, conversion, wrap, on>>
    BY <1>6, NextWrite DEF Driven!SetLevels, Driven!Does, OutputInv
  <2>2. UNCHANGED <<freq, raw, flt>>
    BY <2>1 DEF Driven!configs
  <2>3. level' = [c \in Driven!Channels |-> level'[c]]
    BY <2>1
  <2>4. /\ \A c \in {0, 1} : level'[c] = raw[c]
        /\ \A c \in {2, 3} : level'[c] = level[c]
    BY <2>1 DEF Driven!Channels
  <2>5. \A c \in {0, 1} : Fits(raw[c], wrap)
    BY <2>1, ScriptsDiffer DEF OutputInv, Driven!Channels
  <2> QED
    BY <2>1, <2>2, <2>3, <2>4, <2>5, ScriptsDiffer DEF OutputInv, Scripts
<1>7. CASE Driven!SetLevels("slice4", {2, 3})
  <2>1. /\ \/ script = E3 /\ script' = E2
           \/ script = V2 /\ script' = V1
           \/ script = P1 /\ script' = << >>
        /\ level' = [c \in Driven!Channels |-> IF c \in {2, 3} THEN raw[c] ELSE level[c]]
        /\ UNCHANGED <<Driven!configs, conversion, wrap, on>>
    BY <1>7, NextWrite DEF Driven!SetLevels, Driven!Does, OutputInv
  <2>2. UNCHANGED <<freq, raw, flt>>
    BY <2>1 DEF Driven!configs
  <2>3. level' = [c \in Driven!Channels |-> level'[c]]
    BY <2>1
  <2>4. /\ \A c \in {2, 3} : level'[c] = raw[c]
        /\ \A c \in {0, 1} : level'[c] = level[c]
    BY <2>1 DEF Driven!Channels
  <2>5. \A c \in {2, 3} : Fits(raw[c], wrap)
    BY <2>1, ScriptsDiffer DEF OutputInv, Driven!Channels
  <2> QED
    BY <2>1, <2>2, <2>3, <2>4, <2>5, ScriptsDiffer DEF OutputInv, Scripts
<1> QED
  BY <1>1, <1>2, <1>3, <1>4, <1>5, <1>6, <1>7

LEMMA OutputStep == OutputInv /\ [Driven!Next]_(Driven!vars) => OutputInv'
<1> SUFFICES ASSUME OutputInv, [Driven!Next]_(Driven!vars) PROVE OutputInv'
  OBVIOUS
<1>1. CASE Driven!Deliver
  BY <1>1 DEF Driven!Deliver, Driven!configs, Driven!pwm, OutputInv
<1>2. CASE UNCHANGED Driven!vars
  BY <1>2 DEF Driven!vars, Driven!configs, Driven!pwm, OutputInv
<1> QED
  BY <1>1, <1>2, HostStep, WriteStep DEF Driven!Next

LEMMA OutputDuty == OutputInv => Driven!DutyIsRight
<1> SUFFICES ASSUME OutputInv PROVE Driven!DutyIsRight
  OBVIOUS
<1>1. on => \A c \in Driven!Channels : Fits(level[c], wrap)
  BY ScriptsDiffer DEF OutputInv, Driven!Channels
<1>2. script = << >> =>
        /\ on /\ wrap = freq
        /\ \A c \in Driven!Channels : /\ level[c] = raw[c]
                                      /\ Computes(level[c]) => level[c].flt = flt[c]
  BY ScriptsDiffer DEF OutputInv, Driven!Channels
<1>3. script = << >> => level = raw
  <2>1. raw = [c \in Driven!Channels |-> raw[c]] /\ level = [c \in Driven!Channels |-> level[c]]
    BY DEF OutputInv
  <2>2. script = << >> => \A c \in Driven!Channels : level[c] = raw[c]
    BY <1>2, Zenon
  <2> QED
    BY <2>1, <2>2, Zenon
<1> QED
  BY <1>1, <1>2, <1>3 DEF Driven!DutyIsRight, Fits, Computes

-----------------------------------------------------------------------------
(* The display. *)

Names == {"wait", "command", "data", "release", "monitor", "busy", "pixels",
          "draw", "flush"}

(* The driver's steps come in an order: every write after a wait, pixels   *)
(* after the driver has become busy. *)
FollowsAt(s, k) ==
  LET op == s[k][1]
      after == s[k + 1][1]
      more == k + 1 \in 1..Len(s)
  IN /\ op = "draw" => more /\ after = "flush"
     /\ op = "flush" => more /\ after = "wait"
     /\ op = "wait" => more /\ after \in {"command", "busy"}
     /\ op = "wait" /\ after = "command" =>
          k + 2 \in 1..Len(s) /\ s[k + 2][1] = "data"
     /\ op = "busy" => /\ more /\ after = "command"
                       /\ k + 2 \in 1..Len(s) /\ s[k + 2][1] = "pixels"
     /\ op = "command" => more /\ after \in {"data", "pixels"}
     /\ op = "data" => more /\ after = "release"
     /\ op \in {"release", "pixels", "monitor"} /\ more =>
          after \in {"wait", "monitor", "draw"}

Calls == Names \X Nat
Ordered(s) == s \in Seq(Calls) /\ \A k \in 1..Len(s) : FollowsAt(s, k)

PanelState ==
  /\ at \in {"create", "draw"} => main = "coroutine"
  /\ act \in {0, 1}
  /\ dma = [state |-> dma.state, area |-> dma.area, buf |-> dma.buf]
  /\ dma.state \in {"idle", "run", "drain", "done"}
  /\ dma.state = "idle" => dma = Shown!NoDma
  /\ dma.state # "idle" => busy /\ selected /\ ~command /\ dma.buf = 1 - act
Expected ==
  /\ Shown!Doing({"command", "data", "release", "busy", "pixels"}) => dma.state = "idle"
  /\ Shown!Doing({"data", "release", "pixels"}) => selected
  /\ Shown!Doing({"pixels"}) \/ (Shown!Doing({"command"}) /\ calls[2][1] = "pixels") => busy
DisplayInv == PanelState /\ Ordered(calls) /\ Expected

LEMMA DisplayIntact == DisplayInv => Shown!PanelIntact
<1> SUFFICES ASSUME DisplayInv PROVE Shown!PanelIntact
  OBVIOUS
<1>1. dma # Shown!NoDma => dma.state # "idle"
  BY DEF DisplayInv, PanelState, Expected
<1>2. dma.state = "idle" => dma = Shown!NoDma
  BY DEF DisplayInv, PanelState, Expected
<1>3. Shown!Doing({"data", "release", "pixels"}) =>
        Shown!Doing({"command", "data", "release", "busy", "pixels"})
  BY DEF Shown!Doing
<1>4. dma # Shown!NoDma /\ Shown!Doing({"draw"}) => act # dma.buf
  BY <1>1 DEF DisplayInv, PanelState, Expected
<1>5. dma.state \in {"run", "drain"} => selected /\ ~command
  BY DEF DisplayInv, PanelState, Expected
<1>6. Shown!Doing({"data", "release", "pixels"}) => selected /\ dma = Shown!NoDma
  BY <1>2, <1>3 DEF DisplayInv, PanelState, Expected
<1> QED
  BY <1>4, <1>5, <1>6 DEF Shown!PanelIntact, DisplayInv, PanelState

(* What LVGL draws is in that order, however many areas there are.         *)
LEMMA DrawAreaIs ==
  Shown!DrawArea = <<"draw", "flush", "wait", "command", "data", "release",
               "wait", "command", "data", "release", "wait", "busy", "command", "pixels">>
<1> DEFINE a == <<"draw", "flush">>
           b == <<"wait", "command", "data", "release">>
           c == <<"wait", "busy", "command", "pixels">>
           ab == <<"draw", "flush", "wait", "command", "data", "release">>
           abb == <<"draw", "flush", "wait", "command", "data", "release",
                    "wait", "command", "data", "release">>
           abbc == <<"draw", "flush", "wait", "command", "data", "release",
               "wait", "command", "data", "release", "wait", "busy", "command", "pixels">>
<1>1. /\ a \in Seq(Names) /\ b \in Seq(Names) /\ c \in Seq(Names)
      /\ ab \in Seq(Names) /\ abb \in Seq(Names) /\ abbc \in Seq(Names)
  BY DEF Names
<1>2. Len(a) = 2 /\ Len(b) = 4 /\ Len(c) = 4 /\ Len(ab) = 6 /\ Len(abb) = 10 /\ Len(abbc) = 14
  OBVIOUS
<1>3. a \o b = ab
  <2>1. \A k \in 1..Len(a) : ab[k] = a[k]
    OBVIOUS
  <2>2. \A k \in 1..Len(b) : ab[k + Len(a)] = b[k]
    OBVIOUS
  <2>3. Len(ab) = Len(a) + Len(b)
    OBVIOUS
  <2> HIDE DEF a, b, ab
  <2> QED
    BY <1>1, <2>1, <2>2, <2>3, Joined, ZenonT(40)
<1>4. ab \o b = abb
  <2>1. \A k \in 1..Len(ab) : abb[k] = ab[k]
    OBVIOUS
  <2>2. \A k \in 1..Len(b) : abb[k + Len(ab)] = b[k]
    OBVIOUS
  <2>3. Len(abb) = Len(ab) + Len(b)
    OBVIOUS
  <2> HIDE DEF ab, b, abb
  <2> QED
    BY <1>1, <2>1, <2>2, <2>3, Joined, ZenonT(40)
<1>5. abb \o c = abbc
  <2>1. \A k \in 1..Len(abb) : abbc[k] = abb[k]
    OBVIOUS
  <2>2. \A k \in 1..Len(c) : abbc[k + Len(abb)] = c[k]
    OBVIOUS
  <2>3. Len(abbc) = Len(abb) + Len(c)
    OBVIOUS
  <2> HIDE DEF abb, c, abbc
  <2> QED
    BY <1>1, <2>1, <2>2, <2>3, Joined, ZenonT(40)
<1>6. Shown!DrawArea = ((a \o b) \o b) \o c
  BY DEF Shown!DrawArea, Shown!lcd_send_cmd, Shown!lcd_send_color
<1> QED
  BY <1>3, <1>4, <1>5, <1>6

LEMMA RefreshOrdered == Ordered(Shown!Refresh)
<1> DEFINE col(k) == 1 + ((k - 1) % 14)
           size == Areas * 14
<1> USE PartsAssumption
<1>1. Len(Shown!DrawArea) = 14
  BY DrawAreaIs
<1>2. Shown!Refresh = [k \in 1..size |-> <<Shown!DrawArea[col(k)], 1 + ((k - 1) \div 14)>>]
  BY <1>1 DEF Shown!Refresh
<1>3. \A k \in 1..size : col(k) \in 1..14 /\ 1 + ((k - 1) \div 14) \in Nat
  OBVIOUS
<1>4. \A n \in 1..14 : Shown!DrawArea[n] \in Names
  BY DrawAreaIs DEF Names
<1>5. size \in Nat
  OBVIOUS
<1>6. \A k \in 1..size : col(k) # 14 =>
        k + 1 \in 1..size /\ col(k + 1) = col(k) + 1
  OBVIOUS
<1>7. \A k \in 1..size : col(k) = 14 => col(k + 1) = 1
  OBVIOUS
<1> HIDE DEF col, size
<1>8. Shown!Refresh \in Seq(Calls) /\ Len(Shown!Refresh) = size
  <2>1. \A k \in 1..size : <<Shown!DrawArea[col(k)], 1 + ((k - 1) \div 14)>> \in Calls
    BY <1>3, <1>4 DEF Calls
  <2>2. Shown!Refresh \in [1..size -> Calls]
    BY <1>2, <2>1
  <2> QED
    BY <1>5, <2>2
<1>9. \A k \in 1..size : Shown!Refresh[k][1] = Shown!DrawArea[col(k)]
  BY <1>2
<1> SUFFICES ASSUME NEW k \in 1..size PROVE FollowsAt(Shown!Refresh, k)
  BY <1>8 DEF Ordered
<1>10. /\ Shown!DrawArea[1] = "draw" /\ Shown!DrawArea[2] = "flush" /\ Shown!DrawArea[3] = "wait"
       /\ Shown!DrawArea[4] = "command" /\ Shown!DrawArea[5] = "data" /\ Shown!DrawArea[6] = "release"
       /\ Shown!DrawArea[7] = "wait" /\ Shown!DrawArea[8] = "command" /\ Shown!DrawArea[9] = "data"
       /\ Shown!DrawArea[10] = "release" /\ Shown!DrawArea[11] = "wait" /\ Shown!DrawArea[12] = "busy"
       /\ Shown!DrawArea[13] = "command" /\ Shown!DrawArea[14] = "pixels"
  BY DrawAreaIs
<1>11. col(k) \in 1..14 /\ Shown!Refresh[k][1] = Shown!DrawArea[col(k)]
  BY <1>3, <1>9
<1>12. CASE col(k) = 14
  <2>1. k + 1 \in 1..size => Shown!Refresh[k + 1][1] = "draw"
    BY <1>7, <1>9, <1>10, <1>12
  <2>2. Shown!Refresh[k][1] = "pixels"
    BY <1>10, <1>11, <1>12
  <2> QED
    BY <1>8, <2>1, <2>2 DEF FollowsAt
<1>13. CASE col(k) \in {3, 7, 11, 12}
  <2>1. k + 1 \in 1..size /\ col(k + 1) = col(k) + 1
    BY <1>6, <1>13
  <2>2. k + 2 \in 1..size /\ col(k + 2) = col(k) + 2
    <3>1. (k + 1) + 1 = k + 2 /\ (col(k) + 1) + 1 = col(k) + 2 /\ col(k) + 1 # 14
      BY <1>11, <1>13
    <3> QED
      BY <1>6, <2>1, <3>1
  <2>3. Shown!Refresh[k + 1][1] = Shown!DrawArea[col(k) + 1] /\ Shown!Refresh[k + 2][1] = Shown!DrawArea[col(k) + 2]
    BY <1>9, <2>1, <2>2
  <2> DEFINE op == Shown!Refresh[k][1]  after == Shown!Refresh[k + 1][1]  third == Shown!Refresh[k + 2][1]
  <2>4. \/ op = "wait" /\ after = "command" /\ third = "data"
        \/ op = "wait" /\ after = "busy"
        \/ op = "busy" /\ after = "command" /\ third = "pixels"
    <3>1. CASE col(k) \in {3, 7}
      BY <1>10, <1>11, <2>3, <3>1
    <3>2. CASE col(k) \in {11, 12}
      BY <1>10, <1>11, <2>3, <3>2
    <3> QED
      BY <1>13, <3>1, <3>2
  <2> QED
    BY <1>8, <2>1, <2>2, <2>4 DEF FollowsAt
<1>14. CASE col(k) \in {1, 2, 4, 5, 6, 8, 9, 10, 13}
  <2>1. k + 1 \in 1..size /\ col(k + 1) = col(k) + 1
    BY <1>6, <1>14
  <2>2. Shown!Refresh[k + 1][1] = Shown!DrawArea[col(k) + 1]
    BY <1>9, <2>1
  <2> DEFINE op == Shown!Refresh[k][1]  after == Shown!Refresh[k + 1][1]
  <2>3. \/ op = "draw" /\ after = "flush"
        \/ op = "flush" /\ after = "wait"
        \/ op = "command" /\ after \in {"data", "pixels"}
        \/ op = "data" /\ after = "release"
        \/ op = "release" /\ after = "wait"
    <3>1. CASE col(k) \in {1, 2}
      BY <1>10, <1>11, <2>2, <3>1
    <3>2. CASE col(k) \in {4, 8, 13}
      BY <1>10, <1>11, <2>2, <3>2
    <3>3. CASE col(k) \in {5, 6, 9, 10}
      BY <1>10, <1>11, <2>2, <3>3
    <3> QED
      BY <1>14, <3>1, <3>2, <3>3
  <2> QED
    BY <1>8, <2>1, <2>3 DEF FollowsAt
<1> QED
  BY <1>11, <1>12, <1>13, <1>14

(* So is what is left when a step is done. *)
LEMMA TailOrdered ==
  ASSUME NEW s, Ordered(s), s # << >>
  PROVE  /\ Ordered(Tail(s))
         /\ Head(s) = s[1] /\ FollowsAt(s, 1) /\ s[1][1] \in Names
         /\ Tail(s) # << >> <=> 2 \in 1..Len(s)
         /\ 2 \in 1..Len(s) => Head(Tail(s)) = s[2]
         /\ 3 \in 1..Len(s) => Tail(s)[2] = s[3]
<1>1. s \in Seq(Calls) /\ Len(s) \in Nat /\ Len(s) >= 1
  BY DEF Ordered
<1>2. /\ Tail(s) \in Seq(Calls) /\ Len(Tail(s)) = Len(s) - 1
      /\ \A k \in 1..Len(s) - 1 : Tail(s)[k] = s[k + 1]
  BY <1>1
<1>3. ASSUME NEW k \in 1..Len(Tail(s)) PROVE FollowsAt(Tail(s), k)
  <2>1. k + 1 \in 1..Len(s) /\ Tail(s)[k] = s[k + 1]
    BY <1>1, <1>2
  <2>2. k + 1 \in 1..Len(Tail(s)) <=> (k + 1) + 1 \in 1..Len(s)
    BY <1>1, <1>2
  <2>3. k + 2 \in 1..Len(Tail(s)) <=> (k + 1) + 2 \in 1..Len(s)
    BY <1>1, <1>2
  <2>4. k + 1 \in 1..Len(Tail(s)) => Tail(s)[k + 1] = s[(k + 1) + 1]
    BY <1>1, <1>2
  <2>5. k + 2 \in 1..Len(Tail(s)) => Tail(s)[k + 2] = s[(k + 1) + 2]
    BY <1>1, <1>2
  <2>6. FollowsAt(s, k + 1)
    BY <2>1 DEF Ordered
  <2> QED
    BY <2>1, <2>2, <2>3, <2>4, <2>5, <2>6 DEF FollowsAt
<1>4. Head(s) = s[1] /\ 1 \in 1..Len(s) /\ s[1] \in Calls
  BY <1>1
<1>5. Tail(s) # << >> <=> 2 \in 1..Len(s)
  <2>1. Tail(s) # << >> <=> Len(Tail(s)) # 0
    BY <1>2, EmptySeq
  <2> QED
    BY <1>1, <1>2, <2>1
<1>6. 2 \in 1..Len(s) => Head(Tail(s)) = s[2]
  <2> SUFFICES ASSUME 2 \in 1..Len(s) PROVE Head(Tail(s)) = s[2]
    OBVIOUS
  <2>1. 1 \in 1..Len(s) - 1 /\ 1 + 1 = 2
    BY <1>1
  <2>2. Head(Tail(s)) = Tail(s)[1]
    BY <1>1, <1>2
  <2> QED
    BY <1>2, <2>1, <2>2
<1>7. 3 \in 1..Len(s) => Tail(s)[2] = s[3]
  <2> SUFFICES ASSUME 3 \in 1..Len(s) PROVE Tail(s)[2] = s[3]
    OBVIOUS
  <2>1. 2 \in 1..Len(s) - 1 /\ 2 + 1 = 3
    BY <1>1
  <2> QED
    BY <1>2, <2>1
<1>8. s[1][1] \in Names
  BY <1>4 DEF Calls
<1> QED
  BY <1>2, <1>3, <1>4, <1>5, <1>6, <1>7, <1>8 DEF Ordered

LEMMA DisplayInit == Shown!Init => DisplayInv
<1> SUFFICES ASSUME Shown!Init PROVE DisplayInv
  OBVIOUS
<1>1. at = "low" /\ act = 0 /\ calls = << >> /\ dma = Shown!NoDma
  BY DEF Shown!Init
<1>2. Ordered(calls)
  BY <1>1 DEF Ordered
<1> QED
  BY <1>1, <1>2 DEF DisplayInv, PanelState, Expected, Shown!NoDma, Shown!Doing

(* The first steps of the coroutine and those of a refresh begin where     *)
(* nothing is asked of the pins. *)
Starting == calls # << >> => Head(calls)[1] \in {"wait", "draw", "flush", "monitor"}

(* The calls of the setup *)
LEMMA SetupOrdered ==
  LET s == Shown!Steps(Shown!lcd_send_cmd \o Shown!lcd_send_cmd \o <<"monitor">>, 0)
  IN  Ordered(s) /\ s # << >> /\ Head(s)[1] = "wait"
<1> DEFINE a == <<"wait", "command", "data", "release">>
           m == <<"monitor">>
           am == <<"wait", "command", "data", "release", "monitor">>
           aam == <<"wait", "command", "data", "release",
                    "wait", "command", "data", "release", "monitor">>
           aa == <<"wait", "command", "data", "release",
                   "wait", "command", "data", "release">>
           s == [k \in 1..9 |-> <<aam[k], 0>>]
<1>1. /\ a \in Seq(Names) /\ m \in Seq(Names) /\ aa \in Seq(Names)
      /\ aam \in Seq(Names)
  BY DEF Names
<1>2. a \o a = aa
  <2>1. \A k \in 1..Len(a) : aa[k] = a[k]
    OBVIOUS
  <2>2. \A k \in 1..Len(a) : aa[k + Len(a)] = a[k]
    OBVIOUS
  <2>3. Len(aa) = Len(a) + Len(a)
    OBVIOUS
  <2> HIDE DEF a, aa
  <2> QED
    BY <1>1, <2>1, <2>2, <2>3, Joined, ZenonT(40)
<1>3. aa \o m = aam
  <2>1. \A k \in 1..Len(aa) : aam[k] = aa[k]
    OBVIOUS
  <2>2. \A k \in 1..Len(m) : aam[k + Len(aa)] = m[k]
    OBVIOUS
  <2>3. Len(aam) = Len(aa) + Len(m)
    OBVIOUS
  <2> HIDE DEF aa, m, aam
  <2> QED
    BY <1>1, <2>1, <2>2, <2>3, Joined, ZenonT(40)
<1>4. DOMAIN aam = 1..9
  OBVIOUS
<1>5. Shown!Steps(Shown!lcd_send_cmd \o Shown!lcd_send_cmd \o <<"monitor">>, 0) = s
  <2>1. Shown!lcd_send_cmd \o Shown!lcd_send_cmd \o <<"monitor">> = aam
    BY <1>2, <1>3 DEF Shown!lcd_send_cmd
  <2> HIDE DEF aam
  <2> QED
    BY <1>4, <2>1 DEF Shown!Steps
<1>6. \A k \in 1..9 : aam[k] \in Names
  BY DEF Names
<1>7. \A k \in 1..9 : s[k] = <<aam[k], 0>> /\ s[k][1] = aam[k]
  OBVIOUS
<1>8. /\ aam[1] = "wait" /\ aam[2] = "command" /\ aam[3] = "data" /\ aam[4] = "release"
      /\ aam[5] = "wait" /\ aam[6] = "command" /\ aam[7] = "data" /\ aam[8] = "release"
      /\ aam[9] = "monitor"
  OBVIOUS
<1> HIDE DEF aam
<1>9. s \in Seq(Calls) /\ Len(s) = 9
  <2>1. s \in [1..9 -> Calls]
    BY <1>6 DEF Calls
  <2> QED
    BY <2>1
<1> HIDE DEF s
<1>10. ASSUME NEW k \in 1..9 PROVE FollowsAt(s, k)
  <2>1. k \in {1, 2, 3, 4, 5, 6, 7, 8, 9}
    OBVIOUS
  <2>2. CASE k \in {1, 5}
    <3>1. k + 1 \in 1..9 /\ k + 2 \in 1..9
      BY <2>2
    <3>2. s[k][1] = "wait" /\ s[k + 1][1] = "command" /\ s[k + 2][1] = "data"
      BY <1>7, <1>8, <2>2
    <3> QED
      BY <1>9, <3>1, <3>2 DEF FollowsAt
  <2>3. CASE k \in {2, 3, 4, 6, 7, 8}
    <3>1. k + 1 \in 1..9
      BY <2>3
    <3>2. \/ s[k][1] = "command" /\ s[k + 1][1] = "data"
          \/ s[k][1] = "data" /\ s[k + 1][1] = "release"
          \/ s[k][1] = "release" /\ s[k + 1][1] \in {"wait", "monitor"}
      BY <1>7, <1>8, <2>3
    <3> QED
      BY <1>9, <3>1, <3>2 DEF FollowsAt
  <2>4. CASE k = 9
    BY <1>7, <1>8, <1>9, <2>4 DEF FollowsAt
  <2> QED
    BY <2>1, <2>2, <2>3, <2>4
<1>11. s # << >> /\ Head(s) = s[1]
  BY <1>9
<1>12. Ordered(s)
  BY <1>9, <1>10 DEF Ordered
<1>13. Head(s)[1] = "wait"
  BY <1>7, <1>8, <1>11
<1> QED
  BY <1>5, <1>11, <1>12, <1>13

LEMMA RefreshStarts == Shown!Refresh # << >> => Head(Shown!Refresh)[1] = "draw"
<1> USE PartsAssumption
<1>1. Shown!DrawArea[1] = "draw" /\ Len(Shown!DrawArea) = 14
  BY DrawAreaIs
<1>2. Shown!Refresh \in Seq(Calls)
  BY RefreshOrdered DEF Ordered
<1> SUFFICES ASSUME Shown!Refresh # << >> PROVE Head(Shown!Refresh)[1] = "draw"
  OBVIOUS
<1>3. Head(Shown!Refresh) = Shown!Refresh[1] /\ 1 \in DOMAIN Shown!Refresh
  BY <1>2
<1>4. (1 - 1) % 14 = 0
  OBVIOUS
<1>5. Shown!Refresh[1] = <<Shown!DrawArea[1 + ((1 - 1) % 14)], 1 + ((1 - 1) \div 14)>>
  BY <1>1, <1>3 DEF Shown!Refresh
<1> QED
  BY <1>1, <1>3, <1>4, <1>5

(* What a step of the driver finds, and what comes after it.               *)
LEMMA StepDone ==
  ASSUME DisplayInv, NEW op, Shown!Does(op)
  PROVE  /\ calls[1][1] = op /\ Head(calls)[1] = op /\ FollowsAt(calls, 1)
         /\ Ordered(calls')
         /\ \A ops : Shown!Doing(ops) <=> op \in ops
         /\ \A ops : Shown!Doing(ops)' <=> 2 \in 1..Len(calls) /\ calls[2][1] \in ops
         /\ 3 \in 1..Len(calls) => calls'[2] = calls[3]
<1>1. Ordered(calls) /\ calls # << >> /\ Head(calls)[1] = op /\ calls' = Tail(calls)
  BY DEF DisplayInv, Shown!Does
<1>2. \A ops : Shown!Doing(ops) <=> op \in ops
  BY <1>1 DEF Shown!Doing
<1>3. calls' # << >> <=> 2 \in 1..Len(calls)
  BY <1>1, TailOrdered
<1>4. 2 \in 1..Len(calls) => Head(calls') = calls[2]
  BY <1>1, TailOrdered
<1>5. \A ops : Shown!Doing(ops)' <=> 2 \in 1..Len(calls) /\ calls[2][1] \in ops
  BY <1>3, <1>4 DEF Shown!Doing
<1>6. /\ calls[1][1] = op /\ FollowsAt(calls, 1) /\ Ordered(calls')
      /\ 3 \in 1..Len(calls) => calls'[2] = calls[3]
  BY <1>1, TailOrdered
<1> QED
  BY <1>1, <1>2, <1>5, <1>6

(* A step of the driver that leaves the transfer and the buffers alone.    *)
LEMMA PinStep ==
  ASSUME DisplayInv, NEW op, Shown!Does(op), UNCHANGED <<at, main, act, dma>>,
         dma.state # "idle" => UNCHANGED <<busy, selected, command>>,
         Expected'
  PROVE  DisplayInv'
<1>1. Ordered(calls')
  BY StepDone
<1>2. PanelState'
  BY DEF DisplayInv, PanelState
<1> QED
  BY <1>1, <1>2 DEF DisplayInv

LEMMA DriverStep ==
  ASSUME DisplayInv, Shown!Driver
  PROVE  DisplayInv'
<1>0. PanelState /\ Expected
  BY DEF DisplayInv
<1>1. CASE Shown!Draw
  <2>1. Shown!Does("draw") /\ UNCHANGED <<at, main, act, dma, busy, selected, command>>
    BY <1>1 DEF Shown!Draw, Shown!coroutine, Shown!pins
  <2>2. 2 \in 1..Len(calls) /\ calls[2][1] = "flush"
    BY <2>1, StepDone DEF FollowsAt
  <2>3. Expected'
    BY <2>1, <2>2, StepDone DEF Expected
  <2> QED
    BY <2>1, <2>3, PinStep
<1>2. CASE Shown!Flush
  <2>1. Shown!Does("flush") /\ UNCHANGED <<at, main, act, dma, busy, selected, command>>
    BY <1>2 DEF Shown!Flush, Shown!coroutine, Shown!pins
  <2>2. 2 \in 1..Len(calls) /\ calls[2][1] = "wait"
    BY <2>1, StepDone DEF FollowsAt
  <2>3. Expected'
    BY <2>1, <2>2, StepDone DEF Expected
  <2> QED
    BY <2>1, <2>3, PinStep
<1>3. CASE Shown!Wait
  <2>1. Shown!Does("wait") /\ ~busy /\ UNCHANGED <<at, main, act, dma, busy, selected, command>>
    BY <1>3 DEF Shown!Wait, Shown!coroutine, Shown!pins, Shown!lvgl
  <2>2. dma.state = "idle"
    BY <1>0, <2>1 DEF PanelState
  <2>3. /\ 2 \in 1..Len(calls) /\ calls[2][1] \in {"command", "busy"}
        /\ calls[2][1] = "command" => 3 \in 1..Len(calls) /\ calls[3][1] = "data"
    BY <2>1, StepDone DEF FollowsAt
  <2>4. calls[2][1] = "command" => calls'[2][1] = "data"
    BY <2>1, <2>3, StepDone
  <2>5. ~Shown!Doing({"pixels"})' /\ ~Shown!Doing({"data", "release", "pixels"})'
    BY <2>1, <2>3, StepDone
  <2>6. Shown!Doing({"command"})' => calls'[2][1] = "data"
    BY <2>1, <2>3, <2>4, StepDone
  <2>7. Expected'
    BY <2>1, <2>2, <2>5, <2>6 DEF Expected
  <2> QED
    BY <2>1, <2>7, PinStep
<1>4. CASE Shown!Busy
  <2>1. Shown!Does("busy") /\ busy' = TRUE /\ UNCHANGED <<at, main, act, dma, selected, command>>
    BY <1>4 DEF Shown!Busy, Shown!coroutine, Shown!pins, Shown!lvgl
  <2>2. dma.state = "idle"
    BY <1>0, <2>1, StepDone DEF Expected
  <2>3. 2 \in 1..Len(calls) /\ calls[2][1] = "command"
    BY <2>1, StepDone DEF FollowsAt
  <2>4. ~Shown!Doing({"data", "release", "pixels"})'
    BY <2>1, <2>3, StepDone
  <2>5. Expected'
    BY <2>1, <2>2, <2>4 DEF Expected
  <2> QED
    BY <2>1, <2>2, <2>5, PinStep
<1>5. CASE Shown!SetPins("command", TRUE, TRUE)
  <2>1. Shown!Does("command") /\ selected' = TRUE /\ UNCHANGED <<at, main, act, dma, busy>>
    BY <1>5 DEF Shown!SetPins, Shown!coroutine, Shown!lvgl
  <2>2. dma.state = "idle" /\ (calls[2][1] = "pixels" => busy)
    BY <1>0, <2>1, StepDone DEF Expected
  <2>3. 2 \in 1..Len(calls) /\ calls[2][1] \in {"data", "pixels"}
    BY <2>1, StepDone DEF FollowsAt
  <2>4. ~Shown!Doing({"command"})' /\ (Shown!Doing({"pixels"})' => calls[2][1] = "pixels")
    BY <2>1, <2>3, StepDone
  <2>5. Expected'
    BY <2>1, <2>2, <2>4 DEF Expected
  <2> QED
    BY <2>1, <2>2, <2>5, PinStep
<1>6. CASE Shown!SetPins("data", selected, FALSE)
  <2>1. Shown!Does("data") /\ selected' = selected /\ UNCHANGED <<at, main, act, dma, busy>>
    BY <1>6 DEF Shown!SetPins, Shown!coroutine, Shown!lvgl
  <2>2. dma.state = "idle" /\ selected
    BY <1>0, <2>1, StepDone DEF Expected
  <2>3. 2 \in 1..Len(calls) /\ calls[2][1] = "release"
    BY <2>1, StepDone DEF FollowsAt
  <2>4. ~Shown!Doing({"command"})' /\ ~Shown!Doing({"pixels"})'
    BY <2>1, <2>3, StepDone
  <2>5. Expected'
    BY <2>1, <2>2, <2>4 DEF Expected
  <2> QED
    BY <2>1, <2>2, <2>5, PinStep
<1>7. CASE Shown!Release
  <2>1. Shown!Does("release") /\ UNCHANGED <<at, main, act, dma, busy>>
    BY <1>7 DEF Shown!Release, Shown!SetPins, Shown!coroutine, Shown!lvgl
  <2>2. dma.state = "idle"
    BY <1>0, <2>1, StepDone DEF Expected
  <2>3. 2 \in 1..Len(calls) => calls[2][1] \in {"wait", "monitor", "draw"}
    BY <2>1, StepDone DEF FollowsAt
  <2>5. Expected'
    <3>1. /\ ~Shown!Doing({"data", "release", "pixels"})'
          /\ ~Shown!Doing({"pixels"})' /\ ~Shown!Doing({"command"})'
      BY <2>1, <2>3, StepDone
    <3> QED
      BY <2>1, <2>2, <3>1 DEF Expected
  <2> QED
    BY <2>1, <2>2, <2>5, PinStep
<1>8. CASE Shown!Pixels
  <2>1. /\ Shown!Does("pixels") /\ dma.state = "idle" /\ command' = FALSE /\ act' = 1 - act
        /\ dma' = [state |-> "run", area |-> Head(calls)[2], buf |-> act]
        /\ UNCHANGED <<at, main, busy, selected>>
    BY <1>8 DEF Shown!Pixels, Shown!coroutine
  <2>2. busy /\ selected
    BY <1>0, <2>1, StepDone DEF Expected
  <2>3. 2 \in 1..Len(calls) => calls[2][1] \in {"wait", "monitor", "draw"}
    BY <2>1, StepDone DEF FollowsAt
  <2>4. Expected'
    <3>1. /\ ~Shown!Doing({"command", "data", "release", "busy", "pixels"})'
          /\ ~Shown!Doing({"data", "release", "pixels"})'
          /\ ~Shown!Doing({"pixels"})' /\ ~Shown!Doing({"command"})'
      BY <2>1, <2>3, StepDone
    <3> QED
      BY <3>1 DEF Expected
  <2>5. act' \in {0, 1} /\ act = 1 - act'
    BY <1>0, <2>1 DEF PanelState
  <2>6. PanelState'
    BY <1>0, <2>1, <2>2, <2>5 DEF PanelState
  <2>7. Ordered(calls')
    BY <2>1, StepDone
  <2> QED
    BY <2>4, <2>6, <2>7 DEF DisplayInv
<1> QED
  BY <1>1, <1>2, <1>3, <1>4, <1>5, <1>6, <1>7, <1>8 DEF Shown!Driver, Shown!Write

(* The calls stay as they are.                                             *)
LEMMA CallsStay ==
  ASSUME DisplayInv, UNCHANGED <<calls, act, dma, busy, selected, command>>,
         at' \in {"create", "draw"} => main' = "coroutine"
  PROVE  DisplayInv'
<1>1. PanelState'
  BY DEF DisplayInv, PanelState
<1>2. Expected'
  BY DEF DisplayInv, Expected, Shown!Doing
<1> QED
  BY <1>1, <1>2 DEF DisplayInv

(* New calls begin.                                                        *)
LEMMA CallsBegin ==
  ASSUME DisplayInv, Ordered(calls'), Starting',
         UNCHANGED <<act, dma, busy, selected, command>>,
         at' \in {"create", "draw"} => main' = "coroutine"
  PROVE  DisplayInv'
<1>1. PanelState'
  BY DEF DisplayInv, PanelState
<1>2. /\ ~Shown!Doing({"command", "data", "release", "busy", "pixels"})'
      /\ ~Shown!Doing({"data", "release", "pixels"})'
      /\ ~Shown!Doing({"pixels"})' /\ ~Shown!Doing({"command"})'
  BY DEF Starting, Shown!Doing
<1>3. Expected'
  BY <1>2 DEF Expected
<1> QED
  BY <1>1, <1>3 DEF DisplayInv

LEMMA DisplayStep == DisplayInv /\ [Shown!Next]_(Shown!vars) => DisplayInv'
<1> SUFFICES ASSUME DisplayInv, [Shown!Next]_(Shown!vars) PROVE DisplayInv'
  OBVIOUS
<1>0. at \in {"create", "draw"} => main = "coroutine"
  BY DEF DisplayInv, PanelState
<1>1. CASE Shown!Alarm
  <2>1. UNCHANGED <<calls, act, dma, busy, selected, command, main>>
    BY <1>1 DEF Shown!Alarm, Shown!lvgl, Shown!pins
  <2>2. at' \in {"create", "draw"} => at' = at
    BY <1>1 DEF Shown!Alarm
  <2> QED
    BY <1>0, <2>1, <2>2, CallsStay
<1>2. CASE Shown!Hear
  BY <1>0, <1>2, CallsStay DEF Shown!Hear, Shown!coroutine, Shown!lvgl, Shown!pins
<1>3. CASE Shown!Setup
  <2>1. /\ main' = "coroutine" /\ UNCHANGED <<act, dma, busy, selected, command>>
        /\ calls' = Shown!Steps(Shown!lcd_send_cmd \o Shown!lcd_send_cmd \o <<"monitor">>, 0)
    BY <1>3 DEF Shown!Setup, Shown!lvgl, Shown!pins
  <2>2. Ordered(calls') /\ Starting'
    BY <2>1, SetupOrdered DEF Starting
  <2> QED
    BY <2>1, <2>2, CallsBegin
<1>4. CASE Shown!Monitor
  <2>1. Shown!Does("monitor") /\ at' = "ticker" /\ UNCHANGED <<act, dma, busy, selected, command>>
    BY <1>4 DEF Shown!Monitor, Shown!pins
  <2>2. 2 \in 1..Len(calls) => calls[2][1] \in {"wait", "monitor", "draw"}
    BY <2>1, StepDone DEF FollowsAt
  <2>3. Starting'
    BY <2>1, <2>2, TailOrdered DEF Starting, Shown!Does, DisplayInv
  <2>4. Ordered(calls')
    BY <2>1, StepDone
  <2> QED
    BY <2>1, <2>3, <2>4, CallsBegin
<1>5. CASE Shown!Handle
  <2>1. UNCHANGED <<act, dma, busy, selected, command>>
    BY <1>5 DEF Shown!Handle, Shown!values, Shown!pins
  <2>2. CASE dirty
    <3>1. main' = "coroutine" /\ calls' = Shown!Refresh
      BY <1>5, <2>2 DEF Shown!Handle
    <3>2. Ordered(calls') /\ Starting'
      BY <3>1, RefreshOrdered, RefreshStarts DEF Starting
    <3> QED
      BY <2>1, <3>1, <3>2, CallsBegin
  <2>3. CASE ~dirty
    <3>1. at' = "ticker" /\ UNCHANGED calls
      BY <1>5, <2>3 DEF Shown!Handle
    <3> QED
      BY <2>1, <3>1, CallsStay
  <2> QED
    BY <2>2, <2>3
<1>6. CASE Shown!Handled
  BY <1>6, CallsStay DEF Shown!Handled, Shown!lvgl, Shown!pins
<1>7. CASE Shown!Update
  <2>1. at \notin {"create", "draw"} /\ at' = at
    BY <1>0, <1>7 DEF Shown!Update, Shown!coroutine
  <2> QED
    BY <1>7, <2>1, CallsStay DEF Shown!Update, Shown!pins
<1>8. CASE Shown!Driver
  BY <1>8, DriverStep
<1>9. CASE Shown!Transfer
  <2>1. /\ UNCHANGED <<at, main, calls, act, busy, selected, command>>
        /\ dma.state \in {"run", "drain"} /\ dma'.state \in {"drain", "done"}
        /\ dma'.buf = dma.buf
        /\ dma' = [state |-> dma'.state, area |-> dma'.area, buf |-> dma'.buf]
    <3>1. dma = [state |-> dma.state, area |-> dma.area, buf |-> dma.buf]
      BY DEF DisplayInv, PanelState
    <3>2. DOMAIN dma = {"state", "area", "buf"}
      BY <3>1
    <3> QED
      BY <1>9, <3>1, <3>2 DEF Shown!Transfer, Shown!coroutine, Shown!lvgl, Shown!pins
  <2>2. PanelState'
    BY <2>1 DEF DisplayInv, PanelState
  <2>3. ~Shown!Doing({"command", "data", "release", "busy", "pixels"})
    BY <2>1 DEF DisplayInv, Expected
  <2>4. /\ ~Shown!Doing({"command", "data", "release", "busy", "pixels"})'
        /\ ~Shown!Doing({"data", "release", "pixels"})'
        /\ ~Shown!Doing({"pixels"})' /\ ~Shown!Doing({"command"})'
    BY <2>1, <2>3 DEF Shown!Doing
  <2>5. Expected'
    BY <2>4 DEF Expected
  <2> QED
    BY <2>1, <2>2, <2>5 DEF DisplayInv
<1>10. CASE Shown!XferDone
  <2>1. /\ UNCHANGED <<at, main, calls, act>> /\ dma.state = "done" /\ dma' = Shown!NoDma
    BY <1>10 DEF Shown!XferDone, Shown!coroutine
  <2>2. PanelState'
    BY <2>1 DEF DisplayInv, PanelState, Shown!NoDma
  <2>3. ~Shown!Doing({"command", "data", "release", "busy", "pixels"})
    BY <2>1 DEF DisplayInv, Expected
  <2>4. /\ ~Shown!Doing({"command", "data", "release", "busy", "pixels"})'
        /\ ~Shown!Doing({"data", "release", "pixels"})'
        /\ ~Shown!Doing({"pixels"})' /\ ~Shown!Doing({"command"})'
    BY <2>1, <2>3 DEF Shown!Doing
  <2>5. Expected'
    BY <2>4 DEF Expected
  <2> QED
    BY <2>1, <2>2, <2>5 DEF DisplayInv
<1>11. CASE UNCHANGED Shown!vars
  BY <1>0, <1>11, CallsStay DEF Shown!vars, Shown!coroutine, Shown!lvgl, Shown!pins
<1> QED
  BY <1>1, <1>2, <1>3, <1>4, <1>5, <1>6, <1>7, <1>8, <1>9, <1>10, <1>11 DEF Shown!Next, Shown!Thread

-----------------------------------------------------------------------------
(* The accounts of time. *)

FlagsOK ==
  /\ current \in BOOLEAN /\ inISR \in BOOLEAN /\ inOther \in BOOLEAN
  /\ ~(inISR /\ inOther)
  /\ current <=> work = "busy"

TimesOK ==
  /\ now \in Nat /\ startTime \in Nat /\ isrStart \in Nat
  /\ work \in {"loop", "begun", "busy", "ended"}
  /\ timeSpentBusy \in Nat /\ timeSpentInISRs \in Nat
  /\ worked \in Nat /\ interrupted \in Nat /\ blurred \in Nat

(* No interval ends before it begins; that of an interrupt lies within the *)
(* one that it interrupts. *)
InOrder ==
  /\ startTime <= now /\ isrStart <= now
  /\ inISR /\ current => startTime <= isrStart

Numbers == TimesOK /\ InOrder /\ Clock!TimesAddUp
ClockInv == FlagsOK /\ Numbers

LEMMA TimesInit == Clock!Init => ClockInv
<1> SUFFICES ASSUME Clock!Init PROVE ClockInv
  OBVIOUS
<1>1. FlagsOK
  BY Zenon DEF Clock!Init, FlagsOK
<1>2. ~current /\ ~inISR
  BY Zenon DEF Clock!Init
<1>3. /\ now = 0 /\ work = "loop" /\ startTime = 0 /\ isrStart = 0
      /\ timeSpentBusy = 0 /\ timeSpentInISRs = 0
      /\ worked = 0 /\ interrupted = 0 /\ blurred = 0
  BY DEF Clock!Init
<1>4. Numbers
  BY <1>2, <1>3, SMT DEF Numbers, TimesOK, InOrder, Clock!TimesAddUp
<1> QED
  BY <1>1, <1>4 DEF ClockInv

LEMMA FlagsStep == FlagsOK /\ [Clock!Next]_(Clock!vars) => FlagsOK'
<1> SUFFICES ASSUME FlagsOK, [Clock!Next]_(Clock!vars) PROVE FlagsOK'
  OBVIOUS
<1> USE DEF FlagsOK, Clock!InMainLoop, Clock!TakenForWork
<1>1. CASE Clock!Tick \/ UNCHANGED Clock!vars
  BY <1>1 DEF Clock!Tick, Clock!vars
<1>2. CASE Clock!Begin \/ Clock!Account
  BY <1>2 DEF Clock!Begin, Clock!Account
<1>3. CASE Clock!BecomesCurrent
  BY <1>3 DEF Clock!BecomesCurrent
<1>4. CASE Clock!End
  <2>1. ~current' /\ current' \in BOOLEAN /\ (inISR' <=> inISR) /\ (inOther' <=> inOther)
    BY <1>4, Zenon DEF Clock!End
  <2>2. work' # "busy"
    BY <1>4 DEF Clock!End
  <2>3. inISR' \in BOOLEAN /\ inOther' \in BOOLEAN
    BY <1>4 DEF Clock!End
  <2> QED
    BY <2>1, <2>2, <2>3, Zenon
<1>5. CASE Clock!Enter
  <2>1. ~inISR /\ ~inOther /\ inISR' /\ inISR' \in BOOLEAN
        /\ (inOther' <=> inOther) /\ (current' <=> current)
    BY <1>5, Zenon DEF Clock!Enter
  <2>2. current' \in BOOLEAN /\ inOther' \in BOOLEAN /\ work' = work
    BY <1>5 DEF Clock!Enter
  <2> QED
    BY <2>1, <2>2, Zenon
<1>6. CASE Clock!Leave
  <2>1. ~inISR' /\ inISR' \in BOOLEAN /\ (inOther' <=> inOther) /\ (current' <=> current)
    BY <1>6, Zenon DEF Clock!Leave
  <2>2. current' \in BOOLEAN /\ inOther' \in BOOLEAN /\ work' = work
    BY <1>6 DEF Clock!Leave
  <2> QED
    BY <2>1, <2>2, Zenon
<1>7. CASE Clock!EnterOther \/ Clock!LeaveOther
  <2>1. ~inISR \/ ~inOther'
    BY <1>7, Zenon DEF Clock!EnterOther, Clock!LeaveOther
  <2>2. inISR' = inISR /\ current' = current
    BY <1>7, Zenon DEF Clock!EnterOther, Clock!LeaveOther
  <2>3. /\ current' \in BOOLEAN /\ inISR' \in BOOLEAN /\ inOther' \in BOOLEAN
        /\ work' = work
    BY <1>7 DEF Clock!EnterOther, Clock!LeaveOther
  <2> QED
    BY <2>1, <2>2, <2>3, Zenon
<1> QED
  BY <1>1, <1>2, <1>3, <1>4, <1>5, <1>6, <1>7 DEF Clock!Next

(* Without the flags' new values: who runs is a case of its own.           *)
LEMMA NumbersStep == ClockInv /\ [Clock!Next]_(Clock!vars) => Numbers'
<1> SUFFICES ASSUME ClockInv, [Clock!Next]_(Clock!vars) PROVE Numbers'
  OBVIOUS
<1> USE DEF ClockInv, FlagsOK, Numbers, TimesOK, InOrder, Clock!TimesAddUp, Clock!totals,
           Clock!history, Clock!InMainLoop, Clock!TakenForWork
<1>1. CASE Clock!Tick
  <2>1. CASE inISR
    BY <1>1, <2>1, SMT DEF Clock!Tick
  <2>2. CASE ~inISR /\ inOther
    BY <1>1, <2>2, SMT DEF Clock!Tick
  <2>3. CASE ~inISR /\ ~inOther
    BY <1>1, <2>3, SMT DEF Clock!Tick
  <2> QED BY <2>1, <2>2, <2>3
<1>2. CASE Clock!Begin
  BY <1>2, SMT DEF Clock!Begin
<1>3. CASE Clock!BecomesCurrent
  BY <1>3, SMT DEF Clock!BecomesCurrent
<1>4. CASE Clock!End
  <2>1. ~inISR /\ ~inISR' /\ ~current'
    BY <1>4, Zenon DEF Clock!End
  <2>2. /\ work = "busy" /\ work' = "ended"
        /\ UNCHANGED <<now, startTime, isrStart, timeSpentBusy, timeSpentInISRs,
                       worked, interrupted, blurred>>
    BY <1>4 DEF Clock!End
  <2> QED
    BY <2>1, <2>2, SMT
<1>5. CASE Clock!Account
  BY <1>5, SMT DEF Clock!Account
<1>6. CASE Clock!Enter
  BY <1>6, SMT DEF Clock!Enter
<1>7. CASE Clock!Leave
  <2>1. inISR /\ ~inISR' /\ (current' <=> current)
    BY <1>7, Zenon DEF Clock!Leave
  <2>2. /\ timeSpentInISRs' = timeSpentInISRs + (now - isrStart)
        /\ startTime' = IF current THEN startTime + (now - isrStart) ELSE startTime
        /\ UNCHANGED <<now, work, isrStart, timeSpentBusy, worked, interrupted, blurred>>
    BY <1>7 DEF Clock!Leave
  <2> QED
    BY <2>1, <2>2, SMT
<1>8. CASE UNCHANGED Clock!vars
  BY <1>8, SMT DEF Clock!vars
<1>9. CASE Clock!EnterOther
  BY <1>9, SMT DEF Clock!EnterOther
<1>10. CASE Clock!LeaveOther
  BY <1>10, SMT DEF Clock!LeaveOther
<1> QED
  BY <1>1, <1>2, <1>3, <1>4, <1>5, <1>6, <1>7, <1>8, <1>9, <1>10 DEF Clock!Next

-----------------------------------------------------------------------------
(* The heartbeat. *)

(* What is due, as sums of the delays before it.                           *)
Delay(j) == Delays[((j - 2) % Len(Delays)) + 1]
SumUpTo(k) ==
  {f \in [1..k -> Nat] : \A j \in 1..k : f[j] = IF j = 1 THEN 0 ELSE f[j - 1] + Delay(j)}

LEMMA DelayIsNat == ASSUME NEW j \in Nat, j >= 2 PROVE Delay(j) \in Nat
<1> DEFINE n == j - 2  l == Len(Delays)
<1>1. n \in Nat /\ l \in Nat /\ l > 0
  BY PartsAssumption
<1> HIDE DEF n, l
<1>2. n % l \in 0..l - 1
  BY <1>1
<1>3. (n % l) + 1 \in 1..l
  BY <1>1, <1>2
<1> QED
  BY <1>3, PartsAssumption DEF Delay, n, l

LEMMA SumExtends ==
  ASSUME NEW k \in Nat \ {0}, NEW f \in SumUpTo(k)
  PROVE  [j \in 1..k + 1 |-> IF j <= k THEN f[j] ELSE f[k] + Delay(k + 1)] \in SumUpTo(k + 1)
<1> DEFINE g == [j \in 1..k + 1 |-> IF j <= k THEN f[j] ELSE f[k] + Delay(k + 1)]
<1>1. Delay(k + 1) \in Nat
  BY DelayIsNat
<1>2. /\ f \in [1..k -> Nat]
      /\ \A j \in 1..k : f[j] = IF j = 1 THEN 0 ELSE f[j - 1] + Delay(j)
  BY DEF SumUpTo
<1>3. k \in 1..k /\ f[k] + Delay(k + 1) \in Nat
  BY <1>1, <1>2
<1>4. g \in [1..k + 1 -> Nat]
  BY <1>2, <1>3
<1>5. ASSUME NEW j \in 1..k + 1
      PROVE  g[j] = IF j = 1 THEN 0 ELSE g[j - 1] + Delay(j)
  <2>1. CASE j <= k
    <3>1. j \in 1..k /\ (j # 1 => j - 1 \in 1..k)
      BY <2>1
    <3> HIDE DEF Delay
    <3> QED
      BY <1>2, <2>1, <3>1
  <2>2. CASE ~(j <= k)
    <3>1. j = k + 1 /\ j # 1 /\ j - 1 = k
      BY <2>2
    <3> QED
      BY <1>3, <2>2, <3>1
  <2> QED
    BY <2>1, <2>2
<1> QED
  BY <1>4, <1>5 DEF SumUpTo

(* For every k: otherwise there would be a least one without.              *)
LEMMA SumExists == ASSUME NEW k \in Nat \ {0} PROVE SumUpTo(k) # {}
<1> DEFINE Without == {n \in Nat \ {0} : SumUpTo(n) = {}}
<1> SUFFICES ASSUME Without # {} PROVE FALSE
  OBVIOUS
<1>1. PICK m \in Without : \A n \in Without : ~(n < m)
  <2>1. Without \subseteq Nat
    OBVIOUS
  <2> HIDE DEF Without
  <2> QED
    BY <2>1, LeastOne
<1>2. m \in Nat \ {0} /\ SumUpTo(m) = {}
  OBVIOUS
<1>3. CASE m = 1
  <2>1. [j \in 1..1 |-> 0] \in SumUpTo(1)
    BY DEF SumUpTo
  <2> QED
    BY <1>2, <1>3, <2>1
<1>4. CASE m # 1
  <2>1. m - 1 \in Nat \ {0} /\ m - 1 < m /\ (m - 1) + 1 = m
    BY <1>2, <1>4
  <2>2. PICK f : f \in SumUpTo(m - 1)
    BY <1>1, <2>1
  <2>3. SumUpTo((m - 1) + 1) # {}
    BY <2>1, <2>2, SumExtends
  <2> QED
    BY <1>2, <2>1, <2>3
<1> QED
  BY <1>3, <1>4

(* Two of them agree as far as both go. *)
LEMMA SumsAgree ==
  ASSUME NEW k \in Nat \ {0}, NEW m \in Nat \ {0},
         NEW f \in SumUpTo(k), NEW g \in SumUpTo(m), NEW j \in 1..k, j <= m
  PROVE  f[j] = g[j]
<1> DEFINE Differ == {n \in 1..k : n <= m /\ f[n] # g[n]}
<1> SUFFICES ASSUME Differ # {} PROVE FALSE
  OBVIOUS
<1>1. PICK d \in Differ : \A n \in Differ : ~(n < d)
  <2>1. Differ \subseteq Nat
    OBVIOUS
  <2> HIDE DEF Differ
  <2> QED
    BY <2>1, LeastOne
<1>2. d \in 1..k /\ d \in 1..m /\ f[d] # g[d]
  OBVIOUS
<1>3. /\ f[d] = IF d = 1 THEN 0 ELSE f[d - 1] + Delay(d)
      /\ g[d] = IF d = 1 THEN 0 ELSE g[d - 1] + Delay(d)
  BY <1>2 DEF SumUpTo
<1>4. d # 1
  BY <1>2, <1>3
<1>5. d - 1 \in 1..k /\ d - 1 <= m /\ d - 1 < d
  BY <1>2, <1>4
<1>6. f[d - 1] = g[d - 1]
  BY <1>1, <1>5
<1> QED
  BY <1>2, <1>3, <1>4, <1>6

LEMMA DueIsSum ==
  ASSUME NEW k \in Nat \ {0}
  PROVE  \E f \in SumUpTo(k) : Beating!DueAt(k) = f[k]
<1> DEFINE Body(h) ==
             [j \in 1..k |-> IF j = 1 THEN 0
                             ELSE h[j - 1] + Delays[((j - 2) % Len(Delays)) + 1]]
           Sum == CHOOSE h : h = Body(h)
<1>1. Beating!DueAt(k) = Sum[k]
  BY DEF Beating!DueAt
<1>2. PICK f : f \in SumUpTo(k)
  BY SumExists
<1>3. f = Body(f)
  BY <1>2 DEF SumUpTo, Delay
<1>4. Sum = Body(Sum)
  <2> HIDE DEF Body
  <2> QED
    BY <1>3
<1> HIDE DEF Sum
<1>5. /\ DOMAIN Sum = 1..k
      /\ \A j \in 1..k : Sum[j] = IF j = 1 THEN 0 ELSE Sum[j - 1] + Delay(j)
  BY <1>4 DEF Delay
<1>6. f \in [1..k -> Nat] /\ \A j \in 1..k : f[j] = IF j = 1 THEN 0 ELSE f[j - 1] + Delay(j)
  BY <1>2 DEF SumUpTo
<1> DEFINE Differ == {n \in 1..k : f[n] # Sum[n]}
<1>7. CASE Differ = {}
  BY <1>1, <1>2, <1>7
<1>8. CASE Differ # {}
  <2>1. PICK d \in Differ : \A n \in Differ : ~(n < d)
    <3>1. Differ \subseteq Nat
      OBVIOUS
    <3> HIDE DEF Differ
    <3> QED
      BY <1>8, <3>1, LeastOne
  <2>2. d \in 1..k /\ f[d] # Sum[d]
    OBVIOUS
  <2>3. d # 1
    BY <1>5, <1>6, <2>2
  <2>4. d - 1 \in 1..k /\ d - 1 < d
    BY <2>2, <2>3
  <2>5. f[d - 1] = Sum[d - 1]
    BY <2>1, <2>4
  <2> QED
    BY <1>5, <1>6, <2>2, <2>3, <2>5
<1> QED
  BY <1>7, <1>8

LEMMA DueAtIs ==
  /\ Beating!DueAt(1) = 0
  /\ \A k \in Nat \ {0} : /\ Beating!DueAt(k) \in Nat
                          /\ Beating!DueAt(k + 1) = Beating!DueAt(k) + Delays[((k - 1) % Len(Delays)) + 1]
<1>1. Beating!DueAt(1) = 0
  <2>1. PICK f \in SumUpTo(1) : Beating!DueAt(1) = f[1]
    BY DueIsSum
  <2> QED
    BY <2>1 DEF SumUpTo
<1>2. ASSUME NEW k \in Nat \ {0}
      PROVE  /\ Beating!DueAt(k) \in Nat
             /\ Beating!DueAt(k + 1) = Beating!DueAt(k) + Delays[((k - 1) % Len(Delays)) + 1]
  <2>1. PICK f \in SumUpTo(k) : Beating!DueAt(k) = f[k]
    BY DueIsSum
  <2>2. k + 1 \in Nat \ {0} /\ k \in 1..k + 1 /\ k \in 1..k /\ (k + 1) - 1 = k
        /\ k + 1 \in 1..k + 1 /\ k + 1 # 1 /\ (k + 1) - 2 = k - 1
    OBVIOUS
  <2>3. PICK g \in SumUpTo(k + 1) : Beating!DueAt(k + 1) = g[k + 1]
    BY <2>2, DueIsSum
  <2>4. g[k] = f[k]
    BY <2>2, SumsAgree
  <2>5. g[k + 1] = g[k] + Delay(k + 1)
    BY <2>2, <2>3 DEF SumUpTo
  <2>6. f[k] \in Nat
    BY <2>2 DEF SumUpTo
  <2> QED
    BY <2>1, <2>2, <2>3, <2>4, <2>5, <2>6 DEF Delay
<1> QED
  BY <1>1, <1>2

(* How long the next colour has been due, counted from the last one if     *)
(* that was late; and the coroutine is resumed only when one is due.       *)
BeatTypes ==
  /\ coro \in {"switch", "beat", "await", "delay", "posted"}
  /\ elapsed \in BOOLEAN /\ running \in BOOLEAN
  /\ nextTimeout \in Nat /\ time \in Nat /\ late \in Nat
  /\ shown \in Seq([step : Nat, at : Nat, late : Nat])
Since == IF Len(shown) = 0 THEN 0 ELSE Beating!Later(nextTimeout, shown[Len(shown)].at)
Lateness ==
  /\ nextTimeout = Beating!DueAt(Len(shown) + 1)
  /\ Len(shown) > 0 => shown[Len(shown)].at <= time
  /\ ~Beating!Due => late = 0
  /\ Beating!Due => time = late + Since
Resumed ==
  /\ coro \in {"switch", "beat", "posted"} => Beating!Due /\ ~elapsed
  /\ elapsed => Beating!Due
  /\ coro = "await" /\ ~elapsed => running
  /\ coro = "delay" => running /\ ~elapsed
Kept ==
  \A k \in 1..Len(shown) :
    /\ shown[k].step = ((k - 1) % Len(Delays)) + 1
    /\ shown[k].at = shown[k].late +
         (IF k = 1 THEN 0 ELSE Beating!Later(Beating!DueAt(k), shown[k - 1].at))
BeatInv == BeatTypes /\ Lateness /\ Resumed /\ Kept

LEMMA BeatKeeps == BeatInv => Beating!BeatKeepsTime
BY DEF BeatInv, Kept, Resumed, Beating!BeatKeepsTime

LEMMA BeatInit == Beating!Init => BeatInv
<1> SUFFICES ASSUME Beating!Init PROVE BeatInv
  OBVIOUS
<1>1. /\ coro = "switch" /\ elapsed = FALSE /\ nextTimeout = 0 /\ running = FALSE
      /\ time = 0 /\ shown = << >> /\ late = 0
  BY DEF Beating!Init
<1>2. Len(shown) = 0
  BY <1>1
<1>3. nextTimeout = Beating!DueAt(Len(shown) + 1)
  <2>1. Len(shown) + 1 = 1
    BY <1>2
  <2> QED
    BY <1>1, <2>1, DueAtIs
<1>4. BeatTypes
  <2>1. shown \in Seq([step : Nat, at : Nat, late : Nat])
    BY <1>1
  <2>2. elapsed \in BOOLEAN /\ running \in BOOLEAN
    BY <1>1
  <2> QED
    BY <1>1, <2>1, <2>2, Zenon DEF BeatTypes
<1>5. Lateness
  BY <1>1, <1>2, <1>3 DEF Lateness, Since, Beating!Due
<1>6. Resumed /\ Kept
  BY <1>1, <1>2 DEF Resumed, Kept, Beating!Due
<1> QED
  BY <1>4, <1>5, <1>6 DEF BeatInv

LEMMA TickBeats ==
  ASSUME BeatInv, Beating!Tick PROVE BeatInv'
<1>1. BeatTypes /\ Lateness /\ Resumed /\ Kept
  BY DEF BeatInv
<1>2. /\ time' = time + 1 /\ late' = IF Beating!Due THEN late + 1 ELSE late
      /\ UNCHANGED <<coro, elapsed, nextTimeout, running, shown>>
  BY DEF Beating!Tick
<1>3. BeatTypes'
  BY <1>1, <1>2 DEF BeatTypes
<1>4. Kept'
  BY <1>1, <1>2 DEF Kept
<1>5. Beating!Due => Beating!Due'
  BY <1>1, <1>2 DEF BeatTypes, Beating!Due
<1>6. Resumed'
  BY <1>1, <1>2, <1>5 DEF Resumed
<1> DEFINE n == Len(shown)  last == shown[Len(shown)].at
<1>7. n \in Nat /\ (n > 0 => last \in Nat /\ last <= time)
  <2>1. shown \in Seq([step : Nat, at : Nat, late : Nat])
    BY <1>1 DEF BeatTypes
  <2>2. n \in Nat /\ (n > 0 => n \in 1..n)
    BY <2>1
  <2>3. \A k \in 1..n : shown[k] \in [step : Nat, at : Nat, late : Nat]
    BY <2>1, ElementOfSeq
  <2> QED
    BY <1>1, <2>2, <2>3 DEF Lateness
<1>8. UNCHANGED <<n, last, nextTimeout>> /\ Since' = Since
  BY <1>2 DEF Since
<1>9. nextTimeout' = Beating!DueAt(Len(shown) + 1)'
  BY <1>1, <1>2 DEF Lateness
<1>10. n' > 0 => last' <= time'
  BY <1>1, <1>2, <1>7, <1>8 DEF BeatTypes
<1>11. ~Beating!Due' => late' = 0
  BY <1>1, <1>2, <1>5 DEF Lateness
<1>12. Beating!Due' => time' = late' + Since'
  <2>1. CASE Beating!Due
    <3>1. time = late + Since /\ Since \in Nat
      BY <1>1, <1>7, <2>1 DEF Lateness, Since, Beating!Later, BeatTypes
    <3> QED
      BY <1>1, <1>2, <1>8, <2>1, <3>1 DEF BeatTypes
  <2>2. CASE ~Beating!Due
    <3>1. late = 0 /\ late' = 0
      BY <1>1, <1>2, <2>2 DEF Lateness
    <3>2. time < nextTimeout
      BY <1>1, <2>2 DEF Beating!Due, BeatTypes
    <3>3. n > 0
      <4>1. CASE n = 0
        <5>1. n + 1 = 1
          BY <4>1
        <5>2. nextTimeout = 0
          BY <1>1, <5>1, DueAtIs DEF Lateness
        <5> QED
          BY <1>1, <3>2, <5>2 DEF BeatTypes
      <4> QED
        BY <1>7, <4>1
    <3>4. Since = nextTimeout
      BY <1>1, <1>7, <3>2, <3>3 DEF Since, Beating!Later, BeatTypes
    <3>5. Beating!Due' => time' = nextTimeout
      BY <1>1, <1>2, <3>2 DEF Beating!Due, BeatTypes
    <3> QED
      BY <1>1, <1>8, <3>1, <3>4, <3>5 DEF BeatTypes
  <2> QED
    BY <2>1, <2>2
<1>13. Lateness'
  BY <1>9, <1>10, <1>11, <1>12 DEF Lateness
<1> QED
  BY <1>3, <1>4, <1>6, <1>13 DEF BeatInv

LEMMA BeatBeats ==
  ASSUME BeatInv, Beating!Beat PROVE BeatInv'
<1>1. BeatTypes /\ Lateness /\ Resumed /\ Kept
  BY DEF BeatInv
<1> DEFINE n == Len(shown)  new == [step |-> Beating!Step, at |-> time, late |-> late]
<1>2. /\ coro = "beat" /\ coro' = "await" /\ running' = TRUE /\ late' = 0
      /\ nextTimeout' = nextTimeout + Delays[Beating!Step]
      /\ UNCHANGED <<elapsed, time>> /\ shown' = Append(shown, new)
  BY DEF Beating!Beat, Beating!Show
<1>3. Beating!Due /\ ~elapsed
  BY <1>1, <1>2 DEF Resumed
<1>4. n \in Nat /\ Beating!Step = (n % Len(Delays)) + 1 /\ Len(Delays) \in Nat /\ Len(Delays) > 0
  BY <1>1, PartsAssumption DEF BeatTypes, Beating!Step
<1>5. Beating!Step \in 1..Len(Delays) /\ Delays[Beating!Step] \in Nat
  <2>1. n % Len(Delays) \in 0..Len(Delays) - 1
    BY <1>4
  <2>2. Beating!Step \in 1..Len(Delays)
    BY <1>4, <2>1
  <2> QED
    BY <2>2, PartsAssumption
<1>6. new \in [step : Nat, at : Nat, late : Nat]
  BY <1>1, <1>4, <1>5 DEF BeatTypes
<1>7. /\ shown' \in Seq([step : Nat, at : Nat, late : Nat]) /\ Len(shown') = n + 1
      /\ \A k \in 1..n : shown'[k] = shown[k]
      /\ shown'[n + 1] = new
  <2> HIDE DEF new
  <2> QED
    BY <1>1, <1>2, <1>6 DEF BeatTypes
<1>8. BeatTypes'
  BY <1>1, <1>2, <1>5, <1>7 DEF BeatTypes
<1>9. Resumed'
  BY <1>2, <1>3 DEF Resumed
<1>10. nextTimeout = Beating!DueAt(n + 1) /\ nextTimeout' = Beating!DueAt(n + 2)
  <2>1. nextTimeout = Beating!DueAt(n + 1)
    BY <1>1 DEF Lateness
  <2>2. n + 1 \in Nat \ {0} /\ (n + 1) - 1 = n /\ (n + 1) + 1 = n + 2
    BY <1>4
  <2>3. Beating!DueAt((n + 1) + 1) = Beating!DueAt(n + 1) + Delays[(((n + 1) - 1) % Len(Delays)) + 1]
    BY <2>2, DueAtIs
  <2> QED
    BY <1>2, <1>4, <2>1, <2>2, <2>3
<1>11. Lateness'
  <2>1. Len(shown') = n + 1 /\ shown'[Len(shown')].at = time /\ n + 1 > 0
        /\ Len(shown') + 1 = n + 2
    BY <1>4, <1>7
  <2>2. nextTimeout' = Beating!DueAt(Len(shown) + 1)'
    BY <1>10, <2>1
  <2>3. shown'[Len(shown')].at <= time'
    BY <1>1, <1>2, <2>1 DEF BeatTypes
  <2>4. Since' = Beating!Later(nextTimeout', time)
    BY <1>4, <2>1 DEF Since
  <2>5. Beating!Due' => time' = late' + Since'
    <3> SUFFICES ASSUME Beating!Due' PROVE time' = late' + Since'
      OBVIOUS
    <3>1. time >= nextTimeout' /\ nextTimeout' \in Nat /\ time \in Nat
      BY <1>1, <1>2, <1>8 DEF Beating!Due, BeatTypes
    <3>2. Beating!Later(nextTimeout', time) = time
      BY <3>1 DEF Beating!Later
    <3> QED
      BY <1>2, <2>4, <3>1, <3>2
  <2> QED
    BY <1>2, <2>2, <2>3, <2>5 DEF Lateness
<1>12. /\ new.step = (((n + 1) - 1) % Len(Delays)) + 1
       /\ new.at = new.late +
            (IF n + 1 = 1 THEN 0 ELSE Beating!Later(Beating!DueAt(n + 1), shown[n].at))
  <2>1. (n + 1) - 1 = n /\ (n + 1 = 1 <=> n = 0)
    BY <1>4
  <2>2. time = late + Since
    BY <1>1, <1>3 DEF Lateness
  <2>3. Since = IF n + 1 = 1 THEN 0 ELSE Beating!Later(Beating!DueAt(n + 1), shown[n].at)
    BY <1>10, <2>1 DEF Since
  <2> QED
    BY <1>4, <2>1, <2>2, <2>3
<1>13. Kept'
  <2> SUFFICES ASSUME NEW k \in 1..n + 1
               PROVE /\ shown'[k].step = ((k - 1) % Len(Delays)) + 1
                     /\ shown'[k].at = shown'[k].late +
                          (IF k = 1 THEN 0 ELSE Beating!Later(Beating!DueAt(k), shown'[k - 1].at))
    BY <1>7 DEF Kept
  <2>1. CASE k = n + 1
    <3>1. k # 1 => k - 1 = n /\ n \in 1..n
      BY <1>4, <2>1
    <3>2. k # 1 => shown'[k - 1] = shown[n]
      BY <1>7, <3>1
    <3> HIDE DEF new
    <3> QED
      BY <1>7, <1>12, <2>1, <3>1, <3>2
  <2>2. CASE k # n + 1
    <3>1. k \in 1..n /\ (k # 1 => k - 1 \in 1..n)
      BY <1>4, <2>2
    <3>2. shown'[k] = shown[k] /\ (k # 1 => shown'[k - 1] = shown[k - 1])
      BY <1>7, <3>1
    <3> QED
      BY <1>1, <3>1, <3>2 DEF Kept
  <2> QED
    BY <2>1, <2>2
<1> QED
  BY <1>8, <1>9, <1>11, <1>13 DEF BeatInv

LEMMA BeatStep == BeatInv /\ [Beating!Next]_(Beating!vars) => BeatInv'
<1> SUFFICES ASSUME BeatInv, [Beating!Next]_(Beating!vars) PROVE BeatInv'
  OBVIOUS
<1>1. BeatTypes /\ Lateness /\ Resumed /\ Kept
  BY DEF BeatInv
<1>2. CASE Beating!Tick
  BY <1>2, TickBeats
<1>3. CASE Beating!Beat
  BY <1>3, BeatBeats
<1>4. CASE Beating!GoesOn \/ Beating!Trampoline \/ Beating!Alarm \/ Beating!Await \/ UNCHANGED Beating!vars
  <2>1. UNCHANGED <<nextTimeout, time, shown, late>>
    BY <1>4 DEF Beating!GoesOn, Beating!Trampoline, Beating!Alarm, Beating!Await, Beating!vars
  <2>2. Kept'
    BY <1>1, <2>1 DEF Kept
  <2>3. Lateness'
    BY <1>1, <2>1 DEF Lateness, Since, Beating!Due
  <2>4. BeatTypes' /\ Resumed'
    <3>1. CASE Beating!GoesOn \/ Beating!Trampoline
      BY <1>1, <2>1, <3>1 DEF Beating!GoesOn, Beating!Trampoline, BeatTypes, Resumed, Beating!Due
    <3>2. CASE Beating!Alarm
      <4>1. /\ Beating!Due /\ running' = FALSE
            /\ \/ coro = "delay" /\ coro' = "posted" /\ elapsed' = elapsed
               \/ coro = "await" /\ coro' = "await" /\ elapsed' = TRUE
        BY <3>2 DEF Beating!Alarm
      <4>2. Beating!Due'
        BY <2>1, <4>1 DEF Beating!Due
      <4>3. coro = "delay" => ~elapsed
        BY <1>1 DEF Resumed
      <4>4. CASE coro = "delay" /\ coro' = "posted" /\ elapsed' = elapsed
        <5>1. Resumed'
          BY <4>2, <4>3, <4>4 DEF Resumed
        <5>2. BeatTypes'
          BY <1>1, <2>1, <4>1, <4>4 DEF BeatTypes
        <5> QED
          BY <5>1, <5>2
      <4>5. CASE coro = "await" /\ coro' = "await" /\ elapsed' = TRUE
        <5>1. Resumed'
          BY <4>2, <4>5 DEF Resumed
        <5>2. BeatTypes'
          BY <1>1, <2>1, <4>1, <4>5 DEF BeatTypes
        <5> QED
          BY <5>1, <5>2
      <4> QED
        BY <4>1, <4>4, <4>5
    <3>3. CASE Beating!Await
      BY <1>1, <2>1, <3>3 DEF Beating!Await, BeatTypes, Resumed, Beating!Due
    <3>4. CASE UNCHANGED Beating!vars
      BY <1>1, <3>4 DEF Beating!vars, BeatTypes, Resumed, Beating!Due
    <3> QED
      BY <1>4, <3>1, <3>2, <3>3, <3>4
  <2> QED
    BY <2>2, <2>3, <2>4 DEF BeatInv
<1> QED
  BY <1>2, <1>3, <1>4 DEF Beating!Next

-----------------------------------------------------------------------------
(* The persistent configurations. *)

(* Induction up to n. *)
LEMMA Ladder ==
  ASSUME NEW n \in Nat, NEW G, n > 0 => 1 \in G,
         \A m \in 2..n : m - 1 \in G => m \in G
  PROVE  1..n \subseteq G
<1> DEFINE T == {m \in 1..n : m \notin G}
<1> SUFFICES ASSUME T # {} PROVE FALSE
  OBVIOUS
<1>1. T \subseteq Nat
  OBVIOUS
<1> HIDE DEF T
<1>2. PICK m \in T : \A k \in T : ~(k < m)
  BY <1>1, LeastOne
<1> USE DEF T
<1>3. m \in 2..n
  BY <1>2
<1>4. m - 1 \in 1..n /\ m - 1 < m
  BY <1>3
<1>5. m - 1 \in G
  BY <1>2, <1>4
<1> QED
  BY <1>2, <1>3, <1>5

(* A function on 1..n may be defined by its first value and a step.        *)
Stepwise(g, S, a, F, n) ==
  g \in [1..n -> S] /\ (n > 0 => g[1] = a) /\ \A m \in 2..n : g[m] = F[m][g[m - 1]]

LEMMA Recursion ==
  ASSUME NEW S, NEW a \in S, NEW n \in Nat,
         NEW F \in [2..n -> [S -> S]]
  PROVE  \E g : Stepwise(g, S, a, F, n)
<1> DEFINE Rec(g, k) == \A m \in 1..k : g[m] = IF m = 1 THEN a ELSE F[m][g[m - 1]]
           G == {k \in 0..n : \E g \in [1..k -> S] : Rec(g, k)}
<1>1. n > 0 => 1 \in G
  <2> SUFFICES ASSUME n > 0 PROVE 1 \in G
    OBVIOUS
  <2> DEFINE g == [m \in 1..1 |-> a]
  <2>1. g \in [1..1 -> S] /\ Rec(g, 1)
    OBVIOUS
  <2> HIDE DEF g, Rec
  <2>2. \E f \in [1..1 -> S] : Rec(f, 1)
    BY <2>1
  <2> QED BY <2>2
<1>2. ASSUME NEW k \in 2..n, k - 1 \in G PROVE k \in G
  <2>1. PICK g \in [1..(k - 1) -> S] : Rec(g, k - 1)
    BY <1>2
  <2> DEFINE h == [m \in 1..k |-> IF m = k THEN F[k][g[k - 1]] ELSE g[m]]
  <2>2. g[k - 1] \in S
    BY <1>2
  <2>3. h \in [1..k -> S]
    BY <1>2, <2>2
  <2>4. ASSUME NEW m \in 1..k PROVE h[m] = IF m = 1 THEN a ELSE F[m][h[m - 1]]
    <3>1. CASE m = k
      <4>1. h[k - 1] = g[k - 1]
        BY <1>2
      <4> QED BY <1>2, <3>1, <4>1
    <3>2. CASE m # k
      <4>1. m \in 1..(k - 1) /\ h[m] = g[m] /\ (m # 1 => h[m - 1] = g[m - 1])
        BY <1>2, <3>2
      <4>2. g[m] = IF m = 1 THEN a ELSE F[m][g[m - 1]]
        BY <2>1, <4>1
      <4> QED BY <4>1, <4>2
    <3> QED BY <3>1, <3>2
  <2>5. Rec(h, k)
    BY <2>4
  <2> HIDE DEF h, Rec
  <2>6. \E f \in [1..k -> S] : Rec(f, k)
    BY <2>3, <2>5
  <2> QED BY <2>6
<1> HIDE DEF G
<1>3. 1..n \subseteq G
  BY <1>1, <1>2, Ladder
<1>4. CASE n = 0
  <2> DEFINE g == [m \in 1..0 |-> a]
  <2>1. g \in [1..n -> S] /\ (\A m \in 1..n : FALSE) /\ \A m \in 2..n : FALSE
    BY <1>4
  <2>2. Stepwise(g, S, a, F, n)
    BY <1>4, <2>1 DEF Stepwise
  <2> QED BY <2>2
<1>5. CASE n # 0
  <2>1. n \in G
    <3>1. n \in 1..n
      BY <1>5
    <3> QED BY <1>3, <3>1
  <2> HIDE DEF Rec
  <2>2. \E g \in [1..n -> S] : Rec(g, n)
    BY <2>1 DEF G
  <2> USE DEF Rec
  <2>3. PICK g \in [1..n -> S] : Rec(g, n)
    BY <2>2
  <2>4. n > 0 => g[1] = a
    BY <2>3
  <2>5. \A m \in 2..n : g[m] = F[m][g[m - 1]]
    BY <2>3
  <2>6. Stepwise(g, S, a, F, n)
    BY <2>4, <2>5 DEF Stepwise
  <2> QED BY <2>6
<1> QED BY <1>4, <1>5

LEMMA Concatenated ==
  ASSUME NEW S, NEW s \in Seq(S), NEW t \in Seq(S)
  PROVE  /\ s \o t \in Seq(S) /\ Len(s \o t) = Len(s) + Len(t)
         /\ \A d \in 1..Len(s) : (s \o t)[d] = s[d]
         /\ \A j \in 1..Len(t) : (s \o t)[Len(s) + j] = t[j]
<1>1. /\ s \o t \in Seq(S) /\ Len(s \o t) = Len(s) + Len(t)
      /\ \A d \in 1..(Len(s) + Len(t)) :
           (s \o t)[d] = IF d <= Len(s) THEN s[d] ELSE t[d - Len(s)]
  BY ConcatProperties
<1>2. Len(s) \in Nat /\ Len(t) \in Nat
  OBVIOUS
<1>3. ASSUME NEW d \in 1..Len(s) PROVE (s \o t)[d] = s[d]
  <2>1. d \in 1..(Len(s) + Len(t)) /\ d <= Len(s)
    BY <1>2
  <2> QED BY <1>1, <2>1
<1>4. ASSUME NEW j \in 1..Len(t) PROVE (s \o t)[Len(s) + j] = t[j]
  <2>1. /\ Len(s) + j \in 1..(Len(s) + Len(t)) /\ ~(Len(s) + j <= Len(s))
        /\ (Len(s) + j) - Len(s) = j
    BY <1>2
  <2> QED BY <1>1, <2>1
<1> QED BY <1>1, <1>3, <1>4

(* Pieces that are written one after the other are found where the sum of  *)
(* the lengths says.                                                       *)
LEMMA Flattened ==
  ASSUME NEW S, NEW p \in Seq(Seq(S)), NEW off \in [1..Len(p) + 1 -> Nat],
         off[1] = 0, \A k \in 1..Len(p) : off[k + 1] = off[k] + Len(p[k])
  PROVE  /\ Saved!FlattenSeq(p) \in Seq(S)
         /\ Len(Saved!FlattenSeq(p)) = off[Len(p) + 1]
         /\ \A k \in 1..Len(p) : \A j \in 1..Len(p[k]) :
              /\ off[k] + j <= off[Len(p) + 1]
              /\ Saved!FlattenSeq(p)[off[k] + j] = p[k][j]
<1> DEFINE n == Len(p)
           flat == CHOOSE flatten : flatten = [d \in 1..Len(p) |->
                     IF d = 1 THEN p[d] ELSE flatten[d - 1] \o p[d]]
           Right(s, m) == /\ s \in Seq(S)
                          /\ Len(s) = off[m + 1]
                          /\ \A k \in 1..m : \A j \in 1..Len(p[k]) :
                               off[k] + j <= off[m + 1] /\ s[off[k] + j] = p[k][j]
<1>1. Saved!FlattenSeq(p) = IF n = 0 THEN p ELSE flat[n]
  BY DEF Saved!FlattenSeq
<1>2. n \in Nat /\ \A d \in 1..n : p[d] \in Seq(S)
  OBVIOUS
<1>3. CASE n = 0
  BY <1>1, <1>3
<1>4. CASE n # 0
  <2>1. \E g : g = [d \in 1..Len(p) |-> IF d = 1 THEN p[d] ELSE g[d - 1] \o p[d]]
    <3> DEFINE F == [m \in 2..n |-> [x \in Seq(S) |-> x \o p[m]]]
               T == Seq(S)
               a == p[1]
    <3>1. a \in T
      BY <1>2, <1>4
    <3>2. ASSUME NEW m \in 2..n, NEW x \in T PROVE F[m][x] \in T
      <4>1. m \in 1..n /\ p[m] \in T
        BY <1>2
      <4>2. x \o p[m] \in T
        BY <4>1, ConcatProperties
      <4> QED BY <4>1, <4>2
    <3>3. \A m \in 2..n : \A x \in T : F[m][x] = x \o p[m]
      OBVIOUS
    <3>3a. F \in [2..n -> [T -> T]]
      BY <3>2
    <3> HIDE DEF F, T, a, n
    <3>3b. n \in Nat
      BY <1>2
    <3>4a. PICK g : Stepwise(g, T, a, F, n)
      BY <3>1, <3>3a, <3>3b, Recursion
    <3>4. g \in [1..n -> T] /\ (n > 0 => g[1] = a) /\ \A m \in 2..n : g[m] = F[m][g[m - 1]]
      BY <3>4a DEF Stepwise
    <3> USE DEF n
    <3>5. ASSUME NEW m \in 1..n
          PROVE  g[m] = IF m = 1 THEN p[m] ELSE g[m - 1] \o p[m]
      <4>1. CASE m = 1
        BY <1>2, <3>4, <4>1 DEF a
      <4>2. CASE m # 1
        <5>1. m - 1 \in 1..n
          BY <1>2, <4>2
        <5>2. g[m - 1] \in T
          BY <3>4, <5>1
        <5>3. m \in 2..n /\ g[m] = F[m][g[m - 1]]
          BY <1>2, <3>4, <4>2
        <5> QED BY <3>3, <4>2, <5>2, <5>3
      <4> QED BY <4>1, <4>2
    <3>6. g = [d \in 1..Len(p) |-> IF d = 1 THEN p[d] ELSE g[d - 1] \o p[d]]
      BY <3>4, <3>5
    <3> QED BY <3>6
  <2>2. flat = [d \in 1..Len(p) |-> IF d = 1 THEN p[d] ELSE flat[d - 1] \o p[d]]
    BY <2>1
  <2> HIDE DEF flat
  <2>3. \A d \in 1..n : flat[d] = IF d = 1 THEN p[d] ELSE flat[d - 1] \o p[d]
    BY <2>2
  <2> DEFINE G == {m \in 1..n : Right(flat[m], m)}
  <2>4. n > 0 => 1 \in G
    <3>1. 1 \in 1..n /\ flat[1] = p[1] /\ p[1] \in Seq(S)
      BY <1>2, <1>4, <2>3
    <3>2. off[1 + 1] = off[1] + Len(p[1])
      BY <3>1
    <3>3. off[1 + 1] = Len(p[1]) /\ Len(p[1]) \in Nat
      BY <3>1, <3>2
    <3>4. Right(flat[1], 1)
      <4>1. ASSUME NEW k \in 1..1, NEW j \in 1..Len(p[k])
            PROVE  off[k] + j <= off[1 + 1] /\ flat[1][off[k] + j] = p[k][j]
        <5>1. k = 1 /\ off[k] + j = j
          OBVIOUS
        <5> QED BY <3>1, <3>3, <5>1
      <4> QED BY <3>1, <3>3, <4>1
    <3> QED BY <3>1, <3>4
  <2>5. ASSUME NEW m \in 2..n, m - 1 \in G PROVE m \in G
    <3> DEFINE s == flat[m - 1]
               t == p[m]
               u == flat[m]
    <3>1. m \in 1..n /\ m - 1 \in 1..n /\ (m - 1) + 1 = m /\ m + 1 \in 1..(n + 1)
      BY <1>2
    <3>2. u = s \o t /\ t \in Seq(S) /\ Right(s, m - 1)
      <4>1. m # 1
        BY <2>5
      <4>2. u = s \o t
        BY <2>3, <3>1, <4>1
      <4> HIDE DEF Right
      <4>3. Right(s, m - 1)
        BY <2>5
      <4> QED BY <1>2, <3>1, <4>2, <4>3
    <3> HIDE DEF n
    <3>3. Len(s) = off[m] /\ off[m + 1] = off[m] + Len(t) /\ off[m] \in Nat /\ Len(t) \in Nat
      <4>1. Len(s) = off[(m - 1) + 1] /\ Len(t) \in Nat
        BY <3>2
      <4>2. off[m + 1] = off[m] + Len(p[m])
        BY <3>1 DEF n
      <4>3. m \in 1..Len(p) + 1
        BY <1>2, <3>1 DEF n
      <4>4. off[m] \in Nat
        BY <4>3
      <4> HIDE DEF s
      <4> QED BY <3>1, <4>1, <4>2, <4>4
    <3> USE DEF n
    <3> HIDE DEF s, t, u
    <3>4. /\ u \in Seq(S) /\ Len(u) = Len(s) + Len(t)
          /\ \A d \in 1..Len(s) : u[d] = s[d]
          /\ \A j \in 1..Len(t) : u[Len(s) + j] = t[j]
      <4>1. s \in Seq(S) /\ t \in Seq(S) /\ u = s \o t
        BY <3>2
      <4> QED BY <4>1, Concatenated
    <3>5. ASSUME NEW k \in 1..m, NEW j \in 1..Len(p[k])
          PROVE  off[k] + j <= off[m + 1] /\ u[off[k] + j] = p[k][j]
      <4>1. k \in 1..n /\ off[k] \in Nat /\ Len(p[k]) \in Nat
        <5>1. k \in 1..n
          BY <1>2, <3>1
        <5>2. k \in 1..(n + 1) /\ p[k] \in Seq(S)
          BY <1>2, <5>1
        <5>3. off[k] \in Nat
          BY <5>2
        <5>4. Len(p[k]) \in Nat
          BY <5>2
        <5> QED BY <5>1, <5>3, <5>4
      <4>2. CASE k = m
        <5>1. j \in 1..Len(t) /\ t[j] = p[k][j] /\ off[k] = Len(s)
          BY <3>3, <4>2 DEF t
        <5>2. u[off[k] + j] = p[k][j]
          BY <3>4, <5>1
        <5> DEFINE x == off[k]
                   y == off[m + 1]
                   z == Len(t)
        <5>3. x \in Nat /\ z \in Nat /\ y = x + z /\ j \in 1..z
          BY <3>3, <4>1, <4>2, <5>1
        <5> HIDE DEF x, y, z
        <5>4. x + j <= y
          BY <5>3
        <5> QED BY <5>2, <5>4 DEF x, y
      <4>3. CASE k # m
        <5>1. k \in 1..(m - 1)
          BY <3>1, <4>3
        <5>2. off[k] + j <= off[(m - 1) + 1] /\ s[off[k] + j] = p[k][j]
          BY <3>2, <5>1
        <5> DEFINE x == off[k]
                   y == off[m + 1]
                   z == Len(t)
                   v == Len(s)
        <5>3. x \in Nat /\ z \in Nat /\ v \in Nat /\ y = v + z /\ x + j <= v
              /\ j \in Nat \ {0}
          BY <3>1, <3>3, <4>1, <5>2
        <5>4. s[x + j] = p[k][j]
          BY <5>2
        <5>5. \A d \in 1..v : u[d] = s[d]
          BY <3>4
        <5> HIDE DEF x, y, z, v
        <5>6. x + j \in 1..v /\ x + j <= y
          BY <5>3
        <5>7. x + j <= y /\ u[x + j] = p[k][j]
          BY <5>4, <5>5, <5>6
        <5> QED BY <5>7 DEF x, y
      <4> QED BY <4>2, <4>3
    <3>6. Right(u, m)
      BY <3>3, <3>4, <3>5
    <3> QED BY <3>1, <3>6 DEF u
  <2> HIDE DEF G
  <2>6. 1..n \subseteq G
    BY <1>2, <2>4, <2>5, Ladder
  <2> USE DEF G
  <2>7. n \in 1..n
    BY <1>2, <1>4
  <2>8. Right(flat[n], n)
    BY <2>6, <2>7
  <2> QED BY <1>1, <1>4, <2>8
<1> QED BY <1>3, <1>4

(* The values follow the descriptors, each after the one before.           *)
LEMMA Offsets ==
  ASSUME NEW l \in Firmwares
  PROVE  \A k \in 1..Len(l) :
           /\ Saved!DataOffset(l, k) \in Nat /\ Saved!DataOffset(l, k) >= 2 * Len(l)
           /\ k = 1 => Saved!DataOffset(l, k) = 2 * Len(l)
           /\ k # 1 => Saved!DataOffset(l, k) =
                         Saved!DataOffset(l, k - 1) + Size[l[k - 1]]
<1> DEFINE n == Len(l)
           sum == CHOOSE Sum : Sum = [j \in 1..Len(l) |->
                    IF j = 1 THEN 2 * Len(l) ELSE Sum[j - 1] + Size[l[j - 1]]]
<1>1. \A k \in 1..n : Saved!DataOffset(l, k) = sum[k]
  BY DEF Saved!DataOffset
<1>2. n \in Nat /\ \A k \in 1..n : l[k] \in Ids /\ Size[l[k]] \in Nat \ {0}
  <2>1. l \in Seq(Ids)
    BY FlashAssumption
  <2> QED BY <2>1, FlashAssumption
<1>3. \E g : g = [j \in 1..Len(l) |->
               IF j = 1 THEN 2 * Len(l) ELSE g[j - 1] + Size[l[j - 1]]]
  <2> DEFINE F == [m \in 2..n |-> [x \in Nat |-> x + Size[l[m - 1]]]]
             a == 2 * n
  <2>1. F \in [2..n -> [Nat -> Nat]]
    <3>1. ASSUME NEW m \in 2..n PROVE Size[l[m - 1]] \in Nat
      <4>1. m - 1 \in 1..n
        BY <1>2
      <4> QED BY <1>2, <4>1
    <3> QED BY <3>1
  <2>2. a \in Nat
    BY <1>2
  <2>3. \A m \in 2..n : \A x \in Nat : F[m][x] = x + Size[l[m - 1]]
    OBVIOUS
  <2> HIDE DEF F, a, n
  <2>4. PICK g : Stepwise(g, Nat, a, F, n)
    BY <1>2, <2>1, <2>2, Recursion
  <2>5. /\ g \in [1..n -> Nat] /\ (n > 0 => g[1] = a)
        /\ \A m \in 2..n : g[m] = F[m][g[m - 1]]
    BY <2>4 DEF Stepwise
  <2> USE DEF n
  <2>6. ASSUME NEW m \in 1..n
        PROVE  g[m] = IF m = 1 THEN 2 * Len(l) ELSE g[m - 1] + Size[l[m - 1]]
    <3>1. CASE m = 1
      BY <1>2, <2>5, <3>1 DEF a
    <3>2. CASE m # 1
      <4>1. m \in 2..n /\ m - 1 \in 1..n
        BY <1>2, <3>2
      <4>2. g[m - 1] \in Nat
        BY <2>5, <4>1
      <4> QED BY <2>3, <2>5, <3>2, <4>1, <4>2
    <3> QED BY <3>1, <3>2
  <2>7. g = [j \in 1..Len(l) |->
               IF j = 1 THEN 2 * Len(l) ELSE g[j - 1] + Size[l[j - 1]]]
    BY <2>5, <2>6
  <2> QED BY <2>7
<1>4. sum = [j \in 1..Len(l) |->
               IF j = 1 THEN 2 * Len(l) ELSE sum[j - 1] + Size[l[j - 1]]]
  BY <1>3
<1> HIDE DEF sum
<1>5. \A j \in 1..n : sum[j] = IF j = 1 THEN 2 * Len(l) ELSE sum[j - 1] + Size[l[j - 1]]
  BY <1>4
<1> DEFINE G == {k \in 1..n : sum[k] \in Nat /\ sum[k] >= 2 * n}
<1>6. n > 0 => 1 \in G
  BY <1>2, <1>5
<1>7. ASSUME NEW m \in 2..n, m - 1 \in G PROVE m \in G
  <2>1. m \in 1..n /\ m # 1 /\ m - 1 \in 1..n
    BY <1>2
  <2>2. sum[m - 1] \in Nat /\ sum[m - 1] >= 2 * n /\ Size[l[m - 1]] \in Nat
    BY <1>2, <1>7, <2>1
  <2>3. sum[m] = sum[m - 1] + Size[l[m - 1]]
    BY <1>5, <2>1
  <2>4. sum[m] \in Nat /\ sum[m] >= 2 * n
    BY <1>2, <2>2, <2>3
  <2> QED BY <2>1, <2>4
<1> HIDE DEF G
<1>8. 1..n \subseteq G
  BY <1>2, <1>6, <1>7, Ladder
<1>9. ASSUME NEW k \in 1..n
      PROVE  /\ sum[k] \in Nat /\ sum[k] >= 2 * n
             /\ k = 1 => sum[k] = 2 * n
             /\ k # 1 => k - 1 \in 1..n /\ sum[k] = sum[k - 1] + Size[l[k - 1]]
  <2>1. sum[k] \in Nat /\ sum[k] >= 2 * n
    BY <1>8 DEF G
  <2> QED BY <1>2, <1>5, <2>1
<1> QED BY <1>1, <1>9

(* Where the last value ends, without the count in front.                  *)
EndOf(l) ==
  IF Len(l) = 0 THEN 0 ELSE Saved!DataOffset(l, Len(l)) + Size[l[Len(l)]]

IdWord(id) == [tag |-> "id", id |-> id]
StartWord(o) == [tag |-> "start", n |-> o]
ValueWord(v, j) == [tag |-> "value", v |-> v, j |-> j]

LEMMA DescriptorsAre ==
  ASSUME NEW l \in Firmwares, NEW S,
         \A x \in Ids : IdWord(x) \in S, \A o \in Nat : StartWord(o) \in S
  PROVE  LET d == Saved!FlattenSeq([k \in 1..Len(l) |->
                    Saved!Descriptor(l[k], Saved!DataOffset(l, k))])
         IN /\ d \in Seq(S) /\ Len(d) = 2 * Len(l)
            /\ \A k \in 1..Len(l) :
                 /\ d[2 * k - 1] = IdWord(l[k])
                 /\ d[2 * k] = StartWord(Saved!DataOffset(l, k))
<1> DEFINE n == Len(l)
           p == [k \in 1..Len(l) |-> Saved!Descriptor(l[k], Saved!DataOffset(l, k))]
           off == [k \in 1..Len(p) + 1 |-> 2 * (k - 1)]
<1>1. n \in Nat /\ \A k \in 1..n : l[k] \in Ids
  BY FlashAssumption
<1>2. ASSUME NEW k \in 1..n
      PROVE  /\ p[k] = <<IdWord(l[k]), StartWord(Saved!DataOffset(l, k))>>
             /\ p[k] \in Seq(S) /\ Len(p[k]) = 2
  <2>1. IdWord(l[k]) \in S /\ StartWord(Saved!DataOffset(l, k)) \in S
    BY <1>1, Offsets
  <2>2. p[k] = <<IdWord(l[k]), StartWord(Saved!DataOffset(l, k))>>
    BY DEF Saved!Descriptor, IdWord, StartWord
  <2> HIDE DEF p
  <2> QED BY <2>1, <2>2
<1>3. p \in Seq(Seq(S)) /\ Len(p) = n
  <2>1. p \in [1..n -> Seq(S)]
    BY <1>2
  <2>2. DOMAIN p = 1..n
    OBVIOUS
  <2> HIDE DEF p
  <2> QED BY <1>1, <2>1, <2>2
<1> HIDE DEF p
<1>4. off \in [1..Len(p) + 1 -> Nat] /\ off[1] = 0
  BY <1>1, <1>3
<1>5. \A k \in 1..Len(p) : off[k + 1] = off[k] + Len(p[k])
  <2> SUFFICES ASSUME NEW k \in 1..n PROVE off[k + 1] = off[k] + Len(p[k])
    BY <1>3
  <2>1. k \in 1..Len(p) + 1 /\ k + 1 \in 1..Len(p) + 1 /\ Len(p[k]) = 2
    BY <1>1, <1>2, <1>3
  <2>2. off[k] = 2 * (k - 1) /\ off[k + 1] = 2 * ((k + 1) - 1)
    BY <2>1
  <2> HIDE DEF off
  <2> QED BY <2>1, <2>2
<1>6. off[Len(p) + 1] = 2 * n /\ \A k \in 1..n : off[k] = 2 * (k - 1)
  BY <1>1, <1>3
<1> HIDE DEF off
<1> DEFINE d == Saved!FlattenSeq(p)
<1>7. /\ d \in Seq(S) /\ Len(d) = off[Len(p) + 1]
      /\ \A k \in 1..Len(p) : \A j \in 1..Len(p[k]) :
           off[k] + j <= off[Len(p) + 1] /\ d[off[k] + j] = p[k][j]
  <2>1. p \in Seq(Seq(S)) /\ off \in [1..Len(p) + 1 -> Nat] /\ off[1] = 0
    BY <1>3, <1>4
  <2> HIDE DEF n
  <2> QED BY <1>5, <2>1, Flattened, ZenonT(40)
<1> HIDE DEF d
<1>8. ASSUME NEW k \in 1..n
      PROVE  d[2 * k - 1] = IdWord(l[k]) /\ d[2 * k] = StartWord(Saved!DataOffset(l, k))
  <2>1. off[k] + 1 = 2 * k - 1 /\ off[k] + 2 = 2 * k
    BY <1>1, <1>6
  <2>2. d[off[k] + 1] = p[k][1] /\ d[off[k] + 2] = p[k][2]
    <3>0. Len(p[k]) = 2
      BY <1>2
    <3>1. k \in 1..Len(p) /\ 1 \in 1..Len(p[k]) /\ 2 \in 1..Len(p[k])
      BY <1>3, <3>0
    <3> HIDE DEF n
    <3> QED BY <1>7, <3>1
  <2> QED BY <1>2, <2>1, <2>2
<1> QED BY <1>6, <1>7, <1>8 DEF d, p

LEMMA ValuesAre ==
  ASSUME NEW l \in Firmwares, NEW v, NEW S,
         \A x \in Ids : \A j \in Nat : ValueWord(v[x], j) \in S
  PROVE  LET d == Saved!FlattenSeq([k \in 1..Len(l) |-> Saved!Value(l[k], v[l[k]])])
         IN /\ d \in Seq(S) /\ Len(d) = EndOf(l) - 2 * Len(l) /\ Len(d) \in Nat
            /\ \A k \in 1..Len(l) : \A j \in 1..Size[l[k]] :
                 LET o == Saved!DataOffset(l, k) - 2 * Len(l)
                 IN o + j \in 1..Len(d) /\ d[o + j] = ValueWord(v[l[k]], j)
<1> DEFINE n == Len(l)
           p == [k \in 1..Len(l) |-> Saved!Value(l[k], v[l[k]])]
           D(k) == Saved!DataOffset(l, k)
           off == [k \in 1..Len(p) + 1 |->
                     IF k <= n THEN D(k) - 2 * n ELSE EndOf(l) - 2 * n]
<1>1. n \in Nat /\ \A k \in 1..n : l[k] \in Ids /\ Size[l[k]] \in Nat \ {0}
  <2>1. l \in Seq(Ids)
    BY FlashAssumption
  <2> QED BY <2>1, FlashAssumption
<1>2. ASSUME NEW k \in 1..n
      PROVE  /\ p[k] = [j \in 1..Size[l[k]] |-> ValueWord(v[l[k]], j)]
             /\ p[k] \in Seq(S) /\ Len(p[k]) = Size[l[k]]
  <2>1. p[k] = [j \in 1..Size[l[k]] |-> ValueWord(v[l[k]], j)]
    BY DEF Saved!Value, ValueWord
  <2> HIDE DEF p
  <2>2. p[k] \in [1..Size[l[k]] -> S]
    BY <1>1, <2>1
  <2>3. DOMAIN p[k] = 1..Size[l[k]]
    BY <2>1
  <2> QED BY <1>1, <2>1, <2>2, <2>3
<1>3. p \in Seq(Seq(S)) /\ Len(p) = n
  <2>1. p \in [1..n -> Seq(S)]
    BY <1>2
  <2>2. DOMAIN p = 1..n
    OBVIOUS
  <2> HIDE DEF p
  <2> QED BY <1>1, <2>1, <2>2
<1> HIDE DEF p
<1>4. /\ \A k \in 1..n : D(k) \in Nat /\ D(k) >= 2 * n
      /\ n > 0 => D(1) = 2 * n
      /\ \A k \in 1..n : k # 1 => D(k) = D(k - 1) + Size[l[k - 1]]
  BY <1>1, Offsets
<1>5. EndOf(l) \in Nat /\ EndOf(l) >= 2 * n /\ (n = 0 => EndOf(l) = 0)
      /\ (n > 0 => EndOf(l) = D(n) + Size[l[n]])
  BY <1>1, <1>4 DEF EndOf
<1> HIDE DEF D
<1>6. /\ \A k \in 1..n : off[k] = D(k) - 2 * n
      /\ off[n + 1] = EndOf(l) - 2 * n
  BY <1>1, <1>3
<1>7. off \in [1..Len(p) + 1 -> Nat]
  <2>1. ASSUME NEW k \in 1..Len(p) + 1
        PROVE  (IF k <= n THEN D(k) - 2 * n ELSE EndOf(l) - 2 * n) \in Nat
    <3>1. CASE k <= n
      <4>1. k \in 1..n
        BY <1>1, <1>3, <3>1
      <4> QED BY <1>1, <1>4, <3>1, <4>1
    <3>2. CASE ~(k <= n)
      BY <1>1, <1>5, <3>2
    <3> QED BY <3>1, <3>2
  <2> QED BY <2>1
<1> HIDE DEF off
<1>8. off[1] = 0
  <2>1. CASE n = 0
    BY <1>5, <1>6, <2>1
  <2>2. CASE n # 0
    <3>1. 1 \in 1..n
      BY <1>1, <2>2
    <3> QED BY <1>1, <1>4, <1>6, <2>2, <3>1
  <2> QED BY <2>1, <2>2
<1>9. ASSUME NEW k \in 1..Len(p) PROVE off[k + 1] = off[k] + Len(p[k])
  <2>1. k \in 1..n /\ off[k] = D(k) - 2 * n /\ Len(p[k]) = Size[l[k]]
    BY <1>2, <1>3, <1>6
  <2>2. D(k) \in Nat /\ Size[l[k]] \in Nat
    BY <1>1, <1>4, <2>1
  <2>3. CASE k = n
    BY <1>1, <1>5, <1>6, <2>1, <2>2, <2>3
  <2>4. CASE k # n
    <3>1. k + 1 \in 1..n /\ k + 1 # 1 /\ (k + 1) - 1 = k
      BY <1>1, <2>1, <2>4
    <3>2. off[k + 1] = D(k + 1) - 2 * n /\ D(k + 1) = D(k) + Size[l[k]]
      BY <1>4, <1>6, <3>1
    <3> QED BY <1>1, <2>1, <2>2, <3>2
  <2> QED BY <2>3, <2>4
<1> DEFINE d == Saved!FlattenSeq(p)
<1>10. /\ d \in Seq(S) /\ Len(d) = off[Len(p) + 1]
       /\ \A k \in 1..Len(p) : \A j \in 1..Len(p[k]) :
            off[k] + j <= off[Len(p) + 1] /\ d[off[k] + j] = p[k][j]
  BY <1>3, <1>7, <1>8, <1>9, Flattened, ZenonT(40)
<1> HIDE DEF d
<1>11. Len(d) = EndOf(l) - 2 * n /\ Len(d) \in Nat
  BY <1>1, <1>3, <1>5, <1>6, <1>10
<1>12. ASSUME NEW k \in 1..n, NEW j \in 1..Size[l[k]]
       PROVE  (D(k) - 2 * n) + j \in 1..Len(d) /\ d[(D(k) - 2 * n) + j] = ValueWord(v[l[k]], j)
  <2>1. k \in 1..Len(p) /\ j \in 1..Len(p[k]) /\ p[k][j] = ValueWord(v[l[k]], j)
    <3>1. /\ p[k] = [i2 \in 1..Size[l[k]] |-> ValueWord(v[l[k]], i2)]
          /\ Len(p[k]) = Size[l[k]]
      BY <1>2
    <3>2. p[k][j] = ValueWord(v[l[k]], j)
      BY <3>1
    <3> QED BY <1>3, <3>1, <3>2
  <2>2. off[k] = D(k) - 2 * n /\ off[k] \in Nat /\ j \in Nat \ {0}
    BY <1>1, <1>4, <1>6
  <2>3. off[k] + j <= Len(d) /\ d[off[k] + j] = p[k][j]
    BY <1>10, <2>1
  <2> QED BY <1>11, <2>1, <2>2, <2>3
<1> QED BY <1>10, <1>11, <1>12 DEF d, p, D

(* What save writes, word by word. *)
LEMMA ImageIs ==
  ASSUME NEW l \in Firmwares, NEW v
  PROVE  LET image == Saved!Image(l, v)
         IN /\ Len(image) = 1 + EndOf(l) /\ EndOf(l) \in Nat /\ EndOf(l) >= 2 * Len(l)
            /\ image[1] = Saved!Count(Len(l))
            /\ \A k \in 1..Len(l) :
                 /\ image[2 * k] = IdWord(l[k])
                 /\ image[2 * k + 1] = StartWord(Saved!DataOffset(l, k))
            /\ \A k \in 1..Len(l) : \A j \in 1..Size[l[k]] :
                 LET o == Saved!DataOffset(l, k)
                 IN o + j <= EndOf(l) /\ image[1 + o + j] = ValueWord(v[l[k]], j)
<1> DEFINE n == Len(l)
           S == {Saved!Count(n)} \cup {IdWord(x) : x \in Ids}
                  \cup {StartWord(o) : o \in Nat}
                  \cup UNION {{ValueWord(v[x], j) : j \in Nat} : x \in Ids}
           c == <<Saved!Count(n)>>
           d == Saved!FlattenSeq([k \in 1..Len(l) |->
                    Saved!Descriptor(l[k], Saved!DataOffset(l, k))])
           b == Saved!FlattenSeq([k \in 1..Len(l) |-> Saved!Value(l[k], v[l[k]])])
           D(k) == Saved!DataOffset(l, k)
           image == Saved!Image(l, v)
<1>1. n \in Nat /\ \A k \in 1..n : l[k] \in Ids /\ Size[l[k]] \in Nat \ {0}
  <2>1. l \in Seq(Ids)
    BY FlashAssumption
  <2> QED BY <2>1, FlashAssumption
<1>2. /\ Saved!Count(n) \in S
      /\ \A x \in Ids : IdWord(x) \in S
      /\ \A o \in Nat : StartWord(o) \in S
      /\ \A x \in Ids : \A j \in Nat : ValueWord(v[x], j) \in S
  OBVIOUS
<1>3. image = (c \o d) \o b
  <2>1. image = c \o d \o b
    BY DEF Saved!Image
  <2> QED BY <2>1
<1> HIDE DEF S, image
<1>4. c \in Seq(S) /\ Len(c) = 1 /\ c[1] = Saved!Count(n)
  BY <1>2
<1> HIDE DEF c
<1>5. /\ d \in Seq(S) /\ Len(d) = 2 * n
      /\ \A k \in 1..n : d[2 * k - 1] = IdWord(l[k]) /\ d[2 * k] = StartWord(D(k))
  BY <1>2, DescriptorsAre
<1>6. /\ b \in Seq(S) /\ Len(b) = EndOf(l) - 2 * n /\ Len(b) \in Nat
      /\ \A k \in 1..n : \A j \in 1..Size[l[k]] :
           /\ (D(k) - 2 * n) + j \in 1..Len(b)
           /\ b[(D(k) - 2 * n) + j] = ValueWord(v[l[k]], j)
  BY <1>2, ValuesAre
<1>7. \A k \in 1..n : D(k) \in Nat /\ D(k) >= 2 * n
  BY Offsets
<1>8. EndOf(l) \in Nat /\ EndOf(l) >= 2 * n
  <2>1. CASE n = 0
    BY <2>1 DEF EndOf
  <2>2. CASE n # 0
    <3>1. n \in 1..n
      BY <1>1, <2>2
    <3>2. D(n) \in Nat /\ D(n) >= 2 * n /\ Size[l[n]] \in Nat
      BY <1>1, <1>7, <3>1
    <3>3. EndOf(l) = D(n) + Size[l[n]]
      BY <2>2 DEF EndOf
    <3> QED BY <1>1, <3>2, <3>3
  <2> QED BY <2>1, <2>2
<1> HIDE DEF d, b, D
<1> DEFINE e == c \o d
<1>9. /\ e \in Seq(S) /\ Len(e) = Len(c) + Len(d)
      /\ \A k \in 1..Len(c) : e[k] = c[k]
      /\ \A j \in 1..Len(d) : e[Len(c) + j] = d[j]
  <2>1. c \in Seq(S) /\ d \in Seq(S)
    BY <1>4, <1>5
  <2> QED BY <2>1, Concatenated
<1>10. image = e \o b
  BY <1>3
<1> HIDE DEF e
<1>11. /\ Len(image) = Len(e) + Len(b)
       /\ \A k \in 1..Len(e) : image[k] = e[k]
       /\ \A j \in 1..Len(b) : image[Len(e) + j] = b[j]
  <2>1. e \in Seq(S) /\ b \in Seq(S)
    BY <1>6, <1>9
  <2> QED BY <1>10, <2>1, Concatenated
<1>12. Len(e) = 1 + 2 * n
  BY <1>4, <1>5, <1>9
<1>13. Len(image) = 1 + EndOf(l)
  BY <1>1, <1>6, <1>8, <1>11, <1>12
<1>14. image[1] = Saved!Count(n)
  <2>1. 1 \in 1..Len(e) /\ 1 \in 1..Len(c)
    BY <1>1, <1>4, <1>12
  <2> QED BY <1>4, <1>9, <1>11, <2>1
<1>15. ASSUME NEW k \in 1..n
       PROVE  image[2 * k] = IdWord(l[k]) /\ image[2 * k + 1] = StartWord(D(k))
  <2>1. /\ 2 * k - 1 \in 1..Len(d) /\ 2 * k \in 1..Len(d)
        /\ 2 * k \in 1..Len(e) /\ 2 * k + 1 \in 1..Len(e)
        /\ Len(c) + (2 * k - 1) = 2 * k /\ Len(c) + 2 * k = 2 * k + 1
    BY <1>1, <1>4, <1>5, <1>12
  <2>2. e[Len(c) + (2 * k - 1)] = d[2 * k - 1] /\ e[Len(c) + 2 * k] = d[2 * k]
    BY <1>9, <2>1
  <2>3. e[2 * k] = d[2 * k - 1] /\ e[2 * k + 1] = d[2 * k]
    BY <2>1, <2>2
  <2>4. image[2 * k] = e[2 * k] /\ image[2 * k + 1] = e[2 * k + 1]
    BY <1>11, <2>1
  <2> QED BY <1>5, <2>3, <2>4
<1>16. ASSUME NEW k \in 1..n, NEW j \in 1..Size[l[k]]
       PROVE  D(k) + j <= EndOf(l) /\ image[1 + D(k) + j] = ValueWord(v[l[k]], j)
  <2> DEFINE x == (D(k) - 2 * n) + j
  <2>1. x \in 1..Len(b) /\ b[x] = ValueWord(v[l[k]], j) /\ D(k) \in Nat /\ j \in Nat
    BY <1>1, <1>6, <1>7
  <2>2. Len(e) + x = 1 + D(k) + j /\ D(k) + j <= EndOf(l)
    <3> DEFINE y == D(k)
               z == EndOf(l)
    <3>1. /\ x = (y - 2 * n) + j /\ x <= z - 2 * n /\ Len(e) = 1 + 2 * n
          /\ y \in Nat /\ z \in Nat /\ n \in Nat /\ j \in Nat
      <4>1. x <= Len(b)
        BY <2>1
      <4> QED BY <1>1, <1>6, <1>8, <1>12, <2>1, <4>1
    <3> HIDE DEF x, y, z, n
    <3>2. Len(e) + x = 1 + y + j /\ y + j <= z
      BY <3>1
    <3> QED BY <3>2 DEF y, z
  <2> HIDE DEF x
  <2>3. image[Len(e) + x] = b[x]
    BY <1>11, <2>1
  <2> QED BY <2>1, <2>2, <2>3
<1> QED BY <1>8, <1>13, <1>14, <1>15, <1>16 DEF image, D

(* Nothing is found in an erased region. *)
LEMMA NothingLoaded ==
  ASSUME NEW f, f[1] = Saved!Erased, NEW id
  PROVE  Saved!Load(f, id) = Saved!Default
<1>1. Saved!StoredCount(f) = 0
  BY DEF Saved!StoredCount, Saved!Erased
<1>2. Saved!Found(f, id) = {}
  BY <1>1 DEF Saved!Found
<1> QED BY <1>2 DEF Saved!Load

LEMMA RegionSize ==
  /\ Saved!Words \in Nat \ {0}
  /\ \A w \in 1..Saved!Words : (w - 1) \div Sector \in 0..Sectors - 1
<1>1. Sector \in Nat \ {0} /\ Sectors \in Nat \ {0}
  BY FlashAssumption
<1>2. Saved!Words \in Nat \ {0}
  BY <1>1 DEF Saved!Words
<1>3. ASSUME NEW w \in 1..Saved!Words PROVE (w - 1) \div Sector \in 0..Sectors - 1
  <2> DEFINE q == (w - 1) \div Sector
  <2>1. q \in Nat /\ Sector * q <= w - 1
    BY <1>1, <1>2
  <2>2. w - 1 < Sector * Sectors
    BY <1>2 DEF Saved!Words
  <2> HIDE DEF q
  <2>3. Sector * q < Sector * Sectors
    BY <1>1, <1>2, <2>1, <2>2
  <2>4. q < Sectors
    BY <1>1, <2>1, <2>3
  <2> QED BY <1>1, <2>1, <2>4 DEF q
<1> QED BY <1>2, <1>3

(* An image fits into a page, whatever the values are.                     *)
LEMMA ImageFits ==
  ASSUME NEW l \in Firmwares, NEW v
  PROVE  /\ Len(Saved!Image(l, v)) \in 1..Page
         /\ Page \in Nat \ {0} /\ Page < Saved!Words /\ Saved!Words \in Nat
<1>1. Len(Saved!Image(l, Saved!NoneStored)) <= Page
  BY FlashAssumption
<1>2. /\ Len(Saved!Image(l, Saved!NoneStored)) = 1 + EndOf(l)
      /\ Len(Saved!Image(l, v)) = 1 + EndOf(l) /\ EndOf(l) \in Nat
  BY ImageIs
<1>3. Page \in Nat \ {0} /\ Page < Saved!Words /\ Saved!Words \in Nat
  BY RegionSize, FlashAssumption
<1> QED BY <1>1, <1>2, <1>3

(* What was saved is what is loaded, and nothing else.                     *)
LEMMA SavedIsLoaded ==
  ASSUME NEW l \in Firmwares, NEW v, NEW f, NEW id \in Ids,
         \A w \in 1..Len(Saved!Image(l, v)) : f[w] = Saved!Image(l, v)[w]
  PROVE  Saved!Load(f, id) = IF Saved!In(id, l) THEN v[id] ELSE Saved!Default
<1> DEFINE n == Len(l)
           image == Saved!Image(l, v)
           D(k) == Saved!DataOffset(l, k)
           End == EndOf(l)
           W == Saved!Words
<1>1. /\ n \in Nat /\ DOMAIN l = 1..n
      /\ \A k \in 1..n : l[k] \in Ids /\ Size[l[k]] \in Nat \ {0}
      /\ \A j, k \in 1..n : l[j] = l[k] => j = k
  <2>1. l \in Seq(Ids) /\ \A j, k \in DOMAIN l : l[j] = l[k] => j = k
    BY FlashAssumption
  <2>2. DOMAIN l = 1..n
    BY <2>1
  <2> QED BY <2>1, <2>2, FlashAssumption
<1>2. /\ Len(image) = 1 + End /\ End \in Nat /\ End >= 2 * n
      /\ image[1] = Saved!Count(n)
      /\ \A k \in 1..n : image[2 * k] = IdWord(l[k]) /\ image[2 * k + 1] = StartWord(D(k))
      /\ \A k \in 1..n : \A j \in 1..Size[l[k]] :
           D(k) + j <= End /\ image[1 + D(k) + j] = ValueWord(v[l[k]], j)
  BY ImageIs
<1>3. Page \in Nat \ {0} /\ 1 + End <= Page /\ Page < W /\ W \in Nat
  BY <1>2, ImageFits
<1>4. \A k \in 1..n : D(k) \in Nat /\ D(k) >= 2 * n
  BY Offsets
<1>5. \A w \in 1..Len(image) : f[w] = image[w]
  OBVIOUS
<1> HIDE DEF image, D, End
<1>6. \A w \in 1..(1 + End) : f[w] = image[w]
  BY <1>2, <1>5
<1>7. Saved!StoredCount(f) = n
  <2>1. 1 \in 1..(1 + End)
    BY <1>2
  <2>2. f[1] = Saved!Count(n)
    BY <1>2, <1>6, <2>1
  <2>3. f[1].tag = "count" /\ f[1].n = n
    BY <2>2 DEF Saved!Count
  <2>4. Saved!StoredCount(f) = IF n >= (W - 1) \div 2 THEN 0 ELSE n
    BY <2>3 DEF Saved!StoredCount
  <2>5. CASE n = 0
    BY <2>4, <2>5
  <2>6. CASE n # 0
    <3>1. n \in 1..n /\ 1 \in 1..Size[l[n]]
      BY <1>1, <2>6
    <3>2. D(n) + 1 <= End /\ D(n) >= 2 * n /\ D(n) \in Nat
      BY <1>2, <1>4, <3>1
    <3>3. 2 * n + 3 <= W
      BY <1>1, <1>2, <1>3, <3>2
    <3> HIDE DEF W, n
    <3>4. ~(n >= (W - 1) \div 2)
      BY <1>1, <1>3, <3>3
    <3> QED BY <2>4, <3>4
  <2> QED BY <2>5, <2>6
<1>8. ASSUME NEW k \in 0..n - 1
      PROVE  /\ Saved!Raw(f, 2 * k) = IdWord(l[k + 1])
             /\ Saved!Raw(f, 2 * k + 1) = StartWord(D(k + 1))
             /\ D(k + 1) + Size[l[k + 1]] < W - 1
  <2> DEFINE m == k + 1
  <2>1. m \in 1..n /\ 2 * k + 2 = 2 * m /\ (2 * k + 1) + 2 = 2 * m + 1
    BY <1>1
  <2>2. 2 * m \in 1..(1 + End) /\ 2 * m + 1 \in 1..(1 + End)
    BY <1>1, <1>2, <2>1
  <2> HIDE DEF m
  <2>3. f[2 * m] = IdWord(l[m]) /\ f[2 * m + 1] = StartWord(D(m))
    BY <1>2, <1>6, <2>1, <2>2
  <2>4. D(m) + Size[l[m]] <= End /\ D(m) \in Nat /\ Size[l[m]] \in Nat
    <3>1. Size[l[m]] \in 1..Size[l[m]]
      BY <1>1, <2>1
    <3> QED BY <1>1, <1>2, <1>4, <2>1, <3>1
  <2>5. D(m) + Size[l[m]] < W - 1
    BY <1>2, <1>3, <2>4
  <2>6. Saved!Raw(f, 2 * k) = f[2 * m] /\ Saved!Raw(f, 2 * k + 1) = f[2 * m + 1]
    BY <2>1 DEF Saved!Raw
  <2> QED BY <2>3, <2>5, <2>6 DEF m
<1>9. Saved!Found(f, id) = {k \in 0..n - 1 : l[k + 1] = id}
  <2>1. ASSUME NEW k \in 0..n - 1
        PROVE  (/\ Saved!Raw(f, 2 * k) = [tag |-> "id", id |-> id]
                /\ Saved!Raw(f, 2 * k + 1).tag = "start"
                /\ Saved!Raw(f, 2 * k + 1).n + Size[id] < Saved!Words - 1)
               <=> l[k + 1] = id
    <3>1. Saved!Raw(f, 2 * k) = [tag |-> "id", id |-> id] <=> l[k + 1] = id
      <4>1. Saved!Raw(f, 2 * k) = IdWord(l[k + 1])
        BY <1>8
      <4> QED BY <4>1 DEF IdWord
    <3>2. /\ Saved!Raw(f, 2 * k + 1).tag = "start"
          /\ Saved!Raw(f, 2 * k + 1).n = D(k + 1)
      <4>1. Saved!Raw(f, 2 * k + 1) = StartWord(D(k + 1))
        BY <1>8
      <4> QED BY <4>1 DEF StartWord
    <3>3. l[k + 1] = id => Saved!Raw(f, 2 * k + 1).n + Size[id] < Saved!Words - 1
      BY <1>8, <3>2
    <3> QED BY <3>1, <3>2, <3>3
  <2> QED BY <1>7, <2>1 DEF Saved!Found
<1>10. CASE ~Saved!In(id, l)
  <2>1. Saved!Found(f, id) = {}
    <3>1. \A k \in 1..n : l[k] # id
      BY <1>1, <1>10 DEF Saved!In
    <3>2. ASSUME NEW k \in 0..n - 1 PROVE l[k + 1] # id
      <4>1. k + 1 \in 1..n
        BY <1>1
      <4> QED BY <3>1, <4>1
    <3> QED BY <1>9, <3>2
  <2>2. Saved!Load(f, id) = Saved!Default
    BY <2>1 DEF Saved!Load
  <2> QED BY <1>10, <2>2
<1>11. CASE Saved!In(id, l)
  <2>1. PICK m \in 1..n : l[m] = id
    BY <1>1, <1>11 DEF Saved!In
  <2>2. m - 1 \in 0..n - 1 /\ (m - 1) + 1 = m
    BY <1>1
  <2>3. Saved!Found(f, id) = {m - 1}
    <3>1. ASSUME NEW k \in 0..n - 1, l[k + 1] = id PROVE k = m - 1
      <4>1. k + 1 \in 1..n
        BY <1>1
      <4>2. k + 1 = m
        BY <1>1, <2>1, <3>1, <4>1
      <4> QED BY <4>2
    <3> QED BY <1>9, <2>1, <2>2, <3>1
  <2> DEFINE first == CHOOSE k \in Saved!Found(f, id) : \A j \in Saved!Found(f, id) : k <= j
             start == Saved!Raw(f, 2 * first + 1).n
             data == [j \in 1..Size[id] |-> Saved!Raw(f, start + j - 1)]
  <2>4. first = m - 1
    <3>1. \A k \in {m - 1} : \A j \in {m - 1} : k <= j
      BY <2>2
    <3> QED BY <2>3, <3>1
  <2>5. start = D(m)
    <3>1. Saved!Raw(f, 2 * (m - 1) + 1) = StartWord(D(m))
      BY <1>8, <2>2
    <3> HIDE DEF first
    <3> QED BY <2>4, <3>1 DEF StartWord
  <2>6. Saved!Load(f, id) =
          IF data[1].tag = "value" /\ data = Saved!Value(id, data[1].v)
            THEN data[1].v ELSE "garbled"
    BY <2>3 DEF Saved!Load
  <2> HIDE DEF first, start
  <2>7. ASSUME NEW j \in 1..Size[id] PROVE data[j] = ValueWord(v[id], j)
    <3>1. D(m) \in Nat /\ j \in Nat \ {0} /\ Size[id] \in Nat
      BY <1>1, <1>4, <2>1
    <3>2. D(m) + j <= End /\ image[1 + D(m) + j] = ValueWord(v[id], j)
      BY <1>2, <2>1
    <3>3. 1 + D(m) + j \in 1..(1 + End) /\ (D(m) + j - 1) + 2 = 1 + D(m) + j
      <4> DEFINE y == D(m)
      <4>1. y \in Nat /\ y + j <= End /\ End \in Nat
        BY <1>2, <3>1, <3>2
      <4> HIDE DEF y
      <4>2. 1 + y + j \in 1..(1 + End) /\ (y + j - 1) + 2 = 1 + y + j
        BY <3>1, <4>1
      <4> QED BY <4>2 DEF y
    <3>4. data[j] = f[1 + D(m) + j]
      BY <2>5, <3>3 DEF Saved!Raw
    <3> QED BY <1>6, <3>2, <3>3, <3>4
  <2>8. 1 \in 1..Size[id]
    BY FlashAssumption
  <2>9. data[1].tag = "value" /\ data[1].v = v[id]
    <3>1. data[1] = ValueWord(v[id], 1)
      BY <2>7, <2>8
    <3> HIDE DEF data
    <3> QED BY <3>1 DEF ValueWord
  <2>10. data = Saved!Value(id, v[id])
    <3>1. data = [j \in 1..Size[id] |-> data[j]]
      OBVIOUS
    <3> HIDE DEF data
    <3>2. data = [j \in 1..Size[id] |-> ValueWord(v[id], j)]
      BY <2>7, <3>1
    <3> QED BY <3>2 DEF Saved!Value, ValueWord
  <2> HIDE DEF data
  <2>11. Saved!Load(f, id) = v[id]
    BY <2>6, <2>9, <2>10
  <2> QED BY <1>11, <2>11
<1> QED BY <1>10, <1>11

(* As long as nothing is erased, what would be loaded is what was saved;   *)
(* sectors are erased from the first one on, which has the count.          *)
Loaded == [id \in Ids |-> Saved!Load(flash, id)]
SavedInv ==
  /\ list \in Firmwares
  /\ flashJob \in [op : {"none", "save", "erase", "program"}, at : Nat]
  /\ flashJob.op = "none" => Loaded = stored
  /\ flashJob.op \in {"save", "erase"} =>
       /\ flashJob.at < Sectors
       /\ IF flashJob.at = 0 THEN Loaded = stored
          ELSE \A w \in 1..Saved!Words : (w - 1) \div Sector < flashJob.at =>
                 flash[w] = Saved!Erased
  /\ flashJob.op = "program" =>
       flashJob.at = 0 /\ \A w \in 1..Saved!Words : flash[w] = Saved!Erased

LEMMA LoadedNothing == flash[1] = Saved!Erased => Loaded = Saved!NoneStored
  BY NothingLoaded DEF Loaded, Saved!NoneStored

LEMMA LoadedNothingNext == flash'[1] = Saved!Erased => Loaded' = Saved!NoneStored
  BY NothingLoaded DEF Loaded, Saved!NoneStored

LEMMA SavedInit == Saved!Init => SavedInv
<1> SUFFICES ASSUME Saved!Init PROVE SavedInv
  OBVIOUS
<1>1. 1 \in 1..Saved!Words
  BY RegionSize
<1>2. flash[1] = Saved!Erased
  BY <1>1 DEF Saved!Init
<1> QED BY <1>2, LoadedNothing DEF Saved!Init, SavedInv, Saved!Idle

LEMMA SavedNothing == SavedInv => Saved!AllOrNothing
<1> SUFFICES ASSUME SavedInv, Loaded # stored
             PROVE  flashJob # Saved!Idle /\ Loaded = Saved!NoneStored
  BY DEF Saved!AllOrNothing, Loaded
<1>1. 1 \in 1..Saved!Words /\ (1 - 1) \div Sector = 0
  BY RegionSize, FlashAssumption
<1>2. flashJob.op # "none"
  BY DEF SavedInv
<1>3. flash[1] = Saved!Erased
  <2>1. CASE flashJob.op = "program"
    BY <1>1, <2>1 DEF SavedInv
  <2>2. CASE flashJob.op # "program"
    <3>1. flashJob.op \in {"save", "erase"} /\ flashJob.at \in Nat /\ flashJob.at # 0
      BY <1>2, <2>2 DEF SavedInv
    <3> QED BY <1>1, <3>1 DEF SavedInv
  <2> QED BY <2>1, <2>2
<1> QED BY <1>2, <1>3, LoadedNothing DEF Saved!Idle

LEMMA EraseKeeps == SavedInv /\ Saved!EraseSector => SavedInv'
<1> SUFFICES ASSUME SavedInv, Saved!EraseSector PROVE SavedInv'
  OBVIOUS
<1> DEFINE k == flashJob.at
           W == Saved!Words
<1>1. /\ flashJob.op \in {"save", "erase"} /\ k \in Nat /\ k < Sectors
      /\ list' \in Firmwares /\ Sectors \in Nat
  BY FlashAssumption DEF Saved!EraseSector, SavedInv
<1>2. ASSUME NEW w \in 1..W, (w - 1) \div Sector < k + 1
      PROVE  flash'[w] = Saved!Erased
  <2> DEFINE q == (w - 1) \div Sector
  <2>1. flash'[w] = IF q = k THEN Saved!Erased ELSE flash[w]
    BY DEF Saved!EraseSector
  <2>2. q \in Nat /\ q < k + 1
    BY <1>2, RegionSize
  <2>3. q < k => flash[w] = Saved!Erased
    BY <1>1, <2>2 DEF SavedInv
  <2> HIDE DEF q, k
  <2> QED BY <1>1, <2>1, <2>2, <2>3
<1>3. CASE k + 1 < Sectors
  <2>1. flashJob' = [flashJob EXCEPT !.at = @ + 1]
    BY <1>3 DEF Saved!EraseSector
  <2>2. /\ flashJob' \in [op : {"none", "save", "erase", "program"}, at : Nat]
        /\ flashJob'.op = flashJob.op /\ flashJob'.at = k + 1
    BY <2>1 DEF SavedInv
  <2> QED BY <1>1, <1>2, <1>3, <2>2 DEF SavedInv
<1>4. CASE ~(k + 1 < Sectors)
  <2>1. ASSUME NEW w \in 1..W PROVE flash'[w] = Saved!Erased
    <3>1. (w - 1) \div Sector \in 0..Sectors - 1
      BY RegionSize
    <3>2. (w - 1) \div Sector < k + 1
      BY <1>1, <1>4, <3>1
    <3> QED BY <1>2, <3>2
  <2>2. stored' = Saved!NoneStored /\ Loaded' = Saved!NoneStored
    <3>1. 1 \in 1..W
      BY RegionSize
    <3>2. flash'[1] = Saved!Erased
      BY <2>1, <3>1
    <3> QED BY <1>4, <3>2, LoadedNothingNext DEF Saved!EraseSector
  <2>3. flashJob' \in {[op |-> "program", at |-> 0], [op |-> "none", at |-> 0]}
    BY <1>4 DEF Saved!EraseSector, Saved!Idle
  <2>4. /\ flashJob' \in [op : {"none", "save", "erase", "program"}, at : Nat]
        /\ flashJob'.op \in {"program", "none"} /\ flashJob'.at = 0
    BY <2>3
  <2> QED BY <1>1, <2>1, <2>2, <2>4 DEF SavedInv
<1> QED BY <1>3, <1>4

LEMMA ProgramKeeps == SavedInv /\ Saved!ProgramPage => SavedInv'
<1> SUFFICES ASSUME SavedInv, Saved!ProgramPage PROVE SavedInv'
  OBVIOUS
<1> DEFINE image == Saved!Image(list, ram)
           W == Saved!Words
<1>1. /\ list \in Firmwares /\ list' = list /\ flashJob.at = 0
      /\ \A w \in 1..W : flash[w] = Saved!Erased
  BY DEF Saved!ProgramPage, SavedInv
<1>2. \A w \in 1..W : flash'[w] =
        IF (w - 1) \div Page = flashJob.at
          THEN Saved!Programmed(flash[w], Saved!Written(image, w)) ELSE flash[w]
  BY DEF Saved!ProgramPage
<1>3. Len(image) \in 1..Page /\ Page \in Nat \ {0} /\ Page < W /\ W \in Nat
  BY <1>1, ImageFits
<1>4. ASSUME NEW w \in 1..Len(image) PROVE flash'[w] = image[w]
  <2>1. w \in 1..W /\ (w - 1) \div Page = 0
    <3> DEFINE m == Len(image)
    <3>1. m \in 1..Page /\ w \in 1..m
      BY <1>3
    <3> HIDE DEF m, W
    <3> QED BY <1>3, <3>1
  <2> HIDE DEF image
  <2>2. flash[w] = Saved!Erased /\ flash'[w] = Saved!Programmed(flash[w], Saved!Written(image, w))
    BY <1>1, <1>2, <2>1
  <2>3. Saved!Written(image, w) = image[w]
    BY <1>3 DEF Saved!Written
  <2> QED BY <2>2, <2>3 DEF Saved!Programmed
<1>5. Saved!Pages(image) = 1
  <2> DEFINE m == Len(image)
  <2>1. Saved!Pages(image) = (m + Page - 1) \div Page
    BY DEF Saved!Pages
  <2>2. m \in 1..Page
    BY <1>3
  <2> HIDE DEF m, W
  <2>3. (m + Page - 1) \div Page = 1
    BY <1>3, <2>2
  <2> QED BY <2>1, <2>3
<1> DEFINE kept == [id \in Ids |-> IF Saved!In(id, list) THEN ram[id] ELSE Saved!Default]
<1>6. flashJob' = Saved!Idle /\ stored' = kept
  BY <1>1, <1>5 DEF Saved!ProgramPage
<1>7. Loaded' = kept
  <2>1. ASSUME NEW id \in Ids PROVE Saved!Load(flash', id) = kept[id]
    <3>1. \A w \in 1..Len(image) : flash'[w] = image[w]
      BY <1>4
    <3>2. Saved!Load(flash', id) = IF Saved!In(id, list) THEN ram[id] ELSE Saved!Default
      BY <1>1, <3>1, SavedIsLoaded
    <3> QED BY <3>2
  <2>2. Loaded' = [id \in Ids |-> Saved!Load(flash', id)]
    BY DEF Loaded
  <2> QED BY <2>1, <2>2
<1> HIDE DEF kept
<1>8. /\ flashJob' \in [op : {"none", "save", "erase", "program"}, at : Nat]
      /\ flashJob'.op = "none"
  BY <1>6 DEF Saved!Idle
<1> QED BY <1>1, <1>6, <1>7, <1>8 DEF SavedInv

LEMMA SavedStep == SavedInv /\ [Saved!Next]_(Saved!vars) => SavedInv'
<1> SUFFICES ASSUME SavedInv, [Saved!Next]_(Saved!vars) PROVE SavedInv'
  OBVIOUS
<1>1. flash' = flash => Loaded' = Loaded
  BY DEF Loaded
<1>2. CASE Saved!Set
  BY <1>1, <1>2 DEF Saved!Set, SavedInv
<1>3. CASE Saved!Start
  <2>1. flash' = flash /\ list' = list /\ stored' = stored /\ flashJob.op = "none"
    BY <1>3 DEF Saved!Start, Saved!Idle
  <2>2. PICK op \in {"save", "erase"} : flashJob' = [op |-> op, at |-> 0]
    BY <1>3 DEF Saved!Start
  <2>3. /\ flashJob' \in [op : {"none", "save", "erase", "program"}, at : Nat]
        /\ flashJob'.op \in {"save", "erase"} /\ flashJob'.at = 0
    BY <2>2
  <2>4. 0 < Sectors
    BY FlashAssumption
  <2> QED BY <1>1, <2>1, <2>3, <2>4 DEF SavedInv
<1>4. CASE Saved!EraseSector
  BY <1>4, EraseKeeps
<1>5. CASE Saved!ProgramPage
  BY <1>5, ProgramKeeps
<1>6. CASE Saved!Restart
  <2>1. Loaded' = stored'
    BY <1>6 DEF Saved!Restart, Loaded
  <2>2. flashJob' = [op |-> "none", at |-> 0] /\ list' \in Firmwares
    BY <1>6 DEF Saved!Restart, Saved!Idle
  <2>3. /\ flashJob' \in [op : {"none", "save", "erase", "program"}, at : Nat]
        /\ flashJob'.op = "none"
    BY <2>2
  <2> QED BY <2>1, <2>2, <2>3 DEF SavedInv
<1>7. CASE UNCHANGED Saved!vars
  BY <1>1, <1>7 DEF Saved!vars, SavedInv
<1> QED BY <1>2, <1>3, <1>4, <1>5, <1>6, <1>7 DEF Saved!Next

-----------------------------------------------------------------------------
(* The ring of elements. *)

Circle(nx) == {n \in Ring!Nodes : n = ListHead \/ nx[n] # n}

(* There is an order of the nodes in the ring, in which each one's next is *)
(* the one that follows it, from the head on: m \in R[n] if m comes later. *)
RingOrder(nx, R) ==
  /\ \A n \in Circle(nx) : n \notin R[n]
  /\ \A m, n \in Circle(nx) : m = n \/ m \in R[n] \/ n \in R[m]
  /\ \A k, m, n \in Circle(nx) : m \in R[k] /\ n \in R[m] => n \in R[k]
  /\ \A n \in Circle(nx) : n # ListHead => n \in R[ListHead]
  /\ \A n \in Circle(nx) : nx[n] \in Circle(nx)
  /\ \A n \in Circle(nx) : nx[n] # ListHead => nx[n] \in R[n]
  /\ \A m, n \in Circle(nx) : nx[n] # ListHead /\ m \in R[n] => m = nx[n] \/ m \in R[nx[n]]
  /\ \A m, n \in Circle(nx) : nx[n] = ListHead => m \notin R[n]

Pointers(nx, pv) ==
  /\ nx \in [Ring!Nodes -> Ring!Nodes] /\ pv \in [Ring!Nodes -> Ring!Nodes]
  /\ \A n \in Ring!Nodes : pv[nx[n]] = n /\ nx[pv[n]] = n

InsertedNext(nx, x, e) == [nx EXCEPT ![e] = nx[x], ![x] = e]
InsertedPrev(nx, pv, x, e) == [pv EXCEPT ![nx[x]] = e, ![e] = x]
RemovedNext(nx, pv, e) == [nx EXCEPT ![pv[e]] = nx[e], ![e] = e]
RemovedPrev(nx, pv, e) == [pv EXCEPT ![nx[e]] = pv[e], ![e] = e]
InsertedOrder(R, x, e) ==
  [n \in Ring!Nodes |-> IF n = e THEN R[x] \ {e}
                       ELSE IF n = x \/ x \in R[n] THEN R[n] \cup {e} ELSE R[n] \ {e}]

(* The ring nx with e behind x is nn. *)
HasBehind(nx, nn, x, e) ==
  /\ Circle(nn) = Circle(nx) \cup {e}
  /\ \A n \in Circle(nx) : nn[n] = IF n = x THEN e ELSE nx[n]
  /\ nn[e] = nx[x]

LEMMA InsertedPointers ==
  ASSUME NEW nx, NEW pv, NEW x \in Circle(nx), NEW e \in Ring!Nodes \ Circle(nx),
         Pointers(nx, pv)
  PROVE  /\ Pointers(InsertedNext(nx, x, e), InsertedPrev(nx, pv, x, e))
         /\ HasBehind(nx, InsertedNext(nx, x, e), x, e)
<1> DEFINE y == nx[x]
           nn == InsertedNext(nx, x, e)
           np == InsertedPrev(nx, pv, x, e)
<1>1. /\ x \in Ring!Nodes /\ y \in Ring!Nodes /\ e # x /\ e # ListHead /\ nx[e] = e
      /\ nx \in [Ring!Nodes -> Ring!Nodes] /\ pv \in [Ring!Nodes -> Ring!Nodes]
  BY DEF Circle, Pointers
<1>2. \A n \in Ring!Nodes : nx[n] \in Ring!Nodes /\ pv[n] \in Ring!Nodes
                            /\ pv[nx[n]] = n /\ nx[pv[n]] = n
  BY DEF Pointers
<1>3. y # e /\ pv[y] = x /\ pv[e] = e
  BY <1>1, <1>2
<1>4. nn \in [Ring!Nodes -> Ring!Nodes]
      /\ \A n \in Ring!Nodes : nn[n] = IF n = x THEN e ELSE IF n = e THEN y ELSE nx[n]
  BY <1>1 DEF InsertedNext
<1>5. np \in [Ring!Nodes -> Ring!Nodes]
      /\ \A n \in Ring!Nodes : np[n] = IF n = e THEN x ELSE IF n = y THEN e ELSE pv[n]
  BY <1>1 DEF InsertedPrev
<1> HIDE DEF nn, np, y
<1>6. ASSUME NEW n \in Ring!Nodes PROVE np[nn[n]] = n
  <2>1. CASE n = x
    BY <1>1, <1>4, <1>5, <2>1
  <2>2. CASE n = e
    BY <1>1, <1>3, <1>4, <1>5, <2>2
  <2>3. CASE n # x /\ n # e
    <3>1. nn[n] = nx[n] /\ nx[n] # e /\ nx[n] # y /\ nx[n] \in Ring!Nodes
      BY <1>2, <1>3, <1>4, <2>3
    <3> QED BY <1>2, <1>5, <3>1
  <2> QED BY <2>1, <2>2, <2>3
<1>7. ASSUME NEW n \in Ring!Nodes PROVE nn[np[n]] = n
  <2>1. CASE n = e
    BY <1>1, <1>4, <1>5, <2>1
  <2>2. CASE n = y /\ n # e
    BY <1>1, <1>3, <1>4, <1>5, <2>2
  <2>3. CASE n # y /\ n # e
    <3>1. np[n] = pv[n] /\ pv[n] # e /\ pv[n] # x /\ pv[n] \in Ring!Nodes
      BY <1>1, <1>2, <1>3, <1>5, <2>3 DEF y
    <3> QED BY <1>2, <1>4, <3>1
  <2> QED BY <2>1, <2>2, <2>3
<1>8. Circle(nn) = Circle(nx) \cup {e}
  BY <1>1, <1>3, <1>4 DEF Circle
<1>9. \A n \in Circle(nx) : nn[n] = IF n = x THEN e ELSE nx[n]
  BY <1>4 DEF Circle
<1> QED BY <1>1, <1>4, <1>5, <1>6, <1>7, <1>8, <1>9 DEF Pointers, HasBehind, nn, np, y

(* The two orders of the nodes C are the same. *)
SameOrder(R, Q, C) == \A m, n \in C : m \in Q[n] <=> m \in R[n]

(* The order R with e behind x. *)
OrderBehind(nx, nn, R, x, e) ==
  \E Q : /\ RingOrder(nn, Q) /\ SameOrder(R, Q, Circle(nx))
         /\ \A n \in Circle(nx) : e \in Q[n] <=> n = x \/ x \in R[n]

LEMMA InsertedInOrder ==
  ASSUME NEW nx, NEW nn, NEW R, NEW x \in Circle(nx), NEW e \in Ring!Nodes \ Circle(nx),
         HasBehind(nx, nn, x, e), RingOrder(nx, R)
  PROVE  OrderBehind(nx, nn, R, x, e)
<1> DEFINE Q == InsertedOrder(R, x, e)
           C == Circle(nx)
<1>1. C \subseteq Ring!Nodes /\ e \notin C /\ e # ListHead /\ e \in Ring!Nodes
  BY DEF Circle
<1>2. /\ Circle(nn) = C \cup {e} /\ nn[e] = nx[x]
      /\ \A n \in C : nn[n] = IF n = x THEN e ELSE nx[n]
  BY DEF HasBehind
<1>3. /\ \A m, n \in C : m \in Q[n] <=> m \in R[n]
      /\ \A n \in C : e \in Q[n] <=> n = x \/ x \in R[n]
      /\ \A m \in C : m \in Q[e] <=> m \in R[x]
      /\ e \notin Q[e]
  BY <1>1 DEF InsertedOrder
<1>4. /\ \A n \in C : n \notin R[n]
      /\ \A m, n \in C : m = n \/ m \in R[n] \/ n \in R[m]
      /\ \A k, m, n \in C : m \in R[k] /\ n \in R[m] => n \in R[k]
      /\ \A n \in C : n # ListHead => n \in R[ListHead]
      /\ \A n \in C : nx[n] \in C
      /\ \A n \in C : nx[n] # ListHead => nx[n] \in R[n]
      /\ \A m, n \in C : nx[n] # ListHead /\ m \in R[n] => m = nx[n] \/ m \in R[nx[n]]
      /\ \A m, n \in C : nx[n] = ListHead => m \notin R[n]
  BY DEF RingOrder
<1>5. ListHead \in C
  BY DEF Circle, Ring!Nodes
<1> HIDE DEF Q, C
<1>6. x \in C
  BY DEF C
<1> DEFINE S == C \cup {e}
<1>7. \A n \in S : n \notin Q[n]
  BY <1>3, <1>4
<1>8. \A m, n \in S : m = n \/ m \in Q[n] \/ n \in Q[m]
  BY <1>3, <1>4, <1>6
<1>9. ASSUME NEW k \in S, NEW m \in S, NEW n \in S, m \in Q[k], n \in Q[m]
      PROVE  n \in Q[k]
  <2>1. CASE k = e
    BY <1>3, <1>4, <1>6, <1>9, <2>1
  <2>2. CASE k # e /\ m = e
    BY <1>3, <1>4, <1>6, <1>9, <2>2
  <2>3. CASE k # e /\ m # e /\ n = e
    BY <1>3, <1>4, <1>6, <1>9, <2>3
  <2>4. CASE k # e /\ m # e /\ n # e
    BY <1>3, <1>4, <1>9, <2>4
  <2> QED BY <2>1, <2>2, <2>3, <2>4
<1>10. \A n \in S : n # ListHead => n \in Q[ListHead]
  BY <1>3, <1>4, <1>5, <1>6
<1>11. \A n \in S : nn[n] \in S
  BY <1>2, <1>4, <1>6
<1>12. ASSUME NEW n \in S, nn[n] # ListHead PROVE nn[n] \in Q[n]
  <2>1. CASE n = e
    BY <1>2, <1>3, <1>4, <1>6, <1>12, <2>1
  <2>2. CASE n = x
    BY <1>2, <1>3, <1>6, <2>2
  <2>3. CASE n # e /\ n # x
    BY <1>2, <1>3, <1>4, <1>12, <2>3
  <2> QED BY <2>1, <2>2, <2>3
<1>13. ASSUME NEW m \in S, NEW n \in S, nn[n] # ListHead, m \in Q[n]
       PROVE  m = nn[n] \/ m \in Q[nn[n]]
  <2>1. CASE n = e
    BY <1>2, <1>3, <1>4, <1>6, <1>13, <2>1
  <2>2. CASE n = x
    BY <1>1, <1>2, <1>3, <1>6, <1>13, <2>2 DEF C
  <2>3. CASE n # e /\ n # x
    <3>1. n \in C /\ nn[n] = nx[n] /\ nx[n] \in C /\ nx[n] # ListHead
      BY <1>2, <1>4, <1>13, <2>3
    <3>2. CASE m = e
      <4>1. x \in R[n]
        BY <1>3, <1>13, <2>3, <3>1, <3>2
      <4>2. x = nx[n] \/ x \in R[nx[n]]
        BY <1>4, <1>6, <3>1, <4>1
      <4> QED BY <1>3, <3>1, <3>2, <4>2
    <3>3. CASE m # e
      BY <1>3, <1>4, <1>13, <3>1, <3>3
    <3> QED BY <3>2, <3>3
  <2> QED BY <2>1, <2>2, <2>3
<1>14. ASSUME NEW m \in S, NEW n \in S, nn[n] = ListHead PROVE m \notin Q[n]
  <2>1. CASE n = e
    BY <1>2, <1>3, <1>4, <1>6, <1>14, <2>1
  <2>2. CASE n = x
    BY <1>1, <1>2, <1>6, <1>14, <2>2
  <2>3. CASE n # e /\ n # x
    BY <1>2, <1>3, <1>4, <1>6, <1>14, <2>3
  <2> QED BY <2>1, <2>2, <2>3
<1>15. RingOrder(nn, Q)
  BY <1>2, <1>7, <1>8, <1>9, <1>10, <1>11, <1>12, <1>13, <1>14 DEF RingOrder
<1>16. SameOrder(R, Q, C) /\ \A n \in C : e \in Q[n] <=> n = x \/ x \in R[n]
  BY <1>3 DEF SameOrder
<1> QED BY <1>15, <1>16 DEF OrderBehind, C

(* The ring nx without e is nn. *)
HasNot(nx, nn, e) ==
  /\ Circle(nn) = Circle(nx) \ {e}
  /\ \A n \in Circle(nx) \ {e} : nn[n] = IF nx[n] = e THEN nx[e] ELSE nx[n]

LEMMA RemovedPointers ==
  ASSUME NEW nx, NEW pv, NEW R, NEW e \in Circle(nx) \ {ListHead},
         Pointers(nx, pv), RingOrder(nx, R)
  PROVE  /\ Pointers(RemovedNext(nx, pv, e), RemovedPrev(nx, pv, e))
         /\ HasNot(nx, RemovedNext(nx, pv, e), e)
<1> DEFINE x == pv[e]
           y == nx[e]
           nn == RemovedNext(nx, pv, e)
           np == RemovedPrev(nx, pv, e)
<1>1. /\ e \in Ring!Nodes /\ e # ListHead /\ nx[e] # e
      /\ nx \in [Ring!Nodes -> Ring!Nodes] /\ pv \in [Ring!Nodes -> Ring!Nodes]
      /\ x \in Ring!Nodes /\ y \in Ring!Nodes
  BY DEF Circle, Pointers
<1>2. \A n \in Ring!Nodes : nx[n] \in Ring!Nodes /\ pv[n] \in Ring!Nodes
                            /\ pv[nx[n]] = n /\ nx[pv[n]] = n
  BY DEF Pointers
<1>3. nx[x] = e /\ pv[y] = e /\ x # e /\ y # e /\ x \in Circle(nx)
  BY <1>1, <1>2 DEF Circle
<1>4. nn \in [Ring!Nodes -> Ring!Nodes]
      /\ \A n \in Ring!Nodes : nn[n] = IF n = e THEN e ELSE IF n = x THEN y ELSE nx[n]
  BY <1>1 DEF RemovedNext
<1>5. np \in [Ring!Nodes -> Ring!Nodes]
      /\ \A n \in Ring!Nodes : np[n] = IF n = e THEN e ELSE IF n = y THEN x ELSE pv[n]
  BY <1>1 DEF RemovedPrev
<1>6. x # ListHead => x # y
  <2> SUFFICES ASSUME x # ListHead, x = y PROVE FALSE
    OBVIOUS
  <2>1. e \in R[x] /\ x \in R[e] /\ e \in Circle(nx) /\ x \in Circle(nx)
    BY <1>1, <1>3 DEF RingOrder
  <2> QED
    BY <2>1 DEF RingOrder
<1> HIDE DEF nn, np, x, y
<1>7. ASSUME NEW n \in Ring!Nodes PROVE np[nn[n]] = n
  <2>1. CASE n = e
    BY <1>1, <1>4, <1>5, <2>1
  <2>2. CASE n = x /\ n # e
    BY <1>1, <1>3, <1>4, <1>5, <2>2
  <2>3. CASE n # x /\ n # e
    <3>1. nn[n] = nx[n] /\ nx[n] # e /\ nx[n] # y /\ nx[n] \in Ring!Nodes
      BY <1>1, <1>2, <1>3, <1>4, <2>3 DEF x
    <3> QED BY <1>2, <1>5, <3>1
  <2> QED BY <2>1, <2>2, <2>3
<1>8. ASSUME NEW n \in Ring!Nodes PROVE nn[np[n]] = n
  <2>1. CASE n = e
    BY <1>1, <1>4, <1>5, <2>1
  <2>2. CASE n = y /\ n # e
    BY <1>1, <1>3, <1>4, <1>5, <2>2
  <2>3. CASE n # y /\ n # e
    <3>1. np[n] = pv[n] /\ pv[n] # e /\ pv[n] # x /\ pv[n] \in Ring!Nodes
      BY <1>1, <1>2, <1>3, <1>5, <2>3 DEF y
    <3> QED BY <1>2, <1>4, <3>1
  <2> QED BY <2>1, <2>2, <2>3
<1>9. Circle(nn) = Circle(nx) \ {e}
  BY <1>1, <1>3, <1>4, <1>6 DEF Circle
<1>10. ASSUME NEW n \in Circle(nx) \ {e}
       PROVE  nn[n] = IF nx[n] = e THEN nx[e] ELSE nx[n]
  <2>1. n \in Ring!Nodes /\ n # e
    BY DEF Circle
  <2>2. nx[n] = e <=> n = x
    BY <1>2, <1>3, <2>1 DEF x
  <2> QED BY <1>4, <2>1, <2>2 DEF y
<1> QED BY <1>4, <1>5, <1>7, <1>8, <1>9, <1>10 DEF Pointers, HasNot, nn, np

LEMMA RemovedInOrder ==
  ASSUME NEW nx, NEW nn, NEW R, NEW e \in Circle(nx) \ {ListHead},
         HasNot(nx, nn, e), RingOrder(nx, R)
  PROVE  RingOrder(nn, R)
<1> DEFINE C == Circle(nx)
           S == C \ {e}
<1>1. Circle(nn) = S /\ \A n \in S : nn[n] = IF nx[n] = e THEN nx[e] ELSE nx[n]
  BY DEF HasNot
<1>2. e \in C /\ e # ListHead
  OBVIOUS
<1>4. /\ \A n \in C : n \notin R[n]
      /\ \A m, n \in C : m = n \/ m \in R[n] \/ n \in R[m]
      /\ \A k, m, n \in C : m \in R[k] /\ n \in R[m] => n \in R[k]
      /\ \A n \in C : n # ListHead => n \in R[ListHead]
      /\ \A n \in C : nx[n] \in C
      /\ \A n \in C : nx[n] # ListHead => nx[n] \in R[n]
      /\ \A m, n \in C : nx[n] # ListHead /\ m \in R[n] => m = nx[n] \/ m \in R[nx[n]]
      /\ \A m, n \in C : nx[n] = ListHead => m \notin R[n]
  BY DEF RingOrder
<1> HIDE DEF C
<1>5. \A n \in S : n \notin R[n]
  BY <1>4
<1>6. \A m, n \in S : m = n \/ m \in R[n] \/ n \in R[m]
  BY <1>4
<1>7. \A k, m, n \in S : m \in R[k] /\ n \in R[m] => n \in R[k]
  BY <1>4
<1>8. \A n \in S : n # ListHead => n \in R[ListHead]
  BY <1>4
<1>9. ASSUME NEW n \in S PROVE nn[n] \in S
  <2>1. nx[e] # e
    BY <1>2, <1>4
  <2> QED BY <1>1, <1>2, <1>4, <2>1
<1>10. ASSUME NEW n \in S, nn[n] # ListHead PROVE nn[n] \in R[n]
  <2>1. CASE nx[n] = e
    BY <1>1, <1>2, <1>4, <1>10, <2>1
  <2>2. CASE nx[n] # e
    BY <1>1, <1>4, <1>10, <2>2
  <2> QED BY <2>1, <2>2
<1>11. ASSUME NEW m \in S, NEW n \in S, nn[n] # ListHead, m \in R[n]
       PROVE  m = nn[n] \/ m \in R[nn[n]]
  <2>1. CASE nx[n] = e
    BY <1>1, <1>2, <1>4, <1>11, <2>1
  <2>2. CASE nx[n] # e
    BY <1>1, <1>4, <1>11, <2>2
  <2> QED BY <2>1, <2>2
<1>12. ASSUME NEW m \in S, NEW n \in S, nn[n] = ListHead PROVE m \notin R[n]
  <2>1. CASE nx[n] = e
    BY <1>1, <1>2, <1>4, <1>12, <2>1
  <2>2. CASE nx[n] # e
    BY <1>1, <1>4, <1>12, <2>2
  <2> QED BY <2>1, <2>2
<1> QED
  BY <1>1, <1>5, <1>6, <1>7, <1>8, <1>9, <1>10, <1>11, <1>12 DEF RingOrder

-----------------------------------------------------------------------------
(* The iteration. *)

(* Between two elements the iterator is in the ring; whoever was there all *)
(* the time has been visited if and only if the iterator has passed it.    *)
Between == step \in {"begin", "remove", "insert"}
Counted(R) ==
  /\ Between => \A e \in staying : visits[e] = IF element = ListHead \/ element \in R[e]
                                                 THEN 1 ELSE 0
  /\ step = "body" => \A e \in staying : visits[e] = IF element = ListHead \/ Sentinel \in R[e]
                                                       THEN 1 ELSE 0
  /\ step = "no" => \A e \in staying : visits[e] <= 1
RingInv ==
  /\ Pointers(next, prev)
  /\ step \in {"no", "begin", "body", "remove", "insert"}
  /\ element \in Elements \cup {ListHead}
  /\ visits \in [Elements -> Nat]
  /\ staying \subseteq Elements \cap Circle(next)
  /\ Sentinel \in Circle(next) <=> step \in {"body", "remove"}
  /\ Between => element \in Circle(next)
  /\ \E R : RingOrder(next, R) /\ Counted(R)

LEMMA RingInit == Ring!Init => RingInv
<1> SUFFICES ASSUME Ring!Init PROVE RingInv
  OBVIOUS
<1>1. /\ next = [n \in Ring!Nodes |-> n] /\ prev = [n \in Ring!Nodes |-> n]
      /\ step = "no" /\ element = ListHead /\ staying = {}
      /\ visits = [e \in Elements |-> 0]
  BY DEF Ring!Init, Ring!Self
<1>2. Pointers(next, prev)
  BY <1>1 DEF Pointers
<1>3. Circle(next) = {ListHead}
  BY <1>1 DEF Circle, Ring!Nodes
<1> DEFINE R == [n \in Ring!Nodes |-> {}]
<1>4. ListHead \in Ring!Nodes
  BY DEF Ring!Nodes
<1>5. RingOrder(next, R)
  BY <1>1, <1>3, <1>4 DEF RingOrder
<1>6. Counted(R)
  BY <1>1 DEF Counted, Between
<1> HIDE DEF R
<1>7. \E Q : RingOrder(next, Q) /\ Counted(Q)
  BY <1>5, <1>6
<1>8. visits \in [Elements -> Nat]
  BY <1>1
<1> QED
  BY <1>1, <1>2, <1>3, <1>7, <1>8, RingAssumption DEF RingInv, Between

LEMMA RingOnce == RingInv => Ring!VisitsOnce
<1> SUFFICES ASSUME RingInv PROVE Ring!VisitsOnce
  OBVIOUS
<1>1. PICK R : RingOrder(next, R) /\ Counted(R)
  BY DEF RingInv
<1>2. Ring!RingKept
  BY DEF RingInv, Pointers, Ring!RingKept
<1>3. ASSUME NEW e \in staying PROVE visits[e] <= 1
  BY <1>1 DEF RingInv, Counted, Between
<1>4. ASSUME step = "body", element = ListHead PROVE \A e \in staying : visits[e] = 1
  BY <1>1, <1>4 DEF Counted
<1>5. step \in {"body", "remove"} => Sentinel # next[Sentinel]
  BY RingAssumption DEF RingInv, Circle
<1>6. ASSUME Between PROVE element = ListHead \/ element \in Ring!Linked
  BY <1>6 DEF RingInv, Circle, Ring!Linked
<1> QED
  BY <1>2, <1>3, <1>4, <1>5, <1>6 DEF Ring!VisitsOnce, Between

(* A change of the ring that keeps the order of who stays, and whoever the *)
(* iterator is at, is of no concern for it. *)
LEMMA ChangeKeeps ==
  ASSUME RingInv, Pointers(next', prev'), UNCHANGED <<step, element, visits>>,
         staying' \subseteq staying \cap Circle(next'),
         Sentinel \in Circle(next) <=> Sentinel \in Circle(next'),
         Between => element \in Circle(next'),
         NEW R, RingOrder(next, R), Counted(R),
         NEW Q, RingOrder(next', Q), SameOrder(R, Q, Circle(next) \cap Circle(next'))
  PROVE  RingInv'
<1>1. staying' \subseteq Circle(next) \cap Circle(next')
  BY DEF RingInv
<1>2. ASSUME Between', NEW e \in staying'
      PROVE  visits'[e] = IF element' = ListHead \/ element' \in Q[e] THEN 1 ELSE 0
  <2>1. Between /\ element \in Circle(next) \cap Circle(next') /\ e \in staying
    BY <1>2 DEF Between, RingInv
  <2>2. element \in Q[e] <=> element \in R[e]
    BY <1>1, <2>1 DEF SameOrder
  <2>3. visits[e] = IF element = ListHead \/ element \in R[e] THEN 1 ELSE 0
    BY <2>1 DEF Counted
  <2> QED BY <2>2, <2>3
<1>3. ASSUME step' = "body", NEW e \in staying'
      PROVE  visits'[e] = IF element' = ListHead \/ Sentinel \in Q[e] THEN 1 ELSE 0
  <2>1. step = "body" /\ Sentinel \in Circle(next) \cap Circle(next') /\ e \in staying
    BY <1>3 DEF RingInv
  <2>2. Sentinel \in Q[e] <=> Sentinel \in R[e]
    BY <1>1, <2>1 DEF SameOrder
  <2>3. visits[e] = IF element = ListHead \/ Sentinel \in R[e] THEN 1 ELSE 0
    BY <2>1 DEF Counted
  <2> QED BY <2>2, <2>3
<1>4. step' = "no" => \A e \in staying' : visits'[e] <= 1
  BY DEF Counted
<1>5. Counted(Q)'
  BY <1>2, <1>3, <1>4 DEF Counted, Between
<1>6. \E P : RingOrder(next', P) /\ Counted(P)'
  BY <1>5
<1>7. Between' => element' \in Circle(next')
  BY DEF Between
<1> QED
  BY <1>1, <1>6, <1>7 DEF RingInv

(* Whoever registers, wherever it does. *)
LEMMA InsertKeeps ==
  ASSUME RingInv, NEW x \in Circle(next), NEW e \in Elements \ Circle(next),
         next' = InsertedNext(next, x, e), prev' = InsertedPrev(next, prev, x, e),
         UNCHANGED <<step, element, staying, visits>>
  PROVE  RingInv'
<1>1. e \in Ring!Nodes \ Circle(next) /\ e # Sentinel
  BY RingAssumption DEF Ring!Nodes
<1>2. Pointers(next, prev)
  BY DEF RingInv
<1>3. Pointers(next', prev') /\ HasBehind(next, next', x, e)
  BY <1>1, <1>2, InsertedPointers
<1>4. PICK R : RingOrder(next, R) /\ Counted(R)
  BY DEF RingInv
<1>5. OrderBehind(next, next', R, x, e)
  BY <1>1, <1>3, <1>4, InsertedInOrder
<1>6. PICK Q : RingOrder(next', Q) /\ SameOrder(R, Q, Circle(next))
  BY <1>5 DEF OrderBehind
<1>7. Circle(next') = Circle(next) \cup {e}
  BY <1>3 DEF HasBehind
<1>8. SameOrder(R, Q, Circle(next) \cap Circle(next'))
  BY <1>6 DEF SameOrder
<1>9. staying' \subseteq staying \cap Circle(next') /\ (Between => element \in Circle(next'))
  BY <1>7 DEF RingInv
<1> QED
  BY <1>1, <1>3, <1>4, <1>6, <1>7, <1>8, <1>9, ChangeKeeps

(* insertBefore is insertNext of the one before. *)
LEMMA InsertedBefore ==
  ASSUME RingInv, NEW y \in Circle(next), NEW e \in Ring!Nodes \ Circle(next),
         Ring!InsertBefore(y, e)
  PROVE  \E x \in Circle(next) : /\ next' = InsertedNext(next, x, e)
                                 /\ prev' = InsertedPrev(next, prev, x, e)
<1> DEFINE x == prev[y]
<1>1. /\ y \in Ring!Nodes /\ e \in Ring!Nodes /\ e # y /\ x \in Ring!Nodes /\ next[x] = y
      /\ next \in [Ring!Nodes -> Ring!Nodes] /\ prev \in [Ring!Nodes -> Ring!Nodes]
  BY DEF RingInv, Pointers, Circle
<1>2. x \in Circle(next) /\ x # e
  BY <1>1 DEF Circle
<1>3. next' = [next EXCEPT ![x] = e, ![e] = y] /\ prev' = [prev EXCEPT ![e] = x, ![y] = e]
  BY DEF Ring!InsertBefore
<1> HIDE DEF x
<1>4. next' = InsertedNext(next, x, e)
  BY <1>1, <1>2, <1>3 DEF InsertedNext
<1>5. prev' = InsertedPrev(next, prev, x, e)
  BY <1>1, <1>2, <1>3 DEF InsertedPrev
<1> QED BY <1>2, <1>4, <1>5

LEMMA RegisterKeeps == RingInv /\ (Ring!Register \/ Ring!RegisterAt) => RingInv'
<1> SUFFICES ASSUME RingInv, Ring!Register \/ Ring!RegisterAt PROVE RingInv'
  OBVIOUS
<1>1. UNCHANGED <<step, element, staying, visits>>
  BY DEF Ring!Register, Ring!RegisterAt
<1>2. /\ ListHead \in Circle(next)
      /\ \A e \in Elements \ Ring!Linked : e \in Elements \ Circle(next) /\ e \in Ring!Nodes \ Circle(next)
      /\ \A f \in Ring!Linked : f \in Circle(next)
  BY RingAssumption DEF Circle, Ring!Linked, Ring!Nodes
<1>3. CASE \E e \in Elements \ Ring!Linked, y \in Circle(next) : Ring!InsertBefore(y, e)
  <2>1. PICK e \in Elements \ Ring!Linked, y \in Circle(next) : Ring!InsertBefore(y, e)
    BY <1>3
  <2>2. e \in Elements \ Circle(next) /\ e \in Ring!Nodes \ Circle(next)
    BY <1>2
  <2>3. PICK x \in Circle(next) : /\ next' = InsertedNext(next, x, e)
                                  /\ prev' = InsertedPrev(next, prev, x, e)
    BY <2>1, <2>2, InsertedBefore
  <2> QED BY <1>1, <2>2, <2>3, InsertKeeps
<1>4. CASE \E e \in Elements \ Ring!Linked : Ring!InsertNext(ListHead, e)
  <2>1. PICK e \in Elements \ Ring!Linked : Ring!InsertNext(ListHead, e)
    BY <1>4
  <2>2. /\ next' = InsertedNext(next, ListHead, e)
        /\ prev' = InsertedPrev(next, prev, ListHead, e)
    BY <2>1 DEF Ring!InsertNext, InsertedNext, InsertedPrev
  <2>3. e \in Elements \ Circle(next)
    BY <1>2
  <2> QED BY <1>1, <1>2, <2>2, <2>3, InsertKeeps
<1> QED
  BY <1>2, <1>3, <1>4 DEF Ring!Register, Ring!RegisterAt

LEMMA DestroyKeeps == RingInv /\ Ring!Destroy => RingInv'
<1> SUFFICES ASSUME RingInv, Ring!Destroy PROVE RingInv'
  OBVIOUS
<1>1. PICK e \in Ring!Linked : Ring!Unlink(e) /\ staying' = staying \ {e}
  BY DEF Ring!Destroy
<1>2. e \in Circle(next) \ {ListHead} /\ e # Sentinel
  BY RingAssumption DEF Circle, Ring!Linked, Ring!Nodes
<1>3. UNCHANGED <<step, element, visits>> /\ ~ Between
  BY DEF Ring!Destroy, Ring!InBody, Between
<1>4. PICK R : RingOrder(next, R) /\ Counted(R)
  BY DEF RingInv
<1>5. next' = RemovedNext(next, prev, e) /\ prev' = RemovedPrev(next, prev, e)
  BY <1>1 DEF Ring!Unlink, RemovedNext, RemovedPrev
<1>6. Pointers(next, prev)
  BY DEF RingInv
<1>7. Pointers(next', prev') /\ HasNot(next, next', e)
  BY <1>2, <1>4, <1>5, <1>6, RemovedPointers
<1>8. RingOrder(next', R)
  BY <1>2, <1>4, <1>7, RemovedInOrder
<1>9. SameOrder(R, R, Circle(next) \cap Circle(next'))
  BY DEF SameOrder
<1>10. Circle(next') = Circle(next) \ {e}
  BY <1>7 DEF HasNot
<1>11. staying' \subseteq staying \cap Circle(next')
  BY <1>1, <1>10 DEF RingInv
<1> QED
  BY <1>2, <1>3, <1>4, <1>7, <1>8, <1>9, <1>10, <1>11, ChangeKeeps

(* To move is to remove the one, and to insert the other where it was.     *)
LEMMA MoveKeeps == RingInv /\ Ring!Move => RingInv'
<1> SUFFICES ASSUME RingInv, Ring!Move PROVE RingInv'
  OBVIOUS
<1>1. PICK e \in Elements \ Ring!Linked, f \in Ring!Linked :
        Ring!MoveFrom(e, f) /\ staying' = staying \ {f}
  BY DEF Ring!Move
<1>2. /\ f \in Circle(next) \ {ListHead} /\ f # Sentinel /\ f \in Ring!Nodes
      /\ e \in Ring!Nodes \ Circle(next) /\ e # Sentinel /\ e # f /\ next[f] # f
  BY <1>1, RingAssumption DEF Circle, Ring!Linked, Ring!Nodes
<1>3. UNCHANGED <<step, element, visits>> /\ ~ Between
  BY DEF Ring!Move, Ring!InBody, Between
<1>4. PICK R : RingOrder(next, R) /\ Counted(R)
  BY DEF RingInv
<1>5. Pointers(next, prev)
  BY DEF RingInv
<1> DEFINE nn == RemovedNext(next, prev, f)
           np == RemovedPrev(next, prev, f)
           x == prev[f]
           y == next[f]
<1>6. Pointers(nn, np) /\ HasNot(next, nn, f)
  BY <1>2, <1>4, <1>5, RemovedPointers
<1> HIDE DEF nn, np
<1>7. RingOrder(nn, R)
  BY <1>2, <1>4, <1>6, RemovedInOrder
<1>8. Circle(nn) = Circle(next) \ {f}
  BY <1>6 DEF HasNot
<1>9. /\ next \in [Ring!Nodes -> Ring!Nodes] /\ prev \in [Ring!Nodes -> Ring!Nodes]
      /\ x \in Ring!Nodes /\ y \in Ring!Nodes /\ next[x] = f /\ prev[y] = f
  BY <1>2, <1>5 DEF Pointers
<1>10. x # f /\ y # f /\ x \in Circle(next) /\ x # e /\ y # e
  BY <1>2, <1>5, <1>9 DEF Circle, Pointers
<1>11. x \in Circle(nn) /\ e \in Ring!Nodes \ Circle(nn)
  BY <1>2, <1>8, <1>10
<1>12. next' = InsertedNext(nn, x, e) /\ prev' = InsertedPrev(nn, np, x, e)
  <2>1. /\ next' = [next EXCEPT ![e] = y, ![f] = f, ![x] = e]
        /\ prev' = [prev EXCEPT ![e] = x, ![f] = f, ![y] = e]
    BY <1>1 DEF Ring!MoveFrom
  <2>2. nn = [next EXCEPT ![x] = y, ![f] = f] /\ np = [prev EXCEPT ![y] = x, ![f] = f]
    BY DEF nn, np, RemovedNext, RemovedPrev
  <2>3. nn[x] = y
    BY <1>9, <1>10, <2>2
  <2> HIDE DEF x, y
  <2>4. next' = [nn EXCEPT ![e] = y, ![x] = e]
    BY <1>2, <1>9, <1>10, <2>1, <2>2
  <2>5. prev' = [np EXCEPT ![y] = e, ![e] = x]
    BY <1>2, <1>9, <1>10, <2>1, <2>2
  <2> QED BY <2>3, <2>4, <2>5 DEF InsertedNext, InsertedPrev
<1> HIDE DEF x, y
<1>13. Pointers(next', prev') /\ HasBehind(nn, next', x, e)
  BY <1>6, <1>11, <1>12, InsertedPointers
<1>14. OrderBehind(nn, next', R, x, e)
  BY <1>7, <1>11, <1>13, InsertedInOrder
<1>15. PICK Q : RingOrder(next', Q) /\ SameOrder(R, Q, Circle(nn))
  BY <1>14 DEF OrderBehind
<1>16. Circle(next') = (Circle(next) \ {f}) \cup {e}
  BY <1>8, <1>13 DEF HasBehind
<1>17. SameOrder(R, Q, Circle(next) \cap Circle(next'))
  BY <1>2, <1>8, <1>15, <1>16 DEF SameOrder
<1>18. staying' \subseteq staying \cap Circle(next')
  BY <1>1, <1>16 DEF RingInv
<1> QED
  BY <1>2, <1>3, <1>4, <1>13, <1>15, <1>16, <1>17, <1>18, ChangeKeeps

LEMMA BeginKeeps == RingInv /\ Ring!Begin => RingInv'
<1> SUFFICES ASSUME RingInv, Ring!Begin PROVE RingInv'
  OBVIOUS
<1>1. /\ step = "no" /\ element' = next[ListHead] /\ step' = "begin"
      /\ staying' = Ring!Linked /\ visits' = [e \in Elements |-> 0]
      /\ UNCHANGED <<next, prev>>
  BY DEF Ring!Begin
<1>2. PICK R : RingOrder(next, R) /\ Counted(R)
  BY DEF RingInv
<1>3. ListHead \in Circle(next) /\ Sentinel \notin Circle(next)
  BY <1>1 DEF Circle, Ring!Nodes, RingInv
<1>4. element' \in Circle(next)
  BY <1>1, <1>2, <1>3 DEF RingOrder
<1>5. Ring!Linked \subseteq Elements \cap Circle(next) /\ ListHead \notin Ring!Linked
  BY RingAssumption DEF Ring!Linked, Circle, Ring!Nodes
<1>6. element' \in Elements \cup {ListHead}
  BY <1>3, <1>4 DEF Circle, Ring!Nodes
<1>7. ASSUME NEW e \in Ring!Linked PROVE element' # ListHead /\ element' \notin R[e]
  <2>1. e \in Circle(next) /\ e # ListHead /\ e \in R[ListHead]
    BY <1>2, <1>3, <1>5 DEF RingOrder
  <2>2. element' # ListHead
    BY <1>1, <1>2, <1>3, <2>1 DEF RingOrder
  <2>3. e = element' \/ e \in R[element']
    BY <1>1, <1>2, <1>3, <2>1, <2>2 DEF RingOrder
  <2>4. e \notin R[e] /\ (e \in R[element'] /\ element' \in R[e] => e \in R[e])
    BY <1>2, <1>4, <2>1 DEF RingOrder
  <2> QED BY <2>2, <2>3, <2>4
<1>8. ASSUME NEW e \in staying'
      PROVE  visits'[e] = IF element' = ListHead \/ element' \in R[e] THEN 1 ELSE 0
  <2>1. e \in Ring!Linked /\ e \in Elements
    BY <1>1, <1>5
  <2> QED BY <1>1, <1>7, <2>1
<1>9. Counted(R)'
  BY <1>1, <1>8 DEF Counted, Between
<1>10. \E Q : RingOrder(next', Q) /\ Counted(Q)'
  BY <1>1, <1>2, <1>9
<1>11. Pointers(next', prev') /\ visits' \in [Elements -> Nat]
  BY <1>1 DEF RingInv
<1> QED
  BY <1>1, <1>3, <1>4, <1>5, <1>6, <1>10, <1>11 DEF RingInv, Between

LEMMA VisitCounts ==
  ASSUME RingInv, NEW e \in Elements
  PROVE  /\ Ring!Visited \in [Elements -> Nat]
         /\ Ring!Visited[e] = IF e = element THEN visits[e] + 1 ELSE visits[e]
<1>1. visits \in [Elements -> Nat]
  BY DEF RingInv
<1>2. CASE element \in Elements
  <2>1. Ring!Visited = [visits EXCEPT ![element] = visits[element] + 1]
    BY <1>2 DEF Ring!Visited
  <2>2. visits[element] + 1 \in Nat
    BY <1>1, <1>2
  <2> QED BY <1>1, <1>2, <2>1, <2>2
<1>3. CASE element \notin Elements
  BY <1>1, <1>3 DEF Ring!Visited
<1> QED BY <1>2, <1>3

LEMMA LinkKeeps == RingInv /\ Ring!LinkSentinel => RingInv'
<1> SUFFICES ASSUME RingInv, Ring!LinkSentinel PROVE RingInv'
  OBVIOUS
<1>1. /\ Between /\ step \in {"begin", "insert"}
      /\ step' = "body" /\ visits' = Ring!Visited /\ UNCHANGED <<element, staying>>
      /\ Ring!InsertNext(element, Sentinel)
  BY DEF Ring!LinkSentinel, Between
<1>2. /\ element \in Circle(next) /\ Sentinel \in Ring!Nodes \ Circle(next)
      /\ element \in Elements \cup {ListHead} /\ element # Sentinel
  BY <1>1, RingAssumption DEF RingInv, Ring!Nodes
<1>3. next' = InsertedNext(next, element, Sentinel)
      /\ prev' = InsertedPrev(next, prev, element, Sentinel)
  BY <1>1 DEF Ring!InsertNext, InsertedNext, InsertedPrev
<1>4. Pointers(next, prev)
  BY DEF RingInv
<1>5. Pointers(next', prev') /\ HasBehind(next, next', element, Sentinel)
  BY <1>2, <1>3, <1>4, InsertedPointers
<1>6. PICK R : RingOrder(next, R) /\ Counted(R)
  BY DEF RingInv
<1>7. OrderBehind(next, next', R, element, Sentinel)
  BY <1>2, <1>5, <1>6, InsertedInOrder
<1>8. PICK Q : /\ RingOrder(next', Q)
               /\ \A n \in Circle(next) : Sentinel \in Q[n] <=> n = element \/ element \in R[n]
  BY <1>7 DEF OrderBehind
<1>9. Circle(next') = Circle(next) \cup {Sentinel}
  BY <1>5 DEF HasBehind
<1>10. ASSUME NEW e \in staying'
       PROVE  visits'[e] = IF element' = ListHead \/ Sentinel \in Q[e] THEN 1 ELSE 0
  <2>1. e \in staying /\ e \in Elements /\ e \in Circle(next)
    BY <1>1 DEF RingInv
  <2>2. visits'[e] = IF e = element THEN visits[e] + 1 ELSE visits[e]
    BY <1>1, <2>1, VisitCounts
  <2>3. visits[e] = IF element = ListHead \/ element \in R[e] THEN 1 ELSE 0
    BY <1>1, <1>6, <2>1 DEF Counted
  <2>4. Sentinel \in Q[e] <=> e = element \/ element \in R[e]
    BY <1>8, <2>1
  <2>5. e \notin R[e] /\ e # ListHead
    BY <1>6, <2>1, RingAssumption DEF RingOrder
  <2> QED BY <1>1, <2>2, <2>3, <2>4, <2>5
<1>11. Counted(Q)'
  BY <1>1, <1>10 DEF Counted, Between
<1>12. \E P : RingOrder(next', P) /\ Counted(P)'
  BY <1>8, <1>11
<1>13. visits' \in [Elements -> Nat]
  <2>1. CASE Elements = {}
    BY <1>1, <1>2, <2>1 DEF Ring!Visited, RingInv
  <2>2. CASE Elements # {}
    BY <1>1, <2>2, VisitCounts
  <2> QED BY <2>1, <2>2
<1>14. staying' \subseteq Elements \cap Circle(next')
  BY <1>1, <1>9 DEF RingInv
<1> QED
  BY <1>1, <1>2, <1>5, <1>9, <1>12, <1>13, <1>14 DEF RingInv, Between

LEMMA FetchKeeps == RingInv /\ Ring!Fetch => RingInv'
<1> SUFFICES ASSUME RingInv, Ring!Fetch PROVE RingInv'
  OBVIOUS
<1>1. /\ step = "body" /\ element # ListHead /\ element' = next[Sentinel] /\ step' = "remove"
      /\ UNCHANGED <<next, prev, staying, visits>>
  BY DEF Ring!Fetch
<1>2. PICK R : RingOrder(next, R) /\ Counted(R)
  BY DEF RingInv
<1>3. Sentinel \in Circle(next) /\ Sentinel # ListHead
  BY <1>1, RingAssumption DEF RingInv
<1>4. element' \in Circle(next) /\ element' # Sentinel
  BY <1>1, <1>2, <1>3 DEF RingOrder, Circle
<1>5. element' \in Elements \cup {ListHead}
  BY <1>4 DEF Circle, Ring!Nodes
<1>6. ASSUME NEW e \in staying
      PROVE  Sentinel \in R[e] <=> element' = ListHead \/ element' \in R[e]
  <2>1. e \in Circle(next) /\ e # Sentinel
    BY RingAssumption DEF RingInv
  <2>2. e \in R[Sentinel] \/ Sentinel \in R[e]
    BY <1>2, <1>3, <2>1 DEF RingOrder
  <2>3. e \notin R[e]
    BY <1>2, <2>1 DEF RingOrder
  <2>4. CASE element' = ListHead
    <3>1. e \notin R[Sentinel]
      BY <1>1, <1>2, <1>3, <2>1, <2>4 DEF RingOrder
    <3> QED BY <2>2, <2>4, <3>1
  <2>5. CASE element' # ListHead
    <3>1. element' \in R[Sentinel] /\ (e \in R[Sentinel] => e = element' \/ e \in R[element'])
      BY <1>1, <1>2, <1>3, <2>1, <2>5 DEF RingOrder
    <3>2. Sentinel \in R[e] => element' \in R[e]
      BY <1>2, <1>3, <1>4, <2>1, <3>1 DEF RingOrder
    <3>3. e \in R[element'] /\ element' \in R[e] => e \in R[e]
      BY <1>2, <1>4, <2>1 DEF RingOrder
    <3> QED BY <2>2, <2>3, <2>5, <3>1, <3>2, <3>3
  <2> QED BY <2>4, <2>5
<1>7. ASSUME NEW e \in staying'
      PROVE  visits'[e] = IF element' = ListHead \/ element' \in R[e] THEN 1 ELSE 0
  <2>1. e \in staying /\ visits'[e] = visits[e]
    BY <1>1
  <2>2. visits[e] = IF Sentinel \in R[e] THEN 1 ELSE 0
    BY <1>1, <1>2, <2>1 DEF Counted
  <2> QED BY <1>6, <2>1, <2>2
<1>8. Counted(R)'
  BY <1>1, <1>7 DEF Counted, Between
<1>9. \E Q : RingOrder(next', Q) /\ Counted(Q)'
  BY <1>1, <1>2, <1>8
<1>10. /\ Pointers(next', prev') /\ visits' \in [Elements -> Nat]
       /\ staying' \subseteq Elements \cap Circle(next')
  BY <1>1 DEF RingInv
<1> QED
  BY <1>1, <1>3, <1>4, <1>5, <1>9, <1>10 DEF RingInv, Between

(* The sentinel goes, and no one's place changes.                          *)
LEMMA SentinelGoes ==
  ASSUME RingInv, Ring!Unlink(Sentinel), Sentinel \in Circle(next),
         NEW R, RingOrder(next, R)
  PROVE  /\ Pointers(next', prev') /\ RingOrder(next', R)
         /\ Circle(next') = Circle(next) \ {Sentinel}
<1>1. Sentinel \in Circle(next) \ {ListHead}
  BY RingAssumption
<1>2. next' = RemovedNext(next, prev, Sentinel) /\ prev' = RemovedPrev(next, prev, Sentinel)
  BY DEF Ring!Unlink, RemovedNext, RemovedPrev
<1>3. Pointers(next, prev)
  BY DEF RingInv
<1>4. Pointers(next', prev') /\ HasNot(next, next', Sentinel)
  BY <1>1, <1>2, <1>3, RemovedPointers
<1>5. RingOrder(next', R)
  BY <1>1, <1>4, RemovedInOrder
<1> QED
  BY <1>4, <1>5 DEF HasNot

LEMMA TakeKeeps == RingInv /\ Ring!TakeSentinel => RingInv'
<1> SUFFICES ASSUME RingInv, Ring!TakeSentinel PROVE RingInv'
  OBVIOUS
<1>1. /\ step = "remove" /\ step' = "insert" /\ Ring!Unlink(Sentinel)
      /\ UNCHANGED <<element, staying, visits>>
  BY DEF Ring!TakeSentinel
<1>2. PICK R : RingOrder(next, R) /\ Counted(R)
  BY DEF RingInv
<1>3. Sentinel \in Circle(next)
  BY <1>1 DEF RingInv
<1>4. /\ Pointers(next', prev') /\ RingOrder(next', R)
      /\ Circle(next') = Circle(next) \ {Sentinel}
  BY <1>1, <1>2, <1>3, SentinelGoes
<1>5. Counted(R)'
  BY <1>1, <1>2 DEF Counted, Between
<1>6. \E Q : RingOrder(next', Q) /\ Counted(Q)'
  BY <1>4, <1>5
<1>7. /\ staying' \subseteq Elements \cap Circle(next')
      /\ element' \in Circle(next')
  BY <1>1, <1>4, RingAssumption DEF RingInv, Between
<1> QED
  BY <1>1, <1>4, <1>6, <1>7 DEF RingInv, Between

LEMMA EndKeeps == RingInv /\ Ring!End => RingInv'
<1> SUFFICES ASSUME RingInv, Ring!End PROVE RingInv'
  OBVIOUS
<1>1. /\ step = "body" /\ element = ListHead /\ step' = "no" /\ Ring!Unlink(Sentinel)
      /\ UNCHANGED <<element, staying, visits>>
  BY DEF Ring!End
<1>2. PICK R : RingOrder(next, R) /\ Counted(R)
  BY DEF RingInv
<1>3. Sentinel \in Circle(next)
  BY <1>1 DEF RingInv
<1>4. /\ Pointers(next', prev') /\ RingOrder(next', R)
      /\ Circle(next') = Circle(next) \ {Sentinel}
  BY <1>1, <1>2, <1>3, SentinelGoes
<1>5. \A e \in staying' : visits'[e] <= 1
  BY <1>1, <1>2 DEF Counted
<1>6. Counted(R)'
  BY <1>1, <1>5 DEF Counted, Between
<1>7. \E Q : RingOrder(next', Q) /\ Counted(Q)'
  BY <1>4, <1>6
<1>8. staying' \subseteq Elements \cap Circle(next')
  BY <1>1, <1>4, RingAssumption DEF RingInv
<1> QED
  BY <1>1, <1>4, <1>7, <1>8 DEF RingInv, Between

LEMMA RingStep == RingInv /\ [Ring!Next]_(Ring!vars) => RingInv'
<1> SUFFICES ASSUME RingInv, [Ring!Next]_(Ring!vars) PROVE RingInv'
  OBVIOUS
<1>1. CASE UNCHANGED Ring!vars
  <2>1. UNCHANGED <<next, prev, step, element, staying, visits>>
    BY <1>1 DEF Ring!vars
  <2>2. PICK R : RingOrder(next, R) /\ Counted(R)
    BY DEF RingInv
  <2>3. Pointers(next', prev') /\ RingOrder(next', R) /\ SameOrder(R, R, Circle(next) \cap Circle(next'))
    BY <2>1, <2>2 DEF RingInv, SameOrder
  <2>4. staying' \subseteq staying \cap Circle(next') /\ (Between => element \in Circle(next'))
    BY <2>1 DEF RingInv
  <2> QED BY <2>1, <2>2, <2>3, <2>4, ChangeKeeps
<1> QED
  BY <1>1, RegisterKeeps, DestroyKeeps, MoveKeeps, BeginKeeps, LinkKeeps, FetchKeeps,
     TakeKeeps, EndKeeps DEF Ring!Next

-----------------------------------------------------------------------------
(* All parts together. *)

LEMMA PartsStep ==
  ASSUME [Next]_vars
  PROVE  /\ [Analog!Next]_(Analog!vars) /\ [Driven!Next]_(Driven!vars)
         /\ [Shown!Next]_(Shown!vars) /\ [Clock!Next]_(Clock!vars)
         /\ [Beating!Next]_(Beating!vars) /\ [Saved!Next]_(Saved!vars)
         /\ [Ring!Next]_(Ring!vars)
<1>1. [Analog!Next]_(Analog!vars)
  <2>1. CASE Measures
    BY <2>1 DEF Measures
  <2>2. CASE UNCHANGED analogVars
    BY <2>2 DEF analogVars,
                Analog!vars, Analog!monitor, Analog!device
  <2> QED
    BY <2>1, <2>2 DEF Next, vars, Measures, Saves, Links, Presses, Drives, Shows, Counts, Beats
<1>2. [Driven!Next]_(Driven!vars)
  <2>1. CASE Drives
    BY <2>1 DEF Drives
  <2>2. CASE UNCHANGED drivenVars
    BY <2>2 DEF drivenVars,
                Driven!vars, Driven!configs, Driven!pwm
  <2> QED
    BY <2>1, <2>2 DEF Next, vars, Measures, Saves, Links, Presses, Drives, Shows, Counts, Beats
<1>3. [Shown!Next]_(Shown!vars)
  <2>1. CASE Shows
    BY <2>1 DEF Shows
  <2>2. CASE UNCHANGED shownVars
    BY <2>2 DEF shownVars,
                Shown!vars, Shown!coroutine, Shown!values, Shown!lvgl, Shown!pins
  <2> QED
    BY <2>1, <2>2 DEF Next, vars, Measures, Saves, Links, Presses, Drives, Shows, Counts, Beats
<1>4. [Clock!Next]_(Clock!vars)
  <2>1. CASE Counts
    BY <2>1 DEF Counts
  <2>2. CASE UNCHANGED clockVars
    BY <2>2 DEF clockVars,
                Clock!vars, Clock!totals, Clock!history
  <2> QED
    BY <2>1, <2>2 DEF Next, vars, Measures, Saves, Links, Presses, Drives, Shows, Counts, Beats
<1>5. [Beating!Next]_(Beating!vars)
  <2>1. CASE Beats
    BY <2>1 DEF Beats
  <2>2. CASE UNCHANGED beatVars
    BY <2>2 DEF beatVars,
                Beating!vars
  <2> QED
    BY <2>1, <2>2 DEF Next, vars, Measures, Saves, Links, Presses, Drives, Shows, Counts, Beats
<1>6. [Saved!Next]_(Saved!vars)
  <2>1. CASE Saves
    BY <2>1 DEF Saves
  <2>2. CASE UNCHANGED savedVars
    BY <2>2 DEF savedVars,
                Saved!vars
  <2> QED
    BY <2>1, <2>2 DEF Next, vars, Measures, Saves, Links, Presses, Drives, Shows, Counts, Beats
<1>7. [Ring!Next]_(Ring!vars)
  <2>1. CASE Links
    BY <2>1 DEF Links
  <2>2. CASE UNCHANGED ringVars
    BY <2>2 DEF ringVars,
                Ring!vars
  <2> QED
    BY <2>1, <2>2 DEF Next, vars, Measures, Saves, Links, Presses, Drives, Shows, Counts, Beats
<1> QED
  BY <1>1, <1>2, <1>3, <1>4, <1>5, <1>6, <1>7

(* Whenever the coroutine reads the ADC's register, that is of its last    *)
(* trigger, and the samples gathered so far are in their places.           *)
THEOREM AnalogInvariant == Spec => []AnalogInv
<1>1. Init => AnalogInv
  BY AnalogInit DEF Init
<1>2. AnalogInv /\ [Next]_vars => AnalogInv'
  BY AnalogStep, PartsStep
<1> QED
  BY <1>1, <1>2, PTL DEF Spec

(* Each message has one sample of each channel, of this round.             *)
THEOREM ReadingsAreWhole == Spec => []RoundsAreWhole
<1>1. AnalogInv => RoundsAreWhole
  BY AnalogWhole DEF RoundsAreWhole
<1> QED
  BY <1>1, AnalogInvariant, PTL

(* What is right at each write of the callbacks of the outputs.            *)
THEOREM OutputInvariant == Spec => []OutputInv
<1>1. Init => OutputInv
  BY OutputInit DEF Init
<1>2. OutputInv /\ [Next]_vars => OutputInv'
  BY OutputStep, PartsStep
<1> QED
  BY <1>1, <1>2, PTL DEF Spec

(* The duty cycle is that of the setpoint, calibration and frequency that  *)
(* were set last, and no output is on while they change.                   *)
THEOREM OutputDutyIsRight == Spec => []DutyIsRight
<1>1. OutputInv => DutyIsRight
  BY OutputDuty DEF DutyIsRight
<1> QED
  BY <1>1, OutputInvariant, PTL

(* The order of the driver's steps, and the pins and transfers they find.  *)
THEOREM DisplayInvariant == Spec => []DisplayInv
<1>1. Init => DisplayInv
  BY DisplayInit DEF Init
<1>2. DisplayInv /\ [Next]_vars => DisplayInv'
  BY DisplayStep, PartsStep
<1> QED
  BY <1>1, <1>2, PTL DEF Spec

(* The panel understands what it is sent, from a buffer nobody draws into, *)
(* however many areas LVGL divides the screen into.                        *)
THEOREM DisplayPanelIntact == Spec => []PanelIntact
<1>1. DisplayInv => PanelIntact
  BY DisplayIntact DEF PanelIntact
<1> QED
  BY <1>1, DisplayInvariant, PTL

(* The flags of who is timed, and the intervals in their order.            *)
THEOREM ClockInvariant == Spec => []ClockInv
<1>1. Init => ClockInv
  BY TimesInit DEF Init
<1>2. ClockInv /\ [Next]_vars => ClockInv'
  BY FlagsStep, NumbersStep, PartsStep DEF ClockInv
<1> QED
  BY <1>1, <1>2, PTL DEF Spec

(* No difference of two times is negative: the code computes them without  *)
(* a sign. *)
THEOREM TimesInOrder == Spec => [](TimesOK /\ InOrder)
<1>1. ClockInv => TimesOK /\ InOrder
  BY DEF ClockInv, Numbers
<1> QED
  BY <1>1, ClockInvariant, PTL

(* How late each colour is, and that the coroutine is only resumed when    *)
(* one is due. *)
THEOREM HeartbeatInvariant == Spec => []BeatInv
<1>1. Init => BeatInv
  BY BeatInit DEF Init
<1>2. BeatInv /\ [Next]_vars => BeatInv'
  BY BeatStep, PartsStep
<1> QED
  BY <1>1, <1>2, PTL DEF Spec

(* The times of WorkingTime and ISRTime add up wherever interrupts come,   *)
(* and the heartbeat does not drift however late its messages are.         *)
THEOREM DevicesTimesAddUp == Spec => []TimesAddUp
<1>1. ClockInv => Clock!TimesAddUp
  BY DEF ClockInv, Numbers
<1>2. BeatInv => Beating!BeatKeepsTime
  BY BeatKeeps
<1>3. ClockInv /\ BeatInv => TimesAddUp
  BY <1>1, <1>2 DEF TimesAddUp
<1> QED
  BY <1>3, ClockInvariant, HeartbeatInvariant, PTL

(* The image is complete before it is what was saved, and its count is the *)
(* first thing that goes and the first that is written.                    *)
THEOREM SavedInvariant == Spec => []SavedInv
<1>1. Init => SavedInv
  BY SavedInit DEF Init
<1>2. SavedInv /\ [Next]_vars => SavedInv'
  BY SavedStep, PartsStep
<1> QED
  BY <1>1, <1>2, PTL DEF Spec

(* Whenever the power fails, a restart loads all the values that were      *)
(* saved last or none, whatever configurations the versions of the program *)
(* have, as long as each one's fit into a page.                            *)
THEOREM ConfigsAllOrNothing == Spec => []AllOrNothing
<1>1. SavedInv => AllOrNothing
  BY SavedNothing DEF AllOrNothing
<1> QED
  BY <1>1, SavedInvariant, PTL

(* The ring has an order of its members, and who was visited are those     *)
(* that the iterator has passed in it. *)
THEOREM RingInvariant == Spec => []RingInv
<1>1. Init => RingInv
  BY RingInit DEF Init
<1>2. RingInv /\ [Next]_vars => RingInv'
  BY RingStep, PartsStep
<1> QED
  BY <1>1, <1>2, PTL DEF Spec

(* However many elements register, go or move while the list is iterated,  *)
(* the pointers agree, and whoever is there all the time is visited once.  *)
THEOREM RingVisitsOnce == Spec => []VisitsOnce
<1>1. RingInv => VisitsOnce
  BY RingOnce DEF VisitsOnce
<1> QED
  BY <1>1, RingInvariant, PTL
=============================================================================
