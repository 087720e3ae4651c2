--------------------------- MODULE AnalogReadings ---------------------------
(***************************************************************************)
(* The coroutine that measures the four channels of the ADC one after the  *)
(* other and posts a message for every round.                              *)
(*                                                                         *)
(* It runs in interrupts only: an action is one of them, from the event    *)
(* that resumes the coroutine to its next co_await.  Of the I2C bus it     *)
(* sees what I2c gives; no other client claims the bus.  A transfer        *)
(* reported as failed may have reached the device, and a read whose        *)
(* register was not selected is reported as done with another one's bytes. *)
(***************************************************************************)
EXTENDS Naturals, Sequences

CONSTANTS
  N,        \* number of channels
  Buffers,  \* number of message slots
  MaxFaults \* bound: failed transfers and selections, lost conversions, early timeouts

Chans == 1..N
NoSample == [ch |-> 0, new |-> FALSE]
Misread == [ch |-> 0, new |-> TRUE] \* the bytes of another register
Samples == [ch : 0..N, new : BOOLEAN]

VARIABLES
  pc,     \* where the coroutine is suspended
  i,      \* the channel it measures
  values, \* adc_config: the samples of this round
  alert,  \* the value of the awaitable: "none", "ready" or "timeout"
  irqOn,  \* the interrupt of the ready pin is enabled
  timer,  \* timeout_timer runs
  conv,   \* the channel the ADC converts, 0 if it is idle
  reg,    \* its conversion register; new: it is of the last trigger
  pin,    \* the level of its ready pin
  msgs,   \* the posted messages
  faults

monitor == <<pc, i, values>>
device == <<conv, reg, pin>>
vars == <<monitor, alert, irqOn, timer, device, msgs, faults>>

Init ==
  /\ pc = "pause" /\ i = 1
  /\ values = [c \in Chans |-> NoSample]
  /\ alert = "none" /\ irqOn = FALSE /\ timer = FALSE
  /\ conv = 0 /\ reg = NoSample /\ pin = FALSE
  /\ msgs = << >>
  /\ faults = 0

Fault == faults < MaxFaults /\ faults' = faults + 1

-----------------------------------------------------------------------------
(* The coroutine. *)

(* goto restart: the values are reset, timeout_timer goes out of scope.    *)
Restart ==
  /\ pc' = "pause" /\ i' = 1
  /\ values' = [c \in Chans |-> NoSample]
  /\ timer' = FALSE

(* The order of the setup: is a conversion going on, flush the last one,   *)
(* the two thresholds with a pause after each. *)
Follows(p) == CASE p = "pause" -> "busy" [] p = "busy" -> "flush"
                [] p = "flush" -> "low" [] p = "low" -> "lowPause"
                [] p = "lowPause" -> "high" [] p = "high" -> "highPause"
                [] p = "highPause" -> "trigger"
Transferring == {"busy", "flush", "low", "high", "trigger", "fetch"}
Settled(p) == p \in {"pause", "busy", "flush", "low", "lowPause", "high", "highPause"}

(* A delay is over, or a transfer of the setup has succeeded.  10 ms       *)
(* outlast a conversion. *)
SetUp ==
  /\ Settled(pc)
  /\ pc = "lowPause" => conv = 0
  /\ IF pc = "busy" /\ conv # 0
       THEN Restart
       ELSE pc' = Follows(pc) /\ UNCHANGED <<i, values, timer>>
  /\ UNCHANGED <<alert, irqOn, device, msgs, faults>>

(* The ADC ignores a trigger while it converts. *)
Start(c) ==
  IF conv = 0 THEN conv' = c /\ pin' = FALSE /\ reg' = [ch |-> reg.ch, new |-> FALSE]
              ELSE UNCHANGED device

(* Faulty variant: an old alert is left in the awaitable, which then does  *)
(* not suspend. *)
TriggeredNoClear ==
  /\ pc = "trigger"
  /\ Start(i)
  /\ alert' = "none" /\ irqOn' = TRUE
  /\ IF alert = "timeout"
       THEN Restart
       ELSE /\ pc' = IF alert = "ready" THEN "fetch" ELSE "alert"
            /\ timer' = TRUE
            /\ UNCHANGED <<i, values>>
  /\ UNCHANGED <<msgs, faults>>

(* Faulty variant: the interrupt is not enabled again. *)
TriggeredNoIrq ==
  /\ pc = "trigger"
  /\ Start(i)
  /\ alert' = "none" /\ timer' = TRUE
  /\ pc' = "alert"
  /\ UNCHANGED <<i, values, irqOn, msgs, faults>>

(* The conversion was triggered: wait for the ready pin or the timeout.    *)
Triggered ==
  /\ pc = "trigger"
  /\ Start(i)
  /\ alert' = "none" /\ irqOn' = TRUE /\ timer' = TRUE
  /\ pc' = "alert"
  /\ UNCHANGED <<i, values, msgs, faults>>

(* The bytes read become the value; the round may be complete.             *)
Store(sample) ==
  /\ LET all == [values EXCEPT ![i] = sample]
         last == i = N
     IN /\ values' = IF last THEN [c \in Chans |-> [ch |-> all[c].ch, new |-> FALSE]]
                     ELSE all
        /\ msgs' = IF last /\ Len(msgs) < Buffers THEN Append(msgs, all) ELSE msgs
        /\ i' = IF last THEN 1 ELSE i + 1
  /\ pc' = "trigger" /\ timer' = FALSE

Fetched ==
  /\ pc = "fetch"
  /\ Store(reg)
  /\ UNCHANGED <<alert, irqOn, device, faults>>

(* The write that selects the register to read is not acknowledged.  The   *)
(* read after it clears that error and is reported as done, with the bytes *)
(* of the register that was selected before. *)
SelectLost ==
  /\ Fault
  /\ \/ pc = "fetch" /\ Store(Misread)
     \/ pc = "busy" /\ Restart /\ UNCHANGED msgs
     \/ pc \in {"busy", "flush"} /\ pc' = Follows(pc) /\ UNCHANGED <<i, values, timer, msgs>>
  /\ UNCHANGED <<alert, irqOn, device>>

(* A transfer is reported as failed. *)
TransferFails ==
  /\ pc \in Transferring
  /\ Fault
  /\ Restart
  /\ \/ UNCHANGED device
     \/ pc = "trigger" /\ Start(i)
  /\ UNCHANGED <<alert, irqOn, msgs>>

(* alert(v) resumes the coroutine or is kept. *)
Fire(v) ==
  IF pc = "alert"
    THEN /\ IF v = "timeout" THEN Restart
            ELSE pc' = "fetch" /\ UNCHANGED <<i, values, timer>>
         /\ UNCHANGED alert
    ELSE alert' = v /\ UNCHANGED monitor

(* The interrupt of the ready pin disables itself. *)
ReadyIrq ==
  /\ irqOn /\ pin
  /\ irqOn' = FALSE
  /\ Fire("ready")
  /\ pc # "alert" => UNCHANGED timer
  /\ UNCHANGED <<device, msgs, faults>>

(* Nothing but the timeout is left to come of this trigger. *)
Overdue == conv = 0 /\ ~(irqOn /\ pin)

(* timeout_timer fires, also while its value is being fetched. *)
Timeout ==
  /\ timer
  /\ IF Overdue THEN UNCHANGED faults ELSE Fault
  /\ Fire("timeout")
  /\ timer' = FALSE
  /\ UNCHANGED <<irqOn, device, msgs>>

-----------------------------------------------------------------------------
(* The ADC and the main loop. *)

Converted ==
  /\ conv # 0
  /\ conv' = 0 /\ pin' = TRUE /\ reg' = [ch |-> conv, new |-> TRUE]
  /\ UNCHANGED <<monitor, alert, irqOn, timer, msgs, faults>>

(* The ADC is reset in the middle of a conversion. *)
ConversionLost ==
  /\ conv # 0
  /\ Fault
  /\ conv' = 0
  /\ UNCHANGED <<monitor, alert, irqOn, timer, reg, pin, msgs>>

MainTakes ==
  /\ msgs # << >>
  /\ msgs' = Tail(msgs)
  /\ UNCHANGED <<monitor, alert, irqOn, timer, device, faults>>

Monitor == SetUp \/ Triggered \/ Fetched

Next ==
  \/ Monitor \/ TransferFails \/ SelectLost \/ ReadyIrq \/ Timeout
  \/ Converted \/ ConversionLost \/ MainTakes

(* Transfers are reported and delays end, conversions end, interrupts are  *)
(* served, and a timeout comes.                                            *)
Fairness ==
  WF_vars(Monitor) /\ WF_vars(ReadyIrq) /\ WF_vars(Timeout) /\ WF_vars(Converted)

Spec == Init /\ [][Next]_vars /\ Fairness

-----------------------------------------------------------------------------
(* Properties. *)

TypeOK ==
  /\ i \in Chans /\ conv \in 0..N /\ reg \in Samples
  /\ values \in [Chans -> Samples]
  /\ alert \in {"none", "ready", "timeout"}
  /\ Len(msgs) <= Buffers

(* Each message has one sample of each channel, at its place, all of them  *)
(* converted in this round: neither the alert of an earlier conversion nor *)
(* a timeout that comes late nor a restart from any point makes the        *)
(* coroutine read a register the ADC has not written yet.  A lost          *)
(* selection, which I2c does not report, can put another register's bytes  *)
(* into the place of a sample, and nothing else can.                       *)
RoundsAreWhole ==
  /\ TypeOK
  /\ \A n \in DOMAIN msgs, c \in Chans :
       \/ msgs[n][c] = [ch |-> c, new |-> TRUE]
       \/ msgs[n][c] = Misread /\ faults > 0

(* Once faults cease, rounds go on to be completed: the coroutine does not *)
(* wait for an alert that cannot come, nor restart for ever.               *)
KeepsMeasuring == []<>(pc = "fetch" /\ i = N)
=============================================================================
