---------------------------- MODULE UsbEndpoints ----------------------------
(***************************************************************************)
(* Configurations, interfaces and endpoints: which setting is active, what *)
(* memory and which data PID each endpoint has, as the host changes        *)
(* settings and both sides exchange packets.  Requests are handled in the  *)
(* USB interrupt, as are completions: each is one step.                    *)
(*                                                                         *)
(* Configs is a sequence of configurations, a configuration one of         *)
(* interfaces, an interface one of settings, and a setting a set of        *)
(* endpoints [addr, max, iso, double].  addr has the direction in it:      *)
(* <<"in" or "out", number>>.  Transfers are modelled of endpoints with    *)
(* one buffer, as all of the program's are; two buffers are laid out only. *)
(***************************************************************************)
EXTENDS Integers, Sequences, FiniteSets

CONSTANTS
  Configs,
  Last,      \* the highest endpoint number
  Memory     \* bytes of the controller's memory for endpoints

VARIABLES
  active,    \* cur_active_config, 0 if there is none
  setting,   \* cur_active_altsetting of each interface, 0 if there is none
  config,    \* the configuration and registers of every endpoint
  toggle,    \* the PID the host uses or expects next
  apart      \* history: endpoints whose halt or reception was cancelled

vars == <<active, setting, config, toggle, apart>>

Number == 1..Last
Addresses == {"in", "out"} \X Number
MaxInterfaces == 2
Nothing == [at |-> 0, size |-> 0]

Init ==
  /\ active = 0
  /\ setting = [i \in 1..MaxInterfaces |-> 0]
  /\ config = [a \in Addresses |->
       [enabled |-> FALSE, avail |-> FALSE, stall |-> FALSE, next |-> 0,
        max |-> 0, buffer |-> Nothing, half0 |-> Nothing, half1 |-> Nothing]]
  /\ toggle = [a \in Addresses |-> 0]
  /\ apart = {}

-----------------------------------------------------------------------------
(* Sizes. *)

Larger(a, b) == IF a > b THEN a ELSE b
Ceil64(n) == 64 * ((n + 63) \div 64)

(* The least power of two that is not below n. *)
Powers == {1, 2, 4, 8, 16, 32, 64, 128, 256, 512, 1024, 2048, 4096}
Round2Pow(n) == CHOOSE p \in Powers : p >= n /\ (p = 1 \/ p \div 2 < n)

(* What one buffer of an endpoint takes; and all of its buffers. *)
OneBuffer(e) == IF e.iso THEN Larger(128, Round2Pow(Ceil64(e.max))) ELSE Ceil64(e.max)

(* Faulty variant: the second buffer is not counted. *)
AllBuffersOnce(e) == OneBuffer(e)

AllBuffers(e) == OneBuffer(e) * (IF e.double THEN 2 ELSE 1)

Endpoints(c) ==
  UNION {UNION {Configs[c][i][s] : s \in DOMAIN Configs[c][i]} : i \in DOMAIN Configs[c]}

(* find_max_packet_size: the most that any setting takes. *)
SizeOf(c, a) ==
  LET sizes == {0} \cup {AllBuffers(e) : e \in {f \in Endpoints(c) : f.addr = a}}
  IN CHOOSE m \in sizes : \A n \in sizes : n <= m

(* Buffers follow each other, those of IN endpoints first: the r-th one,   *)
(* and the bytes that the first r take. *)
Rank(a) == IF a[1] = "in" THEN a[2] ELSE Last + a[2]
Ranked(r) == IF r <= Last THEN <<"in", r>> ELSE <<"out", r - Last>>
Laid(c, r) ==
  LET Sum[n \in 0..2 * Last] == IF n = 0 THEN 0 ELSE Sum[n - 1] + SizeOf(c, Ranked(n))
  IN Sum[r]
Offset(c, a) == Laid(c, Rank(a) - 1)

-----------------------------------------------------------------------------
(* Settings. *)

(* interface_by_index finds those of the configuration. *)
Interfaces == DOMAIN Configs[active]

Setting(c, i, s) == IF s = 0 THEN {} ELSE Configs[c][i][s]
AddressesOf(es) == {e.addr : e \in es}

(* enable_altsetting: the endpoints of the old setting are switched off,   *)
SwitchedOff(c) == [c EXCEPT !.enabled = FALSE, !.half0 = Nothing, !.half1 = Nothing]

Disabled(cfg, old) ==
  [a \in Addresses |-> IF a \in AddressesOf(old) THEN SwitchedOff(cfg[a]) ELSE cfg[a]]

(* those of the new one get their buffers and start with DATA0. *)
FirstHalf(b, e) == IF e.double THEN [at |-> b.at, size |-> OneBuffer(e)] ELSE b
SecondHalf(b, e) ==
  IF e.double THEN [at |-> b.at + OneBuffer(e), size |-> OneBuffer(e)] ELSE Nothing
SwitchedOn(c, e) ==
  [c EXCEPT !.enabled = TRUE, !.avail = FALSE, !.stall = FALSE, !.next = 0,
            !.max = e.max, !.half0 = FirstHalf(c.buffer, e),
            !.half1 = SecondHalf(c.buffer, e)]

Enabled(cfg, old, new) ==
  [a \in Addresses |->
     IF a \in AddressesOf(new)
       THEN SwitchedOn(Disabled(cfg, old)[a], CHOOSE e \in new : e.addr = a)
       ELSE Disabled(cfg, old)[a]]

(* Faulty variant: the register is written again, with the other PID.      *)
StartedAnew(c) == [c EXCEPT !.avail = TRUE, !.next = 1 - @, !.stall = FALSE]

(* start_rx: nothing if the buffer waits for a packet already.  Its PID is *)
(* the one that next had. *)
Started(c) ==
  IF c.avail THEN c ELSE [c EXCEPT !.avail = TRUE, !.next = 1 - @, !.stall = FALSE]

(* tx_data: the buffer is filled and offered. *)
Filled(c) == [c EXCEPT !.avail = TRUE, !.next = 1 - @, !.stall = FALSE]

(* stop_rx takes the buffer back, but not the PID that start_rx used.      *)
Stopped(c) == [c EXCEPT !.avail = FALSE, !.stall = FALSE]

(* stall_ep *)
StallEp(c, stalled) == [c EXCEPT !.stall = stalled]

(* on_altsetting_changed: the interfaces of this program start to receive. *)
Notified(cfg, new) ==
  [a \in Addresses |->
     IF a \in AddressesOf(new) /\ a[1] = "out" THEN Started(cfg[a]) ELSE cfg[a]]

(* SET_CONFIGURATION: everything is switched off; with a value that names  *)
(* no configuration it stays so. *)
SetConfiguration ==
  \E value \in 0..Len(Configs) + 1 :
    LET off == [a \in Addresses |-> [config[a] EXCEPT
                  !.enabled = FALSE, !.avail = FALSE, !.stall = FALSE, !.next = 0]]
        laid == [a \in Addresses |->
                   [off[a] EXCEPT !.buffer =
                      [at |-> Offset(value, a), size |-> SizeOf(value, a)]]]
        default == UNION {Configs[value][i][1] : i \in DOMAIN Configs[value]}
    IN IF value \in DOMAIN Configs
         THEN /\ active' = value
              /\ setting' = [i \in 1..MaxInterfaces |->
                               IF i \in DOMAIN Configs[value] THEN 1 ELSE 0]
              /\ config' = Notified(Enabled(laid, {}, default), default)
              /\ toggle' = [a \in Addresses |-> 0]
              /\ apart' = {}
         ELSE /\ active' = 0
              /\ setting' = [i \in 1..MaxInterfaces |-> 0]
              /\ config' = off
              /\ UNCHANGED <<toggle, apart>>

(* SET_INTERFACE: of an interface and a setting that exist. *)
SetInterface ==
  /\ active # 0
  /\ \E i \in Interfaces : \E s \in DOMAIN Configs[active][i] :
       LET new == Setting(active, i, s)
       IN /\ setting' = [setting EXCEPT ![i] = s]
          /\ config' = Notified(Enabled(config, Setting(active, i, setting[i]), new), new)
          /\ toggle' = [a \in Addresses |-> IF a \in AddressesOf(new) THEN 0 ELSE toggle[a]]
          /\ apart' = apart \ AddressesOf(new)
  /\ UNCHANGED active

-----------------------------------------------------------------------------
(* Packets. *)

Single(a) == config[a].enabled /\ config[a].half1 = Nothing

(* The interface sends: it knows that the packet before is gone.           *)
Send(a) ==
  /\ a[1] = "in" /\ Single(a) /\ ~config[a].avail
  /\ config' = [config EXCEPT ![a] = Filled(@)]
  /\ UNCHANGED <<active, setting, toggle, apart>>

StartRx(a) ==
  /\ a[1] = "out" /\ Single(a)
  /\ config' = [config EXCEPT ![a] = Started(@)]
  /\ UNCHANGED <<active, setting, toggle, apart>>

StopRx(a) ==
  /\ a[1] = "out" /\ Single(a)
  /\ config' = [config EXCEPT ![a] = Stopped(@)]
  /\ apart' = apart \cup {a}
  /\ UNCHANGED <<active, setting, toggle>>

(* The host's packet, or the one it gets. *)
Transfer(a) ==
  /\ Single(a) /\ config[a].avail /\ ~config[a].stall
  /\ config' = [config EXCEPT ![a].avail = FALSE]
  /\ toggle' = [toggle EXCEPT ![a] = 1 - @]
  /\ UNCHANGED <<active, setting, apart>>

(* SET_FEATURE and CLEAR_FEATURE of ENDPOINT_HALT: a host starts over with *)
(* DATA0 when it clears a halt, the device goes on with its PID. *)
SetHalt(a) ==
  /\ config[a].enabled
  /\ config' = [config EXCEPT ![a] = StallEp(@, TRUE)]
  /\ UNCHANGED <<active, setting, toggle, apart>>

ClearHalt(a) ==
  /\ config[a].enabled
  /\ config' = [config EXCEPT ![a] = StallEp(@, FALSE)]
  /\ toggle' = [toggle EXCEPT ![a] = 0]
  /\ apart' = apart \cup {a}
  /\ UNCHANGED <<active, setting>>

Next ==
  \/ SetConfiguration \/ SetInterface
  \/ \E a \in Addresses :
       Send(a) \/ StartRx(a) \/ StopRx(a) \/ Transfer(a) \/ SetHalt(a) \/ ClearHalt(a)

Spec == Init /\ [][Next]_vars

-----------------------------------------------------------------------------
(* Properties. *)

Overlap(r, s) == r.at < s.at + s.size /\ s.at < r.at + r.size

(* Whatever setting the host has chosen, the buffers of the endpoints that *)
(* are enabled lie in the memory, apart from each other, hold a packet,    *)
(* and two buffers of one endpoint are as far apart as the controller      *)
(* takes them to be. *)
BuffersApart ==
  LET on == {a \in Addresses : config[a].enabled}
      bufs == UNION {{<<a, 0>>, <<a, 1>>} : a \in on}
      Region(p) == IF p[2] = 0 THEN config[p[1]].half0 ELSE config[p[1]].half1
  IN /\ \A p \in bufs : Region(p) # Nothing =>
          /\ Region(p).at + Region(p).size <= Memory
          /\ Region(p).size >= config[p[1]].max
          /\ \A q \in bufs \ {p} : ~Overlap(Region(p), Region(q))
     /\ \A a \in on : config[a].half1 # Nothing =>
          config[a].half1.at - config[a].half0.at \in {64, 128, 256, 512, 1024}

(* A packet that is offered has the PID that the host expects, and with    *)
(* none under way the next one will, across all changes of settings,       *)
(* unless a halt was cleared or a reception stopped since. *)
TogglesAgree ==
  \A a \in Addresses \ apart :
    Single(a) => toggle[a] = (IF config[a].avail THEN 1 - config[a].next
                                             ELSE config[a].next)
=============================================================================
