------------------------------- MODULE Relais -------------------------------
(***************************************************************************)
(* The relays that connect an output and its ground.                       *)
(*                                                                         *)
(* The host sets the enable value of a channel; that posts a command,      *)
(* which a listener puts into the event of the channel's coroutine.  The   *)
(* coroutine switches ground and output one after the other, with a pause  *)
(* between them.  It runs in the timer interrupt after a pause and in      *)
(* thread mode when a command finds it waiting.                            *)
(*                                                                         *)
(* The event is an Awaitable that does not lock: the interrupt may come    *)
(* between any two of the stores operator() does.  The compiler may store  *)
(* value and flag of the optional in either order, and may leave out the   *)
(* store that empties it first.                                            *)
(***************************************************************************)
EXTENDS Integers, Sequences, FiniteSets

CONSTANTS
  Channels,
  Buffers,     \* size of msg_buffer
  Debounce,    \* enable_debounce, in ticks
  MaxStall,    \* ticks that interrupts may keep thread mode within operator()
  MaxSets,     \* bound: number of values the host sets
  StoreOrders  \* which store may come first: "payload", "engaged"

ASSUME RelaisAssumption ==
  /\ IsFiniteSet(Channels)
  /\ Buffers \in Nat
  /\ Debounce \in Nat \ {0}
  /\ MaxStall \in Nat
  /\ MaxStall < Debounce
  /\ MaxSets \in Nat
  /\ StoreOrders \subseteq {"payload", "engaged"}

VARIABLES
  value,   \* output0.enable and output1.enable, as 0 or 1
  queue,   \* the message queue, as far as it matters here: records of type
           \* "switch" (the USB worker about to set a value) and "cmd"
  sets,    \* values set by the host so far
  mpc,     \* the main loop: "loop"; within operator() of the event: "reset",
           \* "first", "second", "load", "store", "call"
  first,   \* the store that comes first
  stall,   \* ticks since operator() began
  hdl,     \* the local h of operator()
  engaged, \* the optional of the event is engaged (0 or 1)
  payload, \* its value
  handle,  \* "null" or "coroutine"
  co,      \* where the coroutine is suspended: in "event" or "pause"
  target,  \* its local msg.enable
  left,    \* ticks left of its pause
  gnd,     \* pin of the ground relay
  out,     \* pin of the output relay
  age      \* history: ticks since a pin of the channel changed, up to Debounce

event == <<engaged, payload, handle>>
coro == <<co, target, left, gnd, out>>
main == <<mpc, first, stall, hdl>>
host == <<value, sets>>
vars == <<value, queue, sets, mpc, first, stall, hdl, engaged, payload, handle,
          co, target, left, gnd, out, age>>

Messages == [type : {"switch", "cmd"}, ch : Channels, enable : {0, 1}]
Cmd(c, e) == [type |-> "cmd", ch |-> c, enable |-> e]
Cmds == {i \in 1..Len(queue) : queue[i].type = "cmd"}
CmdsOf(c) == {i \in Cmds : queue[i].ch = c}

(* init() sets every channel to 0 and starts its coroutine. *)
Init ==
  /\ value = [c \in Channels |-> 0]
  /\ queue \in [1..Cardinality(Channels) -> {Cmd(c, 0) : c \in Channels}]
  /\ \A c \in Channels : CmdsOf(c) # {}
  /\ sets = 0
  /\ mpc = "loop"
  /\ first = "payload"
  /\ stall = 0
  /\ hdl = "null"
  /\ engaged = [c \in Channels |-> 0]
  /\ payload = [c \in Channels |-> 0]
  /\ handle = [c \in Channels |-> "coroutine"]
  /\ co = [c \in Channels |-> "event"]
  /\ target = [c \in Channels |-> 0]
  /\ left = [c \in Channels |-> 0]
  /\ gnd = [c \in Channels |-> 0]
  /\ out = [c \in Channels |-> 0]
  /\ age = [c \in Channels |-> Debounce]

-----------------------------------------------------------------------------
(* The USB worker. *)

(* The host asks for a value: the worker queues itself for the main loop.  *)
(* It has one request at a time.                                           *)
HostSets(c, e) ==
  /\ sets < MaxSets
  /\ \A i \in 1..Len(queue) : queue[i].type # "switch"
  /\ sets' = sets + 1
  /\ queue' = Append(queue, [type |-> "switch", ch |-> c, enable |-> e])
  /\ UNCHANGED <<value, main, event, coro, age>>

(* In the main loop it sets the value, whose callback posts a command if   *)
(* there is a free message.                                                *)
SetValue ==
  /\ mpc = "loop"
  /\ queue # << >>
  /\ LET m == Head(queue) IN
       /\ m.type = "switch"
       /\ value' = [value EXCEPT ![m.ch] = m.enable]
       /\ queue' = IF Cardinality(Cmds) < Buffers
                     THEN Append(Tail(queue), Cmd(m.ch, m.enable))
                     ELSE Tail(queue)
  /\ UNCHANGED <<sets, main, event, coro, age>>

-----------------------------------------------------------------------------
(* The coroutine of channel c. *)

Aged(c, changed) == IF changed THEN [age EXCEPT ![c] = 0] ELSE age

(* Faulty variant: there is no pause. *)
ObeyAtOnce(c, e) ==
  /\ target' = [target EXCEPT ![c] = e]
  /\ co' = [co EXCEPT ![c] = "pause"]
  /\ UNCHANGED left

(* It takes a command e: the first relay is switched, the pause begins.    *)
Obey(c, e) ==
  /\ target' = [target EXCEPT ![c] = e]
  /\ co' = [co EXCEPT ![c] = "pause"]
  /\ left' = [left EXCEPT ![c] = Debounce]

(* Faulty variant: both ways the ground relay is switched first. *)
ResumedByMainGroundFirst(c) ==
  LET e == payload[c] IN
    /\ Obey(c, e)
    /\ handle' = [handle EXCEPT ![c] = "null"]
    /\ engaged' = [engaged EXCEPT ![c] = 0]
    /\ gnd' = [gnd EXCEPT ![c] = e]
    /\ age' = Aged(c, gnd' # gnd)
    /\ UNCHANGED <<payload, out>>

(* operator() resumes it: await_resume and the first relay. *)
ResumedByMain(c) ==
  LET e == payload[c] IN
    /\ Obey(c, e)
    /\ handle' = [handle EXCEPT ![c] = "null"]
    /\ engaged' = [engaged EXCEPT ![c] = 0]
    /\ gnd' = IF e = 1 THEN [gnd EXCEPT ![c] = 1] ELSE gnd
    /\ out' = IF e = 0 THEN [out EXCEPT ![c] = 0] ELSE out
    /\ age' = Aged(c, gnd' # gnd \/ out' # out)
    /\ UNCHANGED payload

(* The pause is over, maybe late: the timer interrupt resumes it.  The     *)
(* second relay is switched and the next command awaited: if the event is  *)
(* engaged, the coroutine goes on with it at once.                         *)
SecondRelay(c) ==
  /\ out' = IF target[c] = 1 THEN [out EXCEPT ![c] = 1] ELSE out
  /\ gnd' = IF target[c] = 0 THEN [gnd EXCEPT ![c] = 0] ELSE gnd

PauseOverWaits(c) ==
  /\ co[c] = "pause"
  /\ left[c] = 0
  /\ engaged[c] = 0
  /\ SecondRelay(c)
  /\ age' = Aged(c, gnd' # gnd \/ out' # out)
  /\ handle' = [handle EXCEPT ![c] = "coroutine"]
  /\ co' = [co EXCEPT ![c] = "event"]
  /\ UNCHANGED <<host, queue, main, engaged, payload, target, left>>

(* The second relay and the first one of the next command, which are the   *)
(* same if the command is the opposite one.                                *)
PauseOverGoesOn(c) ==
  /\ co[c] = "pause"
  /\ left[c] = 0
  /\ engaged[c] = 1
  /\ LET e == payload[c]
         t == target[c] IN
       /\ Obey(c, e)
       /\ out' = [out EXCEPT ![c] = IF e = 0 THEN 0 ELSE IF t = 1 THEN 1 ELSE @]
       /\ gnd' = [gnd EXCEPT ![c] = IF e = 1 THEN 1 ELSE IF t = 0 THEN 0 ELSE @]
  /\ age' = Aged(c, gnd' # gnd \/ out' # out)
  /\ handle' = [handle EXCEPT ![c] = "null"]
  /\ engaged' = [engaged EXCEPT ![c] = 0]
  /\ UNCHANGED <<host, queue, main, payload>>

-----------------------------------------------------------------------------
(* The main loop delivers a command: operator() of the event, store by     *)
(* store.                                                                  *)

Ch == Head(queue).ch
Enable == Head(queue).enable

Deliver ==
  /\ mpc = "loop"
  /\ queue # << >>
  /\ Head(queue).type = "cmd"
  /\ mpc' = "reset"
  /\ UNCHANGED <<host, queue, first, stall, hdl, event, coro, age>>

(* emplace empties the optional, unless that store is optimised away.      *)
EmplaceReset ==
  /\ mpc = "reset"
  /\ engaged' \in {engaged, [engaged EXCEPT ![Ch] = 0]}
  /\ first' \in StoreOrders
  /\ mpc' = "first"
  /\ UNCHANGED <<host, queue, stall, hdl, payload, handle, coro, age>>

StorePayload ==
  payload' = [payload EXCEPT ![Ch] = Enable] /\ UNCHANGED <<engaged, handle>>
StoreEngaged ==
  engaged' = [engaged EXCEPT ![Ch] = 1] /\ UNCHANGED <<payload, handle>>

EmplaceFirst ==
  /\ mpc = "first"
  /\ IF first = "payload" THEN StorePayload ELSE StoreEngaged
  /\ mpc' = "second"
  /\ UNCHANGED <<host, queue, first, stall, hdl, coro, age>>

EmplaceSecond ==
  /\ mpc = "second"
  /\ IF first = "payload" THEN StoreEngaged ELSE StorePayload
  /\ mpc' = "load"
  /\ UNCHANGED <<host, queue, first, stall, hdl, coro, age>>

SwapLoad ==
  /\ mpc = "load"
  /\ hdl' = handle[Ch]
  /\ mpc' = "store"
  /\ UNCHANGED <<host, queue, first, stall, event, coro, age>>

(* operator() returns and the message is removed; the locals are gone.     *)
Return ==
  /\ mpc' = "loop"
  /\ queue' = Tail(queue)
  /\ first' = "payload"
  /\ stall' = 0
  /\ hdl' = "null"

(* Faulty variant: the coroutine is not resumed. *)
SwapStoreOnly ==
  /\ mpc = "store"
  /\ handle' = [handle EXCEPT ![Ch] = "null"]
  /\ Return
  /\ UNCHANGED <<host, engaged, payload, coro, age>>

SwapStore ==
  /\ mpc = "store"
  /\ handle' = [handle EXCEPT ![Ch] = "null"]
  /\ IF hdl = "null" THEN Return
                     ELSE mpc' = "call" /\ UNCHANGED <<queue, first, stall, hdl>>
  /\ UNCHANGED <<host, engaged, payload, coro, age>>

Call ==
  /\ mpc = "call"
  /\ ResumedByMain(Ch)
  /\ Return
  /\ UNCHANGED host

-----------------------------------------------------------------------------

(* Time passes while some pause lasts.  Interrupts do not keep thread mode *)
(* within operator() for longer than MaxStall ticks.                       *)
Tick ==
  /\ \E c \in Channels : left[c] > 0
  /\ mpc # "loop" => stall < MaxStall
  /\ stall' = IF mpc = "loop" THEN stall ELSE stall + 1
  /\ left' = [c \in Channels |-> IF left[c] > 0 THEN left[c] - 1 ELSE 0]
  /\ age' = [c \in Channels |-> IF age[c] < Debounce THEN age[c] + 1 ELSE age[c]]
  /\ UNCHANGED <<host, queue, mpc, first, hdl, event, co, target, gnd, out>>

MainLoop ==
  SetValue \/ Deliver \/ EmplaceReset \/ EmplaceFirst \/ EmplaceSecond
    \/ SwapLoad \/ SwapStore \/ Call

PauseOver(c) == PauseOverWaits(c) \/ PauseOverGoesOn(c)

Next ==
  \/ \E c \in Channels, e \in {0, 1} : HostSets(c, e)
  \/ MainLoop
  \/ \E c \in Channels : PauseOver(c)
  \/ Tick

Spec == Init /\ [][Next]_vars

(* The main loop and the clock run, and the timers fire.                   *)
FairSpec ==
  /\ Spec
  /\ WF_vars(MainLoop)
  /\ WF_vars(Tick)
  /\ \A c \in Channels : WF_vars(PauseOver(c))

-----------------------------------------------------------------------------
(* Properties. *)

HostTypeOK ==
  /\ value \in [Channels -> {0, 1}]
  /\ queue \in Seq(Messages)
  /\ sets \in 0..MaxSets

MainTypeOK ==
  /\ mpc \in {"loop", "reset", "first", "second", "load", "store", "call"}
  /\ first \in {"payload", "engaged"}
  /\ stall \in 0..MaxStall
  /\ hdl \in {"null", "coroutine"}

EventTypeOK ==
  /\ engaged \in [Channels -> {0, 1}]
  /\ payload \in [Channels -> {0, 1}]
  /\ handle \in [Channels -> {"null", "coroutine"}]

CoroTypeOK ==
  /\ co \in [Channels -> {"event", "pause"}]
  /\ target \in [Channels -> {0, 1}]
  /\ left \in [Channels -> 0..Debounce]
  /\ gnd \in [Channels -> {0, 1}]
  /\ out \in [Channels -> {0, 1}]
  /\ age \in [Channels -> 0..Debounce]

(* Every variable has its type. *)
TypeOK == HostTypeOK /\ MainTypeOK /\ EventTypeOK /\ CoroTypeOK

(* The output is never connected without its ground, whatever commands     *)
(* come while the relays are being switched.                               *)
Grounded(c) == out[c] = 1 => gnd[c] = 1
GroundFirst == \A c \in Channels : Grounded(c)

(* The relays of a channel are not switched within the debounce time of    *)
(* each other: when the output goes on, or the ground off, the other pin   *)
(* has been as it is for that long.                                        *)
Debounced ==
  [][\A c \in Channels :
       (out'[c] > out[c] \/ gnd'[c] < gnd[c]) => age[c] = Debounce]_vars

(* The event does not lock, but as long as interrupts do not stall thread  *)
(* mode for the debounce time its handle is not lost: a coroutine waiting  *)
(* for it has its handle there or with the main loop about to call it.     *)
Waits(c) ==
  co[c] = "event" => handle[c] # "null" \/ (mpc = "call" /\ Ch = c)
HandleKept == \A c \in Channels : Waits(c)

(* When the host stops, the relays end up as it has asked.                 *)
Converges ==
  \A c \in Channels, e \in {0, 1} :
    <>[](value[c] = e) => <>[](gnd[c] = e /\ out[c] = e)
-----------------------------------------------------------------------------
(* The inductive invariant of the proofs. *)

(* What the pins are during a pause, and how long it has taken.            *)
PinsFollow(c) ==
  co[c] = "pause" =>
    /\ target[c] = 1 => gnd[c] = 1
    /\ target[c] = 0 => out[c] = 0
    /\ age[c] + left[c] >= Debounce

(* If the command has been taken during operator(), its pause outlasts it. *)
Filled ==
  mpc \in {"load", "store"} \/ (mpc = "second" /\ first = "engaged")
Outlasts(c) ==
  Filled /\ Ch = c /\ co[c] = "pause" =>
    engaged[c] = 1 \/ left[c] + stall >= Debounce

(* The handle is only there while the coroutine waits, ...                 *)
HandleOwned(c) == handle[c] # "null" => co[c] = "event"

(* ... and the copy that operator() takes is right.                        *)
CopyRight ==
  /\ mpc = "store" => co[Ch] = IF hdl = "null" THEN "pause" ELSE "event"
  /\ mpc = "call" => co[Ch] = "event"
  /\ mpc = "loop" => stall = 0
  /\ mpc # "loop" => queue # << >>

IInv ==
  /\ TypeOK
  /\ GroundFirst
  /\ HandleKept
  /\ \A c \in Channels : PinsFollow(c) /\ Outlasts(c) /\ HandleOwned(c)
  /\ CopyRight
=============================================================================
