------------------------------ MODULE Buttons ------------------------------
(***************************************************************************)
(* The buttons: a coroutine for each waits for the level that its next     *)
(* state has, in the interrupt of the pin, looks again when the debounce   *)
(* time is over, in the timer's, and reports the state to the configuration*)
(* value and by a message.  Only the first wait begins in thread mode,     *)
(* where the interrupt may come between enabling it and co_await.          *)
(***************************************************************************)
EXTENDS Naturals, Sequences

CONSTANTS
  Buttons,
  Slots,      \* messages in btn_event_msg_buffer
  MaxEdges    \* bound: changes of each pin's level

VARIABLES
  high,       \* the buttons whose pin is high: not pressed
  irq,        \* the level each pin's interrupt is enabled for, or "off"
  wait,       \* where the coroutine is: "begin", "event", "debounce"
  noted,      \* the awaitable's flag: the event came before co_await
  isDown,     \* the coroutine waits for the release
  btnCfg,     \* the buttons that are pressed as the configuration has it
  queue,      \* posted events
  told,       \* history: the buttons that are pressed as listeners know it
  missed,     \* history: the buttons whose last event was dropped
  edges

coroutine == <<wait, noted, isDown>>
report == <<btnCfg, queue, missed>>
vars == <<high, irq, coroutine, report, told, edges>>

Init ==
  /\ high \in SUBSET Buttons
  /\ irq = [b \in Buttons |-> "off"]
  /\ wait = [b \in Buttons |-> "begin"]
  /\ noted = {} /\ isDown = {} /\ btnCfg = {}
  /\ queue = << >> /\ told = {} /\ missed = {}
  /\ edges = [b \in Buttons |-> 0]

Toggled(S, b) == (S \ {b}) \cup ({b} \ S)
With(S, b, on) == IF on THEN S \cup {b} ELSE S \ {b}

(* listen until its first co_await; the awaitable's flag makes that return *)
(* at once. *)
Listen(b) ==
  /\ wait[b] = "begin" /\ irq[b] = "off" /\ b \notin noted
  /\ irq' = [irq EXCEPT ![b] = "low"]
  /\ UNCHANGED <<high, coroutine, report, told, edges>>

Await(b) ==
  /\ wait[b] = "begin" /\ (irq[b] # "off" \/ b \in noted)
  /\ wait' = [wait EXCEPT ![b] = IF b \in noted THEN "debounce" ELSE "event"]
  /\ noted' = noted \ {b}
  /\ UNCHANGED <<high, irq, isDown, report, told, edges>>

(* The level interrupt disables itself. *)
Interrupt(b) ==
  /\ irq[b] = (IF b \in high THEN "high" ELSE "low")
  /\ irq' = [irq EXCEPT ![b] = "off"]
  /\ IF wait[b] = "event"
       THEN wait' = [wait EXCEPT ![b] = "debounce"] /\ UNCHANGED noted
       ELSE noted' = noted \cup {b} /\ UNCHANGED wait
  /\ UNCHANGED <<high, isDown, report, told, edges>>

(* post_state: the configuration follows, if there is a message or not.    *)
PostState(b, down) ==
  /\ btnCfg' = With(btnCfg, b, down)
  /\ IF Len(queue) < Slots
       THEN queue' = Append(queue, [btn |-> b, down |-> down]) /\ missed' = missed \ {b}
       ELSE missed' = missed \cup {b} /\ UNCHANGED queue

(* Faulty variant: the interrupt stays off after a bounce. *)
DebouncedNotRearmed(b) ==
  /\ wait[b] = "debounce"
  /\ wait' = [wait EXCEPT ![b] = "event"]
  /\ IF (b \in high) = (b \in isDown)
       THEN /\ isDown' = Toggled(isDown, b)
            /\ irq' = [irq EXCEPT ![b] = IF b \in isDown' THEN "high" ELSE "low"]
            /\ PostState(b, b \in isDown')
       ELSE UNCHANGED <<irq, isDown, report>>
  /\ UNCHANGED <<high, noted, told, edges>>

(* The debounce time is over: the level is looked at again.                *)
Debounced(b) ==
  /\ wait[b] = "debounce"
  /\ wait' = [wait EXCEPT ![b] = "event"]
  /\ IF (b \in high) = (b \in isDown)
       THEN isDown' = Toggled(isDown, b) /\ PostState(b, b \in isDown')
       ELSE UNCHANGED <<isDown, report>>
  /\ irq' = [irq EXCEPT ![b] = IF b \in isDown' THEN "high" ELSE "low"]
  /\ UNCHANGED <<high, noted, told, edges>>

(* The main loop tells the listeners. *)
Deliver ==
  /\ queue # << >>
  /\ told' = With(told, Head(queue).btn, Head(queue).down)
  /\ queue' = Tail(queue)
  /\ UNCHANGED <<high, irq, coroutine, btnCfg, missed, edges>>

(* Somebody presses or releases a button, or its contact bounces.          *)
Edge(b) ==
  /\ edges[b] < MaxEdges
  /\ edges' = [edges EXCEPT ![b] = @ + 1]
  /\ high' = Toggled(high, b)
  /\ UNCHANGED <<irq, coroutine, report, told>>

Works(b) == Listen(b) \/ Await(b) \/ Interrupt(b) \/ Debounced(b)

Next == Deliver \/ \E b \in Buttons : Works(b) \/ Edge(b)

(* Interrupts are served, the debounce time ends and main goes on.         *)
Fairness == WF_vars(Deliver) /\ \A b \in Buttons : WF_vars(Works(b))

Spec == Init /\ [][Next]_vars /\ Fairness

-----------------------------------------------------------------------------
(* Properties. *)

(* When the buttons are left alone, the configuration gets to show exactly *)
(* those that are pressed, however they bounced and also if one is held    *)
(* when the program starts; and so do the listeners, but for buttons whose *)
(* last event found no free message.                                       *)
ButtonsSettle ==
  <>[](/\ btnCfg = Buttons \ high
       /\ \A b \in Buttons \ missed : b \in told <=> b \in btnCfg)
=============================================================================
