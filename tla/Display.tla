------------------------------ MODULE Display ------------------------------
(***************************************************************************)
(* The display: a coroutine that lets LVGL draw every 10 ms, the driver    *)
(* that sends commands itself and pixels by DMA, and the listeners that    *)
(* put readings and setpoints into the labels.                             *)
(*                                                                         *)
(* The coroutine is resumed by the timer's interrupt and goes on in thread *)
(* mode by a message.  LVGL is external, as the driver is called by it: it *)
(* draws area by area into two buffers in turn, and waits for the transfer *)
(* of one area before it flushes the next.  A call that has nothing to     *)
(* draw is over before the next tick.  co_await sw2main in thread mode     *)
(* does nothing here; usbcom_switch shows what it does.                    *)
(***************************************************************************)
EXTENDS Naturals, Sequences

CONSTANTS
  Sources,   \* whose values the labels show
  Areas,     \* number of areas that LVGL divides the screen into
  MaxNews    \* bound: messages of each source

VARIABLES
  at,        \* where the coroutine is suspended or what it does
  ticked,    \* the ticker's awaitable has a value
  main,      \* thread mode: "loop", "listener" or "coroutine"
  calls,     \* what LVGL and the driver have still to do, <<operation, area>>
  heard,     \* readings and setpoint, as the listeners keep them
  labels, made,                   \* the labels' text; ch1 and ch2 are set
  dirty, flushing, act, buffer,   \* LVGL: areas to draw, its flag, its buffers
  busy, selected, command,        \* dma_busy, and the pins: ncs low, dc low
  dma, screen                     \* the transfer, and what the panel shows

coroutine == <<at, ticked>>
values == <<heard, labels, made>>
lvgl == <<dirty, flushing, act, buffer>>
pins == <<selected, command>>
vars == <<coroutine, main, calls, values, lvgl, busy, pins, dma, screen>>

Blank == [s \in Sources |-> MaxNews + 1]
NoDma == [state |-> "idle", area |-> 0, buf |-> 0]

Init ==
  /\ at = "low" /\ ticked = FALSE /\ main = "loop" /\ calls = << >>
  /\ heard = [s \in Sources |-> 0] /\ labels = heard /\ made = FALSE
  /\ dirty = FALSE /\ flushing = FALSE
  /\ act = 0 /\ buffer = [b \in {0, 1} |-> Blank]
  /\ busy = FALSE /\ selected = FALSE /\ command = FALSE
  /\ dma = NoDma /\ screen = [a \in 1..Areas |-> Blank]

-----------------------------------------------------------------------------
(* What is called, as sequences of steps. *)

Steps(ops, a) == [k \in DOMAIN ops |-> <<ops[k], a>>]

lcd_send_cmd == <<"wait", "command", "data", "release">>

(* Faulty variant: dma_busy is set when the transfer runs. *)
lcd_send_color_late == <<"wait", "command", "pixels", "busy">>

lcd_send_color == <<"wait", "busy", "command", "pixels">>

(* lv_st7735's flush callback: columns, rows, pixels; for area after area. *)
DrawArea == <<"draw", "flush">> \o lcd_send_cmd \o lcd_send_cmd \o lcd_send_color

Refresh ==
  [k \in 1..(Areas * Len(DrawArea)) |->
     <<DrawArea[1 + ((k - 1) % Len(DrawArea))], 1 + ((k - 1) \div Len(DrawArea))>>]

-----------------------------------------------------------------------------
(* The coroutine. *)

(* Faulty variant: without sw2main the handler runs in the interrupt.      *)
AlarmWithoutSwitch ==
  /\ at \in {"low", "high", "ticker"}
  /\ at' = CASE at = "low" -> "high" [] at = "high" -> "setup" [] OTHER -> "draw"
  /\ calls' = IF at = "ticker" /\ dirty THEN Refresh ELSE calls
  /\ dirty' = (dirty /\ at # "ticker")
  /\ UNCHANGED <<ticked, main, values, flushing, act, buffer, busy, pins, dma, screen>>

(* The timer's interrupt: the reset of the panel is over, or the ticker    *)
(* goes; the coroutine posts the message that resumes it, or is not there. *)
Alarm ==
  /\ \/ at = "low" /\ at' = "high" /\ UNCHANGED ticked
     \/ at = "high" /\ at' = "setup" /\ UNCHANGED ticked
     \/ at = "ticker" /\ at' = "posted" /\ UNCHANGED ticked
     \/ at \in {"posted", "draw"} /\ ticked' = TRUE /\ UNCHANGED at
  /\ UNCHANGED <<main, calls, values, lvgl, busy, pins, dma, screen>>

(* The trampoline resumes it: DMA and LVGL are set up, the panel gets its  *)
(* first commands.  *)
Setup ==
  /\ main = "loop" /\ at = "setup"
  /\ main' = "coroutine" /\ at' = "create"
  /\ calls' = Steps(lcd_send_cmd \o lcd_send_cmd \o <<"monitor">>, 0)
  /\ UNCHANGED <<ticked, values, lvgl, busy, pins, dma, screen>>

Does(op) == calls # << >> /\ Head(calls)[1] = op /\ calls' = Tail(calls)

(* The labels are made, with what the listeners have heard before.         *)
Monitor ==
  /\ Does("monitor")
  /\ labels' = heard /\ made' = TRUE /\ dirty' = TRUE
  /\ at' = "ticker" /\ main' = "loop"
  /\ UNCHANGED <<ticked, heard, flushing, act, buffer, busy, pins, dma, screen>>

(* lv_timer_handler *)
Handle ==
  /\ main = "loop" /\ at = "posted"
  /\ IF dirty
       THEN /\ main' = "coroutine" /\ at' = "draw" /\ dirty' = FALSE
            /\ calls' = Refresh /\ UNCHANGED ticked
       ELSE at' = "ticker" /\ ticked' = FALSE /\ UNCHANGED <<main, calls, dirty>>
  /\ UNCHANGED <<values, flushing, act, buffer, busy, pins, dma, screen>>

(* If the ticker went meanwhile it is called again, with nothing to draw.  *)
Handled ==
  /\ at = "draw" /\ calls = << >>
  /\ at' = "ticker" /\ ticked' = FALSE /\ main' = "loop"
  /\ UNCHANGED <<calls, values, lvgl, busy, pins, dma, screen>>

(* The listeners: LVGL is called when there are labels. *)
Hear ==
  /\ main = "loop"
  /\ \E s \in Sources : heard[s] < MaxNews /\ heard' = [heard EXCEPT ![s] = @ + 1]
  /\ main' = IF made THEN "listener" ELSE "loop"
  /\ UNCHANGED <<coroutine, calls, labels, made, lvgl, busy, pins, dma, screen>>

Update ==
  /\ main = "listener"
  /\ labels' = heard /\ dirty' = TRUE /\ main' = "loop"
  /\ UNCHANGED <<coroutine, calls, heard, made, flushing, act, buffer, busy, pins, dma, screen>>

-----------------------------------------------------------------------------
(* The steps of LVGL and the driver. *)

Draw ==
  /\ Does("draw") /\ buffer' = [buffer EXCEPT ![act] = labels]
  /\ UNCHANGED <<coroutine, main, values, dirty, flushing, act, busy, pins, dma, screen>>

Flush ==
  /\ ~flushing /\ Does("flush") /\ flushing' = TRUE
  /\ UNCHANGED <<coroutine, main, values, dirty, act, buffer, busy, pins, dma, screen>>

Wait ==
  /\ ~busy /\ Does("wait")
  /\ UNCHANGED <<coroutine, main, values, lvgl, busy, pins, dma, screen>>

Busy ==
  /\ Does("busy") /\ busy' = TRUE
  /\ UNCHANGED <<coroutine, main, values, lvgl, pins, dma, screen>>

SetPins(op, sel, cmd) ==
  /\ Does(op) /\ selected' = sel /\ command' = cmd
  /\ UNCHANGED <<coroutine, main, values, lvgl, busy, dma, screen>>

(* The command and its parameters, written by the processor.               *)
Write == SetPins("command", TRUE, TRUE) \/ SetPins("data", selected, FALSE)
Release == SetPins("release", FALSE, command)

(* The transfer starts, and LVGL goes to its other buffer.                 *)
Pixels ==
  /\ dma.state = "idle" /\ calls # << >>
  /\ dma' = [state |-> "run", area |-> Head(calls)[2], buf |-> act]
  /\ Does("pixels") /\ command' = FALSE /\ act' = 1 - act
  /\ UNCHANGED <<coroutine, main, values, dirty, flushing, buffer, busy, selected, screen>>

(* The transmitter's DMA is through, then the last words leave the FIFO    *)
(* and the receiver's is. *)
Transfer ==
  /\ \/ dma.state = "run" /\ dma' = [dma EXCEPT !.state = "drain"] /\ UNCHANGED screen
     \/ /\ dma.state = "drain" /\ dma' = [dma EXCEPT !.state = "done"]
        /\ screen' = [screen EXCEPT ![dma.area] = buffer[dma.buf]]
  /\ UNCHANGED <<coroutine, main, calls, values, lvgl, busy, pins>>

(* Faulty variant: the interrupt is the transmitter's. *)
XferDoneOfTx ==
  /\ dma.state = "drain"
  /\ selected' = FALSE /\ busy' = FALSE /\ flushing' = FALSE
  /\ UNCHANGED <<coroutine, main, calls, values, dirty, act, buffer, command, dma, screen>>

(* xfer_done_handler, the interrupt of the receiver's DMA.                 *)
XferDone ==
  /\ dma.state = "done"
  /\ dma' = NoDma /\ selected' = FALSE /\ busy' = FALSE /\ flushing' = FALSE
  /\ UNCHANGED <<coroutine, main, calls, values, dirty, act, buffer, command, screen>>

Driver == Draw \/ Flush \/ Wait \/ Busy \/ Write \/ Release \/ Pixels
Thread == Setup \/ Monitor \/ Handle \/ Handled \/ Update \/ Driver

Next == Alarm \/ Hear \/ Thread \/ Transfer \/ XferDone

(* Thread mode goes on, the ticker ticks, transfers end and interrupt.     *)
Fairness == WF_vars(Thread) /\ WF_vars(Alarm) /\ WF_vars(Transfer) /\ WF_vars(XferDone)

Spec == Init /\ [][Next]_vars /\ Fairness

-----------------------------------------------------------------------------
(* Properties. *)

Doing(ops) == calls # << >> /\ Head(calls)[1] \in ops

(* LVGL is called in thread mode only, where nobody else is in it; and the *)
(* panel understands what it is sent: pixels only while it is selected for *)
(* data, up to the last bit, from a buffer that LVGL does not draw into,   *)
(* and nothing is written or deselected before they are through.           *)
PanelIntact ==
  /\ at \in {"create", "draw"} => main = "coroutine"
  /\ dma.state \in {"run", "drain"} => selected /\ ~command
  /\ dma # NoDma /\ Doing({"draw"}) => act # dma.buf
  /\ Doing({"data", "release", "pixels"}) => selected /\ dma = NoDma

(* When no news come any more, all of the panel comes to show the last.    *)
ShowsLatest == <>[](\A a \in 1..Areas : screen[a] = heard)
=============================================================================
