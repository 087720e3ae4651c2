# A TLA+ model of the WattaVolt firmware

WattaVolt is a two-channel lab power supply on an RP2040. This directory models
its firmware (`src/fw/src`): the `cranc` framework of messages, timers, coroutines
and claims, the USB stack, and the components that are built on them. TLC checks small instances; TLAPS proves the most important results for all
values of the constants.

All paths below are relative to `src/fw/src`.

## How the firmware runs

One core. *Thread mode* is `main()`: it initialises the modules, then takes
messages from the pump for ever. *Interrupts* are the timer alarm, USB, I2C, DMA
and GPIO, all of the same priority: they preempt thread mode, but not each
other. `LockGuard` disables them. Coroutines have no thread of their own:
whoever resumes one runs it up to its next suspension, so the same coroutine
runs in an interrupt at one time and in thread mode at another.

This gives the grain of every module here:

- what an interrupt does, including the coroutines it resumes, is one step;
- thread mode takes one step per locked section, or, where it does not lock, one
  per access to state an interrupt also uses.

Out of this come the hard behaviours: an interrupt between two locked sections
of thread mode, an event between looking and suspending, callbacks that change
the list that is being walked, buffers that are exhausted, coroutines destroyed
while a handle of theirs is on its way.

## Inventory

| Component | State | Operations | Interacts with | Correct if |
|---|---|---|---|---|
| Messages, main loop (`cranc/msg`, `main.cpp`) | queue, slots of each `MessageBufferMemory` | `getFreeMessage`, `post`, `frontMessage`, `invoke`, `remove` | everybody posts; listeners run in thread mode | every listener hears every message once, in order; the depth limit is not reached |
| Software timers (`cranc/timer`, `misc/hwTimer.cpp`) | list of timers, the alarm | `start`, `stop`, `trigger` | delays of coroutines, clients' callbacks | no timer missed, none called after its stop, no drift |
| Awaitables (`cranc/coro/Awaitable.h`) | value, handle | `co_await`, `operator()`, `clear` | timers, interrupts, listeners | no wakeup lost, none given twice, nothing stale |
| Claims (`cranc/util/Claimable.h`) | list of claims | `claim`, release, withdraw | the I2C bus | one holder, most important first, never idle while wanted |
| Relays (`relais.cpp`) | enable values, commands, event, pins | setter, listener, coroutine | configuration, pump, timers | ground before output, debounced, last command wins |
| General USB interface (`misc/usbCom.cpp`, `cranc/coro/SwitchToMainLoop.*`) | worker, buffers, endpoints | rx and tx callbacks, worker, restart | USB interrupt, pump, configuration | every request gets its own answer; values are set whole and once |
| USB control pipe (`usb/usb.cpp`) | pending interrupt bits, buffers of endpoint 0, the answering coroutine | SETUP, completions, bus reset | the host; every request handler | each transfer that finds the device at rest ends, with its own packets and the PIDs both sides expect |
| USB configurations (`usb/usb.cpp`, `usb/usb.h`) | active configuration, settings, endpoints' memory and PIDs | `SET_CONFIGURATION`, `SET_INTERFACE`, send, receive, halt | interfaces start to receive | buffers do not overlap, both sides agree on the next PID |
| USB descriptors (`usb/usb.cpp`, `util/ChunkBuffer.h`) | generators, lists of strings and interfaces | packets, numbering | control pipe, `LinkedList` | the host reads the whole descriptor and knows where it ends; numbers mean what they did |
| I2C driver (`i2c/`) | queue of actions, worker, FIFOs, interrupt mask | put, worker, interrupt | analog readings | each transfer is reported once, in order, truthfully |
| Analog readings (`analog_readings.cpp`) | channel, samples, alert, timeout | monitor, restart | I2C, timers, GPIO, pump | a round has a new sample of every channel; measuring never stops |
| Buttons (`buttons.cpp`) | event, level waited for, value | wait, debounce, report | GPIO, timers, pump, configuration | value and listeners end up with what is pressed |
| Outputs (`output.cpp`) | setpoints, raw levels, polynomials, PWM registers | four setters | configuration, pump | no level for another frequency while the PWM runs |
| Display (`display.cpp`) | DMA flag, pins, ticker, labels | tick, flush, interrupt, listeners | LVGL, DMA interrupt, pump | LVGL and panel are used by one at a time; the last values are shown |
| Persistent configuration (`persistent_config/`) | flash region | load, erase, save | configuration | after a power failure all values or none |
| Time accounting (`cranc/timer/ISRTime.h`) | two running intervals | begin, end | interrupts | each total is the time of what it is said to count |
| Heartbeat (`misc/Heartbeat.cpp`) | colour, timer | show, wait | timers, pump, LED | colours in order and without drift |
| Tasks and generators (`cranc/coro/Task.h`, `Generator.h`) | frames, promises, handles | call, await, end, terminate, yield | everything that is a coroutine | no frame is left without an owner, an event resumes who awaits it; values are read once |
| Lists (`cranc/util/LinkedList.h`) | pointers, iterators' sentinels | insert, remove, move, iterate | modules, listeners, messages, USB lists | an iteration visits every member once while the list changes |
| Heap (`malloc/`) | heap, saved interrupt masks | malloc, free, new, delete | all coroutines | nobody is interrupted within the heap |

Not modelled at all: the serial device (no instance is built), the setup of the
LED's PIO, vendored code, and what no `CMakeLists.txt` compiles (`led/led.cpp`,
`watchdog.cpp`, `Heartbeat_w.cpp`, `cranc/msg/Message.cpp`). `PROJECT.json` lists
every component with its status and, under `hazards`, every place that is hard to
test and the properties that watch it.

## Modules

### MessagePump and MessageChannel

`MessagePump` has the queue, the payload of every slot and the program counter
of the main loop (`front`, `invoke`, `remove`). A slot is in use exactly while
it is linked (`Message.h:18`), so sending is two locked steps in thread mode
(`MainGet`, `MainPost`) with interrupts between them, and one step in an
interrupt (`IsrSend`). Listeners are called one by one and may send themselves.
`posted`, `heard` and `done` are history. `MessageChannel` is what users rely
on: an unbounded first-in first-out channel; a message is *handled* when its
last listener is called. Each buffer is used from one context, as in the
firmware; two contexts sharing a buffer would get the same slot.

### SWTimer

The handler takes one step per timer it looks at; clients start and stop timers
between those steps (from callbacks) and whenever it is idle. The walk is
represented by the set of timers it has not visited, in any order: a timer
inserted during the walk comes in front of its position. That a walk visits neither a
stopped timer nor one twice is `LinkedList`'s `VisitsOnce`. Time is in units finer
than the hardware's (`Res`), so alarms are truncated and may come too early.

### Awaitable

One coroutine and one awaitable that locks. Thread mode goes through
`await_ready`, `await_suspend` and `await_resume` in separate steps, a producer
through `operator()` in two (take the handle, resume). The three `kind`s differ
in what an event does to the value: replace, raise a flag, add up.

### Claimable and PriorityLock

The list of claims is sorted by priority, and a more important claim is linked
in front of the one that has the resource. Only claims and releases in
interrupts are modelled, because the firmware's only client (`analog_readings.cpp`)
does both there. `PriorityLock`
states the promise: the next holder is the most important waiter, the first to
come among equals.

### Relais

The only user of an awaitable without a lock, and therefore modelled down to the
stores of `operator()`: emptying the optional, value and flag in either order
(`StoreOrders`: the compiler's choice), and the unlocked swap of the handle.
The coroutine runs in the timer interrupt after a pause, and in thread mode when
a command finds it waiting. The USB worker sets values only from a message of
its own, so commands alternate with `switch` messages.

### UsbCom

The worker's state is one record (program counter, both awaitables, both
endpoints, buffers). The pieces of code between two `co_await`s are functions on
that record; an interrupt applies one and suspends (`RunInIsr`), thread mode
takes a step per `co_await`, so that transfers complete in between. Data is a
packet of a numbered request. `gen` numbers the workers: handles are those
numbers, so a handle that outlives its worker is visible. Transfer and
completion interrupt are one step.

### Tasks, AsyncGenerator, QueuedAwaitable, Heap, LinkedList

The rest of the framework, one module each.

- `Tasks`: a chain of tasks, each held by the frame that called it; the innermost
  awaits an event, and the worker may terminate the outermost at any time. The
  awaitable keeps the handle then, and the event resumes whatever handle it has
  (`Event`); a frame that is gone may so be run, and the model stops there, as what
  follows is undefined. `TasksReturn`: a handle is that of the parent, and lives;
  nobody waits for somebody who is through; no value is taken twice; and an event
  that a task awaits resumes that task, so that a frame that is gone is run only by
  one that comes after `terminate` and before the next await or `clear`. All of it
  happens in one context, as in the firmware.
- `AsyncGenerator`: promise, reader and event. `GeneratorInStep`: the reader has
  every value once and in order, and is never suspended with nobody to wake it.
- `QueuedAwaitable`: the ring and its counting variant; producers are interrupts.
- `Heap`: `malloc`, `free`, `new`, `delete` and `terminate` with one to three
  nested guards, in thread mode and an interrupt. The library's function is two
  steps, so a missing guard shows. A `panic` stops everything.
- `LinkedList`: the ring pointer by pointer and one iteration. Iterating does not
  lock, so it takes a step per pointer operation, with insertions, removals and
  moves between them and in the loop's body.

### UsbControl, UsbEndpoints, UsbDescriptors, UsbNumbers

Four views of the USB stack.

- `UsbControl`: the host leaves bits (SETUP, completions, reset); the interrupt
  reads which there are and handles them in the code's order, SETUP first. SETUP and
  reset come at any time, also in the middle of a transfer and while the interrupt
  runs: a completion may then belong to a transfer that has been given up, its
  coroutine's handle is still in `ep0_tx_done` or `ep0_rx_done`, and a packet it
  offered is still in the buffer. All of this is in the model; a handle whose
  coroutine is destroyed, or does not wait for this, leads to the state `dangling`,
  which has no successor but the host's steps. `rested` tells whether the SETUP of the
  current transfer found the device *at rest*: nothing pending, no packet offered, no
  completion noted. `RightAnswer` compares, for those, what the host has accepted with
  its own request, wherever the transfer is given up or the bus reset; `Answered` is
  their progress.
- `UsbEndpoints`: memory layout and data PIDs. Configurations are a parameter.
  `BuffersApart` speaks about memory, `TogglesAgree` about the two toggles.
- `UsbDescriptors`: pieces of any length, trimmed to what the host asked for, cut
  into packets by `ChunkBuffer`, with the packet of no length where it is needed.
  `HostReadsDescriptor`: both sides agree on the end.
- `UsbNumbers`: a number is a place in a list that has an iterator's sentinel in
  it while a transfer walks it, and that still grows while the program is
  constructed.

### I2c and Transfers

`Transfers` is what clients rely on: reports once and in order. `I2c` has the
queue of actions, the worker from `co_await` to `co_await`, the interrupt that
masks itself and resumes it, and the controller, which takes commands at any time
and may fail at any byte. The client may ask again from the callback. Errors leave
the loop at every await, through the code's `Finally`, which is why
`ImplementsTransfers` is worth checking.

### AnalogReadings, Buttons, Output, Display, PersistentConfig, Timekeeping, Heartbeat

- `AnalogReadings`: one step per interrupt. A transfer reported as failed may or
  may not have reached the ADC; conversions may be lost; the timeout may come
  although the alert is on its way. The I2C bus is what `I2c` gives: by the finding
  `i2c_nacks` a read whose register was not selected is reported as done
  (`SelectLost`), and its bytes are a `Misread` sample. `RoundsAreWhole` allows
  those, after such a fault, and nothing else that is wrong: a posted round may
  contain the bytes of another register.
- `Buttons`: a level interrupt, a debounce time, and a report that may find no
  message free (`missed`).
- `Output`: a callback is a sequence of writes, the PWM runs between them.
- `Display`: LVGL and the driver call each other; DMA has its own pace, and the
  FIFO is not empty when its interrupt comes (`drain`).
- `PersistentConfig`: erase and program steps with a power failure between any
  two, then firmware with another list of configurations.
- `Timekeeping`: `WorkingTime` in two unlocked steps each, `ISRTime` in one.
  `i2c_irq` and `gpio_callback` have no `ISRTime` (`EnterOther`): their time is in no
  total while the main loop is idle, and counts as its work while it works.
- `Heartbeat`: the timer is set to the end of the colour's own time, which may be
  over when the message is handled late.

### MCFramework, MCUsb, MCDevices

These three compose modules that share no state. A variable `part` says whose
behaviour it is; the other parts stay in an initial state. So one run checks all
of its parts, each on its own, and the state space is their sum. A part's fairness
is required of its own behaviours only. A property of the run is that of the
part, as it is stated there; it holds trivially in the initial states of the
others.

## Runs

| Run | Bounds | Shows |
|---|---|---|
| `pump` | 2 buffers of 2 slots, one per context, 2 listeners, 4 posts, depth limit 3 | slots, order, delivery, and the refinement of `MessageChannel`. Two slots per buffer are the fewest with a free and a used one; four posts reuse a slot; four queued messages pass the limit |
| `timer` | 2 timers, resolution 2, time up to 7 | alarm and counts with timeouts before boot, past, on and between clock steps; every due timer is called |
| `framework` | 5 claims of 3 priorities; 5 tasks, 3 deep; FIFO of 2, 5 puts; 3 yields; 2 blocks, 4 calls; awaitables of all kinds, 5 events, up to 2 periods at once | claims are handed over and implement `PriorityLock`; tasks, queues, generators and the heap; no lost, doubled or stale wakeup. Five puts wrap the ring; four calls nest an interrupt's in a free in thread mode; five events cover one before, within and after two awaits |
| `relais` | 2 channels, 2 buffer slots (the code has 4, so exhaustion is harder to avoid here), 3 commands, pause of 2, stall of 1 | order, debouncing, and that relays end up as they were set |
| `usbcom` | 3 requests of 7 shapes, 3 workers, buffer of 2 packets | answers, buffers and values stay apart across restarts, and requests are answered. A third worker restarts a restart |
| `usbcom_switch`, `usbcom_restart`, `i2c_nacks`, `usb_abandon` | those of the run they belong to | findings, see below |
| `i2c` | 5 kinds of transfers, 3 asked, FIFO of 3, queue of 5 | three transfers are one before, one during and one after an error; the longest does not fit into FIFO or its threshold |
| `usb` | 3 transfers of 9 kinds, given up anywhere, 1 reset; 2 configurations with shared, double and isochronous endpoints, 640 bytes; packets of 4 bytes, up to 3 pieces, 12 bytes asked; 3 strings, 2 interfaces | every kind follows every other; lengths below, on and above a packet |
| `devices` | 4 channels, 3 faults; regions of 2 sectors, 3 configurations, 3 versions of the program; 3 elements, 5 changes; 2 buttons, 3 edges; 3 sets; 3 areas, 2 news; 5 ticks; 5 colours | the parts around the outputs. The firmware measures four channels; three areas use both of LVGL's buffers and the first one again |

Deadlock is checked in `timer` only. Elsewhere a behaviour may end by design: the
depth breakpoint, a coroutine waiting for an event that does not come, a host that
asks for nothing more, a panic. Where progress matters it is a liveness property.

**Fairness.** Main loop and `MainPost`: thread mode is a loop without a wait.
Alarms, handlers and completions: hardware raises the interrupt and nothing of the
same priority lasts for ever; clocks and transfers advance. Resumed coroutines and
producers with a handle go on because they are running code. A claim's holder
eventually releases: each transfer ends in a result or an error, which is what
`ImplementsTransfers` shows. In `usbcom` and `usb` the host sends the rest of a
request it has begun and reads the answer; nothing is assumed of a host that begins
nothing. `KeepsMeasuring` has boundedly many faults. `Converges`, `ButtonsSettle`
and `ShowsLatest` assume nothing of their environment: they speak of behaviours
where commands, buttons or news stop changing, as every bounded one's do.

### Environment restrictions of the passing runs

- `relais` assumes the value of the optional is stored before its flag
  (`StoreOrders`). The code has a data race here (`relais.cpp:55`); with the flag
  first an interrupt in between obeys the previous value. Both are legal for a
  compiler. The proofs are about both.
- `Relais` assumes interrupts do not keep thread mode within `operator()` for
  the whole debounce time of 100 ms (`MaxStall < Debounce`).
- `usbcom` has `AnytimeHost = FALSE`: the host does not change the altsetting
  while the worker waits for, or runs in, the main loop. `usbcom_restart` drops
  this.
- A request with an operation above 5 has no answer of its own, and sends what a
  restart in the middle of an answer has left in `response` (`usbCom.cpp:193`).
  The run has such requests, and `OwnAnswer` excepts them; the repository's host
  scripts send operations 0 to 5 only.
- `UsbEndpoints` has packets on endpoints with one buffer only, as the firmware's
  are; of those with two only the layout is modelled. `TogglesAgree` excepts
  endpoints whose halt was cleared or whose reception was stopped: the code keeps
  its PID there.
- `PersistentConfig` has images of one page: those of several are programmed in
  ascending order, the count first, and would be found half written.
- `Claimable` is claimed and released in interrupts, `QueuedAwaitable` is filled
  in interrupts, tasks are awaited in one context: as in the firmware.
- In `Display` and `Heartbeat`, `co_await sw2main` in thread mode does nothing;
  `usbcom_switch` is about what it does.

- A transfer whose SETUP does not find the device at rest has no claim in `RightAnswer`
  and `Answered`: what happens to it depends on what is left, and `usb_abandon` shows
  what may. Transfers after it have, if they begin at rest. `UsbControl` ends when a
  destroyed coroutine is run. SETUP raises its bit and stores its packet in one step,
  which the worker reads in one step with clearing it; the changes of a buffer's
  register are one step each. A buffer that is offered stays offered at a SETUP: the
  controller does not take it back, and nothing in `usb.cpp` does.
- `AnalogReadings` assumes the pauses of 10 ms outlast a conversion.
- `I2c` has an error interrupt that finds nobody waiting (`i2c.cpp:293`) as a step that
  changes nothing. A synced write of one byte is not among its transfers: those of the
  firmware have three.

### Findings

- **`usbcom_switch`**. `SwitchToMainLoop::await_ready` is true in thread mode, so
  no message is taken, yet `await_resume` dereferences it (`SwitchToMainLoop.h:25`).
  The USB worker gets there when an answer and the next request both complete
  before it suspends. The heartbeat does at every start (`Heartbeat.cpp:59`).
- **`usbcom_restart`**. An altsetting chosen while the worker waits for the main
  loop destroys it, but its handle stays in the posted message, and the
  trampoline resumes it (`usbCom.cpp:212`, `SwitchToMainLoop.cpp:16`).
- **`i2c_nacks`**. When the write that selects a register is not acknowledged,
  the FIFO is flushed, the read that follows skips the loop that looks for errors,
  and reports success with bytes of another register (`i2c.cpp:245`).
- **`usb_abandon`**. `terminate` leaves the packet that the old transfer's coroutine has
  offered in the buffer register (`usb.cpp:968`). `next_pid` is reset
  ("Reset PID to 1 for EP0 IN", `usb.cpp:970`), but `tx_data` finds no free buffer,
  drops the new answer's first packet and writes the half of the register that belongs
  to a second buffer; the answer begins with the old packet and its PID.

## Proofs

Every theorem is about the specification that a run checks, for all values of its
constants. TLC has checked the inductive invariants first, where they can be
evaluated; each is proved by one lemma or step per action. A composed run
(`framework`, `usb`, `devices`) has one invariant per part and a lemma that a step
of one part is none of the others.

| Module | Theorems | Inductive invariant |
|---|---|---|
| `MessagePumpProofs` | `NoDoubleLink`, `NothingLost`, `HeardInOrder`, `NeverTooDeep`, refinement of `MessageChannel` | adds `LoopShape`: the current message is the front of the queue, the held slot is filled, and each listener is one ahead exactly if it was already called |
| `SWTimerProofs` | `AlarmArmed`, `PhaseKept`, `CountsPeriods` | their conjunction with the types; for `CountsPeriods` also that a running one-shot timer has not been called, and the multiples of a period up to a time as an interval (`Multiples`) |
| `FrameworkProofs` | `HandedOver`, `MutualExclusion`, refinement of `PriorityLock`; `TasksReturn`; `EventsAreRead`; `HeapAlone`; of awaitables `NoLostWakeup`, `OneWakeup`, `ResumedByEvent`, `NothingStale` | see below |
| `RelaisProofs` | `GroundFirst`, `HandleKept`, `Debounced` | adds how pins follow the coroutine (`PinsFollow`), that the local copy of the handle is right (`CopyRight`), and that a pause started by an interrupt during `operator()` outlasts it (`Outlasts`) |
| `UsbComProofs` | `OwnAnswer`, `SetsAreWhole`, `RunsLive` | see below |
| `I2cProofs` | `ReportsTruth`, `AssertsHold`, the steps of the refinement of `Transfers` | see below |
| `UsbProofs` | `RightAnswer`, `TogglesAgree`, `BuffersApart`, `HostReadsDescriptor` | see below |
| `DevicesProofs` | `RoundsAreWhole`, `DutyIsRight`, `PanelIntact`, `AllOrNothing`, `VisitsOnce`, `TimesAddUp`, and that no interval is negative | see below |

**`FrameworkProofs`.**
- Claims: whoever holds the resource is in the list (without it a claim might find
  the list empty while somebody has the resource), the list is sorted, and equals
  are in the order in which they came. `ImplementsLock` follows: the claim that a
  release hands over to is the first in the list that does not hold, which is the
  most important waiter, and of equals the earliest.
- Tasks: the frames form a chain, each frame is held by the next outer one, only
  the innermost runs or waits, and what is stored in a frame has not been taken. Who
  waits for the event has its handle in the awaitable; what is left there of others
  matters only when nobody waits.
- Queues: ring and count hold the events that were put and not read, in order; a
  waiting reader has found nothing. Generators: what reader, promise and event each
  have between two steps.
- Heap: the outermost guard has saved that interrupts are enabled and every other
  that they are not; only one context has guards; what it has seen of the heap is
  still so.
- Awaitables: the conjunction of the properties is inductive, and none of them is
  alone: who has the handle decides what an event does to the value.

**`UsbComProofs`.** For each `co_await` there is what the worker then has of the
request (`Holds`: packets in `rx_buffer`, of the last request and in order), what
it waits for (endpoint armed, or an answer in flight), and what it still `Owes` of
the answer; in the main loop also whether the events for its next `co_await` have
already come. History (`Past`, `Fresh`): what was
applied is whole and in the order of the requests, an answered value has been
applied, and a request still held has been neither. A restart leads
to the state of a worker that has only just begun, except for `response`. The
theorems assume `~AnytimeHost`, because with restarts in the main loop a destroyed
worker is run, as `usbcom_restart` shows.

**`I2cProofs`.** The transfer under way is a kind `k` and a position `n` in it: queue
and actions not yet put are the rest of `k` from `n` on (`Position`). `PipeOK` counts:
bytes fetched, in the receive FIFO, on the bus and in the command FIFO add up to what
was pushed, and all are of this transfer. `Underway` says what an error of this
transfer has done so far, separately for transfers that end in `Sync` and those that
end in `Read`. The last report stays tied to its action while the callback runs, when
clients may already ask anew (`Told`). `ReportsInOrder` proves that every step is one of
`Transfers` or a stutter; that reports come at all is its fairness part and is left
to TLC.

**`UsbProofs`.**
- Control pipe: `Situation` lists which stages of the host, interrupt bits, places
  of the coroutine and states of both buffers go together, e.g. a host in its data
  stage either waits for an offered packet, or has raised the bit of one taken, or
  the coroutine is about to offer the next. `Asked` is the beginning, `GivenUp` what is
  left of a transfer that a reset has ended. All of it is `Orderly`, and the invariant
  is `rested => Orderly`: a SETUP that finds the device at rest establishes it from any
  past, as the awaitables then hold nothing but perhaps handles that the code clears or
  overwrites before they are used; one that does not makes it hold trivially.
- PIDs: a lemma for each helper says what it does to one endpoint. No assumption
  on configurations is needed: whatever is switched on starts with DATA0 on both sides.
- Memory: each endpoint's room begins where those of lower rank end (`Laid`), so that
  rooms are apart because sums grow, and an endpoint's buffers lie in its room
  because the room has the size of the largest setting. Two buffers are at a
  distance the controller knows because of `EndpointOK`.
- Descriptors: what the host has, the packet under way, the chunk buffer and the rest
  of the piece follow one another in the descriptor, and all packets but the last are
  full. That a packet without data follows exactly if the total is a multiple of the
  packet's size and less than asked is arithmetic of remainders (`ModOfSum`).
- Numbers: there are two lists without the sentinel, `strings` and `ifaces` are these
  or these with the sentinel in one place, and they only grow at the end. `Without`
  is written by `RemoveAt`, not as a recursion.

**`DevicesProofs`.**
- Readings: the register about to be read belongs to the last trigger, or the ADC is
  still converting that channel; earlier samples of the round are in their places, or
  misread after a fault.
- Outputs: what the registers hold and whether the outputs are on, before each write
  of each callback.
- Display: the steps still to come follow one another as the driver's do
  (`Ordered`), and pins, flag and transfer are what the next one expects.
- Times: the current interval began before the interrupt's, and only one kind of
  interrupt is going on. Heartbeat: the timer is
  set to the sum of the delays so far. Sums over growing sequences are handled by
  the least index at which a claim about them would fail (`LeastOne`), which is how
  an induction can be written without the library's theorems over operators.
- Configurations: until the first sector is erased, what `load` finds is what was
  saved; after that there is no count, and `load` finds nothing (`SavedInv`). That one
  programmed page is loaded back as it was saved (`SavedIsLoaded`) takes the words of
  the image one by one: `Flattened` says which word of a concatenation of pieces is
  which, `Offsets` that `data_offset` is where a value begins, and both rest on
  `Recursion`, that a function defined by its first value and a step exists.
- Lists: the members have an order (`RingOrder`), in which `next` is the immediate
  successor. A relation between members, and not a sequence of them, is what
  inserting, removing and moving leave as it is for everybody else; `Counted` says
  that who was visited are the members before the iterator's place, which in the
  body of the loop is its sentinel, as the element itself may have gone.

**Assumptions** are the named `ASSUME`s of the modules. TLC evaluates each of them in
the run of its module. Those that say most:

- `KindsAssumption` (`I2c`): transfers are made of the actions that `i2c.cpp` puts
  together, and end in a synced write or a read. `SizesAssumption`: the queue holds a
  transfer.
- `RequestsAssumption` (`MCUsb`): each type of request has the direction and data for
  which its answer is made. `PacketsAssumption`: packets are not empty.
  `SentinelAssumption`: an iterator's sentinel is no string or interface.
- `ConfigsAssumption` (`MCUsb`): what `set_device_configuration` asserts of the memory
  (`usb.cpp:687`, `694`), every interface has a first setting, and endpoints are
  those of a full-speed device.
- `PartsAssumption` (`MCDevices`): there are channels and delays, numbers are numbers.
  `FlashAssumption`: the image of each version fits into one page, which is smaller
  than the region. The firmware's image is far below the 256 bytes of a page; images
  of several pages, of which a power failure may leave the first, are not covered.
  `RingAssumption`: the list and an iterator's sentinel are no elements.
- `HeapAssumption`: `"none"` is no block.
- Stated in the theorems: `PumpNeverTooDeep` that all slots together are finitely many
  and no more than `MaxDepth`, `PumpImplementsChannel` that there is a listener, and
  those of `UsbCom` that its host does not restart a worker in the main loop (`~AnytimeHost`).

**Only model-checked:** liveness and fairness (`Delivered`, `FiresEventually`,
`ForemostIsServed`, `Converges`, `Answered`, `KeepsMeasuring`, `ButtonsSettle`,
`ShowsLatest`, and that transfers are reported in the end), which is out of TLAPS's
reach. Every safety property of a run that passes is stated by a theorem.

## Not modelled

- `usb_cdc` has no instance; `led/led.cpp`, `watchdog.cpp`, `Heartbeat_w.cpp` and
  `Message.cpp` are not compiled; `light_animations.cpp` and
  `ApplicationConfigMapping` have no user.
- `SiLi`, `SiLi-Quaternion` and the device enumeration of `usb/` are third-party
  code, `lv_conf.h` is configuration. Together they are a third of the lines.
- Start-of-frame callbacks (nobody registers one), transfers over two buffers
  (no endpoint has them), contents of descriptors, the setup of hardware, layout of
  the screen and arithmetic without state (scaling of samples, PWM rounding).

## Plan

1. `QueueDepth`: the whole firmware's use of the pump, to bound the depth by the
   limit of 16.
2. `UsbCom` on top of `UsbEndpoints`; transfers over two buffers; flash images of
   several pages; which transfers survive a SETUP that does not find the device at rest.
3. With each of them the extension of the inductive invariants.
