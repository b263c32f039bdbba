# A verification development for the LoRaWAN end node

The repository holds several attempts at one device, a LoRaWAN end node on an
STM32L0 with an sx1276 radio. The one developed here is
`src/skeletonICUBE`: ST's I-CUBE-LRWAN end node with its timer server, MAC
layer, radio driver and application. `src/skeletonCubeMX` builds the same stack
(its `Middlewares/LoRaWAN` is identical byte for byte), so that what is shown
here is shown of both. Paths below are relative to `src/skeletonICUBE`.

The modules are TLA+, checked with TLC and proved with TLAPS.

## 1. The system

The node has one thread, the main loop of `src/main.c`, and interrupts: the RTC
alarm (all software timers), the radio's DIO lines, the UART's DMA, the user
button. RTC and radio interrupts have one priority
(`src/stm32l0xx_hal_msp.c:156`, `Drivers/MLM32L07X01/mlm32l07x01.c:59`), so they
do not nest, but they come between any two instructions of the main loop. Only
`TimerStart`, `TimerStop` and a few lines of the MAC and the trace mask them.

| Component | State | Operations | Talks to |
|---|---|---|---|
| Timer server, `Lora/Utilities/timeServer.c` | the linked list of timers, their `Timestamp`, `ReloadValue`, `IsRunning` | `TimerInit`, `TimerSetValue`, `TimerStart`, `TimerStop`, `TimerIrqHandler` | programmes the RTC; calls back MAC, radio driver, application from the alarm interrupt |
| RTC, `src/hw_rtc.c` | alarm A and its flag, the timer context, the calendar registers | read the calendar, set and stop the alarm, take the context, elapsed time, conversions | timer server, system time, duty cycle, low-power manager |
| System time, `Lora/Utilities/systime.c` | the difference to the calendar, in two backup registers | get, set | MAC (DeviceTimeAns) |
| MAC, `Lora/Mac/LoRaMac.c` | `MacState`, `MacFlags`, the confirmation and indication being built, retry counters, receive slot, radio events | `LoRaMacMcpsRequest`, `LoRaMacMlmeRequest`, `LoRaMacProcess`, the handlers of radio events and of its four timers | radio driver, timer server, confirm queue, commands, crypto; calls the application back |
| MLME confirm queue, `Lora/Mac/LoRaMacConfirmQueue.c` | a ring of requests with status and "ready" flag, two pointers, a counter | add, remove first and last, set the status of one or all, handle the callbacks | MAC, class B; calls the application back |
| MAC commands, `Lora/Mac/LoRaMacCommands.c` | slots, a linked list of commands to send and its size in bytes | add, remove, get, serialize, remove the sticky or the other ones | MAC |
| Frame counters, `Lora/Mac/LoRaMacFCntHandler.c` | last up and down counters | next up, reconstruct down, set, reset | MAC, crypto |
| ADR, `Lora/Mac/LoRaMacAdr.c` | none | next data rate and power | MAC |
| Crypto, `Lora/Mac/LoRaMacCrypto.c`, `Lora/Crypto` | session keys, the counter it secured last | secure and unsecure messages, join accept | MAC |
| Class B, `Lora/Mac/LoRaMacClassB.c` | beacon and ping-slot state machines | beacon timers and events | MAC, confirm queue |
| Regions, `Lora/Mac/region` | channels, bands and their time off | next channel, verification of parameters | MAC |
| Radio driver, `Drivers/sx1276/sx1276.c` | idle, receiving, transmitting, CAD; two guard timers | send, receive, sleep, DIO interrupts, guard timeouts | timer server; calls the MAC back |
| Application, `src/main.c`, `Lora/Core/lora.c` | joined or not, `TxTimer`, class | join, send on a timer, class switching | MAC, from the main loop and from the alarm interrupt |
| Compliance test, `Lora/Core/lora-test.c` | running or not, `State`, its timer, the ADR of the application | start, commands of the test server, send on its timer | MAC, from the main loop and from the alarm interrupt |
| Trace and queue, `Lora/Utilities/trace.c`, `queue.c`, `src/vcom.c` | a circular buffer of variable-size elements, "tx ready" | `TraceSend`, the DMA's completion interrupt | everybody |
| Low-power manager, `Lora/Utilities/low_power_manager.c` | who forbids stop and off mode | set, enter | RTC, UART, main loop |

### What is hard

* **Callbacks from the alarm interrupt** start and stop the very timers the
  handler walks over, and time goes on while they run.
* **Split decisions**: `LoRaMacProcess` handles a radio event, puts the radio
  to sleep, decides on a retransmission and confirms in separate stages; timers
  and radio fire between them, and clients call from the callbacks.
* **Shared bytes**: `MacFlags` and the counter of the confirm queue are read,
  changed and written with interrupts enabled, while the application's timer
  makes requests from the interrupt.
* **Retries and timeouts**: transmissions time out, acknowledgements race their
  timeout, retransmissions wait for the duty cycle; all end one procedure.
* **Lost frames**: counters, acknowledgements and answers of two sides must
  agree although any uplink or downlink may be lost, repeated or retransmitted.
* **A clock that does not wait**: the RTC counts between two reads of its
  registers, and code that compares one reading with another takes two.
* **A long memory**: the data rate depends on how many uplinks, over joins,
  tests and timeouts, have had no answer.
* **Boundaries**: counters of which a frame carries half; commands longer than a
  frame; a message that wraps in the trace queue; a full ring that looks like an
  empty one; a deadline nearer than the RTC's minimum timeout; timestamps at the
  moved context; ends of months, leap years, and clocks of 32 bits that wrap.

PROJECT.json lists these as hazards, each at its line with the properties aimed
at it.

### What makes each component correct

* Timer server: no started timer is lost, none expires early, lateness is
  bounded, a stopped timer does not expire, the list stays a list.
* Confirm queue: a FIFO; each accepted request is confirmed once, with its own
  answer; the callback always holds the head.
* MAC: one request at a time, each confirmed once and truthfully; it never
  disturbs its own transmission; it never reuses an uplink counter for a new
  frame after a success; it does not stay busy for ever.
* Session (frame counters, MAC commands, acknowledgements): the node's counter is
  the network's; a fresh downlink is accepted; the network is never told that a
  downlink arrived which did not; an answer that must be repeated is, until it is
  heard; waiting commands never keep the node from sending.
* Clock: the calendar counts every tick; a reading is a time that passed while it
  was made (it is not: `clock_read`); an alarm comes on its tick; ages are right over
  the wrap of the ticks, and the system time modulo its own wrap (2^22 s).
* Duty cycle: no transmission within the time-off, and no retransmission much later
  than it, unless it ends between two readings of the clock.
* Node (application, test, ADR): a test leaves nothing behind; the server is asked
  before the data rate is lowered; a lost node becomes audible again; a node
  without a session joins.
* Trace: the bytes traced are the bytes sent, in order; the UART is never stopped
  in the middle of them.

## 2. The modules

| Module | Models | Role |
|---|---|---|
| `TimerPromise` | what one-shot timers promise | abstract specification |
| `TimerServer` | `timeServer.c`, and the alarm and the timer context of `hw_rtc.c` | component |
| `TimerServerProofs` | invariants and refinement of `TimerServer` | proofs |
| `MlmeFifo` | a bounded FIFO of requests that become ready | abstract specification |
| `ConfirmQueue` | `LoRaMacConfirmQueue.c`, composed with `LoRaMacMlmeRequest`, the radio events that give statuses, the idle part of `LoRaMacProcess` and its clients | component |
| `ConfirmQueueMC`, `ConfirmQueueProofs` | three kinds of request; invariants, refinement, the truth of join confirmations | model checking, proofs |
| `McpsService` | what the MAC promises to a client that sends data | abstract specification |
| `LoRaMac` | the uplink procedure of `LoRaMac.c` with the radio and its timers | component |
| `LoRaMacProofs` | invariants and refinement of `LoRaMac` | proofs |
| `FCntHandler` | the reconstruction of the downlink counter in `LoRaMacFCntHandler.c` and the check of it in `LoRaMacCrypto.c` | operators |
| `MacCommands` | `LoRaMacCommands.c`: slots, list, sizes | operators |
| `Session` | what the frames of a node and its network carry: `Send`, `PrepareFrame`, `ProcessRadioRxDone`, `ProcessMacCommands` and the query of `lora.c`, over `FCntHandler` and `MacCommands` | composition |
| `SessionMC`, `SessionProofs` | small counters; counters and acknowledgements, the reconstruction of counters, the command list and what leaves it | model checking, proofs |
| `Calendar` | the calendar arithmetic of `hw_rtc.c` and the calendar of the hardware | operators |
| `Rtc` | `hw_rtc.c`: reading, context, alarm, conversions; the stamps of `timeServer.c` | component |
| `SysTime` | `systime.c` with OnRadioTxDone, DeviceTimeAns and HW_RTC_GetCalendarTime, over `Rtc` | composition |
| `DutyCycle` | the aggregated duty cycle of `ScheduleTx` and `RegionAS923NextChannel`, over `Rtc` | composition |
| `ClockMC` | small days, ends of months, one user of the clock at a time | model checking |
| `CalendarProofs` | the value of a calendar and the fields of an alarm, for every date and every length of the fields | lemmas |
| `ClockProofs` | the clock, its alarm, the duty cycle and the system time | proofs |
| `Adr` | `LoRaMacAdr.c` | operators |
| `Node` | `main.c`, `lora.c`, `lora-test.c` and the ADR of `LoRaMac.c` over an abstract uplink | composition |
| `NodeProofs` | the invariant of `Node`, and when the data rate is lowered | proofs |
| `TraceStream` | a stream of bytes between the writers and the UART | abstract specification |
| `Trace` | `trace.c`, `queue.c`, `vcom.c` and `low_power_manager.c` with its two users | component |
| `TraceMC`, `TraceProofs` | a queue of eight bytes; the headers of the ring, what the DMA sends, the Stop mode, and the refinement of `TraceStream` | model checking, proofs |

Operators named as a fault ("Fault: ..." above them) are not used by any
specification. Each is a plausible bug in the definition that follows it, and
PROJECT.json says which property it breaks when it takes that definition's place.

### TimerServer

`list` is `TimerListHead` with its `Next` links; `Timestamp`, `ReloadValue`,
`IsRunning` are the fields; `elapsed` is `HW_RTC_GetTimerElapsedTime`, and every
time is relative to the timer context, as in the code. `TimerStart` and
`TimerStop` mask interrupts and are one action each. `TimerSetValue` and `TimerInit`
are one action each too, though they write fields with interrupts
enabled (timeServer.c:327-328 behind a masked TimerStop, 128-135): the timer is in no
list then, so that no interrupt handler looks at the fields half written. The alarm interrupt is `IrqEnter` (context, rebased timestamps, callback of
the head), `IrqNextExpired` (the `while` loop, one turn) and `IrqExit` (the rest);
between them the callback `cur` runs and may call the four operations, and
`Tick` may happen. `left` counts the ticks to the deadline a client asked for;
no guard reads it. HW_RTC_SetAlarm's compensation for the wake-up time is a
choice, since the low-power manager's other users decide on it.

The timer server does not survive a callback that never returns or a calendar
that is set back; neither happens in the program. The 32-bit counters do not
wrap within the horizon of any timer and are natural numbers here. A started
timer has been given a value, as `timeServer.h` asks.

### ConfirmQueue

The ring, its pointers and counter are the code's. `LoRaMacConfirmQueueHandleCb`
is split at the callback and at the read-modify-write of the counter: `HandleCb`,
`HandleFirst` (element read, callback running), `RemoveFirst` (counter read),
`Handled`, `HandleDone`. A status is OK or an error. `MacState` is idle,
transmitting or done (MacDone); a join, an uplink, a retransmission, a radio
failure, a downlink and the answers to requests are actions that do to the queue
what the code does. A received frame ends the transmission unless it was a confirmed
one (`NodeAckRequested`): then AckTimeoutTimer may run, and MacDone is not set
(LoRaMac.c:1258-1264).

Clients are the callbacks of the main loop and the application's timer, which joins and
sends from the RTC interrupt (main.c:418-424), between any two steps of the main loop.
One place is kept apart, the constant `IrqRemoves`: from reading the head of the
queue to writing the queue back (`Removing`). There the increment of the counter
by a join is lost (`LoRaMacConfirmQueueRemoveFirst` writes back the counter it has read), and an element that is put
back loses the status it was given meanwhile. With `IrqRemoves = TRUE` TLC refutes `IsFifo` and
`JoinConfirmIsTrue`; the run and four of the theorems have FALSE, `TypeCorrect` and `FlagIsKept` hold of both. Two
requests do not overlap: each is one step, so that an interrupt in the middle of a
request of the main loop is left out.

### LoRaMac

`MacState` and `MacFlags` are sets of bits. `pc` is the place of
`LoRaMacProcess` between its stages: events copied, cleared, each one handled
(the handlers of received frames and failures are split at `Radio.Sleep`), the
decision (`GiveUp`, `Stop`, `Wait`, `Retransmit`), the confirmation, the reset of
MacDone and the indication, these three split at the read and the write of the
flags byte (`loaded`). Timer interrupts are the four `On...TimerEvent` actions,
radio interrupts `TxDone`, `RxEnd`, `OnTimeoutIrq`. What a reception brought is known when
it ends (`RxDoneParams`): a frame that is refused, a proprietary one, a data frame, or
one with the ACK bit, which the network may set once it has heard the frame
(`acked`), whatever kind of frame it was. The code copies that bit of every data frame
(LoRaMac.c:1123), but takes the request for acknowledged, and stops AckTimeoutTimer, only if it was a confirmed one.

Clients call from the two callbacks (`InCallback`) and from interrupts. `IrqOverlaps` says whether
interrupts do so at the end of a procedure too (`Overlapping`): while the request before is still
to be confirmed, though the MAC is idle already, or the flags are being written back. The
program's timer may fall there, and `mac_flag` has it TRUE. With it TLC
refutes most of the properties of `mac_safe`: a new request takes over the confirmation of the old one,
or loses its flag. Where `mac_safe` and the proofs have it FALSE, interrupts call at every other moment.

`secured` says that the crypto layer's uplink counter
is ahead of the frame counter handler's, which is how a counter is reused.
`AckTimeoutIsHead` is the timer server's say in `AckTimeoutTimer.IsRunning`: the
field is true once the timer has become the head of the list.

Abstracted: contents of frames, channels and data rates (whether a frame can be
sent now is a choice), MAC commands. `request`, `aired`, `acked` and `result` are
history variables for the refinement of `McpsService`.

### Session

The state is the context of `LoRaMacCommands.c` (`cmds`: the slots with their
`Next` links, first, last, `SerializedCmdsSize`), the two copies of the downlink
counter, `SrvAckRequested`, `LastRxMic`, and the frame of the procedure (`up`).
`LoRaMac` has the windows and timers of a procedure; here it is `Send`, then a
transmission that is heard or lost, then windows in which a downlink may arrive,
then `Retransmit` or `StopRetransmission`. `Send` includes the query of
`LORA_send` and the empty frame it sends when the query fails; `Send` is enabled
only when `ValidatePayloadLength` accepts, since a refused one changes nothing.
A MIC is the counter the frame was built with: a frame verifies under its own
counter only. A frame's counter is reduced modulo `FCntMod` (2^16 in the code), a
reconstructed one modulo `FCntRange` (2^32). The data rate, so the room in a
frame, is constant.

The network server is external. It sends one downlink for each transmission it
hears at most, acknowledges confirmed uplinks in it, repeats a confirmed downlink
until it is acknowledged, and gives one up only on hearing a new uplink that does
not acknowledge it. The last condition matters: the code sets `SrvAckRequested`
for a repeated downlink (LoRaMac.c:1078) in the middle of a procedure, and clears
it in the next `Send`; a server that replaces the downlink between two copies of
one uplink would take the acknowledgement for that of the new downlink.

### Trace

The memory of the queue is modelled byte by byte, headers included, since what
can go wrong is that a message overwrites a header: `CircularQueue_Add` splits an
element at the end of the memory, and `Overhead` decides beforehand whether it
will. Offsets wrap at the size of the memory (`Offset`); a byte in it is a number
below `Bytes`, at most 256 in the code. The length of a message is what vsnprintf
returns, in 16 bits (trace.c:95): more than the 256 bytes of the buffer for a message that
was cut off, 65535 for an error. In the queue of 256 bytes of this build (`VERBOSE_LEVEL` 0)
a message of 255 or more never fits and is dropped. `WrapsCounted` says that: a queue of at
most 256 bytes, or messages shorter than 255. What happens in the queue of 512 bytes else is among
the observations of section 5. `TraceSend` is the masked section; `OutputTrace`, which starts the DMA
after it, is an action of its own, as is the completion interrupt. The Stop mode
takes the clock from the UART: `DmaDone` needs `cpu # "stop"`.
`LPM_EnterLowPower` is compiled in when `LOW_POWER_DISABLE` is not defined, as in
skeletonCubeMX (`Inc/hw_conf.h:118`); the Keil project of skeletonICUBE defines it.

### Calendar, Rtc, SysTime, DutyCycle

`cal` is what the registers show, field by field; `Tick` is the hardware. The
lengths of months and years and the two correction constants are the code's;
seconds, minutes, hours and days have small lengths given by constants, and the
32-bit tick wraps at `TickMod`, which the behaviours pass. HW_RTC_GetCalendarValue
is modelled one register at a time (`ReadFirst`, `ReadDate`, `ReadSubSeconds`,
`ReadTime`), since the shadow registers are bypassed; all other operations take a
whole reading, so that the two questions - is a reading right, and is what is done
with a right reading right - are separate. A year has two digits, so behaviours end before 2100, and every date is one
the hardware can hold (`Calendars`). An alarm fixes the day of the month, not the month:
`AlarmOnTime` speaks of the 28 days after it. A stamp says nothing once the ticks have
gone round, so that `StampAgeIsTrue` and `RetransmissionIsDue` speak of the time up to
a second before; 48 days on the node. `ReadIsAccurate` is what the comment in
the code wants of a reading, and is a finding (`clock_read`): the sub-seconds are read before the time of day and
after the date, so a reading is a second ahead when the second ends in between, and
at midnight also a day behind. `ReadUpToCarry` says that all other readings are
exact; it is proved. What the other operations do with such a reading is not
modelled.

`SysTimeIsServerTime` holds modulo the wrap of HW_RTC_GetCalendarTime: the ticks are
cut to 32 bits before they are divided, so that the calendar's seconds start again
after 2^22 (48.5 days), and the system time falls back by as much.

`DutyCycle` has the two readings of RegionAS923NextChannel. Both of its properties
hold; `RetransmissionIsDue` names the one exception, `overtaken`: the time-off ends
between the two readings, which are some microseconds apart. Then the difference is
zero and no timer is started (`forgotten`), or negative and the frame waits for a
wrap. So the property does not say that no retransmission is forgotten, only when one may be, and
`DutyCycleRespected` only that nothing is sent early. The time-offs of single bands and of join requests are left out.

### Adr and Node

An uplink is a value here (`uplink`), sent, sent again (`Retry`), answered
(`Downlink`) or not (`EndSilent`), or cut off by the radio (`TxTimeout`): `LoRaMac` has
its windows and flags. Whether a request is refused is a choice in `Send` and `LORA_Join`; what a
refused one has changed by then is not: a join has ended the session, a frame may have
restored the channels. `main` is the place of the main loop in its callbacks: certif_rx is split
where it reads `State` again, restores ADR, joins and stops its timer. The two
timers interrupt between any two steps (`OnTxTimerEvent`,
`OnCertifTxNextPacketTimerEvent`). The server may send any command of the test,
any ADR request, or disappear for good. `asked` counts the uplinks with ADRACKReq
since the last downlink of the session; nothing reads it.

What the properties leave open, because the code does:

* A node at the lowest data rate never counts silent uplinks (LoRaMacAdr.c:60), so
  one that loses its network there keeps the power and channels it was told.
* The join of command 6 is refused when an interrupt has just made the MAC busy;
  the node stays in its session, and no other join follows.
* A frame received that is not accepted, or a radio timeout, leaves the counter as
  it is, so that one step of the data rate may be followed by another for the same
  count.
* A command that arrives while the test's timer sends may be lost (`Switch` reads
  what the interrupt has left in `State`).

## 3. The runs

| Run | Module, cfg | Shows |
|---|---|---|
| timers | TimerServer, `_all` | the head owns the alarm, bounded lateness, the inductive invariant, no early callback, refinement of `TimerPromise`: every started timer expires or is stopped |
| confirm_queue | ConfirmQueueMC, `_all` | with requests from callbacks and interrupts, but while the head is removed: refinement of `MlmeFifo`, no request is forgotten, all are confirmed unless a confirmed uplink hangs, join confirmations are true, the inductive invariant |
| mac_safe | LoRaMac, `_safe` | with requests from callbacks and interrupts, but at the end of a procedure: the inductive invariant, refinement of `McpsService` with its liveness for unconfirmed requests, windows and transmissions do not collide, counters are reused after failures only |
| trace | TraceMC, `Trace.cfg` | the inductive invariant (headers survive wraps and splits), the DMA always sends the first element, Stop mode waits for it, the bytes sent are the bytes traced and all are sent (refinement of `TraceStream`) |
| clock | ClockMC, `Clock.cfg` | the calendar counts ticks, alarms are on time over ends of months, ages are true over a wrap, the system time is the server's (modulo its wrap), nothing is sent within the time-off, a delayed retransmission is due when it ends (unless it ends between two readings) |
| session | SessionMC, `Session.cfg` | list and size of the commands agree, counters agree with the network's, fresh downlinks are accepted up to the first roll-over, acknowledgements are true, sticky answers are kept until heard, others leave only in a frame, commands do not block the node while they fit a frame |
| node | Node, `Node.cfg` | the inductive invariant (a test ends cleanly, silent uplinks are asked about), the server is asked before the data rate is lowered, a lost node recovers, a node without a session joins |
| mac_confirmed | LoRaMac | finding: a confirmed uplink answered without ACK is never confirmed |
| mac_flag | LoRaMac | finding: a request from an interrupt loses its flag, the MAC stays busy |
| session_rollover | SessionMC | finding: the second roll-over of the downlink counter makes the node deaf |
| session_blocked | SessionMC | finding: commands longer than a frame stop the node from sending |
| clock_read | ClockMC, `Clock_read.cfg` | finding: a second that ends between the reading of the sub-seconds and of the time makes the reading wrong |

Only `clock` turns the deadlock check off: its behaviours end at `Horizon`.

### Bounds

* Timers: three timers are the fewest with a head, a next head and one behind;
  two delays, one below the minimum timeout and one above it; `MaxBusy` is longer
  than the minimum timeout, so that several timers expire while the interrupt is
  masked; `Horizon` only keeps clients from starting timers long after the last
  alarm, and `MaxElapsed` is out of reach while a timer waits: a timer that waited
  for it would break `PromiseKept`.
* Confirm queue: a ring of three wraps and fills up (the code's has five); four
  pending requests are one more than fit; three kinds: the join, one answered by
  a downlink, and one that is restricted.
* MAC: two or three transmissions distinguish the first, a middle and the last
  one. No other variable is unbounded.
* Clock: a tick of an eighth of a second, seconds of 5 ms and minutes, hours
  and days of two keep what matters: a millisecond is neither a tick nor a whole
  number of them, and all carries happen. A behaviour of 90 ticks is a day and a half; it starts at
  the last hour before the ends of February in leap years and others, of a year, of a
  short month and at the start of 2000, and passes one wrap of the ticks (128).
  `MaxRound` (less than a second) is the longest a reading takes. The theorems
  have none of these bounds, but for the end before 2100 and the reading of less than
  a second.
* Node: limit and delay of two, the smallest delay for which `% AdrAckDelay = 1` means
  something; three data rates, so that one lies between the ends; three trials,
  since every second retry lowers the data rate. The counters need no bound: they
  stop at the lowest data rate.
* Trace: eight bytes hold two short messages or a long one, so that the queue
  fills, every header position wraps and long messages split at every place;
  messages of 0, 1 and 3 bytes, and one of 9, longer than the queue; bytes are numbered
  modulo eight, as many as can be in the queue.
* Session: counters of 4 roll over; a gap of 3 is smaller than 4, as the code's
  16384 is smaller than 65536; `MaxDown` of 6 reaches past the first roll-over,
  12 (run session_rollover) past the second; four slots, so that the list is full
  and has removals from its middle; two kinds of answers, one sticky; a frame of 12
  bytes has room for more commands than FOpts (5), one of 4 (session_blocked) for fewer than
  can wait; two trials.

### Fairness

* TimerServer: time goes on, a pending interrupt is taken, callbacks return.
* ConfirmQueue: the main loop runs, the transmission of a join or of an unconfirmed
  frame ends and is repeated finitely often (strong fairness of `Process`; LoRaMac bounds the
  repetitions), the application joins and sends again (its timer), a beacon search ends. Nothing
  is assumed of a confirmed frame, which the code may leave without an end (`mac_confirmed`):
  `EveryRequestConfirmed` speaks of the runs in which none hangs for ever.
* LoRaMac: the main loop runs (`main.c` polls `LoRaMacProcess`), timers expire
  (run timers), the radio ends what it does (its guard timers), and a frame
  delayed by the duty cycle is sent or given up in the end.
* Trace: `OutputTrace` follows the masked section, the DMA ends, its interrupt ends a
  wait, and is served when it is pending again and again while the processor runs (the main
  loop lifts its mask in each turn: strong fairness). No message need come.
* Node: the main loop goes on and uplinks end (weak fairness of `Mac`, `Callback`). The
  two timers restart themselves at each expiry (run timers), but what they ask for may be
  refused or find the MAC busy: strong fairness of those that start an
  uplink says that not every one is. Strong fairness of a counted silent uplink says that
  the radio does not time out, or receive a foreign frame, after every uplink;
  that of `JoinAccept`, that a network which is there answers a join in the end.
* Clock: none, all its properties are safety.
* Session: the application goes on sending (its timer), a transmission ends, the
  windows close. No frame need ever be heard.

`Races = FALSE` in `mac_safe` excludes what takes microseconds:
the guard timer of a reception against its end, the second window starting
inside the few instructions between `Radio.Sleep` and the end of the handler of
the first, and a duty-cycle delay that ends within the pass that started it.
Windows are a second apart and the handlers take well under a millisecond; the
properties of `mac_safe` depend on it, as they do on `IrqOverlaps = FALSE` (section 2).

## 4. The proofs

`TimerServerProofs` proves, for any set of timers, delays, minimum timeout,
compensation and bounds under `TimerAssumption`:

* `Invariance`: `IInv` is inductive. Its first half, `AlarmInv`, is about the alarm:
  neither `AlarmServesHead` nor `NeverEarly` is inductive alone: that the new head gets the alarm when the handler leaves needs
  to know that no linked timer but the head is marked as running (else the handler would
  not programme it), and that it is not early needs the timestamps never to run
  ahead of the deadlines (`left <= Timestamp - elapsed`), which the rebasing at
  each alarm must keep.
* `TypeCorrect`, `Acyclic`, `HeadIsServed`, `CallbacksNotEarly` follow from it.
* `LatenessBounded`, for any finite number of timers: a timer expires at most
  `MaxBusy + MinTimeout` for each timer after its delay. The second half of `IInv`, `LateInv`, counts
  rounds. From one alarm to the next at most a `Round` passes, the time the
  handler may take and the minimum timeout of the alarm. Each round takes at least one timer
  from in front of one that is due, and no timer is inserted in front of it once its
  timestamp is below the minimum; so the timers in front of it, the rounds spent and
  the time it is late keep each other in balance (`LateByRounds`). The unsorted head is
  why the count is of places in the list and not of deadlines (`SortedBehindHead`,
  `HeadFirst`).
* `KeepsPromise`: each step of `TimerServer` is a step of `TimerPromise` or
  leaves it as it is.

`ConfirmQueueProofs` proves, for any ring length and set of requests under
`QueueAssumption`, with requests from callbacks and from interrupts; all but `TypeCorrect` and
`FlagIsKept` assume that the latter do not come while the head is removed (`~IrqRemoves`):

* `Invariance`: `IInv` ties the end pointer to the start and the counter, what the
  loop has left to do to the counter, and the element being handled to the head.
* `TypeCorrect` and `FlagIsKept`, from a weaker invariant that the lost update of the counter
  leaves true (`TypeInv`); `CallbackHoldsHead`; and `RingIsFifo`, the refinement of `MlmeFifo`.
* `JoinConfirmsTrue`, for a ring of at least two: `JoinInv`. Every radio event overwrites the
  status of all that waits, so that the confirmation of a join is true only because
  nothing else is sent before it: a node that is not activated has nothing but
  joins in its queue (`OnlyJoins`), and of an activated one only the head may be a join
  (`JoinIsHead`), with its answer (`JoinsTellTruth`),
  until the next transmission. An uplink of an interrupt may come before the main loop gets to
  the queue; the property excepts it (`MacState = "IDLE"`). A ring of one breaks it: with the
  join in it, it is full, and LoRaMacConfirmQueueSetStatus finds nothing in a full ring.

`SessionProofs` proves, for any widths of the counters, gap, commands, sizes,
number of trials and number of downlinks under the assumptions of `Session`,
`FCntHandler` and `MacCommands`:

* `CountersTrue`: the handler's counter and the crypto layer's copy are both the
  counter of the last downlink accepted. It is inductive alone.
* `Invariance` and `AcksTrue`: an acknowledgement in a frame not heard yet is for the
  downlink the server awaits. The property speaks of the frame on the air; what
  makes it true is spread over both sides: the server awaits only its last
  downlink (`ServerAwaitsLast`), windows open only after the frame was heard
  (`WindowsFollowUplink`), and whatever is owed, or already in the frame, or
  remembered by its MIC, is that downlink accepted (`OwedIsAccepted`). The last
  conjunct of `IInv`, that a debt within a procedure excludes a fresh frame and
  keeps the server waiting, is what stops a debt from outliving its downlink.
* `FreshAccepted`, where the server uses counters below `2 * FCntMod`: a downlink less
  than `MaxFCntGap` ahead passes the check of its counter, reconstructed, in the handler and
  in the crypto layer, before and over the first roll-over and as the first after a join
  (`NextIsReconstructed`, `FirstIsReconstructed`). The bound is exact: `session_rollover`
  is a counterexample beyond it.
* `ListInvariance` and `ListSound`: `ListInv` is inductive, and with it the command list of
  `LoRaMacCommands.c` is sound: no cycle, first and last right, the size the sum over the
  list. For the proof the list is a sequence `p` of distinct slots, with nothing
  before and behind it, and of sizes `g` from each place to the end (`Linked`, `Sized`,
  together `WellFormed`). `AddKeeps` appends a slot to it and `RemoveKeeps` takes one
  out of any place, with the three cases of LoRaMacCommandsRemoveCmd for
  first, last and others.
* `StickyHeard`, an action property: an answer that must be repeated leaves the list only when the server has
  heard a frame with it. `StickyStay` and `StickyGo` say which commands the two
  removals (before a frame is built, on a downlink) leave and take.
* `OthersCarried`: the frame of a procedure carries every command that waits (`CarriedAll`, a part of
  `ListInv`), since the length checks of `LORA_send` and of
  `Send` leave room for all of them (`AllSerialized`), which is why `Send` may
  drop those that are not sticky.

The loops over the list (serialization, the search for a command, the removals) are
recursive functions on slots in `MacCommands`. What such a loop
gives is fixed by its equations once the list ends; `WalkExists` and `LoopExists` show
that a function with these equations exists, `Upward` and `Downward` are the
inductions over places, each by a least counterexample (`LeastNat`).

`LoRaMacProofs` proves, for any number of trials and set of requests under
`MacAssumption`,

* `TypeCorrect`: the type, with racing events and overlapping requests or without;

and where nothing races and requests, from callbacks and from interrupts, do not overlap the end of
a procedure (`OneAtATime`):

* `Invariance`: `IInv` is inductive. One procedure is under way exactly while the MAC
  is busy or has not confirmed yet; the flags, the place in `LoRaMacProcess`, the
  events the radio has left and the timers that run must fit each other, which is one
  named part of it for each of them.
* `WindowsClosed` (no window opens while the radio sends), `NothingCutOff` (the radio is
  not told to send while it does), `CounterFresh` (an uplink counter is used again only
  behind a failure), and `Refinement`: `LoRaMac` implements the safe part of
  `McpsService`, each request confirmed once, with its own result, and with an acknowledgement only if the
  network sent one after that frame was heard.

`TraceProofs` proves, for a memory of up to 256 bytes and any results of vsnprintf, or of up to 512
and messages shorter than 255 (`WrapsCounted`), under the assumptions of `Trace`:

* `Invariance`: `IInv`. The headers make a chain from the first element to the last
  one, each whole and where the one before it ends (`ElementsFollow`), and whoever
  forbids the Stop mode is the one who needs it (`HoldersAgree`).
* `RingSound` (the queue is a ring of whole elements that do not overlap), `SendsFirst`
  (the DMA sends the first element, whole) and `StopsWhenIdle` (Stop mode is entered
  only when nothing is sent).
* `Refinement`: the safe part of `Delivers`. The bytes of the accepted messages leave in the order
  of acceptance, none lost, changed or sent twice: `TraceSend` is `Accept` or a
  dropped message, the end of a transfer is `Emit`, all else leaves the stream.

The chain is counted in offsets that go on past the end of the memory, less than two laps in all;
the lengths stored in the memory admit one solution only (`OffsetUnique`). The proof
adds elements behind a chain (`Longer`, twice for a split element) and removes them
from its front (`Shorter`); what is written behind the chain touches no byte of it (`AddPart`,
`SameBytes`). What makes it hold is `SplitIsCounted`: the check before an element
is added counts the bytes that adding it takes, also those of the second header. It is
there that `WrapsCounted` is needed.

For the refinement the same lemmas say what the elements hold (`Contents`): `LongerContents`
puts one part behind them, `ShorterContents` takes the first away, and `AddKeepsChain`
says that a message goes in as one part or as two that join to it (`Grows`). The parts are
joined by FlattenSeq, a recursive function; `FlattenAppend`, `FlattenFirst` and
`GrowsFlat` say what it does with a part more at either end, by induction over the
places (`Upward`).

`CalendarProofs` and `ClockProofs` prove, for any lengths of the fields of the calendar, any
resolution and wrap of the ticks, any start and times under the assumptions of
`Calendar`, `Rtc`, `DutyCycle` and `SysTime`, all the properties of the run clock, and how wrong a reading may be:

* `Corrections`, `NextTickIsNext`: the halves of days and the two tables of corrections with which
  HW_RTC_GetCalendarValue counts the days of past months are the calendar's, month after
  month, so that each tick adds one to its value. `SameValue`: the value
  has the calendar in it, as days and ticks of the day are its quotient and remainder.
* `AlarmAhead`, `AlarmBehind`: the carries of HW_RTC_StartWakeUpAlarm add up to the value asked
  for (`AlarmParts`), and no other calendar matches from a month before to 28 days after.
* `Counting`: `CountInv`, the values of calendar, context and stamp are as many ticks apart as
  have passed, is inductive, and holds under each user of the clock. From it follow
  `ElapsedTrue` and `StampTrue`; for the second, ticks rounded down to
  milliseconds at both ends of an interval differ by two at most (`AgeOfStamp`).
* `ReadTrue`: `ReadUpToCarry`, with `ReadIsRecent`, how far each register read lies behind.
* `AlarmTrue`: with `AlarmInv`, the value of the alarm against the ticks left to it; for
  alarms less than 27 days ahead (`ShorterThanAMonth`), since the alarm has no
  month. The longest delay on the node is a time-off of about a day.
* `DutyInvariance`, `RetransmissionDue`, `DutyRespected`: `DutyInv` has what the first reading says
  while the second is made. It needs that the longest time-off is short of a wrap and that a
  tick rounded up is less than the shortest delay (`DutyCycleAssumption`; both hold
  of the node by a wide margin).
* `SysTimeTrue`: with `SysInv`, what the stamp of the request, the answer in
  the frame, and the difference kept in the backup registers say of the server's time,
  counted modulo the wrap of HW_RTC_GetCalendarTime.

`NodeProofs` proves, for any limit, delay, range of data rates, data rates of join and
application, number of trials and set of commands under `AdrAssumption` and
`NodeAssumption`:

* `Invariance`: `IInv` is inductive. That the test's timer is stopped and ADR restored at
  the end of a test needs to know where the main loop stands in certif_rx
  (`TestIsCleanlyEnded`), that no interrupt can end the session under it
  (`CallbackHasCause`), and that only a joined node sends (`UplinkMatchesSession`).
* `ServerAskedFirst`, an action property: `CalcNext` is the only one that gives a new uplink a
  lower data rate, behind `AdrAckLimit + AdrAckDelay` silent uplinks
  (`CalcNextIsSound`, `OnlyCalcNextLowers`); and by `CounterIsAsked` all of them from the limit on
  have asked. The retries of a confirmed frame lower the data rate without asking;
  the invariant shows that they do not break the count.

Only model-checked: liveness (`PromiseKept`, `EveryRequestConfirmed`, `Serves`,
`NeverBlocked`, `LonelyNodeRecovers`, `JoinsInTheEnd`, the live part of `Delivers`),
which is out of the prover's reach.

## 5. Findings

PROJECT.json has the full text. Four are code bugs that stop or deafen a node, the
last one gives it a wrong time for a moment:

* `mac_confirmed`: a confirmed uplink answered by a downlink without ACK is never
  confirmed, and the MAC stays busy.
* `mac_flag`: a request from the transmission timer's interrupt falls into the
  rewriting of `MacFlags`; the MAC stays busy.
* `session_rollover`: the upper half of the downlink counter is added twice at a
  roll-over, which shows at the second one.
* `session_blocked`: commands that are longer than a frame are counted in full by the
  length check, every request is refused, and nothing removes them.
* `clock_read`: the loop that is to make a reading of the registers correct compares the sub-seconds only; a
  second, or a day, that ends before the time is read makes it wrong.

Observations made while reading, which no run covers:

* The list of timers is not always sorted by deadline: `TimerInsertTimer` leaves the
  running head where it is. `IsRunning` of a timer that expired stays true.
  Neither breaks a promise of the timer server, but LoRaMac.c:1260 reads the latter.
* `LoRaMacConfirmQueueIsCmdActive` looks no further than the end pointer, which on
  a full ring equals the start.
* `LoRaMacCommandsRemoveStickyAnsCmds` removes the first command of each kind; a
  second answer of the same kind stays until the next downlink.
* `ProcessMacCommands` ignores the result of `LoRaMacCommandsAddCmd`: an answer that
  finds no slot is dropped.
* `Send` drops the commands that are not sticky although `PrepareFrame` left them
  out (SKIPPED_APP_DATA) when a client sends data without the query; both clients
  of the repository query first, as `Session` does.
* `LoRaMacConfirmQueueRemoveFirst` decrements the counter of the queue with interrupts
  enabled (LoRaMacConfirmQueue.c:221-223), while a join from the transmission timer's interrupt increments
  it: the join is lost from the count (`IrqRemoves`). An element put back behind such an
  interrupt loses the status it was given meanwhile.
* An uplink that the timer sends when the MAC is idle but the queue not yet handled sets an
  error on the join that has just succeeded (LoRaMac.c:2580), and the application is told that it failed
  (lora.c:327). A join that the timer makes there is confirmed as failed while it is on the air.
* A request of the timer at the end of a procedure overwrites the confirmation of the one before, or
  is ended in its place (`IrqOverlaps`).
* `LoRaMacMcpsRequest` takes NbTrials as it is (LoRaMac.c:4278), and the counter of trials stops at
  `MAX_ACK_RETRIES` + 1 (2822): with more than 9 trials a frame that is not acknowledged is sent again
  without end. No client of the repository asks for more than 8.
* With `VERBOSE_LEVEL` 2 the trace queue has 512 bytes (utilities_conf.h:79), and a message of 255
  bytes that finds exactly 256 before the end (`queue.c:118`: 256 % 257 in eight bits is 0) is split with a header that was not counted;
  one byte too many overwrites the first header. There a message that vsnprintf cut off also fits, with a
  length beyond the buffer it was formatted in (trace.c:95), so that what lies behind it is traced.
* The system time falls back by 2^22 seconds when the 32-bit ticks wrap, and a
  retransmission whose time-off ends between two readings of the clock is forgotten
  (`Rtc`, `DutyCycle` above).

## 6. Not modelled, and what is left

Left for later work:

1. What the MAC commands set (channels, windows), so that the room in a frame
   changes while commands wait.
2. The time-offs of bands and the back-off of join requests (`RegionCommon.c`).
3. Class C, which leaves the receiver on between the procedures, and the
   order of key derivation in the join-accept handling of `LoRaMacCrypto.c`.

Left out for good:

* Class B: `LORAMAC_CLASSB_ENABLED` is defined by no build of the repository, so that
  its beacon and ping-slot machines are not compiled; with it, the class switching of `lora.c`,
  which waits for a beacon.
* HW_RTC_setMcuWakeUpTime, the calendar dates of `systime.c` and the restore functions of
  the non-volatile contexts, which no program of the repository calls.
* Ciphers, parsers and serializers (bytes without state), region tables (data), register
  programming, vendored code (CMSIS, HAL, mbed-os, http_parser), and the small mbed
  and Firebase demonstrations.
