-------------------------------- MODULE Trace --------------------------------
(***************************************************************************)
(* The trace facility and the low-power manager: trace.c writes messages   *)
(* into the circular queue of queue.c and sends them one element at a time *)
(* by DMA through the UART (vcom.c); while it sends it forbids the Stop    *)
(* mode (low_power_manager.c), in which the UART has no clock.             *)
(*                                                                         *)
(* The queue is the byte memory of the code: an element is two bytes that  *)
(* hold its length, low byte first, and its data; an element that would    *)
(* wrap is split in two (CIRCULAR_QUEUE_SPLIT_IF_WRAPPING_FLAG, elements   *)
(* of variable size, the options TraceInit chooses).                       *)
(*                                                                         *)
(* TraceSend and the end-of-transfer interrupt each have a section with    *)
(* interrupts masked, an action here, and call OutputTrace after it; other *)
(* interrupts may trace a message in between.                              *)
(*                                                                         *)
(* The length TraceSend gives CircularQueue_Add is the result of vsnprintf  *)
(* in sixteen bits (trace.c:95): more than TEMPBUFSIZE, 256, for a message  *)
(* that was cut off, 65535 for one that cannot be formatted.                *)
(***************************************************************************)
EXTENDS Integers, Sequences, SequencesExt

CONSTANTS
  queueMaxSize,  \* DBG_TRACE_MSG_QUEUE_SIZE: 256, or 512 when verbose
  MsgSizes,      \* the lengths vsnprintf returns for what is traced
  Bytes          \* data bytes are numbered modulo Bytes, to tell them apart

ASSUME TraceAssumption ==
  /\ queueMaxSize \in 4 .. 512
  /\ Bytes \in 1 .. 256

(* bufSize has sixteen bits.                                                *)
ASSUME SizesAssumption ==
  MsgSizes \subseteq Nat /\ \A n \in MsgSizes : n < 65536

(* What keeps the queue sound: the memory the code is built with, in which  *)
(* a message of 255 bytes or more never fits, or shorter messages.  In a    *)
(* larger memory wrapped_element_eob_size, kept in eight bits, misses the   *)
(* second header of a message of 255 that finds 256 bytes left before the   *)
(* end, and more than what TraceSend formatted is copied of a longer one.   *)
WrapsCounted == queueMaxSize <= 256 \/ \A n \in MsgSizes : n < 255

VARIABLES
  qBuff,            \* the memory of the queue
  first, last,      \* position of the first and of the last element
  byteCount,        \* bytes in use
  elementCount,     \* elements stored
  ready,            \* TracePeripheralReady = SET
  uart,             \* "idle", "armed" (OutputTrace is about to be called),
                    \* "busy" (the DMA sends) or "done" (interrupt pending)
  dma,              \* the data given to OutputTrace: [pos, size]
  stopModeDisable,  \* StopModeDisable: who forbids the Stop mode
  alarmNear,        \* an RTC alarm is set that is too near for the Stop mode
  cpu,              \* "run", "sleep" or "stop"
  out,              \* the bytes of the transfer that ended last
  stamp             \* the number of the next data byte

queueVars == <<qBuff, first, last, byteCount, elementCount>>
lowPowerVars == <<stopModeDisable, alarmNear, cpu>>
vars == <<queueVars, ready, uart, dma, lowPowerVars, out, stamp>>

Position == 0 .. queueMaxSize - 1
MOD(X, Y) == IF X >= Y THEN X - Y ELSE X
HeaderSize == 2    \* elemSizeStorageRoom

-----------------------------------------------------------------------------
(* The circular queue. *)

(* The length stored in the two bytes at position p. *)
SizeAt(mem, p) == mem[p] + 256 * mem[MOD(p + 1, queueMaxSize)]

(* Memory mem with data written at position p and up; with its length at p. *)
Write(mem, p, data) ==
  [i \in Position |-> IF i >= p /\ i < p + Len(data) THEN data[i - p + 1] ELSE mem[i]]
WriteHeader(mem, p, n) ==
  [mem EXCEPT ![p] = n % 256, ![MOD(p + 1, queueMaxSize)] = n \div 256]

(* CircularQueue_Init *)
CircularQueue_Init ==
  /\ qBuff = [p \in Position |-> 0]
  /\ first = 0 /\ last = 0 /\ byteCount = 0 /\ elementCount = 0

(* curElementSize: the bytes the last element takes. *)
LastElementSize ==
  IF byteCount = 0 THEN 0 ELSE SizeAt(qBuff, last) + HeaderSize

(* eob_free_size, an unsigned 32-bit difference: the room between the last *)
(* element and the end of the memory.                                      *)
EndRoom ==
  LET room == queueMaxSize - (last + LastElementSize)
  IN  CASE last < first -> 0
        [] last >= first /\ room >= 0 -> room
        [] OTHER -> 1000000000   \* wrapped below zero, larger than any message

(* Fault: the header of the second part is not counted. *)
NoOverhead(n) == 0

(* overhead: the header of the second part, when the element would wrap.   *)
(* wrapped_element_eob_size is kept in eight bits.                         *)
Overhead(n) ==
  LET need == n + HeaderSize
      wrapped == IF need < EndRoom THEN 0 ELSE (EndRoom % need) % 256
  IN  IF wrapped > HeaderSize THEN HeaderSize ELSE 0

Fits(n) == n > 0 /\ byteCount + n + HeaderSize + Overhead(n) <= queueMaxSize

(* Fault: the second part starts with the data of the first. *)
AddSameStart(data) ==
  LET n == Len(data)
      at == MOD(last + LastElementSize, queueMaxSize)
      body == MOD(MOD(at + 1, queueMaxSize) + 1, queueMaxSize)
      head == IF queueMaxSize - body < n THEN queueMaxSize - body ELSE n
      rest == n - head
  IN  IF rest = 0
      THEN /\ qBuff' = Write(WriteHeader(qBuff, at, n), body, data)
           /\ last' = at
           /\ byteCount' = byteCount + n + HeaderSize
           /\ elementCount' = elementCount + 1
           /\ UNCHANGED first
      ELSE /\ qBuff' = Write(WriteHeader(Write(WriteHeader(qBuff, at, head), body,
                                               SubSeq(data, 1, head)),
                                         0, rest),
                             HeaderSize, SubSeq(data, 1, rest))
           /\ last' = 0
           /\ byteCount' = byteCount + n + 2 * HeaderSize
           /\ elementCount' = elementCount + 2
           /\ UNCHANGED first

(* CircularQueue_Add of one element, when it fits. *)
CircularQueue_Add(data) ==
  LET n == Len(data)
      at == MOD(last + LastElementSize, queueMaxSize)
      body == MOD(MOD(at + 1, queueMaxSize) + 1, queueMaxSize)
      head == IF queueMaxSize - body < n THEN queueMaxSize - body ELSE n
      rest == n - head
  IN  IF rest = 0
      THEN /\ qBuff' = Write(WriteHeader(qBuff, at, n), body, data)
           /\ last' = at
           /\ byteCount' = byteCount + n + HeaderSize
           /\ elementCount' = elementCount + 1
           /\ UNCHANGED first
      ELSE /\ qBuff' = Write(WriteHeader(Write(WriteHeader(qBuff, at, head), body,
                                               SubSeq(data, 1, head)),
                                         0, rest),
                             HeaderSize, SubSeq(data, head + 1, n))
           /\ last' = 0
           /\ byteCount' = byteCount + n + 2 * HeaderSize
           /\ elementCount' = elementCount + 2
           /\ UNCHANGED first

(* CircularQueue_Remove, when the queue is not empty. *)
CircularQueue_Remove ==
  LET n == SizeAt(qBuff, first)
  IN  /\ byteCount' = byteCount - (n + HeaderSize)
      /\ first' = IF byteCount' > 0 THEN MOD(first + n + HeaderSize, queueMaxSize) ELSE first
      /\ elementCount' = elementCount - 1
      /\ UNCHANGED <<qBuff, last>>

(* CircularQueue_Sense of a queue with this memory and first element. *)
CircularQueue_Sense(mem, f) == [pos |-> MOD(f + HeaderSize, queueMaxSize), size |-> SizeAt(mem, f)]

-----------------------------------------------------------------------------
(* The low-power manager. *)

LPM_Disable(id) == stopModeDisable' = stopModeDisable \cup {id}

(* Fault: whoever enables the Stop mode enables it for all. *)
LPM_EnableAll(id) == stopModeDisable' = {}

LPM_Enable(id) == stopModeDisable' = stopModeDisable \ {id}

(* LPM_EnterLowPower, from the main loop, interrupts masked: the application *)
(* forbids the Off mode before the loop, so Sleep and Stop are what is left. *)
(* The loop is not running while a TraceSend it called, or an interrupt,     *)
(* still has its OutputTrace to do.                                          *)
LPM_EnterLowPower ==
  /\ cpu = "run" /\ uart # "armed"
  /\ cpu' = IF stopModeDisable # {} THEN "sleep" ELSE "stop"
  /\ UNCHANGED <<queueVars, ready, uart, dma, stopModeDisable, alarmNear, out, stamp>>

(* An interrupt ends WFI: the end of a transfer, or any other. *)
Wake ==
  /\ cpu # "run"
  /\ cpu' = "run"
  /\ UNCHANGED <<queueVars, ready, uart, dma, stopModeDisable, alarmNear, out, stamp>>

WakeByUart == uart = "done" /\ Wake

(* HW_RTC_SetAlarm: an alarm below MIN_ALARM_DELAY forbids the Stop mode. *)
HW_RTC_SetAlarm(near) ==
  /\ cpu = "run"
  /\ alarmNear' = near
  /\ IF near THEN LPM_Disable("RTC") ELSE LPM_Enable("RTC")
  /\ UNCHANGED <<queueVars, ready, uart, dma, cpu, out, stamp>>

(* HW_RTC_IrqHandler: the alarm has rung. *)
HW_RTC_IrqHandler ==
  /\ cpu = "run"
  /\ alarmNear' = FALSE
  /\ LPM_Enable("RTC")
  /\ UNCHANGED <<queueVars, ready, uart, dma, cpu, out, stamp>>

-----------------------------------------------------------------------------
(* The trace facility. *)

Stream == INSTANCE TraceStream WITH pending <- <<>>

(* TraceSend, up to the end of its masked section; the message is dropped  *)
(* when it does not fit.                                                   *)
TraceSend(n) ==
  /\ cpu = "run"
  /\ IF Fits(n)
     THEN /\ CircularQueue_Add(Stream!Message(stamp, n))
          /\ stamp' = (stamp + n) % Bytes
          /\ IF ready
             THEN /\ dma' = CircularQueue_Sense(qBuff', first')
                  /\ ready' = FALSE
                  /\ uart' = "armed"
                  /\ LPM_Disable("UART_TX")
             ELSE UNCHANGED <<dma, ready, uart, stopModeDisable>>
     ELSE UNCHANGED <<queueVars, stamp, dma, ready, uart, stopModeDisable>>
  /\ UNCHANGED <<alarmNear, cpu, out>>

(* OutputTrace, after the masked section: HAL_UART_Transmit_DMA. *)
OutputTrace ==
  /\ cpu = "run" /\ uart = "armed"
  /\ uart' = "busy"
  /\ UNCHANGED <<queueVars, ready, dma, lowPowerVars, out, stamp>>

(* The DMA has sent the chunk; the UART has no clock in Stop mode. *)
DmaDone ==
  /\ uart = "busy" /\ cpu # "stop"
  /\ uart' = "done"
  /\ out' = [i \in 1 .. dma.size |-> qBuff[MOD(dma.pos + i - 1, queueMaxSize)]]
  /\ UNCHANGED <<queueVars, ready, dma, lowPowerVars, stamp>>

(* Fault: the next chunk is looked up before the sent one is removed. *)
TxCpltCallbackEarly ==
  /\ cpu = "run" /\ uart = "done"
  /\ CircularQueue_Remove
  /\ IF byteCount' > 0
     THEN /\ dma' = CircularQueue_Sense(qBuff, first)
          /\ uart' = "armed"
          /\ UNCHANGED <<ready, stopModeDisable>>
     ELSE /\ uart' = "idle"
          /\ ready' = TRUE
          /\ LPM_Enable("UART_TX")
          /\ UNCHANGED dma
  /\ UNCHANGED <<alarmNear, cpu, out, stamp>>

(* Trace_TxCpltCallback, up to the end of its masked section. *)
Trace_TxCpltCallback ==
  /\ cpu = "run" /\ uart = "done"
  /\ CircularQueue_Remove
  /\ IF byteCount' > 0
     THEN /\ dma' = CircularQueue_Sense(qBuff, first')
          /\ uart' = "armed"
          /\ UNCHANGED <<ready, stopModeDisable>>
     ELSE /\ uart' = "idle"
          /\ ready' = TRUE
          /\ LPM_Enable("UART_TX")
          /\ UNCHANGED dma
  /\ UNCHANGED <<alarmNear, cpu, out, stamp>>

(* TraceInit *)
Init ==
  /\ CircularQueue_Init
  /\ ready = TRUE /\ uart = "idle" /\ dma = [pos |-> 0, size |-> 0]
  /\ stopModeDisable = {} /\ alarmNear = FALSE /\ cpu = "run"
  /\ out = <<>> /\ stamp = 0

Next ==
  \/ \E n \in MsgSizes : TraceSend(n)
  \/ OutputTrace
  \/ DmaDone
  \/ Trace_TxCpltCallback
  \/ LPM_EnterLowPower
  \/ Wake
  \/ \E near \in BOOLEAN : HW_RTC_SetAlarm(near)
  \/ HW_RTC_IrqHandler

(* The processor returns from what it does, the DMA ends its transfers,    *)
(* and an interrupt wakes the processor.  The main loop lifts the mask of  *)
(* the interrupts in every turn, so one that is pending again and again    *)
(* when the processor runs is taken: strong fairness.  Nothing else need   *)
(* ever happen: no message, no alarm.                                      *)
Fairness ==
  /\ WF_vars(OutputTrace)
  /\ WF_vars(DmaDone)
  /\ SF_vars(Trace_TxCpltCallback)
  /\ WF_vars(WakeByUart)

Spec == Init /\ [][Next]_vars
FairSpec == Spec /\ Fairness

-----------------------------------------------------------------------------
(* Properties. *)

(* Where the elements start, from the first on, and where the free bytes    *)
(* do, not wrapped: offsets go on past the end of the memory.               *)
Offset ==
  LET at[k \in 1 .. elementCount + 1] ==
        IF k = 1 THEN first
        ELSE at[k - 1] + SizeAt(qBuff, at[k - 1] % queueMaxSize) + HeaderSize
  IN  at

ElementAt == [k \in 1 .. elementCount |-> Offset[k] % queueMaxSize]

(* The data of the element at position p. *)
DataAt(p) ==
  LET body == MOD(p + HeaderSize, queueMaxSize)
  IN  [i \in 1 .. SizeAt(qBuff, p) |-> qBuff[(body + i - 1) % queueMaxSize]]

(* What is in the queue and not yet sent. *)
Pending ==
  LET data == [k \in 1 .. elementCount |-> DataAt(ElementAt[k])]
  IN  FlattenSeq(IF uart = "done" THEN Tail(data) ELSE data)

(* Positions stay in the memory, lengths in its size. *)
TypeOK ==
  /\ qBuff \in [Position -> 0 .. 255]
  /\ first \in Position /\ last \in Position
  /\ byteCount \in 0 .. queueMaxSize /\ elementCount \in 0 .. queueMaxSize
  /\ ready \in BOOLEAN
  /\ uart \in {"idle", "armed", "busy", "done"}
  /\ dma \in [pos : Position, size : 0 .. queueMaxSize]
  /\ stopModeDisable \subseteq {"RTC", "UART_TX"}
  /\ alarmNear \in BOOLEAN
  /\ cpu \in {"run", "sleep", "stop"}
  /\ stamp \in 0 .. Bytes - 1

(* The chain of lengths that starts at the first element leads to the last *)
(* one and accounts for every byte in use, and these fit in the memory: no  *)
(* header is ever overwritten, however the elements wrap and split.         *)
RingIsSound ==
  /\ Offset[elementCount + 1] = first + byteCount
  /\ byteCount <= queueMaxSize
  /\ last = IF elementCount = 0 THEN first ELSE ElementAt[elementCount]

(* What the DMA is sending is the first element, in one piece that does   *)
(* not run over the end of the memory, until its interrupt removes it.    *)
DmaSendsFirst ==
  uart # "idle" =>
    /\ elementCount > 0
    /\ dma = CircularQueue_Sense(qBuff, first)
    /\ dma.pos + dma.size <= queueMaxSize

(* The processor stops the clock of the UART only when everything traced  *)
(* has been sent, and only when no near alarm would be late; and the UART *)
(* is never left idle with messages waiting.                              *)
StopOnlyWhenIdle ==
  /\ cpu = "stop" => uart = "idle" /\ ~alarmNear
  /\ uart = "idle" => byteCount = 0

-----------------------------------------------------------------------------
(* The inductive invariant. *)

(* In memory mem an element that is not empty starts at offset p, in one    *)
(* piece, and the next one at offset q.                                     *)
Element(mem, p, q) ==
  /\ q > p + HeaderSize
  /\ SizeAt(mem, MOD(p, queueMaxSize)) = q - p - HeaderSize
  /\ MOD(p + HeaderSize, queueMaxSize) + (q - p - HeaderSize) <= queueMaxSize

(* at gives the offsets of m elements that take c bytes from position f on; *)
(* the last one is at position l.                                           *)
Chain(mem, f, l, c, m, at) ==
  /\ at \in [1 .. m + 1 -> Nat]
  /\ at[1] = f
  /\ at[m + 1] = f + c
  /\ \A j, k \in 1 .. m + 1 : j <= k => at[j] + (k - j) <= at[k]
  /\ \A k \in 1 .. m : Element(mem, at[k], at[k + 1])
  /\ l = IF m = 0 THEN f ELSE MOD(at[m], queueMaxSize)

(* The elements in the memory are whole and follow one another. *)
ElementsFollow == Chain(qBuff, first, last, byteCount, elementCount, Offset)

(* Who forbids the Stop mode, and when the trace may start a transfer. *)
HoldersAgree ==
  /\ ready <=> uart = "idle"
  /\ "UART_TX" \in stopModeDisable <=> uart # "idle"
  /\ "RTC" \in stopModeDisable <=> alarmNear
  /\ cpu = "stop" => stopModeDisable = {}

(* What every step keeps.  RingIsSound alone is not kept: a length that     *)
(* runs over the end of the memory would satisfy it until the next Add.     *)
IInv == TypeOK /\ ElementsFollow /\ HoldersAgree /\ DmaSendsFirst /\ StopOnlyWhenIdle

(* The bytes of the accepted messages are all sent, in order. *)
Delivered == INSTANCE TraceStream WITH pending <- Pending
DeliversSafely == Delivered!SafeSpec
Delivers == Delivered!FairSpec

=============================================================================
