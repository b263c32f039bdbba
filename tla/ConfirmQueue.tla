----------------------------- MODULE ConfirmQueue -----------------------------
(***************************************************************************)
(* The queue of MLME requests that wait for their confirmation,            *)
(* Lora/Mac/LoRaMacConfirmQueue.c, with the code of Lora/Mac/LoRaMac.c that *)
(* fills it (LoRaMacMlmeRequest), gives its elements their status (the     *)
(* radio events of a transmission) and empties it (LoRaMacProcess), and    *)
(* the clients of Lora/Core/lora.c and src/main.c.                         *)
(*                                                                         *)
(* LoRaMacProcess runs in the main loop, calls the clients back, and they  *)
(* make new requests from the callback.  The application's TxTimer makes   *)
(* requests too, from the RTC interrupt, between any two steps of the main  *)
(* loop.  IrqRemoves says whether it may also do so while the main loop     *)
(* takes the head off the queue, where the interrupt's change of the        *)
(* counter is lost.  Two requests do not overlap: each is one step.         *)
(*                                                                         *)
(* A status is OK or Error (every other LoRaMacEventInfoStatus_t).  All    *)
(* calls of LoRaMacConfirmQueueSetStatusCmn pass an error.                 *)
(***************************************************************************)
EXTENDS Integers

CONSTANTS
  Requests,     (* Mlme_t                                                    *)
  Join,         (* MLME_JOIN                                                 *)
  Restricted,   (* requests with RestrictCommonReadyToHandle: the beacon
                   acquisition, which class B answers                        *)
  NoRequest,    (* a slot that was never used                                *)
  QueueLen,     (* LORA_MAC_MLME_CONFIRM_QUEUE_LEN                           *)
  MaxPending,   (* bound: clients make no request with so many waiting       *)
  IrqRemoves    (* whether interrupts make requests while the head is removed *)

ASSUME QueueAssumption ==
  /\ Join \in Requests
  /\ Restricted \subseteq Requests \ {Join}
  /\ NoRequest \notin Requests
  /\ QueueLen \in Nat \ {0}
  /\ MaxPending \in Nat
  /\ IrqRemoves \in BOOLEAN

VARIABLES
  MlmeConfirmQueue,      (* the ring                                         *)
  BufferStart,
  BufferEnd,
  MlmeConfirmQueueCnt,
  phase,       (* of LoRaMacConfirmQueueHandleCb: not running ("out"), about to
                  be called by LoRaMacProcess ("due"), at the head of its loop
                  ("loop"), with the head read and its callback running if it
                  is ready ("handling"), with the counter read to be
                  decremented ("removing")                                   *)
  todo,        (* nbElements - i                                             *)
  current,     (* the element that was read                                  *)
  loaded,      (* the counter that was read                                  *)
  MacState,    (* "IDLE", "TX_RUNNING", or "DONE" once MacDone is set         *)
  MlmeReq,     (* the flags of MacFlags                                      *)
  McpsReq,
  NodeAckRequested,      (* the frame that is sent asks for an acknowledgement *)
  activated    (* NetworkActivation # ACTIVATION_TYPE_NONE                   *)

ringVars == <<MlmeConfirmQueue, BufferStart, BufferEnd, MlmeConfirmQueueCnt>>
handleVars == <<phase, todo, current, loaded>>
macVars == <<MacState, MlmeReq, McpsReq, NodeAckRequested, activated>>
vars == <<ringVars, handleVars, macVars>>

Slots == 0..(QueueLen - 1)

OK == "OK"
Error == "ERROR"

(* The fields of MlmeConfirmQueue_t; RestrictCommonReadyToHandle is a       *)
(* function of the request.                                                 *)
Element ==
  [Request : Requests \cup {NoRequest}, Status : {OK, Error}, ReadyToHandle : BOOLEAN]

NewElement(r) == [Request |-> r, Status |-> Error, ReadyToHandle |-> FALSE]

-------------------------------------------------------------------------------
(***************************************************************************)
(* The ring buffer                                                         *)
(***************************************************************************)

IncreaseBufferPointer(p) == IF p = QueueLen - 1 THEN 0 ELSE p + 1

(* k times IncreaseBufferPointer; how many times leads from p to q.         *)
Slot(p, k) == IF p + k < QueueLen THEN p + k ELSE p + k - QueueLen

Distance(p, q) == IF p <= q THEN q - p ELSE q + QueueLen - p

(* Fault: the queue is full one element too late.                           *)
IsFullTooLate == MlmeConfirmQueueCnt > QueueLen

IsFull == MlmeConfirmQueueCnt >= QueueLen

(* Fault: the walk starts behind the start.                                 *)
GetElementBehindStart(r, i) ==
  \E k \in 1..(Distance(BufferStart, BufferEnd) - 1) :
    i = Slot(BufferStart, k) /\ MlmeConfirmQueue[i].Request = r

(* GetElement: the first element of the walk from the start to the end that *)
(* holds the request.  The walk is empty when the two pointers are equal.   *)
GetElement(r, i) ==
  \E k \in 0..(Distance(BufferStart, BufferEnd) - 1) :
    /\ i = Slot(BufferStart, k)
    /\ MlmeConfirmQueue[i].Request = r
    /\ \A j \in 0..(k - 1) : MlmeConfirmQueue[Slot(BufferStart, j)].Request # r

IsCmdActive(r) == \E i \in Slots : GetElement(r, i)

(* LoRaMacConfirmQueueSetStatus.                                            *)
WithStatus(status, r) ==
  [i \in Slots |->
     IF MlmeConfirmQueueCnt > 0 /\ GetElement(r, i)
     THEN [MlmeConfirmQueue[i] EXCEPT !.Status = status, !.ReadyToHandle = TRUE]
     ELSE MlmeConfirmQueue[i]]


(* The slots visited by the do-while of LoRaMacConfirmQueueSetStatusCmn,    *)
(* which goes all around when the two pointers are equal.                   *)
CmnSlots(end) ==
  IF end = BufferStart THEN Slots
  ELSE {Slot(BufferStart, k) : k \in 0..(Distance(BufferStart, end) - 1)}

(* LoRaMacConfirmQueueSetStatusCmn on a ring that ends at end and counts    *)
(* cnt elements.                                                            *)
SetStatusCmn(ring, end, cnt) ==
  [i \in Slots |->
     IF cnt > 0 /\ i \in CmnSlots(end)
     THEN [ring[i] EXCEPT !.Status = Error,
                          !.ReadyToHandle = @ \/ ring[i].Request \notin Restricted]
     ELSE ring[i]]

AllFailed ==
  MlmeConfirmQueue' = SetStatusCmn(MlmeConfirmQueue, BufferEnd, MlmeConfirmQueueCnt)

-------------------------------------------------------------------------------
(***************************************************************************)
(* LoRaMacMlmeRequest                                                      *)
(***************************************************************************)

(* From where, and when, clients request r: the application joins while it  *)
(* is not activated and again when a join failed, and requests the rest     *)
(* once it is.                                                              *)
ByMainLoop == phase = "out" \/ (phase = "handling" /\ current.ReadyToHandle)

(* From reading the head of the queue to writing the queue back.            *)
Removing == phase = "removing" \/ (phase = "handling" /\ ~current.ReadyToHandle)

ByInterrupt == ~Removing \/ IrqRemoves

JoinFailed == phase = "handling" /\ current.Request = Join /\ current.Status = Error

MayRequest(r) ==
  /\ MacState = "IDLE"
  /\ ~IsFull
  /\ MlmeConfirmQueueCnt < MaxPending
  /\ ByMainLoop \/ (ByInterrupt /\ r = Join)
  /\ IF r = Join THEN ~activated \/ (ByMainLoop /\ JoinFailed) ELSE activated

(* LoRaMacClassBIsAcquisitionInProgress: the request for it waits, not       *)
(* answered yet.                                                            *)
InProgress(r) ==
  \E k \in 0..(MlmeConfirmQueueCnt - 1) :
    LET element == MlmeConfirmQueue[Slot(BufferStart, k)]
    IN element.Request = r /\ ~element.ReadyToHandle

(* Accepted: the element is added at the end.  A join is sent at once,      *)
(* which gives every element an error to start with.                        *)
RequestAccepted(r) ==
  /\ MayRequest(r)
  /\ r \in Restricted => ~InProgress(r)
  /\ LET ring == [MlmeConfirmQueue EXCEPT ![BufferEnd] = NewElement(r)]
         end == IncreaseBufferPointer(BufferEnd)
         cnt == MlmeConfirmQueueCnt + 1
     IN /\ MlmeConfirmQueue' = IF r = Join THEN SetStatusCmn(ring, end, cnt) ELSE ring
        /\ BufferEnd' = end
        /\ MlmeConfirmQueueCnt' = cnt
  /\ MlmeReq' = TRUE
  /\ MacState' = IF r = Join THEN "TX_RUNNING" ELSE MacState
  /\ activated' = (activated /\ r # Join)
  /\ NodeAckRequested' = (NodeAckRequested /\ r # Join)
  /\ UNCHANGED <<BufferStart, McpsReq, handleVars>>

(* Fault: a failed request always takes the flag back.                      *)
RequestFailedForgets(r) ==
  /\ MayRequest(r)
  /\ MlmeConfirmQueue' = [MlmeConfirmQueue EXCEPT ![BufferEnd] = NewElement(r)]
  /\ MlmeReq' = FALSE
  /\ activated' = (activated /\ r # Join)
  /\ NodeAckRequested' = FALSE
  /\ UNCHANGED <<BufferStart, BufferEnd, MlmeConfirmQueueCnt, MacState, McpsReq, handleVars>>

(* Fault: a failed request is taken off the wrong end.                      *)
RequestFailedRemovesFirst(r) ==
  /\ MayRequest(r)
  /\ MlmeConfirmQueue' = [MlmeConfirmQueue EXCEPT ![BufferEnd] = NewElement(r)]
  /\ BufferStart' = IncreaseBufferPointer(BufferStart)
  /\ BufferEnd' = IncreaseBufferPointer(BufferEnd)
  /\ MlmeReq' = (MlmeConfirmQueueCnt # 0)
  /\ activated' = (activated /\ r # Join)
  /\ NodeAckRequested' = FALSE
  /\ UNCHANGED <<MlmeConfirmQueueCnt, MacState, McpsReq, handleVars>>

(* Failed: a join that cannot be sent now, a MAC command that does not fit, *)
(* a beacon acquisition in progress.  The element is added and removed.     *)
RequestFailed(r) ==
  /\ MayRequest(r)
  /\ MlmeConfirmQueue' = [MlmeConfirmQueue EXCEPT ![BufferEnd] = NewElement(r)]
  /\ MlmeReq' = (MlmeConfirmQueueCnt # 0)
  /\ activated' = (activated /\ r # Join)
  /\ NodeAckRequested' = FALSE
  /\ UNCHANGED <<BufferStart, BufferEnd, MlmeConfirmQueueCnt, MacState, McpsReq, handleVars>>

-------------------------------------------------------------------------------
(***************************************************************************)
(* A transmission and its radio events, which the main loop handles        *)
(***************************************************************************)

(* LoRaMacMcpsRequest down to SendFrameOnChannel, a confirmed frame or not. *)
SendUplink ==
  /\ MacState = "IDLE" /\ activated
  /\ ByInterrupt
  /\ AllFailed
  /\ MacState' = "TX_RUNNING"
  /\ McpsReq' = TRUE
  /\ NodeAckRequested' \in BOOLEAN
  /\ UNCHANGED <<BufferStart, BufferEnd, MlmeConfirmQueueCnt, handleVars, MlmeReq, activated>>

(* ProcessRadioTxTimeout, HandleRadioRxErrorTimeout: after the first window *)
(* the transmission goes on, otherwise it is done.                          *)
RadioFailed ==
  /\ phase = "out" /\ MacState = "TX_RUNNING"
  /\ AllFailed
  /\ MacState' \in {"TX_RUNNING", "DONE"}
  /\ UNCHANGED <<BufferStart, BufferEnd, MlmeConfirmQueueCnt, handleVars, MlmeReq, McpsReq,
                 NodeAckRequested, activated>>

(* ProcessRadioRxDone, FRAME_TYPE_JOIN_ACCEPT, genuine or not.              *)
JoinAnswered ==
  /\ phase = "out" /\ MacState = "TX_RUNNING" /\ ~activated
  /\ activated' \in BOOLEAN
  /\ MlmeConfirmQueue' = WithStatus(IF activated' THEN OK ELSE Error, Join)
  /\ MacState' = "DONE"
  /\ UNCHANGED <<BufferStart, BufferEnd, MlmeConfirmQueueCnt, handleVars, MlmeReq, McpsReq,
                 NodeAckRequested>>

(* ProcessMacCommands finds the answer of r in a downlink, or class B has   *)
(* one for a restricted request.                                            *)
Answer(r, status) ==
  /\ phase = "out"
  /\ \/ r \in Restricted
     \/ r # Join /\ MacState = "TX_RUNNING" /\ activated
  /\ IsCmdActive(r)
  /\ MlmeConfirmQueue' = WithStatus(status, r)
  /\ UNCHANGED <<BufferStart, BufferEnd, MlmeConfirmQueueCnt, handleVars, macVars>>

(* ProcessRadioRxDone, a data frame, the end of the transmission unless     *)
(* AckTimeoutTimer runs: a confirmed frame was sent, and this is not its     *)
(* acknowledgement.                                                         *)
RxDone ==
  /\ phase = "out" /\ MacState = "TX_RUNNING" /\ activated
  /\ MacState' = "DONE" \/ (NodeAckRequested /\ UNCHANGED MacState)
  /\ UNCHANGED <<ringVars, handleVars, MlmeReq, McpsReq, NodeAckRequested, activated>>

(* LoRaMacProcess: an uplink is sent again ...                              *)
Retransmit ==
  /\ phase = "out" /\ MacState = "DONE" /\ McpsReq
  /\ AllFailed
  /\ MacState' = "TX_RUNNING"
  /\ UNCHANGED <<BufferStart, BufferEnd, MlmeConfirmQueueCnt, handleVars, MlmeReq, McpsReq,
                 NodeAckRequested, activated>>

(* ... or the MAC becomes idle, and goes on to the queue; NodeAckRequested   *)
(* outlives a transmission that timed out.                                  *)
Process ==
  /\ phase = "out" /\ MacState = "DONE"
  /\ MacState' = "IDLE"
  /\ McpsReq' = FALSE
  /\ NodeAckRequested' \in {NodeAckRequested, FALSE}
  /\ phase' = IF MlmeReq THEN "due" ELSE "out"
  /\ UNCHANGED <<ringVars, todo, current, loaded, MlmeReq, activated>>

-------------------------------------------------------------------------------
(***************************************************************************)
(* LoRaMacConfirmQueueHandleCb, called by LoRaMacProcess                   *)
(***************************************************************************)

HandleCb ==
  /\ phase = "due" \/ (phase = "out" /\ MacState = "IDLE" /\ MlmeReq)
  /\ MlmeReq' = FALSE
  /\ phase' = "loop"
  /\ todo' = MlmeConfirmQueueCnt
  /\ UNCHANGED <<ringVars, current, loaded, MacState, McpsReq, NodeAckRequested, activated>>

(* Read the head; its callback starts if it is ready.                       *)
HandleFirst ==
  /\ phase = "loop" /\ todo > 0
  /\ current' = MlmeConfirmQueue[BufferStart]
  /\ phase' = "handling"
  /\ UNCHANGED <<ringVars, todo, loaded, macVars>>

(* The callback returned: LoRaMacConfirmQueueRemoveFirst reads the counter. *)
RemoveFirst ==
  /\ phase = "handling"
  /\ loaded' = MlmeConfirmQueueCnt
  /\ phase' = "removing"
  /\ UNCHANGED <<ringVars, todo, current, macVars>>

(* Fault: the element that is not ready is stored before the head is removed, *)
(* and refused by a full queue.                                             *)
HandledStoredFirst ==
  /\ phase = "removing"
  /\ LET again == ~current.ReadyToHandle /\ loaded < QueueLen
     IN /\ MlmeConfirmQueue' = IF again
                               THEN [MlmeConfirmQueue EXCEPT ![BufferEnd] = current]
                               ELSE MlmeConfirmQueue
        /\ BufferEnd' = IF again THEN IncreaseBufferPointer(BufferEnd) ELSE BufferEnd
        /\ BufferStart' = IncreaseBufferPointer(BufferStart)
        /\ MlmeConfirmQueueCnt' = IF again THEN loaded ELSE loaded - 1
  /\ todo' = todo - 1
  /\ phase' = "loop"
  /\ current' = NewElement(NoRequest)
  /\ loaded' = 0
  /\ UNCHANGED macVars

(* It writes the counter and the start, and an element that was not ready   *)
(* is added again.                                                          *)
Handled ==
  /\ phase = "removing"
  /\ LET cnt == IF loaded = 0 THEN 0 ELSE loaded - 1
         again == ~current.ReadyToHandle /\ cnt < QueueLen
     IN /\ BufferStart' = IF loaded = 0 THEN BufferStart
                          ELSE IncreaseBufferPointer(BufferStart)
        /\ MlmeConfirmQueue' = IF again
                               THEN [MlmeConfirmQueue EXCEPT ![BufferEnd] = current]
                               ELSE MlmeConfirmQueue
        /\ BufferEnd' = IF again THEN IncreaseBufferPointer(BufferEnd) ELSE BufferEnd
        /\ MlmeConfirmQueueCnt' = IF again THEN cnt + 1 ELSE cnt
  /\ todo' = todo - 1
  /\ phase' = "loop"
  /\ current' = NewElement(NoRequest)
  /\ loaded' = 0
  /\ UNCHANGED macVars

(* The loop ends; what is left waits for the next LoRaMacProcess.           *)
HandleDone ==
  /\ phase = "loop" /\ todo = 0
  /\ MlmeReq' = (MlmeReq \/ MlmeConfirmQueueCnt > 0)
  /\ phase' = "out"
  /\ UNCHANGED <<ringVars, todo, current, loaded, MacState, McpsReq, NodeAckRequested,
                 activated>>

-------------------------------------------------------------------------------
(* LoRaMacConfirmQueueInit.                                                 *)
Init ==
  /\ MlmeConfirmQueue = [i \in Slots |-> NewElement(NoRequest)]
  /\ BufferStart = 0
  /\ BufferEnd = 0
  /\ MlmeConfirmQueueCnt = 0
  /\ phase = "out"
  /\ todo = 0
  /\ current = NewElement(NoRequest)
  /\ loaded = 0
  /\ MacState = "IDLE"
  /\ MlmeReq = FALSE
  /\ McpsReq = FALSE
  /\ NodeAckRequested = FALSE
  /\ activated = FALSE

Handler == HandleCb \/ HandleFirst \/ RemoveFirst \/ Handled \/ HandleDone

Radio ==
  \/ RadioFailed
  \/ JoinAnswered
  \/ \E r \in Requests, status \in {OK, Error} : Answer(r, status)
  \/ RxDone

Next ==
  \/ \E r \in Requests : RequestAccepted(r) \/ RequestFailed(r)
  \/ SendUplink
  \/ Radio
  \/ Retransmit
  \/ Process
  \/ Handler

Spec == Init /\ [][Next]_vars

(* The main loop goes on; the transmission of a join or of an unconfirmed   *)
(* frame ends (nothing ensures that of a confirmed one), and is repeated so *)
(* many times only; the application joins or sends again and again, and a   *)
(* beacon search ends.                                                      *)
FairSpec ==
  /\ Spec
  /\ WF_vars(Handler)
  /\ WF_vars(~NodeAckRequested /\ Radio /\ MacState' = "DONE")
  /\ SF_vars(Process)
  /\ SF_vars(SendUplink)
  /\ SF_vars(RequestAccepted(Join))
  /\ \A r \in Restricted : SF_vars(\E status \in {OK, Error} : Answer(r, status))

-------------------------------------------------------------------------------
(***************************************************************************)
(* Properties                                                              *)
(***************************************************************************)

TypeOK ==
  /\ MlmeConfirmQueue \in [Slots -> Element]
  /\ BufferStart \in Slots
  /\ BufferEnd \in Slots
  /\ MlmeConfirmQueueCnt \in 0..QueueLen
  /\ phase \in {"out", "due", "loop", "handling", "removing"}
  /\ todo \in 0..QueueLen
  /\ current \in Element
  /\ loaded \in 0..QueueLen
  /\ MacState \in {"IDLE", "TX_RUNNING", "DONE"}
  /\ MlmeReq \in BOOLEAN
  /\ McpsReq \in BOOLEAN
  /\ NodeAckRequested \in BOOLEAN
  /\ activated \in BOOLEAN

(* The request in the k-th element of the queue, counting from 0.           *)
Waiting(k) == MlmeConfirmQueue[Slot(BufferStart, k)]

(* The element whose callback runs stays the head of the queue, whatever    *)
(* requests the callback makes, so that LoRaMacConfirmQueueRemoveFirst takes *)
(* that one away; and the loop never reads a slot that is not in the queue. *)
HandledIsHead ==
  /\ phase = "loop" => todo <= MlmeConfirmQueueCnt
  /\ phase \in {"handling", "removing"} =>
       /\ MlmeConfirmQueueCnt > 0
       /\ Waiting(0).Request = current.Request
       /\ current.Request \in Requests

(* A request that waits is never forgotten: LoRaMacProcess comes back to    *)
(* the queue as long as MlmeReq is set.                                     *)
RequestsKeepFlag ==
  phase = "out" /\ MlmeConfirmQueueCnt > 0 => MlmeReq

(* The ring buffer is a queue: every request that is accepted is confirmed  *)
(* once, in turn, and only when it is ready.                                *)
Queued ==
  [k \in 1..MlmeConfirmQueueCnt |->
     [Request |-> Waiting(k - 1).Request, Ready |-> Waiting(k - 1).ReadyToHandle]]

Fifo == INSTANCE MlmeFifo WITH queue <- Queued, Capacity <- QueueLen

IsFifo == Fifo!Spec

(* The application is told that it joined only when it did, and is told so   *)
(* when it did, unless an uplink sent from an interrupt overtakes the        *)
(* confirmation and overwrites its status.                                  *)
JoinConfirmIsTrue ==
  [][HandleFirst /\ current'.Request = Join /\ current'.ReadyToHandle
       => /\ current'.Status = OK => activated
          /\ activated /\ MacState = "IDLE" => current'.Status = OK]_vars

(* Every request that waits is confirmed, as long as every transmission of  *)
(* a confirmed frame ends, which the MAC does not ensure.                   *)
Confirming(r) == phase = "handling" /\ current.ReadyToHandle /\ current.Request = r

InQueue(r) == \E k \in 0..(MlmeConfirmQueueCnt - 1) : Waiting(k).Request = r

EveryRequestConfirmed ==
  []<>~(MacState = "TX_RUNNING" /\ NodeAckRequested) =>
    \A r \in Requests : (phase = "out" /\ InQueue(r)) ~> Confirming(r)

(* The inductive invariant the proofs rest on, where no interrupt comes     *)
(* while the head is removed: the end is where the counter says, and the    *)
(* loop over the queue, the queue and the flag agree on what is left to      *)
(* handle.                                                                  *)
LoopAgrees ==
  /\ phase = "loop" => todo <= MlmeConfirmQueueCnt
  /\ phase \in {"handling", "removing"} =>
       /\ 0 < todo /\ todo <= MlmeConfirmQueueCnt
       /\ MlmeConfirmQueue[BufferStart].Request = current.Request
       /\ IF current.ReadyToHandle THEN MlmeConfirmQueue[BufferStart].ReadyToHandle
          ELSE MlmeConfirmQueue[BufferStart] = current
  /\ phase = "removing" => loaded = MlmeConfirmQueueCnt

IInv ==
  /\ TypeOK
  /\ BufferEnd = Slot(BufferStart, MlmeConfirmQueueCnt)
  /\ \A k \in 0..(MlmeConfirmQueueCnt - 1) : Waiting(k).Request \in Requests
  /\ LoopAgrees
  /\ RequestsKeepFlag
===============================================================================
