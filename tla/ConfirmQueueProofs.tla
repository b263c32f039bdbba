-------------------------- MODULE ConfirmQueueProofs --------------------------
(***************************************************************************)
(* Proofs about ConfirmQueue for every length of the queue and every set of *)
(* requests, of the main loop and of interrupts.  What ~IrqRemoves excludes *)
(* is an interrupt's request while LoRaMacConfirmQueueHandleCb takes the    *)
(* head off the queue; what holds in spite of it is proved without.         *)
(***************************************************************************)
EXTENDS ConfirmQueue, SequenceTheorems, TLAPS

-------------------------------------------------------------------------------
(* The walk around the ring                                                 *)

LEMMA SlotInRing ==
  ASSUME NEW p \in Slots, NEW k \in 0..QueueLen
  PROVE  Slot(p, k) \in Slots
BY QueueAssumption DEF Slots, Slot

LEMMA SlotZero ==
  ASSUME NEW p \in Slots
  PROVE  Slot(p, 0) = p
BY QueueAssumption DEF Slots, Slot

LEMMA SlotAround ==
  ASSUME NEW p \in Slots
  PROVE  Slot(p, QueueLen) = p
BY QueueAssumption DEF Slots, Slot

LEMMA IncreaseInRing ==
  ASSUME NEW p \in Slots
  PROVE  IncreaseBufferPointer(p) \in Slots
BY QueueAssumption DEF Slots, IncreaseBufferPointer

LEMMA SlotIncrease ==
  ASSUME NEW p \in Slots, NEW k \in 0..(QueueLen - 1)
  PROVE  /\ IncreaseBufferPointer(Slot(p, k)) = Slot(p, k + 1)
         /\ Slot(IncreaseBufferPointer(p), k) = Slot(p, k + 1)
BY QueueAssumption DEF Slots, Slot, IncreaseBufferPointer

LEMMA SlotsDiffer ==
  ASSUME NEW p \in Slots, NEW j \in 0..(QueueLen - 1), NEW k \in 0..(QueueLen - 1),
         j # k
  PROVE  Slot(p, j) # Slot(p, k)
BY QueueAssumption DEF Slots, Slot

-------------------------------------------------------------------------------
(* Giving elements a status                                                 *)

(* The same requests in the same slots, some of them ready now.             *)
Kept(old, new) ==
  \A i \in Slots :
    /\ new[i].Request = old[i].Request
    /\ old[i].ReadyToHandle => new[i].ReadyToHandle

LEMMA NewElementType ==
  ASSUME NEW r \in Requests \cup {NoRequest}
  PROVE  NewElement(r) \in Element
BY DEF NewElement, Element, Error

LEMMA SetStatusCmnKeeps ==
  ASSUME NEW ring \in [Slots -> Element], NEW end, NEW cnt
  PROVE  /\ SetStatusCmn(ring, end, cnt) \in [Slots -> Element]
         /\ Kept(ring, SetStatusCmn(ring, end, cnt))
<1>1. ASSUME NEW i \in Slots
      PROVE  /\ SetStatusCmn(ring, end, cnt)[i] \in Element
             /\ SetStatusCmn(ring, end, cnt)[i].Request = ring[i].Request
             /\ ring[i].ReadyToHandle => SetStatusCmn(ring, end, cnt)[i].ReadyToHandle
  <2> DEFINE e == [ring[i] EXCEPT !.Status = Error,
                                  !.ReadyToHandle = @ \/ ring[i].Request \notin Restricted]
  <2>1. /\ e \in Element
        /\ e.Request = ring[i].Request
        /\ ring[i].ReadyToHandle => e.ReadyToHandle
    BY DEF Element
  <2>2. SetStatusCmn(ring, end, cnt)[i] =
          IF cnt > 0 /\ i \in CmnSlots(end) THEN e ELSE ring[i]
    BY DEF SetStatusCmn
  <2> HIDE DEF e
  <2> QED BY <2>1, <2>2
<1>2. SetStatusCmn(ring, end, cnt) \in [Slots -> Element]
  BY <1>1 DEF SetStatusCmn
<1> QED BY <1>1, <1>2 DEF Kept

LEMMA WithStatusKeeps ==
  ASSUME MlmeConfirmQueue \in [Slots -> Element], NEW status \in {OK, Error}, NEW r
  PROVE  /\ WithStatus(status, r) \in [Slots -> Element]
         /\ Kept(MlmeConfirmQueue, WithStatus(status, r))
<1>1. ASSUME NEW i \in Slots
      PROVE  /\ WithStatus(status, r)[i] \in Element
             /\ WithStatus(status, r)[i].Request = MlmeConfirmQueue[i].Request
             /\ MlmeConfirmQueue[i].ReadyToHandle => WithStatus(status, r)[i].ReadyToHandle
  <2> DEFINE e == [MlmeConfirmQueue[i] EXCEPT !.Status = status, !.ReadyToHandle = TRUE]
  <2>1. /\ e \in Element
        /\ e.Request = MlmeConfirmQueue[i].Request
        /\ e.ReadyToHandle
    BY DEF Element
  <2>2. WithStatus(status, r)[i] =
          IF MlmeConfirmQueueCnt > 0 /\ GetElement(r, i) THEN e ELSE MlmeConfirmQueue[i]
    BY DEF WithStatus
  <2> HIDE DEF e
  <2> QED BY <2>1, <2>2
<1>2. WithStatus(status, r) \in [Slots -> Element]
  BY <1>1 DEF WithStatus
<1> QED BY <1>1, <1>2 DEF Kept

-------------------------------------------------------------------------------
(* The inductive invariant                                                  *)

AllWaitingRequested ==
  \A k \in 0..(MlmeConfirmQueueCnt - 1) : Waiting(k).Request \in Requests

(* The parts of the invariant in what they say of the ring.                 *)
RingOK ==
  /\ MlmeConfirmQueue \in [Slots -> Element]
  /\ BufferStart \in Slots
  /\ BufferEnd \in Slots
  /\ MlmeConfirmQueueCnt \in 0..QueueLen
  /\ BufferEnd = Slot(BufferStart, MlmeConfirmQueueCnt)
  /\ AllWaitingRequested

HandleOK ==
  /\ phase \in {"out", "due", "loop", "handling", "removing"}
  /\ todo \in 0..QueueLen
  /\ current \in Element
  /\ loaded \in 0..QueueLen
  /\ LoopAgrees

MacOK ==
  /\ MacState \in {"IDLE", "TX_RUNNING", "DONE"}
  /\ MlmeReq \in BOOLEAN
  /\ McpsReq \in BOOLEAN
  /\ NodeAckRequested \in BOOLEAN
  /\ activated \in BOOLEAN

LEMMA IInvParts == IInv <=> RingOK /\ HandleOK /\ MacOK /\ RequestsKeepFlag
BY Zenon DEF IInv, TypeOK, RingOK, HandleOK, MacOK, AllWaitingRequested

(* New statuses disturb neither the ring nor the loop.                      *)
LEMMA StatusesKeepRing ==
  ASSUME RingOK,
         MlmeConfirmQueue' \in [Slots -> Element],
         Kept(MlmeConfirmQueue, MlmeConfirmQueue'),
         UNCHANGED <<BufferStart, BufferEnd, MlmeConfirmQueueCnt>>
  PROVE  RingOK'
<1>1. ASSUME NEW k \in 0..(MlmeConfirmQueueCnt - 1)
      PROVE  MlmeConfirmQueue'[Slot(BufferStart, k)].Request \in Requests
  <2>1. Slot(BufferStart, k) \in Slots
    <3>1. k \in 0..QueueLen
      BY QueueAssumption DEF RingOK
    <3> QED BY <3>1, SlotInRing DEF RingOK
  <2>2. MlmeConfirmQueue[Slot(BufferStart, k)].Request \in Requests
    BY DEF RingOK, AllWaitingRequested, Waiting
  <2> QED BY <2>1, <2>2 DEF Kept
<1> QED BY <1>1 DEF RingOK, AllWaitingRequested, Waiting, Slot

(* The ring with an element written at the end.                             *)
Written(e) == [MlmeConfirmQueue EXCEPT ![BufferEnd] = e]

(* A request written at the end is behind every element that waits.         *)
LEMMA AppendKeepsRing ==
  ASSUME RingOK, NEW e \in Element, MlmeConfirmQueueCnt < QueueLen
  PROVE  /\ Written(e) \in [Slots -> Element]
         /\ Written(e)[Slot(BufferStart, MlmeConfirmQueueCnt)] = e
         /\ \A k \in 0..(MlmeConfirmQueueCnt - 1) :
              Written(e)[Slot(BufferStart, k)] = MlmeConfirmQueue[Slot(BufferStart, k)]
         /\ IncreaseBufferPointer(BufferEnd) = Slot(BufferStart, MlmeConfirmQueueCnt + 1)
<1>1. /\ MlmeConfirmQueue \in [Slots -> Element] /\ BufferEnd \in Slots
      /\ BufferStart \in Slots
      /\ MlmeConfirmQueueCnt \in 0..(QueueLen - 1)
      /\ BufferEnd = Slot(BufferStart, MlmeConfirmQueueCnt)
  BY QueueAssumption DEF RingOK
<1>2. ASSUME NEW k \in 0..(MlmeConfirmQueueCnt - 1)
      PROVE  Written(e)[Slot(BufferStart, k)] = MlmeConfirmQueue[Slot(BufferStart, k)]
  <2>1. k \in 0..(QueueLen - 1) /\ k # MlmeConfirmQueueCnt
    BY <1>1, QueueAssumption
  <2>2. Slot(BufferStart, k) # BufferEnd
    BY <1>1, <2>1, SlotsDiffer
  <2> QED BY <1>1, <2>2 DEF Written
<1>3. IncreaseBufferPointer(BufferEnd) = Slot(BufferStart, MlmeConfirmQueueCnt + 1)
  BY <1>1, SlotIncrease
<1> QED BY <1>1, <1>2, <1>3 DEF Written

(* An accepted request: the ring with one more element and other statuses.  *)
LEMMA RequestKeepsRing ==
  ASSUME RingOK, NEW r \in Requests, MlmeConfirmQueueCnt < QueueLen,
         MlmeConfirmQueue' \in [Slots -> Element],
         Kept(Written(NewElement(r)), MlmeConfirmQueue'),
         BufferEnd' = IncreaseBufferPointer(BufferEnd),
         MlmeConfirmQueueCnt' = MlmeConfirmQueueCnt + 1,
         UNCHANGED BufferStart
  PROVE  RingOK'
<1>1. /\ BufferEnd \in Slots /\ BufferStart \in Slots
      /\ MlmeConfirmQueueCnt \in 0..(QueueLen - 1)
      /\ BufferEnd = Slot(BufferStart, MlmeConfirmQueueCnt)
  BY QueueAssumption DEF RingOK
<1>2. NewElement(r) \in Element /\ NewElement(r).Request = r
  BY NewElementType DEF NewElement
<1>3. /\ Written(NewElement(r))[Slot(BufferStart, MlmeConfirmQueueCnt)] = NewElement(r)
      /\ \A k \in 0..(MlmeConfirmQueueCnt - 1) :
           Written(NewElement(r))[Slot(BufferStart, k)] = MlmeConfirmQueue[Slot(BufferStart, k)]
      /\ BufferEnd' = Slot(BufferStart, MlmeConfirmQueueCnt + 1)
  BY <1>2, AppendKeepsRing
<1>4. ASSUME NEW k \in 0..MlmeConfirmQueueCnt
      PROVE  MlmeConfirmQueue'[Slot(BufferStart, k)].Request \in Requests
  <2>1. Slot(BufferStart, k) \in Slots
    <3>1. k \in 0..QueueLen
      BY <1>1, QueueAssumption
    <3> QED BY <1>1, <3>1, SlotInRing
  <2>2. MlmeConfirmQueue'[Slot(BufferStart, k)].Request
          = Written(NewElement(r))[Slot(BufferStart, k)].Request
    BY <2>1 DEF Kept
  <2>3. CASE k = MlmeConfirmQueueCnt
    BY <1>2, <1>3, <2>2, <2>3
  <2>4. CASE k # MlmeConfirmQueueCnt
    <3>1. k \in 0..(MlmeConfirmQueueCnt - 1)
      BY <1>1, <2>4, QueueAssumption
    <3>2. MlmeConfirmQueue[Slot(BufferStart, k)].Request \in Requests
      BY <3>1 DEF RingOK, AllWaitingRequested, Waiting
    <3> QED BY <1>3, <2>2, <3>1, <3>2
  <2> QED BY <2>3, <2>4
<1>5. /\ BufferEnd' \in Slots
      /\ MlmeConfirmQueueCnt' \in 0..QueueLen
  BY <1>1, IncreaseInRing, QueueAssumption
<1>6. AllWaitingRequested'
  <2> SUFFICES ASSUME NEW k \in 0..(MlmeConfirmQueueCnt' - 1)
               PROVE  MlmeConfirmQueue'[Slot(BufferStart', k)].Request \in Requests
    BY DEF AllWaitingRequested, Waiting, Slot
  <2>1. k \in 0..MlmeConfirmQueueCnt
    BY <1>1, QueueAssumption
  <2> QED BY <1>4, <2>1
<1>7. BufferEnd' = Slot(BufferStart', MlmeConfirmQueueCnt')
  BY <1>3 DEF Slot
<1> QED BY <1>1, <1>5, <1>6, <1>7, Zenon DEF RingOK, Slot

(* A request that failed wrote a slot that is not in the queue.             *)
LEMMA FailedRequestKeepsRing ==
  ASSUME RingOK, NEW r \in Requests, MlmeConfirmQueueCnt < QueueLen,
         MlmeConfirmQueue' = Written(NewElement(r)),
         UNCHANGED <<BufferStart, BufferEnd, MlmeConfirmQueueCnt>>
  PROVE  RingOK'
<1>1. NewElement(r) \in Element
  BY NewElementType
<1>2. /\ MlmeConfirmQueue' \in [Slots -> Element]
      /\ \A k \in 0..(MlmeConfirmQueueCnt - 1) :
           MlmeConfirmQueue'[Slot(BufferStart, k)] = MlmeConfirmQueue[Slot(BufferStart, k)]
  BY <1>1, AppendKeepsRing
<1> QED BY <1>2 DEF RingOK, AllWaitingRequested, Waiting, Slot

(* The head is taken away, and written again at the end if it is not ready. *)
LEMMA HandledKeepsRing ==
  ASSUME RingOK, HandleOK, Handled
  PROVE  RingOK'
<1> DEFINE again == ~current.ReadyToHandle
<1>1. /\ BufferEnd \in Slots /\ BufferStart \in Slots
      /\ MlmeConfirmQueueCnt \in 1..QueueLen
      /\ loaded = MlmeConfirmQueueCnt
      /\ BufferEnd = Slot(BufferStart, MlmeConfirmQueueCnt)
      /\ current \in Element
      /\ current.Request = MlmeConfirmQueue[BufferStart].Request
  BY QueueAssumption DEF RingOK, HandleOK, LoopAgrees, Handled
<1>2. /\ BufferStart' = IncreaseBufferPointer(BufferStart)
      /\ MlmeConfirmQueue' = IF again THEN [MlmeConfirmQueue EXCEPT ![BufferEnd] = current]
                             ELSE MlmeConfirmQueue
      /\ BufferEnd' = IF again THEN IncreaseBufferPointer(BufferEnd) ELSE BufferEnd
      /\ MlmeConfirmQueueCnt' = IF again THEN MlmeConfirmQueueCnt ELSE MlmeConfirmQueueCnt - 1
  BY <1>1, QueueAssumption DEF Handled
<1> HIDE DEF again
<1>3. current.Request \in Requests
  <2>1. 0 \in 0..(MlmeConfirmQueueCnt - 1)
    BY <1>1, QueueAssumption
  <2>2. MlmeConfirmQueue[Slot(BufferStart, 0)].Request \in Requests
    BY <2>1 DEF RingOK, AllWaitingRequested, Waiting
  <2> QED BY <1>1, <2>2, SlotZero
<1>4. MlmeConfirmQueue' \in [Slots -> Element]
  BY <1>1, <1>2 DEF RingOK
<1>5. BufferEnd' = Slot(BufferStart', MlmeConfirmQueueCnt')
  <2>1. MlmeConfirmQueueCnt - 1 \in 0..(QueueLen - 1)
    BY <1>1, QueueAssumption
  <2>2. Slot(IncreaseBufferPointer(BufferStart), MlmeConfirmQueueCnt - 1) = BufferEnd
    <3>1. Slot(IncreaseBufferPointer(BufferStart), MlmeConfirmQueueCnt - 1)
            = Slot(BufferStart, (MlmeConfirmQueueCnt - 1) + 1)
      BY <1>1, <2>1, SlotIncrease
    <3>2. (MlmeConfirmQueueCnt - 1) + 1 = MlmeConfirmQueueCnt
      BY <1>1, QueueAssumption
    <3> QED BY <1>1, <3>1, <3>2
  <2>3. IncreaseBufferPointer(BufferEnd)
          = Slot(IncreaseBufferPointer(BufferStart), MlmeConfirmQueueCnt)
    <3>1. IncreaseBufferPointer(BufferStart) \in Slots
      BY <1>1, IncreaseInRing
    <3>2. IncreaseBufferPointer(Slot(IncreaseBufferPointer(BufferStart), MlmeConfirmQueueCnt - 1))
            = Slot(IncreaseBufferPointer(BufferStart), (MlmeConfirmQueueCnt - 1) + 1)
      BY <2>1, <3>1, SlotIncrease
    <3>3. (MlmeConfirmQueueCnt - 1) + 1 = MlmeConfirmQueueCnt
      BY <1>1, QueueAssumption
    <3> QED BY <2>2, <3>2, <3>3
  <2> QED BY <1>2, <2>2, <2>3 DEF Slot
<1>6. ASSUME NEW k \in 0..(MlmeConfirmQueueCnt' - 1)
      PROVE  MlmeConfirmQueue'[Slot(BufferStart', k)].Request \in Requests
  <2>1. k \in 0..(QueueLen - 1) /\ k \in 0..(MlmeConfirmQueueCnt - 1)
    BY <1>1, <1>2, QueueAssumption
  <2>2. Slot(BufferStart', k) = Slot(BufferStart, k + 1)
    <3>1. Slot(IncreaseBufferPointer(BufferStart), k) = Slot(BufferStart, k + 1)
      BY <1>1, <2>1, SlotIncrease
    <3> QED BY <1>2, <3>1 DEF Slot
  <2>3. CASE k = MlmeConfirmQueueCnt - 1
    <3>1. again
      BY <1>1, <1>2, <2>3, QueueAssumption
    <3>2. Slot(BufferStart, k + 1) = BufferEnd
      BY <1>1, <2>3, QueueAssumption
    <3>3. MlmeConfirmQueue'[BufferEnd] = current
      BY <1>1, <1>2, <3>1 DEF RingOK
    <3> QED BY <1>3, <2>2, <3>2, <3>3
  <2>4. CASE k # MlmeConfirmQueueCnt - 1
    <3>1. k + 1 \in 0..(MlmeConfirmQueueCnt - 1)
      BY <1>1, <2>1, <2>4, QueueAssumption
    <3>2. MlmeConfirmQueue[Slot(BufferStart, k + 1)].Request \in Requests
      BY <3>1 DEF RingOK, AllWaitingRequested, Waiting
    <3>3. Slot(BufferStart, k + 1) \in Slots
      <4>1. k + 1 \in 0..QueueLen
        BY <1>1, <3>1, QueueAssumption
      <4> QED BY <1>1, <4>1, SlotInRing
    <3>4. MlmeConfirmQueue'[Slot(BufferStart, k + 1)] \in
            {current, MlmeConfirmQueue[Slot(BufferStart, k + 1)]}
      BY <1>1, <1>2, <3>3 DEF RingOK
    <3> QED BY <1>3, <2>2, <3>2, <3>4
  <2> QED BY <2>3, <2>4
<1>7. AllWaitingRequested'
  BY <1>6, Zenon DEF AllWaitingRequested, Waiting, Slot
<1>8. BufferStart' \in Slots /\ BufferEnd' \in Slots
  BY <1>1, <1>2, IncreaseInRing
<1>9. MlmeConfirmQueueCnt' \in 0..QueueLen
  BY <1>1, <1>2, QueueAssumption
<1> QED BY <1>4, <1>5, <1>7, <1>8, <1>9, Zenon DEF RingOK, Slot

(* Writing at the end leaves the head alone.                                *)
LEMMA HeadNotWritten ==
  ASSUME RingOK, NEW e \in Element, MlmeConfirmQueueCnt < QueueLen, MlmeConfirmQueueCnt > 0
  PROVE  Written(e)[BufferStart] = MlmeConfirmQueue[BufferStart]
<1>1. 0 \in 0..(MlmeConfirmQueueCnt - 1) /\ BufferStart \in Slots
  BY QueueAssumption DEF RingOK
<1>2. Written(e)[Slot(BufferStart, 0)] = MlmeConfirmQueue[Slot(BufferStart, 0)]
  BY <1>1, AppendKeepsRing
<1> QED BY <1>1, <1>2, SlotZero

(* The loop over the queue goes on through a request made by a callback, or  *)
(* by an interrupt while no head is removed.                                *)
LEMMA RequestKeepsHandle ==
  ASSUME RingOK, HandleOK, ~Removing, MlmeConfirmQueueCnt < QueueLen,
         NEW r \in Requests,
         Kept(Written(NewElement(r)), MlmeConfirmQueue'),
         MlmeConfirmQueueCnt' \in {MlmeConfirmQueueCnt, MlmeConfirmQueueCnt + 1},
         UNCHANGED <<BufferStart, handleVars>>
  PROVE  HandleOK'
<1>1. UNCHANGED <<phase, todo, current, loaded>>
  BY DEF handleVars
<1>2. MlmeConfirmQueueCnt <= MlmeConfirmQueueCnt'
  BY QueueAssumption DEF RingOK
<1>3. CASE phase \in {"out", "due", "loop"}
  BY <1>1, <1>2, <1>3, QueueAssumption DEF HandleOK, LoopAgrees, RingOK
<1>4. CASE phase = "handling" /\ current.ReadyToHandle
  <2>1. /\ 0 < todo /\ todo <= MlmeConfirmQueueCnt
        /\ MlmeConfirmQueue[BufferStart].Request = current.Request
        /\ MlmeConfirmQueue[BufferStart].ReadyToHandle
    BY <1>4 DEF HandleOK, LoopAgrees
  <2>2. MlmeConfirmQueueCnt < QueueLen /\ MlmeConfirmQueueCnt > 0
    BY <2>1, QueueAssumption DEF RingOK, HandleOK
  <2>3. NewElement(r) \in Element
    BY NewElementType
  <2>4. Written(NewElement(r))[BufferStart] = MlmeConfirmQueue[BufferStart]
    BY <2>2, <2>3, HeadNotWritten
  <2>5. BufferStart \in Slots
    BY DEF RingOK
  <2>6. /\ MlmeConfirmQueue'[BufferStart].Request = current.Request
        /\ MlmeConfirmQueue'[BufferStart].ReadyToHandle
    BY <2>1, <2>4, <2>5 DEF Kept
  <2>7. todo <= MlmeConfirmQueueCnt'
    BY <1>2, <2>1, QueueAssumption DEF HandleOK, RingOK
  <2> QED BY <1>1, <1>4, <2>1, <2>6, <2>7 DEF HandleOK, LoopAgrees
<1> QED BY <1>3, <1>4 DEF HandleOK, Removing

(* A request is made while no head is removed, and into a free slot.         *)
LEMMA RequestsInBetween ==
  ASSUME ~IrqRemoves, RingOK, NEW r \in Requests, MayRequest(r)
  PROVE  ~Removing /\ MlmeConfirmQueueCnt < QueueLen
BY QueueAssumption DEF MayRequest, ByMainLoop, ByInterrupt, Removing, IsFull, RingOK

LEMMA IInvInit == Init => IInv
<1> SUFFICES ASSUME Init PROVE RingOK /\ HandleOK /\ MacOK /\ RequestsKeepFlag
  BY IInvParts
<1>1. NewElement(NoRequest) \in Element
  BY NewElementType
<1>2. 0 \in Slots /\ 0 \in 0..QueueLen /\ 0..(0 - 1) = {}
  BY QueueAssumption DEF Slots
<1>3. RingOK
  BY <1>1, <1>2, SlotZero DEF Init, RingOK, AllWaitingRequested
<1>4. HandleOK
  BY <1>1, <1>2 DEF Init, HandleOK, LoopAgrees
<1>5. MacOK
  BY DEF Init, MacOK
<1>6. RequestsKeepFlag
  BY DEF Init, RequestsKeepFlag
<1> QED BY <1>3, <1>4, <1>5, <1>6

LEMMA IInvNext ==
  ASSUME ~IrqRemoves, IInv, [Next]_vars
  PROVE  IInv'
<1>0. RingOK /\ HandleOK /\ MacOK /\ RequestsKeepFlag
  BY IInvParts
<1> SUFFICES RingOK' /\ HandleOK' /\ MacOK' /\ RequestsKeepFlag'
  BY IInvParts, PTL
<1> USE <1>0
<1>1. ASSUME NEW r \in Requests, RequestAccepted(r)
      PROVE  RingOK' /\ HandleOK' /\ MacOK' /\ RequestsKeepFlag'
  <2>1. /\ MlmeConfirmQueueCnt < QueueLen
        /\ NewElement(r) \in Element
    BY <1>1, NewElementType, QueueAssumption DEF RequestAccepted, MayRequest, IsFull, RingOK
  <2>2. /\ MlmeConfirmQueue' \in [Slots -> Element]
        /\ Kept(Written(NewElement(r)), MlmeConfirmQueue')
    <3>1. Written(NewElement(r)) \in [Slots -> Element]
      BY <2>1, AppendKeepsRing
    <3>2. MlmeConfirmQueue' =
            IF r = Join
            THEN SetStatusCmn(Written(NewElement(r)), IncreaseBufferPointer(BufferEnd),
                              MlmeConfirmQueueCnt + 1)
            ELSE Written(NewElement(r))
      BY <1>1, Zenon DEF RequestAccepted, Written
    <3>3. Kept(Written(NewElement(r)), Written(NewElement(r)))
      BY Zenon DEF Kept
    <3> QED BY <3>1, <3>2, <3>3, SetStatusCmnKeeps
  <2>3. /\ BufferEnd' = IncreaseBufferPointer(BufferEnd)
        /\ MlmeConfirmQueueCnt' = MlmeConfirmQueueCnt + 1
        /\ UNCHANGED BufferStart
    BY <1>1 DEF RequestAccepted
  <2>4. RingOK'
    BY <2>1, <2>2, <2>3, RequestKeepsRing
  <2>5. HandleOK'
    <3>1. ~Removing /\ UNCHANGED handleVars
      BY <1>1, RequestsInBetween DEF RequestAccepted
    <3> QED BY <2>1, <2>2, <2>3, <3>1, RequestKeepsHandle
  <2>6. MacOK' /\ RequestsKeepFlag'
    BY <1>1 DEF RequestAccepted, MacOK, RequestsKeepFlag
  <2> QED BY <2>4, <2>5, <2>6
<1>2. ASSUME NEW r \in Requests, RequestFailed(r)
      PROVE  RingOK' /\ HandleOK' /\ MacOK' /\ RequestsKeepFlag'
  <2>1. /\ MlmeConfirmQueueCnt < QueueLen
        /\ MayRequest(r)
        /\ MlmeConfirmQueue' = Written(NewElement(r))
        /\ UNCHANGED <<BufferStart, BufferEnd, MlmeConfirmQueueCnt, handleVars>>
    BY <1>2, QueueAssumption DEF RequestFailed, MayRequest, IsFull, RingOK, Written
  <2>2. Kept(Written(NewElement(r)), MlmeConfirmQueue')
    BY <2>1, Zenon DEF Kept
  <2>3. RingOK'
    BY <2>1, FailedRequestKeepsRing
  <2>4. HandleOK'
    <3>1. ~Removing
      BY <2>1, RequestsInBetween
    <3> QED BY <2>1, <2>2, <3>1, RequestKeepsHandle
  <2>5. MacOK'
    <3>1. (MlmeConfirmQueueCnt # 0) \in BOOLEAN /\ (activated /\ r # Join) \in BOOLEAN
      OBVIOUS
    <3> QED BY <1>2, <3>1, Zenon DEF RequestFailed, MacOK
  <2>6. RequestsKeepFlag'
    <3>1. MlmeConfirmQueueCnt' > 0 => MlmeConfirmQueueCnt # 0
      BY <2>1, QueueAssumption DEF RingOK
    <3> QED BY <1>2, <3>1, Zenon DEF RequestFailed, RequestsKeepFlag
  <2> QED BY <2>3, <2>4, <2>5, <2>6
<1>3. ASSUME AllFailed, ~Removing,
             UNCHANGED <<BufferStart, BufferEnd, MlmeConfirmQueueCnt, handleVars>>
      PROVE  RingOK' /\ HandleOK'
  <2>1. /\ MlmeConfirmQueue' \in [Slots -> Element]
        /\ Kept(MlmeConfirmQueue, MlmeConfirmQueue')
    BY <1>3, SetStatusCmnKeeps DEF AllFailed, RingOK
  <2>2. RingOK'
    BY <1>3, <2>1, StatusesKeepRing
  <2>3. HandleOK'
    <3>1. BufferStart \in Slots
      BY DEF RingOK
    <3>2. /\ MlmeConfirmQueue'[BufferStart].Request = MlmeConfirmQueue[BufferStart].Request
          /\ MlmeConfirmQueue[BufferStart].ReadyToHandle
               => MlmeConfirmQueue'[BufferStart].ReadyToHandle
      BY <2>1, <3>1 DEF Kept
    <3> QED BY <1>3, <3>2 DEF handleVars, HandleOK, LoopAgrees, Removing
  <2> QED BY <2>2, <2>3
<1>4. CASE SendUplink
  BY <1>3, <1>4 DEF SendUplink, ByInterrupt, MacOK, RequestsKeepFlag, handleVars
<1>5. CASE RadioFailed
  BY <1>3, <1>5 DEF RadioFailed, Removing, MacOK, RequestsKeepFlag, handleVars
<1>6. CASE Retransmit
  BY <1>3, <1>6 DEF Retransmit, Removing, MacOK, RequestsKeepFlag, handleVars
<1>7. ASSUME NEW r, NEW status \in {OK, Error}, phase = "out",
             MlmeConfirmQueue' = WithStatus(status, r),
             UNCHANGED <<BufferStart, BufferEnd, MlmeConfirmQueueCnt, handleVars>>
      PROVE  RingOK' /\ HandleOK'
  <2>1. /\ MlmeConfirmQueue' \in [Slots -> Element]
        /\ Kept(MlmeConfirmQueue, MlmeConfirmQueue')
    BY <1>7, WithStatusKeeps DEF RingOK
  <2>2. RingOK'
    BY <1>7, <2>1, StatusesKeepRing
  <2>3. HandleOK'
    BY <1>7 DEF handleVars, HandleOK, LoopAgrees
  <2> QED BY <2>2, <2>3
<1>8. CASE JoinAnswered
  <2>1. (IF activated' THEN OK ELSE Error) \in {OK, Error}
    OBVIOUS
  <2>2. RingOK' /\ HandleOK'
    BY <1>7, <1>8, <2>1 DEF JoinAnswered
  <2>3. MacOK' /\ RequestsKeepFlag'
    BY <1>8 DEF JoinAnswered, MacOK, RequestsKeepFlag, handleVars
  <2> QED BY <2>2, <2>3
<1>9. ASSUME NEW r \in Requests, NEW status \in {OK, Error}, Answer(r, status)
      PROVE  RingOK' /\ HandleOK' /\ MacOK' /\ RequestsKeepFlag'
  <2>1. RingOK' /\ HandleOK'
    BY <1>7, <1>9 DEF Answer
  <2>2. MacOK' /\ RequestsKeepFlag'
    BY <1>9 DEF Answer, MacOK, RequestsKeepFlag, handleVars, macVars
  <2> QED BY <2>1, <2>2
<1>10. ASSUME UNCHANGED ringVars
       PROVE  RingOK'
  BY <1>10 DEF ringVars, RingOK, AllWaitingRequested, Waiting, Slot
<1>11. CASE RxDone
  <2>1. HandleOK'
    BY <1>11 DEF RxDone, ringVars, handleVars, HandleOK, LoopAgrees
  <2> QED BY <1>10, <1>11, <2>1 DEF RxDone, ringVars, handleVars, MacOK, RequestsKeepFlag
<1>12. CASE Process
  <2>1. HandleOK'
    BY <1>12 DEF Process, ringVars, HandleOK, LoopAgrees
  <2> QED BY <1>10, <1>12, <2>1 DEF Process, ringVars, MacOK, RequestsKeepFlag
<1>13. CASE HandleCb
  <2>1. HandleOK'
    BY <1>13, QueueAssumption DEF HandleCb, ringVars, HandleOK, LoopAgrees, RingOK
  <2> QED BY <1>10, <1>13, <2>1 DEF HandleCb, ringVars, MacOK, RequestsKeepFlag
<1>14. CASE HandleFirst
  <2>1. HandleOK'
    BY <1>14, QueueAssumption DEF HandleFirst, ringVars, HandleOK, LoopAgrees, RingOK
  <2> QED BY <1>10, <1>14, <2>1 DEF HandleFirst, ringVars, macVars, MacOK, RequestsKeepFlag
<1>15. CASE RemoveFirst
  <2>1. HandleOK'
    BY <1>15, QueueAssumption DEF RemoveFirst, ringVars, HandleOK, LoopAgrees, RingOK
  <2> QED BY <1>10, <1>15, <2>1 DEF RemoveFirst, ringVars, macVars, MacOK, RequestsKeepFlag
<1>16. CASE Handled
  <2>1. RingOK'
    BY <1>16, HandledKeepsRing
  <2>2. HandleOK'
    <3>1. NewElement(NoRequest) \in Element
      BY NewElementType
    <3>2. /\ todo \in 1..QueueLen /\ todo <= MlmeConfirmQueueCnt
          /\ loaded = MlmeConfirmQueueCnt /\ MlmeConfirmQueueCnt \in 0..QueueLen
      BY <1>16, QueueAssumption DEF Handled, HandleOK, LoopAgrees, RingOK
    <3>3. /\ todo' = todo - 1 /\ phase' = "loop"
          /\ current' = NewElement(NoRequest) /\ loaded' = 0
          /\ MlmeConfirmQueueCnt' \in {MlmeConfirmQueueCnt - 1, MlmeConfirmQueueCnt}
      BY <1>16, <3>2, QueueAssumption DEF Handled
    <3>4. todo' \in 0..QueueLen /\ 0 \in 0..QueueLen /\ todo' <= MlmeConfirmQueueCnt'
      BY <3>2, <3>3, QueueAssumption
    <3> QED BY <3>1, <3>3, <3>4 DEF HandleOK, LoopAgrees
  <2>3. MacOK' /\ RequestsKeepFlag'
    BY <1>16 DEF Handled, macVars, MacOK, RequestsKeepFlag
  <2> QED BY <2>1, <2>2, <2>3
<1>17. CASE HandleDone
  <2>1. HandleOK'
    BY <1>17 DEF HandleDone, ringVars, HandleOK, LoopAgrees
  <2> QED BY <1>10, <1>17, <2>1 DEF HandleDone, ringVars, MacOK, RequestsKeepFlag
<1>18. CASE UNCHANGED vars
  <2>1. HandleOK'
    BY <1>18 DEF vars, ringVars, handleVars, HandleOK, LoopAgrees
  <2> QED BY <1>10, <1>18, <2>1
          DEF vars, ringVars, handleVars, macVars, MacOK, RequestsKeepFlag
<1> QED
  BY <1>1, <1>2, <1>4, <1>5, <1>6, <1>8, <1>9, <1>11, <1>12, <1>13, <1>14, <1>15, <1>16,
     <1>17, <1>18
  DEF Next, Radio, Handler

(* While no interrupt makes a request where the head is removed, the ring,  *)
(* its counter, the loop over it and the flags stay consistent, whatever     *)
(* callbacks and interrupts request.                                        *)
THEOREM Invariance ==
  ASSUME ~IrqRemoves
  PROVE  Spec => []IInv
<1>1. Init => IInv
  BY IInvInit
<1>2. IInv /\ [Next]_vars => IInv'
  BY IInvNext
<1> QED BY <1>1, <1>2, PTL DEF Spec

(* A callback of the queue that makes requests never loses the element it   *)
(* was called for, though interrupts make requests too: but for those that   *)
(* come while it is removed, LoRaMacConfirmQueueRemoveFirst takes it away.   *)
THEOREM CallbackHoldsHead ==
  ASSUME ~IrqRemoves
  PROVE  Spec => []HandledIsHead
<1>1. IInv => HandledIsHead
  <2> SUFFICES ASSUME IInv PROVE HandledIsHead
    OBVIOUS
  <2>0. RingOK /\ HandleOK
    BY IInvParts
  <2>1. phase = "loop" => todo <= MlmeConfirmQueueCnt
    BY <2>0 DEF HandleOK, LoopAgrees
  <2>2. ASSUME phase \in {"handling", "removing"}
        PROVE  /\ MlmeConfirmQueueCnt > 0
               /\ Waiting(0).Request = current.Request
               /\ current.Request \in Requests
    <3>1. /\ 0 < todo /\ todo <= MlmeConfirmQueueCnt
          /\ MlmeConfirmQueue[BufferStart].Request = current.Request
      BY <2>0, <2>2 DEF HandleOK, LoopAgrees
    <3>2. MlmeConfirmQueueCnt > 0 /\ 0 \in 0..(MlmeConfirmQueueCnt - 1)
      BY <2>0, <3>1, QueueAssumption DEF HandleOK, RingOK
    <3>3. Waiting(0) = MlmeConfirmQueue[BufferStart]
      BY <2>0, SlotZero DEF RingOK, Waiting
    <3>4. Waiting(0).Request \in Requests
      BY <2>0, <3>2 DEF RingOK, AllWaitingRequested
    <3> QED BY <3>1, <3>2, <3>3, <3>4
  <2> QED BY <2>1, <2>2 DEF HandledIsHead
<1> QED BY <1>1, Invariance, PTL

(* What an interrupt's request cannot break wherever it comes: the loop      *)
(* removes no more elements than it counted.                                *)
TypeInv ==
  /\ TypeOK
  /\ phase \in {"handling", "removing"} => todo > 0
  /\ RequestsKeepFlag

LEMMA TypeInvInit == Init => TypeInv
<1>1. Init => IInv
  BY IInvInit
<1>2. Init => phase = "out"
  BY DEF Init
<1> QED BY <1>1, <1>2 DEF IInv, TypeInv

LEMMA TypeInvNext ==
  ASSUME TypeInv, [Next]_vars
  PROVE  TypeInv'
<1> USE DEF TypeInv, TypeOK, RequestsKeepFlag
<1>1. ASSUME NEW r \in Requests, RequestAccepted(r)
      PROVE  TypeInv'
  <2>1. /\ MlmeConfirmQueueCnt + 1 \in 0..QueueLen
        /\ NewElement(r) \in Element
    BY <1>1, NewElementType, QueueAssumption DEF RequestAccepted, MayRequest, IsFull
  <2>2. Written(NewElement(r)) \in [Slots -> Element]
    BY <2>1 DEF Written
  <2>3. MlmeConfirmQueue' \in [Slots -> Element]
    <3>1. MlmeConfirmQueue' =
            IF r = Join
            THEN SetStatusCmn(Written(NewElement(r)), IncreaseBufferPointer(BufferEnd),
                              MlmeConfirmQueueCnt + 1)
            ELSE Written(NewElement(r))
      BY <1>1, Zenon DEF RequestAccepted, Written
    <3> QED BY <2>2, <3>1, SetStatusCmnKeeps
  <2>4. IncreaseBufferPointer(BufferEnd) \in Slots
    BY IncreaseInRing
  <2> QED BY <1>1, <2>1, <2>3, <2>4 DEF RequestAccepted, handleVars
<1>2. ASSUME NEW r \in Requests, RequestFailed(r)
      PROVE  TypeInv'
  <2>1. NewElement(r) \in Element
    BY NewElementType
  <2>2. MlmeConfirmQueue' \in [Slots -> Element]
    BY <1>2, <2>1 DEF RequestFailed
  <2>3. MlmeReq' \in BOOLEAN /\ (MlmeConfirmQueueCnt > 0 => MlmeReq')
    <3>1. MlmeConfirmQueueCnt > 0 => MlmeConfirmQueueCnt # 0
      BY QueueAssumption
    <3>2. (MlmeConfirmQueueCnt # 0) \in BOOLEAN
      OBVIOUS
    <3> QED BY <1>2, <3>1, <3>2, Zenon DEF RequestFailed
  <2> QED BY <1>2, <2>2, <2>3 DEF RequestFailed, handleVars
<1>3. ASSUME AllFailed PROVE MlmeConfirmQueue' \in [Slots -> Element]
  BY <1>3, SetStatusCmnKeeps DEF AllFailed
<1>4. CASE SendUplink \/ RadioFailed \/ Retransmit
  BY <1>3, <1>4 DEF SendUplink, RadioFailed, Retransmit, handleVars
<1>5. CASE JoinAnswered
  <2>1. (IF activated' THEN OK ELSE Error) \in {OK, Error}
    OBVIOUS
  <2>2. MlmeConfirmQueue' \in [Slots -> Element]
    BY <1>5, <2>1, WithStatusKeeps DEF JoinAnswered
  <2> QED BY <1>5, <2>2 DEF JoinAnswered, handleVars
<1>6. ASSUME NEW r \in Requests, NEW status \in {OK, Error}, Answer(r, status)
      PROVE  TypeInv'
  <2>1. MlmeConfirmQueue' \in [Slots -> Element]
    BY <1>6, WithStatusKeeps DEF Answer
  <2> QED BY <1>6, <2>1 DEF Answer, handleVars, macVars
<1>7. CASE RxDone \/ Process \/ HandleCb \/ RemoveFirst \/ HandleDone \/ UNCHANGED vars
  BY <1>7, QueueAssumption
  DEF RxDone, Process, HandleCb, RemoveFirst, HandleDone, vars, ringVars, handleVars, macVars
<1>8. CASE HandleFirst
  BY <1>8, QueueAssumption DEF HandleFirst, ringVars, macVars
<1>9. CASE Handled
  <2>1. NewElement(NoRequest) \in Element
    BY NewElementType
  <2>2. /\ IncreaseBufferPointer(BufferStart) \in Slots
        /\ IncreaseBufferPointer(BufferEnd) \in Slots
    BY IncreaseInRing
  <2>3. /\ MlmeConfirmQueue' \in [Slots -> Element]
        /\ BufferStart' \in Slots
        /\ BufferEnd' \in Slots
    BY <1>9, <2>2 DEF Handled
  <2>4. MlmeConfirmQueueCnt' \in 0..QueueLen
    BY <1>9, QueueAssumption DEF Handled
  <2>5. todo' \in 0..QueueLen /\ 0 \in 0..QueueLen
    BY <1>9, QueueAssumption DEF Handled
  <2> QED BY <1>9, <2>1, <2>3, <2>4, <2>5 DEF Handled, macVars
<1> QED
  BY <1>1, <1>2, <1>4, <1>5, <1>6, <1>7, <1>8, <1>9 DEF Next, Radio, Handler

LEMMA TypeInvariance == Spec => []TypeInv
<1>1. Init => TypeInv
  BY TypeInvInit
<1>2. TypeInv /\ [Next]_vars => TypeInv'
  BY TypeInvNext
<1> QED BY <1>1, <1>2, PTL DEF Spec

(* The pointers of the queue stay in the ring and its counter at most its    *)
(* length, also where increments of an interrupt are lost.                  *)
THEOREM TypeCorrect == Spec => []TypeOK
<1>1. TypeInv => TypeOK
  BY DEF TypeInv
<1> QED BY <1>1, TypeInvariance, PTL

(* LoRaMacProcess never forgets the queue while its counter says that a      *)
(* request waits in it, wherever interrupts make requests.                  *)
THEOREM FlagIsKept == Spec => []RequestsKeepFlag
<1>1. TypeInv => RequestsKeepFlag
  BY DEF TypeInv
<1> QED BY <1>1, TypeInvariance, PTL

-------------------------------------------------------------------------------
(* The ring buffer is a queue                                               *)

(* What the k-th element of the abstract queue is.                          *)
EntryAt(ring, start, k) ==
  [Request |-> ring[Slot(start, k - 1)].Request,
   Ready |-> ring[Slot(start, k - 1)].ReadyToHandle]

QueuedIsRing ==
  /\ Queued \in Seq(Fifo!Entry)
  /\ Len(Queued) = MlmeConfirmQueueCnt
  /\ \A k \in 1..MlmeConfirmQueueCnt :
       Queued[k] = EntryAt(MlmeConfirmQueue, BufferStart, k)

LEMMA QueuedIsSequence == RingOK => QueuedIsRing
<1> SUFFICES ASSUME RingOK PROVE QueuedIsRing
  OBVIOUS
<1>1. MlmeConfirmQueueCnt \in Nat /\ MlmeConfirmQueueCnt <= QueueLen
  BY QueueAssumption DEF RingOK
<1>2. \A k \in 1..MlmeConfirmQueueCnt :
        Queued[k] = EntryAt(MlmeConfirmQueue, BufferStart, k)
  BY DEF Queued, Waiting, EntryAt
<1>3. ASSUME NEW k \in 1..MlmeConfirmQueueCnt
      PROVE  EntryAt(MlmeConfirmQueue, BufferStart, k) \in Fifo!Entry
  <2>1. k - 1 \in 0..QueueLen /\ k - 1 \in 0..(MlmeConfirmQueueCnt - 1)
    BY <1>1, QueueAssumption
  <2>2. Slot(BufferStart, k - 1) \in Slots
    BY <2>1, SlotInRing DEF RingOK
  <2>3. MlmeConfirmQueue[Slot(BufferStart, k - 1)] \in Element
    BY <2>2 DEF RingOK
  <2>4. MlmeConfirmQueue[Slot(BufferStart, k - 1)].ReadyToHandle \in BOOLEAN
    BY <2>3 DEF Element
  <2>5. MlmeConfirmQueue[Slot(BufferStart, k - 1)].Request \in Requests
    BY <2>1 DEF RingOK, AllWaitingRequested, Waiting
  <2> QED BY <2>4, <2>5 DEF EntryAt, Fifo!Entry
<1>4. Queued \in [1..MlmeConfirmQueueCnt -> Fifo!Entry]
  <2>1. Queued = [k \in 1..MlmeConfirmQueueCnt |-> EntryAt(MlmeConfirmQueue, BufferStart, k)]
    BY DEF Queued, Waiting, EntryAt
  <2> QED BY <1>3, <2>1
<1>5. Queued \in Seq(Fifo!Entry)
  BY <1>1, <1>4, SeqDef
<1>6. Len(Queued) = MlmeConfirmQueueCnt
  BY <1>1, <1>4, <1>5, LenProperties
<1> QED BY <1>2, <1>5, <1>6 DEF QueuedIsRing

(* New statuses, and requests that failed, leave the queue as it is but for *)
(* elements that become ready.                                              *)
LEMMA StatusesAreAnswers ==
  ASSUME RingOK, RingOK', UNCHANGED <<BufferStart, MlmeConfirmQueueCnt>>,
         Kept(MlmeConfirmQueue, MlmeConfirmQueue')
  PROVE  Fifo!Answer
<1>0. QueuedIsRing /\ QueuedIsRing'
  BY QueuedIsSequence, PTL
<1>1. Len(Queued') = Len(Queued) /\ Len(Queued) = MlmeConfirmQueueCnt
  BY <1>0 DEF QueuedIsRing
<1>2. ASSUME NEW k \in 1..MlmeConfirmQueueCnt
      PROVE  /\ Queued'[k].Request = Queued[k].Request
             /\ Queued[k].Ready => Queued'[k].Ready
  <2>1. Slot(BufferStart, k - 1) \in Slots
    <3>1. k - 1 \in 0..QueueLen
      BY QueueAssumption DEF RingOK
    <3> QED BY <3>1, SlotInRing DEF RingOK
  <2>2. /\ Queued[k] = EntryAt(MlmeConfirmQueue, BufferStart, k)
        /\ Queued'[k] = EntryAt(MlmeConfirmQueue', BufferStart, k)
    BY <1>0, Zenon DEF QueuedIsRing, EntryAt, Slot
  <2> QED BY <2>1, <2>2 DEF EntryAt, Kept
<1> QED BY <1>1, <1>2 DEF Fifo!Answer, Fifo!Marked

(* The queue depends on nothing but the ring.                               *)
LEMMA SameRingSameQueue ==
  ASSUME UNCHANGED ringVars
  PROVE  UNCHANGED Queued
BY DEF ringVars, Queued, Waiting, Slot

(* An accepted request is appended.                                         *)
LEMMA AcceptedIsRequest ==
  ASSUME RingOK, RingOK', NEW r \in Requests, MlmeConfirmQueueCnt < QueueLen,
         Kept(Written(NewElement(r)), MlmeConfirmQueue'),
         MlmeConfirmQueueCnt' = MlmeConfirmQueueCnt + 1,
         UNCHANGED BufferStart
  PROVE  Fifo!Request
<1> DEFINE e == [Request |-> r, Ready |-> FALSE]
           extended == Append(Queued, e)
<1>0. /\ QueuedIsRing /\ QueuedIsRing'
      /\ MlmeConfirmQueueCnt \in 0..(QueueLen - 1)
      /\ BufferStart \in Slots
  <2>1. QueuedIsRing /\ QueuedIsRing'
    BY QueuedIsSequence, PTL
  <2>2. MlmeConfirmQueueCnt \in 0..(QueueLen - 1) /\ BufferStart \in Slots
    BY QueueAssumption DEF RingOK
  <2> QED BY <2>1, <2>2
<1>1. e \in Fifo!Entry
  BY DEF Fifo!Entry
<1> HIDE DEF e
<1>2. /\ extended \in Seq(Fifo!Entry)
      /\ Len(extended) = MlmeConfirmQueueCnt + 1
      /\ \A k \in 1..MlmeConfirmQueueCnt :
           extended[k] = EntryAt(MlmeConfirmQueue, BufferStart, k)
      /\ extended[MlmeConfirmQueueCnt + 1] = e
  BY <1>0, <1>1, AppendProperties DEF QueuedIsRing
<1> HIDE DEF extended
<1>3. ASSUME NEW k \in 1..(MlmeConfirmQueueCnt + 1)
      PROVE  /\ Queued'[k].Request = extended[k].Request
             /\ extended[k].Ready => Queued'[k].Ready
  <2>1. k - 1 \in 0..QueueLen /\ k - 1 \in 0..MlmeConfirmQueueCnt
    BY <1>0, QueueAssumption
  <2>2. Slot(BufferStart, k - 1) \in Slots
    BY <1>0, <2>1, SlotInRing
  <2>3. Queued'[k] = EntryAt(MlmeConfirmQueue', BufferStart, k)
    BY <1>0, Zenon DEF QueuedIsRing, EntryAt, Slot
  <2>4. /\ Queued'[k].Request = Written(NewElement(r))[Slot(BufferStart, k - 1)].Request
        /\ Written(NewElement(r))[Slot(BufferStart, k - 1)].ReadyToHandle
             => Queued'[k].Ready
    BY <2>2, <2>3 DEF EntryAt, Kept
  <2>5. NewElement(r) \in Element
    BY NewElementType
  <2>6. CASE k = MlmeConfirmQueueCnt + 1
    <3>1. k - 1 = MlmeConfirmQueueCnt
      BY <1>0, <2>6, QueueAssumption
    <3>2. Written(NewElement(r))[Slot(BufferStart, k - 1)] = NewElement(r)
      BY <2>5, <3>1, AppendKeepsRing
    <3>3. NewElement(r).Request = r /\ e.Request = r /\ ~e.Ready
      BY DEF NewElement, e
    <3>4. extended[k] = e
      BY <1>2, <2>6
    <3>5. Queued'[k].Request = extended[k].Request
      BY <2>4, <3>2, <3>3, <3>4
    <3>6. ~extended[k].Ready
      BY <3>3, <3>4, Zenon
    <3> QED BY <3>5, <3>6, Zenon
  <2>7. CASE k # MlmeConfirmQueueCnt + 1
    <3>1. k \in 1..MlmeConfirmQueueCnt /\ k - 1 \in 0..(MlmeConfirmQueueCnt - 1)
      BY <1>0, <2>7, QueueAssumption
    <3>2. Written(NewElement(r))[Slot(BufferStart, k - 1)]
            = MlmeConfirmQueue[Slot(BufferStart, k - 1)]
      BY <2>5, <3>1, AppendKeepsRing
    <3>3. extended[k] = EntryAt(MlmeConfirmQueue, BufferStart, k)
      BY <1>2, <3>1
    <3>4. /\ extended[k].Request = MlmeConfirmQueue[Slot(BufferStart, k - 1)].Request
          /\ extended[k].Ready = MlmeConfirmQueue[Slot(BufferStart, k - 1)].ReadyToHandle
      BY <3>3 DEF EntryAt
    <3> QED BY <2>4, <3>2, <3>4, Zenon
  <2> QED BY <2>6, <2>7
<1>4. Len(Queued) < QueueLen /\ Len(Queued') = Len(extended)
  BY <1>0, <1>2 DEF QueuedIsRing
<1>5. Fifo!Marked(extended, Queued')
  BY <1>2, <1>3, <1>4 DEF Fifo!Marked
<1> QED BY <1>4, <1>5 DEF Fifo!Request, extended, e

(* An element that was ready is taken off the head, and one that was not    *)
(* moves from the head to the end.                                          *)
LEMMA HandledIsConfirmOrRotate ==
  ASSUME RingOK, RingOK', HandleOK, Handled
  PROVE  Fifo!Confirm \/ Fifo!Rotate
<1>0. /\ QueuedIsRing /\ QueuedIsRing'
  BY QueuedIsSequence, PTL
<1>1. /\ BufferStart \in Slots
      /\ BufferEnd \in Slots
      /\ MlmeConfirmQueue \in [Slots -> Element]
      /\ MlmeConfirmQueueCnt \in 1..QueueLen
      /\ loaded = MlmeConfirmQueueCnt
      /\ BufferEnd = Slot(BufferStart, MlmeConfirmQueueCnt)
      /\ IF current.ReadyToHandle THEN MlmeConfirmQueue[BufferStart].ReadyToHandle
         ELSE MlmeConfirmQueue[BufferStart] = current
  BY QueueAssumption DEF RingOK, HandleOK, LoopAgrees, Handled
<1>2. /\ Queued \in Seq(Fifo!Entry) /\ Queued # <<>>
      /\ Len(Queued) = MlmeConfirmQueueCnt
      /\ Head(Queued) = EntryAt(MlmeConfirmQueue, BufferStart, 1)
  <2>1. 1 \in 1..MlmeConfirmQueueCnt
    BY <1>1, QueueAssumption
  <2>2. /\ Queued \in Seq(Fifo!Entry)
        /\ Len(Queued) = MlmeConfirmQueueCnt
        /\ Queued[1] = EntryAt(MlmeConfirmQueue, BufferStart, 1)
    BY <1>0, <2>1 DEF QueuedIsRing
  <2>3. Queued # <<>>
    BY <1>1, <2>2, EmptySeq, QueueAssumption
  <2> QED BY <2>2, <2>3
<1>3. /\ Tail(Queued) \in Seq(Fifo!Entry)
      /\ Len(Tail(Queued)) = MlmeConfirmQueueCnt - 1
      /\ \A k \in 1..(MlmeConfirmQueueCnt - 1) :
           Tail(Queued)[k] = EntryAt(MlmeConfirmQueue, BufferStart, k + 1)
  <2>1. /\ Tail(Queued) \in Seq(Fifo!Entry)
        /\ Len(Tail(Queued)) = Len(Queued) - 1
        /\ \A k \in 1..Len(Tail(Queued)) : Tail(Queued)[k] = Queued[k + 1]
    BY <1>2, HeadTailProperties
  <2>2. \A k \in 1..(MlmeConfirmQueueCnt - 1) : k + 1 \in 1..MlmeConfirmQueueCnt
    BY <1>1, QueueAssumption
  <2> QED BY <1>0, <1>2, <2>1, <2>2 DEF QueuedIsRing
<1>4. Head(Queued).Ready = MlmeConfirmQueue[BufferStart].ReadyToHandle
  <2>1. Slot(BufferStart, 1 - 1) = BufferStart
    BY <1>1, SlotZero
  <2> QED BY <1>2, <2>1 DEF EntryAt
<1>5. BufferStart' = IncreaseBufferPointer(BufferStart)
  BY <1>1, QueueAssumption DEF Handled
(* The walk from the new start.                                             *)
<1>6. ASSUME NEW k \in 1..QueueLen
      PROVE  /\ Slot(BufferStart', k - 1) = Slot(BufferStart, (k + 1) - 1)
             /\ Slot(BufferStart', k - 1) \in Slots
  <2>1. /\ k - 1 \in 0..(QueueLen - 1) /\ k \in 0..QueueLen
        /\ (k - 1) + 1 = k /\ (k + 1) - 1 = k
    BY QueueAssumption
  <2>2. Slot(BufferStart', k - 1) = Slot(BufferStart, (k - 1) + 1)
    BY <1>1, <1>5, <2>1, SlotIncrease
  <2>3. Slot(BufferStart, k) \in Slots
    BY <1>1, <2>1, SlotInRing
  <2> QED BY <2>1, <2>2, <2>3
<1>7. CASE current.ReadyToHandle
  <2>1. MlmeConfirmQueue' = MlmeConfirmQueue /\ MlmeConfirmQueueCnt' = MlmeConfirmQueueCnt - 1
    BY <1>1, <1>7, QueueAssumption DEF Handled
  <2>2. Queued' \in Seq(Fifo!Entry) /\ Len(Queued') = MlmeConfirmQueueCnt - 1
    BY <1>0, <2>1 DEF QueuedIsRing, Fifo!Entry
  <2>3. ASSUME NEW k \in 1..(MlmeConfirmQueueCnt - 1)
        PROVE  Queued'[k] = Tail(Queued)[k]
    <3>1. k \in 1..QueueLen
      BY <1>1, QueueAssumption
    <3>2. Queued'[k] = EntryAt(MlmeConfirmQueue', BufferStart', k)
      BY <1>0, <2>1, Zenon DEF QueuedIsRing, EntryAt, Slot
    <3>3. EntryAt(MlmeConfirmQueue', BufferStart', k)
            = EntryAt(MlmeConfirmQueue, BufferStart, k + 1)
      BY <1>6, <2>1, <3>1, Zenon DEF EntryAt
    <3> QED BY <1>3, <3>2, <3>3
  <2>4. Queued' = Tail(Queued)
    BY <1>3, <2>2, <2>3, SeqEqual
  <2>5. Head(Queued).Ready
    BY <1>1, <1>4, <1>7, Zenon
  <2> QED BY <1>2, <2>4, <2>5 DEF Fifo!Confirm
<1>8. CASE ~current.ReadyToHandle
  <2> DEFINE rotated == Append(Tail(Queued), Head(Queued))
  <2>1. MlmeConfirmQueue' = Written(current) /\ MlmeConfirmQueueCnt' = MlmeConfirmQueueCnt
    BY <1>1, <1>8, QueueAssumption DEF Handled, Written
  <2>2. Queued' \in Seq(Fifo!Entry) /\ Len(Queued') = MlmeConfirmQueueCnt
    BY <1>0, <2>1 DEF QueuedIsRing, Fifo!Entry
  <2>3. Head(Queued) \in Fifo!Entry
    BY <1>2, HeadTailProperties
  <2>4. /\ rotated \in Seq(Fifo!Entry)
        /\ Len(rotated) = MlmeConfirmQueueCnt
        /\ \A k \in 1..(MlmeConfirmQueueCnt - 1) :
             rotated[k] = EntryAt(MlmeConfirmQueue, BufferStart, k + 1)
        /\ rotated[MlmeConfirmQueueCnt] = Head(Queued)
    <3>1. /\ rotated \in Seq(Fifo!Entry)
          /\ Len(rotated) = Len(Tail(Queued)) + 1
          /\ \A k \in 1..Len(Tail(Queued)) : rotated[k] = Tail(Queued)[k]
          /\ rotated[Len(Tail(Queued)) + 1] = Head(Queued)
      BY <1>3, <2>3, AppendProperties
    <3>2. (MlmeConfirmQueueCnt - 1) + 1 = MlmeConfirmQueueCnt
      BY <1>1, QueueAssumption
    <3> HIDE DEF rotated
    <3> QED BY <1>3, <3>1, <3>2
  <2> HIDE DEF rotated
  <2>5. ASSUME NEW k \in 1..MlmeConfirmQueueCnt
        PROVE  Queued'[k] = rotated[k]
    <3>1. k \in 1..QueueLen
      BY <1>1, QueueAssumption
    <3>2. Queued'[k] = EntryAt(MlmeConfirmQueue', BufferStart', k)
      BY <1>0, <2>1, Zenon DEF QueuedIsRing, EntryAt, Slot
    <3>3. EntryAt(MlmeConfirmQueue', BufferStart', k)
            = EntryAt(Written(current), BufferStart, k + 1)
      BY <1>6, <2>1, <3>1, Zenon DEF EntryAt
    <3>4. CASE k = MlmeConfirmQueueCnt
      <4>1. Slot(BufferStart, (k + 1) - 1) = BufferEnd
        BY <1>1, <3>4, QueueAssumption
      <4>2. Written(current)[BufferEnd] = MlmeConfirmQueue[BufferStart]
        BY <1>1, <1>8 DEF Written
      <4>3. Slot(BufferStart, 1 - 1) = BufferStart
        BY <1>1, SlotZero
      <4>4. EntryAt(Written(current), BufferStart, k + 1)
              = EntryAt(MlmeConfirmQueue, BufferStart, 1)
        BY <4>1, <4>2, <4>3, Zenon DEF EntryAt
      <4> QED BY <1>2, <2>4, <3>2, <3>3, <3>4, <4>4
    <3>5. CASE k # MlmeConfirmQueueCnt
      <4>1. /\ k \in 1..(MlmeConfirmQueueCnt - 1)
            /\ k \in 0..(QueueLen - 1) /\ (k + 1) - 1 = k
        BY <1>1, <3>5, QueueAssumption
      <4>2. Slot(BufferStart, k) # BufferEnd
        <5>1. CASE MlmeConfirmQueueCnt = QueueLen
          <6>1. BufferEnd = Slot(BufferStart, 0) /\ 0 \in 0..(QueueLen - 1) /\ k # 0
            BY <1>1, <4>1, <5>1, SlotZero, SlotAround, QueueAssumption
          <6> QED BY <1>1, <4>1, <6>1, SlotsDiffer
        <5>2. CASE MlmeConfirmQueueCnt # QueueLen
          <6>1. MlmeConfirmQueueCnt \in 0..(QueueLen - 1)
            BY <1>1, <5>2, QueueAssumption
          <6> QED BY <1>1, <3>5, <4>1, <6>1, SlotsDiffer
        <5> QED BY <5>1, <5>2
      <4>3. Written(current)[Slot(BufferStart, k)] = MlmeConfirmQueue[Slot(BufferStart, k)]
        <5>1. Slot(BufferStart, k) \in Slots
          BY <1>6, <3>1, <4>1
        <5> QED BY <1>1, <4>2, <5>1 DEF Written
      <4>4. EntryAt(Written(current), BufferStart, k + 1)
              = EntryAt(MlmeConfirmQueue, BufferStart, k + 1)
        BY <4>1, <4>3, Zenon DEF EntryAt
      <4> QED BY <2>4, <3>2, <3>3, <4>1, <4>4
    <3> QED BY <3>4, <3>5
  <2>6. Queued' = rotated
    BY <2>2, <2>4, <2>5, SeqEqual
  <2>7. ~Head(Queued).Ready
    BY <1>1, <1>4, <1>8, Zenon
  <2> QED BY <1>2, <2>6, <2>7 DEF Fifo!Rotate, rotated
<1> QED BY <1>7, <1>8

LEMMA FifoInit == Init => Fifo!Init
<1> SUFFICES ASSUME Init PROVE Queued = <<>>
  BY DEF Fifo!Init
<1>1. MlmeConfirmQueueCnt = 0 /\ QueuedIsRing
  BY IInvInit, IInvParts, QueuedIsSequence DEF Init
<1> QED BY <1>1, EmptySeq, SeqEqual DEF QueuedIsRing

LEMMA FifoNext ==
  ASSUME IInv, IInv', [Next]_vars
  PROVE  [Fifo!Next]_Queued
<1>0. RingOK /\ RingOK' /\ HandleOK
  BY IInvParts, PTL
<1> USE <1>0
<1>1. ASSUME NEW r \in Requests, RequestAccepted(r)
      PROVE  Fifo!Request
  <2>1. /\ MlmeConfirmQueueCnt < QueueLen
        /\ NewElement(r) \in Element
        /\ MlmeConfirmQueueCnt' = MlmeConfirmQueueCnt + 1
        /\ UNCHANGED BufferStart
    BY <1>1, NewElementType, QueueAssumption DEF RequestAccepted, MayRequest, IsFull, RingOK
  <2>2. Kept(Written(NewElement(r)), MlmeConfirmQueue')
    <3>1. Written(NewElement(r)) \in [Slots -> Element]
      BY <2>1, AppendKeepsRing
    <3>2. MlmeConfirmQueue' =
            IF r = Join
            THEN SetStatusCmn(Written(NewElement(r)), IncreaseBufferPointer(BufferEnd),
                              MlmeConfirmQueueCnt + 1)
            ELSE Written(NewElement(r))
      BY <1>1, Zenon DEF RequestAccepted, Written
    <3>3. Kept(Written(NewElement(r)), Written(NewElement(r)))
      BY Zenon DEF Kept
    <3> QED BY <3>1, <3>2, <3>3, SetStatusCmnKeeps
  <2> QED BY <2>1, <2>2, AcceptedIsRequest
<1>2. ASSUME NEW r \in Requests, RequestFailed(r)
      PROVE  UNCHANGED Queued
  <2>1. /\ MlmeConfirmQueueCnt < QueueLen
        /\ NewElement(r) \in Element
        /\ MlmeConfirmQueue' = Written(NewElement(r))
        /\ UNCHANGED <<BufferStart, BufferEnd, MlmeConfirmQueueCnt>>
    BY <1>2, NewElementType, QueueAssumption
    DEF RequestFailed, MayRequest, IsFull, RingOK, Written
  <2>2. \A k \in 0..(MlmeConfirmQueueCnt - 1) :
          MlmeConfirmQueue'[Slot(BufferStart, k)] = MlmeConfirmQueue[Slot(BufferStart, k)]
    BY <2>1, AppendKeepsRing
  <2>3. ASSUME NEW k \in 1..MlmeConfirmQueueCnt
        PROVE  MlmeConfirmQueue'[Slot(BufferStart, k - 1)]
                 = MlmeConfirmQueue[Slot(BufferStart, k - 1)]
    <3>1. k - 1 \in 0..(MlmeConfirmQueueCnt - 1)
      BY QueueAssumption DEF RingOK
    <3> QED BY <2>2, <3>1
  <2>4. Queued' = [k \in 1..MlmeConfirmQueueCnt |->
                     [Request |-> MlmeConfirmQueue'[Slot(BufferStart, k - 1)].Request,
                      Ready |-> MlmeConfirmQueue'[Slot(BufferStart, k - 1)].ReadyToHandle]]
    BY <2>1, Zenon DEF Queued, Waiting, Slot
  <2> QED BY <2>3, <2>4, Zenon DEF Queued, Waiting
<1>3. ASSUME AllFailed, UNCHANGED <<BufferStart, BufferEnd, MlmeConfirmQueueCnt>>
      PROVE  Fifo!Answer
  <2>1. Kept(MlmeConfirmQueue, MlmeConfirmQueue')
    BY <1>3, SetStatusCmnKeeps DEF AllFailed, RingOK
  <2> QED BY <1>3, <2>1, StatusesAreAnswers
<1>4. ASSUME NEW r, NEW status \in {OK, Error}, MlmeConfirmQueue' = WithStatus(status, r),
             UNCHANGED <<BufferStart, BufferEnd, MlmeConfirmQueueCnt>>
      PROVE  Fifo!Answer
  <2>1. Kept(MlmeConfirmQueue, MlmeConfirmQueue')
    BY <1>4, WithStatusKeeps DEF RingOK
  <2> QED BY <1>4, <2>1, StatusesAreAnswers
<1>5. CASE SendUplink \/ RadioFailed \/ Retransmit
  BY <1>3, <1>5 DEF SendUplink, RadioFailed, Retransmit, Fifo!Next
<1>6. CASE JoinAnswered
  <2>1. (IF activated' THEN OK ELSE Error) \in {OK, Error}
    OBVIOUS
  <2> QED BY <1>4, <1>6, <2>1 DEF JoinAnswered, Fifo!Next
<1>7. ASSUME NEW r \in Requests, NEW status \in {OK, Error}, Answer(r, status)
      PROVE  Fifo!Answer
  BY <1>4, <1>7 DEF Answer
<1>8. CASE Handled
  BY <1>8, HandledIsConfirmOrRotate DEF Fifo!Next
<1>9. CASE RxDone \/ Process \/ HandleCb \/ HandleFirst \/ RemoveFirst \/ HandleDone
             \/ UNCHANGED vars
  <2>1. UNCHANGED ringVars
    BY <1>9 DEF RxDone, Process, HandleCb, HandleFirst, RemoveFirst, HandleDone, vars
  <2> QED BY <2>1, SameRingSameQueue
<1> QED
  BY <1>1, <1>2, <1>5, <1>6, <1>7, <1>8, <1>9 DEF Next, Radio, Handler, Fifo!Next

(* The ring buffer implements a queue: requests are confirmed in turn, each *)
(* once and only when it is ready, whatever callbacks and interrupts request *)
(* meanwhile, but for an interrupt's request while the head is removed.      *)
THEOREM RingIsFifo ==
  ASSUME ~IrqRemoves
  PROVE  Spec => IsFifo
<1>1. Init => Fifo!Init
  BY FifoInit
<1>2. IInv /\ IInv' /\ [Next]_vars => [Fifo!Next]_Queued
  BY FifoNext
<1> QED BY <1>1, <1>2, Invariance, PTL DEF Spec, IsFifo, Fifo!Spec

-------------------------------------------------------------------------------
(* What the confirmation of a join says                                     *)

(* Where JoinConfirmIsTrue comes from.  A join that waits has the outcome    *)
(* that the node goes by, until the next transmission overwrites it.         *)
JoinsTellTruth ==
  \A k \in 0..(MlmeConfirmQueueCnt - 1) :
    Waiting(k).Request = Join =>
      /\ Waiting(k).ReadyToHandle
      /\ Waiting(k).Status = OK => activated
      /\ activated /\ MacState # "TX_RUNNING" => Waiting(k).Status = OK

(* The loop of LoRaMacConfirmQueueHandleCb is under way.                     *)
Looping == phase \in {"loop", "handling", "removing"}

(* A node that is not activated has nothing but joins to wait for: one that  *)
(* is being sent and those that failed and are not confirmed yet.            *)
OnlyJoins ==
  /\ ~McpsReq
  /\ \A k \in 0..(MlmeConfirmQueueCnt - 1) : Waiting(k).Request = Join
  /\ phase = "out" => MlmeConfirmQueueCnt <= IF MacState = "IDLE" THEN 0 ELSE 1
  /\ Looping => MlmeConfirmQueueCnt <= IF MacState = "IDLE" THEN todo ELSE todo + 1

(* Of an activated node only the head may be a join, confirmed before the    *)
(* radio answers to anything else.                                           *)
JoinIsHead ==
  \A k \in 0..(MlmeConfirmQueueCnt - 1) :
    Waiting(k).Request = Join =>
      /\ k = 0
      /\ phase = "out" => MacState = "DONE" /\ ~McpsReq
      /\ Looping => todo > 0

(* The main loop is not at the radio events while it handles the queue.      *)
JoinInv ==
  /\ JoinsTellTruth
  /\ IF activated THEN JoinIsHead ELSE OnlyJoins
  /\ phase = "due" \/ Looping => MacState # "DONE"
  /\ JoinFailed /\ MacState = "IDLE" => ~activated

(* An element that waits is in the ring, and the first one is the head.      *)
LEMMA WaitingInRing ==
  ASSUME RingOK
  PROVE  /\ \A k \in 0..(MlmeConfirmQueueCnt - 1) :
              Slot(BufferStart, k) \in Slots /\ Waiting(k) \in Element
         /\ Waiting(0) = MlmeConfirmQueue[BufferStart]
<1>1. ASSUME NEW k \in 0..(MlmeConfirmQueueCnt - 1)
      PROVE  Slot(BufferStart, k) \in Slots /\ Waiting(k) \in Element
  <2>1. k \in 0..QueueLen
    BY QueueAssumption DEF RingOK
  <2> QED BY <2>1, SlotInRing DEF RingOK, Waiting
<1>2. Waiting(0) = MlmeConfirmQueue[BufferStart]
  BY SlotZero DEF RingOK, Waiting
<1> QED BY <1>1, <1>2

(* Where no join waits, nothing is to be said of an activated node.          *)
NoJoins == \A k \in 0..(MlmeConfirmQueueCnt - 1) : Waiting(k).Request # Join

LEMMA NoJoinsWhileSending ==
  ASSUME JoinInv, activated, phase = "out", MacState # "DONE" \/ McpsReq
  PROVE  NoJoins
BY DEF JoinInv, JoinIsHead, NoJoins

LEMMA NoJoinsSuffice ==
  ASSUME NoJoins, activated, phase = "out", activated \in BOOLEAN
  PROVE  JoinInv
BY DEF JoinInv, JoinsTellTruth, JoinIsHead, NoJoins, Looping, JoinFailed

(* The steps that leave the ring alone.                                      *)
LEMMA LoopKeepsJoins ==
  ASSUME RingOK, HandleOK, MacOK, RequestsKeepFlag, JoinInv, UNCHANGED ringVars,
         RxDone \/ Process \/ HandleCb \/ HandleFirst \/ RemoveFirst \/ HandleDone
           \/ UNCHANGED vars
  PROVE  JoinInv'
<1>1. /\ MlmeConfirmQueueCnt \in Nat /\ MlmeConfirmQueueCnt' = MlmeConfirmQueueCnt
      /\ todo \in Nat
      /\ \A k : MlmeConfirmQueue'[Slot(BufferStart', k)] = MlmeConfirmQueue[Slot(BufferStart, k)]
  BY QueueAssumption DEF ringVars, RingOK, HandleOK, Slot
<1>2. CASE RxDone
  <2>1. activated /\ phase = "out" /\ MacState # "DONE" /\ UNCHANGED <<activated, phase>>
    BY <1>2 DEF RxDone, handleVars
  <2>2. NoJoins
    BY <2>1, NoJoinsWhileSending
  <2>3. NoJoins'
    BY <1>1, <2>2 DEF NoJoins, Waiting, Slot
  <2>4. (NoJoins /\ activated /\ phase = "out" /\ activated \in BOOLEAN => JoinInv)'
    BY NoJoinsSuffice, PTL
  <2> QED BY <2>1, <2>3, <2>4 DEF MacOK
<1>3. CASE Process
  BY <1>1, <1>3 DEF Process, JoinInv, JoinsTellTruth, JoinIsHead, OnlyJoins, Looping,
                    JoinFailed, RequestsKeepFlag, Waiting, Slot
<1>4. CASE HandleCb
  BY <1>1, <1>4 DEF HandleCb, JoinInv, JoinsTellTruth, JoinIsHead, OnlyJoins, Looping,
                    JoinFailed, Waiting, Slot
<1>5. CASE HandleFirst
  <2>1. phase = "loop" /\ 0 \in 0..(MlmeConfirmQueueCnt - 1) /\ current' = Waiting(0)
    BY <1>1, <1>5, WaitingInRing DEF HandleFirst, HandleOK, LoopAgrees
  <2>2. Waiting(0).Request = Join /\ Waiting(0).Status = Error /\ MacState = "IDLE"
          => ~activated
    BY <2>1 DEF JoinInv, JoinsTellTruth, OK, Error
  <2>3. JoinFailed' /\ MacState' = "IDLE" => ~activated'
    BY <1>5, <2>1, <2>2 DEF HandleFirst, macVars, JoinFailed
  <2> QED BY <1>1, <1>5, <2>3
          DEF HandleFirst, macVars, JoinInv, JoinsTellTruth, JoinIsHead, OnlyJoins, Looping,
              Waiting, Slot
<1>6. CASE RemoveFirst
  BY <1>1, <1>6 DEF RemoveFirst, macVars, JoinInv, JoinsTellTruth, JoinIsHead, OnlyJoins,
                    Looping, JoinFailed, Waiting, Slot
<1>7. CASE HandleDone
  BY <1>1, <1>7 DEF HandleDone, macVars, JoinInv, JoinsTellTruth, JoinIsHead, OnlyJoins,
                    Looping, JoinFailed, MacOK, Waiting, Slot
<1>8. CASE UNCHANGED vars
  BY <1>1, <1>8 DEF vars, handleVars, macVars, JoinInv, JoinsTellTruth, JoinIsHead, OnlyJoins,
                    Looping, JoinFailed, Waiting, Slot
<1> QED BY <1>2, <1>3, <1>4, <1>5, <1>6, <1>7, <1>8


(* LoRaMacConfirmQueueSetStatusCmn gets around to every element that waits.  *)
LEMMA CmnReachesAll ==
  ASSUME NEW p \in Slots, NEW n \in 1..QueueLen, NEW k \in 0..(n - 1), p = BufferStart
  PROVE  Slot(p, k) \in CmnSlots(Slot(p, n))
<1>1. Slot(p, k) \in Slots
  <2>1. k \in 0..QueueLen
    BY QueueAssumption
  <2> QED BY <2>1, SlotInRing
<1>2. CASE n = QueueLen
  BY <1>1, <1>2, SlotAround DEF CmnSlots
<1>3. CASE n # QueueLen
  <2>1. Distance(p, Slot(p, n)) = n
    BY <1>3, QueueAssumption DEF Distance, Slot, Slots
  <2> QED BY <1>1, <2>1 DEF CmnSlots
<1> QED BY <1>2, <1>3

(* It gives each join that waits an error.                                   *)
LEMMA CmnFailsJoins ==
  ASSUME NEW ring \in [Slots -> Element], BufferStart \in Slots, NEW n \in 1..QueueLen,
         NEW k \in 0..(n - 1), ring[Slot(BufferStart, k)].Request = Join
  PROVE  LET e == SetStatusCmn(ring, Slot(BufferStart, n), n)[Slot(BufferStart, k)]
         IN  e.Request = Join /\ e.ReadyToHandle /\ e.Status = Error
<1> DEFINE i == Slot(BufferStart, k)
<1>1. i \in CmnSlots(Slot(BufferStart, n))
  BY CmnReachesAll
<1>2. i \in Slots /\ n > 0
  <2>1. k \in 0..QueueLen
    BY QueueAssumption
  <2> QED BY <2>1, SlotInRing
<1> HIDE DEF i
<1>3. SetStatusCmn(ring, Slot(BufferStart, n), n)[i]
        = [ring[i] EXCEPT !.Status = Error,
                          !.ReadyToHandle = @ \/ ring[i].Request \notin Restricted]
  BY <1>1, <1>2 DEF SetStatusCmn
<1>4. ring[i] \in Element
  BY <1>2
<1>5. ring[i].Request = Join
  BY DEF i
<1> QED BY <1>3, <1>4, <1>5, QueueAssumption DEF Element, i

(* A new request: a node that is not activated joins and asks for nothing    *)
(* else.                                                                     *)
LEMMA RequestKeepsJoins ==
  ASSUME ~IrqRemoves, RingOK, HandleOK, MacOK, JoinInv,
         NEW r \in Requests, RequestAccepted(r) \/ RequestFailed(r)
  PROVE  JoinInv'
<1>1. /\ MacState = "IDLE" /\ ~Removing
      /\ IF r = Join THEN ~activated ELSE activated
      /\ activated' = activated
      /\ MlmeConfirmQueueCnt \in 0..(QueueLen - 1)
      /\ NewElement(r) \in Element
      /\ UNCHANGED <<BufferStart, McpsReq, handleVars>>
  <2>1. MayRequest(r) /\ activated' = (activated /\ r # Join)
        /\ UNCHANGED <<BufferStart, McpsReq, handleVars>>
    BY DEF RequestAccepted, RequestFailed
  <2>2. MacState = "IDLE" /\ ~Removing /\ MlmeConfirmQueueCnt < QueueLen
        /\ (IF r = Join THEN ~activated \/ JoinFailed ELSE activated)
    BY <2>1, RequestsInBetween DEF MayRequest
  <2>3. IF r = Join THEN ~activated ELSE activated
    BY <2>2 DEF JoinInv
  <2> QED BY <2>1, <2>2, <2>3, NewElementType, QueueAssumption DEF RingOK, MacOK
<1>2. UNCHANGED <<phase, todo, current>>
  BY <1>1 DEF handleVars
<1>3. /\ Written(NewElement(r)) \in [Slots -> Element]
      /\ Written(NewElement(r))[Slot(BufferStart, MlmeConfirmQueueCnt)] = NewElement(r)
      /\ \A k \in 0..(MlmeConfirmQueueCnt - 1) :
           Written(NewElement(r))[Slot(BufferStart, k)] = Waiting(k)
      /\ IncreaseBufferPointer(BufferEnd) = Slot(BufferStart, MlmeConfirmQueueCnt + 1)
  <2>1. MlmeConfirmQueueCnt < QueueLen
    BY <1>1, QueueAssumption
  <2>2. /\ Written(NewElement(r)) \in [Slots -> Element]
        /\ Written(NewElement(r))[Slot(BufferStart, MlmeConfirmQueueCnt)] = NewElement(r)
        /\ \A k \in 0..(MlmeConfirmQueueCnt - 1) :
             Written(NewElement(r))[Slot(BufferStart, k)] = MlmeConfirmQueue[Slot(BufferStart, k)]
        /\ IncreaseBufferPointer(BufferEnd) = Slot(BufferStart, MlmeConfirmQueueCnt + 1)
    BY <1>1, <2>1, AppendKeepsRing
  <2> QED BY <2>2 DEF Waiting
<1>4. NewElement(r).Request = r
  BY DEF NewElement
<1>5. CASE RequestFailed(r)
  <2>1. /\ MlmeConfirmQueue' = Written(NewElement(r))
        /\ UNCHANGED <<MlmeConfirmQueueCnt, MacState>>
    BY <1>5 DEF RequestFailed, Written
  <2>2. \A k \in 0..(MlmeConfirmQueueCnt - 1) :
          MlmeConfirmQueue'[Slot(BufferStart', k)] = MlmeConfirmQueue[Slot(BufferStart, k)]
    BY <1>1, <1>3, <2>1 DEF Waiting, Slot
  <2> QED BY <1>1, <1>2, <2>1, <2>2
          DEF JoinInv, JoinsTellTruth, JoinIsHead, OnlyJoins, Looping, JoinFailed, Waiting, Slot
<1>6. CASE RequestAccepted(r) /\ r # Join
  <2>1. /\ MlmeConfirmQueue' = Written(NewElement(r))
        /\ MlmeConfirmQueueCnt' = MlmeConfirmQueueCnt + 1
        /\ UNCHANGED MacState
    BY <1>6 DEF RequestAccepted, Written
  <2>2. ASSUME NEW k \in 0..(MlmeConfirmQueueCnt' - 1),
               MlmeConfirmQueue'[Slot(BufferStart', k)].Request = Join
        PROVE  /\ k \in 0..(MlmeConfirmQueueCnt - 1)
               /\ MlmeConfirmQueue'[Slot(BufferStart', k)] = Waiting(k)
    <3>1. k # MlmeConfirmQueueCnt
      BY <1>1, <1>3, <1>4, <1>6, <2>1, <2>2 DEF Slot
    <3>2. k \in 0..(MlmeConfirmQueueCnt - 1)
      BY <1>1, <2>1, <3>1, QueueAssumption
    <3> QED BY <1>1, <1>3, <2>1, <3>2 DEF Slot
  <2>3. activated /\ JoinIsHead /\ JoinsTellTruth
    BY <1>1, <1>6 DEF JoinInv
  <2>4. JoinsTellTruth'
    BY <1>1, <2>2, <2>3 DEF JoinsTellTruth, Waiting
  <2>5. JoinIsHead'
    BY <1>1, <1>2, <2>1, <2>2, <2>3 DEF JoinIsHead, Looping, Waiting
  <2> QED BY <1>1, <1>2, <2>1, <2>3, <2>4, <2>5 DEF JoinInv, Looping, JoinFailed
<1>7. CASE RequestAccepted(r) /\ r = Join
  <2>1. /\ MlmeConfirmQueue' =
             SetStatusCmn(Written(NewElement(r)), Slot(BufferStart, MlmeConfirmQueueCnt + 1),
                          MlmeConfirmQueueCnt + 1)
        /\ MlmeConfirmQueueCnt' = MlmeConfirmQueueCnt + 1
        /\ MacState' = "TX_RUNNING"
    BY <1>3, <1>7, Zenon DEF RequestAccepted, Written
  <2>2. ~activated /\ OnlyJoins
    BY <1>1, <1>7 DEF JoinInv
  <2>3. ASSUME NEW k \in 0..MlmeConfirmQueueCnt
        PROVE  /\ MlmeConfirmQueue'[Slot(BufferStart, k)].Request = Join
               /\ MlmeConfirmQueue'[Slot(BufferStart, k)].ReadyToHandle
               /\ MlmeConfirmQueue'[Slot(BufferStart, k)].Status = Error
    <3>1. Written(NewElement(r))[Slot(BufferStart, k)].Request = Join
      <4>1. CASE k = MlmeConfirmQueueCnt
        BY <1>3, <1>4, <1>7, <4>1
      <4>2. CASE k # MlmeConfirmQueueCnt
        <5>1. k \in 0..(MlmeConfirmQueueCnt - 1)
          BY <1>1, <4>2, QueueAssumption
        <5> QED BY <1>3, <2>2, <5>1 DEF OnlyJoins
      <4> QED BY <4>1, <4>2
    <3>2. /\ MlmeConfirmQueueCnt + 1 \in 1..QueueLen
          /\ k \in 0..((MlmeConfirmQueueCnt + 1) - 1)
          /\ BufferStart \in Slots
      BY <1>1, QueueAssumption DEF RingOK
    <3> QED BY <1>3, <2>1, <3>1, <3>2, CmnFailsJoins
  <2>4. \A k \in 0..(MlmeConfirmQueueCnt' - 1) :
          /\ MlmeConfirmQueue'[Slot(BufferStart', k)].Request = Join
          /\ MlmeConfirmQueue'[Slot(BufferStart', k)].ReadyToHandle
          /\ MlmeConfirmQueue'[Slot(BufferStart', k)].Status = Error
    <3>1. \A k \in 0..(MlmeConfirmQueueCnt' - 1) : k \in 0..MlmeConfirmQueueCnt
      BY <1>1, <2>1, QueueAssumption
    <3> QED BY <1>1, <2>3, <3>1 DEF Slot
  <2>5. JoinsTellTruth'
    <3>1. activated' = FALSE
      BY <1>1, <2>2 DEF MacOK
    <3>2. OK # Error
      BY DEF OK, Error
    <3> QED BY <2>4, <3>1, <3>2, Zenon DEF JoinsTellTruth, Waiting
  <2>6. OnlyJoins'
    <3>1. /\ phase = "out" => MlmeConfirmQueueCnt <= 0
          /\ Looping => MlmeConfirmQueueCnt <= todo
      BY <1>1, <2>2 DEF OnlyJoins
    <3>2. (\A k \in 0..(MlmeConfirmQueueCnt - 1) : Waiting(k).Request = Join)'
      BY <2>4 DEF Waiting
    <3>3. todo \in Nat
      BY QueueAssumption DEF HandleOK
    <3> QED BY <1>1, <1>2, <2>1, <2>2, <3>1, <3>2, <3>3, QueueAssumption
            DEF OnlyJoins, Looping
  <2> QED BY <1>1, <1>2, <2>1, <2>2, <2>5, <2>6 DEF JoinInv, Looping, JoinFailed
<1> QED BY <1>5, <1>6, <1>7

(* An uplink that is sent while a join waits for its confirmation gives that *)
(* one an error.                                                             *)
LEMMA UplinkKeepsJoins ==
  ASSUME RingOK, HandleOK, MacOK, JoinInv, SendUplink
  PROVE  JoinInv'
<1>1. /\ activated /\ MacState = "IDLE" /\ MacState' = "TX_RUNNING" /\ AllFailed
      /\ UNCHANGED <<BufferStart, BufferEnd, MlmeConfirmQueueCnt, activated,
                     phase, todo, current>>
  BY DEF SendUplink, handleVars
<1>2. ASSUME NEW k \in 0..(MlmeConfirmQueueCnt' - 1),
             MlmeConfirmQueue'[Slot(BufferStart', k)].Request = Join
      PROVE  /\ k \in 0..(MlmeConfirmQueueCnt - 1)
             /\ Waiting(k).Request = Join
             /\ Waiting(k).ReadyToHandle
             /\ MlmeConfirmQueue'[Slot(BufferStart', k)].ReadyToHandle
  <2>1. k \in 0..(MlmeConfirmQueueCnt - 1) /\ Slot(BufferStart', k) = Slot(BufferStart, k)
    BY <1>1 DEF Slot
  <2>2. Kept(MlmeConfirmQueue, MlmeConfirmQueue')
    BY <1>1, SetStatusCmnKeeps DEF AllFailed, RingOK
  <2>3. Slot(BufferStart, k) \in Slots
    BY <2>1, WaitingInRing
  <2>4. Waiting(k).Request = Join
    BY <1>2, <2>1, <2>2, <2>3 DEF Kept, Waiting
  <2>5. Waiting(k).ReadyToHandle
    BY <2>1, <2>4 DEF JoinInv, JoinsTellTruth
  <2> QED BY <2>1, <2>2, <2>3, <2>4, <2>5 DEF Kept, Waiting
<1>3. JoinsTellTruth'
  BY <1>1, <1>2 DEF JoinsTellTruth, Waiting
<1>4. JoinIsHead /\ JoinIsHead'
  BY <1>1, <1>2 DEF JoinInv, JoinIsHead, Looping, Waiting
<1> QED BY <1>1, <1>3, <1>4 DEF JoinInv, Looping, JoinFailed

(* The steps of a transmission that fail everything: none while an activated *)
(* node has a join to confirm.                                               *)
LEMMA FailureKeepsJoins ==
  ASSUME RingOK, HandleOK, MacOK, JoinInv, RadioFailed \/ Retransmit
  PROVE  JoinInv'
<1>1. /\ phase = "out" /\ AllFailed
      /\ UNCHANGED <<BufferStart, BufferEnd, MlmeConfirmQueueCnt, handleVars, activated>>
  BY DEF RadioFailed, Retransmit
<1>2. UNCHANGED phase
  BY <1>1 DEF handleVars
<1>3. MlmeConfirmQueueCnt \in 0..QueueLen /\ BufferStart \in Slots
      /\ BufferEnd = Slot(BufferStart, MlmeConfirmQueueCnt)
      /\ MlmeConfirmQueue \in [Slots -> Element]
  BY DEF RingOK
<1>4. CASE activated
  <2>1. MacState # "DONE" \/ McpsReq
    BY DEF RadioFailed, Retransmit
  <2>2. NoJoins
    BY <1>1, <1>4, <2>1, NoJoinsWhileSending
  <2>3. NoJoins'
    <3>1. Kept(MlmeConfirmQueue, MlmeConfirmQueue')
      BY <1>1, <1>3, SetStatusCmnKeeps DEF AllFailed
    <3> QED BY <1>1, <2>2, <3>1, WaitingInRing DEF NoJoins, Waiting, Slot, Kept
  <2>4. (NoJoins /\ activated /\ phase = "out" /\ activated \in BOOLEAN => JoinInv)'
    BY NoJoinsSuffice, PTL
  <2> QED BY <1>1, <1>2, <1>4, <2>3, <2>4 DEF MacOK
<1>5. CASE ~activated
  <2>1. OnlyJoins
    BY <1>5 DEF JoinInv
  <2>2. MacState = "TX_RUNNING" /\ UNCHANGED McpsReq /\ MacState' # "IDLE"
    BY <1>5, <2>1 DEF RadioFailed, Retransmit, OnlyJoins
  <2>3. ASSUME NEW k \in 0..(MlmeConfirmQueueCnt - 1)
        PROVE  /\ MlmeConfirmQueue'[Slot(BufferStart, k)].Request = Join
               /\ MlmeConfirmQueue'[Slot(BufferStart, k)].ReadyToHandle
               /\ MlmeConfirmQueue'[Slot(BufferStart, k)].Status = Error
    <3>1. MlmeConfirmQueueCnt \in 1..QueueLen
      BY <1>3, QueueAssumption
    <3>2. MlmeConfirmQueue[Slot(BufferStart, k)].Request = Join
      BY <2>1 DEF OnlyJoins, Waiting
    <3> QED BY <1>1, <1>3, <3>1, <3>2, CmnFailsJoins DEF AllFailed
  <2>4. \A k \in 0..(MlmeConfirmQueueCnt' - 1) :
          /\ MlmeConfirmQueue'[Slot(BufferStart', k)].Request = Join
          /\ MlmeConfirmQueue'[Slot(BufferStart', k)].ReadyToHandle
          /\ MlmeConfirmQueue'[Slot(BufferStart', k)].Status = Error
    BY <1>1, <2>3 DEF Slot
  <2>5. JoinsTellTruth'
    <3>1. activated' = FALSE
      BY <1>1, <1>5 DEF MacOK
    <3>2. OK # Error
      BY DEF OK, Error
    <3> QED BY <2>4, <3>1, <3>2, Zenon DEF JoinsTellTruth, Waiting
  <2>6. OnlyJoins'
    BY <1>1, <1>2, <2>1, <2>2, <2>4 DEF OnlyJoins, Waiting, Looping
  <2> QED BY <1>1, <1>2, <1>5, <2>5, <2>6 DEF JoinInv, Looping, JoinFailed
<1> QED BY <1>4, <1>5 DEF MacOK

(* The answer to the join gives the one that waits its outcome.              *)
LEMMA AnswerKeepsJoins ==
  ASSUME QueueLen > 1, RingOK, HandleOK, MacOK, JoinInv,
         JoinAnswered \/ \E r \in Requests, status \in {OK, Error} : Answer(r, status)
  PROVE  JoinInv'
<1>1. /\ phase = "out"
      /\ UNCHANGED <<BufferStart, BufferEnd, MlmeConfirmQueueCnt, phase, todo, current, McpsReq>>
  BY DEF JoinAnswered, Answer, handleVars, macVars
<1>2. /\ MlmeConfirmQueueCnt \in 0..QueueLen /\ BufferStart \in Slots
      /\ BufferEnd = Slot(BufferStart, MlmeConfirmQueueCnt)
      /\ MlmeConfirmQueue \in [Slots -> Element]
  BY DEF RingOK
<1>3. CASE JoinAnswered
  <2>1. /\ ~activated /\ MacState = "TX_RUNNING" /\ activated' \in BOOLEAN /\ MacState' = "DONE"
        /\ MlmeConfirmQueue' = WithStatus(IF activated' THEN OK ELSE Error, Join)
    BY <1>3 DEF JoinAnswered
  <2>2. OnlyJoins /\ MlmeConfirmQueueCnt \in {0, 1}
    BY <1>1, <1>2, <2>1, QueueAssumption DEF JoinInv, OnlyJoins
  <2>3. ASSUME MlmeConfirmQueueCnt = 1
        PROVE  /\ MlmeConfirmQueue'[BufferStart].Request = Join
               /\ MlmeConfirmQueue'[BufferStart].ReadyToHandle
               /\ MlmeConfirmQueue'[BufferStart].Status = IF activated' THEN OK ELSE Error
    <3>1. MlmeConfirmQueue[BufferStart].Request = Join
      BY <2>2, <2>3, WaitingInRing DEF OnlyJoins
    <3>2. Distance(BufferStart, BufferEnd) = 1
      BY <1>2, <2>3, QueueAssumption DEF Distance, Slot, Slots
    <3>3. GetElement(Join, BufferStart)
      <4>1. 0 \in 0..(Distance(BufferStart, BufferEnd) - 1) /\ 0..(0 - 1) = {}
        BY <3>2
      <4>2. BufferStart = Slot(BufferStart, 0)
        BY <1>2, SlotZero
      <4> QED BY <3>1, <4>1, <4>2 DEF GetElement
    <3>4. MlmeConfirmQueue'[BufferStart]
            = [MlmeConfirmQueue[BufferStart] EXCEPT
                 !.Status = IF activated' THEN OK ELSE Error, !.ReadyToHandle = TRUE]
      <4> DEFINE status == IF activated' THEN OK ELSE Error
      <4>1. MlmeConfirmQueue' = WithStatus(status, Join)
        BY <2>1
      <4> HIDE DEF status
      <4>2. MlmeConfirmQueue'[BufferStart]
              = [MlmeConfirmQueue[BufferStart] EXCEPT !.Status = status, !.ReadyToHandle = TRUE]
        <5>1. MlmeConfirmQueueCnt > 0
          BY <2>3
        <5>2. \A i \in Slots :
                WithStatus(status, Join)[i] =
                  IF MlmeConfirmQueueCnt > 0 /\ GetElement(Join, i)
                  THEN [MlmeConfirmQueue[i] EXCEPT !.Status = status, !.ReadyToHandle = TRUE]
                  ELSE MlmeConfirmQueue[i]
          BY DEF WithStatus
        <5> QED BY <1>2, <3>3, <4>1, <5>1, <5>2
      <4> QED BY <4>2 DEF status
    <3>5. MlmeConfirmQueue[BufferStart] \in Element
      BY <1>2
    <3> QED BY <3>1, <3>4, <3>5 DEF Element
  <2>4. ASSUME NEW k \in 0..(MlmeConfirmQueueCnt' - 1)
        PROVE  /\ k = 0
               /\ MlmeConfirmQueue'[Slot(BufferStart', k)].Request = Join
               /\ MlmeConfirmQueue'[Slot(BufferStart', k)].ReadyToHandle
               /\ MlmeConfirmQueue'[Slot(BufferStart', k)].Status
                    = IF activated' THEN OK ELSE Error
    <3>1. MlmeConfirmQueueCnt = 1 /\ k = 0
      BY <1>1, <2>2
    <3>2. Slot(BufferStart', k) = BufferStart
      BY <1>1, <1>2, <3>1, SlotZero DEF Slot
    <3> QED BY <2>3, <3>1, <3>2
  <2>5. JoinsTellTruth'
    <3>1. /\ (IF activated' THEN OK ELSE Error) = OK => activated'
          /\ activated' => (IF activated' THEN OK ELSE Error) = OK
      BY <2>1 DEF OK, Error
    <3> QED BY <2>4, <3>1, Zenon DEF JoinsTellTruth, Waiting
  <2>6. ~McpsReq'
    BY <1>1, <2>2 DEF OnlyJoins
  <2>7. JoinIsHead'
    BY <1>1, <2>1, <2>4, <2>6 DEF JoinIsHead, Waiting, Looping
  <2>8. OnlyJoins'
    BY <1>1, <2>1, <2>2, <2>4, <2>6 DEF OnlyJoins, Waiting, Looping
  <2> QED BY <1>1, <2>5, <2>7, <2>8 DEF JoinInv, Looping, JoinFailed
<1>4. ASSUME NEW r \in Requests, NEW status \in {OK, Error}, Answer(r, status)
      PROVE  JoinInv'
  <2>1. /\ r # Join /\ UNCHANGED <<activated, MacState>>
        /\ MlmeConfirmQueue' = WithStatus(status, r)
    BY <1>4, QueueAssumption DEF Answer, macVars
  <2>2. ASSUME NEW i \in Slots
        PROVE  /\ MlmeConfirmQueue'[i].Request = MlmeConfirmQueue[i].Request
               /\ MlmeConfirmQueue[i].Request = Join =>
                    MlmeConfirmQueue'[i] = MlmeConfirmQueue[i]
    <3>1. Kept(MlmeConfirmQueue, MlmeConfirmQueue')
      BY <1>2, <2>1, WithStatusKeeps
    <3>2. GetElement(r, i) => MlmeConfirmQueue[i].Request = r
      BY DEF GetElement
    <3>3. MlmeConfirmQueue'[i] = IF MlmeConfirmQueueCnt > 0 /\ GetElement(r, i)
            THEN [MlmeConfirmQueue[i] EXCEPT !.Status = status, !.ReadyToHandle = TRUE]
            ELSE MlmeConfirmQueue[i]
      BY <2>1 DEF WithStatus
    <3> QED BY <2>1, <3>1, <3>2, <3>3 DEF Kept
  <2>3. ASSUME NEW k \in 0..(MlmeConfirmQueueCnt - 1)
        PROVE  /\ MlmeConfirmQueue'[Slot(BufferStart', k)].Request = Waiting(k).Request
               /\ Waiting(k).Request = Join =>
                    MlmeConfirmQueue'[Slot(BufferStart', k)] = Waiting(k)
    <3>1. Slot(BufferStart, k) \in Slots /\ Slot(BufferStart', k) = Slot(BufferStart, k)
      BY <1>1, WaitingInRing DEF Slot
    <3> QED BY <2>2, <3>1 DEF Waiting
  <2>4. JoinsTellTruth'
    BY <1>1, <2>1, <2>3 DEF JoinInv, JoinsTellTruth, Waiting
  <2>5. IF activated THEN JoinIsHead' ELSE OnlyJoins'
    BY <1>1, <2>1, <2>3 DEF JoinInv, JoinIsHead, OnlyJoins, Waiting, Looping
  <2> QED BY <1>1, <2>1, <2>4, <2>5 DEF JoinInv, Looping, JoinFailed
<1> QED BY <1>3, <1>4

(* The head is taken away when it was ready, and a join always is.           *)
LEMMA HandledKeepsJoins ==
  ASSUME RingOK, HandleOK, MacOK, JoinInv, Handled
  PROVE  JoinInv'
<1> DEFINE again == ~current.ReadyToHandle
<1>1. /\ BufferEnd \in Slots /\ BufferStart \in Slots
      /\ MlmeConfirmQueueCnt \in 1..QueueLen
      /\ loaded = MlmeConfirmQueueCnt
      /\ BufferEnd = Slot(BufferStart, MlmeConfirmQueueCnt)
      /\ MlmeConfirmQueue[BufferStart].Request = current.Request
      /\ IF current.ReadyToHandle THEN MlmeConfirmQueue[BufferStart].ReadyToHandle
         ELSE MlmeConfirmQueue[BufferStart] = current
      /\ todo \in 1..QueueLen
      /\ MlmeConfirmQueue \in [Slots -> Element]
  BY QueueAssumption DEF RingOK, HandleOK, LoopAgrees, Handled
<1>2. /\ BufferStart' = IncreaseBufferPointer(BufferStart)
      /\ MlmeConfirmQueue' = IF again THEN [MlmeConfirmQueue EXCEPT ![BufferEnd] = current]
                             ELSE MlmeConfirmQueue
      /\ MlmeConfirmQueueCnt' = IF again THEN MlmeConfirmQueueCnt ELSE MlmeConfirmQueueCnt - 1
      /\ phase = "removing" /\ phase' = "loop" /\ todo' = todo - 1
      /\ UNCHANGED <<MacState, McpsReq, activated>>
  BY <1>1, QueueAssumption DEF Handled, macVars
<1>3. Waiting(0) = MlmeConfirmQueue[BufferStart] /\ 0 \in 0..(MlmeConfirmQueueCnt - 1)
  BY <1>1, WaitingInRing, QueueAssumption
<1>4. again => current.Request # Join
  BY <1>1, <1>3 DEF JoinInv, JoinsTellTruth
<1>5. again => activated
  BY <1>1, <1>3, <1>4 DEF JoinInv, OnlyJoins
<1> HIDE DEF again
<1>6. ASSUME NEW k \in 0..(MlmeConfirmQueueCnt' - 1)
      PROVE  \/ /\ k + 1 \in 0..(MlmeConfirmQueueCnt - 1)
                /\ MlmeConfirmQueue'[Slot(BufferStart', k)] = Waiting(k + 1)
             \/ again /\ MlmeConfirmQueue'[Slot(BufferStart', k)] = current
  <2>1. k \in 0..(QueueLen - 1) /\ k \in 0..(MlmeConfirmQueueCnt - 1)
    BY <1>1, <1>2, QueueAssumption
  <2>2. Slot(BufferStart', k) = Slot(BufferStart, k + 1)
    <3>1. Slot(IncreaseBufferPointer(BufferStart), k) = Slot(BufferStart, k + 1)
      BY <1>1, <2>1, SlotIncrease
    <3> QED BY <1>2, <3>1 DEF Slot
  <2>3. CASE k = MlmeConfirmQueueCnt - 1
    <3>1. again
      BY <1>1, <1>2, <2>3, QueueAssumption
    <3>2. Slot(BufferStart, k + 1) = BufferEnd
      BY <1>1, <2>3, QueueAssumption
    <3> QED BY <1>1, <1>2, <2>2, <3>1, <3>2
  <2>4. CASE k # MlmeConfirmQueueCnt - 1
    <3>1. k + 1 \in 0..(MlmeConfirmQueueCnt - 1)
      BY <1>1, <2>1, <2>4, QueueAssumption
    <3>2. Slot(BufferStart, k + 1) \in Slots
      BY <3>1, WaitingInRing
    <3> QED BY <1>1, <1>2, <2>2, <3>1, <3>2 DEF Waiting
  <2> QED BY <2>3, <2>4
<1>7. JoinsTellTruth'
  BY <1>2, <1>4, <1>6 DEF JoinInv, JoinsTellTruth, Waiting
<1>8. CASE activated
  <2>1. NoJoins'
    <3>1. \A k \in 0..(MlmeConfirmQueueCnt' - 1) : k + 1 # 0
      BY <1>1, <1>2, QueueAssumption
    <3> QED BY <1>4, <1>6, <1>8, <3>1 DEF JoinInv, JoinIsHead, NoJoins, Waiting
  <2>2. JoinIsHead'
    BY <2>1 DEF JoinIsHead, NoJoins
  <2> QED BY <1>2, <1>7, <1>8, <2>2 DEF JoinInv, Looping, JoinFailed
<1>9. CASE ~activated
  <2>1. \A k \in 0..(MlmeConfirmQueueCnt' - 1) :
          MlmeConfirmQueue'[Slot(BufferStart', k)].Request = Join
    BY <1>5, <1>6, <1>9 DEF JoinInv, OnlyJoins
  <2>2. OnlyJoins'
    BY <1>1, <1>2, <1>5, <1>9, <2>1, QueueAssumption DEF JoinInv, OnlyJoins, Waiting, Looping
  <2> QED BY <1>2, <1>7, <1>9, <2>2 DEF JoinInv, Looping, JoinFailed
<1> QED BY <1>8, <1>9

LEMMA JoinInvNext ==
  ASSUME ~IrqRemoves, QueueLen > 1, IInv, JoinInv, [Next]_vars
  PROVE  JoinInv'
<1>1. RingOK /\ HandleOK /\ MacOK /\ RequestsKeepFlag
  BY IInvParts
<1>2. ASSUME NEW r \in Requests, RequestAccepted(r) \/ RequestFailed(r)
      PROVE  JoinInv'
  BY <1>1, <1>2, RequestKeepsJoins
<1>3. CASE SendUplink \/ RadioFailed \/ Retransmit
  BY <1>1, <1>3, UplinkKeepsJoins, FailureKeepsJoins
<1>4. CASE JoinAnswered \/ \E r \in Requests, status \in {OK, Error} : Answer(r, status)
  BY <1>1, <1>4, AnswerKeepsJoins
<1>5. CASE Handled
  BY <1>1, <1>5, HandledKeepsJoins
<1>6. CASE RxDone \/ Process \/ HandleCb \/ HandleFirst \/ RemoveFirst \/ HandleDone
             \/ UNCHANGED vars
  <2>1. UNCHANGED ringVars
    BY <1>6 DEF RxDone, Process, HandleCb, HandleFirst, RemoveFirst, HandleDone, vars
  <2> QED BY <1>1, <1>6, <2>1, LoopKeepsJoins
<1> QED BY <1>2, <1>3, <1>4, <1>5, <1>6 DEF Next, Radio, Handler

(* The application is told that it joined only when it did, and when it did  *)
(* unless it sends already, though each element has one status that every    *)
(* radio event overwrites: but for an interrupt's request while the head is  *)
(* removed, and in a ring of at least two.  A ring of one is full with the   *)
(* join in it, and LoRaMacConfirmQueueSetStatus takes a full ring for an     *)
(* empty one.                                                                *)
THEOREM JoinConfirmsTrue ==
  ASSUME ~IrqRemoves, QueueLen > 1
  PROVE  Spec => JoinConfirmIsTrue
<1>1. Init => JoinInv
  <2>1. 0..(0 - 1) = {}
    OBVIOUS
  <2> QED BY <2>1 DEF Init, JoinInv, JoinsTellTruth, OnlyJoins, JoinIsHead, Looping, JoinFailed
<1>2. IInv /\ JoinInv /\ [Next]_vars => JoinInv'
  BY JoinInvNext
<1>3. IInv /\ JoinInv /\ [Next]_vars =>
        [HandleFirst /\ current'.Request = Join /\ current'.ReadyToHandle
           => /\ current'.Status = OK => activated
              /\ activated /\ MacState = "IDLE" => current'.Status = OK]_vars
  <2> SUFFICES ASSUME IInv, JoinInv, HandleFirst, current'.Request = Join
               PROVE  /\ current'.Status = OK => activated
                      /\ activated /\ MacState = "IDLE" => current'.Status = OK
    OBVIOUS
  <2>1. RingOK /\ HandleOK
    BY IInvParts
  <2>2. 0 \in 0..(MlmeConfirmQueueCnt - 1) /\ current' = Waiting(0)
    BY <2>1, WaitingInRing, QueueAssumption DEF HandleFirst, HandleOK, LoopAgrees, RingOK
  <2> QED BY <2>2 DEF JoinInv, JoinsTellTruth
<1> QED BY <1>1, <1>2, <1>3, Invariance, PTL DEF Spec, JoinConfirmIsTrue

===============================================================================
