----------------------------- MODULE LoRaMacProofs -----------------------------
(***************************************************************************)
(* What is proved of the uplink procedure of the MAC, for any number of    *)
(* transmissions and any kinds of request.                                 *)
(*                                                                         *)
(* The types need nothing else.  The others assume OneAtATime, without      *)
(* which TLC refutes them: none of the coincidences of Races, and no        *)
(* request that meets the end of the procedure before.  Clients call from   *)
(* interrupts at every other moment.  They rest on IInv, which is           *)
(* inductive.                                                              *)
(***************************************************************************)
EXTENDS LoRaMac, TLAPS

USE MacAssumption
    DEF ackVars, sendVars, rxVars, radioVars, timerVars, history, eventVars, loopVars

-------------------------------------------------------------------------------
(***************************************************************************)
(* Types                                                                   *)
(***************************************************************************)

LEMMA RequestedType == ASSUME NEW t \in Types, TypeOK, Requested(t) PROVE TypeOK'
<1>1. NodeAckRequested' \in BOOLEAN
  <2>1. CASE t = "CONFIRMED"
    BY <2>1, Zenon DEF Requested
  <2>2. CASE t # "CONFIRMED"
    BY <2>2, Zenon DEF Requested
  <2>. QED  BY <2>1, <2>2
<1>2. McpsConfirm' \in Confirmation
  <2>1. CASE t = "CONFIRMED"
    BY <2>1 DEF Requested, Begin, Confirmation
  <2>2. CASE t = "UNCONFIRMED"
    BY <2>2 DEF Requested, Begin, Confirmation
  <2>. QED  BY <2>1, <2>2
<1>3. secured' \in BOOLEAN /\ aired' \in BOOLEAN /\ acked' \in BOOLEAN
  BY Zenon DEF Requested
<1>. QED  BY <1>1, <1>2, <1>3 DEF Requested, Begin, Start, TypeOK

LEMMA RequestFailedType == ASSUME TypeOK, RequestFailed PROVE TypeOK'
<1>1. McpsConfirm' \in Confirmation
  BY DEF RequestFailed, Begin, Confirmation
<1>2. NodeAckRequested' \in BOOLEAN
  BY Zenon DEF RequestFailed, TypeOK
<1>3. radio' \in {"IDLE", radio} /\ guards' \subseteq guards
  BY DEF RequestFailed, Sleep
<1>4. /\ AckTimeoutRetriesCounter' = 1
      /\ UNCHANGED <<MacState, MacFlags, AckTimeoutRetry, sendVars, rxVars, eventVars, timerVars,
                     loopVars, history>>
  BY DEF RequestFailed, Begin
<1>. QED  BY <1>1, <1>2, <1>3, <1>4 DEF TypeOK

LEMMA OnTxDelayedTimerEventType == ASSUME TypeOK, OnTxDelayedTimerEvent PROVE TypeOK'
<1>1. CASE Resent /\ UNCHANGED AckTimeoutRetry
  <2>1. McpsConfirm' \in Confirmation
    BY <1>1 DEF Resent, SendFrameOnChannel, TypeOK, Confirmation
  <2>2. secured' \in BOOLEAN
    BY <1>1, Zenon DEF Resent, SendFrameOnChannel
  <2>. QED  BY <1>1, <2>1, <2>2 DEF OnTxDelayedTimerEvent, Resent, SendFrameOnChannel, Start, TypeOK
<1>2. CASE Delayed /\ UNCHANGED AckTimeoutRetry
  BY <1>2 DEF OnTxDelayedTimerEvent, Delayed, TypeOK
<1>3. CASE NotResent
  <2>1. McpsConfirm' \in Confirmation
    BY <1>3 DEF NotResent, TypeOK, Confirmation
  <2>2. secured' \in BOOLEAN /\ NodeAckRequested' \in BOOLEAN /\ AckTimeoutRetry' \in BOOLEAN
    BY <1>3, Zenon DEF NotResent, StopRetransmission
  <2>. QED  BY <1>3, <2>1, <2>2
            DEF OnTxDelayedTimerEvent, NotResent, StopRetransmission, Sleep, TypeOK
<1>. QED  BY <1>1, <1>2, <1>3 DEF OnTxDelayedTimerEvent

LEMMA RxWindowsType == ASSUME TypeOK, OnRxWindow1TimerEvent \/ OnRxWindow2TimerEvent PROVE TypeOK'
<1>1. CASE OnRxWindow1TimerEvent
  BY <1>1 DEF OnRxWindow1TimerEvent, Start, TypeOK
<1>2. CASE OnRxWindow2TimerEvent /\ radio = "IDLE"
  BY <1>2 DEF OnRxWindow2TimerEvent, Start, TypeOK
<1>3. CASE OnRxWindow2TimerEvent /\ radio # "IDLE"
  <2>1. UNCHANGED <<RxSlot, radioVars>>
    BY <1>3 DEF OnRxWindow2TimerEvent
  <2>. QED  BY <1>3, <2>1 DEF OnRxWindow2TimerEvent, TypeOK
<1>. QED  BY <1>1, <1>2, <1>3

LEMMA AckTimeoutType ==
  ASSUME TypeOK, OnAckTimeoutTimerEvent \/ AckTimeoutIsHead PROVE TypeOK'
<1>1. CASE OnAckTimeoutTimerEvent
  BY <1>1 DEF OnAckTimeoutTimerEvent, TypeOK
<1>2. CASE AckTimeoutIsHead
  BY <1>2 DEF AckTimeoutIsHead, TypeOK
<1>. QED  BY <1>1, <1>2

LEMMA RadioIrqType == ASSUME TypeOK, TxDone \/ RxEnd \/ OnTimeoutIrq PROVE TypeOK'
<1>1. events' \subseteq {"TxDone", "RxDone", "TxTimeout", "RxError", "RxTimeout"}
  BY DEF TxDone, RxEnd, OnTimeoutIrq, RadioIrq, TypeOK
<1>2. radio' \in {"IDLE", radio} /\ guards' \subseteq guards
  BY DEF TxDone, RxEnd, OnTimeoutIrq
<1>3. /\ aired' \in BOOLEAN /\ acked' \in BOOLEAN
      /\ RxDoneParams' \in {"refused", "proprietary", "data", "ack"}
  <2>1. CASE RxEnd /\ Receive
    <3>1. RxDoneParams' \in {"refused", "proprietary", "data", "ack"}
      BY <2>1, Zenon DEF Receive
    <3>. QED  BY <2>1, <3>1, Zenon DEF RxEnd, Receive, TypeOK
  <2>2. CASE UNCHANGED <<RxDoneParams, acked>>
    BY <2>2, Zenon DEF TxDone, RxEnd, OnTimeoutIrq, TypeOK
  <2>. QED  BY <2>1, <2>2 DEF TxDone, RxEnd, OnTimeoutIrq
<1>4. UNCHANGED <<MacState, MacFlags, McpsConfirm, ackVars, sendVars, rxVars, taken, timerVars,
                  loopVars, request, result>>
  BY DEF TxDone, RxEnd, OnTimeoutIrq, RadioIrq
<1>. QED  BY <1>1, <1>2, <1>3, <1>4 DEF TypeOK

LEMMA PollEventsType == ASSUME TypeOK, TakeEvents \/ ClearEvents PROVE TypeOK'
<1>1. CASE TakeEvents
  BY <1>1 DEF TakeEvents, TypeOK
<1>2. CASE ClearEvents
  BY <1>2 DEF ClearEvents, TypeOK
<1>. QED  BY <1>1, <1>2

LEMMA ProcessRadioTxDoneType == ASSUME TypeOK, ProcessRadioTxDone PROVE TypeOK'
<1>1. CASE NodeAckRequested
  BY <1>1 DEF ProcessRadioTxDone, NextEvent, Sleep, TypeOK
<1>2. CASE ~NodeAckRequested
  <2>1. McpsConfirm' = [McpsConfirm EXCEPT !.Status = "OK"]
    BY <1>2 DEF ProcessRadioTxDone
  <2>2. McpsConfirm' \in Confirmation
    BY <2>1 DEF TypeOK, Confirmation
  <2>3. /\ timers' = timers \cup {"RxWindow1", "RxWindow2"}
        /\ ChannelsNbTransCounter' \in 0..ChannelsNbTrans
        /\ UNCHANGED ackRunning
    BY <1>2 DEF ProcessRadioTxDone, TypeOK
  <2>4. rx2Passed' \in BOOLEAN
    BY Zenon DEF ProcessRadioTxDone
  <2>5. /\ radio' = "IDLE" /\ guards' = {} /\ taken' \subseteq taken
        /\ UNCHANGED <<MacState, MacFlags, ackVars, rxVars, secured, events, RxDoneParams, loopVars,
                       history>>
    BY DEF ProcessRadioTxDone, NextEvent, Sleep
  <2>. QED  BY <2>2, <2>3, <2>4, <2>5 DEF TypeOK
<1>. QED  BY <1>1, <1>2

LEMMA RxDoneType == ASSUME TypeOK, RxDoneSleep \/ RxDoneAbort \/ RxDoneFrame PROVE TypeOK'
<1>1. CASE RxDoneSleep
  <2>1. McpsConfirm' \in Confirmation
    BY <1>1 DEF RxDoneSleep, TypeOK, Confirmation
  <2>. QED  BY <1>1, <2>1 DEF RxDoneSleep, NextEvent, Sleep, TypeOK
<1>2. \A running \in AckRunningNow : running \in BOOLEAN
  BY Zenon DEF AckRunningNow, TypeOK
<1>3. ASSUME NEW running \in BOOLEAN, StopAckTimeout(running) \/ KeepAckTimeout(running)
      PROVE  timers' \subseteq timers /\ ackRunning' \in BOOLEAN /\ AckTimeoutRetry' \in BOOLEAN
  <2>1. timers' \subseteq timers
    BY <1>3 DEF StopAckTimeout, KeepAckTimeout
  <2>. QED  BY <1>3, <2>1, Zenon DEF StopAckTimeout, KeepAckTimeout, TypeOK
<1>4. CASE RxDoneAbort
  <2>1. timers' \subseteq timers /\ ackRunning' \in BOOLEAN /\ AckTimeoutRetry' \in BOOLEAN
    BY <1>2, <1>3, <1>4, Zenon DEF RxDoneAbort
  <2>2. McpsIndicationOk' \in BOOLEAN
    BY <1>4, Zenon DEF RxDoneAbort
  <2>. QED  BY <1>4, <2>1, <2>2 DEF RxDoneAbort, TypeOK
<1>5. CASE RxDoneFrame
  <2>1. McpsConfirm' \in Confirmation
    <3>1. PICK ack \in BOOLEAN : ack = (RxDoneParams = "ack")
      BY Zenon
    <3>2. McpsConfirm' \in {McpsConfirm, [McpsConfirm EXCEPT !.Status = "OK", !.AckReceived = ack]}
      BY <1>5, <3>1, Zenon DEF RxDoneFrame
    <3>. QED  BY <3>2 DEF TypeOK, Confirmation
  <2>2. timers' \subseteq timers /\ ackRunning' \in BOOLEAN /\ AckTimeoutRetry' \in BOOLEAN
    BY <1>2, <1>3, <1>5, Zenon DEF RxDoneFrame
  <2>3. McpsIndicationOk' \in BOOLEAN
    BY <1>5, Zenon DEF RxDoneFrame
  <2>4. /\ MacFlags' = MacFlags \cup {"McpsInd"} \cup (IF ackRunning' THEN {} ELSE {"MacDone"})
        /\ pc' = "events"
        /\ UNCHANGED <<MacState, NodeAckRequested, AckTimeoutRetriesCounter, sendVars, RxSlot,
                       eventVars, radioVars, rx2Passed, loaded, history>>
    BY <1>5 DEF RxDoneFrame
  <2>. QED  BY <2>1, <2>2, <2>3, <2>4 DEF TypeOK
<1>. QED  BY <1>1, <1>4, <1>5

LEMMA RxFailType ==
  ASSUME TypeOK, ProcessRadioTxTimeout \/ RxFailSleep \/ RxFail PROVE TypeOK'
<1>1. CASE ProcessRadioTxTimeout
  <2>1. McpsConfirm' \in Confirmation
    BY <1>1 DEF ProcessRadioTxTimeout, TypeOK, Confirmation
  <2>. QED  BY <1>1, <2>1 DEF ProcessRadioTxTimeout, NextEvent, Sleep, TypeOK
<1>2. CASE RxFailSleep
  <2>1. taken' \subseteq taken
    BY <1>2 DEF RxFailSleep, NextEvent
  <2>. QED  BY <1>2, <2>1 DEF RxFailSleep, Sleep, TypeOK
<1>3. CASE RxFail
  <2>1. McpsConfirm' \in Confirmation
    <3>1. CASE NodeAckRequested
      BY <1>3, <3>1 DEF RxFail, TypeOK, Confirmation
    <3>2. CASE ~NodeAckRequested
      BY <1>3, <3>2 DEF RxFail, TypeOK
    <3>. QED  BY <3>1, <3>2
  <2>2. /\ MacFlags' \subseteq {"MacDone", "McpsReq", "McpsInd"}
        /\ timers' \subseteq timers
    BY <1>3 DEF RxFail, TypeOK
  <2>. QED  BY <1>3, <2>1, <2>2 DEF RxFail, TypeOK
<1>. QED  BY <1>1, <1>2, <1>3

(* What Goto leaves alone.                                                 *)
LEMMA GotoFrame ==
  ASSUME NEW stage, Goto(stage)
  PROVE  /\ pc' = stage
         /\ RxSlot' = RxSlot /\ McpsIndicationOk' = McpsIndicationOk
         /\ events' = events /\ taken' = taken /\ RxDoneParams' = RxDoneParams
         /\ ackRunning' = ackRunning /\ rx2Passed' = rx2Passed
         /\ request' = request /\ aired' = aired /\ acked' = acked
  BY DEF Goto

LEMMA CheckMacDoneType == ASSUME TypeOK, CheckMacDone PROVE TypeOK'
<1>1. MacState' \subseteq MacState
  BY DEF CheckMacDone
<1>2. /\ pc' \in {"decide", "confirm"}
      /\ UNCHANGED <<rxVars, eventVars, ackRunning, rx2Passed, request, aired, acked>>
  <2>1. PICK stage \in {"decide", "confirm"} : Goto(stage)
    BY Zenon DEF CheckMacDone
  <2>. QED  BY <2>1 DEF Goto
<1>3. UNCHANGED <<MacFlags, McpsConfirm, ackVars, sendVars, radioVars, timers, loaded, result>>
  BY DEF CheckMacDone
<1>. QED  BY <1>1, <1>2, <1>3 DEF TypeOK

LEMMA DecideType == ASSUME TypeOK, GiveUp \/ Stop \/ Wait PROVE TypeOK'
<1>1. CASE GiveUp
  <2>1. MacState' \subseteq MacState
    BY <1>1 DEF GiveUp
  <2>2. McpsConfirm' \in Confirmation
    BY <1>1 DEF GiveUp, TypeOK, Confirmation
  <2>3. /\ Goto("confirm")
        /\ UNCHANGED <<MacFlags, ackVars, sendVars, radioVars, timers, loaded, result>>
    BY <1>1 DEF GiveUp
  <2>. QED  BY <2>1, <2>2, <2>3 DEF Goto, TypeOK
<1>2. CASE Stop
  <2>1. secured' \in BOOLEAN /\ NodeAckRequested' \in BOOLEAN /\ AckTimeoutRetry' \in BOOLEAN
    BY <1>2, Zenon DEF Stop, StopRetransmission
  <2>2. /\ Goto("confirm") /\ ChannelsNbTransCounter' = 0
        /\ MacState' = MacState \ {"TX_RUNNING"}
        /\ UNCHANGED <<MacFlags, McpsConfirm, AckTimeoutRetriesCounter, radioVars, timers,
                       loaded, result>>
    BY <1>2 DEF Stop, StopRetransmission
  <2>. QED  BY <2>1, <2>2 DEF Goto, TypeOK
<1>3. CASE Wait
  BY <1>3 DEF Wait, Goto, TypeOK
<1>. QED  BY <1>1, <1>2, <1>3

LEMMA RetransmitType == ASSUME TypeOK, Retransmit PROVE TypeOK'
<1>1. /\ Goto("confirm") /\ MacFlags' = MacFlags \ {"MacDone"}
      /\ AckTimeoutRetriesCounter' \in {AckTimeoutRetriesCounter, AckTimeoutRetriesProcess}
      /\ UNCHANGED <<loaded, result>>
  BY DEF Retransmit
<1>2. AckTimeoutRetriesCounter' \in 1..NbTrials
  BY <1>1 DEF AckTimeoutRetriesProcess, TypeOK
<1>3. AckTimeoutRetry' \in BOOLEAN
  BY Zenon DEF Retransmit
<1>4. CASE Resent
  <2>1. McpsConfirm' \in Confirmation
    BY <1>4 DEF Resent, SendFrameOnChannel, TypeOK, Confirmation
  <2>2. secured' \in BOOLEAN
    BY <1>4, Zenon DEF Resent, SendFrameOnChannel
  <2>. QED  BY <1>1, <1>2, <1>3, <1>4, <2>1, <2>2, GotoFrame
            DEF Resent, SendFrameOnChannel, Start, TypeOK
<1>5. CASE Delayed
  BY <1>1, <1>2, <1>3, <1>5 DEF Delayed, Goto, TypeOK
<1>6. CASE NotResent
  <2>1. McpsConfirm' \in Confirmation
    BY <1>6 DEF NotResent, TypeOK, Confirmation
  <2>2. secured' \in BOOLEAN /\ NodeAckRequested' \in BOOLEAN
    BY <1>6, Zenon DEF NotResent, StopRetransmission
  <2>. QED  BY <1>1, <1>2, <1>3, <1>6, <2>1, <2>2, GotoFrame
            DEF NotResent, StopRetransmission, Sleep, TypeOK
<1>. QED  BY <1>4, <1>5, <1>6 DEF Retransmit

LEMMA ConfirmType ==
  ASSUME TypeOK, IsIdle \/ ConfirmLoad \/ ConfirmStore \/ MacMcpsConfirm
                 \/ ResetLoad \/ ResetStore
  PROVE  TypeOK'
<1>1. CASE IsIdle
  <2>1. PICK stage \in {"indicate", "confirming", "reset"} : Goto(stage)
    BY <1>1, Zenon DEF IsIdle
  <2>. QED  BY <1>1, <2>1 DEF IsIdle, Goto, TypeOK
<1>2. CASE MacMcpsConfirm
  BY <1>2 DEF MacMcpsConfirm, TypeOK
<1>3. CASE ResetLoad
  BY <1>3 DEF ResetLoad, Goto, TypeOK
<1>4. CASE ResetStore
  BY <1>4 DEF ResetStore, Goto, TypeOK
<1>5. CASE ConfirmLoad
  BY <1>5 DEF ConfirmLoad, Goto, TypeOK
<1>6. CASE ConfirmStore
  BY <1>6 DEF ConfirmStore, Goto, TypeOK
<1>. QED  BY <1>1, <1>2, <1>3, <1>4, <1>5, <1>6

LEMMA IndicateType ==
  ASSUME TypeOK, IndicateLoad \/ IndicateStore \/ MacMcpsIndication PROVE TypeOK'
<1>1. CASE IndicateLoad
  <2>1. PICK stage \in {"indicateStore", "poll"} : Goto(stage)
    BY <1>1, Zenon DEF IndicateLoad
  <2>2. loaded' \subseteq {"MacDone", "McpsReq", "McpsInd"}
    BY <1>1 DEF IndicateLoad, TypeOK
  <2>. QED  BY <1>1, <2>1, <2>2 DEF IndicateLoad, Goto, TypeOK
<1>2. CASE IndicateStore
  BY <1>2 DEF IndicateStore, Goto, TypeOK
<1>3. CASE MacMcpsIndication
  BY <1>3 DEF MacMcpsIndication, Goto, TypeOK
<1>. QED  BY <1>1, <1>2, <1>3

LEMMA StepType == TypeOK /\ [Next]_vars => TypeOK'
<1>. SUFFICES ASSUME TypeOK, [Next]_vars PROVE TypeOK'
  OBVIOUS
<1>1. CASE McpsRequest
  BY <1>1, RequestedType, RequestFailedType DEF McpsRequest
<1>2. CASE TimerIrq
  BY <1>2, OnTxDelayedTimerEventType, RxWindowsType, AckTimeoutType DEF TimerIrq
<1>3. CASE AckTimeoutIsHead
  BY <1>3, AckTimeoutType
<1>4. CASE TxDone \/ RxEnd \/ OnTimeoutIrq
  BY <1>4, RadioIrqType
<1>5. CASE HandleEvent
  BY <1>5, PollEventsType, ProcessRadioTxDoneType, RxDoneType, RxFailType DEF HandleEvent
<1>6. CASE LoRaMacProcess
  BY <1>5, <1>6, CheckMacDoneType, DecideType, RetransmitType, ConfirmType, IndicateType
     DEF LoRaMacProcess
<1>7. CASE UNCHANGED vars
  BY <1>7 DEF vars, TypeOK
<1>. QED  BY <1>1, <1>2, <1>3, <1>4, <1>6, <1>7 DEF Next

LEMMA InitType == Init => TypeOK
<1>. SUFFICES ASSUME Init PROVE TypeOK
  OBVIOUS
<1>1. /\ NodeAckRequested \in BOOLEAN /\ AckTimeoutRetry \in BOOLEAN
      /\ McpsIndicationOk \in BOOLEAN /\ secured \in BOOLEAN /\ ackRunning \in BOOLEAN
      /\ rx2Passed \in BOOLEAN /\ aired \in BOOLEAN /\ acked \in BOOLEAN
  BY Zenon DEF Init
<1>. QED  BY <1>1 DEF Init, TypeOK, Confirmation

(* TypeOK is an invariant: whatever the interrupts do, the counters of       *)
(* transmissions stay within NbTrials and ChannelsNbTrans, the bits of      *)
(* MacState and MacFlags are known ones, and LoRaMacProcess is in one of    *)
(* its stages.                                                              *)
THEOREM TypeCorrect == Spec => []TypeOK
  BY InitType, StepType, PTL DEF Spec

-------------------------------------------------------------------------------
(***************************************************************************)
(* The inductive invariant, action by action                               *)
(***************************************************************************)

USE DEF Pending, SendEvents, ReceiveEvents, Sending, Receiving, WindowsToCome, Requesting, Ended,
        Overlapping, Owed, Received, Serving, Idle, Gap, Confirmed, TxTimedOut,
        IInv, TypeOK, EventsOneByOne, FlagsAsLoaded, SendingAlone, ReceivingAlone, WindowsInTime,
        DelayedAlone, Stages, AckAwaited, TimedOutAlone, RequestServed, ConfirmIsTrue, AckEnds,
        CounterIsFree, OneAtATime

(* A request finds the MAC idle, between two procedures, and starts one     *)
(* with nothing acknowledged and no timer running.                          *)
LEMMA RequestedInv ==
  ASSUME NEW t \in Types, IInv, TypeOK', OneAtATime, Requested(t) PROVE IInv'
<1>. USE DEF Requested, MayRequest, InCallback, Begin, Start
<1>1. McpsConfirm'.McpsRequest = t /\ McpsConfirm'.Status = "ERROR" /\ ~McpsConfirm'.AckReceived
  OBVIOUS
<1>2. CASE t = "CONFIRMED"
  <2>1. NodeAckRequested' = TRUE
    BY <1>2, Zenon
  <2>. QED  BY SMTT(30), <1>1, <1>2, <2>1
<1>3. CASE t # "CONFIRMED"
  <2>1. NodeAckRequested' = FALSE
    BY <1>3, Zenon
  <2>. QED  BY SMTT(30), <1>1, <1>3, <2>1
<1>. QED  BY <1>2, <1>3

LEMMA RequestFailedInv ==
  ASSUME IInv, TypeOK', OneAtATime, RequestFailed PROVE IInv'
<1>. USE DEF MayRequest, InCallback, Begin, Sleep
<1>1. radio' \in {"IDLE", radio}
  BY DEF RequestFailed
<1>2. /\ McpsConfirm' = [McpsRequest |-> "UNCONFIRMED", Status |-> "ERROR", AckReceived |-> FALSE]
      /\ MayRequest
      /\ UNCHANGED <<MacState, MacFlags, AckTimeoutRetry, sendVars, rxVars, eventVars, timerVars,
                     loopVars, history>>
  BY DEF RequestFailed
<1>3. McpsConfirm'.McpsRequest = "UNCONFIRMED" /\ McpsConfirm'.Status = "ERROR"
      /\ ~McpsConfirm'.AckReceived
  BY <1>2
<1>. QED  BY SMTT(30), <1>1, <1>2, <1>3

(* While TxDelayedTimer runs nothing else goes on, so that the transmission *)
(* it starts is alone.                                                      *)
LEMMA OnTxDelayedTimerEventInv ==
  ASSUME IInv, TypeOK', OneAtATime, OnTxDelayedTimerEvent PROVE IInv'
<1>. USE DEF OnTxDelayedTimerEvent, Rest
<1>1. CASE Resent /\ UNCHANGED AckTimeoutRetry
  <2>1. /\ McpsConfirm'.McpsRequest = McpsConfirm.McpsRequest
        /\ McpsConfirm'.Status = "ERROR"
        /\ (McpsConfirm'.AckReceived <=> McpsConfirm.AckReceived)
    BY <1>1 DEF Resent, SendFrameOnChannel, IInv, TypeOK, Confirmation
  <2>2. /\ radio' = "TX_RUNNING"
        /\ MacState' = (MacState \ {"TX_DELAYED"}) \cup {"TX_RUNNING"}
        /\ timers' = timers \ {"TxDelayed"}
        /\ UNCHANGED <<ChannelsNbTransCounter, NodeAckRequested, AckTimeoutRetry>>
    BY <1>1 DEF Resent, SendFrameOnChannel, Start
  <2>. QED  BY SMTT(30), <2>1, <2>2
<1>2. CASE Delayed /\ UNCHANGED AckTimeoutRetry
  BY SMTT(30), <1>2 DEF Delayed
<1>3. CASE NotResent
  <2>1. /\ McpsConfirm'.McpsRequest = McpsConfirm.McpsRequest
        /\ McpsConfirm'.Status = "ERROR"
        /\ (McpsConfirm'.AckReceived <=> McpsConfirm.AckReceived)
    BY <1>3 DEF NotResent, IInv, TypeOK, Confirmation
  <2>2. /\ radio' = "IDLE" /\ ~secured' /\ ~NodeAckRequested' /\ ~AckTimeoutRetry'
        /\ MacState' = MacState \ {"TX_DELAYED", "TX_RUNNING"}
        /\ timers' = timers \ {"TxDelayed"}
    BY <1>3 DEF NotResent, Sleep, StopRetransmission
  <2>. QED  BY SMTT(30), <2>1, <2>2
<1>. QED  BY <1>1, <1>2, <1>3

(* Windows open only after their transmission and one after the other.      *)
LEMMA TimersInv ==
  ASSUME IInv, TypeOK', OneAtATime,
         OnRxWindow1TimerEvent \/ OnRxWindow2TimerEvent
         \/ OnAckTimeoutTimerEvent \/ AckTimeoutIsHead
  PROVE  IInv'
<1>1. CASE OnRxWindow1TimerEvent
  BY SMTT(30), <1>1 DEF OnRxWindow1TimerEvent, Start
<1>2. CASE OnRxWindow2TimerEvent
  BY SMTT(30), <1>2 DEF OnRxWindow2TimerEvent, Start
<1>3. CASE OnAckTimeoutTimerEvent
  BY SMTT(30), <1>3 DEF OnAckTimeoutTimerEvent
<1>4. CASE AckTimeoutIsHead
  BY SMTT(30), <1>4 DEF AckTimeoutIsHead
<1>. QED  BY <1>1, <1>2, <1>3, <1>4

(* The radio reports the end of what it was doing, and nothing else.        *)
LEMMA RadioIrqInv ==
  ASSUME IInv, TypeOK', OneAtATime, TxDone \/ RxEnd \/ OnTimeoutIrq PROVE IInv'
<1>1. CASE TxDone
  BY SMTT(30), <1>1 DEF TxDone, RadioIrq, Quiet
<1>2. CASE RxEnd
  BY SMTT(30), <1>2 DEF RxEnd, Receive, RadioIrq, Quiet
<1>3. CASE OnTimeoutIrq
  BY SMTT(30), <1>3 DEF OnTimeoutIrq, RadioIrq, Quiet
<1>. QED  BY <1>1, <1>2, <1>3

LEMMA PollEventsInv ==
  ASSUME IInv, TypeOK', OneAtATime, TakeEvents \/ ClearEvents PROVE IInv'
<1>1. CASE TakeEvents
  BY SMTT(30), <1>1 DEF TakeEvents
<1>2. CASE ClearEvents
  BY SMTT(30), <1>2 DEF ClearEvents
<1>. QED  BY <1>1, <1>2

LEMMA StatusSet ==
  ASSUME TypeOK, NEW status, McpsConfirm' = [McpsConfirm EXCEPT !.Status = status]
  PROVE  /\ McpsConfirm'.McpsRequest = McpsConfirm.McpsRequest
         /\ McpsConfirm'.Status = status
         /\ (McpsConfirm'.AckReceived <=> McpsConfirm.AckReceived)
  BY DEF TypeOK, Confirmation

(* The transmission ends, the windows and AckTimeoutTimer start.            *)
LEMMA ProcessRadioTxDoneInv ==
  ASSUME IInv, TypeOK', OneAtATime, ProcessRadioTxDone PROVE IInv'
<1>. USE DEF NextEvent, Sleep
<1>1. /\ pc = "events" /\ "TxDone" \in taken /\ taken' = taken \ {"TxDone"}
      /\ radio' = "IDLE"
      /\ UNCHANGED <<MacState, MacFlags, ackVars, rxVars, secured, events, RxDoneParams, loopVars,
                       history>>
  BY DEF ProcessRadioTxDone
<1>2. CASE NodeAckRequested
  <2>1. /\ timers' = timers \cup {"RxWindow1", "RxWindow2", "AckTimeout"}
        /\ McpsConfirm' = McpsConfirm
    BY <1>2 DEF ProcessRadioTxDone
  <2>. QED  BY SMTT(30), <1>1, <1>2, <2>1
<1>3. CASE ~NodeAckRequested
  <2>1. /\ timers' = timers \cup {"RxWindow1", "RxWindow2"}
        /\ McpsConfirm' = [McpsConfirm EXCEPT !.Status = "OK"]
    BY <1>3 DEF ProcessRadioTxDone
  <2>2. /\ McpsConfirm'.McpsRequest = McpsConfirm.McpsRequest
        /\ McpsConfirm'.Status = "OK"
        /\ (McpsConfirm'.AckReceived <=> McpsConfirm.AckReceived)
    BY <2>1, StatusSet DEF IInv
  <2>3. timers' = timers \cup {"RxWindow1", "RxWindow2"}
    BY <2>1
  <2>. QED  BY SMTT(30), <1>1, <1>3, <2>3, <2>2
<1>. QED  BY <1>2, <1>3

LEMMA RxDoneSleepInv ==
  ASSUME IInv, TypeOK', OneAtATime, RxDoneSleep PROVE IInv'
  BY SMTT(30) DEF RxDoneSleep, NextEvent, Sleep

(* The end of a reception cancels the second window and, for a frame that   *)
(* is refused or acknowledges, AckTimeoutTimer too.                         *)
LEMMA RxDoneAbortInv ==
  ASSUME IInv, TypeOK', OneAtATime, RxDoneAbort PROVE IInv'
<1>1. /\ pc = "rxDone" /\ pc' = "events"
      /\ MacState' = MacState \cup {"RX_ABORT"}
      /\ MacFlags' = MacFlags \cup {"McpsInd", "MacDone"}
      /\ UNCHANGED <<McpsConfirm, NodeAckRequested, AckTimeoutRetriesCounter, sendVars, RxSlot,
                     eventVars, radioVars, rx2Passed, loaded, history>>
  BY DEF RxDoneAbort
<1>2. Requesting /\ ~acked /\ ~McpsConfirm.AckReceived
  BY DEF RxDoneAbort, IInv, ConfirmIsTrue, ReceivingAlone, RequestServed
<1>3. PICK running \in AckRunningNow :
        IF NodeAckRequested THEN StopAckTimeout(running) ELSE KeepAckTimeout(running)
  BY DEF RxDoneAbort
<1>4. CASE NodeAckRequested
  <2>1. timers' = timers \ {"RxWindow2", "AckTimeout"} /\ AckTimeoutRetry'
    BY <1>3, <1>4 DEF StopAckTimeout
  <2>. QED  BY SMTT(30), <1>1, <1>4, <1>2, <2>1
<1>5. CASE ~NodeAckRequested
  <2>1. timers' = timers \ {"RxWindow2"} /\ UNCHANGED AckTimeoutRetry
    BY <1>3, <1>5 DEF KeepAckTimeout
  <2>. QED  BY SMTT(30), <1>1, <1>5, <1>2, <2>1
<1>. QED  BY <1>4, <1>5

LEMMA RxDoneFrameInv ==
  ASSUME IInv, TypeOK', OneAtATime, RxDoneFrame PROVE IInv'
<1>1. /\ pc = "rxDone" /\ pc' = "events"
      /\ MacFlags' = MacFlags \cup {"McpsInd"} \cup (IF ackRunning' THEN {} ELSE {"MacDone"})
      /\ UNCHANGED <<MacState, NodeAckRequested, AckTimeoutRetriesCounter, sendVars, RxSlot,
                     eventVars, radioVars, rx2Passed, loaded, history>>
  BY DEF RxDoneFrame
<1>2. /\ McpsConfirm'.McpsRequest = McpsConfirm.McpsRequest
      /\ McpsConfirm'.Status \in {"OK", McpsConfirm.Status}
  BY DEF RxDoneFrame, IInv, TypeOK, Confirmation
<1>3. Requesting /\ aired /\ (acked <=> RxDoneParams = "ack") /\ ~McpsConfirm.AckReceived
  BY <1>1 DEF IInv, ConfirmIsTrue, ReceivingAlone, RequestServed
<1>4. McpsConfirm'.AckReceived <=> acked
  <2>1. CASE RxDoneParams = "proprietary"
    BY <1>3, <2>1 DEF RxDoneFrame
  <2>2. CASE RxDoneParams # "proprietary"
    BY <1>3, <2>2 DEF RxDoneFrame, IInv, TypeOK, Confirmation
  <2>. QED  BY <2>1, <2>2
<1>5. CASE NodeAckRequested /\ McpsConfirm'.AckReceived
  <2>1. timers' = timers \ {"RxWindow2", "AckTimeout"} /\ AckTimeoutRetry'
    BY <1>5, Zenon DEF RxDoneFrame, StopAckTimeout
  <2>. QED  BY SMTT(30), <1>1, <1>2, <1>3, <1>4, <1>5, <2>1
<1>6. CASE ~(NodeAckRequested /\ McpsConfirm'.AckReceived)
  <2>1. timers' = timers \ {"RxWindow2"} /\ UNCHANGED AckTimeoutRetry
    BY <1>6, Zenon DEF RxDoneFrame, KeepAckTimeout
  <2>. QED  BY SMTT(30), <1>1, <1>2, <1>3, <1>4, <1>6, <2>1
<1>. QED  BY <1>5, <1>6

(* A reception that fails in the first window leaves the second one to come, *)
(* or finds its time passed and ends the procedure.                         *)
LEMMA RxFailInv ==
  ASSUME IInv, TypeOK', OneAtATime, ProcessRadioTxTimeout \/ RxFailSleep \/ RxFail PROVE IInv'
<1>1. CASE ProcessRadioTxTimeout
  BY SMTT(30), <1>1 DEF ProcessRadioTxTimeout, NextEvent, Sleep
<1>2. CASE RxFailSleep
  BY SMTT(30), <1>2 DEF RxFailSleep, NextEvent, Sleep
<1>3. CASE RxFail
  BY SMTT(30), <1>3 DEF RxFail
<1>. QED  BY <1>1, <1>2, <1>3

LEMMA DecideInv ==
  ASSUME IInv, TypeOK', OneAtATime, CheckMacDone \/ Stop \/ Wait PROVE IInv'
<1>1. CASE CheckMacDone
  BY SMTT(30), <1>1 DEF CheckMacDone, Goto
<1>2. CASE Stop
  BY SMTT(30), <1>2 DEF Stop, MayGoOn, MustStop, CheckRetransConfirmedUplink,
     CheckRetransUnconfirmedUplink, Goto, StopRetransmission
<1>3. CASE Wait
  BY SMTT(30), <1>3 DEF Wait, MayGoOn, MustWait, Goto
<1>. QED  BY <1>1, <1>2, <1>3

LEMMA GiveUpInv ==
  ASSUME IInv, TypeOK', OneAtATime, GiveUp PROVE IInv'
<1>1. /\ pc = "decide"
      /\ ~Requesting \/ TxTimedOut
      /\ Goto("confirm")
      /\ UNCHANGED <<MacFlags, ackVars, sendVars, radioVars, timers, loaded, result>>
  BY DEF GiveUp
<1>2. CASE Requesting
  <2>1. /\ MacState' = MacState \ {"TX_RUNNING"}
        /\ McpsConfirm'.McpsRequest = McpsConfirm.McpsRequest
        /\ McpsConfirm'.Status = McpsConfirm.Status
        /\ ~McpsConfirm'.AckReceived
    BY <1>2 DEF GiveUp, IInv, TypeOK, Confirmation
  <2>. QED  BY SMTT(30), <1>1, <1>2, <2>1 DEF Goto
<1>3. CASE ~Requesting
  <2>1. UNCHANGED <<MacState, McpsConfirm>>
    BY <1>3 DEF GiveUp
  <2>. QED  BY SMTT(30), <1>1, <1>3, <2>1 DEF Goto
<1>. QED  BY <1>2, <1>3

(* A frame is sent again only if it was not acknowledged: the downlink that *)
(* acknowledged it set McpsInd too, which stops the procedure.              *)
LEMMA RetransmitInv ==
  ASSUME IInv, TypeOK', OneAtATime, Retransmit PROVE IInv'
<1>1. /\ pc = "decide" /\ pc' = "confirm"
      /\ Requesting /\ ~TxTimedOut
      /\ MacFlags' = MacFlags \ {"MacDone"}
      /\ ~AckTimeoutRetry'
      /\ UNCHANGED <<rxVars, eventVars, request, aired, acked, result, loaded>>
  BY GotoFrame DEF Retransmit, MayGoOn
<1>2. Confirmed => AckTimeoutRetry /\ ("McpsInd" \in MacFlags => ~McpsConfirm.AckReceived)
  BY DEF Retransmit, MustStop, MustWait, CheckRetransConfirmedUplink
<1>3. ~Confirmed => "McpsInd" \notin MacFlags
  BY DEF Retransmit, MustStop, CheckRetransUnconfirmedUplink
<1>4. ~acked
  BY <1>1, <1>2, <1>3 DEF IInv, ConfirmIsTrue, AckEnds, Stages, AckAwaited
<1>5. CASE Resent
  <2>1. /\ McpsConfirm'.McpsRequest = McpsConfirm.McpsRequest
        /\ McpsConfirm'.Status = "ERROR"
        /\ (McpsConfirm'.AckReceived <=> McpsConfirm.AckReceived)
    BY <1>5 DEF Resent, SendFrameOnChannel, IInv, TypeOK, Confirmation
  <2>2. /\ radio' = "TX_RUNNING"
        /\ MacState' = (MacState \ {"TX_DELAYED"}) \cup {"TX_RUNNING"}
        /\ timers' = timers \ {"TxDelayed"}
        /\ UNCHANGED <<ChannelsNbTransCounter, NodeAckRequested>>
    BY <1>5 DEF Resent, SendFrameOnChannel, Start
  <2>. QED  BY SMTT(30), <1>1, <1>2, <1>3, <1>4, <2>1, <2>2
<1>6. CASE Delayed
  BY SMTT(30), <1>1, <1>2, <1>3, <1>4, <1>6 DEF Delayed
<1>7. CASE NotResent
  <2>1. /\ McpsConfirm'.McpsRequest = McpsConfirm.McpsRequest
        /\ McpsConfirm'.Status = "ERROR"
        /\ (McpsConfirm'.AckReceived <=> McpsConfirm.AckReceived)
    BY <1>7 DEF NotResent, IInv, TypeOK, Confirmation
  <2>2. /\ radio' = "IDLE" /\ ~secured' /\ ~NodeAckRequested'
        /\ MacState' = MacState \ {"TX_DELAYED", "TX_RUNNING"}
        /\ timers' = timers \ {"TxDelayed"}
    BY <1>7 DEF NotResent, Sleep, StopRetransmission
  <2>. QED  BY SMTT(30), <1>1, <1>2, <1>3, <1>4, <2>1, <2>2
<1>. QED  BY <1>5, <1>6, <1>7 DEF Retransmit

(* The confirmation of a frame that kept its counter says that it failed.   *)
LEMMA MacMcpsConfirmInv ==
  ASSUME IInv, TypeOK', OneAtATime, MacMcpsConfirm PROVE IInv'
<1>1. /\ pc = "confirmed" /\ pc' = "reset"
      /\ request' = None
      /\ UNCHANGED <<MacState, MacFlags, McpsConfirm, ackVars, sendVars, rxVars, eventVars, radioVars,
                     timerVars, loaded, aired, acked>>
  BY DEF MacMcpsConfirm
<1>2. result' = [McpsRequest |-> McpsConfirm.McpsRequest, Ok |-> McpsConfirm.Status = "OK",
                 AckReceived |-> McpsConfirm.AckReceived]
  BY DEF MacMcpsConfirm
<1>3. secured' => McpsConfirm.Status # "OK"
  BY <1>1 DEF IInv, CounterIsFree, Stages
<1>4. secured' => ~result'.Ok
  BY <1>2, <1>3
<1>5. CounterIsFree'
  <2>1. /\ McpsConfirm.McpsRequest \in {"UNCONFIRMED", "CONFIRMED"}
        /\ McpsConfirm.AckReceived \in BOOLEAN
    BY DEF IInv, TypeOK, Confirmation
  <2>2. PICK ok \in BOOLEAN : ok = (McpsConfirm.Status = "OK")
    BY Zenon
  <2>3. result' = [McpsRequest |-> McpsConfirm.McpsRequest, Ok |-> ok,
                   AckReceived |-> McpsConfirm.AckReceived]
    BY <1>2, <2>2, Zenon
  <2>4. result' \in [McpsRequest : {"UNCONFIRMED", "CONFIRMED"}, Ok : BOOLEAN,
                     AckReceived : BOOLEAN]
    BY <2>1, <2>3
  <2>5. result' # None
    BY <2>4
  <2>. QED  BY <1>1, <1>4, <2>5 DEF CounterIsFree
<1>. QED  BY SMTT(30), <1>1, <1>5

LEMMA LoopInv ==
  ASSUME IInv, TypeOK', OneAtATime,
         IsIdle \/ ConfirmLoad \/ ConfirmStore \/ ResetLoad \/ ResetStore
         \/ IndicateLoad \/ IndicateStore \/ MacMcpsIndication
  PROVE  IInv'
<1>1. CASE IsIdle
  BY SMTT(30), <1>1 DEF IsIdle, Goto
<1>2. CASE ResetLoad
  BY SMTT(30), <1>2 DEF ResetLoad, Goto
<1>3. CASE ResetStore
  BY SMTT(30), <1>3 DEF ResetStore, Goto
<1>4. CASE IndicateLoad
  BY SMTT(30), <1>4 DEF IndicateLoad, Goto
<1>5. CASE IndicateStore
  BY SMTT(30), <1>5 DEF IndicateStore, Goto
<1>6. CASE MacMcpsIndication
  BY SMTT(30), <1>6 DEF MacMcpsIndication, Goto
<1>7. CASE ConfirmLoad
  BY SMTT(30), <1>7 DEF ConfirmLoad, Goto
<1>8. CASE ConfirmStore
  BY SMTT(30), <1>8 DEF ConfirmStore, Goto
<1>. QED  BY <1>1, <1>2, <1>3, <1>4, <1>5, <1>6, <1>7, <1>8

LEMMA InitInv == Init => IInv
<1>. SUFFICES ASSUME Init PROVE IInv
  OBVIOUS
<1>1. TypeOK
  BY InitType
<1>. QED  BY <1>1 DEF Init

LEMMA StepInv ==
  ASSUME IInv, OneAtATime, [Next]_vars PROVE IInv'
<1>1. TypeOK'
  BY StepType DEF IInv
<1>2. CASE McpsRequest
  BY <1>1, <1>2, RequestedInv, RequestFailedInv DEF McpsRequest
<1>3. CASE TimerIrq
  BY <1>1, <1>3, OnTxDelayedTimerEventInv, TimersInv DEF TimerIrq
<1>4. CASE AckTimeoutIsHead
  BY <1>1, <1>4, TimersInv
<1>5. CASE TxDone \/ RxEnd \/ OnTimeoutIrq
  BY <1>1, <1>5, RadioIrqInv
<1>6. CASE HandleEvent
  BY <1>1, <1>6, PollEventsInv, ProcessRadioTxDoneInv, RxDoneSleepInv, RxDoneAbortInv,
     RxDoneFrameInv, RxFailInv DEF HandleEvent
<1>7. CASE LoRaMacProcess
  BY <1>1, <1>6, <1>7, DecideInv, GiveUpInv, RetransmitInv, MacMcpsConfirmInv, LoopInv
     DEF LoRaMacProcess
<1>8. CASE UNCHANGED vars
  BY <1>8 DEF vars
<1>. QED  BY <1>2, <1>3, <1>4, <1>5, <1>7, <1>8 DEF Next

(* A step of the MAC is a step of McpsService, or none that it sees.        *)
LEMMA StepServes ==
  ASSUME IInv, OneAtATime, [Next]_vars PROVE [Service!Next]_(Service!serviceVars)
<1>1. CASE UNCHANGED history
  BY <1>1 DEF Service!serviceVars
<1>2. ASSUME NEW t \in Types, Requested(t) PROVE Service!Accept(t)
  <2>1. request = None
    BY <1>2 DEF Requested, MayRequest, InCallback
  <2>. QED  BY <1>2, <2>1 DEF Requested, Service!Accept
<1>3. CASE TxDone
  <2>1. request # None
    BY <1>3 DEF TxDone
  <2>. QED  BY <1>3, <2>1 DEF TxDone, RadioIrq, Service!Next, Service!Air
<1>4. CASE RxEnd
  <2>1. request # None /\ UNCHANGED <<request, aired, result>>
    BY <1>4 DEF RxEnd, RadioIrq
  <2>2. CASE acked' = acked
    BY <2>1, <2>2 DEF Service!serviceVars
  <2>3. CASE acked' # acked
    <3>1. aired /\ acked' = TRUE
      <4>1. Receive
        BY <1>4, <2>3 DEF RxEnd
      <4>2. RxDoneParams' = "ack" \/ acked' = acked
        BY <4>1, Zenon DEF Receive, TypeOK
      <4>3. acked' = TRUE
        BY <2>3, <4>1, <4>2, Zenon DEF Receive
      <4>4. aired
        BY <2>3, <4>1, <4>2 DEF Receive
      <4>. QED  BY <4>3, <4>4
    <3>. QED  BY <2>1, <3>1 DEF Service!Next, Service!Acknowledge
  <2>. QED  BY <2>2, <2>3
<1>5. CASE MacMcpsConfirm
  <2>1. /\ request = McpsConfirm.McpsRequest /\ request # None
        /\ McpsConfirm.Status = "OK" => aired
        /\ McpsConfirm.AckReceived <=> acked
    BY <1>5 DEF MacMcpsConfirm
  <2>2. McpsConfirm.AckReceived = acked
    BY <2>1 DEF Confirmation
  <2>3. PICK ok \in BOOLEAN : ok = (McpsConfirm.Status = "OK")
    BY Zenon
  <2>4. result' = [McpsRequest |-> request, Ok |-> ok, AckReceived |-> acked]
    BY <1>5, <2>1, <2>2, <2>3, Zenon DEF MacMcpsConfirm
  <2>5. ok => aired
    BY <2>1, <2>3
  <2>6. request' = None /\ UNCHANGED <<aired, acked>>
    BY <1>5 DEF MacMcpsConfirm
  <2>. QED  BY <2>1, <2>4, <2>5, <2>6, Zenon DEF Service!Next, Service!Confirm
<1>6. CASE RequestFailed \/ OnTxDelayedTimerEvent \/ AckTimeoutIsHead
  BY <1>1, <1>6 DEF RequestFailed, OnTxDelayedTimerEvent, AckTimeoutIsHead
<1>7. CASE OnRxWindow1TimerEvent \/ OnRxWindow2TimerEvent \/ OnAckTimeoutTimerEvent
  BY <1>1, <1>7 DEF OnRxWindow1TimerEvent, OnRxWindow2TimerEvent, OnAckTimeoutTimerEvent
<1>8. CASE OnTimeoutIrq
  BY <1>1, <1>8 DEF OnTimeoutIrq, RadioIrq
<1>9. CASE TakeEvents \/ ClearEvents \/ ProcessRadioTxDone
  BY <1>1, <1>9 DEF TakeEvents, ClearEvents, ProcessRadioTxDone
<1>10. CASE RxDoneSleep \/ RxDoneAbort \/ RxDoneFrame \/ ProcessRadioTxTimeout
            \/ RxFailSleep \/ RxFail
  BY <1>1, <1>10 DEF RxDoneSleep, RxDoneAbort, RxDoneFrame, ProcessRadioTxTimeout, RxFailSleep,
     RxFail
<1>11. CASE CheckMacDone \/ GiveUp \/ Stop \/ Wait \/ Retransmit \/ IsIdle
  BY <1>1, <1>11, GotoFrame DEF CheckMacDone, GiveUp, Stop, Wait, Retransmit, IsIdle
<1>12. CASE ConfirmLoad \/ ConfirmStore \/ ResetLoad \/ ResetStore \/ IndicateLoad
            \/ IndicateStore \/ MacMcpsIndication
  BY <1>1, <1>12, GotoFrame DEF ConfirmLoad, ConfirmStore, ResetLoad, ResetStore, IndicateLoad, IndicateStore,
     MacMcpsIndication
<1>13. CASE UNCHANGED vars
  BY <1>1, <1>13 DEF vars
<1>. QED  BY <1>2, <1>3, <1>4, <1>5, <1>6, <1>7, <1>8, <1>9, <1>10, <1>11, <1>12, <1>13
          DEF Next, McpsRequest, TimerIrq, LoRaMacProcess, HandleEvent, Service!Next

-------------------------------------------------------------------------------
(***************************************************************************)
(* The theorems                                                            *)
(***************************************************************************)

HIDE DEF IInv, TypeOK, OneAtATime

(* IInv is an invariant as long as no two of the events of Races meet and   *)
(* no interrupt asks for a transmission while LoRaMacProcess confirms the   *)
(* one before or writes MacFlags back.                                      *)
THEOREM Invariance ==
  ASSUME OneAtATime PROVE Spec => []IInv
<1>1. IInv /\ [Next]_vars => IInv'
  BY StepInv
<1>. QED  BY <1>1, InitInv, PTL DEF Spec

(* WindowsClosedWhileSending is an invariant: neither a retransmission of   *)
(* LoRaMacProcess nor one of OnTxDelayedTimerEvent goes out while a receive *)
(* window of the transmission before is still to open.                      *)
THEOREM WindowsClosed ==
  ASSUME OneAtATime PROVE Spec => []WindowsClosedWhileSending
<1>1. IInv => WindowsClosedWhileSending
  BY DEF IInv, WindowsClosedWhileSending
<1>. QED  BY <1>1, Invariance, PTL

(* NoSendWhileSending holds of every step: no frame is cut off by another   *)
(* one.                                                                     *)
THEOREM NothingCutOff ==
  ASSUME OneAtATime PROVE Spec => NoSendWhileSending
<1>1. ASSUME IInv, radio = "TX_RUNNING" PROVE ~(Retransmit \/ OnTxDelayedTimerEvent \/ McpsRequest)
  <2>1. ~Retransmit
    BY <1>1 DEF IInv, Retransmit, MayGoOn
  <2>2. ~OnTxDelayedTimerEvent
    BY <1>1 DEF IInv, OnTxDelayedTimerEvent
  <2>3. ~McpsRequest
    BY <1>1 DEF IInv, McpsRequest, Requested, RequestFailed, MayRequest
  <2>. QED  BY <2>1, <2>2, <2>3
<1>2. IInv /\ [Next]_vars =>
        [radio = "TX_RUNNING" => ~(Retransmit \/ OnTxDelayedTimerEvent \/ McpsRequest)]_vars
  BY <1>1
<1>. QED  BY <1>2, Invariance, PTL DEF Spec, NoSendWhileSending

(* CounterReusedAfterFailure holds of every step: a frame counter is used   *)
(* for a second frame only if the client was told that the first one        *)
(* failed.                                                                  *)
THEOREM CounterFresh ==
  ASSUME OneAtATime PROVE Spec => CounterReusedAfterFailure
<1>1. ASSUME IInv, NEW t \in Types, Requested(t), secured PROVE result # None /\ ~result.Ok
  BY <1>1 DEF IInv, OneAtATime, Requested, MayRequest, InCallback
<1>2. IInv /\ [Next]_vars =>
        [(\E t \in Types : Requested(t)) => (secured => result # None /\ ~result.Ok)]_vars
  BY <1>1
<1>. QED  BY <1>2, Invariance, PTL DEF Spec, CounterReusedAfterFailure

(* ServesSafely: the MAC implements McpsService.  A request is accepted     *)
(* only when the one before was confirmed, each one is confirmed once, with *)
(* its own kind, as OK only if its frame went out, and as acknowledged      *)
(* exactly if it was.                                                       *)
THEOREM Refinement ==
  ASSUME OneAtATime PROVE Spec => ServesSafely
<1>1. Init => Service!Init
  BY DEF Init, Service!Init
<1>2. IInv /\ [Next]_vars => [Service!Next]_(Service!serviceVars)
  BY StepServes
<1>. QED  BY <1>1, <1>2, Invariance, PTL DEF Spec, ServesSafely, Service!SafeSpec
===============================================================================
