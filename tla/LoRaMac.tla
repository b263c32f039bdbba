-------------------------------- MODULE LoRaMac --------------------------------
(***************************************************************************)
(* The uplink procedure of the MAC, Lora/Mac/LoRaMac.c, for an activated   *)
(* class A node: a client hands a frame over, the radio sends it, two      *)
(* receive windows open one after the other, the frame may be sent again,  *)
(* and the client gets a confirmation.                                     *)
(*                                                                         *)
(* LoRaMacProcess runs in the main loop and is split where an interrupt    *)
(* can change what it goes on with: between reading the events of the      *)
(* radio and handling each of them, around Radio.Sleep, between the stages *)
(* of its own logic, and inside the read-modify-write of the MacFlags byte. *)
(* The interrupts (radio, timers, clients) have one priority and are one   *)
(* step each.  Clients call from callbacks of the main loop and from        *)
(* interrupts: main.c sends from the one of its TxTimer.                    *)
(*                                                                         *)
(* request, aired, acked and result are history: no guard of the code      *)
(* reads them.                                                             *)
(***************************************************************************)
EXTENDS Naturals

CONSTANTS
  Types,              (* kinds of MCPS request the clients make              *)
  ChannelsNbTrans,    (* transmissions of an unconfirmed frame               *)
  NbTrials,           (* transmissions of a confirmed frame                  *)
  TxTimeouts,         (* the radio may fail to report the end of a transmission *)
  Races,              (* two of these may be microseconds apart: a timeout of
                         the radio and the end of the reception; the handling
                         of the first window and the start of the second one;
                         the start of TxDelayedTimer and its end             *)
  IrqOverlaps,        (* an interrupt may ask for a transmission in the
                         microseconds in which LoRaMacProcess confirms the one
                         before, or writes MacFlags back                     *)
  None                (* no request, no confirmation                         *)

ASSUME MacAssumption ==
  /\ Types \subseteq {"UNCONFIRMED", "CONFIRMED"}
  /\ ChannelsNbTrans \in Nat \ {0}
  /\ NbTrials \in Nat \ {0}
  /\ TxTimeouts \in BOOLEAN
  /\ Races \in BOOLEAN
  /\ IrqOverlaps \in BOOLEAN
  /\ None \notin Types
  /\ None \notin [McpsRequest : {"UNCONFIRMED", "CONFIRMED"}, Ok : BOOLEAN, AckReceived : BOOLEAN]

VARIABLES
  MacState,           (* set of bits; LORAMAC_IDLE is the empty set          *)
  MacFlags,           (* set of bits MacDone, McpsReq, McpsInd               *)
  McpsConfirm,        (* what the confirmation will say                      *)
  McpsIndicationOk,   (* McpsIndication.Status of the last downlink is OK    *)
  NodeAckRequested,
  AckTimeoutRetry,
  AckTimeoutRetriesCounter,
  ChannelsNbTransCounter, (* counted up to ChannelsNbTrans                   *)
  RxSlot,
  secured,            (* the next uplink counter is on a frame that was sent:
                         FCntUp of LoRaMacCrypto.c is one ahead of FCntUp of
                         LoRaMacFCntHandler.c                                *)
  events,             (* LoRaMacRadioEvents                                  *)
  taken,              (* the copy that LoRaMacHandleIrqEvents works on       *)
  RxDoneParams,       (* the frame received last: refused, proprietary, data, or
                         data with the ACK bit                               *)
  radio,              (* state of the sx1276                                 *)
  guards,             (* its started timers: TxTimeoutTimer, RxTimeoutTimer  *)
  timers,             (* started timers of the MAC                           *)
  ackRunning,         (* AckTimeoutTimer.IsRunning                           *)
  rx2Passed,          (* RxWindow2Delay went by since the last TxDone        *)
  pc,                 (* where LoRaMacProcess is                             *)
  loaded,             (* MacFlags, read to be written back                   *)
  request, aired, acked, result

sendVars == <<secured, ChannelsNbTransCounter>>
rxVars == <<RxSlot, McpsIndicationOk>>
eventVars == <<events, taken, RxDoneParams>>
loopVars == <<pc, loaded>>
ackVars == <<NodeAckRequested, AckTimeoutRetry, AckTimeoutRetriesCounter>>
radioVars == <<radio, guards>>
timerVars == <<timers, ackRunning, rx2Passed>>
history == <<request, aired, acked, result>>
vars == <<MacState, MacFlags, McpsConfirm, ackVars, sendVars, rxVars, eventVars, radioVars,
          timerVars, loopVars, history>>

(* Fault: a delayed frame is forgotten.                                     *)
IdleIfNotRunning == "TX_RUNNING" \notin MacState

Idle == MacState = {}

(* Between Radio.Sleep and the rest of the handler of a radio event, in     *)
(* which a timer may start the radio.                                       *)
Gap == {"rxDone", "rxFail"}

(* The rest of LoRaMacProcess, once it may have started TxDelayedTimer.      *)
Rest == {"confirm", "indicate", "indicateStore", "indicating"}

-------------------------------------------------------------------------------
(***************************************************************************)
(* The radio                                                               *)
(***************************************************************************)

(* SX1276SetTx, SX1276SetRx.                                                *)
Start(state, timeouts) ==
  /\ radio' = state
  /\ guards' = timeouts

(* SX1276SetSleep.                                                          *)
Sleep ==
  /\ radio' = "IDLE"
  /\ guards' = {}

(***************************************************************************)
(* Sending a frame                                                         *)
(***************************************************************************)

(* SendFrameOnChannel, after SecureFrame.  The channel has been listened to *)
(* and the radio put to sleep before.                                       *)
SendFrameOnChannel(type) ==
  /\ Start("TX_RUNNING", {"TxTimeout"})
  /\ secured' = TRUE
  /\ McpsConfirm' = [McpsConfirm EXCEPT !.McpsRequest = type, !.Status = "ERROR"]

(* Fault: the counter is left as it is.                                     *)
StopRetransmissionKeepsCounter ==
  /\ ChannelsNbTransCounter' = 0
  /\ NodeAckRequested' = FALSE
  /\ AckTimeoutRetry' = FALSE
  /\ UNCHANGED secured

(* The procedure ends, and the next frame gets the next counter.            *)
StopRetransmission ==
  /\ secured' = FALSE
  /\ ChannelsNbTransCounter' = 0
  /\ NodeAckRequested' = FALSE
  /\ AckTimeoutRetry' = FALSE

(* OnTxDelayedTimerEvent: the frame is sent, waits for the duty cycle, or    *)
(* cannot be sent any more (no free channel, payload too long for the data  *)
(* rate), which ends the procedure.                                         *)
Resent ==
  /\ SendFrameOnChannel(McpsConfirm.McpsRequest)
  /\ MacState' = (MacState \ {"TX_DELAYED"}) \cup {"TX_RUNNING"}
  /\ timers' = timers \ {"TxDelayed"}
  /\ UNCHANGED <<ChannelsNbTransCounter, NodeAckRequested>>

Delayed ==
  /\ MacState' = MacState \cup {"TX_DELAYED"}
  /\ timers' = timers \cup {"TxDelayed"}
  /\ UNCHANGED <<radioVars, McpsConfirm, sendVars, NodeAckRequested>>

NotResent ==
  /\ Sleep
  /\ McpsConfirm' = [McpsConfirm EXCEPT !.Status = "ERROR"]
  /\ MacState' = MacState \ {"TX_DELAYED", "TX_RUNNING"}
  /\ timers' = timers \ {"TxDelayed"}
  /\ StopRetransmission

-------------------------------------------------------------------------------
(***************************************************************************)
(* LoRaMacMcpsRequest, which finds the MAC idle                            *)
(***************************************************************************)

(* Fault: the first transmission is not counted.                            *)
BeginAtZero(type) ==
  /\ McpsConfirm' = [McpsRequest |-> type, Status |-> "ERROR", AckReceived |-> FALSE]
  /\ AckTimeoutRetriesCounter' = 0

Begin(type) ==
  /\ McpsConfirm' = [McpsRequest |-> type, Status |-> "ERROR", AckReceived |-> FALSE]
  /\ AckTimeoutRetriesCounter' = 1

(* The callbacks of the main loop.                                          *)
InCallback == pc = "reset" \/ (pc = "indicating" /\ McpsIndicationOk)

Requesting == "McpsReq" \in MacFlags

(* The request before is to be confirmed, or MacFlags to be written back.    *)
Overlapping ==
  \/ Requesting
  \/ pc \in {"confirmStore", "confirmed", "resetStore", "indicateStore"}

(* Fault: the state of the MAC is not looked at.                            *)
MayRequestBusy == InCallback \/ IrqOverlaps \/ ~Overlapping

MayRequest ==
  /\ Idle
  /\ InCallback \/ IrqOverlaps \/ ~Overlapping

Requested(t) ==
  /\ MayRequest
  /\ Begin(t)
  /\ NodeAckRequested' = (t = "CONFIRMED")
  /\ Start("TX_RUNNING", {"TxTimeout"})
  /\ secured' = TRUE
  /\ MacState' = {"TX_RUNNING"}
  /\ MacFlags' = MacFlags \cup {"McpsReq"}
  /\ request' = t
  /\ aired' = FALSE
  /\ acked' = FALSE
  /\ UNCHANGED <<AckTimeoutRetry, ChannelsNbTransCounter, rxVars, eventVars, timerVars, loopVars,
                 result>>

(* No channel is free, the duty cycle forbids it, the payload does not fit, *)
(* or the port or the data rate is refused, before NodeAckRequested is set. *)
RequestFailed ==
  /\ MayRequest
  /\ Begin("UNCONFIRMED")
  /\ \/ NodeAckRequested' = FALSE /\ Sleep
     \/ NodeAckRequested' \in {FALSE, NodeAckRequested} /\ UNCHANGED radioVars
  /\ UNCHANGED <<MacState, MacFlags, AckTimeoutRetry, sendVars, rxVars, eventVars, timerVars,
                 loopVars, history>>

-------------------------------------------------------------------------------
(***************************************************************************)
(* Timer interrupts.  RxWindow1 is due before RxWindow2, and both before   *)
(* AckTimeout, which they are started with.                                *)
(***************************************************************************)

OnTxDelayedTimerEvent ==
  /\ "TxDelayed" \in timers
  /\ Races \/ pc \notin Rest
  /\ \/ Resent /\ UNCHANGED AckTimeoutRetry
     \/ Delayed /\ UNCHANGED AckTimeoutRetry
     \/ NotResent
  /\ UNCHANGED <<MacFlags, AckTimeoutRetriesCounter, rxVars, eventVars, ackRunning, rx2Passed,
                 loopVars, history>>

(* The first window opens whatever the radio does.                          *)
OnRxWindow1TimerEvent ==
  /\ "RxWindow1" \in timers
  /\ timers' = timers \ {"RxWindow1"}
  /\ RxSlot' = "WIN_1"
  /\ Start("RX_RUNNING", guards \cup {"RxTimeout"})
  /\ UNCHANGED <<MacState, MacFlags, McpsConfirm, McpsIndicationOk, ackVars, sendVars, eventVars,
                 ackRunning, rx2Passed, loopVars, history>>

(* The second one only if the radio is idle (RegionRxConfig).               *)
OnRxWindow2TimerEvent ==
  /\ "RxWindow2" \in timers
  /\ "RxWindow1" \notin timers
  /\ Races \/ pc \notin Gap
  /\ timers' = timers \ {"RxWindow2"}
  /\ rx2Passed' = TRUE
  /\ IF radio = "IDLE"
     THEN /\ RxSlot' = "WIN_2"
          /\ Start("RX_RUNNING", {"RxTimeout"})
     ELSE UNCHANGED <<RxSlot, radioVars>>
  /\ UNCHANGED <<MacState, MacFlags, McpsConfirm, McpsIndicationOk, ackVars, sendVars, eventVars,
                 ackRunning, loopVars, history>>

(* The timer server leaves IsRunning as it is.                              *)
OnAckTimeoutTimerEvent ==
  /\ "AckTimeout" \in timers
  /\ timers \cap {"RxWindow1", "RxWindow2"} = {}
  /\ timers' = timers \ {"AckTimeout"}
  /\ AckTimeoutRetry' = (AckTimeoutRetry \/ NodeAckRequested)
  /\ UNCHANGED <<MacState, MacFlags, McpsConfirm, NodeAckRequested, AckTimeoutRetriesCounter,
                 sendVars, rxVars, eventVars, radioVars, ackRunning, rx2Passed, loopVars, history>>

(* It becomes the head of the list of timers, or another timer is started   *)
(* before it.                                                               *)
AckTimeoutIsHead ==
  /\ "AckTimeout" \in timers
  /\ timers \cap {"RxWindow1", "RxWindow2"} = {}
  /\ ackRunning' = ~ackRunning
  /\ UNCHANGED <<MacState, MacFlags, McpsConfirm, ackVars, sendVars, rxVars, eventVars, radioVars,
                 timers, rx2Passed, loopVars, history>>

-------------------------------------------------------------------------------
(***************************************************************************)
(* Radio interrupts                                                        *)
(***************************************************************************)

RadioIrq(event) ==
  /\ events' = events \cup {event}
  /\ UNCHANGED <<MacState, MacFlags, McpsConfirm, ackVars, sendVars, rxVars, taken, timerVars,
                 loopVars, request, result>>

(* No transmission or reception is short enough to end before the main loop *)
(* has handled the end of the one before.                                   *)
Quiet == events = {} /\ taken = {} /\ pc \notin Gap

(* SX1276OnDio0Irq, SX1276OnDio1Irq, then OnRadioTxDone, OnRadioRxDone,     *)
(* OnRadioRxError, OnRadioRxTimeout.                                        *)
TxDone ==
  /\ radio = "TX_RUNNING"
  /\ Quiet
  /\ radio' = "IDLE"
  /\ guards' = guards \ {"TxTimeout"}
  /\ aired' = TRUE
  /\ RadioIrq("TxDone")
  /\ UNCHANGED <<RxDoneParams, acked>>

(* The network may set the ACK bit once it heard the frame.                  *)
Receive ==
  /\ RxDoneParams' \in {"refused", "proprietary", "data"} \cup (IF aired THEN {"ack"} ELSE {})
  /\ acked' = (acked \/ RxDoneParams' = "ack")

RxEnd ==
  /\ radio = "RX_RUNNING"
  /\ Quiet \/ (Races /\ "RxTimeout" \notin guards)
  /\ radio' = "IDLE"
  /\ guards' = guards \ {"RxTimeout"}
  /\ \/ RadioIrq("RxDone") /\ Receive
     \/ /\ \E event \in {"RxError", "RxTimeout"} : RadioIrq(event)
        /\ UNCHANGED <<RxDoneParams, acked>>
  /\ UNCHANGED aired

(* SX1276OnTimeoutIrq: what has timed out depends on the state of the radio, *)
(* which goes on receiving.                                                 *)
OnTimeoutIrq ==
  /\ Quiet
  /\ \E guard \in guards : guards' = guards \ {guard}
  /\ \/ /\ radio = "RX_RUNNING"
        /\ UNCHANGED radio
        /\ RadioIrq("RxTimeout")
     \/ /\ radio = "TX_RUNNING" /\ TxTimeouts
        /\ radio' = "IDLE"
        /\ RadioIrq("TxTimeout")
  /\ UNCHANGED <<RxDoneParams, aired, acked>>

-------------------------------------------------------------------------------
(***************************************************************************)
(* LoRaMacProcess: the events of the radio                                 *)
(***************************************************************************)

(* LoRaMacHandleIrqEvents copies the events, clears them, and handles the   *)
(* copy in this order.                                                      *)
TakeEvents ==
  /\ pc = "poll"
  /\ taken' = events
  /\ pc' = IF events = {} THEN "events" ELSE "clear"
  /\ UNCHANGED <<MacState, MacFlags, McpsConfirm, ackVars, sendVars, rxVars, events, RxDoneParams,
                 radioVars, timerVars, loaded, history>>

ClearEvents ==
  /\ pc = "clear"
  /\ events' = {}
  /\ pc' = "events"
  /\ UNCHANGED <<MacState, MacFlags, McpsConfirm, ackVars, sendVars, rxVars, taken, RxDoneParams,
                 radioVars, timerVars, loaded, history>>

NextEvent(event, before) ==
  /\ pc = "events"
  /\ event \in taken
  /\ taken \cap before = {}
  /\ taken' = taken \ {event}

ProcessRadioTxDone ==
  /\ NextEvent("TxDone", {})
  /\ Sleep
  /\ rx2Passed' = FALSE
  /\ IF NodeAckRequested
     THEN /\ timers' = timers \cup {"RxWindow1", "RxWindow2", "AckTimeout"}
          /\ ackRunning' = FALSE
          /\ UNCHANGED <<McpsConfirm, ChannelsNbTransCounter>>
     ELSE /\ timers' = timers \cup {"RxWindow1", "RxWindow2"}
          /\ McpsConfirm' = [McpsConfirm EXCEPT !.Status = "OK"]
          /\ ChannelsNbTransCounter' = IF ChannelsNbTransCounter < ChannelsNbTrans
                                       THEN ChannelsNbTransCounter + 1
                                       ELSE ChannelsNbTransCounter
          /\ UNCHANGED ackRunning
  /\ UNCHANGED <<MacState, MacFlags, ackVars, rxVars, secured, events, RxDoneParams, loopVars,
                 history>>

(* ProcessRadioRxDone up to Radio.Sleep ...                                 *)
RxDoneSleep ==
  /\ NextEvent("RxDone", {"TxDone"})
  /\ McpsConfirm' = [McpsConfirm EXCEPT !.AckReceived = FALSE]
  /\ Sleep
  /\ pc' = "rxDone"
  /\ UNCHANGED <<MacState, MacFlags, ackVars, sendVars, rxVars, events, RxDoneParams, timerVars,
                 loaded, history>>

(* ... TimerStop of RxWindowTimer2, which may put AckTimeoutTimer at the     *)
(* head of the list, or leave it there ...                                  *)
AckRunningNow ==
  IF "AckTimeout" \in timers /\ "RxWindow1" \notin timers THEN BOOLEAN ELSE {ackRunning}

(* ... OnAckTimeoutTimerEvent, called when the answer is there ...          *)
StopAckTimeout(running) ==
  /\ timers' = timers \ {"RxWindow2", "AckTimeout"}
  /\ ackRunning' = IF "AckTimeout" \in timers THEN FALSE ELSE running
  /\ AckTimeoutRetry' = TRUE

(* Fault: the second window is not cancelled.                               *)
KeepAckTimeoutAndWindow(running) ==
  /\ ackRunning' = running
  /\ UNCHANGED <<timers, AckTimeoutRetry>>

KeepAckTimeout(running) ==
  /\ timers' = timers \ {"RxWindow2"}
  /\ ackRunning' = running
  /\ UNCHANGED AckTimeoutRetry

(* ... then PrepareRxDoneAbort for a frame that is refused ...              *)
RxDoneAbort ==
  /\ pc = "rxDone"
  /\ RxDoneParams = "refused"
  /\ MacState' = MacState \cup {"RX_ABORT"}
  /\ \E running \in AckRunningNow :
       IF NodeAckRequested THEN StopAckTimeout(running) ELSE KeepAckTimeout(running)
  /\ MacFlags' = MacFlags \cup {"McpsInd", "MacDone"}
  /\ McpsIndicationOk' = FALSE
  /\ pc' = "events"
  /\ UNCHANGED <<McpsConfirm, NodeAckRequested, AckTimeoutRetriesCounter, sendVars, RxSlot,
                 eventVars, radioVars, rx2Passed, loaded, history>>

(* ... or a proprietary or data frame; the latter tells the client whether   *)
(* its ACK bit is set, but only a confirmed frame awaits it.                 *)
RxDoneFrame ==
  /\ pc = "rxDone"
  /\ RxDoneParams # "refused"
  /\ McpsConfirm' = IF RxDoneParams = "proprietary" THEN McpsConfirm
                    ELSE [McpsConfirm EXCEPT !.Status = "OK",
                                             !.AckReceived = (RxDoneParams = "ack")]
  /\ \E running \in AckRunningNow :
       IF NodeAckRequested /\ McpsConfirm'.AckReceived THEN StopAckTimeout(running)
       ELSE KeepAckTimeout(running)
  /\ MacFlags' = MacFlags \cup {"McpsInd"} \cup (IF ackRunning' THEN {} ELSE {"MacDone"})
  /\ McpsIndicationOk' = TRUE
  /\ pc' = "events"
  /\ UNCHANGED <<MacState, NodeAckRequested, AckTimeoutRetriesCounter, sendVars, RxSlot, eventVars,
                 radioVars, rx2Passed, loaded, history>>

(* Fault: the procedure is not ended.                                       *)
ProcessRadioTxTimeoutNotDone ==
  /\ NextEvent("TxTimeout", {"TxDone", "RxDone"})
  /\ Sleep
  /\ McpsConfirm' = [McpsConfirm EXCEPT !.Status = "TX_TIMEOUT"]
  /\ UNCHANGED <<MacState, MacFlags, ackVars, sendVars, rxVars, events, RxDoneParams, timerVars,
                 loopVars, history>>

ProcessRadioTxTimeout ==
  /\ NextEvent("TxTimeout", {"TxDone", "RxDone"})
  /\ Sleep
  /\ McpsConfirm' = [McpsConfirm EXCEPT !.Status = "TX_TIMEOUT"]
  /\ MacFlags' = MacFlags \cup {"MacDone"}
  /\ UNCHANGED <<MacState, ackVars, sendVars, rxVars, events, RxDoneParams, timerVars, loopVars,
                 history>>

(* HandleRadioRxErrorTimeout up to Radio.Sleep ...                          *)
RxFailSleep ==
  /\ \/ NextEvent("RxError", {"TxDone", "RxDone", "TxTimeout"})
     \/ NextEvent("RxTimeout", {"TxDone", "RxDone", "TxTimeout", "RxError"})
  /\ Sleep
  /\ pc' = "rxFail"
  /\ UNCHANGED <<MacState, MacFlags, McpsConfirm, ackVars, sendVars, rxVars, events, RxDoneParams,
                 timerVars, loaded, history>>

(* ... and the rest: after the first window the second one is still to      *)
(* come, unless its time has passed.                                        *)
RxFail ==
  /\ pc = "rxFail"
  /\ McpsConfirm' = IF NodeAckRequested THEN [McpsConfirm EXCEPT !.Status = "ERROR"]
                    ELSE McpsConfirm
  /\ \E late \in {rx2Passed, TRUE} :
       IF RxSlot = "WIN_2" THEN MacFlags' = MacFlags \cup {"MacDone"} /\ UNCHANGED timers
       ELSE IF late THEN /\ MacFlags' = MacFlags \cup {"MacDone"}
                         /\ timers' = timers \ {"RxWindow2"}
            ELSE UNCHANGED <<MacFlags, timers>>
  /\ pc' = "events"
  /\ UNCHANGED <<MacState, ackVars, sendVars, rxVars, eventVars, radioVars, ackRunning, rx2Passed,
                 loaded, history>>

-------------------------------------------------------------------------------
(***************************************************************************)
(* LoRaMacProcess: the procedure                                           *)
(***************************************************************************)

Goto(stage) ==
  /\ pc' = stage
  /\ UNCHANGED <<rxVars, eventVars, ackRunning, rx2Passed, request, aired, acked>>

(* A refused frame ends the transmission.                                   *)
CheckMacDone ==
  /\ pc = "events" /\ taken = {}
  /\ IF "MacDone" \in MacFlags
     THEN /\ Goto("decide")
          /\ MacState' = IF "RX_ABORT" \in MacState THEN MacState \ {"RX_ABORT", "TX_RUNNING"}
                         ELSE MacState
     ELSE Goto("confirm") /\ UNCHANGED MacState
  /\ UNCHANGED <<MacFlags, McpsConfirm, ackVars, sendVars, radioVars, timers, loaded, result>>

TxTimedOut == McpsConfirm.Status = "TX_TIMEOUT"

CheckRetransUnconfirmedUplink ==
  \/ ChannelsNbTransCounter >= ChannelsNbTrans
  \/ "McpsInd" \in MacFlags

CheckRetransConfirmedUplink ==
  \/ AckTimeoutRetriesCounter >= NbTrials
  \/ "McpsInd" \in MacFlags /\ McpsConfirm.AckReceived

Confirmed == McpsConfirm.McpsRequest = "CONFIRMED"

MAX_ACK_RETRIES == 8

AckTimeoutRetriesProcess ==
  IF AckTimeoutRetriesCounter < NbTrials /\ AckTimeoutRetriesCounter <= MAX_ACK_RETRIES
  THEN AckTimeoutRetriesCounter + 1
  ELSE AckTimeoutRetriesCounter

MustStop ==
  IF Confirmed THEN AckTimeoutRetry /\ CheckRetransConfirmedUplink
  ELSE CheckRetransUnconfirmedUplink

MustWait == Confirmed /\ ~AckTimeoutRetry

(* The transmission timed out, or nobody asked for it.                      *)
GiveUp ==
  /\ pc = "decide"
  /\ "McpsReq" \notin MacFlags \/ TxTimedOut
  /\ Goto("confirm")
  /\ IF "McpsReq" \in MacFlags
     THEN /\ MacState' = MacState \ {"TX_RUNNING"}
          /\ McpsConfirm' = [McpsConfirm EXCEPT !.AckReceived = FALSE]
     ELSE UNCHANGED <<MacState, McpsConfirm>>
  /\ UNCHANGED <<MacFlags, ackVars, sendVars, radioVars, timers, loaded, result>>

MayGoOn == pc = "decide" /\ "McpsReq" \in MacFlags /\ ~TxTimedOut

Stop ==
  /\ MayGoOn /\ MustStop
  /\ Goto("confirm")
  /\ StopRetransmission
  /\ MacState' = MacState \ {"TX_RUNNING"}
  /\ UNCHANGED <<MacFlags, McpsConfirm, AckTimeoutRetriesCounter, radioVars, timers, loaded,
                 result>>

Wait ==
  /\ MayGoOn /\ MustWait
  /\ Goto("confirm")
  /\ UNCHANGED <<MacState, MacFlags, McpsConfirm, ackVars, sendVars, radioVars, timers, loaded,
                 result>>

Retransmit ==
  /\ MayGoOn /\ ~MustStop /\ ~MustWait
  /\ Goto("confirm")
  /\ MacFlags' = MacFlags \ {"MacDone"}
  /\ AckTimeoutRetry' = FALSE
  /\ AckTimeoutRetriesCounter' = IF Confirmed THEN AckTimeoutRetriesProcess
                                 ELSE AckTimeoutRetriesCounter
  /\ Resent \/ Delayed \/ NotResent
  /\ UNCHANGED <<loaded, result>>

(* The MAC is idle: confirm the request ...                                 *)
IsIdle ==
  /\ pc = "confirm"
  /\ Goto(IF ~Idle THEN "indicate" ELSE IF "McpsReq" \in MacFlags THEN "confirming" ELSE "reset")
  /\ UNCHANGED <<MacState, MacFlags, McpsConfirm, ackVars, sendVars, radioVars, timers, loaded,
                 result>>

ConfirmLoad ==
  /\ pc = "confirming"
  /\ Goto("confirmStore")
  /\ loaded' = MacFlags
  /\ UNCHANGED <<MacState, MacFlags, McpsConfirm, ackVars, sendVars, radioVars, timers, result>>

ConfirmStore ==
  /\ pc = "confirmStore"
  /\ Goto("confirmed")
  /\ MacFlags' = loaded \ {"McpsReq"}
  /\ loaded' = {}
  /\ UNCHANGED <<MacState, McpsConfirm, ackVars, sendVars, radioVars, timers, result>>

(* The callback reads McpsConfirm where it is.                              *)
MacMcpsConfirm ==
  /\ pc = "confirmed"
  /\ pc' = "reset"
  /\ request' = None
  /\ result' = [McpsRequest |-> McpsConfirm.McpsRequest, Ok |-> McpsConfirm.Status = "OK",
                AckReceived |-> McpsConfirm.AckReceived]
  /\ UNCHANGED <<MacState, MacFlags, McpsConfirm, ackVars, sendVars, rxVars, eventVars, radioVars,
                 timerVars, loaded, aired, acked>>

(* ... then reset MacDone, after the callbacks of MLME indications.         *)
ResetLoad ==
  /\ pc = "reset"
  /\ Goto("resetStore")
  /\ loaded' = MacFlags
  /\ UNCHANGED <<MacState, MacFlags, McpsConfirm, ackVars, sendVars, radioVars, timers, result>>

ResetStore ==
  /\ pc = "resetStore"
  /\ Goto("indicate")
  /\ MacFlags' = loaded \ {"MacDone"}
  /\ loaded' = {}
  /\ UNCHANGED <<MacState, McpsConfirm, ackVars, sendVars, radioVars, timers, result>>

(* The indication of a downlink, idle or not.                               *)
IndicateLoad ==
  /\ pc = "indicate"
  /\ IF "McpsInd" \in MacFlags THEN Goto("indicateStore") /\ loaded' = MacFlags
     ELSE Goto("poll") /\ UNCHANGED loaded
  /\ UNCHANGED <<MacState, MacFlags, McpsConfirm, ackVars, sendVars, radioVars, timers, result>>

IndicateStore ==
  /\ pc = "indicateStore"
  /\ Goto("indicating")
  /\ MacFlags' = loaded \ {"McpsInd"}
  /\ loaded' = {}
  /\ UNCHANGED <<MacState, McpsConfirm, ackVars, sendVars, radioVars, timers, result>>

MacMcpsIndication ==
  /\ pc = "indicating"
  /\ Goto("poll")
  /\ UNCHANGED <<MacState, MacFlags, McpsConfirm, ackVars, sendVars, radioVars, timers, loaded,
                 result>>

-------------------------------------------------------------------------------
Init ==
  /\ MacState = {}
  /\ MacFlags = {}
  /\ McpsConfirm = [McpsRequest |-> "UNCONFIRMED", Status |-> "OK", AckReceived |-> FALSE]
  /\ NodeAckRequested = FALSE
  /\ AckTimeoutRetry = FALSE
  /\ AckTimeoutRetriesCounter = 1
  /\ ChannelsNbTransCounter = 0
  /\ RxSlot = "WIN_1"
  /\ McpsIndicationOk = TRUE
  /\ secured = FALSE
  /\ events = {}
  /\ taken = {}
  /\ RxDoneParams = "refused"
  /\ radio = "IDLE"
  /\ guards = {}
  /\ timers = {}
  /\ ackRunning = FALSE
  /\ rx2Passed = FALSE
  /\ pc = "poll"
  /\ loaded = {}
  /\ request = None
  /\ aired = FALSE
  /\ acked = FALSE
  /\ result = None

McpsRequest == (\E t \in Types : Requested(t)) \/ RequestFailed

TimerIrq ==
  \/ OnTxDelayedTimerEvent
  \/ OnRxWindow1TimerEvent
  \/ OnRxWindow2TimerEvent
  \/ OnAckTimeoutTimerEvent

HandleEvent ==
  \/ TakeEvents
  \/ ClearEvents
  \/ ProcessRadioTxDone
  \/ RxDoneSleep
  \/ RxDoneAbort
  \/ RxDoneFrame
  \/ ProcessRadioTxTimeout
  \/ RxFailSleep
  \/ RxFail

LoRaMacProcess ==
  \/ HandleEvent
  \/ CheckMacDone
  \/ GiveUp
  \/ Stop
  \/ Wait
  \/ Retransmit
  \/ IsIdle
  \/ ConfirmLoad
  \/ ConfirmStore
  \/ MacMcpsConfirm
  \/ ResetLoad
  \/ ResetStore
  \/ IndicateLoad
  \/ IndicateStore
  \/ MacMcpsIndication

Next ==
  \/ McpsRequest
  \/ TimerIrq
  \/ AckTimeoutIsHead
  \/ TxDone
  \/ RxEnd
  \/ OnTimeoutIrq
  \/ LoRaMacProcess

Spec == Init /\ [][Next]_vars

(* The main loop goes on, timers expire, the radio ends what it does, and a *)
(* frame that waits for the duty cycle gets its turn.                       *)
FairSpec ==
  /\ Spec
  /\ WF_vars(LoRaMacProcess)
  /\ WF_vars(OnRxWindow1TimerEvent)
  /\ WF_vars(OnRxWindow2TimerEvent)
  /\ WF_vars(OnAckTimeoutTimerEvent)
  /\ WF_vars(TxDone)
  /\ WF_vars(RxEnd)
  /\ SF_vars(OnTxDelayedTimerEvent /\ "TxDelayed" \notin timers')

-------------------------------------------------------------------------------
(***************************************************************************)
(* Properties                                                              *)
(***************************************************************************)

(* The fields of McpsConfirm_t that the procedure sets.                     *)
Confirmation ==
  [McpsRequest : {"UNCONFIRMED", "CONFIRMED"}, Status : {"OK", "ERROR", "TX_TIMEOUT"},
   AckReceived : BOOLEAN]

TypeOK ==
  /\ MacState \subseteq {"TX_RUNNING", "TX_DELAYED", "RX_ABORT"}
  /\ MacFlags \subseteq {"MacDone", "McpsReq", "McpsInd"}
  /\ McpsConfirm \in Confirmation
  /\ NodeAckRequested \in BOOLEAN
  /\ AckTimeoutRetry \in BOOLEAN
  /\ AckTimeoutRetriesCounter \in 1..NbTrials
  /\ ChannelsNbTransCounter \in 0..ChannelsNbTrans
  /\ RxSlot \in {"WIN_1", "WIN_2"}
  /\ McpsIndicationOk \in BOOLEAN
  /\ secured \in BOOLEAN
  /\ events \subseteq {"TxDone", "RxDone", "TxTimeout", "RxError", "RxTimeout"}
  /\ taken \subseteq {"TxDone", "RxDone", "TxTimeout", "RxError", "RxTimeout"}
  /\ RxDoneParams \in {"refused", "proprietary", "data", "ack"}
  /\ radio \in {"IDLE", "TX_RUNNING", "RX_RUNNING"}
  /\ guards \subseteq {"TxTimeout", "RxTimeout"}
  /\ timers \subseteq {"TxDelayed", "RxWindow1", "RxWindow2", "AckTimeout"}
  /\ ackRunning \in BOOLEAN
  /\ rx2Passed \in BOOLEAN
  /\ pc \in {"poll", "clear", "events", "rxDone", "rxFail", "decide", "confirm", "confirming",
             "confirmStore", "confirmed", "reset", "resetStore", "indicate", "indicateStore",
             "indicating"}
  /\ loaded \subseteq {"MacDone", "McpsReq", "McpsInd"}
  /\ request \in Types \cup {None}
  /\ aired \in BOOLEAN
  /\ acked \in BOOLEAN

(***************************************************************************)
(* The inductive invariant: why the procedure is sound as long as no two of *)
(* the events of Races meet, and no request of an interrupt the end of the *)
(* procedure before.                                                       *)
(* Its parts name what the procedure is doing; at most one of sending,     *)
(* receiving and waiting for the duty cycle is going on.                   *)
(***************************************************************************)
OneAtATime == ~Races /\ ~IrqOverlaps

Pending == events \cup taken
SendEvents == {"TxDone", "TxTimeout"}
ReceiveEvents == {"RxDone", "RxError", "RxTimeout"}
Sending == radio = "TX_RUNNING" \/ \E e \in SendEvents : e \in Pending
Receiving == radio = "RX_RUNNING" \/ pc \in Gap \/ \E e \in ReceiveEvents : e \in Pending
WindowsToCome == "RxWindow1" \in timers \/ "RxWindow2" \in timers
(* The client waits for its confirmation.                                   *)
Owed == Requesting \/ pc = "confirmed"
(* The frame that was received is still to be handled.                      *)
Received == "RxDone" \in Pending \/ pc = "rxDone"
Ended == "MacDone" \in MacFlags
(* A procedure goes on, or is about to be ended.                            *)
Serving == ~Idle \/ pc = "decide"

(* One event of the radio is on its way through the main loop at a time.    *)
EventsOneByOne ==
  /\ \A e, f \in Pending : e = f
  /\ (\E e \in taken : TRUE) => pc \in {"clear", "events"}
  /\ pc = "clear" => \E e \in taken : TRUE
  /\ pc = "events" => \A e \in taken, f \in events : FALSE
  /\ pc \in Gap => radio = "IDLE" /\ \A e \in events : FALSE

(* Nobody touches MacFlags between its read and its write-back.             *)
FlagsAsLoaded == pc \in {"confirmStore", "resetStore", "indicateStore"} => loaded = MacFlags

SendingAlone == Sending =>
  /\ "TX_RUNNING" \in MacState
  /\ \A t \in timers : FALSE
  /\ ~Receiving
  /\ ~AckTimeoutRetry
  /\ Ended => pc \in {"reset", "resetStore"}

ReceivingAlone == Receiving =>
  /\ "TX_RUNNING" \in MacState
  /\ "TxDelayed" \notin timers
  /\ "RxWindow1" \notin timers
  /\ ~Ended

(* The windows belong to a frame that was sent, and the first one failing   *)
(* leaves the second one its time.                                          *)
WindowsInTime ==
  /\ WindowsToCome => "TX_RUNNING" \in MacState /\ ~Ended
  /\ "RxWindow2" \in timers /\ Receiving => RxSlot = "WIN_1"

DelayedAlone ==
  /\ "TxDelayed" \in timers <=> "TX_DELAYED" \in MacState
  /\ "TxDelayed" \in timers =>
       /\ radio = "IDLE"
       /\ \A e \in Pending : FALSE
       /\ \A t \in timers : t = "TxDelayed"
       /\ ~AckTimeoutRetry
       /\ ~Ended
       /\ pc \notin {"decide", "confirming", "confirmStore", "confirmed", "reset", "resetStore"}

Stages ==
  /\ "RX_ABORT" \in MacState => Ended /\ pc = "events"
  /\ pc = "decide" => Ended
  /\ pc \in {"confirming", "confirmStore"} => Idle /\ Requesting
  /\ pc = "confirmed" => Idle /\ ~Requesting
  /\ Idle /\ Ended =>
       \/ Owed /\ pc \in {"decide", "confirm", "confirming", "confirmStore", "confirmed"}
       \/ pc \in {"reset", "resetStore"}
  /\ Idle /\ Requesting =>
       pc \in {"poll", "events", "decide", "confirm", "confirming", "confirmStore"}

(* AckTimeoutTimer runs, and AckTimeoutRetry tells that it ended, only for  *)
(* a confirmed frame.                                                       *)
AckAwaited ==
  /\ "AckTimeout" \in timers =>
       "TX_RUNNING" \in MacState /\ Confirmed /\ ~AckTimeoutRetry /\ ~TxTimedOut
  /\ Serving /\ NodeAckRequested => Confirmed /\ Requesting
  /\ ~Idle /\ Confirmed => NodeAckRequested
  /\ AckTimeoutRetry => NodeAckRequested /\ Serving /\ ~TxTimedOut
  /\ Confirmed /\ ("RX_ABORT" \in MacState \/ (Idle /\ pc = "decide")) => AckTimeoutRetry

TimedOutAlone ==
  TxTimedOut => ~Sending /\ ~Receiving /\ ~WindowsToCome /\ "TxDelayed" \notin timers

RequestServed ==
  /\ Owed <=> request # None
  /\ Owed => request = McpsConfirm.McpsRequest
  /\ ~Idle => Requesting

(* What the confirmation would say now is true.                             *)
ConfirmIsTrue == Owed =>
  /\ "TxDone" \in Pending \/ Receiving \/ WindowsToCome => aired
  /\ McpsConfirm.Status = "OK" \/ acked => aired
  /\ Received => (acked <=> RxDoneParams = "ack")
  /\ McpsConfirm.AckReceived <=> acked /\ ~Received

(* An acknowledged frame is not sent again.                                 *)
AckEnds == Owed /\ acked /\ ~Received =>
  /\ ~Sending /\ ~Receiving /\ ~WindowsToCome /\ "TxDelayed" \notin timers /\ ~TxTimedOut
  /\ Ended /\ Serving =>
       pc \in {"events", "decide"} /\ "McpsInd" \in MacFlags /\ (Confirmed => AckTimeoutRetry)

CounterIsFree == Idle /\ secured =>
  /\ ~Owed => result # None /\ ~result.Ok
  /\ Owed /\ pc # "decide" => McpsConfirm.Status # "OK"

IInv ==
  /\ TypeOK
  /\ EventsOneByOne /\ FlagsAsLoaded
  /\ SendingAlone /\ ReceivingAlone /\ WindowsInTime /\ DelayedAlone
  /\ Stages /\ AckAwaited /\ TimedOutAlone
  /\ RequestServed /\ ConfirmIsTrue /\ AckEnds /\ CounterIsFree

(* Refinement: the MAC serves its clients as McpsService says: it accepts a *)
(* request only when the one before was confirmed, sends nothing once it    *)
(* has confirmed, and its confirmations are true.                           *)
Service == INSTANCE McpsService

ServesSafely == Service!SafeSpec

(* ... and it confirms every request, whatever was lost, as long as no       *)
(* AckTimeoutTimer is taken for a running one: then a downlink without ACK  *)
(* does not end the procedure, and no procedure at all once such a timer    *)
(* has expired, for the mark stays.                                         *)
Serves == []~ackRunning => Service!Fairness

(* The same, in the words of the example in LoRaMac.h: a request that was   *)
(* accepted is followed by the MCPS-Confirm event.                          *)
EveryRequestConfirmed == (request # None) ~> (request = None)

(* The MAC does not stay busy, for it refuses all requests while it is.     *)
BackToIdle == ~Idle ~> Idle

(* No receive window is still to come when a frame is sent again: it would  *)
(* take the radio away from the transmission, as OnRxWindow1TimerEvent does *)
(* not look at what the radio does.                                         *)
WindowsClosedWhileSending ==
  radio = "TX_RUNNING" => timers \cap {"RxWindow1", "RxWindow2"} = {}

(* The radio is not told to send while it is sending: the frame in the air  *)
(* would be cut off.                                                        *)
NoSendWhileSending ==
  [][radio = "TX_RUNNING" => ~(Retransmit \/ OnTxDelayedTimerEvent \/ McpsRequest)]_vars

(* A new frame goes out on the counter of the frame before only if that one *)
(* was confirmed as failed: LoRaMacCryptoSecureMessage takes it for a       *)
(* repetition.                                                              *)
CounterReusedAfterFailure ==
  [][(\E t \in Types : Requested(t)) => (secured => result # None /\ ~result.Ok)]_vars
===============================================================================
