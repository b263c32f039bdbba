------------------------------- MODULE Session -------------------------------
(***************************************************************************)
(* A joined class A node and its network server (external, modelled from   *)
(* what the node expects of it) over a radio that loses frames: the data   *)
(* path of LoRaMac.c above the windows and timers that LoRaMac models.     *)
(* Send puts the waiting MAC commands in the frame, ScheduleTx checks its  *)
(* length, ProcessRadioRxDone reconstructs and checks the counter of a     *)
(* downlink, drops the sticky answers it acknowledges, answers the         *)
(* requests it carries and notes the acknowledgement it asks for.          *)
(*                                                                         *)
(* Abstract: a MIC is the counter the frame was built with, so a frame     *)
(* verifies exactly under its own counter; data, ports, ADR, duty cycle    *)
(* and the parameters the requests set are left out, and the data rate, so *)
(* the room in a frame, does not change.                                   *)
(***************************************************************************)
EXTENDS FCntHandler, MacCommands, FiniteSets

CONSTANTS
  LINK_CHECK_REQ,  \* the command the application asks for
  Requests,        \* what a downlink may request: the answers, in order
  FOptsLength,     \* LORA_MAC_COMMAND_MAX_FOPTS_LENGTH
  AvailableSize,   \* GetMaxAppPayloadWithoutFOptsLength of the data rate
  AppSizes,        \* sizes of the application's messages
  MaxTrials,       \* transmissions of one frame
  MaxDown          \* bound of the model: downlink counters used

ASSUME SessionAssumption ==
  /\ LINK_CHECK_REQ \in Cids /\ ~IsSticky(LINK_CHECK_REQ)
  /\ Requests \subseteq Seq(Cids)
  /\ FOptsLength \in Nat /\ AvailableSize \in Nat /\ AppSizes \subseteq Nat
  /\ MaxTrials \in Nat \ {0} /\ MaxDown \in 1 .. Initial

VARIABLES
  cmds,            \* the context of LoRaMacCommands.c
  FCntDown,        \* the counter of LoRaMacFCntHandler.c
  cryptoDown,      \* its copy in FCntList of LoRaMacCrypto.c
  SrvAckRequested, \* the next uplink acknowledges
  LastRxMic,       \* MIC of the last confirmed downlink, Initial when none
  phase,           \* "idle", "tx" (frame on the air) or "rx" (receive windows)
  up,              \* the uplink: [size, confirmed, ack, carried, fresh]; fresh
                   \* until a copy of it has arrived
  trials,          \* its transmissions so far
  server,          \* [next, mayAnswer, awaited]: its next counter, it may use the
                   \* windows that are open, and the confirmed downlink it awaits
                   \* the acknowledgement of, if any
  air,             \* the downlink on the air, a set of at most one frame
  accepted,        \* history: true counter of the last downlink accepted
  heard            \* history: waiting commands the server has received

macVars == <<cmds, FCntDown, cryptoDown, SrvAckRequested, LastRxMic>>
txVars == <<phase, up, trials>>
vars == <<macVars, txVars, server, air, accepted, heard>>

NoUplink == [size |-> 0, confirmed |-> FALSE, ack |-> FALSE, carried |-> {}, fresh |-> FALSE]

Waiting == {s \in Slots : cmds.slot[s].CID # NoCid}
Total == cmds.SerializedCmdsSize   \* LoRaMacCommandsGetSizeSerializedCmds

-----------------------------------------------------------------------------
(* Transmission. *)

(* LoRaMacQueryTxPossible *)
QueryTxPossible(size) ==
  Total <= FOptsLength /\ Total + size <= AvailableSize

(* LORA_send, like the compliance test, sends an empty unconfirmed frame    *)
(* when the query fails.                                                    *)
SizeSent(size) == IF QueryTxPossible(size) THEN size ELSE 0
ConfirmedSent(size, confirmed) == confirmed /\ QueryTxPossible(size)

(* Fault: an empty frame takes no more than FOpts would. *)
CarriedAsFOpts(size) == SerializeCmds(cmds, FOptsLength)

(* PrepareFrame: the commands go in FOpts next to data, or are the payload; *)
(* when there is data and FOpts is too short for them the frame is left     *)
(* without any, and LORAMAC_STATUS_SKIPPED_APP_DATA is returned.            *)
Carried(size) ==
  CASE size = 0                          -> SerializeCmds(cmds, AvailableSize)
    [] size > 0 /\ Total <= FOptsLength  -> SerializeCmds(cmds, FOptsLength)
    [] OTHER                             -> {}

(* Fault: the length is checked against FOpts. *)
LengthOkFOpts(size) == size + Total <= FOptsLength

(* ValidatePayloadLength, called by ScheduleTx *)
LengthOk(size) == size + Total <= AvailableSize

(* LORA_send, with LoRaMacMcpsRequest and Send, when it is accepted; one    *)
(* that is refused leaves the state as it was.                              *)
Send(size, confirmed) ==
  LET sent == SizeSent(size)
  IN  /\ phase = "idle" /\ LengthOk(sent)
      /\ phase' = "tx" /\ trials' = 1
      /\ up' = [size |-> sent, confirmed |-> ConfirmedSent(size, confirmed),
                ack |-> SrvAckRequested, carried |-> Carried(sent), fresh |-> TRUE]
      /\ SrvAckRequested' = FALSE
      /\ cmds' = RemoveNoneStickyCmds(cmds)
      /\ heard' = heard \cap Waiting'
      /\ UNCHANGED <<FCntDown, cryptoDown, LastRxMic, server, air, accepted>>

(* MlmeRequest of MLME_LINK_CHECK, when the MAC is not busy. *)
LinkCheckReq ==
  /\ phase = "idle"
  /\ cmds' = AddCmd(cmds, LINK_CHECK_REQ)
  /\ UNCHANGED <<FCntDown, cryptoDown, SrvAckRequested, LastRxMic, txVars, server, air, accepted, heard>>

(* The receive windows close, with what was sent in them. *)
CloseWindows ==
  /\ air' = {}
  /\ server' = [server EXCEPT !.mayAnswer = FALSE]

(* LoRaMacProcess and OnTxDelayedTimerEvent: no downlink ended the procedure, *)
(* so the same frame is sent again, if ScheduleTx still accepts its length.   *)
Retransmit ==
  /\ phase = "rx" /\ trials < MaxTrials /\ LengthOk(up.size)
  /\ phase' = "tx" /\ trials' = trials + 1
  /\ CloseWindows
  /\ UNCHANGED <<macVars, up, accepted, heard>>

(* The procedure ends: the last window has closed, or it ends early. *)
EndUplink == phase' = "idle" /\ trials' = 0 /\ up' = NoUplink

StopRetransmission ==
  /\ phase = "rx" /\ (trials = MaxTrials \/ ~LengthOk(up.size))
  /\ EndUplink
  /\ CloseWindows
  /\ UNCHANGED <<macVars, accepted, heard>>

-----------------------------------------------------------------------------
(* Reception. *)

(* One answer for every request of a downlink. *)
ProcessMacCommands(ctx, reqs) ==
  LET after[n \in 0 .. Len(reqs)] == IF n = 0 THEN ctx ELSE AddCmd(after[n - 1], reqs[n])
  IN  after[Len(reqs)]

(* Fault: the counter is set before the MIC is checked. *)
RejectLate(f, status) ==
  /\ FCntDown' = IF status = "SUCCESS" THEN CurrentDown(FCntDown, f.mic % FCntMod) ELSE FCntDown
  /\ SrvAckRequested' =
       (SrvAckRequested \/ (status = "CHECK_FAIL" /\ f.confirmed /\ LastRxMic = f.mic))
  /\ UNCHANGED <<cmds, cryptoDown, LastRxMic, accepted, heard>>

(* Fault: any frame with the last counter counts as the repeated one. *)
RejectAnyMic(f, status) ==
  /\ SrvAckRequested' = (SrvAckRequested \/ (status = "CHECK_FAIL" /\ f.confirmed))
  /\ UNCHANGED <<cmds, FCntDown, cryptoDown, LastRxMic, accepted, heard>>

(* A downlink that passes no check: the repeated confirmed one is            *)
(* acknowledged again.                                                       *)
Reject(f, status) ==
  /\ SrvAckRequested' =
       (SrvAckRequested \/ (status = "CHECK_FAIL" /\ f.confirmed /\ LastRxMic = f.mic))
  /\ UNCHANGED <<cmds, FCntDown, cryptoDown, LastRxMic, accepted, heard>>

(* A downlink whose counter and MIC are right.  UpdateFCntDown, called in    *)
(* LoRaMacCryptoUnsecureMessage, and LoRaMacSetFCntDown move the counters.   *)
StickyKept(f) == IF up.confirmed => f.ack THEN RemoveStickyAnsCmds(cmds) ELSE cmds
Accept(f, counter) ==
  /\ cryptoDown' = counter
  /\ SrvAckRequested' = f.confirmed
  /\ LastRxMic' = IF f.confirmed THEN f.mic ELSE LastRxMic
  /\ FCntDown' = counter
  /\ cmds' = ProcessMacCommands(StickyKept(f), f.reqs)
  /\ accepted' = f.mic
  /\ heard' = {s \in heard : StickyKept(f).slot[s].CID # NoCid}

(* ProcessRadioRxDone of a unicast data frame, and what LoRaMacProcess makes *)
(* of it: an unconfirmed procedure ends with any downlink, a confirmed one   *)
(* with an acknowledgement, else it goes on as after an empty window.  A     *)
(* slot that is freed may be used for another command, so the frame does not *)
(* carry it any more.                                                        *)
ProcessRadioRxDone == \E f \in air :
  LET fCnt == f.mic % FCntMod
      counter == CurrentDown(FCntDown, fCnt)
      status == FCntStatus(FCntDown, fCnt)
      ok == /\ status = "SUCCESS"
            /\ CheckFCntDown(cryptoDown, counter)
            /\ counter = f.mic
  IN  /\ phase = "rx"
      /\ IF ok THEN Accept(f, counter) ELSE Reject(f, status)
      /\ IF up.confirmed => (ok /\ f.ack)
         THEN EndUplink
         ELSE /\ up' = [up EXCEPT !.carried = {s \in @ : ok => StickyKept(f).slot[s].CID # NoCid}]
              /\ UNCHANGED <<phase, trials>>
      /\ air' = {}
      /\ UNCHANGED server

-----------------------------------------------------------------------------
(* The radio and the server. *)

LoseUplink ==
  /\ phase = "tx"
  /\ phase' = "rx"
  /\ UNCHANGED <<macVars, up, trials, server, air, accepted, heard>>

(* The first copy of an uplink that arrives is processed: it acknowledges    *)
(* the downlink that is awaited, or the server may give that one up.  Any    *)
(* copy opens the windows for one downlink.                                  *)
HearUplink(givesUp) ==
  /\ phase = "tx"
  /\ givesUp => up.fresh /\ ~up.ack /\ server.awaited # {}
  /\ phase' = "rx"
  /\ up' = [up EXCEPT !.fresh = FALSE]
  /\ server' = [server EXCEPT !.mayAnswer = TRUE,
                              !.awaited = IF up.fresh /\ (up.ack \/ givesUp) THEN {} ELSE @]
  /\ heard' = heard \cup (up.carried \cap Waiting)
  /\ UNCHANGED <<macVars, trials, air, accepted>>

(* A new downlink; a confirmed uplink is acknowledged. *)
Downlink(reqs, confirmed) ==
  /\ phase = "rx" /\ server.mayAnswer /\ server.awaited = {} /\ server.next < MaxDown
  /\ air' = {[mic |-> server.next, confirmed |-> confirmed, ack |-> up.confirmed, reqs |-> reqs]}
  /\ server' = [next |-> server.next + 1, mayAnswer |-> FALSE,
                awaited |-> IF confirmed THEN air' ELSE {}]
  /\ UNCHANGED <<macVars, txVars, accepted, heard>>

(* The last confirmed downlink again, its acknowledgement is missing. *)
RepeatDownlink ==
  /\ phase = "rx" /\ server.mayAnswer /\ server.awaited # {}
  /\ up.confirmed => \A f \in server.awaited : f.ack
  /\ air' = server.awaited
  /\ server' = [server EXCEPT !.mayAnswer = FALSE]
  /\ UNCHANGED <<macVars, txVars, accepted, heard>>

LoseDownlink ==
  /\ air # {}
  /\ air' = {}
  /\ UNCHANGED <<macVars, txVars, server, accepted, heard>>

-----------------------------------------------------------------------------
(* After a join: LoRaMacResetFCnts, LoRaMacCommandsInit. *)
Init ==
  /\ cmds = NoCommands
  /\ FCntDown = Initial /\ cryptoDown = Initial
  /\ SrvAckRequested = FALSE /\ LastRxMic = Initial
  /\ phase = "idle" /\ trials = 0
  /\ up = NoUplink
  /\ server = [next |-> 0, mayAnswer |-> FALSE, awaited |-> {}]
  /\ air = {} /\ accepted = Initial /\ heard = {}

Next ==
  \/ \E size \in AppSizes, confirmed \in BOOLEAN : Send(size, confirmed)
  \/ LinkCheckReq
  \/ Retransmit
  \/ StopRetransmission
  \/ ProcessRadioRxDone
  \/ LoseUplink
  \/ \E givesUp \in BOOLEAN : HearUplink(givesUp)
  \/ \E reqs \in Requests, confirmed \in BOOLEAN : Downlink(reqs, confirmed)
  \/ RepeatDownlink
  \/ LoseDownlink

Spec == Init /\ [][Next]_vars

(* The application goes on sending, frames leave, and procedures end, as     *)
(* the timers of LoRaMac see to; no frame need ever arrive.                  *)
SendAny == \E size \in AppSizes, confirmed \in BOOLEAN : Send(size, confirmed)
FairSpec ==
  /\ Spec
  /\ WF_vars(SendAny)
  /\ WF_vars(LoseUplink \/ \E givesUp \in BOOLEAN : HearUplink(givesUp))
  /\ WF_vars(Retransmit \/ StopRetransmission)

-----------------------------------------------------------------------------
(* Properties. *)

Frames == [mic : 0 .. MaxDown - 1, confirmed : BOOLEAN, ack : BOOLEAN, reqs : Requests]
ServerOK ==
  /\ server \in [next : 0 .. MaxDown, mayAnswer : BOOLEAN, awaited : SUBSET Frames]
  /\ air \in SUBSET Frames

(* The counters are counters, a procedure has its trials, frames are frames. *)
TypeOK ==
  /\ cmds \in Context
  /\ FCntDown \in 0 .. Initial /\ cryptoDown \in 0 .. Initial
  /\ accepted \in 0 .. Initial /\ LastRxMic \in 0 .. Initial
  /\ SrvAckRequested \in BOOLEAN
  /\ phase \in {"idle", "tx", "rx"} /\ trials \in 0 .. MaxTrials
  /\ up \in [size : AppSizes \cup {0}, confirmed : BOOLEAN, ack : BOOLEAN,
            carried : SUBSET Slots, fresh : BOOLEAN]
  /\ ServerOK
  /\ Cardinality(air) <= 1 /\ Cardinality(server.awaited) <= 1
  /\ heard \subseteq Slots

(* The sizes of the commands on the list, summed up. *)
SizeOnList(ctx) ==
  LET from[s \in Slots \cup {0}] ==
        IF s = 0 THEN 0 ELSE CmdSize[ctx.slot[s].CID] + from[ctx.slot[s].Next]
  IN  from[ctx.First]

(* The list of commands goes through every used slot once and ends at Last, *)
(* its length in bytes is the one ScheduleTx and the query go by, through   *)
(* any order of additions and of removals from the middle.                  *)
ListIsSound ==
  /\ TypeOK
  /\ ToSet(Elements(cmds)) = Waiting
  /\ Len(Elements(cmds)) = Cardinality(Waiting)
  /\ cmds.Last = IF Waiting = {} THEN 0 ELSE Elements(cmds)[Cardinality(Waiting)]
  /\ cmds.SerializedCmdsSize = SizeOnList(cmds)

(* The two copies of the downlink counter are the true counter of the last  *)
(* downlink accepted: none that is rejected, repeated or reconstructed      *)
(* wrongly moves either of them.                                            *)
CountersAgree == FCntDown = accepted /\ cryptoDown = accepted

(* A new downlink that is received is accepted, unless MaxFCntGap were lost *)
(* before it: what the 32-bit counter of LoRaMacFCntHandler.h is for.       *)
FreshIsAccepted ==
  [][\A f \in air :
       LET gap == (f.mic - accepted) % FCntRange
       IN  ProcessRadioRxDone /\ gap \in 1 .. MaxFCntGap - 1 => accepted' = f.mic]_vars

(* An answer that must be repeated until the server has it (sticky) is      *)
(* dropped only when it has, whatever is lost, repeated or retried.         *)
AnswersHeard ==
  [][\A s \in Waiting :
       IsSticky(cmds.slot[s].CID) /\ s \notin Waiting' => s \in heard]_vars

(* A command that is sent once leaves the list only in a frame.             *)
CommandsAreCarried ==
  [][\A s \in Waiting :
       ~IsSticky(cmds.slot[s].CID) /\ s \notin Waiting' => s \in up'.carried]_vars

(* The server is never told that a confirmed downlink arrived which did     *)
(* not: an acknowledgement in a new uplink is for the downlink it awaits.   *)
AcksAreTrue ==
  phase = "tx" /\ up.fresh /\ up.ack => \A f \in server.awaited : accepted = f.mic

(* The server's side of AcksAreTrue: at most one downlink is awaited, the    *)
(* last one sent, and what is on the air is that one or asks for nothing.    *)
ServerAwaitsLast ==
  /\ \A f \in server.awaited :
       server.awaited = {f} /\ f.confirmed /\ f.mic = server.next - 1
  /\ \A f \in air : server.awaited = IF f.confirmed THEN {f} ELSE {}

(* The windows are open only after the frame has been heard. *)
WindowsFollowUplink ==
  /\ up.fresh \/ phase # "rx" => ~server.mayAnswer /\ air = {}
  /\ server.mayAnswer => air = {}

(* What is to be acknowledged, or is in the frame that is not heard yet, is  *)
(* the downlink accepted last.                                               *)
OwedIsAccepted ==
  \A f \in server.awaited :
    (LastRxMic = f.mic \/ SrvAckRequested \/ (up.fresh /\ up.ack)) => accepted = f.mic

(* The inductive invariant of AcksAreTrue.  In a procedure, a new frame is   *)
(* sent without anything left to acknowledge, and the server keeps awaiting  *)
(* what the node owes, so that no other downlink comes in between.           *)
IInv ==
  /\ ServerOK /\ SrvAckRequested \in BOOLEAN
  /\ DOMAIN up = DOMAIN NoUplink /\ up.confirmed \in BOOLEAN
  /\ LastRxMic = Initial \/ LastRxMic \in 0 .. server.next - 1
  /\ \A f \in air : f.mic < server.next
  /\ ServerAwaitsLast
  /\ WindowsFollowUplink
  /\ OwedIsAccepted
  /\ SrvAckRequested /\ phase # "idle" => ~up.fresh /\ server.awaited # {}

(* Commands that wait do not keep the node from sending.                    *)
NeverBlocked == (phase = "idle" /\ Waiting # {}) ~> (phase = "tx")

=============================================================================
