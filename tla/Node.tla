---------------------------------- MODULE Node ----------------------------------
(***************************************************************************)
(* A class A node over its MAC: the application of src/main.c and          *)
(* Lora/Core/lora.c with its joins, the compliance test of                 *)
(* Lora/Core/lora-test.c, and the adaptive data rate of LoRaMac.c.         *)
(*                                                                         *)
(* Two timers interrupt at any time: TxTimer of the application and        *)
(* CertifTxNextPacketTimer of the test.  Both make requests, and find the  *)
(* MAC busy or not.  The main loop ends uplinks, calls back with a failed  *)
(* join or a received frame, and is in the middle of certif_rx when they   *)
(* come.  An uplink with its windows and retries is what LoRaMac models in *)
(* detail; here it is sent, sent again, heard or not.  Whether a request   *)
(* is refused (duty cycle, length, channels) is a choice.  Times are left  *)
(* out.  A confirmed uplink is answered with its acknowledgement: what an  *)
(* answer without it does is the finding of LoRaMac.                       *)
(***************************************************************************)
EXTENDS Adr

CONSTANTS
  JoinDatarate,     (* RegionAlternateDr                                     *)
  TxDatarate,       (* of the application, used when ADR is off              *)
  NbTrials,         (* of a confirmed frame                                  *)
  Commands          (* of the test: first byte of a frame to CERTIF_PORT     *)

NoCommand == 255

ASSUME NodeAssumption ==
  /\ JoinDatarate \in Datarates
  /\ TxDatarate \in Datarates
  /\ NbTrials \in Nat \ {0}
  /\ Commands \subseteq 0..6

VARIABLES
  joined,           (* NetworkActivation                                     *)
  uplink,           (* what MAC is busy with                                 *)
  asks,             (* that uplink carries ADRACKReq                         *)
  retries,          (* AckTimeoutRetriesCounter                              *)
  AdrCtrlOn,
  AdrAckCounter,
  Datarate,         (* ChannelsDatarate                                      *)
  TxPower,          (* ChannelsTxPower                                       *)
  Channels,         (* ChannelsMask: with the default channels or without    *)
  AdrEnable,        (* LoRaParamInit: set once                               *)
  Running,          (* certifParam                                           *)
  State,
  LinkCheck,
  IsTxConfirmed,
  AdrEnableInit,
  CertifTimer,      (* CertifTxNextPacketTimer is started                    *)
  linkAsked,        (* a link check waits for its answer                     *)
  main,             (* where the main loop is                                *)
  command,          (* of the frame certif_rx handles                        *)
  network,          (* up, or gone for ever                                  *)
  asked             (* history: uplinks with ADRACKReq since the last downlink
                       of the session                                        *)

adrVars == <<AdrAckCounter, Datarate, TxPower, Channels>>
macVars == <<joined, uplink, asks, retries, adrVars>>
testVars == <<Running, State, LinkCheck, IsTxConfirmed, AdrEnableInit, CertifTimer, linkAsked>>
vars == <<macVars, AdrCtrlOn, AdrEnable, testVars, main, command, network, asked>>

Uplinks == {"unconfirmed", "confirmed"}

(***************************************************************************)
(* Requests                                                                *)
(***************************************************************************)

(* LoRaMacMcpsRequest with ADR off takes the data rate of the request.       *)
RequestedDatarate(datarate) == IF AdrCtrlOn THEN Datarate ELSE datarate

(* Send.  A frame that is refused leaves data rate and power as they were,   *)
(* but not the channels that CalcNext has restored.                          *)
Send(type, datarate) ==
  LET next == CalcNext(AdrCtrlOn, RequestedDatarate(datarate), TxPower, AdrAckCounter)
  IN /\ Channels' = IF next.RestoreChannels THEN "default" ELSE Channels
     /\ retries' = 1
     /\ \/ /\ uplink' = type
           /\ asks' = next.AdrAckReq
           /\ Datarate' = next.Datarate
           /\ TxPower' = next.TxPower
           /\ AdrAckCounter' = next.AdrAckCounter
        \/ /\ Datarate' = RequestedDatarate(datarate)
           /\ UNCHANGED <<uplink, asks, TxPower, AdrAckCounter>>
     /\ UNCHANGED joined

(* LoRaMacMcpsRequest.                                                       *)
McpsRequest(type, datarate) ==
  \/ uplink # "none" /\ UNCHANGED macVars
  \/ /\ uplink = "none" /\ ~joined
     /\ retries' = 1
     /\ Datarate' = RequestedDatarate(datarate)
     /\ UNCHANGED <<joined, uplink, asks, AdrAckCounter, TxPower, Channels>>
  \/ uplink = "none" /\ joined /\ Send(type, datarate)

(* LoRaMacMlmeRequest for MLME_JOIN: the session is over before it is known  *)
(* whether the request can be sent.                                          *)
LORA_Join ==
  \/ uplink # "none" /\ UNCHANGED <<macVars, asked>>
  \/ /\ uplink = "none"
     /\ joined' = FALSE
     /\ uplink' \in {"join", "none"}
     /\ asks' = FALSE
     /\ retries' = 1
     /\ AdrAckCounter' = 0
     /\ Datarate' = JoinDatarate
     /\ TxPower' = "max"
     /\ Channels' = "default"
     /\ asked' = 0

(***************************************************************************)
(* Interrupts                                                              *)
(***************************************************************************)

(* Fault: the application relies on the confirmation to join again.          *)
OnTxTimerEventNoRetry ==
  /\ IF Running
     THEN UNCHANGED <<macVars, asked>>
     ELSE McpsRequest("unconfirmed", TxDatarate) /\ UNCHANGED asked
  /\ UNCHANGED <<AdrCtrlOn, AdrEnable, testVars, main, command, network>>

(* OnTxTimerEvent, Send of main.c and LORA_send.                             *)
OnTxTimerEvent ==
  /\ IF ~joined THEN LORA_Join
     ELSE IF Running THEN UNCHANGED <<macVars, asked>>
     ELSE McpsRequest("unconfirmed", TxDatarate) /\ UNCHANGED asked
  /\ UNCHANGED <<AdrCtrlOn, AdrEnable, testVars, main, command, network>>

(* certif_tx: an empty frame, never confirmed, flushes MAC commands that     *)
(* leave no room.                                                            *)
certif_tx ==
  /\ LinkCheck' = FALSE
  /\ State' = IF LinkCheck \/ State = 4 THEN 1 ELSE State
  /\ CertifTimer' = TRUE
  /\ \/ McpsRequest("unconfirmed", MinDatarate)
     \/ IsTxConfirmed /\ McpsRequest("confirmed", MinDatarate)
  /\ UNCHANGED <<Running, IsTxConfirmed, AdrEnableInit, linkAsked>>

OnCertifTxNextPacketTimerEvent ==
  /\ CertifTimer
  /\ certif_tx
  /\ UNCHANGED <<AdrCtrlOn, AdrEnable, main, command, network, asked>>

(***************************************************************************)
(* The main loop: the MAC                                                  *)
(***************************************************************************)

JoinAccept ==
  /\ main = "idle" /\ uplink = "join" /\ network = "up"
  /\ joined' = TRUE
  /\ uplink' = "none"
  /\ UNCHANGED <<asks, retries, adrVars, AdrCtrlOn, AdrEnable, testVars, main, command,
                 network, asked>>

(* No answer, another frame, or a timeout of the radio.                      *)
JoinFail ==
  /\ main = "idle" /\ uplink = "join"
  /\ uplink' = "none"
  /\ main' = "joinFailed"
  /\ UNCHANGED <<joined, asks, retries, adrVars, AdrCtrlOn, AdrEnable, testVars, command,
                 network, asked>>

(* StopRetransmission, McpsInd not set.                                      *)
CountSilentUplink ==
  /\ AdrAckCounter' = IF AdrCtrlOn THEN AdrAckCounter + 1 ELSE AdrAckCounter
  /\ asked' = IF AdrCtrlOn /\ asks THEN asked + 1 ELSE asked

(* AckTimeoutRetriesProcess: every second retry has a lower data rate, at    *)
(* which the frame may be too long to be sent again.                         *)
Retry ==
  /\ main = "idle" /\ uplink = "confirmed" /\ retries < NbTrials
  /\ retries' = retries + 1
  /\ Datarate' = IF retries' % 2 = 1 THEN NextLowerTxDr(Datarate) ELSE Datarate
  /\ \/ UNCHANGED <<uplink, AdrAckCounter, asked, linkAsked>>
     \/ uplink' = "none" /\ linkAsked' = FALSE /\ CountSilentUplink
  /\ UNCHANGED <<joined, asks, TxPower, Channels, AdrCtrlOn, AdrEnable, Running, State,
                 LinkCheck, IsTxConfirmed, AdrEnableInit, CertifTimer, main, command, network>>

(* The last transmission of an uplink, without an answer to it.  Nothing was *)
(* received, or a frame that is not accepted: it sets McpsInd, and the       *)
(* uplink does not count as a silent one.  AckTimeoutRetriesFinalize.        *)
EndSilent ==
  /\ main = "idle"
  /\ uplink = "unconfirmed" \/ (uplink = "confirmed" /\ retries = NbTrials)
  /\ uplink' = "none"
  /\ Channels' = IF uplink = "confirmed" THEN "default" ELSE Channels
  /\ linkAsked' = FALSE
  /\ CountSilentUplink \/ UNCHANGED <<AdrAckCounter, asked>>
  /\ UNCHANGED <<joined, asks, retries, Datarate, TxPower, AdrCtrlOn, AdrEnable, Running, State,
                 LinkCheck, IsTxConfirmed, AdrEnableInit, CertifTimer, main, command, network>>

(* A timeout of the radio ends an uplink without StopRetransmission.         *)
TxTimeout ==
  /\ main = "idle" /\ uplink \in Uplinks
  /\ uplink' = "none"
  /\ linkAsked' = FALSE
  /\ UNCHANGED <<joined, asks, retries, adrVars, AdrCtrlOn, AdrEnable, Running, State,
                 LinkCheck, IsTxConfirmed, AdrEnableInit, CertifTimer, main, command, network,
                 asked>>

(* LinkADRReq: with ADR off only the channels change.                        *)
LinkAdrReq ==
  /\ IF AdrCtrlOn THEN Datarate' \in Datarates /\ TxPower' \in TxPowers
     ELSE UNCHANGED <<Datarate, TxPower>>
  /\ Channels' \in {"default", "masked"}

(* ProcessRadioRxDone: a downlink that is accepted ends the uplink; it may   *)
(* answer the link check, change the data rate and carry a command for the   *)
(* test, which is not handled before the MAC is idle.                        *)
Downlink ==
  /\ main = "idle" /\ uplink \in Uplinks /\ network = "up"
  /\ uplink' = "none"
  /\ AdrAckCounter' = 0
  /\ asked' = 0
  /\ LinkAdrReq \/ UNCHANGED <<Datarate, TxPower, Channels>>
  /\ linkAsked' = FALSE
  /\ \E answered \in BOOLEAN : LinkCheck' = (LinkCheck \/ (answered /\ linkAsked /\ Running))
  /\ \E c \in Commands \cup {NoCommand} :
       /\ command' = c
       /\ main' = IF c = NoCommand THEN "idle" ELSE "indication"
  /\ UNCHANGED <<joined, asks, retries, AdrCtrlOn, AdrEnable, Running, State, IsTxConfirmed,
                 AdrEnableInit, CertifTimer, network>>

(***************************************************************************)
(* The main loop: its callbacks                                            *)
(***************************************************************************)

(* MlmeConfirm of a join that failed.  An interrupt may have come first.     *)
MlmeConfirm ==
  /\ main = "joinFailed"
  /\ LORA_Join
  /\ main' = "idle"
  /\ UNCHANGED <<AdrCtrlOn, AdrEnable, testVars, command, network>>

(* certif_rx, until it reads State again or sends; command 1 stands for the  *)
(* frame of four ones that enables the test.  (LORA_TxNeeded, which          *)
(* McpsIndication may call before, does what OnTxTimerEvent does.)           *)
McpsIndication ==
  /\ main = "indication"
  /\ \/ /\ Running
        /\ State' = command
        /\ main' = "switch"
        /\ UNCHANGED <<Running, LinkCheck, IsTxConfirmed, AdrEnableInit, AdrCtrlOn>>
     \/ /\ ~Running /\ command = 1
        /\ IsTxConfirmed' = FALSE
        /\ LinkCheck' = FALSE
        /\ Running' = TRUE
        /\ State' = 1
        /\ AdrEnableInit' = AdrCtrlOn
        /\ AdrCtrlOn' = TRUE
        /\ main' = "start"
     \/ /\ ~Running /\ command # 1
        /\ main' = "stop"
        /\ UNCHANGED <<Running, State, LinkCheck, IsTxConfirmed, AdrEnableInit, AdrCtrlOn>>
  /\ UNCHANGED <<macVars, AdrEnable, CertifTimer, linkAsked, command, network, asked>>

(* "confirm test mode activation"                                            *)
ConfirmStart ==
  /\ main = "start"
  /\ certif_tx
  /\ main' = "idle"
  /\ UNCHANGED <<AdrCtrlOn, AdrEnable, command, network, asked>>

(* The switch reads State, which an interrupt may have changed since, or     *)
(* what the compiler has kept of it.                                         *)
Switch ==
  /\ main = "switch"
  /\ command' \in {State, command}
  /\ Running' = (command' \notin {0, 6})
  /\ main' = IF Running' THEN "idle" ELSE "restore"
  /\ IF command' \in {2, 3}
     THEN IsTxConfirmed' = (command' = 2) /\ State' = 1
     ELSE UNCHANGED <<IsTxConfirmed, State>>
  /\ linkAsked' = (linkAsked \/ (command' = 5 /\ uplink = "none"))
  /\ UNCHANGED <<macVars, LinkCheck, AdrEnableInit, CertifTimer, AdrCtrlOn, AdrEnable,
                 network, asked>>

(* Fault: a test that ends with a join leaves ADR on.                        *)
RestoreAdrUnlessRejoin ==
  /\ main = "restore"
  /\ AdrCtrlOn' = IF command = 6 THEN AdrCtrlOn ELSE AdrEnableInit
  /\ main' = IF command = 6 THEN "rejoin" ELSE "stop"
  /\ UNCHANGED <<macVars, testVars, AdrEnable, command, network, asked>>

RestoreAdr ==
  /\ main = "restore"
  /\ AdrCtrlOn' = AdrEnableInit
  /\ main' = IF command = 6 THEN "rejoin" ELSE "stop"
  /\ UNCHANGED <<macVars, testVars, AdrEnable, command, network, asked>>

(* The join of command 6 is refused if an interrupt has made the MAC busy.   *)
Rejoin ==
  /\ main = "rejoin"
  /\ LORA_Join
  /\ main' = "stop"
  /\ UNCHANGED <<AdrCtrlOn, AdrEnable, testVars, command, network>>

StopTimer ==
  /\ main = "stop"
  /\ CertifTimer' = FALSE
  /\ main' = "idle"
  /\ UNCHANGED <<macVars, AdrCtrlOn, AdrEnable, Running, State, LinkCheck, IsTxConfirmed,
                 AdrEnableInit, linkAsked, command, network, asked>>

(***************************************************************************)
(* The specification                                                       *)
(***************************************************************************)

(* The network is never heard again.                                         *)
Disappear ==
  /\ network = "up" /\ network' = "gone"
  /\ UNCHANGED <<macVars, AdrCtrlOn, AdrEnable, testVars, main, command, asked>>

(* main after LORA_Init and its first LORA_Join.                             *)
Init ==
  /\ joined = FALSE
  /\ uplink \in {"join", "none"}
  /\ asks = FALSE
  /\ retries = 1
  /\ AdrEnable \in BOOLEAN
  /\ AdrCtrlOn = AdrEnable
  /\ AdrAckCounter = 0
  /\ Datarate = JoinDatarate
  /\ TxPower = "max"
  /\ Channels = "default"
  /\ Running = FALSE
  /\ State = 0
  /\ LinkCheck = FALSE
  /\ IsTxConfirmed = FALSE
  /\ AdrEnableInit = FALSE
  /\ CertifTimer = FALSE
  /\ linkAsked = FALSE
  /\ main = "idle"
  /\ command = NoCommand
  /\ network = "up"
  /\ asked = 0

Interrupt == OnTxTimerEvent \/ OnCertifTxNextPacketTimerEvent

Mac == JoinAccept \/ JoinFail \/ Retry \/ EndSilent \/ TxTimeout \/ Downlink

Callback ==
  \/ MlmeConfirm \/ McpsIndication \/ ConfirmStart \/ Switch
  \/ RestoreAdr \/ Rejoin \/ StopTimer

Next == Interrupt \/ Mac \/ Callback \/ Disappear

Spec == Init /\ [][Next]_vars

(* The main loop goes on, an uplink ends.  The timers come again and again,  *)
(* and not every request is refused for ever; nor does the radio fail or     *)
(* receive other frames after every uplink, nor a network that is there      *)
(* leave every join without an answer.                                       *)
Fairness ==
  /\ WF_vars(Callback)
  /\ WF_vars(Mac)
  /\ SF_vars(OnTxTimerEvent /\ uplink' # uplink)
  /\ SF_vars(OnCertifTxNextPacketTimerEvent /\ uplink' # uplink)
  /\ SF_vars(EndSilent /\ CountSilentUplink)
  /\ SF_vars(JoinAccept)

FairSpec == Spec /\ Fairness

(***************************************************************************)
(* Properties                                                              *)
(***************************************************************************)

TypeOK ==
  /\ {joined, asks, AdrCtrlOn, AdrEnable, Running, LinkCheck, IsTxConfirmed, AdrEnableInit,
      CertifTimer, linkAsked} \subseteq BOOLEAN
  /\ uplink \in Uplinks \cup {"join", "none"}
  /\ retries \in 1..NbTrials
  /\ AdrAckCounter \in Nat /\ asked \in Nat
  /\ Datarate \in Datarates /\ TxPower \in TxPowers /\ Channels \in {"default", "masked"}
  /\ State \in 0..6
  /\ main \in {"idle", "joinFailed", "indication", "start", "switch", "restore", "rejoin", "stop"}
  /\ command \in (0..6) \cup {NoCommand}
  /\ network \in {"up", "gone"}

(* Only a joined node sends data, and only one that has no session joins.    *)
UplinkMatchesSession == uplink # "none" => (joined <=> uplink \in Uplinks)

(* The test runs on its timer with ADR on, whatever requests are refused;    *)
(* once certif_rx has ended it - by either command, whatever the interrupts  *)
(* did meanwhile - the timer is stopped and ADR is the application's again.  *)
TestIsCleanlyEnded ==
  /\ Running => joined /\ AdrCtrlOn /\ (CertifTimer \/ main = "start")
  /\ Running \/ main = "restore" => AdrEnableInit = AdrEnable
  /\ main \in {"switch", "start"} => Running
  /\ main \in {"restore", "rejoin", "stop"} => ~Running
  /\ ~Running /\ main # "restore" => AdrCtrlOn = AdrEnable
  /\ ~Running /\ CertifTimer => main \in {"restore", "rejoin", "stop"}

(* Whom the callbacks of the main loop are called for.                       *)
CallbackHasCause ==
  /\ main = "joinFailed" => ~joined
  /\ main = "indication" => joined /\ command # NoCommand

(* While the node can lower its data rate, every silent uplink from the      *)
(* AdrAckLimit-th on has asked the server for an answer.                     *)
CounterIsAsked ==
  /\ ~AdrCtrlOn \/ ~joined \/ main # "idle" => AdrAckCounter = 0
  /\ Datarate # MinDatarate =>
       /\ AdrAckCounter <= AdrAckLimit + asked
       /\ uplink \in Uplinks /\ AdrAckCounter >= AdrAckLimit => asks

IInv ==
  /\ TypeOK
  /\ UplinkMatchesSession
  /\ TestIsCleanlyEnded
  /\ CallbackHasCause
  /\ CounterIsAsked

(* A new uplink has a lower data rate than the last one, with ADR on, only   *)
(* after the server has left AdrAckDelay uplinks that asked it for an answer *)
(* without one - through refused requests, timeouts of the radio, tests that *)
(* come and go, and joins.                                                   *)
ServerIsAskedFirst ==
  [][AdrCtrlOn /\ uplink = "none" /\ uplink' \in Uplinks /\ Datarate' < Datarate
       => asked >= AdrAckDelay]_vars

(* A joined node that has lost the network, and does not send its frames     *)
(* confirmed, sends in the end at the lowest data rate, on all default       *)
(* channels and with full power, where it may be heard again.  Not so one    *)
(* that was at the lowest data rate when it lost the network: it never       *)
(* counts (LoRaMacAdr.c:60), and keeps the power and channels it was told.   *)
LonelyNodeRecovers ==
  (/\ network = "gone" /\ joined /\ AdrCtrlOn /\ Datarate # MinDatarate
   /\ main = "idle" /\ uplink # "confirmed" /\ ~(Running /\ IsTxConfirmed))
    ~> (Datarate = MinDatarate /\ Channels = "default" /\ TxPower = "max")

(* While there is a network, a node without a session joins in the end,      *)
(* whichever of its joins are refused, fail, or find the MAC busy.           *)
JoinsInTheEnd == ~joined ~> (joined \/ network = "gone")
===============================================================================
