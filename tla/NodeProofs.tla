------------------------------- MODULE NodeProofs -------------------------------
(***************************************************************************)
(* Theorems of Node.                                                       *)
(***************************************************************************)
EXTENDS Node, TLAPS

(***************************************************************************)
(* The adaptive data rate                                                  *)
(***************************************************************************)

LEMMA LowerIsDatarate ==
  ASSUME NEW datarate \in Datarates
  PROVE  /\ NextLowerTxDr(datarate) \in Datarates
         /\ NextLowerTxDr(datarate) # MinDatarate => datarate # MinDatarate
BY AdrAssumption DEF Datarates, NextLowerTxDr

(* What Send gets from CalcNext: above the lowest data rate the counter is   *)
(* left alone, and the server is asked from AdrAckLimit on; the data rate is *)
(* lowered only behind AdrAckLimit + AdrAckDelay.                            *)
LEMMA CalcNextIsSound ==
  ASSUME NEW adr \in BOOLEAN, NEW datarate \in Datarates, NEW power \in TxPowers,
         NEW counter \in Nat
  PROVE  LET next == CalcNext(adr, datarate, power, counter)
         IN  /\ next.Datarate \in Datarates
             /\ next.TxPower \in TxPowers
             /\ next.AdrAckCounter \in {0, counter}
             /\ next.AdrAckReq \in BOOLEAN
             /\ next.Datarate # MinDatarate => datarate # MinDatarate
             /\ next.Datarate # MinDatarate /\ adr /\ counter >= AdrAckLimit => next.AdrAckReq
             /\ next.Datarate # datarate =>
                  adr /\ datarate # MinDatarate /\ counter >= AdrAckLimit + AdrAckDelay
<1> DEFINE lowers == adr /\ Lowers(counter, datarate)
           asksNow == adr /\ AsksForAnswer(counter, datarate)
           lower == IF lowers THEN NextLowerTxDr(datarate) ELSE datarate
           next == CalcNext(adr, datarate, power, counter)
<1>1. /\ next.Datarate = lower
      /\ next.TxPower = IF asksNow THEN "max" ELSE power
      /\ next.AdrAckCounter = IF adr /\ datarate = MinDatarate THEN 0 ELSE counter
      /\ next.AdrAckReq = (asksNow /\ ~(lowers /\ lower = MinDatarate))
      BY DEF CalcNext
<1>2. lower \in Datarates /\ (lower # MinDatarate => datarate # MinDatarate)
      BY LowerIsDatarate
<1>3. lower # datarate => lowers
      OBVIOUS
<1>4. asksNow \in BOOLEAN /\ lowers \in BOOLEAN
      BY DEF AsksForAnswer, Lowers
<1>5. lowers => adr /\ datarate # MinDatarate /\ counter >= AdrAckLimit + AdrAckDelay
      BY DEF Lowers
<1>6. datarate # MinDatarate /\ adr /\ counter >= AdrAckLimit => asksNow
      BY DEF AsksForAnswer
<1> HIDE DEF lowers, asksNow, lower, next
<1>7. next.Datarate \in Datarates /\ next.AdrAckCounter \in {0, counter}
      BY <1>1, <1>2
<1>8. next.TxPower \in TxPowers
      BY <1>1 DEF TxPowers
<1>9. next.AdrAckReq \in BOOLEAN
      BY <1>1, <1>4
<1>10. QED
       BY <1>1, <1>2, <1>3, <1>5, <1>6, <1>7, <1>8, <1>9 DEF next

(***************************************************************************)
(* Requests: the parts of the invariant that they can disturb              *)
(***************************************************************************)

MacOK ==
  /\ {joined, asks} \subseteq BOOLEAN
  /\ uplink \in Uplinks \cup {"join", "none"}
  /\ retries \in 1..NbTrials
  /\ AdrAckCounter \in Nat /\ asked \in Nat
  /\ Datarate \in Datarates /\ TxPower \in TxPowers /\ Channels \in {"default", "masked"}
  /\ UplinkMatchesSession
  /\ CounterIsAsked

LEMMA InvariantHasMacOK == IInv => MacOK
BY DEF IInv, TypeOK, MacOK

LEMMA MacOKHolds ==
  ASSUME MacOK, UNCHANGED <<macVars, AdrCtrlOn, asked>>, main' # "idle" => main # "idle"
  PROVE  MacOK'
BY DEF MacOK, macVars, adrVars, UplinkMatchesSession, CounterIsAsked, Uplinks

LEMMA SendIsSound ==
  ASSUME MacOK, AdrCtrlOn \in BOOLEAN, NEW type \in Uplinks, NEW datarate \in Datarates,
         uplink = "none", joined, Send(type, datarate), UNCHANGED <<AdrCtrlOn, asked>>,
         main' # "idle" => main # "idle"
  PROVE  MacOK'
<1> DEFINE requested == RequestedDatarate(datarate)
           next == CalcNext(AdrCtrlOn, requested, TxPower, AdrAckCounter)
<1>1. requested \in Datarates
      BY DEF RequestedDatarate, MacOK
<1>2. /\ next.Datarate \in Datarates
      /\ next.TxPower \in TxPowers
      /\ next.AdrAckCounter \in {0, AdrAckCounter}
      /\ next.AdrAckReq \in BOOLEAN
      /\ next.Datarate # MinDatarate => requested # MinDatarate
      /\ next.Datarate # MinDatarate /\ AdrCtrlOn /\ AdrAckCounter >= AdrAckLimit
           => next.AdrAckReq
      BY <1>1, CalcNextIsSound DEF MacOK
<1>3. /\ Channels' \in {"default", "masked"} /\ retries' = 1 /\ joined' = joined
      /\ \/ /\ uplink' = type
            /\ asks' = next.AdrAckReq
            /\ Datarate' = next.Datarate
            /\ TxPower' = next.TxPower
            /\ AdrAckCounter' = next.AdrAckCounter
         \/ /\ Datarate' = requested
            /\ UNCHANGED <<uplink, asks, TxPower, AdrAckCounter>>
      BY DEF Send, MacOK
<1>4. AdrCtrlOn => requested = Datarate
      BY DEF RequestedDatarate
<1> HIDE DEF requested, next
<1>5. retries' \in 1..NbTrials
      BY <1>3, NodeAssumption
<1>6. CASE /\ uplink' = type
           /\ asks' = next.AdrAckReq
           /\ Datarate' = next.Datarate
           /\ TxPower' = next.TxPower
           /\ AdrAckCounter' = next.AdrAckCounter
  <2>1. CounterIsAsked'
        BY <1>2, <1>3, <1>4, <1>6, AdrAssumption DEF MacOK, CounterIsAsked
  <2>2. QED
        BY <1>2, <1>3, <1>5, <1>6, <2>1 DEF MacOK, UplinkMatchesSession
<1>7. CASE /\ Datarate' = requested
           /\ UNCHANGED <<uplink, asks, TxPower, AdrAckCounter>>
  <2>1. CounterIsAsked'
        BY <1>3, <1>4, <1>7, AdrAssumption DEF MacOK, CounterIsAsked, Uplinks
  <2>2. QED
        BY <1>1, <1>3, <1>5, <1>7, <2>1 DEF MacOK, UplinkMatchesSession
<1>8. QED
      BY <1>3, <1>6, <1>7

LEMMA McpsRequestIsSound ==
  ASSUME MacOK, AdrCtrlOn \in BOOLEAN, NEW type \in Uplinks, NEW datarate \in Datarates,
         McpsRequest(type, datarate), UNCHANGED <<AdrCtrlOn, asked>>,
         main' # "idle" => main # "idle"
  PROVE  MacOK' /\ joined' = joined
<1>1. CASE UNCHANGED macVars
      BY <1>1, MacOKHolds DEF macVars
<1>2. CASE /\ uplink = "none" /\ ~joined
           /\ retries' = 1
           /\ Datarate' = RequestedDatarate(datarate)
           /\ UNCHANGED <<joined, uplink, asks, AdrAckCounter, TxPower, Channels>>
  <2>1. Datarate' \in Datarates /\ retries' \in 1..NbTrials
        BY <1>2, NodeAssumption DEF RequestedDatarate, MacOK
  <2>2. CounterIsAsked'
        BY <1>2, AdrAssumption DEF MacOK, CounterIsAsked, Uplinks
  <2>3. QED
        BY <1>2, <2>1, <2>2 DEF MacOK, UplinkMatchesSession
<1>3. CASE uplink = "none" /\ joined /\ Send(type, datarate)
      BY <1>3, SendIsSound DEF Send
<1>4. QED
      BY <1>1, <1>2, <1>3 DEF McpsRequest

LEMMA JoinIsSound ==
  ASSUME MacOK, LORA_Join, UNCHANGED AdrCtrlOn, main' # "idle" => main # "idle"
  PROVE  MacOK' /\ (joined' => joined)
<1>1. CASE UNCHANGED <<macVars, asked>>
      BY <1>1, MacOKHolds DEF macVars
<1>2. CASE ~(UNCHANGED <<macVars, asked>>)
  <2>1. /\ joined' = FALSE /\ uplink' \in {"join", "none"} /\ asks' = FALSE /\ retries' = 1
        /\ AdrAckCounter' = 0 /\ Datarate' = JoinDatarate /\ TxPower' = "max"
        /\ Channels' = "default" /\ asked' = 0
        BY <1>2 DEF LORA_Join
  <2>2. CounterIsAsked' /\ UplinkMatchesSession'
        BY <2>1, AdrAssumption DEF CounterIsAsked, UplinkMatchesSession, Uplinks
  <2>3. retries' \in 1..NbTrials /\ AdrAckCounter' \in Nat /\ asked' \in Nat
        BY <2>1, NodeAssumption
  <2>4. Datarate' \in Datarates /\ TxPower' \in TxPowers /\ {joined, asks}' \subseteq BOOLEAN
        BY <2>1, NodeAssumption DEF TxPowers
  <2>5. MacOK'
        BY <2>1, <2>2, <2>3, <2>4 DEF MacOK
  <2>6. QED
        BY <2>1, <2>5
<1>3. QED
      BY <1>1, <1>2

(* Silent uplinks, counted or not.                                           *)
LEMMA CountIsSound ==
  ASSUME MacOK, AdrCtrlOn \in BOOLEAN, CountSilentUplink \/ UNCHANGED <<AdrAckCounter, asked>>,
         uplink \in Uplinks, uplink' = "none", main = "idle", UNCHANGED <<joined, AdrCtrlOn, main>>,
         Datarate' # MinDatarate => Datarate # MinDatarate
  PROVE  AdrAckCounter' \in Nat /\ asked' \in Nat /\ CounterIsAsked' /\ UplinkMatchesSession'
<1>1. AdrAckCounter' \in Nat /\ asked' \in Nat
      BY DEF CountSilentUplink, MacOK
<1>2. joined
      BY DEF MacOK, UplinkMatchesSession, Uplinks
<1>3. CASE ~AdrCtrlOn \/ UNCHANGED <<AdrAckCounter, asked>>
  <2>1. UNCHANGED <<AdrAckCounter, asked>>
        BY <1>3 DEF CountSilentUplink
  <2>2. QED
        BY <1>1, <2>1 DEF MacOK, CounterIsAsked, UplinkMatchesSession, Uplinks
<1>4. CASE AdrCtrlOn /\ CountSilentUplink
  <2>1. AdrAckCounter' = AdrAckCounter + 1 /\ asked' = IF asks THEN asked + 1 ELSE asked
        BY <1>4 DEF CountSilentUplink
  <2>2. Datarate' # MinDatarate => AdrAckCounter' <= AdrAckLimit + asked'
        BY <2>1, AdrAssumption DEF MacOK, CounterIsAsked
  <2>3. QED
        BY <1>1, <1>2, <1>4, <2>2 DEF CounterIsAsked, UplinkMatchesSession, Uplinks
<1>5. QED
      BY <1>3, <1>4

(***************************************************************************)
(* The inductive invariant                                                 *)
(***************************************************************************)

(* Whatever the two timers interrupt, the compliance test ends with its timer *)
(* stopped and ADR as the application set it, and no silent uplink is counted *)
(* towards a lower data rate without having asked the server: for every       *)
(* limit, delay, range of data rates, number of trials and set of commands.   *)
THEOREM Invariance == Spec => []IInv
<1>1. Init => IInv
  <2> SUFFICES ASSUME Init PROVE IInv
      OBVIOUS
  <2>1. retries \in 1..NbTrials /\ Datarate \in Datarates /\ AdrAckCounter \in Nat /\ asked \in Nat
        BY NodeAssumption DEF Init
  <2>2. State \in 0..6 /\ command \in (0..6) \cup {NoCommand}
        BY DEF Init
  <2>3. TypeOK
        BY <2>1, <2>2 DEF Init, TypeOK, TxPowers
  <2>4. QED
        BY <2>3, AdrAssumption DEF Init, IInv, UplinkMatchesSession, TestIsCleanlyEnded,
           CallbackHasCause, CounterIsAsked, Uplinks
<1>2. IInv /\ [Next]_vars => IInv'
  <2> SUFFICES ASSUME IInv, [Next]_vars PROVE IInv'
      OBVIOUS
  <2>0. MacOK /\ AdrCtrlOn \in BOOLEAN
        BY InvariantHasMacOK DEF IInv, TypeOK
  <2>1. ASSUME MacOK', {AdrCtrlOn, AdrEnable, Running, LinkCheck, IsTxConfirmed, AdrEnableInit,
                       CertifTimer, linkAsked}' \subseteq BOOLEAN,
               State' \in 0..6, command' \in (0..6) \cup {NoCommand},
               main' \in {"idle", "joinFailed", "indication", "start", "switch", "restore",
                          "rejoin", "stop"},
               network' \in {"up", "gone"}, TestIsCleanlyEnded', CallbackHasCause'
        PROVE  IInv'
        BY <2>1 DEF MacOK, IInv, TypeOK
  <2>2. CASE OnTxTimerEvent
    <3>1. UNCHANGED <<AdrCtrlOn, AdrEnable, testVars, main, command, network>>
          BY <2>2 DEF OnTxTimerEvent
    <3>2. MacOK' /\ (joined' = joined \/ (~joined /\ ~joined'))
      <4>1. CASE ~joined
            BY <2>0, <2>2, <3>1, <4>1, JoinIsSound DEF OnTxTimerEvent
      <4>2. CASE joined /\ Running
            BY <2>0, <2>2, <3>1, <4>2, MacOKHolds DEF OnTxTimerEvent, macVars
      <4>3. CASE joined /\ ~Running
            BY <2>0, <2>2, <3>1, <4>3, McpsRequestIsSound, NodeAssumption
               DEF OnTxTimerEvent, Uplinks
      <4>4. QED
            BY <4>1, <4>2, <4>3
    <3>3. TestIsCleanlyEnded' /\ CallbackHasCause'
          BY <3>1, <3>2 DEF IInv, TestIsCleanlyEnded, CallbackHasCause, testVars
    <3>4. QED
          BY <2>1, <3>1, <3>2, <3>3 DEF IInv, TypeOK, testVars
  <2>3. CASE OnCertifTxNextPacketTimerEvent
    <3>1. /\ CertifTimer /\ CertifTimer' = TRUE /\ LinkCheck' = FALSE /\ State' \in {1, State}
          /\ UNCHANGED <<AdrCtrlOn, AdrEnable, main, command, network, asked, Running,
                         IsTxConfirmed, AdrEnableInit, linkAsked>>
          BY <2>3 DEF OnCertifTxNextPacketTimerEvent, certif_tx
    <3>2. PICK type \in Uplinks : McpsRequest(type, MinDatarate)
          BY <2>3 DEF OnCertifTxNextPacketTimerEvent, certif_tx, Uplinks
    <3>3. MacOK' /\ joined' = joined
          BY <2>0, <3>1, <3>2, McpsRequestIsSound, AdrAssumption DEF Datarates
    <3>4. TestIsCleanlyEnded' /\ CallbackHasCause'
          BY <3>1, <3>3 DEF IInv, TestIsCleanlyEnded, CallbackHasCause
    <3>5. State' \in 0..6
          BY <3>1 DEF IInv, TypeOK
    <3>6. QED
          BY <2>1, <3>1, <3>3, <3>4, <3>5 DEF IInv, TypeOK
  <2>4. CASE JoinAccept
    <3>1. /\ uplink = "join" /\ uplink' = "none" /\ joined' = TRUE /\ main = "idle"
          /\ UNCHANGED <<asks, retries, adrVars, AdrCtrlOn, AdrEnable, testVars, main, command,
                         network, asked>>
          BY <2>4 DEF JoinAccept
    <3>2. ~joined /\ AdrAckCounter = 0
          BY <2>0, <3>1 DEF MacOK, UplinkMatchesSession, CounterIsAsked, Uplinks
    <3>3. MacOK'
          BY <2>0, <3>1, <3>2 DEF MacOK, UplinkMatchesSession, CounterIsAsked, Uplinks, adrVars
    <3>4. TestIsCleanlyEnded' /\ CallbackHasCause'
          BY <3>1 DEF IInv, TestIsCleanlyEnded, CallbackHasCause, testVars
    <3>5. QED
          BY <2>1, <3>1, <3>3, <3>4 DEF IInv, TypeOK, testVars
  <2>5. CASE JoinFail
    <3>1. /\ uplink = "join" /\ uplink' = "none" /\ main = "idle" /\ main' = "joinFailed"
          /\ UNCHANGED <<joined, asks, retries, adrVars, AdrCtrlOn, AdrEnable, testVars, command,
                         network, asked>>
          BY <2>5 DEF JoinFail
    <3>2. ~joined
          BY <2>0, <3>1 DEF MacOK, UplinkMatchesSession, Uplinks
    <3>3. MacOK'
          BY <2>0, <3>1, <3>2 DEF MacOK, UplinkMatchesSession, CounterIsAsked, Uplinks, adrVars
    <3>4. TestIsCleanlyEnded' /\ CallbackHasCause'
          BY <3>1, <3>2 DEF IInv, TestIsCleanlyEnded, CallbackHasCause, testVars
    <3>5. QED
          BY <2>1, <3>1, <3>3, <3>4 DEF IInv, TypeOK, testVars
  <2>6. CASE Retry
    <3>1. /\ main = "idle" /\ uplink \in Uplinks /\ retries' = retries + 1 /\ retries < NbTrials
          /\ Datarate' \in {Datarate, NextLowerTxDr(Datarate)}
          /\ linkAsked' \in {linkAsked, FALSE}
          /\ UNCHANGED <<joined, asks, TxPower, Channels, AdrCtrlOn, AdrEnable, Running, State,
                         LinkCheck, IsTxConfirmed, AdrEnableInit, CertifTimer, main, command,
                         network>>
          BY <2>6 DEF Retry, Uplinks
    <3>2. Datarate' \in Datarates /\ (Datarate' # MinDatarate => Datarate # MinDatarate)
          BY <2>0, <3>1, LowerIsDatarate DEF MacOK
    <3>3. retries' \in 1..NbTrials
          BY <2>0, <3>1, NodeAssumption DEF MacOK
    <3>4. AdrAckCounter' \in Nat /\ asked' \in Nat /\ CounterIsAsked' /\ UplinkMatchesSession'
      <4>1. CASE UNCHANGED <<uplink, AdrAckCounter, asked>>
            BY <2>0, <3>1, <3>2, <4>1 DEF MacOK, CounterIsAsked, UplinkMatchesSession
      <4>2. CASE uplink' = "none" /\ CountSilentUplink
            BY <2>0, <3>1, <3>2, <4>2, CountIsSound
      <4>3. QED
            BY <2>6, <4>1, <4>2 DEF Retry
    <3>5. MacOK'
      <4>1. uplink' \in Uplinks \cup {"join", "none"}
            BY <2>6 DEF Retry, Uplinks
      <4>2. QED
            BY <2>0, <3>1, <3>2, <3>3, <3>4, <4>1 DEF MacOK
    <3>6. TestIsCleanlyEnded' /\ CallbackHasCause'
          BY <3>1 DEF IInv, TestIsCleanlyEnded, CallbackHasCause
    <3>7. QED
          BY <2>1, <3>1, <3>5, <3>6 DEF IInv, TypeOK
  <2>7. CASE EndSilent
    <3>1. /\ main = "idle" /\ uplink \in Uplinks /\ uplink' = "none"
          /\ Channels' \in {Channels, "default"} /\ linkAsked' = FALSE
          /\ CountSilentUplink \/ UNCHANGED <<AdrAckCounter, asked>>
          /\ UNCHANGED <<joined, asks, retries, Datarate, TxPower, AdrCtrlOn, AdrEnable, Running,
                         State, LinkCheck, IsTxConfirmed, AdrEnableInit, CertifTimer, main,
                         command, network>>
          BY <2>7 DEF EndSilent, Uplinks
    <3>2. AdrAckCounter' \in Nat /\ asked' \in Nat /\ CounterIsAsked' /\ UplinkMatchesSession'
          BY <2>0, <3>1, CountIsSound
    <3>3. MacOK'
          BY <2>0, <3>1, <3>2 DEF MacOK
    <3>4. TestIsCleanlyEnded' /\ CallbackHasCause'
          BY <3>1 DEF IInv, TestIsCleanlyEnded, CallbackHasCause
    <3>5. QED
          BY <2>1, <3>1, <3>3, <3>4 DEF IInv, TypeOK
  <2>8. CASE TxTimeout
    <3>1. /\ uplink' = "none" /\ linkAsked' = FALSE
          /\ UNCHANGED <<joined, asks, retries, adrVars, AdrCtrlOn, AdrEnable, Running, State,
                         LinkCheck, IsTxConfirmed, AdrEnableInit, CertifTimer, main, command,
                         network, asked>>
          BY <2>8 DEF TxTimeout
    <3>2. MacOK'
          BY <2>0, <3>1 DEF MacOK, CounterIsAsked, UplinkMatchesSession, Uplinks, adrVars
    <3>3. TestIsCleanlyEnded' /\ CallbackHasCause'
          BY <3>1 DEF IInv, TestIsCleanlyEnded, CallbackHasCause
    <3>4. QED
          BY <2>1, <3>1, <3>2, <3>3 DEF IInv, TypeOK
  <2>9. CASE Downlink
    <3>1. /\ main = "idle" /\ uplink \in Uplinks /\ uplink' = "none"
          /\ AdrAckCounter' = 0 /\ asked' = 0
          /\ LinkAdrReq \/ UNCHANGED <<Datarate, TxPower, Channels>>
          /\ linkAsked' = FALSE
          /\ UNCHANGED <<joined, asks, retries, AdrCtrlOn, AdrEnable, Running, State,
                         IsTxConfirmed, AdrEnableInit, CertifTimer, network>>
          BY <2>9 DEF Downlink
    <3>2. LinkCheck' \in BOOLEAN
          BY <2>9 DEF Downlink
    <3>3. /\ command' \in (0..6) \cup {NoCommand}
          /\ main' \in {"idle", "indication"}
          /\ main' = "indication" => command' # NoCommand
          BY <2>9, NodeAssumption DEF Downlink
    <3>4. joined
          BY <2>0, <3>1 DEF MacOK, UplinkMatchesSession, Uplinks
    <3>5. /\ Datarate' \in Datarates /\ TxPower' \in TxPowers
          /\ Channels' \in {"default", "masked"}
          BY <2>0, <3>1 DEF MacOK, LinkAdrReq
    <3>6. MacOK'
      <4>1. CounterIsAsked' /\ UplinkMatchesSession'
            BY <3>1, AdrAssumption DEF CounterIsAsked, UplinkMatchesSession, Uplinks
      <4>2. AdrAckCounter' \in Nat /\ asked' \in Nat
            BY <3>1
      <4>3. QED
            BY <2>0, <3>1, <3>5, <4>1, <4>2 DEF MacOK
    <3>7. TestIsCleanlyEnded' /\ CallbackHasCause'
          BY <3>1, <3>3, <3>4 DEF IInv, TestIsCleanlyEnded, CallbackHasCause
    <3>8. QED
          BY <2>1, <3>1, <3>2, <3>3, <3>6, <3>7 DEF IInv, TypeOK
  <2>10. CASE MlmeConfirm
    <3>1. /\ main = "joinFailed" /\ main' = "idle" /\ LORA_Join
          /\ UNCHANGED <<AdrCtrlOn, AdrEnable, testVars, command, network>>
          BY <2>10 DEF MlmeConfirm
    <3>2. MacOK' /\ (joined' => joined)
          BY <2>0, <3>1, JoinIsSound
    <3>3. TestIsCleanlyEnded' /\ CallbackHasCause'
          BY <3>1, <3>2 DEF IInv, TestIsCleanlyEnded, CallbackHasCause, testVars
    <3>4. QED
          BY <2>1, <3>1, <3>2, <3>3 DEF IInv, TypeOK, testVars
  <2>11. CASE McpsIndication
    <3>1. /\ main = "indication" /\ main' \in {"switch", "start", "stop"}
          /\ UNCHANGED <<macVars, AdrEnable, CertifTimer, linkAsked, command, network, asked>>
          BY <2>11 DEF McpsIndication
    <3>2. AdrAckCounter = 0 /\ command # NoCommand
          BY <3>1 DEF IInv, CounterIsAsked, CallbackHasCause
    <3>3. MacOK'
          BY <2>0, <3>1, <3>2, AdrAssumption
             DEF MacOK, macVars, adrVars, CounterIsAsked, UplinkMatchesSession
    <3>4. CASE /\ Running
               /\ State' = command
               /\ main' = "switch"
               /\ UNCHANGED <<Running, LinkCheck, IsTxConfirmed, AdrEnableInit, AdrCtrlOn>>
      <4>1. TestIsCleanlyEnded' /\ CallbackHasCause'
            BY <3>1, <3>4 DEF IInv, TestIsCleanlyEnded, CallbackHasCause, macVars
      <4>2. State' \in 0..6
            BY <3>2, <3>4 DEF IInv, TypeOK
      <4>3. QED
            BY <2>1, <3>1, <3>3, <3>4, <4>1, <4>2 DEF IInv, TypeOK
    <3>5. CASE /\ ~Running /\ command = 1
               /\ IsTxConfirmed' = FALSE
               /\ LinkCheck' = FALSE
               /\ Running' = TRUE
               /\ State' = 1
               /\ AdrEnableInit' = AdrCtrlOn
               /\ AdrCtrlOn' = TRUE
               /\ main' = "start"
      <4>1. TestIsCleanlyEnded' /\ CallbackHasCause'
            BY <3>1, <3>5 DEF IInv, TestIsCleanlyEnded, CallbackHasCause, macVars
      <4>2. State' \in 0..6
            BY <3>5
      <4>3. QED
            BY <2>0, <2>1, <3>1, <3>3, <3>5, <4>1, <4>2 DEF IInv, TypeOK
    <3>6. CASE /\ ~Running /\ command # 1
               /\ main' = "stop"
               /\ UNCHANGED <<Running, State, LinkCheck, IsTxConfirmed, AdrEnableInit, AdrCtrlOn>>
      <4>1. TestIsCleanlyEnded' /\ CallbackHasCause'
            BY <3>1, <3>6 DEF IInv, TestIsCleanlyEnded, CallbackHasCause, macVars
      <4>2. QED
            BY <2>1, <3>1, <3>3, <3>6, <4>1 DEF IInv, TypeOK
    <3>7. QED
          BY <2>11, <3>4, <3>5, <3>6 DEF McpsIndication
  <2>12. CASE ConfirmStart
    <3>1. /\ main = "start" /\ main' = "idle"
          /\ CertifTimer' = TRUE /\ LinkCheck' = FALSE /\ State' \in {1, State}
          /\ UNCHANGED <<AdrCtrlOn, AdrEnable, command, network, asked, Running, IsTxConfirmed,
                         AdrEnableInit, linkAsked>>
          BY <2>12 DEF ConfirmStart, certif_tx
    <3>2. PICK type \in Uplinks : McpsRequest(type, MinDatarate)
          BY <2>12 DEF ConfirmStart, certif_tx, Uplinks
    <3>3. MacOK' /\ joined' = joined
          BY <2>0, <3>1, <3>2, McpsRequestIsSound, AdrAssumption DEF Datarates
    <3>4. TestIsCleanlyEnded' /\ CallbackHasCause'
          BY <3>1, <3>3 DEF IInv, TestIsCleanlyEnded, CallbackHasCause
    <3>5. State' \in 0..6
          BY <3>1 DEF IInv, TypeOK
    <3>6. QED
          BY <2>1, <3>1, <3>3, <3>4, <3>5 DEF IInv, TypeOK
  <2>13. CASE Switch
    <3>1. /\ main = "switch" /\ command' \in {State, command}
          /\ Running' = (command' \notin {0, 6})
          /\ main' = IF Running' THEN "idle" ELSE "restore"
          /\ IsTxConfirmed' \in BOOLEAN /\ State' \in {1, State} /\ linkAsked' \in BOOLEAN
          /\ UNCHANGED <<macVars, LinkCheck, AdrEnableInit, CertifTimer, AdrCtrlOn, AdrEnable,
                         network, asked>>
          BY <2>13 DEF Switch, IInv, TypeOK
    <3>2. MacOK'
          BY <2>0, <3>1, MacOKHolds
    <3>3. TestIsCleanlyEnded' /\ CallbackHasCause'
          BY <3>1 DEF IInv, TestIsCleanlyEnded, CallbackHasCause, macVars
    <3>4. State' \in 0..6 /\ command' \in (0..6) \cup {NoCommand} /\ Running' \in BOOLEAN
          BY <3>1 DEF IInv, TypeOK
    <3>5. QED
          BY <2>1, <3>1, <3>2, <3>3, <3>4 DEF IInv, TypeOK
  <2>14. CASE RestoreAdr
    <3>1. /\ main = "restore" /\ AdrCtrlOn' = AdrEnableInit /\ main' \in {"rejoin", "stop"}
          /\ UNCHANGED <<macVars, testVars, AdrEnable, command, network, asked>>
          BY <2>14 DEF RestoreAdr
    <3>2. AdrAckCounter = 0
          BY <3>1 DEF IInv, CounterIsAsked
    <3>3. MacOK'
          BY <2>0, <3>1, <3>2, AdrAssumption
             DEF MacOK, macVars, adrVars, CounterIsAsked, UplinkMatchesSession
    <3>4. TestIsCleanlyEnded' /\ CallbackHasCause'
          BY <3>1 DEF IInv, TestIsCleanlyEnded, CallbackHasCause, testVars
    <3>5. QED
          BY <2>1, <3>1, <3>3, <3>4 DEF IInv, TypeOK, testVars
  <2>15. CASE Rejoin
    <3>1. /\ main = "rejoin" /\ main' = "stop" /\ LORA_Join
          /\ UNCHANGED <<AdrCtrlOn, AdrEnable, testVars, command, network>>
          BY <2>15 DEF Rejoin
    <3>2. MacOK' /\ (joined' => joined)
          BY <2>0, <3>1, JoinIsSound
    <3>3. TestIsCleanlyEnded' /\ CallbackHasCause'
          BY <3>1, <3>2 DEF IInv, TestIsCleanlyEnded, CallbackHasCause, testVars
    <3>4. QED
          BY <2>1, <3>1, <3>2, <3>3 DEF IInv, TypeOK, testVars
  <2>16. CASE StopTimer
    <3>1. /\ main = "stop" /\ main' = "idle" /\ CertifTimer' = FALSE
          /\ UNCHANGED <<macVars, AdrCtrlOn, AdrEnable, Running, State, LinkCheck, IsTxConfirmed,
                         AdrEnableInit, linkAsked, command, network, asked>>
          BY <2>16 DEF StopTimer
    <3>2. MacOK'
          BY <2>0, <3>1, MacOKHolds
    <3>3. TestIsCleanlyEnded' /\ CallbackHasCause'
          BY <3>1 DEF IInv, TestIsCleanlyEnded, CallbackHasCause, macVars
    <3>4. QED
          BY <2>1, <3>1, <3>2, <3>3 DEF IInv, TypeOK
  <2>17. CASE Disappear
    <3>1. /\ network' = "gone"
          /\ UNCHANGED <<macVars, AdrCtrlOn, AdrEnable, testVars, main, command, asked>>
          BY <2>17 DEF Disappear
    <3>2. MacOK'
          BY <2>0, <3>1, MacOKHolds
    <3>3. TestIsCleanlyEnded' /\ CallbackHasCause'
          BY <3>1 DEF IInv, TestIsCleanlyEnded, CallbackHasCause, macVars, testVars
    <3>4. QED
          BY <2>1, <3>1, <3>2, <3>3 DEF IInv, TypeOK, testVars
  <2>18. CASE UNCHANGED vars
    <3>1. MacOK'
          BY <2>0, <2>18, MacOKHolds DEF vars
    <3>2. TestIsCleanlyEnded' /\ CallbackHasCause'
          BY <2>18 DEF IInv, TestIsCleanlyEnded, CallbackHasCause, vars, macVars, testVars
    <3>3. QED
          BY <2>1, <2>18, <3>1, <3>2 DEF IInv, TypeOK, vars, testVars
  <2>19. QED
         BY <2>2, <2>3, <2>4, <2>5, <2>6, <2>7, <2>8, <2>9, <2>10, <2>11, <2>12, <2>13, <2>14,
            <2>15, <2>16, <2>17, <2>18 DEF Next, Interrupt, Mac, Callback
<1>3. QED
      BY <1>1, <1>2, PTL DEF Spec

(***************************************************************************)
(* The data rate                                                           *)
(***************************************************************************)

LEMMA OnlyCalcNextLowers ==
  ASSUME MacOK, AdrCtrlOn, NEW type \in Uplinks, NEW datarate \in Datarates,
         McpsRequest(type, datarate), uplink = "none", uplink' \in Uplinks, Datarate' < Datarate
  PROVE  asked >= AdrAckDelay
<1> DEFINE next == CalcNext(AdrCtrlOn, RequestedDatarate(datarate), TxPower, AdrAckCounter)
<1>1. uplink' # "none"
      BY DEF Uplinks
<1>2. Datarate' = next.Datarate
      BY <1>1 DEF McpsRequest, Send, macVars
<1>3. Datarate \in Datarates /\ RequestedDatarate(datarate) = Datarate
      BY DEF MacOK, RequestedDatarate
<1>4. Datarate' # Datarate
      BY <1>3, AdrAssumption DEF Datarates
<1>5. Datarate # MinDatarate /\ AdrAckCounter >= AdrAckLimit + AdrAckDelay
      BY <1>2, <1>3, <1>4, CalcNextIsSound DEF MacOK
<1>6. AdrAckCounter <= AdrAckLimit + asked
      BY <1>5 DEF MacOK, CounterIsAsked
<1>7. QED
      BY <1>5, <1>6, AdrAssumption DEF MacOK

(* A new uplink has a lower data rate than the last one only after the       *)
(* server has left AdrAckDelay uplinks that asked it without an answer: for  *)
(* every limit, delay, range of data rates and number of trials.             *)
THEOREM ServerAskedFirst == Spec => ServerIsAskedFirst
<1> DEFINE Lowered == AdrCtrlOn /\ uplink = "none" /\ uplink' \in Uplinks /\ Datarate' < Datarate
<1>1. IInv /\ [Next]_vars => [Lowered => asked >= AdrAckDelay]_vars
  <2> SUFFICES ASSUME IInv, Next, Lowered PROVE asked >= AdrAckDelay
      BY DEF vars
  <2>1. MacOK /\ uplink # uplink' /\ uplink' \notin {"none", "join"}
        BY InvariantHasMacOK DEF Uplinks
  <2>2. PICK type \in Uplinks, datarate \in Datarates : McpsRequest(type, datarate)
    <3>1. CASE OnTxTimerEvent
      <4>1. McpsRequest("unconfirmed", TxDatarate)
            BY <2>1, <3>1 DEF OnTxTimerEvent, LORA_Join, macVars, Uplinks
      <4>2. "unconfirmed" \in Uplinks /\ TxDatarate \in Datarates
            BY NodeAssumption DEF Uplinks
      <4>3. QED
            BY <4>1, <4>2
    <3>2. CASE OnCertifTxNextPacketTimerEvent \/ ConfirmStart
      <4>1. PICK type \in Uplinks : McpsRequest(type, MinDatarate)
            BY <3>2 DEF OnCertifTxNextPacketTimerEvent, ConfirmStart, certif_tx, Uplinks
      <4>2. MinDatarate \in Datarates
            BY AdrAssumption DEF Datarates
      <4>3. QED
            BY <4>1, <4>2
    <3>3. CASE Mac
          BY <2>1, <3>3 DEF Mac, JoinAccept, JoinFail, Retry, EndSilent, TxTimeout, Downlink
    <3>4. CASE MlmeConfirm \/ Rejoin
          BY <2>1, <3>4 DEF MlmeConfirm, Rejoin, LORA_Join, macVars
    <3>5. CASE McpsIndication \/ Switch \/ RestoreAdr \/ StopTimer \/ Disappear
          BY <2>1, <3>5 DEF McpsIndication, Switch, RestoreAdr, StopTimer, Disappear, macVars
    <3>6. QED
          BY <3>1, <3>2, <3>3, <3>4, <3>5 DEF Next, Interrupt, Callback
  <2>3. QED
        BY <2>1, <2>2, OnlyCalcNextLowers
<1>2. QED
      BY <1>1, Invariance, PTL DEF Spec, ServerIsAskedFirst
===============================================================================
