---------------------------------- MODULE Adr ----------------------------------
(***************************************************************************)
(* What a node does about its data rate when it hears nothing from the     *)
(* network: CalcNextV10X in Lora/Mac/LoRaMacAdr.c.                         *)
(***************************************************************************)
EXTENDS Integers

CONSTANTS
  AdrAckLimit,   (* silent uplinks until ADRACKReq is set                    *)
  AdrAckDelay,   (* uplinks with it until the data rate is lowered           *)
  MinDatarate,
  MaxDatarate

ASSUME AdrAssumption ==
  /\ AdrAckLimit \in Nat \ {0}
  /\ AdrAckDelay \in Nat \ {0, 1}
  /\ MinDatarate \in Nat /\ MaxDatarate \in Nat
  /\ MinDatarate <= MaxDatarate

Datarates == MinDatarate .. MaxDatarate
TxPowers == {"low", "max"}

(* PHY_NEXT_LOWER_TX_DR.                                                     *)
NextLowerTxDr(datarate) == IF datarate = MinDatarate THEN datarate ELSE datarate - 1

AsksForAnswer(adrAckCounter, datarate) ==
  datarate # MinDatarate /\ adrAckCounter >= AdrAckLimit

(* Fault: the server is not given AdrAckDelay uplinks to answer.             *)
LowersAtLimit(adrAckCounter, datarate) ==
  datarate # MinDatarate /\ adrAckCounter >= AdrAckLimit /\ adrAckCounter % AdrAckDelay = 1

Lowers(adrAckCounter, datarate) ==
  /\ datarate # MinDatarate
  /\ adrAckCounter >= AdrAckLimit + AdrAckDelay
  /\ adrAckCounter % AdrAckDelay = 1

(* Fault: the data rate is looked at before it is lowered, so that the        *)
(* default channels are never restored.                                       *)
CalcNextRestoresNever(adrEnabled, datarate, txPower, adrAckCounter) ==
  LET lowers == adrEnabled /\ Lowers(adrAckCounter, datarate)
      next == IF lowers THEN NextLowerTxDr(datarate) ELSE datarate
  IN [Datarate |-> next,
      TxPower |-> IF adrEnabled /\ AsksForAnswer(adrAckCounter, datarate) THEN "max" ELSE txPower,
      AdrAckCounter |-> IF adrEnabled /\ datarate = MinDatarate THEN 0 ELSE adrAckCounter,
      AdrAckReq |-> /\ adrEnabled /\ AsksForAnswer(adrAckCounter, datarate)
                    /\ ~(lowers /\ next = MinDatarate),
      RestoreChannels |-> lowers /\ datarate = MinDatarate]

(* LoRaMacAdrCalcNext with UpdateChanMask set, as Send calls it.  The counter *)
(* is not touched above the lowest data rate, and held at zero there.         *)
CalcNext(adrEnabled, datarate, txPower, adrAckCounter) ==
  LET lowers == adrEnabled /\ Lowers(adrAckCounter, datarate)
      next == IF lowers THEN NextLowerTxDr(datarate) ELSE datarate
  IN [Datarate |-> next,
      TxPower |-> IF adrEnabled /\ AsksForAnswer(adrAckCounter, datarate) THEN "max" ELSE txPower,
      AdrAckCounter |-> IF adrEnabled /\ datarate = MinDatarate THEN 0 ELSE adrAckCounter,
      AdrAckReq |-> /\ adrEnabled /\ AsksForAnswer(adrAckCounter, datarate)
                    /\ ~(lowers /\ next = MinDatarate),
      RestoreChannels |-> lowers /\ next = MinDatarate]
===============================================================================
