----------------------------- MODULE FCntHandler -----------------------------
(***************************************************************************)
(* The downlink counter of a LoRaWAN 1.0 node: a frame carries the low     *)
(* sixteen bits of a 32-bit counter, LoRaMacFCntHandler.c reconstructs the *)
(* rest, and LoRaMacCrypto.c checks it with the message integrity code.    *)
(* The widths are constants, so that a small instance rolls over.          *)
(***************************************************************************)
EXTENDS Integers

CONSTANTS
  FCntMod,      \* 0x10000
  FCntRange,    \* 0x100000000
  MaxFCntGap    \* PHY_MAX_FCNT_GAP

ASSUME FCntAssumption ==
  /\ FCntMod \in Nat \ {0}
  /\ FCntRange \in Nat /\ FCntRange > 2 * FCntMod /\ FCntRange % FCntMod = 0
  /\ MaxFCntGap \in 1 .. FCntMod

(* FCNT_DOWN_INITAL_VALUE: no downlink was received yet. *)
Initial == FCntRange - 1

(* The difference of two counters as an int32_t. *)
SignedDiff(x, y) ==
  LET d == (x - y) % FCntRange
  IN  IF d >= FCntRange \div 2 THEN d - FCntRange ELSE d

(* Fault: a roll-over does not carry. *)
CurrentDownNoCarry(previousDown, fCnt) ==
  IF previousDown = Initial THEN fCnt
  ELSE (previousDown + fCnt - (previousDown % FCntMod)) % FCntRange

(* The counter LoRaMacGetFCntDown reconstructs from the previous one and   *)
(* the low bits in the frame.                                              *)
CurrentDown(previousDown, fCnt) ==
  LET low == previousDown % FCntMod
      diff == fCnt - low
  IN  CASE previousDown = Initial -> fCnt
        [] previousDown # Initial /\ diff >= 0 -> (previousDown + diff) % FCntRange
        [] OTHER -> (previousDown + diff + FCntMod + (previousDown - low)) % FCntRange

(* LoRaMacGetFCntDown: the status of the frame. *)
FCntStatus(previousDown, fCnt) ==
  CASE previousDown # Initial /\ fCnt = previousDown % FCntMod -> "CHECK_FAIL"
    [] SignedDiff(CurrentDown(previousDown, fCnt), previousDown) >= MaxFCntGap -> "MAX_GAP_FAIL"
    [] OTHER -> "SUCCESS"

(* CheckFCntDown of LoRaMacCrypto.c. *)
CheckFCntDown(lastDown, currentDown) == currentDown > lastDown \/ lastDown = Initial

=============================================================================
