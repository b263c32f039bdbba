------------------------------- MODULE DutyCycle -------------------------------
(***************************************************************************)
(* The aggregated duty cycle of a joined node over the real-time clock:    *)
(* ScheduleTx and OnTxDelayedTimerEvent in Lora/Mac/LoRaMac.c,             *)
(* RegionAS923NextChannel in Lora/Mac/region/RegionAS923.c.                *)
(*                                                                         *)
(* After a transmission the node is off for a multiple of its time on air, *)
(* in milliseconds.  An attempt reads the clock twice: once to see whether *)
(* the time-off has passed, and, if it has not, again to see how much of   *)
(* it is left.  A request of a client is then refused; a retransmission is *)
(* delayed by TxDelayedTimer.  `stamp' of Rtc is AggregatedLastTxDoneTime. *)
(***************************************************************************)
EXTENDS Rtc

CONSTANTS
  MsMod,               (* 2^32: milliseconds are kept in 32 bits             *)
  TimesOnAir,          (* of transmissions, in milliseconds                  *)
  MaxDCycles           (* exponents that a DutyCycleReq may set              *)

(* The longest time-off is short of a wrap of the ticks (2.8 s on air and    *)
(* 2^15 are a day, the wrap is 48 days), and rounding a time to ticks costs  *)
(* less than the shortest delay of a timer.                                  *)
ASSUME DutyCycleAssumption ==
  /\ MsMod \in Nat \ {0}
  /\ TimesOnAir \subseteq Nat \ {0}
  /\ MaxDCycles \subseteq 0..15
  /\ \A timeOnAir \in TimesOnAir, maxDCycle \in MaxDCycles :
       timeOnAir * 2^maxDCycle * TicksPerSecond < TickMod * MSEC_NUMBER
  /\ PREDIV_S <= MSEC_NUMBER * MIN_ALARM_DELAY

VARIABLES
  phase,               (* what the MAC does about the current frame          *)
  allowDelayedTx,      (* it is a retransmission                             *)
  TxTimeOnAir,
  AggregatedDCycle,
  timer,               (* ticks left of TxDelayedTimer                       *)
  between,             (* history: ticks between the two readings            *)
  overtaken            (* history: the time-off ended between them           *)

dutyVars ==
  <<phase, allowDelayedTx, TxTimeOnAir, AggregatedDCycle, timer, between, overtaken>>

(* CalculateBackOff: the time-off after the last transmission.               *)
AggregatedTimeOff == ((TxTimeOnAir * AggregatedDCycle) - TxTimeOnAir) % MsMod

(* TimerGetElapsedTime( AggregatedLastTxDoneTime ).                          *)
ElapsedMs == GetElapsedTime(stamp)

(* A new frame, or, behind its receive windows, the same one again; or       *)
(* TxDelayedTimer brings it back.                                            *)
ScheduleTx ==
  /\ \/ phase = "idle" /\ allowDelayedTx' = FALSE
     \/ phase = "sent" /\ allowDelayedTx' = TRUE
     \/ phase = "delayed" /\ timer = 0 /\ UNCHANGED allowDelayedTx
  /\ phase' = "check"
  /\ between' = 0
  /\ overtaken' = FALSE
  /\ UNCHANGED <<TxTimeOnAir, AggregatedDCycle, timer>>

(* Fault: the time-off may end within the transmission.                      *)
NextChannelDuringTx ==
  /\ phase = "check"
  /\ IF stamp = None \/ AggregatedTimeOff <= ElapsedMs + TxTimeOnAir
     THEN phase' = "sending" /\ TxTimeOnAir' \in TimesOnAir
     ELSE phase' = "restricted" /\ UNCHANGED TxTimeOnAir
  /\ UNCHANGED <<allowDelayedTx, AggregatedDCycle, timer, between, overtaken>>

(* RegionAS923NextChannel, first reading.  No time-off before the first      *)
(* transmission.                                                             *)
NextChannel ==
  /\ phase = "check"
  /\ IF stamp = None \/ AggregatedTimeOff <= ElapsedMs
     THEN phase' = "sending" /\ TxTimeOnAir' \in TimesOnAir
     ELSE phase' = "restricted" /\ UNCHANGED TxTimeOnAir
  /\ UNCHANGED <<allowDelayedTx, AggregatedDCycle, timer, between, overtaken>>

(* RegionAS923NextChannel, second reading: what is left of the time-off.     *)
DutyCycleTimeOff == (AggregatedTimeOff - ElapsedMs) % MsMod

(* TimerSetValue: MIN_ALARM_DELAY ticks at least.                            *)
TimerTicks(ms) ==
  IF Ms2Tick(ms) < MIN_ALARM_DELAY THEN MIN_ALARM_DELAY ELSE Ms2Tick(ms)

(* Fault: a retransmission is delayed by the whole time-off.                 *)
DelayWhole ==
  /\ phase = "restricted"
  /\ phase' = IF allowDelayedTx THEN "delayed" ELSE "idle"
  /\ timer' = TimerTicks(AggregatedTimeOff)
  /\ overtaken' = (AggregatedTimeOff <= ElapsedMs)
  /\ UNCHANGED <<allowDelayedTx, TxTimeOnAir, AggregatedDCycle, between>>

(* The client is told LORAMAC_STATUS_DUTYCYCLE_RESTRICTED.  A retransmission *)
(* waits, unless nothing is left of the time-off: then no timer is started,  *)
(* and the status is LORAMAC_STATUS_OK all the same.                         *)
Delay ==
  /\ phase = "restricted"
  /\ phase' = IF ~allowDelayedTx THEN "idle"
              ELSE IF DutyCycleTimeOff # 0 THEN "delayed" ELSE "forgotten"
  /\ timer' = IF phase' = "delayed" THEN TimerTicks(DutyCycleTimeOff) ELSE timer
  /\ overtaken' = (AggregatedTimeOff <= ElapsedMs)
  /\ UNCHANGED <<allowDelayedTx, TxTimeOnAir, AggregatedDCycle, between>>

(* OnRadioTxDone and ProcessRadioTxDone; the frame may be sent again.        *)
TxDone ==
  /\ phase = "sending"
  /\ stamp' = Tick2ms(TimerValue)
  /\ age' = 0
  /\ phase' \in {"sent", "idle"}
  /\ UNCHANGED <<allowDelayedTx, TxTimeOnAir, AggregatedDCycle, timer, between, overtaken>>

(* SRV_MAC_DUTY_CYCLE_REQ, in a downlink that ends the procedure.            *)
DutyCycleReq ==
  /\ phase = "idle"
  /\ \E maxDCycle \in MaxDCycles : AggregatedDCycle' = 2^maxDCycle
  /\ UNCHANGED <<phase, allowDelayedTx, TxTimeOnAir, timer, between, overtaken>>

UseDutyCycle ==
  /\ \/ TxDone
     \/ (ScheduleTx \/ NextChannel \/ Delay \/ DutyCycleReq) /\ UNCHANGED stampVars
  /\ UNCHANGED <<cal, ticks, readVars, alarmVars>>

(* The clock goes on; TxDelayedTimer may be served late, and interrupts may  *)
(* come between the two readings, but not for long (MaxRound).               *)
DutyTick ==
  /\ phase = "restricted" => between < MaxRound
  /\ between' = IF phase = "restricted" THEN between + 1 ELSE between
  /\ timer' = IF timer = 0 THEN 0 ELSE timer - 1
  /\ UNCHANGED <<phase, allowDelayedTx, TxTimeOnAir, AggregatedDCycle, overtaken>>

DutyInit ==
  /\ Init
  /\ phase = "idle"
  /\ allowDelayedTx = FALSE
  /\ TxTimeOnAir = 0
  /\ AggregatedDCycle = 1
  /\ timer = 0
  /\ between = 0
  /\ overtaken = FALSE

DutyNext == (Tick /\ DutyTick) \/ UseDutyCycle

DutySpec == DutyInit /\ [][DutyNext]_<<vars, dutyVars>>

(***************************************************************************)
(* Properties                                                              *)
(***************************************************************************)

(* No transmission starts before the time-off after the last one has passed, *)
(* but for the two milliseconds by which TimerGetElapsedTime may be ahead:   *)
(* not for a client's frame, not for a retransmission, and not after a wrap. *)
DutyCycleRespected ==
  [][phase' = "sending" /\ phase # "sending" /\ stamp # None =>
       Tick2ms(age) + 2 >= AggregatedTimeOff]_<<vars, dutyVars>>

(* Whatever milliseconds and ticks lose in conversion, a retransmission that *)
(* the duty cycle delays is due as soon as the time-off is over, at most the *)
(* shortest delay of a timer later.  There is one exception, overtaken: the  *)
(* time-off ends between the two readings of the clock.  If nothing is left  *)
(* of it the frame is forgotten with the MAC in LORAMAC_TX_RUNNING           *)
(* (LoRaMac.c:2245), if less than nothing, it waits for a wrap.  Times are   *)
(* compared up to a second before the ticks have gone round once.            *)
RetransmissionIsDue ==
  \/ overtaken /\ between > 0
  \/ /\ phase # "forgotten"
     /\ phase = "delayed" /\ timer > 0 /\ age + TicksPerSecond <= TickMod =>
          age + timer <= Ms2Tick(AggregatedTimeOff) + MIN_ALARM_DELAY
===============================================================================
