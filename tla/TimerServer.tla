------------------------------ MODULE TimerServer ------------------------------
(***************************************************************************)
(* The timer server of the node: Lora/Utilities/timeServer.c over the RTC  *)
(* alarm of src/hw_rtc.c.                                                  *)
(*                                                                         *)
(* Timer objects are kept in one linked list, their Timestamp counted from *)
(* a reference (the "timer context" of the RTC).  One hardware alarm is    *)
(* programmed for the head of the list.  Its interrupt runs the callback   *)
(* of the head, then those of the timers found expired, then programmes    *)
(* the alarm for the new head.  TimerStart and TimerStop mask interrupts,  *)
(* so each of them is one step; the interrupt handler does not, callbacks  *)
(* start and stop timers while it runs, and time goes by, so the handler   *)
(* is split at its callbacks.                                              *)
(*                                                                         *)
(* Every time is relative to the timer context: elapsed is what            *)
(* HW_RTC_GetTimerElapsedTime returns.  `left' and `busy' are history: no  *)
(* guard of the code reads them.                                           *)
(***************************************************************************)
EXTENDS Integers, Sequences, SequencesExt

CONSTANTS
  Timers,            (* timer objects                                        *)
  Timeouts,          (* values given to TimerSetValue, in ticks              *)
  MinTimeout,        (* HW_RTC_GetMinimumTimeout                             *)
  McuWakeUpTimeCal,  (* ticks taken off an alarm that must wake the MCU up   *)
  MaxBusy,           (* bound: ticks an alarm interrupt is masked, pending or
                        being handled before the handler returns             *)
  Horizon,           (* bound: once this many ticks have passed since the timer
                        context, clients start no timer until the next alarm *)
  MaxElapsed,        (* bound: the RTC stops counting here: PromiseKept fails
                        if a timer waits for that                            *)
  NoAlarm,           (* the alarm is not programmed                          *)
  NoTimer            (* no callback is running                               *)

ASSUME TimerAssumption ==
  /\ IsFiniteSet(Timers)
  /\ Timeouts \subseteq Nat
  /\ MinTimeout \in Nat \ {0}
  /\ McuWakeUpTimeCal \in Nat
  /\ MaxBusy \in Nat
  /\ Horizon \in Nat
  /\ MaxElapsed \in Nat
  /\ NoAlarm \notin Nat
  /\ NoTimer \notin Timers

VARIABLES
  list,        (* TimerListHead and the Next links                           *)
  Timestamp,   (* of a linked timer; 0 for the others, whose field is dead   *)
  ReloadValue,
  IsRunning,
  elapsed,     (* RTC ticks since the timer context                          *)
  alarm,       (* RTC alarm A, relative to the context, or NoAlarm           *)
  pending,     (* the alarm flag ALRAF: its interrupt waits to be taken      *)
  cur,         (* TimerIrqHandler runs the callback of cur, or NoTimer       *)
  left,        (* ticks until the deadline asked for by TimerStart           *)
  busy         (* ticks spent with the interrupt pending or in the handler   *)

listVars == <<list, Timestamp, ReloadValue, IsRunning>>
rtcVars == <<elapsed, alarm, pending>>
vars == <<listVars, rtcVars, cur, left, busy>>

InHandler == cur # NoTimer

Linked == Range(list)

(***************************************************************************)
(* Programming the alarm                                                   *)
(***************************************************************************)

(* HW_RTC_SetAlarm: an alarm far enough ahead lets the MCU enter stop mode, *)
(* and is moved forward by the time the MCU takes to wake up.  Whether stop *)
(* mode is entered also depends on the other users of the low-power manager.*)
AlarmTargets(timeout, now) ==
  {timeout} \cup (IF MinTimeout + McuWakeUpTimeCal < timeout - now
                  THEN {timeout - McuWakeUpTimeCal} ELSE {})

(* Fault: the minimum timeout is not applied.                                *)
DeadlineNoMinimum(t, stamps, now) == stamps[t]

(* TimerSetTimeout: the deadline of t, not sooner than the RTC can do.      *)
Deadline(t, stamps, now) ==
  IF stamps[t] < now + MinTimeout THEN now + MinTimeout ELSE stamps[t]

(* Fault: the alarm flag is not cleared when the alarm is programmed.        *)
SetTimeoutKeepsFlag(t, stamps, now) ==
  /\ Timestamp' = [stamps EXCEPT ![t] = Deadline(t, stamps, now)]
  /\ alarm' \in AlarmTargets(Deadline(t, stamps, now), now)
  /\ UNCHANGED pending

(* TimerSetTimeout followed by HW_RTC_SetAlarm, which clears the flag.      *)
SetTimeout(t, stamps, now) ==
  /\ Timestamp' = [stamps EXCEPT ![t] = Deadline(t, stamps, now)]
  /\ alarm' \in AlarmTargets(Deadline(t, stamps, now), now)
  /\ pending' = FALSE

StopAlarm ==
  /\ alarm' = NoAlarm
  /\ pending' = FALSE

(***************************************************************************)
(* Starting a timer                                                        *)
(***************************************************************************)

(* Fault: the walk starts behind the head.                                   *)
TimerExistsBehindHead(t) == \E i \in 2..Len(list) : list[i] = t

TimerExists(t) == t \in Linked

(* TimerInsertTimer: the node after the head that t is linked before.        *)
InsertPosition(i, stamp) ==
  /\ i <= Len(list) => stamp <= Timestamp[list[i]]
  /\ \A j \in 2..(i - 1) : stamp > Timestamp[list[j]]

(* Fault: the flag of a timer that expired as the head is not taken back.    *)
InsertTimerKeepsFlag(t, stamp) ==
  /\ \E i \in 2..(Len(list) + 1) : InsertPosition(i, stamp) /\ list' = InsertAt(list, i, t)
  /\ Timestamp' = [Timestamp EXCEPT ![t] = stamp]
  /\ UNCHANGED <<IsRunning, alarm, pending>>

(* TimerInsertTimer: after the head and every timer that expires earlier.   *)
InsertTimer(t, stamp) ==
  /\ \E i \in 2..(Len(list) + 1) : InsertPosition(i, stamp) /\ list' = InsertAt(list, i, t)
  /\ Timestamp' = [Timestamp EXCEPT ![t] = stamp]
  /\ IsRunning' = [IsRunning EXCEPT ![t] = FALSE]
  /\ UNCHANGED <<alarm, pending>>

InsertNewHeadTimer(t, stamp, now) ==
  /\ list' = Cons(t, list)
  /\ IsRunning' = [u \in Timers |->
                     u = t \/ (IsRunning[u] /\ (list # <<>> => u # Head(list)))]
  /\ SetTimeout(t, [Timestamp EXCEPT ![t] = stamp], now)

(* A timer found in the list is left alone.  A timer of value 0 has not     *)
(* been given one yet: timeServer.h asks for TimerSetValue first.           *)
TimerStart(t) ==
  /\ ReloadValue[t] > 0
  /\ ~TimerExists(t)
  /\ IF list = <<>>
     THEN /\ elapsed' = 0
          /\ InsertNewHeadTimer(t, ReloadValue[t], 0)
     ELSE /\ UNCHANGED elapsed
          /\ LET stamp == ReloadValue[t] + elapsed
             IN IF stamp < Timestamp[Head(list)]
                THEN InsertNewHeadTimer(t, stamp, elapsed)
                ELSE InsertTimer(t, stamp)
  /\ left' = [left EXCEPT ![t] = ReloadValue[t]]
  /\ UNCHANGED <<ReloadValue, cur, busy>>

(***************************************************************************)
(* Stopping a timer                                                        *)
(***************************************************************************)

Unlink(t) ==
  [Timestamp EXCEPT ![t] = 0]

(* Fault: the alarm is stopped with the head and not given to the next timer. *)
StopRunningHeadAndAlarm(t) ==
  /\ t = Head(list) /\ IsRunning[t]
  /\ list' = Tail(list)
  /\ IsRunning' = [u \in Timers |-> Tail(list) # <<>> /\ u = Head(Tail(list))]
  /\ Timestamp' = Unlink(t)
  /\ StopAlarm

StopRunningHead(t) ==
  /\ t = Head(list) /\ IsRunning[t]
  /\ list' = Tail(list)
  /\ IF Tail(list) # <<>>
     THEN LET next == Head(Tail(list))
          IN /\ IsRunning' = [IsRunning EXCEPT ![t] = FALSE, ![next] = TRUE]
             /\ SetTimeout(next, Unlink(t), elapsed)
     ELSE /\ IsRunning' = [IsRunning EXCEPT ![t] = FALSE]
          /\ Timestamp' = Unlink(t)
          /\ StopAlarm

(* Fault: the head is taken for running, and nothing is unlinked.            *)
StopBehindHead(t) ==
  /\ ~(t = Head(list) /\ IsRunning[t])
  /\ IF t = Head(list) THEN UNCHANGED <<list, Timestamp>>
     ELSE /\ \E i \in 1..Len(list) : list[i] = t /\ list' = RemoveAt(list, i)
          /\ Timestamp' = Unlink(t)
  /\ UNCHANGED <<IsRunning, alarm, pending>>

StopOther(t) ==
  /\ ~(t = Head(list) /\ IsRunning[t])
  /\ \E i \in 1..Len(list) : list[i] = t /\ list' = RemoveAt(list, i)
  /\ Timestamp' = Unlink(t)
  /\ UNCHANGED <<IsRunning, alarm, pending>>

(* A timer that is not in the list is left alone.                           *)
StopIfLinked(t) ==
  /\ IF TimerExists(t)
     THEN StopRunningHead(t) \/ StopOther(t)
     ELSE UNCHANGED <<list, Timestamp, IsRunning, alarm, pending>>
  /\ left' = [left EXCEPT ![t] = 0]
  /\ UNCHANGED <<elapsed, cur, busy>>

TimerStop(t) ==
  /\ StopIfLinked(t)
  /\ UNCHANGED ReloadValue

TimerSetValue(t, ticks) ==
  /\ StopIfLinked(t)
  /\ ReloadValue' = [ReloadValue EXCEPT ![t] = IF ticks < MinTimeout
                                               THEN MinTimeout ELSE ticks]

(* TimerInit, on an object that is not in the list: the program does it at  *)
(* boot, and before it sets and starts the LED timer again.                 *)
TimerInit(t) ==
  /\ t \notin Linked
  /\ ReloadValue' = [ReloadValue EXCEPT ![t] = 0]
  /\ IsRunning' = [IsRunning EXCEPT ![t] = FALSE]
  /\ UNCHANGED <<list, Timestamp, rtcVars, cur, left, busy>>

(***************************************************************************)
(* The alarm interrupt                                                     *)
(***************************************************************************)

PopHead ==
  /\ list' = Tail(list)
  /\ cur' = Head(list)
  /\ left' = [left EXCEPT ![Head(list)] = 0]

(* Fault: timestamps wrap below zero.                                        *)
RebasedUnclipped(now) ==
  [t \in Timers |-> IF t \in Range(Tail(list)) THEN Timestamp[t] - now ELSE 0]

(* The timestamps of the timers behind the head, from the new context.       *)
Rebased(now) ==
  [t \in Timers |-> IF t \in Range(Tail(list)) /\ Timestamp[t] > now
                    THEN Timestamp[t] - now ELSE 0]

HeadExpired == list # <<>> /\ Timestamp[Head(list)] < elapsed

(* HW_RTC_IrqHandler and the first half of TimerIrqHandler: the context     *)
(* becomes now, the timestamps follow it, and the callback of the head is   *)
(* called whatever its own timestamp.                                       *)
IrqEnter ==
  /\ ~InHandler
  /\ pending
  /\ pending' = FALSE
  /\ elapsed' = 0
  /\ IF list = <<>>
     THEN UNCHANGED <<list, Timestamp, left, cur>> /\ busy' = 0
     ELSE /\ Timestamp' = Rebased(elapsed)
          /\ PopHead
          /\ UNCHANGED busy
  /\ UNCHANGED <<ReloadValue, IsRunning, alarm>>

(* A callback returned and the next head has expired too: its callback.     *)
IrqNextExpired ==
  /\ InHandler
  /\ HeadExpired
  /\ PopHead
  /\ Timestamp' = Unlink(Head(list))
  /\ UNCHANGED <<ReloadValue, IsRunning, rtcVars, busy>>

(* Fault: the head that is left is not started.                              *)
IrqExitIdle ==
  /\ InHandler
  /\ ~HeadExpired
  /\ cur' = NoTimer
  /\ busy' = 0
  /\ UNCHANGED <<listVars, rtcVars, left>>

(* A callback returned and no head has expired: start the head, unless a    *)
(* callback did it, and return from the interrupt.                          *)
IrqExit ==
  /\ InHandler
  /\ ~HeadExpired
  /\ IF list # <<>> /\ ~IsRunning[Head(list)]
     THEN /\ IsRunning' = [IsRunning EXCEPT ![Head(list)] = TRUE]
          /\ SetTimeout(Head(list), Timestamp, elapsed)
     ELSE UNCHANGED <<IsRunning, Timestamp, alarm, pending>>
  /\ cur' = NoTimer
  /\ busy' = 0
  /\ UNCHANGED <<list, ReloadValue, elapsed, left>>

(* One RTC tick.  The alarm raises its flag when the calendar matches it,   *)
(* which it does again a month later only.  With nothing programmed the     *)
(* tick is not observable.                                                  *)
Tick ==
  /\ list # <<>> \/ alarm # NoAlarm \/ pending \/ InHandler
  /\ elapsed < MaxElapsed
  /\ pending \/ InHandler => busy < MaxBusy
  /\ busy' = IF pending \/ InHandler THEN busy + 1 ELSE 0
  /\ elapsed' = elapsed + 1
  /\ IF alarm = elapsed + 1
     THEN alarm' = NoAlarm /\ pending' = TRUE
     ELSE UNCHANGED <<alarm, pending>>
  /\ left' = [t \in Timers |-> IF t \in Linked THEN left[t] - 1 ELSE left[t]]
  /\ UNCHANGED <<listVars, cur>>

-------------------------------------------------------------------------------
(* HW_RTC_Init: no timer linked, no alarm, context taken.                   *)
Init ==
  /\ list = <<>>
  /\ Timestamp = [t \in Timers |-> 0]
  /\ ReloadValue = [t \in Timers |-> 0]
  /\ IsRunning = [t \in Timers |-> FALSE]
  /\ elapsed = 0
  /\ alarm = NoAlarm
  /\ pending = FALSE
  /\ cur = NoTimer
  /\ left = [t \in Timers |-> 0]
  /\ busy = 0

(* Threads, other interrupts and callbacks call the same four operations.   *)
Call(t) ==
  \/ TimerStop(t)
  \/ /\ elapsed <= Horizon
     /\ \/ TimerStart(t)
        \/ TimerInit(t)
        \/ \E ticks \in Timeouts : TimerSetValue(t, ticks)

Next ==
  \/ \E t \in Timers : Call(t)
  \/ IrqEnter
  \/ IrqNextExpired
  \/ IrqExit
  \/ Tick

Spec == Init /\ [][Next]_vars

(* Time goes on, a pending interrupt is taken, and callbacks return.        *)
FairSpec ==
  /\ Spec
  /\ WF_vars(Tick)
  /\ WF_vars(IrqEnter)
  /\ WF_vars(IrqNextExpired \/ IrqExit)

-------------------------------------------------------------------------------
(***************************************************************************)
(* Properties                                                              *)
(***************************************************************************)

(* The type of the state; timestamps are unsigned and never go below zero   *)
(* when the context moves (timeServer.c:196-203).                           *)
TypeOK ==
  /\ list \in Seq(Timers)
  /\ Timestamp \in [Timers -> Nat]
  /\ ReloadValue \in [Timers -> Nat]
  /\ IsRunning \in [Timers -> BOOLEAN]
  /\ elapsed \in Nat
  /\ alarm \in Nat \cup {NoAlarm}
  /\ pending \in BOOLEAN
  /\ cur \in Timers \cup {NoTimer}
  /\ left \in [Timers -> Int]
  /\ busy \in 0..MaxBusy

(* No timer is linked twice: the Next links make a list that ends, and the  *)
(* walks of TimerExists, TimerStop and TimerInsertTimer terminate.          *)
ListIsAcyclic == \A i, j \in 1..Len(list) : list[i] = list[j] => i = j

(* No timer is lost.  Whenever the handler is not running, the head of the  *)
(* list owns the alarm: its interrupt is pending, or the alarm is still to  *)
(* come, at the head's timestamp or the wake-up time before it.             *)
AlarmServesHead ==
  ~InHandler /\ list # <<>> =>
    /\ IsRunning[Head(list)]
    /\ \/ pending
       \/ /\ alarm \in Nat
          /\ alarm > elapsed
          /\ alarm \in (Timestamp[Head(list)] - McuWakeUpTimeCal)..Timestamp[Head(list)]

(* A callback is never run before the delay its timer was started with has  *)
(* passed, but for the wake-up compensation: an alarm left over from        *)
(* another head never expires this one.                                     *)
NeverEarly ==
  [][(IrqEnter \/ IrqNextExpired) /\ list # <<>>
       => left[Head(list)] <= McuWakeUpTimeCal]_vars

(* However timers are started and stopped around it, a timer that is linked *)
(* is at most so many ticks overdue: the time interrupts are held off, and  *)
(* a minimum timeout for each timer that expires with it.                   *)
NeverVeryLate ==
  \A t \in Linked : left[t] >= 0 - (MaxBusy + MinTimeout) * Cardinality(Timers)

(* The delays TimerSetValue leaves in ReloadValue.                          *)
Delays == {IF v < MinTimeout THEN MinTimeout ELSE v : v \in Timeouts}

(* The list, the alarm and the interrupt keep the promise of one-shot       *)
(* timers: armed once, expired once and not early, taken back when stopped. *)
Promise == INSTANCE TimerPromise WITH
  armed <- Linked,
  serving <- cur,
  Tolerance <- McuWakeUpTimeCal

PromiseSafe == Promise!SafeSpec

(* ... and every armed timer that is due is expired.                        *)
PromiseKept == Promise!Spec

(* The inductive invariant the proofs rest on.  The head owns the alarm     *)
(* once it is marked as running; no other linked timer is so marked; and    *)
(* the timestamps never run ahead of the deadlines.                         *)
HeadOwnsAlarm ==
  LET due == Timestamp[Head(list)] - McuWakeUpTimeCal
  IN IF pending THEN elapsed >= due
     ELSE alarm \in Nat /\ alarm > elapsed /\ alarm \in due..Timestamp[Head(list)]

AlarmInv ==
  /\ TypeOK
  /\ ListIsAcyclic
  /\ \A t \in Timers : ReloadValue[t] \in Delays \cup {0}
  /\ \A t \in Linked : IsRunning[t] => t = Head(list)
  /\ ~InHandler /\ list # <<>> => IsRunning[Head(list)]
  /\ list # <<>> /\ IsRunning[Head(list)] => HeadOwnsAlarm
  /\ pending => alarm = NoAlarm
  /\ \A t \in Linked : left[t] <= Timestamp[t] - elapsed
  /\ \A t \in Timers \ Linked : left[t] = 0

(* For the bound on lateness.  A timer is late because its timestamp was    *)
(* put off when it became the head, or cut when the context moved, or       *)
(* because it waits behind such a timer.  From one alarm to the next it is  *)
(* a Round at most, and no timer is ever started in front of one that is    *)
(* due (near): each Round takes a timer away from in front of it.           *)
Round == MaxBusy + MinTimeout

(* Ticks of the present Round that have passed.                             *)
Spent ==
  IF pending \/ InHandler THEN MinTimeout + busy
  ELSE MinTimeout - (Timestamp[Head(list)] - elapsed)

OnTime(t) == left[t] = Timestamp[t] - elapsed

SortedBehindHead ==
  \A i, j \in 2..Len(list) : i < j => Timestamp[list[i]] <= Timestamp[list[j]]

(* A head that was put off may have passed others, which then are near; in  *)
(* the handler there are less of them than timers, for one was taken out.   *)
HeadFirst ==
  \A j \in 2..Len(list) :
    \/ Timestamp[list[1]] <= Timestamp[list[j]]
    \/ /\ IsRunning[list[1]]
       /\ Timestamp[list[1]] <= elapsed + MinTimeout
       /\ InHandler => j < Cardinality(Timers)

OffTimeIsNear ==
  \A i \in 1..Len(list) :
    \/ OnTime(list[i])
    \/ Timestamp[list[i]] < elapsed + MinTimeout
    \/ i = 1 /\ Timestamp[list[i]] = elapsed + MinTimeout

LateByRounds ==
  \A i \in 1..Len(list) :
    IF InHandler
    THEN \/ OnTime(list[i])
         \/ 0 - left[list[i]] <= Round * (Cardinality(Timers) - i - 1) + Spent
    ELSE 0 - left[list[i]] <= Round * (Cardinality(Timers) - i) + Spent

LateInv ==
  /\ InHandler => elapsed <= busy
  /\ SortedBehindHead
  /\ HeadFirst
  /\ OffTimeIsNear
  /\ LateByRounds

IInv == AlarmInv /\ LateInv
===============================================================================
