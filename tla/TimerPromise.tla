----------------------------- MODULE TimerPromise -----------------------------
(***************************************************************************)
(* What the timer server promises to its clients, without list, RTC alarm  *)
(* or interrupt: a set of armed one-shot timers, each with the number of   *)
(* ticks left before its deadline.  A timer is armed once, it is taken     *)
(* back by disarming it, and its callback is run once, never before the    *)
(* deadline (but for the Tolerance of the wake-up compensation).           *)
(***************************************************************************)
EXTENDS Integers

CONSTANTS
  Timers,     (* the timer objects of the program                           *)
  Delays,     (* the delays they can be armed with, in ticks                *)
  Tolerance,  (* how many ticks before its deadline a callback may be run   *)
  NoTimer     (* no callback is running                                     *)

VARIABLES
  armed,      (* the timers that are counting down                          *)
  left,       (* ticks to the deadline of each armed timer, 0 for the others *)
  serving     (* the timer whose callback is running, or NoTimer            *)

promiseVars == <<armed, left, serving>>

Init ==
  /\ armed = {}
  /\ left = [t \in Timers |-> 0]
  /\ serving = NoTimer

(* Arming a timer that is counting down already leaves its deadline alone.  *)
Arm(t) ==
  /\ t \notin armed
  /\ armed' = armed \cup {t}
  /\ \E d \in Delays : left' = [left EXCEPT ![t] = d]
  /\ UNCHANGED serving

Disarm(t) ==
  /\ t \in armed
  /\ armed' = armed \ {t}
  /\ left' = [left EXCEPT ![t] = 0]
  /\ UNCHANGED serving

(* The callback of t is called, after the one that was running, if any.     *)
Expire(t) ==
  /\ t \in armed
  /\ left[t] <= Tolerance
  /\ armed' = armed \ {t}
  /\ left' = [left EXCEPT ![t] = 0]
  /\ serving' = t

(* The last callback returned.                                              *)
Return ==
  /\ serving # NoTimer
  /\ serving' = NoTimer
  /\ UNCHANGED <<armed, left>>

(* One tick of the clock: every armed timer counts down together.           *)
Elapse ==
  /\ left' = [t \in Timers |-> IF t \in armed THEN left[t] - 1 ELSE left[t]]
  /\ UNCHANGED <<armed, serving>>

Next ==
  \/ \E t \in Timers : Arm(t) \/ Disarm(t) \/ Expire(t)
  \/ Return
  \/ Elapse

Fairness ==
  /\ WF_promiseVars(Elapse)
  /\ WF_promiseVars(Return)
  /\ \A t \in Timers : WF_promiseVars(Expire(t))

SafeSpec == Init /\ [][Next]_promiseVars

Spec == SafeSpec /\ Fairness
===============================================================================
