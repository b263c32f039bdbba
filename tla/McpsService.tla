----------------------------- MODULE McpsService -----------------------------
(***************************************************************************)
(* What the MAC promises to a client that sends data: one request at a     *)
(* time, each one confirmed once, by a confirmation that tells the truth:  *)
(* it names the kind of request, it says OK only if the frame went out,    *)
(* and it reports an acknowledgement exactly when the network sent one.    *)
(***************************************************************************)
CONSTANTS
  Types,        (* kinds of MCPS request                                     *)
  None          (* no request, no confirmation                               *)

VARIABLES
  request,      (* the kind of the request that is served, or None           *)
  aired,        (* its frame went out                                        *)
  acked,        (* it was acknowledged                                       *)
  result        (* the last confirmation: [McpsRequest, Ok, AckReceived]     *)

serviceVars == <<request, aired, acked, result>>

Init ==
  /\ request = None
  /\ aired = FALSE
  /\ acked = FALSE
  /\ result = None

Accept(t) ==
  /\ request = None
  /\ request' = t
  /\ aired' = FALSE
  /\ acked' = FALSE
  /\ UNCHANGED result

Air ==
  /\ request # None
  /\ aired' = TRUE
  /\ UNCHANGED <<request, acked, result>>

Acknowledge ==
  /\ request # None
  /\ aired
  /\ acked' = TRUE
  /\ UNCHANGED <<request, aired, result>>

Confirm ==
  /\ request # None
  /\ request' = None
  /\ \E ok \in BOOLEAN :
       /\ ok => aired
       /\ result' = [McpsRequest |-> request, Ok |-> ok, AckReceived |-> acked]
  /\ UNCHANGED <<aired, acked>>

Next ==
  \/ \E t \in Types : Accept(t)
  \/ Air
  \/ Acknowledge
  \/ Confirm

SafeSpec == Init /\ [][Next]_serviceVars

Fairness == WF_serviceVars(Confirm)

Spec == SafeSpec /\ Fairness
===============================================================================
