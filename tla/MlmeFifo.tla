------------------------------ MODULE MlmeFifo ------------------------------
(***************************************************************************)
(* What the confirm queue of the MAC promises: the requests that wait for  *)
(* their confirmation, oldest first, each kept until it is confirmed once. *)
(* The oldest one is confirmed when it is ready, and otherwise goes to the *)
(* back of the queue.                                                      *)
(***************************************************************************)
EXTENDS Naturals, Sequences

CONSTANTS
  Requests,   (* kinds of MLME requests                                      *)
  Capacity    (* how many requests can wait                                  *)

VARIABLE queue   (* of records [Request, Ready]                              *)

Entry == [Request : Requests, Ready : BOOLEAN]

Init == queue = <<>>

(* The same requests in the same order, some of them ready now.             *)
Marked(old, new) ==
  /\ Len(new) = Len(old)
  /\ \A i \in 1..Len(old) :
       /\ new[i].Request = old[i].Request
       /\ old[i].Ready => new[i].Ready

(* A request waits; sending it may make all of them ready.                  *)
Request ==
  /\ Len(queue) < Capacity
  /\ \E r \in Requests :
       Marked(Append(queue, [Request |-> r, Ready |-> FALSE]), queue')

Answer == Marked(queue, queue')

Confirm ==
  /\ queue # <<>>
  /\ Head(queue).Ready
  /\ queue' = Tail(queue)

Rotate ==
  /\ queue # <<>>
  /\ ~Head(queue).Ready
  /\ queue' = Append(Tail(queue), Head(queue))

Next == Request \/ Answer \/ Confirm \/ Rotate

Spec == Init /\ [][Next]_queue
===============================================================================
