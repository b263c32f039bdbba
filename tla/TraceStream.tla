----------------------------- MODULE TraceStream -----------------------------
(***************************************************************************)
(* What the trace facility (Lora/Utilities/trace.c) promises: the bytes of *)
(* the messages TraceSend accepts leave through the UART, all of them and  *)
(* in the order they were accepted, in chunks of any size.                 *)
(***************************************************************************)
EXTENDS Naturals, Sequences

CONSTANTS
  MsgSizes,  \* the lengths of the messages that are traced
  Bytes      \* successive bytes are numbered modulo Bytes

VARIABLES
  pending,   \* the bytes accepted and not yet sent, oldest first
  out,       \* the chunk sent last
  stamp      \* the number of the next byte to be accepted

streamVars == <<pending, out, stamp>>

(* The n bytes numbered from s on. *)
Message(s, n) == [i \in 1 .. n |-> (s + i - 1) % Bytes]

Init == pending = <<>> /\ out = <<>> /\ stamp = 0

Accept == \E n \in MsgSizes :
  /\ pending' = pending \o Message(stamp, n)
  /\ stamp' = (stamp + n) % Bytes
  /\ UNCHANGED out

Emit == \E n \in 1 .. Len(pending) :
  /\ out' = SubSeq(pending, 1, n)
  /\ pending' = SubSeq(pending, n + 1, Len(pending))
  /\ UNCHANGED stamp

Next == Accept \/ Emit

SafeSpec == Init /\ [][Next]_streamVars
FairSpec == SafeSpec /\ WF_streamVars(Emit)

=============================================================================
