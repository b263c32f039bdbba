------------------------------- MODULE TraceMC -------------------------------
(* Trace with a queue of a few bytes and messages that fill, split and     *)
(* overflow it, and one that is longer than it.                            *)
EXTENDS Trace

MCMsgSizes == {0, 1, 3, 9}

=============================================================================
