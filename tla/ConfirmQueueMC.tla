---------------------------- MODULE ConfirmQueueMC ----------------------------
(* Instances of ConfirmQueue for TLC: a join, a request answered in a       *)
(* downlink, and a beacon acquisition.                                      *)
EXTENDS ConfirmQueue

CONSTANTS JOIN, LINK_CHECK, BEACON_ACQUISITION

MCRequests == {JOIN, LINK_CHECK, BEACON_ACQUISITION}

MCRestricted == {BEACON_ACQUISITION}
===============================================================================
