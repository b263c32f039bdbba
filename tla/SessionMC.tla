------------------------------ MODULE SessionMC ------------------------------
(***************************************************************************)
(* Session with small counters, which roll over after FCntMod downlinks,   *)
(* four slots for commands, an answer that is sticky and one that is not.  *)
(***************************************************************************)
EXTENDS Session

CONSTANTS DL_CHANNEL_ANS, DEV_STATUS_ANS

MCCids == {DL_CHANNEL_ANS, DEV_STATUS_ANS, LINK_CHECK_REQ}
MCStickyCids == <<DL_CHANNEL_ANS>>
MCCmdSize == [cid \in MCCids |-> CASE cid = DL_CHANNEL_ANS -> 2
                                   [] cid = DEV_STATUS_ANS -> 3
                                   [] cid = LINK_CHECK_REQ -> 1]
MCRequests == {<<>>, <<DL_CHANNEL_ANS>>, <<DL_CHANNEL_ANS, DEV_STATUS_ANS>>,
               <<DL_CHANNEL_ANS, DL_CHANNEL_ANS>>}
MCNoRequests == {<<>>}
MCAppSizes == {0, 3}

=============================================================================
