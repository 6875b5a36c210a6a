----------------------------- MODULE MCMessages -----------------------------
(* Messages, with the instances of MCMessages.cfg (one client, overlapping *)
(* fetches, a page smaller than the channel) and MCMessagesNewcomer.cfg.   *)
EXTENDS Messages
=============================================================================
