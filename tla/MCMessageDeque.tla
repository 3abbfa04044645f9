--------------------------- MODULE MCMessageDeque ---------------------------
(***************************************************************************)
(* MessageDeque for TLC.  The lengths lie on both sides of the limits 20   *)
(* and 40 of PushWaitedMessage.                                            *)
(***************************************************************************)
EXTENDS MessageDeque

MCCounts == {1}
MCChatLengths == {0, 20, 21, 41}
MCThanksLengths == {20, 40, 41}
=============================================================================
