---------------------------- MODULE MCChatClient ----------------------------
(***************************************************************************)
(* Instances of ChatClient for TLC.                                        *)
(***************************************************************************)
EXTENDS ChatClient

OneExchange == {<<UserMessage, [role |-> "assistant", calls |-> 0]>>}
=============================================================================
