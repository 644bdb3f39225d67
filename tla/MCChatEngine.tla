---------------------------- MODULE MCChatEngine ----------------------------
(***************************************************************************)
(* Instances of ChatEngine for TLC.                                        *)
(***************************************************************************)
EXTENDS ChatEngine

(* Conversations a client can post: a first turn, a later turn (with its   *)
(* own system message), and a tool result fed back.                        *)
Earlier == <<SystemMessage, UserMessage,
             [role |-> "assistant", body |-> <<"think", "text">>, calls |-> 0]>>
ToolFedBack == <<UserMessage,
                 [role |-> "assistant", body |-> <<"call">>, calls |-> 1],
                 ToolMessage>>
FirstTurn     == {<<>>}
Conversations == {<<>>, Earlier, ToolFedBack}
=============================================================================
