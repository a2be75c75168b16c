------------------------ MODULE MCAnthropicMessages ------------------------
(***************************************************************************)
(* Conversations for TLC: no message, text, and a call with its result,    *)
(* alone and beside text.                                                  *)
(***************************************************************************)
EXTENDS AnthropicMessages

Block(type, id) == [type |-> type, id |-> id]
Message(role, blocks) == [role |-> role, blocks |-> blocks]

Asked == Message("user", <<Block("text", "q")>>)
Called == Message("assistant", <<Block("text", "t"), Block("tool_use", "c1"), Block("tool_use", "c2")>>)
Returned == Message("user", <<Block("tool_result", "r1"), Block("text", "u"), Block("tool_result", "r2")>>)
Plain == Message("user", <<Block("tool_result", "r1"), Block("image", "i"), Block("tool_result", "r2")>>)

SomeConversations ==
    {<<>>, <<Message("system", <<Block("text", "s")>>), Asked>>,
     <<Asked, Called, Returned>>, <<Asked, Called, Plain, Called, Returned>>}
=============================================================================
