---------------------------- MODULE MCMaelstromNode ----------------------------
(***************************************************************************)
(* Small instances of MaelstromNode for TLC.                               *)
(***************************************************************************)
EXTENDS MaelstromNode

\* Seven lines: an init, two transactions, an echo, one more init, a message
\* without a handler, and a line that is no message.
SevenTypes == <<"init", "txn", "echo", "txn", "init", "other",
                "invalid">>

\* Ids at either end of int, one message without an id, and an echo that is
\* itself a reply.
Id(n) == [f \in {"msg_id"} |-> n]
SevenBodies == <<Id(1), Id(-8), [f \in {"msg_id", "in_reply_to"} |-> 7], <<>>,
                 Id(2), <<>>, <<>>>>
==============================================================================
