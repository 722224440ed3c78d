-------------------------------- MODULE MCPeer --------------------------------
(***************************************************************************)
(* Small instances of Peer for TLC.                                        *)
(***************************************************************************)
EXTENDS Peer

\* Two coroutines, one with a message that is too large between two others.
TwoCallers == [a |-> <<"a1", "large", "a2">>, b |-> <<"b1", "b2">>]

\* One message each, and one coroutine with two messages.
OneEach == [a |-> <<"a1">>, b |-> <<"b1">>]
InTurn == [a |-> <<"a1", "a2">>]
==============================================================================
