---------------------------- MODULE MCRpcChannel ----------------------------
(* The kinds of messages a peer sends of its own: all of them in one run,    *)
(* those that nest calls in the other, with bytes that are no message.       *)
EXTENDS RpcChannel

AllMessages == {"sync", "async", "get_mode", "note", "invalid"}
NestingAsks == {"sync", "note", "garbage"}
=============================================================================
