------------------------------ MODULE MCPubSub ------------------------------
(* Publish/subscribe for TLC: two clients, so that the request of one can meet *)
(* the subscription of the other, and one buffered acknowledgement.            *)
EXTENDS PubSub
=============================================================================
