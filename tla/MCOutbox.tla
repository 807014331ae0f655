------------------------------ MODULE MCOutbox ------------------------------
(* TLC instance of Outbox: two relays, one of which may crash, over two    *)
(* messages, one of which cannot be encoded.                               *)
EXTENDS Outbox
=============================================================================
