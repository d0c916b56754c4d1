----------------------------- MODULE MCWebFeed ------------------------------
(* A page, a host with short queues.                                       *)
EXTENDS WebFeed
=============================================================================
