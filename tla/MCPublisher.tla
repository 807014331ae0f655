---------------------------- MODULE MCPublisher ----------------------------
(* TLC instance of Publisher: two goroutines share one connection.         *)
EXTENDS Publisher
=============================================================================
