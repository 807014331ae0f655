----------------------------- MODULE MCDispatch -----------------------------
(* TLC instance of Dispatch: two workers and more deliveries than workers. *)
EXTENDS Dispatch
=============================================================================
