-------------------------------- MODULE MCApi --------------------------------
(* TLC instance of Api: two handlers, one idempotency key under which      *)
(* different orders are asked for, one handled and one unhandled event.    *)
(* Integers of four bits: price 6 times 3 does not fit, and wraps to 2.    *)
EXTENDS Api

MCCatalog == [cheap |-> 2, dear |-> 6]

MCOrderRequests ==
    {[key |-> "k", product |-> p[1], quantity |-> p[2], shaped |-> p[3]] :
        p \in {<<"cheap", 1, TRUE>>, <<"cheap", 3, TRUE>>, <<"dear", 3, TRUE>>,
               <<"cheap", 4, TRUE>>, <<"gone", 1, TRUE>>, <<"cheap", 1, FALSE>>}}
=============================================================================
