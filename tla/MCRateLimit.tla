---------------------------- MODULE MCRateLimit -----------------------------
(* TLC instance of RateLimit: an IPv6 client and the proxy in front of the *)
(* API, two requests at a time, one or two buckets.                        *)
EXTENDS RateLimit

MCEntries == {[kind |-> "cidr", hosts |-> {"p"}], [kind |-> "blank", hosts |-> {}]}

MCSettings ==
    {[limits |-> [l \in Limiters |-> [burst |-> b, interval |-> i]],
      capacities |-> [l \in Limiters \ {"webhook"} |-> n], ttl |-> t] :
        b \in {1, 2}, i \in {2, 3}, n \in {1, 2}, t \in {0, 2, 3}}

Symmetry == Permutations(Callers)
=============================================================================
