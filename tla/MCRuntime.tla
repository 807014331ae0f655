------------------------------ MODULE MCRuntime ------------------------------
(* TLC instance of Runtime: two workers, and settings of which one or two  *)
(* are accepted in each process.                                           *)
EXTENDS Runtime

Good ==
    [portOnly |-> TRUE, telemetry |-> FALSE, collector |-> FALSE,
     rabbitMQ |-> TRUE, requireRabbitMQ |-> TRUE,
     maxOpen |-> 4, maxIdle |-> 1, startupTimeout |-> 1, shutdownTimeout |-> 1,
     batch |-> 2, interval |-> 1, alertAfter |-> 1, backoffBase |-> 1,
     backoffMax |-> 1, lease |-> 15,
     concurrency |-> 2, prefetch |-> 2, maxAttempts |-> 2, retryDelays |-> <<1, 2>>,
     sampleInterval |-> 2, sampleTimeout |-> 1,
     limits |-> [l \in Limiters |-> [burst |-> 1, interval |-> 1]],
     capacities |-> [l \in Limiters \ {"webhook"} |-> 1], ttl |-> 1, proxies |-> {},
     apiKeys |-> <<[name |-> "k", wellFormed |-> TRUE]>>,
     stripeSecret |-> TRUE, webhookSecret |-> TRUE, returnURLs |-> TRUE]

Api == [Good EXCEPT !.requireRabbitMQ = FALSE, !.rabbitMQ = FALSE, !.maxOpen = 1]

MCSettings ==
    {Good, [Good EXCEPT !.prefetch = 3], [Good EXCEPT !.prefetch = 1],
     [Good EXCEPT !.maxOpen = 3], [Good EXCEPT !.lease = 14],
     [Good EXCEPT !.retryDelays = <<2, 1>>], [Good EXCEPT !.rabbitMQ = FALSE],
     [Good EXCEPT !.telemetry = TRUE],
     Api, [Api EXCEPT !.apiKeys = <<>>], [Api EXCEPT !.ttl = -1]}
=============================================================================
