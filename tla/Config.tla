------------------------------- MODULE Config -------------------------------
(***************************************************************************)
(* What config.Load accepts.  The environment is a record of settings; a   *)
(* process whose settings are refused never starts, so the other modules   *)
(* take their parameters from the settings these predicates accept.        *)
(* Durations are naturals in the unit of the module that uses them.        *)
(***************************************************************************)
EXTENDS Integers, Sequences

(* In seconds: what one publication may take, and what recording it may.   *)
PublishAttemptBudget == 5
SettlementReserve == 5

(* The four limits of the HTTP rate limiting policy.                       *)
Limiters == {"client", "credential", "webhook", "health"}

DatabaseAccepted(c) ==
    /\ c.maxOpen >= 1
    /\ c.maxIdle \in 0..c.maxOpen
    /\ c.startupTimeout > 0 /\ c.shutdownTimeout > 0

(* A lease outlives the worst case of publishing a whole batch, and leaves *)
(* a reserve for recording the outcomes.                                   *)
RelayAccepted(c) ==
    /\ c.batch >= 1 /\ c.interval > 0 /\ c.alertAfter >= 1
    /\ c.backoffBase > 0 /\ c.backoffMax >= c.backoffBase
    /\ c.lease >= c.batch * PublishAttemptBudget + SettlementReserve

(* The prefetch feeds every worker, the budget allows a retry, the delays  *)
(* are a backoff, and the pool covers the workers, the relay and health.   *)
ConsumerAccepted(c) ==
    /\ c.concurrency >= 1
    /\ c.prefetch >= c.concurrency
    /\ c.maxAttempts >= 2
    /\ c.retryDelays # <<>>
    /\ \A i \in DOMAIN c.retryDelays :
          c.retryDelays[i] > IF i = 1 THEN 0 ELSE c.retryDelays[i - 1]
    /\ c.requireRabbitMQ => c.maxOpen >= c.concurrency + 2

(* A round of sampling ends before the next one begins.                    *)
SamplingAccepted(c) ==
    /\ c.sampleTimeout > 0
    /\ c.sampleTimeout < c.sampleInterval

(* Bug: buckets may be reclaimed faster than they refill.                  *)
limitsAnyTTL(c) ==
    /\ \A l \in DOMAIN c.limits :
          /\ c.limits[l].burst >= 1
          /\ c.limits[l].interval \div c.limits[l].burst > 0
    /\ \A l \in DOMAIN c.capacities : c.capacities[l] >= 1
    /\ c.ttl >= 0

(* A token is worth a positive wait, and an idle bucket is reclaimed only  *)
(* once it has had the time to refill.                                     *)
LimitsAccepted(c) ==
    /\ \A l \in DOMAIN c.limits :
          /\ c.limits[l].burst >= 1
          /\ c.limits[l].interval \div c.limits[l].burst > 0
    /\ \A l \in DOMAIN c.capacities : c.capacities[l] >= 1
    /\ c.ttl >= 0
    /\ c.ttl > 0 => \A l \in DOMAIN c.limits : c.ttl >= c.limits[l].interval

(* The prefixes parsed from TRUSTED_PROXY_CIDRS; none unless every entry   *)
(* that is not blank is a CIDR block.                                      *)
ProxiesAccepted(entries) ==
    \A e \in entries : e.kind \in {"blank", "cidr"}

ParseTrustedProxies(entries) ==
    UNION {e.hosts : e \in {x \in entries : x.kind = "cidr"}}

(* Everything Load checks.                                                 *)
Accepted(c) ==
    /\ c.portOnly
    /\ c.requireRabbitMQ => c.rabbitMQ
    /\ DatabaseAccepted(c)
    /\ RelayAccepted(c)
    /\ ConsumerAccepted(c)
    /\ SamplingAccepted(c)
    /\ c.telemetry => c.collector
    /\ LimitsAccepted(c)
    /\ ProxiesAccepted(c.proxies)

(* At least one integration key, all well-formed and no two the same.      *)
KeysAccepted(keys) ==
    /\ keys # <<>>
    /\ \A i \in DOMAIN keys : keys[i].wellFormed
    /\ \A i, j \in DOMAIN keys : i # j => keys[i] # keys[j]

(* What only the API needs: keys, the Stripe secrets and the return URLs.  *)
ApiAccepted(c) ==
    /\ KeysAccepted(c.apiKeys)
    /\ c.stripeSecret /\ c.webhookSecret /\ c.returnURLs
=============================================================================
