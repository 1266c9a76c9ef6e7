-------------------------- MODULE SeckillPurchase --------------------------
(***************************************************************************)
(* Seckill implements Purchase: the phase of an attempt is read off the     *)
(* Redis stream, the MySQL rows and the Redis status, in this order.        *)
(***************************************************************************)
EXTENDS Seckill

PhaseOf(o) ==
    IF redis.status[o] = "created" THEN "reported"
    ELSE IF o \in orders THEN "sold"
    ELSE IF o \in redis.stream THEN "accepted" ELSE "none"

Promise == INSTANCE Purchase WITH phase <- [o \in OrderIds |-> PhaseOf(o)]

\* Every step of requests, scripts, transactions, retries and crashes of
\* consumers is a step of the promise or invisible to it: no order is sold
\* twice, sold without being accepted, or reported before its commit.
KeepsPromise == Promise!Spec

\* Accepted orders also get sold and reported, under the consumers' fairness.
KeepsPromiseInTime == Promise!FairSpec

=============================================================================
