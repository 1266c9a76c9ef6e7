------------------------------ MODULE OrderIds ------------------------------
(***************************************************************************)
(* NextOrderID: an id is the second of the replica's clock and the count of  *)
(* a Redis counter of that UTC day. Clocks of replicas differ, a request may *)
(* stall between reading its clock and counting, and Redis may lose the      *)
(* tail of its log, the counter with it.                                    *)
(***************************************************************************)
EXTENDS Integers

CONSTANTS
    Requests,    \* purchases that ask for an id
    Replicas,
    LastSecond,  \* bound of the clocks
    DayLength,   \* seconds of a day
    Span,        \* 2^32: counts that fit beside a second
    Earlier,     \* how many ids the first day may have behind it
    MaxLosses    \* how often Redis loses writes

\* What a value of the constants must satisfy.
ConstantsAssumption ==
    /\ LastSecond \in Nat /\ DayLength \in Nat \ {0} /\ Span \in Nat \ {0}
    /\ Earlier \subseteq 0..Span /\ MaxLosses \in Nat

Seconds == 0..LastSecond
Day(s) == s \div DayLength
Days == 0..Day(LastSecond)

VARIABLES
    clock,     \* each replica's clock
    counter,   \* seckill:{seckill}:id:<day>, 0 when there is none
    request,   \* what each request knows
    issued,    \* history: ids handed out, with the losses before
    repeated,  \* history: ids handed out again
    losses

vars == <<clock, counter, request, issued, repeated, losses>>

NewRequest == [step |-> "new"]
Counts == 0..(Span + 1)

TypeOK ==
    /\ clock \in [Replicas -> Seconds]
    /\ counter \in [Days -> Counts]
    /\ request \in [Requests -> {NewRequest} \cup
                       [step : {"count"}, now : Seconds, at : Replicas]
                       \cup [step : {"expire"}, now : Seconds, n : Counts]
                       \cup [step : {"done"}]]
    /\ issued \in SUBSET Nat /\ repeated \subseteq issued
    /\ losses \in 0..MaxLosses

-----------------------------------------------------------------------------

\* Mutant of KeyDay: the key is made from a second reading of the clock.
KeyDayLater(q) == Day(clock[request[q].at])

\* The counter's key is made from the time the id will carry.
KeyDay(q) == Day(request[q].now)

Fits(n) == n < Span

IdOf(s, n) == s * Span + n

Done(q) == request' = [request EXCEPT ![q] = [step |-> "done"]]

Issue(q, s, n) ==
    /\ IF Fits(n)
       THEN /\ issued' = issued \cup {IdOf(s, n)}
            /\ repeated' = repeated \cup ({IdOf(s, n)} \cap issued)
       ELSE UNCHANGED <<issued, repeated>>
    /\ Done(q)

\* time.Now of the replica the request is at.
ReadClock(q, r) ==
    /\ request[q] = NewRequest
    /\ request' = [request EXCEPT ![q] = [step |-> "count", now |-> clock[r], at |-> r]]
    /\ UNCHANGED <<clock, counter, issued, repeated, losses>>

\* INCR. The first count of a day goes on to set the expiry.
Count(q) ==
    /\ request[q].step = "count"
    /\ LET s == request[q].now
           d == KeyDay(q)
           n == counter[d] + 1
       IN  /\ n \in Counts
           /\ counter' = [counter EXCEPT ![d] = n]
           /\ IF n = 1
              THEN /\ request' = [request EXCEPT ![q] = [step |-> "expire", now |-> s, n |-> n]]
                   /\ UNCHANGED <<issued, repeated>>
              ELSE Issue(q, s, n)
    /\ UNCHANGED <<clock, losses>>

\* EXPIRE, 72 hours ahead.
Expire(q) ==
    /\ request[q].step = "expire"
    /\ Issue(q, request[q].now, request[q].n)
    /\ UNCHANGED <<clock, counter, losses>>

\* INCR or EXPIRE fails: no id, though INCR may have counted.
Fails(q) ==
    /\ \/ /\ request[q].step = "count"
          /\ LET d == KeyDay(q)
             IN  counter' \in {counter, [counter EXCEPT ![d] = @ + 1]} /\ counter'[d] \in Counts
       \/ request[q].step = "expire" /\ UNCHANGED counter
    /\ Done(q)
    /\ UNCHANGED <<clock, issued, repeated, losses>>

\* A clock moves on, or is set back.
Tick(r) ==
    /\ clock' \in {[clock EXCEPT ![r] = s] : s \in Seconds \cap {clock[r] - 1, clock[r] + 1}}
    /\ UNCHANGED <<counter, request, issued, repeated, losses>>

\* Redis restarts without the last increments, or the key is gone.
Lose ==
    /\ losses < MaxLosses
    /\ \E d \in Days : \E n \in 0..counter[d] :
          n < counter[d] /\ counter' = [counter EXCEPT ![d] = n]
    /\ losses' = losses + 1
    /\ UNCHANGED <<clock, request, issued, repeated>>

\* The first day's counter is somewhere on its way, later days have none.
Init ==
    /\ clock = [r \in Replicas |-> 0]
    /\ \E n \in Earlier : counter = [d \in Days |-> IF d = 0 THEN n ELSE 0]
    /\ request = [q \in Requests |-> NewRequest]
    /\ issued = {} /\ repeated = {} /\ losses = 0

Next ==
    \/ \E q \in Requests :
          \/ \E r \in Replicas : ReadClock(q, r)
          \/ Count(q) \/ Expire(q) \/ Fails(q)
    \/ \E r \in Replicas : Tick(r)
    \/ Lose

Spec == Init /\ [][Next]_vars

-----------------------------------------------------------------------------
(* Properties *)

\* No order id is handed out twice as long as Redis keeps its counters,
\* whatever the replicas' clocks say, around midnight and at the last count.
IdsUnique == losses = 0 => repeated = {}

=============================================================================
