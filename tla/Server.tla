------------------------------- MODULE Server -------------------------------
(***************************************************************************)
(* One process of the server, from run() to its exit: the dependencies it    *)
(* opens one by one, the goroutines of its errgroup, the requests and the    *)
(* background refreshes they start, and the deferred calls that close the    *)
(* dependencies. The order workers, the feed loop and the listener end when  *)
(* the group's context does; a goroutine of its own shuts the HTTP server    *)
(* down.                                                                    *)
(***************************************************************************)
EXTENDS Integers, FiniteSets, Sequences

CONSTANTS
    MaxRequests,   \* requests in flight
    MaxRefreshes   \* background refreshes in flight

\* What a value of the constants must satisfy.
ConstantsAssumption ==
    /\ MaxRequests \in Nat /\ MaxRefreshes \in Nat

\* What run() sets up, in this order; a step may fail and end the process.
Stages == <<"pool", "schema", "redis", "shops", "warm", "listen">>
\* What has a deferred Close.
Closable == {"pool", "redis", "shops"}
Group == {"orders", "feed", "serve", "stop"}

VARIABLES
    phase,      \* where run() is
    stage,      \* stages done
    opened,     \* dependencies to close
    goroutine,  \* of the errgroup
    cancelled,  \* the root context: the signal, or group.Wait returned
    failed,     \* the group's context: a goroutine returned an error
    shutdown,   \* http.Server takes no connection any more
    timedOut,   \* Shutdown gave up and Close cut the connections
    closing,    \* shops.Close has barred new refreshes
    requests,   \* handlers at work
    refreshes   \* goroutines of the cache client

vars == <<phase, stage, opened, goroutine, cancelled, failed, shutdown, timedOut,
          closing, requests, refreshes>>

\* The order workers create the consumer group before they consume.
States == {"none", "on", "consuming", "ended"}

TypeOK ==
    /\ phase \in {"starting", "running", "closing", "exited"}
    /\ stage \in 0..Len(Stages)
    /\ opened \in SUBSET Closable
    /\ goroutine \in [Group -> States]
    /\ {cancelled, failed, shutdown, timedOut, closing} \subseteq BOOLEAN
    /\ requests \in 0..MaxRequests
    /\ refreshes \in 0..MaxRefreshes

\* workersCtx
Stopping == cancelled \/ failed

On(g) == phase = "running" /\ goroutine[g] = "on"
Ends(g) == goroutine' = [goroutine EXCEPT ![g] = "ended"]

-----------------------------------------------------------------------------
(* Start *)

\* The next stage succeeds, or fails: the deferred calls run.
Start ==
    /\ phase = "starting" /\ stage < Len(Stages)
    /\ \/ /\ stage' = stage + 1
          /\ opened' = opened \cup ({Stages[stage + 1]} \cap Closable)
          /\ UNCHANGED phase
       \/ phase' = "closing" /\ UNCHANGED <<stage, opened>>
    /\ UNCHANGED <<goroutine, cancelled, failed, shutdown, timedOut, closing, requests, refreshes>>

\* group.Go four times, then group.Wait.
Run ==
    /\ phase = "starting" /\ stage = Len(Stages)
    /\ phase' = "running"
    /\ goroutine' = [g \in Group |-> "on"]
    /\ UNCHANGED <<stage, opened, cancelled, failed, shutdown, timedOut, closing, requests, refreshes>>

-----------------------------------------------------------------------------
(* Goroutines of the group *)

\* OrderWorker.Run creates the consumer group and starts its consumers, or
\* returns an error, as it must once its context has ended.
OrdersStart ==
    /\ On("orders")
    /\ \/ ~Stopping /\ goroutine' = [goroutine EXCEPT !["orders"] = "consuming"] /\ UNCHANGED failed
       \/ Ends("orders") /\ failed' = TRUE
    /\ UNCHANGED <<phase, stage, opened, cancelled, shutdown, timedOut, closing, requests, refreshes>>

\* The consumers see the end of their context and Run has waited for them all.
OrdersEnd ==
    /\ goroutine["orders"] = "consuming" /\ Stopping
    /\ Ends("orders")
    /\ UNCHANGED <<phase, stage, opened, cancelled, failed, shutdown, timedOut, closing, requests, refreshes>>

\* SocialService.Run leaves its loop.
FeedEnds ==
    /\ On("feed") /\ Stopping
    /\ Ends("feed")
    /\ UNCHANGED <<phase, stage, opened, cancelled, failed, shutdown, timedOut, closing, requests, refreshes>>

\* Mutant of ServeError: an error of the listener is only logged.
ServeErrorIgnored == failed

\* Serve returns the listener's error to the group.
ServeError == TRUE

\* Serve ends because Shutdown began, or because accepting fails.
ServeEnds ==
    /\ On("serve")
    /\ Ends("serve")
    /\ \/ shutdown /\ UNCHANGED failed
       \/ ~shutdown /\ failed' = ServeError
    /\ UNCHANGED <<phase, stage, opened, cancelled, shutdown, timedOut, closing, requests, refreshes>>

\* The goroutine that waits for the group's context and calls Shutdown.
Shutdown ==
    /\ On("stop") /\ Stopping /\ ~shutdown
    /\ shutdown' = TRUE
    /\ UNCHANGED <<phase, stage, opened, goroutine, cancelled, failed, timedOut, closing, requests, refreshes>>

\* Shutdown returns when no request is left, or after ShutdownTimeout; then
\* Close cuts the connections and the handlers go on without one.
ShutdownReturns ==
    /\ On("stop") /\ shutdown
    /\ Ends("stop")
    /\ \/ requests = 0 /\ UNCHANGED <<failed, timedOut>>
       \/ requests > 0 /\ timedOut' = TRUE /\ failed' = TRUE
    /\ UNCHANGED <<phase, stage, opened, cancelled, shutdown, closing, requests, refreshes>>

-----------------------------------------------------------------------------
(* Requests and refreshes *)

Accept ==
    /\ On("serve") /\ ~shutdown /\ requests < MaxRequests
    /\ requests' = requests + 1
    /\ UNCHANGED <<phase, stage, opened, goroutine, cancelled, failed, shutdown, timedOut, closing, refreshes>>

Respond ==
    /\ requests > 0 /\ phase # "exited"
    /\ requests' = requests - 1
    /\ UNCHANGED <<phase, stage, opened, goroutine, cancelled, failed, shutdown, timedOut, closing, refreshes>>

\* The check of refresh, under the cache client's mutex.
MayRefresh == ~closing /\ ~cancelled

\* A request finds a stale entry and starts a refresh.
Refresh ==
    /\ requests > 0 /\ MayRefresh /\ refreshes < MaxRefreshes /\ phase # "exited"
    /\ refreshes' = refreshes + 1
    /\ UNCHANGED <<phase, stage, opened, goroutine, cancelled, failed, shutdown, timedOut, closing, requests>>

RefreshEnds ==
    /\ refreshes > 0 /\ phase # "exited"
    /\ refreshes' = refreshes - 1
    /\ UNCHANGED <<phase, stage, opened, goroutine, cancelled, failed, shutdown, timedOut, closing, requests>>

-----------------------------------------------------------------------------
(* Stop *)

\* SIGINT or SIGTERM cancels the root context, at any time.
Signal ==
    /\ phase # "exited" /\ ~cancelled
    /\ cancelled' = TRUE
    /\ UNCHANGED <<phase, stage, opened, goroutine, failed, shutdown, timedOut, closing, requests, refreshes>>

\* group.Wait returns when all four goroutines did.
Wait ==
    /\ phase = "running" /\ \A g \in Group : goroutine[g] = "ended"
    /\ phase' = "closing" /\ cancelled' = TRUE
    /\ UNCHANGED <<stage, opened, goroutine, failed, shutdown, timedOut, closing, requests, refreshes>>

\* shops.Close: bar new refreshes, then wait for those under way.
CloseShops ==
    /\ phase = "closing" /\ "shops" \in opened
    /\ IF closing THEN refreshes = 0 /\ opened' = opened \ {"shops"} /\ UNCHANGED closing
                  ELSE closing' = TRUE /\ UNCHANGED opened
    /\ UNCHANGED <<phase, stage, goroutine, cancelled, failed, shutdown, timedOut, requests, refreshes>>

\* Deferred calls run in reverse order: the cache client, Redis, the MySQL pool.
CloseClient ==
    /\ phase = "closing" /\ "shops" \notin opened /\ opened # {}
    /\ opened' = IF "redis" \in opened THEN opened \ {"redis"} ELSE {}
    /\ UNCHANGED <<phase, stage, goroutine, cancelled, failed, shutdown, timedOut, closing, requests, refreshes>>

Exit ==
    /\ phase = "closing" /\ opened = {}
    /\ phase' = "exited"
    /\ UNCHANGED <<stage, opened, goroutine, cancelled, failed, shutdown, timedOut, closing, requests, refreshes>>

-----------------------------------------------------------------------------

Init ==
    /\ phase = "starting" /\ stage = 0 /\ opened = {}
    /\ goroutine = [g \in Group |-> "none"]
    /\ cancelled = FALSE /\ failed = FALSE
    /\ shutdown = FALSE /\ timedOut = FALSE /\ closing = FALSE
    /\ requests = 0 /\ refreshes = 0

Main == Start \/ Run \/ Wait \/ CloseShops \/ CloseClient \/ Exit

Next ==
    \/ Start \/ Run \/ Wait \/ CloseShops \/ CloseClient \/ Exit
    \/ OrdersStart \/ OrdersEnd \/ FeedEnds
    \/ ServeEnds \/ Shutdown \/ ShutdownReturns
    \/ Accept \/ Respond \/ Refresh \/ RefreshEnds
    \/ Signal

\* Calls of the start, of the workers and of refreshes have timeouts and end
\* with their context; Shutdown has its own. Nothing is said of handlers.
Fairness ==
    /\ WF_vars(Main)
    /\ WF_vars(OrdersStart \/ OrdersEnd) /\ WF_vars(FeedEnds)
    /\ WF_vars(shutdown /\ ServeEnds)
    /\ WF_vars(Shutdown \/ ShutdownReturns)
    /\ WF_vars(RefreshEnds)

Spec == Init /\ [][Next]_vars

FairSpec == Spec /\ Fairness

-----------------------------------------------------------------------------
(* Properties *)

\* A client is closed only when nothing that uses it is left but handlers
\* that outlived ShutdownTimeout.
ClientsCloseLast ==
    phase = "exited" \/ (phase = "closing" /\ "shops" \notin opened) =>
        /\ \A g \in Group : goroutine[g] \in {"none", "ended"}
        /\ refreshes = 0
        /\ requests > 0 => timedOut

\* A process that was told to stop, or lost one of its goroutines, exits: it
\* never serves requests without its workers or works without serving.
NoHalfProcess == (cancelled \/ \E g \in Group : goroutine[g] = "ended") ~> phase = "exited"

\* The process stops as a whole and in order.
ShutsDown == []ClientsCloseLast /\ NoHalfProcess

=============================================================================
