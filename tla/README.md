# Verification of dianping

TLA+ specifications, TLC instances and TLAPS proofs for `go-dianping`, the
shop-review and voucher service of this repository. The program is
`src/go-dianping`; `src/src` is the Java service it replaces and
`src/re-go-dianping` a smaller practice version of it. Paths below are relative
to `src/go-dianping` (`internal/` left out) unless they say otherwise.

To check an instance: `tlc -config Seckill_core.cfg MCSeckill`. To check the
proofs of a module: `tlapm SeckillProofs.tla`.

## Inventory

One process serves HTTP, runs the order workers and runs the feed worker. Any
number of processes (replicas) share one MySQL and one Redis. A handler and a
worker never call each other: they meet in the Redis stream, in the outbox
table, in cached values and in row locks.

| Component | State | Operations | Interacts with |
|---|---|---|---|
| Flash sale: `service/voucher.go`, `worker/orders.go`, `repository/order.go`, `redisx/*.lua` | Redis: stock, buyers, order stream with its pending list, order states, dead stream. MySQL: campaign stock, orders | `Seckill`; the consumers' claim, read, handle, process; `OrderCreate`; finish, reject, quarantine | clients through HTTP; consumers through the stream |
| Cache-aside client: `cache/cache.go`, `service/shop.go` | Redis: envelope, version, lease. Process: flights, refresh goroutines, closed | `Get`, `loadCold`, `loadAndStore`, `refresh`, `Invalidate`, `Close` | `ShopService.Create`/`Update`, other replicas through the lease and the version |
| Feed: `service/social.go`, `repository/social.go` | MySQL: blogs, outbox rows with `delivered_at`. Redis: inboxes, ready markers | publish, `deliverFeedBatch`, `ensureInbox`, `Feed` | the feed workers of all replicas; readers |
| Likes and follows: the same files | MySQL: likes, counters, follows. Redis: a ranking per blog, a set per user | `LikeBlog`, `BlogLikes`, `Follow`, `CommonFollows` | row locks; scripts that replace a copy |
| Campaigns: `service/voucher.go`, `redisx/initialize.lua` | MySQL campaign rows; the Redis keys of the flash sale | `Create`, `Warm`, `initialize` | consumers of other replicas that still commit orders |
| Nearby shops: `service/shop.go` | Redis GEO index, readiness marker | `WarmGeo`, `syncGeo`, `geoFailed`, `ListByType` | shop updates of all replicas |
| Order status: `service/voucher.go` | none of its own | `GetOrder`, `GetOrderStatus` | reads MySQL, then Redis |
| Users: `service/user.go`, `repository/user.go`, `middleware` | Redis: codes, attempts, sessions, sign-in bitmaps. MySQL: users | code, login, session, sign, `TrailingOnes` | scripts; the unique phone key |
| Order ids: `redisx/seckill.go` | Redis: a counter per day | `NextOrderID` | `Seckill` |
| Redis lock: `lock/redis.go` | Redis: a token | `TryAcquire`, `Release` | nothing outside its test calls it |
| Start and shutdown: `cmd/server/main.go`, `bootstrap` | goroutines, contexts | `run` | every component |
| HTTP layer, uploads, migrations, configuration | files, schema versions | parsing, routing, `upload`, `deleteUpload`, `migrate` | - |
| Legacy Java service: `src/src` | RabbitMQ queues, Redis keys, MySQL | seckill listener, caches, blog service | not running beside the Go program |
| Practice re-implementation: `src/re-go-dianping` | Redis cache, MySQL | shop and user services | stands alone |

What is hard about them, and what makes them correct:

- **Flash sale.** Delivery is at least once, two consumers may work on one
  message, a COMMIT or a script may take effect although the caller sees an
  error, a delayed call may run much later, and Redis may come back without the
  last second of its log. Correct means: no unit of stock is sold twice or lost,
  one order per user, what Redis tells a client agrees with MySQL, an accepted
  order is honoured, a message leaves the queue only when it is settled, and
  every message is settled in the end.
- **Cache.** A slow load races an update, a lease runs out under its holder,
  replies are lost, `refresh` races `Close`. Correct means: nothing older than
  the last invalidation is cached or answered, leases exclude, nobody waits for
  ever.
- **Feed.** A pass may stop between ZADD and its mark, passes overlap, ids
  commit out of order while a rebuild pages through them, inboxes are lost.
  Correct means: a marked row was delivered, a rebuild restores everything, a
  post reaches every fan, scrolling skips nothing.
- **Likes and follows.** Two replicas toggle one like, scripts time out and run
  later, several rows are locked at once. Correct means: the counter matches,
  answers are current, no deadlock.
- **Campaigns.** `Warm` reads stock and buyers at two moments; `Create` may
  commit and then fail in Redis. Correct means: live reservations are never
  reset, and a cold start sells no more than MySQL has.
- **Users and shops.** INCR without its EXPIRE, two first logins of one phone,
  replicas that rebuild one index on one marker. Correct means: no lockout that
  never ends, one user per phone, no shop missing while the marker is set.
- **Ids, status, start and migration.** Clocks of replicas differ around
  midnight; an order moves between the two reads of a status query; one goroutine
  of a process ends alone; MySQL commits each DDL statement. Correct means: no id
  twice, no answer taken back, a process stops as a whole and closes its clients
  last, a cut migration is resumed.

The `hazards` of `PROJECT.json` give each of these its line in the code and the
property that watches it, or say why none does.

## Modules

`Seckill` &larr; `SeckillPurchase` (INSTANCE `Purchase`) &larr; `MCSeckill`;
`Seckill` &larr; `SeckillProofs`; `SeckillProofs`, `SeckillPurchase` &larr; `SeckillHonourProofs`;
`Seckill` &larr; `OrderStatus`; `OrderStatus`, `SeckillHonourProofs` &larr; `OrderStatusProofs`;
`ShopCache` &larr; `MCShopCache`, `ShopCacheProofs`;
`Campaign` &larr; `MCCampaign`, `CampaignProofs`; `Feed` &larr; `MCFeed`, `FeedProofs`;
`Projection` &larr; `MCProjection`, `ProjectionProofs`;
`Login` &larr; `PracticeUser`; `PracticeShop` (INSTANCE `FreshCache`);
`OrderStatus` &larr; `Services` (INSTANCE `FeedScroll`, `ShopGeo`, `PracticeUser`, `SignIn`,
`OrderIds`, `PracticeShop`, `Server`, `Migrate`) &larr; `MCServices`;
`Services`, `OrderStatusProofs` &larr; `ServicesProofs`.
(An arrow reads "is extended by".) `Services` puts the smaller components together.
They share no state, so one of them runs in each behaviour and the others stay as
they start; what is proved of `ServicesSpec` therefore speaks of each component
alone. `MCServices` gives the constants small values, and a component that does not
run a single initial state. The login of the main server and that of the practice
server are two next-state relations of one instance.

An operator marked "Mutant of X" in a module is used by no other definition. It
is X with a bug the code might have, kept beside X to show which property would
notice it; `PROJECT.json` names the property.

### Seckill

| TLA+ | Code |
|---|---|
| `redis` and the script operators `Admits`, `Reserved`, `Finished`, `Rejected`, `Quarantined` | the keys of `redisx/seckill_keys.go`; each Lua script is a function of the data set and runs as one step |
| `Request`, `Reserve`, `GiveUp` | `VoucherService.Seckill`: the call leaves, runs (perhaps more than once, perhaps after the client gave up), is answered or not |
| `Claim`, `Read`, `Pick` | `OrderWorker.consume`: XAUTOCLAIM, XREADGROUP, the next message of the batch, with the parse and the status lookup of `process` |
| `Create`, `Write`, `WriteUnknown`, `WriteRefused`, `RecheckId`, `RecheckPair` | `Repository.OrderCreate`: the two lookups; UPDATE, INSERT and COMMIT; a COMMIT whose answer is lost; a refusal and the two rechecks in new snapshots |
| `CallScript`, `Abandon`, `Restart`, `LateCall` | the script that settles the message; an error that leaves it pending; a new process; a script call Redis runs after its caller gave up |
| `Persist`, `RedisCrash` | `appendfsync everysec` of `docker-compose.yml`: Redis comes back with an earlier state |

UPDATE, INSERT and COMMIT are one step because the UPDATE holds the row lock of
the campaign until COMMIT. Lookups are steps of their own: that is where the
stale reads are. The clock appears as the window a script finds itself in.
A message is an order id; garbage stands for entries without valid fields.
Which pending messages have been idle long enough for XAUTOCLAIM is left open,
so a message may be handed on while it is being processed.

Assumed: order ids do not repeat (see `OrderIds`; hence `ErrOrderIdentity` cannot occur); the
campaign keys and the consumer group exist; MySQL is durable; a restart of Redis
outlasts the retries of the client library, so that no older call runs after it.

`Purchase` is what a client is promised while Redis loses nothing: an attempt is
accepted within stock and the limit of one per user, then sold, then reported.
`SeckillPurchase` reads the phase of an attempt off the stream, the rows and the
status, and states that `Seckill` implements it.

### ShopCache

| TLA+ | Code |
|---|---|
| `Get`, `Join`, `Reread` | `Client.Get`, the singleflight group, the reads in `loadCold` |
| `Acquire`, `Refused`, `Unlock`, `LockExpire` | SET NX PX with a token, the polling wait, `safeUnlock`, the PX |
| `Recheck`, `ReadVersion`, `Load`, `LoadDirect`, `Store`, `LateStore`, `Fail` | `loadAndStore`, `writeIfVersion` and their error paths |
| `Stale`, `Evict` | `FreshUntil` and the TTL |
| `Commit`, `Invalidate`, `InvalidateFails` | `ShopService.Create`/`Update` and `Client.Invalidate` |
| `Close` | `Client.Close`: refuse refreshes, cancel, wait |

A value is the number of writes the row has seen, so "older" is `<`; 0 is a shop
that does not exist, which the code caches as well. Every Redis call may fail
without running or run although its reply is lost. `floor` and `invalidated` are
history: what the last invalidation had seen when a flight began. Left out: the
loss of the version counter by Redis (a listed hazard), and its 24-hour TTL.

### Campaign

| TLA+ | Code |
|---|---|
| `Begin`, `ReadOrders`, `Warm`, `StartFails` | `VoucherService.Warm` in `run`: the stock of every campaign in one query, then for each campaign its orders and `initialize.lua` |
| `Serve`, `Group`, `Stop` | the HTTP server and `OrderWorker.Run`, which start side by side, and the end of the process |
| `Create`, `CreateReads`, `CreateInitializes`, `CreateFails` | `VoucherService.Create`: the transaction (whose COMMIT may be unknown), then `initialize` in mode `new` |
| `Reserve`, `Deliver`, `Persist`, `Settle`, `Drop` | `seckill.lua`, the worker and `OrderCreate`, each in one step: `Seckill` has them in full |
| `Flush`, `Lose` | Redis comes back empty; keys of a campaign are deleted (the documentation reckons with both) |

`torn` is history: the campaigns that had something mid-air when Redis was emptied
(`MidAir`): an order in a consumer's hand that MySQL does not show yet, a start that
has read a stock of the campaign which is no longer so, or a Create that will set up
the first stock although some of it is sold. `docs/SECKILL.md` says that a warm start
cannot repair what is lost under running work. `Backed` and `RefusedOnlyIfTorn` speak
of every other campaign, also of those that start, are created or have all their
orders settled while Redis is emptied; with any of the three cases left out of
`MidAir`, `Backed` is violated. Keys are deleted only of campaigns that are not being
created, because mode `new` relies on it.

### Feed, FeedScroll

`Insert`/`Finish` are the publishing transaction (ids are given by the INSERT,
rows are visible from the COMMIT, so ids appear out of order); `Fetch`, `Exec`,
`Mark` are `deliverFeedBatch`, whose pipeline may run in part; `Check`, `Query`,
`Add`, `SetReady`, `Fail` are `ensureInbox` with its paged history query;
`Expire`, `Evict`, `Persist`, `Crash` are what Redis does. `FeedScroll` is the
cursor of `Feed` and `nextSocialCursor` over an inbox that grows meanwhile. `lost` is
history: the rows whose post was in an inbox that Redis lost. Left
out: a call that joins a running rebuild (it only waits), a delayed ZADD (it adds
what the history holds anyway), the lookup of blogs and authors.

### Projection

`Lock` takes the rows of a call in the order of their ids; `Count` and `Write` are
`ToggleSocialLike` and `SetSocialFollow`; `Read` is the snapshot taken once all
locks are held (`WithSocialLikes`, `WithSocialFollows`); `Script`, `ScriptFails`
and `LateScript` are `replaceSocialZSet`/`replaceSocialSet` with its 2 s
timeout; `SInter` is the separate SINTER and its fallback; `Abort` is a
cancelled request or lost connection. A ranking is the set of its members,
because its order follows from the set and the times of the likes. The rows are
assumed to exist. `over` is history: which copies a late script overwrote, or Redis
lost, since the call replaced them.

### OrderStatus

`Seckill` with a client that asks for its order. `Ask`, `ReadMySQL`, `ReadRedis` and
`AskFails` are `GetOrderStatus`: the row, else the status hash, with anything the
consumers or a restart of Redis do between the two. `told` is the last answer
about each order. `GetOrder` is the first read alone.

### ShopGeo

`Create` and `Update` begin `ShopService.Create`/`Update` under `geoMu`, `Write` is the
MySQL statement, whose answer may be lost, `Sync` is `syncGeo`, `Clear` is
`geoFailed`. `WarmRead` and `WarmExec` are `WarmGeo`: the rows, then the pipeline that
replaces the indexes and sets the marker. `Look`, `Search`, `Fetch` are `ListByType`;
`Expire` is the marker's ten minutes, `Stop` a process that ends inside a call. A
point is near the query or far from it. `doubt` and the field `due` are history:
entries nobody vouches for (a clearing failed, a replica overlapped), and what an
answer owes. Pages are abstracted, an answer is the whole list.

### Login, PracticeUser

`SendCode`; `LoginByCode` (the script that counts the attempt and spends the
code); `Lookup`, `Insert`, `Reread`: `FindOrCreateUser` with the unique key of
`tb_user`; `LoginByPassword`, `IncrLost`, `Expire`, `Compare`, `Forget`: the INCR, its
EXPIRE, bcrypt and the DEL (`cut` is history: the counter there is missed its EXPIRE
by a fault); `Save`, `EndSession`: sessions; `SetPassword`; `Stop` a
request that ends anywhere, `KeyExpires` any TTL. `PracticeUser` is the same
protocol in `re-go-dianping`, with `Submit` and `Edit` for its profiles.

### SignIn, OrderIds

`Ask` reads the clock, `Sign` is SETBIT, `SignCount` is BITFIELD GET with
`TrailingOnes`, `Midnight` may come between. In `OrderIds`, `ReadClock`, `Count` and
`Expire` are `NextOrderID`; `Tick` moves the clock of one replica; `Lose` takes the
counters back to an earlier value.

### Server, Migrate

`Start` is one stage of `run` (pool, schema check, Redis, cache client, warm
start, listener), `Run` starts the errgroup; `OrdersStart`, `OrdersEnd`, `FeedEnds`,
`ServeEnds`, `Shutdown`, `ShutdownReturns` are its goroutines; `Signal`; `Wait` is
`group.Wait` and `stop()`; `CloseShops`, `CloseClient`, `Exit` the deferred calls.
`Accept`, `Respond`, `Refresh`, `RefreshEnds` are the work that may be under way. In
`Migrate`, `GetLock`, `Check`, `CreateLedger`, `Look`, `Exec`, `Record` are
`migrations.Run`; `Exec` may be cut after any statement of a file.

### FreshCache, PracticeShop

`FreshCache` is what any cache of one row promises: nothing older than the last
invalidation is filled in, unless the cache lost its keys during the fill.
`PracticeShop` is the shop cache of `re-go-dianping`, which has no lease: a read
stores its value only if the invalidation counter has not moved. `PracticeFresh`
states that the second implements the first.

## What TLC checks

| Run | Instance | Shows |
|---|---|---|
| `seckill_core` | 2 units, 3 attempts of 2 users, 2 consumers, no loss | `AcceptedIsHonoured`: no accepted order is refused by MySQL. `KeepsPromise`: every step is a step of `Purchase` or invisible to it |
| `seckill_loss` | 1 unit, 3 attempts, 2 consumers, one restart of Redis | `ReservationLedger`, `SalesLedger`, `VerdictMatchesSales`, `AckedIsSettled`, `DeadLetterOnce`, `StatusMovesForward` |
| `seckill_live` | 1 order, 1 malformed message, 2 consumers, under fairness | `Quarantines`, `KeepsPromiseInTime` |
| `shopcache` | 2 requests, 1 refresh, 1 update, 1 delayed write | `NoStaleFill`, `FreshAnswers`, `LeaseExclusive`, `CloseWaits`, and under fairness `TasksEnd` |
| `campaign` | 2 processes, 1 campaign of one unit, 2 users, one loss, under fairness | `Backed`: what is on sale is what MySQL has left, and `RefusedOnlyIfTorn`: MySQL refuses no accepted order, of a campaign that is not `torn`. `OnSale`: without a loss a campaign is wholly on sale or not at all. `ComesUp`: a start succeeds in the end unless a campaign is broken |
| `feed_safe` | 3 posts, 2 passes in batches of 2, a rebuild in pages of 2, one loss | `DeliveredIsReadable`: the ZADD of a marked row has run, whatever is lost. `RebuildRestores`: a rebuild during which nothing is lost restores every delivered post |
| `feed_live` | 2 posts, 1 pass, 1 reader, one loss, under fairness | `Recovers` |
| `projection_safe` | 1 blog, 3 users, 2 calls, one late script, one lost copy | `CountMatches`, `AnswersAreCurrent`, `NoLockCycle` |
| `services` | the ten components of `MCServices`, one at a time | `ScrollComplete`, `NearbyComplete`, `GeoHeals`, `StatusIsFinal`, `LoginsAgree`, `LockoutNeedsFault`, `StreakRight`, `IdsUnique`, `PracticeFresh`, `ShutsDown`, `LedgerIsTrue`, and `ServicesTypeOK`, the types of all |
| `campaign_seed` | as `campaign` | a violation, see Findings |
| `feed_marker` | as `feed_live` | a violation, see Findings |
| `projection_late` | as `projection_safe` | a violation, see Findings |

Each module has one type invariant, `TypeOK`, except `FeedScroll`, whose proof
states its types. Those of the flash sale, the cache, the campaigns, the feed and the
projections are proved for every instance and not checked again; `services` checks
the others, which are proved as well.

Why these bounds are enough to see the hard cases. In `seckill_core` two attempts
of one user compete for a slot and a third for stock, and both consumers can
hold any of the messages, each at any point of the transaction. In `seckill_loss`
one unit makes every attempt compete for stock as well: an attempt of the lost
tail can be committed while Redis, after its restart, sells the same unit again,
and this order must then be rejected and compensated. One restart suffices for
the rest of the ledgers by proof; `AckedIsSettled` is stated for at most one
loss, and its comment says how a second one breaks it (the documentation admits
that window of `everysec`). A batch of two is enough for a consumer to hold one
message while it works on another. In `shopcache` a leader, a follower and a
refresh meet one invalidation; the proofs cover the rest. In
`campaign` two processes are enough for a start beside a serving process, beside
a Create and beside another start, and two users for a second sale of one unit.
In `feed_safe` three
posts make two pages and two batches, so that a commit can land behind either.
In `projection_safe` two calls are enough for every pair of requests, and an
older script can overtake a newer one. `MaxLate`, `MaxLoss` and `MaxRedisCrash`
bound how many faults happen, never where.

In `services`: a shop that moves between two types is in two indexes, and a second
replica is enough to overlap a call or to rebuild behind its back, with one fault
for the write and one for the clearing of the marker. Two buyers of one unit make
one order succeed and, after a restart of Redis, the other fail. Two logins race
for one code, one row and one counter; two edits race for a new profile row. Two
months of three days have a month's end between two requests. Uniqueness of ids
is about pairs, so two requests suffice; the counter of the first day starts at
0, 2, 3 or 4 where four values fit, so that a request meets the last count and
the refusal after it. Two readers and two writers of the practice cache overlap in
every order. Three migrations, two with the seed, may each be cut or wait. Six
posts, four in one millisecond, need three pages for the tie.

Symmetry is used for consumers, posts, passes, readers and calls, in runs that
check no liveness. Deadlock is checked except in `shopcache` and `services`, where
all requests can be answered, the scroll be over or the process have exited, with
nothing left to do.

### Fairness

- *Seckill.* A consumer loops until its process stops, and processes are started
  again: weak fairness of `Consume`. Faults are transient: a step on a message
  that is enabled again and again succeeds in the end (strong fairness, per
  message, of delivery, pick, create, write and script). XAUTOCLAIM walks the
  whole pending list with its cursor, which is why delivery is fair to each
  message. Nothing is assumed of clients or of faults.
- *ShopCache.* A started task goes on, a lease runs out, SET NX on a free key
  does not fail for ever, and `Close`, once begun, continues. No deadline is
  assumed: the code has some, and `TasksEnd` holds without them.
- *Campaign.* A process that is down is started again, each call of a start
  succeeds now and then, a Create ends. Nothing is assumed of losses.
- *Feed.* `Run` keeps making passes, a fan keeps reading, each Redis and MySQL
  call succeeds now and then, a marker runs out. `Recovers` needs the last one,
  see the first finding.
- *ShopGeo.* A call goes on or ends by its timeout, the marker expires, and clients
  keep asking for nearby shops. Nothing is assumed of changes and faults.
- *Server.* The steps of start and stop go on, workers and refreshes end with
  their context, `Serve` returns once `Shutdown` has begun, and `Shutdown` returns by
  `ShutdownTimeout`. Nothing is assumed of handlers.

## Findings

1. **An inbox lost beside its marker is not noticed** (`feed_marker`).
   `ensureInbox` (`service/social.go:420`) takes the presence of both keys for a
   restored inbox; `docs/SOCIAL.md:179`, `docs/REDIS.md:23` and the comment above
   the test say that it thereby notices an inbox that was evicted alone. But the
   next ZADD, of a pass or of the rebuild that was running, makes a new key with
   later posts only. The older ones stay away until the marker runs out, after up
   to 24 hours; `Recovers` shows that they then return.
2. **An older snapshot can overwrite a newer one** (`projection_late`).
   `docs/SOCIAL.md:131` says that the row lock prevents it. The lock is given up
   when the script call has taken 2 s, or is cut off, whether or not Redis still
   has it to run (`service/social.go:204`). If it runs after another call's script,
   the older copy stays until the next call. Rankings repair themselves before
   they answer. A SINTER in between can see it, and `AnswersAreCurrent` says how
   much: an answer about common follows still names nobody whom the user of the other,
   untouched set does not follow.
3. **A cold campaign may be seeded from two moments** (`campaign_seed`). `Warm`
   reads the stock of all campaigns (`service/voucher.go:65`) before it reads the
   buyers of each, in no transaction. An order that is committed in between is
   among the buyers and still in the stock. It takes a Redis that is emptied
   during a start, while another process commits; the campaign then accepts one
   order more than MySQL can hold, and rejects it later. `Backed` shows that this,
   an order in hand and a Create of a campaign that already sold are the only ways to
   it (`MidAir`).

## What TLAPS proves

For every value of the constants that meets `ConstantsAssumption` of the module:
finite sets of orders, writers or posts, functions with their types, bounds that are
numbers, and names that do not collide (`None` is not a row, `"name"` not one of the
other columns, `Keep` neither a type nor a place). All theorems follow from the
initial states and the steps; none uses fairness.

**SeckillProofs.** `TypeCorrect`, `ReservationsBalance`,
`SalesBalance`, `OneOrderPerUser`, `VerdictsAreTrue`, `DeadLettersOnce`, and the
action property `StatusNeverRegresses`. They follow from `InOrder`, the
invariant `IInv`:

- `SalesOK`: MySQL's stock and orders add up, one order per slot;
- `RedisOK`, of the live data set *and* of the saved one, since a restart may
  make the saved one live: verdicts agree with MySQL (`VerdictsOK`), stock,
  buyers and live orders agree (`ReservationsOK`), stream, pending list and dead
  letters agree (`QueueOK`);
- `Knowledge`: what a consumer in the middle of a message, or a call left
  behind, relies on: `finish` is only ever called for a committed order, `reject`
  only for one that is `Beaten`.

None of the ledgers is inductive alone, because a late script acts on what its
caller knew. The argument is that `Beaten` ("no row can be there for this order
any more": sold out in MySQL, or another order of the same user) stays true once
it is true, since committed orders only accumulate and MySQL's stock only falls.
So a script that runs late, twice, or on an older data set still tells the truth.
Each Lua script has a lemma that it preserves `RedisOK`, each action one step.

**ShopCacheProofs.** `TypeCorrect`, `FillsAreFresh`, `AnswersAreFresh`,
`LeasesExclude`, `CloseIsFinal`. The strengthenings: `Counts` (row and version
count the writers, a store has a value), `Owned` (a task that holds an unexpired
lease is the one in the lock key), `NoneStale` (a value that is going to be
stored under the current version is no older than the last invalidation) and
`Flights` (what each request of a flight carries is no older than the floor of
its flight).

**SeckillHonourProofs.** `AcceptedIsKept` (`AcceptedIsHonoured`),
`AcknowledgedIsDone` (`AckedIsSettled`) and `ImplementsPurchase`: with no restart of
Redis, `Seckill` implements `Purchase`. The ledgers say what agrees, not that an
accepted order can still be sold. The strengthening `Honest` adds it: as long as
nothing was lost, committed orders are among the accepted ones in the stream, no
consumer is on its way to refuse one, and every script still under way finishes
or quarantines. Its heart is the lemma `RoomLeft`: by `ReservationsOK` the accepted
orders fit into the initial stock, one to a slot, and an order that is not
committed yet is one of them, so MySQL has a unit and no rival row for it. The
refinement then goes action by action: the Lua script accepts, COMMIT sells,
`finish.lua` reports, everything else is invisible to a client.

**OrderStatusProofs.** `AnswersAreFinal` (`StatusIsFinal`, for every instance and any
number of restarts). A question changes nothing of the flash sale, so the
theorems about `Seckill` hold of `OrderStatus`; `ToldTruth` adds what an answer that
was given means now ("failed" was said of an order that is `Beaten`).

**CampaignProofs.** `OnSaleIsBacked` (`Backed`), `AcceptedHasRoom`
(`RefusedOnlyIfTorn`), `CreatedIsOnSale` (`OnSale`). The strengthenings: `Known` (which
campaigns exist and who has read what); `Spent`: MySQL's stock only falls, so whoever read an
older stock has read more; `Whole`, of each campaign that is not torn: MySQL has room for
every order on its way to it and for what is on sale (`Room`), nobody bought of a
campaign that a Create is about to set up (`Untouched`), and what a cold start has read
is still so (`ReadIsTrue`); and `Kept`: while Redis loses nothing, campaigns that were set
up stay complete and nobody buys of another. A campaign that had nothing mid-air is
`Whole` again the moment Redis is emptied, which is why the exception can be made for
each campaign alone.

**FeedProofs.** `MarkedWasGiven` (`DeliveredIsReadable`: a marked row is in the inbox
or was lost from it, for any losses) and `RebuildsRestore` (`RebuildRestores`). The
strengthenings: `RowsStay` (what a pass or a page has read stays committed under its
id), `Undelivered` (what is about to be marked was added, and is in the inbox or was
lost from it) and `Cursor` (a post that was added is in the inbox or ahead of the cursor
of the rebuild that is to restore it).

**ProjectionProofs.** `CountersMatch` (`CountMatches`), `AnswersCurrent`
(`AnswersAreCurrent`) and `LocksInOrder` (`NoLockCycle`). The invariant is mutual
exclusion of row locks with what each call holds and has read at its place. Locks
are taken in ascending order of ids, so a set of calls that wait for one another
would have to hold a row with a greatest id, and its holder waits for a greater
one: that is the proof of `NoLockCycle`. `AnswersCurrent` holds of rankings whatever
happens in Redis; of common follows it says what is left of the promise on the side
whose copy was not replaced.

`TypeCorrect` is a theorem of each of the five.

**ServicesProofs.** `ServicesTyped` (`ServicesTypeOK`), one theorem for each safety
property of the smaller components, and `PracticeImplementsFreshCache`
(`PracticeFresh`). Each component has an inductive invariant over its own variables;
their conjunction is `ServicesInv`, and by the lemma `StepOfOne` a step of `Services`
is for each component a step of its own or none. The invariants:

- *Scrolling*, `ScrollInv` for `ScrollsAreComplete` (`ScrollComplete`). `ScrollComplete`
  speaks of the end and of counts, neither of which a page preserves alone. A page is
  a range of ranks in what lies at or below the cursor, and the invariant says where
  the cursor is: what was there at the beginning and lies behind it was shown
  (`ShownBehind`), the offset counts posts of the cursor's millisecond
  (`OffsetCounts`), and a post of that millisecond was shown again at most as often as
  late posts pushed it down, which the offset tells (`ShownOnce`). A post that
  arrives enters `Peers` and `Late` of the same posts, so the counts stay in step.
- *Nearby shops*, `GeoInv` for `NearbyAnswersAreComplete` (`NearbyComplete`). The marker
  of the index promises something only of shops that are not in doubt: for these
  every rebuild under way holds the row as it is now, and one call at most works on
  them and knows their row (`Vouched`), so that while the marker stands the index entry
  is the row (`Indexed`), except between the statement and the command. `SureOfRows` says
  which shops a rebuild may take out of doubt. A query keeps what it owes through its
  three reads (`Owes`). It rests on `RowsStay`: shops are never deleted.
- *Logins and profiles*, `AccountInv` for `LoginsAreOfOneUser` (`LoginsAgree`) and
  `LockoutIsOfAFault` (`LockoutNeedsFault`): a code that can still be used admitted nobody
  (`CodesUnspent`), a request past the insert has the row there is (`RowFound`), an
  expiry is that of a counter (`ExpiryOfCounter`).
- *Sign-in*, `SignInv` for `StreaksAreRight` (`StreakRight`): a bit is set exactly when its
  day was signed. That the answer is right then is arithmetic: `CountTrails` shows that
  `TrailingOnes` of `Field` is the number of ones at the end of the bits up to today, for
  every length of a month. The recursive functions are shown to have a value by
  well-founded recursion, their properties by the least number that breaks them.
- *Order ids*, `IdInv` for `IdsAreUnique` (`IdsUnique`): an id handed out is a count its
  day's counter has passed (`IssuedCounted`), and the request that made the counter, the
  only one that hands out a 1, hands it out once (`ExpiresFirst`). Two ids agree only in
  second and count, because the packing is a division with remainder.
- *Practice cache*, `PracticeInv`: a read that no loss of keys met has seen a version
  that has not come again, and while it is the version, what it read is no older than
  the last invalidation (`ReadsStorable`). Store is then a `Fill` of `FreshCache`, and each
  other action an `Update`, `Invalidate`, `Evict`, `Lose`, `Heal` or nothing.
- *Start and shutdown*, `ServerInv` for `ClientsAreClosedLast`: the goroutines start and
  end together (`GroupTogether`), a closed cache client has no refresh and admits none
  (`RefreshesOver`), and after `Shutdown` only handlers it gave up on are left.
- *Migrations*, `MigrateInv` for `MigrationLedgerIsTrue` (`LedgerIsTrue`): a run under way
  holds the lock, statements come after the ledger, and a run has applied the file it
  is about to list (`LockHeld`, `LedgerFirst`, `FilesListed`, `NoneTwice`).

`StatusStaysFinal` carries `AnswersAreFinal` over: a behaviour of `Services` is one of
`OrderStatus`. The two invariants that are hard to see, `GeoInv` and `ScrollInv`, were
checked with TLC on small instances before they were proved (`ScrollInv` also from every
state that satisfies it, with four posts).

**Model-checked only.** Liveness: `Quarantines`, `KeepsPromiseInTime`, `TasksEnd`,
`ComesUp`, `Recovers`, `GeoHeals` and the second half of `ShutsDown` (`NoHalfProcess`); it
needs fairness and ENABLED, which are out of the prover's reach. Every safety
invariant and action property that a passing run checks is a theorem.

## Plan

Done: the flash sale with its abstract specification, its ledgers and the
refinement; the cache client; campaigns, feed and projections; order status, composed
with the flash sale; the GEO index, users, sign-in, ids, start and shutdown,
migrations and the practice version. The safety of each is proved, and checked with
its liveness on small instances.

Left, in this order:

1. `FreshCache` stated of `ShopCache` as well, and proved from `NoStaleFill` and the
   invariant behind it: one promise for both caches.
2. `ShopCache` with a Redis that loses the version counter.
3. `Seckill` with a stream that is lost together with its consumer group, which
   only a new process creates again.
4. The Java service: the RabbitMQ listener and the logical-expiry cache.

## Not modelled

- Field validation, routing, error texts, logging, the content checks of
  uploads, configuration: no state that outlives a request.
- `lock/redis.go`: nothing outside its test calls it (`docs/SECKILL.md:188`
  says the shop cache does; that cache has a lease of its own, in `ShopCache`).
- The Java service `src/src`, which does not run beside the Go program. `Migrate`
  has its database as a possible initial state.
- Of the practice version: the creation of shops, the list of shop types and the
  handlers.
- Times as numbers: timeouts, leases and windows are events that may happen.
  Properties that need a clock (how long an old value is served after a failed
  invalidation) are therefore not stated.
- A GEO pipeline that Redis runs after its caller gave up; the loss of the cache's
  version counter; the loss of the stream with its consumer group. Each is
  under `hazards` with its line, or above with its module.

Observed while reading, without a run, because each is a plain difference of two
lines or outside the models:

- `internal/service/user.go:115`: INCR and EXPIRE of the password counter are two
  calls, so the key may stay without a TTL after a fault, where `docs/REDIS.md:10`
  gives it two minutes. `LockoutNeedsFault` shows that it takes a fault.
- `internal/service/shop.go:116`: the comment says the next nearby query repairs a
  failed index write. With several replicas another one may set the marker again
  from older rows; the repair then waits for the marker to expire (`GeoHeals`).
- `cmd/server/main.go`: the requests' base context is the one the signal cancels,
  so requests in flight are cut before `Shutdown` waits for them.
- Start checks that the table `schema_migrations` exists, which `migrate` creates
  before the rest of the schema.
- Consumers repeat NOGROUP until the process is restarted when Redis comes back
  without the stream.
- `re-go-dianping`: a missing session is answered as an unavailable service, and
  `geoFailed` clears a marker that nothing sets.
