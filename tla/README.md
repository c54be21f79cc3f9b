# ShardLeak in TLA+

ShardLeak is a rate-limiting API. A client sends `POST /api/v1/check` with an
identifier, a limit, a window and an algorithm; a Lua script in Redis decides
and the API answers `allowed` or not. PostgreSQL keeps users, API keys and
limit configurations, and a Next.js dashboard manages them. This directory
models the parts of it in which order, time and failure matter, checks them
with TLC on small instances, and proves their safety with TLAPS for every value
of the constants.

## Inventory

| Part | State | Operations | Hard about it |
| --- | --- | --- | --- |
| Token bucket (`ratelimit/token_bucket.go`) | one Redis hash per identifier: `tokens`, `last_ms`, an expiry | the script; the arguments read before it is sent | stamps out of order, skewed clocks, policies that share a bucket, expiry, rounding |
| Fixed window (`ratelimit/fixed_window.go`) | one Redis counter per identifier and window start, an expiry set once | the script | late scripts, windows of different lengths on one key, expiry |
| Redis client (`redis/redis.go`, go-redis) | commands in flight | send, retry with the same arguments, give up | an executed script whose answer is lost, a late attempt |
| Service (`ratelimit/service.go`) | none | dispatch, count errors, read the reply | |
| Check endpoint (`handlers/check.go`, `middleware/apikey_auth.go`, `metrics/metrics.go`) | the request, Prometheus counters | authenticate, validate, count, check, answer | a revocation meanwhile, Redis or PostgreSQL down, an instance that dies |
| Store (`store/store.go`, `migrations/`) | tables of users, keys, configurations | one SQL statement each | unique constraints under concurrency, a commit whose answer is lost |
| Accounts (`handlers/auth.go`, `auth/auth.go`, `middleware/jwt_auth.go`) | none besides the store; tokens live for 24 hours | sign up, log in, who am I | two sign-ups of one address, sign-up without its log-in |
| Key and limit management (`handlers/apikeys.go`, `handlers/limits.go`) | none besides the store | create, list, get, revoke or delete | conflicts, repeated deletes |
| Lifecycle (`cmd/server/main.go`, `handlers/health.go`) | the process, its two connections, the HTTP server | start, serve, ready, shut down | a listener that fails, a shutdown that runs out of time, one deadline for two pings |
| Dashboard (`frontend/app/dashboard/**`) | React state of each page | load, create, delete or revoke, check | answers that arrive in another order than the requests were served |
| Session (`frontend/lib/auth.ts`, `lib/api.ts`, `app/login`, `app/signup`, `dashboard/layout.tsx`) | one token in localStorage, shared by tabs | log in, sign up and log in, who am I, log out | an old 401 that clears a new token |
| Demo (`frontend-demo/lib/simulator.ts` and its pages) | buckets and windows in memory | check, peek, reset | agreement with the scripts it claims to repeat |
| Landing pages, Grafana and Prometheus configuration, load test, configuration, CORS, logging | none or static | | |

A check goes through them like this: the middleware reads the key from
PostgreSQL, the handler validates the body and counts the request, the service
reads the clock and sends the script, Redis runs it atomically, and the answer
comes back through the same path. Everything between reading the clock and
running the script is a window in which other checks run.

## Modules

`RedisClient` is what every check has in common: a goroutine reads its clock,
which may be `MaxSkew` ticks from Redis's, puts the stamp into the command and
sends it. A connection that breaks leaves it open whether Redis runs the
command; a retry sends the same command again. `TokenBucket`, `FixedWindow` and
`CheckPath` extend it and say what running a command means.

`TokenBucket` is one identifier's bucket. `RunScript` is the whole Lua script
as one action, because Redis runs it atomically; `Found`, `Refilled`,
`RetryAfter`, `ResetAt`, `Ttl` and `Stored` are its lines. The code counts
tokens in floats; the model counts units of `1/Unit` of a token, with `Unit`
chosen so that a tick refills `Rate` whole units, and `StoreErr` for what the
decimal written into the hash may be off. `Dump` and `Restart` are the Redis
of docker-compose.yml, which keeps no append-only file.

`FixedWindow` is one identifier's counters, one for each second a window may
start at. `Incremented` is INCR with EXPIREAT, which deletes a key whose time
has passed.

`CheckPath` is the endpoint around them: middleware, handler, service and
metrics at several instances, with keys revoked, databases that go down and
instances that crash. Redis is reduced to an allowance per algorithm.

`Management` is one account's limit configurations and API keys: the two
tables, the handlers as one SQL statement each, and the two dashboard pages that
list them, in several tabs. A page is the React state its component keeps (`configs` or
`keys`, `loading`, `creating`, `deleting` or `revoking`); `Mount`,
`ClickCreate` and `ClickRemove` are its handlers up to the `await`, `Receive`
what follows it. `ServeList`, `ServeCreate`, `ServeRemove` and `Refuse`
run a statement, whose answer may be lost; `FailLookup` is the middleware's 401
to a check whose key could not be looked up, `Fail` loses the request or fails
what it needed. Requests that are under way come back in any order; those of a
page that is left go on where they change a table.

The playground of the console is a third page of `Management`: `ClickCheck`,
`ReceiveCheck` and `ClearHistory` are its handlers, `ServeCheck` the check as
far as keys are concerned; whether it is allowed is left to `CheckPath`. `Screen`
and `PlaygroundScreen` are what the pages show of their state.

`Session` is who is signed in: the token in localStorage that the tabs of a
browser share, the two forms, the dashboard's layout with the overview inside
it, and behind them sign-up, log-in, `me` and the lists. Navigation within the
application takes a step of its own (`going`, `Arrive`), since `router.push`
and `router.replace` do, so that answers meet pages that are about to be left;
a page that is gone leaves its continuations running (`Unheard`), a reload ends
them (`Abandoned`). `users` and `issued` are the table and the tokens handed
out, of which the oldest `expired` are no longer good.

`Simulator` is the demo's own limiter, both algorithms over maps in memory. Its
inputs take fractions, so limits and tokens are counted in units of 1/`Unit` of
a token, windows and times in ticks. The panel's look at a window and the
check's are two comparisons in the code (67 and 127) and two here (`PeekFresh`,
`FreshWindow`). `Playground` is the page around it, with its inputs, which clamp
what is typed and do not truncate it (`SetLimit`, `SetWindowSeconds`), its
polling interval, its bursts, which go on with the configuration they began
with, and its screen. Beside every key of a whole limit and window, which are
all that the API's `int` fields take (`Whole`), runs the script the demo claims
to repeat: `Playground` instantiates `TokenBucket` and `FixedWindow`, gives
every key a Redis of its own (`hash`, `counter`), reads it as the scripts do
(`HashOf`, `CounterOf`), runs their operators at every check, and compares.

`Lifecycle` is `main.go`: the two pings, the listener in its goroutine, the
channel the signal waits in, `Shutdown` with its 15 seconds, and the deferred
`Close` calls in their order, with Docker around it, which starts the process
again or kills it. A handler is a check that queries PostgreSQL and then Redis.

`Budget` and `Limiter` are abstract and model no code. A `Budget` admits
requests as long as what was earned pays for them, and never takes back what
was earned. A `Limiter` adds the callers: each admission is told at most once,
perhaps never, and nothing else is told. `TokenBucket` implements `Limiter`
(`IsLimiter`): the supply is one capacity for every bucket handed out, the
refill of the time the stamps span, and what the writes may round up
(`Supply`); a script is a step of the budget, an answer that arrives is `Tell`,
and sending, retrying, breaking, expiry and restarts are stutters or earn.

The history variables (`granted`, `charges`, `births`, `mark`, `rewound`, `late`, `lost`,
`told`, `breaks`, `promise` in the limiters, `raced`, `crowded` and the requests' `late` in
`Management`, `overdue` and `cutOff` in `Lifecycle`, `told` and `swapped` in
`Session`, `edited` and `setBack` in `Playground`) are read by properties
only; `swapped` also by `AtRest`, whose step changes nothing.

`RedisClientProofs`, `TokenBucketProofs`, `FixedWindowProofs`,
`CheckPathProofs`, `LifecycleProofs`, `SessionProofs`, `ManagementProofs` and
`PlaygroundProofs` hold the proofs. Each `MC` module declares the model values of its instances;
bounds such as `MaxTime`, `MaxCalls`, `MaxRetries` or `MaxRequests` are
constants of the module itself and appear in guards.

## What each component has to get right

- Limiters: no caller, order of calls, skew, retry, expiry or restart lets
  through more than can be accounted for (`AdmissionBound`, `InOrderBound`,
  `WindowBound`); nobody is refused for what was not admitted
  (`CounterIsEarned`, `CounterEndsWithItsWindow`, `ExpiryForgetsNothing`); what
  the answer says about later holds later (`RetryAfterIsHonoured`,
  `ResetIsLessThanASecondEarly`); a token taken and an answer given go together
  but for broken attempts, so that a request counts twice only when it was sent
  twice (`ChargesMatchAnswers`, of both algorithms); all of it, for the token
  bucket, as one abstract limiter (`IsLimiter`).
- Check endpoint: nobody is told "allowed" unpaid (`AllowedIsPaid`), a revoked
  key stays out (`RevocationIsFinal`), the counters the dashboards divide add
  up (`MetricsBalance`), every request ends (`EveryRequestIsAnswered`).
- Management: a page that never asks again still shows the table
  (`PageShowsTable`, `OneConfigEach`), nobody is told a row is missing that
  only they removed (`MissingMeansForeign`), no check that is sent once some page
  shows its key as revoked is decided (`RevokedIsRefused`; a refusal says less,
  since it is also what a lookup that failed gets), decisions are logged in
  order (`LogInOrder`), no spinner stays (`SpinnersStop`).
- Session: a sign-up that was answered is good for a log-in
  (`SignedUpCanLogIn`), a dashboard is one account's (`OneIdentity`), a good
  token is not thrown away (`StaysLoggedIn`), every tab comes to rest
  (`ComesToRest`).
- Demo: the simulator answers as the scripts do (`AgreesWithScripts`, of whole
  limits and windows); the page shows the state of the configuration it shows
  (`ShowsItsConfiguration`), an empty grid or a full bar means a refusal
  (`EmptyMeansRefused`), the log never has more than a limit, rounded up,
  allowed (`LogWithinLimit`), bursts do not overlap in one page (`OneBurst`).
- Lifecycle: pools outlive the handlers (`HandlersKeepTheirPools`), and a
  signal is never lost (`StopsWhenAsked`).

## Runs

| Run | Instance | Shows |
| --- | --- | --- |
| `one_policy` | 2 goroutines, 3 calls, 10 ticks, refill slower than a token a second, skew 1, keys that expire | the bounds, and that retry_after and reset_at keep their word |
| `shared_bucket` | 2 policies on one key (limits 1 and 2, windows 1 and 3 s), 1 tick, 1 retry, 1 restart, rounding | charges against answers, and that bucket and client are a `Limiter` |
| `reordered_stamps` | 2 calls whose scripts swap | violation: more admitted than capacity and refill |
| `shared_windows` | windows of 1 and 2 s, 2 ticks a second, 4 ticks, skew 1, 1 retry, 1 restart | what a window admits, why it refuses, when its counter ends, and charges against answers |
| `late_scripts` | a script that runs after its window | violation: admitted beyond the limit |
| `checks` | 2 requests, 2 instances, 1 retry, outages, a crash, a revocation | the endpoint's properties, and that requests end |
| `check_postgres` | the same, smaller | violation: PostgreSQL is needed |
| `management` | 2 tabs, both on one list page or keys beside the playground; 1 identifier, 1 key to begin with, 4 requests, a log of 2 | pages against tables, checks against revocations |
| `session` | 2 tabs that open any two pages, a member and an address two people sign up with, 2 things users do, 1 expired token | sign-up, identity, log-out, and that tabs come to rest |
| `demo` | identifiers `user` and `user:1`, limits of 1, 1.5 and 2, windows of 1, 1.5 and 2 s, 5 half-second ticks, 2 single checks or bursts of 2, 2 edits, resets, pages left or corrections of the clock, a log of 3 | simulator against scripts, screen against simulator, one burst of a page at a time |
| `lifecycle` | 2 handlers, 2 starts, 3 requests, 2 outages | shutdown |
| `deaf_process` | 1 start | violation: alive and not serving |

The bounds are the smallest at which the cases the properties are about all
occur. In the limiters that is two commands in flight (any interleaving of
more is one of a pair that swaps), one tick of skew in either direction (which
already reorders stamps), one retry, one restart after one dump, and enough
ticks for a window to end, a key to expire and the call after that. Four
requests let a page load, create and remove while another tab changes the
table. In `session` two things that users do, in two tabs that may begin on
any page with or without a token, are enough for a log-in beside a dashboard,
two sign-ups of one address, a log-out under a log-in, and a reload under
either. In `demo` the clamps of the limit (1 and 200 in the code) are 1 and 2,
those of the window (5 and 300) 1 and 2, and the grid's 64 cells one, so that a
limit exceeds the grid; what is typed is a fraction between the clamps, or
beyond them. Five ticks are enough for a hash of the shortest window, which
lives for four, to expire and be read. Two bursts fit, of one page or of two that
were opened one after the other, whose four requests are more than the limit and
than the log. For the safety properties the proofs replace the
bounds altogether. Every property has a mutant of the code, listed in PROJECT.json,
that violates it on the run's own instance, so none of them holds for lack of
the case it is about.

Deadlock is checked in every run. Where a bound ends an instance, an action
that changes nothing (`Quiet`, `Served`, `Settled`, `Stopped`, `AtRest`) is
enabled in the intended end only; the demo's poll never ends.

## Fairness

The limiters' runs assume none. `checks` assumes, for every request, that its
handler takes a step when it can (Go's scheduler), and that a call that waits
for Redis is ended by an answer or by go-redis's timeouts, whose retries are
bounded; databases need not come back, clients need not send. `management` assumes that a request that is under
way is served or fails, and that the continuation of a settled `fetch` runs;
users need not click. `lifecycle` assumes that Docker restarts what exited by
itself, that main and the server's goroutine run, and that handlers end (chi's
Timeout of 30 seconds); it does not assume that Docker kills. `session`
assumes that what pages, router and server do by themselves goes on as long as
any of it can: a `fetch` settles, its continuation runs, a navigation arrives, a
page is rendered; users need not do anything and tokens need not expire. `demo`
assumes none. There is no strong fairness.

## Proofs

Every safety property that a passing run checks is also a theorem, for every
number of goroutines, tabs, keys, requests, policies, retries, restarts and so
on. The assumptions are the `ASSUME`s of the modules: windows, limits and rates
are positive whole numbers, goroutines are finitely many, the value that stands
for "none" is none of the others. `Session` assumes that the accounts there are
to begin with have one password each, and `Playground` that units are small
enough for a tick to refill at least one of them (`MaxWindow * TicksPerSec <=
Unit`); it assumes nothing of the numbers that are typed but that they are
multiples of a unit or a tick. Each property is proved from
an inductive invariant that is stronger than it; the types of the state
(`TypeInv`) are part of all of them.

### What the checks share

`RedisClientProofs` has the types of calls and commands (`ClientInv`), that no
command carries a stamp further ahead of Redis's clock than `MaxSkew`
(`StampInv`), that no two goroutines wait for the same check (`OwnIds`), and
how charges and answers stay in balance (`ChargeInv`), across retries and the
passing of time. The proofs about `TokenBucket`,
`FixedWindow` and `CheckPath` cite it.

### Token bucket

- `TypeCorrect`: in particular no stored amount and no retry time is negative.
- `AdmissionsAreBounded` and `InOrderIsBounded` follow from `BudgetInv`. The
  bound alone is not inductive: an admission is paid for by a token in the
  bucket, so what is granted and what is held together have to fit in the
  supply (`Budget`): one capacity for every bucket handed out or restored, the
  refill of the time the stamps span, and what the writes may have rounded up.
  What a restart brings back has to fit in a capacity (`BucketFacts`), and the
  latest stamp is not ahead of the clocks (`MarkInv`), which turns stamps into
  time that has passed. A stamp older than the one before makes the script
  credit the same time again later; `rewound` is that time.
- `ExpiryIsHarmless` follows from `LifeInv`: a key outlives its stamp by two
  windows, less the skew, when all windows have one length (`OneWindow`).
- `RetriesAreHonoured` follows from `PromiseInv`. That a token will be found is
  not inductive: scripts run between the refusal and the time it named, with
  any stamp. What they leave covers what will be there when the promise falls
  due (`Foretold`), since time that passes in two steps, one of them perhaps
  backwards, refills no less than in one (`Detour`), and each of them may round
  off at most `StoreErr`. `promise` may be any refusal since the last
  admission, so the theorem is about all of them.
- `ResetsAreNear` is arithmetic over the stored bucket: `reset_at` is counted
  from the whole second its stamp lies in (`ResetCovers`).
- `ChargesMatch` follows from `ChargeInv`. Counting answers against admissions
  is not inductive: a command on the wire may yet be charged, and after a break
  it may be on the wire without anybody waiting. So no two goroutines wait for
  the same check (`OwnIds`), and admissions together with the commands nobody
  waits for any more (`Orphans`), each of which may still charge once, are
  covered by the answers told, the answers on their way (`OnTheWay`) and the
  breaks (`Charged`).
- `ImplementsLimiter` maps every step of the token bucket with its client to a
  step or a stutter of `Limiter`. It needs `BudgetInv` for `Covered`, `ChargeInv`
  for `told < granted` where an answer arrives, and that the supply never
  shrinks (`SupplyGrows`), which holds although `mark` moves, since time and
  marks only go forward.

### Fixed window

- `RefusalsAreEarned` follows from `EarnedInv`, that neither a counter nor its
  dump counts more than was admitted; `CountersEnd` from `EndInv`, that both
  expire when some policy's window ends.
- `WindowsAreBounded` follows from `BoundInv`: until the shortest window that
  starts with it has ended, a counter knows (`Knows`) of every admission but
  those a restart forgot, and by `EndInv` it cannot expire before; after that
  every script counts as late.
- `ChargesMatch` follows, as in the token bucket, from `ChargeInv`, which counts
  the scripts that admitted in whichever window (`charges`); of the counters it
  follows from `EarnedInv`, since no window admitted more than all of them did
  (`TotalInv`).

### Check endpoint

- `FailsClosed` follows from `PaidInv`: `AllowedIsPaid` and `OwnIds`, without
  which one script could answer two goroutines.
- `RevokedGoNowhere` needs that a key that was revoked when its request arrived
  still is when the middleware looks (`KeysStayRevoked`).
- `CountersAddUp`: the balance is inductive, one instance at a time
  (`BalanceOf`); the proof is about which requests are `Checking` where, also
  when an instance dies with its requests and its counters.

### Lifecycle

`PoolsOutliveHandlers` follows from `PhaseInv`, which says for every place
`main` can be at what server, handlers and pools are: nobody is served before
`listen` and after an exit (`NobodyBefore`), pools are open until their `Close`
(`PoolsAreOpen`), closing begins when all handlers are done or time is up
(`DrainedOrLate`), and `main` gets there only when it was asked to stop, so that
Docker starts no other process beside it (`StopsOnceAsked`).

### Session

- `TypeCorrect` has to know which page waits for which request (`FlightInv`):
  a continuation takes the page it was started on.
- `SignUpLasts` follows from `AccountsInv`: an address has one password at most,
  the table's UNIQUE constraint.
- `GoodTokensStay`, an action property, follows from `RefusalsInv`: a `me` that
  was refused carried a token that is no good and never will be, since tokens
  expire in the order in which they were issued.
- `OneAccountAtATime` follows from `DashboardInv`: for a dashboard under which
  nobody else logged in there is one token that storage holds, if any, that its
  requests carry, if any, and whose account it shows (`Owned`).

### Management

- `RevokedStaysRefused` follows from `KeysInv`: rows shown as revoked, in a
  table, in an answer on its way or on a page, are of keys that are refused, and
  keys are numbered in the order they were made.
- `PagesKeepUp`, `MissingIsForeign` and `EachShownOnce` follow from `SyncInv`,
  which says for every page nobody raced with what its rows and the requests on
  their way tell of the table: it waits for its list, which will overwrite what
  it has (`Waiting`), or the table is what it shows without the rows it has been
  granted to remove, after the row of a creation it has not heard of yet, if
  there is one (`Edited`). That is about sets of requests, since answers come
  back in any order. The row of a page's only removal is in the table until it
  is granted (`Alone`).
- `LogsInOrder` follows from `LogInv`: the playground has one check under way at
  most, while its button is disabled, and that one is newer than all of the log.

What `rows.filter` keeps (`Kept`) is a recursive function. What is needed of it
for rows of every length is proved by induction with the property given as a
set (`Induction`, `SequenceInduction`), from the well-foundedness of `<`; the
library's induction rules, whose property is an operator, cannot be used.

### Demo

- `TypeCorrect`: whatever number is typed, what is clamped is a limit and a
  window, and amounts stay whole units, rates being rounded down to them
  (`KeyFacts`).
- `AnswersAsTheScripts` follows from `SyncInv`: not the answers are inductive
  but the states. Where the simulator has a bucket of whole limit and window, Redis has a hash with the
  same tokens and stamp that expires two windows later (`HashSync`), which
  forgets nothing, because by then the bucket is full (`OverdueIsFull`). Where
  the simulator has a count, the counter of its window holds it until the
  window is over, later windows have none, and it is not ahead of the clock
  (`CounterSync`); the last is what setting the clock back breaks.
- `EmptyIsRefused` is arithmetic over the types, of a grid that rounds and a
  limit that is cut, and of two comparisons of a window's start.
- `OneBurstAtATime` follows from `LiveInv`, which adds that no burst of a page
  that was left is live; `ShowsItsOwn` from `ShownInv`, which adds what is
  polled and that the live burst is of the configuration shown.
- `LogsKeepWithinLimits` follows from `LogInv`: the log shows no more of a
  window than the simulator counted of it (`Room`): the count of the current
  window, the limit, rounded up, at most of one that is over (`MostIs`), and
  nothing of one to come.

### Only model-checked

The liveness properties (`EveryRequestIsAnswered`, `SpinnersStop`,
`StopsWhenAsked`, `ComesToRest`), which are out of the prover's reach together
with ENABLED. No module uses a RECURSIVE operator.

## Where code and text disagree

1. `token_bucket.go:68` reads the clock before the script is sent, and the
   script stores also an older stamp than it found: swapped scripts are
   credited twice (`reordered_stamps`; README.md:511).
2. `fixed_window.go:52` does the same: a script that arrives after its window
   finds no counter, and EXPIREAT deletes the one it makes (`late_scripts`;
   architecture document:1044).
3. `apikey_auth.go:22` needs PostgreSQL for every check (`check_postgres`;
   architecture document:585).
4. `main.go:121` only logs that the listener failed (`deaf_process`;
   README.md:388).

Three more are modelled as they are, and no run is spent on them:

- `check.go:106` also sends a rejection with status 200 where README.md:325 says
  429 (`FinishCheck`).
- `simulator.ts:133` answers a remainder below zero where a limit is a fraction,
  which page.tsx:210 lets through: of a limit of 1.5 a window allows two (131)
  and leaves -0.5, where the script has `math.max` (fixed_window.go:45) and
  simulator.ts:22 claims "the same token-bucket and fixed-window math"
  (`WindowAnswer` against `ScriptRemaining`).
- `simulator.ts:79` resets `user:1` with `user`, whose name with a colon its key
  begins with, where simulator.ts:76 says "Reset state for the given
  identifier" (`Gone`).

Others came up as exceptions that properties have to name:

- `Management`: Enter creates a second key while the first is under way
  (api-keys/page.tsx:191); one `deleting` for all rows enables buttons of rows
  that are still being deleted (limits/page.tsx:43).
- `Session`: a late 401 clears a token it was not about (layout.tsx:39,
  `StaysLoggedIn`); a log-in that is answered while the layout is sending its
  tab away pushes /dashboard where the tab is already, and LOADING stays until
  a reload (`Stranded` in `AtRest`); a layout that was open when another account
  logged in shows the old address over the new account's lists (`swapped` in
  `OneIdentity`).
- `Playground`: with the clock set back the simulator's fixed window goes on
  with the later window, where the script goes back to the earlier one's counter
  (simulator.ts:127, `setBack`); of a limit of 1.5 a window allows two
  (131, `CeilDiv` in `LogWithinLimit`); the headers are put together from the
  limit of now and the answer of before (page.tsx:312, `edited`).

## Abstractions, and what is not modelled

Tokens are whole units, with a rounding error per write; a huge
`window_seconds` that EXPIRE refuses is left out, its effect on the bucket is
that of a lost answer. Redis's replies of scripts that are not loaded
(NOSCRIPT) end in the same retry. Request validation is one guard. Statements
of PostgreSQL are atomic, and rows are listed in the order they were inserted.
Names, wording, formatting of times and layout are left out.

In `Session` the overview's two lists are one request, since they carry one
token and are awaited together, and other pages of the dashboard are the
overview left and opened again. Addresses are taken as normalised, and form
validation as passed. In `Playground` the simulator's floats are whole units, and the
rate, units in a tick, is rounded down, in the scripts as in the simulator, so
what two orders of floating point operations may differ by is left out, and of
limits and windows every multiple of a unit or of a tick is there and nothing
between. There the scripts run with undelayed stamps and lose the keys that
`reset` deletes, since reset has no counterpart in the backend. The render with
a new configuration and the effect that peeks at it are one step (`Configure`):
React runs the effect of a discrete event such as an input's change before the
next event.

Not modelled: health endpoints and metrics exposition (no state; `/ready` pings
both databases under one deadline), the landing pages, the demo's dashboard
(random numbers on timers), configuration, CORS, logging, Grafana, the load test.

## Plan

The order was the limiters first, since they are what the product promises,
then the endpoint around them, then what can be lost or reordered around the
database, then the process, then the browser: session, playground and demo,
and the abstract limiter both algorithms implement; the proofs in the same
order. What is left:

1. The state part of the liveness properties: that in every state in which a
   request is unanswered or a spinner turns, one of the actions named by the
   fairness conditions changes something, as a theorem without ENABLED (a
   witness for the next state), and for `EveryRequestIsAnswered` a variant that
   those actions decrease.
2. Shorter proofs of `SyncInv` of `Management`, which is the longest by far.
