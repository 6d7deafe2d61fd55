# Formal model of fantola

TLA+ specifications of the parts of this repository that keep state: money, tokens,
subscriptions, generation jobs, the Telegram bot's conversations, chats with AI providers,
caches and limits, status messages, and the start and end of the worker; TLC configurations
that check them on small instances; and proofs, for every size, of the properties that
matter most.

`PROJECT.json` names, for each definition, the source lines it stands for (`map`), and lists
the components, the runs, the hazards and the theorems. Line numbers below are those of the
repository's files.

1. [The system](#1-the-system)
2. [Modules and how they correspond to the code](#2-modules-and-how-they-correspond-to-the-code)
3. [Runs: what is checked](#3-runs-what-is-checked)
4. [Fairness](#4-fairness)
5. [Proofs](#5-proofs)
6. [Where code and documents disagree](#6-where-code-and-documents-disagree)
7. [What is not modelled](#7-what-is-not-modelled)
8. [Plan](#8-plan)

## 1. The system

Three processes share a Postgres database (through Prisma) and a Redis:

- **api** (`services/api`): HTTP endpoints for payments, subscriptions, generations and
  uploads, the YooKassa webhook, and a WebSocket for status messages;
- **bot** (`services/bot`): a Telegram bot with its own payment service and webhook;
- **worker** (`services/worker`): BullMQ processors that run generation jobs.

The logic they share is in `packages/shared` (tokens, subscriptions, queue, pub/sub, chat,
images, YooKassa client), `packages/rate-limit` and `packages/database` (schema).

| Component | State | Operations | Talks to |
|---|---|---|---|
| Token service (`shared/tokens/token-service.ts`) | `users.tokens_balance`, `tokens_spent`; ledger `token_operations` | debit, credit, refund, chargeForOperation, resetBalance | database; a cache-invalidation callback |
| Payments (`api/services/payment.service.ts`, webhook and payment controllers) | `payments` row | create session; successful, canceled, refund | YooKassa (calls, at-least-once webhooks), subscriptions, tokens |
| Bot payments (`bot/services/payment-service.ts`, webhook) | `payments` row, user row, ledger | create, confirm, cancel, message | YooKassa, Telegram |
| Subscriptions (`shared/subscriptions`) | `users.tier`, `subscription_expires_at`, `auto_renew`; `subscription_history` | activate, cancel (now or at the end), expiry batch, status | hooks |
| Monthly grants (`bot/onboarding-service.ts`, `shared/tokens/monthly-renewal.ts`) | `users.last_gift_claim_at`, balance, ledger | `/start`; `renewAllEligible` | channel check |
| Channel verification (`bot/channel-verification-service.ts`) | Redis: counter per user, cached answer | verify, invalidate | Redis, Telegram |
| Bot updates, sessions, card dialog, chat (`bot/handlers`, `ai-service.ts`) | session in Redis, chat log, balance | one handler per command, button, photo or text | API, Groq, Gemini, database |
| Usage limits (`bot/rate-limit-tracker.ts`) | minute and day counters | check, increment | Redis |
| Uploads (`api/controllers/sora`, `product-card`) | generation row, images in memory, queue | upload, generate-more, edit-card | moderation, storage, queue, tokens |
| Generation jobs (`shared/queue`, `worker/processors`) | generation row, BullMQ job (state, lock, stalls), output | create; process; charge; publish; retry | Redis, tokens, providers |
| Image jobs (`image-generation-processor.ts`, `shared/image-generation`) | row, cost records | process, failover, polling | fal, Together, Replicate |
| Chat service (`shared/chat`) | provider health cache, turn, chat log, balance | createCompletion, its stream | OpenRouter, Groq, tokens |
| Status messages (`shared/pubsub`, WebSocket plugin) | channel map, Redis subscriptions | publish, subscribe, unsubscribe, handle; the socket route, which refuses | Redis |
| Listing of generations (`generations.service.ts`) | none | paged reads over three tables; lookup by id | database |
| Request limits (`rate-limiter.ts`) | sorted set, two bucket keys | check, remaining, reset | Redis |
| Cached balances (`user-cache.ts`, `cache-manager.ts`, `token-billing.ts`) | cached entries, tag set, TTLs | deduct, add, reset, get, invalidate, warm | Redis |
| Worker lifecycle (`worker/index.ts`, `worker-service.ts`, `db/shutdown.ts`) | consumers, active jobs, shutdown stage | start, pause, resume, unregister, shut down | BullMQ, Redis, database |
| Configuration, monitoring, queries, wiring | none the others read | reads and probes | everything |

### What is hard here

- **Read, compute, write absolute values.** A transaction at READ COMMITTED that first reads
  without a lock and then writes what it computed is safe only alone. This pattern is in the
  token service, the renewal batch, onboarding, the cached balance, the token bucket, and the
  bot's session. Correct means: the balance, the running total and the ledger always tell the
  same story; no debit exceeds the balance; a dialog never stands at a step it has not reached.
- **Transactions inside transactions.** The payment webhook opens an outer transaction and,
  inside it, calls services that open their own on other connections of the same pool: they
  commit even if the outer one rolls back, and with every connection held by an outer
  transaction nobody can proceed. Correct means: what is granted was paid for, what is
  recorded as paid was granted, every request ends.
- **At-least-once delivery.** Notifications are repeated, late and in any order; BullMQ runs
  a stalled job again. Correct means: once paid, once granted; one charge per finished run.
- **Effects in a fixed order with no transaction around them.** Produce, mark, charge,
  publish; check, store, moderate, queue, charge; check the limit, call, count, charge, log,
  reply; INCR, then EXPIRE. Every gap can hold a crash or an error.
- **Stale decisions.** Eligibility is decided on a user object loaded before a Telegram round
  trip; the expiry batch works from a list; a balance is checked long before it is charged; a
  health check is believed for a minute, a membership for longer.
- **Errors that end as results.** `debit`, `CacheManager.set` and `updateStatus` catch what
  goes wrong below them, and some of their callers do not look at what they answer. Correct
  means: what is reported done is done, and what is not paid for is known.
- **Whose request it is.** Login signs tokens with `userId`; some handlers read `id`, which is
  then undefined. Correct means: a list shows a user no row of another one.
- **Replies out of step with requests.** A channel is in the subscriber's map before Redis
  has answered, and messages travel behind the replies on the same connection.
- **Boundaries.** Int columns, days rounded down, `<` against `>` at the instant of expiry,
  stall counts, windows and their ends, offsets, empty pools.
- **The end of the process.** A signal meets jobs in progress; what closes queues, Redis and the
  database may fail or hang.

`PROJECT.json` lists these as hazards, each at its line and with the properties that watch it.

## 2. Modules and how they correspond to the code

Each module has one action per transaction step or handler step; the MC module next to it
only gives constants their values. A definition whose name ends in `_Something` and whose
comment begins with "Mutant:" is a wrong variant of the definition that follows it. It
appears in no specification: it serves to show that a property notices that mistake.

Each part has a constant of environments and a variable (`env`, `botEnv`, `imgEnv`, ...),
chosen in its `Init` and never changed. An environment says, for example, whether two
operations on one user may overlap, which calls may fail, how often a process may die.
Properties that need a calm environment say so in their formula; the parts of such properties
are named `Serial...` or `Calm...`.

Names that two modules would share have a prefix (`Bot`, `Img`, `Chat`, `Sub`) in one of
them, because some MC modules extend both.

### TokenAccount, TokenService (token-service.ts)

`TokenAccount` is what the token package promises: every operation moves balance, total and
ledger in one step.

`TokenService` is the program. `balance`, `spent` and `ledger` are the committed columns and
rows; `rowLock[u]` is the transaction that has updated the row of `u`; `call[c]` is what an
operation knows (its arguments, the values it read, its result).

| Action | Code |
|---|---|
| `Debit`, `Credit`, `ResetBalance`, `ChargeForOperation` | the public methods up to the transaction; an invalid amount is refused there |
| `Read` / `Reject` | `findUnique`, then 'User not found' or 'Insufficient tokens' |
| `Update` / `Overflow` | `user.update` with absolute values; a value too large for the column fails |
| `Commit` | `tokenOperation.create` and the commit |
| `Abort` | any failure of the transaction, its timeout, the death of the process |
| `Callback` | the cache callback, awaited after the commit; a throw turns the result into an error |

`credit` and `refund` are one operation with another operation type. `Overlap = FALSE` is an
environment that never starts a transaction on a user while another one runs.

### PaymentWebhooks (payment.service.ts, webhook.controller.ts, payment.controller.ts)

`provider` and `deliveries` are YooKassa; `row` and `rowLock` the payment row; `activated`,
`credited`, `debited` and `tier` the effects committed for the customer; `handler[h]` a
request in progress with the state `tx` of its outer transaction.

A session is made at the provider first (`CreateAtProvider`), then stored (`StoreRow`). A
notification runs `BeginTx`, `ReadPayment`, `MarkRow`, the inner transactions (`Activate`,
`Credit`; or `DebitRefund`, `CancelSubscription`) and `CommitTx`. Each inner action commits
at once because it runs on the global client, not on `tx`. `Free` counts the connections
outer transactions leave; `MayTimeOut` is Prisma's `maxWait`. `ExpireTx` is the transaction
timeout: the engine rolls back and the callback runs on. `...Fails` are the error paths:
those whose result the code checks end in `Fail`, those whose result it drops go on. `Reply`
answers 200 in every case. `Crash` is a dying process.

### GenerationJobs (generation-helpers, queue, base-processor, processors, retry endpoint)

`row` is the status column, `job[q][g]` the BullMQ job with `jobId = generationId` in queue
`q`, `owner` its lock, `stalls` its stalled counter, `published` the status messages,
`charged` the committed debits, `results` the stored output. Every write of the processor to
the row is its own step: `StartRun` (`updateStatus('processing')`), `BeginProcess` and
`Produce` (the two writes of `process`), `Deduct`, `Complete` or, through `ProcessThrows`,
`ProcessCatch` and `DeductFails`, `HandleFailure`. `Return` is the answer to BullMQ: the
processor returns `{ success: false }` and never throws. `Stalled` is BullMQ's check for
active jobs without a lock; `Crash` and `LoseLock` are how locks go away. Chats differ from
the other kinds: their `process` does not write its row (`Write`). The retry endpoint checks
the row twice, resets it and adds a job to the queue named without prefix (`ApiQueue`).

### MonthlyGrants (onboarding-service.ts, auth.ts, start.ts, monthly-renewal.ts)

`/start` is `FindUser`, `CreateUser`, `CheckMembership`, `CheckGift`, `ReadForAward`,
`Award`; the batch is `ListUsers` and, for each user, `NextUser` (eligible?), `Recheck`,
`ReadForRenewal` (outside the transaction), `Renew`. `Grant` is the write both share. `Due`
rounds days down as `getDaysSince` does. A rejected or failed renewal ends the batch unless
`continueOnError` (`RenewalFailed`). Spending and upgrades are the environment.

### Subscriptions (subscription-service.ts)

One user. A call is `Begin`, `UpdateUser` (takes the row lock), `Commit` (row and history
together), `Hook`; the batch is `ListExpired`, `LockExpired`, `Downgrade`, `Report`. The
batch does not look at the row again after it listed it. `downgrades` records what each
committed downgrade ended. `IsActive` is `getStatus`.

### GenerationUploads (sora.controller.ts, product-card.controller.ts and their services)

A request is `CheckBalance`, then row and images (Sora stores the row first, a card its
image, a variant uses its parent's image), `Moderate`, `QueueJob`, `Charge`, `Reply`. There
is no transaction around it: `Fail` leaves everything as it is. `stored` is the image map in
the memory of the process, emptied by `Restart`. `QueueFails` allows that Redis stored the
job before the connection broke.

### BotPayments (bot/payment-service.ts, handlers/webhook.ts)

A purchase is `Purchase`, `CreateRow`, `BotCreateAtProvider`, `Rename` (the row gets the
provider's id), and the link is sent; `CreateFails` is an error between any two of these. The
webhook is `BotReceive`, then `FindForConfirm`, outside the transaction, then `CommitConfirm`
(row, tier, balance by increment, ledger) or `CommitAnswerLost` (committed, but the client
sees an error) or `ConfirmFails`; `MarkFailed` is the catch block. A cancellation is
`FindForCancel`, `CommitCancel`. `Notify` is the message to the user. The ledger entry takes
its `balanceBefore` from the user read outside the transaction (`before`), the balance itself is
an increment.

### BotUpdates, ProductCardDialog, RateLimitTracker (bot/handlers, ai-service.ts, bot.ts)

`stored` is the session in Redis; `update[u]` an update in progress with **its own copy** of
the session, taken by `Begin` and written back by `Save` whatever other updates have written
meanwhile. `Fails` is a handler that throws: the error ends in the auth middleware and the
copy is saved as it is; `Crash` is an update whose process dies: nothing is saved, and it
does not come again; `SessionExpires` is the TTL.

`ProductCardDialog` gives, for every step of the dialog, the card after it as an operator of
the card before it; BotUpdates has one action for each button, photo or text that runs one.
`Handler` is the routing of callback.ts and text.ts, prefixes included.

A chat message goes `CheckLimit`, `CallGroq`, `Count`, `Charge`, `LogUserMessage`, `LogAnswer`,
`Reply`; photos go to Gemini (`CallGemini`, `LogVisionAnswer`). A stream (`StreamGroq`) shows
chunks as they come; its whole answer is sent (`SendStreamed`) before it is charged and logged
(`LogStreamedAnswer`). `Charge` is `chargeForOperation`, whose transaction takes the tokens,
finds too few, or is broken off; `debit` catches the error (token-service.ts:154-166), so it
ends in a result in each case, and the handler, which does not look at it, goes on to log.
`charges` remembers what became of each. `RateLimitTracker` has the minute and day
counters: `CheckLimit` reads them, `Count` increments them after the answer.

### ChannelVerification (channel-verification-service.ts)

`CountCheck` is INCR, `ExpireCounter` the EXPIRE after it, `ReadAnswer` the cached answer,
`AskTelegram`, `StoreAnswer` with the TTL, `InvalidateCache`. `BotDies` may come between any
two. The user joins and leaves at any time, time passes, and checks overlap.

### ImageGenerationJobs (image-generation-processor.ts, shared/image-generation)

`FindRow` takes the newest open row of the user and tool, as the processor does, not the row
of the job. Then `MarkProcessing`; either `SimulateImages` (no image service in
the worker) or `ModeratePrompt` and the failover: clients in `FailoverOrder`, each asked up to
`MaxAttempts` times (`AskFal`, `AskReplicate`, `AskTogether`; the first two answer later and
are polled: `PollFal`, `PollReplicate`, `PollGivesUp`); then `StoreImages`, `CompleteRow`,
`ReturnResult`, or `MarkRowFailed`. `tracked` is the cost record. `StallImageJob` is BullMQ
giving a job without a lock to another worker.

### ChatCompletions (shared/chat)

`CheckAffordable` is the check whose result is never false; `ModerateMessage`; `CheckHealth`
for each client in order, with the cache `health`; `SelectProvider` by one of the three
strategies; the call or stream of a client; `ChargeMessage`; the two log entries.
`ProviderTurns` is a provider going down or coming back.

### StatusUpdates (status-publisher.ts, status-subscriber.ts, websocket.ts)

`PublishGlobally` and `PublishToUser` are the two publishes of one update. The first
subscriber makes its channel's entry in the map (`SubscribeUser`), Redis executes the command
later (`RedisExecutes`, which also orders replies and messages on `wire`), and `HandleReply`,
which adds the callback, and `HandleMessage` are what the client does with them. The plugin's callback is the one
on the global channel (`broadcast`). `Followers` are the callers of `subscribeUser`: in the
repository only the integration test is one (status-updates.integration.test.ts:74, 110, 382);
the plugin decorates the server with the subscriber for routes to use.

`OpenSocket` always refuses. The route has no hook that would set `request.user`, so the check
of websocket.ts:55-64 closes every socket with 4401, and what follows it (66-101) is never
reached: the map of sockets stays empty, and the plugin's callback finds nobody to send to.
`handed`, `heard` and `owed` are ghosts: the updates the plugin's and each follower's callback
were called with, and those a follower had to be sent. The connection to Redis is taken as
lossless; Redis may refuse a command (`redisFails`).

### GenerationLists (generations.service.ts)

`AskList` takes the request's filter, limit and offset, `QueryTable` reads one of the three
tables (product cards, Sora, chats), in its own statement, `AnswerList` merges, sorts and
cuts. `AddRow` and `FinishRow` change the tables between the statements. `OpenGeneration` is
the lookup by id.

Both handlers take the user from `request.user.id` (`Identity`). Login signs tokens with
`userId` (auth.controller.ts:15-20); only the integration test signs one with `id`
(status-updates.integration.test.ts:58). The environment's `claim` is the field a token has.
With `userId` the identity is `Undefined`: the list is asked for without an owner and, since
generations.service.ts:60 filters only by an owner that is given, is of everybody's rows
(`Wanted`), and the lookup answers 403 for every row there is (`OpenCode`).

### RequestLimits (rate-limiter.ts)

`CheckWindow` is the MULTI of the sliding window: one step that removes old entries, adds the
request and counts. The bucket is `ReadTimestamp`, `JudgeBucket`, `SaveBucket`,
`SaveTimestamp`: two reads and two writes that other requests interleave with. `ReadLimits`
is the answer about the remaining limit, which removes old entries too; `ResetLimit` deletes.

### CachedBalances (token-billing.ts, user-cache.ts, cache-manager.ts)

`DeductTokens`, `AddTokens` and `ResetMonthlyTokens` read the cached balance; `SetEntry` and
`AddToTag` write the new one, its TTL and the tag of the user with *its* expiry. `GetOrFetch`
is a read that fills the cache; `InvalidateKey`, and `ReadTag`, `DeleteTagged`, `DeleteTag`
are the two invalidations; `WarmUserCache` writes several keys.

Every command may fail, and the cache manager catches the error: a failed read is a miss
(`Missed`); a failed SET (cache-manager.ts:41-44) is not told to the caller, which reports its
deduction done, whether the value was written and only the answer was lost (`Written`) or not
(`NotWritten`); an invalidation stops where it is (`DeleteFails`). The ghost `billed` is the
balance that was reported, `lost` says that a reported change was not written.

### WorkerLifecycle (worker/index.ts, worker-service.ts, db/shutdown.ts)

`StartWorkers` opens the consumers after the metrics server has been awaited. `TakeJob` and
`EndJob` bound the time a job is active. `Signal` starts the timer of the forced exit and
`stop()`, whose consumers close when drained (`ConsumerCloses`); then `Stopped`, `CloseRedis`,
`Disconnect`, exit. `CleanupFails` and `ForceExit` are the exits with code 1.

### Composites

Parts that run in one process, or for one user, but share no variable of the model are
checked in one run: `MCPayments` (PaymentWebhooks, BotPayments), `MCWorker` (GenerationJobs,
WorkerLifecycle), `MCAccounts` (MonthlyGrants, Subscriptions), `MCApi` (TokenService,
GenerationUploads, StatusUpdates, GenerationLists, RequestLimits, CachedBalances) and `MCBot`
(BotUpdates with the dialog and the usage limits, ChannelVerification, ImageGenerationJobs,
ChatCompletions). A variable `part` is chosen in the initial state; the chosen part runs, the
others stay as they start. Nothing is lost: a property speaks of one part's variables, and
what interleaves with a part that shares nothing with it does not change them. The other MC
modules only give constants their values.

### Common abstractions

A debit or credit made inside another module is one atomic step there; TokenService is about
what happens inside it. Payloads, prices, file names and texts are left out; a ledger entry
keeps operation, amount, balance before and after. Signature and schema checks of a request
are taken as passed, or are one action that refuses.

Time is a counter of ticks, with the order of the code's periods kept and their size not.
Redis executes commands one at a time; a MULTI or a single command is one step, two awaited
commands are two.

## 3. Runs: what is checked

Twelve runs. Six pass:

| Run | Instances | Shows |
|---|---|---|
| `TokenSerial` | 3 operations on one account, one at a time; amounts -1..2, columns up to 3 | the program implements `TokenAccount`; the ledger is a chain |
| `Payments` | API: 1 payment, 2 handlers, each notification up to twice, 4 environments. Bot: 2 purchases, 2 handlers, 3 environments | no effect without its event; a success implies an activation or a grant and is final; the ledger sums to the balance; a payment that can be paid can be found; messages of success are true. Calm: granted exactly once, acknowledged means processed. Every request ends, paid is granted |
| `Worker` | a Sora and a chat generation, 2 slots, 1 retry request, up to 2 crashes, `MaxStalls` 1. Lifecycle: 2 queues of 2 slots, 3 jobs | charges, outputs and published messages agree; charges are bounded by stalls; queued jobs settle their rows; a shutdown waits for jobs and ends |
| `Accounts` | 2 `/start` and 1 batch, 1 or 2 users, days of 2 units, period 1 day. 3 subscription calls and 1 batch, periods of 1 or 2, time up to 2 | claim, ledger and balance agree, a batch reaches everybody; row and history agree under overlap. Serial: grants a period apart, only expired subscriptions end |
| `Api` | 2 overlapping token operations; 3 uploads one after another or 2 at once with faults and a restart; 2 users, 2 publishers, 3 followers, 1 browser, 2 updates; lists over 3 rows, asked for with both kinds of token; 4 requests against both limits; 4 calls on cached balances, Redis failing or not | balances are explained by the ledger, also after overlap; only approved generations with their images are queued and only queued ones charged; the plugin hears every update once and in order, a follower those of its user; every page is in order, the first one is the newest rows, and a lookup shows nobody another's row, nor does a list when the token gives the user; both limits hold; alone, cached balances are what was reported until Redis loses a write |
| `Bot` | 2 updates in progress, up to 3 exchanges, 2 photos; 2 channel checks; 2 image jobs over 2 or 3 clients; 2 chat completions over 2 clients | the dialog never lacks what its step needs; the AI is shown what was said; an answer is kept only after its charge was tried, and one at a time unpaid only if the charge was broken off, and one sent without failures is paid; one generation per photo; usage bounded; memberships and refusals do not outlive their reason; an image job ends its own row; failover in order, with the costs of what was made; dead providers are not called |

Six runs show a property violated that a document or comment of the repository states
(section 6): `TokenLostUpdate`, `PaymentDoubleDelivery`, `ChatFreeRide`, `TagExpires`,
`FreeAnswer`, `EverybodysRows`.

`Types` in the composites is the type invariant of the part that runs.

### Why the bounds are enough to be of interest

- *Two operations* are what it takes for one to read between the read and the write of the
  other; this holds of token operations, updates of a session, cached balances, the bucket,
  `/start`, image jobs, channel checks. The serial token run has three, so that an entry has
  both a predecessor and a successor. The columns hold up to 3, so sums of legal amounts
  overflow, and overdrafts reach the lower end.
- *Two handlers and two deliveries* give duplicates, overlaps and a cancellation or refund
  notification next to a success. A pool of two is exhausted by two outer transactions; a
  pool of three never is. *Two purchases* of the bot let one change the balance that the
  other one's ledger entry starts from.
- *Two generations of different kinds on two slots*: with `MaxStalls` 1, one crash lets a job
  stall as often as it may, the environment with two lets it exceed that. The balance pays for
  two runs, so that with a repeated charge the third finds no tokens.
- *Two queues of two slots and three jobs* have a full queue, one that is half full, a paused
  one, and one that is unregistered when the signal comes.
- *A period of one day of two units* makes a grant due at an odd instant, on a boundary and
  after it; two users let one be dropped because another one failed.
- *Durations 1 and 2 with time up to 2* contain a subscription before, at and after its
  expiry, and a shorter one activated over a longer one.
- *Three requests* with prices 2, 1, 1 and a balance of 3 exhaust the balance exactly or in
  the middle of a request; the restart falls between any two steps.
- *Three followers of one user* are the subscriber that stays, the one that leaves, and the
  one that comes while the unsubscribe is on its way. *Two publishers and two updates* for two
  users let the second publish of one update come after both publishes of the other. More
  browsers would only be refused once more each.
- *Three rows, limits 1 and 3 with a maximum of 2, offsets 0 and 1*: a limit that is capped,
  a page that is full and one that is not, rows of one table and of several.
- *Four requests, two per minute, two per burst, time up to 5 with a window of 4 and 3 ticks a
  second*: both limits are reached, a window ends, the bucket refills in part and in full.
- *Four calls on a cached balance* are a load, two changes of it and what reads it after them,
  with Redis failing in any of their commands.
- *TTLs 1, 5 and 10* keep the order of the code's 60, 300 and 600 seconds, with a grace of 1
  for a tag: a tag can expire before, with or after each key.
- *A context of 2 messages and 3 exchanges* makes the history drop its oldest messages. A
  balance of 0 to 2 with a cost of 1 runs out before, at and after the second message. The
  daily limits are 2 and 1, the minute limits 1, so either may refuse first; two minutes
  are a day.
- *A rate limit of 2 in a window of 1 with answers cached for 2*: a window ends while an
  answer is still cached; the user joins and leaves up to twice.
- *Two attempts and up to three clients*, two of them of one priority, try an order by priority
  and by position; one stall puts a job on a second worker.
- *A health check believed for 2 ticks of 3* lets a provider die within the interval and be
  noticed after it.

`CHECK_DEADLOCK FALSE` is in the configurations whose operations run once or whose time and
deliveries are bounded, so that the instance may simply end. TokenService has an action
`Finished` instead, and `TokenSerial` and `TokenLostUpdate` are checked for deadlock.

`SYMMETRY` is used only in `Accounts` (subscription calls) and `Bot` (updates, channel checks,
chat completions), which have no liveness property. `SerialActiveSurvivesBatch` has primes and
is about single steps, not behaviours.

## 4. Fairness

Three specifications state fairness, and each states it apart from the part that says what a
step may be, so that the proofs of safety use none of it.

- `Fairness` of PaymentWebhooks and `BotPayFairness`: `WF(Step(h))`, a handler that can take a
  step takes one. Node's event loop runs every ready continuation, Postgres grants row locks
  and Prisma ends a wait for a connection after `maxWait`. And `WF` of the first delivery of a
  notification: YooKassa sends each at least once. Redelivery has no fairness, because the
  endpoint answers 200 at once. Nothing says that a failure occurs: `Crash` and `ExpireTx`
  have no fairness.
- `Fairness` of GenerationJobs: `WF(AddJob)`, the helper runs on after storing the row;
  `WF(Work(w))` and `WF(Serve(r))`, BullMQ gives waiting jobs to free slots and a processor or
  a request runs on; `WF(Stalled(g))`, BullMQ's stalled check is periodic. The choice between
  success and failure of the model is free, so no run assumes that a generation ever succeeds.
  `Crash` and `LoseLock` have no fairness.
- `LifecycleFairness` is `WF(ForceExit)` alone: of everything in a shutdown only the timer is
  sure to come. `ShutdownEnds` says that this is enough, whatever hangs and whatever fails.

Strong fairness is nowhere needed. The conclusion of `EveryJobSettles` is about the row, and
it excludes database faults because `updateStatus` swallows its error, and more crashes than
stalls allowed because BullMQ then fails the job without telling the program. Both exclusions
are real losses of the code, not artefacts: with them the row stays open for ever.
`WebhooksAreServed` has two parts: every webhook is answered (always), and a paid payment is
fulfilled (when calm). `PaidIsGranted` is its counterpart for the bot, when nothing fails.

## 5. Proofs

Seven modules hold the theorems and `DataLemmas` the facts about numbers, sets and sequences
they share. There is one module of theorems for each composite (`PaymentsProofs`,
`WorkerProofs`, `AccountsProofs`, `ApiProofs`, `BotProofs`), one for TokenService
(`TokenServiceProofs`, which `ApiProofs` extends) and one for the two services that call AI
providers (`ProvidersProofs`, which `BotProofs` extends). Within a module each component has
a section of its own.

Each theorem holds for **every** value of the constants that the named assumptions of its
module allow: any set of users, payments, handlers, slots or requests, any amounts, prices,
limits and bounds, any choice of environments. The assumptions say that
numbers are numbers (and a duration, a price or a limit positive where the code's is), that
"none" values are none and not among the things they are compared with, what an environment
is, that there is at least one payment, one user and one generation, that an undefined identity
is no user, that the actors which are counted (handlers, workers, updates, completions) are
finitely many, and that the bot's context is a whole number of exchanges, as the 10 of the code is. Every invariant and
every action property that a passing run checks is proved.

| Module, theorem | States |
|---|---|
| `TokenServiceProofs`: `TypeCorrect` | `Spec => []TypeOK`: no committed column overflows |
| `BalanceExplained` | `Spec => []BalanceIsNewestEntry`, however operations overlap |
| `SuccessIsLogged` | `Spec => []ResultIsLogged`, however operations overlap and callbacks throw |
| `NegativeNeedsOverdraft` | `Spec => []NegativeOnlyByOverdraft`, however operations overlap |
| `SerialIsAtomic` | without overlap, `Spec => AtomicAccount`: the refinement of TokenAccount |
| `SerialLedgerChains` | without overlap, `Spec => []LedgerChains`: no lost update |
| `PaymentsProofs`: `EffectsAreExplained` | `Spec => []EffectsMatchEvents` |
| `SuccessIsFinal` | `Spec => SucceededIsFinal` |
| `CalmGrantsExactly` | `Spec => []CalmIsExact`: exactly once, when calm |
| `RowsAndMessagesAreTrue` | `BotPaySpec => []StatusIsTrue` |
| `PaymentsAreFound` | `BotPaySpec => []PaidIsFindable` |
| `LedgerStaysExplained` | `BotPaySpec => []LedgerExplainsBalance`: the balance is the sum of the ledger |
| `PaymentsTypesHold` | `PaymentsSpec => []Types` |
| `WorkerProofs`: `ChargesAreExplained` | `Spec => []ChargesMatchOutputs` |
| `ChargesAreBounded` | `Spec => []ChargesBoundedByStalls` |
| `NothingIsCut` | `LifecycleSpec => []ShutdownWaitsForJobs` |
| `WorkerTypesHold` | `WorkerSpec => []Types` |
| `AccountsProofs`: `GrantsStayExplained` | `Spec => []GrantsAreExplained` |
| `BatchesAreComplete` | `Spec => []BatchIsComplete`: a renewal run reaches everybody |
| `RowStaysExplained` | `SubSpec => []RowMatchesHistory` |
| `BatchSparesActive` | `SubSpec => SerialActiveSurvivesBatch` |
| `AccountsTypesHold` | `AccountsSpec => []Types` |
| `ApiProofs`: `QueueIsWorthRunning` | `UploadSpec => []QueueIsPaidAndReady` |
| `UpdatesStayRight` | `StatusSpec => []UpdatesReachTheirUser`: the plugin hears every update once and in order, followers those of their user |
| `ListsStayRight` | `ListSpec => []ListsAreRight`: pages in order, the first one the newest; own rows only where the user is known |
| `LimitsStay` | `LimitSpec => []LimitsHold`: the window and the bucket |
| `SerialBillingHolds` | `CacheSpec => []SerialBillingIsExact`: exact until Redis loses a write |
| `ApiTypesHold` | `ApiSpec => []Types` |
| `BotProofs`: `CardStaysUsable` | `Spec => []CardIsUsable`, however sessions overwrite each other |
| `UsageStaysBounded` | `Spec => []UsageIsBounded` |
| `ContextStaysHistory` | `Spec => []ContextIsHistory` |
| `OneGenerationForAPhoto` | `Spec => []SerialOneGenerationPerPhoto` |
| `AnswersStayPaid` | `Spec => []AnswersAreCharged`: unpaid only when the charge was broken off |
| `EveryAnswerIsPaid` | `BotSpec => []AnswersArePaid`: the same, and the log of the chat service is paid for |
| `AnswersAndRefusalsEnd` | `ChannelSpec => []VerificationIsCurrent` |
| `BotTypesHold` | `BotSpec => []Types` |
| `ProvidersProofs`: `FailoverStaysOrderly` | `ImgSpec => []FailoverIsOrderly` |
| `SerialJobsEndTheirRows` | `ImgSpec => []SerialJobEndsItsRow` |
| `NoDeadClientIsCalled` | `ChatSpec => []DeadClientIsNotCalled` |
| `ChatLogMatchesCharges` | `ChatSpec => []LogMatchesCharges` |

Each component has a theorem about its types besides (`GrantTypesHold`, `LimitTypesHold`, ...),
which the theorem about the composite's `Types` combines.

Each proof of an invariant has the same shape: an inductive invariant, the lemma that `Init`
establishes it, the lemma that every step keeps it with one step, or one lemma, per action,
and the theorem. Lemmas such as `HandlerMoves`, `SlotMoves`, `CheckMoves` or `UpdateGoes` say
once what it means that one actor moves and the others stay.

**DataLemmas.** The induction theorems of the library take an operator as a parameter, which
the provers cannot instantiate. `NatInductionOnSet` and `FiniteSetInductionOnSet` state them
with sets instead: what is to be proved of every number is the set of the numbers that have
it. With them the module proves what the components need of sequences (`BothLists`,
`EndIsSubSeq`, `OneMoreInOrder`) and that a finite set of numbers has one descending
enumeration (`InOrderExists`, `InOrderOnce`), on which the sorted lists rest.

### Tokens

`TypeOK` alone is not inductive: `Commit` writes `NewBalance(call[c])`, which is in range only
because `Update` has checked it. `IInv` adds `ChecksKept`, what an operation still knows after
each check: its amount is valid, its user has an account, a debit was covered by the balance
it read, an update fits. `OnlyCommitMovesTokens` says that no other step moves a balance or a
ledger; since row and entry are committed together, the balance is explained by the newest
entry even when an update is lost. `Logged` says that an operation is in the ledger from its
commit on, and that the entries of others only come behind it (`CommitRecords`). For
`NegativeNeedsOverdraft` the invariant is `NegativesExplained`: a negative balance, or a
negative balance *somebody has read*, has an overdraft behind it. The second half is needed
because a credit may compute a negative value from a negative one. Without overlap,
`SerialInv` says that what a transaction has read is still committed, and that there is at
most one transaction per user; then a commit computes its values from the current row, which
is exactly a step of TokenAccount (`CommitIsAtomic`).

### Payments

*PaymentWebhooks.* `EventInv`: a handler that is past the first step carries an event that has
happened at the provider (`Knows`), only a success or a refund opens a transaction, and past
the activation of a paid plan there is one. The provider's side only goes forward
(`ProviderStep`), so what a handler knows stays true whatever the others do. This is why late,
repeated and overlapping notifications can grant twice but never for nothing. For
`CalmGrantsExactly`, `ExactInv` says what each request has granted by its step (`Progress`) and
that a payment without a request in progress is either open and not granted or succeeded and
granted once (`Exact`). `CalmNeverWaits` shows that with a finite set of handlers and a larger
pool no request is refused a connection, so none of the error paths is open in a calm
environment; this is the one place where the pool's size enters.

*BotPayments.* `StatusInv`: a payment can be paid only after its row was renamed
(`PurchaseIsReal`), a grant was paid for, and a handler tells of a success only after a grant.
One handler at a time, and without a lost answer, a payment is granted at most once and the
row says so exactly then (`GrantedOnce`), because a handler about to confirm or to mark failed
is the only one and found the row not succeeded (`NotYet`).

`LedgerInv` is about a sum over the ledger, which the model writes as a fold and the proof as
the function of its partial sums (`SumsExist`, `SumsAgree`, by induction on the length): an
entry more adds its amount (`OneMoreIsLogged`). The balance is incremented by the database,
not written from what was read, so it stays the sum also when confirmations overlap; that the
entries chain needs one handler at a time.

### Worker

*GenerationJobs.* `OutputInv` says what a charge means. For the bound, the invariant counts
also the charges that may still come: `CountInv` says that the charges of a generation plus
the slots that are past taking it and have not charged are at most its runs, and runs at most
one more than stalls. A charge moves a slot from the second summand to the first.

*WorkerLifecycle.* `OrderInv`: only an open or closing consumer has jobs; the handlers run in
the order consumers, Redis, database. It needs that the service has started when the signal
comes (section 6 has what happens otherwise). That an exit cuts no more jobs than were taken
(`LifecycleTypeOK`) needs that the jobs active are among those taken (`TakenCoversActive`, by
counting the busy slots).

### Accounts

*MonthlyGrants.* `GrantsInv` has three parts. Of the rows: who has no row has no tokens, no
claim lies in the future, and the property itself. Of a `/start` or a batch: it works on a
user who exists, and, if nothing overlaps, the claim and the balance it has read are still the
user's and the user is still due (`StartKnows`, `BatchKnows`). Of all together: without overlap
at most one of them is busy with a user (`Alone`), which is what makes the other parts stay
true. For `BatchIsComplete` the batch accounts for every user it has taken off its list: he is
the one it is busy with, or settled as of the time the batch began (`SettledAt`), which neither
time passing nor anybody else's grant undoes (`SettledStays`). Days are quotients of time by
`DayLength`; `LaterIsMoreDays` and `DueInUnits` are the arithmetic.

*Subscriptions.* `RowInv` needs that a canceled entry does not renew, and that an activation is
of a paid tier. `BatchInv` adds, without overlap, that a batch that has listed the user is the
only operation and that what it listed is still expired, since time goes on only forward.

### API

*GenerationUploads.* `QueueInv` has what a request has *earned* by its step and what remains
true of the generation after the request has gone (`Earned`, `Kept`); in a calm environment
also that the balance that was checked is still there (`Solvent`).

*StatusUpdates.* `StatusInv` says what is in flight. What the plugin was handed are the first
updates in order, and the messages on `wire` on the global channel are the following ones up
to the newest, in order and without a gap (`PluginIsHanded`). The plugin's own entry is never
removed (`GlobalIsHeard`). For a user's channel, executing the commands still on their way in
order ends with the channel subscribed whenever the map has an entry for it (`EndsSubscribed`):
this is why the entry may be made before Redis has answered. What a follower was owed is heard
or on its way (`FollowersAreServed`), and nothing is heard twice because an update is at most
once on the wire to its user (`CarriesOnce`) and one that a publisher has still to send is new
to everybody (`SendsAreNew`).

*GenerationLists.* `ReadHoldsFirst`: what has been read holds, of every table read so far, the
newest rows up to the limit. `PageShowsFound` shows that merging, sorting and cutting such
parts gives the newest of the whole. It holds only for the first page and while nothing moves
(section 6 has what later pages do). That a page is sorted and has no row twice needs neither. A
request with an identity asks for its own rows, so what it has read is its own (`ReadForUser`,
`WantedIsOwn`); without one nothing is known, which the run `EverybodysRows` shows.

*RequestLimits.* Of the window: what it let through in the last minute is still in it
(`WindowKeeps`), so what it counts is what it let through. The bucket's invariant says for
every stretch of time up to now that what was let through in it, plus the tokens left, is at
most a full bucket and what was refilled in the stretch (`PromptlyCovered`); it is stated in
parts of tokens, because the code drops the parts when it saves (`CoveredByLess`). A key that expired stands for a full bucket, which is sound because the TTL is longer
than it takes to fill. Checks that overlap break it, and the invariant is of one check at a time.

*CachedBalances.* `BillingInv`: alone and as long as no write was lost, a call about to write has
computed its value from the balance that was reported (`WillBeExact`), and what is cached, while
it is cached, is that balance. A read that fails is a miss and changes nothing; a balance that
is loaded or reset starts anew, which ends a loss.

### Bot and providers

*BotUpdates.* Every update works on its own copy of the session, so the invariant is of the
stored session *and* of every copy: `BotBase` says that each card is usable and that the
generation a card names exists (or is a button's name, section 6), and it stays true however
copies overwrite each other. The actions are grouped by what they change (`QuietSteps`,
`CardSteps`, `AcceptedSteps`, `StreamSteps`). `UsageCounted` counts, next to the requests
counted, the updates that are between check and count (`Asking`). `ContextKept` says of the
stored history and of every copy that it is whole exchanges of the log, and, one update at a
time, that it is the end of the log up to the place where the copy was made (`Remembers`).
`FreshCards` says that no generation was made from the image a card holds. `Paid` says of the
log that a charge was tried for all of it, of what was sent that it was paid for or is a stream
about to be charged, and of an update (`Funded`) that one at a time the balance it checked still
covers the charge, and that it logs only behind a charge. `Fits` bounds numbers by the bounds of the instance.

*ChannelVerification.* `CurrencyInv`: a belief that the user is a member goes back to an answer
of Telegram, in this tick for a check about to store it and within the TTL for a cached one; a
counter has a deadline unless a check is about to set it.

*ImageGenerationJobs.* `RunIsInOrder`: every client before the one whose turn it is has used up
its attempts and is recorded as failed, every later one was not asked. `CountIsMade`: the
generations recorded are at most those made, and at most one per stall besides the last. For
`SerialJobEndsItsRow`, `OneByOne` and what the row says at each step of the job (`RowSays`): the
newest open row is the job's own because all earlier jobs have ended theirs.

*ChatCompletions.* `ChecksAreTrue`: a cached check that found a client up was made before the
client went down; so whoever relies on it began within an interval of that. `ChargedFirst`: only
a request that was charged writes to the log. `OneTurnEach`: the round-robin index is at most
the number of requests that have chosen.

### Composites

A step of a composite is a step or a stutter of each of its parts, so the invariants of the
parts together are inductive, and `Types` follows.

**Only model-checked.** Liveness under fairness: `WebhooksAreServed`, `PaidIsGranted`,
`EveryJobSettles` and `ShutdownEnds`; `ENABLED` and fairness are out of the prover's reach. The
`Serial...` and `Calm...` halves are proved with their condition; what happens without it is
shown by the runs of section 6. That TLC's way to evaluate `SortSeq`, `SelectSeq` or a fold
agrees with their definitions is TLC's. No module uses `RECURSIVE` operators.

## 6. Where code and documents disagree

Each of these six has a run that ends in a counterexample, and a finding in `PROJECT.json`.

1. `TokenLostUpdate`: two overlapping operations start from the same balance, although
   token-service.ts:23 says all operations are atomic.
2. `PaymentDoubleDelivery`: two deliveries in progress both grant, although
   webhook.controller.ts:107 says a payment is processed once; the comment at
   payment.service.ts:63 announces a `SELECT FOR UPDATE` which line 64 does not do.
3. `ChatFreeRide`: chat-service.ts:64 tests the *record* that `canAfford` returns for truth, so
   a user without tokens is answered by the provider before the charge fails
   (chat/README.md:196 says the check comes first).
4. `TagExpires`: every set gives the user's tag its own TTL + 60 s (cache-manager.ts:138), also
   when the tag had longer to live, so "Invalidate everything" (rate-limit/README.md:201) can
   leave a longer-lived key.
5. `FreeAnswer`: `chargeForOperation` ends in `debit`, which catches every error and answers
   `{ success: false }` (token-service.ts:154-166); the chat handlers do not look at it
   (chat-handler.ts:70, 230 and the photo handler), so when the transaction of a charge is broken
   off the answer is logged and sent without a charge, also with one update at a time.
   CHAT_FEATURE.md:20 has 5 tokens per message, and USAGE_EXAMPLE.md:68 of the token package looks
   at the result.
6. `EverybodysRows`: generations.controller.ts:30 reads `request.user.id`, login signs tokens with
   `userId` (auth.controller.ts:15-20), and generations.service.ts:60 filters only by an owner that
   is given. So "List generations for the authenticated user" (generations.controller.ts:24) lists
   everybody's.

These are in the models as well, and bound what the properties claim, but have no run of
their own:

- everything that begins with `pc_edit_` is routed to the edit of a generation (callback.ts:174),
  before the exact names below the comments of lines 180 and 194 are reached: pressing "apply"
  makes the word `apply` the generation to edit (`ButtonName`);
- the offset of a list is applied by each query and to the merged list again
  (generations.service.ts:173), so rows are on no page, although routes/generations/index.ts:48
  calls it the number of items to skip. `ListsAreRight` has the contents of the first page only;
- the lookup of a generation by id answers 403 for the caller's own (generations.controller.ts:87)
  when the token is one of login, for the same reason as 6; outside the models, the subscription
  endpoints answer 401 (subscription.controller.ts:26, 52, 107, 158);
- the status socket refuses everybody: nothing sets `request.user` on its route
  (websocket.ts:59), although STATUS_UPDATES.md:126 names a "Bearer token in headers or query
  param" and status-updates.integration.test.ts:267, 285 expect a connection. So
  `UpdatesReachTheirUser` is about the plugin's callback and the callers of `subscribeUser`;
- a failed SET of the cached balance is swallowed (cache-manager.ts:41-44) and the deduction
  reported done (token-billing.ts:60-72; rate-limit/README.md:309 relies on the result).
  `SerialBillingIsExact` holds until that happens;
- an answer that is streamed is sent before it is charged: what dies or throws in between leaves
  it unpaid, so `AnswersAreCharged` speaks of sent answers only without failures
  (chat-handler.ts:217-230; `handleStream` has no caller yet);
- inner transactions of the webhook stay committed when the outer one rolls back
  (payment.service.ts:104; PAYMENTS_API.md:258 has it the other way), and the result of the
  credit is dropped (line 123), so a payment can succeed without its tokens. Hence the calm
  environment of `CalmIsExact`;
- a failed notification is answered 200 "Webhook processed" (webhook.controller.ts:83, 85), so
  the provider does not send it again;
- a duplicate of payment.succeeded after a refund is processed again: the check at
  payment.service.ts:74 knows only 'succeeded'; and a refund cancels the user's latest
  subscription, whichever payment bought it (line 306);
- two overlapping confirmations of the bot both grant, and the loser of a race marks a
  succeeded payment failed (bot/payment-service.ts:187); `StatusIsTrue` has this half for one
  handler at a time;
- `getProcessor` catches every error (base-processor.ts:209), so BullMQ never retries, although
  PROCESSING_LOGIC.md:432 says it does;
- Sora and product-card processors write 'completed' to the row before the charge
  (sora-processor.ts:76; PROCESSING_LOGIC.md:46 charges first). Only chats are charged before
  their row says so; the published message is right for all (`ChargesMatchOutputs`);
- `rollbackTokens` has no way to run: nothing throws after the charge;
- a retried Sora generation goes to a queue without a consumer: the API adds to the plain
  name (queue.service.ts:32), the worker listens on the prefixed one. Its row stays pending;
- a signal while the metrics server is being started finds the worker not running, so `stop()`
  returns at once; the processors start later and lose Redis and database
  (worker/index.ts:68, 80). `ShutdownWaitsForJobs` excludes it, `ShutdownEnds` does not;
- two `/start` updates at once both award (onboarding-service.ts:142;
  ONBOARDING_IMPLEMENTATION_SUMMARY.md:263, 265 say they cannot);
- the expiry batch downgrades a user who renews after the list was read
  (subscription-service.ts:253); `SerialActiveSurvivesBatch` excludes this overlap;
- an upload checks the balance first and charges last, after the job is queued
  (sora.controller.ts:76, 141; SORA_IMPLEMENTATION.md:347 says before), and drops the result:
  with two uploads at once, or faults, a generation is free;
- of two image jobs at once, both take the newer row, and the older one stays open
  (image-generation-processor.ts:62);
- the bot's context holds up to 12 messages, where CHAT_FEATURE.md says up to 10 previous ones;
- overlapping deductions on the cached balance are lost (token-billing.ts:39), and rejected
  requests stay in the window (rate-limiter.ts:53), so a client that keeps asking stays out.

## 7. What is not modelled

- **Token ledger queries, read-only endpoints**: they change no state. Of the lists only the
  paged list and the lookup by id are modelled, without the date filter and the filter by
  tool, which no caller gives.
- **YooKassa client**: HTTP calls. Its side is the environment of the payment modules.
- **API application, plugins, routes, authentication**: wiring and stateless token checks.
  Signature and schema checks are taken as passed, or are one action that refuses. Which field
  of a token a handler reads is in GenerationLists and StatusUpdates.
- **Worker health, storage adapters**: counters that feed a report, and file I/O. What the
  models need of storage (that it forgets) is in the environments.
- **Database clients and wrappers**: only what the code relies on. A read sees committed
  values, an UPDATE takes the row lock until the end of its transaction, a transaction commits
  as a whole.
- **Configuration, monitoring, localization, test utilities, deployment**: nothing the other
  components read changes there.
- **In modelled parts**: `processFailedPayment` and a few other methods have no caller;
  dead-letter bookkeeping and metrics of jobs; keyword lists of the moderation are one verdict;
  the chunks of a stream are one step in the chat service; the callback `onBalanceUpdate` of the
  token billing, which only its tests pass; what the socket route does with a socket it accepts, since
  it accepts none; a connection of the subscriber to Redis that breaks; keyboards and texts of the bot; the
  fail-open branch of the callers of the limiter.
- **Between parts**: a debit inside uploads, jobs, payments or chats is one atomic step, while
  TokenService shows what happens inside it (the bot's charge has its broken transaction as a
  result of that step); so a lost update between, say, a chat and an
  upload is shown by TokenService and not again by each pair.

## 8. Plan

What would add most, in this order:

1. Composition of PaymentWebhooks with Subscriptions: which subscription a refund cancels when
   two payments bought one each.
2. Abstract specifications for a payment that is fulfilled exactly once (implemented by
   PaymentWebhooks when calm) and for a job charged at most once per run.
3. Proofs of those abstract specifications as refinements, by the invariants of section 5
   (`ExactInv`, `CountInv`), and an abstract balance that CachedBalances implements when alone.
4. Composition of ChatCompletions and BotUpdates with TokenService instead of an atomic debit.
