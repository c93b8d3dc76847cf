# SurfShark Track Stats: TLA+ models and proofs

The program sells license keys for one external service. A customer enters a key
and a device code, and a Telegram bot is given the login; or a customer redeems
a key by its own flow. All of it turns on two tables and on a conversation with
a bot that nobody controls. The modules here model that core, `*.cfg` are the
instances TLC checks, `*Proofs.tla` what TLAPS proves for all instances.
`PROJECT.json` maps every definition to the lines it models.

Paths below are under `src/`; `activation.service.ts`, `license.service.ts`,
`key.service.ts` and so on are the files of that name in `apps/api/src`,
`worker.ts`, `session-pool.ts` and `status-mapping.ts` those in
`apps/telegram-worker/src`.

## 1. The system

```
 customer ── web (Next.js) ── API (NestJS) ──┬── Postgres: licenses, activations
                                             ├── Redis: status, idempotency marks
 administrator ──────────────┘               ├── BullMQ queue ── telegram-worker ── sessions ── bot
                                             └── Telegram client of the redeem flow ───────────┘
```

| Component | State | Operations | Talks to |
|---|---|---|---|
| tables `licenses`, `activations` (`prisma/schema.prisma`) | status, stamps of a key; result, key, error of a request | the transactions of the API and the worker | everything below |
| activation API (`activation.service.ts`) | a handler per request | `activate`: reserve, enqueue, cache "pending"; `getStatus` | tables, queue, Redis |
| queue (BullMQ) | jobs: waiting, active, completed, failed; attempts, stalls | add, take, finish, retry, recover | API, worker |
| job processor (`worker.ts`) | a slot per concurrent job; `login:sent`, `login:reply`, `status` in Redis | `processJob`, the `failed` handler | tables, Redis, session pool |
| session pool (`session-pool.ts`) | health, promise chain and handlers of each session | pick, send, collect, drain, search the history, health check | bot |
| reply classification (`scan-login-result.ts`, `worker.ts`, `parse-reply.ts`) | none | is this final, was it accepted | session pool, worker, redeem flow |
| license administration (`license.service.ts`, `admin.service.ts`) | a handler per request | create, ban, unban, extend, delete | tables |
| expiry sweep (`expiry.cron.ts`) | none | hourly `markExpired` | tables |
| redeem flow (`key-redeem.service.ts`, `key.service.ts`) | a handler per redemption | check, device code, reserve, send, commit, fail | tables, its own Telegram client |
| redeem Telegram client (`gramjs-telegram.service.ts`) | a connection, a chain, a rate limit | connect, serialised send, collect | bot |
| status stream (`activation.controller.ts`, `lib/api.ts`, `hooks/queries.ts`) | a subscription per connection; the state a page shows | subscribe, snapshot, live events, complete; connect, poll | Redis, tables, web |
| admin login (`admin.service.ts`) | failure counter in Redis, with or without expiry | login, lockout | Redis, table `admins` |
| start script (`start-combined.js`) | two child processes | fork, exit with the first to exit, pass signals on | API, worker |
| worker boot and heartbeat (`worker.ts`) | the sessions it found, heartbeat in Redis | resolve, build the pool, beat, shut down | Redis, tables, session pool |
| settings, health (`settings.service.ts`, `health.controller.ts`, the admin pages) | stored session; a tab's form | read masked, save; report | tables, Redis |
| repair script (`repair-bot-success-activations.ts`) | none | turn old failures into successes | tables |

What is hard in it:

* **Interleaving.** Reservation, login, redemption, administration and sweep meet
  on one key. Reservations take the key's row lock; `ban`, `unban`, `extend`,
  `remove` and `refreshExpiry` read, then write by id.
* **Atomicity.** `activate` reserves, enqueues and caches in three steps;
  `processJob` marks, sends, stores and commits in four, across three stores
  without a common transaction.
* **Crashes and redelivery.** A job is delivered at least once: a worker may die
  or lose its lock after any await, a stalled job is run again, and the bot must
  still be given a login once.
* **Lost answers.** A write may have happened although its caller got an error.
* **Ordering.** A reply may be late, doubled, about another login, or found in the
  history of the chat; a cached state may overwrite a later one.
* **Words.** Success is decided by regular expressions over free text.

What makes each part correct: two requests never hold one key; success stands on
a consumed key and a consumed key has its receipt; a login reaches the bot once;
an outcome once told is final, and told at all; a reply settles its own call;
every call ends; a page comes to show the true outcome; a ban holds; a rejection is not taken
for an acceptance; a lock is tight and ends; a stored session is served; a worker comes back, and
its absence shows.
`PROJECT.json` lists the hazards, 40 of them, each at its line with the
properties that would catch it.

## 2. The modules

```
             KeyLedger                            (a ledger of keys, no tables)
                 ^ ImplementsKeyLedger
             LicenseDb                            SessionPool     ReplyClassifier
      (transactions on the tables)
         ^                  ^  ImplementsLicenseDb
 ActivationPipeline    LicenseDesk                AdminLogin
         ^                  ^  ImplementsDesk         |
   StatusStream        RedeemClient               Deployment
```

An arrow is a refinement: the lower module implements the upper one's specification, checked
as a property of a run and proved. `AdminLogin` is the part of `Deployment` that logs in. `MC_*` hold symmetry and
views for TLC; each `*Proofs` module extends the one it is named after.

**`KeyLedger`** is the **abstract specification** of the tables: which keys are on sale, who holds one, who
has a receipt. A held key has one holder, a sale takes the key off sale. It has no
dates, statuses or rows; `LicenseDb` maps them (`OnSale`, `Holders`, `Sold`).

**`LicenseDb`** has the two tables as variables `licenses` and `activations`, the
day `now`, and an operator per transaction: `Reserve` (`reserveActivation`,
`reserveRedeem`), `FailIfPending`, `FailAlways`, `CommitLogin`
(`commitLicenseActivation`), `CommitRedeem` (`commitReservedRedeem`), `RepairLogin`
(`repairActivation` of the repair script, dated by the day the row was made),
`CreateKey`, `WriteStatus`, `WriteExtension`, `DeleteKey`, `MarkExpired`. Each is
one step because the code runs each as one Postgres transaction or one statement.
Preconditions that the code tests inside the transaction are in the operator; what
a client read earlier is the client's business. `DbSpec` lets clients call them in
any order, with any arguments: it is what the
tables promise whatever the callers do, and the specification the modules below implement. Dates are days; a time of -1 (`NoTime`) is
SQL's null; columns no property tells apart are left out. A deleted key keeps a
tombstone status `"removed"`, since its row is gone and its number is not reused.

**`ActivationPipeline`** extends it with the path of a device login: the handler of
`activate` (`api`), the job in the queue (`job`), the slot of a worker that runs
`processJob` (`slot`), the marks in Redis (`sent`, `stored`), the cached status
(`cache`), the commands the bot was given (`logins`), as a history the marks and locks a request lost (`lost`), and whether a pending row is
over the two minutes after which `getStatus` reports a timeout (`aged`). There is
one action per await: a step of a slot is the code from one await to the next, so
a crash or another actor may come in between. The queue's own moves (`Take`,
`Throw`, `RecoverStalled`, `FailStalled`) are modelled from how `worker.ts`
configures BullMQ (three attempts, one stall) and marked external. Faults are drawn
from `Faults`, at most `MaxFaults` of them; each kind is a disjunct beside what
happens when the call works:

| kind | meaning |
|---|---|
| `apiCrash`, `workerCrash` | the process dies with all its handlers or slots |
| `enqueue`, `enqueueLost` | `queue.add` throws, having added nothing, or having added the job |
| `db`, `commitLost` | a database call throws, having done nothing, or having committed |
| `redis` | a Redis call throws |
| `lockLost` | the worker is alive, but its lock on a job was not renewed in time |
| `ttl`, `statusTtl` | a mark, or a cached status, expires |
| `age` | the row has been pending for more than two minutes |
| `ban` | an administrator bans the key |

A bot verdict and a send error are chosen from `Verdicts` and `SendErrors`; which
text leads to which verdict is `ReplyClassifier`'s part, and how a call gets its
reply `SessionPool`'s.

**`StatusStream`** extends the pipeline with what watches a login. Per request there is a page
(`page`, `shown`), its event stream at the server (`stream`), the published states on
their way to it (`inbox`), what it has pushed (`pushed`), and the poll under way
(`poll`), and the error a failed poll left (`isError`: "early" when the page had no final state, so that the next poll clears
it, "late" when it had one and no poll follows). A `getStatus`, for the stream's snapshot or for a poll, is two reads, cache
then row, with anything in between; every change of the cached status is published in
the same step (`Publish`), because `StatusStore.set` and the worker's `writeStatus` run SET and
PUBLISH in one MULTI. `Subscribe`, `ReadSnapshot`, `PushSnapshot`, `Hear` and `Complete` are the
continuations of `ActivationController.stream`; `Connect` and `Drop` the EventSource, which
reconnects by itself; `StartPoll`, `ReadPoll` and `AnswerPoll` the query that asks every 1.5 seconds until
a final state is shown. A connection may be cut, refused or fail to subscribe, and a read may throw, at
most `MaxWebFaults` times together.

**`LicenseDesk`** extends `LicenseDb` with everyone else who touches a key: the
administrator's handlers (`handler`: a read of the row, then a write by id, which
may find the row deleted), the redemption (`redeem`: look-up, `refreshExpiry`,
device code, reservation, send, commit, `markRedeemFailed`, one action per await),
the sweep and midnight. Device logins are taken as any sequence of the transactions
`ActivationPipeline` is shown to issue. The Telegram client answers a redemption
with anything (`SendCommand`; what it really does is `RedeemClient`'s part). `RepairRun` is one request of a run of the repair script, at any moment: it
matches failed requests with logged acceptances by masked device codes, so any failed
request may have one. `ActivationPipeline` is the system between such runs.

**`RedeemClient`** puts the Telegram client of the redeem flow in the place of that answer: the
connection (`link`) that calls share and wait for, each call's place in `sendLoginCommand` (`call`), the
chain (`ahead`: who was in it when a call joined; the code's promise chain lets a call go when those have
settled), the commands the bot has yet to answer (`owed`), and as a history the message that settled a call
(`heard`). A message has a command it is about and says one of four things (`Says`): accepted, rejected, rejected in words that hold "invalid", which
`parseBotReply` takes for an acceptance (`ParsedAsSuccess`), or still working. `Listen` registers the handler and sends; `BotAnswers` is heard by every handler registered then, as in
GramJS; `GiveUp` is the timer or a failed send; `Shutdown` drops the client under the calls that use it,
`ClientCrash` everything. "Working" is heard at the deadline only, where it is taken for the reply
(`gramjs-telegram.service.ts:201`). `LateReplies` tells a bot that may answer a command nobody waits for any more, or one it has answered. `MAX_ATTEMPTS` is 1, so
there is no retry; `respectRateLimit` is a wait before joining the chain, its length is left out.

**`AdminLogin`** has the lock of one account: the counter (`fails`), whether it has an expiry (`expiring`), and
the login of each tab, one action per Redis command: `ReadCounter`, `Verify`, `Count` (INCR), `SetExpiry`, `Reset` (DEL),
`Audit`. `cut` remembers that the login which was to set the expiry did not get there.

**`Deployment`** extends it with the container: `Start` forks both processes, whichever ends first ends
the other (`ContainerEnds`), SIGTERM goes to both. The worker resolves its sessions from the environment and the
settings row (`ResolveSessions`), dies when there is none or one of them is malformed (`BootFails`: `StringSession`
throws outside of the `try` of `pool.init`), else builds the pool, beats and checks health. `age` counts half minutes since the
last beat, to the three after which `GET /health` calls the worker dead. A tab that is logged in opens the settings form, which
shows a stored session as bullets, and saves; the worker that runs does not hear of it.

**`SessionPool`** models `sendAndAwaitReply`: `Pick` chooses the least busy healthy
session and queues on its chain; the first of a chain runs `Send`, waits for the
bot's next message, and after a timeout drains late messages and searches the
history of the chat. The bot may acknowledge, answer, or stay silent; it may answer
after the timeout or after the drain, say more than one final thing to a command, and its
placeholder may come at the deadline, where the handler takes it for the reply (`session-pool.ts:316`). `orderly` tells a bot that
does none of the last three, for the property that needs it. Failing sessions and repeated messages share one budget (`MaxFaults`).
`processJob`'s notice of a failed commit (`Announce`) goes to the same chat outside of
the chain. What the bot says to that may be heard by the next call, whose own answer then is late for another one,
so `ReplyIsOwn` vouches for the chats without a notice. Sessions fail and recover, and the health loop notices.

**`ReplyClassifier`** takes a message to be the set of phrases it contains and a
regular expression to be the set of phrases it finds, so that overlaps such as "thanh
cong" in "khong thanh cong" and "valid" in "invalid" are what they are in the code. It models
the scanner, the two tests of the collector, the parser of the worker and that of the
redeem flow, in the order the code tries the patterns.

## 3. The runs

| Run | Instance | What it shows |
|---|---|---|
| `license_desk` | 1 key, 2 administrators, 2 redemptions, 1 login, the script, 1 reset, 1 fault | what the tables promise: one pending request per key, success on a consumed key, a key is consumed only with its receipt, which goes to the holder or by repair to one that had failed; a key is sold once per reset; a redeemed answer has its receipt and keeps it; a redemption that sends holds its key; a ban holds; each step is a transaction of `LicenseDb` and a move of `KeyLedger` |
| `pipeline_crash` | 2 requests for 1 key, 2 slots, 2 of: crashes, refused enqueue, ageing, status expiry | the bot gets a login once; a consumed key has exactly one receipt; the cached final state is the one the row gives; a key is in one slot; an outcome is final; a login is sent only for a reservation that stands |
| `pipeline_faults` | the same, 2 of all the faults | success is only told of a consumed key, a further login of a request has cost a mark or a lock that was lost, and each step is a transaction of `LicenseDb` |
| `pipeline_liveness` | 2 requests, 1 slot, 1 of: worker crash, lost lock, refused enqueue, failed Redis command, expired mark, lost commit answer; status expiry, fairness | a reservation ends, an answer comes, a stored acceptance is committed |
| `status_stream` | 1 request, 1 slot, 1 fault (Redis, ban, worker crash), status expiry, 2 broken connections or reads, fairness | a live stream misses nothing; a success shown is a key consumed; an open page comes to hold the true final state, with no error over it but a late one |
| `redeem_client` | 2 keys, 2 redemptions, a login, 1 fault, a bot that says one final thing to each command and is never late, fairness | a reply settles its own call; "redeemed" is told on a reply to the own command that was parsed as an acceptance; a redemption ends; the client is a `SendCommand` of the desk |
| `session_pool` | 2 calls, 2 sessions, 1 failure or repeated message, fairness | turns are taken, chains hold the open calls, with an orderly bot replies are one's own and never a placeholder, calls end, a recovered session is used |
| `deployment` | 2 tabs, a limit of 2, sessions fresh, dead (environment) and malformed, 1 fault, fairness | a lock is overrun by one guess per other tab at most, and ends; a stored session is in the pool of every worker that could read it; a worker comes back with every good session it found at boot; one that stays away is reported |
| `commit_lost`, `timeout_locks_key`, `rejection_accepted`, `redeem_wrong_reply` | the smallest that shows it | disagreements, section 6 |

**Bounds, and why they are enough.** Two requests for one key is the smallest contention, and
the locks are per key; `redeem_client` has a second key, so that two redemptions can send at all, and for the
tables the theorems of `LicenseDbProofs` cover any number. Two slots let a redelivered job run
beside its first delivery. `Attempts = 3` and `MaxStalled = 1` are the code's own values.
`MaxFaults = 2` reaches a fault in the recovery from a fault. One day of advance
(`MaxNow`) is enough for a key to lapse between a read and a write; `MaxEnd` bounds the end an
extension may write. `MaxResets` bounds how often an administrator makes a used key
sellable again, which `SoldOncePerReset` counts. One failure
of a session, or one message too many, happens before, during or after each step of a call. A page watches one request and shares
nothing with another, so `status_stream` has one; two web faults let a stream and the poll beside it, or a
stream and its successor, both fail. Of two redemptions one can time out while the other waits behind it, and
either can come first to a connect. Two tabs are what it takes to overrun a lock of two (the code's is ten, `admin.service.ts:12`; the
theorem is for all). One session of each kind that `resolveSessions` and the pool tell apart; one death falls between any two
steps of a boot or a login, and a malformed stored session makes the boot fail again and again beyond that bound.
Requests, workers and handlers are symmetric in the runs that check safety only. `license_desk` also takes states for
one that differ only in how a redemption ended without success (`DeskView`): it takes no further step and no property
reads more of it. `CHECK_DEADLOCK
FALSE` is right in all runs but `deployment`: with all requests served and the bounds reached the system rests. A deployment never
does, and its run checks that.

**`pipeline_crash` leaves out the faults under which its properties do not hold in
the code**, on purpose: with lost answers the exactly-one receipt fails (`commit_lost`), with
an expired mark a redelivered login is sent again, with a lost lock two slots hold one
job, and after a database error in the failure path the row stays as it was while the
cache tells the failure. What survives all of them is in `pipeline_faults`. **`pipeline_liveness` leaves out** the
death of the API between reservation and enqueue (`activation.service.ts:47`) and the failing database, after either of which a
row may stay pending for ever; a second stall of one job, which takes two crashes and does the same (`timeout_locks_key`); and, for
`StoredAcceptanceCounts`, a ban and an enqueue that was taken but reported as refused, after which a row rightly fails although the bot
accepted. `status_stream` leaves out
the same kinds for `PageSettles`, whose "true final state" is that of the row: after
a lost commit answer or a database error in the failure path, row and cache differ and the
page keeps whichever it met first, and an aged row is answered "timeout" while the worker may
still commit. `NothingMissed` supposes that Redis delivers what it published to a
connection that stands; what is lost while the subscriber reconnects is not modelled. `deployment` has a session in the environment that Telegram refuses, not a malformed one, with which the worker
never runs (section 6); and a heartbeat counts for one age. `redeem_client` leaves out late and repeated replies, with which `redeem_wrong_reply` shows its first property to fail.

**Fairness.** A handler that was started goes on unless its process dies, and a slot that
holds a job too: weak fairness of the API's steps and of `WorkerNext`. BullMQ hands out
waiting jobs and its stalled check runs on a timer: weak fairness of taking and of
recovering. Redis does expire keys: weak fairness of `StatusExpires` and of `Lock`. No fairness is given to
crashes, faults, administrators or time. In `SessionPool` timers fire and promises settle
(`SessionNext`) and the health loop runs every minute (`HealthCheck`); nothing is assumed
of the bot or of Telegram. In `StatusStream` a stream's promises settle, sockets deliver, and the
timers of an open page fire (`ServerNext`, `Hear`, `Connect`, `PollNext`); nothing is assumed of broken
connections or of customers. `orderly` is chosen once, at the start: an orderly bot says one final thing to each command, its placeholder before the deadline, and
has said all when a drain ends; the other may do anything, the same included. `CallsEnd` is stated for that
other bot, since an orderly one is an assumption on the bot, and `ReplyIsOwn` for the orderly one.
`RecoveredIsHealthy` supposes only that the session stays up from some point on. In `RedeemClient` handlers go on, the timers of
`collectReply` fire and a connect ends one way or the other; the bot may stay silent. In `Deployment` the platform starts a container
that ended (Render does; `start-combined.js:19` counts on it), a boot goes on, timers fire, and the API serves a login it was asked for;
`WorkerComesBack` supposes that no malformed session is stored, without which it does not hold (section 6).

Each property of a passing run has a mutant in its module, a comment `Mutant:` beside the
definition it would replace: a bug such a code could have, under which TLC finds the
property violated in the same instance.

## 4. What is proved

All for any sets of keys, requests, handlers, sessions and tabs, finite or not, and any bounds. Assumptions
are the named `ASSUME`s of the modules: the "none" values are not members of the sets they
stand beside, bounds are naturals, the slots of the worker are finitely many (`WORKER_CONCURRENCY` is a number), redemptions are requests, extensions are positive, and the seven
error codes that the code writes are error codes, and "no code" is none.

| Module | Theorems |
|---|---|
| `LicenseDbProofs` | `TypeCorrect`, `OnePending`, `SuccessStands`, `ActiveEnds` (an active key has an end, so that it can be found lapsed), `ConsumptionIsReceipted`, `ReceiptsAreTakenByHolders`, `DbImplementsKeyLedger` |
| `LicenseDeskProofs` | `DeskTypeCorrect`, `DeskImplementsLicenseDb`, `DeskOnePending`, `DeskSuccessStands`, `DeskKeepsTheDb`, `SoldOnce`, `BansHold`, `SenderHolds`, `RedeemedIsReceipted`, `ReceiptIsKept` |
| `RedeemClientProofs` | `ClientTypeCorrect`, `ClientImplementsDesk`, `ClientKeepsTheDesk`, `ChainIsServed`, `QueueEndsAtLast`; if the bot is neither late nor repeats itself `RepliesAreMatched`, `RedeemedWasHeard`, `RedemptionsAreWhole` |
| `PipelineProofs` | `PipelineTypeCorrect`, `PipelineImplementsLicenseDb`, `PipelineOnePending`, `PipelineKeepsTheDb`, `SuccessIsConsumed`, `LoginsArePaid`, `LoginsAreBounded`, `ReceiptsAreSingle`, `KeysAreConsumedOnce`, `JobsEndAtLast`, `SlotsEndAtLast`; under a stated choice of `Faults`: `LoginsAreSingle`, `DecidersHoldTheirKey`, `LoginsAreReserved`, `OutcomesAreFinal`, `OneReceiptEach`, `CacheIsTheRow` |
| `StatusStreamProofs` | `WatchingIsPassive`, `StreamTypeCorrect`, `StreamMissesNothing`, `ShownIsConsumed`; under a stated choice of `Faults`: `ShownIsTrue`, `OneOutcomeShown` |
| `SessionPoolProofs` | `ChainsAreOpenCalls`, `CommandsTakeTurns`, `RepliesAreOwn`, `TurnsEndAtLast` |
| `DeploymentProofs` | `DeploymentTypeCorrect`, `LockIsTight`, `CountersEnd`, `FreshIsServed` |
| `ReplyProofs` | `SkippedAreSilent`, `AcceptedWasTerminal`, `RejectionsTaken`, `WhereFlowsPart` |

*Tables.* `OnePendingPerKey` is inductive with the types: only `Reserve` makes a row pending, and
under the row lock it found no other. `SuccessStandsOnConsumedKey` is inductive with the types too, by two
facts that are lemmas: a consumed key (in the table, with a stamp and an end) stays consumed
unless it is deleted (`ConsumedStays`), and then the deletion clears the rows that point to
it; and a row only becomes successful in the step that stamps its key (`GrantConsumes`). `ConsumedWithReceipt` and
`ReceiptTakenFromHolder` are action properties that follow from the types and `OnePendingPerKey`. For `ImplementsKeyLedger` the lemmas first say
what a change of one row does to the columns of the ledger (`RowTurns`, `RowWithoutKeyTurns`), then each
transaction is a move of the ledger or a stutter, under types, `OnePendingPerKey` and `SuccessStandsOnConsumedKey`.

*Desk.* `ImplementsLicenseDb` needs to know what a handler carries from its read to its write:
`HandlerHolds` says that the end of an extension is one the bound allows, `RedeemHolds` that the
row of a redemption is what its handler left (none before the reservation, pending
while sending and committing, of its key unless an administrator deleted it). With
`DeskInv` every step is a step of `DbSpec` or a stutter, so what is proved of the tables is
inherited (`DeskKeepsTheDb`); `SenderHoldsTheKey` is `RedeemHolds` and `OnePendingPerKey` together, and
`ReceiptStays` holds because the only code that fails a redemption's row asks for a
pending one. `SoldOncePerReset` is not inductive: `SalesPaid` adds that a key on sale has had at least as many resets as
sales, so that the next sale is paid for; `SaleTakesOffSale` (of the tables) and `SaleNeedsReset` carry it over
a step. `BanHolds` (banned to unused or active) is by cases on who writes: commits, script and sweep leave a banned key alone, and `refreshExpiry` only writes "expired".

*Redeem client.* `ClientInv` adds to `DeskInv` that a call is under way only at the step "send" (`CallsAtSend`), that of two
calls in the chain one waits for the other (`ChainIsOrdered`), that whoever has sent waits for nobody
(`SendersAreFirst`), and that a call which left the chain does not come back to it (`AheadIsPast`). Hence at
most one handler listens (`OneListener`), so a message moves one redemption or none, which is `SendCommand` or a
stutter of the desk. `RepliesAreMatched` needs `LateReplies = FALSE` and says so: then what is owed belongs to the one call that
listens. `RedemptionsAreWhole` puts client, desk and tables together: who is told "redeemed" got a reply to their own
command that was parsed as an acceptance, has a successful row, and the key of that row is consumed and has an end.
The chain is a promise that waits for promises, and `ChainIsServed` says that it cannot stand still on itself. Its
invariant `ChainIsNested` says that who waits for a call waits for all that are before that one, and nobody for itself; so the call that waits for the fewest
(there is one: the chain is finite, `Least` is by well-foundedness of the naturals) waits for none, and listens or has its turn. `QueueEndsAtLast`
adds that nobody gets in before a call (`QueueMoves`: calls leave, or one joins behind all the others).

*Pipeline.* `PipelineInv` says that a job and a handler agree with the row about the key
(`JobHoldsKey`, `ApiHoldsRow`), a slot has a job (`SlotHoldsJob`), failure paths carry a failure with
a code (`FailuresFail`), and wherever a success is written, or is about to be, the key of
the job is stamped (`SuccessConsumed`). Each step is then a `PipelineTransaction`, one of the few
transactions with the arguments the pipeline uses, and each of those a step of `DbNext`. The
lemmas `RowsKeepTheirKey`, `StampStays`, `CommitStamps`, `JobsStay` and `SlotsKept` say what no
step disturbs. `SuccessIsConsumed` follows because `getStatus` reads "success" only from the cache or a row
that says so.

What holds under **every** fault is more than that. `LoginsArePaid` counts: `Strays(r)` are the slots that lost the
lock of the request's job and may still send its command; a login, a stray, a mark lost after a login (`Unmarked`) and the holder of the lock
that is about to send (`Sending`) each are paid for by a mark or a lock that was lost (`lost`), except one. That is `LoginsPaid`, inductive with `OwnersWork` (whose
lock it is works on the job); a retry, a crash or a stall pays nothing, because what it
leaves behind is a mark, and none of them adds to `lost`. `LoginsAreBounded` needs no budget of faults: a command uses up a hand-out of the job (`LoginsHandedOut`), and there
are at most `Attempts + MaxStalled` of those. `ReceiptsAreSingle` and `KeysAreConsumedOnce` rest on `PaysOnceInv`: a key on sale has no stamp, and no two
rows have its receipt; only a commit pays, it takes the key off sale, and a failed row never becomes successful but by the commit that stamps.
`JobsEndAtLast` and `SlotsEndAtLast` are the termination argument: `JobRank`, what a job has left of its attempts and recoveries, never grows and
falls with every change of its state; `StepRank` falls with every step of a slot, which takes up a job only when `JobRank` falls. Nothing in
the pipeline can go round in circles, whatever verdicts, errors and faults it meets.

The properties of `pipeline_crash` do not hold under every fault, and each theorem about them names the faults it excludes, as
an assumption in its statement. All rest on `LockInv`: while no lock is lost, a busy slot owns its job (or is about the
failure of one that failed), so two slots never have the same request; a job is added once.

* `MarksHold` (no lost lock, no refused or expired Redis write): `LoginsAreSingle`, since whoever sends has set the mark and
  found none (`LoginsMarked`).
* `QueueAnswers` (no lost lock, no `queue.add` that took the job and threw): `DecidersHoldTheirKey` and `LoginsAreReserved`, since
  the row of a slot between its first read and its commit is pending (`DecidesPending`) and nobody else writes it (`PendingStays`);
  two such slots have different rows, hence by `OnePendingPerKey` different keys.
* `OnlyCrashes` (processes die, an enqueue is refused, keys are banned, entries age; at least three attempts):
  `OutcomesAreFinal`, `OneReceiptEach`, `CacheIsTheRow`. The argument goes through `Attempted`: the first attempt that throws has left its mark, and the
  second ends at it with `ERR_DUPLICATE_LOGIN`, so no job is ever exhausted and the 'failed' handler, which would rewrite a
  row it never read, does not run. Then only a pending row fails (`FailsPending`); a stamp and a receipt are written together
  (`ReceiptsAreCommitted`); and what a slot is about to cache is what it wrote to the row (`OutcomeKept`). With fewer than three attempts
  the proof does not go through: a job that stalled after one failed attempt would reach the 'failed' handler.

*Stream.* A step of a page or a stream leaves the pipeline's variables alone
(`WatchingIsPassive`), so `PipelineInv` holds of a watched login too. `NothingMissed` rests on
`Heard`: once a stream that subscribed has gone past the cache, what is cached has been pushed, is in the
inbox, or is the snapshot it holds. The cache step establishes it (an empty cache, or its value as
the snapshot), and from then on a write is published to the inbox in the step that makes it; were the
subscription later than the read, the first write in between would break it.
`ShownSuccessIsConsumed` rests on `SeenIsConsumed`: whatever is shown, read or on its way was cached or in a row when
it was taken, a success there named a consumed key, and a stamp is never taken back. `ShownIsTrue` is stronger, for fewer faults
(`NothingAges`: `OnlyCrashes`, and no row is called timed out while its job goes on): `SeenIsTrue` says that every final state
shown, read, cached or on its way is that of a settled row, and `OutcomeIsFinal` keeps it so; hence a page is never given two outcomes
(`OneOutcomeShown`). Of other faults section 6 tells how a page came to show a success of a request that failed.

*Session pool.* `ChainsHoldTheOpenCalls` is inductive with the types once a chain has no call twice (`ChainsDistinct`).
`TurnsAreTaken` adds that every message of a chat, and every one owed, is about a call of that session which has begun
(`ChatsAreOfBegun`): a command is sent by a call that has not, so all the others said before are over. `ReplyIsOwn` rests on
`FloorInv`: while the bot is orderly and there is no notice, what is owed belongs to the running call, and from its command on the chat
speaks of nothing else. So what it hears is about it, and a search, which finds at least the command, finds nothing older.
`TurnsEndAtLast` bounds the wait: a call has four stages, those in front of it as many each (`Work`), every step of the session
takes at least one away, and nobody who joins, answers or fails adds to it.

*Deployment.* `GuessesBounded` becomes inductive by counting those that passed the test and are not counted yet
(`GuessesLeft`): who passes sees fewer than the limit, and there are only so many others. `CounterEnds` says that a counter has an expiry,
a login on its way to set it, or was cut off. `ReadStored` says that a worker which has read its sessions
holds what is stored, unless that came later (`stale`).

*Replies.* The verdict of a message is a function of its phrases; the lemmas are about overlaps of the sets of phrases the patterns
find, and hold for messages of any length, not only the three phrases of the run. `ParsedOk` says what `parseReply` accepts without
the order in which it tries its patterns. `RejectionsTaken` is the exact set of plain rejections each flow takes for an acceptance, `WhereFlowsPart`
what it takes for the two to differ, `SkippedAreSilent` the three outcomes a skipped message may name ("check mark", "successful", "login failed").

## 5. What is only model-checked

Liveness (`ReservationEnds`, `AnswerComes`, `StoredAcceptanceCounts`, `CallsEnd`,
`RecoveredIsHealthy`, `PageSettles`, `RedemptionsEnd`, `LockEnds`, `WorkerComesBack`, `DeadWorkerShows`) is out of the prover's reach.
Where it turns on something running out, that part is proved (`JobsEndAtLast`, `SlotsEndAtLast` for the pipeline, `TurnsEndAtLast` for `CallsEnd`,
`ChainIsServed` and `QueueEndsAtLast` for `RedemptionsEnd`); that the steps are taken at all, by fairness, is TLC's.
Every safety and action property of the passing runs is stated by a theorem, those of `pipeline_crash` under an assumption on
`Faults` that the run satisfies. `ReplyClassifier`'s promises that hold are proved and
have no run; the one that does not has (`rejection_accepted`).

## 6. Disagreements met

With a run that shows it:

* `commit_lost`: the catch around the commit (`worker.ts:392`) fails the row by request id even when the
  transaction had committed; no attempt follows, although `worker.ts:197` expects one that returns success.
* `timeout_locks_key`: a job BullMQ fails as stalled does not pass the test at `worker.ts:494`. The row
  stays pending and the key refuses the "new login request" that `activation.service.ts:116` asks for.
* `rejection_accepted`: "khong thanh cong" and "invalid" are accepted, although failure should win (`worker.ts:133`).
* `redeem_wrong_reply`: a redemption that timed out leaves the chain at once (`gramjs-telegram.service.ts:190`), and the next one takes its late
  answer, although line 7 says that replies can never be matched to the wrong job. The worker's pool drains first.

Seen while modelling, without a run of their own:

* `activate` caches "pending" after `queue.add` (`activation.service.ts:74`), over
  a final state a quick worker has written; until it expires the customer is told "pending" again. `hooks/queries.ts:21` says that a terminal state is final.
* A cached "pending" hides the timeout of the row (`activation.service.ts:84`, `:108`) for as long as it lives.
* The mark is set before a session is picked (`worker.ts:313`): a retry after `NO_HEALTHY_SESSION` is
  answered as a duplicate login, though the bot was given nothing.
* With the database down in the failure path the job completes and the row stays pending.
* `parse-reply.ts:13` and `:17` have the same "valid" in "invalid"; `scan-login-result.ts` does not know the English "failed".
* A reply later than the drain is heard by the next call of the session (`session-pool.ts:192`), and so is an
  answer to the notice of a failed commit, sent beside the chain (`worker.ts:404`).
* The search of the history may find the call's own command (`session-pool.ts:239`).
* A queued call keeps a session that is known dead when its turn comes (`session-pool.ts:183`).
* `refreshExpiry` writes "expired" from an earlier read (`license.service.ts:49`, `key.service.ts:208`): over an extension, or over a ban.
* Two extensions from one read: one is lost (`license.service.ts:201`). An extension makes a banned key active.
* A redemption whose commit answer was lost is answered with an internal error, although its receipt stays.
* With a lost commit answer a page may read "success" from the row just before the row is marked failed; polling
  stops there, and the page says success of a request that failed (`worker.ts:392`, `queries.ts:47`).
* `StatusView` puts an error over whatever it holds (`StatusView.tsx:40`, `:62`). A poll in flight when the stream pushes the final state, and
  failing with its one retry, leaves the failure there: a final state stops the polling (`queries.ts:45`) that would clear it.
* The page never closes its stream on a final state, so the EventSource reconnects, reads the snapshot and is
  completed again for as long as the page is open (`activation.controller.ts:93`, `api.ts:152`).
* A stream whose SUBSCRIBE failed stays open and only pings (`activation.controller.ts:100`); polling covers for it.
* The repair script consumes a key without looking for a pending request of it (`repair-bot-success-activations.ts:137`),
  and takes a log line with the same masked device code for the request's own (`:92`).
* A malformed session, stored or in the environment, or one in the environment that cannot be decrypted, ends the worker at boot and with it the
  container, API included, again and again (`worker.ts:461`, `:94`, `start-combined.js:20`), although `worker.ts:83` says that a stale env value cannot
  block a fresh stored session. A settings form that is needed to replace it is served only between two such deaths.
* A death between INCR and EXPIRE (`admin.service.ts:49`) leaves a counter that never expires: the account is locked until somebody deletes the key, not
  "temporarily". The failing boot above is one way to such a death.
* On SIGTERM the first of the two processes to exit ends the container, which cuts the graceful close of the worker that
  `docs/PRODUCTION_READINESS.md:32` lists (`start-combined.js:23`).
* A session saved in the settings is read at the next boot only; `docs/ENTERPRISE_READINESS.md:64` rotates sessions there with "no redeploy".
* The settings form sends its other fields as they were when it was opened (`settings/page.tsx:42`): of two tabs the later save wins. The worker reads none of them.
* Concurrent redemptions read the same `lastSendAt` (`gramjs-telegram.service.ts:162`) and sleep side by side, so the minimum delay of line 10 is not kept between them.
* A bot entity without an id fails the connect but leaves a client that calls itself ready (`gramjs-telegram.service.ts:151`, `:55`): every later send fails.
* The redeem client and the worker may use the same account (`TG_SESSION`), and each takes the bot's next message for its own reply.
* `docs/AUDIT_REPORT.md:35` says that the dashboard sweeps before it counts; `AdminService.dashboard` does not.

## 7. What is not modelled

The dry run of the repair script writes nothing. The stream's pings, and the loop
for browsers without EventSource, which is a poll like the other. Limiter, delays and
removal of old jobs in the queue: no property depends on them. Lengths of waits: the minimum interval between
sends and the deadlines of a collector are timers that fire at some time. `consume` and `recordActivation` of
the redeem flow have no caller. Audit log, Telegram log and masking are written and
never read by the core; the settings other than the session are read by nobody but the form. Configuration,
validation of input, encryption, filters and wiring fail at once or not at all. The dashboard, the lists of the administration and their paged queries
change no state. The seed, the session generator and the load test are tools run by hand.

## 8. What would come next

1. One account shared by `SessionPool` and `RedeemClient`, which each assume a chat of their own.
