# HackerAI in TLA+

Specifications, model-checking configurations and proofs for the parts of
HackerAI whose correctness depends on the order in which concurrent requests,
stores, timers and failures meet.  Everything here is translated from the code
under `src/`; `PROJECT.json` maps each definition to the lines it stands for.

HackerAI is a Next.js application.  A chat request runs in a serverless
instance, streams a model's answer, and may drive a sandbox.  Its state lives in
Redis (rate limits, pub/sub), in Convex (chats, messages, files, balances: every
mutation is a serialisable transaction), in the service that keeps the sandboxes,
and in the instance's memory (refund tracker, terminal sessions, the cached
sandbox).  No transaction spans two of these, requests of one user overlap, and
an instance may be killed at any time.

    tlc -workers 2 -config billing_core.cfg MCUsageBilling   # one run
    tlapm UsageBillingProofs.tla                             # one proof module

## 1. Inventory

Status: **M** modelled, **P** partly modelled, **-** not modelled.  What a part
leaves out is in its note in `PROJECT.json` and in section 6.

| Component (src/) | State | Operations | What is hard, and what makes it correct |
|---|---|---|---|
| **P** Usage billing: `lib/rate-limit/token-bucket.ts`, `refund.ts`, `lib/usage-tracker.ts`, `lib/extra-usage.ts`, `lib/api/chat-handler.ts`, `agent-stream-runner.ts` | Redis bucket per user and month; per request: refund tracker, usage tracker, extra-usage snapshot | peek, draw the shortfall from the balance, debit, undo; refund on error; retry with a fallback model; settle | two stores without a transaction, stale reads, refunds asked for by several handlers, lost replies, crashes. A request takes exactly what its tracker records, a refund returns exactly that, settlement charges at most the actual cost |
| **P** Personal extra usage: `convex/extraUsage.ts` | balance, monthly counter, cap, month of the counter | deduct, refund, add credits, set cap | month rollover without a job; the cap binds |
| **M** Team seat rotation: `token-bucket.ts` (`applyTeamSeatDebt` ...) | counter per organisation, flag per member, member's bucket | add a removed member's usage, claim / restore / burn on a first request, clear on renewal | non-atomic claim by compensation, first requests at the same time, failing burn, renewal in the middle. A member inherits at most a seat, and never more than is owed |
| **P** Webhook idempotency: `convex/extraUsage.ts`, `app/api/workos/webhook/route.ts`, `convex/crons.ts` | row per event: status, claim time, processing time | claim, take over, finalize, purge | duplicate and late deliveries, dead holders, purge. One owner at a time; completed stays completed |
| **P** Team pool: `convex/teamExtraUsage.ts` | shared balance; team and member counters, caps, switches; idempotency keys | draw, refund, settings, credits | late refunds, lost replies, rollover. Both caps bind; a purchase is credited once |
| **P** Chat stream coordination: `convex/chatStreams.ts`, `tempStreams.ts`, `redisPubsub.ts`, `lib/utils/stream-cancellation.ts`, `chat-handler.ts`, stream route | `active_stream_id`, `canceled_at`, temp-stream rows, subscriptions, poller and preemptive timers | send, stop, regenerate, publish, poll, resume, finish | requests of one chat overlap: a late publication or clean-up reaches the wrong one, two writers save one answer. No stop reaches a request sent after everything older had settled; an answer that was stopped and discarded stays away |
| **P** Chat user interface: `app/hooks/useChatHandlers.ts`, `useFileUpload.ts` | the tab's queue of mutations, its status | send, stop, edit, regenerate, upload, remove | the tab is one of the writers above |
| **P** Messages and chats: `convex/messages.ts`, `chats.ts`, `lib/db/actions.ts` | rows | save, patch, regenerate, edit, branch, delete, delete in batches | operations that delete and copy meet files, summaries and shares that refer to the same messages |
| **P** Summaries: `lib/chat/summarization`, `convex/chats.ts` (`saveLatestSummary`), `messages.ts` (`checkAndInvalidateSummary`) | latest summary with its predecessors | write, save late, invalidate, fall back, copy | written from messages read long before. A summary says exactly the messages it replaces |
| **P** Shared chats: `convex/sharedChats.ts` | share id and date | share, update, lift, fork | frozen by update times alone. Nothing newer than the share goes with the link |
| **P** File storage: `convex/fileStorage.ts`, `fileActions.ts`, `fileAggregate.ts` | objects, rows, aggregate | upload, save, attach, remove, purge hourly | quota counted beside the rows, eight operations in four files. The aggregate is the rows; no file in use is purged |
| **P** User deletion: `convex/userDeletion.ts` | | delete all data of a user | everything above at once |
| **P** Free-tier limits: `lib/rate-limit/free-*.ts`, `sliding-window.ts` | daily and monthly counters, run lock with a TTL | check, acquire, release, record | lost replies around a lock, crash of its holder, read before and write after. One run; overrun below one run |
| **P** Referrals: `app/api/referrals/attribution`, `convex/referrals.ts`, `lib/rate-limit/sliding-window.ts` | attribution row, grant key, bonus units | attribute, grant, mark | Redis and Convex, several tabs. No more units than promised |
| **P** Sandbox management: `hybrid-sandbox-manager.ts`, `sandbox.ts`, `sandbox-health.ts` | cached sandbox, failure count; the sandboxes at the service | find, resume, kill, create, check, replace | parallel tool calls over one sandbox, calls to the service fail. One sandbox per user |
| **P** Terminal commands: `run-terminal-cmd.ts`, `retry-with-backoff.ts`, `pid-discovery.ts`, `process-termination.ts` | flag of the result, timer, attempts; processes | run, retry, time out, abort, find the PID, kill | timer, abort and retry loop race for one answer; the process outlives its call. As long as no reply is lost, nothing runs that an exit code or a completed kill denies |
| **P** Proxy tools: `proxy-manager.ts` | setup lock, disabled flag, the proxy in the sandbox | ensure, query, invalidate and kill | one promise shared by parallel callers. The lock stands for a running proxy; every waiter is told |
| **P** Terminal sessions: `lib/ai/tools/utils/pty-session-manager.ts`, `e2b-pty-adapter.ts`, `interact-terminal-session.ts` | map of sessions per chat, timers, ring buffer; the shells in the sandbox | create, send, wait, view, kill, closeAll, time out | awaits between check and registration, several killers, sandbox calls that fail. No forgotten shell, one kill, bounded overrun of the cap, every session ends |
| **-** Subscription-change buckets: `token-bucket.ts` (`stash...`, `pop...`, `initProratedBucket`) | stash key, bucket | stash, pop, re-create | get-then-delete; nothing in the tree calls them |
| **-** Cross-tab auth mutex: `lib/auth/cross-tab-mutex.ts` | one `localStorage` key, a tab id | acquire, release | not atomic; stale take-over by two tabs |
| **-** Notes, usage logs | rows | CRUD, append | each operation is one transaction |
| **-** Authentication and routing, other tools, providers, prompts, build | configuration, React state, external processes | | I/O and presentation |

How they interact: `chat-handler.ts` acquires the free run lock or bills a paid
request: it reads the extra-usage balance, calls the rate limiter (which calls
`extra-usage.ts`, i.e. Convex, for the shortfall and `applyTeamSeatDebt` for new
team members), records the result in the refund tracker, and streams.  It
prepares the chat row, listens for a cancellation, and saves question and answer;
the tab writes to the same rows.  The agent's tools share one sandbox manager
per request, so that parallel calls meet in the cached sandbox and in the proxy's
setup.  The runner accumulates usage, refunds on a provider error, and closes all
terminal sessions of the chat at every end of a stream.  `onFinish` cleans the
chat row, saves the answer, and only then settles the bill.  Webhook claims and
the pool's credits share the table `processed_webhooks`, which a cron purges;
another cron purges files that no message took up.

## 2. Modules

    TokenBucket ----+
                    +--> UsageBilling --> MCUsageBilling, UsageBillingProofs
    ExtraUsage -----+
    TokenBucket -------> TeamSeatDebt --> MCTeamSeatDebt, TeamSeatDebtProofs
                         TeamSeatDebt implements SeatDebtLedger
    WebhookClaims -----> MCWebhookClaims, ProcessedWebhooksProofs
    TeamPool ----------> MCTeamPool, ProcessedWebhooksProofs
    PtySessions -------> MCPtySessions, PtySessionsProofs
    ChatStreams -------> MCChatStreams, ChatStreamsProofs
    FileStore ---------> ChatHistory --> MCChatHistory, ChatHistoryProofs
    FreeTier ----------> MCFreeTier, FreeTierProofs
    SandboxManager ----> ProxySetup --> TerminalCommands
                            --> MCTerminalCommands, TerminalCommandsProofs

Throughout, a step is what runs between two awaits: one Redis command, one
Convex mutation, or one turn of the event loop.  Where a call may fail, the
error is an action of its own; where its effect may have happened although the
caller sees an error, both outcomes are in it.

**TokenBucket** is the bucket as the program sees it.  The script behind
`Ratelimit.tokenBucket` is external: an empty bucket refuses without writing,
any other is debited whether or not it suffices, so that racing debits drive it
below zero.  Amounts are points; their computation from tokens and prices is
left out, and the estimate and the actual cost are arbitrary naturals.

**ExtraUsage** is one user's balance row, an action for each mutation.

**UsageBilling** composes the two for the concurrent requests of one user. `pc`
follows the code:

| `pc` | code |
|---|---|
| config | `buildExtraUsageConfig` |
| peek, extra, debit, undo | `checkTokenBucketLimit`: limit(rate 0), `deductFromBalance`, limit(rate), `refundToBalance` |
| admitted | `recordDeductions` done, `execute` not yet streaming |
| streaming, aborted | the model streams / a provider error aborted it |
| failing, aborting | `UsageRefundTracker.refund` is awaiting the stores |
| finish | `onFinish`, before `deductAccumulatedUsage` |
| giveBack, settlePeek, settleBucket, settleExtra | `deductUsage` |
| rejected, failed, unbilled, settled, crashed | over |

`tookBucket`, `tookExtra`, `drawn` and `faulted` are history variables: what a
request took from each store, what was drawn this month, and whether one of the
request's own store calls failed.  Properties that cannot survive a failing
store excuse `faulted` requests, and say so; those of the caps, types and claims
do not.

**TeamSeatDebt** follows `applyTeamSeatDebt` command by command and is shown to
implement **SeatDebtLedger**, the promise behind it: debts are owed, and each
joining member takes over at most a seat of what is owed, once.  The refinement
mapping adds to the counter what claimants hold beyond their share for a moment
(`lent`): `owed <- counter + Total(lent)`.

**WebhookClaims** has a clock.  `Birth` is the first delivery of an event; the
provider retries and duplicates within `RetryWindow`; the platform kills an
invocation after `Runtime`.  The two assumptions the code's comments argue from
are `Runtime < Stale` (10 minutes) and `RetryWindow + Runtime <= Retention` (72
hours, 7 days).

**TeamPool** has the pool's row, the members' rows and the purchase keys.  The
history variables `teamDrawn`, `net`, `late` count what really happened in the
current month, independently of the counters the code keeps.

**PtySessions** relates three views of a terminal: the shell in the sandbox
(`running`), the promise that reports its end (`exited`), and the manager's map
(`registered`).  `closing` is the progress of `killAndRemove`, `tool` that of the
kill tool.  `faults` records sandbox calls that failed; `MaxFaults` bounds them.
One session stands for one call of `create`, and at most one kill tool call is
made for it.

**ChatStreams** is one chat with its tab, the handlers of the requests the tab
sends (numbered in order), the row they coordinate through, and the cancellation
channel.  The tab's mutations go through `outbox`, which Convex's client executes
in order; a stop's publication is a step of its own (`published`) and may be
lost, in which case the subscriber or the poller of the handler sees `canceled`.
`pc` of a handler: arrived (before it subscribes to cancellations), preparing,
streaming, clearing (`updateChat` in `onFinish`), saving (`saveMessage`), done;
rejected and failed.  `startStream`, which makes a stream resumable, runs beside them
(`recorded`, `rejoining`).  `stops`, `discarded`, `late` and `clean` are history:
in particular `clean` holds the requests sent when nothing older was unsettled.

**FileStore** is the objects, the rows that describe them, the flag that a message
took one up and the aggregate that is the quota.  **ChatHistory** composes it with
the messages, summaries and shares of one user.  Every action is one mutation,
except that a summary is read in `StartSummary` and written in
`SaveLatestSummary`, with anything in between, and that
`DeleteNextUserChatBatch` deletes one batch.  A message's number is its id and
its creation time, its text the number of its edits, so that "says the messages"
is a comparison of sets of pairs.

**FreeTier** has the run lock, the day's units with the referral bonus, and the
month's cost, all in Redis, and the attribution row in Convex.  Each Redis call
has an erring twin whose effect may have happened.  `AskUnits` and the two limit
checks are separate, since `Promise.all` starts them together and one may outlive
a request that the other has refused.

**SandboxManager**, **ProxySetup** and **TerminalCommands** build on each other, for
the tool calls of one request that run in parallel.  The first is the manager's
cache with the service behind it (`box`: none, old, paused, up, broken): `listing`,
`connecting`, `killing`, `creating` are the calls of `ensureSandboxConnection`, after
which a call goes on at `back`.  The second adds `caidoLock`, the promise shared by
all who need the proxy: `lock` names the call whose setup it holds, `awaits` the one
a caller waits for; script, starting, confirming are `doEnsureCaido`, reach and kill
a proxy tool's query and `invalidateAndKillCaido`.  The third is
`run_terminal_cmd`: check and health before, then the retry loop (`loop`,
`attempt`), the stream timeout (`timer`) and the abort handler (`abort`), which race
for `resolved` (the loop sets it and does not read it before a retry), next to the
processes (`proc`) that exist in the sandbox whatever the call believes.  `messy`,
`raced` and `blind` are history: what was lost on the way, or overlapped, in a form
the code does not notice.

## 3. Runs

| Run | Question | Bounds |
|---|---|---|
| `billing_core` | Do the tracker and the stores agree; are refusals, refunds and settlements right? | 2 requests, bucket 3, balance 2, estimates 0 and 2, costs 1 and 4, one refill |
| `billing_live` | Does the cap bind across purchases, cap changes and months; does every request end? | 2 requests, bucket 1, balance 2, one purchase, cap none or 2, two months |
| `seat_core` | Does the counter protocol implement the ledger? | 3 requests of 2 members, seat 2, debts 1 and 3, two removals, one renewal |
| `webhook_core` | One owner; completed stays completed | 2 workers, 2 events, clock 0..8, retries 4, runtime 1, stale 2, retention 5 |
| `pool_core` | Do the caps bind, is a purchase credited once? | 4 draws of 2 members, amounts 1 and 2, caps none or 2, two months, one key |
| `pty_core` | Forgotten shells, reports of a kill, overrun, ends | 3 sessions, cap 1, 2 at once, 1 failing call |
| `chat_streams` | Does an old stop reach a new request; does a discarded answer come back; is anything saved twice, or left active? | 2 requests, lasting and temporary chats, 1 fault (3.8 million states) |
| `chat_history` | Do summaries, shares, the quota and the files survive every order of operations? | 2 chats, 4 messages, 1 edit of each, 2 files, quota 1, 1 previous summary, batches of 1; state constraints below (555 thousand states) |
| `free_tier` | One run, bounded cost, promised units, no lock for good | 2 requests in either mode, 2 calls of the attribution route, day, bonus and month of 1, agent request 2, two days and months (321 thousand states) |
| `sandbox_tools` | One sandbox, a true lock, accounted processes; does every call end? | a command (in the foreground or background) with a proxy tool, or three proxy tools; 4 sandboxes, 1 fault, 2 attempts, 2 creations, 2 failed checks (906 thousand states) |

Why these bounds reach the interesting cases.  *billing_core*: two estimates of
two against a bucket of three make the second request draw a shortfall of one,
and a debit between its peek and its own makes it undo; the costs are below and
above the estimate, so settlement gives back, takes from the bucket, and
overflows to the balance; estimate 0 is a free model. *billing_live*: a bucket of
one forces both requests through the balance, with a cap they cannot both stay
under. *seat_core*: debts below, at and above a seat; the two requests of one
member race for the flag while the other member races for the counter.
*webhook_core*: time units tell the four durations apart with the smallest
values that keep the code's order (runtime < stale < retries < retention), and
the clock runs past the first purge. *pool_core*: the first member has three
draws, so one can be refunded late while another fills the cap. *pty_core*: the
cap is reached, overrun by one and refuses. *chat_streams*: every property
relates a request to an older one, so two suffice; the fault is a refused
mutation, an early failure or a lost instance. *chat_history*: a branch needs a
chat with a question and an answer and as many copies; a summary with a
predecessor needs two cutoffs.  `Bound` counts messages, uploads, shares and
running summaries together, at most five; `OneAtATime` keeps summaries, files and
shares, which share no variable but the messages, to one a behaviour. *free_tier*:
an agent's request needs the day's unit and the bonus; a tab's second call of the
route meets each state of the first. *sandbox_tools*: the user's sandbox may start
missing, old, paused, up or broken, its proxy off, on or broken, and the call may be
the first of the request (just booted) or a later one with a count of failures; the
one fault adds a failing call, or a sandbox or proxy that breaks meanwhile; the
code's limits of three attempts and five failures are smaller here.  Wider instances
were checked once, for the invariants: two commands in the foreground (19.4 million
states), a command with two proxy tools (14.3 million), a command and a proxy tool
with two faults (3.2 million).

Model values that only name requests, workers, draws, files or chats are
symmetric, except in the runs with liveness.  Deadlock is checked where the model
always has a step left; the other systems really stop: a tab that sends nothing
more, tool calls that have all returned.

The other two runs each end in a counterexample, and concern a sentence in the
source that the code does not keep:

| Run | Sentence | What TLC shows |
|---|---|---|
| `webhook_lost` | extraUsage.ts:119-121 "a future retry takes over" | the 200 for a held claim ends the retries although the holder died |
| `branch_files` | chats.ts:727 "Skip deleting files for copied messages (they reference original chat files)" | regenerating the copied answer in a branch (messages.ts:943) deletes the files of the original chat's answer |

Disagreements met while modelling that no run is about:

* Billing. refund.ts:6 "Ensures refunds only happen once": a refund on a provider
  error, then usage, then settlement returns the unused part of an estimate already
  returned (agent-stream-runner.ts:555, token-bucket.ts:492). chat-handler.ts:1441
  "Refund the upfront deduction when the request fails before any tokens were
  consumed": an error in `execute` (1384) ends in the stream's `onError`, which
  does not refund. refund.ts:67 keeps the flag false "allowing retry on transient
  failures", but `refundUsage` swallows every error, so the flag is always set.
  token-bucket.ts:500 peeks "to avoid going negative", which concurrent debits
  still do; the capping HSET (557) may *raise* a bucket that was debited after the
  HINCRBY. token-bucket.ts:854 "to start a fresh cycle": the renewal's DEL between
  DECRBY and INCRBY leaves a debt nobody owes; the flag cleared at 919 "so a retry
  can re-attempt" is never read again once the bucket exists.
  teamExtraUsage.ts:196 "member's per-member cap": a refund of last month's draw
  frees this month's cap.
* Terminals. pty-session-manager.ts:318 "wait for removal to finish": the second
  caller returns while the session is still registered. run-terminal-cmd.ts:466-468
  sets `resolved` "to prevent race with retry logic", but `retryWithBackoff` gets no
  signal: a retry in its backoff starts the command after the timeout or abort was
  reported. An abort right after the launch finds no PID, says so, and the command
  goes on. `executeCommand` is returned without await (415), so that its errors
  escape the catch at 780.
* Proxy. proxy-manager.ts:20 "ensures only one ensureCaido runs at a time": several
  queries that meet the broken proxy each take the lock away, and a failed setup
  (176) deletes whichever lock is there; a kill on its way (95-99) may hit the proxy
  of the new setup. The lock is kept for the manager, although the sandbox may have
  been replaced.
* Chats. messages.ts:1720 promises a shared link that shows what existed at share
  time, but the id pattern at 1747 has groups 8-4-4-12-12, which no UUID has: the
  shared view is empty (sharedChats.ts:305 has the right pattern).
  chatSummaryFallback.test.ts:294 refuses stale saves by the stored creation time,
  which `tryFallbackSummary` (messages.ts:180) does not set back.
* Streams. chatStreams.ts:46 clears `canceled_at` for the new stream, and with it a
  stop that was just committed: the stop then rests on its publication alone.
  chat-handler.ts:378 "temp coordination must not block the request": while the row
  is missing the poller reads the request as canceled. chat-handler.ts:1076
  "user-initiated aborts" also covers an exhausted budget. free-concurrency.ts:59-61
  sets `released` after the call, so that a retry could follow, but
  chat-handler.ts:134-139 has forgotten the function by then.

Hazards seen and kept out of the list, which is long enough: `saveChat` does not
look whether the chat exists; a batch deletion of all chats also takes those started
meanwhile; an upload refused after it was stored leaves its object, and the last
slot of the upload limiter refuses the save of the very upload it admitted; a
generated file is lost when the handler's `updateOnly` save comes before the tab's;
`handleRemoveFile` may race with a send; the bonus may be granted again after 30 days
if it was never marked; in the tab, a stale auto-continue signal after a reset, a
stop that does not clear the 500 ms timer, the queue sent during an awaited stop.

## 4. Fairness

`billing_live` assumes weak fairness of each live request's continuations: the
event loop runs what is ready and a store call returns or throws (the clients
have timeouts).  A request may stream for long but not for ever: providers end
streams and preemptive timeouts abort them, hence fairness of `StreamEnds`.
Nothing is assumed of crashes, errors, purchases, refills or the calendar.

`pty_core` assumes that timers fire, that a kill request returns or fails, that a
resolved promise is acted on, and that a dead shell's `wait()` resolves.
Nothing is assumed of the shells themselves, of `closeAll`, of the tool calls, or
of `pty.create`, which has no deadline.

`free_tier` assumes the same of each live request, and that Redis drops an expired
key.  A run that crashed takes no further step, which is why `LockFreed` needs the
expiry.

`sandbox_tools` assumes weak fairness of each call's own steps: calls to the service
return or fail, and timers fire.  Nothing is assumed of the service, of the processes
in the sandbox, or of the user's abort: a command that never ends is answered by the
stream timeout, and a caller that waits for another's setup by that setup's end.

`chat_streams`, `chat_history` and the others check safety only, without fairness.

## 5. Proofs

TLAPS proves the theorems below for all values of the constants that satisfy the
named assumptions of the modules: bounds are arbitrary naturals; sets of
requests, members, workers, events, calls and chats are arbitrary, except that
`Sessions`, `Files` and, for the seat debts, `Requests` and `Members` are finite,
since what is counted there is a cardinality.  Every invariant and every action
property of a run that passes is stated by a theorem.  Most of them are not
inductive as they stand; the invariants named below are.

| Module | Theorems | Argument |
|---|---|---|
| `UsageBillingProofs` | `TypeCorrect`, `TrackerCorrect`, `RefusalCorrect`, `RefundCorrect`, `SettlementCorrect`, `OverfullCorrect`, `CapCorrect` | `BillingInv` says, for each class of program points, what a request has taken: while checking, the shortfall and nothing else; while running, the estimate as split by the tracker; while refunding, the tracker less the refunds done; while settling, the estimate plus what settlement took. It is inductive because another request's step leaves a request's books alone. `TypeCorrect` needs it: a refund is a natural only because amounts are bounded by the estimate. The cap needs only that the counter of the current month is at least what was drawn |
| `TeamSeatDebtProofs` | `SeatTypeCorrect`, `SeatAtMostCorrect`, `OneClaimantCorrect`, `CounterCorrect`, `LedgerImplemented` | `SeatInv`: whoever is past the claim of the flag is the only one for its member, and the flag stays set until it is done; so a claim is made with nothing claimed before. `LedgerInv` adds the books: until a renewal, the counter, the loans and what the members have inherited make up what was removed, and the counter with the loans is never negative, so that no claimant takes more than is owed. A loan belongs to a member nobody else can claim for, and without a fault it is gone when `applyTeamSeatDebt` returns. A sum is the number of units it consists of, so that its laws follow from those of `Cardinality` without induction. For `LedgerImplemented` each step of the code is a step of the ledger or a stutter: claiming takes over, restoring moves a loan back and is not seen |
| `ProcessedWebhooksProofs` | `ClaimsCorrect`, `ClaimsTypeCorrect`, `OneOwnerCorrect`, `CompletedCorrect`, `PoolTypeCorrect`, `TeamCapCorrect`, `MemberCapCorrect`, `CreditCorrect` | the two uses of the table `processed_webhooks`. Claims: an owner's claim is at most `Runtime` old (the clock cannot pass a running invocation), so it is not stale and not purged; a finalized event is completed or so old that its last delivery is over. Pool: the counters the code keeps, read for the current month, are at least the history's net draws less the late refunds; the key of a credited purchase is never purged |
| `PtySessionsProofs` | `PtyTypeCorrect`, `NoOrphanCorrect`, `SupervisedCorrect`, `KilledOnceCorrect`, `KillReportCorrect`, `CapOverrunCorrect` | per session, the program point fixes which of running, armed, registered and closing can hold together; for the cap, registered sessions and spawning calls together never exceed `MaxPtys + Parallel - 1` once the cap is reached, by the cardinality of finite sets |
| `ChatStreamsProofs` | `TypeCorrect`, `SavedOnce`, `FinishedNotActive`, `DiscardedStays`, `CleanNotStopped` | lemmas say what inserting a message and cutting the log off keep. `ActiveInv`: the active request has not cleaned up, or is late. `DiscardedInv`: a discarded answer has no save of the tab under way (the tab waits for its deletion, which is the last call of its outbox), and is in the log only if its handler ended with an answer to keep, which a stopped one did not. `CleanInv`: for a clean request, everything that could still stop it (a publication, the flag, a stop in the outbox) comes from a stop at least as new |
| `ChatHistoryProofs` | `TypeCorrect`, `Accounted`, `SharesFrozen`, `PurgeSpares`, `DeletionSpares`, `SummaryCorrect`, `SummaryAdvance` | `FilesInv`: rows are of saved uploads only, so that no save counts a file twice, and the aggregate is their cardinality. `MessagesInv`: a file a message refers to, if it has a row, is attached, and no file was sent with two messages other than copies. `SharesInv`: only a chat that exists is shared, and `ShownShrinks`: a message that shows what it did not show before is `recent`. `HistoryInv` is about cuts, which are the summaries, their predecessors and the summaries being written: a cut says, of the messages that are left, exactly those of its chat up to its cutoff (`Covers`), which every deletion keeps; one whose cutoff is left says them in their present wording and says nothing that is gone (`Current`), because an edit and a regeneration invalidate every cut that does not end before them. A branch keeps its cuts because copies come in the order of their originals. `SummaryAdvance` follows since whatever a saved summary replaces ends before it |
| `FreeTierProofs` | `FreeTierTypeCorrect`, `OneFreeRunCorrect`, `CostCorrect`, `UnitsCorrect` | whoever is between acquisition and release has its token in the lock (`LockHeld`); so between the cost check and the record nobody else records, and the cost read is the cost added to (`CostKnown`); a call that may still grant finds the grant key set or the reward unmarked (`GrantKnown`); what was taken, what is left and the bonus still to be granted are together no more than was promised (`UnitsKnown`) |
| `TerminalCommandsProofs` | `TypeCorrect`, `AccountedCorrect`, `OneSandboxCorrect`, `LockIsTrueCorrect` | for any number of parallel calls of any kind. `CoreInv` says, for each place of a call, whether it has its sandbox, whether its command was launched, and, as long as no reply was lost, that only the first attempt can have a process, and that an exit code or a completed kill was reported of one that is gone; types, places and commands need each other and are kept together. `SandboxInv` adds what a search knows of the service at each of its calls: it is alone; when it connects or kills, no other sandbox is there; when it creates, none is. It also says that while the lock holds a setup nobody is about to kill the proxy, and that a setup that is over has left one. What is excepted (`messy`, `raced`, `blind`) is exactly what section 6 names |

Before it was proved, `HistoryInv`, which is the longest of these invariants, was
checked by TLC on the instance of `chat_history`.

Proved but in no run's list: the type invariants of billing, seats, claims, pool,
terminals, streams, free tier and sandbox, `InheritsAtMostASeat` and `KilledOnce`.

Only model-checked: the liveness properties (`RequestsEnd`, `SessionsEnd`,
`KillCallsEnd`, `LockFreed`, `CallsEnd`), since fairness and ENABLED are outside the
proof system's reach.

## 6. Abstractions worth knowing

Billing, terminals, webhooks:

* The rate limiter's own five-second timeout, after which it admits a request
  without deciding, and its in-process cache of blocked keys are left out.
* Redis keys expire after 30 days or more; expiry of the seat counter is
  `ClearRemovedUsage`, that of the debt flag and of buckets is left out.
* `UsageBilling` models a user with a personal balance.  For a team member the
  shortfall goes to the pool instead; the pool's own rules are in `TeamPool`.
* Auto-reload (a charge that tops up the balance before a draw) is, for the
  ledger, a purchase.
* Refunds of one request do not overlap: `onError` awaits the refund before the
  stream goes on, and the other callers run before the stream exists.
* A provider error that follows the empty first leg may still start the second
  leg, with the abort signal already set; it then changes the usage only.
* The terminals' output, the ring buffer and session ids are left out; so is the
  death of the whole instance, after which the map no longer exists and the
  sandbox pauses itself.
* In `WebhookClaims` a 500 and a timeout are the same to the provider: both are
  retried within the window.

Streams and history:

* One tab per chat.  Convex's client executes a tab's mutations one after the other,
  which is external.  `skipSave`, which the stop publishes for an answer to be thrown
  away, only spares a patch, and is left out.  `keeps` stands for both reasons to save
  an aborted answer: the preemptive timeout and the fallback leg.
* A temporary chat that polls is excepted from `CleanStartNotStopped`, see section 3.
* All files have one size.  The whole history fits the model's window; summaries
  written in the middle of an agent's answer are left out.  A summary's cutoff is the
  last message read, since `MESSAGES_TO_KEEP_UNSUMMARIZED` is 0.  The hidden prompts of
  an auto-continue (messages.ts:1103) count as messages like any other.  Previous
  summaries, which the code keeps newest first, are a set ordered by their cutoffs.
* Two writes in one millisecond, which the `<=` of the share's filter would let
  through, do not happen.
* `SummaryIsTrue` excepts a chat whose messages a batch is deleting (`emptied`) and a
  message edited while the summary that includes it was being written (`crossed`).
* `Frozen` is what `forkSharedChat` copies; only the owner forks here.  The
  assistant's save into a deleted chat, which the code refuses, is no step.

Free tier:

* A script whose reply was lost has run by then, if it runs at all.
* The day's key is chosen before the script runs (sliding-window.ts:187); a change of
  day between the two, which would charge the day before, is not modelled.
* The platform ends a run at 300 seconds and the lock lives 900: a lock expires only
  when its run is over.  The grant key and the bonus expire together, 30 days after
  the grant, and no call lives that long.  Development without Redis is left out.

Sandbox:

* The health check's five tries are one step, as are the sub-steps of `getSandbox`
  between two calls to the service; a run's output is saved with its answer.
* A setup of the proxy may fail at each of its steps although the sandbox answers;
  the sixty seconds of the health poll and a refused login are one such failure.
* A PID belongs to its command: the search by text may also find another command
  with the same text.
* Pausing a sandbox keeps its proxy.  The proxy is enabled.  Local sandboxes, an
  external Caido and `DefaultSandboxManager`, whose counters are the same, are left
  out.
* Exceptions in the properties: two calls that look for a sandbox at the same time,
  or a kill or creation whose outcome is unknown, may leave two (`messy`); a setup
  that begins while another call is about to kill the proxy may lose it (`raced`); a
  lost reply of the launch or of a kill leaves a process unaccounted for (`blind`).

## 7. Not modelled, and what could come next

* `AgentLoop`: the steps of the agent, their stop conditions and the budget monitor
  (`lib/chat/stop-conditions.ts`, `budget-monitor.ts`, `doom-loop-detection.ts`).
* `ChatTab`: the queue, auto-continue and auto-resume of the tab as a component of
  its own, composed with `ChatStreams`.
* `PtyRing`: the output buffer with its read cursor as a refinement of an append-only
  stream of which a bounded suffix is kept.
* `CrossTabMutex`: localStorage reads and writes as separate steps; mutual exclusion
  within the lock's lifetime, and what is lost beyond it.
* `PlanChange`: stash, pop and prorated re-creation of the bucket; the functions have
  no caller at this commit.
* Compaction as pure operators, checked against a reference over small messages.

Not worth a model: notes, usage logs and feedback (independent rows, each operation
one transaction), authentication and routing (delegated to the provider), the other
tools (one call, one reply), providers, prompts, rendering, build and docker.
