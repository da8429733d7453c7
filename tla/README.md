# A TLA+ model of VayuPress's write path, mode engine, automation, mail, plugins and payments

VayuPress is a self-hosted publishing system: one Go process over SQLite. This
directory holds TLA+ modules for the parts of it where ordering and failure
matter most - the durable write queue with the scheduler that feeds it, the
transactional outbox behind it, the public page cache both of them feed, the
system mode that stops writing, the automation engine that consumes the events,
the outbound mail queue with its Send later, the sandbox of plugin processes, and
the orders by which members pay - with TLC configurations that check them on
small instances and TLAPS proofs for instances of any size. `PROJECT.json` maps
every definition to the lines it translates and lists runs, mutants, hazards and
theorems.

## 1. The system

| Part | State | Operations | Hard because |
|---|---|---|---|
| Mode engine (`internal/mode`) | present mode and history in memory, `mode_transitions` on disk | `Transition`, `ForceTransition`, `Restore` | forced transitions journal outside the lock; the last row decides the next boot |
| Fault escalator (`internal/fault`), budget actuator (`internal/budget`) | counts per window, edge state per budget | `Record`, `Evaluate` | they race the operator for the mode |
| Write queue (`internal/queue`) | `write_jobs` | `Enqueue`, `processOneJob`, two replay endpoints | several workers, unguarded status updates whose errors are ignored |
| Queue upkeep (`internal/db`, `main`) | `write_jobs` | reaper, retention, boot recovery | changes rows that workers hold |
| Scheduled publishing (`internal/scheduler`, `app.go`) | `scheduled_posts` | `Schedule`, `Cancel`, `publishDuePosts` | enqueues and marks in two statements, without a claim |
| Outbox relay (`internal/outbox`) | `event_outbox`, `delivered_events` | `processOne` | crash or lost statement between dispatch, status and dedup record |
| Event bus and dispatch (`internal/events`, `main`, `app`) | none | `Publish` to subscribers, append to `vayuflow_inbox` | one consumer can fail after another has seen the event |
| Page cache (`internal/render`, article page) | one file per article | render and store, purge | workers, visitors, relay and console write it without coordination |
| Console post manager | `articles` | publish, unpublish, delete | bypasses the queue and its events |
| Retry schedule | `retry_at` | backoff, selection of due rows | a comparison of texts |
| VayuFlow (`internal/vayuflow`, console handlers) | `vayuflow_flows`, `vayuflow_inbox`, `vayuflow_runs` | save, delete, arm, switch; `Drain`, `Tick`, Run once now; `Execute` | three callers of `Execute` without a lock; a trigger may be offered again after a crash |
| Mail queue (`internal/vayuos/mail`, `queue.go`) | `vayumail_queue` | `ProcessDue`, resend, retry all, delete | passes overlap and claim nothing |
| Plugin sandbox (`internal/sandbox`) | a process, its pipes and scratch directory per pool member; crash count, quarantine | `Pool.Invoke`, `SubprocessPlugin.Invoke`, `Shutdown` | the process answers late or exits between any two steps of the host |
| Members and payments (`internal/payments`, `internal/members`, handlers) | `payment_orders`, `members.tier`, `member_subscriptions` | `MarkPaid` and `fulfillOrder` from six routes, cancel and refund, `SetTier`, Stripe's webhook | confirmations, reversals and assignments race, in several statements each |
| Send later (`scheduled.go`) | `vayumail_scheduled` | `Schedule`, sweep, Send now, `CancelScheduled`, recovery | a message must go once although a crash may hide whether it went |

An API call, or the ticker of the scheduler, checks the slug, the mode and the
depth of the queue and inserts a row of `write_jobs`. A worker claims the oldest
due row, applies it to `articles` together with two rows of `event_outbox` in
one transaction, stores the rendered page and marks the job completed. The relay
takes the oldest due outbox row, publishes it on the bus - where the cache
subscriber purges the page - appends article events to the VayuFlow inbox, marks
the row and records the event's id. VayuFlow's drainer offers each inbox row to
the flows that wait for its event; its ticker and the console start flows too,
and every run passes the hourly ceiling and a unique idempotency key. The mode
stops `Enqueue`, the scheduler and the workers; faults and exhausted budgets
drive it automatically, operators by hand. The mail engine is a second system of
queue and schedule beside these, with tables and loops of its own. The plugin
hooks that the bus fires end in the sandbox: a pool of processes, each guarded by
a lock from the request written to the reply read. Payments share nothing with
the write path but the database: a gateway's callback, the buyer's return page
or the operator marks an order paid, and whoever did so fulfils it.

What makes each part correct:

- mode: a lineage without gap or fork, a refusal that only a hand lifts and that
  takes effect on the workers, a journal from which the mode can be resumed;
- queue: no job reported as completed that was not applied, articles and
  events that tell the same story, every job settled in the end, bounded
  retries and backlog;
- scheduler: a post goes out once, says so only if it did, and not after a
  cancel;
- relay: delivered means received, every event settled, duplicates only after
  a failure;
- cache: no page of a text that was never committed, no page that stays out of
  date, no draft or deleted post in public;
- retry schedule: neither early nor never;
- flows: a trigger has its effects at most once, an edit never changes what an
  armed flow does, no row wedges the inbox, the ceiling holds up to the race;
- mail: a held message goes once per choice of its sender and is never lost,
  "delivered" is true, both queues come to rest;
- sandbox: a reply reaches the call that asked for it, no process outlives the
  member that would kill it, a quarantine is final, a call whose
  request is written returns;
- payments: an order is fulfilled once, the tier a paywall reads is that of the
  subscription, an undisturbed reversal takes back what the order started.

The other components (listed with reasons in `PROJECT.json`) are surfaces over
these, string transformations, or subsystems left to later work (section 8).

## 2. The modules

| Module | Models |
|---|---|
| `SystemMode` | mode engine, journal, escalator, actuator, restart |
| `WriteQueue` | producers, workers, reaper, retention, replay, restart |
| `WriteQueueRefusal` | `WriteQueue` with a count of what is committed after a refusal |
| `ScheduledPosts` | extends `WriteQueue`: the scheduler's ticker as one of its producers |
| `EventDelivery` | abstract: what the outbox promises |
| `OutboxRelay` | the relay with bus and inbox; implements `EventDelivery` |
| `ArticlePipeline` | extends `WriteQueue`, instantiates `OutboxRelay` on the same outbox, adds cache subscriber, console and article page |
| `RetryClock` | the retry time as text |
| `VayuFlow` | stored flows and their editing, inbox, drainer, ticker, Run once now, run trail, restart |
| `MailQueue` | the outbound queue and its overlapping passes |
| `ScheduledMail` | extends `MailQueue`: held messages, sweep, Send now, Cancel, account removal, restart |
| `PluginSandbox` | the pool, invocation, restart, quarantine and shutdown of plugin processes |
| `Payments` | membership orders: confirmation, fulfilment, reversal, tiers and subscriptions |
| `SystemModeProofs`, `WriteQueueProofs` (with the refusal), `ArticleProofs` (pipeline and scheduled posts), `OutboxRelayProofs` (with the retry clock), `VayuFlowProofs`, `ScheduledMailProofs`, `PluginSandboxProofs`, `PaymentsProofs` | theorems |
| `MC*` | instances for TLC |

**Grain of atomicity.** An SQL statement is a step, and only the article
transaction makes several statements one step. `processOneJob` is therefore
eleven actions per worker (`Pick`, `Claim`, `Reject`, `Commit`, `Rollback`,
`ReadRetries`, `Requeue`, `DeadLetter`, `ReadRow`, `Render`, `Complete`), with
the program counter `pc` and the row in hand `held`. The reads before `Enqueue`'s
INSERT are one step, `Submit`: the slug is looked up, then the mode, then the
depth, and only the last matters for the race that is checked.
`Manager.Transition` is one step, since its hooks run under the lock;
`ForceTransition` is two. `publishDuePosts` is the query (`Tick`), `Submit` and
`InsertJob` of the queue for each post (`BeginCreate`, `EndCreate`), and the mark
on its row. `Execute` of VayuFlow is the check, the count of the hour, the INSERT
of the run, each write of its steps and the UPDATE that ends it, per caller;
`flowFromInput` and `Save` are the read and the write of an edit. `ProcessDue`
loads its list in one step and then tries and records one row at a time;
`sendClaimed` is claim, composition and deletion. An invocation of a plugin is
the turn in the pool, what happens under the lock up to the write of the request
(`Send`, `StartAndSend`), the end of the write (`Flush`, `WriteFails`), which may
never come, and the end of the select; the process answers and exits between these. A
confirmation is `MarkPaid`'s UPDATE, the read behind it when it found no row,
and the transaction of `StartSubscription`; a reversal is the read of the
handler, the read and the write of `SetStatus`, and the revocation.

**Abstractions.** An article is its kind (published, draft, page) and the job
whose text it holds; a page in the cache is the job whose text it shows, or the
empty page; an event is its type, slug and job. Age is young, past the
reaper's five minutes, or past retention; rows grow older in id order. A
`retry_at` is "in the future" or not, except in `RetryClock`, which models the
texts; so are `publish_at` and the due time of a held message. A flow is its
trigger, the number of writes its budget allows and a text; how its steps fare
(succeeded, refused, failed) is one outcome, "ended". A mail is an outcome of
the SMTP dialogue. A plugin's reply is the call it answers and a length; a plugin
answers a request with one line and writes no other. Of a
subscription only the active one is kept, as its tier and what brought it: an
order, the operator, or Stripe. Statements that may fail do so by the actions `Fault`,
`LostWrite` and `LoseStatement`, each failure counted against a bound. Deleted
rows have the status `pruned` or `gone` and stay addressable, so that an update
by id finds nothing.

**Constants that are not bounds.** `Offered`, `OfferedModes` and `Documents`
pick the requests, modes and flow texts of an instance, `LongCalls` the
invocations whose request is longer than what the pipe to the plugin holds; the
proofs hold for every choice.

## 3. Runs

| Run | Instance | Shows |
|---|---|---|
| `system_mode` | 2 operators, 3 transitions, 1 restart, 1 lost row | lineage, late rows, journalled mode, refusal |
| `write_queue` | 2 workers, 2 jobs on a slug, 1 fault, 1 reset of a running job, mode changes, retention | status, articles, events, retries; after a refusal each worker commits at most the job in hand |
| `queue_limits` | the ticker with 1 post and an API call, limit 1, 3 jobs, both replay endpoints, batch 1, mode changes, 1 fault, 1 restart | overshoot of the limit; a post is enqueued once per failure, never after a timely cancel |
| `queue_live` | 2 workers, 1 job (an insert, or one no worker can run), 2 faults, 1 restart, 1 replay | every job settles |
| `relay` | 2 commits (4 events), 2 lost statements, 2 failing appends, 1 crash | delivery, duplicates, refinement of `EventDelivery` with its liveness |
| `pipeline` | 1 worker, 3 jobs (6 events), 1 restart, 1 touch: a console change, a page rendered on request or a failing read | stale pages are purged; no uncommitted text in the cache |
| `retry_clock` | days of 20 ticks, 4 days, every start time | neither early nor never |
| `flow` | 1 flow, 1 inbox row, 1 minute, 2 presses by an operator, 2 decisions on the flow, ceiling 1, 1 lost statement, 1 crash | one run and its writes per trigger; the ceiling; finished runs stay |
| `flow_live` | 1 flow with two texts, 2 inbox rows, 1 minute, 3 decisions, 1 lost statement, 1 crash | edits leave nothing armed; rows drain with a record, and all of them |
| `mail` | 1 held message, 1 sender, 3 passes over the queue, 2 attempts, 2 choices, 1 resend, 1 lost statement, 1 crash | composed once, not lost, not composed after a cancel, "delivered" is true, both queues settle |
| `plugin_sandbox` | 2 callers, 1 member, 3 invocations, the second one with a request longer than the pipe, quarantine at 2 crashes, replies of two lengths | replies reach their call, nothing is left behind but the directory of a process that exited by itself, quarantine is final, every call returns if the writes end |
| `payments` | 2 requests at once, 1 buyer, 2 orders for two tiers, 1 fault, 1 crash | one fulfilment per order, tier and subscription agree, an undisturbed reversal takes back the subscription the order started |

Every property of a run has a mutant in `PROJECT.json`: a plausible slip in one
mapped definition under which TLC refutes it. Type correctness is not a run's
business: the theorems of section 5 state or contain it.

Bounds. Races over one row need two workers and one row; a second job on the
same slug brings conflicts, deletions and a page that can be out of date, and a
third one an update that comes behind a deletion. One
slug is enough because no statement relates two slugs; one post, one flow and
one held message are enough for the same reason, as the races are between
actors over one row. Limits of three are taken as one or two where only "below,
at, beyond" matters. One fault lets any single statement be lost at any point;
the liveness runs of queue and relay have two, so that a lost statement can hit
the recovery from another. Two decisions are a creation and a change of mind in
the middle of a run; the third of `flow_live` is an edit after arming. Three
invocations let one be given up, one wait and one come after a restart; members
of a pool share nothing but the turn, so one is enough. Two orders of one buyer
are what a reversal can confuse; a second buyer shares nothing with the first.
Deadlock checking is off where all requests may be used up, which is a quiet
system and not a stuck one; `system_mode` and `payments` never stop and keep it
on. Failing appends and
lost relay statements are explored in `relay`; `pipeline` keeps them at zero to
afford the other parties, and its one request carries the API key, which sees
whatever a visitor sees and drafts besides.

`StalePageHasPurgePending` is stated for one worker, and for the part of a
behaviour in which neither a request nor the console has touched the cache or
the row; `views` and `consoleOps` count these. Beyond that it does not hold, and
within it an update applied behind the deletion of its article is excepted
(`UpdatedNothing`): see the observations of section 4.
`WithdrawnStaysBack` speaks of cancels that come before a tick has read the row;
later ones are an observation too. `ReversalTakesBack` is about the
subscription that the order's fulfilment started. It excepts orders whose
reversal met a confirmation of the same order or lost a statement (`disturbed`),
and says nothing of the new subscription that Stripe's webhook starts for a
reversed order; in both cases the buyer is left with goods, as section 4 shows.
`InvocationReturns` is conditional: it holds of behaviours in which every write
of a request ends (`WriteEnds`), which the code does not see to.
`CancelledStaysBack` says that a cancelled message is not composed again; a row
of the mail queue that an interrupted send had already made is delivered all the
same. `TierFollowsSubscription` excepts members whose request was cut off between its two
statements (`torn`).

**Fairness.** Workers (100 ms ticker), reaper (1 minute ticker), relay (200 ms
ticker), VayuFlow's drainer (5 s ticker), the mail worker and the sweep of held
messages (30 s tickers) and the passing of time are weakly fair: each is a loop
that does nothing else. In `PluginSandbox` the timer of an invocation is weakly
fair, since the runtime fires it whatever the process does, and the entry of a
waiting call is strongly fair, since Go's mutex hands itself to a waiter that
has waited a millisecond. The write of a request is weakly fair where the pipe
holds the request, and where the process is gone, which makes the write fail. The rest of a
longer request has to be read by the plugin, and the plugin, which is not under the
host's control, is not fair in anything. The boot sequence of the mail engine comes to its end.
Requests, replays, mode changes, what operators decide, faults and crashes are
not fair. `EveryJobSettles` assumes in addition that the mode stays open from
some point on, since in a refusing mode jobs are meant to wait. In `RetryClock`
only the clock is fair.

## 4. Observations

The models show behaviours at odds with comments, documents or answers the
program gives. Where a property above excepts a case, this is why.

*Mode and queue*
- Operator A forces a writable mode, B forces read-only, and B's journal row is
  written first: the process refuses writes and reboots into the mode of A's row
  (`mode.go:146`; `main.go:1081-1082`: "a crash in read-only/quarantined used to
  reboot into NORMAL and accept writes nobody re-authorised").
- A sweep reads a dead letter at the limit, the console replays it, a worker
  takes it, the sweep quarantines it, and the worker writes `completed` or
  `pending` over that (`queue.go:314`; ADR-0035:17: "Quarantined jobs are not
  processed further").
- The console's replay of one job never compares `replay_count` with
  `MAX_REPLAY_COUNT` (`handlers_console.go:532`, ADR-0035 point 2).
- On the day of its retry time a row is never due, since `T` sorts behind a
  blank, and waits for midnight UTC (`outbox.go:144`; ADR-0051:25 speaks of a
  backoff of "base 5 s, max 120 s").

*Scheduled publishing*
- A mode that begins to refuse after the tick's check makes `Create` fail, and
  the post is marked failed for good (`app.go:346-347`: "Held, not failed:
  MarkFailed would end a schedule the operator still wants, for a refusal that
  lifts with the mode").
- A post canceled while the ticker has it on its list goes out, and the last
  update replaces `canceled`, which was answered with success.
- After a crash, or a failing UPDATE, between enqueue and mark, the next tick
  finds the slug taken and marks a published post as failed
  (`scheduler.go:10-11`: "Promotion is idempotent").

*Cache*
- A visitor's request reads a published post, the console unpublishes and purges,
  the request stores its page, and nothing purges it again
  (`handlers_admin.go:711`; `admin_os_editor.go:287-288`: "Unpublishing hides it
  from every public surface; both directions purge the public caches so the
  change is immediately visible").
- A draft requested with the API key is stored as the public page
  (`handlers_admin.go:711`; `queue.go:198-200`: "Never write a draft's HTML to
  the public disk cache").
- With two workers on one slug, the page of an insert or update can be stored
  after the invalidation of a later delete was handled, and stays
  (`queue.go:218`, `app.go:951-954`).
- An update that was queued before a deletion and is applied behind it finds no
  row, and the transaction commits with its events all the same; the worker, to
  which a missing row counts as published, renders the page of the deleted article
  (`queue.go:202-207`). If the relay handles the invalidation before the page is
  stored, the page stays (`app.go:951-954`).
- When the article page's read fails with anything but "no rows", an article
  without title and text is rendered and stored (`handlers_admin.go:645`); this
  is an exception inside `CachedTextWasCommitted`.

*VayuFlow*
- An edit is stored as version 1 whatever the stored version is, since
  `flowFromInput` does not carry it over (`vayuflow_author.go:179`;
  `store.go:72-74`: "Every edit bumps the version, in the same statement that
  writes the edit, so a run recorded against version N can always be read against
  the document as it was at N"). It protects the effects: the idempotency key
  contains the version, so if an edit counted on, a crash or a lost `MarkDrained`
  followed by an edit would run a trigger twice.
- A trigger refused by the ceiling, or by a failed count or INSERT, leaves no
  run (`inbox.go:228-231`: "the run trail already records what went wrong, so
  nothing is lost by moving on"). `turnedAway` stands for these.
- Callers that count together pass the ceiling (`runner.go:224-225`: "bounded at
  MaxRunsPerHour per flow per hour by construction"); `RateOvershootBounded`
  says by how much.
- A flow switched off in the middle of a pass still runs from the pass's copy
  (`runner.go:235`: "A disabled flow does not run, on ANY path").
- An edit writes back the switch it read, and undoes a toggle in between
  (`store.go:218-219`: "Editing a flow must not silently change whether it is
  running").
- A failed UPDATE at the end of a run leaves it `running` until the next boot
  calls it interrupted.

*Mail*
- Overlapping passes deliver one message twice, and a late one writes `failed`
  over `delivered` and reports a failure (`queue.go:25-26`, `bounces.go:118-119`:
  "only once per failure").
- A resend is undone by a pass that loaded the row before it (`queue.go:195-196`:
  "restores a fresh attempt budget").
- An account removed between `sendClaimed`'s read and the composition still
  sends (`scheduled.go:73-74`: "nothing goes out from a mailbox that is gone").
- A lost statement leaves a held row `sending` or `cancelling` until the next
  boot; and the queue's worker starts before the accounts are open.

*Plugin sandbox*
- The write of a request has no deadline. `Write` and `Flush` run with the
  member's lock held, before the select that has the timer and looks at the
  caller's context (`subprocess.go:245-250`; `:240`: "Write request with timeout
  enforcement", `:193`: "A timed-out invocation kills and restarts the
  subprocess"). A request longer than the room in the pipe waits until the plugin
  reads or exits; if it does neither, the call never returns, the other calls of the
  member and its `Shutdown` wait for the lock, and no crash is counted. TLC
  refutes `WriteEnds` under `FairSpec` as soon as `LongCalls` is not empty:
  `Invoke`, `Send`, and then nothing that would end the write. A plugin that
  writes lines unasked and does not read gets there with short requests as well:
  its lines end the calls one by one (replies do not name their request) while the
  requests pile up in its stdin. Such a plugin is outside the model, which lets a
  plugin answer each request at most once.
- A process that exits between two invocations is started again without a crash
  being counted (`subprocess.go:213`; `docs/security/attack-surfaces.md:38`:
  "`MaxRestarts` budget; quarantine after exhaustion").
- The limit on a message is put on the whole stdout of a process
  (`subprocess.go:172`; `manifest.go:76`: "limits the size of a single stdout
  message from the plugin"), so that a plugin that answers well is restarted, and
  at last quarantined, once its processes have written enough.
- A restart leaves the scratch directory of the process that exited
  (`subprocess.go:95`); this is the exception in `LeftoverScratch`.

*Payments*
- When Stripe delivers `checkout.session.completed` for an order that is canceled
  or refunded, `MarkPaid` refuses, and the handler, which knows only
  `ErrAlreadyPaid`, goes on to upgrade the buyer by address: pay, fulfil, refund
  and revoke without any race, then `MarkPaid`, `LookUp`, `Upgrade`, `StartPaid`,
  and the buyer of the refunded order has the paid tier and a subscription again
  (`handlers_members.go:464-474`). The comments say that this was the state
  "Before this guard existed": an event "replayed AFTER a refund flipped the
  refunded order straight back to paid and re-granted the entitlement"
  (`payments.go:75-80`, likewise `:291-293`), and of the other gateways' webhook
  that "a captured event cannot re-grant entitlement after a reversal"
  (`handlers_payments.go:585-587`), which is true there. `ReversalTakesBack` does
  not judge this second subscription.
- After a crash, or a failing `StartSubscription`, behind `MarkPaid` the order is
  paid and never fulfilled: every further delivery gets `ErrAlreadyPaid`.
- A cancel that reads the order as pending while a confirmation takes it writes
  `canceled` over `paid` and revokes nothing: `Reverse` notes "not paid",
  `MarkPaid`, `Resolve`, `Write`, and the `Fulfil` that follows starts the
  subscription of a canceled order (`handlers_payments.go:900-902`: "If the order
  had ALREADY been paid, cancelling also revokes what it granted — otherwise
  "cancel" after payment would be a free way to keep the goods"). This is one of
  the two cases that `disturbed` marks; the other is a reversal that lost a
  statement.
- Two reversals at once overwrite each other (`payments.go:315-316`: "Terminal
  states (canceled, refunded) accept no further changes"); and a reversal whose
  revocation failed does not revoke when it is repeated, since the order is no
  longer paid then.
- A refund ends whatever subscription the buyer has, also one bought with another
  order.
- No caller gives a subscription a period end, so that a scheduled cancellation
  never comes into effect.

## 5. What is proved

The proofs assume only the named ASSUMEs of the modules: limits and bounds are
natural numbers, `Workers`, `Producers` and `Operators` finite, `Offered` and
`Documents` well-formed, thresholds positive, and the values "none" and "nobody"
not the name of a post, flow, message or order. Every bound is arbitrary, so the theorems cover any
number of faults, crashes, jobs and processes.

`SystemModeProofs`
- `TypeCorrect`; `LineageHolds` by an induction over what a step can do to
  mode and history (`StepKinds`: nothing, one appended record from the present
  mode, or a restart, whose restored tail is exempt);
- `RefusalHolds`: no automatic target is reachable from a refusing mode through
  the graph, except another refusing one (`AutomaticKeepsRefusal`);
- `OnlyForcedRowsLateHolds`: strengthened by "no row is later than the clock,
  and neither is any record still to be journalled";
- `ModeIsJournalledHolds`: strengthened to "the last entry of the history is a
  row of the journal or still waits in the hooks of a forcing operator".

`WriteQueueProofs`
- `TypeCorrect`, with the extra invariant that a worker past `Pick` holds a row
  that exists, without which its fields cannot be typed;
- `CompletedWasCommittedHolds`: strengthened to the workers that are about to
  write `completed`; the outbox only grows, so nothing can undo it. `StepEffects`
  says once, for all actions, what a step may do to the outbox;
- `ArticlesFollowEventsHolds`: inductive given types; the work is in moving the
  witness past two appended events, for the slug at hand and for the others;
- `RetriesBoundedHolds`: not inductive, as a worker that has read the counter
  and not yet raised it carries a debt. The invariant is `retries[j]` plus the
  number of workers about to raise it at most `MaxRetries + |Workers| - 1 +
  faults`; a worker may join the debtors only while the counter is below the
  limit, or by a fault;
- `FreshBacklogBoundedHolds`: inductive given types. Only the two halves of
  `Enqueue` take anything into the queue (`StepTakesNothingIn`); the first adds a
  call below the limit, the second turns a call into a row;
- `RefusalTakesEffectHolds`, of `WriteQueueRefusal`: strengthened by "a worker that may still commit has
  not done so since the refusal began, and in an open mode nothing is counted".

`ArticleProofs`
- `PublishedWasQueuedHolds`, `PromotedAgainHolds`, `WithdrawnStaysBackHolds`. The
  invariant behind them says of a post that may still be enqueued (`Owed`: on
  the ticker's list, being created, or scheduled and not just created) that every
  job it already has was paid for by a failure. The bound alone is not
  inductive: a post with a job and without a failure must be known to be out of
  the ticker's reach;
- `QueueServesTheTicker`: a step of the schedule is one of the queue or at most a
  request or a failure beside it (`QueueOrAside`), so the invariants of
  `WriteQueueProofs` hold with the ticker as a producer, in particular
  `FreshBacklogBounded`, as the run `queue_limits` checks it;
- `CachedTextWasCommittedHolds`, for any number of workers, requests and console
  changes: the cache is written by workers and by requests, so what each of them
  carries, and what the rows hold, must have been written by a committed job as
  well (`TextInv`). It rests on the type invariant of the queue, which the other
  parties leave alone; that is why `TypeOK` keeps the cache apart;
- `StalePageHasPurgePendingHolds`, for any number of jobs, slugs, crashes and
  lost statements: the same must hold of the page a worker is about to store, and
  an update must be known to concern an article that was once created
  (`CreatedFirst`), which is what leaves the update behind a deletion as the only
  exception (`StaleInv`). The exception was found by this proof: with two jobs it
  cannot happen;
- `RelaysAsAloneHolds`: the relay in the composition implements `OutboxRelay`
  (`RelayAlone`, which maps events to their types and restarts to crashes). A
  commit is an `Emit`, every step of the relay is the same step alone, the rest
  stutters; so the theorems of `OutboxRelayProofs` apply behind the queue;
- `QueueKeepsItsPromises`: a step of the composition is one of the queue or
  leaves it alone (`QueueOrBeside`), so the invariants of `WriteQueueProofs` carry
  over; `ArticlesFollowEvents` only until the console writes to a row itself.

`OutboxRelayProofs`
- `RelayTypeCorrect`, the bound on retries included;
- `DeliveredReachedConsumersHolds`: strengthened by what each program counter
  value implies of the row in hand, and by "an id in `delivered_events` was
  received";
- `RelayImplementsDelivery`: each step of the relay is a step of
  `EventDelivery` or leaves its variables alone. The row in hand is pending from
  `Fetch` to the end, which is why nothing is delivered after it was abandoned;
- `RepublishedOnlyAfterFailureHolds`: an account per event, in half
  publications (`Settled`): twice the publications are at most twice the crashes
  and failed appends, plus the lost statements, plus a credit that depends on
  where the row stands. A row about to be published again has no credit, a pending
  one that `delivered_events` knows has half a publication, one that is settled or
  was just published a whole one;
- `NeverTriedEarlyHolds`, of `RetryClock`: the stored text is that of the end of
  the backoff (`ClockInv`), and the comparison of the two layouts makes a row due
  on a later date only (`DueByDate`).

`VayuFlowProofs`
- `FlowTypesHold`, `FlowEffectsOnce`, `FlowEditLeavesUnarmed`,
  `FlowTerminalIsFinal`, `FlowDrainedOnRecord`, `FlowRateBounded`. The common
  invariant has a shape (types, every stored flow at version 1, no edit begun on an
  armed flow, passes and calls that fit what they loaded) and a part about runs: at most one
  run per flow and trigger (the unique key, together with "every version is 1"),
  a call past `Begin` is the only owner of a running row, and the effects of a
  trigger are at most the writes its call has made so far. The ceiling needs the
  number of callers that have counted and not begun, as a debt on the count of
  the hour; draining needs that every flow the pass has ticked off is on record.

`ScheduledMailProofs`
- `MailTypes`, `MailComposedOnce`, `MailNothingVanishes`,
  `MailDeliveredWasHanded`, `MailCancelledStaysBack`. The invariant is that the
  claim is a lock (a row in `sending` or `cancelling` has one owner at most), that
  a claimed message has not yet been composed for the present choice, that a row
  is deleted only by who has earned it, and that nothing follows a completed
  cancel; for the queue, that an outcome in hand was the server's.

`PluginSandboxProofs`
- `RepliesReachTheirCallHolds`, `NoOrphanProcessHolds`, `LeftoverScratchHolds`,
  `QuarantineIsFinalHolds`, for any number of members and callers. The common
  invariant (`SandboxInv`) has the types, that no two members share a process and
  no two calls a member's lock, that a call writes to and reads from the process
  its member has, and what is in the pipes (`PipesOK`): while a call reads, stdin and stdout
  of its process hold at most its own request or its own reply, and
  otherwise the pipes of a process are empty. That is why a call that
  gives up has to take the process with it.

`PaymentsProofs`
- `TypeCorrect`;
- `FulfilsOnce`: strengthened by "of one order one request at most is about to
  fulfil, the order is not open then, and an order that is open or about to be
  fulfilled has not been";
- `TierFollows`: the exception is what has to be inductive. Whoever wrote a tier
  the subscription does not name is still there: some request between its two
  statements carries the present tier of the member, or the member is torn;
- `ReversalRevokes` (`ReversalTakesBack`): of an order that was not disturbed, a reversal and a
  fulfilment do not meet, a reversal that noted "not paid" stays right, and what
  a reversed order bought has a request ahead of revoking it. It rests on
  `FulfilsOnce`: a fulfilment after the revocation would undo it.

## 6. What is only model-checked

Liveness (`EveryJobSettles`, `DueInTheEnd`, `EveryRowDrains`, `DueIsTaken`,
`QueueSettles`, `InvocationReturns`, the fair half of `ImplementsDelivery`) is
beyond the prover. Every other property of a run is a theorem. That every due
post of the scheduler leaves the list in the end is not checked.

## 7. What is left out of the modelled parts

- The static flag `VAYU_MAINTENANCE`, which stops workers for a whole run.
- `ErrPoisonEvent` and unparsable envelopes: the queue writes the envelopes and
  no dispatch function returns the error. An install whose VayuFlow engine did
  not start: its inbox is absent and the append a no-op.
- Articles as fields: a partial update is merged with the stored row, not with
  jobs still queued (a listed hazard).
- Gated posts, the page cache switched off, AdSense pages and other layouts,
  none of which are stored; the pages of home, tags and feeds.
- Other direct writers of `articles`: editor save, slug rename, pin, version
  restore, imports, diagnosis endpoints.
- At most one console change per slug, and one edit of a flow, is in progress at
  a time; one kicked pass over the mail queue.
- Retention deletes in batches with two cut-offs; the model deletes all expired
  rows at once, under a single age. VayuFlow's pruning after 30 and 90 days is
  left out.
- Scheduled publishing: validation of the staged text, the storage quota (one
  more reason for a refusal), the limit of 50 posts a tick.
- VayuFlow: conditions, the owner's role and the outcome of single steps; every
  flow has the same ceiling.
- Mail: reports of failures (`bounces.go`), the limit of 100 rows and their
  order, the number of attempts as a column of the row, corrections of the clock.
- Sandbox: kernel confinement (seccomp, namespaces, cgroups), telemetry, the
  watchdog, which nothing starts; a start that fails is one outcome; a plugin that
  writes lines nobody asked for.
- Payments: orders for a mail address, a post or an advertisement; scheduling and
  resuming a cancellation, and the expiry of periods; trials, gifts and coupons;
  what a gateway is asked before an order is confirmed.
- The escalation rules of `DefaultRules` with thresholds as constants; budgets
  become exhausted and recover at any time.

## 8. Plan

In this order:

1. Done: the modules of section 2, their runs, and the theorems of section 5.
2. Done: a proof of every safety property of the runs, and the refinement of
   `OutboxRelay` by the pipeline. Left: the theorems of `OutboxRelayProofs`
   restated for the pipeline, and those of one module for compositions to come.
3. Articles as fields: the article service's read-merge-enqueue and the editor's
   save over the queue (lost updates).
4. `VayuFlow` composed with `OutboxRelay` through the inbox.
5. Plugin hooks in front of the sandbox; webhook delivery; the event stream hub.
6. Migrations, and applying an update with its pending restore, across crashes;
   start order and draining on shutdown.

**Not modelled.** The larger part of the repository renders pages, formats text
or speaks protocols on the wire: console pages, themes, markdown, IMAP and DAV
servers, importers, request scoring. These are functions of their input with no
state that several actors share, or I/O whose other side is not in the
repository; a state machine of them would repeat the code without a property to
check.

## 9. Running

    tlc -workers 2 -config MCWriteQueueRefusal.cfg MCWriteQueueRefusal
    tlapm WriteQueueProofs.tla
