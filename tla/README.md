# A verification project for sports-data-admin

TLA+ models of the parts of this repository in which order, concurrency and
failure decide whether the program is right; TLC configurations that check them
on small instances; and proofs, checked by TLAPS, of the invariants that matter
most for every size of the system.

Paths of code below are relative to the root of the repository.
`PROJECT.json` lists every run, the source lines of every definition (`map`),
the hazards, the findings and the theorems.

    tlasany M.tla                          # parse
    tlc -workers 2 -config X.cfg M         # one run (M and X.cfg from the table below)
    tlapm RealtimeProofs.tla               # proofs; likewise the other *Proofs modules

## 1. The system

Python services around one Postgres database and one Redis server, and a
Next.js front end:

* the **API** (`api/app`), several processes of one event loop each: sports
  data, realtime streams, onboarding and payment, clubs and golf pools;
* the **scraper** (`scraper/sports_scraper`), Celery workers that ingest games,
  plays and odds, move games and golf pools along their life cycles, and
  generate game flows;
* Celery workers of the API (`api/app/tasks`): webhook retries, training,
  simulations, bulk flow generation;
* the **web application** (`web`), whose hooks consume the realtime streams.

They interact through the database (rows, row locks, `LISTEN`/`NOTIFY`), Redis
(the event stream, locks, caches), Celery messages, and HTTP with browsers and
with Stripe.

### Inventory

| Component | State it keeps | Operations | Talks to | What is hard | What makes it correct |
|---|---|---|---|---|---|
| Realtime fan-out: `realtime/manager.py`, `streams.py`, `sse.py`, `ws.py` | Redis: numbers per channel, one stream, a group per process. Process: boot epoch, two registry maps, callbacks, dispatch in progress. Connection: a bounded queue | publish, read, dispatch, subscribe, unsubscribe, disconnect, boot, stop | listener and catch-up publish; endpoints subscribe; other processes through Redis | two Redis commands per publish, a dispatch suspended in each send, a replay that is sent beside it, restarts, lost replies, slow clients | numbers unique; maps agree; every registered connection is handed every entry once and in order; a replay leaves no gap; every process reads the whole log |
| Resume: `sse.py`, `streams.py:fetch_backlog`, `useLiveGameScore.ts` | endpoint: position in backlog and live queue. Hook: last number, last epoch | connect, replay, live, error, refetch | fan-out, stream | seam between backlog and live queue; restart and refetch that fails | nothing missed across a reconnect; a restart is never hidden |
| Listener and catch-up: `listener.py`, `poller.py`, writers' `pg_notify` | LISTEN connection, play cursor, status cache, a task per notification | notify, query, publish, catch up | Postgres, fan-out | tasks of one game interleave; notifications are lost while disconnected; some writers send none; cursor moves before publish | no play is skipped; a row that was notified reaches subscribers |
| Single flight: `services/single_flight.py` | a future per key | `run` | routes with costly queries | cancellation of any caller at any await | one computation per key; all callers share its outcome |
| Checkout, claim, provisioning: `commerce.py`, `onboarding.py`, `provisioning.py`, `db/__init__.py` | session, account, club, pool rows | create checkout, claim, provision | Stripe | the commit comes after the response; two requests on one row | paid once, claimed once, one club per slug, nobody has a club unpaid |
| Stripe webhooks: `webhooks.py`, `webhook_retry.py` | processed events, attempts, subscription rows | deliver, mark, handle, enqueue, retry, record | Stripe, Celery | duplicate and concurrent deliveries; worker loss; failing statements and commits | applied at most once; an event that was acknowledged leaves a trace; what a retry records as done is done (it is not, see section 5) |
| Onboarding state machine: `onboarding_state_machine.py` | `status` of a session | transition | claim | webhook bypasses it | no transition backwards |
| Entitlements, memberships, clubs: `entitlement.py`, `club_memberships.py`, `clubs.py`, `billing.py` | memberships, pools per club, plan | invite, accept, create pool, subscription gate | webhooks | count, then insert in the same transaction without a lock | limits of the plan hold |
| Golf pools: `pool_lifecycle.py`, `pools.py`, `pools_admin.py`, `golf/pool_scoring.py` | pool row (status, deadline, start, scoring), entries, score rows, leaderboard | submit, upload, delete; open, lock, go live, finalize, patch, delete; automatic lock and activation; score, rescore | API and scraper on one row, without row locks | writers decide on a status read earlier; passes overlap; entries go while they are scored | due pools go live; final pools stay so unless a late update hits; scores end as those of the last leaderboard, of entries that exist; entries per e-mail |
| Pool scoring: `golf_pool_scoring.py`, `golf/pool_scoring.py` | none (pure) | validate, score, qualify, rank | leaderboard sync | missed cuts, ties, golfers not listed, missing scores | the best scores count; ranks agree with totals; who is out stays out |
| Game life cycle: `game_state_updater.py`, `persistence/games.py`, `polling_tasks.py`, `sweep_tasks.py`, `quality_review.py` | game status, end, data, social posts, timeline | promote, cancel, archive; poll; feed; repair; recap; drop a timeline | listener, flows | seven writers of one status, each on a row read earlier | a finished game is taken back only by a late commit; an overdue game ends; phantoms go; what is archived has its posts, and its timeline until a reviewer deletes that |
| Flow pipeline and grading: `services/pipeline`, `flow_trigger_tasks.py`, `grader_task.py`, `regen_flow_task.py`, `db/hooks.py`, `quality_review.py` | recap status, flow and its grade, trigger lock, messages | tell, trigger, run, write, commit, grade, regenerate, fall back, reject | Celery, HTTP to the API, game status | messages sent before the commit; runs and graders that overlap; clients that stop waiting | a pending recap settles; what is written is graded; a low flow is replaced; attempts are limited |
| Scrape runs and Redis locks: `scraper_runs.py`, `jobs.py`, `scrape_tasks.py`, `run_manager.py`, `job_runs.py`, `redis_lock.py`, `celery_app.py` of the scraper | two rows per run, message, a key per league with token and TTL, revocations of a worker | create, execute, cancel; acquire, release, force; worker ready, shutting down | Celery, database, Redis | messages sent before the commit; every worker that starts clears all locks and all open rows; tasks killed at any step; errors before the first status | an ingestion holds its lock until that is taken away; a release spares the lock of others; rows do not stay open |
| Live orchestrator: `live_orchestrator.py`, `live_odds_tasks.py` | last dispatch times in Redis | tick, dispatch | locks, Celery | marking before the dispatch succeeded | each due game is polled again |
| Magic links and accounts: `routers/auth.py` | tokens, accounts | request, redeem | e-mail | one token redeemed twice at a time | redeemed once |
| Response caches and circuit breakers | entries in Redis, failure counts | get, put, open, close | routes | best effort by design | stale for at most the TTL |
| Rate limits, audit, resolution tracker | counters and single rows | insert, update | their owner only | little | – |
| Feeds, normalisation, odds ingestion, social collection, EV mathematics, analytics, read-only routes, UI packages, infrastructure | documents and numbers | translation, arithmetic, rendering | external services | data, not control | – |

The components of the last two rows are not modelled and will not be, for
the reasons `PROJECT.json` gives: they have one writer, or no state, or work on
floating-point numbers, texts and pages, which is out of TLC's reach.

## 2. Modules

| Module | Models | Used by |
|---|---|---|
| `BroadcastLog` | the abstract promise of the bridge: one log, read by every process from the moment it attached, entry by entry | refined by `RealtimeStream` |
| `RealtimeStream` | fan-out: Redis commands, processes, dispatch, connections | `RealtimeResume`, `RealtimeProofs` |
| `RealtimeResume` | SSE endpoint and hook on top of `RealtimeStream` (composition: its actions conjoin those of the fan-out) | `RealtimeProofs` |
| `RealtimeProofs` | theorems about `RealtimeStream`, and about `RealtimeResume`, to which they carry over | |
| `RealtimeListener` | writers, notifications, handlers, catch-ups, up to what is published | `RealtimeListenerProofs` |
| `RealtimeListenerProofs` | theorems about `RealtimeListener` | |
| `SingleFlight` | `SingleFlight.run` | `SingleFlightProofs` |
| `SingleFlightProofs` | theorems about `SingleFlight` | |
| `Commerce` | Stripe, the database, API requests and Celery tasks from checkout to club | `CommerceProofs` |
| `CommerceProofs` | theorems about `Commerce` | |
| `GolfPool` | one pool: entries, administrators, the passes of the scraper | `GolfPoolProofs` |
| `GolfPoolProofs` | theorems about `GolfPool` | |
| `GolfScoring` | validation, scores and ranks as operators, over a changing leaderboard | `GolfScoringProofs` |
| `GolfScoringProofs` | theorems about `GolfScoring` | |
| `GameLifecycle` | the status of one game and all its writers | `GameProofs` |
| `FlowPipeline` | the flow of one game, from its trigger to its grade. It takes from `GameLifecycle` that a feed may reset a recap (`Refeed`) | `GameProofs` |
| `GameProofs` | theorems about `GameLifecycle` and `FlowPipeline` | |
| `ScrapeRuns` | the scrape runs of one league, their task, cancellations, and the workers | `ScrapeRunsProofs` |
| `ScrapeRunsProofs` | theorems about `ScrapeRuns` | |
| `MC…` | model values and symmetry for TLC | the `.cfg` files |

`… (Mutant of X)` in a module is a plausible bug of definition X. It is no
part of the specification: substituted for X it makes the property `PROJECT.json`
pairs it with fail, which shows that the property says something of the code.

### Grain of the models

An API process is an event loop: it changes tasks only at an `await`. So one
action is what one task does between two suspensions, or one command of Redis,
or one statement or commit of Postgres. Where the code's atomicity is finer (two
commands with an await between them) there are two actions; where it is
coarser, one.

**`SingleFlight`.** `Lead` and `Follow` are the two branches of `run` up to the
first suspension; `Settle` is the end of the computation with `set_result`,
`set_exception` and the `finally` clause; `Resume` is a follower whose future is
done; `Cancel` is `task.cancel()`, which cancels the awaited future itself.
The lock is never held across an await, so it is always free.

**`RealtimeStream`.** `Publish` is `HINCRBY`, `XAdd` the `XADD` with its
approximate `MINID` trim, `PublishError` a failing one. `XReadGroup` takes a
batch; entries `done[p]+1 .. group[p]` are the batch a process holds.
`HandleEntry` takes the snapshot of subscribers and runs the dispatch up to the
first `await send` of a WebSocket (`SuspendIn`); `EndSend` goes on from there.
SSE sends never suspend: they put into a bounded queue or overflow. A WebSocket that
subscribes with `lastSeq` is replayed the backlog channel by channel (`FetchReplay`), each
entry by a send of its own (`SendReplay`), straight to the socket to which the dispatch
sends meanwhile; `replayed` records what was sent. Order within
the snapshot is that of a Python set, so any order is allowed. `Subscribe`
schedules the catch-up of a first subscriber; `CatchUp` runs it. `Boot` makes
an epoch and a group at `$`; `Crash` also stands for `stop()` and exit. An event is
its channel, number and epoch; payloads are left out.

**`RealtimeResume`.** `Connect`, `StartStream`, `ReplayBacklog`, `WriteLive`
and `EndStream` are the stages of `sse_endpoint` and `_event_generator`;
`OnMessage`, `OnError` and `Refetched` are the hook's handlers. `wire` is what
is between the two. A backlog is the set of positions it has, written in the order of
the stream in one step, since nothing is awaited between its writes and the client reads
them one by one: the live queue waits. (The replay of a WebSocket has no queue and does not
keep the dispatch waiting; it is in `RealtimeStream`.)

**`RealtimeListener`.** `UpdateGame`, `InsertPlay`/`CommitPlay` and
`OtherWrite` are the transactions of the scraper and the pipeline that call
`pg_notify`. `UpdateUnnotified` stands for the writers that change status or scores without
(boxscores, the updater, the sweep, the flow trigger), and a commit of plays may raise the
scores and notifies of the plays only. `owed` is history: the version of each row at its
last notification, or at the start of the subscription. A notification starts a task (`OnNotify`), which is suspended in its
query (`Query`: the snapshot is taken when Postgres runs it), in the answer
(`ResumeScore`, `ResumePlays`, `ResumeCatchUp`) and in each `publish`. Both
caches are LRU dictionaries that `get` does not refresh; they evict here too.

**`Commerce`.** A request or a task is a job of a worker, and its transaction
holds the rows it wrote or selected `FOR UPDATE` (`locks`) until it ends. `Mark`
is `INSERT … ON CONFLICT DO NOTHING`, which waits for an uncommitted insert of the
same event; `Handle` is the handler of the event and the answer; the commit is
a later action, because `get_db` commits when the response has been sent.
`DatabaseError` is a failing statement with the fallback to Celery, `Record` the
bookkeeping and retry of the task, `CommitFails` and `WorkerLost` what they say.

**`GolfPool`.** `Decide` reads the row and applies the guards of the state machine,
`Apply` is the UPDATE by id with its commit; between them anything may happen.
A pool has a limit of entries per e-mail, or none (`None`): a submission then takes the
default, and an upload does not count at all, nor if the limit is 0.
A submission reads the pool (`Submit`), counts and inserts (`CreateEntry`,
`RefuseEntry`) and commits (`CommitEntries`); what others have not committed it
does not count. An upload does the same row by row without the guards of a
submission. A pass of the scraper is `Tick` (the query of pools past their
deadline), `AutoLock`, `LookActivate` (the query of those past their start),
`AutoActivate`, `LoadPool`, `LoadLeaderboard`, `UpsertScores`. A score row is the
version of the leaderboard it came from and the set of entries it was ranked
among; how those become numbers is `GolfScoring`.

**`GolfScoring`.** One action, `SyncRow`, changes the leaderboard; the scores are
what `ScorePool` makes of it. The operators follow the functions; sums and sorts
are stated as which picks and entries come before which, in the stable order of
the code. The scraper's copy of the functions does the same on dictionaries.

**`GameLifecycle`.** Time is what the code makes of it: before the pregame window,
in it, while the game may be played, past its estimated duration, past the
postgame window, a week later. A job reads the row and computes what its UPDATE
will change (`ReadFeed`, `ReadPoll`, `ReadRepair`, `ReadUpdate`, `ReadTrigger`, and
`ReadArchive`, the daily sweep, which archives without the updater's lock);
`Commit` writes those columns, whatever the row is by then, as the session does.
`ReadUpdate` is the five queries of a pass in one, because they share a
transaction and see each other's writes. Scores, plays and boxscores are `played`;
recent data is `fresh`, which runs out (`FallSilent`). A timeline is made once (`GenerateTimeline`)
and may be deleted by a reviewer at any time (`DropTimeline`), of an archived game too.

**`FlowPipeline`.** A run is one transaction of the API (`StartRun`, `FindFlow`,
`WriteFlow`, `CommitRun`), and its stages before the write are one wait, which may
end without a flow. A client that stops waiting leaves the run to itself
(`TimeOut`). A flow is the number of the run that wrote it, or the template, and
whose grade it carries. A grader reads (`FetchFlow`), scores and writes
(`ScoreFlow`), and overwrites with a template (`ApplyFallback`); the worker runs any number
of them at a time (`gradings`), and one that read an older content may write last (`Late`). `GoFinal` is the commit of
a final status, after which a hook of the ORM tells the trigger; `DispatchEarly` a message
that comes before it. `RejectFlow` is a reviewer who deletes the row, under runs and
graders that refer to it. `excused` records
why a flow may be ungraded or low without a fault of the model.

**`ScrapeRuns`.** A message names its task and both rows. `CreateRun` sends it
after a flush and `CommitRun` commits; a worker that is faster finds nothing, which
counts as an incident. An execution goes through `run_scrape_job` and its wrapper
one transaction or one Redis command at a time: `FindJobRun` and `Activate`,
`AcquireLock` or `FailLock`, `ForceRelease` (after five seconds) and once more,
`StartIngestion`, `EndIngestion`, `ReadJobRun` and `CompleteJobRun`, `ReleaseLock`.
`RefuseIngestion` is an error before the first status and outside the `try` that writes
one; `FailToFind` and `FailCompletion` are failing transactions of the job run.
`saw` is the status a transaction read and will overwrite by id. A worker that
becomes ready goes through `ClearLocks`, `MarkStaleRuns`, `MarkStaleJobs`; the worker
of another queue (`Others`) does the same to the same rows. `Revoke` is Celery's
kill, which reaches the worker or not. `lost` and `excused` are history: whose lock
was taken away, and which rows, of the run or of the job run, may stay open for a reason
`RowsSettle` names.
Left out: `partial_success` (a success here), the second row of a job run that was
interrupted, job runs that an ingestion opens for its phases, other leagues. The
worker executes any number of tasks at a time.

## 3. Runs

Each run with a size is complete: TLC finds no more states. Sizes are distinct states.

| Run (`cfg`) | Instance | States | Shows |
|---|---|---|---|
| `single_flight` (`MCSingleFlightCancel`) | 3 callers, 2 keys, anybody cancelled, fairness | 4,447 | `OneComputationPerKey`, `NoStaleAnswer`, `EveryCallEnds` |
| `realtime_incidents` (`MCRealtimeIncidents`) | 1 process, 2 channels, limit 1 per connection, a WebSocket that asks for replays and an SSE client with a queue of 1, 1 event per channel, 2 boots, every incident (crash, failed publish or send or catch-up, lost reply, reused group, late reader, trim) | 1,370,598 | `RegistryConsistent`, `InStreamOrder`, `ReplayLeavesNoGap` |
| `realtime_live` (`MCRealtimeLive`) | 1 process that crashes and restarts twice, a WebSocket and an SSE client with a queue of 1, 2 events, failing sends, trimming, fairness | 23,040 | `NoGapWhileSubscribed`, `SubscriberServed`, `FirstSubscriberCaughtUp`; the bridge implements `BroadcastLog` (`EveryProcessReadsTheLog`), which has no entry twice |
| `resume_backlog` (`MCRealtimeResume`) | 1 process that restarts, a hook that connects twice, 3 events, trimming, failing refetches | 1,443,782 | `ResumeComplete`, `RestartRefetched` |
| `listener` (`MCListener`) | 1 game, 2 writes of any kind, 2 subscriptions, batches of 2, caches of 1, writers that notify or not; lost connection, failing queries and publishes | 3,566,471 | `NoPlaySkipped`, `PlaysAnnounced`, `NotifiedRowServed` |
| `commerce` (`MCCommerce`) | 2 claims of one slug, 2 workers, 2 events, 3 deliveries, 3 incidents, every incident and event type, 1 retry | 975,284 | `AppliedOnce`, `ClaimedOnce`, `ClaimedStays`, `NoEventForgotten`, `PaymentShows`, `ClubsPaidFor` |
| `pools` (`MCGolfPool`) | 1 pool, a draft without a limit or locked with a limit of 1, which a patch may change to 1 or 0 (the default is 1), 2 requests of 1 e-mail, 1 administrator, a pass and a rescoring, uploads of up to 2 rows, 2 entries, 1 version of the leaderboard that comes while passes run, 1 fault, fairness | 1,500,752 | `GolfTypeOK`, `EntriesPerEmailBounded`, `FinalStays`, `ScoringStarts`, `BoardCatchesUp` |
| `scoring` (`MCGolfScoring`) | 4 golfers, 3 entries of which 2 of 3 picks count, with and without buckets, any leaderboard and any next one | 43,923 | `BestScoresCount`, `RanksFair`, `OutStaysOut` |
| `games` (`MCGameLifecycle`) | 1 game; an updater, a poller or repair, a feed of 5 statuses, the trigger, a reviewer, 1 fault, fairness | 634,872 | `GameTypeOK`, `FinalHolds`, `GameEnds`, `PhantomsGo` |
| `flows` (`MCFlowPipeline`) | 3 runs, 2 at a time, any number of graders, 1 regeneration, 1 loss, fairness | 792,270 | `FlowTypeOK`, `RecapSettles`, `FlowGraded`, `LowReplaced` |
| `scrapes` (`MCScrapeRuns`) | a manual and a scheduled run, the worker of their queue and another that starts in between, 1 incident (cancellation, shutdown or loss, hold, expiry, failure, kill), fairness | 834,698 | `HeldWhileIngesting`, `CanceledStays`, `RowsSettle` |
| `commerce_retry` (`MCCommerceRetry`) | 1 event, 1 database error | – | finding: `RetryApplies` fails |

### What the properties are about

* `OneComputationPerKey`, `NoStaleAnswer`: the entry of a key is dropped in
  `finally`, after the future is settled. Whoever is cancelled in between, no
  second computation starts and nobody joins one that is over.
* `InStreamOrder`, `NoGapWhileSubscribed`: the dispatch works on a snapshot
  and is suspended in every send, while connections come, go, overflow, time
  out and are replayed the backlog. The dispatch hands nothing twice or out of stream
  order, and a connection that is still registered has every entry dispatched since it
  joined. What a replay sends beside the dispatch is in no order with it, and numbers of
  a channel may come in another order than they were given (section 5).
* `ReplayLeavesNoGap`: a WebSocket subscribes before its backlog is read, while the dispatch
  may be in the middle of an entry: what it asked for is replayed or comes live.
* `RegistryConsistent`: the two maps of the manager agree and name open
  connections of their own process, though a dispatch disconnects from its own
  list of the dead after connections closed themselves.
* `EveryProcessReadsTheLog`: refinement of `BroadcastLog`, with the stream as
  the log, the entries a process is done with as its position and the processes
  that are up as the readers.
* `ResumeComplete`: the endpoint subscribes before it reads the backlog. What was
  published in between comes twice rather than never.
* `RestartRefetched`: no event of a new epoch reaches a hook before
  `epoch_changed`, which would hide the restart.
* `NoPlaySkipped`: tasks of one game read the cursor, query, move the cursor
  and publish in any interleaving, and the cursor may go back. A play it has
  passed is published, is held by a task that will publish it, or was lost by a
  failed `publish`.
* `PlaysAnnounced`, `NotifiedRowServed`: when nothing is under way, subscribers
  have been sent the plays, and the row as of the last notification or of their own start,
  unless a notification was lost or a task failed (`missed`). Plays beyond the first batch
  wait for the next notification. That the row is the current one does not hold: not every
  writer notifies.
* `AppliedOnce`, `ClaimedOnce`, `ClaimedStays`, `ClubsPaidFor`: what row locks
  and unique indexes keep although requests overlap and Stripe repeats itself.
* `NoEventForgotten`: an acknowledged event is processed, under way, queued, or on record as
  a dead letter or as a success of the retry, or it was lost by a commit or a worker after
  the answer or with the record of its last attempt. That a recorded success has been
  applied, `RetryApplies`, fails.
* `EntriesPerEmailBounded`: the count comes before the insert. Requests that overlap may
  exceed the limit together, each by its own entries and no more. An entry respects the
  limit it was added under; one uploaded to a pool without a limit has none.
* `FinalStays`, `ScoringStarts`: the API and the passes write a status they decided
  on earlier. A final pool is taken back only by such a late write, and a pool whose
  start has passed goes live whatever writes undo each other.
* `BoardCatchesUp`: passes overlap and the older one may write last; a later pass
  repairs the board. `GolfTypeOK` includes that no score is kept of a deleted entry.
* `BestScoresCount`, `RanksFair`, `OutStaysOut`: the sort-and-take of the code against
  all choices of as many scores; ranks against the number of better entries; and
  what a new leaderboard may change of an entry that is out.
* `FinalHolds`: `resolve_status_transition` compares with a row read earlier; a game goes
  back from final only by the late commit of who saw it open, or from a recap,
  which feeds take for scheduled. `GameEnds`, `PhantomsGo`: the updater ends what feeds
  forgot and cancels what never took place. `GameTypeOK` includes that what is
  archived has its posts, and a timeline that is there or was deleted by a reviewer,
  whoever archives it and however old the row was that he read. It need not have an end:
  the updater may cancel as a phantom what the sweep has found over.
* `RecapSettles`, `FlowGraded`, `LowReplaced`: the trigger, the runs, the graders and the
  regeneration tell each other by messages sent before the commit and by calls that
  may time out. Nothing stays pending, ungraded or low but in the ways the
  properties list. `FlowGraded` lists the grader that writes last what it read first;
  `LowReplaced` says that a low grade ends in a flow found good, a template or none, and lists
  refused regenerations, after which a low flow stays. `FlowTypeOK` includes the limit of
  regenerations.
* `HeldWhileIngesting`: the lock is released by token although starts, cancellations and
  other runs take it away: who lost it does not cost the next one its own.
* `CanceledStays`: a cancellation is undone only by who had read the row before it.
* `RowsSettle`: although workers mark rows that others work on, rows end unless the
  task was killed, came before the commit, was held, or could not write. The run of an
  ingestion that is refused stays pending, its job run does not.

### Bounds, and why they are enough

Every bound is a constant: `MaxEvents`, `MaxBoots`, `MaxWrites`,
`MaxSubscriptions`, `MaxDeliveries`, `MaxIncidents`, `MaxFaults`, `MaxLosses`,
`MaxIds` (entries ever made), `UploadRows`, `MaxClock` (deadline, start), `MaxRounds` (versions of the
leaderboard), `MaxReads` (by feeds, in `GameLifecycle`), `MaxRuns` and `MaxQueued`
(of `FlowPipeline`). They are guards of the actions they bound, and so is `MaxAtATime`; `Limits`,
`DefaultMax` and `MaxAttempts` are limits of the code. The properties relate two actors or two entries; two of each,
with one more step of a third kind, is what it takes to violate them (processes meet in the
stream only, so that one that publishes in several tasks and restarts does for the dispatch), and the
mutants show that each is violated within these bounds when the code is wrong.
Queues of one, batches of two, a channel limit of one and caches of one entry
are full after one step. What two writes, one game and one slug cannot show is
covered by the theorems where there is one: they hold for every value of the
constants. The instance of `listener` with two statuses or two games is too
large for TLC in reasonable time; eviction of another game's cursor is covered by
the proof and not by the run. `commerce` uses symmetry of the workers, which
no definition distinguishes; `ClaimedStays` is a safety property, so that is sound.
Deadlock is not checked where bounds stop the system; in `single_flight` it
is (`Finished` is its only idle step), and in `scoring`.

### Fairness

* `SingleFlight`: the event loop runs every task that is ready, and every
  computation ends (weak fairness of `Settle` and `Resume`). Without an end of the
  computation the code has no time limit either.
* `RealtimeStream!LiveSpec`: a process goes on reading and dispatching; a send
  ends, since `WS_SEND_TIMEOUT_S` bounds it; a `publish` and a callback that
  were started go on; an SSE generator writes what is queued. Boots, new events,
  and what clients do are not forced.
* `GolfPool!FairSpec`: Celery's schedule starts the activation and the scoring pass
  again and again, and a pass ends. Requests and administrators need do nothing.
* `GameLifecycle!FairSpec`: only the updater, which the schedule starts every few
  minutes, and its commit. Feeds, pollers, the trigger may all be silent: `GameEnds` is
  the safety net for that.
* `FlowPipeline!FairFlowSpec`: the trigger takes messages and ends (its calls have timeouts),
  and one of the runs, the grading and the regeneration goes on while there is one to do.
  There are finitely many runs, so that each ends follows.
* `ScrapeRuns!FairSpec`: messages are taken, come again after the visibility timeout
  when a worker was lost, tasks end by their time limit, workers are restarted and
  do their start-up, a cancellation that began ends. Requests need not come.
* `RealtimeResume`, `RealtimeListener`, `Commerce` and `GolfScoring` state none, and
  only safety is checked of them: clients need not reconnect, Stripe need not deliver.

### Assumptions

* Redis executes one command at a time and keeps its data; Postgres is at READ
  COMMITTED and delivers notifications in commit order to the connections that
  listen.
* Each API process runs its own listener and publishes its own copy of a
  change. `RealtimeListener` is one process.
* The transactions that write one game's plays do not overlap, except with the
  incident `overlapping_writes` (see the observations).
* FastAPI (0.136 in `api/requirements.txt`) runs the exit of a `yield` dependency, and
  with it the commit of `get_db`, after the response has been sent.
* A customer pays only after the request that handed out the URL is over, and the
  contacts of two claims have different e-mail addresses.
* A Celery worker is lost as a whole, and its message is delivered again
  (`task_acks_late`). The order of messages in the queue is not used.
* `Club.stripe_customer_id` is set nowhere in the code, so webhook updates of clubs
  by customer match no row and are left out. No job sets a session to
  `expired`; expiry is a comparison with the clock (`Expire`).
* Rules count at most ten golfers (`MaxCounted`; the two variants count five and four),
  and a total is between -998 and 998. So no sum of counted scores is the 9999 by which
  the code sorts an entry that has no score.

## 4. Proofs

**Fan-out** (`RealtimeProofs`, first part, for any number of processes, channels and
connections). `SeqUnique` and `RegistryConsistent` are not inductive. A number is
new only because no number in use is above the counter (`NumbersGivenOut`);
the registry stays consistent only because what a suspended dispatch still refers
to is of its own process or closed (`DispatchRefersToOwn`), and connection objects
are never reused (`used`). A suspended dispatch is inside a batch of the stream
(`BatchInStream`). Together with the types they are `StreamInv`.

| Theorem | States |
|---|---|
| `StreamInvariant` | `Spec => []StreamInv` |
| `TypeCorrect`, `NumbersUnique`, `RegistryCorrect` | its parts that matter alone |
| `HandedInOrder` | `Spec => []InStreamOrder`, whatever incidents happen. Inductive with `HandedSoFar`: while an entry is dispatched, a connection the dispatch has passed may have it, one it has not passed has none behind `done` |
| `ReplaysComplete` | `Spec /\ []ScanCovers => []ReplayLeavesNoGap`, whatever incidents happen. A replay is asked for in the step that subscribes, and nobody else empties `toFetch`; a restart or a close ends it |
| `NoSilentGap` | `ReliableReads => (Spec => []NoGapWhileSubscribed)`. Needs `EntryInHand`: whoever was subscribed when the snapshot was taken has the entry, is still in the dispatch, or is in its list of the dead |
| `BridgeImplementsLog` | `ReliableReads => (Spec => EveryProcessReadsTheLog)`: when no reply is lost, no dead process' group is reused and no reader falls behind the retention, every step of the bridge is a step of `BroadcastLog` or a stutter. It rests on `TrimBehindReaders`: entries are removed only behind all readers that are up, so a read never jumps |

**Resume** (`RealtimeProofs`, second part, for any number of processes, connections, hooks and
boots). Every step of endpoint and hook is a step of the fan-out or leaves it alone, so
`RealtimeResume` implements `RealtimeStream` with the identity as the mapping, and the
theorems above are used as invariants here. `RestartRefetched` is about what a client reads;
what makes it so is on the other side of the wire: what a hook is about to read is all
of one epoch, which it knows or which begins with `epoch_changed` (`HooksFollow`),
and nobody else reads its connection (`ReadersApart`). `ResumeComplete` needs more. With one
process the epochs of the stream never decrease, and what is not dispatched yet is of
the epoch that runs (`EpochsInOrder`), so an entry with a larger number than the client's
last one in the same epoch comes behind it. The client's number and epoch are those
of one entry (`ResumePoints`). What comes before the subscription is written by the
replay, the rest by the queue (`ReplayedBefore`); the two overlap since the endpoint
subscribes first.

| Theorem | States |
|---|---|
| `ResumeImplementsStream` | `ResumeSpec => Spec` |
| `ResumeInvariant`, `ResumeTypeCorrect` | `ResumeSpec => []ResumeInv`, and its types |
| `RestartsRefetched` | `ResumeSpec => RestartRefetched` |
| `NothingMissedOnResume` | with `ReliableReads` and `OneProcess`, `ResumeSpec /\ []ScanCovers => []ResumeComplete` |

`OneProcess` (no two processes) and `ScanCovers` (the stream keeps no more entries than one
scan reads) are not conveniences: without either `ResumeComplete` fails, which
section 5 lists as observations. The run has one process and scans that reach the end.

**Listener** (`RealtimeListenerProofs`, for any number of games, tasks,
subscriptions, any batch and cache size, and whatever is lost, evicted or
fails). `NoPlaySkipped` is kept because (1) plays are committed in the order of
their numbers (`CommittedInOrder`), so what a query found is all there is up to
its last play; (2) what was covered when a task read the cursor is covered when
the task moves it, and its batch is the rest (`TasksCover`); (3) a step never
uncovers a play: a task that held one has published it, or counts it as failed
(lemma `CoverageStep`). `CursorInTable` and `TaskShape` carry the argument;
together they are `ListenerInv`.

What subscribers are sent when nothing is under way follows from what is under way.
Until the version of a row that is `owed` to the subscribers of its summary and of the
list, or a newer one, is shown to them, a notification of it is on its way, or there is a task that will query it, has read a
version as new, or has it in the events it still publishes (`RowInHand`). Each step
hands it on: a commit that changes what is owed notifies, a notification that is taken starts a task because
somebody is subscribed, the first subscriber starts a catch-up, a query reads what is
committed, an event appended behind `since` shows it. The catch-up of the list serves
every game because an order of all games without repetition misses none (lemma
`OrderOnto`), and a score task drops the list event only when the list has lost its
subscribers (`ListChecked`). What a lost connection or a failed task drops makes its
game `missed`, which the property excludes. No assumption on the writers is needed.

Of plays `PlaysInHand` says the same, and needs more: a task starts at the cursor, so
a play at or below it must be published or held already, which is `NoPlaySkipped`;
a batch stops before a play only when it is full of earlier ones (lemma `BatchHasEarly`,
which is why the property is about the first `_PBP_BATCH_MAX` plays of a game); and a
play that a failed `publish()` lost belongs to a game that is `missed`, because plays and
batches have one game each (`PlaysOwned`, `BatchesOwned`, `FailuresOwned`). Together with
`ListenerInv` they are `AnnouncedInv`.

| Theorem | States |
|---|---|
| `ListenerInvariant` | `NoOverlap => (Spec => []ListenerInv)` |
| `CursorSkipsNoPlay` | `NoOverlap => (Spec => []NoPlaySkipped)` |
| `ServiceInvariant` | `Spec => []ServiceInv` (types, `TaskShape`, `SinceInPublished`, `RowInHand`) |
| `RowsServed` | `Spec => []NotifiedRowServed` |
| `AnnouncedInvariant` | `NoOverlap => (Spec => []AnnouncedInv)` |
| `PlaysReachSubscribers` | `NoOverlap => (Spec => []PlaysAnnounced)` |

`NoOverlap` (no two open transactions write plays of one game) is what the run checks
too; without it `NoPlaySkipped` fails, which section 5 lists.

**Single flight** (`SingleFlightProofs`, for any number of callers and keys,
whoever is cancelled). None of the three properties is inductive. A key is computed
once because its entry is the call that computes it, and the entry goes in
the step that ends the call (`EntryComputes`); answers are fresh because followers
wait for leaders and leaders for nobody (`FollowersOfLeaders`); outcomes are shared
because until somebody is cancelled a future is settled as its leader ended
(`SettledAsEnded`). Together they are `FlightInv`.

| Theorem | States |
|---|---|
| `FlightInvariant` | `Spec => []FlightInv` |
| `HerdMitigated`, `AnswersFresh`, `OutcomeShared` | the parts that matter alone |

**Checkout to club** (`CommerceProofs`, for any number of workers, claims of any
slugs, events, deliveries and retries, whatever fails). The step that breaks
these properties is a commit, and what makes it safe is what its transaction saw
earlier. So the invariant says of each transaction that it is still so
(`TransactionHolds`: a marked event is not processed, a checkout's session is not
stored, a claim's session is paid, a provisioned slug has no club), which is kept
because the rows it holds are held by nobody else (`LocksExclusive`). Only
`provision` relies on a row it does not hold, the session; it relies on `ClaimedStays`,
which holds because a checkout is paid by one event (`Payments`) that was
processed before the session was claimed (`SessionsPaid`). Together with the types
and three of the properties they are `CommerceInv`.

| Theorem | States |
|---|---|
| `CommerceInvariant` | `Spec => []CommerceInv` |
| `EventsAppliedOnce`, `SessionsClaimedOnce`, `PaymentsShow`, `ClubsArePaidFor` | `AppliedOnce`, `ClaimedOnce`, `PaymentShows` and `ClubsPaidFor` in every reachable state |
| `ClaimsStay` | `Spec => ClaimedStays` |
| `EventsRemembered` | `Spec => []NoEventForgotten`: each step that drops a message or a job, or answers Stripe, leaves the event somewhere (lemma `RememberedStep`) |

**Scrape runs** (`ScrapeRunsProofs`, for any number of runs and workers, whatever fails,
is killed, refused, canceled or restarted). `HeldWhileIngesting` follows with the types: the key
goes to another only by the steps that record it in `lost`, and a release deletes it
only for its holder. `CanceledStays` needs what a transaction remembers (`saw`, the rows
of a worker) to be one of the statuses it can have read; together with the types
this is `RunInv`.

| Theorem | States |
|---|---|
| `TypeCorrect` | `Spec => []RunTypeOK` |
| `LockHeld` | `Spec => []HeldWhileIngesting` |
| `CancellationStays` | `Spec => CanceledStays` |

**Golf pools** (`GolfPoolProofs`, for any number of requests, administrators and passes and
any limit). The entries of an e-mail are counted in one transaction and inserted later in
it, so a bound on the table alone is not inductive: the bound is on the committed
entries of one slot of requests together with those it holds uncommitted (`Bounded`), each
under the limit it was added under, which may be none. That a row has
a pool to belong to while the pool may be deleted is `RequestFits`: an uncommitted entry
keeps its pool from going (the foreign key). `FinalStays` needs that what an administrator or a pass
is about to write was decided on a row it has read (`EditFits`, `PassFits`). Together
with the types they are `GolfInv`.

| Theorem | States |
|---|---|
| `GolfInvariant`, `TypeCorrect` | `Spec => []GolfInv`, `Spec => []GolfTypeOK` |
| `EntriesBounded` | `Spec => []EntriesPerEmailBounded` |
| `FinalPoolsStay` | `Spec => FinalStays` |

**Golf scoring** (`GolfScoringProofs`, for any number of entries and golfers, any buckets,
picks and leaderboards). `ScoredInv` says that the picks are valid and the scores are what
one pass over the leaderboard computes; the rest follows from what a pass is. The
properties are about lists, sums and ranks of any length, and recursion cannot be
unfolded, so each is brought to a closed form first. Sorting by a strict order puts every
item at the number of items before it, which is a bijection (`PlacesBijective`,
`SortByPlace`). A sum is the number of points under its values (`SumIsTotal`), and
exchanging one pick for another moves it by their difference (`Exchange`), so no choice
beats the counted ones (`CountedBest`). The rank of an entry that is tied is copied from
the one before it, yet it is one more than the number of lower scores
(`RankLoopCounts`). Where a text would say "by induction" the proofs take a least counterexample
in an order that is well-founded. `RanksFair` also needs that a sum is never the 9999
of an entry that has none (`TotalBelow`), which bounds how many golfers count.

| Theorem | States |
|---|---|
| `ScoringInvariant` | `Spec => []ScoredInv` |
| `BestScores` | `Spec => []BestScoresCount` |
| `FairRanks` | `Spec => []RanksFair` |
| `OutStays` | `Spec => OutStaysOut`: whoever is out has too few golfers who can still make the cut, and one more can only come from a row that goes, or returns from a cut, or loses its second round (`OutStep`) |

**Games** (`GameProofs`, first part, for any number of feeds, pollers, repairs and sweeps, whatever
they report). A writer reads the row, decides and commits later, when the row may be
another. `GameInv` bounds what may be in its hands: it archives only a game whose posts
are there, which stay, and whose timeline was there when it looked, which a reviewer may
have deleted since and nobody else; it takes back to be played only what it has seen open. Without the second part `FinalHolds` is not a consequence of the
steps. Working it out showed that the archiving of the daily sweep is a second
writer of `archived`, apart from the updater's, so it is an action (`ReadArchive`).

| Theorem | States |
|---|---|
| `GameInvariant`, `TypeCorrect` | `Spec => []GameInv`, `Spec => []GameTypeOK` |
| `FinalGamesHold` | `Spec => FinalHolds` |

**Flows** (`GameProofs`, second part, for any number of runs, attempts, messages and losses).
`FlowTypeOK` is not inductive. That the trigger waits exactly while a run has it for a
client needs that no second run has (`OneTriggered`), which holds because the trigger asks
for a run only while it waits for none. Scores are written to a flow that a reviewer
may delete meanwhile: whatever any of the graders holds names a flow that is still there
(`GradersInv`). Attempts are allowed ones because a call takes its attempt from a message, and
a message from a call, or from the gate, which adds one only below the limit. The proof showed
that the assumption had to say that `Absent` is neither a flow nor a client, and now it
does. The module extends both specifications, so the flow's has names of its own (`FlowSpec`).

| Theorem | States |
|---|---|
| `FlowInvariant`, `FlowTypeCorrect` | `FlowSpec => []FlowInv`, `FlowSpec => []FlowTypeOK` |

Assumptions on constants are the `ASSUME`s of the modules, which TLC evaluates
in every run. Inductive invariants were checked by TLC before they were proved; the
runs check what they are for.

**Checked and not proved.** The liveness properties: `EveryCallEnds`, `SubscriberServed`,
`FirstSubscriberCaughtUp`, `ScoringStarts`, `BoardCatchesUp`, `GameEnds`, `PhantomsGo`,
`RecapSettles`, `FlowGraded`, `LowReplaced`, `RowsSettle` (liveness needs `ENABLED`, which
the prover does not support). Every safety property of the passing runs is a theorem.

## 5. Findings

One run that TLC must find violated; `PROJECT.json` quotes the text the code disagrees with.

* `commerce_retry`: the retry of a webhook "re-runs the same handler logic". The transaction
  in which it does is closed without a commit, the attempt is recorded as a success, and
  the event, answered 202, is never applied.

### Observations without a run

Met while modelling; each follows from the lines named, and from the models
where it says so.

Where a text of the repository says otherwise (the models have each of these
behaviours, and no property forbids them):

* `flow_trigger_tasks.py:147`: the trigger commits `recap_pending` and then asks the API for a
  run. The API runs games in status final only and refuses; the refusal is an answer and not
  an exception, so the trigger writes `recap_ready`, "Flow generated successfully"
  (`db/sports.py:52`), of a game that has no flow. The sweep leaves such a game out.
* `regen_flow_task.py:137`: the regeneration of a low flow asks for a run too, and is refused once
  the trigger has made the game `recap_ready`; nothing tries again. The flow stays as it was
  graded, while "Low-scoring flows are not left published" (`grader_task.py:162`).
* `realtime/streams.py:135`: the number of an event is taken before the await of the `XADD`, so
  two publishers may append in the other order, and subscribers get 2 before 1. The replay
  of a WebSocket, sent beside the dispatch, has the same effect. `docs/api.md:2522` calls
  `seq` a "Monotonic sequence number per channel".
* `boxscore_helpers.py:271`, `game_state_updater.py:96`, `plays.py:313`, the sweep and the flow trigger
  change a game's status or scores without `pg_notify`, so subscribers keep the old row until
  another writer notifies: "Each write path issues `pg_notify`" (`realtime/listener.py:3`).
* `run_manager.py:299`: a league without a scraper, an invalid configuration or a failing first
  write of the status is an error before the `try` that writes errors. The job run becomes
  an error, the scrape run stays pending: "Fatal errors: Job marked failed, `error_summary`
  recorded" (`docs/ingestion/data-sources.md:526`).

Realtime, single flight and payment:

* `services/single_flight.py:55`: a follower awaits the shared future without a shield.
  Cancelling one follower cancels the future of all: others end with
  `CancelledError`, the leader with `InvalidStateError`. `SharedOutcome`, which is proved,
  is therefore about calls none of which is cancelled.
* `realtime/streams.py:204`: the loop reads `>` only. Entries of a reply that was lost with
  the connection stay pending for ever (`EveryProcessReadsTheLog` fails with `lost_reply`).
* `useLiveGameScore.ts:80`: the hook stores the new epoch before the refetch. When the
  refetch fails, the next reconnect is told nothing.
* `realtime/ws.py:115`: the sends of a replay have no time limit, unlike those of the dispatch,
  and a client that asks for a replay may get an entry twice.
* `realtime/streams.py:169`: the backlog keeps events of this process' epoch only,
  while live events of all processes are sent under this process' epoch. With two
  processes `ResumeComplete` fails: events published by the other are not replayed.
* `realtime/streams.py:162`: the scan reads the oldest `STREAM_MAXLEN` entries of
  all channels. With `ScanLimit` below the entries retained, `ResumeComplete` fails.
* `realtime/sse.py:93`: a connection dropped because its queue was full is out of the
  registry, but its generator goes on with keepalives; the client is served nothing
  more and is not told. `sse.py:60`: the subscription is made before the generator
  starts, whose `finally` removes it; a response that never starts leaves it.
* `realtime/listener.py:318`: with `overlapping_writes` `NoPlaySkipped` fails: the play with
  the larger id is committed and published first, the cursor passes the other.
* Tasks of one game may publish plays twice and out of order, and the cursor
  may go back; an evicted cursor replays the game from its first play; a row read
  earlier may be published after a newer one.
* `routers/webhooks.py:111`: subscription events are applied in the order of their
  deliveries: a late update revives a canceled subscription.
* `services/provisioning.py:74`: two claims whose club names give one slug share the
  club of the first. A claim with sessions of two plans has two sessions, and
  its provisioning ends with an error.

Golf pools:

* `pool_config.py` forbids fields it does not know, and `scoring_starts_at` is none of its
  own: rules accepted by the API never hold it. Only pools made by a script are
  activated by the clock, and a PATCH of their rules ends that.
* Statuses are written without a look at the row: a late PATCH or pass takes a live pool
  back to open or locked, or a final one to live (`FinalStays` names the ways).
* A CSV upload looks at neither status, deadline nor the limit of the club, and at the limit
  per e-mail only if it is set and not 0, while a submission takes the default;
  `create_pool` never sets `club_id`, so that limit counts nothing. A PATCH of status and
  deadline together checks the old deadline. Final pools may be rescored.
* The query of entries has no order, so ranks of pending entries depend on the order of
  rows; two passes that write the scores of a pool in the order of ranks may deadlock.

Games:

* Feeds take `recap_*` for `scheduled`, so they move a recap back to what they report.
* Feeds and boxscores set final without an end time; such a game is neither archived
  nor scraped for posts. A game in
  `recap_ready` is never archived, and one in `recap_pending` after a crash stays so.
* The daily sweep archives without the lock of the updater. When that one cancels the game
  as a phantom meanwhile, the game may end archived without an end time.
* The updater decides on the row of its query: a game that received data since may be
  cancelled. A failing poll rolls back a transition whose final actions were sent.

Flows:

* `quality_review.py:114`: the routes that reject a flow "and enqueue regeneration" delete it
  and send the message to the default queue of the API's Celery, whose worker has no
  task of that name. A game in `recap_ready` is left without a flow.
* `db/hooks.py:27`: the games whose end is to be told are kept per thread and not per session.
  The poller stores closing lines in a session of its own while its transaction is
  open: the commit of that one tells the trigger early, its rollback forgets it. A trigger
  that comes early finds the game live and keeps the lock for an hour.
* The grader is told before the commit and may find no flow. An update of a flow keeps
  the score of the old one. Graders of two runs write in any order (`grader_task.py:134`): the
  grade that stays may be that of a content that is gone. No lock keeps two runs of a game apart, and the template
  overwrites whatever is there by then.
* The lock of the trigger is kept when the game is ineligible, has no plays or failed, so
  Celery's retries find it taken and end as skipped. `clear_all_locks` does not clear it.
* `bulk_flow_generation.py` counts refused runs as successes; `has_artifacts` looks
  at timelines and not at flows.
* `quality_review.py:256`: a reviewer's answer deletes the timeline of any game, also of one that
  is archived, for which nothing makes another.

Scrape runs:

* "Flushed so the worker can find it" (`scraper_runs.py`): the rows are not committed when
  the message is sent. A worker that is faster runs the ingestion with no job run, which
  then stays queued until a worker starts.
* `celery_app.py:352`: each of the three scraper workers, when it starts, clears every
  `lock:*` and marks every open row interrupted, though the others run: an ingestion
  goes on without its lock, and ends a row that says interrupted as a success.
* A second run takes the lock of a running one for an orphan after five seconds, and a bulk
  backfill takes none: two ingestions of a league then run at once.
* `_update_run` overwrites a cancellation. Cancelling one of the two rows leaves the other
  open, and `cancel_job_run` deletes the lock whoever holds it. Revocations are
  forgotten when the worker restarts, and a canceled run is executed.
* Held scheduled tasks leave their run pending. A killed task leaves its rows open and its
  lock set until a worker starts. Skipped social tasks leave their job run queued,
  which blocks the dispatch for two hours.
* The API sets a run to error and raises, which rolls the error back. The scheduler
  waits for statuses among which `partial_success`, `skipped` and `canceled` are missing.
* A run all of whose phases failed is an error, its job run a success.

## 6. Plan

Done: the modules of section 2, and the proofs of section 4. What is left is liveness, which
the prover does not reach, and the parts below.

### Not modelled, and why

* The endpoints that run one pipeline stage at a time, and the manual flow task: they are
  called by hand, and keep their state in the rows of one run. What the stages compute is
  text. Of the queue of reviewers only what they do to the flow is modelled.
* The bulk backfill (`run_bulk_backfill`): one task that ingests its chunks one after the other
  by `run_ingestion`, without the lock of the league, on rows it creates as running. So it
  may ingest beside a run that holds the lock, which `HeldWhileIngesting` does not see; its
  rows are marked as those of other runs are. The social dispatch with its evictions: a
  queue of its own, limited by its oldest entries.
* The live orchestrator: its schedule keys decide when a poll starts, and `GameLifecycle`
  lets a poll start at any time.
* Entitlements, memberships, seats: a count and an insert of the form `GolfPool` models.
  Magic links: a select and an update in one request.
* Caches, circuit breakers, rate limits, audit: best effort by design, one process each.
* Odds ingestion and closing lines: upserts of one statement. The identity of games
  (`find_or_create_game`): a lookup in six ways, then an insert. Two feeds that report
  one game with different times at once may create it twice, since the unique index
  has the exact time; a model would say no more.
* Feeds, parsing, social pages, EV mathematics, models and simulations, rendering,
  infrastructure: data and floating-point numbers, out of TLC's reach.
