# SurgeIndex: a TLA+ model of its core

SurgeIndex is a TypeScript monorepo. What is public today is a page of hourly
Top 10 lists that a script collects into JSON files. Around it stand features
behind flags: creator profiles ("Fanward"), site listings with ownership claims
and traffic tracking, scoring and ranking jobs, paid boosts with Stripe, and
GA4 connections. This directory models the parts whose correctness depends on
the order of things: several tabs, administrators, processes, webhooks or
crashes acting on the same rows or files.

## 1. Inventory

| Component | State | Operations | What is hard | What makes it correct |
|---|---|---|---|---|
| Fanward profiles (`packages/db/src/fanward-repositories.ts`, `fanward-service.ts`, the two React pages) | `creator_profile` with its status and `updated_at` token; `creator_profile_revision`; what each open page shows | save draft, submit, approve, reject, suspend, restore; read workspace; read queue | two-statement reads, stale tabs and queue pages, a token made of wall-clock time, a status written by six handlers | no lost edit, only reviewed text is public, tables agree with each other |
| Trends ingest (`apps/web/lib/trends/ingest.ts`) | `.ingest.lock`, `latest.json`, one process's memory | acquire lock, read, fetch, rename, release | two processes, kills, failing sources, time | runs do not overlap, nothing goes backwards, "live" is true, a dead lock does not block |
| Trend sources, parsers, pages, share images | none (files read) | fetch, parse, render | formats | not modelled: outcomes only |
| Live press and tips (`lib/live`, `lib/tips`) | JSON files, an in-process queue | append, read | an unreadable file | no item is lost |
| Listings and claims (`repositories.ts`, `claim-service.ts`, `site-service.ts`) | `site`, `site_claim`, `site_owner` | create, moderate, start claim, verify, review | the proof is looked up outside the transaction; rivals, expiry, attempt cap | one owner, a claim is completed once and in time |
| Tracker keys and settings (`tracker-key-service.ts`, the settings route, `traffic-aggregation.ts`) | `tracker_key`, the settings columns of `site`, `site.updated_at` as their token | generate, rotate, revoke, save, mark stale | late events and a slow aggregation write the same rows; the token is written by others | one key in use, versions never repeat, its domains are current |
| Traffic (`traffic-pipeline.ts`, `packages/analytics`, collector, queue and aggregation workers) | queue, two KV ledgers, events, active sessions, counters | collect, consume, store, sweep, recount | repeated, late and reordered events; a death between store, ledger and acknowledgement | an admitted event is stored or a dead letter; the count of visitors fades |
| Browser tracker (`tracker/src/tracker.ts`) | timers, the time a page has been visible and a retry queue per page; consent and opt-out in localStorage | load, grant consent, opt out, hide, show, navigate, beat, engage, retry | every tab changes what the others may do without telling them; six handlers reset the same timers | a visible page beats, engagement is earned, a failed event is settled |
| Realtime (`workers/realtime`, `server/realtime.ts`) | a durable object per site | heartbeat, alarm, broadcast | throttling, hibernation | viewers see the last count in the end |
| Scoring (`packages/scoring`) | none | baseline, breakout, heat, ranking | floating point; the memory of the breakout rule | entry needs persistence, a breakout ends with its traffic |
| Jobs (`ranking-engine.ts`) | `scoring_job_run`, metrics, breakout rows, leaderboards | begin, restart, evaluate, publish, finish | overlapping runs, a kill while running, two workers | each publication is whole and replaced as a whole; it catches up; badge and row agree |
| Boost (`packages/boost`, `boost-service.ts`, four scripts) | the campaign and its state, opportunities, events, frequency caps, counters | create, pause, resume, cancel, suspend, extend, serve, qualify, complete, reconcile, recount | states written without a second look, concurrent reports, a counter that is rebuilt | the cap holds for each hash and day, nothing counts for a used token once it is known, what is completed was delivered |
| Stripe (`stripe-service.ts`) | orders, event inbox, refunds, disputes | checkout, webhook, refund | duplicated, late and reordered events | unreachable at this commit |
| GA4 (`ga4-service.ts`) | OAuth transaction, connection, credential, backfill job, source policy | connect, select, sync, backfill, switch, disconnect | overlapping backfills and a shared checkpoint, operations under way during a disconnect | no gap before the checkpoint; a locked source stays |
| Auth, rate limits, Turnstile, SSRF guard, mail, fixtures, migrations | small | refuse or let pass | | not modelled: they appear as requests that fail |

Interactions: the web process, cron scripts and workers share one Postgres
database or one directory of files and nothing else. Fanward reads the listing
tables (`site`, ownership, traffic verification) inside its own transactions.
Traffic ingest sets the verification. Scoring reads the metrics that traffic and
GA4 write; the breakout job writes the badge that the ranking job sorts by. Each of
the modules has the others' effects as changes of its inputs (`Rescore`, `Traffic`,
`VerifyTraffic`). Pages read everything.
`PROJECT.json` lists the components with their status and the hazards line by line.

## 2. Modules

| Module | Models |
|---|---|
| `ModeratedPublication` | abstract: what the creator pages promise. A text becomes public only through review; a suspended profile keeps its text and stays hidden until restored |
| `FanwardProfile` | the tables, the tabs and the review screens; implements `ModeratedPublication` |
| `FanwardProfile_proofs` | its theorems |
| `TrendIngest` | the ingest processes, the lock file, the snapshot, time |
| `TrendIngest_proofs` | its theorems |
| `SiteListing` | abstract: a listed site is moderated at any time and granted to one owner, once, while active |
| `OwnershipClaim` | claims, verification requests and owners; implements `SiteListing` |
| `OwnershipClaim_proofs` | its theorems |
| `TrackerKey` | the keys and settings of one site, events on their way, the aggregation |
| `TrackerKey_proofs` | its theorems |
| `ImpressionLedger` | abstract: an event id is counted once, for good, with a token that was unused when it was admitted, and under the cap of its hash and day |
| `BoostCampaign` | a campaign's state machine, its transitions in two statements, impression reports, the scripts; implements `ImpressionLedger` |
| `BoostCampaign_proofs` | its theorems |
| `BreakoutDetection` | the breakout rule with its row and badge, in slots of the job |
| `RankingPublication` | abstract: a publication puts a complete set of leaderboards in the place of all it found, in one step |
| `RankingJob` | the ranking job's runs, its job row and the leaderboards; implements `RankingPublication` |
| `RankingEngine_proofs` | the theorems about both jobs of `ranking-engine.ts`, `RankingJob` and `BreakoutDetection` |
| `Ga4Import` | a GA4 connection, its backfill workers and the switch of the ranking source |
| `Ga4Import_proofs` | its theorems |
| `EventDelivery` | abstract: an event that was queued stays queued until it is stored, once, or a dead letter |
| `TrafficPipeline` | events from the collector through the queue to the store, and the count of visitors; implements `EventDelivery` |
| `BrowserTracker` | the tracker script in the tabs of one browser |
| `VisitorEvents_proofs` | the theorems about both ends of an event, `TrafficPipeline` and `BrowserTracker` |
| `MC...` | constants and symmetry for TLC |

### FanwardProfile

* Every write of the repository is one transaction that takes the advisory lock
  `fanward-owner:<id>` or the profile row `FOR UPDATE`, then the site row, so
  it is one action. Reads are not: `ReadProfile` and `ReadRevisions` are the two
  statements of `getFanwardOwnerWorkspace`.
* A tab (`editor[t]`) is `FanwardProfileForm`: `idle` shows text `shown` with token
  `token`; "Submit" is a save (`intent = "submit"`), the workspace read that answers
  it, and `SubmitDraft` with the token just received. A response may be lost or a
  request refused at any point (`RequestFails`, which also stands for rate limits
  and Turnstile); the tab then keeps what it showed.
* The form locks itself while a revision is pending or the profile is suspended.
  The model has no such lock: the server refuses those requests anyway, and a
  form that could send them has more behaviours, not fewer.
* A screen (`screen[a]`) is the queue page; a decision names the revision on it.
* The clock gives any value of `ClockReading` at any time, so it may stand still
  or go back. `nextProfileTimestamp` is `NextTimestamp`.
* `site` has the three columns `lockedSiteEligibility` looks at. Its steps are
  moderation, a completed claim and the first verified traffic.
* `verdict` and `approvedAs` are history: the audit log's last decision, and the
  text an approver had on screen.
* Left out: `draft_incomplete` on submit (a saved draft meets the same limits),
  `site_already_linked` (a site has one owner, and an owner one profile; the
  guard is in `Eligible` all the same), and deletion, which no code does.

### TrendIngest

* One action per file operation of a run: `StatLock`, `Unlink`, `CreateLock`,
  `ReadPrevious`, `Collect`, `Publish` or `WriteFails`, `Release`. The fetch loop
  only fills an array, so it is one action with an outcome per board. A run that
  finds a fresh lock ends without changing anything.
* A tick is five minutes. `timeout 300` on the cron line gives `RunLimit = 1`; the
  model lets a run wait that long before its read and again after it, which is
  longer than the real limit. `LOCK_STALE_MS` (15 minutes) is `LockStale = 3`.
  The three hours of `FRESHNESS_LIMIT_MS` are scaled to 2 or 3 ticks. Ages stop
  growing where no comparison tells them apart.
* `cron` is one process because its line runs under flock (`docs` and
  `DEPLOY_TRENDS.md`); `manual` is `pnpm trends:ingest`, which does not.
* `Release` removes whatever lock file there is, as `rm -f` does.
* Left out: the history and daily files, their pruning, the press digest written
  by the same run, and the planned boards, whose status is always "soon".

### OwnershipClaim

* `verifyOwnershipClaim` is three steps of a request `request[q]`: `ReadClaim` (the
  row and the checks on it), `LookUp` (DNS or page, of any length) and then
  `RecordAttempt` or one of the outcomes of `completeClaim`. These last are one
  UPDATE and one transaction that holds the row and the site `FOR UPDATE`.
* `request[q].attempts` and `phase` are what the request has read and may be
  outdated. Everything else of a decision is taken from the row as it then is,
  as in the code; the mutants take it from what was read.
* `due` says that `expiresAt` has passed. `display` is what the site shows, outside
  the system. `proven` is history.
* `SiteListing` has what `FanwardProfile` assumes of a site: its `ModerateSite` and
  `CompleteClaim` are the steps `Moderate` and `Grant`.
* Left out: rate limits and foreign claim ids (refused, nothing changes), 'editor'
  memberships and the deletion of sites (no code writes either), tokens (random
  and unique, so a proof on display belongs to one claim).

### TrackerKey

* A key mutation is one transaction under the lock of the site row, so it is one
  action. `v` is the version it gives; `IsNext(v)` and `Current(k, v)` are
  `lockCurrentTrackerKey`, which takes revoked keys into account.
* An event is two steps: `Accept` (the key is looked up, the event judged and
  dated) and `Ingest` (stored, later). `Ingest` is `markTrackerConnected`: the key
  is written only while in use, `site.updatedAt` always, with the time of receipt.
  Events judged invalid, repeated or paid write neither and are left out.
* `settings` is what the page saves: `aliases`, which go into the keys, and
  `listing` for everything else. A page is its token.
* `notice` stays once posted: a run is shorter than the day after which the code
  would post again. `Window` is the two session TTLs.
* The site is claimed and stays so. Its status page and installation test only
  read. `ga4-service.ts:262`, which also sets `updatedAt`, is one more writer of the token.
* Row locks are not modelled. Storing an event locks the key and then the site, a
  save the other way round; they do not deadlock because the insert of the event takes
  a key-share lock on the site first, through its foreign key.

### BoostCampaign

* `work[w]` is a request of the owner or an administrator, or one of the scripts
  `boost-complete` and `boost-underdelivery`, on its way through
  `transitionCampaignTx`: `ReadState` reads the state without a lock and checks the table,
  `WriteState` writes whatever the state is by then. The routes choose their target
  from what they read (`Begin`). `WorkerDies` may come between any two statements.
* A report of an impression is `Admit` (the unlocked checks, that its token is unused among them) and
  then `Qualify` or `Capped` under the lock of campaign, hash and window.
* The visitor's hash has the day in it (`Hash`), so a token is presentable on its own day only. The row of
  `boost_frequency_cap` is `exposure[h][d]`, for the hash of the token and the window of the day `d` on
  which the report began to wait for the lock (`WindowOf`): that may be a day after the one in the hash.
  The cap is therefore one of hashes and windows, not of people: see the disagreements.
* Begin and reading of a transition are one step where the target is fixed (`BeginRead`), for nothing that is
  decided depends on what lies between. At most `MaxWork` transitions are under way at once.
* `boost-aggregate` is `Recount` and `StoreCount`, two statements.
* For `ImpressionLedger` an event id is counted when its row says qualified, for the row's hash and
  window (`CountedFor`), a token is spent when `usedAt` is set, and a report waits from its unlocked checks to
  its decision. The counters of the campaign are not part of it.
* States before payment other than `draft` and `pending_payment` are written by no reachable
  code: `reserveBoostInventory` throws, since the table lacks the step from
  `inventory_check` to `inventory_reserved`. The initial states of a campaign are those
  of rows older than the state column.
* Left out: clicks, pacing and the choice between campaigns, which kind of invalid view it was (`Refuse` has
  them all), and the five minutes after which a token expires: an expired one is turned away without a trace,
  and one that never is allows more reports, not fewer.

### BreakoutDetection

* `Evaluation` is `evaluateBreakout`; its numeric conditions are the five values of `signal`.
  `NothingYet`, `StillInCooldown` and `Record` are the three branches of `runBreakoutJob`.
* Times are ages in slots of five minutes, held at the longest span the rule
  compares, so time is unbounded. A slot may be missed or evaluated twice.
* `met` is history: for how long every evaluation has met the threshold.
* One site, since nothing is shared. Runs that overlap are left out: they could open two
  rows for a site, which no constraint forbids.

### RankingJob

* One run is `Begin`, or `Find` and `Restart`; then `Collect`, `Delete`, `Publish`, `Clash` or
  `Fail`, and `Finish`; it may `Die` anywhere. `Delete` and `Publish` are one transaction,
  whose DELETE reaches the rows committed when it starts (read committed); what it deletes
  is hidden from others until it commits. An insert that meets the unique index of site
  and scope fails (`Clash`).
* `by` is the process whose last publication a row belongs to. A DELETE finds the rows of a publication
  committed together, so a run's `deleted` is a set of processes; what another run has deleted by
  the time it commits is taken out of it.
* The slot is relative: `current` says whether a run's slot is still the present one.
* `Rescore` puts any state of the metrics in the place of any other, which stands for any number of sites
  rewritten between two reads. The states considered are a constant, `Metrics`; the proofs are for any set
  of them, all included.
* For `RankingPublication` a reader finds what is left of each process's last publication
  (`PublishedBy`), and a run has seen those it has deleted. Ranks are not unique in the schema: when two
  overlapping runs rank no site in common, nothing clashes, and both publications stay side by side
  until the next run (see the disagreements).
* Left out: `rank_snapshot`, previous ranks (read outside the transaction), leagues and
  categories as scopes of their own.

### Ga4Import

* OAuth, property selection, sync and disconnect are steps of an operation that is
  `underway` while Google answers, so a disconnect may come before any of their writes.
* A backfill worker is `BeginImport`, then for each chunk `FetchReport` (its days are
  upserted) and `MoveCheckpoint`, then `EndImport`, or `ImportFails` or `ImporterDies` with
  part of a chunk stored. Neither the cron job nor a manual run excludes the other.
* `switchPrimaryGa4Source` is `ReadPolicy` and `Switch`. A request does not outlast a day,
  the unit in which the lock runs down.
* Left out: the contents of reports, quotas, realtime reports, encryption.

### TrafficPipeline

* A message is an event with the collector's verdict. `Collect` queues it, `MarkSeen` is the
  write of `EVENT_IDS` that `ctx.waitUntil` leaves for later.
* A consumer takes a batch, keeps one body for each id that is not in its ledger, forwards
  it (`Store` or `Refused`), writes the ledger (`MarkProcessed`) and acknowledges. `ConsumerDies`
  at any step gives everything back, up to `MaxRetries`; then it is a dead letter.
* `Store` is the transaction of `PostgresEventStoreProvider.ingest`. A batch with a new valid
  event locks the site (through `markTrackerConnected`), so its recount is part of that step; one
  without may count early and write late (`CountEarly`).
* For `EventDelivery` an event is stored (with its decision) when the table has it, queued while any
  of its messages is in the queue, else dead if the dead letter queue has it (`Status`).
* The browser dates its events, so a stored row may have any age up to the limit.
* Queue and instances are the platform's: at least once, in any order.
* Left out: attribution, hourly counters, unique visitors; the Tinybird store, which has no
  idempotency of its own; the route that stores without a queue (it is in `TrackerKey`).

### BrowserTracker

* One page per tab; its variables are those of `createTracker`. `optOut` and `consent` are in
  localStorage, read whenever a tracker acts (`CanSend`) and changed by any tab.
* Listeners are the actions `Hide`, `Show`, `Navigate` and `Leave`, timers are `Heartbeat`,
  `EngagementTimer`, `RetryTimer` (of the queue) and `SendAgain` (of one event). A timer fires at
  any moment once it is due, late ones included. `clearRetryQueue` removes the timers, so the
  check of `retryGeneration` in them never fails and is left out.
* `Arm`, `Paused`, `Resumed` and `Restarted` are the functions that the handlers share.
* `view` and `missed` are history: how long the present page view has been visible, and what a
  tracker has skipped because another tab had opted out.
* Left out: the contents of events, visitor and session ids, the attribution token, the
  page's own opt-out flag (`window.__SURGEINDEX_OPTOUT__`), storage that refuses, the back button's cache, `destroy` and `forceHeartbeat` (only tests call them).
* A navigation under another tab's opt-out is not recorded (`trackNavigation` returns first), and the engagement
  timer runs on. `view` follows the page views that are recorded, so `EngagementIsEarned` is about
  these: the time before and after such a navigation counts together.
* Whether an event fails is what `config.send` returns. The script's own `send` always returns true
  (see the disagreements), so failures are those of a `send` given to `createTracker`, as the tests do.

## 3. Runs

| Run | Bounds | Shows |
|---|---|---|
| `fanward_editing` | 1 owner, 2 tabs, 1 administrator, 2 revision ids, 2 texts, clock 0 or 4, tokens to 6 | `TokenVouchesForText`, `NoLostEdit`, `SubmittedAsLoaded` |
| `fanward_review` | 1 owner, 1 tab, 2 administrators, 3 revision ids, clock 0 or 6, tokens to 9 | the tables agree, decisions are about the text on screen, feedback is the latest decision, refinement of `ModeratedPublication` |
| `trends` | 2 processes, 1 keyed board, 2 kills | `NoOverlap` and `BoardsNeverRegress` as long as no one is killed; `LiveMeansRecent` and `DeadLockIsFreed` always |
| `ownership` | 2 users, 1 site, 2 claims, 2 requests, 2 attempts | one owner, proven and in time; the cap closes a claim; refinement of `SiteListing` |
| `tracker_keys` | 3 keys, 1 page, 1 event on its way, 2 aliases, clock to 3 | one key in use, domains follow the settings, revocation is final |
| `boost_delivery` | 1 visitor, 2 opportunities, 2 event ids, 2 reports and 2 transitions at once, 1 of them a request, cap and target 1, 3 days | the cap of a hash and window holds, completion is earned, the counter agrees in the end; refinement of `ImpressionLedger` |
| `breakouts` | 3, 6 and 12 slots (the real 15, 30 and 60 minutes), unbounded time | badge and row agree, a breakout ends with its traffic |
| `breakout_entry` (violation) | the same | one evaluation above the threshold may be published |
| `ranking` | 2 processes, 2 sites, 6 states of the metrics | publications are whole, no site stands twice on a leaderboard, what is published catches up with the metrics; refinement of `RankingPublication` |
| `ga4` | 2 workers, 3 days in chunks of 2, 2 switches, a lock of 1 day | no day before the checkpoint is missing, a locked source stays |
| `traffic` | 2 events of 1 tab, 3 sends, 2 consumers, batches of 2, 1 retry | an admitted event is stored or a dead letter, the count of visitors fades; refinement of `EventDelivery` |
| `browser_tracker` | 2 tabs, consent required, 1 tick to engagement, 1 retry, 2 failed events at a time | visible pages beat, engagement is earned, failed events are settled |

Two tabs are enough for a lost edit and two texts to notice it. Three revision
ids allow a published, a superseded and an open revision, or two published in
turn and one rejected. The two clock readings, one below and one above every
token the run starts with, give a clock that stands still, jumps ahead and goes
back. For claims, two users make rivals, two
requests on one claim race for its last attempt, and a cap of two has an attempt
that closes and one that does not; five would only repeat the second. Three keys
give a revoked one, a rotated one and their successor, and one event on its way
is enough to meet each of them late. A cap and a target of one are met by the
first report and missed by the second, so two reports race for the last place; two
opportunities give two hashes of one visitor in one window, and two event ids one token reported twice; three days
give a start, an end and a day after. A third transition would only add a writer that waits. Two sites can
swap ranks; the six states of the metrics (`MCMetrics`) have leaderboards without a common site, with one, with both in
either order, with and without breakouts, and none at all. Three days in chunks of
two make a full and a short chunk. Three sends of an opening and an ending event give a
duplicate of either, before, between and after. Boards never meet in the ingest, so one is enough,
and one with a key has every outcome; two kills leave a dead lock twice. Two tabs let one change the consent under the other; two
failed events and one retry give one in the queue while another has its timer. One owner suffices for TLC because profiles of different owners share
nothing that is written; the proofs are for any number. `MaxInstant` bounds the number of
writes; six and nine tokens let every handler run after every other.

Of the type invariants, those of `TrafficPipeline` and `BrowserTracker` are run too: that a message or
a failed event finds a free number is a matter of counting, and what a retry may count to is a type. All
are proved (`TypeCorrect`, `BreakoutsTyped`, `PipelineTyped` and `BrowserTyped`). One tick to engagement and a day's cap of one
are small for arithmetic; what adds up over several spells or reports is covered by the proofs, which are for
any number.

Every property has a mutant in `PROJECT.json`, a change to one definition that
its run must catch: a dropped token check, a clock used as it comes, a lock
file created without `wx`, a rejected edit that lifts a suspension.

**Disagreements found.** `docs/BREAKOUT_DETECTION.md` says that entry "requires both relative and
absolute evidence plus persistence across multiple evaluation windows". A row keeps
`activeSince` when an evaluation returns none (`ranking-engine.ts:529`), and the rule measures persistence
from it. So after a spike that has faded to "none", the first evaluation of a
later one is published at once: `breakout_entry`.

More were met while modelling. They have no run because each follows from one
line, or no document is as definite about it:

* `acquireLock` of the trends ingest stats and unlinks in two steps, so after a killed
  run the slower of two processes removes the new lock of the faster one and both
  run. Under cron alone, flock prevents it. `NoOverlap` and `BoardsNeverRegress` therefore speak of
  behaviours in which no process has been killed yet.
* The settings page uses `site.updatedAt` as its token, and every stored visitor event sets
  that column to its time of receipt. A page is told that "this listing changed since you opened
  it" when nobody changed it, and a value that goes back to the very millisecond a page
  holds lets that page overwrite a later save.
* `runTrafficAggregation` selects silent keys and marks them one by one without a second
  look, so a notice of silence may follow an event.
* `qualifyBoostImpression` reads `usedAt` before it takes its lock (`boost-service.ts:323`), so two reports of
  one token that are admitted before either has counted both count, under two event ids;
  `docs/BOOST_IMPRESSION_MEASUREMENT.md:9` excludes replayed tokens. `LedgerIsKept` states what holds: once a
  token has counted no further report of it is admitted. `FrequencyCapHolds` bounds how often.
* The cap of impressions is kept by hash and window, and the hash has the day of the token in it
  (`boost-tokens.ts:102`). A report that passes midnight between its checks and the lock counts for
  yesterday's hash in today's window (`boost-service.ts:343`), beside the full cap of today's hash.
* `runRankingJob` says "Publish the complete set atomically" (`ranking-engine.ts:455`). Two runs that overlap
  and rank no site in common do not clash, so two publications are shown together, with two sites on
  rank 1, until the next run replaces both. `LeaderboardsCatchUp` says that this ends.
* `docs/GA4_OPERATIONS.md:9` says that a local disconnect "stops jobs, marks the connection disconnected". A
  sync under way at that moment stores its result afterwards and sets the connection back to connected
  (`ga4-service.ts:339`; in the model `StoreSync` after `Disconnect`).
* `README.md:108` and `BATCH_3_REPORT.md:39` list retries among what the tracker does. The `send` it uses by
  itself does not await `fetch` and returns true, so a request that fails is never retried.
* A page that is shown while another tab's opt-out is in force gets no heartbeat timer, and a retry
  timer that fires then leaves its queue without one. Neither is made good when consent is granted
  again in the other tab: `VisiblePagesBeat` and `FailedIsSettled` except exactly these cases (`missed`).
* `lib/live/store.ts:57` says that old updates are never removed. `readLiveFile` takes a file that
  it cannot read or parse for an empty one, and the next update replaces it.
* `surgeindex-ga4-backfill.service` starts `ga4-backfill` without `--connection-id`. Then `runGa4Backfill`
  finds no connection and throws, so the timer never moves a backfill; someone has to start it
  with an id. That is why `Ga4Import` assumes no fairness of it.

Others are in the hazards with a note: an ended campaign that stays
`delivery_complete` when `boost-complete` dies between its two transitions, and the realtime room, which keeps its
sockets in memory although it accepts them for hibernation.

## 4. Fairness

`FanwardProfile`, `OwnershipClaim`, `TrackerKey` and `Ga4Import` have none: nothing in them is scheduled, users
and moderators may stop at any time.

* `TrendIngest`: time passes, a process that is not killed goes on (`WF(Continue(p))`), and cron
  starts its process every hour (`WF(StatLock(cron))`). Nothing is assumed of `manual`. At most
  `MaxCrashes` processes are killed, since a host that kills every run frees no lock.
* `BoostCampaign`: `boost-aggregate` is started again and again (`WF(Recount)`) and is not killed
  every time (`SF(StoreCount)`). Nothing is assumed of people or of the other scripts.
* `BreakoutDetection`: time passes and now and then a run completes (`WF(NextWindow)`, `WF(Evaluate)`).
* `RankingJob`: slots pass, the scheduler goes on starting runs, and not every one of them
  dies, fails or clashes: weak fairness of the slot, strong fairness of the steps of the
  scheduler's process.
* `BrowserTracker`: the browser runs the timers of the retries (`WF(RetryTimer(t))`, `WF(SendAgain(t, i))`).
  Sending may fail every time. Nothing is assumed of people, of time or of the other timers.
* `TrafficPipeline`: the platform runs each instance and delivers queued messages (`WF(Consume(w))`),
  cron runs the aggregation (`WF(Refresh)`), time passes (`WF(Tick)`). No event need
  arrive, and stores may be refused for ever: retries are bounded, as in the code.

## 5. Proofs

All for any constants that meet the named assumptions. Every safety property of a passing run is proved, and
the five refinements.

`FanwardProfile_proofs`. The inductive invariants are built in layers.
`TableInv` is `TypeOK`, `RowsAreOwned` (a row that is not absent has an owner, and the owner a
profile), `OneOpenRevision` and `StatusMatchesRevisions`: none is inductive alone, since
which status a rejection leaves depends on the published revision, and the
uniqueness of the open revision depends on the locks that the status implies.
`TokenInv` says that a token is never newer than its row and that a tab in
the middle of its two-statement read holds either an outdated token or the
current text; it gives `TokenVouchesForText`, then `NoLostEdit` and
`SubmittedAsLoaded` as step properties. `ReviewInv` says that a revision that has
once been pending never changes its text; it gives `ReviewedTextIsFrozen` and
`PublishedAsApproved`. `FeedbackInv` adds that a decision is dated by the strictly increasing
token of its row, so that the last decision is the only latest one, and that while nothing has been decided no row says
otherwise; `FeedbackIsLatestDecision` follows, with none shown for a suspended profile, as in `currentFanwardReviewReason`. The refinement maps every step of a handler to a step or
a stutter of `ModeratedPublication`.

`TrendIngest_proofs`. `HonestDates` says that the date of a board never claims a
fetch later than the last real one, in the file and in every process's memory;
it gives `LiveMeansRecent` with any number of overlapping and killed runs.
`LockInv` ties a process past the lock to the lock's owner and its age to the
process's own, as long as no process has been killed; it gives `RunsDoNotOverlap`, and with
`ContinuesLatest` (a run's memory continues the file it read) `WritesNeverRegress`.

`OwnershipClaim_proofs`. `ClaimInv` adds to the run's invariants `RowsAreReal`: a
request under way works on a row that exists, and one past a successful lookup
on a proven one. It is needed because the request carries only an id across the lookup.
The lemma `ClaimFrame` (no step changes a claim's user or site, or takes a
verification back) carries `OwnersHaveProven`. The theorems are for any number
of users, sites, claims and requests and any cap.

`TrackerKey_proofs`. `KeyInv` adds `VersionsCount` (a row exists exactly when it has a
version) to the run's invariants, from which a new version is above all others
and the only key that could be in use is the one it follows (`NewVersionStep`).
`KeyFrame` says what no other step may do to a key and gives `RevocationIsFinal`.

`BoostCampaign_proofs`. `FrequencyCapHolds` counts events, while the code looks at
`exposureCount`. The invariant says that the events of a hash and window are no more than its
exposures and these no more than the cap. For `CompletedMeansDelivered` every number that a script may
have read (the counter, the count under way, the decision on its way through `work`)
is bounded by the ledger, which only grows. The refinement of `ImpressionLedger` uses the first invariant as an
equality: the exposure that `Qualify` compares with the cap is the number of impressions counted. It also
needs that reports, and used tokens, are of opportunities that were issued, for these keep their hash.

`RankingEngine_proofs`. `Inv` says that what is left of each process's last publication is complete
(`EachIsComplete`), that a run about to commit has deleted its own process's last publication
(`SeesItsOwn`), and that rows of two publications never have site and scope in common (`KeptApart`). It is inductive
because a DELETE takes the rows of a publication together, and because an insert that meets the key
of a row it has not deleted fails. `compareRankingCandidates` is a total order, hence ranks follow it, no two
sites of a publication share one, and by counting they are 1 to n: this gives `PublicationsAreWhole`. A commit maps
to `Commit` of `RankingPublication`, a DELETE to `Open`, what ends a run otherwise to `GiveUp`, and the rest to
stutters. That the whole table is one publication is proved only where the general leaderboards of any two states of
the metrics share a site (`OnePublicationIfASiteStays`, with the assumption in its statement). In the same module, about `BreakoutDetection`: `BadgeIsLatestState`
needs that a row is never "absent but with a state", and that the branches which write one of the two leave the
other as it was.

`VisitorEvents_proofs`, the pipeline. `QueueIsCounted` (no more messages than have been sent) gives a new message
a copy number that no other has; without it the choice of the number is undefined and no type could be
proved. `DeliveryInv` says that the ledger of processed ids is never ahead of the table (`LedgerIsBehind`), that a
worker whose store has answered holds only stored events (`AnswerMeansStored`), and that the messages it
chose cover the ids of its batch but for those already in the ledger (`BatchIsCovered`). So what is acknowledged is stored, what is given
back stays queued or becomes a dead letter, and every step maps to one of `EventDelivery` or a stutter. That the
table keeps the first decision is the uniqueness of the event id. `Session` is finite since the
visits of a site are.

`VisitorEvents_proofs`, the tracker, for any finite set of tabs. `TimersFit`: an
engagement timer exists only for an active, visible page, and the time counted before, the present spell and what is left of the
timer are no less than `EngagedAfter`, so the timer never fires early. `TimeIsReal`: what was counted is no more than the page view
was visible. Together they give `EngagementIsEarned`; neither is inductive alone, because `Paused` moves time from the spell to the
count. `Beats` is `VisiblePagesBeat` for one page. The handlers of the model share a few functions (`Emit`, `Arm`,
`Paused`, `Resumed`, `Begin`), and each has its lemma.

`Ga4Import_proofs`. `BackfillIsGapless` rests on `CursorsAreGapless` (all days before a worker's
cursor, and those of the report it has just stored, are imported) and `ReportsAreOrdered`;
imported days never go away, so a slower worker's checkpoint, although lower, is gapless too.
`LockIsKept` rests on `RequestsAgree`: requests that have read the policy while it was unlocked
would all switch to the same source, which is the one a first of them has set.

Only model-checked: the liveness properties `DeadLockIsFreed`, `CountersCatchUp`, `SpikesFade`,
`LeaderboardsCatchUp`, `AdmittedIsSettled`, `VisitorsFade` and `FailedIsSettled`, since liveness under fairness is out
of the prover's reach.

## 6. Not modelled

* Stripe: no campaign reaches a checkout at this commit. `createBoostCheckout` needs a
  reservation, and reserving one fails. Its inbox is worth a model once the missing
  transition is there.
* Baselines, heat score, impact and fraud rules: pure statistics in floating point. What
  their results decide is modelled with the result as an input.
* The realtime room: its open question, what becomes of the sockets, is about the platform.
* Live press and tips: one process, one queue, one rename. What can go wrong there (see above) is one failed read.
* Sources, parsers, formatting, rendering, demo data, fixtures, migrations, authentication and
  rate limits: no state of their own, or state of a library.

## 7. Plan

1. Done: `FanwardProfile`, `ModeratedPublication`, `TrendIngest`, `OwnershipClaim`, `SiteListing`,
   `TrackerKey`, `BoostCampaign`, `BreakoutDetection`, `RankingJob`, `Ga4Import`, `TrafficPipeline`,
   `BrowserTracker`.
2. `FanwardListing`: the directory's cursor while profiles are published.
3. Done: every safety property is proved, with the refinements of `EventDelivery`, `RankingPublication` and
   `ImpressionLedger`.
4. The payment side of Boost when a reservation can be made.
