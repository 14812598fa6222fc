# Verification of tender-phase1

tender-phase1 crawls public tender sites: web requests and a scheduler queue
crawl jobs, worker processes run a Scrapy spider for each, the spider's pipeline
stores what it found, and a workbench shows it. This directory holds TLA+ models
of the parts in which something can go wrong between two steps, their TLC
configurations, and proofs checked by TLAPS. `PROJECT.json` lists components,
runs, mutants, findings, hazards, theorems, and the source lines each definition
stands for.

## 1. Inventory

| Component | State | Operations | Talks to |
|---|---|---|---|
| `CrawlJobService`, table `crawl_job` | status, `picked_at`, lease (`timeout_at` = `lease_expires_at`), `retry_of_job_id`, parameters, counters | create, claim, start, heartbeat, record_stats, finish, fail_if_active, reconcile | every process, through PostgreSQL |
| `SourceCrawlTriggerService` | none | queue manual/backfill/retry jobs, trigger a scheduled one, run an existing one, infer how it went | job table; subprocesses |
| `SubprocessCrawlJobDispatcher` | a loop counter | claim, launch a worker, retry, abandon | job table; `Popen` |
| `PendingCrawlJobDispatchService` | none | sweep over claimable jobs | dispatcher |
| `app.run_crawl_job` (worker) | its argv | start a job, run the spider, heartbeat, conclude | job table; spider |
| `scripts/run_crawl_job.py` | its argv | create, start, run, finish, finish again | job table; spider |
| `SourceScheduleRuntime` | APScheduler jobs; schedule columns of `source_site` | start, refresh, per-source tick, sweep tick, sync after an edit | trigger service, `source_site` |
| Source sites | `source_site` | create and change by API and forms | schedule runtime |
| Reconciling readers (pages, API, statistics) | none | close expired jobs before reading | job table |
| Spiders | pages and items seen in the run, stop counters | list paging, detail requests, items | sites, pipelines |
| Pipelines, attachment archive | none | one writer call per item; file download | writers |
| Notice writer | `tender_notice`, `notice_version`, `tender_attachment` | upserts, one transaction per item | the three tables |
| Raw document and error writers | `raw_document`, `crawl_error` | upserts with the counters of the job | the two tables; `crawl_job` |
| `DeduplicationService` | none (pure) | normal forms, keys, hashes | spiders, writers |
| Health rules and source health | `health_rule_config` | read, change; classify a source; retry its latest failure | `crawl_job`, `crawl_error` |
| Notice queries | none | list with filters, deduplication, order and paging; export; detail page | the notice tables |
| API, admin pages, auth, migrations, scripts | – | validate, render, set up | – |

What is hard here: the tables are the only thing the processes share, there is
no lock service, and many calls load a row, compute, and flush later with the
id as the only condition. Workers, spiders and web processes die independently.
An announcement is stored by three transactions, each of which finds its notice
again through whichever key matches first. A schedule lives twice, in rows and in
the memory of a process. Pages are put together from several statements, and
lists that spiders and readers walk change under them.

What makes each part correct:

* job table: at most one active job per source; a status never goes back; a
  running job can always be found by the reconciliation; a retry is unique;
* dispatch: a queued job is never lost, whatever fails between claim and start,
  and it is run with the limit and the year it was asked for;
* execution: one process per job, one runner per source, a job that is started
  is eventually closed, and its final status tells what happened;
* schedule: rows, jobs in memory and settings come to agree; a due run is fired,
  also after a restart; the status of a source is that of its last run;
* spiders: a walk over a changing list misses nothing it should have met, and ends;
* writers: one current version per notice, dense version numbers, links that
  stay inside the notice, counters that account for the rows;
* readers: a page never shows what was at no moment true, a walk over the list
  misses nothing, duplicates have one row;
* health rules: thresholds stay in order whatever two admins ask for at once.

## 2. Modules

| Module | Models | Extends |
|---|---|---|
| `CrawlJobStore` | one row of `crawl_job`; both unique indexes; the effect of each statement of `CrawlJobService` on a row | – |
| `CrawlJobSystem` | all processes, step by step: one action per commit or read | `CrawlJobStore` |
| `SourceSlots`, `CrawlJobRefinement` | abstract: what the table promises of each source; the mapping from jobs to slots | –, `CrawlJobSystem` |
| `JobParameters` | what a job is asked to crawl, on its way through all those processes | `CrawlJobSystem` |
| `CrawlStats` | raw documents, errors, counters, and the final status inferred from them | – |
| `SourceSettings`, `SourceSchedule` | what may be posted to a source; its schedule in rows and in memory | –, `SourceSettings` |
| `SpiderPaging` | the list walk and the detail chains of both crawling spiders | – |
| `NoticeStore` | the three notice writer calls, for one source | – |
| `NoticeDetail` | the detail page of a notice, read while spiders write | `NoticeStore` |
| `NoticeList` | the workbench list and a reader walking its pages | – |
| `SourceHealth` | jobs and errors of a source, the rules, the admins, the summary page | – |
| `CrawlJobProofs`, `CrawlStatsProofs`, `SourceScheduleProofs`, `SpiderPagingProofs`, `NoticeProofs`, `NoticeListProofs`, `SourceHealthProofs` | proofs | the module they are about |
| `CrawlJobLayerProofs` | proofs: the refinement; leases, and who executes what; parameters | `CrawlJobRefinement`, `JobParameters`, `CrawlJobProofs` |
| `MC*` | small instances and symmetries for TLC | the module they instantiate |

### Crawl jobs

`jobs` is the table. `loc[p]` is where process `p` is in its code and what its
SQLAlchemy session has loaded; `child[p]` is the job the spider launched by `p`
crawls for, which outlives `p`. `faults` only bounds crashes.

* A single conditional UPDATE (`claim_pending_job`, `start_job`) is one action.
* A unit-of-work call (heartbeat, finish, fail_if_active, reconcile) is two: the
  read, which keeps the row in `seen`, and the write, which changes only the
  columns whose new value differs from `seen`. `Beaten`, `Finished` and
  `Reconciled` are those flushes. This is where stale rows bite.
* Creating a job is three: loading expired jobs into a session without
  autoflush, the active-job check, and the INSERT, whose flush writes the
  reconciled rows first. A conflict rolls all of it back.
* Time is a lease that may expire at any moment (`LeaseExpires`). With
  `PromptLeases` a lease only runs out when no process is left to renew it or to
  hand the job on, which is what the configured intervals intend.

A timestamp compared only with NULL is a Boolean (`picked`); the two lease
columns, always written together with one value, are one. Messages and audit
columns are left out: no guard reads them. Parameters and counters are in
`JobParameters` and `CrawlStats`.

Source to action: `queue_*_crawl`/`trigger_scheduled_crawl` are `Request` and
`RequestRetry`; `_create_crawl_job` is `CheckActive`, `InsertJob`,
`InsertConflict`; the dispatcher is `Sweep`, `Claim`, `LaunchWorker`,
`LaunchFails`, `HandoffFails`; `main` of the worker and
`_run_existing_crawl_job` are `StartJob`, `BootFails`, `SpawnSpider`,
`SpawnFails`, `HeartbeatRead/Write`, `Conclude`, `ConcludeFails`,
`FinishRead/Write`, `FailRead/Write`; the script adds `CliCreate` and
`CliStart`; pages are `ReconcileRead/Write`.

`JobParameters` lays the parameters over this: every step is a step of
`CrawlJobSystem` with what it does to `params` (the column), `kind` (the job
type), `held[p]` (a request's arguments, a dispatcher's requests, a worker's
argv, the column as its session loaded it) and `spiderArgs`. `Resolved` and
`RetryOf` are how endpoint and retry resolve limit and year, `RequestOf` is the
sweep reading them back from the row, `Start`, `Finish` and `Fail` write the
column again. `asked` is history.

`CrawlStats` has the tables `docs` (by url, the unique index) and `errors`, the
counters and conclusion in `job[j]`, and `proc[j]`, which is first the spider's
writer and then the process that concludes it. `Look` and `Save` are the two
halves of a raw document's transaction, `Lose` an item whose transaction failed,
`WriteError` an error row with its counter. `WriteNotice`, `SuppressNotice`,
`WritePart` and `WriteNoFile` are what the other three writers add to the same
columns (`records_inserted`, `records_updated`, `deduplicated_count`) and to
their own; of their rows `rows` has how many there are, and which of them is found
or created is left to `NoticeStore`. `CollectListPageStats`,
`InferFailureReason` and `InferFinalStatus` what the runner does after the exit.

### Schedule

`SourceSettings` says of each of the six entrances to a source (two that create,
four that change it) which settings a request leads to, if any: they validate
differently. `SourceSchedule` has the row, the APScheduler `job` of each source
in the memory of a process that may be `up`, `starting`, `down` (it exited), `stopping` (shut
down or failed to start; its threads finish, then it exits) or `off` (the web
process goes on without its embedded scheduler), the refresh
(`RefreshLoad`, `RefreshSync`, `RefreshCommit`), the ticks of the pool
(`Fire`, `TickLoad`, `TickStop`/`TickMark`, `TickCrawls`/`TickSkips`/`TickFails`,
`TickCrawled`, `TickEnd`) and the web process after an edit (`Follow`,
`FollowLoad`, `FollowSync`, `FollowCommit`), with the sync of in-memory jobs when
the scheduler is embedded. `StartFails` and `RefreshFails` tell the first refresh,
whose failure ends the standalone process and only skips the embedded scheduler
(`main.py:51-62`), from a later one, which is logged; `Stop` is an orderly
shutdown, `Crash` a kill. Each read and each flush is a step, as above. `slot`
stands for the active job of a source, which `CrawlJobSystem` has in full.

### Spiders

In `SpiderPaging` the `site` is a list that grows at its head and may lose
entries, and a page is the set of the places it shows; `list` is the one list request
under way or the reason there is none;
`chain[e]` is how far the requests of an entry are. `ListPage`, `ListRepeated`
and `Landing` are the Anhui spider, `DealPage` and `DealRefused` the national
one, each with its stop rules in their order (`StopReason`, `DealStop`). A
`quirk` is how a site's pager may mislead: no last page, no page numbers, the
last page again for every later one. An entry without a title is
skipped, one with a title but without an address is stored as a draft and has no
chain (`ggzy_gov_cn_deal_spider.py:167-187`). Twins have the same `Mark`; which
notice the writer resolves an entry to is the constant `Notice` (`NoticeStore`
looks it up), and look-alikes with other marks may share one. `shown[n]` is whose
draft or text the current version of notice `n` is. Scrapy is external: it retries, drops a
second request for the same address, and orders callbacks freely.

### Notices

In `NoticeStore`, `notices`, `versions` and `attachments` are committed rows; a
version is named by its notice and its content hash, which the unique index makes
a key. `loc[w]` is the item a spider callback writes and what its session has
read; `lock[n]` is the writer whose open transaction has flushed notice `n`. An
announcement is a record of column values and of the keys each of its three
items carries (attachment items carry none of their own:
`normalize_notice_item` computes them). Title, issuer, region, budget and day
are one `look`; `Alike` says which looks the similarity rule merges. `Fetch`
yields the items, `Suppress` is the early return of `write_notice`, `Resolve`
the five lookups or the new row, and `CommitNotice`,
`ReadVersions`/`CommitVersion` and `CommitFile` the rest of the three calls;
`Reject` is an IntegrityError, `Lose` any other failure of one item, `Crash` the
end of the process. Writers of one process take turns (`OneProcess`): pipelines
are synchronous. Those of two processes overlap; that happens when a spider
outlives its worker and the job is retried.

`NoticeDetail` adds a reader whose page is `LoadNotice`, `LoadVersions`,
`LoadAttachments`, each seeing what is committed by then. `NoticeList` has the
columns the list query filters, groups and sorts by; `Matches`, `DedupKeyExpr`,
`OrderBy`, `Items`, `Page` are the query, and `Open`, `Count`, `Show`, `NextPage` a
reader whose count and rows are two statements.

### Health

`SourceHealth` keeps the jobs of one source in id order with type, retry and the
days they were queued and picked, the errors per day and the one row of rules.
`LoadRules`/`SaveRules` are the read and the flush of an admin's change with the
CHECKs of the table, `ReadRules`, `ReadLatest`, `ReadErrors`, `ReadFailures` the
statements of a summary; `page.moments` is history: the levels the documented
rules gave at each moment of the reading. `Documented` takes the number of failures
in a row: `Streak` is all of them, `Looked` those among the newest `Lookback` jobs
(ten in the code), which is all a page counts.

## 3. Runs

| Run | Instance | Distinct states | Shows |
|---|---|---|---|
| `Parameters` | 2 jobs, a client, a sweeper, a worker, the script, no fault, 2 limits, 1 year | 891 k | `TypeOK`, `OneActiveJobPerSource`, `RunsAsAsked` |
| `Slots` | 3 jobs, 2 clients, a scheduler thread, a page, leases that run out at any time | 845 k | `RetriesAreFlat`, `RunningHoldsLease`, `StatusMovesForward`; the system implements `SourceSlots` |
| `Live` | 2 jobs, 2 sources, a client, a sweeper, 2 workers, a page, 1 fault, prompt leases | 86 k | `ExecutesUnderItsRow`, `OneRunnerPerSource`, `OneRunnerPerJob`, `PendingIsConsumed`, `RunningIsClosed` |
| `LostReconcile` | 2 jobs, a scheduler thread | – | violated: `RunningIsClosed` (section 6) |
| `Stats` | 2 overlapping jobs, interchangeable, 3 urls, 2 contents, 4 documents, 2 items and 1 error each, 1 fault | 2.95 M | `StatsTypeOK`, `RowsMatchCounters`, `PagesAreItsOwn`, `StatusTellsRun`, `MarksAreCounted` |
| `Schedule` | 1 source, 2 threads, all requests, 2 days, 2 edits, 1 fault | 2.2 M | `StatusIsOfLastRun`, `RhythmIsKept` |
| `ScheduleLive` | 1 source, 1 thread, plain requests, 1 day, 2 edits, 2 faults | 731 k | `JobsFollowSettings`, `DueRunIsFired` |
| `Paging` | 7 entries, one without an address that looks like another and one without a title, pages of 1 or 2, both spiders, 4 quirks, 7 page numbers, 2 runs, 1 change, 1 fault | 242 k | `NothingMissed`, `GivesUpAmongStale`, `CountersAddUp`, `TextOutlivesDraft`, `RunEnds` |
| `Versions` | 2 callbacks of one process, 3 announcements, 2 notices, a reader, 2 faults | 200 k | `OneCurrentVersion`, `SnapshotIsCurrent`, `ShownWasCurrent` |
| `Files` | 2 processes, 3 announcements sharing a notice and a file, 2 faults | 854 k | `VersionsNumbered`, `AttachmentsLinked` |
| `Browse` | 3 notices, 4 announced items, 3 queries, pages of 1, 1 day, 1 revision | 529 k | `PagesPartitionTheList`, `GroupHasOneRow`, `DuplicatesAddUp`, `WalkMissesNothing` |
| `Health` | 2 admins, 4 changes, 2 updates, 2 jobs, 1 error, 2 days, window 1, lookback 1 | 3.8 M | `HealthTypeOK`, `RulesOrdered`, `SummaryIsReal`, `OrdersAgree` |

The types of `SourceSchedule`, `NoticeStore` and `NoticeList` have no run of their
own: they are theorems (section 5).

**Bounds.** One job is enough for a race about a row; two of a source are needed for
the unique index and for a second runner while the first goes on; three for a retry
of a retry and for two retries of one job. Two sources and a sweep limit of one let
a job wait behind another. In `Parameters` the sweep reads a row while the request
thread that wrote it goes on, and the second job retries the first or follows the
script's; limits are only copied, so two of them, interchangeable, tell a wrong one
from the right one. Lost hand-offs and crashes would multiply its states;
`CrawlsRunAsAsked` covers any number of them. `Stats` needs two spiders, an insert
they both make and a body two urls share; two items each are a document and a
notice, or a notice and its version. In `Schedule` two threads give a long crawl and
the skipped tick that ends inside it, two days a second due time; the sources share
nothing but the pool, so one is enough. In `ScheduleLive` the second fault fails the
start that follows a crash. A page of one or two entries out of five makes entries
slide across every page boundary. For notices, `Versions` has a page, its update and
a look-alike, `Files` a second page with the file of the first; three notices are a
group, one outside it and a newcomer. Two admins, each with a change that is valid
alone, are enough for the CHECK to matter. A lookback of one less than the jobs lets
a source fail more often in a row than a page counts, and one change asks for more
failures than the lookback. The proofs remove the bounds for the theorems of section
5. `Job`, `Notice`, `Entry` bound the ids ever handed out; `Max*` bound the clock,
edits, revisions, runs and faults. `CHECK_DEADLOCK FALSE` stands where a bounded
system may stop: the last id is used and its job closed, the last day has passed,
both runs are over. The runs of `NoticeStore` check deadlock. `SYMMETRY` permutes
processes, threads, writers, admins or limits and is used only without liveness.

Every property of a passing run has a mutant: a variant of a modelled definition
with a plausible bug (a dropped condition in an index or WHERE clause, a stale
column flushed, an attempt too many, a field forgotten on one path) under which
TLC violates the property. The mutants stand in the modules next to the
definition they replace.

## 4. Fairness

`FairSpec` of `CrawlJobSystem` assumes weak fairness of: a dispatch tick and its
steps (APScheduler repeats it every few seconds), the steps of a process that is
alive, the end of a spider (Scrapy ends when its queue is empty), the passing of
lease time, and of pages that reconcile (`PageFairness`: somebody opens them;
without it nothing else closes a job whose worker died). Nothing is assumed of
crashes, of failed launches, of new requests, or of which outcome a step takes.
`ScheduledSpec` replaces pages by sources that keep being due; it is the
specification of `LostReconcile`, where the scheduler alone does not suffice.
`PendingIsConsumed` and `RunningIsClosed` are checked with `PromptLeases`: if the
leases of live processes could expire without end, nothing could be promised.

`SourceSchedule`: a process that exited is started again
(`docker-compose.prod.example.yml:19,38` says `restart: unless-stopped`); nothing
starts the scheduler of a web process that goes on without it (`off`), and both
properties except that state. The refresh interval job and the pool go on while the
process lives, a request that has begun runs to its end. Edits, crashes and the
clock need no fairness: `DueRunIsFired` speaks of runs already due.

`SpiderPaging`: Scrapy answers every request, with a response or an error, so
list steps and chain steps are weakly fair; changes of the site are not.

## 5. Proofs

All with TLAPS, for any sets of jobs, sources, processes, writers and threads and any
bounds, from the named assumptions of the modules alone (ids are numbers, NULL is
neither an id nor a record, the kinds of processes are disjoint, the bounds are
natural numbers). Five theorems have a further hypothesis, named below with the
reason; each is what the run of the property assumes too.

### Crawl jobs

* `TypeCorrect` (`CrawlJobProofs`): `Spec => []TypeOK`. `TypeOK` alone is not
  inductive: a step on the job of a process is typed only if it has one, and one
  more failed launch stays within `MaxAttempts` only if there was room. `TypeInv`
  adds this; each action is one lemma.
* `StatusNeverGoesBack`: no step lowers the rank absent, pending, running, final,
  however stale the row a flush was computed from. It rests on `TableSteps`: every
  step either inserts one row where both indexes let it (`Inserted`) or leaves each
  row's source and original alone, moves its status forward and makes no row active
  that was not (`Kept`).
* `OneActiveJob`: follows from `TableSteps` and the guard of the insert, so it
  holds although the index is checked nowhere else.
* `OneRunner`: whoever executes a job won its start, so the job has left pending
  (`EngagedHasStarted`), it never returns there (`StepMovesForward`), and a
  start needs a pending row; hence no second process gets in. `RunnerInv` joins
  the two into an inductive invariant.
* `RetriesStayFlat`: between the check of a retry request and its INSERT only the
  session knows the original, so the inductive invariant `RetryInv` adds
  `AskedForOriginals`: what such a session found (a closed job of the source that is
  no retry) still holds. `OriginalStays` shows that no step undoes it,
  `StepRequests` that only a request makes a process remember an original.
* `SlotsImplemented` (`CrawlJobLayerProofs`): the initial states are initial
  states of `SourceSlots`, and every step is one of its steps or a stutter.
  `StatusSteps` sorts all actions by what they do to statuses: one row is inserted,
  one pending job is started, or jobs are closed; `EnqueueStep`, `BeginStep`,
  `ReleaseStep` map each sort to the slots. The INSERT of a creation, which flushes
  reconciled rows in the same transaction, is an enqueue that frees the slots of
  other sources. `RealInv` is what this takes beyond types: the jobs a process is
  busy with or holds as failed have rows, rows have sources, and what a creating
  session holds as failed is no active job of its own source.
* `RunningJobsHoldLeases` (in the same module): the flush of a finish or heartbeat
  writes the columns that differ from a row loaded earlier, so it could take the
  lease of a row that runs. `LeaseInv` adds that what a session has loaded is never
  ahead of the row (`FlushesPast`): a flush that clears the lease also closes.
* `WorkersExecuteTheirRow`: `KeeperInv` says that a process has a job exactly while it
  is busy (`HoldsWhileBusy`), that a dispatched job has one keeper from claim to
  conclusion, under whom it is closed or picked with a live lease (`KeptAlone`,
  `WorkersRun`), that a row some session holds as failed has been closed or has lost
  its keeper (`StaleLost`), and that other runners have other jobs (`OthersApart`).
  Hypotheses: `PromptLeases`, since a lease that runs out under a live worker lets a
  page close its job; `Clis = {}`, since the script runs its spider whether or not
  it won the start (section 6). `KeeperInv` was model-checked on the instance of
  `Live` before it was proved.
* `WorkersShareNoSource`: two workers that execute do so under two running rows
  (`WorkersExecuteTheirRow`, `OneRunner`), and a source has one
  (`OneActiveJob`). Hypothesis `Schedulers = {}` too: a scheduler thread runs its
  job itself, and a sweep that claims it in between closes it under that thread and
  frees the source (section 6).
* `CrawlsRunAsAsked` (same module): the parameters of a job are in its row,
  in the hands of every process that is still to hand the job over, run it or close
  it (its `Tasks`), and in the argv of its spider, and each holder will write its
  copy into the row again. `ParamInv` says that all these copies are what was asked
  for, and that whoever holds one knows a row that is there, so that no later INSERT
  can give it another meaning. Most steps only narrow what a process has to do
  (`AllNarrower`) and write what was asked (`StepKeeps`); the others hand a copy on:
  the request, the INSERT, the sweep, the launch, the start of the spider, the
  script, each one lemma. Nothing is promised of a job of the script, which writes no
  parameters.

### Statistics

`CrawlStatsProofs` has one inductive invariant, `StatsInv`. `Shape` types tables,
counters and control points; `Visit` says that the row a spider has loaded, however
stale, is still there; `Books` ties counters to each other, job by job: inserted and updated
documents are no fewer than the saved ones and the upserted notices, each error
counter is its share of the error rows.
`OwnsWhatItSaved` counts the documents a job owns against those it saved: only a save
of its own gives it one, and that of another spider can only take one away.
`TellsRun` states the status from the counters and errors as they stand at the end:
they stand still once the spider has ended.

* `StatsTyped`, `JobsReportTheirOwnPages` and `StatusIsTrue` (the status inferred
  from the counters is what the run was) are its consequences.
* `CountersAccountForRows`, `MarkedRowsWereCounted` compare sums over all jobs with
  the rows of the tables. Induction over data is out of reach, so a sum of
  counters is taken as the size of a set of units, one `<<job, i>>` for each thing
  counted: a counter that goes up by one adds a unit, and so do the tables a row.
  `SumsInv` says how far the sizes of the two sets may be apart; each step adds to
  both. An equality would be false: a notice that an item of a version or an attachment
  brings along is a row nobody counts, and a row may change its marks later.

### Schedule

* `ScheduleTyped`, `StatusShownIsTheLast` (`SourceScheduleProofs`): `ScheduleInv`
  adds to the types that loaded rows still exist, that one tick per source is under
  way (`OneTickPerSource`, max_instances of APScheduler), and that the status a tick
  has loaded is still the row's when it ends (`TickOK`), so the UPDATE that leaves
  an equal status out leaves the right one. Shutdowns and failed starts empty the
  memory of the process and nothing else (`HaltInv`): its ticks go on.
* `RunsKeepTheirRhythm`: for a source that is calm, `CalmInv` says that the job agrees
  with the row, that its due time is an interval after the last run handed over, and
  that neither a refresh, a request nor a tick holds a row that says otherwise
  (`InRhythm`). The flushes of refreshes and ticks keep switches and interval
  (`FlushesAgree`), and a sync from a row the job follows leaves the job as it is
  (`FollowedIsKept`). The proof showed that `Settled` had to speak of ticks
  too: without that, TLC finds with three edits the early run of section 6.

### Spiders

* `CountersAgree`, `TextStays` (`SpiderPagingProofs`): `PagingInv` says that, where the
  run filters duplicates, the marks remembered are as many as the counter says, that
  the mark of every requested entry is among them and that each was requested once
  (`RequestedOnce`); the other marks are of entries without an address. A page's
  taken entries are new by mark and differ by mark (`FreshEntries`), wherever they
  have slid from. So a draft is of a mark that no chain of the run has: it may cover the
  text of a look-alike with another mark, but never that of a twin.
* `WalksMeetAll`: `MeetInv` says that what the walk has not met is behind the places of
  the pages it has been shown (`Behind`). A page meets the entries on its places
  (`PageMeets`), an addition only pushes entries back, and the pager never leads
  further than to the next page (`NextNumber`); so nothing is behind the last page or
  an empty one. That nothing wanted is behind a page of old entries needs the list to
  be sorted by day, which `PagingAssumption` says of the listings: sites show the
  newest first, and the early stop of the code relies on it.
* `WalksGiveUpAmongStale`: `IdleInv` counts. While something is missed there are places
  behind the page, so every page so far was full, was the one after the last, and
  the pages without news account for `idle * size` entries that brought no new mark
  (`FullPages`). Of the first `b` places all but the stale ones have brought a mark
  of their own (`PlacesMet`), so a walk that reaches the threshold has seen that many
  pages of stale entries.

### Notices

* `NoticesTyped`, `VersionsStayNumbered`, `AttachmentsStayLinked` (`NoticeProofs`), for
  any number of processes: `NoticeInv` says of each session what it may have read.
  Versions are only ever added, so the number a session read is still the next one,
  or the unique index refuses it, and a pointer or link read earlier still has its
  row (`PointersLinked`). `FinitelyMany` is what makes "the next number" exist.
* `OneCurrentInOneProcess`: writers of one process take turns item by item, so a
  session finds what it loaded unchanged (`TurnsInv`), and the versions it demotes
  are all there are. Hypothesis `OneProcess`: two processes demote only the
  versions each saw (section 6).
* `SnapshotsAreCurrent`: a callback writes the item of a notice and the item of its
  version in two transactions, so a notice may be ahead of its version. `SnapshotInv`
  says that then, as long as nothing was lost, the version is owed (`Owed`): its item
  waits in a callback and carries the keys of this notice, which no other has
  (`KeysUnique`), and its number is not taken (`NumberFree`), so that it is not refused.
  Model-checked on three instances before. Hypotheses: `OneProcess`, and `Plain`,
  that announcements have an external id and no attachments. An attachment item
  resets the notice (section 6), and without an id the version's item may find
  another notice and be refused there.
* `PagesShowACurrentVersion`, same hypothesis: `PageInv` says that whatever is current
  while a page is being read joins the versions that were, and that the pointer read
  first still has its row among the versions read next.

### Notice list

* `ListTyped` (`NoticeListProofs`): rows have the columns of the items they were
  stored and revised from. `RankOrders` shows that the rank within a group and each
  order of the list is a strict total order of the rows, since both end with the id;
  everything below rests on that.
* `GroupsHaveOneRow`: a group has a first notice, by well-founded induction on a
  finite order, and it is new if one of them is, as newness is ranked first.
* `CountsAddUp`: numbering each group's notices maps what a deduplicated list counts
  one to one onto the notices that match.
* `PagesPartition`: a sequence sorted by a strict order has at place `i` the row with
  `i - 1` rows before it, so each row is on the page of its place and on no other.
* `WalksMissNothing`: `WalkInv` says that what a reader has not been shown is at
  or behind the place reached. New rows are put before it or behind it, and
  either way push nothing to the front.

### Health

* `RulesStayOrdered` (`SourceHealthProofs`): only the first readers and an UPDATE
  that its CHECK has let pass write the rules, so the CHECK on the merged row is
  all the order rests on.
* `JobOrdersAgree`: the inductive invariant says that rows are typed, that no job
  was picked before it was queued or later than today, and that only the last job
  is ever active; so a job is picked before the next one is queued.
* `HealthTyped`: `HealthInv` adds what an admin's draft was made from (a row was there)
  and that a retry comes after its original, which `NewestOf` finds among the jobs
  by well-founded induction on ids.
* `SummariesAreReal`: the level of a summary put together from four statements was the
  level of some moment in between. `PageInv` says that the present level is among
  those the page remembers and that what it has read so far can only lead to one of
  them (`LatestSeen`, `ErrorsSeen`). Between two statements errors come only while
  a job runs, and failures in a row end only with a job that was just queued
  (`Progress`); either is a moment at which the source is in a warning, if not worse.
  The thresholds are any; failures count as far as a page looks, here and in
  `page.moments`. `LookbackSuffices` says that this is the documented level as long as
  no rule asks for more failures than are looked at; beyond that it is not
  (section 6).

### Only model-checked

* Liveness, out of the prover's reach: `PendingIsConsumed`, `RunningIsClosed`,
  `JobsFollowSettings`, `DueRunIsFired`, `RunEnds`.

## 6. Findings

`LostReconcile`: the reconciliation inside `_create_crawl_job` is rolled back by
the conflict that the expired job itself causes, so scheduled triggers alone
never close it (`README.md:662`). Only triggers of its own source conflict: another
source's successful one, or a page, closes it.

Known limits without a run of their own, met while modelling:

Jobs
* a finish computed from a row loaded before a reconciliation overwrites the final
  status (`docs/crawl-job.md:29` says final is final);
* the script ignores that it lost the start of its own job and runs the spider
  beside the worker that won it (`README.md:661`);
* the scheduler's job is visible as pending while its own thread is about to start
  it; a sweep that claims it and fails to launch closes the running job and frees
  the source (`README.md:839`);
* a worker that cannot resolve its source fails a job that is still pending
  (`BootFails`, then `FailWrite`), which `README.md:665` reserves for abandoned
  dispatches;
* jobs of the script have no parameters in their row (`README.md:658` says the
  context is written): a retry of its backfill has no year, and a sweep that takes
  it runs it without limits. `RunsAsAsked` leaves these jobs out;
* a manual crawl silently drops a `backfill_year`; the button "retry latest"
  answers a failed backfill with a plain manual crawl and looks at 30 jobs only.

Notices
* an attachment item resets the notice's type to announcement and replaces its keys
  (`docs/data-model.md:193`);
* after a look-alike took over a notice's keys, known content is stored under a
  second notice (`docs/source-dedup-strategy.md:17`);
* with two processes `OneCurrentVersion` does not hold, since each demotes the
  versions it saw; a page opened before the first version was stored may select the
  newest version and present another as current;
* an announcement without an external id may leave its notice ahead of its version: the
  item of the version finds another notice by their shared key and is refused there;
* attachments without a version link are hidden on every version's page;
* `docs/notice-workbench.md` says `dedup_hash` is preferred, the code prefers
  `dedup_key`; `docs/notice-api.md` names another default limit and order.

Spiders and statistics
* with `dedup_within_run` off and a pager without end a walk does not end by itself;
* a look-alike of another mark that is listed later in a run writes its draft over the
  stored text of the notice they share; `TextOutlivesDraft` is about one mark. Whether
  two entries share a notice is a constant of `SpiderPaging`, so that a notice which
  changes hands in the middle of a run is seen in `NoticeStore` only;
* a second national crawl makes the list's draft current again until the detail page
  is stored; an Anhui page that lacks the page number field stops the walk at page 2;
* a duplicate body goes unmarked when the one row the query returns is the row being
  updated (`docs/data-model.md:177`);
* `pages_scraped` counts list documents, but later Anhui pages share one url
  (`docs/runbook.md:225`); a failed writer leaves no `crawl_error` although
  `models/crawl_error.py:28` names a stage for it.

Schedule, health, pages
* when the start of an embedded scheduler fails, the web process serves on without it
  (`main.py:51-62`): edits give rows a next run, and nothing fires it;
* a scheduler shut down during a long crawl has no jobs left when the tick ends, so the
  row loses its next run and the restart counts an interval from then; `DueRunIsFired`
  is about sources that are not running;
* a tick that loaded its source while it was disabled removes the job that a later
  edit has brought back; the next refresh makes it anew from the row and may run it
  before its interval is over;
* a refresh that loaded a row before an edit and changes the job after it keeps the
  old next run; a blank official url in the config form is stored as "None";
* two first readers of the health rules may both insert row 1 (one step here);
* consecutive failures are counted among the ten newest jobs
  (`source_health_service.py:228`), while the form and the PATCH accept any threshold
  (`admin_settings.py:84-91`, `health_rule_service.py:114-129`): with a critical
  threshold above ten a source that keeps failing reads "warning", although reaching a
  critical threshold is documented to make it critical (`docs/source-health.md:37`).
  `SummaryIsReal` counts as far as the page does;
* a critical source reads "warning" while its retry is pending;
* `WalkMissesNothing` excludes what does move rows forward or out: the day that
  passes, a revision, a duplicate of an entry, a commit between count and rows.

## 7. Not modelled, and the plan

Not modelled for good: parsers (text extraction), rendering, authentication,
development scripts, file writers, and the related notices of a detail page: a read
by the deduplication key, which Python strips and SQL trims; the writer strips every
value before it stores it (`sqlalchemy_writer.py:807-811`), so that the two agree on what
spiders store. PostgreSQL and SQLAlchemy are modelled as far as
`src/` relies on them (row locks, unique indexes, CHECKs, changed-column flushes);
SQLite, used in development, hands out ids as max+1 and is not.

Partly modelled, for lack of state that anything depends on: base spiders of
single pages, the file download of the attachment archive, publication dates and
structured data of a notice, the creation of an unknown source by a writer, the
raw document and error lists, revision 0011 (which closes duplicate active jobs
once, before it adds the index).

Open: liveness, whose proofs would need ENABLED, stays with TLC; and of two processes
that write the same notice the theorems promise numbers and links only, what else
holds there would have to be found first.
