----------------------------- MODULE SourceSchedule -----------------------------
(***************************************************************************)
(* The schedule of the sources, kept twice: as settings and a next run in  *)
(* source_site, and as jobs in the memory of a scheduler process, gone     *)
(* when it dies.  The refresh job copies settings into jobs and next runs  *)
(* back into rows; a tick runs a due source and records how it went; an    *)
(* administrator changes settings, and the web process follows with a next *)
(* run of its own, and with the jobs when the scheduler is embedded in it. *)
(*                                                                         *)
(* A scheduler that is shut down has no jobs any more, but the threads of  *)
(* its pool finish what they run.  A web process whose embedded scheduler  *)
(* did not start goes on without one.                                      *)
(*                                                                         *)
(* Each of them reads a row in one statement and flushes the columns that  *)
(* differ from what it read in a later one.  The scheduler loop, an        *)
(* external library, is assumed to wake in time: the clock does not pass   *)
(* the moment a job of a live process is due, nor does it pass between the *)
(* statements of one transaction.                                          *)
(***************************************************************************)
EXTENDS SourceSettings, FiniteSets

CONSTANTS
    Source,         \* codes of sources
    Thread,         \* threads of the scheduler's pool
    Requests,       \* what may be posted to the endpoints
    CrawlOutcome,   \* how a crawl may end
    MaxNow,         \* bound: the clock, in days
    MaxEdits,       \* bound: accepted requests
    MaxFaults,      \* bound: crashes, shutdowns and failed statements
    Nil

Time == Nat

Outcome == {"succeeded", "failed", "partial", "skipped"}

ASSUME ScheduleAssumption ==
    /\ MaxNow \in Nat /\ MaxEdits \in Nat /\ MaxFaults \in Nat
    /\ CrawlOutcome \subseteq Outcome \ {"skipped"}
    /\ Nil \notin Nat \cup Source \cup Thread \cup Outcome
    /\ "other" \notin Thread
    /\ \A q \in Requests : /\ {q.active, q.enabled} \subseteq Switch
                           /\ q.days \in Int /\ q.rest \in BOOLEAN

Row == [active : BOOLEAN, enabled : BOOLEAN, days : DayOptions,
        next : Time \cup {Nil}, last : Time \cup {Nil}, status : Outcome \cup {Nil}]

Job == [days : DayOptions, next : Time]

ASSUME NoRecordAssumption == Nil \notin Row \cup Job      \* NULL is no record

VARIABLES
    row,        \* source_site, Nil where there is no such source
    now,        \* days since the start
    embedded,   \* SOURCE_SCHEDULER_EMBEDDED_ENABLED: the scheduler is in the web process
    up,         \* the scheduler process: "down", "starting", "up", "stopping" (its threads
                \* finish, then it exits) or "off" (a web process without its scheduler)
    job,        \* its APScheduler jobs
    refresh,    \* its refresh job: how far, the rows it loaded, the next runs it will flush
    tick,       \* its pool: who runs which source, and how far
    slot,       \* crawl_job: who runs or has queued a job of the source
    web,        \* the request that follows a change of settings
    edits, faults

\* History, read by properties only.
VARIABLES
    fired,      \* the last due time of a source that was handed to the pool
    calm,       \* nothing but the scheduler has touched the schedule since
    finished    \* how the last tick of a source to finish went

state == <<row, now, embedded, up, job, refresh, tick, slot, web, edits, faults>>
history == <<fired, calm, finished>>
scheduleVars == <<state, history>>

NoRefresh == [pc |-> "idle", seen |-> Nil, next |-> Nil]
NoTick == [pc |-> "idle", source |-> Nil, seen |-> Nil, outcome |-> Nil]
NoWeb == [pc |-> "idle", source |-> Nil, seen |-> Nil, next |-> Nil]

NewRow(s) == [active |-> s.active, enabled |-> s.enabled, days |-> s.days,
              next |-> Nil, last |-> Nil, status |-> Nil]

Init ==
    /\ row = [s \in Source |-> Nil]
    /\ now = 0
    /\ embedded \in BOOLEAN
    /\ up = "down"
    /\ job = [s \in Source |-> Nil]
    /\ refresh = NoRefresh
    /\ tick = [t \in Thread |-> NoTick]
    /\ slot = [s \in Source |-> Nil]
    /\ web = NoWeb
    /\ edits = 0
    /\ faults = 0
    /\ fired = [s \in Source |-> Nil]
    /\ calm = [s \in Source |-> FALSE]
    /\ finished = [s \in Source |-> Nil]

NoJobs == [s \in Source |-> Nil]
Unsettled == [s \in Source |-> FALSE]

\* The loop of the scheduler runs, and requests are served.
Alive == up \in {"starting", "up"}
Serving == embedded => up \in {"up", "off"}

Stored == {s \in Source : row[s] # Nil}

\* An UPDATE sends the columns that differ from what the session loaded.
Flush(column, old, new, r) == IF new = old THEN r ELSE [r EXCEPT ![column] = new]

\* The settings the scheduler follows.
Follows(j, r) == IF Should(r) THEN j # Nil /\ j.days = r.days ELSE j = Nil

----------------------------------------------------------------------------
(* Changing settings *)

Accepted(s) ==
    IF row[s] = Nil
    THEN UNION {CreateByApi(q) \cup CreateByForm(q) : q \in Requests}
    ELSE UNION {PatchSchedule(q, row[s]) \cup ConfigForm(q, row[s]) \cup ScheduleForm(q, row[s])
                \cup (IF PatchFollows(q) THEN PatchSource(q, row[s]) ELSE {}) : q \in Requests}

\* create_source or update_fields commits and reloads the row.
Edit(s) ==
    /\ web.pc = "idle" /\ Serving
    /\ edits < MaxEdits
    /\ \E t \in Accepted(s) :
        row' = [row EXCEPT ![s] = IF @ = Nil THEN NewRow(t) ELSE t]
    /\ web' = [NoWeb EXCEPT !.pc = "follow", !.source = s, !.seen = row'[s]]
    /\ edits' = edits + 1
    /\ calm' = [calm EXCEPT ![s] = FALSE]
    /\ UNCHANGED <<now, embedded, up, job, refresh, tick, slot, faults, fired, finished>>

\* calculate_next_scheduled_run
NextRun(r) == IF Should(r) THEN now + r.days ELSE Nil

\* sync_source_schedule: the row first, then the jobs if they are in this process.
Follow ==
    /\ web.pc = "follow"
    /\ row' = [row EXCEPT ![web.source] = Flush("next", web.seen.next, NextRun(web.seen), @)]
    /\ web' = IF embedded /\ up = "up" THEN [web EXCEPT !.pc = "load"] ELSE NoWeb
    /\ UNCHANGED <<now, embedded, up, job, refresh, tick, slot, edits, faults, history>>

FollowLoad ==
    /\ web.pc = "load"
    /\ web' = [web EXCEPT !.pc = "sync", !.seen = row[web.source]]
    /\ UNCHANGED <<row, now, embedded, up, job, refresh, tick, slot, edits, faults, history>>

\* An overdue run is put off by an interval.
ResolveMutant(r) == IF r.next = Nil \/ r.next <= now THEN now + r.days ELSE r.next

\* _resolve_next_run_time: an overdue run is due at once.
Resolve(r) == IF r.next = Nil THEN now + r.days
              ELSE IF r.next <= now THEN now ELSE r.next

\* Every refresh makes the job anew from the row.
SyncedJobMutant(j, r) ==
    IF Should(r) THEN [days |-> r.days, next |-> Resolve(r)] ELSE Nil

\* Every job found is kept, whatever its interval.
SyncedJobKeptMutant(j, r) ==
    IF ~Should(r) THEN Nil
    ELSE IF j # Nil THEN j
    ELSE [days |-> r.days, next |-> Resolve(r)]

\* _sync_source_in_session on a row as it was loaded: what becomes of the job ...
SyncedJob(j, r) ==
    IF ~Should(r) THEN Nil
    ELSE IF j # Nil /\ j.days = r.days THEN j
    ELSE [days |-> r.days, next |-> Resolve(r)]

\* ... and which next run the row is given.
SyncedNext(j, r) == IF Should(r) THEN SyncedJob(j, r).next ELSE Nil

FollowSync ==
    /\ web.pc = "sync"
    /\ job' = [job EXCEPT ![web.source] = SyncedJob(@, web.seen)]
    /\ web' = [web EXCEPT !.pc = "commit", !.next = SyncedNext(job[web.source], web.seen)]
    /\ UNCHANGED <<row, now, embedded, up, refresh, tick, slot, edits, faults, history>>

FollowCommit ==
    /\ web.pc = "commit"
    /\ row' = [row EXCEPT ![web.source] = Flush("next", web.seen.next, web.next, @)]
    /\ web' = NoWeb
    /\ UNCHANGED <<now, embedded, up, job, refresh, tick, slot, edits, faults, history>>

\* An exception of the embedded scheduler is swallowed.
FollowFails ==
    /\ web.pc \in {"load", "sync", "commit"}
    /\ faults < MaxFaults
    /\ web' = NoWeb
    /\ faults' = faults + 1
    /\ UNCHANGED <<row, now, embedded, up, job, refresh, tick, slot, edits, history>>

----------------------------------------------------------------------------
(* The scheduler process and its refresh *)

Idle == refresh.pc = "idle" /\ \A t \in Thread : tick[t].pc = "idle"

\* start: the loop runs before the jobs are restored from the table.
Start ==
    /\ up = "down" \/ (up = "stopping" /\ Idle)
    /\ up' = "starting"
    /\ job' = NoJobs
    /\ calm' = Unsettled
    /\ UNCHANGED <<row, now, embedded, refresh, tick, slot, web, edits, faults, fired, finished>>

\* restore_from_db, at the start and every refresh interval.
RefreshLoad ==
    /\ Alive
    /\ refresh.pc = "idle"
    /\ refresh' = [NoRefresh EXCEPT !.pc = "loaded", !.seen = row]
    /\ UNCHANGED <<row, now, embedded, up, job, tick, slot, web, edits, faults, history>>

Loaded == {s \in Source : refresh.seen[s] # Nil}

RefreshSync ==
    /\ refresh.pc = "loaded"
    /\ job' = [s \in Source |-> IF s \in Loaded THEN SyncedJob(job[s], refresh.seen[s]) ELSE Nil]
    /\ refresh' = [refresh EXCEPT
           !.pc = "synced",
           !.next = [s \in Loaded |-> SyncedNext(job[s], refresh.seen[s])]]
    /\ UNCHANGED <<row, now, embedded, up, tick, slot, web, edits, faults, history>>

RefreshCommit ==
    /\ refresh.pc = "synced"
    /\ row' = [s \in Source |->
           IF s \in Loaded
           THEN Flush("next", refresh.seen[s].next, refresh.next[s], row[s])
           ELSE row[s]]
    /\ refresh' = NoRefresh
    /\ up' = IF up = "starting" THEN "up" ELSE up
    /\ UNCHANGED <<now, embedded, job, tick, slot, web, edits, faults, history>>

\* A job that outlived its process in the table is nobody's until it is reconciled.
Dead == [pcs |-> [t \in Thread |-> NoTick],
         slots |-> [s \in Source |-> IF slot[s] \in Thread THEN "other" ELSE slot[s]]]

Die ==
    /\ up' = "down"
    /\ job' = NoJobs
    /\ refresh' = NoRefresh
    /\ tick' = Dead.pcs
    /\ slot' = Dead.slots
    /\ web' = IF embedded THEN NoWeb ELSE web
    /\ faults < MaxFaults
    /\ faults' = faults + 1
    /\ calm' = Unsettled
    /\ UNCHANGED <<row, now, embedded, edits, fired, finished>>

\* The process is killed; that of a scheduler in the web process is the web process.
Crash == up # "down" /\ Die

\* scheduler.shutdown(wait=False)
ShutDown(what) ==
    /\ up' = what
    /\ job' = NoJobs
    /\ faults < MaxFaults
    /\ faults' = faults + 1
    /\ calm' = Unsettled
    /\ UNCHANGED <<row, now, embedded, tick, slot, web, edits, fired, finished>>

\* A signal: a web process answers its requests first.
Stop ==
    /\ up = "up"
    /\ embedded => web.pc = "idle"
    /\ ShutDown("stopping")
    /\ UNCHANGED refresh

\* A statement of the start fails: the standalone process exits, the web process
\* goes on without its scheduler.
StartFails ==
    /\ up = "starting"
    /\ refresh.pc \in {"loaded", "synced"}
    /\ ShutDown(IF embedded THEN "off" ELSE "stopping")
    /\ refresh' = NoRefresh

\* A statement of a later refresh fails: the jobs keep what they were given.
RefreshFails ==
    /\ up # "starting"
    /\ refresh.pc \in {"loaded", "synced"}
    /\ faults < MaxFaults
    /\ refresh' = NoRefresh
    /\ faults' = faults + 1
    /\ UNCHANGED <<row, now, embedded, up, job, tick, slot, web, edits, history>>

----------------------------------------------------------------------------
(* Ticks *)

\* No change of the settings is on its way to the job.
Settled(s) ==
    /\ web.pc = "idle"
    /\ Follows(job[s], row[s])
    /\ refresh.pc = "loaded" => refresh.seen[s] # Nil /\ Follows(job[s], refresh.seen[s])
    /\ \A t \in Thread : tick[t].source = s /\ tick[t].pc = "loaded" => Should(tick[t].seen)

\* Without max_instances.
RunningMutant(s) == FALSE

Running(s) == \E t \in Thread : tick[t].source = s

\* The loop hands a due job to the pool, unless the source still runs
\* (max_instances), and moves the job on either way.
Fire(s) ==
    /\ Alive
    /\ job[s] # Nil
    /\ job[s].next <= now
    /\ job' = [job EXCEPT ![s].next = @ + job[s].days]
    /\ fired' = [fired EXCEPT ![s] = job[s].next]
    /\ calm' = [calm EXCEPT ![s] = Settled(s)]
    /\ IF Running(s) THEN UNCHANGED tick
       ELSE \E t \in Thread :
                /\ tick[t].pc = "idle"
                /\ tick' = [tick EXCEPT ![t] = [NoTick EXCEPT !.pc = "fired", !.source = s]]
    /\ UNCHANGED <<row, now, embedded, up, refresh, slot, web, edits, faults, finished>>

At(t, pc) == tick[t].pc = pc

\* _run_scheduled_source loads the row.
TickLoad(t) ==
    /\ At(t, "fired")
    /\ tick' = [tick EXCEPT ![t].pc = "loaded", ![t].seen = row[tick[t].source]]
    /\ UNCHANGED <<row, now, embedded, up, job, refresh, slot, web, edits, faults, history>>

\* The source is not to be scheduled any more.
TickStop(t) ==
    LET s == tick[t].source
    IN  /\ At(t, "loaded")
        /\ ~Should(tick[t].seen)
        /\ job' = [job EXCEPT ![s] = Nil]
        /\ row' = [row EXCEPT ![s] = Flush("next", tick[t].seen.next, Nil, @)]
        /\ tick' = [tick EXCEPT ![t] = NoTick]
        /\ UNCHANGED <<now, embedded, up, refresh, slot, web, edits, faults, history>>

TickMark(t) ==
    LET s == tick[t].source
    IN  /\ At(t, "loaded")
        /\ Should(tick[t].seen)
        /\ row' = [row EXCEPT ![s] = Flush("last", tick[t].seen.last, now, @)]
        /\ tick' = [tick EXCEPT ![t].pc = "marked", ![t].seen.last = now]
        /\ UNCHANGED <<now, embedded, up, job, refresh, slot, web, edits, faults, history>>

\* The session's objects are expired and the row is loaded again.
Ends(t, outcome) ==
    tick' = [tick EXCEPT ![t].pc = "ending", ![t].seen = row[tick[t].source],
                         ![t].outcome = outcome]

\* trigger_scheduled_crawl creates the job and runs it in this thread.
TickCrawls(t) ==
    LET s == tick[t].source
    IN  /\ At(t, "marked")
        /\ slot[s] = Nil
        /\ slot' = [slot EXCEPT ![s] = t]
        /\ tick' = [tick EXCEPT ![t].pc = "crawling"]
        /\ UNCHANGED <<row, now, embedded, up, job, refresh, web, edits, faults, history>>

\* SourceActiveCrawlJobConflictError
TickSkips(t) ==
    /\ At(t, "marked")
    /\ slot[tick[t].source] # Nil
    /\ Ends(t, "skipped")
    /\ UNCHANGED <<row, now, embedded, up, job, refresh, slot, web, edits, faults, history>>

\* Any other exception: no adapter, the start of the job lost to a worker, ...
TickFails(t) ==
    /\ At(t, "marked")
    /\ Ends(t, "failed")
    /\ UNCHANGED <<row, now, embedded, up, job, refresh, slot, web, edits, faults, history>>

\* The spider has ended and the job is final.
TickCrawled(t) ==
    LET s == tick[t].source
    IN  /\ At(t, "crawling")
        /\ slot' = [slot EXCEPT ![s] = IF @ = t THEN Nil ELSE @]
        /\ \E outcome \in CrawlOutcome : Ends(t, outcome)
        /\ UNCHANGED <<row, now, embedded, up, job, refresh, web, edits, faults, history>>

Ended(r, seen, outcome, next) ==
    Flush("next", seen.next, next, Flush("status", seen.status, outcome, r))

TickEnd(t) ==
    LET s == tick[t].source
    IN  /\ At(t, "ending")
        /\ row' = [row EXCEPT ![s] = Ended(@, tick[t].seen, tick[t].outcome,
                                           IF job[s] = Nil THEN Nil ELSE job[s].next)]
        /\ tick' = [tick EXCEPT ![t] = NoTick]
        /\ finished' = [finished EXCEPT ![s] = tick[t].outcome]
        /\ UNCHANGED <<now, embedded, up, job, refresh, slot, web, edits, faults, fired, calm>>

----------------------------------------------------------------------------
(* The world around *)

\* Jobs of a source from elsewhere: manual ones, retries, what a crash left.
OtherJob(s) ==
    /\ row[s] # Nil
    /\ \/ slot[s] = Nil /\ slot' = [slot EXCEPT ![s] = "other"]
       \/ slot[s] = "other" /\ slot' = [slot EXCEPT ![s] = Nil]
    /\ UNCHANGED <<row, now, embedded, up, job, refresh, tick, web, edits, faults, history>>

Overdue(s) == Alive /\ job[s] # Nil /\ job[s].next <= now

\* The clock counts days: only crawls and dead processes last that long.
Pass ==
    /\ now < MaxNow
    /\ \A s \in Source : ~Overdue(s)
    /\ refresh.pc = "idle" /\ web.pc = "idle"
    /\ \A t \in Thread : tick[t].pc \in {"idle", "crawling"}
    /\ now' = now + 1
    /\ UNCHANGED <<row, embedded, up, job, refresh, tick, slot, web, edits, faults, history>>

WebStep == Follow \/ FollowLoad \/ FollowSync \/ FollowCommit
RefreshStep == RefreshLoad \/ RefreshSync \/ RefreshCommit
TickStep(t) == \/ TickLoad(t) \/ TickStop(t) \/ TickMark(t) \/ TickCrawls(t)
               \/ TickSkips(t) \/ TickFails(t) \/ TickCrawled(t) \/ TickEnd(t)

Next ==
    \/ \E s \in Source : Edit(s) \/ Fire(s) \/ OtherJob(s)
    \/ WebStep \/ FollowFails
    \/ Start \/ StartFails \/ RefreshStep \/ RefreshFails \/ Stop \/ Crash
    \/ \E t \in Thread : TickStep(t)
    \/ Pass

Spec == Init /\ [][Next]_scheduleVars

\* The loop, the pool and the refresh timer go on while the process lives, a process
\* that exited is started again, a request runs to its end.  Nothing starts the
\* scheduler of a web process that goes on without it.
FairSpec ==
    /\ Spec
    /\ WF_scheduleVars(Start)
    /\ WF_scheduleVars(RefreshStep)
    /\ WF_scheduleVars(WebStep)
    /\ \A s \in Source : WF_scheduleVars(Fire(s))
    /\ \A t \in Thread : WF_scheduleVars(TickStep(t))

----------------------------------------------------------------------------
(* Properties *)

\* Rows, jobs, loaded copies and requests keep their types; in particular the six
\* entrances store no number of days but the options, each by checks of its own.
ScheduleTypeOK ==
    /\ row \in [Source -> Row \cup {Nil}]
    /\ now \in 0..MaxNow
    /\ embedded \in BOOLEAN
    /\ up \in {"down", "starting", "up", "stopping", "off"}
    /\ job \in [Source -> Job \cup {Nil}]
    /\ refresh.pc \in {"idle", "loaded", "synced"}
    /\ refresh.pc # "idle" => refresh.seen \in [Source -> Row \cup {Nil}]
    /\ refresh.pc = "synced" => refresh.next \in [Loaded -> Time \cup {Nil}]
    /\ tick \in [Thread ->
          [pc : {"idle", "fired", "loaded", "marked", "crawling", "ending"},
           source : Source \cup {Nil}, seen : Row \cup {Nil}, outcome : Outcome \cup {Nil}]]
    /\ slot \in [Source -> Thread \cup {"other", Nil}]
    /\ web \in [pc : {"idle", "follow", "load", "sync", "commit"},
               source : Source \cup {Nil}, seen : Row \cup {Nil}, next : Time \cup {Nil}]
    /\ edits \in 0..MaxEdits
    /\ faults \in 0..MaxFaults
    /\ fired \in [Source -> Time \cup {Nil}]
    /\ calm \in [Source -> BOOLEAN]
    /\ finished \in [Source -> Outcome \cup {Nil}]

\* The status shown for a source is that of the last tick that finished: no tick
\* overwrites a newer status with what it found before its long crawl, and none
\* leaves its own out because the row it loaded said the same.
StatusIsOfLastRun == \A s \in Stored : row[s].status = finished[s]

\* Refreshes that come while a source is being crawled, from rows whose next run
\* is the one under way, neither fire it again nor move its rhythm: as long as
\* nobody edits the source and the process lives, due times are an interval apart.
RhythmIsKept ==
    [][\A s \in Source :
          (fired'[s] # fired[s] /\ calm[s]) => fired'[s] >= fired[s] + row[s].days]_scheduleVars

InStep(s) ==
    /\ Follows(job[s], row[s])
    /\ row[s].next = IF job[s] = Nil THEN Nil ELSE job[s].next

\* However edits, refreshes, ticks and crashes overtook each other with rows they
\* had loaded earlier, jobs and rows end up agreeing: a source has a job if its
\* settings say so, of the interval they say, and the row shows its next run; unless
\* the start of an embedded scheduler failed and the web process goes on without it.
JobsFollowSettings == <>[](up = "off" \/ \A s \in Stored : InStep(s))

\* A run that the table shows as due while the source is not running is handed to
\* the pool, also when the process died or was stopped before: once the editing is
\* over, no refresh or restart puts it off, though a run less than an interval
\* earlier counts.  The exceptions are a refresh that loaded the row before an edit
\* and changes the job after it (the job then keeps the old next run, and so will the
\* row) and a web process that goes on without its scheduler.
DueRunIsFired ==
    \A s \in Source, d \in 0..MaxNow :
        (/\ row[s] # Nil /\ Should(row[s]) /\ row[s].next = d /\ d <= now
         /\ job[s] = Nil \/ job[s].next = d
         /\ ~Running(s)
         /\ web.pc = "idle" /\ refresh.pc = "idle" /\ edits = MaxEdits)
        ~> (up = "off" \/ (fired[s] # Nil /\ fired[s] + row[s].days > d))
================================================================================
