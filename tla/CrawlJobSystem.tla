---------------------------- MODULE CrawlJobSystem ----------------------------
(***************************************************************************)
(* Every process that touches the crawl_job table, and the steps at which  *)
(* each one commits or reads:                                              *)
(*                                                                         *)
(*   Clients     web request threads: create a pending job, then dispatch  *)
(*               it before the response is sent                            *)
(*   Sweepers    the scheduler's dispatch tick: load the claimable jobs,   *)
(*               then dispatch them one by one                             *)
(*   Workers     `python -m app.run_crawl_job` subprocesses                *)
(*   Schedulers  the scheduler's per-source tick: create a job and run it  *)
(*               in the same thread                                        *)
(*   Clis        scripts/run_crawl_job.py                                  *)
(*   Pages       page, API and statistics requests that reconcile          *)
(*                                                                         *)
(* A transaction that is one conditional statement is one step; a service  *)
(* call that loads a row and later flushes it is two.  The spider a runner *)
(* launches is a process of its own and outlives a runner that crashes.    *)
(***************************************************************************)
EXTENDS CrawlJobStore

CONSTANTS
    Clients, Sweepers, Workers, Schedulers, Clis, Pages,
    MaxAttempts,    \* DEFAULT_DISPATCH_RETRY_ATTEMPTS
    SweepLimit,     \* DEFAULT_PENDING_DISPATCH_LIMIT
    MaxFaults,      \* bound: crashes and failed hand-offs in a behaviour
    PromptLeases    \* TRUE: no lease runs out while a process that keeps it alive lives

Dispatchers == Clients \cup Sweepers
Creators == Clients \cup Schedulers
Runners == Workers \cup Schedulers \cup Clis
Proc == Dispatchers \cup Runners \cup Pages

ASSUME ProcAssumption ==
    /\ Nil \notin Proc
    /\ Clients \cap Sweepers = {}
    /\ Dispatchers \cap Runners = {}
    /\ Workers \cap Schedulers = {} /\ Workers \cap Clis = {} /\ Schedulers \cap Clis = {}
    /\ Pages \cap (Dispatchers \cup Runners) = {}

ASSUME BoundAssumption ==
    /\ MaxAttempts \in Nat \ {0}
    /\ SweepLimit \in Nat \ {0}
    /\ MaxFaults \in Nat
    /\ PromptLeases \in BOOLEAN

VARIABLES
    jobs,       \* the table
    loc,        \* each process's control point and local variables
    child,      \* the job whose spider a runner's subprocess is crawling for
    faults      \* faults so far

vars == <<jobs, loc, child, faults>>

\* Control points.  The comment names what the process does next.
Creating == {"check", "insert"}            \* look for an active job; INSERT and commit
Dispatching == {"dispatch", "launch"}      \* claim the next candidate; Popen the worker
Starting == {"boot", "cliStart"}           \* the start_job UPDATE
Executing == {"run", "wait", "beat"}       \* Popen the spider; wait for it; flush a heartbeat
Closing == {"finishRead", "finishWrite", "summaryRead", "summaryWrite", "failRead", "failWrite"}
Control == {"idle", "reconcile"} \cup Creating \cup Dispatching \cup Starting
             \cup Executing \cup Closing

Local == [pc      : Control,
          job     : Job \cup {Nil},        \* the job the process works on
          seen    : Row,                   \* the row as its session loaded it
          todo    : SUBSET Job,            \* candidates still to be dispatched
          stale   : SUBSET Job,            \* expired rows its session holds as failed
          tries   : 0..MaxAttempts,        \* Popen attempts that failed
          target  : FinalStatus,           \* the status finish_job is called with
          source  : Source \cup {Nil},     \* what it was asked to create
          retryOf : Job \cup {Nil}]

Idle == [pc |-> "idle", job |-> Nil, seen |-> NoRow, todo |-> {}, stale |-> {},
         tries |-> 0, target |-> "failed", source |-> Nil, retryOf |-> Nil]

Init ==
    /\ jobs = [j \in Job |-> NoRow]
    /\ loc = [p \in Proc |-> Idle]
    /\ child = [p \in Runners |-> Nil]
    /\ faults = 0

At(p, pc) == loc[p].pc = pc
Become(p, l) == loc' = [loc EXCEPT ![p] = l]
Goto(p, pc) == Become(p, [loc[p] EXCEPT !.pc = pc])
Leave(p) == Become(p, Idle)

\* A dispatcher turns to its next candidate; with none left its thread is done.
TurnTo(rest) == IF rest = {} THEN Idle ELSE [Idle EXCEPT !.pc = "dispatch", !.todo = rest]

----------------------------------------------------------------------------
(* Creating a job: _create_crawl_job.  Its session does not autoflush, so   *)
(* the rows it reconciles stay running in the table until the INSERT.       *)

ExpiredJobs == {j \in Job : Expired(jobs[j])}

\* queue_manual_crawl, queue_backfill_crawl; trigger_scheduled_crawl.
Request(p, s) ==
    /\ p \in Creators
    /\ At(p, "idle")
    /\ p \in Runners => child[p] = Nil
    /\ Become(p, [Idle EXCEPT !.pc = "check", !.source = s, !.stale = ExpiredJobs])
    /\ UNCHANGED <<jobs, child, faults>>

\* queue_retry_crawl_for_job and the admin page's latest retryable job.
RequestRetry(p, r) ==
    /\ p \in Clients
    /\ At(p, "idle")
    /\ jobs[r].status \in {"failed", "partial"}
    /\ jobs[r].retryOf = Nil
    /\ RetrySlotFree(jobs, r)
    /\ Become(p, [Idle EXCEPT !.pc = "check", !.source = jobs[r].source,
                              !.retryOf = r, !.stale = ExpiredJobs])
    /\ UNCHANGED <<jobs, child, faults>>

\* _raise_if_source_has_active_job.  A conflict drops the session with the
\* reconciliation in it.
CheckActive(p) ==
    /\ At(p, "check")
    /\ IF ActiveSlotFree(jobs, loc[p].source) THEN Goto(p, "insert") ELSE Leave(p)
    /\ UNCHANGED <<jobs, child, faults>>

\* The flush writes the reconciled rows, then inserts the new one.
Flushed(p) == [j \in Job |-> IF j \in loc[p].stale THEN Reconciled(jobs[j]) ELSE jobs[j]]

InsertJob(p, j) ==
    /\ At(p, "insert")
    /\ IsNextId(jobs, j)
    /\ ActiveSlotFree(Flushed(p), loc[p].source)
    /\ RetrySlotFree(jobs, loc[p].retryOf)
    /\ jobs' = [Flushed(p) EXCEPT ![j] = NewRow(loc[p].source, loc[p].retryOf)]
    /\ Become(p, IF p \in Clients THEN TurnTo({j}) ELSE [Idle EXCEPT !.pc = "boot", !.job = j])
    /\ UNCHANGED <<child, faults>>

\* IntegrityError: rolled back and answered as a conflict.
InsertConflict(p) ==
    /\ At(p, "insert")
    /\ \/ ~ActiveSlotFree(Flushed(p), loc[p].source)
       \/ ~RetrySlotFree(jobs, loc[p].retryOf)
    /\ Leave(p)
    /\ UNCHANGED <<jobs, child, faults>>

----------------------------------------------------------------------------
(* Dispatching: PendingCrawlJobDispatchService and                          *)
(* SubprocessCrawlJobDispatcher.dispatch.                                   *)

Candidates ==
    LET claimable == {j \in Job : Claimable(jobs[j])}
    IN  {j \in claimable : Cardinality({k \in claimable : k < j}) < SweepLimit}

Sweep(d) ==
    /\ d \in Sweepers
    /\ At(d, "idle")
    /\ Candidates # {}
    /\ Become(d, TurnTo(Candidates))
    /\ UNCHANGED <<jobs, child, faults>>

\* claim_pending_job on the oldest candidate; None means someone else has it.
Claim(d) ==
    /\ At(d, "dispatch")
    /\ \E j \in loc[d].todo :
          /\ \A k \in loc[d].todo : j <= k
          /\ IF Claimable(jobs[j])
             THEN /\ jobs' = [jobs EXCEPT ![j] = Claimed(@)]
                  /\ Become(d, [loc[d] EXCEPT !.pc = "launch", !.job = j, !.todo = @ \ {j}])
             ELSE /\ Become(d, TurnTo(loc[d].todo \ {j}))
                  /\ UNCHANGED jobs
    /\ UNCHANGED <<child, faults>>

LaunchWorker(d, w) ==
    /\ At(d, "launch")
    /\ At(w, "idle") /\ child[w] = Nil
    /\ loc' = [loc EXCEPT ![d] = TurnTo(loc[d].todo),
                          ![w] = [Idle EXCEPT !.pc = "boot", !.job = loc[d].job]]
    /\ UNCHANGED <<jobs, child, faults>>

\* Mutant: one attempt too many.
LaunchFailsMutant(d) ==
    /\ At(d, "launch")
    /\ Become(d, [loc[d] EXCEPT !.tries = @ + 1,
                                !.pc = IF loc[d].tries + 1 <= MaxAttempts THEN "launch"
                                                                          ELSE "failRead"])
    /\ UNCHANGED <<jobs, child, faults>>

\* Popen raised; after the last attempt the dispatcher abandons the job.
LaunchFails(d) ==
    /\ At(d, "launch")
    /\ Become(d, [loc[d] EXCEPT !.tries = @ + 1,
                                !.pc = IF loc[d].tries + 1 < MaxAttempts THEN "launch"
                                                                         ELSE "failRead"])
    /\ UNCHANGED <<jobs, child, faults>>

\* Anything raised between the claim and the first attempt (the log directory,
\* the command line) leaves the job claimed and moves on to the next candidate.
HandoffFails(d) ==
    /\ At(d, "launch")
    /\ loc[d].tries = 0
    /\ faults < MaxFaults
    /\ faults' = faults + 1
    /\ Become(d, TurnTo(loc[d].todo))
    /\ UNCHANGED <<jobs, child>>

----------------------------------------------------------------------------
(* Running a job: app.run_crawl_job and _run_existing_crawl_job.            *)

\* What a process does with an exception: the worker's main fails the job if it
\* is still active, the scheduler records the tick as failed, the CLI ends.
Raises(p) ==
    IF p \in Workers THEN Goto(p, "failRead") ELSE Leave(p)

\* start_job, whose WHERE clause lets one process through; the others exit.
StartJob(p) ==
    /\ At(p, "boot")
    /\ IF Startable(jobs[loc[p].job])
       THEN /\ jobs' = [jobs EXCEPT ![loc[p].job] = Started(@)]
            /\ Goto(p, "run")
       ELSE /\ Leave(p)
            /\ UNCHANGED jobs
    /\ UNCHANGED <<child, faults>>

\* The source or its spider cannot be resolved, or the database fails.
BootFails(p) ==
    /\ At(p, "boot")
    /\ Raises(p)
    /\ UNCHANGED <<jobs, child, faults>>

SpawnSpider(p) ==
    /\ At(p, "run")
    /\ child' = [child EXCEPT ![p] = loc[p].job]
    /\ Goto(p, "wait")
    /\ UNCHANGED <<jobs, faults>>

\* The command runner raised: finish_job("failed"), then the exception goes on;
\* the worker's fail_job_if_active finds a final row and writes nothing.
SpawnFails(p) ==
    /\ At(p, "run")
    /\ p \notin Clis
    /\ Become(p, [loc[p] EXCEPT !.pc = "finishRead", !.target = "failed"])
    /\ UNCHANGED <<jobs, child, faults>>

SpiderExits(p) ==
    /\ child[p] # Nil
    /\ child' = [child EXCEPT ![p] = Nil]
    /\ UNCHANGED <<jobs, loc, faults>>

\* heartbeat_job loads the row; on a final one it writes nothing.
HeartbeatRead(p) ==
    /\ At(p, "wait") /\ child[p] # Nil
    /\ p \notin Clis
    /\ IsActive(jobs[loc[p].job])
    /\ Become(p, [loc[p] EXCEPT !.pc = "beat", !.seen = jobs[loc[p].job]])
    /\ UNCHANGED <<jobs, child, faults>>

HeartbeatWrite(p) ==
    /\ At(p, "beat")
    /\ jobs' = [jobs EXCEPT ![loc[p].job] = Beaten(@, loc[p].seen)]
    /\ Become(p, [loc[p] EXCEPT !.pc = "wait", !.seen = NoRow])
    /\ UNCHANGED <<child, faults>>

\* The exit code, the errors and the statistics give the final status.
Conclude(p, target) ==
    /\ At(p, "wait") /\ child[p] = Nil
    /\ Become(p, [loc[p] EXCEPT !.pc = "finishRead", !.target = target])
    /\ UNCHANGED <<jobs, child, faults>>

\* Reading the statistics or the errors raised.
ConcludeFails(p) ==
    /\ At(p, "wait") /\ child[p] = Nil
    /\ p \notin Clis
    /\ Raises(p)
    /\ UNCHANGED <<jobs, child, faults>>

----------------------------------------------------------------------------
(* Closing a job: finish_job and fail_job_if_active.                        *)

\* _ensure_transition on the loaded status; ValueError when it is not allowed.
FinishRead(p) ==
    /\ loc[p].pc \in {"finishRead", "summaryRead"}
    /\ LET row == jobs[loc[p].job]
       IN  IF loc[p].target \in AllowedTransition[row.status]
           THEN Become(p, [loc[p] EXCEPT !.seen = row,
                                         !.pc = IF @ = "finishRead" THEN "finishWrite"
                                                                    ELSE "summaryWrite"])
           ELSE Raises(p)
    /\ UNCHANGED <<jobs, child, faults>>

\* The CLI finishes the job a second time, for the summary message.
FinishWrite(p) ==
    /\ loc[p].pc \in {"finishWrite", "summaryWrite"}
    /\ jobs' = [jobs EXCEPT ![loc[p].job] = Finished(@, loc[p].seen, loc[p].target)]
    /\ IF p \in Clis /\ At(p, "finishWrite") THEN Goto(p, "summaryRead") ELSE Leave(p)
    /\ UNCHANGED <<child, faults>>

\* After fail_job_if_active a dispatcher goes on and a worker exits.
AfterFail(p) ==
    IF p \in Dispatchers THEN Become(p, TurnTo(loc[p].todo)) ELSE Leave(p)

FailRead(p) ==
    /\ At(p, "failRead")
    /\ IF IsFinal(jobs[loc[p].job]) THEN AfterFail(p)
       ELSE Become(p, [loc[p] EXCEPT !.pc = "failWrite", !.seen = jobs[loc[p].job]])
    /\ UNCHANGED <<jobs, child, faults>>

FailWrite(p) ==
    /\ At(p, "failWrite")
    /\ jobs' = [jobs EXCEPT ![loc[p].job] = Finished(@, loc[p].seen, "failed")]
    /\ AfterFail(p)
    /\ UNCHANGED <<child, faults>>

----------------------------------------------------------------------------
(* scripts/run_crawl_job.py: no reconciliation and no check before the      *)
(* INSERT, and the result of start_job is not looked at.                    *)

CliCreate(p, s, j) ==
    /\ p \in Clis
    /\ At(p, "idle") /\ child[p] = Nil
    /\ IsNextId(jobs, j)
    /\ ActiveSlotFree(jobs, s)
    /\ jobs' = [jobs EXCEPT ![j] = NewRow(s, Nil)]
    /\ Become(p, [Idle EXCEPT !.pc = "cliStart", !.job = j])
    /\ UNCHANGED <<child, faults>>

CliStart(p) ==
    /\ At(p, "cliStart")
    /\ jobs' = IF Startable(jobs[loc[p].job])
               THEN [jobs EXCEPT ![loc[p].job] = Started(@)] ELSE jobs
    /\ Goto(p, "run")
    /\ UNCHANGED <<child, faults>>

----------------------------------------------------------------------------
(* reconcile_expired_jobs_in_session followed by a commit.                  *)

ReconcileRead(p) ==
    /\ p \in Pages
    /\ At(p, "idle")
    /\ ExpiredJobs # {}
    /\ Become(p, [Idle EXCEPT !.pc = "reconcile", !.stale = ExpiredJobs])
    /\ UNCHANGED <<jobs, child, faults>>

ReconcileWrite(p) ==
    /\ At(p, "reconcile")
    /\ jobs' = Flushed(p)
    /\ Leave(p)
    /\ UNCHANGED <<child, faults>>

----------------------------------------------------------------------------
(* Time and crashes *)

\* A process whose next step renews or gives up the job's lease.
KeepsAlive(j) ==
    \E p \in Proc \ Clis : loc[p].job = j

LeaseExpires(j) ==
    /\ jobs[j].lease = "live"
    /\ PromptLeases => ~KeepsAlive(j)
    /\ jobs' = [jobs EXCEPT ![j].lease = "expired"]
    /\ UNCHANGED <<loc, child, faults>>

\* The process dies.  Its open transaction is rolled back; a spider it launched
\* runs on.
Crash(p) ==
    /\ ~At(p, "idle")
    /\ faults < MaxFaults
    /\ faults' = faults + 1
    /\ Leave(p)
    /\ UNCHANGED <<jobs, child>>

----------------------------------------------------------------------------

CreateStep(p) ==
    \/ CheckActive(p)
    \/ \E j \in Job : InsertJob(p, j)
    \/ InsertConflict(p)

DispatchStep(d) ==
    \/ Sweep(d)
    \/ Claim(d)
    \/ \E w \in Workers : LaunchWorker(d, w)
    \/ LaunchFails(d)

CloseStep(p) ==
    \/ FinishRead(p) \/ FinishWrite(p)
    \/ FailRead(p) \/ FailWrite(p)

RunStep(p) ==
    \/ StartJob(p) \/ BootFails(p)
    \/ SpawnSpider(p) \/ SpawnFails(p)
    \/ HeartbeatRead(p) \/ HeartbeatWrite(p)
    \/ \E t \in FinalStatus : Conclude(p, t)
    \/ ConcludeFails(p)

ReconcileStep(p) == ReconcileRead(p) \/ ReconcileWrite(p)

Next ==
    \/ \E p \in Creators, s \in Source : Request(p, s)
    \/ \E p \in Clients, r \in Job : RequestRetry(p, r)
    \/ \E p \in Creators : CreateStep(p)
    \/ \E d \in Dispatchers : DispatchStep(d) \/ HandoffFails(d)
    \/ \E p \in Runners : RunStep(p) \/ SpiderExits(p)
    \/ \E p \in Dispatchers \cup Runners : CloseStep(p)
    \/ \E p \in Clis, s \in Source, j \in Job : CliCreate(p, s, j)
    \/ \E p \in Clis : CliStart(p)
    \/ \E p \in Pages : ReconcileStep(p)
    \/ \E j \in Job : LeaseExpires(j)
    \/ \E p \in Proc : Crash(p)

Spec == Init /\ [][Next]_vars

(***************************************************************************)
(* Fairness.  The dispatch tick runs every few seconds, a subprocess that  *)
(* is not killed keeps running, a spider ends, and time passes.  Nothing   *)
(* is assumed of crashes (MaxFaults bounds them) or of new requests.       *)
(***************************************************************************)
ProcessFairness ==
    /\ \A d \in Dispatchers : WF_vars(DispatchStep(d)) /\ WF_vars(CloseStep(d))
    /\ \A p \in Runners :
          WF_vars(RunStep(p)) /\ WF_vars(SpiderExits(p)) /\ WF_vars(CloseStep(p))
    /\ \A p \in Creators : WF_vars(CreateStep(p))
    /\ \A p \in Clis : WF_vars(CliStart(p))
    /\ \A j \in Job : WF_vars(LeaseExpires(j))

\* Somebody keeps opening pages that reconcile.
PageFairness == \A p \in Pages : WF_vars(ReconcileStep(p))

\* Each source keeps being due on its schedule.
ScheduleFairness == \A p \in Schedulers, s \in Source : WF_vars(Request(p, s))

FairSpec == Spec /\ ProcessFairness /\ PageFairness

ScheduledSpec == Spec /\ ProcessFairness /\ ScheduleFairness

----------------------------------------------------------------------------
(* What must hold *)

\* The variables have their types.
TypeOK ==
    /\ jobs \in [Job -> Row]
    /\ loc \in [Proc -> Local]
    /\ child \in [Runners -> Job \cup {Nil}]
    /\ faults \in 0..MaxFaults

\* At most one job of a source is pending or running
\* (uq_crawl_job_source_active, through every statement that writes a status).
OneActiveJobPerSource ==
    \A i, j \in Job :
        /\ IsActive(jobs[i]) /\ IsActive(jobs[j])
        /\ jobs[i].source = jobs[j].source
        => i = j

\* Process p has won the start of job j and is not done with it, or its spider
\* still crawls for j.
Engaged(p, j) ==
    \/ loc[p].pc \in Executing /\ loc[p].job = j
    \/ child[p] = j

\* Workers and scheduler ticks: one of them at most ever executes a job, through
\* re-claims, crashes and reconciliations (the conditional UPDATE of start_job).
OneRunnerPerJob ==
    \A p, q \in Workers \cup Schedulers, j \in Job :
        Engaged(p, j) /\ Engaged(q, j) => p = q

\* A running job always carries a lease, so the reconciliation can find it after
\* its process died, whatever stale rows were flushed over it.
RunningHoldsLease ==
    \A j \in Job : jobs[j].status = "running" => jobs[j].lease # "none"

\* A job is retried once at most, a retry is never retried, and a retry belongs
\* to the source of its original (queue_retry_crawl_for_job under concurrent
\* requests).
RetriesAreFlat ==
    \A j \in Job : LET r == jobs[j].retryOf IN
        r # Nil =>
            /\ jobs[r].retryOf = Nil
            /\ jobs[r].source = jobs[j].source
            /\ IsFinal(jobs[r])
            /\ \A k \in Job : jobs[k].retryOf = r => k = j

\* A status only moves forward: no stale flush, heartbeat or claim brings a
\* started job back to pending or a closed one back to life.
StatusRank(s) ==
    CASE s = "absent" -> 0 [] s = "pending" -> 1 [] s = "running" -> 2 [] OTHER -> 3

StatusMovesForward ==
    [][\A j \in Job : StatusRank(jobs[j].status) <= StatusRank(jobs'[j].status)]_vars

\* While leases outlive the processes that renew them, a process that dispatches
\* or runs a job is alone with it, and a worker that executes a job does so
\* under a row that still says running.
ExecutesUnderItsRow ==
    /\ \A p, q \in Dispatchers \cup Workers :
          loc[p].job # Nil /\ loc[p].job = loc[q].job => p = q
    /\ \A w \in Workers :
          loc[w].pc \in Executing => jobs[loc[w].job].status = "running"

\* Two live runners never crawl for one source.
OneRunnerPerSource ==
    \A p, q \in Runners :
        /\ loc[p].pc \in Executing /\ loc[q].pc \in Executing
        /\ jobs[loc[p].job].source = jobs[loc[q].job].source
        => p = q

\* A queued job does not stay queued: the sweep hands it over again after every
\* lost hand-off, until a worker starts it or a dispatcher abandons it.
PendingIsConsumed ==
    \A j \in Job : jobs[j].status = "pending" ~> jobs[j].status # "pending"

\* A started job is closed, by its runner or by a reconciliation.
RunningIsClosed ==
    \A j \in Job : jobs[j].status = "running" ~> IsFinal(jobs[j])
=============================================================================
