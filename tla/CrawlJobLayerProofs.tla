-------------------------- MODULE CrawlJobLayerProofs --------------------------
(***************************************************************************)
(* What is laid over CrawlJobSystem, for any number of processes, jobs,    *)
(* sources and faults: the slots of the sources, which it implements, and  *)
(* the parameters of the jobs, which it carries.                           *)
(*                                                                         *)
(* SourceSlots.  A step of the processes inserts one row, starts one       *)
(* pending job, or closes some jobs and starts none; this takes more than  *)
(* types: whatever a process works on or reconciles has a row, and what    *)
(* its session holds as failed is no active job of the source it is about  *)
(* to create a job for.  On the same facts rest the theorems about leases, *)
(* and about who executes what, that follow.                               *)
(*                                                                         *)
(* JobParameters.  Rows and spiders keep what was asked: a job's           *)
(* parameters are in its row and in the hands of every process that is     *)
(* still to hand it over, run it or close it, and all these copies are the *)
(* same, for each of them will be written into the row again.              *)
(***************************************************************************)
EXTENDS CrawlJobRefinement, JobParameters, CrawlJobProofs

HasRow(j) == jobs[j].status # "absent"

TasksHaveRows == \A p \in Proc : \A j \in Tasks(loc[p]) \cup loc[p].stale : HasRow(j)

RowsHaveSources == \A j \in Job : HasRow(j) => jobs[j].source \in Source

\* What a session is about to insert, and what it has found.
CreationOK(p) ==
    /\ loc[p].pc \in Creating => loc[p].source \in Source
    /\ loc[p].pc = "insert" =>
          \A j \in loc[p].stale : jobs[j].source = loc[p].source => ~IsActive(jobs[j])

RealInv ==
    /\ TasksHaveRows
    /\ RowsHaveSources
    /\ \A p \in Proc : CreationOK(p)

----------------------------------------------------------------------------
(* What a step does to the statuses *)

\* A session holds the row of k as failed, or is about to close k.
Closable(k) ==
    \E p \in Proc : k \in loc[p].stale \/ (loc[p].pc \in Flushing /\ loc[p].job = k)

\* The job keeps its status, or somebody closes it.
Settled(k, new) ==
    /\ new.source = jobs[k].source
    /\ \/ new.status = jobs[k].status
       \/ Closable(k) /\ new.status \in FinalStatus

SettledBut(S) == \A k \in Job \ S : Settled(k, jobs'[k])

\* One row is inserted for a source that had no active job.
Inserts(j, s) ==
    /\ jobs[j].status = "absent"
    /\ \A k \in Job : jobs[k].source = s => ~IsActive(jobs[k])
    /\ jobs'[j].status = "pending" /\ jobs'[j].source = s
    /\ SettledBut({j})

\* One pending job is started, and nothing else happens to the table.
Starts(j) ==
    /\ jobs[j].status = "pending"
    /\ jobs'[j].status = "running" /\ jobs'[j].source = jobs[j].source
    /\ \A k \in Job \ {j} : jobs'[k] = jobs[k]

LEMMA ClosableHasRow ==
  ASSUME RealInv, NEW k \in Job, Closable(k)
  PROVE  HasRow(k)
  <1>1. PICK p \in Proc : k \in loc[p].stale \/ (loc[p].pc \in Flushing /\ loc[p].job = k)
    BY DEF Closable
  <1>2. k \in Tasks(loc[p]) \cup loc[p].stale
    BY <1>1 DEF Tasks, Flushing, Busy, Closing
  <1> QED
    BY <1>2 DEF RealInv, TasksHaveRows

LEMMA SettledByStatement ==
  ASSUME TypeInv, NEW k \in Job, NEW seen \in Row, NEW t \in FinalStatus
  PROVE  /\ Settled(k, jobs[k])
         /\ Settled(k, Claimed(jobs[k]))
         /\ Settled(k, Beaten(jobs[k], seen))
         /\ Settled(k, [jobs[k] EXCEPT !.lease = "expired"])
         /\ Closable(k) => /\ Settled(k, Finished(jobs[k], seen, t))
                           /\ Settled(k, Reconciled(jobs[k]))
  <1> DEFINE row == jobs[k]
  <1>1. row \in Row
    BY JobRowTypes
  <1> HIDE DEF row
  <1>2. /\ Claimed(row).status = row.status /\ Claimed(row).source = row.source
        /\ Beaten(row, seen).status = row.status /\ Beaten(row, seen).source = row.source
        /\ [row EXCEPT !.lease = "expired"].status = row.status
        /\ [row EXCEPT !.lease = "expired"].source = row.source
    BY <1>1 DEF Claimed, Beaten, Row
  <1>3. /\ Finished(row, seen, t).status \in {t, row.status}
        /\ Finished(row, seen, t).source = row.source
        /\ Reconciled(row).status \in FinalStatus /\ Reconciled(row).source = row.source
    BY <1>1 DEF Finished, Reconciled, Row, FinalStatus
  <1> QED
    BY <1>2, <1>3 DEF Settled, row

LEMMA NothingSettled ==
  ASSUME UNCHANGED jobs
  PROVE  SettledBut({})
  BY DEF SettledBut, Settled

\* Writing one row.
LEMMA SettledByUpdate ==
  ASSUME TypeInv, NEW j \in Job, NEW row, Settled(j, row), jobs' = [jobs EXCEPT ![j] = row]
  PROVE  SettledBut({})
  BY DEF SettledBut, Settled, TypeInv, TypeOK

LEMMA SettledByFlush ==
  ASSUME TypeInv, NEW p \in Proc, NEW k \in Job
  PROVE  Settled(k, Flushed(p)[k])
  <1>1. CASE k \in loc[p].stale
    <2>1. Flushed(p)[k] = Reconciled(jobs[k]) /\ Closable(k) /\ jobs[k] \in Row
      BY <1>1, JobRowTypes DEF Flushed, Closable
    <2> QED
      BY <2>1, SettledByStatement DEF FinalStatus
  <1>2. CASE k \notin loc[p].stale
    BY <1>2 DEF Flushed, Settled
  <1> QED
    BY <1>1, <1>2

LEMMA InsertStatus ==
  ASSUME TypeInv, RealInv, NEW p \in Creators, NEW j \in Job, InsertJob(p, j)
  PROVE  Inserts(j, loc[p].source) /\ loc[p].source \in Source
  <1>1. p \in Proc
    BY DEF Creators, Proc, Dispatchers, Runners
  <1>2. loc[p].pc = "insert" /\ loc[p].source \in Source
    BY <1>1 DEF InsertJob, At, RealInv, CreationOK, Creating
  <1>3. /\ Flushed(p) \in [Job -> Row]
        /\ jobs' = [Flushed(p) EXCEPT ![j] = NewRow(loc[p].source, loc[p].retryOf)]
        /\ jobs[j].status = "absent"
    BY <1>1, FlushedTypes DEF InsertJob, IsNextId
  <1>4. SettledBut({j})
    <2>1. \A k \in Job \ {j} : jobs'[k] = Flushed(p)[k]
      BY <1>3
    <2> QED
      BY <1>1, <2>1, SettledByFlush DEF SettledBut
  <1>5. jobs'[j].status = "pending" /\ jobs'[j].source = loc[p].source
    BY <1>3 DEF NewRow
  <1>6. ASSUME NEW k \in Job, jobs[k].source = loc[p].source
        PROVE  ~IsActive(jobs[k])
    <2>1. CASE k \in loc[p].stale
      BY <1>1, <1>2, <1>6, <2>1 DEF RealInv, CreationOK
    <2>2. CASE k \notin loc[p].stale
      <3>1. Flushed(p)[k] = jobs[k]
        BY <2>2 DEF Flushed
      <3> QED
        BY <1>6, <3>1 DEF InsertJob, ActiveSlotFree
    <2> QED
      BY <2>1, <2>2
  <1> QED
    BY <1>2, <1>3, <1>4, <1>5, <1>6 DEF Inserts

LEMMA CliInsertStatus ==
  ASSUME TypeInv, NEW p \in Clis, NEW s \in Source, NEW j \in Job, CliCreate(p, s, j)
  PROVE  Inserts(j, s)
  <1>1. /\ jobs' = [jobs EXCEPT ![j] = NewRow(s, Nil)] /\ jobs[j].status = "absent"
        /\ \A k \in Job : jobs[k].source = s => ~IsActive(jobs[k])
    BY DEF CliCreate, IsNextId, ActiveSlotFree
  <1>2. jobs'[j] = NewRow(s, Nil) /\ \A k \in Job \ {j} : jobs'[k] = jobs[k]
    BY <1>1 DEF TypeInv, TypeOK
  <1>3. jobs'[j].status = "pending" /\ jobs'[j].source = s
    BY <1>2 DEF NewRow
  <1> QED
    BY <1>1, <1>2, <1>3 DEF Inserts, SettledBut, Settled

LEMMA StartStatus ==
  ASSUME TypeInv, NEW p \in Runners, StartJob(p) \/ CliStart(p)
  PROVE  SettledBut({}) \/ \E j \in Job : Starts(j)
  <1>1. p \in Proc /\ loc[p].job \in Job
    BY LocalFields DEF Proc, StartJob, CliStart, At, LocalOK, Busy, Starting
  <1>2. CASE Startable(jobs[loc[p].job])
    <2> DEFINE j == loc[p].job
    <2>1. jobs' = [jobs EXCEPT ![j] = Started(jobs[j])]
      BY <1>2 DEF StartJob, CliStart
    <2>2. jobs'[j] = Started(jobs[j]) /\ \A k \in Job \ {j} : jobs'[k] = jobs[k]
      BY <1>1, <2>1 DEF TypeInv, TypeOK
    <2>3. jobs[j].status = "pending" /\ jobs[j] \in Row
      BY <1>1, <1>2, JobRowTypes DEF Startable
    <2>4. Started(jobs[j]).status = "running" /\ Started(jobs[j]).source = jobs[j].source
      BY <2>3 DEF Started, Row
    <2> QED
      BY <1>1, <2>2, <2>3, <2>4 DEF Starts
  <1>3. CASE ~Startable(jobs[loc[p].job])
    <2>1. UNCHANGED jobs
      BY <1>3 DEF StartJob, CliStart
    <2> QED
      BY <2>1, NothingSettled
  <1> QED
    BY <1>2, <1>3

LEMMA CloseStatus ==
  ASSUME TypeInv, NEW p \in Dispatchers \cup Runners, CloseStep(p)
  PROVE  SettledBut({})
  <1> DEFINE j == loc[p].job
  <1>1. p \in Proc /\ loc[p].target \in FinalStatus /\ "failed" \in FinalStatus
    BY LocalFields DEF Proc, FinalStatus
  <1>2. ASSUME NEW t \in FinalStatus, loc[p].pc \in Flushing,
               jobs' = [jobs EXCEPT ![j] = Finished(@, loc[p].seen, t)]
        PROVE  SettledBut({})
    <2>1. j \in Job /\ loc[p].seen \in Row /\ Closable(j)
      BY <1>1, <1>2, LocalFields DEF Closable, Flushing, LocalOK, Busy, Closing
    <2>2. Settled(j, Finished(jobs[j], loc[p].seen, t))
      BY <2>1, SettledByStatement
    <2> QED
      BY <1>2, <2>1, <2>2, SettledByUpdate
  <1>3. CASE FinishWrite(p)
    BY <1>1, <1>2, <1>3 DEF FinishWrite, Flushing
  <1>4. CASE FailWrite(p)
    BY <1>1, <1>2, <1>4 DEF FailWrite, Flushing, At
  <1>5. CASE FinishRead(p) \/ FailRead(p)
    BY <1>5, NothingSettled DEF FinishRead, FailRead
  <1> QED
    BY <1>3, <1>4, <1>5 DEF CloseStep

\* Every step inserts one row, starts one job, or leaves every status or closes the job.
LEMMA StatusSteps ==
  ASSUME TypeInv, RealInv, [Next]_vars
  PROVE  \/ SettledBut({})
         \/ \E j \in Job : Starts(j)
         \/ \E j \in Job, s \in Source : Inserts(j, s)
  <1> DEFINE Goal == \/ SettledBut({})
                     \/ \E j \in Job : Starts(j)
                     \/ \E j \in Job, s \in Source : Inserts(j, s)
  <1>1. CASE UNCHANGED jobs
    BY <1>1, NothingSettled
  <1>2. ASSUME NEW p \in Creators, CreateStep(p) PROVE Goal
    BY <1>1, <1>2, InsertStatus DEF CreateStep, CheckActive, InsertConflict
  <1>3. ASSUME NEW d \in Dispatchers, DispatchStep(d) \/ HandoffFails(d) PROVE Goal
    <2>1. CASE Claim(d)
      <3>1. PICK j \in loc[d].todo :
               jobs' = [jobs EXCEPT ![j] = Claimed(@)] \/ UNCHANGED jobs
        BY <2>1 DEF Claim
      <3>2. j \in Job
        BY LocalFields DEF Proc
      <3>3. Settled(j, Claimed(jobs[j]))
        BY <3>2, JobRowTypes, SettledByStatement DEF FinalStatus
      <3> QED
        BY <1>1, <3>1, <3>2, <3>3, SettledByUpdate
    <2>2. CASE ~Claim(d)
      BY <1>1, <1>3, <2>2 DEF DispatchStep, HandoffFails, Sweep, LaunchWorker, LaunchFails
    <2> QED
      BY <2>1, <2>2
  <1>4. ASSUME NEW p \in Runners, RunStep(p) \/ SpiderExits(p) PROVE Goal
    <2>1. CASE StartJob(p)
      BY <2>1, StartStatus
    <2>2. CASE HeartbeatWrite(p)
      <3> DEFINE j == loc[p].job
      <3>1. j \in Job /\ loc[p].seen \in Row /\ jobs[j] \in Row
        BY <2>2, LocalFields, JobRowTypes
           DEF Proc, HeartbeatWrite, At, LocalOK, Busy, Executing
      <3>2. Settled(j, Beaten(jobs[j], loc[p].seen))
        BY <3>1, SettledByStatement DEF FinalStatus
      <3>3. jobs' = [jobs EXCEPT ![j] = Beaten(jobs[j], loc[p].seen)]
        BY <2>2 DEF HeartbeatWrite
      <3> QED
        BY <3>1, <3>2, <3>3, SettledByUpdate
    <2>3. CASE ~StartJob(p) /\ ~HeartbeatWrite(p)
      BY <1>1, <1>4, <2>3 DEF RunStep, SpiderExits, BootFails, SpawnSpider, SpawnFails,
         HeartbeatRead, Conclude, ConcludeFails
    <2> QED
      BY <2>1, <2>2, <2>3
  <1>5. ASSUME NEW p \in Dispatchers \cup Runners, CloseStep(p) PROVE Goal
    BY <1>5, CloseStatus
  <1>6. ASSUME NEW p \in Clis, NEW s \in Source, NEW j \in Job, CliCreate(p, s, j) PROVE Goal
    BY <1>6, CliInsertStatus
  <1>7. ASSUME NEW p \in Clis, CliStart(p) PROVE Goal
    BY <1>7, StartStatus DEF Runners
  <1>8. ASSUME NEW p \in Pages, ReconcileStep(p) PROVE Goal
    <2>1. CASE ReconcileWrite(p)
      <3>1. p \in Proc /\ jobs' = Flushed(p)
        BY <2>1 DEF ReconcileWrite, Proc
      <3> QED
        BY <3>1, SettledByFlush DEF SettledBut
    <2> QED
      BY <1>1, <1>8, <2>1 DEF ReconcileStep, ReconcileRead
  <1>9. ASSUME NEW j \in Job, LeaseExpires(j) PROVE Goal
    <2>1. Settled(j, [jobs[j] EXCEPT !.lease = "expired"])
      BY JobRowTypes, SettledByStatement DEF FinalStatus
    <2>2. jobs' = [jobs EXCEPT ![j] = [jobs[j] EXCEPT !.lease = "expired"]]
      BY <1>9 DEF LeaseExpires
    <2> QED
      BY <2>1, <2>2, SettledByUpdate
  <1>10. CASE \/ \E p \in Creators, s \in Source : Request(p, s)
              \/ \E p \in Clients, r \in Job : RequestRetry(p, r)
              \/ \E p \in Proc : Crash(p)
              \/ UNCHANGED vars
    BY <1>1, <1>10 DEF Request, RequestRetry, Crash, vars
  <1> QED
    BY <1>2, <1>3, <1>4, <1>5, <1>6, <1>7, <1>8, <1>9, <1>10 DEF Next

----------------------------------------------------------------------------
(* Tasks keep having rows *)

\* A process has been given something new to do.
Fresh(l) ==
    /\ \A j \in Tasks(l) : jobs'[j].status # "absent"
    /\ l.stale \subseteq ExpiredJobs
    /\ l.pc \notin {"insert"} \cup Flushing
    /\ l.pc \in Creating => l.source \in Source

TaskStep == \A p \in Proc : Narrower(loc'[p], loc[p]) \/ Fresh(loc'[p])

LEMMA NarrowItself ==
  ASSUME NEW l
  PROVE  Narrower(l, l)
  BY DEF Narrower

LEMMA FreshBecome ==
  ASSUME TypeInv, NEW q \in Proc, NEW l, Become(q, l), Fresh(l)
  PROVE  TaskStep
  <1> SUFFICES ASSUME NEW p \in Proc PROVE Narrower(loc'[p], loc[p]) \/ Fresh(loc'[p])
    BY DEF TaskStep
  <1>1. loc'[p] = IF p = q THEN l ELSE loc[p]
    BY DEF Become, TypeInv, TypeOK
  <1> QED
    BY <1>1, NarrowItself

LEMMA FreshTurn ==
  ASSUME NEW rest, \A j \in rest : jobs'[j].status # "absent"
  PROVE  Fresh(TurnTo(rest))
  <1>1. CASE rest = {}
    BY <1>1 DEF TurnTo, Fresh, Idle, Tasks, Busy, Starting, Executing, Closing, Creating, Flushing
  <1>2. CASE rest # {}
    BY <1>2 DEF TurnTo, Fresh, Idle, Tasks, Busy, Starting, Executing, Closing, Creating, Flushing
  <1> QED
    BY <1>1, <1>2

\* A runner with a job to start.
LEMMA FreshBoot ==
  ASSUME NEW j, jobs'[j].status # "absent", NEW c \in Starting
  PROVE  Fresh([Idle EXCEPT !.pc = c, !.job = j])
  BY DEF Fresh, Idle, Tasks, Busy, Starting, Creating, Flushing

LEMMA CreateTasks ==
  ASSUME TypeInv, RealInv, NEW q \in Creators, CreateStep(q)
  PROVE  TaskStep
  <1>1. q \in Proc
    BY DEF Creators, Proc, Dispatchers, Runners
  <1>2. CASE CheckActive(q) \/ InsertConflict(q)
    BY <1>2, CreateNarrow DEF TaskStep, AllNarrower
  <1>3. ASSUME NEW j \in Job, InsertJob(q, j) PROVE TaskStep
    <2>1. jobs'[j].status # "absent"
      BY <1>3, InsertStatus DEF Inserts
    <2>2. Fresh(TurnTo({j})) /\ Fresh([Idle EXCEPT !.pc = "boot", !.job = j])
      BY <2>1, FreshTurn, FreshBoot DEF Starting
    <2>3. \/ Become(q, TurnTo({j}))
          \/ Become(q, [Idle EXCEPT !.pc = "boot", !.job = j])
      BY <1>3 DEF InsertJob
    <2> QED
      BY <1>1, <2>2, <2>3, FreshBecome
  <1> QED
    BY <1>2, <1>3 DEF CreateStep

LEMMA RequestTasks ==
  ASSUME TypeInv, RealInv,
         \/ \E q \in Creators, s \in Source : Request(q, s)
         \/ \E q \in Clients, r \in Job : RequestRetry(q, r)
  PROVE  TaskStep
  <1>1. ASSUME NEW q \in Creators, NEW s \in Source, Request(q, s) PROVE TaskStep
    <2>1. q \in Proc /\ Become(q, [Idle EXCEPT !.pc = "check", !.source = s,
                                              !.stale = ExpiredJobs])
      BY <1>1 DEF Request, Creators, Proc, Dispatchers, Runners
    <2>2. Fresh([Idle EXCEPT !.pc = "check", !.source = s, !.stale = ExpiredJobs])
      BY DEF Fresh, Idle, Tasks, Busy, Starting, Executing, Closing, Creating, Flushing
    <2> QED
      BY <2>1, <2>2, FreshBecome
  <1>2. ASSUME NEW q \in Clients, NEW r \in Job, RequestRetry(q, r) PROVE TaskStep
    <2>1. /\ q \in Proc /\ jobs[r].source \in Source
          /\ Become(q, [Idle EXCEPT !.pc = "check", !.source = jobs[r].source,
                                    !.retryOf = r, !.stale = ExpiredJobs])
      BY <1>2 DEF RequestRetry, Proc, Dispatchers, RealInv, RowsHaveSources, HasRow
    <2>2. Fresh([Idle EXCEPT !.pc = "check", !.source = jobs[r].source,
                             !.retryOf = r, !.stale = ExpiredJobs])
      BY <2>1 DEF Fresh, Idle, Tasks, Busy, Starting, Executing, Closing, Creating, Flushing
    <2> QED
      BY <2>1, <2>2, FreshBecome
  <1> QED
    BY <1>1, <1>2

LEMMA DispatchTasks ==
  ASSUME TypeInv, RealInv, NEW d \in Dispatchers, DispatchStep(d) \/ HandoffFails(d)
  PROVE  TaskStep
  <1>1. d \in Proc
    BY DEF Proc
  <1>2. CASE Claim(d) \/ LaunchFails(d) \/ HandoffFails(d)
    BY <1>2, DispatchNarrow DEF TaskStep, AllNarrower
  <1>3. CASE Sweep(d)
    <2>1. UNCHANGED jobs /\ Become(d, TurnTo(Candidates))
      BY <1>3 DEF Sweep
    <2>2. \A j \in Candidates : jobs'[j].status # "absent"
      BY <2>1 DEF Candidates, Claimable
    <2> QED
      BY <1>1, <2>1, <2>2, FreshTurn, FreshBecome
  <1>4. ASSUME NEW w \in Workers, LaunchWorker(d, w) PROVE TaskStep
    <2> DEFINE j == loc[d].job
               b == [Idle EXCEPT !.pc = "boot", !.job = j]
    <2>1. /\ loc' = [loc EXCEPT ![d] = TurnTo(loc[d].todo), ![w] = b]
          /\ UNCHANGED jobs /\ loc[d].pc = "launch"
      BY <1>4 DEF LaunchWorker, At
    <2>2. Tasks(loc[d]) = loc[d].todo \cup {j}
      BY <2>1 DEF Tasks, Busy
    <2>3. \A k \in loc[d].todo \cup {j} : jobs'[k].status # "absent"
      BY <1>1, <2>1, <2>2 DEF RealInv, TasksHaveRows, HasRow
    <2>4. Fresh(TurnTo(loc[d].todo)) /\ Fresh(b)
      BY <2>3, FreshTurn, FreshBoot DEF Starting
    <2>5. \A p \in Proc : loc'[p] \in {loc[p], TurnTo(loc[d].todo), b}
      BY <2>1 DEF TypeInv, TypeOK
    <2> HIDE DEF b
    <2> QED
      BY <2>4, <2>5, NarrowItself DEF TaskStep
  <1> QED
    BY <1>2, <1>3, <1>4 DEF DispatchStep

\* No step gives a process a task without a row.
LEMMA TaskSteps ==
  ASSUME TypeInv, RealInv, [Next]_vars
  PROVE  TaskStep
  <1>1. AllNarrower => TaskStep
    BY DEF TaskStep, AllNarrower
  <1>2. ASSUME NEW p \in Runners, RunStep(p) \/ SpiderExits(p) PROVE TaskStep
    BY <1>1, <1>2, RunNarrow
  <1>3. ASSUME NEW p \in Dispatchers \cup Runners, CloseStep(p) PROVE TaskStep
    BY <1>1, <1>3, CloseNarrow
  <1>4. ASSUME NEW p \in Clis, NEW s \in Source, NEW j \in Job, CliCreate(p, s, j)
        PROVE  TaskStep
    <2>1. p \in Proc /\ Become(p, [Idle EXCEPT !.pc = "cliStart", !.job = j])
      BY <1>4 DEF CliCreate, Proc, Runners
    <2>2. jobs'[j].status # "absent"
      BY <1>4, CliInsertStatus DEF Inserts
    <2> QED
      BY <2>1, <2>2, FreshBoot, FreshBecome DEF Starting
  <1>5. ASSUME NEW p \in Clis, CliStart(p) PROVE TaskStep
    BY <1>1, <1>5, RunNarrow DEF Runners
  <1>6. ASSUME NEW p \in Pages, ReconcileStep(p) PROVE TaskStep
    <2>1. p \in Proc
      BY DEF Proc
    <2>2. Fresh([Idle EXCEPT !.pc = "reconcile", !.stale = ExpiredJobs])
      BY DEF Fresh, Idle, Tasks, Busy, Starting, Executing, Closing, Creating, Flushing
    <2> QED
      BY <1>1, <1>6, <2>1, <2>2, NarrowLeave, FreshBecome
         DEF ReconcileStep, ReconcileRead, ReconcileWrite
  <1>7. ASSUME NEW p \in Proc, Crash(p) PROVE TaskStep
    BY <1>1, <1>7, NarrowLeave DEF Crash
  <1>8. CASE UNCHANGED loc
    BY <1>1, <1>8, NarrowSame
  <1> QED
    BY <1>2, <1>3, <1>4, <1>5, <1>6, <1>7, <1>8, CreateTasks, RequestTasks, DispatchTasks
       DEF Next, LeaseExpires, vars

\* A job that is closed stays closed, and keeps its source.
LEMMA ClosedStay ==
  ASSUME TypeInv, RealInv, [Next]_vars, NEW k \in Job, HasRow(k)
  PROVE  /\ jobs'[k].source = jobs[k].source
         /\ ~IsActive(jobs[k]) => ~IsActive(jobs'[k])
  <1>1. CASE SettledBut({})
    <2>1. Settled(k, jobs'[k])
      BY <1>1 DEF SettledBut
    <2> QED
      BY <2>1 DEF Settled, IsActive, ActiveStatus, FinalStatus
  <1>2. ASSUME NEW j \in Job, Starts(j)
        PROVE  /\ jobs'[k].source = jobs[k].source
               /\ ~IsActive(jobs[k]) => ~IsActive(jobs'[k])
    BY <1>2 DEF Starts, IsActive, ActiveStatus
  <1>3. ASSUME NEW j \in Job, NEW s \in Source, Inserts(j, s)
        PROVE  /\ jobs'[k].source = jobs[k].source
               /\ ~IsActive(jobs[k]) => ~IsActive(jobs'[k])
    <2>1. Settled(k, jobs'[k])
      BY <1>3 DEF Inserts, SettledBut, HasRow
    <2> QED
      BY <2>1 DEF Settled, IsActive, ActiveStatus, FinalStatus
  <1> QED
    BY <1>1, <1>2, <1>3, StatusSteps

LEMMA RealStep ==
  ASSUME TypeInv, RealInv, [Next]_vars
  PROVE  RealInv'
  <1>1. RowsHaveSources'
    <2> SUFFICES ASSUME NEW k \in Job, jobs'[k].status # "absent"
                 PROVE  jobs'[k].source \in Source
      BY DEF RowsHaveSources, HasRow
    <2>1. CASE HasRow(k)
      BY <2>1, ClosedStay DEF RealInv, RowsHaveSources
    <2>2. CASE ~HasRow(k)
      <3>1. ~Settled(k, jobs'[k])
        BY <2>2, ClosableHasRow DEF Settled, HasRow
      <3>2. \A j \in Job : ~Starts(j)
        BY <2>2 DEF Starts, HasRow
      <3>3. PICK j \in Job, s \in Source : Inserts(j, s)
        BY <3>1, <3>2, StatusSteps DEF SettledBut
      <3> QED
        BY <3>1, <3>3 DEF Inserts, SettledBut
    <2> QED
      BY <2>1, <2>2
  <1>2. \A j \in ExpiredJobs : j \in Job /\ HasRow(j)
    BY DEF ExpiredJobs, Expired, HasRow
  <1>3. ASSUME NEW p \in Proc
        PROVE  /\ \A j \in Tasks(loc'[p]) \cup loc'[p].stale : jobs'[j].status # "absent"
               /\ CreationOK(p)'
    <2>1. Tasks(loc[p]) \cup loc[p].stale \subseteq Job
      BY TasksAreJobs, LocalFields
    <2>2. \A j \in Tasks(loc[p]) \cup loc[p].stale \cup ExpiredJobs :
             j \in Job /\ HasRow(j) /\ jobs'[j].status # "absent"
      BY <1>2, <2>1, RowsStay DEF RealInv, TasksHaveRows, HasRow
    <2>3. CASE Narrower(loc'[p], loc[p])
      <3>1. \A j \in Tasks(loc'[p]) \cup loc'[p].stale : jobs'[j].status # "absent"
        BY <2>2, <2>3 DEF Narrower
      <3>2. CASE loc'[p].pc \notin Creating
        BY <3>1, <3>2 DEF CreationOK, Creating
      <3>3. CASE loc'[p] = loc[p]
        <4>1. loc[p].pc = "insert" =>
                 \A j \in loc[p].stale : jobs'[j].source = loc[p].source => ~IsActive(jobs'[j])
          BY <2>2, ClosedStay DEF RealInv, CreationOK
        <4> QED
          BY <3>1, <3>3, <4>1 DEF RealInv, CreationOK
      <3>4. CASE Checked(loc'[p], loc[p])
        <4>1. loc[p] \in Local
          BY LocalFields
        <4>2. /\ loc'[p].pc = "insert" /\ loc[p].pc = "check"
              /\ loc'[p].source = loc[p].source /\ loc'[p].stale = loc[p].stale
          BY <3>4, <4>1 DEF Checked, Local
        <4>3. loc[p].source \in Source
          BY <4>2 DEF RealInv, CreationOK, Creating
        <4>4. \A j \in loc[p].stale : jobs[j].source = loc[p].source => ~IsActive(jobs[j])
          BY <2>1, <3>4 DEF Checked, ActiveSlotFree
        <4>5. \A j \in loc[p].stale : jobs'[j].source = loc[p].source => ~IsActive(jobs'[j])
          BY <2>2, <4>4, ClosedStay
        <4> QED
          BY <3>1, <4>2, <4>3, <4>5 DEF CreationOK
      <3> QED
        BY <2>3, <3>2, <3>3, <3>4 DEF Narrower
    <2>4. CASE Fresh(loc'[p])
      <3>1. \A j \in Tasks(loc'[p]) \cup loc'[p].stale : jobs'[j].status # "absent"
        BY <2>2, <2>4 DEF Fresh
      <3> QED
        BY <2>4, <3>1 DEF Fresh, CreationOK
    <2> QED
      BY <2>3, <2>4, TaskSteps DEF TaskStep
  <1> QED
    BY <1>1, <1>3 DEF RealInv, TasksHaveRows, HasRow

LEMMA RealInvariant == Spec => []RealInv
  <1>1. Init => RealInv
    <2> SUFFICES ASSUME Init PROVE RealInv
      OBVIOUS
    <2>1. \A p \in Proc : Tasks(loc[p]) = {} /\ loc[p].stale = {} /\ loc[p].pc \notin Creating
      BY DEF Init, Idle, Tasks, Busy, Starting, Executing, Closing, Creating
    <2>2. \A j \in Job : ~HasRow(j)
      BY DEF Init, HasRow, NoRow
    <2> QED
      BY <2>1, <2>2 DEF RealInv, TasksHaveRows, RowsHaveSources, CreationOK, Creating
  <1>2. TypeInv /\ RealInv /\ [Next]_vars => RealInv'
    BY RealStep
  <1> QED
    BY <1>1, <1>2, TypeInvariant, PTL DEF Spec

----------------------------------------------------------------------------
(* The slots *)

\* The slot of a source with an active job is that job's.
LEMMA TakenSlot ==
  ASSUME OneActiveJobPerSource, NEW s \in Source, NEW j \in Job,
         jobs[j].source = s, IsActive(jobs[j])
  PROVE  /\ ActiveJobs(s) = {j}
         /\ slotHolder[s] = j
         /\ slotPhase[s] = IF jobs[j].status = "running" THEN "executing" ELSE "queued"
  <1>1. ActiveJobs(s) = {j}
    BY DEF ActiveJobs, OneActiveJobPerSource
  <1>2. (CHOOSE k \in {j} : TRUE) = j
    OBVIOUS
  <1>3. slotHolder[s] = j
    BY <1>1, <1>2 DEF slotHolder
  <1>4. slotPhase[s] = IF jobs[j].status = "running" THEN "executing" ELSE "queued"
    BY <1>1 DEF slotPhase
  <1> QED
    BY <1>1, <1>3, <1>4

LEMMA FreeSlot ==
  ASSUME NEW s \in Source, \A j \in Job : jobs[j].source = s => ~IsActive(jobs[j])
  PROVE  ActiveJobs(s) = {} /\ slotHolder[s] = Nil /\ slotPhase[s] = "free"
  <1>1. ActiveJobs(s) = {}
    BY DEF ActiveJobs
  <1> QED
    BY <1>1 DEF slotHolder, slotPhase

\* The same after a step.
LEMMA TakenSlotAfter ==
  ASSUME OneActiveJobPerSource', NEW s \in Source, NEW j \in Job,
         jobs'[j].source = s, IsActive(jobs'[j])
  PROVE  /\ slotHolder'[s] = j
         /\ slotPhase'[s] = IF jobs'[j].status = "running" THEN "executing" ELSE "queued"
  <1>1. ActiveJobs(s)' = {j}
    BY DEF ActiveJobs, OneActiveJobPerSource
  <1>2. (CHOOSE k \in {j} : TRUE) = j
    OBVIOUS
  <1>3. slotHolder'[s] = j
    BY <1>1, <1>2 DEF slotHolder
  <1>4. slotPhase'[s] = IF jobs'[j].status = "running" THEN "executing" ELSE "queued"
    BY <1>1 DEF slotPhase
  <1> QED
    BY <1>3, <1>4

LEMMA FreeSlotAfter ==
  ASSUME NEW s \in Source, \A j \in Job : jobs'[j].source = s => ~IsActive(jobs'[j])
  PROVE  slotHolder'[s] = Nil /\ slotPhase'[s] = "free"
  <1>1. ActiveJobs(s)' = {}
    BY DEF ActiveJobs
  <1> QED
    BY <1>1 DEF slotHolder, slotPhase

LEMMA SlotFunctions ==
  /\ slotHolder = [s \in Source |-> slotHolder[s]]
  /\ slotPhase = [s \in Source |-> slotPhase[s]]
  /\ slotHolder' = [s \in Source |-> slotHolder'[s]]
  /\ slotPhase' = [s \in Source |-> slotPhase'[s]]
  <1>1. slotHolder = [s \in Source |-> slotHolder[s]] /\ slotPhase = [s \in Source |-> slotPhase[s]]
    BY DEF slotHolder, slotPhase
  <1>2. /\ slotHolder' = [s \in Source |-> slotHolder'[s]]
        /\ slotPhase' = [s \in Source |-> slotPhase'[s]]
    BY DEF slotHolder, slotPhase
  <1> QED
    BY <1>1, <1>2

SlotSame(s) == slotHolder'[s] = slotHolder[s] /\ slotPhase'[s] = slotPhase[s]

SlotFreed(s) == slotPhase[s] # "free" /\ slotHolder'[s] = Nil /\ slotPhase'[s] = "free"

\* A row that is and was no active one of source s.
Foreign(k, s) ==
    /\ ~(jobs[k].source = s /\ IsActive(jobs[k]))
    /\ ~(jobs'[k].source = s /\ IsActive(jobs'[k]))

\* Where rows settle, slots are kept or freed.
LEMMA SlotKept ==
  ASSUME OneActiveJobPerSource, OneActiveJobPerSource', NEW s \in Source,
         \A k \in Job : Settled(k, jobs'[k]) \/ Foreign(k, s)
  PROVE  SlotSame(s) \/ SlotFreed(s)
  <1>1. ASSUME NEW k \in Job, jobs'[k].source = s, IsActive(jobs'[k])
        PROVE  jobs[k].source = s /\ jobs[k].status = jobs'[k].status /\ IsActive(jobs[k])
    <2>1. Settled(k, jobs'[k])
      BY <1>1 DEF Foreign
    <2> QED
      BY <1>1, <2>1 DEF Settled, IsActive, ActiveStatus, FinalStatus
  <1>2. CASE \A k \in Job : jobs[k].source = s => ~IsActive(jobs[k])
    <2>1. \A k \in Job : jobs'[k].source = s => ~IsActive(jobs'[k])
      BY <1>1, <1>2
    <2> QED
      BY <1>2, <2>1, FreeSlot, FreeSlotAfter DEF SlotSame
  <1>3. ASSUME NEW k \in Job, jobs[k].source = s, IsActive(jobs[k])
        PROVE  SlotSame(s) \/ SlotFreed(s)
    <2>1. /\ slotHolder[s] = k
          /\ slotPhase[s] = IF jobs[k].status = "running" THEN "executing" ELSE "queued"
      BY <1>3, TakenSlot
    <2>2. CASE jobs'[k].source = s /\ IsActive(jobs'[k])
      <3>1. /\ slotHolder'[s] = k
            /\ slotPhase'[s] = IF jobs'[k].status = "running" THEN "executing" ELSE "queued"
        BY <2>2, TakenSlotAfter
      <3> QED
        BY <1>1, <2>1, <2>2, <3>1 DEF SlotSame
    <2>3. CASE ~(jobs'[k].source = s /\ IsActive(jobs'[k]))
      <3>1. ASSUME NEW m \in Job, jobs'[m].source = s, IsActive(jobs'[m]) PROVE FALSE
        <4>1. jobs[m].source = s /\ IsActive(jobs[m])
          BY <1>1, <3>1
        <4>2. m = k
          BY <1>3, <4>1 DEF OneActiveJobPerSource
        <4> QED
          BY <2>3, <3>1, <4>2
      <3>2. slotHolder'[s] = Nil /\ slotPhase'[s] = "free"
        BY <3>1, FreeSlotAfter
      <3> QED
        BY <2>1, <3>2 DEF SlotFreed
    <2> QED
      BY <2>2, <2>3
  <1> QED
    BY <1>2, <1>3

\* Where no row changes, slots do not.
LEMMA SlotUnchanged ==
  ASSUME NEW s \in Source, \A k \in Job : jobs'[k] = jobs[k] \/ Foreign(k, s)
  PROVE  SlotSame(s)
  <1>1. ActiveJobs(s)' = ActiveJobs(s)
    BY DEF ActiveJobs, Foreign
  <1>2. \A k \in ActiveJobs(s) : jobs'[k] = jobs[k]
    BY DEF ActiveJobs, Foreign
  <1>3. slotHolder'[s] = slotHolder[s]
    BY <1>1 DEF slotHolder
  <1>4. slotPhase'[s] = slotPhase[s]
    BY <1>1, <1>2 DEF slotPhase
  <1> QED
    BY <1>3, <1>4 DEF SlotSame

\* A job closes: its slot is released.
LEMMA ReleaseStep ==
  ASSUME RealInv, OneActiveJobPerSource, OneActiveJobPerSource', SettledBut({})
  PROVE  [Slots!Next]_(Slots!slotVars)
  <1> DEFINE S == {s \in Source : SlotFreed(s)}
  <1>1. usedJobs' = usedJobs
    BY ClosableHasRow DEF usedJobs, SettledBut, Settled, HasRow, FinalStatus
  <1>2. \A s \in Source : SlotSame(s) \/ SlotFreed(s)
    BY SlotKept DEF SettledBut
  <1>3. S \in SUBSET Slots!Held
    BY DEF Slots!Held, SlotFreed
  <1>4. slotHolder' = Slots!Freed(slotHolder, S, Nil)
    BY <1>2, SlotFunctions DEF Slots!Freed, SlotSame, SlotFreed
  <1>5. slotPhase' = Slots!Freed(slotPhase, S, "free")
    BY <1>2, SlotFunctions DEF Slots!Freed, SlotSame, SlotFreed
  <1>6. CASE S = {}
    <2>1. slotHolder' = slotHolder /\ slotPhase' = slotPhase
      BY <1>2, <1>6, SlotFunctions DEF SlotSame
    <2> QED
      BY <1>1, <2>1 DEF Slots!slotVars
  <1>7. CASE S # {}
    <2>1. Slots!Release(S)
      BY <1>1, <1>4, <1>5, <1>7 DEF Slots!Release
    <2> QED
      BY <1>3, <2>1 DEF Slots!Next
  <1> QED
    BY <1>6, <1>7

\* A job is started: it begins in its slot.
LEMMA BeginStep ==
  ASSUME RealInv, OneActiveJobPerSource, OneActiveJobPerSource', NEW j \in Job, Starts(j)
  PROVE  \E s \in Source : Slots!Begin(s)
  <1> DEFINE s == jobs[j].source
  <1>1. s \in Source
    BY DEF Starts, RealInv, RowsHaveSources, HasRow
  <1>2. /\ IsActive(jobs[j]) /\ IsActive(jobs'[j]) /\ jobs'[j].source = s
        /\ jobs[j].status = "pending" /\ jobs'[j].status = "running"
    BY DEF Starts, IsActive, ActiveStatus
  <1> HIDE DEF s
  <1>3. slotHolder[s] = j /\ slotPhase[s] = "queued"
    BY <1>1, <1>2, TakenSlot DEF s
  <1>4. slotHolder'[s] = j /\ slotPhase'[s] = "executing"
    BY <1>1, <1>2, TakenSlotAfter
  <1>5. ASSUME NEW t \in Source, t # s PROVE SlotSame(t)
    <2>1. Foreign(j, t)
      BY <1>2, <1>5 DEF Foreign, s
    <2>2. \A k \in Job : jobs'[k] = jobs[k] \/ Foreign(k, t)
      BY <2>1 DEF Starts
    <2> QED
      BY <2>2, SlotUnchanged
  <1>6. usedJobs' = usedJobs
    BY DEF usedJobs, Starts
  <1>7. slotHolder' = slotHolder
    BY <1>3, <1>4, <1>5, SlotFunctions DEF SlotSame
  <1>8. slotPhase' = [slotPhase EXCEPT ![s] = "executing"]
    BY <1>1, <1>4, <1>5, SlotFunctions DEF SlotSame
  <1> QED
    BY <1>1, <1>3, <1>6, <1>7, <1>8 DEF Slots!Begin

\* A row is inserted: its job is queued, in a slot that was free.
LEMMA EnqueueStep ==
  ASSUME RealInv, OneActiveJobPerSource, OneActiveJobPerSource',
         NEW j \in Job, NEW s \in Source, Inserts(j, s)
  PROVE  Slots!Next
  <1> DEFINE S == {t \in Source : t # s /\ SlotFreed(t)}
  <1>1. slotPhase[s] = "free"
    BY FreeSlot DEF Inserts
  <1>2. slotHolder'[s] = j /\ slotPhase'[s] = "queued"
    BY TakenSlotAfter DEF Inserts, IsActive, ActiveStatus
  <1>3. ASSUME NEW t \in Source, t # s PROVE SlotSame(t) \/ SlotFreed(t)
    <2>1. Foreign(j, t)
      BY <1>3 DEF Inserts, Foreign, IsActive, ActiveStatus
    <2>2. \A k \in Job : Settled(k, jobs'[k]) \/ Foreign(k, t)
      BY <2>1 DEF Inserts, SettledBut
    <2> QED
      BY <2>2, SlotKept
  <1>4. S \in SUBSET Slots!Held
    BY DEF Slots!Held, SlotFreed
  <1>5. slotHolder' = [Slots!Freed(slotHolder, S, Nil) EXCEPT ![s] = j]
    BY <1>2, <1>3, SlotFunctions DEF Slots!Freed, SlotSame, SlotFreed
  <1>6. slotPhase' = [Slots!Freed(slotPhase, S, "free") EXCEPT ![s] = "queued"]
    BY <1>2, <1>3, SlotFunctions DEF Slots!Freed, SlotSame, SlotFreed
  <1>7. j \notin usedJobs /\ usedJobs' = usedJobs \cup {j}
    <2>1. \A k \in Job \ {j} : jobs[k].status = "absent" <=> jobs'[k].status = "absent"
      BY ClosableHasRow DEF Inserts, SettledBut, Settled, HasRow, FinalStatus
    <2> QED
      BY <2>1 DEF usedJobs, Inserts
  <1>8. Slots!Enqueue(s, j, S)
    BY <1>1, <1>5, <1>6, <1>7 DEF Slots!Enqueue
  <1> QED
    BY <1>4, <1>8 DEF Slots!Next

LEMMA SlotSteps ==
  ASSUME TypeInv, RealInv, OneActiveJobPerSource, OneActiveJobPerSource', [Next]_vars
  PROVE  [Slots!Next]_(Slots!slotVars)
  BY StatusSteps, ReleaseStep, BeginStep, EnqueueStep DEF Slots!Next

\* The processes implement the slots: a job takes the free slot of its source
\* once, begins once, by whoever starts it first, and gives the slot back once,
\* whatever runs late, is lost or crashes.
THEOREM SlotsImplemented == Spec => ImplementsSourceSlots
  <1>1. Init => Slots!Init
    <2> SUFFICES ASSUME Init PROVE Slots!Init
      OBVIOUS
    <2>1. \A j \in Job : jobs[j].status = "absent" /\ ~IsActive(jobs[j])
      BY DEF Init, NoRow, IsActive, ActiveStatus
    <2>2. \A s \in Source : slotHolder[s] = Nil /\ slotPhase[s] = "free"
      BY <2>1, FreeSlot
    <2>3. usedJobs = {}
      BY <2>1 DEF usedJobs
    <2> QED
      BY <2>2, <2>3, SlotFunctions DEF Slots!Init
  <1>2. TypeInv /\ RealInv /\ OneActiveJobPerSource /\ OneActiveJobPerSource' /\ [Next]_vars
          => [Slots!Next]_(Slots!slotVars)
    BY SlotSteps
  <1> QED
    BY <1>1, <1>2, TypeInvariant, RealInvariant, OneActiveJob, PTL
       DEF Spec, ImplementsSourceSlots, Slots!Spec

----------------------------------------------------------------------------
(* What leases are good for.                                               *)
(*                                                                         *)
(* A running row has a lease at every moment: flushes that take a lease    *)
(* away also close the job, since the row they were computed from was at   *)
(* most as far as the row they land on.                                    *)
(*                                                                         *)
(* Where no lease runs out while somebody is there to renew it, a job has  *)
(* one keeper from the claim to the end, and nobody else closes it.  The   *)
(* script does not honour claims; the theorems are about systems in which  *)
(* it does not run.                                                        *)

\* A row a process is about to flush was at most as far as the row is now.
FlushesPast ==
    \A p \in Proc :
        loc[p].pc \in Flushing =>
            StatusRank(loc[p].seen.status) <= StatusRank(jobs[loc[p].job].status)

LeaseInv == RunningHoldsLease /\ FlushesPast

----------------------------------------------------------------------------
(* Running rows hold leases *)

\* Nobody else may take the job or close it as expired.
Secure(row) == IsFinal(row) \/ (row.picked /\ row.lease = "live")

\* A row that is written, running, has a lease if the row before had one; and
\* what was secure stays so.
Leased(old, new) ==
    /\ new.status = "running" =>
          new.lease # "none" \/ (old.status = "running" /\ new.lease = old.lease)
    /\ old.status # "absent" /\ Secure(old) => Secure(new)

LEMMA LeasedByStatement ==
  ASSUME NEW row \in Row, NEW seen \in Row, NEW t \in FinalStatus
  PROVE  /\ Leased(row, row)
         /\ Leased(row, Claimed(row))
         /\ Leased(row, Started(row))
         /\ Leased(row, Beaten(row, seen))
         /\ Leased(row, Reconciled(row))
         /\ StatusRank(seen.status) <= StatusRank(row.status)
              => Leased(row, Finished(row, seen, t))
  <1>1. Leased(row, row)
    BY DEF Leased
  <1>2. Leased(row, Claimed(row)) /\ Leased(row, Started(row))
    BY DEF Leased, Secure, Claimed, Started, Row
  <1>3. Leased(row, Beaten(row, seen))
    <2>1. row.picked \in BOOLEAN /\ seen.picked \in BOOLEAN
      BY DEF Row
    <2>2. /\ Beaten(row, seen).status = row.status
          /\ Beaten(row, seen).lease = "live"
          /\ row.picked = TRUE => Beaten(row, seen).picked = TRUE
      BY <2>1 DEF Beaten, Row
    <2> QED
      BY <2>1, <2>2 DEF Leased, Secure, IsFinal
  <1>5. Leased(row, Reconciled(row))
    BY DEF Leased, Secure, IsFinal, FinalStatus, Reconciled, Row
  <1>6. ASSUME StatusRank(seen.status) <= StatusRank(row.status)
        PROVE  Finished(row, seen, t).status \in FinalStatus
    <2>1. row.status \in Status /\ seen.status \in Status /\ t \in Status
      BY DEF Row, Status
    <2>2. Finished(row, seen, t).status = IF seen.status # t THEN t ELSE row.status
      BY DEF Finished, Row
    <2>3. CASE seen.status = t
      <3>1. StatusRank(seen.status) = 3
        BY <2>1, <2>3, RanksOf
      <3>2. StatusRank(row.status) = 3
        BY <1>6, <2>1, <3>1, RanksOf
      <3> QED
        BY <2>1, <2>2, <2>3, <3>2, RanksOf
    <2>4. CASE seen.status # t
      BY <2>2, <2>4
    <2> QED
      BY <2>3, <2>4
  <1>7. \A st \in FinalStatus : st # "running"
    BY DEF FinalStatus
  <1>8. StatusRank(seen.status) <= StatusRank(row.status) => Leased(row, Finished(row, seen, t))
    BY <1>6, <1>7 DEF Leased, Secure, IsFinal
  <1> QED
    BY <1>1, <1>2, <1>3, <1>5, <1>8

LeasedAll == \A k \in Job : Leased(jobs[k], jobs'[k])

LEMMA NothingLeased ==
  ASSUME UNCHANGED jobs
  PROVE  LeasedAll
  BY DEF LeasedAll, Leased

LEMMA LeasedByUpdate ==
  ASSUME TypeInv, NEW j \in Job, NEW row, Leased(jobs[j], row), jobs' = [jobs EXCEPT ![j] = row]
  PROVE  LeasedAll
  BY DEF LeasedAll, Leased, TypeInv, TypeOK

LEMMA LeasedByFlush ==
  ASSUME TypeInv, NEW p \in Proc, NEW k \in Job
  PROVE  Leased(jobs[k], Flushed(p)[k])
  <1>1. Leased(jobs[k], jobs[k]) /\ Leased(jobs[k], Reconciled(jobs[k]))
    BY JobRowTypes, LeasedByStatement DEF FinalStatus
  <1> QED
    BY <1>1 DEF Flushed

LEMMA CloseLeases ==
  ASSUME TypeInv, FlushesPast, NEW p \in Dispatchers \cup Runners, CloseStep(p)
  PROVE  LeasedAll
  <1> DEFINE j == loc[p].job
  <1>1. p \in Proc /\ loc[p].target \in FinalStatus /\ "failed" \in FinalStatus
    BY LocalFields DEF Proc, FinalStatus
  <1>2. ASSUME NEW t \in FinalStatus, loc[p].pc \in Flushing,
               jobs' = [jobs EXCEPT ![j] = Finished(@, loc[p].seen, t)]
        PROVE  LeasedAll
    <2>1. j \in Job /\ loc[p].seen \in Row /\ jobs[j] \in Row
      BY <1>1, <1>2, LocalFields, JobRowTypes DEF Flushing, LocalOK, Busy, Closing
    <2>2. Leased(jobs[j], Finished(jobs[j], loc[p].seen, t))
      BY <1>1, <1>2, <2>1, LeasedByStatement DEF FlushesPast
    <2> QED
      BY <1>2, <2>1, <2>2, LeasedByUpdate
  <1>3. CASE FinishWrite(p)
    BY <1>1, <1>2, <1>3 DEF FinishWrite, Flushing
  <1>4. CASE FailWrite(p)
    BY <1>1, <1>2, <1>4 DEF FailWrite, Flushing, At
  <1>5. CASE FinishRead(p) \/ FailRead(p)
    BY <1>5, NothingLeased DEF FinishRead, FailRead
  <1> QED
    BY <1>3, <1>4, <1>5 DEF CloseStep

LEMMA LeaseSteps ==
  ASSUME TypeInv, FlushesPast, [Next]_vars
  PROVE  LeasedAll \/ \E j \in Job : LeaseExpires(j)
  <1>1. ASSUME UNCHANGED jobs PROVE LeasedAll
    BY <1>1, NothingLeased
  <1>2. ASSUME NEW p \in Creators, CreateStep(p) PROVE LeasedAll
    <2>1. CASE CheckActive(p) \/ InsertConflict(p)
      BY <1>1, <2>1 DEF CheckActive, InsertConflict
    <2>2. ASSUME NEW j \in Job, InsertJob(p, j) PROVE LeasedAll
      <3>1. p \in Proc /\ Flushed(p) \in [Job -> Row]
        BY FlushedTypes DEF Creators, Proc, Dispatchers, Runners
      <3>2. jobs' = [Flushed(p) EXCEPT ![j] = NewRow(loc[p].source, loc[p].retryOf)]
        BY <2>2 DEF InsertJob
      <3>3. Leased(jobs[j], NewRow(loc[p].source, loc[p].retryOf))
        BY <2>2 DEF InsertJob, IsNextId, Leased, NewRow
      <3> QED
        BY <3>1, <3>2, <3>3, LeasedByFlush DEF LeasedAll
    <2> QED
      BY <1>2, <2>1, <2>2 DEF CreateStep
  <1>3. ASSUME NEW d \in Dispatchers, DispatchStep(d) \/ HandoffFails(d) PROVE LeasedAll
    <2>1. CASE Claim(d)
      <3>1. PICK j \in loc[d].todo :
               jobs' = [jobs EXCEPT ![j] = Claimed(@)] \/ UNCHANGED jobs
        BY <2>1 DEF Claim
      <3>2. j \in Job
        BY LocalFields DEF Proc
      <3>3. Leased(jobs[j], Claimed(jobs[j]))
        BY <3>2, JobRowTypes, LeasedByStatement DEF FinalStatus
      <3> QED
        BY <1>1, <3>1, <3>2, <3>3, LeasedByUpdate
    <2>2. CASE ~Claim(d)
      BY <1>1, <1>3, <2>2 DEF DispatchStep, HandoffFails, Sweep, LaunchWorker, LaunchFails
    <2> QED
      BY <2>1, <2>2
  <1>4. ASSUME NEW p \in Runners, StartJob(p) \/ CliStart(p) PROVE LeasedAll
    <2>1. loc[p].job \in Job
      BY <1>4, LocalFields DEF Proc, StartJob, CliStart, At, LocalOK, Busy, Starting
    <2>2. Leased(jobs[loc[p].job], Started(jobs[loc[p].job]))
      BY <2>1, JobRowTypes, LeasedByStatement DEF FinalStatus
    <2>3. jobs' = [jobs EXCEPT ![loc[p].job] = Started(@)] \/ UNCHANGED jobs
      BY <1>4 DEF StartJob, CliStart
    <2> QED
      BY <1>1, <2>1, <2>2, <2>3, LeasedByUpdate
  <1>5. ASSUME NEW p \in Runners, HeartbeatWrite(p) PROVE LeasedAll
    <2>1. loc[p].job \in Job /\ loc[p].seen \in Row
      BY <1>5, LocalFields DEF Proc, HeartbeatWrite, At, LocalOK, Busy, Executing
    <2>2. Leased(jobs[loc[p].job], Beaten(jobs[loc[p].job], loc[p].seen))
      BY <2>1, JobRowTypes, LeasedByStatement DEF FinalStatus
    <2>3. jobs' = [jobs EXCEPT ![loc[p].job] = Beaten(@, loc[p].seen)]
      BY <1>5 DEF HeartbeatWrite
    <2> QED
      BY <2>1, <2>2, <2>3, LeasedByUpdate
  <1>6. ASSUME NEW p \in Runners, RunStep(p) \/ SpiderExits(p) PROVE LeasedAll
    BY <1>1, <1>4, <1>5, <1>6 DEF RunStep, SpiderExits, BootFails, SpawnSpider, SpawnFails,
       HeartbeatRead, Conclude, ConcludeFails
  <1>7. ASSUME NEW p \in Clis, NEW s \in Source, NEW j \in Job, CliCreate(p, s, j) PROVE LeasedAll
    <2>1. Leased(jobs[j], NewRow(s, Nil))
      BY <1>7 DEF CliCreate, IsNextId, Leased, NewRow
    <2> QED
      BY <1>7, <2>1, LeasedByUpdate DEF CliCreate
  <1>8. ASSUME NEW p \in Pages, ReconcileStep(p) PROVE LeasedAll
    <2>1. CASE ReconcileWrite(p)
      <3>1. p \in Proc /\ jobs' = Flushed(p)
        BY <2>1 DEF ReconcileWrite, Proc
      <3> QED
        BY <3>1, LeasedByFlush DEF LeasedAll
    <2> QED
      BY <1>1, <1>8, <2>1 DEF ReconcileStep, ReconcileRead
  <1>9. CASE \/ \E p \in Creators, s \in Source : Request(p, s)
             \/ \E p \in Clients, r \in Job : RequestRetry(p, r)
             \/ \E p \in Proc : Crash(p)
             \/ UNCHANGED vars
    BY <1>1, <1>9 DEF Request, RequestRetry, Crash, vars
  <1>10. Clis \subseteq Runners
    BY DEF Runners
  <1> QED
    BY <1>2, <1>3, <1>4, <1>6, <1>7, <1>8, <1>9, <1>10, CloseLeases DEF Next

LEMMA FlushesStayPast ==
  ASSUME TypeInv, RealInv, FlushesPast, [Next]_vars
  PROVE  FlushesPast'
  <1> SUFFICES ASSUME NEW p \in Proc, loc'[p].pc \in Flushing
               PROVE  StatusRank(loc'[p].seen.status) <= StatusRank(jobs'[loc'[p].job].status)
    BY DEF FlushesPast
  <1>1. /\ loc'[p].job \in Job
        /\ jobs'[loc'[p].job].status \in Status /\ jobs[loc'[p].job].status \in Status
        /\ loc'[p].seen.status \in Status
    <2>1. TypeInv'
      BY StepTypes
    <2>2. loc'[p].job \in Job /\ loc'[p].seen \in Row
      BY <2>1 DEF TypeInv, TypeOK, Local, LocalOK, Flushing, Busy, Closing
    <2> QED
      BY <2>1, <2>2 DEF TypeInv, TypeOK, Row
  <1>2. StatusRank(jobs[loc'[p].job].status) <= StatusRank(jobs'[loc'[p].job].status)
    BY <1>1, StepMovesForward
  <1>3. Narrower(loc'[p], loc[p])
    BY TaskSteps DEF TaskStep, Fresh
  <1>4. loc'[p] = loc[p] \/ loc'[p].seen = jobs[loc'[p].job]
    BY <1>3 DEF Narrower
  <1>5. StatusRank(loc'[p].seen.status) <= StatusRank(jobs[loc'[p].job].status)
    BY <1>1, <1>4, RanksOf DEF FlushesPast
  <1> QED
    BY <1>1, <1>2, <1>5, RanksOf

LEMMA LeaseInvariant == Spec => []LeaseInv
  <1>1. Init => LeaseInv
    BY DEF Init, LeaseInv, RunningHoldsLease, FlushesPast, NoRow, Idle, Flushing
  <1>2. ASSUME TypeInv, RealInv, LeaseInv, [Next]_vars
        PROVE  LeaseInv'
    <2>1. FlushesPast'
      BY <1>2, FlushesStayPast DEF LeaseInv
    <2>2. CASE LeasedAll
      BY <1>2, <2>1, <2>2 DEF LeaseInv, RunningHoldsLease, LeasedAll, Leased
    <2>3. ASSUME NEW j \in Job, LeaseExpires(j) PROVE LeaseInv'
      <3>1. \A k \in Job : jobs'[k].status = "running" => jobs[k].status = "running"
                                 /\ (jobs'[k].lease = jobs[k].lease \/ jobs'[k].lease = "expired")
        BY <1>2, <2>3 DEF LeaseExpires, TypeInv, TypeOK, Row
      <3> QED
        BY <1>2, <2>1, <3>1 DEF LeaseInv, RunningHoldsLease
    <2> QED
      BY <1>2, <2>2, <2>3, LeaseSteps DEF LeaseInv
  <1>3. TypeInv /\ RealInv /\ LeaseInv /\ [Next]_vars => LeaseInv'
    BY <1>2
  <1> QED
    BY <1>1, <1>3, TypeInvariant, RealInvariant, PTL DEF Spec

\* A running row can always be found by the reconciliation: no flush takes its
\* lease away without closing the job (finish_job, fail_job_if_active, heartbeat_job).
THEOREM RunningJobsHoldLeases == Spec => []RunningHoldsLease
  <1>1. LeaseInv => RunningHoldsLease
    BY DEF LeaseInv
  <1> QED
    BY <1>1, LeaseInvariant, PTL

----------------------------------------------------------------------------
(* Keepers: what a process holds when it works on a job                     *)

Keepers == Dispatchers \cup Workers

\* A process holds a job exactly while it works on it.
HoldsWhileBusy == \A p \in Proc : loc[p].pc \notin Busy => loc[p].job = Nil

\* A dispatched job has one keeper, and nobody else may take it or close it.
KeptAlone ==
    \A p \in Keepers :
        loc[p].job # Nil =>
            /\ Secure(jobs[loc[p].job])
            /\ \A q \in Keepers : loc[q].job = loc[p].job => q = p

WorkersRun ==
    \A w \in Workers : loc[w].pc \in Executing => jobs[loc[w].job].status = "running"

Unkept(j) == \A p \in Keepers : loc[p].job # j

\* What a session holds as failed has been closed, or has lost its keeper.
StaleLost ==
    \A p \in Proc : \A j \in loc[p].stale :
        IsFinal(jobs[j]) \/ (jobs[j].status = "running" /\ Unkept(j))

\* Whoever else executes or closes a job won its start: no worker will.
OthersApart ==
    \A p \in Proc \ Keepers :
        loc[p].pc \in Executing \cup Closing =>
            /\ StatusRank(jobs[loc[p].job].status) >= 2
            /\ \A w \in Workers : loc[w].pc \in Executing => loc[w].job # loc[p].job

KeeperInv == HoldsWhileBusy /\ KeptAlone /\ WorkersRun /\ StaleLost /\ OthersApart

----------------------------------------------------------------------------
(* How processes come to hold jobs *)

\* Process p, whose variables were m, has dropped its job, or goes on with it.
GoesOn(p, l, m) ==
    \/ l.pc \notin Busy /\ l.job = Nil
    \/ /\ l.job = m.job /\ (l.pc \in Busy <=> m.pc \in Busy)
       /\ l.pc \in Executing => m.pc \in Executing
       /\ p \notin Keepers /\ l.pc \in Closing => m.pc \in Executing \cup Closing

AllGoOnBut(S) == \A p \in Proc \ S : GoesOn(p, loc'[p], loc[p])

Claims(p, j) ==
    /\ p \in Dispatchers /\ loc'[p].pc = "launch" /\ loc'[p].job = j
    /\ Claimable(jobs[j]) /\ jobs'[j] = Claimed(jobs[j])

HandedOver(p, j) ==
    /\ p \in Workers /\ loc'[p].pc = "boot" /\ loc'[p].job = j
    /\ \E d \in Dispatchers : loc[d].job = j /\ loc'[d].job = Nil

Boots(p, j) == p \in Schedulers /\ loc'[p].pc = "boot" /\ loc'[p].job = j

WinsStart(p, j) ==
    /\ p \in Runners /\ loc[p].pc = "boot" /\ loc'[p].pc = "run"
    /\ loc[p].job = j /\ loc'[p].job = j
    /\ Startable(jobs[j]) /\ jobs'[j].status = "running"

Takes(p, j) == Claims(p, j) \/ HandedOver(p, j) \/ Boots(p, j) \/ WinsStart(p, j)

Moves == AllGoOnBut({}) \/ \E p \in Proc, j \in Job : Takes(p, j) /\ AllGoOnBut({p})

LEMMA GoOnSame ==
  ASSUME UNCHANGED loc
  PROVE  AllGoOnBut({})
  BY DEF AllGoOnBut, GoesOn

LEMMA OthersGoOn ==
  ASSUME TypeInv, NEW q \in Proc, NEW l, Become(q, l)
  PROVE  loc'[q] = l /\ AllGoOnBut({q})
  BY DEF Become, AllGoOnBut, GoesOn, TypeInv, TypeOK

LEMMA GoOnBecome ==
  ASSUME TypeInv, NEW q \in Proc, NEW l, Become(q, l), GoesOn(q, l, loc[q])
  PROVE  AllGoOnBut({})
  <1>1. loc'[q] = l /\ AllGoOnBut({q})
    BY OthersGoOn
  <1> QED
    BY <1>1 DEF AllGoOnBut

LEMMA GoOnTurn ==
  ASSUME TypeInv, NEW q \in Proc, NEW rest, Become(q, TurnTo(rest)) \/ Leave(q)
  PROVE  AllGoOnBut({})
  <1>1. GoesOn(q, Idle, loc[q])
    BY DEF GoesOn, Idle, Busy, Starting, Executing, Closing
  <1>2. GoesOn(q, [Idle EXCEPT !.pc = "dispatch", !.todo = rest], loc[q])
    BY DEF GoesOn, Idle, Busy, Starting, Executing, Closing
  <1> QED
    BY <1>1, <1>2, GoOnBecome DEF TurnTo, Leave

\* From one control point of a job to another.
LEMMA GoOnField ==
  ASSUME TypeInv, NEW q \in Proc, NEW l,
         Become(q, l), l.job = loc[q].job,
         l.pc \in Busy <=> loc[q].pc \in Busy,
         l.pc \in Executing => loc[q].pc \in Executing,
         l.pc \in Closing => q \in Keepers \/ loc[q].pc \in Executing \cup Closing
  PROVE  AllGoOnBut({})
  BY GoOnBecome DEF GoesOn

LEMMA GoOnGoto ==
  ASSUME TypeInv, NEW q \in Proc, NEW c,
         Goto(q, c),
         c \in Busy <=> loc[q].pc \in Busy,
         c \in Executing => loc[q].pc \in Executing,
         c \in Closing => q \in Keepers \/ loc[q].pc \in Executing \cup Closing
  PROVE  AllGoOnBut({})
  <1>1. loc[q] \in Local
    BY LocalFields
  <1>2. [loc[q] EXCEPT !.pc = c].pc = c /\ [loc[q] EXCEPT !.pc = c].job = loc[q].job
    BY <1>1 DEF Local
  <1> QED
    BY <1>2, GoOnField DEF Goto

LEMMA GoOnRaise ==
  ASSUME TypeInv, NEW q \in Proc, Raises(q), loc[q].pc \in Busy
  PROVE  AllGoOnBut({})
  <1>1. "failRead" \in Closing /\ "failRead" \in Busy /\ "failRead" \notin Executing
    BY DEF Busy, Closing, Executing
  <1>2. CASE q \in Workers
    BY <1>1, <1>2, GoOnGoto DEF Raises, Keepers
  <1>3. CASE q \notin Workers
    BY <1>3, GoOnTurn DEF Raises
  <1> QED
    BY <1>2, <1>3

LEMMA AskMoves ==
  ASSUME TypeInv, NEW q \in Proc,
         \/ \E s \in Source : Request(q, s)
         \/ \E r \in Job : RequestRetry(q, r)
         \/ ReconcileStep(q) \/ CheckActive(q) \/ InsertConflict(q) \/ Sweep(q) \/ Crash(q)
  PROVE  AllGoOnBut({})
  <1>1. ASSUME NEW l, Become(q, l), l.pc \in {"check", "reconcile"}, l.job = Nil
        PROVE  AllGoOnBut({})
    <2>1. GoesOn(q, l, loc[q])
      BY <1>1 DEF GoesOn, Busy, Starting, Executing, Closing
    <2> QED
      BY <1>1, <2>1, GoOnBecome
  <1>2. ASSUME NEW s \in Source, Request(q, s) PROVE AllGoOnBut({})
    <2> DEFINE l == [Idle EXCEPT !.pc = "check", !.source = s, !.stale = ExpiredJobs]
    <2>1. Become(q, l) /\ l.pc = "check" /\ l.job = Nil
      BY <1>2 DEF Request, Idle
    <2> QED
      BY <1>1, <2>1
  <1>3. ASSUME NEW r \in Job, RequestRetry(q, r) PROVE AllGoOnBut({})
    <2> DEFINE l == [Idle EXCEPT !.pc = "check", !.source = jobs[r].source,
                                 !.retryOf = r, !.stale = ExpiredJobs]
    <2>1. Become(q, l) /\ l.pc = "check" /\ l.job = Nil
      BY <1>3 DEF RequestRetry, Idle
    <2> QED
      BY <1>1, <2>1
  <1>4. CASE ReconcileRead(q)
    <2> DEFINE l == [Idle EXCEPT !.pc = "reconcile", !.stale = ExpiredJobs]
    <2>1. Become(q, l) /\ l.pc = "reconcile" /\ l.job = Nil
      BY <1>4 DEF ReconcileRead, Idle
    <2> QED
      BY <1>1, <2>1
  <1>5. CASE Goto(q, "insert") /\ loc[q].pc = "check"
    BY <1>5, GoOnGoto DEF Busy, Starting, Executing, Closing
  <1>6. CASE Sweep(q) \/ Leave(q)
    BY <1>6, GoOnTurn DEF Sweep
  <1> QED
    BY <1>2, <1>3, <1>4, <1>5, <1>6
       DEF ReconcileStep, ReconcileWrite, CheckActive, InsertConflict, Crash, At

LEMMA InsertMoves ==
  ASSUME TypeInv, NEW q \in Creators, NEW j \in Job, InsertJob(q, j)
  PROVE  Moves
  <1>1. q \in Proc
    BY DEF Creators, Proc, Dispatchers, Runners
  <1>2. CASE q \in Clients
    BY <1>1, <1>2, GoOnTurn DEF InsertJob, Moves
  <1>3. CASE q \notin Clients
    <2> DEFINE l == [Idle EXCEPT !.pc = "boot", !.job = j]
    <2>1. Become(q, l) /\ l.pc = "boot" /\ l.job = j
      BY <1>3 DEF InsertJob, Idle
    <2>2. loc'[q] = l
      BY <1>1, <2>1, OthersGoOn
    <2> HIDE DEF l
    <2>3. Boots(q, j)
      BY <1>3, <2>1, <2>2 DEF Boots, Creators
    <2> QED
      BY <1>1, <2>1, <2>3, OthersGoOn DEF Moves, Takes
  <1> QED
    BY <1>2, <1>3

LEMMA DispatchMoves ==
  ASSUME TypeInv, NEW d \in Dispatchers,
         Claim(d) \/ LaunchFails(d) \/ HandoffFails(d) \/ \E w \in Workers : LaunchWorker(d, w)
  PROVE  Moves
  <1>1. d \in Proc /\ loc[d] \in Local /\ d \in Keepers
    BY LocalFields DEF Proc, Keepers
  <1>2. CASE Claim(d)
    <2>1. PICK j \in loc[d].todo :
             IF Claimable(jobs[j])
             THEN /\ jobs' = [jobs EXCEPT ![j] = Claimed(@)]
                  /\ Become(d, [loc[d] EXCEPT !.pc = "launch", !.job = j, !.todo = @ \ {j}])
             ELSE Become(d, TurnTo(loc[d].todo \ {j}))
      BY <1>2 DEF Claim
    <2>2. CASE Claimable(jobs[j])
      <3>1. j \in Job
        BY <1>1, LocalFields
      <3>2. jobs'[j] = Claimed(jobs[j])
        BY <2>1, <2>2, <3>1 DEF TypeInv, TypeOK
      <3>3. loc'[d].pc = "launch" /\ loc'[d].job = j /\ AllGoOnBut({d})
        <4> DEFINE l == [loc[d] EXCEPT !.pc = "launch", !.job = j, !.todo = @ \ {j}]
        <4>1. l.pc = "launch" /\ l.job = j
          BY <1>1 DEF Local
        <4>2. loc'[d] = l /\ AllGoOnBut({d})
          BY <1>1, <2>1, <2>2, OthersGoOn
        <4> QED
          BY <4>1, <4>2
      <3> QED
        BY <1>1, <2>2, <3>1, <3>2, <3>3 DEF Moves, Takes, Claims
    <2>3. CASE ~Claimable(jobs[j])
      BY <1>1, <2>1, <2>3, GoOnTurn DEF Moves
    <2> QED
      BY <2>2, <2>3
  <1>3. CASE LaunchFails(d)
    <2> DEFINE c == IF loc[d].tries + 1 < MaxAttempts THEN "launch" ELSE "failRead"
    <2>1. loc[d].pc \in Busy /\ c \in Busy \ Executing
      BY <1>3 DEF LaunchFails, At, Busy, Executing, Closing
    <2> HIDE DEF c
    <2>2. Become(d, [loc[d] EXCEPT !.tries = @ + 1, !.pc = c])
      BY <1>3 DEF LaunchFails, c
    <2>3. /\ [loc[d] EXCEPT !.tries = @ + 1, !.pc = c].pc = c
          /\ [loc[d] EXCEPT !.tries = @ + 1, !.pc = c].job = loc[d].job
      BY <1>1 DEF Local
    <2> QED
      BY <1>1, <2>1, <2>2, <2>3, GoOnField DEF Moves
  <1>4. CASE HandoffFails(d)
    BY <1>1, <1>4, GoOnTurn DEF HandoffFails, Moves
  <1>5. ASSUME NEW w \in Workers, LaunchWorker(d, w) PROVE Moves
    <2> DEFINE j == loc[d].job
               l == [Idle EXCEPT !.pc = "boot", !.job = j]
    <2>1. w \in Proc /\ w # d /\ j \in Job
      BY <1>1, <1>5, LocalFields, ProcAssumption
         DEF LaunchWorker, At, Proc, Runners, LocalOK, Busy
    <2>2. /\ loc'[d] = TurnTo(loc[d].todo) /\ loc'[w] = l
          /\ \A p \in Proc \ {d, w} : loc'[p] = loc[p]
      BY <1>1, <1>5, <2>1 DEF LaunchWorker, TypeInv, TypeOK
    <2>3. TurnTo(loc[d].todo).pc \notin Busy /\ TurnTo(loc[d].todo).job = Nil
      BY DEF TurnTo, Idle, Busy, Starting, Executing, Closing
    <2>4. l.pc = "boot" /\ l.job = j
      BY DEF Idle
    <2>5. HandedOver(w, j)
      BY <2>2, <2>3, <2>4 DEF HandedOver
    <2>6. AllGoOnBut({w})
      BY <2>2, <2>3 DEF AllGoOnBut, GoesOn
    <2> QED
      BY <2>1, <2>5, <2>6 DEF Moves, Takes
  <1> QED
    BY <1>2, <1>3, <1>4, <1>5

LEMMA RunMoves ==
  ASSUME TypeInv, NEW q \in Runners, RunStep(q) \/ SpiderExits(q)
  PROVE  Moves
  <1>1. q \in Proc /\ loc[q] \in Local
    BY LocalFields DEF Proc
  <1>2. {"run", "wait", "beat"} \subseteq Busy /\ {"run", "wait", "beat"} = Executing
        /\ "boot" \in Busy /\ "finishRead" \in Busy /\ "finishRead" \in Closing
        /\ Executing \cap Closing = {}
    BY DEF Busy, Starting, Executing, Closing
  <1>3. CASE StartJob(q)
    <2> DEFINE j == loc[q].job
    <2>1. j \in Job /\ loc[q].pc = "boot"
      BY <1>1, <1>2, <1>3, LocalFields DEF StartJob, At, LocalOK
    <2>2. CASE Startable(jobs[j])
      <3>1. jobs' = [jobs EXCEPT ![j] = Started(jobs[j])] /\ Goto(q, "run")
        BY <1>3, <2>2 DEF StartJob
      <3>2. jobs'[j] = Started(jobs[j]) /\ jobs[j] \in Row
        BY <2>1, <3>1, JobRowTypes DEF TypeInv, TypeOK
      <3>3. jobs'[j].status = "running"
        BY <3>2 DEF Started, Row
      <3>4. loc'[q].pc = "run" /\ loc'[q].job = j /\ AllGoOnBut({q})
        BY <1>1, <3>1, OthersGoOn DEF Goto, Local
      <3> QED
        BY <1>1, <2>1, <2>2, <3>3, <3>4 DEF Moves, Takes, WinsStart
    <2>3. CASE ~Startable(jobs[j])
      BY <1>1, <1>3, <2>3, GoOnTurn DEF StartJob, Moves
    <2> QED
      BY <2>2, <2>3
  <1>4. CASE BootFails(q) \/ ConcludeFails(q)
    BY <1>1, <1>2, <1>4, GoOnRaise DEF BootFails, ConcludeFails, At, Moves
  <1>5. CASE SpawnSpider(q)
    BY <1>1, <1>2, <1>5, GoOnGoto DEF SpawnSpider, At, Moves
  <1>6. CASE SpiderExits(q)
    BY <1>6, GoOnSame DEF SpiderExits, Moves
  <1>7. CASE HeartbeatRead(q) \/ HeartbeatWrite(q)
    <2>1. loc[q].pc \in {"beat", "wait"}
      BY <1>7 DEF HeartbeatRead, HeartbeatWrite, At
    <2>2. PICK c \in {"beat", "wait"}, row \in {NoRow, jobs[loc[q].job]} :
             Become(q, [loc[q] EXCEPT !.pc = c, !.seen = row])
      BY <1>7 DEF HeartbeatRead, HeartbeatWrite
    <2>3. /\ [loc[q] EXCEPT !.pc = c, !.seen = row].pc = c
          /\ [loc[q] EXCEPT !.pc = c, !.seen = row].job = loc[q].job
      BY <1>1 DEF Local
    <2> QED
      BY <1>1, <1>2, <2>1, <2>2, <2>3, GoOnField DEF Moves
  <1>8. CASE SpawnFails(q) \/ \E t \in FinalStatus : Conclude(q, t)
    <2>1. loc[q].pc \in {"run", "wait"}
      BY <1>8 DEF SpawnFails, Conclude, At
    <2>2. PICK t \in FinalStatus : Become(q, [loc[q] EXCEPT !.pc = "finishRead", !.target = t])
      BY <1>8 DEF SpawnFails, Conclude, FinalStatus
    <2>3. /\ [loc[q] EXCEPT !.pc = "finishRead", !.target = t].pc = "finishRead"
          /\ [loc[q] EXCEPT !.pc = "finishRead", !.target = t].job = loc[q].job
      BY <1>1 DEF Local
    <2> QED
      BY <1>1, <1>2, <2>1, <2>2, <2>3, GoOnField DEF Moves
  <1> QED
    BY <1>3, <1>4, <1>5, <1>6, <1>7, <1>8 DEF RunStep

LEMMA CloseMoves ==
  ASSUME TypeInv, NEW q \in Dispatchers \cup Runners, CloseStep(q)
  PROVE  Moves
  <1>1. q \in Proc /\ loc[q] \in Local
    BY LocalFields DEF Proc
  <1>2. loc[q].pc \in Closing
    BY DEF CloseStep, FinishRead, FinishWrite, FailRead, FailWrite, At, Closing
  <1>3. Closing \subseteq Busy /\ Closing \cap Executing = {}
        /\ "summaryRead" \in Closing /\ Flushing \subseteq Closing
    BY DEF Busy, Executing, Closing, Flushing
  <1>4. ASSUME NEW c \in Flushing,
               Become(q, [loc[q] EXCEPT !.pc = c, !.seen = jobs[loc[q].job]])
        PROVE  Moves
    <2>1. /\ [loc[q] EXCEPT !.pc = c, !.seen = jobs[loc[q].job]].pc = c
          /\ [loc[q] EXCEPT !.pc = c, !.seen = jobs[loc[q].job]].job = loc[q].job
      BY <1>1 DEF Local
    <2> QED
      BY <1>1, <1>2, <1>3, <1>4, <2>1, GoOnField DEF Moves
  <1>5. ASSUME AfterFail(q) PROVE Moves
    BY <1>1, <1>5, GoOnTurn DEF AfterFail, Moves
  <1>6. CASE FinishRead(q) \/ FailRead(q)
    <2>1. \/ Raises(q) \/ AfterFail(q)
          \/ \E c \in Flushing : Become(q, [loc[q] EXCEPT !.pc = c, !.seen = jobs[loc[q].job]])
      BY <1>6 DEF FinishRead, FailRead, Flushing
    <2> QED
      BY <1>1, <1>2, <1>3, <1>4, <1>5, <2>1, GoOnRaise DEF Moves
  <1>7. CASE FinishWrite(q)
    BY <1>1, <1>2, <1>3, <1>7, GoOnGoto, GoOnTurn DEF FinishWrite, Moves
  <1>8. CASE FailWrite(q)
    BY <1>5, <1>8 DEF FailWrite
  <1> QED
    BY <1>6, <1>7, <1>8 DEF CloseStep

LEMMA MoveSteps ==
  ASSUME TypeInv, Clis = {}, [Next]_vars
  PROVE  Moves
  <1>1. /\ Creators \subseteq Proc /\ Clients \subseteq Proc /\ Dispatchers \subseteq Proc
        /\ Pages \subseteq Proc
    BY DEF Creators, Proc, Dispatchers, Runners
  <1>2. CASE \/ \E p \in Creators, s \in Source : Request(p, s)
             \/ \E p \in Clients, r \in Job : RequestRetry(p, r)
             \/ \E p \in Pages : ReconcileStep(p)
             \/ \E p \in Proc : Crash(p)
    BY <1>1, <1>2, AskMoves DEF Moves
  <1>3. ASSUME NEW p \in Creators, CreateStep(p) PROVE Moves
    BY <1>1, <1>3, AskMoves, InsertMoves DEF CreateStep, Moves
  <1>4. ASSUME NEW d \in Dispatchers, DispatchStep(d) \/ HandoffFails(d) PROVE Moves
    BY <1>1, <1>4, AskMoves, DispatchMoves DEF DispatchStep, Moves
  <1>5. CASE (\E j \in Job : LeaseExpires(j)) \/ UNCHANGED vars
    BY <1>5, GoOnSame DEF LeaseExpires, vars, Moves
  <1> QED
    BY <1>2, <1>3, <1>4, <1>5, RunMoves, CloseMoves DEF Next

----------------------------------------------------------------------------
(* One keeper at a time                                                     *)

Prompt == PromptLeases /\ Clis = {}

LEMMA HeldJobs ==
  ASSUME TypeInv, RealInv, HoldsWhileBusy, NEW p \in Proc, loc[p].job # Nil
  PROVE  loc[p].job \in Job /\ HasRow(loc[p].job)
  <1>1. loc[p].pc \in Busy /\ loc[p].job \in Job
    BY LocalFields DEF HoldsWhileBusy
  <1> QED
    BY <1>1 DEF RealInv, TasksHaveRows, Tasks

LEMMA KeepersAre ==
  /\ Keepers \subseteq Proc /\ Workers \subseteq Keepers /\ Dispatchers \subseteq Keepers
  /\ Dispatchers \cap Workers = {} /\ Schedulers \cap Keepers = {}
  /\ Clis \cap Keepers = {}
  BY ProcAssumption DEF Keepers, Proc, Dispatchers, Runners

LEMMA SecureNotClaimable ==
  ASSUME NEW row, Secure(row)
  PROVE  ~Claimable(row) /\ ~Expired(row)
  BY DEF Secure, Claimable, Expired, IsFinal, FinalStatus

\* While somebody works on a job, it stays his.
LEMMA SecureStays ==
  ASSUME Prompt, TypeInv, RealInv, LeaseInv, HoldsWhileBusy, [Next]_vars,
         NEW p \in Proc, loc[p].job # Nil, Secure(jobs[loc[p].job])
  PROVE  Secure(jobs'[loc[p].job])
  <1>1. loc[p].job \in Job /\ HasRow(loc[p].job)
    BY HeldJobs
  <1>2. CASE LeasedAll
    BY <1>1, <1>2 DEF LeasedAll, Leased, HasRow
  <1>3. ASSUME NEW j \in Job, LeaseExpires(j) PROVE Secure(jobs'[loc[p].job])
    <2>1. j # loc[p].job
      BY <1>3 DEF LeaseExpires, KeepsAlive, Prompt
    <2>2. jobs'[loc[p].job] = jobs[loc[p].job]
      BY <1>1, <1>3, <2>1 DEF LeaseExpires, TypeInv, TypeOK
    <2> QED
      BY <2>2
  <1> QED
    BY <1>2, <1>3, LeaseSteps DEF LeaseInv

\* Nobody closes a job that a worker executes.
LEMMA RunningStays ==
  ASSUME TypeInv, RealInv, KeeperInv, [Next]_vars, NEW w \in Workers, loc[w].pc \in Executing
  PROVE  jobs'[loc[w].job].status = "running"
  <1> DEFINE j == loc[w].job
  <1>1. w \in Keepers /\ w \in Proc /\ j \in Job /\ jobs[j].status = "running"
    BY KeepersAre, LocalFields DEF KeeperInv, WorkersRun, LocalOK, Busy
  <1>2. ~Closable(j)
    <2> SUFFICES ASSUME NEW p \in Proc,
                        j \in loc[p].stale \/ (loc[p].pc \in Flushing /\ loc[p].job = j)
                 PROVE  FALSE
      BY DEF Closable
    <2>1. j # Nil
      BY <1>1, NilAssumption
    <2>2. CASE j \in loc[p].stale
      BY <1>1, <2>2 DEF KeeperInv, StaleLost, Unkept, IsFinal, FinalStatus
    <2>3. CASE loc[p].pc \in Flushing /\ loc[p].job = j
      <3>1. Flushing \cap Executing = {} /\ Flushing \subseteq Closing
        BY DEF Flushing, Executing, Closing
      <3>2. p \notin Keepers
        BY <1>1, <2>1, <2>3, <3>1 DEF KeeperInv, KeptAlone
      <3> QED
        BY <2>3, <3>1, <3>2 DEF KeeperInv, OthersApart
    <2> QED
      BY <2>2, <2>3
  <1>3. Settled(j, jobs'[j]) \/ jobs'[j] = jobs[j]
    BY <1>1, StatusSteps DEF SettledBut, Starts, Inserts
  <1> QED
    BY <1>1, <1>2, <1>3 DEF Settled

LEMMA MoveOf ==
  ASSUME Moves, NEW p \in Proc
  PROVE  \/ GoesOn(p, loc'[p], loc[p])
         \/ \E j \in Job : Takes(p, j) /\ AllGoOnBut({p})
  BY DEF Moves, AllGoOnBut

\* A keeper of a job has kept it, claimed it, or got it from its dispatcher.
LEMMA KeeperMoves ==
  ASSUME Moves, NEW p \in Keepers, loc'[p].job # Nil
  PROVE  \/ loc[p].job = loc'[p].job
         \/ Claims(p, loc'[p].job) /\ AllGoOnBut({p})
         \/ HandedOver(p, loc'[p].job) /\ AllGoOnBut({p})
  <1>1. p \in Proc /\ p \notin Schedulers
    BY KeepersAre
  <1> QED
    BY <1>1, MoveOf DEF GoesOn, Takes, Claims, HandedOver, Boots, WinsStart

LEMMA WorkerMoves ==
  ASSUME Moves, NEW w \in Workers, loc'[w].pc \in Executing
  PROVE  \/ loc[w].pc \in Executing /\ loc'[w].job = loc[w].job
         \/ WinsStart(w, loc'[w].job)
  <1>1. w \in Proc /\ "launch" \notin Executing /\ "boot" \notin Executing /\ Executing \subseteq Busy
    BY KeepersAre DEF Executing, Busy
  <1> QED
    BY <1>1, MoveOf DEF GoesOn, Takes, Claims, HandedOver, Boots, WinsStart

LEMMA HoldsStay ==
  ASSUME Moves, HoldsWhileBusy
  PROVE  HoldsWhileBusy'
  <1> SUFFICES ASSUME NEW p \in Proc, loc'[p].pc \notin Busy PROVE loc'[p].job = Nil
    BY DEF HoldsWhileBusy
  <1>1. {"launch", "boot", "run"} \subseteq Busy
    BY DEF Busy, Starting, Executing
  <1> QED
    BY <1>1, MoveOf DEF HoldsWhileBusy, GoesOn, Takes, Claims, HandedOver, Boots, WinsStart

\* Who gets a job is the only one to hold it.
LEMMA NewKeeper ==
  ASSUME KeptAlone, NEW p \in Keepers, NEW q \in Keepers, NEW j, j # Nil,
         loc[q].job = j, loc'[q].job = j
  PROVE  ~Claims(p, j) /\ ~HandedOver(p, j)
  <1>1. Secure(jobs[j]) /\ \A d \in Keepers : loc[d].job = j => d = q
    BY DEF KeptAlone
  <1>2. ~Claims(p, j)
    BY <1>1, SecureNotClaimable DEF Claims
  <1>3. ~HandedOver(p, j)
    BY <1>1, KeepersAre DEF HandedOver
  <1> QED
    BY <1>2, <1>3

LEMMA KeptAloneStays ==
  ASSUME Prompt, TypeInv, RealInv, LeaseInv, KeeperInv, Moves, [Next]_vars
  PROVE  KeptAlone'
  <1> SUFFICES ASSUME NEW p \in Keepers, loc'[p].job # Nil
               PROVE  /\ Secure(jobs'[loc'[p].job])
                      /\ \A q \in Keepers : loc'[q].job = loc'[p].job => q = p
    BY DEF KeptAlone, Secure, IsFinal
  <1> DEFINE j == loc'[p].job
  <1>1. /\ HoldsWhileBusy /\ KeptAlone
        /\ \A q \in Keepers : q \in Proc
    BY KeepersAre DEF KeeperInv
  <1>2. ASSUME NEW q \in Keepers, loc[q].job = j PROVE Secure(jobs'[j])
    BY <1>1, <1>2, SecureStays DEF KeptAlone
  <1>3. Secure(jobs'[j])
    <2>1. CASE loc[p].job = j
      BY <1>2, <2>1
    <2>2. CASE Claims(p, j)
      <3>1. jobs'[j] = Claimed(jobs[j]) /\ j \in Job
        <4>1. TypeInv'
          BY StepTypes
        <4>2. loc'[p].job \in Job \cup {Nil}
          BY <1>1, <4>1 DEF TypeInv, TypeOK, Local
        <4> QED
          BY <2>2, <4>2 DEF Claims
      <3>2. jobs[j] \in Row
        BY <3>1, JobRowTypes
      <3>3. Claimed(jobs[j]).picked /\ Claimed(jobs[j]).lease = "live"
        BY <3>2 DEF Claimed, Row
      <3> QED
        BY <3>1, <3>3 DEF Secure
    <2>3. CASE HandedOver(p, j)
      BY <1>2, <2>3, KeepersAre DEF HandedOver
    <2> QED
      BY <2>1, <2>2, <2>3, KeeperMoves
  <1>4. ASSUME NEW q \in Keepers, loc'[q].job = j, q # p PROVE FALSE
    <2>1. CASE loc[p].job = j
      <3>1. loc[q].job # j
        BY <1>1, <1>4, <2>1 DEF KeptAlone
      <3>2. Claims(q, j) \/ HandedOver(q, j)
        BY <1>4, <3>1, KeeperMoves
      <3> QED
        BY <1>1, <2>1, <3>2, NewKeeper
    <2>2. CASE AllGoOnBut({p}) /\ (Claims(p, j) \/ HandedOver(p, j))
      <3>1. loc[q].job = j
        BY <1>1, <1>4, <2>2 DEF AllGoOnBut, GoesOn
      <3> QED
        BY <1>1, <1>4, <2>2, <3>1, NewKeeper
    <2> QED
      BY <2>1, <2>2, KeeperMoves
  <1> QED
    BY <1>3, <1>4

LEMMA WorkersStayRunning ==
  ASSUME TypeInv, RealInv, KeeperInv, Moves, [Next]_vars
  PROVE  WorkersRun'
  BY WorkerMoves, RunningStays DEF WorkersRun, WinsStart

\* The ranks of rows a step leads to.
LEMMA RanksAfter ==
  ASSUME TypeInv, [Next]_vars, NEW j \in Job, StatusRank(jobs[j].status) >= 2
  PROVE  /\ StatusRank(jobs'[j].status) >= 2
         /\ IsFinal(jobs'[j]) \/ (jobs'[j].status = "running" /\ ~IsFinal(jobs[j]))
  <1>1. jobs[j].status \in Status /\ jobs'[j].status \in Status
    BY StepTypes DEF TypeInv, TypeOK, Row
  <1>2. StatusRank(jobs[j].status) <= StatusRank(jobs'[j].status)
    BY StepMovesForward
  <1> QED
    BY <1>1, <1>2, RanksOf DEF IsFinal

LEMMA StaleStaysLost ==
  ASSUME TypeInv, RealInv, KeeperInv, Moves, [Next]_vars
  PROVE  StaleLost'
  <1> SUFFICES ASSUME NEW p \in Proc, NEW j \in loc'[p].stale
               PROVE  \/ IsFinal(jobs'[j])
                      \/ jobs'[j].status = "running" /\ \A q \in Keepers : loc'[q].job # j
    BY DEF StaleLost, Unkept, IsFinal
  <1>1. j \in loc[p].stale \cup ExpiredJobs
    BY TaskSteps DEF TaskStep, Narrower, Fresh
  <1>2. j \in Job /\ j # Nil
    BY <1>1, LocalFields, NilAssumption DEF ExpiredJobs
  <1>3. IsFinal(jobs[j]) \/ (jobs[j].status = "running" /\ Unkept(j))
    <2>1. CASE j \in loc[p].stale
      BY <2>1 DEF KeeperInv, StaleLost
    <2>2. CASE j \in ExpiredJobs
      BY <1>2, <2>2, SecureNotClaimable
         DEF ExpiredJobs, Expired, Unkept, KeeperInv, KeptAlone
    <2> QED
      BY <1>1, <2>1, <2>2
  <1>4. StatusRank(jobs[j].status) >= 2
    BY <1>3 DEF IsFinal, FinalStatus, StatusRank
  <1>5. CASE IsFinal(jobs[j])
    BY <1>2, <1>4, <1>5, RanksAfter
  <1>6. CASE jobs[j].status = "running" /\ Unkept(j)
    <2>1. ASSUME NEW q \in Keepers, loc'[q].job = j PROVE FALSE
      <3>1. ~Claims(q, j)
        BY <1>6 DEF Claims, Claimable
      <3>2. ~HandedOver(q, j)
        BY <1>6, KeepersAre DEF HandedOver, Unkept
      <3> QED
        BY <1>2, <1>6, <2>1, <3>1, <3>2, KeeperMoves DEF Unkept
    <2> QED
      BY <1>2, <1>4, <2>1, RanksAfter
  <1> QED
    BY <1>3, <1>5, <1>6

LEMMA OthersStayApart ==
  ASSUME TypeInv, KeeperInv, Moves, [Next]_vars
  PROVE  OthersApart'
  <1> SUFFICES ASSUME NEW p \in Proc \ Keepers, loc'[p].pc \in Executing \cup Closing
               PROVE  /\ StatusRank(jobs'[loc'[p].job].status) >= 2
                      /\ \A w \in Workers : loc'[w].pc \in Executing => loc'[w].job # loc'[p].job
    BY DEF OthersApart
  <1> DEFINE j == loc'[p].job
  <1>1. /\ Executing \cup Closing \subseteq Busy
        /\ "boot" \notin Executing \cup Closing
    BY DEF Busy, Executing, Closing
  <1>2. CASE GoesOn(p, loc'[p], loc[p])
    <2>1. loc[p].pc \in Executing \cup Closing /\ loc[p].job = j
      BY <1>1, <1>2 DEF GoesOn
    <2>2. j \in Job
      BY <1>1, <2>1, LocalFields DEF LocalOK
    <2>3. /\ StatusRank(jobs[j].status) >= 2
          /\ \A w \in Workers : loc[w].pc \in Executing => loc[w].job # j
      BY <2>1 DEF KeeperInv, OthersApart
    <2>4. StatusRank(jobs'[j].status) >= 2
      BY <2>2, <2>3, RanksAfter
    <2>5. jobs[j].status # "pending"
      BY <2>3 DEF StatusRank
    <2> QED
      BY <2>3, <2>4, <2>5, WorkerMoves DEF WinsStart, Startable
  <1>3. ASSUME NEW k \in Job, Takes(p, k), AllGoOnBut({p})
        PROVE  /\ StatusRank(jobs'[j].status) >= 2
               /\ \A w \in Workers : loc'[w].pc \in Executing => loc'[w].job # j
    <2>1. WinsStart(p, k) /\ k = j
      BY <1>1, <1>3, KeepersAre DEF Takes, Claims, HandedOver, Boots, WinsStart
    <2>2. jobs[j].status = "pending" /\ jobs'[j].status = "running"
      BY <2>1 DEF WinsStart, Startable
    <2>3. StatusRank(jobs'[j].status) >= 2
      BY <2>2 DEF StatusRank
    <2>4. ASSUME NEW w \in Workers, loc'[w].pc \in Executing, loc'[w].job = j PROVE FALSE
      <3>1. GoesOn(w, loc'[w], loc[w])
        BY <1>3, KeepersAre DEF AllGoOnBut
      <3>2. loc[w].pc \in Executing /\ loc[w].job = j
        BY <1>1, <2>4, <3>1 DEF GoesOn
      <3> QED
        BY <2>2, <3>2 DEF KeeperInv, WorkersRun
    <2> QED
      BY <2>3, <2>4
  <1> QED
    BY <1>2, <1>3, MoveOf

LEMMA KeeperInvariant == Prompt => (Spec => []KeeperInv)
  <1> SUFFICES ASSUME Prompt PROVE Spec => []KeeperInv
    OBVIOUS
  <1>1. Init => KeeperInv
    <2> SUFFICES ASSUME Init PROVE KeeperInv
      OBVIOUS
    <2>1. \A p \in Proc : /\ loc[p].job = Nil /\ loc[p].stale = {}
                          /\ loc[p].pc \notin Executing \cup Closing
      BY DEF Init, Idle, Executing, Closing
    <2>2. \A p \in Keepers : p \in Proc
      BY KeepersAre
    <2>3. Workers \subseteq Keepers
      BY KeepersAre
    <2> QED
      BY <2>1, <2>2, <2>3
         DEF KeeperInv, HoldsWhileBusy, KeptAlone, WorkersRun, StaleLost, OthersApart
  <1>2. ASSUME TypeInv, RealInv, LeaseInv, KeeperInv, [Next]_vars
        PROVE  KeeperInv'
    <2>1. Moves
      BY <1>2, MoveSteps DEF Prompt
    <2> QED
      BY <1>2, <2>1, HoldsStay, KeptAloneStays, WorkersStayRunning, StaleStaysLost, OthersStayApart
         DEF KeeperInv
  <1>3. TypeInv /\ RealInv /\ LeaseInv /\ KeeperInv /\ [Next]_vars => KeeperInv'
    BY <1>2
  <1> QED
    BY <1>1, <1>3, TypeInvariant, RealInvariant, LeaseInvariant, PTL DEF Spec

\* While leases outlive the processes that renew them, and the script does not run, a
\* dispatched job has one keeper, and a worker executes under a row that still says
\* running: no reconciliation, stale flush or failed hand-off closes it under its feet
\* (claim_pending_job, start_job, heartbeat_job, reconcile_expired_jobs_in_session).
THEOREM WorkersExecuteTheirRow ==
  PromptLeases /\ Clis = {} => (Spec => []ExecutesUnderItsRow)
  <1>1. KeeperInv => ExecutesUnderItsRow
    BY DEF KeeperInv, KeptAlone, WorkersRun, ExecutesUnderItsRow, Keepers
  <1> QED
    BY <1>1, KeeperInvariant, PTL DEF Prompt

\* Where workers are the only runners, two of them never crawl for one source at once:
\* each executes the running job of its source, and no two the same.
THEOREM WorkersShareNoSource ==
  PromptLeases /\ Clis = {} /\ Schedulers = {} => (Spec => []OneRunnerPerSource)
  <1> SUFFICES ASSUME PromptLeases, Clis = {}, Schedulers = {}
               PROVE  Spec => []OneRunnerPerSource
    OBVIOUS
  <1>1. ASSUME TypeInv, KeeperInv, OneActiveJobPerSource PROVE OneRunnerPerSource
    <2> SUFFICES ASSUME NEW p \in Runners, NEW q \in Runners,
                        loc[p].pc \in Executing, loc[q].pc \in Executing,
                        jobs[loc[p].job].source = jobs[loc[q].job].source
                 PROVE  p = q
      BY DEF OneRunnerPerSource
    <2>1. p \in Workers /\ q \in Workers /\ p \in Keepers /\ q \in Keepers
      BY KeepersAre DEF Runners
    <2>2. loc[p].job \in Job /\ loc[q].job \in Job
      BY <1>1, LocalFields DEF Proc, LocalOK, Busy
    <2>3. IsActive(jobs[loc[p].job]) /\ IsActive(jobs[loc[q].job])
      BY <1>1, <2>1 DEF KeeperInv, WorkersRun, IsActive, ActiveStatus
    <2>4. loc[p].job = loc[q].job
      BY <1>1, <2>2, <2>3 DEF OneActiveJobPerSource
    <2> QED
      BY <1>1, <2>1, <2>2, <2>4, NilAssumption DEF KeeperInv, KeptAlone
  <1>2. TypeInv /\ KeeperInv /\ OneActiveJobPerSource => OneRunnerPerSource
    BY <1>1
  <1>3. Prompt
    BY DEF Prompt
  <1>4. Spec => []KeeperInv
    BY <1>3, KeeperInvariant
  <1> QED
    BY <1>2, <1>4, TypeInvariant, OneActiveJob, PTL

----------------------------------------------------------------------------
(* Parameters *)

\* The parameters a process will pass on or write for a job it works on.
Passes(p, j) == IF p \in Dispatchers THEN held[p].load[j] ELSE held[p].arg

IsCrawl(a) == a = Crawl(a.type, a.max_pages, a.year) /\ a.max_pages # Nil

PlanOK(p) ==
    loc[p].pc \in Creating /\ held[p].wants # Nil =>
        held[p].arg = held[p].wants /\ IsCrawl(held[p].wants)

TaskOK(p) ==
    \A j \in Tasks(loc[p]) :
        /\ jobs[j].status # "absent"
        /\ asked[j] # Nil => Passes(p, j) = asked[j]

SpiderOK(p) ==
    child[p] # Nil =>
        /\ jobs[child[p]].status # "absent"
        /\ asked[child[p]] # Nil => spiderArgs[p] = asked[child[p]]

RowOK(j) ==
    asked[j] # Nil => IsCrawl(asked[j]) /\ params[j] = asked[j] /\ kind[j] = asked[j].type

\* The variables are functions and records; what of does not matter.
IsHeld(h) ==
    /\ h = [p \in Proc |-> h[p]]
    /\ \A p \in Proc :
          /\ h[p] = [wants |-> h[p].wants, arg |-> h[p].arg, load |-> h[p].load,
                     loaded |-> h[p].loaded]
          /\ h[p].load = [j \in Job |-> h[p].load[j]]

Shape ==
    /\ default \in [Source -> PageLimit]
    /\ kind = [j \in Job |-> kind[j]]
    /\ params = [j \in Job |-> params[j]]
    /\ asked = [j \in Job |-> asked[j]]
    /\ spiderArgs = [p \in Runners |-> spiderArgs[p]]
    /\ IsHeld(held)

ParamInv ==
    /\ Shape
    /\ \A j \in Job : RowOK(j)
    /\ \A p \in Proc : PlanOK(p) /\ TaskOK(p)
    /\ \A p \in Runners : SpiderOK(p)

----------------------------------------------------------------------------
(* What a step leaves as it is *)

\* Every step that names parameters is a step of the system.
LEMMA StepsBelow ==
  ASSUME [ParamNext]_allVars
  PROVE  [Next]_vars
  <1>1. ASSUME NEW p \in Creators, NEW s \in Source, NEW a, Ask(p, s, a)
        PROVE  Next
    BY <1>1 DEF Ask, Next
  <1>2. ASSUME NEW p \in Clients, NEW r \in Job, NEW n, AskRetry(p, r, n)
        PROVE  Next
    BY <1>2 DEF AskRetry, Next
  <1>3. ASSUME NEW p \in Clients, NEW s \in Source, AskRetryLatest(p, s)
        PROVE  Next
    <2>1. p \in Creators
      BY DEF Creators
    <2> QED
      BY <1>1, <1>2, <1>3, <2>1 DEF AskRetryLatest, Retryable
  <1>4. ASSUME NEW p \in Creators, NEW j \in Job, Insert(p, j)
        PROVE  Next
    BY <1>4 DEF Insert, Next, CreateStep
  <1>5. ASSUME NEW d \in Dispatchers, SweepAll(d) \/ \E w \in Workers : Launch(d, w)
        PROVE  Next
    BY <1>5 DEF SweepAll, Launch, Next, DispatchStep
  <1>6. ASSUME NEW p \in Runners, Start(p) \/ Spawn(p) \/ Exit(p) \/ Finish(p)
        PROVE  Next
    BY <1>6 DEF Start, Spawn, Exit, Finish, Next, RunStep, CloseStep
  <1>7. ASSUME NEW p \in Dispatchers \cup Runners, Fail(p)
        PROVE  Next
    BY <1>7 DEF Fail, Next, CloseStep
  <1>8. ASSUME NEW p \in Clis, NEW s \in Source, NEW j \in Job, NEW a, Script(p, s, j, a)
        PROVE  Next
    BY <1>8 DEF Script, Next
  <1>9. ASSUME Other
        PROVE  Next
    BY <1>9 DEF Other, Next, CreateStep, DispatchStep, RunStep
  <1>10. CASE (\E s \in Source, n \in PageLimit : EditDefault(s, n)) \/ UNCHANGED allVars
    BY <1>10 DEF EditDefault, allVars
  <1> QED
    BY <1>1, <1>2, <1>3, <1>4, <1>5, <1>6, <1>7, <1>8, <1>9, <1>10 DEF ParamNext

\* What was asked of a row that is there is history.
AskedStays == \A j \in Job : jobs[j].status # "absent" => asked'[j] = asked[j]

\* A process that gets nothing new to do and forgets nothing keeps its promises.
LEMMA TasksCarryOver ==
  ASSUME TypeInv, [Next]_vars, AskedStays, NEW p \in Proc, PlanOK(p), TaskOK(p),
         Narrower(loc'[p], loc[p]), NEW h, Hold(h),
         h[p].wants = held[p].wants, h[p].arg = held[p].arg, h[p].load = held[p].load
  PROVE  PlanOK(p)' /\ TaskOK(p)'
  <1>1. held'[p] = IF loc'[p].pc = "idle" THEN Nothing ELSE h[p]
    BY DEF Hold
  <1>2. loc'[p].pc = "idle" => loc'[p].pc \notin Creating /\ Tasks(loc'[p]) = {}
    BY DEF Creating, Tasks, Busy, Starting, Executing, Closing
  <1>3. PlanOK(p)'
    <2>1. loc'[p].pc \in Creating => loc[p].pc \in Creating
      BY DEF Narrower, Checked, Creating
    <2> QED
      BY <1>1, <1>2, <2>1 DEF PlanOK
  <1>4. TaskOK(p)'
    <2> SUFFICES ASSUME NEW j \in Tasks(loc'[p])
                 PROVE  /\ jobs'[j].status # "absent"
                        /\ asked'[j] # Nil =>
                              (IF p \in Dispatchers THEN held'[p].load[j] ELSE held'[p].arg)
                                 = asked'[j]
      BY DEF TaskOK, Passes
    <2>1. j \in Tasks(loc[p]) /\ j \in Job
      BY TasksAreJobs DEF Narrower
    <2>2. jobs[j].status # "absent" /\ (asked[j] # Nil => Passes(p, j) = asked[j])
      BY <2>1 DEF TaskOK
    <2>3. jobs'[j].status # "absent" /\ asked'[j] = asked[j]
      BY <2>1, <2>2, RowsStay DEF AskedStays
    <2> QED
      BY <1>1, <1>2, <2>2, <2>3 DEF Passes
  <1> QED
    BY <1>3, <1>4

\* A spider runs on as it was launched, or ends.
LEMMA SpidersCarryOver ==
  ASSUME TypeInv, [Next]_vars, AskedStays, NEW p \in Runners, SpiderOK(p),
         child'[p] = Nil \/ (child'[p] = child[p] /\ spiderArgs'[p] = spiderArgs[p])
  PROVE  SpiderOK(p)'
  <1>1. child[p] \in Job \cup {Nil}
    BY DEF TypeInv, TypeOK
  <1> QED
    BY <1>1, RowsStay DEF SpiderOK, AskedStays

\* What is held keeps its form.
LEMMA HoldKeepsForm ==
  ASSUME NEW h, IsHeld(h), Hold(h)
  PROVE  IsHeld(held)'
  <1>1. held' = [p \in Proc |-> IF loc'[p].pc = "idle" THEN Nothing ELSE h[p]]
    BY DEF Hold
  <1>2. /\ Nothing = [wants |-> Nothing.wants, arg |-> Nothing.arg, load |-> Nothing.load,
                      loaded |-> Nothing.loaded]
        /\ Nothing.load = [j \in Job |-> Nothing.load[j]]
    BY DEF Nothing, Anew
  <1>3. held' = [p \in Proc |-> held'[p]]
    BY <1>1
  <1>4. ASSUME NEW p \in Proc
        PROVE  /\ held'[p] = [wants |-> held'[p].wants, arg |-> held'[p].arg,
                              load |-> held'[p].load, loaded |-> held'[p].loaded]
               /\ held'[p].load = [j \in Job |-> held'[p].load[j]]
    <2>1. CASE loc'[p].pc = "idle"
      <3>1. held'[p] = Nothing
        BY <1>1, <2>1
      <3> QED
        BY <1>2, <3>1
    <2>2. CASE loc'[p].pc # "idle"
      <3>1. held'[p] = h[p]
        BY <1>1, <2>2
      <3> QED
        BY <3>1 DEF IsHeld
    <2> QED
      BY <2>1, <2>2
  <1> QED
    BY <1>3, <1>4 DEF IsHeld

\* A step that gives no process a new task or plan, and writes what was asked.
LEMMA StepKeeps ==
  ASSUME TypeInv, ParamInv, [Next]_vars, AllNarrower, NEW h, Hold(h), IsHeld(h),
         \A p \in Proc : /\ h[p].wants = held[p].wants
                         /\ h[p].arg = held[p].arg
                         /\ h[p].load = held[p].load,
         UNCHANGED <<default, kind, asked>>,
         params' = [j \in Job |-> params'[j]],
         \A j \in Job : asked[j] # Nil => params'[j] = asked[j],
         spiderArgs' = [p \in Runners |-> spiderArgs'[p]],
         \A p \in Runners :
            child'[p] = Nil \/ (child'[p] = child[p] /\ spiderArgs'[p] = spiderArgs[p])
  PROVE  ParamInv'
  <1>1. Shape'
    BY HoldKeepsForm DEF ParamInv, Shape
  <1>2. AskedStays
    BY DEF AskedStays
  <1>3. ASSUME NEW j \in Job PROVE RowOK(j)'
    BY DEF ParamInv, RowOK
  <1>4. ASSUME NEW p \in Proc PROVE PlanOK(p)' /\ TaskOK(p)'
    <2>1. PlanOK(p) /\ TaskOK(p) /\ Narrower(loc'[p], loc[p])
      BY DEF ParamInv, AllNarrower
    <2> QED
      BY <1>2, <2>1, TasksCarryOver
  <1>5. ASSUME NEW p \in Runners PROVE SpiderOK(p)'
    <2>1. SpiderOK(p)
      BY DEF ParamInv
    <2> QED
      BY <1>2, <2>1, SpidersCarryOver
  <1> QED
    BY <1>1, <1>3, <1>4, <1>5 DEF ParamInv

\* The processes and spiders that a step of others passes by.
LEMMA OthersKeep ==
  ASSUME TypeInv, ParamInv, [Next]_vars, AskedStays, NEW h, Hold(h), NEW p \in Proc,
         loc'[p] = loc[p], h[p] = held[p]
  PROVE  PlanOK(p)' /\ TaskOK(p)'
  <1>1. PlanOK(p) /\ TaskOK(p) /\ Narrower(loc'[p], loc[p])
    BY DEF ParamInv, Narrower
  <1> QED
    BY <1>1, TasksCarryOver

LEMMA SpidersKeep ==
  ASSUME TypeInv, ParamInv, [Next]_vars, AskedStays, UNCHANGED <<child, spiderArgs>>,
         NEW p \in Runners
  PROVE  SpiderOK(p)'
  <1>1. SpiderOK(p)
    BY DEF ParamInv
  <1> QED
    BY <1>1, SpidersCarryOver

\* What a process holds when it starts anew.
LEMMA HoldsForm ==
  ASSUME IsHeld(held), NEW q \in Proc, NEW a, NEW b
  PROVE  /\ IsHeld(Holds(q, a, b))
         /\ \A p \in Proc \ {q} : Holds(q, a, b)[p] = held[p]
         /\ Holds(q, a, b)[q].wants = a
         /\ Holds(q, a, b)[q].arg = b
  <1>1. Anew(a, b).wants = a /\ Anew(a, b).arg = b
    BY DEF Anew
  <1>2. Anew(a, b).load = [j \in Job |-> Anew(a, b).load[j]]
    BY DEF Anew
  <1>3. Anew(a, b) = [wants |-> Anew(a, b).wants, arg |-> Anew(a, b).arg,
                      load |-> Anew(a, b).load, loaded |-> Anew(a, b).loaded]
    BY DEF Anew
  <1> QED
    BY <1>1, <1>2, <1>3 DEF IsHeld, Holds

----------------------------------------------------------------------------
(* One lemma per step *)

LEMMA ParamInitially == ParamInit => ParamInv
  <1> SUFFICES ASSUME ParamInit PROVE ParamInv
    OBVIOUS
  <1>1. /\ Nothing = [wants |-> Nothing.wants, arg |-> Nothing.arg, load |-> Nothing.load,
                      loaded |-> Nothing.loaded]
        /\ Nothing.load = [j \in Job |-> Nothing.load[j]]
    BY DEF Nothing, Anew
  <1>2. \A p \in Proc : held[p] = Nothing
    BY DEF ParamInit
  <1>3. held = [p \in Proc |-> held[p]]
    BY DEF ParamInit
  <1>4. IsHeld(held)
    BY <1>1, <1>2, <1>3 DEF IsHeld
  <1>5. Shape
    BY <1>4 DEF ParamInit, Shape
  <1>6. Idle.pc \notin Creating /\ Tasks(Idle) = {}
    BY DEF Idle, Tasks, Creating, Busy, Starting, Executing, Closing
  <1>7. \A p \in Proc : loc[p] = Idle
    BY DEF ParamInit, Init
  <1>8. \A p \in Proc : PlanOK(p) /\ TaskOK(p)
    BY <1>6, <1>7 DEF PlanOK, TaskOK
  <1>9. \A p \in Runners : SpiderOK(p)
    BY DEF ParamInit, Init, SpiderOK
  <1>10. \A j \in Job : RowOK(j)
    BY DEF ParamInit, RowOK
  <1> QED
    BY <1>5, <1>8, <1>9, <1>10 DEF ParamInv

\* Someone asks: what they were told to create is what they hold.
LEMMA AskingKeeps ==
  ASSUME TypeInv, ParamInv, [Next]_vars, NEW q \in Proc, NEW l, Become(q, l),
         l.pc = "check", NEW a, NEW b, Hold(Holds(q, a, b)),
         a # Nil => b = a /\ IsCrawl(a),
         UNCHANGED <<default, kind, params, spiderArgs, asked, child>>
  PROVE  ParamInv'
  <1>1. AskedStays /\ IsHeld(held)
    BY DEF AskedStays, ParamInv, Shape
  <1> DEFINE h == Holds(q, a, b)
  <1>2. IsHeld(h) /\ (\A p \in Proc \ {q} : h[p] = held[p]) /\ h[q].wants = a /\ h[q].arg = b
    BY <1>1, HoldsForm
  <1>3. loc'[q] = l /\ \A p \in Proc \ {q} : loc'[p] = loc[p]
    BY DEF Become, TypeInv, TypeOK
  <1>4. Hold(h)
    OBVIOUS
  <1> HIDE DEF h
  <1>5. Shape'
    BY <1>2, <1>4, HoldKeepsForm DEF ParamInv, Shape
  <1>6. ASSUME NEW p \in Proc, p # q PROVE PlanOK(p)' /\ TaskOK(p)'
    BY <1>1, <1>2, <1>3, <1>4, <1>6, OthersKeep
  <1>7. held'[q].wants = a /\ held'[q].arg = b
    BY <1>2, <1>3, <1>4 DEF Hold
  <1>8. PlanOK(q)' /\ TaskOK(q)'
    <2>1. Tasks(loc'[q]) = {}
      BY <1>3 DEF Tasks, Busy, Starting, Executing, Closing
    <2>2. TaskOK(q)'
      BY <2>1 DEF TaskOK
    <2>3. PlanOK(q)'
      BY <1>7 DEF PlanOK
    <2> QED
      BY <2>2, <2>3
  <1>9. \A j \in Job : RowOK(j)'
    BY DEF ParamInv, RowOK
  <1>10. \A p \in Runners : SpiderOK(p)'
    BY <1>1, SpidersKeep
  <1> QED
    BY <1>5, <1>6, <1>8, <1>9, <1>10 DEF ParamInv

\* New requests in the hands of a process.
LEMMA LoadsForm ==
  ASSUME IsHeld(held), NEW q \in Proc, NEW new, new = [j \in Job |-> new[j]]
  PROVE  /\ IsHeld([held EXCEPT ![q].load = new])
         /\ [held EXCEPT ![q].load = new][q].load = new
         /\ [held EXCEPT ![q].load = new][q].arg = held[q].arg
         /\ \A p \in Proc \ {q} : [held EXCEPT ![q].load = new][p] = held[p]
  <1> DEFINE h == [held EXCEPT ![q].load = new]
  <1>1. /\ h = [p \in Proc |-> h[p]]
        /\ \A p \in Proc \ {q} : h[p] = held[p]
        /\ h[q] = [held[q] EXCEPT !.load = new]
    BY DEF IsHeld
  <1>2. held[q] = [wants |-> held[q].wants, arg |-> held[q].arg, load |-> held[q].load,
                   loaded |-> held[q].loaded]
    BY DEF IsHeld
  <1> HIDE DEF h
  <1>3. /\ h[q].load = new /\ h[q].arg = held[q].arg
        /\ h[q] = [wants |-> h[q].wants, arg |-> h[q].arg, load |-> h[q].load,
                   loaded |-> h[q].loaded]
    BY <1>1, <1>2
  <1>4. IsHeld(h)
    BY <1>1, <1>3 DEF IsHeld
  <1> QED
    BY <1>1, <1>3, <1>4 DEF h

\* Whoever asks with the body or the button asks for a crawl.
LEMMA AskKeeps ==
  ASSUME TypeInv, ParamInv, [Next]_vars, NEW q \in Creators, NEW s \in Source,
         NEW a \in Wishes(q, s), Ask(q, s, a)
  PROVE  ParamInv'
  <1>1. q \in Proc
    BY DEF Creators, Proc, Dispatchers, Runners
  <1>2. default[s] \in PageLimit /\ default[s] # Nil
    BY ParamAssumption DEF ParamInv, Shape
  <1>3. ASSUME NEW t, NEW n, NEW y PROVE IsCrawl(Resolved(s, t, n, y))
    BY <1>2 DEF IsCrawl, Resolved, Crawl, Given
  <1>4. IsCrawl(a)
    BY <1>3 DEF Wishes, Button
  <1> DEFINE l == [Idle EXCEPT !.pc = "check", !.source = s, !.stale = ExpiredJobs]
  <1>5. Become(q, l) /\ UNCHANGED child
    BY DEF Ask, Request
  <1>6. l.pc = "check"
    BY DEF Idle
  <1> HIDE DEF l
  <1> QED
    BY <1>1, <1>4, <1>5, <1>6, AskingKeeps DEF Ask

\* A retry is asked for what its original was asked for.
LEMMA AskRetryKeeps ==
  ASSUME TypeInv, ParamInv, [Next]_vars, NEW q \in Clients, NEW r \in Job, NEW n,
         AskRetry(q, r, n)
  PROVE  ParamInv'
  <1>1. q \in Proc
    BY DEF Proc, Dispatchers
  <1>2. Repeat(r, n) # Nil => RetryOf(r, n) = Repeat(r, n) /\ IsCrawl(Repeat(r, n))
    <2> SUFFICES ASSUME asked[r] # Nil
                 PROVE  RetryOf(r, n) = Repeat(r, n) /\ IsCrawl(Repeat(r, n))
      BY DEF Repeat
    <2>1. params[r] = asked[r] /\ asked[r].max_pages # Nil
      BY DEF ParamInv, RowOK, IsCrawl
    <2>2. RetryOf(r, n) = Repeat(r, n)
      BY <2>1 DEF RetryOf, Repeat, Read, Given
    <2>3. IsCrawl(Repeat(r, n))
      BY <2>1 DEF Repeat, Crawl, IsCrawl, Given
    <2> QED
      BY <2>2, <2>3
  <1> DEFINE l == [Idle EXCEPT !.pc = "check", !.source = jobs[r].source,
                               !.retryOf = r, !.stale = ExpiredJobs]
  <1>3. Become(q, l) /\ UNCHANGED child
    BY DEF AskRetry, RequestRetry
  <1>4. l.pc = "check"
    BY DEF Idle
  <1> HIDE DEF l
  <1> QED
    BY <1>1, <1>2, <1>3, <1>4, AskingKeeps DEF AskRetry

LEMMA AskLatestKeeps ==
  ASSUME TypeInv, ParamInv, [Next]_vars, NEW q \in Clients, NEW s \in Source,
         AskRetryLatest(q, s)
  PROVE  ParamInv'
  <1>1. q \in Creators
    BY DEF Creators
  <1>2. Button("manual", s) \in Wishes(q, s)
    BY DEF Wishes, Button
  <1> QED
    BY <1>1, <1>2, AskKeeps, AskRetryKeeps DEF AskRetryLatest, Retryable

\* The row and the thread that inserted it have what was asked.
LEMMA InsertKeeps ==
  ASSUME TypeInv, ParamInv, [Next]_vars, NEW q \in Creators, NEW j \in Job, Insert(q, j)
  PROVE  ParamInv'
  <1>1. q \in Proc /\ jobs[j].status = "absent" /\ Shape
    BY DEF Creators, Proc, Dispatchers, Runners, Insert, InsertJob, IsNextId, ParamInv
  <1>2. /\ asked' = [asked EXCEPT ![j] = held[q].wants]
        /\ params' = [params EXCEPT ![j] = held[q].arg]
        /\ kind' = [kind EXCEPT ![j] = held[q].arg.type]
        /\ UNCHANGED <<default, child, spiderArgs>>
    BY DEF Insert, InsertJob
  <1>3. AskedStays
    BY <1>1, <1>2 DEF AskedStays, Shape
  <1>4. asked'[j] # Nil => held[q].arg = asked'[j] /\ IsCrawl(asked'[j])
    <2>1. loc[q].pc \in Creating
      BY DEF Insert, InsertJob, At, Creating
    <2> QED
      BY <1>1, <1>2, <2>1 DEF Shape, ParamInv, PlanOK
  <1> DEFINE new == [held[q].load EXCEPT ![j] = held[q].arg]
             h == [held EXCEPT ![q].load = new]
  <1>5. /\ Hold(h) /\ IsHeld(h)
        /\ h[q].load[j] = held[q].arg /\ h[q].arg = held[q].arg
        /\ \A p \in Proc \ {q} : h[p] = held[p]
    <2>1. new = [k \in Job |-> new[k]] /\ new[j] = held[q].arg
      BY <1>1 DEF Shape, IsHeld
    <2>2. Hold(h)
      BY DEF Insert
    <2> HIDE DEF new
    <2> QED
      BY <1>1, <2>1, <2>2, LoadsForm DEF Shape
  <1> HIDE DEF h
  <1>6. Shape'
    BY <1>1, <1>2, <1>5, HoldKeepsForm DEF Shape
  <1>7. ASSUME NEW k \in Job PROVE RowOK(k)'
    BY <1>1, <1>2, <1>4 DEF ParamInv, RowOK, Shape
  <1>8. \A p \in Proc \ {q} : loc'[p] = loc[p]
    BY <1>1 DEF Insert, InsertJob, Become, TypeInv, TypeOK
  <1>9. ASSUME NEW p \in Proc, p # q PROVE PlanOK(p)' /\ TaskOK(p)'
    BY <1>3, <1>5, <1>8, <1>9, OthersKeep
  <1>10. /\ loc'[q].pc \notin Creating \cup {"idle"}
         /\ Tasks(loc'[q]) = {j}
    <2>1. loc'[q] = IF q \in Clients THEN TurnTo({j}) ELSE [Idle EXCEPT !.pc = "boot", !.job = j]
      BY <1>1 DEF Insert, InsertJob, Become, TypeInv, TypeOK
    <2>2. CASE q \in Clients
      <3>1. loc'[q].pc = "dispatch" /\ loc'[q].todo = {j}
        BY <2>1, <2>2 DEF TurnTo, Idle
      <3> QED
        BY <3>1 DEF Tasks, Creating, Busy, Starting, Executing, Closing
    <2>3. CASE q \notin Clients
      <3>1. loc'[q].pc = "boot" /\ loc'[q].todo = {} /\ loc'[q].job = j
        BY <2>1, <2>3 DEF Idle
      <3> QED
        BY <3>1 DEF Tasks, Creating, Busy, Starting, Executing, Closing
    <2> QED
      BY <2>2, <2>3
  <1>11. PlanOK(q)'
    BY <1>10 DEF PlanOK
  <1>12. TaskOK(q)'
    <2>1. held'[q] = h[q]
      BY <1>1, <1>5, <1>10 DEF Hold
    <2>2. jobs'[j].status # "absent"
      BY DEF Insert, InsertJob, NewRow, TypeInv, TypeOK, Flushed
    <2>3. asked'[j] # Nil =>
             (IF q \in Dispatchers THEN held'[q].load[j] ELSE held'[q].arg) = asked'[j]
      BY <1>4, <1>5, <2>1
    <2> QED
      BY <1>10, <2>2, <2>3 DEF TaskOK, Passes
  <1>13. \A p \in Runners : SpiderOK(p)'
    BY <1>2, <1>3, SpidersKeep
  <1> QED
    BY <1>6, <1>7, <1>9, <1>11, <1>12, <1>13 DEF ParamInv

\* The sweep reads from the row what was asked.
LEMMA SweepKeeps ==
  ASSUME TypeInv, ParamInv, [Next]_vars, NEW q \in Dispatchers, SweepAll(q)
  PROVE  ParamInv'
  <1>1. q \in Proc /\ AskedStays /\ Shape /\ UNCHANGED <<jobs, child, spiderArgs, asked>>
    BY DEF Proc, SweepAll, Sweep, AskedStays, ParamInv
  <1> DEFINE new == [j \in Job |-> IF j \in Candidates THEN RequestOf(j) ELSE Nil]
             h == [held EXCEPT ![q].load = new]
  <1>2. new = [j \in Job |-> new[j]] /\ \A j \in Candidates : new[j] = RequestOf(j)
    BY DEF Candidates
  <1>3. Hold(h)
    BY DEF SweepAll
  <1> HIDE DEF new
  <1>4. IsHeld(h) /\ h[q].load = new /\ \A p \in Proc \ {q} : h[p] = held[p]
    BY <1>1, <1>2, LoadsForm, SMTT(30) DEF Shape
  <1> HIDE DEF h
  <1>5. Shape'
    BY <1>1, <1>3, <1>4, HoldKeepsForm DEF SweepAll, Shape
  <1>6. \A j \in Job : RowOK(j)'
    BY DEF SweepAll, ParamInv, RowOK
  <1>7. loc'[q] = TurnTo(Candidates) /\ \A p \in Proc \ {q} : loc'[p] = loc[p]
    BY <1>1 DEF SweepAll, Sweep, Become, TypeInv, TypeOK
  <1>8. ASSUME NEW p \in Proc, p # q PROVE PlanOK(p)' /\ TaskOK(p)'
    BY <1>1, <1>3, <1>4, <1>7, <1>8, OthersKeep
  <1>9. loc'[q].pc = "dispatch" /\ Tasks(loc'[q]) = Candidates
    <2>1. loc'[q].pc = "dispatch" /\ loc'[q].todo = Candidates
      BY <1>7 DEF SweepAll, Sweep, TurnTo, Idle
    <2> QED
      BY <2>1 DEF Tasks, Busy, Starting, Executing, Closing
  <1>10. PlanOK(q)'
    BY <1>9 DEF PlanOK, Creating
  <1>11. ASSUME NEW j \in Candidates
         PROVE  /\ jobs'[j].status # "absent"
                /\ asked'[j] # Nil => held'[q].load[j] = asked'[j]
    <2>1. j \in Job /\ jobs[j].status # "absent"
      BY DEF Candidates, Claimable
    <2>2. asked[j] # Nil => RequestOf(j) = asked[j]
      BY <2>1 DEF ParamInv, RowOK, IsCrawl, RequestOf, Read
    <2>3. held'[q] = h[q]
      BY <1>1, <1>3, <1>9 DEF Hold
    <2> QED
      BY <1>1, <1>2, <1>4, <2>1, <2>2, <2>3
  <1>12. TaskOK(q)'
    BY <1>9, <1>11 DEF TaskOK, Passes
  <1>13. \A p \in Runners : SpiderOK(p)'
    BY <1>1, SpidersKeep
  <1> QED
    BY <1>5, <1>6, <1>8, <1>10, <1>12, <1>13 DEF ParamInv

\* The worker gets on its command line what its dispatcher has for the job.
LEMMA LaunchKeeps ==
  ASSUME TypeInv, ParamInv, [Next]_vars, NEW d \in Dispatchers, NEW w \in Workers, Launch(d, w)
  PROVE  ParamInv'
  <1>1. /\ d \in Proc /\ w \in Proc /\ d # w /\ w \notin Dispatchers
        /\ AskedStays /\ Shape /\ UNCHANGED <<jobs, child, spiderArgs, asked>>
    BY ProcAssumption DEF Proc, Runners, Launch, LaunchWorker, AskedStays, ParamInv
  <1> DEFINE c == loc[d].job
             arg == held[d].load[c]
             h == Holds(w, Nil, arg)
  <1>2. c \in Tasks(loc[d]) /\ loc[d].todo \subseteq Tasks(loc[d])
    BY DEF Launch, LaunchWorker, At, Tasks, Busy
  <1>3. Hold(h)
    BY DEF Launch
  <1>4. IsHeld(h) /\ h[w].arg = arg /\ \A p \in Proc \ {w} : h[p] = held[p]
    <2>1. IsHeld(held)
      BY <1>1 DEF Shape
    <2> HIDE DEF arg, c
    <2> QED
      BY <1>1, <2>1, HoldsForm
  <1>5. /\ loc'[d] = TurnTo(loc[d].todo)
        /\ loc'[w] = [Idle EXCEPT !.pc = "boot", !.job = c]
        /\ \A p \in Proc \ {d, w} : loc'[p] = loc[p]
    BY <1>1 DEF Launch, LaunchWorker, TypeInv, TypeOK
  <1>6. c \in Job /\ jobs[c].status # "absent" /\ (asked[c] # Nil => arg = asked[c])
    BY <1>1, <1>2, TasksAreJobs DEF ParamInv, TaskOK, Passes
  <1> HIDE DEF h, arg, c
  <1>7. Shape'
    BY <1>1, <1>3, <1>4, HoldKeepsForm DEF Launch, Shape
  <1>8. \A j \in Job : RowOK(j)'
    BY DEF Launch, ParamInv, RowOK
  <1>9. ASSUME NEW p \in Proc, p # d, p # w PROVE PlanOK(p)' /\ TaskOK(p)'
    BY <1>1, <1>3, <1>4, <1>5, <1>9, OthersKeep
  <1>10. PlanOK(d)' /\ TaskOK(d)'
    <2>1. Narrower([Idle EXCEPT !.pc = "dispatch", !.todo = loc[d].todo], loc[d])
      BY <1>2 DEF Narrower, Tasks, Idle, Busy, Creating, Flushing, Starting, Executing, Closing
    <2>2. Narrower(loc'[d], loc[d])
      BY <1>5, <2>1, IdleNarrow DEF TurnTo
    <2>3. PlanOK(d) /\ TaskOK(d) /\ h[d] = held[d]
      BY <1>1, <1>4 DEF ParamInv
    <2> QED
      BY <1>1, <1>3, <2>2, <2>3, TasksCarryOver
  <1>11. loc'[w].pc = "boot" /\ Tasks(loc'[w]) = {c}
    <2>1. loc'[w].pc = "boot" /\ loc'[w].job = c /\ loc'[w].todo = {}
      BY <1>5 DEF Idle
    <2> QED
      BY <2>1 DEF Tasks, Busy, Starting, Executing, Closing
  <1>12. PlanOK(w)'
    BY <1>11 DEF PlanOK, Creating
  <1>13. held'[w].arg = arg
    BY <1>1, <1>3, <1>4, <1>11 DEF Hold
  <1>14. TaskOK(w)'
    BY <1>1, <1>6, <1>11, <1>13 DEF TaskOK, Passes
  <1>15. \A p \in Runners : SpiderOK(p)'
    BY <1>1, SpidersKeep
  <1> QED
    BY <1>7, <1>8, <1>9, <1>10, <1>12, <1>14, <1>15 DEF ParamInv

\* The job a process works on is one of its tasks.
LEMMA WorksOnTask ==
  ASSUME TypeInv, ParamInv, NEW p \in Proc, loc[p].pc \in Busy
  PROVE  /\ loc[p].job \in Job
         /\ jobs[loc[p].job].status # "absent"
         /\ asked[loc[p].job] # Nil => Passes(p, loc[p].job) = asked[loc[p].job]
  <1>1. loc[p].job \in Tasks(loc[p])
    BY DEF Tasks
  <1> QED
    BY <1>1, TasksAreJobs DEF ParamInv, TaskOK

\* What is held is as before but for the column as the session loaded it.
Loaded(q, a) == [held EXCEPT ![q].loaded = a]

LEMMA LoadKeepsForm ==
  ASSUME IsHeld(held), NEW q \in Proc, NEW a
  PROVE  /\ IsHeld(Loaded(q, a))
         /\ \A p \in Proc : /\ Loaded(q, a)[p].wants = held[p].wants
                            /\ Loaded(q, a)[p].arg = held[p].arg
                            /\ Loaded(q, a)[p].load = held[p].load
  BY DEF IsHeld, Loaded

\* Who starts a job writes what was asked, once more.
LEMMA StartKeeps ==
  ASSUME TypeInv, ParamInv, [Next]_vars, NEW q \in Runners, Start(q)
  PROVE  ParamInv'
  <1>1. q \in Proc /\ q \notin Dispatchers /\ Shape /\ loc[q].pc \in Busy
    BY ProcAssumption DEF Proc, Start, StartJob, At, Busy, Starting, ParamInv
  <1>2. AllNarrower
    BY RunNarrow DEF Start, RunStep
  <1>3. params' = [j \in Job |-> params'[j]] /\ \A j \in Job : asked[j] # Nil => params'[j] = asked[j]
    BY <1>1, WorksOnTask DEF Start, Shape, Passes, ParamInv, RowOK
  <1>4. Hold(held) /\ IsHeld(held) /\ UNCHANGED <<default, kind, asked, spiderArgs, child>>
    BY <1>1 DEF Start, StartJob, Shape
  <1>5. spiderArgs' = [p \in Runners |-> spiderArgs'[p]]
    BY <1>1, <1>4 DEF Shape
  <1> QED
    BY <1>2, <1>3, <1>4, <1>5, StepKeeps

\* The spider gets what its runner has for the job.
LEMMA SpawnKeeps ==
  ASSUME TypeInv, ParamInv, [Next]_vars, NEW q \in Runners, Spawn(q)
  PROVE  ParamInv'
  <1>1. /\ q \in Proc /\ q \notin Dispatchers /\ Shape /\ loc[q].pc \in Busy
        /\ UNCHANGED <<jobs, default, kind, params, asked>> /\ AskedStays
    BY ProcAssumption DEF Proc, Spawn, SpawnSpider, At, Busy, Executing, ParamInv, AskedStays
  <1>2. AllNarrower
    BY RunNarrow DEF Spawn, RunStep
  <1>3. Hold(held) /\ IsHeld(held)
    BY <1>1 DEF Spawn, Shape
  <1>4. Shape'
    BY <1>1, <1>3, HoldKeepsForm DEF Spawn, Shape
  <1>5. \A j \in Job : RowOK(j)'
    BY <1>1 DEF ParamInv, RowOK
  <1>6. ASSUME NEW p \in Proc PROVE PlanOK(p)' /\ TaskOK(p)'
    <2>1. PlanOK(p) /\ TaskOK(p) /\ Narrower(loc'[p], loc[p])
      BY <1>2 DEF ParamInv, AllNarrower
    <2> QED
      BY <1>1, <1>3, <2>1, TasksCarryOver
  <1>7. ASSUME NEW p \in Runners, p # q PROVE SpiderOK(p)'
    <2>1. SpiderOK(p) /\ child'[p] = child[p] /\ spiderArgs'[p] = spiderArgs[p]
      BY <1>1, <1>7 DEF ParamInv, Spawn, SpawnSpider, TypeInv, TypeOK, Shape
    <2> QED
      BY <1>1, <2>1, SpidersCarryOver
  <1>8. SpiderOK(q)'
    <2>1. child'[q] = loc[q].job /\ spiderArgs'[q] = held[q].arg
      BY <1>1 DEF Spawn, SpawnSpider, TypeInv, TypeOK, Shape
    <2>2. /\ jobs'[loc[q].job].status # "absent"
          /\ asked'[loc[q].job] # Nil => held[q].arg = asked'[loc[q].job]
      BY <1>1, WorksOnTask DEF Passes
    <2> QED
      BY <2>1, <2>2 DEF SpiderOK
  <1> QED
    BY <1>4, <1>5, <1>6, <1>7, <1>8 DEF ParamInv

LEMMA ExitKeeps ==
  ASSUME TypeInv, ParamInv, [Next]_vars, NEW q \in Runners, Exit(q)
  PROVE  ParamInv'
  <1>1. AllNarrower
    BY RunNarrow DEF Exit
  <1>2. Shape /\ Hold(held) /\ IsHeld(held) /\ UNCHANGED <<default, kind, asked, params>>
    BY DEF Exit, Shape, ParamInv
  <1>3. params' = [j \in Job |-> params'[j]] /\ \A j \in Job : asked[j] # Nil => params'[j] = asked[j]
    BY <1>2 DEF Shape, ParamInv, RowOK
  <1>4. /\ spiderArgs' = [p \in Runners |-> spiderArgs'[p]]
        /\ \A p \in Runners : child'[p] = Nil
                              \/ (child'[p] = child[p] /\ spiderArgs'[p] = spiderArgs[p])
    BY <1>2 DEF Exit, SpiderExits, Shape, TypeInv, TypeOK
  <1> QED
    BY <1>1, <1>2, <1>3, <1>4, StepKeeps

\* Finishing writes what was asked, or, in the script, nothing.
LEMMA FinishKeeps ==
  ASSUME TypeInv, ParamInv, [Next]_vars, NEW q \in Runners, Finish(q)
  PROVE  ParamInv'
  <1>1. /\ q \in Proc /\ q \notin Dispatchers /\ Shape /\ loc[q].pc \in Busy
        /\ UNCHANGED <<default, kind, asked, spiderArgs, child>>
    BY ProcAssumption DEF Proc, Finish, FinishRead, FinishWrite, Busy, Closing, ParamInv
  <1>2. AllNarrower
    BY CloseNarrow DEF Finish, CloseStep
  <1>3. /\ params' = [j \in Job |-> params'[j]]
        /\ \A j \in Job : asked[j] # Nil => params'[j] = asked[j]
    <2>1. \A j \in Job : asked[j] # Nil => params[j] = asked[j]
      BY DEF ParamInv, RowOK
    <2>2. asked[loc[q].job] # Nil => held[q].arg = asked[loc[q].job]
      BY <1>1, WorksOnTask DEF Passes
    <2> QED
      BY <1>1, <2>1, <2>2 DEF Finish, Flush, Shape
  <1>4. spiderArgs' = [p \in Runners |-> spiderArgs'[p]]
    BY <1>1 DEF Shape
  <1>5. CASE LoadColumn(q)
    <2>1. PICK h : h = Loaded(q, params[loc[q].job])
      OBVIOUS
    <2>2. Hold(h)
      BY <1>5, <2>1 DEF LoadColumn, Loaded
    <2>3. IsHeld(held)
      BY <1>1 DEF Shape
    <2>4. IsHeld(h) /\ \A p \in Proc : /\ h[p].wants = held[p].wants
                                       /\ h[p].arg = held[p].arg
                                       /\ h[p].load = held[p].load
      BY <1>1, <2>1, <2>3, LoadKeepsForm
    <2> QED
      BY <1>1, <1>2, <1>3, <1>4, <2>2, <2>4, StepKeeps
  <1>6. CASE Hold(held)
    BY <1>1, <1>2, <1>3, <1>4, <1>6, StepKeeps DEF Shape
  <1> QED
    BY <1>5, <1>6 DEF Finish

\* So does giving a job up, for a dispatcher and for a worker.
LEMMA FailKeeps ==
  ASSUME TypeInv, ParamInv, [Next]_vars, NEW q \in Dispatchers \cup Runners, Fail(q)
  PROVE  ParamInv'
  <1>1. /\ q \in Proc /\ Shape /\ loc[q].pc \in Busy
        /\ UNCHANGED <<default, kind, asked, spiderArgs, child>>
    BY DEF Proc, Fail, FailRead, FailWrite, At, Busy, Closing, ParamInv
  <1>2. AllNarrower
    BY CloseNarrow DEF Fail, CloseStep
  <1>3. /\ params' = [j \in Job |-> params'[j]]
        /\ \A j \in Job : asked[j] # Nil => params'[j] = asked[j]
    <2>1. \A j \in Job : asked[j] # Nil => params[j] = asked[j]
      BY DEF ParamInv, RowOK
    <2>2. asked[loc[q].job] # Nil => Known(q) = asked[loc[q].job]
      BY <1>1, WorksOnTask DEF Passes, Known
    <2> QED
      BY <1>1, <2>1, <2>2 DEF Fail, Flush, Shape
  <1>4. spiderArgs' = [p \in Runners |-> spiderArgs'[p]]
    BY <1>1 DEF Shape
  <1>5. CASE LoadColumn(q)
    <2>1. PICK h : h = Loaded(q, params[loc[q].job])
      OBVIOUS
    <2>2. Hold(h)
      BY <1>5, <2>1 DEF LoadColumn, Loaded
    <2>3. IsHeld(held)
      BY <1>1 DEF Shape
    <2>4. IsHeld(h) /\ \A p \in Proc : /\ h[p].wants = held[p].wants
                                       /\ h[p].arg = held[p].arg
                                       /\ h[p].load = held[p].load
      BY <1>1, <2>1, <2>3, LoadKeepsForm
    <2> QED
      BY <1>1, <1>2, <1>3, <1>4, <2>2, <2>4, StepKeeps
  <1>6. CASE Hold(held)
    BY <1>1, <1>2, <1>3, <1>4, <1>6, StepKeeps DEF Shape
  <1> QED
    BY <1>5, <1>6 DEF Fail

\* Nothing is promised of a job of the script.
LEMMA ScriptKeeps ==
  ASSUME TypeInv, ParamInv, [Next]_vars, NEW q \in Clis, NEW s \in Source, NEW j \in Job,
         NEW a, Script(q, s, j, a)
  PROVE  ParamInv'
  <1>1. q \in Proc /\ jobs[j].status = "absent" /\ Shape
    BY DEF Proc, Runners, Script, CliCreate, IsNextId, ParamInv
  <1>2. /\ asked' = [asked EXCEPT ![j] = Nil]
        /\ params' = [params EXCEPT ![j] = Nil]
        /\ kind' = [kind EXCEPT ![j] = a.type]
        /\ UNCHANGED <<default, child, spiderArgs>>
    BY DEF Script, CliCreate
  <1>3. AskedStays
    BY <1>1, <1>2 DEF AskedStays, Shape
  <1> DEFINE h == Holds(q, Nil, a)
  <1>4. Hold(h) /\ IsHeld(h) /\ \A p \in Proc \ {q} : h[p] = held[p]
    BY <1>1, HoldsForm DEF Script, Shape
  <1> HIDE DEF h
  <1>5. Shape'
    BY <1>1, <1>2, <1>4, HoldKeepsForm DEF Shape
  <1>6. \A k \in Job : RowOK(k)'
    BY <1>1, <1>2 DEF ParamInv, RowOK, Shape
  <1>7. /\ loc'[q] = [Idle EXCEPT !.pc = "cliStart", !.job = j]
        /\ \A p \in Proc \ {q} : loc'[p] = loc[p]
    BY <1>1 DEF Script, CliCreate, Become, TypeInv, TypeOK
  <1>8. ASSUME NEW p \in Proc, p # q PROVE PlanOK(p)' /\ TaskOK(p)'
    BY <1>3, <1>4, <1>7, <1>8, OthersKeep
  <1>9. loc'[q].pc = "cliStart" /\ Tasks(loc'[q]) = {j}
    <2>1. loc'[q].pc = "cliStart" /\ loc'[q].job = j /\ loc'[q].todo = {}
      BY <1>7 DEF Idle
    <2> QED
      BY <2>1 DEF Tasks, Busy, Starting, Executing, Closing
  <1>10. PlanOK(q)'
    BY <1>9 DEF PlanOK, Creating
  <1>11. TaskOK(q)'
    <2>1. jobs'[j].status # "absent" /\ asked'[j] = Nil
      BY <1>1, <1>2 DEF Script, CliCreate, NewRow, TypeInv, TypeOK, Shape
    <2> QED
      BY <1>9, <2>1 DEF TaskOK
  <1>12. \A p \in Runners : SpiderOK(p)'
    BY <1>2, <1>3, SpidersKeep
  <1> QED
    BY <1>5, <1>6, <1>8, <1>10, <1>11, <1>12 DEF ParamInv

\* The steps that neither read nor write parameters.
LEMMA OtherKeeps ==
  ASSUME TypeInv, ParamInv, [Next]_vars, Other
  PROVE  ParamInv'
  <1>1. AllNarrower
    <2>1. ASSUME NEW p \in Creators, CheckActive(p) \/ InsertConflict(p) PROVE AllNarrower
      BY <2>1, CreateNarrow
    <2>2. ASSUME NEW d \in Dispatchers, Claim(d) \/ LaunchFails(d) \/ HandoffFails(d)
          PROVE  AllNarrower
      BY <2>2, DispatchNarrow
    <2>3. ASSUME NEW p \in Runners, RunStep(p) \/ CliStart(p) PROVE AllNarrower
      BY <2>3, RunNarrow
    <2>4. ASSUME NEW p \in Pages, ReconcileRead(p) PROVE AllNarrower
      <3>1. p \in Proc
        BY DEF Proc
      <3>2. Become(p, [Idle EXCEPT !.pc = "reconcile", !.stale = ExpiredJobs])
        BY <2>4 DEF ReconcileRead
      <3>3. Narrower([Idle EXCEPT !.pc = "reconcile", !.stale = ExpiredJobs], loc[p])
        BY DEF Narrower, Tasks, Idle, Busy, Creating, Flushing, Starting, Executing, Closing
      <3> QED
        BY <3>1, <3>2, <3>3, NarrowBecome
    <2>5. ASSUME NEW p \in Pages, ReconcileWrite(p) PROVE AllNarrower
      BY <2>5, NarrowLeave DEF ReconcileWrite, Proc
    <2>6. ASSUME NEW j \in Job, LeaseExpires(j) PROVE AllNarrower
      BY <2>6, NarrowSame DEF LeaseExpires
    <2>7. ASSUME NEW p \in Proc, Crash(p) PROVE AllNarrower
      BY <2>7, NarrowLeave DEF Crash
    <2>8. Clis \subseteq Runners
      BY DEF Runners
    <2> QED
      BY <2>1, <2>2, <2>3, <2>4, <2>5, <2>6, <2>7, <2>8 DEF Other, ReconcileStep, RunStep
  <1>2. UNCHANGED child
    BY ZenonT(60) DEF Other, CheckActive, InsertConflict, Claim, LaunchFails, HandoffFails, BootFails,
       SpawnFails, HeartbeatRead, HeartbeatWrite, Conclude, ConcludeFails, CliStart,
       ReconcileStep, ReconcileRead, ReconcileWrite, LeaseExpires, Crash
  <1>3. /\ Shape /\ Hold(held) /\ IsHeld(held)
        /\ UNCHANGED <<default, kind, params, spiderArgs, asked>>
    BY DEF Other, ParamInv, Shape
  <1>4. /\ params' = [j \in Job |-> params'[j]]
        /\ spiderArgs' = [p \in Runners |-> spiderArgs'[p]]
        /\ \A j \in Job : asked[j] # Nil => params'[j] = asked[j]
    BY <1>3 DEF Shape, ParamInv, RowOK
  <1> QED
    BY <1>1, <1>2, <1>3, <1>4, StepKeeps

\* The default, or nothing, changes.
LEMMA EditKeeps ==
  ASSUME ParamInv,
         (\E s \in Source, n \in PageLimit : EditDefault(s, n)) \/ UNCHANGED allVars
  PROVE  ParamInv'
  <1>1. UNCHANGED <<vars, kind, params, held, spiderArgs, asked>>
    BY DEF EditDefault, allVars, paramVars
  <1>2. default' \in [Source -> PageLimit]
    BY DEF EditDefault, allVars, paramVars, ParamInv, Shape
  <1>3. Shape'
    BY <1>1, <1>2 DEF ParamInv, Shape, IsHeld
  <1>4. (\A j \in Job : RowOK(j)') /\ \A p \in Runners : SpiderOK(p)'
    BY <1>1 DEF ParamInv, RowOK, SpiderOK, vars
  <1>5. ASSUME NEW p \in Proc PROVE PlanOK(p)' /\ TaskOK(p)'
    BY <1>1 DEF ParamInv, PlanOK, TaskOK, Passes, vars
  <1> QED
    BY <1>3, <1>4, <1>5 DEF ParamInv

----------------------------------------------------------------------------

LEMMA ParamSteps ==
  ASSUME TypeInv, ParamInv, [ParamNext]_allVars
  PROVE  ParamInv'
  <1>1. [Next]_vars
    BY StepsBelow
  <1>2. CASE ParamNext
    BY <1>1, <1>2, AskKeeps, AskRetryKeeps, AskLatestKeeps, InsertKeeps, SweepKeeps,
       LaunchKeeps, StartKeeps, SpawnKeeps, ExitKeeps, FinishKeeps, FailKeeps, ScriptKeeps,
       OtherKeeps, EditKeeps DEF ParamNext
  <1>3. CASE UNCHANGED allVars
    BY <1>3, EditKeeps
  <1> QED
    BY <1>2, <1>3

\* Whoever hands a job over, sweeps it up, starts it or closes it, and whatever
\* crashes, the row and the spider have what the job was asked for, and a retry
\* what its original was asked for (job_params_json and the argv of the worker).
THEOREM CrawlsRunAsAsked == ParamSpec => []RunsAsAsked
  <1>1. ParamInit => TypeInv /\ ParamInv
    BY InitTypes, ParamInitially DEF ParamInit
  <1>2. TypeInv /\ ParamInv /\ [ParamNext]_allVars => TypeInv' /\ ParamInv'
    BY StepsBelow, StepTypes, ParamSteps
  <1>3. TypeInv /\ ParamInv => RunsAsAsked
    <2> SUFFICES ASSUME TypeInv, ParamInv PROVE RunsAsAsked
      OBVIOUS
    <2>1. \A j \in Job : asked[j] # Nil => params[j] = asked[j]
      BY DEF ParamInv, RowOK
    <2>2. ASSUME NEW p \in Runners, child[p] # Nil, asked[child[p]] # Nil
          PROVE  spiderArgs[p] = asked[child[p]]
      BY <2>2 DEF ParamInv, SpiderOK
    <2> QED
      BY <2>1, <2>2 DEF RunsAsAsked
  <1> QED
    BY <1>1, <1>2, <1>3, PTL DEF ParamSpec
===============================================================================
