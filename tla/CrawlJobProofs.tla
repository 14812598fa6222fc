---------------------------- MODULE CrawlJobProofs ----------------------------
(***************************************************************************)
(* Safety of CrawlJobSystem for every number of jobs, sources and          *)
(* processes, every retry budget and every number of faults.               *)
(*                                                                         *)
(* Everything rests on one lemma about a step (TableSteps): it either      *)
(* inserts one row where the indexes let it, or moves every status forward *)
(* and leaves every source and retryOf as it is.                           *)
(***************************************************************************)
EXTENDS CrawlJobSystem, TLAPS

----------------------------------------------------------------------------
(* Type correctness.  TypeOK is not inductive: a step at the row of the    *)
(* job a process works on is typed only if there is such a job, and one    *)
(* more failed Popen is within MaxAttempts only if earlier ones left room. *)

\* Control points at which a process works on a job.
Busy == {"launch"} \cup Starting \cup Executing \cup Closing

LocalOK(l) ==
    /\ l.pc \in Busy => l.job \in Job
    /\ l.pc = "dispatch" => l.tries = 0
    /\ l.pc = "launch" => l.tries < MaxAttempts

TypeInv ==
    /\ TypeOK
    /\ \A p \in Proc : LocalOK(loc[p])

----------------------------------------------------------------------------
(* Rows *)

\* Every row a statement writes is a row.
LEMMA RowTypes ==
  ASSUME NEW row \in Row, NEW seen \in Row, NEW s \in Source \cup {Nil},
         NEW r \in Job \cup {Nil}, NEW t \in FinalStatus
  PROVE  /\ NoRow \in Row
         /\ NewRow(s, r) \in Row
         /\ Claimed(row) \in Row
         /\ Started(row) \in Row
         /\ Beaten(row, seen) \in Row
         /\ Finished(row, seen, t) \in Row
         /\ Reconciled(row) \in Row
         /\ [row EXCEPT !.lease = "expired"] \in Row
  <1> USE DEF Row, Status, ActiveStatus, FinalStatus, Lease
  <1>1. NoRow \in Row
    BY DEF NoRow
  <1>2. NewRow(s, r) \in Row
    BY DEF NewRow
  <1>3. Claimed(row) \in Row
    BY DEF Claimed
  <1>4. Started(row) \in Row
    BY DEF Started
  <1>5. Beaten(row, seen) \in Row
    BY DEF Beaten
  <1>6. Finished(row, seen, t) \in Row
    <2> DEFINE status == IF seen.status # t THEN t ELSE row.status
               picked == IF seen.status = "running" /\ ~seen.picked THEN TRUE ELSE row.picked
               lease  == IF seen.lease # "none" THEN "none" ELSE row.lease
    <2>1. status \in Status /\ picked \in BOOLEAN /\ lease \in Lease
      OBVIOUS
    <2>2. Finished(row, seen, t)
            = [row EXCEPT !.status = status, !.picked = picked, !.lease = lease]
      BY DEF Finished
    <2> HIDE DEF status, picked, lease
    <2> QED
      BY <2>1, <2>2, ZenonT(40)
  <1>7. Reconciled(row) \in Row
    BY DEF Reconciled
  <1>8. [row EXCEPT !.lease = "expired"] \in Row
    OBVIOUS
  <1> QED
    BY <1>1, <1>2, <1>3, <1>4, <1>5, <1>6, <1>7, <1>8

\* The row of a job, and what the statements that need nothing else make of it.
LEMMA JobRowTypes ==
  ASSUME TypeInv, NEW j \in Job
  PROVE  /\ jobs[j] \in Row
         /\ Claimed(jobs[j]) \in Row
         /\ Started(jobs[j]) \in Row
         /\ Reconciled(jobs[j]) \in Row
         /\ [jobs[j] EXCEPT !.lease = "expired"] \in Row
  <1>1. jobs[j] \in Row
    BY DEF TypeInv, TypeOK
  <1>2. "failed" \in FinalStatus
    BY DEF FinalStatus
  <1> QED
    BY <1>1, <1>2, RowTypes

\* Flushing reconciled rows keeps the table typed.
LEMMA FlushedTypes ==
  ASSUME TypeInv, NEW p \in Proc
  PROVE  Flushed(p) \in [Job -> Row]
  <1>1. \A j \in Job : jobs[j] \in Row /\ Reconciled(jobs[j]) \in Row
    BY JobRowTypes
  <1> QED
    BY <1>1 DEF Flushed

\* Writing one row keeps the table typed.
LEMMA TableTypes ==
  ASSUME TypeInv, NEW j \in Job, NEW row \in Row
  PROVE  [jobs EXCEPT ![j] = row] \in [Job -> Row]
  BY DEF TypeInv, TypeOK

----------------------------------------------------------------------------
(* Local variables *)

LEMMA IdleTypes == Idle \in Local /\ LocalOK(Idle)
  BY BoundAssumption DEF Idle, Local, LocalOK, Control, Creating, Dispatching, Starting,
     Executing, Closing, Busy, FinalStatus, NoRow, Row, Status, ActiveStatus, Lease

\* The variables of one process.
LEMMA LocalFields ==
  ASSUME TypeInv, NEW p \in Proc
  PROVE  /\ loc[p] \in Local
         /\ LocalOK(loc[p])
         /\ loc[p].pc \in Control
         /\ loc[p].job \in Job \cup {Nil}
         /\ loc[p].seen \in Row
         /\ loc[p].todo \in SUBSET Job
         /\ loc[p].stale \in SUBSET Job
         /\ loc[p].tries \in 0..MaxAttempts
         /\ loc[p].target \in FinalStatus
         /\ loc[p].source \in Source \cup {Nil}
         /\ loc[p].retryOf \in Job \cup {Nil}
  <1>1. loc[p] \in Local /\ LocalOK(loc[p])
    BY DEF TypeInv, TypeOK
  <1> QED
    BY <1>1 DEF Local

\* Changing the control point, where the job and the counter allow it.
LEMMA GotoTypes ==
  ASSUME NEW l \in Local, LocalOK(l), NEW c \in Control,
         c \in Busy => l.job \in Job, c \notin Dispatching
  PROVE  [l EXCEPT !.pc = c] \in Local /\ LocalOK([l EXCEPT !.pc = c])
  BY DEF Local, LocalOK, Dispatching

LEMMA TurnToTypes ==
  ASSUME NEW rest \in SUBSET Job
  PROVE  TurnTo(rest) \in Local /\ LocalOK(TurnTo(rest))
  <1>1. [Idle EXCEPT !.pc = "dispatch", !.todo = rest] \in Local
    BY IdleTypes DEF Local, Control, Dispatching
  <1>2. LocalOK([Idle EXCEPT !.pc = "dispatch", !.todo = rest])
    BY DEF Idle, LocalOK, Busy, Starting, Executing, Closing
  <1> QED
    BY <1>1, <1>2, IdleTypes DEF TurnTo

\* A step that gives one process new variables.
LEMMA BecomeTypes ==
  ASSUME TypeInv, NEW p \in Proc, NEW l \in Local, LocalOK(l), Become(p, l)
  PROVE  loc' \in [Proc -> Local] /\ \A q \in Proc : LocalOK(loc'[q])
  BY DEF TypeInv, TypeOK, Become

LEMMA LeaveTypes ==
  ASSUME TypeInv, NEW p \in Proc, Leave(p)
  PROVE  loc' \in [Proc -> Local] /\ \A q \in Proc : LocalOK(loc'[q])
  BY IdleTypes, BecomeTypes DEF Leave

LEMMA GotoStepTypes ==
  ASSUME TypeInv, NEW p \in Proc, NEW c \in Control, c \notin Dispatching,
         c \in Busy => loc[p].job \in Job, Goto(p, c)
  PROVE  loc' \in [Proc -> Local] /\ \A q \in Proc : LocalOK(loc'[q])
  <1>1. loc[p] \in Local /\ LocalOK(loc[p])
    BY LocalFields
  <1>2. [loc[p] EXCEPT !.pc = c] \in Local /\ LocalOK([loc[p] EXCEPT !.pc = c])
    BY <1>1, GotoTypes
  <1> QED
    BY <1>2, BecomeTypes DEF Goto

LEMMA RaisesTypes ==
  ASSUME TypeInv, NEW p \in Proc, loc[p].job \in Job, Raises(p)
  PROVE  loc' \in [Proc -> Local] /\ \A q \in Proc : LocalOK(loc'[q])
  <1>1. "failRead" \in Control /\ "failRead" \notin Dispatching
    BY DEF Control, Closing, Dispatching
  <1> QED
    BY <1>1, GotoStepTypes, LeaveTypes DEF Raises

----------------------------------------------------------------------------
(* Actions *)

LEMMA InitTypes == Init => TypeInv
  <1> SUFFICES ASSUME Init PROVE TypeInv
    OBVIOUS
  <1>1. NoRow \in Row
    BY DEF NoRow, Row, Status, ActiveStatus, Lease
  <1>2. TypeOK
    BY <1>1, IdleTypes, BoundAssumption DEF Init, TypeOK
  <1> QED
    BY <1>2, IdleTypes DEF Init, TypeInv

LEMMA RequestTypes ==
  ASSUME TypeInv, NEW p \in Creators, NEW s \in Source, Request(p, s)
  PROVE  TypeInv'
  <1> DEFINE l == [Idle EXCEPT !.pc = "check", !.source = s, !.stale = ExpiredJobs]
  <1>1. p \in Proc
    BY DEF Creators, Proc, Dispatchers, Runners
  <1>2. l \in Local /\ LocalOK(l)
    BY IdleTypes DEF ExpiredJobs, Idle, Local, LocalOK, Control, Creating, Busy, Starting,
       Executing, Closing
  <1>3. Become(p, l) /\ UNCHANGED <<jobs, child, faults>>
    BY DEF Request
  <1> QED
    BY <1>1, <1>2, <1>3, BecomeTypes DEF TypeInv, TypeOK

LEMMA RequestRetryTypes ==
  ASSUME TypeInv, NEW p \in Clients, NEW r \in Job, RequestRetry(p, r)
  PROVE  TypeInv'
  <1> DEFINE l == [Idle EXCEPT !.pc = "check", !.source = jobs[r].source,
                               !.retryOf = r, !.stale = ExpiredJobs]
  <1>1. p \in Proc /\ jobs[r].source \in Source \cup {Nil}
    BY DEF Proc, Dispatchers, TypeInv, TypeOK, Row
  <1>2. l \in Local /\ LocalOK(l)
    BY <1>1, IdleTypes DEF ExpiredJobs, Idle, Local, LocalOK, Control, Creating, Busy,
       Starting, Executing, Closing
  <1>3. Become(p, l) /\ UNCHANGED <<jobs, child, faults>>
    BY DEF RequestRetry
  <1> QED
    BY <1>1, <1>2, <1>3, BecomeTypes DEF TypeInv, TypeOK

LEMMA CheckTypes ==
  ASSUME TypeInv, NEW p \in Creators, CheckActive(p) \/ InsertConflict(p)
  PROVE  TypeInv'
  <1>1. p \in Proc
    BY DEF Creators, Proc, Dispatchers, Runners
  <1>2. "insert" \in Control /\ "insert" \notin Dispatching /\ "insert" \notin Busy
    BY DEF Control, Creating, Dispatching, Busy, Starting, Executing, Closing
  <1>3. (Goto(p, "insert") \/ Leave(p)) /\ UNCHANGED <<jobs, child, faults>>
    BY DEF CheckActive, InsertConflict
  <1> QED
    BY <1>1, <1>2, <1>3, GotoStepTypes, LeaveTypes DEF TypeInv, TypeOK

LEMMA InsertTypes ==
  ASSUME TypeInv, NEW p \in Creators, NEW j \in Job, InsertJob(p, j)
  PROVE  TypeInv'
  <1> DEFINE l == IF p \in Clients THEN TurnTo({j})
                                   ELSE [Idle EXCEPT !.pc = "boot", !.job = j]
  <1>1. p \in Proc
    BY DEF Creators, Proc, Dispatchers, Runners
  <1>2. NewRow(loc[p].source, loc[p].retryOf) \in Row
    BY <1>1, LocalFields DEF NewRow, Row, Status, ActiveStatus, Lease
  <1>3. jobs' \in [Job -> Row]
    BY <1>1, <1>2, FlushedTypes DEF InsertJob
  <1>4. [Idle EXCEPT !.pc = "boot", !.job = j] \in Local
    BY IdleTypes DEF Local, Control, Starting
  <1>5. LocalOK([Idle EXCEPT !.pc = "boot", !.job = j])
    BY DEF Idle, LocalOK
  <1>6. l \in Local /\ LocalOK(l)
    BY <1>4, <1>5, TurnToTypes
  <1>7. Become(p, l) /\ UNCHANGED <<child, faults>>
    BY DEF InsertJob
  <1> QED
    BY <1>1, <1>3, <1>6, <1>7, BecomeTypes DEF TypeInv, TypeOK

LEMMA SweepTypes ==
  ASSUME TypeInv, NEW d \in Dispatchers, Sweep(d)
  PROVE  TypeInv'
  <1>1. d \in Proc /\ Candidates \in SUBSET Job
    BY DEF Proc, Candidates
  <1>2. Become(d, TurnTo(Candidates)) /\ UNCHANGED <<jobs, child, faults>>
    BY DEF Sweep
  <1> QED
    BY <1>1, <1>2, TurnToTypes, BecomeTypes DEF TypeInv, TypeOK

LEMMA ClaimTypes ==
  ASSUME TypeInv, NEW d \in Dispatchers, Claim(d)
  PROVE  TypeInv'
  <1>1. d \in Proc
    BY DEF Proc
  <1>2. PICK j \in loc[d].todo :
          IF Claimable(jobs[j])
          THEN /\ jobs' = [jobs EXCEPT ![j] = Claimed(@)]
               /\ Become(d, [loc[d] EXCEPT !.pc = "launch", !.job = j, !.todo = @ \ {j}])
          ELSE /\ Become(d, TurnTo(loc[d].todo \ {j}))
               /\ UNCHANGED jobs
    BY DEF Claim
  <1>3. j \in Job /\ loc[d].pc = "dispatch" /\ UNCHANGED <<child, faults>>
    BY <1>1, LocalFields DEF Claim, At
  <1>4. CASE Claimable(jobs[j])
    <2> DEFINE l == [loc[d] EXCEPT !.pc = "launch", !.job = j, !.todo = @ \ {j}]
    <2>1. loc[d] \in Local /\ LocalOK(loc[d])
      BY <1>1, LocalFields
    <2>2. l \in Local
      BY <1>3, <2>1 DEF Local, Control, Dispatching
    <2>3. LocalOK(l)
      BY <1>3, <2>1, BoundAssumption DEF LocalOK, Local
    <2>4. jobs[j] \in Row /\ Claimed(jobs[j]) \in Row
      BY <1>3, JobRowTypes
    <2>5. jobs' \in [Job -> Row]
      BY <1>2, <1>3, <1>4, <2>4, TableTypes
    <2> QED
      BY <1>1, <1>2, <1>3, <1>4, <2>2, <2>3, <2>5, BecomeTypes DEF TypeInv, TypeOK
  <1>5. CASE ~Claimable(jobs[j])
    <2>1. loc[d].todo \ {j} \in SUBSET Job
      BY <1>1, LocalFields
    <2> QED
      BY <1>1, <1>2, <1>3, <1>5, <2>1, TurnToTypes, BecomeTypes DEF TypeInv, TypeOK
  <1> QED
    BY <1>4, <1>5

LEMMA LaunchTypes ==
  ASSUME TypeInv, NEW d \in Dispatchers, NEW w \in Workers, LaunchWorker(d, w)
  PROVE  TypeInv'
  <1> DEFINE l == [Idle EXCEPT !.pc = "boot", !.job = loc[d].job]
  <1>1. d \in Proc /\ w \in Proc
    BY DEF Proc, Runners
  <1>2. loc[d].job \in Job /\ loc[d].todo \in SUBSET Job
    BY <1>1, LocalFields DEF LaunchWorker, At, LocalOK, Busy
  <1>3. l \in Local
    BY <1>2, IdleTypes DEF Local, Control, Starting
  <1>4. LocalOK(l)
    BY <1>2 DEF Idle, LocalOK
  <1>5. TurnTo(loc[d].todo) \in Local /\ LocalOK(TurnTo(loc[d].todo))
    BY <1>2, TurnToTypes
  <1> QED
    BY <1>1, <1>3, <1>4, <1>5 DEF LaunchWorker, TypeInv, TypeOK

LEMMA LaunchFailsTypes ==
  ASSUME TypeInv, NEW d \in Dispatchers, LaunchFails(d)
  PROVE  TypeInv'
  <1> DEFINE l == [loc[d] EXCEPT !.tries = @ + 1,
                       !.pc = IF loc[d].tries + 1 < MaxAttempts THEN "launch" ELSE "failRead"]
  <1>1. d \in Proc
    BY DEF Proc
  <1>2. /\ loc[d] \in Local /\ loc[d].job \in Job
        /\ loc[d].tries \in 0..MaxAttempts /\ loc[d].tries < MaxAttempts
    BY <1>1, LocalFields DEF LaunchFails, At, LocalOK, Busy
  <1> DEFINE n == loc[d].tries + 1
             c == IF n < MaxAttempts THEN "launch" ELSE "failRead"
  <1>3. l \in Local
    <2>1. n \in 0..MaxAttempts
      BY <1>2, BoundAssumption
    <2>2. c \in Control
      BY DEF Control, Dispatching, Closing
    <2> HIDE DEF n, c
    <2>3. [loc[d] EXCEPT !.tries = n, !.pc = c] \in Local
      BY <1>2, <2>1, <2>2 DEF Local
    <2> QED
      BY <2>3 DEF n, c
  <1>4. LocalOK(l)
    BY <1>2, BoundAssumption DEF LocalOK, Local
  <1> QED
    BY <1>1, <1>3, <1>4, BecomeTypes DEF LaunchFails, TypeInv, TypeOK

LEMMA HandoffTypes ==
  ASSUME TypeInv, NEW d \in Dispatchers, HandoffFails(d)
  PROVE  TypeInv'
  <1>1. d \in Proc
    BY DEF Proc
  <1>2. loc[d].todo \in SUBSET Job
    BY <1>1, LocalFields
  <1>3. faults' \in 0..MaxFaults
    BY BoundAssumption DEF HandoffFails, TypeInv, TypeOK
  <1> QED
    BY <1>1, <1>2, <1>3, TurnToTypes, BecomeTypes DEF HandoffFails, TypeInv, TypeOK

\* A step of a runner that changes its control point only.
LEMMA StartTypes ==
  ASSUME TypeInv, NEW p \in Runners, StartJob(p) \/ BootFails(p)
  PROVE  TypeInv'
  <1>1. p \in Proc /\ loc[p].job \in Job
    BY LocalFields DEF Proc, StartJob, BootFails, At, LocalOK, Busy, Starting
  <1>2. Started(jobs[loc[p].job]) \in Row
    BY <1>1, JobRowTypes
  <1>3. jobs' \in [Job -> Row]
    BY <1>1, <1>2, TableTypes DEF StartJob, BootFails, TypeInv, TypeOK
  <1>4. "run" \in Control /\ "run" \notin Dispatching
    BY DEF Control, Executing, Dispatching
  <1>5. loc' \in [Proc -> Local] /\ \A q \in Proc : LocalOK(loc'[q])
    BY <1>1, <1>4, GotoStepTypes, LeaveTypes, RaisesTypes DEF StartJob, BootFails
  <1> QED
    BY <1>3, <1>5 DEF StartJob, BootFails, TypeInv, TypeOK

LEMMA SpawnTypes ==
  ASSUME TypeInv, NEW p \in Runners, SpawnSpider(p) \/ SpawnFails(p) \/ SpiderExits(p)
  PROVE  TypeInv'
  <1>1. p \in Proc /\ loc[p] \in Local /\ loc[p].job \in Job \cup {Nil}
    BY LocalFields DEF Proc
  <1>2. CASE SpawnSpider(p)
    <2>1. loc[p].job \in Job
      BY <1>1, <1>2, LocalFields DEF SpawnSpider, At, LocalOK, Busy, Executing
    <2>2. "wait" \in Control /\ "wait" \notin Dispatching
      BY DEF Control, Executing, Dispatching
    <2>3. child' \in [Runners -> Job \cup {Nil}]
      BY <1>1, <1>2 DEF SpawnSpider, TypeInv, TypeOK
    <2> QED
      BY <1>1, <1>2, <2>1, <2>2, <2>3, GotoStepTypes DEF SpawnSpider, TypeInv, TypeOK
  <1>3. CASE SpawnFails(p)
    <2> DEFINE l == [loc[p] EXCEPT !.pc = "finishRead", !.target = "failed"]
    <2>1. loc[p].job \in Job
      BY <1>1, <1>3, LocalFields DEF SpawnFails, At, LocalOK, Busy, Executing
    <2>2. l \in Local /\ LocalOK(l)
      BY <1>1, <2>1 DEF Local, LocalOK, Control, Closing, FinalStatus
    <2> QED
      BY <1>1, <1>3, <2>2, BecomeTypes DEF SpawnFails, TypeInv, TypeOK
  <1>4. CASE SpiderExits(p)
    BY <1>4 DEF SpiderExits, TypeInv, TypeOK
  <1> QED
    BY <1>2, <1>3, <1>4

LEMMA HeartbeatTypes ==
  ASSUME TypeInv, NEW p \in Runners, HeartbeatRead(p) \/ HeartbeatWrite(p)
  PROVE  TypeInv'
  <1>1. /\ p \in Proc /\ loc[p] \in Local /\ loc[p].job \in Job /\ loc[p].seen \in Row
        /\ jobs[loc[p].job] \in Row
    BY LocalFields DEF Proc, HeartbeatRead, HeartbeatWrite, At, LocalOK, Busy, Executing,
       TypeInv, TypeOK
  <1>2. CASE HeartbeatRead(p)
    <2> DEFINE l == [loc[p] EXCEPT !.pc = "beat", !.seen = jobs[loc[p].job]]
    <2>1. l \in Local /\ LocalOK(l)
      BY <1>1 DEF Local, LocalOK, Control, Executing
    <2> QED
      BY <1>1, <1>2, <2>1, BecomeTypes DEF HeartbeatRead, TypeInv, TypeOK
  <1>3. CASE HeartbeatWrite(p)
    <2> DEFINE l == [loc[p] EXCEPT !.pc = "wait", !.seen = NoRow]
    <2>1. NoRow \in Row
      BY DEF NoRow, Row, Status, ActiveStatus, Lease
    <2>2. l \in Local /\ LocalOK(l)
      BY <1>1, <2>1 DEF Local, LocalOK, Control, Executing
    <2>3. Beaten(jobs[loc[p].job], loc[p].seen) \in Row
      BY <1>1 DEF Beaten, Row, Lease
    <2>4. jobs' \in [Job -> Row]
      BY <1>1, <1>3, <2>3, TableTypes DEF HeartbeatWrite
    <2> QED
      BY <1>1, <1>3, <2>2, <2>4, BecomeTypes DEF HeartbeatWrite, TypeInv, TypeOK
  <1> QED
    BY <1>2, <1>3

LEMMA ConcludeTypes ==
  ASSUME TypeInv, NEW p \in Runners, NEW t \in FinalStatus, Conclude(p, t) \/ ConcludeFails(p)
  PROVE  TypeInv'
  <1>1. p \in Proc /\ loc[p] \in Local /\ loc[p].job \in Job
    BY LocalFields DEF Proc, Conclude, ConcludeFails, At, LocalOK, Busy, Executing
  <1>2. CASE Conclude(p, t)
    <2> DEFINE l == [loc[p] EXCEPT !.pc = "finishRead", !.target = t]
    <2>1. l \in Local /\ LocalOK(l)
      BY <1>1 DEF Local, LocalOK, Control, Closing
    <2> QED
      BY <1>1, <1>2, <2>1, BecomeTypes DEF Conclude, TypeInv, TypeOK
  <1>3. CASE ConcludeFails(p)
    BY <1>1, <1>3, RaisesTypes DEF ConcludeFails, TypeInv, TypeOK
  <1> QED
    BY <1>2, <1>3

\* A closing step writes a row the process loaded, over the row of its job.
LEMMA FinishTypes ==
  ASSUME TypeInv, NEW p \in Dispatchers \cup Runners, FinishRead(p) \/ FinishWrite(p)
  PROVE  TypeInv'
  <1>1. /\ p \in Proc /\ loc[p] \in Local /\ loc[p].job \in Job /\ loc[p].seen \in Row
        /\ loc[p].target \in FinalStatus /\ jobs[loc[p].job] \in Row
    BY LocalFields DEF Proc, FinishRead, FinishWrite, LocalOK, Busy, Closing, TypeInv, TypeOK
  <1>2. CASE FinishRead(p)
    <2> DEFINE c == IF loc[p].pc = "finishRead" THEN "finishWrite" ELSE "summaryWrite"
               l == [loc[p] EXCEPT !.seen = jobs[loc[p].job], !.pc = c]
    <2>1. c \in Control /\ c \notin Dispatching
      BY DEF Control, Closing, Dispatching
    <2>2. Become(p, l) \/ Raises(p)
      BY <1>2 DEF FinishRead
    <2> HIDE DEF c
    <2>3. l \in Local /\ LocalOK(l)
      BY <1>1, <2>1 DEF Local, LocalOK, Dispatching
    <2>4. loc' \in [Proc -> Local] /\ \A q \in Proc : LocalOK(loc'[q])
      BY <1>1, <2>2, <2>3, BecomeTypes, RaisesTypes
    <2> QED
      BY <1>2, <2>4 DEF FinishRead, TypeInv, TypeOK
  <1>3. CASE FinishWrite(p)
    <2>1. Finished(jobs[loc[p].job], loc[p].seen, loc[p].target) \in Row
      BY <1>1, RowTypes
    <2>2. jobs' \in [Job -> Row]
      BY <1>1, <1>3, <2>1, TableTypes DEF FinishWrite
    <2>3. "summaryRead" \in Control /\ "summaryRead" \notin Dispatching
      BY DEF Control, Closing, Dispatching
    <2>4. loc' \in [Proc -> Local] /\ \A q \in Proc : LocalOK(loc'[q])
      BY <1>1, <1>3, <2>3, GotoStepTypes, LeaveTypes DEF FinishWrite
    <2> QED
      BY <1>3, <2>2, <2>4 DEF FinishWrite, TypeInv, TypeOK
  <1> QED
    BY <1>2, <1>3

LEMMA FailTypes ==
  ASSUME TypeInv, NEW p \in Dispatchers \cup Runners, FailRead(p) \/ FailWrite(p)
  PROVE  TypeInv'
  <1>1. /\ p \in Proc /\ loc[p] \in Local /\ loc[p].job \in Job /\ loc[p].seen \in Row
        /\ loc[p].todo \in SUBSET Job /\ jobs[loc[p].job] \in Row
    BY LocalFields DEF Proc, FailRead, FailWrite, At, LocalOK, Busy, Closing, TypeInv, TypeOK
  <1>2. AfterFail(p) => loc' \in [Proc -> Local] /\ \A q \in Proc : LocalOK(loc'[q])
    BY <1>1, TurnToTypes, BecomeTypes, LeaveTypes DEF AfterFail
  <1>3. CASE FailRead(p)
    <2> DEFINE l == [loc[p] EXCEPT !.pc = "failWrite", !.seen = jobs[loc[p].job]]
    <2>1. l \in Local /\ LocalOK(l)
      BY <1>1 DEF Local, LocalOK, Control, Closing
    <2>2. AfterFail(p) \/ Become(p, l)
      BY <1>3 DEF FailRead
    <2>3. loc' \in [Proc -> Local] /\ \A q \in Proc : LocalOK(loc'[q])
      BY <1>1, <1>2, <2>1, <2>2, BecomeTypes
    <2> QED
      BY <1>3, <2>3 DEF FailRead, TypeInv, TypeOK
  <1>4. CASE FailWrite(p)
    <2>1. Finished(jobs[loc[p].job], loc[p].seen, "failed") \in Row
      BY <1>1, RowTypes DEF FinalStatus
    <2>2. jobs' \in [Job -> Row]
      BY <1>1, <1>4, <2>1, TableTypes DEF FailWrite
    <2> QED
      BY <1>2, <1>4, <2>2 DEF FailWrite, TypeInv, TypeOK
  <1> QED
    BY <1>3, <1>4

LEMMA CliCreateTypes ==
  ASSUME TypeInv, NEW p \in Clis, NEW s \in Source, NEW j \in Job, CliCreate(p, s, j)
  PROVE  TypeInv'
  <1> DEFINE l == [Idle EXCEPT !.pc = "cliStart", !.job = j]
  <1>1. p \in Proc
    BY DEF Proc, Runners
  <1>2. l \in Local /\ LocalOK(l)
    BY IdleTypes DEF Idle, Local, LocalOK, Control, Starting
  <1>3. NewRow(s, Nil) \in Row
    BY DEF NewRow, Row, Status, ActiveStatus, Lease
  <1>4. jobs' \in [Job -> Row]
    BY <1>3, TableTypes DEF CliCreate
  <1> QED
    BY <1>1, <1>2, <1>4, BecomeTypes DEF CliCreate, TypeInv, TypeOK

LEMMA CliStartTypes ==
  ASSUME TypeInv, NEW p \in Clis, CliStart(p)
  PROVE  TypeInv'
  <1>1. p \in Proc /\ loc[p].job \in Job
    BY LocalFields DEF Proc, Runners, CliStart, At, LocalOK, Busy, Starting
  <1>2. Started(jobs[loc[p].job]) \in Row
    BY <1>1, JobRowTypes
  <1>3. jobs' \in [Job -> Row]
    <2>1. CASE Startable(jobs[loc[p].job])
      BY <1>1, <1>2, <2>1, TableTypes DEF CliStart
    <2>2. CASE ~Startable(jobs[loc[p].job])
      BY <2>2 DEF CliStart, TypeInv, TypeOK
    <2> QED
      BY <2>1, <2>2
  <1>4. "run" \in Control /\ "run" \notin Dispatching
    BY DEF Control, Executing, Dispatching
  <1> QED
    BY <1>1, <1>3, <1>4, GotoStepTypes DEF CliStart, TypeInv, TypeOK

LEMMA ReconcileTypes ==
  ASSUME TypeInv, NEW p \in Pages, ReconcileStep(p)
  PROVE  TypeInv'
  <1>1. p \in Proc
    BY DEF Proc
  <1>2. CASE ReconcileRead(p)
    <2> DEFINE l == [Idle EXCEPT !.pc = "reconcile", !.stale = ExpiredJobs]
    <2>1. l \in Local /\ LocalOK(l)
      BY IdleTypes DEF ExpiredJobs, Idle, Local, LocalOK, Control, Busy, Starting, Executing,
         Closing
    <2> QED
      BY <1>1, <1>2, <2>1, BecomeTypes DEF ReconcileRead, TypeInv, TypeOK
  <1>3. CASE ReconcileWrite(p)
    BY <1>1, <1>3, FlushedTypes, LeaveTypes DEF ReconcileWrite, TypeInv, TypeOK
  <1> QED
    BY <1>2, <1>3 DEF ReconcileStep

LEMMA ExpiryTypes ==
  ASSUME TypeInv, NEW j \in Job, LeaseExpires(j)
  PROVE  TypeInv'
  <1>1. [jobs[j] EXCEPT !.lease = "expired"] \in Row
    BY JobRowTypes
  <1>2. jobs' = [jobs EXCEPT ![j] = [jobs[j] EXCEPT !.lease = "expired"]]
    BY DEF LeaseExpires
  <1> QED
    BY <1>1, <1>2, TableTypes DEF LeaseExpires, TypeInv, TypeOK

LEMMA CrashTypes ==
  ASSUME TypeInv, NEW p \in Proc, Crash(p)
  PROVE  TypeInv'
  <1>1. faults' \in 0..MaxFaults
    BY BoundAssumption DEF Crash, TypeInv, TypeOK
  <1> QED
    BY <1>1, LeaveTypes DEF Crash, TypeInv, TypeOK

----------------------------------------------------------------------------
(* Types hold *)

LEMMA StepTypes == TypeInv /\ [Next]_vars => TypeInv'
  <1> SUFFICES ASSUME TypeInv, [Next]_vars PROVE TypeInv'
    OBVIOUS
  <1>1. ASSUME NEW p \in Creators, NEW s \in Source, Request(p, s) PROVE TypeInv'
    BY <1>1, RequestTypes
  <1>2. ASSUME NEW p \in Clients, NEW r \in Job, RequestRetry(p, r) PROVE TypeInv'
    BY <1>2, RequestRetryTypes
  <1>3. ASSUME NEW p \in Creators, CreateStep(p) PROVE TypeInv'
    BY <1>3, CheckTypes, InsertTypes DEF CreateStep
  <1>4. ASSUME NEW d \in Dispatchers, DispatchStep(d) \/ HandoffFails(d) PROVE TypeInv'
    BY <1>4, SweepTypes, ClaimTypes, LaunchTypes, LaunchFailsTypes, HandoffTypes
       DEF DispatchStep
  <1>5. ASSUME NEW p \in Runners, RunStep(p) \/ SpiderExits(p) PROVE TypeInv'
    <2>1. CASE \E t \in FinalStatus : Conclude(p, t)
      BY <2>1, ConcludeTypes
    <2>2. CASE ConcludeFails(p)
      BY <2>2, ConcludeTypes DEF FinalStatus
    <2> QED
      BY <1>5, <2>1, <2>2, StartTypes, SpawnTypes, HeartbeatTypes DEF RunStep
  <1>6. ASSUME NEW p \in Dispatchers \cup Runners, CloseStep(p) PROVE TypeInv'
    BY <1>6, FinishTypes, FailTypes DEF CloseStep
  <1>7. ASSUME NEW p \in Clis, NEW s \in Source, NEW j \in Job, CliCreate(p, s, j)
        PROVE  TypeInv'
    BY <1>7, CliCreateTypes
  <1>8. ASSUME NEW p \in Clis, CliStart(p) PROVE TypeInv'
    BY <1>8, CliStartTypes
  <1>9. ASSUME NEW p \in Pages, ReconcileStep(p) PROVE TypeInv'
    BY <1>9, ReconcileTypes
  <1>10. ASSUME NEW j \in Job, LeaseExpires(j) PROVE TypeInv'
    BY <1>10, ExpiryTypes
  <1>11. ASSUME NEW p \in Proc, Crash(p) PROVE TypeInv'
    BY <1>11, CrashTypes
  <1>12. CASE UNCHANGED vars
    BY <1>12 DEF vars, TypeInv, TypeOK
  <1> QED
    BY <1>1, <1>2, <1>3, <1>4, <1>5, <1>6, <1>7, <1>8, <1>9, <1>10, <1>11, <1>12 DEF Next

LEMMA TypeInvariant == Spec => []TypeInv
  BY InitTypes, StepTypes, PTL DEF Spec

\* The variables keep their types.
THEOREM TypeCorrect == Spec => []TypeOK
  <1>1. TypeInv => TypeOK
    BY DEF TypeInv
  <1> QED
    BY <1>1, TypeInvariant, PTL

----------------------------------------------------------------------------
(* What a step does to the table *)

\* What any statement but an INSERT does to a row.
Kept(old, new) ==
    /\ new.source = old.source
    /\ new.retryOf = old.retryOf
    /\ StatusRank(old.status) <= StatusRank(new.status)
    /\ IsActive(new) => IsActive(old)

\* What an INSERT does to the table, with the rows it reconciles on the way.
Inserted(j, s, r) ==
    /\ jobs[j].status = "absent"
    /\ jobs'[j] = NewRow(s, r)
    /\ \A k \in Job \ {j} :
          /\ Kept(jobs[k], jobs'[k])
          /\ ~(jobs'[k].source = s /\ IsActive(jobs'[k]))
    /\ RetrySlotFree(jobs, r)

----------------------------------------------------------------------------
(* Statements *)

LEMMA RanksOf ==
  ASSUME NEW st \in Status
  PROVE  /\ StatusRank(st) \in 0..3
         /\ StatusRank(st) = 0 <=> st = "absent"
         /\ StatusRank(st) = 1 <=> st = "pending"
         /\ StatusRank(st) = 2 <=> st = "running"
         /\ StatusRank(st) = 3 <=> st \in FinalStatus
  BY DEF StatusRank, Status, ActiveStatus, FinalStatus

LEMMA KeptItself ==
  ASSUME NEW row \in Row
  PROVE  Kept(row, row)
  <1>1. row.status \in Status
    BY DEF Row
  <1> QED
    BY <1>1, RanksOf DEF Kept

\* Statements that do not write the status.
LEMMA KeptByQuiet ==
  ASSUME NEW row \in Row, NEW seen \in Row
  PROVE  /\ Kept(row, Claimed(row))
         /\ Kept(row, Beaten(row, seen))
         /\ Kept(row, [row EXCEPT !.lease = "expired"])
  <1>1. row.status \in Status /\ StatusRank(row.status) <= StatusRank(row.status)
    BY RanksOf DEF Row
  <1>2. Kept(row, Claimed(row))
    BY <1>1 DEF Kept, Claimed, Row, IsActive
  <1>3. Kept(row, Beaten(row, seen))
    BY <1>1 DEF Kept, Beaten, Row, IsActive
  <1>4. Kept(row, [row EXCEPT !.lease = "expired"])
    BY <1>1 DEF Kept, Row, IsActive
  <1> QED
    BY <1>2, <1>3, <1>4

LEMMA KeptByStart ==
  ASSUME NEW row \in Row, Startable(row)
  PROVE  Kept(row, Started(row))
  BY DEF Kept, Started, Startable, Row, IsActive, ActiveStatus, StatusRank

\* Closing statements, whatever row the process had loaded.
LEMMA KeptByClose ==
  ASSUME NEW row \in Row, NEW seen \in Row, NEW t \in FinalStatus
  PROVE  Kept(row, Finished(row, seen, t)) /\ Kept(row, Reconciled(row))
  <1>1. row.status \in Status /\ StatusRank(row.status) \in 0..3
    BY RanksOf DEF Row
  <1>2. StatusRank(t) = 3 /\ t \notin ActiveStatus /\ StatusRank("failed") = 3
    BY DEF StatusRank, FinalStatus, ActiveStatus
  <1>3. Finished(row, seen, t).status \in {t, row.status}
    BY DEF Finished, Row
  <1>4. Finished(row, seen, t).source = row.source /\ Finished(row, seen, t).retryOf = row.retryOf
    BY DEF Finished, Row
  <1>5. Kept(row, Finished(row, seen, t))
    BY <1>1, <1>2, <1>3, <1>4 DEF Kept, IsActive
  <1>6. Kept(row, Reconciled(row))
    BY <1>1, <1>2 DEF Kept, Reconciled, Row, IsActive, ActiveStatus
  <1> QED
    BY <1>5, <1>6

LEMMA KeptByFlush ==
  ASSUME TypeInv, NEW p \in Proc, NEW k \in Job
  PROVE  Kept(jobs[k], Flushed(p)[k])
  BY JobRowTypes, KeptItself, KeptByClose DEF Flushed, FinalStatus

\* Writing one row.
LEMMA KeptByUpdate ==
  ASSUME TypeInv, NEW j \in Job, NEW row \in Row, Kept(jobs[j], row),
         jobs' = [jobs EXCEPT ![j] = row]
  PROVE  \A k \in Job : Kept(jobs[k], jobs'[k])
  BY JobRowTypes, KeptItself DEF TypeInv, TypeOK

----------------------------------------------------------------------------
(* Steps *)

KeptAll == \A k \in Job : Kept(jobs[k], jobs'[k])

LEMMA InsertSteps ==
  ASSUME TypeInv, NEW p \in Creators, NEW j \in Job, InsertJob(p, j)
  PROVE  Inserted(j, loc[p].source, loc[p].retryOf)
  <1>1. p \in Proc
    BY DEF Creators, Proc, Dispatchers, Runners
  <1>2. Flushed(p) \in [Job -> Row]
    BY <1>1, FlushedTypes
  <1>3. jobs' = [Flushed(p) EXCEPT ![j] = NewRow(loc[p].source, loc[p].retryOf)]
    BY DEF InsertJob
  <1>4. \A k \in Job \ {j} : jobs'[k] = Flushed(p)[k]
    BY <1>2, <1>3
  <1>5. \A k \in Job : Kept(jobs[k], Flushed(p)[k])
    BY <1>1, KeptByFlush
  <1>6. \A k \in Job : ~(Flushed(p)[k].source = loc[p].source /\ IsActive(Flushed(p)[k]))
    BY DEF InsertJob, ActiveSlotFree
  <1>7. jobs[j].status = "absent" /\ RetrySlotFree(jobs, loc[p].retryOf)
    BY DEF InsertJob, IsNextId
  <1> QED
    BY <1>2, <1>3, <1>4, <1>5, <1>6, <1>7 DEF Inserted

LEMMA CliInsertSteps ==
  ASSUME TypeInv, NEW p \in Clis, NEW s \in Source, NEW j \in Job, CliCreate(p, s, j)
  PROVE  Inserted(j, s, Nil)
  <1>1. jobs' = [jobs EXCEPT ![j] = NewRow(s, Nil)] /\ jobs[j].status = "absent"
    BY DEF CliCreate, IsNextId
  <1>2. \A k \in Job \ {j} : jobs'[k] = jobs[k] /\ jobs[k] \in Row
    BY <1>1, JobRowTypes DEF TypeInv, TypeOK
  <1>3. \A k \in Job : ~(jobs[k].source = s /\ IsActive(jobs[k]))
    BY DEF CliCreate, ActiveSlotFree
  <1>4. jobs'[j] = NewRow(s, Nil) /\ RetrySlotFree(jobs, Nil)
    BY <1>1 DEF TypeInv, TypeOK, RetrySlotFree
  <1> QED
    BY <1>1, <1>2, <1>3, <1>4, KeptItself DEF Inserted

LEMMA ClaimSteps ==
  ASSUME TypeInv, NEW d \in Dispatchers, Claim(d)
  PROVE  KeptAll
  <1>1. d \in Proc
    BY DEF Proc
  <1>2. PICK j \in loc[d].todo : jobs' = [jobs EXCEPT ![j] = Claimed(@)] \/ UNCHANGED jobs
    BY DEF Claim
  <1>3. j \in Job
    BY <1>1, LocalFields
  <1>4. jobs[j] \in Row /\ Claimed(jobs[j]) \in Row /\ Kept(jobs[j], Claimed(jobs[j]))
    BY <1>3, JobRowTypes, KeptByQuiet
  <1> QED
    BY <1>2, <1>3, <1>4, KeptByUpdate, KeptItself, JobRowTypes DEF KeptAll

LEMMA StartSteps ==
  ASSUME TypeInv, NEW p \in Runners, StartJob(p) \/ CliStart(p)
  PROVE  KeptAll
  <1>1. p \in Proc /\ loc[p].job \in Job
    BY LocalFields DEF Proc, StartJob, CliStart, At, LocalOK, Busy, Starting
  <1>2. jobs[loc[p].job] \in Row /\ Started(jobs[loc[p].job]) \in Row
    BY <1>1, JobRowTypes
  <1>3. CASE Startable(jobs[loc[p].job])
    <2>1. jobs' = [jobs EXCEPT ![loc[p].job] = Started(jobs[loc[p].job])]
      BY <1>3 DEF StartJob, CliStart
    <2> QED
      BY <1>1, <1>2, <1>3, <2>1, KeptByStart, KeptByUpdate DEF KeptAll
  <1>4. CASE ~Startable(jobs[loc[p].job])
    <2>1. jobs' = jobs
      BY <1>4 DEF StartJob, CliStart
    <2> QED
      BY <2>1, KeptItself, JobRowTypes DEF KeptAll
  <1> QED
    BY <1>3, <1>4

LEMMA BeatSteps ==
  ASSUME TypeInv, NEW p \in Runners, HeartbeatWrite(p)
  PROVE  KeptAll
  <1> DEFINE j == loc[p].job
  <1>1. j \in Job /\ loc[p].seen \in Row
    BY LocalFields DEF Proc, HeartbeatWrite, At, LocalOK, Busy, Executing
  <1>2. jobs[j] \in Row /\ Beaten(jobs[j], loc[p].seen) \in Row
    BY <1>1, JobRowTypes, RowTypes DEF FinalStatus
  <1>3. Kept(jobs[j], Beaten(jobs[j], loc[p].seen))
    BY <1>1, <1>2, KeptByQuiet
  <1>4. jobs' = [jobs EXCEPT ![j] = Beaten(jobs[j], loc[p].seen)]
    BY DEF HeartbeatWrite
  <1> QED
    BY <1>1, <1>2, <1>3, <1>4, KeptByUpdate DEF KeptAll

LEMMA CloseSteps ==
  ASSUME TypeInv, NEW p \in Dispatchers \cup Runners, CloseStep(p)
  PROVE  KeptAll
  <1> DEFINE j == loc[p].job
  <1>1. CASE UNCHANGED jobs
    BY <1>1, KeptItself, JobRowTypes DEF KeptAll
  <1>2. ASSUME NEW t \in FinalStatus, j \in Job,
               jobs' = [jobs EXCEPT ![j] = Finished(@, loc[p].seen, t)]
        PROVE  KeptAll
    <2>1. loc[p].seen \in Row /\ jobs[j] \in Row
      BY <1>2, LocalFields, JobRowTypes DEF Proc
    <2>2. Finished(jobs[j], loc[p].seen, t) \in Row
      BY <2>1, RowTypes
    <2>3. Kept(jobs[j], Finished(jobs[j], loc[p].seen, t))
      BY <2>1, KeptByClose
    <2> QED
      BY <1>2, <2>2, <2>3, KeptByUpdate DEF KeptAll
  <1>3. p \in Proc /\ loc[p].target \in FinalStatus /\ "failed" \in FinalStatus
    BY LocalFields DEF Proc, FinalStatus
  <1>4. loc[p].pc \in Closing => j \in Job
    BY <1>3, LocalFields DEF LocalOK, Busy
  <1>5. CASE FinishWrite(p)
    BY <1>2, <1>3, <1>4, <1>5 DEF FinishWrite, Closing
  <1>6. CASE FailWrite(p)
    BY <1>2, <1>3, <1>4, <1>6 DEF FailWrite, Closing, At
  <1>7. CASE FinishRead(p) \/ FailRead(p)
    BY <1>1, <1>7 DEF FinishRead, FailRead
  <1> QED
    BY <1>5, <1>6, <1>7 DEF CloseStep

\* A retry is inserted only by a process that was asked for it.
Asked(s, r) == r # Nil => \E p \in Creators : loc[p].source = s /\ loc[p].retryOf = r

\* Every step inserts one row or keeps them all.
LEMMA TableSteps ==
  ASSUME TypeInv, [Next]_vars
  PROVE  \/ KeptAll
         \/ \E j \in Job, s \in Source \cup {Nil}, r \in Job \cup {Nil} :
               Inserted(j, s, r) /\ Asked(s, r)
  <1> DEFINE Goal == \/ KeptAll
                     \/ \E j \in Job, s \in Source \cup {Nil}, r \in Job \cup {Nil} :
                           Inserted(j, s, r) /\ Asked(s, r)
  <1>1. CASE UNCHANGED jobs
    BY <1>1, KeptItself, JobRowTypes DEF KeptAll
  <1>2. ASSUME NEW p \in Creators, CreateStep(p) PROVE Goal
    <2>1. CASE CheckActive(p) \/ InsertConflict(p)
      BY <1>1, <2>1 DEF CheckActive, InsertConflict
    <2>2. ASSUME NEW j \in Job, InsertJob(p, j) PROVE Goal
      <3>1. Inserted(j, loc[p].source, loc[p].retryOf)
        BY <2>2, InsertSteps
      <3>2. loc[p].source \in Source \cup {Nil} /\ loc[p].retryOf \in Job \cup {Nil}
        BY LocalFields DEF Creators, Proc, Dispatchers, Runners
      <3>3. Asked(loc[p].source, loc[p].retryOf)
        BY DEF Asked
      <3> QED
        BY <3>1, <3>2, <3>3
    <2> QED
      BY <1>2, <2>1, <2>2 DEF CreateStep
  <1>3. ASSUME NEW d \in Dispatchers, DispatchStep(d) \/ HandoffFails(d) PROVE Goal
    <2>1. CASE Claim(d)
      BY <2>1, ClaimSteps
    <2>2. CASE ~Claim(d)
      BY <1>1, <1>3, <2>2 DEF DispatchStep, HandoffFails, Sweep, LaunchWorker, LaunchFails
    <2> QED
      BY <2>1, <2>2
  <1>4. ASSUME NEW p \in Runners, RunStep(p) \/ SpiderExits(p) PROVE Goal
    <2>1. CASE StartJob(p)
      BY <2>1, StartSteps
    <2>2. CASE HeartbeatWrite(p)
      BY <2>2, BeatSteps
    <2>3. CASE ~StartJob(p) /\ ~HeartbeatWrite(p)
      BY <1>1, <1>4, <2>3 DEF RunStep, SpiderExits, BootFails, SpawnSpider, SpawnFails,
         HeartbeatRead, Conclude, ConcludeFails
    <2> QED
      BY <2>1, <2>2, <2>3
  <1>5. ASSUME NEW p \in Dispatchers \cup Runners, CloseStep(p) PROVE Goal
    BY <1>5, CloseSteps
  <1>6. ASSUME NEW p \in Clis, NEW s \in Source, NEW j \in Job, CliCreate(p, s, j) PROVE Goal
    BY <1>6, CliInsertSteps DEF Asked
  <1>7. ASSUME NEW p \in Clis, CliStart(p) PROVE Goal
    BY <1>7, StartSteps DEF Runners
  <1>8. ASSUME NEW p \in Pages, ReconcileStep(p) PROVE Goal
    BY <1>1, <1>8, KeptByFlush DEF ReconcileStep, ReconcileRead, ReconcileWrite, KeptAll, Proc
  <1>9. ASSUME NEW j \in Job, LeaseExpires(j) PROVE Goal
    <2>1. jobs[j] \in Row /\ [jobs[j] EXCEPT !.lease = "expired"] \in Row
      BY JobRowTypes
    <2>2. Kept(jobs[j], [jobs[j] EXCEPT !.lease = "expired"])
      BY <2>1, KeptByQuiet
    <2>3. jobs' = [jobs EXCEPT ![j] = [jobs[j] EXCEPT !.lease = "expired"]]
      BY <1>9 DEF LeaseExpires
    <2> QED
      BY <2>1, <2>2, <2>3, KeptByUpdate DEF KeptAll
  <1>10. CASE \/ \E p \in Creators, s \in Source : Request(p, s)
              \/ \E p \in Clients, r \in Job : RequestRetry(p, r)
              \/ \E p \in Proc : Crash(p)
              \/ UNCHANGED vars
    BY <1>1, <1>10 DEF Request, RequestRetry, Crash, vars
  <1> QED
    BY <1>2, <1>3, <1>4, <1>5, <1>6, <1>7, <1>8, <1>9, <1>10 DEF Next

----------------------------------------------------------------------------
(* Theorems about the table *)

LEMMA StepMovesForward ==
  ASSUME TypeInv, [Next]_vars, NEW k \in Job
  PROVE  StatusRank(jobs[k].status) <= StatusRank(jobs'[k].status)
  <1>1. CASE KeptAll
    BY <1>1 DEF KeptAll, Kept
  <1>2. ASSUME NEW j \in Job, NEW s \in Source \cup {Nil}, NEW r \in Job \cup {Nil},
               Inserted(j, s, r)
        PROVE  StatusRank(jobs[k].status) <= StatusRank(jobs'[k].status)
    <2>1. CASE k = j
      BY <1>2, <2>1 DEF Inserted, NewRow, StatusRank
    <2>2. CASE k # j
      BY <1>2, <2>2 DEF Inserted, Kept
    <2> QED
      BY <2>1, <2>2
  <1> QED
    BY <1>1, <1>2, TableSteps

\* A row that is there stays.
LEMMA RowsStay ==
  ASSUME TypeInv, [Next]_vars, NEW j \in Job, jobs[j].status # "absent"
  PROVE  jobs'[j].status # "absent"
  <1>1. jobs[j].status \in Status /\ jobs'[j].status \in Status
    BY StepTypes DEF TypeInv, TypeOK, Row
  <1> QED
    BY <1>1, StepMovesForward, RanksOf

\* No statement, however stale the row it was computed from, moves a job's
\* status backwards.
THEOREM StatusNeverGoesBack == Spec => StatusMovesForward
  <1>1. TypeInv /\ [Next]_vars
          => [\A j \in Job : StatusRank(jobs[j].status) <= StatusRank(jobs'[j].status)]_vars
    BY StepMovesForward
  <1> QED
    BY <1>1, TypeInvariant, PTL DEF Spec, StatusMovesForward

\* The partial unique index survives every UPDATE: no statement makes a closed
\* row active again, so checking it at the INSERT is enough.
THEOREM OneActiveJob == Spec => []OneActiveJobPerSource
  <1>1. Init => OneActiveJobPerSource
    BY DEF Init, OneActiveJobPerSource, IsActive, ActiveStatus, NoRow
  <1>2. ASSUME TypeInv, OneActiveJobPerSource, [Next]_vars
        PROVE  OneActiveJobPerSource'
    <2>1. CASE KeptAll
      BY <1>2, <2>1 DEF KeptAll, Kept, OneActiveJobPerSource
    <2>2. ASSUME NEW j \in Job, NEW s \in Source \cup {Nil}, NEW r \in Job \cup {Nil},
                 Inserted(j, s, r)
          PROVE  OneActiveJobPerSource'
      <3>1. jobs'[j].source = s
        BY <2>2 DEF Inserted, NewRow
      <3> SUFFICES ASSUME NEW a \in Job, NEW b \in Job, a # b,
                          IsActive(jobs'[a]), IsActive(jobs'[b]),
                          jobs'[a].source = jobs'[b].source
                   PROVE  FALSE
        BY DEF OneActiveJobPerSource
      <3>2. CASE a = j \/ b = j
        BY <2>2, <3>1, <3>2 DEF Inserted
      <3>3. CASE a # j /\ b # j
        BY <1>2, <2>2, <3>3 DEF Inserted, Kept, OneActiveJobPerSource
      <3> QED
        BY <3>2, <3>3
    <2> QED
      BY <1>2, <2>1, <2>2, TableSteps
  <1>3. TypeInv /\ OneActiveJobPerSource /\ [Next]_vars => OneActiveJobPerSource'
    BY <1>2
  <1> QED
    BY <1>1, <1>3, TypeInvariant, PTL DEF Spec

----------------------------------------------------------------------------
(* One runner per job.  Two facts make it inductive: a job that a worker or *)
(* a scheduler tick executes has left pending, which StartJob alone can do  *)
(* for it; and no status goes back.                                         *)

Serious == Workers \cup Schedulers

EngagedHasStarted ==
    \A p \in Serious, j \in Job : Engaged(p, j) => StatusRank(jobs[j].status) >= 2

RunnerInv == EngagedHasStarted /\ OneRunnerPerJob

\* A step that leaves a process outside the executing control points engages
\* nobody.
LEMMA QuietStep ==
  ASSUME TypeInv, NEW p \in Serious, NEW j \in Job, Engaged(p, j)',
         NEW q \in Proc, NEW l, Become(q, l), l.pc \notin Executing, UNCHANGED child
  PROVE  Engaged(p, j)
  <1>1. p \in Proc /\ loc \in [Proc -> Local]
    BY DEF Serious, Proc, Runners, TypeInv, TypeOK
  <1>2. loc'[p] = IF p = q THEN l ELSE loc[p]
    BY <1>1 DEF Become
  <1> QED
    BY <1>2 DEF Engaged

LEMMA QuietGoto ==
  ASSUME TypeInv, NEW p \in Serious, NEW j \in Job, Engaged(p, j)', UNCHANGED child,
         NEW q \in Proc, NEW c \in Control \ Executing, Goto(q, c)
  PROVE  Engaged(p, j)
  <1>1. [loc[q] EXCEPT !.pc = c].pc = c
    BY LocalFields DEF Local
  <1> QED
    BY <1>1, QuietStep DEF Goto

LEMMA QuietLeave ==
  ASSUME TypeInv, NEW p \in Serious, NEW j \in Job, Engaged(p, j)', UNCHANGED child,
         NEW q \in Proc, Leave(q)
  PROVE  Engaged(p, j)
  BY QuietStep DEF Leave, Idle, Executing

LEMMA QuietTurn ==
  ASSUME TypeInv, NEW p \in Serious, NEW j \in Job, Engaged(p, j)', UNCHANGED child,
         NEW q \in Proc, NEW rest, Become(q, TurnTo(rest))
  PROVE  Engaged(p, j)
  <1>1. TurnTo(rest).pc \notin Executing
    BY DEF TurnTo, Idle, Executing
  <1> QED
    BY <1>1, QuietStep

LEMMA QuietRaise ==
  ASSUME TypeInv, NEW p \in Serious, NEW j \in Job, Engaged(p, j)', UNCHANGED child,
         NEW q \in Proc, Raises(q)
  PROVE  Engaged(p, j)
  <1>1. "failRead" \in Control \ Executing
    BY DEF Control, Closing, Executing
  <1> QED
    BY <1>1, QuietGoto, QuietLeave DEF Raises

\* A process engages in a job only by starting it: the runner's own steps.
LEMMA RunnerEngages ==
  ASSUME TypeInv, NEW p \in Serious, NEW j \in Job, Engaged(p, j)',
         NEW q \in Runners, RunStep(q) \/ SpiderExits(q)
  PROVE  \/ Engaged(p, j)
         \/ StartJob(p) /\ loc[p].job = j /\ Startable(jobs[j])
  <1>1. p \in Proc /\ p \in Runners /\ q \in Proc /\ j # Nil
    BY NilAssumption DEF Serious, Proc, Runners
  <1>2. loc \in [Proc -> Local] /\ child \in [Runners -> Job \cup {Nil}] /\ loc[q] \in Local
    BY <1>1 DEF TypeInv, TypeOK
  <1>3. CASE StartJob(q)
    <2>1. CASE Startable(jobs[loc[q].job])
      <3>1. loc' = [loc EXCEPT ![q] = [loc[q] EXCEPT !.pc = "run"]] /\ child' = child
        BY <1>3, <2>1 DEF StartJob, Goto, Become
      <3>2. CASE p = q
        <4>1. loc'[p].job = loc[p].job
          BY <1>1, <1>2, <3>1, <3>2 DEF Local
        <4> QED
          BY <1>3, <2>1, <3>1, <3>2, <4>1 DEF Engaged
      <3>3. CASE p # q
        BY <1>1, <1>2, <3>1, <3>3 DEF Engaged
      <3> QED
        BY <3>2, <3>3
    <2>2. CASE ~Startable(jobs[loc[q].job])
      BY <1>1, <1>3, <2>2, QuietLeave DEF StartJob
    <2> QED
      BY <2>1, <2>2
  <1>4. CASE BootFails(q) \/ ConcludeFails(q)
    BY <1>1, <1>4, QuietRaise DEF BootFails, ConcludeFails
  <1>5. CASE SpawnSpider(q)
    <2>1. /\ loc' = [loc EXCEPT ![q] = [loc[q] EXCEPT !.pc = "wait"]]
          /\ child' = [child EXCEPT ![q] = loc[q].job]
          /\ loc[q].pc \in Executing
      BY <1>5 DEF SpawnSpider, Goto, Become, At, Executing
    <2>2. CASE p = q
      <3>1. loc'[p].job = loc[p].job /\ child'[p] = loc[p].job
        BY <1>1, <1>2, <2>1, <2>2 DEF Local
      <3> QED
        BY <2>1, <2>2, <3>1 DEF Engaged
    <2>3. CASE p # q
      BY <1>1, <1>2, <2>1, <2>3 DEF Engaged
    <2> QED
      BY <2>2, <2>3
  <1>6. CASE SpawnFails(q)
    <2>1. [loc[q] EXCEPT !.pc = "finishRead", !.target = "failed"].pc \notin Executing
      BY <1>2 DEF Local, Executing
    <2> QED
      BY <1>1, <1>6, <2>1, QuietStep DEF SpawnFails
  <1>7. CASE SpiderExits(q)
    BY <1>1, <1>2, <1>7 DEF SpiderExits, Engaged
  <1>8. CASE HeartbeatRead(q) \/ HeartbeatWrite(q)
    <2>1. PICK c \in {"beat", "wait"} : \E row :
             loc' = [loc EXCEPT ![q] = [loc[q] EXCEPT !.pc = c, !.seen = row]]
      BY <1>8 DEF HeartbeatRead, HeartbeatWrite, Become
    <2>2. loc[q].pc \in Executing /\ child' = child
      BY <1>8 DEF HeartbeatRead, HeartbeatWrite, At, Executing
    <2>3. CASE p = q
      <3>1. loc'[p].job = loc[p].job
        BY <1>1, <1>2, <2>1, <2>3 DEF Local
      <3> QED
        BY <2>2, <2>3, <3>1 DEF Engaged
    <2>4. CASE p # q
      BY <1>1, <1>2, <2>1, <2>2, <2>4 DEF Engaged
    <2> QED
      BY <2>3, <2>4
  <1>9. ASSUME NEW t \in FinalStatus, Conclude(q, t) PROVE Engaged(p, j)
    <2>1. [loc[q] EXCEPT !.pc = "finishRead", !.target = t].pc \notin Executing
      BY <1>2 DEF Local, Executing
    <2> QED
      BY <1>1, <1>9, <2>1, QuietStep DEF Conclude
  <1> QED
    BY <1>3, <1>4, <1>5, <1>6, <1>7, <1>8, <1>9 DEF RunStep

\* The same for every step of the system.
LEMMA EngagesByStarting ==
  ASSUME TypeInv, [Next]_vars, NEW p \in Serious, NEW j \in Job, Engaged(p, j)'
  PROVE  \/ Engaged(p, j)
         \/ StartJob(p) /\ loc[p].job = j /\ Startable(jobs[j])
  <1>1. p \in Proc /\ p \in Runners /\ p \notin Clis /\ loc \in [Proc -> Local]
    BY ProcAssumption DEF Serious, Proc, Runners, TypeInv, TypeOK
  <1>2. ASSUME NEW q \in Creators, NEW s \in Source, Request(q, s) PROVE Engaged(p, j)
    <2>1. [Idle EXCEPT !.pc = "check", !.source = s, !.stale = ExpiredJobs].pc \notin Executing
      BY DEF Idle, Executing
    <2> QED
      BY <1>2, <2>1, QuietStep DEF Request, Creators, Proc, Dispatchers, Runners
  <1>3. ASSUME NEW q \in Clients, NEW r \in Job, RequestRetry(q, r) PROVE Engaged(p, j)
    <2>1. [Idle EXCEPT !.pc = "check", !.source = jobs[r].source,
                       !.retryOf = r, !.stale = ExpiredJobs].pc \notin Executing
      BY DEF Idle, Executing
    <2> QED
      BY <1>3, <2>1, QuietStep DEF RequestRetry, Proc, Dispatchers
  <1>4. ASSUME NEW q \in Creators, CreateStep(q) PROVE Engaged(p, j)
    <2>1. q \in Proc /\ "insert" \in Control \ Executing
      BY DEF Creators, Proc, Dispatchers, Runners, Control, Creating, Executing
    <2>2. ASSUME NEW k \in Job, InsertJob(q, k) PROVE Engaged(p, j)
      <3>1. [Idle EXCEPT !.pc = "boot", !.job = k].pc \notin Executing
        BY DEF Idle, Executing
      <3> QED
        BY <2>1, <2>2, <3>1, QuietStep, QuietTurn DEF InsertJob
    <2> QED
      BY <1>4, <2>1, <2>2, QuietGoto, QuietLeave DEF CreateStep, CheckActive, InsertConflict
  <1>5. ASSUME NEW d \in Dispatchers, DispatchStep(d) \/ HandoffFails(d) PROVE Engaged(p, j)
    <2>1. d \in Proc /\ loc[d] \in Local
      BY LocalFields DEF Proc
    <2>2. CASE Sweep(d) \/ HandoffFails(d)
      BY <2>1, <2>2, QuietTurn DEF Sweep, HandoffFails
    <2>3. CASE Claim(d)
      <3>1. PICK k : \/ Become(d, [loc[d] EXCEPT !.pc = "launch", !.job = k, !.todo = @ \ {k}])
                    \/ Become(d, TurnTo(loc[d].todo \ {k}))
        BY <2>3 DEF Claim
      <3>2. [loc[d] EXCEPT !.pc = "launch", !.job = k, !.todo = @ \ {k}].pc \notin Executing
        BY <2>1 DEF Local, Executing
      <3> QED
        BY <2>1, <2>3, <3>1, <3>2, QuietStep, QuietTurn DEF Claim
    <2>4. ASSUME NEW w \in Workers, LaunchWorker(d, w) PROVE Engaged(p, j)
      <3>1. /\ loc' = [loc EXCEPT ![d] = TurnTo(loc[d].todo),
                                  ![w] = [Idle EXCEPT !.pc = "boot", !.job = loc[d].job]]
            /\ child' = child
        BY <2>4 DEF LaunchWorker
      <3>2. TurnTo(loc[d].todo).pc \notin Executing
        BY DEF TurnTo, Idle, Executing
      <3>3. [Idle EXCEPT !.pc = "boot", !.job = loc[d].job].pc \notin Executing
        BY DEF Idle, Executing
      <3>4. loc'[p] \in {loc[p], TurnTo(loc[d].todo),
                         [Idle EXCEPT !.pc = "boot", !.job = loc[d].job]}
        BY <1>1, <3>1
      <3> QED
        BY <3>1, <3>2, <3>3, <3>4 DEF Engaged
    <2>5. CASE LaunchFails(d)
      <3> DEFINE c == IF loc[d].tries + 1 < MaxAttempts THEN "launch" ELSE "failRead"
      <3>1. Become(d, [loc[d] EXCEPT !.tries = @ + 1, !.pc = c])
        BY <2>5 DEF LaunchFails
      <3>2. [loc[d] EXCEPT !.tries = @ + 1, !.pc = c].pc \notin Executing
        BY <2>1 DEF Local, Executing
      <3> QED
        BY <2>1, <2>5, <3>1, <3>2, QuietStep DEF LaunchFails
    <2> QED
      BY <1>5, <2>2, <2>3, <2>4, <2>5 DEF DispatchStep
  <1>6. ASSUME NEW q \in Dispatchers \cup Runners, CloseStep(q) PROVE Engaged(p, j)
    <2>1. q \in Proc /\ loc[q] \in Local
      BY LocalFields DEF Proc
    <2>2. CASE FinishRead(q) \/ FailRead(q)
      <3>1. \/ Raises(q) \/ AfterFail(q)
            \/ \E c \in {"finishWrite", "summaryWrite", "failWrite"} : \E row :
                  Become(q, [loc[q] EXCEPT !.pc = c, !.seen = row])
        BY <2>2 DEF FinishRead, FailRead
      <3>2. \A c \in {"finishWrite", "summaryWrite", "failWrite"} : \A row :
               [loc[q] EXCEPT !.pc = c, !.seen = row].pc \notin Executing
        BY <2>1 DEF Local, Executing
      <3>3. UNCHANGED child
        BY <2>2 DEF FinishRead, FailRead
      <3> QED
        BY <2>1, <3>1, <3>2, <3>3, QuietStep, QuietRaise, QuietTurn, QuietLeave DEF AfterFail
    <2>3. CASE FinishWrite(q)
      <3>1. "summaryRead" \in Control \ Executing
        BY DEF Control, Closing, Executing
      <3> QED
        BY <2>1, <2>3, <3>1, QuietGoto, QuietLeave DEF FinishWrite
    <2>4. CASE FailWrite(q)
      BY <2>1, <2>4, QuietTurn, QuietLeave DEF FailWrite, AfterFail
    <2> QED
      BY <1>6, <2>2, <2>3, <2>4 DEF CloseStep
  <1>7. ASSUME NEW q \in Runners, RunStep(q) \/ SpiderExits(q)
        PROVE  \/ Engaged(p, j)
               \/ StartJob(p) /\ loc[p].job = j /\ Startable(jobs[j])
    BY <1>7, RunnerEngages
  <1>8. ASSUME NEW q \in Clis, CliStart(q) \/ \E s \in Source, k \in Job : CliCreate(q, s, k)
        PROVE  Engaged(p, j)
    <2>1. PICK l : loc' = [loc EXCEPT ![q] = l] /\ child' = child
      BY <1>8 DEF CliStart, CliCreate, Goto, Become
    <2>2. loc'[p] = loc[p]
      BY <1>1, <2>1
    <2> QED
      BY <2>1, <2>2 DEF Engaged
  <1>9. ASSUME NEW q \in Pages, ReconcileStep(q) PROVE Engaged(p, j)
    <2>1. CASE ReconcileRead(q)
      <3>1. [Idle EXCEPT !.pc = "reconcile", !.stale = ExpiredJobs].pc \notin Executing
        BY DEF Idle, Executing
      <3> QED
        BY <2>1, <3>1, QuietStep DEF ReconcileRead, Proc
    <2>2. CASE ReconcileWrite(q)
      BY <2>2, QuietLeave DEF ReconcileWrite, Proc
    <2> QED
      BY <1>9, <2>1, <2>2 DEF ReconcileStep
  <1>10. ASSUME NEW q \in Proc, Crash(q) PROVE Engaged(p, j)
    BY <1>10, QuietLeave DEF Crash
  <1>11. CASE UNCHANGED <<loc, child>>
    BY <1>11 DEF Engaged
  <1> QED
    BY <1>2, <1>3, <1>4, <1>5, <1>6, <1>7, <1>8, <1>9, <1>10, <1>11
       DEF Next, LeaseExpires, vars

\* One worker or scheduler tick at most ever executes a job, whatever is
\* re-claimed, re-launched, expired or crashed.
THEOREM OneRunner == Spec => []OneRunnerPerJob
  <1>1. Init => RunnerInv
    BY NilAssumption DEF Init, RunnerInv, EngagedHasStarted, OneRunnerPerJob, Engaged, Idle,
       Executing, Serious, Proc, Runners
  <1>2. ASSUME TypeInv, RunnerInv, [Next]_vars
        PROVE  RunnerInv'
    <2>1. EngagedHasStarted'
      <3> SUFFICES ASSUME NEW p \in Serious, NEW j \in Job, Engaged(p, j)'
                   PROVE  StatusRank(jobs'[j].status) >= 2
        BY DEF EngagedHasStarted
      <3>1. jobs[j].status \in Status /\ jobs'[j].status \in Status
        BY <1>2, StepTypes DEF TypeInv, TypeOK, Row
      <3>2. StatusRank(jobs[j].status) <= StatusRank(jobs'[j].status)
        BY <1>2, StepMovesForward
      <3>3. CASE Engaged(p, j)
        BY <1>2, <3>1, <3>2, <3>3, RanksOf DEF RunnerInv, EngagedHasStarted
      <3>4. CASE StartJob(p) /\ loc[p].job = j /\ Startable(jobs[j])
        <4>1. jobs'[j] = Started(jobs[j])
          BY <1>2, <3>4 DEF StartJob, TypeInv, TypeOK
        <4>2. jobs[j] \in Row
          BY <1>2, JobRowTypes
        <4>3. jobs'[j].status = "running"
          BY <4>1, <4>2 DEF Started, Row
        <4> QED
          BY <4>3 DEF StatusRank
      <3> QED
        BY <1>2, <3>3, <3>4, EngagesByStarting
    <2>2. OneRunnerPerJob'
      <3> SUFFICES ASSUME NEW p \in Serious, NEW q \in Serious, NEW j \in Job,
                          Engaged(p, j)', Engaged(q, j)'
                   PROVE  p = q
        BY DEF OneRunnerPerJob, Serious
      <3>1. Startable(jobs[j]) => ~Engaged(p, j) /\ ~Engaged(q, j)
        BY <1>2 DEF RunnerInv, EngagedHasStarted, Startable, StatusRank
      <3>2. \A x \in {p, q} : Engaged(x, j) \/ (StartJob(x) /\ Startable(jobs[j]))
        BY <1>2, EngagesByStarting
      <3>3. CASE Engaged(p, j) /\ Engaged(q, j)
        BY <1>2, <3>3 DEF RunnerInv, OneRunnerPerJob, Serious
      <3>4. CASE StartJob(p) /\ StartJob(q)
        <4>1. p \in Proc /\ q \in Proc /\ loc \in [Proc -> Local]
          BY <1>2 DEF Serious, Proc, Runners, TypeInv, TypeOK
        <4>2. \A x \in {p, q} : \E l \in {Idle, [loc[x] EXCEPT !.pc = "run"]} :
                 loc[x].pc = "boot" /\ l.pc # "boot" /\ loc' = [loc EXCEPT ![x] = l]
          <5>1. \A x \in {p, q} : [loc[x] EXCEPT !.pc = "run"].pc = "run"
            BY <4>1 DEF Local
          <5> QED
            BY <3>4, <5>1 DEF StartJob, Goto, Leave, Become, At, Idle
        <4>3. \A x \in {p, q} : loc'[x].pc # loc[x].pc
          BY <4>1, <4>2
        <4> QED
          BY <4>1, <4>2, <4>3
      <3> QED
        BY <3>1, <3>2, <3>3, <3>4
    <2> QED
      BY <2>1, <2>2 DEF RunnerInv
  <1>3. TypeInv /\ RunnerInv /\ [Next]_vars => RunnerInv'
    BY <1>2
  <1>4. RunnerInv => OneRunnerPerJob
    BY DEF RunnerInv
  <1> QED
    BY <1>1, <1>3, <1>4, TypeInvariant, PTL DEF Spec

----------------------------------------------------------------------------
(***************************************************************************)
(* Retries.  RetriesAreFlat is not inductive: between the check and the    *)
(* INSERT the original is only known to the session that was asked to      *)
(* retry it, so the invariant also says that what such a session found of  *)
(* the original still holds.                                               *)
(***************************************************************************)

\* Job r may be the original of a retry for source s.
Original(r, s) ==
    /\ jobs[r].retryOf = Nil
    /\ jobs[r].source = s
    /\ IsFinal(jobs[r])

AskedForOriginals ==
    \A p \in Proc : loc[p].retryOf # Nil => Original(loc[p].retryOf, loc[p].source)

RetryInv == RetriesAreFlat /\ AskedForOriginals

----------------------------------------------------------------------------

\* An original stays one: closed rows stay closed and keep their columns.
LEMMA OriginalStays ==
  ASSUME TypeInv, [Next]_vars, NEW r \in Job, NEW s, Original(r, s)
  PROVE  Original(r, s)'
  <1>1. jobs[r] \in Row /\ jobs'[r] \in Row
    BY StepTypes, JobRowTypes DEF TypeInv, TypeOK
  <1>2. jobs[r].status \in FinalStatus /\ jobs[r].status \in Status /\ jobs'[r].status \in Status
    BY <1>1 DEF Original, IsFinal, Row
  <1>3. StatusRank(jobs[r].status) = 3 /\ jobs[r].status # "absent"
    BY <1>2, RanksOf DEF FinalStatus
  <1>4. jobs'[r].status \in FinalStatus
    BY <1>2, <1>3, RanksOf, StepMovesForward
  <1>5. jobs'[r].source = jobs[r].source /\ jobs'[r].retryOf = jobs[r].retryOf
    <2>1. CASE KeptAll
      BY <2>1 DEF KeptAll, Kept
    <2>2. CASE \E j \in Job, t \in Source \cup {Nil}, q \in Job \cup {Nil} : Inserted(j, t, q)
      BY <1>3, <2>2 DEF Inserted, Kept
    <2> QED
      BY <2>1, <2>2, TableSteps
  <1> QED
    BY <1>4, <1>5 DEF Original, IsFinal

\* What a step leaves of the request of process p.
SameRequest(p) ==
    \/ loc'[p].retryOf = Nil
    \/ loc'[p].retryOf = loc[p].retryOf /\ loc'[p].source = loc[p].source

LEMMA RequestByBecome ==
  ASSUME TypeInv, NEW q \in Proc, NEW l, Become(q, l),
         \/ l.retryOf = Nil
         \/ l.retryOf = loc[q].retryOf /\ l.source = loc[q].source
  PROVE  \A p \in Proc : SameRequest(p)
  BY DEF Become, SameRequest, TypeInv, TypeOK

LEMMA RequestByGoto ==
  ASSUME TypeInv, NEW q \in Proc, NEW c, Goto(q, c)
  PROVE  \A p \in Proc : SameRequest(p)
  <1>1. loc[q] \in Local
    BY DEF TypeInv, TypeOK
  <1>2. [loc[q] EXCEPT !.pc = c].retryOf = loc[q].retryOf
        /\ [loc[q] EXCEPT !.pc = c].source = loc[q].source
    BY <1>1 DEF Local
  <1> QED
    BY <1>2, RequestByBecome DEF Goto

LEMMA RequestByLeave ==
  ASSUME TypeInv, NEW q \in Proc, Leave(q)
  PROVE  \A p \in Proc : SameRequest(p)
  BY RequestByBecome DEF Leave, Idle

LEMMA RequestByTurn ==
  ASSUME TypeInv, NEW q \in Proc, NEW rest, Become(q, TurnTo(rest))
  PROVE  \A p \in Proc : SameRequest(p)
  <1>1. TurnTo(rest).retryOf = Nil
    BY DEF TurnTo, Idle
  <1> QED
    BY <1>1, RequestByBecome

LEMMA RequestByRaise ==
  ASSUME TypeInv, NEW q \in Proc, Raises(q)
  PROVE  \A p \in Proc : SameRequest(p)
  BY RequestByGoto, RequestByLeave DEF Raises

----------------------------------------------------------------------------
(* The steps of each kind *)

LEMMA CreateRequests ==
  ASSUME TypeInv, NEW q \in Creators, CreateStep(q) \/ \E s \in Source : Request(q, s)
  PROVE  \A p \in Proc : SameRequest(p)
  <1>1. q \in Proc
    BY DEF Creators, Proc, Dispatchers, Runners
  <1>2. CASE CheckActive(q)
    BY <1>1, <1>2, RequestByGoto, RequestByLeave DEF CheckActive
  <1>3. CASE InsertConflict(q)
    BY <1>1, <1>3, RequestByLeave DEF InsertConflict
  <1>4. ASSUME NEW j \in Job, InsertJob(q, j)
        PROVE  \A p \in Proc : SameRequest(p)
    <2>1. CASE q \in Clients
      BY <1>1, <1>4, <2>1, RequestByTurn DEF InsertJob
    <2>2. CASE q \notin Clients
      BY <1>1, <1>4, <2>2, RequestByBecome DEF InsertJob, Idle
    <2> QED
      BY <2>1, <2>2
  <1>5. ASSUME NEW s \in Source, Request(q, s)
        PROVE  \A p \in Proc : SameRequest(p)
    BY <1>1, <1>5, RequestByBecome DEF Request, Idle
  <1> QED
    BY <1>2, <1>3, <1>4, <1>5 DEF CreateStep

LEMMA DispatchRequests ==
  ASSUME TypeInv, NEW d \in Dispatchers, DispatchStep(d) \/ HandoffFails(d)
  PROVE  \A p \in Proc : SameRequest(p)
  <1>1. d \in Proc /\ loc \in [Proc -> Local] /\ loc[d] \in Local
    BY DEF Proc, TypeInv, TypeOK
  <1>2. CASE Sweep(d)
    BY <1>1, <1>2, RequestByTurn DEF Sweep
  <1>3. CASE Claim(d)
    <2>1. PICK j \in loc[d].todo :
             IF Claimable(jobs[j])
             THEN Become(d, [loc[d] EXCEPT !.pc = "launch", !.job = j, !.todo = @ \ {j}])
             ELSE Become(d, TurnTo(loc[d].todo \ {j}))
      BY <1>3 DEF Claim
    <2>2. LET l == [loc[d] EXCEPT !.pc = "launch", !.job = j, !.todo = @ \ {j}]
          IN  l.retryOf = loc[d].retryOf /\ l.source = loc[d].source
      BY <1>1 DEF Local
    <2> QED
      BY <1>1, <2>1, <2>2, RequestByBecome, RequestByTurn
  <1>4. ASSUME NEW w \in Workers, LaunchWorker(d, w)
        PROVE  \A p \in Proc : SameRequest(p)
    <2>1. w \in Proc
      BY DEF Proc, Runners
    <2>2. TurnTo(loc[d].todo).retryOf = Nil
      BY DEF TurnTo, Idle
    <2>3. [Idle EXCEPT !.pc = "boot", !.job = loc[d].job].retryOf = Nil
      BY DEF Idle
    <2> QED
      BY <1>1, <1>4, <2>1, <2>2, <2>3 DEF LaunchWorker, SameRequest
  <1>5. CASE LaunchFails(d)
    BY <1>1, <1>5, RequestByBecome DEF LaunchFails, Local
  <1>6. CASE HandoffFails(d)
    BY <1>1, <1>6, RequestByTurn DEF HandoffFails
  <1> QED
    BY <1>2, <1>3, <1>4, <1>5, <1>6 DEF DispatchStep

LEMMA RunRequests ==
  ASSUME TypeInv, NEW q \in Runners, RunStep(q) \/ SpiderExits(q)
  PROVE  \A p \in Proc : SameRequest(p)
  <1>1. q \in Proc /\ loc[q] \in Local
    BY DEF Proc, TypeInv, TypeOK
  <1>2. CASE StartJob(q)
    BY <1>1, <1>2, RequestByGoto, RequestByLeave DEF StartJob
  <1>3. CASE SpawnSpider(q)
    BY <1>1, <1>3, RequestByGoto DEF SpawnSpider
  <1>4. CASE SpiderExits(q)
    BY <1>4 DEF SpiderExits, SameRequest
  <1>5. CASE BootFails(q) \/ ConcludeFails(q)
    BY <1>1, <1>5, RequestByRaise DEF BootFails, ConcludeFails
  <1>6. CASE SpawnFails(q)
    BY <1>1, <1>6, RequestByBecome DEF SpawnFails, Local
  <1>7. CASE HeartbeatRead(q)
    BY <1>1, <1>7, RequestByBecome DEF HeartbeatRead, Local
  <1>8. CASE HeartbeatWrite(q)
    BY <1>1, <1>8, RequestByBecome DEF HeartbeatWrite, Local
  <1>9. ASSUME NEW t \in FinalStatus, Conclude(q, t)
        PROVE  \A p \in Proc : SameRequest(p)
    BY <1>1, <1>9, RequestByBecome DEF Conclude, Local
  <1> QED
    BY <1>2, <1>3, <1>4, <1>5, <1>6, <1>7, <1>8, <1>9 DEF RunStep

LEMMA CloseRequests ==
  ASSUME TypeInv, NEW q \in Dispatchers \cup Runners, CloseStep(q)
  PROVE  \A p \in Proc : SameRequest(p)
  <1>1. q \in Proc /\ loc[q] \in Local
    BY DEF Proc, TypeInv, TypeOK
  <1>2. CASE FinishRead(q)
    BY <1>1, <1>2, RequestByBecome, RequestByRaise DEF FinishRead, Local
  <1>3. CASE FinishWrite(q)
    BY <1>1, <1>3, RequestByGoto, RequestByLeave DEF FinishWrite
  <1>4. AfterFail(q) => \A p \in Proc : SameRequest(p)
    BY <1>1, RequestByTurn, RequestByLeave DEF AfterFail
  <1>5. CASE FailRead(q)
    BY <1>1, <1>4, <1>5, RequestByBecome DEF FailRead, Local
  <1>6. CASE FailWrite(q)
    BY <1>4, <1>6 DEF FailWrite
  <1> QED
    BY <1>2, <1>3, <1>5, <1>6 DEF CloseStep

\* Only a retry request makes a process remember an original.
LEMMA StepRequests ==
  ASSUME TypeInv, [Next]_vars
  PROVE  \/ \A p \in Proc : SameRequest(p)
         \/ \E q \in Clients, r \in Job : RequestRetry(q, r)
  <1>1. ASSUME NEW q \in Clis, CliStart(q) \/ \E s \in Source, j \in Job : CliCreate(q, s, j)
        PROVE  \A p \in Proc : SameRequest(p)
    BY <1>1, RequestByGoto, RequestByBecome DEF CliStart, CliCreate, Idle, Proc, Runners
  <1>2. ASSUME NEW q \in Pages, ReconcileStep(q)
        PROVE  \A p \in Proc : SameRequest(p)
    BY <1>2, RequestByLeave, RequestByBecome
       DEF ReconcileStep, ReconcileRead, ReconcileWrite, Idle, Proc
  <1>3. ASSUME NEW j \in Job, LeaseExpires(j)
        PROVE  \A p \in Proc : SameRequest(p)
    BY <1>3 DEF LeaseExpires, SameRequest
  <1>4. ASSUME NEW q \in Proc, Crash(q)
        PROVE  \A p \in Proc : SameRequest(p)
    BY <1>4, RequestByLeave DEF Crash
  <1>5. CASE UNCHANGED vars
    BY <1>5 DEF vars, SameRequest
  <1> QED
    BY <1>1, <1>2, <1>3, <1>4, <1>5, CreateRequests, DispatchRequests, RunRequests,
       CloseRequests DEF Next

----------------------------------------------------------------------------

\* A job is retried once at most, its retry is never retried, and a retry is of
\* the source of its original, however many requests run at once: the unique
\* index on retry_of_job_id, and the checks of queue_retry_crawl_for_job, which
\* no later step invalidates.
THEOREM RetriesStayFlat == Spec => []RetriesAreFlat
  <1>1. Init => RetryInv
    BY DEF Init, RetryInv, RetriesAreFlat, AskedForOriginals, NoRow, Idle
  <1>2. ASSUME TypeInv, RetryInv, [Next]_vars
        PROVE  RetryInv'
    <2>1. jobs \in [Job -> Row] /\ \A k \in Job : jobs[k].retryOf \in Job \cup {Nil}
      BY <1>2 DEF TypeInv, TypeOK, Row
    <2>2. \A k \in Job : jobs[k].retryOf # Nil => Original(jobs[k].retryOf, jobs[k].source)
      BY <1>2 DEF RetryInv, RetriesAreFlat, Original
    <2>3. RetriesAreFlat'
      <3>1. CASE KeptAll
        <4>1. \A k \in Job : jobs'[k].retryOf = jobs[k].retryOf /\ jobs'[k].source = jobs[k].source
          BY <3>1 DEF KeptAll, Kept
        <4> SUFFICES ASSUME NEW k \in Job, jobs[k].retryOf # Nil
                     PROVE  /\ Original(jobs[k].retryOf, jobs[k].source)'
                            /\ \A m \in Job : jobs[m].retryOf = jobs[k].retryOf => m = k
          BY <4>1 DEF RetriesAreFlat, Original
        <4> QED
          BY <1>2, <2>1, <2>2, <4>1, OriginalStays DEF RetryInv, RetriesAreFlat, Original
      <3>2. ASSUME NEW j \in Job, NEW s \in Source \cup {Nil}, NEW r \in Job \cup {Nil},
                   Inserted(j, s, r), Asked(s, r)
            PROVE  RetriesAreFlat'
        <4>1. \A k \in Job \ {j} : jobs'[k].retryOf = jobs[k].retryOf
                                     /\ jobs'[k].source = jobs[k].source
          BY <3>2 DEF Inserted, Kept
        <4>2. jobs'[j].retryOf = r /\ jobs'[j].source = s
          BY <3>2 DEF Inserted, NewRow
        <4>3. r # Nil => Original(r, s)'
          <5>1. r # Nil => Original(r, s)
            BY <1>2, <3>2 DEF Asked, RetryInv, AskedForOriginals, Creators, Proc,
               Dispatchers, Runners
          <5> QED
            BY <1>2, <5>1, OriginalStays
        <4>4. \A k \in Job \ {j} : jobs[k].retryOf # Nil
                 => jobs'[jobs[k].retryOf].retryOf = Nil
                    /\ jobs'[jobs[k].retryOf].source = jobs[k].source
                    /\ IsFinal(jobs'[jobs[k].retryOf])
          BY <1>2, <2>1, <2>2, OriginalStays DEF Original
        <4>5. r # Nil => \A k \in Job : jobs[k].retryOf # r
          BY <3>2 DEF Inserted, RetrySlotFree
        <4>6. \A k, m \in Job \ {j} :
                 jobs[k].retryOf # Nil /\ jobs[m].retryOf = jobs[k].retryOf => m = k
          BY <1>2 DEF RetryInv, RetriesAreFlat
        <4> QED
          BY <4>1, <4>2, <4>3, <4>4, <4>5, <4>6 DEF RetriesAreFlat, Original
      <3> QED
        BY <1>2, <3>1, <3>2, TableSteps
    <2>4. AskedForOriginals'
      <3>1. \A p \in Proc : loc[p].retryOf \in Job \cup {Nil}
        BY <1>2, LocalFields
      <3>2. CASE \A p \in Proc : SameRequest(p)
        <4> SUFFICES ASSUME NEW p \in Proc, loc'[p].retryOf # Nil
                     PROVE  Original(loc[p].retryOf, loc[p].source)'
          BY DEF AskedForOriginals
        <4>1. loc'[p].retryOf = loc[p].retryOf /\ loc'[p].source = loc[p].source
          BY <3>2 DEF SameRequest
        <4>2. Original(loc[p].retryOf, loc[p].source)
          BY <1>2, <4>1 DEF RetryInv, AskedForOriginals
        <4> QED
          BY <1>2, <3>1, <4>1, <4>2, OriginalStays DEF Original
      <3>3. ASSUME NEW q \in Clients, NEW r \in Job, RequestRetry(q, r)
            PROVE  AskedForOriginals'
        <4>1. Original(r, jobs[r].source) /\ UNCHANGED jobs
          BY <3>3 DEF RequestRetry, Original, IsFinal, FinalStatus
        <4>2. \A p \in Proc \ {q} : loc'[p] = loc[p]
          BY <1>2, <3>3 DEF RequestRetry, Become, TypeInv, TypeOK
        <4>3. loc'[q].retryOf = r /\ loc'[q].source = jobs[r].source
          <5>1. q \in Proc
            BY DEF Proc, Dispatchers
          <5> QED
            BY <1>2, <3>3, <5>1 DEF RequestRetry, Become, Idle, TypeInv, TypeOK
        <4> SUFFICES ASSUME NEW p \in Proc, loc'[p].retryOf # Nil
                     PROVE  Original(loc'[p].retryOf, loc'[p].source)
          BY <4>1 DEF AskedForOriginals, Original
        <4>4. CASE p = q
          BY <4>1, <4>3, <4>4
        <4>5. CASE p # q
          BY <1>2, <4>2, <4>5 DEF RetryInv, AskedForOriginals
        <4> QED
          BY <4>4, <4>5
      <3> QED
        BY <1>2, <3>2, <3>3, StepRequests
    <2> QED
      BY <2>3, <2>4 DEF RetryInv
  <1>3. TypeInv /\ RetryInv /\ [Next]_vars => RetryInv'
    BY <1>2
  <1>4. RetryInv => RetriesAreFlat
    BY DEF RetryInv
  <1> QED
    BY <1>1, <1>3, <1>4, TypeInvariant, PTL DEF Spec

----------------------------------------------------------------------------
(* Tasks.  Unless it is asked, sweeps, launches or inserts, a process gets  *)
(* no new job to work on and nothing new to create, and the only new rows   *)
(* it may reconcile have expired.                                           *)

\* The jobs a process is still to do something about.
Tasks(l) ==
    IF l.pc \in Busy THEN l.todo \cup {l.job}
    ELSE IF l.pc = "dispatch" THEN l.todo ELSE {}

LEMMA TasksAreJobs ==
  ASSUME TypeInv, NEW p \in Proc
  PROVE  Tasks(loc[p]) \subseteq Job
  BY LocalFields DEF Tasks, LocalOK

\* The source of a request has been found free.
Checked(l, m) ==
    m.pc = "check" /\ l = [m EXCEPT !.pc = "insert"] /\ ActiveSlotFree(jobs, m.source)

\* A process is about to flush the row of the job it closes.
Flushing == {"finishWrite", "summaryWrite", "failWrite"}

\* A process that went from m to l has no new task and no new plan, and what it
\* is to flush is as old or as new as can be.
Narrower(l, m) ==
    /\ Tasks(l) \subseteq Tasks(m)
    /\ l.stale \subseteq m.stale \cup ExpiredJobs
    /\ l.pc \in Creating => l = m \/ Checked(l, m)
    /\ l.pc \in Flushing => l = m \/ l.seen = jobs[l.job]

AllNarrower == \A p \in Proc : Narrower(loc'[p], loc[p])

LEMMA NarrowBecome ==
  ASSUME TypeInv, NEW q \in Proc, NEW l, Become(q, l), Narrower(l, loc[q])
  PROVE  AllNarrower
  BY DEF AllNarrower, Narrower, Become, TypeInv, TypeOK

LEMMA NarrowSame ==
  ASSUME UNCHANGED loc
  PROVE  AllNarrower
  BY DEF AllNarrower, Narrower

LEMMA IdleNarrow ==
  ASSUME NEW m
  PROVE  Narrower(Idle, m)
  BY DEF Narrower, Tasks, Idle, Busy, Creating, Flushing, Starting,
       Executing, Closing

LEMMA NarrowLeave ==
  ASSUME TypeInv, NEW q \in Proc, Leave(q)
  PROVE  AllNarrower
  BY IdleNarrow, NarrowBecome DEF Leave

\* From one control point of a job to another.
LEMMA NarrowGoto ==
  ASSUME TypeInv, NEW q \in Proc, NEW c, Goto(q, c),
         c \in Busy => loc[q].pc \in Busy, c # "dispatch", c \notin Flushing,
         c \in Creating => loc[q].pc = "check" /\ c = "insert"
                            /\ ActiveSlotFree(jobs, loc[q].source)
  PROVE  AllNarrower
  <1>1. loc[q] \in Local
    BY LocalFields
  <1>2. Narrower([loc[q] EXCEPT !.pc = c], loc[q])
    BY <1>1 DEF Narrower, Tasks, Local, Checked
  <1> QED
    BY <1>2, NarrowBecome DEF Goto

LEMMA NarrowTurn ==
  ASSUME TypeInv, NEW q \in Proc, NEW rest, Become(q, TurnTo(rest)),
         rest \subseteq Tasks(loc[q])
  PROVE  AllNarrower
  <1>1. Narrower([Idle EXCEPT !.pc = "dispatch", !.todo = rest], loc[q])
    BY DEF Narrower, Tasks, Idle, Busy, Creating, Flushing, Starting,
       Executing, Closing
  <1>2. Narrower(TurnTo(rest), loc[q])
    BY <1>1, IdleNarrow DEF TurnTo
  <1> QED
    BY <1>2, NarrowBecome

LEMMA NarrowRaise ==
  ASSUME TypeInv, NEW q \in Proc, Raises(q), loc[q].pc \in Busy
  PROVE  AllNarrower
  <1>1. "failRead" \notin Creating \cup Flushing
    BY DEF Creating, Flushing
  <1> QED
    BY <1>1, NarrowGoto, NarrowLeave DEF Raises

LEMMA CreateNarrow ==
  ASSUME TypeInv, NEW q \in Creators, CheckActive(q) \/ InsertConflict(q)
  PROVE  AllNarrower
  <1>1. q \in Proc /\ "insert" \notin Busy \cup Flushing
    BY DEF Creators, Proc, Dispatchers, Runners, Flushing, Busy, Starting, Executing, Closing
  <1>2. CASE CheckActive(q) /\ ActiveSlotFree(jobs, loc[q].source)
    <2>1. loc[q].pc = "check" /\ Goto(q, "insert")
      BY <1>2 DEF CheckActive, At
    <2> QED
      BY <1>1, <1>2, <2>1, NarrowGoto
  <1>3. CASE Leave(q)
    BY <1>1, <1>3, NarrowLeave
  <1> QED
    BY <1>2, <1>3 DEF CheckActive, InsertConflict

LEMMA DispatchNarrow ==
  ASSUME TypeInv, NEW d \in Dispatchers, Claim(d) \/ LaunchFails(d) \/ HandoffFails(d)
  PROVE  AllNarrower
  <1>1. d \in Proc /\ loc[d] \in Local
    BY LocalFields DEF Proc
  <1>2. CASE Claim(d)
    <2>1. PICK j \in loc[d].todo :
             \/ Become(d, [loc[d] EXCEPT !.pc = "launch", !.job = j, !.todo = @ \ {j}])
             \/ Become(d, TurnTo(loc[d].todo \ {j}))
      BY <1>2 DEF Claim
    <2>2. Tasks(loc[d]) = loc[d].todo
      BY <1>2 DEF Claim, At, Tasks, Busy, Starting, Executing, Closing
    <2>3. Narrower([loc[d] EXCEPT !.pc = "launch", !.job = j, !.todo = @ \ {j}], loc[d])
      BY <1>1, <2>1, <2>2 DEF Narrower, Tasks, Local, Creating, Flushing
    <2> QED
      BY <1>1, <2>1, <2>2, <2>3, NarrowBecome, NarrowTurn
  <1>3. CASE LaunchFails(d)
    <2> DEFINE c == IF loc[d].tries + 1 < MaxAttempts THEN "launch" ELSE "failRead"
    <2>1. loc[d].pc \in Busy /\ c \notin Creating \cup Flushing
      BY <1>3 DEF LaunchFails, At, Busy, Creating, Flushing
    <2> HIDE DEF c
    <2>2. Narrower([loc[d] EXCEPT !.tries = @ + 1, !.pc = c], loc[d])
      BY <1>1, <2>1 DEF Narrower, Tasks, Local, c
    <2>3. Become(d, [loc[d] EXCEPT !.tries = @ + 1, !.pc = c])
      BY <1>3 DEF LaunchFails, c
    <2> QED
      BY <1>1, <2>2, <2>3, NarrowBecome
  <1>4. CASE HandoffFails(d)
    <2>1. loc[d].todo \subseteq Tasks(loc[d])
      BY <1>4 DEF HandoffFails, At, Tasks, Busy
    <2> QED
      BY <1>1, <1>4, <2>1, NarrowTurn DEF HandoffFails
  <1> QED
    BY <1>2, <1>3, <1>4

LEMMA RunNarrow ==
  ASSUME TypeInv, NEW q \in Runners, RunStep(q) \/ SpiderExits(q) \/ CliStart(q)
  PROVE  AllNarrower
  <1>1. q \in Proc /\ loc[q] \in Local
    BY LocalFields DEF Proc
  <1>2. {"run", "wait", "beat", "finishRead", "failRead", "boot", "cliStart"} \subseteq Busy
        /\ {"run", "wait", "beat", "finishRead"} \cap (Creating \cup Flushing) = {}
    BY DEF Busy, Creating, Flushing, Starting,
       Executing, Closing
  <1>3. CASE StartJob(q) \/ CliStart(q) \/ SpawnSpider(q)
    BY <1>1, <1>2, <1>3, NarrowGoto, NarrowLeave DEF StartJob, CliStart, SpawnSpider, At
  <1>4. CASE BootFails(q) \/ ConcludeFails(q)
    BY <1>1, <1>2, <1>4, NarrowRaise DEF BootFails, ConcludeFails, At
  <1>5. CASE SpiderExits(q)
    BY <1>5, NarrowSame DEF SpiderExits
  <1>6. CASE HeartbeatRead(q) \/ HeartbeatWrite(q)
    <2>1. loc[q].pc \in {"beat", "wait"}
      BY <1>6 DEF HeartbeatRead, HeartbeatWrite, At
    <2>2. PICK c \in {"beat", "wait"}, row \in {NoRow, jobs[loc[q].job]} :
             Become(q, [loc[q] EXCEPT !.pc = c, !.seen = row])
      BY <1>6 DEF HeartbeatRead, HeartbeatWrite
    <2>3. Narrower([loc[q] EXCEPT !.pc = c, !.seen = row], loc[q])
      BY <1>1, <1>2, <2>1 DEF Narrower, Tasks, Local
    <2> QED
      BY <1>1, <2>2, <2>3, NarrowBecome
  <1>7. CASE SpawnFails(q) \/ \E t \in FinalStatus : Conclude(q, t)
    <2>1. loc[q].pc \in {"run", "wait"}
      BY <1>7 DEF SpawnFails, Conclude, At
    <2>2. PICK t \in FinalStatus : Become(q, [loc[q] EXCEPT !.pc = "finishRead", !.target = t])
      BY <1>7 DEF SpawnFails, Conclude, FinalStatus
    <2>3. Narrower([loc[q] EXCEPT !.pc = "finishRead", !.target = t], loc[q])
      BY <1>1, <1>2, <2>1 DEF Narrower, Tasks, Local
    <2> QED
      BY <1>1, <2>2, <2>3, NarrowBecome
  <1> QED
    BY <1>3, <1>4, <1>5, <1>6, <1>7 DEF RunStep

LEMMA CloseNarrow ==
  ASSUME TypeInv, NEW q \in Dispatchers \cup Runners, CloseStep(q)
  PROVE  AllNarrower
  <1>1. q \in Proc /\ loc[q] \in Local
    BY LocalFields DEF Proc
  <1>2. loc[q].pc \in Busy
    BY DEF CloseStep, FinishRead, FinishWrite, FailRead, FailWrite, At, Busy, Closing
  <1>3. /\ "summaryRead" \in Busy /\ "summaryRead" \notin Creating \cup Flushing
        /\ Flushing \subseteq Busy \ Creating /\ loc[q].todo \subseteq Tasks(loc[q])
    BY <1>2 DEF Busy, Closing, Creating, Flushing, Tasks
  <1>4. ASSUME NEW c \in Flushing,
               Become(q, [loc[q] EXCEPT !.pc = c, !.seen = jobs[loc[q].job]])
        PROVE  AllNarrower
    <2>1. Narrower([loc[q] EXCEPT !.pc = c, !.seen = jobs[loc[q].job]], loc[q])
      BY <1>1, <1>2, <1>3 DEF Narrower, Tasks, Local
    <2> QED
      BY <1>1, <1>4, <2>1, NarrowBecome
  <1>5. ASSUME AfterFail(q) PROVE AllNarrower
    BY <1>1, <1>3, <1>5, NarrowTurn, NarrowLeave DEF AfterFail
  <1>6. CASE FinishRead(q) \/ FailRead(q)
    <2>1. \/ Raises(q) \/ AfterFail(q)
          \/ \E c \in Flushing : Become(q, [loc[q] EXCEPT !.pc = c, !.seen = jobs[loc[q].job]])
      BY <1>6 DEF FinishRead, FailRead, Flushing
    <2> QED
      BY <1>1, <1>2, <1>4, <1>5, <2>1, NarrowRaise
  <1>7. CASE FinishWrite(q)
    BY <1>1, <1>2, <1>3, <1>7, NarrowGoto, NarrowLeave DEF FinishWrite
  <1>8. CASE FailWrite(q)
    BY <1>5, <1>8 DEF FailWrite
  <1> QED
    BY <1>6, <1>7, <1>8 DEF CloseStep
===============================================================================
