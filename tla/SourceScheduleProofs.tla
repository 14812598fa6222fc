-------------------------- MODULE SourceScheduleProofs --------------------------
(***************************************************************************)
(* The schedule of any number of sources, on any number of threads, with   *)
(* any edits and crashes.  Sources are never deleted, so every copy of a   *)
(* row, every job and every tick is of a source that is there; and since   *)
(* max_instances lets one tick per source run, the status a tick has       *)
(* loaded before it ends is the one its UPDATE is compared with.           *)
(***************************************************************************)
EXTENDS SourceSchedule, TLAPS

TickRec == [pc : {"idle", "fired", "loaded", "marked", "crawling", "ending"},
            source : Source \cup {Nil}, seen : Row \cup {Nil}, outcome : Outcome \cup {Nil}]

WebRec == [pc : {"idle", "follow", "load", "sync", "commit"},
           source : Source \cup {Nil}, seen : Row \cup {Nil}, next : Time \cup {Nil}]

\* A source without a row has neither a job nor a history; one with a row shows how
\* its last tick went.
SourcesOK ==
    \A s \in Source :
        /\ row[s] = Nil => job[s] = Nil /\ finished[s] = Nil
        /\ row[s] # Nil => row[s].status = finished[s]

\* What the refresh has loaded is still there.
RefreshOK ==
    /\ DOMAIN refresh = {"pc", "seen", "next"}
    /\ refresh.pc # "idle" => \A s \in Source : refresh.seen[s] # Nil => row[s] # Nil

WebOK ==
    web.pc # "idle" => /\ web.source \in Source /\ web.seen \in Row
                       /\ row[web.source] # Nil

\* A tick is of a source that is there; the status it loaded is still the one shown
\* when it ends.
TickOK(t) ==
    LET s == tick[t].source
    IN  /\ At(t, "idle") => s = Nil
        /\ ~At(t, "idle") => s \in Source /\ row[s] # Nil
        /\ tick[t].pc \notin {"idle", "fired"} => tick[t].seen \in Row
        /\ At(t, "ending") => tick[t].outcome \in Outcome /\ tick[t].seen.status = row[s].status

OneTickPerSource ==
    \A t, u \in Thread : t # u /\ tick[t].source = tick[u].source => tick[t].source = Nil

ScheduleInv ==
    /\ ScheduleTypeOK
    /\ SourcesOK /\ RefreshOK /\ WebOK /\ (\A t \in Thread : TickOK(t)) /\ OneTickPerSource

\* What every step but the end of a tick does to the rows.
RowsKept == \A s \in Source : row[s] # Nil => row'[s] # Nil /\ row'[s].status = row[s].status

----------------------------------------------------------------------------
(* Records *)

LEMMA NilIsNone ==
  /\ Nil \notin Row /\ Nil \notin Job /\ Nil \notin Source /\ Nil \notin Nat
  /\ Nil \notin Outcome
  BY ScheduleAssumption, NoRecordAssumption

\* An UPDATE of one column leaves a row, and the status as it was unless it is the
\* column.
LEMMA Flushes ==
  ASSUME NEW r \in Row, NEW old
  PROVE  /\ \A next \in Time \cup {Nil} :
               LET f == Flush("next", old, next, r) IN f \in Row /\ f.status = r.status
         /\ \A last \in Time \cup {Nil} :
               LET f == Flush("last", old, last, r) IN f \in Row /\ f.status = r.status
         /\ \A status \in Outcome :
               LET f == Flush("status", old, status, r) IN
               f \in Row /\ (old = r.status => f.status = status)
  BY DEF Flush, Row

LEMMA Syncs ==
  ASSUME NEW r \in Row, NEW j \in Job \cup {Nil}, now \in Nat
  PROVE  /\ SyncedJob(j, r) \in Job \cup {Nil}
         /\ SyncedNext(j, r) \in Time \cup {Nil}
         /\ NextRun(r) \in Time \cup {Nil}
  <1>1. r.days \in Nat /\ r.days \in DayOptions /\ r.next \in Nat \cup {Nil}
    BY DayOptionsAssumption DEF Row, Time
  <1>2. Resolve(r) \in Nat
    BY <1>1, NilIsNone DEF Resolve
  <1>3. SyncedJob(j, r) \in Job \cup {Nil}
    BY <1>1, <1>2 DEF SyncedJob, Job, Time
  <1>4. Should(r) => SyncedJob(j, r) \in Job
    <2> SUFFICES ASSUME Should(r)
                 PROVE  SyncedJob(j, r) \in Job
      OBVIOUS
    <2>1. CASE j # Nil /\ j.days = r.days
      BY <2>1 DEF SyncedJob
    <2>2. CASE ~(j # Nil /\ j.days = r.days)
      BY <1>1, <1>2, <2>2 DEF SyncedJob, Job, Time
    <2> QED
      BY <2>1, <2>2
  <1>5. SyncedNext(j, r) \in Time \cup {Nil}
    BY <1>4 DEF SyncedNext, Job
  <1>6. NextRun(r) \in Time \cup {Nil}
    BY <1>1 DEF NextRun, Time
  <1> QED
    BY <1>3, <1>5, <1>6

\* Whatever is posted, an accepted request leaves settings that can be stored.
LEMMA Created ==
  ASSUME NEW q \in Requests, NEW t \in CreateByApi(q) \cup CreateByForm(q)
  PROVE  NewRow(t) \in Row /\ NewRow(t).status = Nil
  <1>1. ASSUME NEW f, NEW x \in CreateByApi(f)
        PROVE  x.days \in DayOptions /\ x.active \in BOOLEAN /\ x.enabled \in BOOLEAN
    <2>1. /\ x = [active |-> Given(f.active, TRUE), enabled |-> Given(f.enabled, FALSE),
                  days |-> GivenDays(f.days, 1)]
          /\ x.days \in DayOptions
      BY <1>1 DEF CreateByApi
    <2>2. Given(f.active, TRUE) \in BOOLEAN /\ Given(f.enabled, FALSE) \in BOOLEAN
      BY Zenon DEF Given
    <2> QED
      BY <2>1, <2>2
  <1>2. t.days \in DayOptions /\ t.active \in BOOLEAN /\ t.enabled \in BOOLEAN
    <2>1. CASE t \in CreateByApi(q)
      BY <1>1, <2>1
    <2>2. CASE t \in CreateByForm(q)
      BY <1>1, <2>2 DEF CreateByForm
    <2> QED
      BY <2>1, <2>2
  <1> QED
    BY <1>2 DEF NewRow, Row

LEMMA Changed ==
  ASSUME NEW q \in Requests, NEW r \in Row,
         NEW t \in PatchSchedule(q, r) \cup ConfigForm(q, r) \cup ScheduleForm(q, r)
                   \cup PatchSource(q, r)
  PROVE  t \in Row /\ t.status = r.status
  <1>1. CASE t \in PatchSchedule(q, r)
    <2>1. /\ t = [r EXCEPT !.enabled = Given(q.enabled, @), !.days = GivenDays(q.days, @)]
          /\ PatchDays(q.days) /\ q.days # NullNumber
      BY <1>1 DEF PatchSchedule
    <2>2. GivenDays(q.days, r.days) \in DayOptions
      BY <2>1 DEF GivenDays, PatchDays, Row
    <2>3. Given(q.enabled, r.enabled) \in BOOLEAN
      BY Zenon DEF Given, Row
    <2> QED
      BY <2>1, <2>2, <2>3 DEF Row
  <1>2. CASE t \in ConfigForm(q, r)
    BY <1>2 DEF ConfigForm, Row
  <1>3. CASE t \in ScheduleForm(q, r)
    BY <1>3 DEF ScheduleForm, Row
  <1>4. CASE t \in PatchSource(q, r)
    <2>1. t = [r EXCEPT !.active = Given(q.active, @)]
      BY <1>4 DEF PatchSource
    <2>2. Given(q.active, r.active) \in BOOLEAN
      BY Zenon DEF Given, Row
    <2> QED
      BY <2>1, <2>2 DEF Row
  <1> QED
    BY <1>1, <1>2, <1>3, <1>4

----------------------------------------------------------------------------
(* Steps that keep the rows and the ticks *)

LEMMA Keepers ==
  ASSUME ScheduleInv, RowsKept
  PROVE  /\ tick' = tick => (\A t \in Thread : TickOK(t)') /\ OneTickPerSource'
         /\ refresh' = refresh => RefreshOK'
         /\ web' = web => WebOK'
  <1>1. ASSUME tick' = tick, NEW t \in Thread
        PROVE  TickOK(t)'
    BY <1>1 DEF ScheduleInv, RowsKept, TickOK, At
  <1>2. tick' = tick => OneTickPerSource'
    BY DEF ScheduleInv, OneTickPerSource
  <1>3. refresh' = refresh => RefreshOK'
    BY DEF ScheduleInv, RowsKept, RefreshOK
  <1>4. web' = web => WebOK'
    BY DEF ScheduleInv, RowsKept, WebOK
  <1> QED
    BY <1>1, <1>2, <1>3, <1>4

LEMMA RowsStand ==
  ASSUME row' = row
  PROVE  RowsKept
  BY DEF RowsKept

LEMMA OneRowKept ==
  ASSUME ScheduleInv, NEW s \in Source, NEW r \in Row,
         row[s] # Nil, r.status = row[s].status, row' = [row EXCEPT ![s] = r]
  PROVE  /\ RowsKept /\ row' \in [Source -> Row \cup {Nil}]
         /\ \A x \in Source : row'[x] = Nil <=> row[x] = Nil
  BY NilIsNone DEF ScheduleInv, ScheduleTypeOK, RowsKept

\* The row of a source that is there and whose status stands, with jobs only for
\* sources that are there.
LEMMA SourcesKept ==
  ASSUME ScheduleInv, finished' = finished, RowsKept,
         \A x \in Source : row'[x] = Nil <=> row[x] = Nil,
         \A x \in Source : row[x] = Nil => job'[x] = Nil
  PROVE  SourcesOK'
  BY DEF ScheduleInv, RowsKept, SourcesOK

LEMMA EditInv ==
  ASSUME ScheduleInv, NEW s \in Source, Edit(s)
  PROVE  ScheduleInv'
  <1>1. row \in [Source -> Row \cup {Nil}]
    BY DEF ScheduleInv, ScheduleTypeOK
  <1>2. PICK t \in Accepted(s) : row' = [row EXCEPT ![s] = IF @ = Nil THEN NewRow(t) ELSE t]
    BY DEF Edit
  <1>3. /\ row' \in [Source -> Row \cup {Nil}] /\ row'[s] \in Row
        /\ row'[s].status = IF row[s] = Nil THEN Nil ELSE row[s].status
        /\ \A x \in Source \ {s} : row'[x] = row[x]
    <2>1. CASE row[s] = Nil
      <3>1. PICK q \in Requests : t \in CreateByApi(q) \cup CreateByForm(q)
        BY <1>2, <2>1 DEF Accepted
      <3>2. NewRow(t) \in Row /\ NewRow(t).status = Nil
        BY <3>1, Created
      <3> QED
        BY <1>1, <1>2, <2>1, <3>2
    <2>2. CASE row[s] # Nil
      <3>1. PICK q \in Requests : t \in PatchSchedule(q, row[s]) \cup ConfigForm(q, row[s])
                                  \cup ScheduleForm(q, row[s]) \cup PatchSource(q, row[s])
        BY <1>2, <2>2 DEF Accepted
      <3>2. t \in Row /\ t.status = row[s].status
        BY <1>1, <2>2, <3>1, Changed
      <3> QED
        BY <1>1, <1>2, <2>2, <3>2
    <2> QED
      BY <2>1, <2>2
  <1>4. RowsKept
    BY <1>3, NilIsNone DEF RowsKept
  <1>5. web' \in WebRec /\ web'.source = s /\ web'.seen = row'[s]
    BY <1>3 DEF Edit, NoWeb, WebRec
  <1>6. WebOK'
    BY <1>3, <1>5, NilIsNone DEF WebOK
  <1>7. SourcesOK'
    BY <1>3, NilIsNone DEF Edit, ScheduleInv, SourcesOK
  <1>8. ScheduleTypeOK'
    <2>1. edits' \in 0..MaxEdits
      BY ScheduleAssumption DEF Edit, ScheduleInv, ScheduleTypeOK
    <2>2. calm' \in [Source -> BOOLEAN]
      BY DEF Edit, ScheduleInv, ScheduleTypeOK
    <2> QED
      BY <1>3, <1>5, <2>1, <2>2 DEF Edit, ScheduleInv, ScheduleTypeOK, WebRec, Loaded
  <1>9. tick' = tick /\ refresh' = refresh
    BY DEF Edit
  <1> QED
    BY <1>4, <1>6, <1>7, <1>8, <1>9, Keepers DEF ScheduleInv

LEMMA WebStepInv ==
  ASSUME ScheduleInv, WebStep \/ FollowFails
  PROVE  ScheduleInv'
  <1> DEFINE s == web.source
  <1>1. /\ web.pc # "idle" /\ s \in Source /\ web.seen \in Row /\ row[s] \in Row
        /\ row[s] # Nil /\ web \in WebRec /\ now \in Nat /\ job \in [Source -> Job \cup {Nil}]
    BY DEF WebStep, Follow, FollowLoad, FollowSync, FollowCommit, FollowFails,
           ScheduleInv, ScheduleTypeOK, WebOK, WebRec
  <1>2. /\ tick' = tick /\ refresh' = refresh /\ finished' = finished /\ up' = up
        /\ embedded' = embedded /\ now' = now /\ slot' = slot /\ edits' = edits
        /\ fired' = fired /\ calm' = calm
    BY DEF WebStep, Follow, FollowLoad, FollowSync, FollowCommit, FollowFails, history
  <1>3. /\ RowsKept /\ row' \in [Source -> Row \cup {Nil}]
        /\ \A x \in Source : row'[x] = Nil <=> row[x] = Nil
    <2>1. ASSUME NEW next \in Time \cup {Nil},
                 row' = [row EXCEPT ![s] = Flush("next", web.seen.next, next, @)]
          PROVE  <1>3!:
      <3>1. PICK f \in Row : f = Flush("next", web.seen.next, next, row[s])
                             /\ f.status = row[s].status
        BY <1>1, Flushes
      <3>2. row' = [row EXCEPT ![s] = f]
        BY <2>1, <3>1
      <3> QED
        BY <1>1, <3>1, <3>2, OneRowKept
    <2>2. CASE Follow
      BY <1>1, <2>1, <2>2, Syncs DEF Follow
    <2>3. CASE FollowCommit
      BY <1>1, <2>1, <2>3 DEF FollowCommit, WebRec
    <2>4. CASE row' = row
      BY <2>4, RowsStand DEF ScheduleInv, ScheduleTypeOK
    <2> QED
      BY <2>2, <2>3, <2>4 DEF WebStep, FollowLoad, FollowSync, FollowFails
  <1>4. /\ job' \in [Source -> Job \cup {Nil}]
        /\ \A x \in Source : row[x] = Nil => job'[x] = Nil
    <2>1. CASE FollowSync
      <3>1. PICK j \in Job \cup {Nil} : j = SyncedJob(job[s], web.seen)
        BY <1>1, Syncs
      <3>2. job' = [job EXCEPT ![s] = j]
        BY <2>1, <3>1 DEF FollowSync
      <3> QED
        BY <1>1, <3>2 DEF ScheduleInv, SourcesOK
    <2>2. CASE job' = job
      BY <1>1, <2>2 DEF ScheduleInv, SourcesOK
    <2> QED
      BY <2>1, <2>2 DEF WebStep, Follow, FollowLoad, FollowCommit, FollowFails
  <1>5. web' \in WebRec /\ (web'.pc # "idle" => web'.source = s /\ web'.seen \in Row)
    <2>1. NoWeb \in WebRec /\ NoWeb.pc = "idle"
      BY DEF NoWeb, WebRec
    <2>2. CASE FollowSync
      <3>1. SyncedNext(job[s], web.seen) \in Time \cup {Nil}
        BY <1>1, Syncs
      <3> QED
        BY <1>1, <2>2, <3>1 DEF FollowSync, WebRec
    <2>3. CASE Follow \/ FollowLoad \/ FollowCommit \/ FollowFails
      BY <1>1, <2>1, <2>3 DEF Follow, FollowLoad, FollowCommit, FollowFails, WebRec
    <2> QED
      BY <2>2, <2>3 DEF WebStep
  <1>6. faults' \in 0..MaxFaults
    BY ScheduleAssumption DEF WebStep, Follow, FollowLoad, FollowSync, FollowCommit, FollowFails,
                              ScheduleInv, ScheduleTypeOK
  <1>7. ScheduleTypeOK'
    BY <1>2, <1>3, <1>4, <1>5, <1>6 DEF ScheduleInv, ScheduleTypeOK, WebRec, Loaded
  <1>8. WebOK'
    BY <1>1, <1>3, <1>5 DEF WebOK
  <1> QED
    BY <1>2, <1>3, <1>4, <1>7, <1>8, Keepers, SourcesKept DEF ScheduleInv

\* The refresh flushes the next run of every row it had loaded, and nothing else.
LEMMA RefreshCommitKeeps ==
  ASSUME ScheduleInv, RefreshCommit
  PROVE  /\ row' \in [Source -> Row \cup {Nil}] /\ RowsKept
         /\ \A x \in Source : row'[x] = Nil <=> row[x] = Nil
  <1>0. row \in [Source -> Row \cup {Nil}]
    BY DEF ScheduleInv, ScheduleTypeOK
  <1>1. /\ refresh.next \in [Loaded -> Time \cup {Nil}]
        /\ \A x \in Loaded : x \in Source /\ refresh.seen[x] \in Row /\ row[x] # Nil
    BY DEF RefreshCommit, ScheduleInv, ScheduleTypeOK, RefreshOK, Loaded
  <1>2. ASSUME NEW x \in Source
        PROVE  /\ row'[x] \in Row \cup {Nil} /\ (row'[x] = Nil <=> row[x] = Nil)
               /\ row[x] # Nil => row'[x].status = row[x].status
    <2>1. CASE x \in Loaded
      <3>1. /\ row[x] \in Row /\ row[x] # Nil
            /\ refresh.next[x] \in Time \cup {Nil}
        BY <1>0, <1>1, <2>1
      <3>2. row'[x] = Flush("next", refresh.seen[x].next, refresh.next[x], row[x])
        <4> DEFINE Flushed(y) == Flush("next", refresh.seen[y].next, refresh.next[y], row[y])
        <4>1. row' = [y \in Source |-> IF y \in Loaded THEN Flushed(y) ELSE row[y]]
          BY DEF RefreshCommit
        <4> HIDE DEF Flushed
        <4>2. row'[x] = Flushed(x)
          BY <2>1, <4>1
        <4> QED
          BY <4>2 DEF Flushed
      <3>3. PICK old, next : old = refresh.seen[x].next /\ next = refresh.next[x]
        OBVIOUS
      <3>4. /\ Flush("next", old, next, row[x]) \in Row
            /\ Flush("next", old, next, row[x]).status = row[x].status
        BY <3>1, <3>3, Flushes, ZenonT(60)
      <3> QED
        BY <3>1, <3>2, <3>3, <3>4, NilIsNone
    <2>2. CASE x \notin Loaded
      BY <1>0, <2>2 DEF RefreshCommit
    <2> QED
      BY <2>1, <2>2
  <1>3. row' \in [Source -> Row \cup {Nil}] /\ RowsKept
    <2>1. row' = [x \in Source |-> row'[x]]
      BY DEF RefreshCommit
    <2> QED
      BY <1>2, <2>1 DEF RowsKept
  <1> QED
    BY <1>2, <1>3

\* The refresh loads all rows, changes all jobs and flushes all next runs.
LEMMA RefreshStepInv ==
  ASSUME ScheduleInv, RefreshStep
  PROVE  ScheduleInv'
  <1>1. /\ tick' = tick /\ web' = web /\ finished' = finished /\ embedded' = embedded
        /\ now' = now /\ slot' = slot /\ edits' = edits /\ faults' = faults
        /\ fired' = fired /\ calm' = calm /\ up' \in {up, "up"}
    BY DEF RefreshStep, RefreshLoad, RefreshSync, RefreshCommit, history
  <1>2. now \in Nat /\ row \in [Source -> Row \cup {Nil}] /\ job \in [Source -> Job \cup {Nil}]
    BY DEF ScheduleInv, ScheduleTypeOK
  <1>3. CASE RefreshLoad
    <2>1. row' = row /\ job' = job /\ up' = up
      BY <1>3 DEF RefreshLoad
    <2>2. /\ DOMAIN refresh' = {"pc", "seen", "next"}
          /\ refresh'.pc = "loaded" /\ refresh'.seen = row
      BY <1>3 DEF RefreshLoad, NoRefresh
    <2>3. RefreshOK'
      BY <2>1, <2>2 DEF RefreshOK
    <2>4. ScheduleTypeOK'
      BY <1>1, <1>2, <2>1, <2>2 DEF ScheduleInv, ScheduleTypeOK
    <2>5. SourcesOK'
      BY <1>1, <2>1 DEF ScheduleInv, SourcesOK
    <2> QED
      BY <1>1, <2>1, <2>3, <2>4, <2>5, RowsStand, Keepers DEF ScheduleInv
  <1>4. CASE RefreshSync
    <2>1. /\ row' = row /\ up' = up /\ refresh.pc = "loaded"
          /\ refresh.seen \in [Source -> Row \cup {Nil}]
          /\ DOMAIN refresh = {"pc", "seen", "next"}
          /\ \A x \in Loaded : x \in Source /\ refresh.seen[x] \in Row /\ row[x] # Nil
      BY <1>4 DEF RefreshSync, ScheduleInv, ScheduleTypeOK, RefreshOK, Loaded
    <2>2. \A x \in Loaded : /\ SyncedJob(job[x], refresh.seen[x]) \in Job \cup {Nil}
                            /\ SyncedNext(job[x], refresh.seen[x]) \in Time \cup {Nil}
      BY <1>2, <2>1, Syncs
    <2>3. PICK nexts : nexts = [x \in Loaded |-> SyncedNext(job[x], refresh.seen[x])]
      OBVIOUS
    <2>4. nexts \in [Loaded -> Time \cup {Nil}]
      BY <2>2, <2>3
    <2>5. /\ DOMAIN refresh' = {"pc", "seen", "next"} /\ refresh'.pc = "synced"
          /\ refresh'.seen = refresh.seen /\ refresh'.next = nexts
      BY <1>4, <2>1, <2>3 DEF RefreshSync
    <2>6. Loaded' = Loaded
      BY <2>5 DEF Loaded
    <2>7. /\ job' \in [Source -> Job \cup {Nil}]
          /\ \A x \in Source : row[x] = Nil => job'[x] = Nil
      BY <1>4, <2>1, <2>2 DEF RefreshSync
    <2>8. RefreshOK'
      BY <2>1, <2>5 DEF ScheduleInv, RefreshOK
    <2>9. ScheduleTypeOK'
      BY <1>1, <1>2, <2>1, <2>4, <2>5, <2>6, <2>7 DEF ScheduleInv, ScheduleTypeOK
    <2>10. SourcesOK'
      BY <1>1, <2>1, <2>7, RowsStand, SourcesKept
    <2> QED
      BY <1>1, <2>1, <2>8, <2>9, <2>10, RowsStand, Keepers DEF ScheduleInv
  <1>5. CASE RefreshCommit
    <2>1. /\ job' = job /\ refresh.pc = "synced" /\ refresh' = NoRefresh
          /\ refresh.next \in [Loaded -> Time \cup {Nil}]
          /\ \A x \in Loaded : x \in Source /\ refresh.seen[x] \in Row /\ row[x] # Nil
      BY <1>5 DEF RefreshCommit, ScheduleInv, ScheduleTypeOK, RefreshOK, Loaded
    <2>3. /\ row' \in [Source -> Row \cup {Nil}] /\ RowsKept
          /\ \A x \in Source : row'[x] = Nil <=> row[x] = Nil
      BY <1>5, RefreshCommitKeeps
    <2>4. DOMAIN refresh' = {"pc", "seen", "next"} /\ refresh'.pc = "idle"
      BY <2>1 DEF NoRefresh
    <2>5. RefreshOK'
      BY <2>4 DEF RefreshOK
    <2>6. ScheduleTypeOK'
      BY <1>1, <1>2, <2>1, <2>3, <2>4 DEF ScheduleInv, ScheduleTypeOK
    <2>7. SourcesOK'
      BY <1>1, <2>1, <2>3, SourcesKept DEF ScheduleInv, SourcesOK
    <2> QED
      BY <1>1, <2>3, <2>5, <2>6, <2>7, Keepers DEF ScheduleInv
  <1> QED
    BY <1>3, <1>4, <1>5 DEF RefreshStep

\* A dead process takes its jobs and ticks with it.
LEMMA DieInv ==
  ASSUME ScheduleInv, Die
  PROVE  ScheduleInv'
  <1>1. /\ row' = row /\ now' = now /\ embedded' = embedded /\ edits' = edits
        /\ fired' = fired /\ finished' = finished /\ up' = "down" /\ refresh' = NoRefresh
        /\ job' = [x \in Source |-> Nil] /\ calm' = [x \in Source |-> FALSE]
        /\ tick' = [t \in Thread |-> NoTick] /\ web' \in {web, NoWeb}
    BY Zenon DEF Die, Dead, NoJobs, Unsettled
  <1>2. slot' \in [Source -> Thread \cup {"other", Nil}]
    <2>1. slot' = [x \in Source |-> IF slot[x] \in Thread THEN "other" ELSE slot[x]]
      BY DEF Die, Dead
    <2> QED
      BY <2>1 DEF ScheduleInv, ScheduleTypeOK
  <1>3. faults' \in 0..MaxFaults
    BY ScheduleAssumption DEF Die, ScheduleInv, ScheduleTypeOK
  <1>4. NoTick \in TickRec /\ NoTick.pc = "idle" /\ NoTick.source = Nil
    BY DEF NoTick, TickRec
  <1>5. NoWeb \in WebRec /\ NoWeb.pc = "idle"
    BY DEF NoWeb, WebRec
  <1>6. DOMAIN refresh' = {"pc", "seen", "next"} /\ refresh'.pc = "idle"
    BY <1>1 DEF NoRefresh
  <1>7. calm' \in [Source -> BOOLEAN]
    BY <1>1
  <1>8. ScheduleTypeOK'
    BY <1>1, <1>2, <1>3, <1>4, <1>5, <1>6, <1>7 DEF ScheduleInv, ScheduleTypeOK, TickRec, WebRec
  <1>9. SourcesOK' /\ RefreshOK'
    BY <1>1, <1>6 DEF ScheduleInv, SourcesOK, RefreshOK
  <1>10. WebOK'
    BY <1>1, <1>5 DEF ScheduleInv, WebOK
  <1>11. \A t \in Thread : TickOK(t)'
    BY <1>1, <1>4 DEF TickOK, At
  <1>12. OneTickPerSource'
    BY <1>1, <1>4 DEF OneTickPerSource
  <1> QED
    BY <1>8, <1>9, <1>10, <1>11, <1>12 DEF ScheduleInv

\* A scheduler that starts or is shut down has no jobs; its ticks go on.
LEMMA HaltInv ==
  ASSUME ScheduleInv, Start \/ StartFails \/ Stop
  PROVE  ScheduleInv'
  <1>1. /\ row' = row /\ now' = now /\ embedded' = embedded /\ edits' = edits
        /\ tick' = tick /\ slot' = slot /\ web' = web /\ fired' = fired
        /\ finished' = finished
        /\ job' = [x \in Source |-> Nil] /\ calm' = [x \in Source |-> FALSE]
    BY Zenon DEF Start, StartFails, Stop, ShutDown, NoJobs, Unsettled
  <1>2. up' \in {"starting", "stopping", "off"} /\ refresh' \in {refresh, NoRefresh}
    BY DEF Start, StartFails, Stop, ShutDown
  <1>3. faults' \in 0..MaxFaults
    BY ScheduleAssumption DEF Start, StartFails, Stop, ShutDown, ScheduleInv, ScheduleTypeOK
  <1>4. /\ DOMAIN NoRefresh = {"pc", "seen", "next"} /\ NoRefresh.pc = "idle"
        /\ refresh' = refresh => Loaded' = Loaded
    BY DEF NoRefresh, Loaded
  <1>5. ScheduleTypeOK'
    <2>1. CASE refresh' = refresh
      BY <1>1, <1>2, <1>3, <1>4, <2>1 DEF ScheduleInv, ScheduleTypeOK
    <2>2. CASE refresh' = NoRefresh
      BY <1>1, <1>2, <1>3, <1>4, <2>2 DEF ScheduleInv, ScheduleTypeOK
    <2> QED
      BY <1>2, <2>1, <2>2
  <1>6. SourcesOK' /\ RefreshOK'
    BY <1>1, <1>2, <1>4 DEF ScheduleInv, SourcesOK, RefreshOK
  <1> QED
    BY <1>1, <1>5, <1>6, RowsStand, Keepers DEF ScheduleInv

LEMMA RefreshFailsInv ==
  ASSUME ScheduleInv, RefreshFails
  PROVE  ScheduleInv'
  <1>1. /\ row' = row /\ now' = now /\ embedded' = embedded /\ up' = up /\ job' = job
        /\ tick' = tick /\ slot' = slot /\ web' = web /\ edits' = edits
        /\ fired' = fired /\ calm' = calm /\ finished' = finished
        /\ refresh' = NoRefresh /\ faults < MaxFaults /\ faults' = faults + 1
    BY DEF RefreshFails, history
  <1>2. DOMAIN refresh' = {"pc", "seen", "next"} /\ refresh'.pc = "idle"
    BY <1>1 DEF NoRefresh
  <1>3. faults' \in 0..MaxFaults
    BY <1>1, ScheduleAssumption DEF ScheduleInv, ScheduleTypeOK
  <1>4. ScheduleTypeOK'
    BY <1>1, <1>2, <1>3 DEF ScheduleInv, ScheduleTypeOK
  <1>5. RefreshOK' /\ SourcesOK'
    BY <1>1, <1>2 DEF RefreshOK, ScheduleInv, SourcesOK
  <1> QED
    BY <1>1, <1>4, <1>5, RowsStand, Keepers DEF ScheduleInv

\* The jobs of others and the clock touch no row and no tick.
LEMMA WorldInv ==
  ASSUME ScheduleInv, Pass \/ \E s \in Source : OtherJob(s)
  PROVE  ScheduleInv'
  <1>1. /\ row' = row /\ embedded' = embedded /\ job' = job /\ refresh' = refresh
        /\ tick' = tick /\ edits' = edits /\ faults' = faults
        /\ fired' = fired /\ calm' = calm /\ finished' = finished
    BY DEF Pass, OtherJob, history
  <1>2. up' = up /\ web' = web
    BY DEF Pass, OtherJob, ScheduleInv, ScheduleTypeOK
  <1>3. now' \in 0..MaxNow
    BY ScheduleAssumption DEF Pass, OtherJob, ScheduleInv, ScheduleTypeOK
  <1>4. slot' \in [Source -> Thread \cup {"other", Nil}]
    BY DEF Pass, OtherJob, ScheduleInv, ScheduleTypeOK
  <1>5. Loaded' = Loaded
    BY <1>1 DEF Loaded
  <1>6. ScheduleTypeOK'
    BY <1>1, <1>2, <1>3, <1>4, <1>5 DEF ScheduleInv, ScheduleTypeOK
  <1>7. SourcesOK'
    BY <1>1 DEF ScheduleInv, SourcesOK
  <1> QED
    BY <1>1, <1>2, <1>6, <1>7, RowsStand, Keepers DEF ScheduleInv

----------------------------------------------------------------------------
(* Ticks *)

\* A tick of a source that no other tick runs.
LEMMA OneTickSteps ==
  ASSUME ScheduleInv, NEW t \in Thread, NEW k \in TickRec,
         tick' = [tick EXCEPT ![t] = k], TickOK(t)', RowsKept,
         \/ k.source = Nil \/ k.source = tick[t].source
         \/ \A u \in Thread : tick[u].source # k.source
  PROVE  /\ \A u \in Thread : TickOK(u)'
         /\ OneTickPerSource'
         /\ tick' \in [Thread -> TickRec]
  <1>1. /\ tick \in [Thread -> TickRec] /\ tick'[t] = k
        /\ \A u \in Thread \ {t} : tick'[u] = tick[u]
    BY DEF ScheduleInv, ScheduleTypeOK, TickRec
  <1>2. ASSUME NEW u \in Thread, u # t
        PROVE  TickOK(u)'
    BY <1>1, <1>2 DEF ScheduleInv, RowsKept, TickOK, At
  <1>3. OneTickPerSource'
    BY <1>1 DEF ScheduleInv, OneTickPerSource
  <1>4. tick' \in [Thread -> TickRec]
    BY <1>1
  <1> QED
    BY <1>2, <1>3, <1>4

LEMMA FireInv ==
  ASSUME ScheduleInv, NEW s \in Source, Fire(s)
  PROVE  ScheduleInv'
  <1>1. /\ row' = row /\ now' = now /\ embedded' = embedded /\ up' = up /\ refresh' = refresh
        /\ slot' = slot /\ web' = web /\ edits' = edits /\ faults' = faults
        /\ finished' = finished /\ job[s] # Nil
    BY DEF Fire
  <1>2. job[s] \in Job /\ row[s] # Nil /\ job[s].next \in Nat /\ job[s].days \in Nat
    <2>1. job[s] \in Job /\ row[s] # Nil
      BY <1>1 DEF ScheduleInv, ScheduleTypeOK, SourcesOK
    <2> QED
      BY <2>1, DayOptionsAssumption DEF Job, Time
  <1>2a. PICK j : j = [job[s] EXCEPT !.next = @ + job[s].days]
    OBVIOUS
  <1>3. j \in Job
    BY <1>2, <1>2a DEF Job, Time
  <1>4. job' = [job EXCEPT ![s] = j]
    BY <1>2a DEF Fire
  <1>5. /\ job' \in [Source -> Job \cup {Nil}]
        /\ \A x \in Source : row[x] = Nil => job'[x] = Nil
    BY <1>2, <1>3, <1>4 DEF ScheduleInv, ScheduleTypeOK, SourcesOK
  <1>6. fired' \in [Source -> Time \cup {Nil}]
    BY <1>2 DEF Fire, ScheduleInv, ScheduleTypeOK, Time
  <1>7. calm' \in [Source -> BOOLEAN]
    <2>1. Settled(s) \in BOOLEAN
      BY Zenon DEF Settled
    <2>2. calm' = [calm EXCEPT ![s] = Settled(s)]
      BY DEF Fire
    <2> QED
      BY <2>1, <2>2 DEF ScheduleInv, ScheduleTypeOK
  <1>8. /\ \A u \in Thread : TickOK(u)'
        /\ OneTickPerSource'
        /\ tick' \in [Thread -> TickRec]
    <2>1. CASE Running(s)
      BY <1>1, <2>1, RowsStand, Keepers DEF Fire, ScheduleInv, ScheduleTypeOK, TickRec
    <2>2. CASE ~Running(s)
      <3>1. PICK t \in Thread : tick' = [tick EXCEPT ![t] = [NoTick EXCEPT !.pc = "fired",
                                                                           !.source = s]]
        BY <2>2 DEF Fire
      <3>2. PICK k : k = [NoTick EXCEPT !.pc = "fired", !.source = s]
        OBVIOUS
      <3>3. k \in TickRec /\ k.pc = "fired" /\ k.source = s
        BY <3>2 DEF NoTick, TickRec
      <3>4. tick' = [tick EXCEPT ![t] = k] /\ tick'[t] = k
        BY <3>1, <3>2 DEF ScheduleInv, ScheduleTypeOK
      <3>5. TickOK(t)'
        BY <1>1, <1>2, <3>3, <3>4 DEF TickOK, At
      <3>6. \A u \in Thread : tick[u].source # k.source
        BY <2>2, <3>3 DEF Running
      <3> QED
        BY <1>1, <3>3, <3>4, <3>5, <3>6, RowsStand, OneTickSteps
    <2> QED
      BY <2>1, <2>2
  <1>9. Loaded' = Loaded
    BY <1>1 DEF Loaded
  <1>10. ScheduleTypeOK'
    BY <1>1, <1>5, <1>6, <1>7, <1>8, <1>9 DEF ScheduleInv, ScheduleTypeOK, TickRec
  <1>11. SourcesOK'
    BY <1>1, <1>5, RowsStand, SourcesKept
  <1> QED
    BY <1>1, <1>8, <1>10, <1>11, RowsStand, Keepers DEF ScheduleInv

\* What TickStep leaves alone.
LEMMA TickFrame ==
  ASSUME NEW t \in Thread, TickStep(t)
  PROVE  /\ now' = now /\ embedded' = embedded /\ up' = up /\ refresh' = refresh /\ web' = web
         /\ edits' = edits /\ faults' = faults /\ fired' = fired /\ calm' = calm
         /\ Loaded' = Loaded
  BY SMTT(30) DEF TickStep, TickLoad, TickStop, TickMark, TickCrawls, TickSkips, TickFails, TickCrawled,
         TickEnd, Ends, history, Loaded

\* The tick under way: its source is there.
LEMMA TickUnderWay ==
  ASSUME ScheduleInv, NEW t \in Thread, ~At(t, "idle")
  PROVE  /\ tick[t] \in TickRec /\ tick[t].source \in Source
         /\ row[tick[t].source] \in Row /\ row[tick[t].source] # Nil
         /\ tick[t].pc # "fired" => tick[t].seen \in Row
  BY DEF ScheduleInv, ScheduleTypeOK, TickRec, TickOK, At

\* A step of a tick that goes on, on the rows as they are.
LEMMA TickGoesOn ==
  ASSUME ScheduleInv, NEW t \in Thread, TickStep(t), NEW k \in TickRec,
         ~At(t, "idle"), tick' = [tick EXCEPT ![t] = k], k.source = tick[t].source,
         k.pc # "idle", k.pc # "fired" => k.seen \in Row,
         k.pc = "ending" => k.outcome \in Outcome /\ k.seen.status = row[k.source].status,
         row' = row, job' = job, finished' = finished,
         slot' \in [Source -> Thread \cup {"other", Nil}]
  PROVE  ScheduleInv'
  <1>1. tick'[t] = k
    BY DEF ScheduleInv, ScheduleTypeOK
  <1>2. TickOK(t)'
    BY <1>1, TickUnderWay DEF TickOK, At
  <1>3. /\ \A u \in Thread : TickOK(u)'
        /\ OneTickPerSource'
        /\ tick' \in [Thread -> TickRec]
    BY <1>2, RowsStand, OneTickSteps
  <1>4. ScheduleTypeOK'
    BY <1>3, TickFrame DEF ScheduleInv, ScheduleTypeOK, TickRec
  <1>5. SourcesOK'
    BY DEF ScheduleInv, SourcesOK
  <1> QED
    BY <1>3, <1>4, <1>5, TickFrame, RowsStand, Keepers DEF ScheduleInv

LEMMA TickLoadInv ==
  ASSUME ScheduleInv, NEW t \in Thread, TickLoad(t)
  PROVE  ScheduleInv'
  <1>1. /\ ~At(t, "idle") /\ TickStep(t)
    BY DEF TickLoad, TickStep, At
  <1>2. PICK k : k = [tick[t] EXCEPT !.pc = "loaded", !.seen = row[tick[t].source]]
    OBVIOUS
  <1>3. /\ k \in TickRec /\ k.pc = "loaded" /\ k.source = tick[t].source /\ k.seen \in Row
    BY <1>1, <1>2, TickUnderWay DEF TickRec
  <1>4. tick' = [tick EXCEPT ![t] = k]
    BY <1>2 DEF TickLoad
  <1>5. /\ row' = row /\ job' = job /\ finished' = finished
        /\ slot' \in [Source -> Thread \cup {"other", Nil}]
    BY DEF TickLoad, history, ScheduleInv, ScheduleTypeOK
  <1> QED
    BY <1>1, <1>3, <1>4, <1>5, TickGoesOn

LEMMA TickCrawlsInv ==
  ASSUME ScheduleInv, NEW t \in Thread, TickCrawls(t)
  PROVE  ScheduleInv'
  <1>1. /\ ~At(t, "idle") /\ TickStep(t) /\ tick[t].pc = "marked"
    BY DEF TickCrawls, TickStep, At
  <1>2. PICK k : k = [tick[t] EXCEPT !.pc = "crawling"]
    OBVIOUS
  <1>3. /\ k \in TickRec /\ k.pc = "crawling" /\ k.source = tick[t].source /\ k.seen \in Row
    BY <1>1, <1>2, TickUnderWay DEF TickRec
  <1>4. tick' = [tick EXCEPT ![t] = k]
    BY <1>2 DEF TickCrawls
  <1>5. /\ row' = row /\ job' = job /\ finished' = finished
        /\ slot' \in [Source -> Thread \cup {"other", Nil}]
    BY DEF TickCrawls, history, ScheduleInv, ScheduleTypeOK
  <1> QED
    BY <1>1, <1>3, <1>4, <1>5, TickGoesOn

\* However the crawl went, the row is loaded anew, with the status it has now.
LEMMA TickEndsInv ==
  ASSUME ScheduleInv, NEW t \in Thread, TickSkips(t) \/ TickFails(t) \/ TickCrawled(t)
  PROVE  ScheduleInv'
  <1>1. /\ ~At(t, "idle") /\ TickStep(t)
    BY DEF TickSkips, TickFails, TickCrawled, TickStep, At
  <1>2. PICK outcome \in Outcome : Ends(t, outcome)
    BY ScheduleAssumption DEF TickSkips, TickFails, TickCrawled, Outcome
  <1>3. PICK k : k = [tick[t] EXCEPT !.pc = "ending", !.seen = row[tick[t].source],
                                     !.outcome = outcome]
    OBVIOUS
  <1>4. /\ k \in TickRec /\ k.pc = "ending" /\ k.source = tick[t].source
        /\ k.seen = row[tick[t].source] /\ k.seen \in Row /\ k.outcome = outcome
    BY <1>1, <1>3, TickUnderWay DEF TickRec
  <1>5. tick' = [tick EXCEPT ![t] = k]
    BY <1>2, <1>3 DEF Ends
  <1>6. /\ row' = row /\ job' = job /\ finished' = finished
        /\ slot' \in [Source -> Thread \cup {"other", Nil}]
    BY DEF TickSkips, TickFails, TickCrawled, history, ScheduleInv, ScheduleTypeOK
  <1> QED
    BY <1>1, <1>4, <1>5, <1>6, TickGoesOn

LEMMA TickMarkInv ==
  ASSUME ScheduleInv, NEW t \in Thread, TickMark(t)
  PROVE  ScheduleInv'
  <1> DEFINE s == tick[t].source
  <1>1. ~At(t, "idle") /\ TickStep(t) /\ tick[t].pc = "loaded"
    BY DEF TickMark, TickStep, At
  <1>2. /\ tick[t] \in TickRec /\ s \in Source /\ row[s] \in Row /\ row[s] # Nil
        /\ tick[t].seen \in Row /\ now \in Nat
    BY <1>1, TickUnderWay DEF ScheduleInv, ScheduleTypeOK
  <1>2a. PICK f : f = Flush("last", tick[t].seen.last, now, row[s])
    OBVIOUS
  <1>3. f \in Row /\ f.status = row[s].status
    BY <1>2, <1>2a, Flushes DEF Time
  <1>4. row' = [row EXCEPT ![s] = f]
    BY <1>2a DEF TickMark
  <1>5. /\ RowsKept /\ row' \in [Source -> Row \cup {Nil}]
        /\ \A x \in Source : row'[x] = Nil <=> row[x] = Nil
    BY <1>2, <1>3, <1>4, OneRowKept
  <1>6. PICK seen : seen = [tick[t].seen EXCEPT !.last = now]
    OBVIOUS
  <1>7. seen \in Row
    BY <1>2, <1>6 DEF Row, Time
  <1>8. PICK k : k = [tick[t] EXCEPT !.pc = "marked", !.seen = seen]
    OBVIOUS
  <1>9. k \in TickRec /\ k.pc = "marked" /\ k.source = s /\ k.seen = seen
    BY <1>2, <1>7, <1>8 DEF TickRec
  <1>10. tick' = [tick EXCEPT ![t] = k] /\ tick'[t] = k
    <2>1. tick' = [tick EXCEPT ![t] = [tick[t] EXCEPT !.pc = "marked",
                                          !.seen = [tick[t].seen EXCEPT !.last = now]]]
      BY <1>2 DEF TickMark, TickRec, ScheduleInv, ScheduleTypeOK
    <2> QED
      BY <1>6, <1>8, <2>1 DEF ScheduleInv, ScheduleTypeOK
  <1>11. TickOK(t)'
    BY <1>2, <1>5, <1>7, <1>9, <1>10 DEF TickOK, At
  <1>12. /\ \A u \in Thread : TickOK(u)'
         /\ OneTickPerSource'
         /\ tick' \in [Thread -> TickRec]
    BY <1>5, <1>9, <1>10, <1>11, OneTickSteps
  <1>13. job' = job /\ slot' = slot /\ finished' = finished
    BY DEF TickMark, history
  <1>14. ScheduleTypeOK'
    BY <1>1, <1>5, <1>12, <1>13, TickFrame DEF ScheduleInv, ScheduleTypeOK, TickRec
  <1>15. SourcesOK'
    BY <1>5, <1>13, SourcesKept DEF ScheduleInv, SourcesOK
  <1> QED
    BY <1>1, <1>5, <1>12, <1>14, <1>15, TickFrame, Keepers DEF ScheduleInv

\* A tick that is over leaves its thread idle.
LEMMA TickGone ==
  ASSUME ScheduleInv, NEW t \in Thread, tick' = [tick EXCEPT ![t] = NoTick]
  PROVE  /\ NoTick \in TickRec /\ tick' \in [Thread -> TickRec]
         /\ tick'[t] = NoTick /\ \A u \in Thread \ {t} : tick'[u] = tick[u]
         /\ TickOK(t)' /\ OneTickPerSource'
  <1>1. NoTick \in TickRec /\ NoTick.source = Nil /\ NoTick.pc = "idle"
    BY DEF NoTick, TickRec
  <1>2. /\ tick' \in [Thread -> TickRec] /\ tick'[t] = NoTick
        /\ \A u \in Thread \ {t} : tick'[u] = tick[u]
    BY <1>1 DEF ScheduleInv, ScheduleTypeOK, TickRec
  <1>3. TickOK(t)'
    BY <1>1, <1>2 DEF TickOK, At
  <1>4. OneTickPerSource'
    BY <1>1, <1>2 DEF ScheduleInv, OneTickPerSource
  <1> QED
    BY <1>1, <1>2, <1>3, <1>4

LEMMA TickStopInv ==
  ASSUME ScheduleInv, NEW t \in Thread, TickStop(t)
  PROVE  ScheduleInv'
  <1> DEFINE s == tick[t].source
  <1>1. ~At(t, "idle") /\ TickStep(t) /\ tick[t].pc = "loaded"
    BY DEF TickStop, TickStep, At
  <1>2. /\ tick[t] \in TickRec /\ s \in Source /\ row[s] \in Row /\ row[s] # Nil
        /\ tick[t].seen \in Row
    BY <1>1, TickUnderWay
  <1>2a. PICK f : f = Flush("next", tick[t].seen.next, Nil, row[s])
    OBVIOUS
  <1>3. f \in Row /\ f.status = row[s].status
    BY <1>2, <1>2a, Flushes
  <1>4. row' = [row EXCEPT ![s] = f]
    BY <1>2a DEF TickStop
  <1>5. /\ RowsKept /\ row' \in [Source -> Row \cup {Nil}]
        /\ \A x \in Source : row'[x] = Nil <=> row[x] = Nil
    BY <1>2, <1>3, <1>4, OneRowKept
  <1>6. tick' = [tick EXCEPT ![t] = NoTick] /\ job' = [job EXCEPT ![s] = Nil]
        /\ slot' = slot /\ finished' = finished
    BY DEF TickStop, history
  <1>7. NoTick.source = Nil
    BY DEF NoTick
  <1>8. /\ \A u \in Thread : TickOK(u)'
        /\ OneTickPerSource'
        /\ tick' \in [Thread -> TickRec]
    BY <1>5, <1>6, <1>7, TickGone, OneTickSteps
  <1>9. /\ job' \in [Source -> Job \cup {Nil}]
        /\ \A x \in Source : row[x] = Nil => job'[x] = Nil
    BY <1>2, <1>6 DEF ScheduleInv, ScheduleTypeOK, SourcesOK
  <1>10. ScheduleTypeOK'
    BY <1>1, <1>5, <1>6, <1>8, <1>9, TickFrame DEF ScheduleInv, ScheduleTypeOK, TickRec
  <1>11. SourcesOK'
    BY <1>5, <1>6, <1>9, SourcesKept
  <1> QED
    BY <1>1, <1>5, <1>8, <1>10, <1>11, TickFrame, Keepers DEF ScheduleInv

\* The next run that the end of a tick reads off the job.
LEMMA NextOfJob ==
  ASSUME ScheduleInv, NEW s \in Source
  PROVE  (IF job[s] = Nil THEN Nil ELSE job[s].next) \in Time \cup {Nil}
  <1>1. job[s] \in Job \cup {Nil}
    BY DEF ScheduleInv, ScheduleTypeOK
  <1>2. CASE job[s] # Nil
    <2>1. job[s] \in Job
      BY <1>1, <1>2
    <2>2. job[s].next \in Time
      BY <2>1 DEF Job
    <2> QED
      BY <1>2, <2>2
  <1> QED
    BY <1>2

\* The end of a tick writes the status unless it is the one loaded; that one still
\* stands in the row, since no other tick of the source runs.
LEMMA TickEndInv ==
  ASSUME ScheduleInv, NEW t \in Thread, TickEnd(t)
  PROVE  ScheduleInv'
  <1> DEFINE s == tick[t].source
  <1>1. ~At(t, "idle") /\ TickStep(t) /\ tick[t].pc = "ending"
    BY DEF TickEnd, TickStep, At
  <1>2. /\ tick[t] \in TickRec /\ s \in Source /\ row[s] \in Row /\ row[s] # Nil
        /\ tick[t].seen \in Row /\ tick[t].outcome \in Outcome
        /\ tick[t].seen.status = row[s].status
    BY <1>1, TickUnderWay DEF ScheduleInv, TickOK, At
  <1>3. PICK outcome \in Outcome : outcome = tick[t].outcome
    BY <1>2
  <1>4. PICK next \in Time \cup {Nil} : next = IF job[s] = Nil THEN Nil ELSE job[s].next
    BY <1>2, NextOfJob
  <1>4a. PICK f : f = Flush("status", tick[t].seen.status, outcome, row[s])
    OBVIOUS
  <1>5. f \in Row /\ f.status = outcome
    <2>1. PICK r \in Row : r = row[s] /\ tick[t].seen.status = r.status
      BY <1>2
    <2>1a. PICK old : old = tick[t].seen.status
      OBVIOUS
    <2>2. /\ Flush("status", old, outcome, r) \in Row
          /\ Flush("status", old, outcome, r).status = outcome
      <3>1. old = r.status
        BY <2>1, <2>1a
      <3> QED
        BY <3>1, Flushes
    <2> QED
      BY <1>4a, <2>1, <2>1a, <2>2
  <1>5a. PICK g : g = Flush("next", tick[t].seen.next, next, f)
    OBVIOUS
  <1>6. g \in Row /\ g.status = outcome
    BY <1>5, <1>5a, Flushes
  <1>7. row' = [row EXCEPT ![s] = g]
    BY <1>3, <1>4, <1>4a, <1>5a DEF TickEnd, Ended
  <1>8. /\ row' \in [Source -> Row \cup {Nil}] /\ row'[s] = g
        /\ \A x \in Source \ {s} : row'[x] = row[x]
        /\ \A x \in Source : row[x] # Nil => row'[x] # Nil
    BY <1>2, <1>6, <1>7, NilIsNone DEF ScheduleInv, ScheduleTypeOK
  <1>9. /\ tick' = [tick EXCEPT ![t] = NoTick] /\ finished' = [finished EXCEPT ![s] = outcome]
        /\ job' = job /\ slot' = slot
    BY <1>3 DEF TickEnd
  <1>10. /\ tick' \in [Thread -> TickRec] /\ OneTickPerSource' /\ TickOK(t)'
         /\ \A u \in Thread \ {t} : tick'[u] = tick[u]
    BY <1>9, TickGone
  <1>11. ASSUME NEW u \in Thread, u # t
         PROVE  TickOK(u)'
    <2>1. tick[u].source # s
      BY <1>2, <1>11, NilIsNone DEF ScheduleInv, OneTickPerSource
    <2> QED
      BY <1>8, <1>10, <1>11, <2>1 DEF ScheduleInv, TickOK, At
  <1>12. /\ finished' \in [Source -> Outcome \cup {Nil}] /\ finished'[s] = outcome
         /\ \A x \in Source \ {s} : finished'[x] = finished[x]
    BY <1>2, <1>9 DEF ScheduleInv, ScheduleTypeOK
  <1>13. SourcesOK'
    BY <1>6, <1>8, <1>9, <1>12, NilIsNone DEF ScheduleInv, SourcesOK
  <1>14. ScheduleTypeOK'
    BY <1>1, <1>8, <1>9, <1>10, <1>12, TickFrame DEF ScheduleInv, ScheduleTypeOK, TickRec
  <1>15. RefreshOK' /\ WebOK'
    BY <1>1, <1>8, TickFrame DEF ScheduleInv, RefreshOK, WebOK
  <1> QED
    BY <1>10, <1>11, <1>13, <1>14, <1>15 DEF ScheduleInv

----------------------------------------------------------------------------
(* Theorems *)

LEMMA ScheduleInit == Init => ScheduleInv
  <1> SUFFICES ASSUME Init
               PROVE  ScheduleInv
    OBVIOUS
  <1> USE DEF Init
  <1>1. NoTick \in TickRec /\ NoTick.pc = "idle" /\ NoTick.source = Nil
    BY DEF NoTick, TickRec
  <1>2. NoWeb \in WebRec /\ NoWeb.pc = "idle"
    BY DEF NoWeb, WebRec
  <1>3. NoRefresh.pc = "idle" /\ DOMAIN NoRefresh = {"pc", "seen", "next"}
    BY DEF NoRefresh
  <1>4. calm \in [Source -> BOOLEAN]
    OBVIOUS
  <1>5. ScheduleTypeOK
    BY <1>1, <1>2, <1>3, <1>4, ScheduleAssumption DEF ScheduleTypeOK, TickRec, WebRec
  <1>6. SourcesOK /\ RefreshOK /\ WebOK
    BY <1>2, <1>3 DEF SourcesOK, RefreshOK, WebOK
  <1>7. \A t \in Thread : TickOK(t)
    BY <1>1 DEF TickOK, At
  <1>8. OneTickPerSource
    BY <1>1 DEF OneTickPerSource
  <1> QED
    BY <1>5, <1>6, <1>7, <1>8 DEF ScheduleInv

LEMMA ScheduleStep == ScheduleInv /\ [Next]_scheduleVars => ScheduleInv'
  <1> SUFFICES ASSUME ScheduleInv, [Next]_scheduleVars
               PROVE  ScheduleInv'
    OBVIOUS
  <1>1. CASE UNCHANGED scheduleVars
    <2>1. /\ row' = row /\ now' = now /\ embedded' = embedded /\ up' = up /\ job' = job
          /\ refresh' = refresh /\ tick' = tick /\ slot' = slot /\ web' = web
          /\ edits' = edits /\ faults' = faults
          /\ fired' = fired /\ calm' = calm /\ finished' = finished
      BY <1>1 DEF scheduleVars, state, history
    <2>2. ScheduleTypeOK'
      BY <2>1 DEF ScheduleInv, ScheduleTypeOK, Loaded
    <2>3. SourcesOK'
      BY <2>1 DEF ScheduleInv, SourcesOK
    <2> QED
      BY <2>1, <2>2, <2>3, RowsStand, Keepers DEF ScheduleInv
  <1>2. CASE Next
    <2>1. ASSUME NEW t \in Thread, TickStep(t)
          PROVE  ScheduleInv'
      BY <2>1, TickLoadInv, TickStopInv, TickMarkInv, TickCrawlsInv, TickEndsInv, TickEndInv
         DEF TickStep
    <2>2. CASE RefreshFails \/ Start \/ StartFails \/ Stop
      BY <2>2, RefreshFailsInv, HaltInv
    <2>3. CASE Crash
      BY <2>3, DieInv DEF Crash
    <2> QED
      BY <1>2, <2>1, <2>2, <2>3, EditInv, FireInv, WebStepInv, RefreshStepInv, WorldInv DEF Next
  <1> QED
    BY <1>1, <1>2

LEMMA ScheduleInvariant == Spec => []ScheduleInv
  BY ScheduleInit, ScheduleStep, PTL DEF Spec

\* Rows, jobs and loaded copies keep their types whatever is posted to the six
\* entrances, and for any number of sources and threads (SourceSchedule.ScheduleTypeOK).
THEOREM ScheduleTyped == Spec => []ScheduleTypeOK
  <1>1. ScheduleInv => ScheduleTypeOK
    BY DEF ScheduleInv
  <1> QED
    BY <1>1, ScheduleInvariant, PTL

\* The status shown for a source is that of the last tick that finished, although a
\* tick's UPDATE leaves the status out when it is the one the tick had loaded
\* (SourceSchedule.StatusIsOfLastRun).
THEOREM StatusShownIsTheLast == Spec => []StatusIsOfLastRun
  <1>1. ScheduleInv => StatusIsOfLastRun
    BY DEF ScheduleInv, SourcesOK, StatusIsOfLastRun, Stored
  <1> QED
    BY <1>1, ScheduleInvariant, PTL

----------------------------------------------------------------------------
(* The rhythm.  A calm source is one whose settings have reached every copy *)
(* that a refresh, a request or a tick may still act upon; so nothing drops *)
(* or remakes its job, whose next run lies an interval after the last one.  *)

Agree(r, q) == r.active = q.active /\ r.enabled = q.enabled /\ r.days = q.days

InRhythm(s) ==
    /\ row[s] # Nil /\ job[s] # Nil /\ Should(row[s]) /\ job[s].days = row[s].days
    /\ fired[s] \in Nat /\ job[s].next >= fired[s] + row[s].days
    /\ refresh.pc = "loaded" => refresh.seen[s] # Nil /\ Follows(job[s], refresh.seen[s])
    /\ web.pc # "idle" => web.source # s
    /\ \A t \in Thread : tick[t].source = s /\ tick[t].pc = "loaded" => Should(tick[t].seen)

CalmInv == \A s \in Source : calm[s] => InRhythm(s)

LEMMA FlushesAgree ==
  ASSUME NEW r \in Row, NEW old, NEW new, NEW f,
         \/ f = Flush("next", old, new, r)
         \/ f = Flush("last", old, new, r)
         \/ f = Flush("status", old, new, r)
  PROVE  Agree(f, r)
  BY DEF Flush, Row, Agree

LEMMA AgreeingFollow ==
  ASSUME NEW r, NEW q, Agree(r, q)
  PROVE  (Should(r) <=> Should(q)) /\ \A j : Follows(j, r) <=> Follows(j, q)
  BY DEF Agree, Should, Follows

\* A job that follows the settings is not touched by a refresh.
LEMMA FollowedIsKept ==
  ASSUME NEW j, NEW r, j # Nil, Follows(j, r)
  PROVE  SyncedJob(j, r) = j /\ Should(r)
  BY DEF Follows, SyncedJob

\* A step that leaves the job of a calm source alone, and its settings.
LEMMA RhythmGoesOn ==
  ASSUME ScheduleInv, NEW s \in Source, InRhythm(s),
         row'[s] # Nil, Agree(row'[s], row[s]), job'[s] = job[s], fired'[s] = fired[s],
         refresh'.pc = "loaded" => refresh' = refresh,
         web'.pc # "idle" => web'.source # s,
         \A t \in Thread : tick'[t].source = s /\ tick'[t].pc = "loaded"
                              => tick'[t] = tick[t] \/ Should(tick'[t].seen)
  PROVE  InRhythm(s)'
  <1>1. Should(row'[s]) /\ row'[s].days = row[s].days
    BY AgreeingFollow DEF InRhythm, Agree
  <1>2. (refresh.pc = "loaded" => refresh.seen[s] # Nil /\ Follows(job[s], refresh.seen[s]))'
    BY DEF InRhythm, Follows
  <1>3. \A t \in Thread : tick'[t].source = s /\ tick'[t].pc = "loaded" => Should(tick'[t].seen)
    BY DEF InRhythm
  <1> QED
    BY <1>1, <1>2, <1>3 DEF InRhythm

LEMMA SameAgree ==
  ASSUME NEW r
  PROVE  Agree(r, r)
  BY DEF Agree

LEMMA RhythmEdit ==
  ASSUME ScheduleInv, NEW s \in Source, InRhythm(s), NEW x \in Source, Edit(x), calm'[s]
  PROVE  InRhythm(s)'
  <1>1. x # s
    BY DEF Edit, ScheduleInv, ScheduleTypeOK
  <1>2. row'[s] = row[s]
    BY <1>1 DEF Edit, ScheduleInv, ScheduleTypeOK
  <1>3. web'.source # s
    BY <1>1 DEF Edit, NoWeb
  <1>4. job' = job /\ fired' = fired /\ refresh' = refresh /\ tick' = tick
    BY DEF Edit
  <1> QED
    BY <1>2, <1>3, <1>4, SameAgree, RhythmGoesOn DEF InRhythm

LEMMA RhythmWeb ==
  ASSUME ScheduleInv, NEW s \in Source, InRhythm(s), WebStep \/ FollowFails
  PROVE  InRhythm(s)'
  <1>1. web.source # s
    BY DEF InRhythm, WebStep, Follow, FollowLoad, FollowSync, FollowCommit, FollowFails
  <1>2. fired' = fired /\ refresh' = refresh /\ tick' = tick
    BY DEF WebStep, Follow, FollowLoad, FollowSync, FollowCommit, FollowFails, history
  <1>3. row'[s] = row[s] /\ job'[s] = job[s]
    BY <1>1 DEF WebStep, Follow, FollowLoad, FollowSync, FollowCommit, FollowFails,
                ScheduleInv, ScheduleTypeOK
  <1>4. web'.pc # "idle" => web'.source = web.source
    <2>1. CASE web'.pc = "idle"
      BY <2>1
    <2>2. CASE /\ DOMAIN web = {"pc", "source", "seen", "next"}
               /\ \/ web' = [web EXCEPT !.pc = "load"]
                  \/ web' = [web EXCEPT !.pc = "sync", !.seen = row[web.source]]
                  \/ web' = [web EXCEPT !.pc = "commit",
                                          !.next = SyncedNext(job[web.source], web.seen)]
      BY <2>2
    <2>3. DOMAIN web = {"pc", "source", "seen", "next"}
      BY DEF ScheduleInv, ScheduleTypeOK
    <2> QED
      BY <2>1, <2>2, <2>3 DEF WebStep, Follow, FollowLoad, FollowSync, FollowCommit,
                              FollowFails, NoWeb
  <1> QED
    BY <1>1, <1>2, <1>3, <1>4, SameAgree, RhythmGoesOn DEF InRhythm

LEMMA RhythmRefresh ==
  ASSUME ScheduleInv, NEW s \in Source, InRhythm(s), RefreshStep
  PROVE  InRhythm(s)'
  <1>1. fired' = fired /\ tick' = tick /\ web' = web
    BY DEF RefreshStep, RefreshLoad, RefreshSync, RefreshCommit, history
  <1>2. row[s] \in Row /\ row[s] # Nil
    BY DEF InRhythm, ScheduleInv, ScheduleTypeOK
  <1>3. CASE RefreshLoad
    <2>1. /\ row' = row /\ job' = job /\ refresh'.seen = row
      BY <1>3 DEF RefreshLoad, NoRefresh
    <2>2. Follows(job[s], row[s])
      BY DEF InRhythm, Follows
    <2> QED
      BY <1>1, <1>2, <2>1, <2>2 DEF InRhythm, Follows
  <1>4. CASE RefreshSync
    <2>1. /\ row' = row /\ refresh.pc = "loaded" /\ refresh'.pc = "synced"
      BY <1>4 DEF RefreshSync, ScheduleInv, RefreshOK
    <2>2. job[s] # Nil /\ s \in Loaded /\ Follows(job[s], refresh.seen[s])
      BY <2>1 DEF InRhythm, Loaded
    <2>3. job'[s] = job[s]
      <3> DEFINE Synced(x) == SyncedJob(job[x], refresh.seen[x])
      <3>1. job' = [x \in Source |-> IF x \in Loaded THEN Synced(x) ELSE Nil]
        BY <1>4 DEF RefreshSync
      <3>2. Synced(s) = job[s]
        BY <2>2, FollowedIsKept
      <3> HIDE DEF Synced
      <3> QED
        BY <2>2, <3>1, <3>2
    <2> QED
      BY <1>1, <1>2, <2>1, <2>3, SameAgree, RhythmGoesOn DEF InRhythm
  <1>5. CASE RefreshCommit
    <2>1. job' = job /\ refresh'.pc = "idle"
      BY <1>5 DEF RefreshCommit, NoRefresh
    <2>2. row'[s] # Nil /\ Agree(row'[s], row[s])
      <3> DEFINE Flushed(x) == Flush("next", refresh.seen[x].next, refresh.next[x], row[x])
      <3>1. row' = [x \in Source |-> IF x \in Loaded THEN Flushed(x) ELSE row[x]]
        BY <1>5 DEF RefreshCommit
      <3>2. Agree(Flushed(s), row[s])
        BY <1>2, FlushesAgree
      <3>3. Agree(row[s], row[s])
        BY SameAgree
      <3> HIDE DEF Flushed
      <3>4. row'[s] \in {Flushed(s), row[s]}
        BY <3>1
      <3>5. RowsKept
        BY <1>5, RefreshCommitKeeps
      <3> QED
        BY <1>2, <3>2, <3>3, <3>4, <3>5 DEF RowsKept
    <2> QED
      BY <1>1, <2>1, <2>2, RhythmGoesOn DEF InRhythm
  <1> QED
    BY <1>3, <1>4, <1>5 DEF RefreshStep

LEMMA RhythmFire ==
  ASSUME ScheduleInv, NEW s \in Source, NEW x \in Source, Fire(x), calm'[s],
         calm[s] => InRhythm(s)
  PROVE  InRhythm(s)'
  <1>1. /\ row' = row /\ refresh' = refresh /\ web' = web /\ job[x] # Nil
        /\ tick \in [Thread -> TickRec] /\ job \in [Source -> Job \cup {Nil}]
        /\ row \in [Source -> Row \cup {Nil}]
    BY DEF Fire, ScheduleInv, ScheduleTypeOK, TickRec
  <1>2. \A t \in Thread : tick'[t] = tick[t] \/ tick'[t].pc = "fired"
    <2>1. CASE Running(x)
      BY <2>1 DEF Fire
    <2>2. CASE ~Running(x)
      <3>1. PICK t \in Thread : tick' = [tick EXCEPT ![t] = [NoTick EXCEPT !.pc = "fired",
                                                                           !.source = x]]
        BY <2>2 DEF Fire
      <3>2. [NoTick EXCEPT !.pc = "fired", !.source = x].pc = "fired"
        BY DEF NoTick
      <3> QED
        BY <1>1, <3>1, <3>2
    <2> QED
      BY <2>1, <2>2
  <1>3. \A t \in Thread : tick'[t].source = s /\ tick'[t].pc = "loaded" => tick'[t] = tick[t]
    BY <1>2
  <1>4. CASE s # x
    <2>1. calm[s] /\ job'[s] = job[s] /\ fired'[s] = fired[s]
      BY <1>1, <1>4 DEF Fire, ScheduleInv, ScheduleTypeOK
    <2> QED
      BY <1>1, <1>3, <2>1, SameAgree, RhythmGoesOn DEF InRhythm
  <1>5. CASE s = x
    <2>1. Settled(s)
      BY <1>5 DEF Fire, ScheduleInv, ScheduleTypeOK
    <2>2. job[s] \in Job /\ row[s] # Nil /\ row[s] \in Row
      BY <1>1, <1>5 DEF ScheduleInv, SourcesOK
    <2>3. /\ Should(row[s]) /\ job[s].days = row[s].days
          /\ job[s].next \in Nat /\ job[s].days \in Nat
      BY <1>1, <1>5, <2>1, <2>2, DayOptionsAssumption DEF Settled, Follows, Job, Time
    <2>4. PICK j : j = [job[s] EXCEPT !.next = @ + job[s].days]
      OBVIOUS
    <2>5. j.days = job[s].days /\ j.next = job[s].next + job[s].days /\ j \in Job
      BY <2>2, <2>3, <2>4 DEF Job, Time
    <2>6. job'[s] = j /\ fired'[s] = job[s].next
      BY <1>1, <1>5, <2>4 DEF Fire, ScheduleInv, ScheduleTypeOK
    <2>7. job'[s] # Nil /\ job'[s].days = row[s].days /\ job'[s].next >= fired'[s] + row[s].days
      BY <2>3, <2>5, <2>6, NilIsNone
    <2>8. refresh.pc = "loaded" => refresh.seen[s] # Nil /\ Follows(job'[s], refresh.seen[s])
      BY <1>1, <1>5, <2>1, <2>5, <2>6, <2>7 DEF Settled, Follows
    <2>9. web.pc = "idle"
      BY <2>1 DEF Settled
    <2>10. \A t \in Thread : tick'[t].source = s /\ tick'[t].pc = "loaded"
                                => Should(tick'[t].seen)
      BY <1>3, <2>1 DEF Settled
    <2> QED
      BY <1>1, <2>2, <2>3, <2>6, <2>7, <2>8, <2>9, <2>10 DEF InRhythm
  <1> QED
    BY <1>4, <1>5

LEMMA RhythmTick ==
  ASSUME ScheduleInv, NEW s \in Source, InRhythm(s), NEW t \in Thread, TickStep(t)
  PROVE  InRhythm(s)'
  <1> DEFINE x == tick[t].source
  <1>1. fired' = fired /\ refresh' = refresh /\ web' = web
    BY TickFrame
  <1>2. /\ tick \in [Thread -> TickRec] /\ row \in [Source -> Row \cup {Nil}]
        /\ row[s] \in Row /\ row[s] # Nil
    BY DEF InRhythm, ScheduleInv, ScheduleTypeOK, TickRec
  <1>3. ~At(t, "idle")
    BY DEF At, TickStep, TickLoad, TickStop, TickMark, TickCrawls, TickSkips, TickFails,
           TickCrawled, TickEnd
  <1>4. x \in Source /\ row[x] \in Row /\ row[x] # Nil
    BY <1>3, TickUnderWay
  <1>5. job'[s] = job[s]
    <2>1. CASE TickStop(t)
      <3>1. x # s
        BY <2>1 DEF TickStop, InRhythm, At
      <3> QED
        BY <2>1, <3>1 DEF TickStop, ScheduleInv, ScheduleTypeOK
    <2>2. CASE job' = job
      BY <2>2
    <2> QED
      BY <2>1, <2>2 DEF TickStep, TickLoad, TickMark, TickCrawls, TickSkips, TickFails,
                        TickCrawled, TickEnd
  <1>6. row'[s] # Nil /\ Agree(row'[s], row[s])
    <2>1. CASE row' = row
      BY <1>2, <2>1, SameAgree
    <2>2. ASSUME NEW f, row' = [row EXCEPT ![x] = f], f # Nil, Agree(f, row[x])
          PROVE  <1>6!:
      BY <1>2, <1>4, <2>2, SameAgree
    <2>3. CASE TickStop(t)
      <3>1. PICK f : f = Flush("next", tick[t].seen.next, Nil, row[x])
        OBVIOUS
      <3>2. f \in Row /\ Agree(f, row[x])
        BY <1>4, <3>1, Flushes, FlushesAgree
      <3> QED
        BY <2>2, <2>3, <3>1, <3>2, NilIsNone DEF TickStop
    <2>4. CASE TickMark(t)
      <3>1. PICK old, f : old = tick[t].seen.last /\ f = Flush("last", old, now, row[x])
        OBVIOUS
      <3>2. now \in Time
        BY DEF ScheduleInv, ScheduleTypeOK, Time
      <3>3. f \in Row
        BY <1>4, <3>1, <3>2, Flushes
      <3>4. Agree(f, row[x])
        BY <1>4, <3>1, FlushesAgree
      <3> QED
        BY <2>2, <2>4, <3>1, <3>3, <3>4, NilIsNone DEF TickMark
    <2>5. CASE TickEnd(t)
      <3>1. PICK f, g, next : /\ next = IF job[x] = Nil THEN Nil ELSE job[x].next
                              /\ f = Flush("status", tick[t].seen.status, tick[t].outcome, row[x])
                              /\ g = Flush("next", tick[t].seen.next, next, f)
        OBVIOUS
      <3>2. tick[t].outcome \in Outcome
        BY <2>5 DEF TickEnd, ScheduleInv, TickOK, At
      <3>3. f \in Row /\ Agree(f, row[x])
        BY <1>4, <3>1, <3>2, Flushes, FlushesAgree
      <3>4. next \in Time \cup {Nil}
        BY <1>4, <3>1, NextOfJob
      <3>5. g \in Row /\ Agree(g, f)
        BY <3>1, <3>3, <3>4, Flushes, FlushesAgree
      <3>6. Agree(g, row[x])
        BY <3>3, <3>5 DEF Agree
      <3> QED
        BY <2>2, <2>5, <3>1, <3>5, <3>6, NilIsNone DEF TickEnd, Ended
    <2> QED
      BY <2>1, <2>3, <2>4, <2>5 DEF TickStep, TickLoad, TickCrawls, TickSkips, TickFails,
                                    TickCrawled
  <1>7. ASSUME NEW u \in Thread, tick'[u].source = s, tick'[u].pc = "loaded"
        PROVE  tick'[u] = tick[u] \/ Should(tick'[u].seen)
    <2>1. CASE TickLoad(t)
      <3>1. PICK k : k = [tick[t] EXCEPT !.pc = "loaded", !.seen = row[x]]
        OBVIOUS
      <3>2. k.source = x /\ k.seen = row[x]
        BY <1>2, <3>1 DEF TickRec
      <3>3. tick' = [tick EXCEPT ![t] = k]
        BY <2>1, <3>1 DEF TickLoad
      <3> QED
        BY <1>2, <1>7, <3>2, <3>3 DEF InRhythm
    <2>2. CASE ~TickLoad(t)
      <3>1. u # t => tick'[u] = tick[u]
        BY <1>2, <2>2 DEF TickStep, TickStop, TickMark, TickCrawls, TickSkips, TickFails,
                          TickCrawled, TickEnd, Ends
      <3>2. tick'[t].pc # "loaded"
        <4>1. CASE TickStop(t) \/ TickEnd(t)
          BY <1>2, <4>1 DEF TickStop, TickEnd, NoTick
        <4>2. CASE TickMark(t) \/ TickCrawls(t)
          BY <1>2, <4>2 DEF TickMark, TickCrawls, TickRec
        <4>3. CASE TickSkips(t) \/ TickFails(t) \/ TickCrawled(t)
          BY <1>2, <4>3 DEF TickSkips, TickFails, TickCrawled, Ends, TickRec
        <4> QED
          BY <2>2, <4>1, <4>2, <4>3 DEF TickStep
      <3> QED
        BY <1>7, <3>1, <3>2
    <2> QED
      BY <2>1, <2>2
  <1> QED
    BY <1>1, <1>5, <1>6, <1>7, RhythmGoesOn DEF InRhythm

LEMMA CalmStep == ScheduleInv /\ CalmInv /\ [Next]_scheduleVars => CalmInv'
  <1> SUFFICES ASSUME ScheduleInv, CalmInv, [Next]_scheduleVars,
                      NEW s \in Source, calm'[s]
               PROVE  InRhythm(s)'
    BY DEF CalmInv
  <1>1. calm[s] => InRhythm(s)
    BY DEF CalmInv
  <1>2. CASE \E x \in Source : Fire(x)
    BY <1>1, <1>2, RhythmFire
  <1>3. CASE calm' = Unsettled
    BY <1>3 DEF Unsettled
  <1>4. CASE \E x \in Source : Edit(x)
    <2>1. PICK x \in Source : Edit(x)
      BY <1>4
    <2>2. calm[s]
      BY <2>1 DEF Edit, ScheduleInv, ScheduleTypeOK
    <2> QED
      BY <1>1, <2>1, <2>2, RhythmEdit
  <1>5. CASE calm' = calm
    <2>1. InRhythm(s)
      BY <1>1, <1>5
    <2>2. CASE WebStep \/ FollowFails
      BY <2>1, <2>2, RhythmWeb
    <2>3. CASE RefreshStep
      BY <2>1, <2>3, RhythmRefresh
    <2>4. CASE \E t \in Thread : TickStep(t)
      BY <2>1, <2>4, RhythmTick
    <2>5. CASE /\ row' = row /\ job' = job /\ fired' = fired /\ tick' = tick
               /\ refresh' \in {refresh, NoRefresh} /\ web' = web
      BY <2>1, <2>5, SameAgree, RhythmGoesOn DEF InRhythm, NoRefresh
    <2>6. \/ WebStep \/ FollowFails \/ RefreshStep \/ \E t \in Thread : TickStep(t)
          \/ \E x \in Source : Fire(x) \/ Edit(x)
          \/ calm' = Unsettled
          \/ /\ row' = row /\ job' = job /\ fired' = fired /\ tick' = tick
             /\ refresh' \in {refresh, NoRefresh} /\ web' = web
      BY DEF Next, scheduleVars, state, history, OtherJob, Start, StartFails, Stop, ShutDown,
             RefreshFails, Crash, Die, Pass
    <2> QED
      BY <1>2, <1>3, <1>4, <2>2, <2>3, <2>4, <2>5, <2>6
  <1>6. \/ \E x \in Source : Fire(x) \/ Edit(x)
        \/ calm' = Unsettled
        \/ calm' = calm
    BY TickFrame DEF Next, scheduleVars, state, history, OtherJob, Start, StartFails, Stop,
           ShutDown, RefreshFails, Crash, Die, Pass, WebStep, Follow, FollowLoad, FollowSync, FollowCommit, FollowFails,
           RefreshStep, RefreshLoad, RefreshSync, RefreshCommit
  <1> QED
    BY <1>2, <1>3, <1>4, <1>5, <1>6

\* Only a run that is fired changes the last due time.
LEMMA FiredByFire ==
  ASSUME [Next]_scheduleVars, NEW s \in Source, fired'[s] # fired[s]
  PROVE  \E x \in Source : Fire(x)
  BY TickFrame DEF Next, scheduleVars, state, history, Edit, OtherJob, Start, StartFails,
         Stop, ShutDown, RefreshFails, Crash, Die, Pass, WebStep, Follow, FollowLoad, FollowSync, FollowCommit, FollowFails,
         RefreshStep, RefreshLoad, RefreshSync, RefreshCommit

\* While nobody edits a source and the process lives, the runs handed to the pool are
\* an interval apart, however many refreshes load and flush its row in between
\* (SourceSchedule.RhythmIsKept).
THEOREM RunsKeepTheirRhythm == Spec => RhythmIsKept
  <1>1. Init => CalmInv
    BY DEF Init, CalmInv
  <1>2. ASSUME ScheduleInv, CalmInv, [Next]_scheduleVars,
               NEW s \in Source, fired'[s] # fired[s], calm[s]
        PROVE  fired'[s] >= fired[s] + row[s].days
    <2>1. PICK x \in Source : Fire(x)
      BY <1>2, FiredByFire
    <2>2. x = s /\ fired'[s] = job[s].next
      BY <1>2, <2>1 DEF Fire, ScheduleInv, ScheduleTypeOK
    <2>3. InRhythm(s)
      BY <1>2 DEF CalmInv
    <2> QED
      BY <2>2, <2>3 DEF InRhythm
  <1>3. ScheduleInv /\ CalmInv /\ [Next]_scheduleVars
           => [\A s \in Source : (fired'[s] # fired[s] /\ calm[s])
                                    => fired'[s] >= fired[s] + row[s].days]_scheduleVars
    BY <1>2
  <1> QED
    BY <1>1, <1>3, CalmStep, ScheduleInvariant, PTL DEF Spec, RhythmIsKept
=================================================================================
