-------------------------- MODULE SourceHealthProofs --------------------------
(***************************************************************************)
(* The health rules stay in order for any number of admins and any         *)
(* requests of theirs, the two orders of the job list agree for any number *)
(* of jobs, a page shows a level the source had, and everything keeps its  *)
(* type.                                                                   *)
(***************************************************************************)
EXTENDS SourceHealth, FiniteSetTheorems, WellFoundedInduction, TLAPS

----------------------------------------------------------------------------
(* The rules *)

LEMMA EnsuredIsOrdered ==
  ASSUME RulesOrdered
  PROVE  OrderedRules(Ensured)
  BY DEF RulesOrdered, OrderedRules, Ensured, DefaultRules

\* Only three actions write the rules: the first readers and an UPDATE that its
\* CHECK has let pass.
LEMMA RulesStep ==
  ASSUME RulesOrdered, [Next]_healthVars
  PROVE  RulesOrdered'
  <1>1. CASE rules' = rules
    BY <1>1 DEF RulesOrdered, OrderedRules
  <1>2. CASE rules' = Ensured
    BY <1>2, EnsuredIsOrdered DEF RulesOrdered, OrderedRules
  <1>3. ASSUME NEW a \in Admins, SaveRules(a)
        PROVE  RulesOrdered'
    <2>1. CASE ChecksHold(Merged(a))
      <3>1. rules' = Merged(a)
        BY <1>3, <2>1 DEF SaveRules
      <3> QED
        BY <2>1, <3>1 DEF ChecksHold, RulesOrdered, OrderedRules
    <2>2. CASE ~ChecksHold(Merged(a))
      BY <1>3, <2>2, <1>1 DEF SaveRules
    <2> QED
      BY <2>1, <2>2
  <1>4. \/ rules' = rules
        \/ rules' = Ensured
        \/ \E a \in Admins : SaveRules(a)
    BY DEF Next, healthVars, UntouchedByCrawls, Trigger, RetryLatest, Pick, Run, Finish,
           LogError, NextDay, LoadRules, ReadRules, ReadLatest, ReadErrors, ReadFailures, Leave
  <1> QED
    BY <1>1, <1>2, <1>3, <1>4

\* A warning threshold never lies above its critical one, whatever two admins ask
\* for at once: the second UPDATE is computed from a row the first has changed, and
\* the table's own CHECK is what it has to pass (SourceHealth.RulesOrdered).
THEOREM RulesStayOrdered == Spec => []RulesOrdered
  <1>1. Init => RulesOrdered
    BY DEF Init, RulesOrdered
  <1>2. RulesOrdered /\ [Next]_healthVars => RulesOrdered'
    BY RulesStep
  <1> QED
    BY <1>1, <1>2, PTL DEF Spec

----------------------------------------------------------------------------
(* The orders of the jobs *)

JobRow == [status : JobStatus, type : JobType, retryOf : Nat \cup {Nil},
           queued : Nat, picked : Nat \cup {Nil}]

\* A job was picked no earlier than it was queued, and neither lies ahead.
TimesPast(row) == row.queued <= day /\ (row.picked # Nil => row.queued <= row.picked /\ row.picked <= day)

TimesOK == \A j \in DOMAIN jobs : TimesPast(jobs[j])

JobsTyped == jobs \in Seq(JobRow) /\ day \in Nat

OnlyLastActive == \A j \in DOMAIN jobs : Active(j) => j = Len(jobs)

\* Picking is the only way to move a job in the order; only an active job is
\* picked, and that is the last one, now.
OrderInv ==
    /\ JobsTyped
    /\ TimesOK
    /\ OnlyLastActive
    /\ OrdersAgree

\* What happens to the jobs in one step.
Appended(type, r) ==
    /\ ~ActiveConflict
    /\ jobs' = Append(jobs, [status |-> "pending", type |-> type, retryOf |-> r,
                             queued |-> day, picked |-> Nil])

Moved(j) ==
    /\ j \in DOMAIN jobs /\ Active(j)
    /\ \E status \in JobStatus, picked \in {jobs[j].picked, day} :
          jobs' = [jobs EXCEPT ![j] = [@ EXCEPT !.status = status, !.picked = picked]]

\* The last of some jobs exists: counted from the end, it comes first.
LEMMA NewestOf ==
  ASSUME NEW n \in Nat, NEW S, S \subseteq 1 .. n, S # {}
  PROVE  Newest(S) \in S /\ \A k \in S : k <= Newest(S)
  <1> DEFINE T == {t \in Nat : n - t \in S}
  <1>1. T \subseteq Nat /\ T # {}
    <2>1. PICK j \in S : j \in 1 .. n
      OBVIOUS
    <2>2. n - j \in Nat /\ n - (n - j) = j
      BY <2>1
    <2> QED
      BY <2>2
  <1>2. PICK x \in T : \A y \in T : <<y, x>> \notin OpToRel(<, Nat)
    <2> HIDE DEF T
    <2> QED
      BY <1>1, NatLessThanWellFounded, WFMin
  <1>3. \A y \in T : ~(y < x)
    BY <1>1, <1>2 DEF OpToRel
  <1>4. x \in Nat /\ n - x \in S
    OBVIOUS
  <1>5. ASSUME NEW k \in S
        PROVE  k <= n - x
    <2>1. k \in 1 .. n /\ n - k \in Nat /\ n - (n - k) = k
      OBVIOUS
    <2>2. n - k \in T
      BY <2>1
    <2> QED
      BY <1>3, <1>4, <2>1, <2>2
  <1> QED
    BY <1>4, <1>5 DEF Newest

LEMMA OrderInit == Init => OrderInv
  BY DEF Init, OrderInv, JobsTyped, TimesOK, OnlyLastActive, OrdersAgree

LEMMA OrderKept ==
  ASSUME OrderInv, jobs' = jobs, day' \in Nat, day <= day'
  PROVE  OrderInv'
  <1>1. \A j \in DOMAIN jobs : jobs[j] \in JobRow
    BY DEF OrderInv, JobsTyped
  <1> QED
    BY <1>1 DEF OrderInv, JobsTyped, TimesOK, TimesPast, OnlyLastActive, OrdersAgree, Active, Anchor, JobRow

LEMMA OrderAppended ==
  ASSUME OrderInv, day' = day, NEW type \in JobType, NEW r \in Nat \cup {Nil}, Appended(type, r)
  PROVE  OrderInv'
  <1> DEFINE new == [status |-> "pending", type |-> type, retryOf |-> r,
                     queued |-> day, picked |-> Nil]
  <1>1. jobs \in Seq(JobRow) /\ day \in Nat /\ new \in JobRow
    BY DEF OrderInv, JobsTyped, JobRow, JobStatus
  <1>2. /\ jobs' \in Seq(JobRow) /\ Len(jobs') = Len(jobs) + 1
        /\ DOMAIN jobs' = DOMAIN jobs \cup {Len(jobs) + 1}
        /\ \A j \in DOMAIN jobs : jobs'[j] = jobs[j]
        /\ jobs'[Len(jobs) + 1] = new
    BY <1>1 DEF Appended
  <1>3. \A j \in DOMAIN jobs : jobs[j] \in JobRow /\ j \in 1 .. Len(jobs) /\ ~Active(j)
    BY <1>1 DEF Appended, ActiveConflict
  <1>4. TimesPast(new) /\ TimesOK'
    BY <1>1, <1>2, <1>3, HealthAssumption DEF OrderInv, TimesOK, TimesPast
  <1>5. OnlyLastActive'
    BY <1>2, <1>3 DEF OnlyLastActive, Active
  <1>6. \A j \in DOMAIN jobs : Anchor(j)' = Anchor(j) /\ Anchor(j) <= day
    BY <1>2, <1>3 DEF OrderInv, TimesOK, TimesPast, Anchor, JobRow
  <1>7. \A k : k = Len(jobs) + 1 => Anchor(k)' = day
    BY <1>2 DEF Anchor
  <1>8. OrdersAgree'
    BY <1>1, <1>2, <1>3, <1>6, <1>7 DEF OrderInv, OrdersAgree
  <1> QED
    BY <1>1, <1>2, <1>4, <1>5, <1>8 DEF OrderInv, JobsTyped

LEMMA OrderMoved ==
  ASSUME OrderInv, day' = day, NEW j \in DOMAIN jobs, Moved(j)
  PROVE  OrderInv'
  <1>1. PICK status \in JobStatus, picked \in {jobs[j].picked, day} :
            jobs' = [jobs EXCEPT ![j] = [@ EXCEPT !.status = status, !.picked = picked]]
    BY DEF Moved
  <1>2. jobs \in Seq(JobRow) /\ day \in Nat /\ DOMAIN jobs = 1 .. Len(jobs)
    BY DEF OrderInv, JobsTyped
  <1>3. \A k \in DOMAIN jobs : jobs[k] \in JobRow
    BY <1>2
  <1> DEFINE new == [jobs[j] EXCEPT !.status = status, !.picked = picked]
  <1>4. new \in JobRow /\ new.queued = jobs[j].queued /\ new.picked = picked /\ new.status = status
    BY <1>2, <1>3 DEF JobRow
  <1>5. /\ jobs' \in Seq(JobRow) /\ Len(jobs') = Len(jobs) /\ DOMAIN jobs' = DOMAIN jobs
        /\ jobs'[j] = new /\ \A k \in DOMAIN jobs \ {j} : jobs'[k] = jobs[k]
    BY <1>1, <1>2, <1>3, <1>4
  <1>6. j = Len(jobs)
    BY DEF OrderInv, OnlyLastActive, Moved
  <1>7. TimesOK'
    <2>1. \A k \in DOMAIN jobs : TimesPast(jobs[k])
      BY DEF OrderInv, TimesOK
    <2>2. TimesPast(new)
      BY <1>2, <1>3, <1>4, <2>1 DEF TimesPast, JobRow
    <2> HIDE DEF new
    <2> QED
      BY <1>5, <2>1, <2>2 DEF TimesOK, TimesPast
  <1>8. OnlyLastActive'
    BY <1>5, <1>6 DEF OrderInv, OnlyLastActive, Active
  <1>9. \A k \in DOMAIN jobs : Anchor(k) \in Nat /\ Anchor(k) <= day
    BY <1>2, <1>3 DEF OrderInv, TimesOK, TimesPast, Anchor, JobRow
  <1>10. \A k \in DOMAIN jobs \ {j} : Anchor(k)' = Anchor(k)
    BY <1>5 DEF Anchor
  <1>11. Anchor(j)' \in {Anchor(j), day}
    BY <1>4, <1>5, HealthAssumption, <1>2 DEF Anchor
  <1>12. \A k, l \in DOMAIN jobs : k < l => k # j
    BY <1>2, <1>6
  <1>13. OrdersAgree'
    BY <1>2, <1>5, <1>9, <1>10, <1>11, <1>12 DEF OrderInv, OrdersAgree
  <1> QED
    BY <1>2, <1>5, <1>7, <1>8, <1>13 DEF OrderInv, JobsTyped

\* Whoever picks, runs or finishes a job moves an active one.
LEMMA CrawledMoves ==
  ASSUME OrderInv, NEW j \in DOMAIN jobs,
         \/ Pick(j) \/ Run(j)
         \/ \E status \in {"succeeded", "failed", "partial"} : Finish(j, status)
  PROVE  Moved(j) /\ UNCHANGED <<errors, UntouchedByCrawls>> /\ Watch
  <1>1. jobs \in Seq(JobRow) /\ day \in Nat /\ jobs[j] \in JobRow
    BY DEF OrderInv, JobsTyped
  <1>2. CASE Pick(j)
    <2>1. jobs' = [jobs EXCEPT ![j] = [@ EXCEPT !.status = jobs[j].status, !.picked = day]]
      BY <1>1, <1>2 DEF Pick, JobRow
    <2> QED
      BY <1>1, <1>2, <2>1 DEF Pick, Moved, Active, JobRow
  <1>3. CASE Run(j)
    <2> DEFINE picked == IF jobs[j].picked = Nil THEN day ELSE jobs[j].picked
    <2>1. jobs' = [jobs EXCEPT ![j] = [@ EXCEPT !.status = "running", !.picked = picked]]
      BY <1>1, <1>3 DEF Run, JobRow
    <2> QED
      BY <1>1, <1>3, <2>1 DEF Run, Moved, Active, JobRow, JobStatus
  <1>4. ASSUME NEW status \in {"succeeded", "failed", "partial"}, Finish(j, status)
        PROVE  Moved(j) /\ UNCHANGED <<errors, UntouchedByCrawls>> /\ Watch
    <2>1. jobs' = [jobs EXCEPT ![j] = [@ EXCEPT !.status = status, !.picked = jobs[j].picked]]
      BY <1>1, <1>4 DEF Finish, JobRow
    <2> QED
      BY <1>1, <1>4, <2>1 DEF Finish, Moved, Active, JobRow, JobStatus
  <1> QED
    BY <1>2, <1>3, <1>4

LEMMA OrderStep ==
  ASSUME OrderInv, [Next]_healthVars
  PROVE  OrderInv'
  <1>1. ASSUME NEW type \in JobType, NEW r \in Nat \cup {Nil}, Create(type, r), day' = day
        PROVE  OrderInv'
    BY <1>1, OrderAppended DEF Create, Appended
  <1>2. jobs \in Seq(JobRow) /\ day \in Nat /\ \A j \in DOMAIN jobs : jobs[j] \in JobRow
    BY DEF OrderInv, JobsTyped
  <1>3. ASSUME NEW type \in {"manual", "scheduled"}, Trigger(type)
        PROVE  OrderInv'
    BY <1>1, <1>3 DEF Trigger, UntouchedByCrawls, JobType
  <1>4. CASE RetryLatest
    <2>1. CASE Newest(Retryable) # Nil /\ jobs[Newest(Retryable)].type = "manual"
      <3>1. Newest(Retryable) \in Nat
        <4>1. Retryable # {} /\ Retryable \subseteq 1 .. Len(jobs) /\ Len(jobs) \in Nat
          BY <1>2, <2>1 DEF Newest, Retryable
        <4>2. Newest(Retryable) \in Retryable
          BY <4>1, NewestOf
        <4>3. \A x \in Retryable : x \in Nat
          BY <4>1
        <4> HIDE DEF Retryable
        <4> QED
          BY <4>2, <4>3, Zenon
      <3> QED
        BY <1>1, <1>4, <2>1, <3>1 DEF RetryLatest, UntouchedByCrawls, JobType
    <2>2. CASE ~(Newest(Retryable) # Nil /\ jobs[Newest(Retryable)].type = "manual")
      BY <1>1, <1>4, <2>2 DEF RetryLatest, UntouchedByCrawls, JobType
    <2> QED
      BY <2>1, <2>2
  <1>5. ASSUME NEW j \in DOMAIN jobs, Pick(j) \/ Run(j) \/
               \E status \in {"succeeded", "failed", "partial"} : Finish(j, status)
        PROVE  OrderInv'
    BY <1>5, CrawledMoves, OrderMoved DEF UntouchedByCrawls
  <1>6. CASE jobs' = jobs /\ day' \in {day, day + 1}
    BY <1>2, <1>6, OrderKept
  <1>7. \/ \E type \in {"manual", "scheduled"} : Trigger(type)
        \/ RetryLatest
        \/ \E j \in DOMAIN jobs : Pick(j) \/ Run(j) \/
               \E status \in {"succeeded", "failed", "partial"} : Finish(j, status)
        \/ jobs' = jobs /\ day' \in {day, day + 1}
    BY DEF Next, healthVars, UntouchedByCrawls, LogError, NextDay, LoadRules, SaveRules,
           ReadRules, ReadLatest, ReadErrors, ReadFailures, Leave
  <1> QED
    BY <1>3, <1>4, <1>5, <1>6, <1>7

\* A page that lists the jobs of a source by when they were picked and one that
\* takes the greatest id agree about the latest, for any number of jobs: a source
\* has one active job, so a job is picked before the next one exists
\* (SourceHealth.OrdersAgree).
THEOREM JobOrdersAgree == Spec => []OrdersAgree
  <1>1. OrderInv /\ [Next]_healthVars => OrderInv'
    BY OrderStep
  <1>2. OrderInv => OrdersAgree
    BY DEF OrderInv
  <1> QED
    BY OrderInit, <1>1, <1>2, PTL DEF Spec

----------------------------------------------------------------------------
(* Types *)

\* A running job was picked, and a retry is younger than its original.
JobFits(j) ==
    /\ jobs[j].status = "running" => jobs[j].picked # Nil
    /\ jobs[j].retryOf \in (1 .. j - 1) \cup {Nil}

JobsFit == \A j \in DOMAIN jobs : JobFits(j)

ErrorsTyped == errors \in [0 .. MaxDay -> Nat] /\ day \in 0 .. MaxDay

\* What an admin asks for was made from a row.
RulesTyped ==
    /\ rules \in RuleRow \cup {Nil}
    /\ \A a \in Admins : drafts[a] # Nil => rules \in RuleRow /\ drafts[a].candidate \in RuleRow
    /\ DOMAIN drafts = Admins

PageTyped ==
    /\ DOMAIN page = DOMAIN NoPage
    /\ page.rules \in RuleRow \cup {Nil} /\ page.level \in Level \cup {Nil}
    /\ page.moments \subseteq Level

HealthInv == JobsFit /\ ErrorsTyped /\ RulesTyped /\ PageTyped

LEMMA DocumentedIsLevel ==
  ASSUME NEW r, NEW js, NEW es, NEW f
  PROVE  Documented(r, js, es, f) \in Level
  BY Zenon DEF Documented, Level

LEMMA EvaluatedIsLevel ==
  ASSUME NEW r, NEW latest, NEW n, NEW f
  PROVE  Evaluate(r, latest, n, f) \in Level
  BY DEF Evaluate, Level

\* A row of rules is a function of its columns.
LEMMA RowIsFunction ==
  ASSUME NEW f
  PROVE  f \in RuleRow <=> /\ f = [c \in RuleColumn |-> f[c]]
                           /\ \A c \in ThresholdColumn : f[c] \in Nat
                           /\ f["partialWarning"] \in BOOLEAN
  BY DEF RuleRow, RuleColumn, ThresholdColumn

LEMMA EnsuredTyped ==
  ASSUME rules \in RuleRow \cup {Nil}
  PROVE  Ensured \in RuleRow
  BY DEF Ensured, DefaultRules, RuleRow

LEMMA CandidateTyped ==
  ASSUME NEW patch \in Patches, NEW r \in RuleRow
  PROVE  [c \in RuleColumn |-> IF c \in DOMAIN patch THEN patch[c] ELSE r[c]] \in RuleRow
  <1>1. PICK f : f = [c \in RuleColumn |-> IF c \in DOMAIN patch THEN patch[c] ELSE r[c]]
    OBVIOUS
  <1>2. \A c \in RuleColumn : f[c] \in {patch[c], r[c]} /\ (c \notin DOMAIN patch => f[c] = r[c])
    BY <1>1
  <1>3. \A c \in DOMAIN patch : IF c = "partialWarning" THEN patch[c] \in BOOLEAN ELSE patch[c] \in Nat
    BY HealthAssumption
  <1>4. \A c \in ThresholdColumn : c \in RuleColumn /\ c # "partialWarning" /\ r[c] \in Nat
    BY RowIsFunction DEF RuleColumn, ThresholdColumn
  <1>5. "partialWarning" \in RuleColumn /\ r["partialWarning"] \in BOOLEAN
    BY RowIsFunction DEF RuleColumn
  <1>6. \A c \in ThresholdColumn : f[c] \in Nat
    BY <1>2, <1>3, <1>4
  <1>7. f["partialWarning"] \in BOOLEAN
    BY <1>2, <1>3, <1>5, Zenon
  <1>8. f = [c \in RuleColumn |-> f[c]]
    BY <1>1
  <1> QED
    BY <1>1, <1>6, <1>7, <1>8, RowIsFunction

LEMMA MergedTyped ==
  ASSUME NEW a \in Admins, drafts[a].candidate \in RuleRow, rules \in RuleRow
  PROVE  Merged(a) \in RuleRow
  <1>1. PICK p, l, f : p = drafts[a].candidate /\ l = drafts[a].loaded /\ f = Merged(a)
    OBVIOUS
  <1>2. f = [c \in RuleColumn |-> IF p[c] # l[c] THEN p[c] ELSE rules[c]]
    BY <1>1 DEF Merged
  <1>3. p \in RuleRow
    BY <1>1
  <1>4. \A c \in RuleColumn : f[c] \in {p[c], rules[c]}
    BY <1>2
  <1>5. \A c \in ThresholdColumn : c \in RuleColumn /\ p[c] \in Nat /\ rules[c] \in Nat
    BY <1>3, RowIsFunction DEF RuleColumn, ThresholdColumn
  <1>6. "partialWarning" \in RuleColumn /\ p["partialWarning"] \in BOOLEAN
        /\ rules["partialWarning"] \in BOOLEAN
    BY <1>3, RowIsFunction DEF RuleColumn
  <1>7. \A c \in ThresholdColumn : f[c] \in Nat
    BY <1>4, <1>5
  <1>8. f["partialWarning"] \in BOOLEAN
    BY <1>4, <1>6, Zenon
  <1>9. f = [c \in RuleColumn |-> f[c]]
    BY <1>2
  <1> QED
    BY <1>1, <1>7, <1>8, <1>9, RowIsFunction

LEMMA JobsFitStep ==
  ASSUME OrderInv, JobsFit, [Next]_healthVars
  PROVE  JobsFit'
  <1>1. /\ jobs \in Seq(JobRow) /\ day \in Nat /\ day # Nil /\ DOMAIN jobs = 1 .. Len(jobs)
        /\ Len(jobs) \in Nat /\ \A j \in DOMAIN jobs : jobs[j] \in JobRow
    BY HealthAssumption DEF OrderInv, JobsTyped
  <1>2. ASSUME NEW type, NEW r \in DOMAIN jobs \cup {Nil}, Create(type, r)
        PROVE  JobsFit'
    <2>1. PICK new : new = [status |-> "pending", type |-> type, retryOf |-> r,
                            queued |-> day, picked |-> Nil]
      OBVIOUS
    <2>2. new.status = "pending" /\ new.retryOf = r
      BY <2>1
    <2>3. jobs' = Append(jobs, new)
      BY <1>2, <2>1 DEF Create
    <2>4. /\ DOMAIN jobs' = DOMAIN jobs \cup {Len(jobs) + 1} /\ jobs'[Len(jobs) + 1] = new
          /\ \A j \in DOMAIN jobs : jobs'[j] = jobs[j]
      BY <1>1, <2>3
    <2> QED
      BY <1>1, <2>2, <2>4 DEF JobsFit, JobFits
  <1>3. ASSUME NEW type, Trigger(type)
        PROVE  JobsFit'
    BY <1>2, <1>3 DEF Trigger
  <1>4. CASE RetryLatest
    <2>1. CASE Newest(Retryable) # Nil /\ jobs[Newest(Retryable)].type = "manual"
      <3>1. Retryable # {} /\ Retryable \subseteq 1 .. Len(jobs) /\ Len(jobs) \in Nat
        BY <1>1, <2>1 DEF Newest, Retryable
      <3>2. Newest(Retryable) \in DOMAIN jobs
        BY <1>1, <3>1, NewestOf
      <3> QED
        BY <1>2, <1>4, <2>1, <3>2 DEF RetryLatest
    <2>2. CASE ~(Newest(Retryable) # Nil /\ jobs[Newest(Retryable)].type = "manual")
      BY <1>2, <1>4, <2>2 DEF RetryLatest
    <2> QED
      BY <2>1, <2>2
  <1>5. ASSUME NEW j \in DOMAIN jobs,
               \/ Pick(j) \/ Run(j)
               \/ \E status \in {"succeeded", "failed", "partial"} : Finish(j, status)
        PROVE  JobsFit'
    <2>1. PICK new : new = jobs'[j]
      OBVIOUS
    <2>2. new.retryOf = jobs[j].retryOf /\ (new.status = "running" => new.picked # Nil)
      <3>1. jobs[j] \in JobRow
        BY <1>1
      <3> QED
        BY <1>1, <1>5, <2>1, <3>1 DEF Pick, Run, Finish, JobRow
    <2>3. DOMAIN jobs' = DOMAIN jobs /\ \A k \in DOMAIN jobs \ {j} : jobs'[k] = jobs[k]
      BY <1>1, <1>5 DEF Pick, Run, Finish
    <2> QED
      BY <2>1, <2>2, <2>3 DEF JobsFit, JobFits
  <1>6. CASE jobs' = jobs
    BY <1>6 DEF JobsFit, JobFits
  <1> QED
    BY <1>3, <1>4, <1>5, <1>6
       DEF Next, healthVars, UntouchedByCrawls, LogError, NextDay, LoadRules, SaveRules,
           ReadRules, ReadLatest, ReadErrors, ReadFailures, Leave

LEMMA ErrorsTypedStep ==
  ASSUME ErrorsTyped, [Next]_healthVars
  PROVE  ErrorsTyped'
  <1>1. CASE LogError
    BY <1>1 DEF LogError, UntouchedByCrawls, ErrorsTyped
  <1>2. CASE NextDay
    BY <1>2, HealthAssumption DEF NextDay, ErrorsTyped
  <1>3. CASE UNCHANGED <<errors, day>>
    BY <1>3 DEF ErrorsTyped
  <1> QED
    BY <1>1, <1>2, <1>3
       DEF Next, healthVars, UntouchedByCrawls, Trigger, RetryLatest, Pick, Run, Finish,
           LoadRules, SaveRules, ReadRules, ReadLatest, ReadErrors, ReadFailures, Leave

LEMMA RulesTypedStep ==
  ASSUME RulesTyped, [Next]_healthVars
  PROVE  RulesTyped'
  <1>1. Ensured \in RuleRow
    BY EnsuredTyped DEF RulesTyped
  <1>2. ASSUME NEW a \in Admins, NEW patch \in Patches, LoadRules(a, patch)
        PROVE  RulesTyped'
    <2>1. PICK c : c = [x \in RuleColumn |-> IF x \in DOMAIN patch THEN patch[x] ELSE Ensured[x]]
      OBVIOUS
    <2>2. c \in RuleRow
      BY <1>1, <2>1, CandidateTyped
    <2>3. PICK d : d = [loaded |-> Ensured, candidate |-> c]
      OBVIOUS
    <2>4. rules' = Ensured /\ drafts' \in {drafts, [drafts EXCEPT ![a] = d]}
      BY <1>2, <2>1, <2>3 DEF LoadRules
    <2>5. d.candidate = c
      BY <2>3
    <2> QED
      BY <1>1, <2>2, <2>4, <2>5 DEF RulesTyped
  <1>3. ASSUME NEW a \in Admins, SaveRules(a)
        PROVE  RulesTyped'
    <2>1. rules \in RuleRow /\ Merged(a) \in RuleRow
      BY <1>3, MergedTyped DEF RulesTyped, SaveRules
    <2>2. rules' \in {rules, Merged(a)} /\ drafts' = [drafts EXCEPT ![a] = Nil]
      BY <1>3 DEF SaveRules
    <2>3. rules' \in RuleRow
      BY <2>1, <2>2
    <2> QED
      BY <2>2, <2>3 DEF RulesTyped
  <1>4. CASE rules' \in {rules, Ensured} /\ drafts' = drafts
    BY <1>1, <1>4 DEF RulesTyped
  <1> QED
    BY <1>2, <1>3, <1>4
       DEF Next, healthVars, UntouchedByCrawls, Trigger, RetryLatest, Pick, Run, Finish,
           LogError, NextDay, ReadRules, ReadLatest, ReadErrors, ReadFailures, Leave

LEMMA PageTypedStep ==
  ASSUME RulesTyped, PageTyped, [Next]_healthVars
  PROVE  PageTyped'
  <1>1. CASE Watch
    <2>1. CASE page' = page
      BY <2>1 DEF PageTyped
    <2>2. ASSUME NEW level \in Level,
                 page' = [page EXCEPT !.moments = page.moments \cup {level}]
          PROVE  PageTyped'
      BY <2>2 DEF PageTyped, NoPage
    <2>3. Documented(page.rules, jobs', errors', Looked(jobs')) \in Level
      BY DocumentedIsLevel
    <2> QED
      BY <1>1, <2>1, <2>2, <2>3, Zenon DEF Watch
  <1>2. CASE ReadRules
    <2>1. PICK level, r : level = Documented(Ensured, jobs, errors, Looked(jobs)) /\ r = Ensured
      OBVIOUS
    <2>2. level \in Level /\ r \in RuleRow
      BY <2>1, DocumentedIsLevel, EnsuredTyped DEF RulesTyped
    <2>3. page' = [NoPage EXCEPT !.at = "rules", !.rules = r, !.moments = {level}]
      BY <1>2, <2>1, Zenon DEF ReadRules
    <2> QED
      BY <2>2, <2>3 DEF PageTyped, NoPage
  <1>3. CASE ReadLatest \/ ReadErrors
    <2>1. PICK l, e : l = LatestStatus /\ e = RecentErrors
      OBVIOUS
    <2>2. \/ page' = [page EXCEPT !.at = "latest", !.latest = l]
          \/ page' = [page EXCEPT !.at = "errors", !.errors = e]
      BY <1>3, <2>1, Zenon DEF ReadLatest, ReadErrors
    <2> QED
      BY <2>2 DEF PageTyped, NoPage
  <1>4. CASE ReadFailures
    <2>1. PICK l : l = Evaluate(page.rules, page.latest, page.errors, ConsecutiveFailures)
      OBVIOUS
    <2>2. l \in Level
      BY <2>1, EvaluatedIsLevel
    <2>3. page' = [page EXCEPT !.at = "shown", !.level = l]
      BY <1>4, <2>1, Zenon DEF ReadFailures
    <2> QED
      BY <2>2, <2>3 DEF PageTyped, NoPage
  <1>5. CASE page' \in {page, NoPage}
    BY <1>5 DEF PageTyped, NoPage
  <1>6. \/ Watch \/ ReadRules \/ ReadLatest \/ ReadErrors \/ ReadFailures
        \/ page' \in {page, NoPage}
    BY Zenon DEF Next, healthVars, UntouchedByCrawls, Trigger, RetryLatest, Pick, Run, Finish,
           LogError, NextDay, LoadRules, SaveRules, Leave
  <1> QED
    BY <1>1, <1>2, <1>3, <1>4, <1>5, <1>6

LEMMA HealthInit == Init => HealthInv
  <1> SUFFICES ASSUME Init PROVE HealthInv
    OBVIOUS
  <1>1. JobsFit
    BY DEF Init, JobsFit
  <1>2. ErrorsTyped
    BY HealthAssumption DEF Init, ErrorsTyped
  <1>3. RulesTyped
    BY DEF Init, RulesTyped
  <1>4. PageTyped
    BY DEF Init, PageTyped, NoPage
  <1> QED
    BY <1>1, <1>2, <1>3, <1>4 DEF HealthInv

\* Jobs, errors, rules and the page keep their types for any number of admins and
\* jobs: what two admins make of the rules at once is a row of rules, and a retry
\* belongs to an older job (SourceHealth.HealthTypeOK).
THEOREM HealthTyped == Spec => []HealthTypeOK
  <1>1. OrderInv /\ [Next]_healthVars => OrderInv'
    BY OrderStep
  <1>2. OrderInv /\ HealthInv /\ [Next]_healthVars => HealthInv'
    BY JobsFitStep, ErrorsTypedStep, RulesTypedStep, PageTypedStep DEF HealthInv
  <1>3. OrderInv /\ HealthInv => HealthTypeOK
    <2> SUFFICES ASSUME OrderInv, HealthInv PROVE HealthTypeOK
      OBVIOUS
    <2>1. ASSUME NEW j \in DOMAIN jobs
          PROVE  /\ jobs[j].status \in JobStatus /\ jobs[j].type \in JobType
                 /\ jobs[j].queued \in 0 .. day
                 /\ jobs[j].picked \in (jobs[j].queued .. day) \cup {Nil}
      <3>1. jobs[j] \in JobRow /\ TimesPast(jobs[j]) /\ day \in Nat
        BY DEF OrderInv, JobsTyped, TimesOK
      <3> QED
        BY <3>1 DEF JobRow, TimesPast
    <2> QED
      BY <2>1 DEF HealthTypeOK, HealthInv, JobsFit, JobFits, ErrorsTyped, RulesTyped, PageTyped
  <1> QED
    BY OrderInit, HealthInit, <1>1, <1>2, <1>3, PTL DEF Spec

----------------------------------------------------------------------------
(* What a page shows *)

RecentDays == {d \in 0 .. day : day - d < Window}
RecentAt(es) == Cardinality(Logged(es, RecentDays))

LastStatus(js) == IF js = <<>> THEN Nil ELSE js[Len(js)].status

Well(r) == {"succeeded"} \cup (IF r.partialWarning THEN {} ELSE {"partial"})

\* The documented level, of four facts about the source.
LevelOf(r, failures, recent, last) ==
    IF recent >= r.errorCritical \/ failures >= r.failureCritical THEN "critical"
    ELSE IF recent >= r.errorWarning \/ failures >= r.failureWarning \/ last \notin Well(r)
    THEN "warning" ELSE "normal"

LEMMA DocumentedIs ==
  ASSUME NEW r, NEW js, NEW es, NEW failures
  PROVE  Documented(r, js, es, failures) = LevelOf(r, failures, RecentAt(es), LastStatus(js))
  <1>1. Nil \notin Well(r)
    BY HealthAssumption DEF Well, JobStatus
  <1>2. js = <<>> \/ js[Len(js)].status \notin Well(r) <=> LastStatus(js) \notin Well(r)
    BY <1>1, Zenon DEF LastStatus
  <1> DEFINE recent == RecentAt(es)
  <1>3. Documented(r, js, es, failures) =
          CASE recent >= r.errorCritical \/ failures >= r.failureCritical -> "critical"
            [] OTHER -> IF \/ recent >= r.errorWarning \/ failures >= r.failureWarning
                           \/ js = <<>> \/ js[Len(js)].status \notin Well(r)
                        THEN "warning" ELSE "normal"
    BY Zenon DEF Documented, RecentAt, RecentDays, Well
  <1> HIDE DEF recent
  <1>4. CASE recent >= r.errorCritical \/ failures >= r.failureCritical
    BY <1>3, <1>4, Zenon DEF LevelOf, recent
  <1>5. CASE ~(recent >= r.errorCritical \/ failures >= r.failureCritical)
    BY <1>2, <1>3, <1>5, Zenon DEF LevelOf, recent
  <1> QED
    BY <1>4, <1>5

\* The jobs after the newest that did not fail have failed, and it has not.
LEMMA StreakCounts ==
  ASSUME NEW js \in Seq(JobRow)
  PROVE  /\ Streak(js) \in 0 .. Len(js)
         /\ \A j \in DOMAIN js : j > Len(js) - Streak(js) => js[j].status = "failed"
         /\ Streak(js) < Len(js) => js[Len(js) - Streak(js)].status # "failed"
         /\ Streak(js) >= 1 <=> LastStatus(js) = "failed"
  <1> DEFINE n == Len(js)
             m == IF Unfailed(js) = {} THEN 0 ELSE Newest(Unfailed(js))
  <1>1. n \in Nat /\ DOMAIN js = 1 .. n /\ (js = <<>> <=> n = 0)
    OBVIOUS
  <1>2. Unfailed(js) \subseteq 1 .. n
    BY <1>1 DEF Unfailed
  <1>3. m \in 0 .. n /\ (m # 0 => m \in Unfailed(js)) /\ \A k \in Unfailed(js) : k <= m
    BY <1>1, <1>2, NewestOf
  <1>4. Streak(js) = n - m
    BY DEF Streak
  <1> HIDE DEF n, m
  <1>5. \A j \in 1 .. n : j > m => js[j].status = "failed"
    BY <1>1, <1>3 DEF Unfailed
  <1>6. m # 0 => js[m].status # "failed"
    BY <1>3 DEF Unfailed
  <1>7. "failed" # Nil
    BY HealthAssumption DEF JobStatus
  <1>8. Streak(js) >= 1 <=> LastStatus(js) = "failed"
    <2>1. CASE n = 0
      BY <1>1, <1>3, <1>4, <1>7, <2>1 DEF LastStatus
    <2>2. CASE n # 0
      <3>1. LastStatus(js) = js[n].status
        BY <1>1, <2>2 DEF LastStatus, n
      <3> QED
        BY <1>1, <1>3, <1>4, <1>5, <1>6, <2>2, <3>1
    <2> QED
      BY <2>1, <2>2
  <1> QED
    BY <1>1, <1>3, <1>4, <1>5, <1>6, <1>8 DEF n

\* Within the lookback there is a failure in a row if there is one at all.
LEMMA LookedCounts ==
  ASSUME NEW js \in Seq(JobRow)
  PROVE  Looked(js) \in Nat /\ (Looked(js) >= 1 <=> LastStatus(js) = "failed")
  BY StreakCounts, HealthAssumption DEF Looked

\* The page counts the failures in a row as far back as it looks.
LEMMA FailuresCounted ==
  ASSUME jobs \in Seq(JobRow)
  PROVE  ConsecutiveFailures = Looked(jobs)
  <1> DEFINE n == Len(jobs)
             f == Streak(jobs)
             looked == {j \in DOMAIN jobs : j > n - Lookback}
             S == {j \in looked : \A k \in looked : k >= j => jobs[k].status = "failed"}
             c == IF f < Lookback THEN f ELSE Lookback
  <1>1. n \in Nat /\ DOMAIN jobs = 1 .. n /\ f \in 0 .. n /\ Lookback \in Nat \ {0} /\ c \in 0 .. n
    BY StreakCounts, HealthAssumption
  <1>2. \A j \in 1 .. n : j > n - f => jobs[j].status = "failed"
    BY StreakCounts, <1>1
  <1>3. f < n => jobs[n - f].status # "failed"
    BY StreakCounts
  <1>4. ConsecutiveFailures = Cardinality(S)
    BY DEF ConsecutiveFailures
  <1> HIDE DEF n, f
  <1>5. S = (n - c + 1) .. n
    <2>1. ASSUME NEW j \in 1 .. n, j > n - c
          PROVE  j \in S
      BY <1>1, <1>2, <2>1
    <2>2. ASSUME NEW j \in S
          PROVE  j > n - c
      <3>1. j \in 1 .. n /\ j > n - Lookback
        BY <1>1
      <3>2. CASE f < n /\ j <= n - f
        <4>1. n - f \in looked /\ n - f >= j
          BY <1>1, <3>1, <3>2
        <4> QED
          BY <1>3, <3>2, <4>1
      <3>3. CASE ~(f < n /\ j <= n - f)
        BY <1>1, <3>1, <3>3
      <3> QED
        BY <3>2, <3>3
    <2>3. S \subseteq 1 .. n
      BY <1>1
    <2> HIDE DEF S, c
    <2>4. \A j : j \in S <=> j \in 1 .. n /\ j > n - c
      BY <2>1, <2>2, <2>3
    <2>5. \A j : j \in (n - c + 1) .. n <=> j \in 1 .. n /\ j > n - c
      BY <1>1
    <2> QED
      BY <2>4, <2>5, Zenon
  <1>6. Cardinality((n - c + 1) .. n) = c
    <2> HIDE DEF c
    <2> QED
      BY <1>1, FS_Interval
  <1> QED
    BY <1>4, <1>5, <1>6 DEF f, Looked

\* What a page knows of the latest job and e errors, while it is being read: if
\* the two call for a level, the source had it, unless the failures in a row have
\* become critical.  (A level below critical asks for a critical count above none.)
LatestSeen(r, latest, e, failures, shown) ==
    e < r.errorCritical /\ r.failureCritical >= 1 =>
        /\ latest \in Well(r) /\ e < r.errorWarning /\ r.failureWarning >= 1 => "normal" \in shown
        /\ latest \notin Well(r) /\ latest # "failed" => "warning" \in shown
        /\ latest = "failed" => "warning" \in shown \/ failures >= r.failureCritical

\* What it knows once it has counted e errors: there are no fewer now, and when
\* they became critical the source was in a warning.
ErrorsSeen(r, e, recent, failures, shown) ==
    /\ e <= recent
    /\ e >= r.errorCritical => "critical" \in shown
    /\ e < r.errorCritical /\ r.failureCritical >= 1 =>
          /\ recent < r.errorCritical \/ "warning" \in shown
          /\ e >= r.errorWarning => "warning" \in shown \/ failures >= r.failureCritical

\* What happens to the number of failures in a row, the number of recent errors
\* and the status of the last job: only a running job logs an error, and only a
\* new job ends a row of failures.
Progress(f, e, l, f2, e2, l2) ==
    /\ (f >= 1 <=> l = "failed") /\ (f2 >= 1 <=> l2 = "failed")
    /\ e <= e2 /\ (e < e2 => l = "running")
    /\ f2 < f => f2 = 0 /\ e2 = e /\ l2 = "pending"

LEMMA LatestReadNow ==
  ASSUME NEW r \in RuleRow, NEW f \in Nat, NEW e \in Nat, NEW l, NEW M,
         f >= 1 <=> l = "failed", LevelOf(r, f, e, l) \in M
  PROVE  LatestSeen(r, l, e, f, M)
  <1>1. "failed" \notin Well(r)
    BY DEF Well
  <1>2. \A c \in {"errorWarning", "errorCritical", "failureWarning", "failureCritical"} : r[c] \in Nat
    BY DEF RuleRow
  <1> QED
    BY <1>1, <1>2 DEF LatestSeen, LevelOf

LEMMA ErrorsReadNow ==
  ASSUME NEW r \in RuleRow, NEW f \in Nat, NEW e \in Nat, NEW l, NEW M,
         LevelOf(r, f, e, l) \in M
  PROVE  ErrorsSeen(r, e, e, f, M)
  <1>1. \A c \in {"errorWarning", "errorCritical", "failureWarning", "failureCritical"} : r[c] \in Nat
    BY DEF RuleRow
  <1> QED
    BY <1>1 DEF ErrorsSeen, LevelOf

LEMMA LatestStaysSeen ==
  ASSUME NEW r \in RuleRow, NEW latest, NEW f \in Nat, NEW e \in Nat, NEW l,
         NEW f2 \in Nat, NEW e2 \in Nat, NEW l2, Progress(f, e, l, f2, e2, l2),
         NEW M, NEW n \in Nat, LatestSeen(r, latest, n, f, M), n = e \/ ErrorsSeen(r, n, e, f, M),
         NEW m \in Nat, n <= m, m \in {n, e2}
  PROVE  LatestSeen(r, latest, m, f2, M \cup {LevelOf(r, f2, e2, l2)})
  <1>1. \A c \in {"errorWarning", "errorCritical", "failureWarning", "failureCritical"} : r[c] \in Nat
    BY DEF RuleRow
  <1>2. "pending" \notin Well(r) /\ "failed" \notin Well(r)
    BY DEF Well
  <1>3. CASE f2 < f
    <2>1. f2 = 0 /\ e2 = e /\ l2 = "pending"
      BY <1>3 DEF Progress
    <2>2. LevelOf(r, f2, e2, l2) = IF e >= r.errorCritical \/ 0 >= r.failureCritical
                                   THEN "critical" ELSE "warning"
      BY <1>1, <1>2, <2>1 DEF LevelOf
    <2> QED
      BY <1>1, <2>1, <2>2 DEF LatestSeen, ErrorsSeen
  <1>4. CASE f <= f2
    BY <1>1, <1>4 DEF LatestSeen
  <1> QED
    BY <1>3, <1>4

LEMMA ErrorsStaySeen ==
  ASSUME NEW r \in RuleRow, NEW f \in Nat, NEW e \in Nat, NEW l,
         NEW f2 \in Nat, NEW e2 \in Nat, NEW l2, Progress(f, e, l, f2, e2, l2),
         NEW M, LevelOf(r, f, e, l) \in M, NEW n \in Nat, ErrorsSeen(r, n, e, f, M)
  PROVE  ErrorsSeen(r, n, e2, f2, M \cup {LevelOf(r, f2, e2, l2)})
  <1>1. \A c \in {"errorWarning", "errorCritical", "failureWarning", "failureCritical"} : r[c] \in Nat
    BY DEF RuleRow
  <1>2. "pending" \notin Well(r) /\ "running" \notin Well(r)
    BY DEF Well
  <1> DEFINE M2 == M \cup {LevelOf(r, f2, e2, l2)}
  <1>3. n <= e2 /\ (n >= r.errorCritical => "critical" \in M2)
    BY <1>1 DEF ErrorsSeen, Progress
  <1>4. ASSUME n < r.errorCritical, r.failureCritical >= 1
        PROVE  e2 < r.errorCritical \/ "warning" \in M2
    <2>1. CASE e < r.errorCritical /\ e < e2
      <3>1. l = "running" /\ f = 0
        BY <2>1 DEF Progress
      <3>2. LevelOf(r, f, e, l) = "warning"
        BY <1>1, <1>2, <1>4, <2>1, <3>1 DEF LevelOf
      <3> QED
        BY <3>2
    <2>2. CASE e < r.errorCritical /\ e2 = e
      BY <2>2
    <2>3. CASE e >= r.errorCritical
      BY <1>1, <1>4, <2>3 DEF ErrorsSeen
    <2> QED
      BY <1>1, <2>1, <2>2, <2>3 DEF Progress
  <1>5. ASSUME n < r.errorCritical, r.failureCritical >= 1, n >= r.errorWarning
        PROVE  "warning" \in M2 \/ f2 >= r.failureCritical
    <2>1. "warning" \in M \/ f >= r.failureCritical
      BY <1>5 DEF ErrorsSeen
    <2>2. CASE f2 < f
      <3>1. f2 = 0 /\ e2 = e /\ l2 = "pending"
        BY <2>2 DEF Progress
      <3>2. e < r.errorCritical => LevelOf(r, f2, e2, l2) = "warning"
        BY <1>1, <1>2, <1>5, <3>1 DEF LevelOf
      <3>3. e < r.errorCritical \/ "warning" \in M
        BY <1>5 DEF ErrorsSeen
      <3> QED
        BY <3>2, <3>3
    <2>3. CASE f <= f2
      BY <1>1, <2>1, <2>3
    <2> QED
      BY <2>2, <2>3
  <1> QED
    BY <1>3, <1>4, <1>5 DEF ErrorsSeen

\* The level a page shows is one the source had.
LEMMA ShownWasSo ==
  ASSUME NEW r \in RuleRow, NEW latest, NEW n \in Nat,
         NEW f \in Nat, NEW e \in Nat, NEW l, NEW M, LevelOf(r, f, e, l) \in M,
         LatestSeen(r, latest, n, f, M), ErrorsSeen(r, n, e, f, M)
  PROVE  Evaluate(r, latest, n, f) \in M
  <1>1. /\ \A x \in {"errorWarning", "errorCritical", "failureWarning", "failureCritical"} : r[x] \in Nat
        /\ r.partialWarning \in BOOLEAN
    BY DEF RuleRow
  <1> DEFINE failing == latest = "failed" /\ f >= 1
             critical == n >= r.errorCritical \/ f >= r.failureCritical \/ (failing /\ r.failureCritical <= 1)
             warning == \/ failing \/ n >= r.errorWarning \/ f >= r.failureWarning
                        \/ latest = "partial" /\ r.partialWarning
                        \/ latest \notin {"succeeded", "partial"}
  <1>2. Evaluate(r, latest, n, f) = IF critical THEN "critical" ELSE IF warning THEN "warning" ELSE "normal"
    BY DEF Evaluate
  <1>3. f >= r.failureCritical => "critical" \in M
    BY DEF LevelOf
  <1>4. CASE critical
    <2>1. n >= r.errorCritical \/ f >= r.failureCritical
      BY <1>1, <1>4
    <2> QED
      BY <1>2, <1>3, <1>4, <2>1 DEF ErrorsSeen
  <1>5. CASE ~critical
    <2>1. n < r.errorCritical /\ r.failureCritical >= 1 /\ f < r.failureCritical
      BY <1>1, <1>5
    <2>2. latest \notin Well(r) <=> \/ latest = "partial" /\ r.partialWarning
                                    \/ latest \notin {"succeeded", "partial"}
      BY <1>1 DEF Well
    <2>3. CASE warning
      <3>1. SUFFICES "warning" \in M
        BY <1>2, <1>5, <2>3
      <3>2. CASE latest \notin Well(r)
        BY <1>1, <2>1, <3>2 DEF LatestSeen
      <3>3. CASE n >= r.errorWarning
        BY <1>1, <2>1, <3>3 DEF ErrorsSeen
      <3>4. CASE f >= r.failureWarning
        <4>1. e < r.errorCritical => LevelOf(r, f, e, l) = "warning"
          BY <1>1, <2>1, <3>4 DEF LevelOf
        <4> QED
          BY <2>1, <4>1 DEF ErrorsSeen
      <3>5. failing => latest \notin Well(r)
        BY <2>2
      <3> QED
        BY <2>2, <2>3, <3>2, <3>3, <3>4, <3>5
    <2>4. CASE ~warning
      <3>1. latest \in Well(r) /\ n < r.errorWarning /\ r.failureWarning >= 1
        BY <1>1, <2>2, <2>4
      <3> QED
        BY <1>2, <1>5, <2>1, <2>4, <3>1 DEF LatestSeen
    <2> QED
      BY <2>3, <2>4
  <1> QED
    BY <1>4, <1>5

ErrorsCounted == IsFiniteSet(Logged(errors, 0 .. MaxDay))

LEMMA OneMoreIsFinite ==
  ASSUME NEW S, NEW x, NEW T, IsFiniteSet(S), T \in {S, S \cup {x}}
  PROVE  IsFiniteSet(T)
  <1>1. IsFiniteSet(S \cup {x})
    BY FS_AddElement, Zenon
  <1>2. T = S \/ T = S \cup {x}
    OBVIOUS
  <1> QED
    BY <1>1, <1>2, Zenon

LEMMA OneErrorMore ==
  ASSUME ErrorsTyped, LogError, NEW days, days \subseteq 0 .. MaxDay
  PROVE  Logged(errors', days) \in {Logged(errors, days),
                                    Logged(errors, days) \cup {<<day, errors[day] + 1>>}}
  <1> DEFINE es == errors'
  <1>1. /\ day \in 0 .. MaxDay /\ es[day] = errors[day] + 1 /\ errors[day] \in Nat
        /\ \A d \in days \ {day} : es[d] = errors[d]
    BY DEF ErrorsTyped, LogError
  <1> HIDE DEF es
  <1>2. \A x : x \in Logged(errors, days) <=> \E d \in days : x \in {d} \X (1 .. errors[d])
    BY Zenon DEF Logged
  <1>3. \A x : x \in Logged(es, days) <=> \E d \in days : x \in {d} \X (1 .. es[d])
    BY Zenon DEF Logged
  <1>4. \A x : x \in {day} \X (1 .. es[day]) <=>
               x \in {day} \X (1 .. errors[day]) \/ x = <<day, errors[day] + 1>>
    BY <1>1
  <1>5. CASE day \in days
    <2>1. \A x : x \in Logged(es, days) <=>
                 x \in Logged(errors, days) \/ x = <<day, errors[day] + 1>>
      BY <1>1, <1>2, <1>3, <1>4, <1>5, Zenon
    <2>2. Logged(es, days) = Logged(errors, days) \cup {<<day, errors[day] + 1>>}
      BY <2>1, Zenon
    <2> QED
      BY <2>2 DEF es
  <1>6. CASE day \notin days
    <2>1. Logged(es, days) = Logged(errors, days)
      BY <1>1, <1>2, <1>3, <1>6, Zenon
    <2> QED
      BY <2>1 DEF es
  <1> QED
    BY <1>5, <1>6

LEMMA ErrorsCountedStep ==
  ASSUME ErrorsTyped, ErrorsCounted, [Next]_healthVars
  PROVE  ErrorsCounted'
  <1>1. CASE LogError
    <2> DEFINE es == errors'
    <2>1. Logged(es, 0 .. MaxDay) \in {Logged(errors, 0 .. MaxDay),
                          Logged(errors, 0 .. MaxDay) \cup {<<day, errors[day] + 1>>}}
      BY <1>1, OneErrorMore
    <2> HIDE DEF es
    <2>2. IsFiniteSet(Logged(es, 0 .. MaxDay))
      BY <2>1, OneMoreIsFinite, Zenon DEF ErrorsCounted
    <2> QED
      BY <2>2 DEF ErrorsCounted, es
  <1>2. CASE errors' = errors
    BY <1>2 DEF ErrorsCounted
  <1> QED
    BY <1>1, <1>2
       DEF Next, healthVars, UntouchedByCrawls, Trigger, RetryLatest, Pick, Run, Finish, NextDay,
           LoadRules, SaveRules, ReadRules, ReadLatest, ReadErrors, ReadFailures, Leave

LEMMA RecentIsNumber ==
  ASSUME ErrorsTyped, ErrorsCounted
  PROVE  RecentAt(errors) \in Nat /\ RecentErrors = RecentAt(errors)
  <1>1. RecentDays \subseteq 0 .. MaxDay /\ MaxDay \in Nat /\ day \in Nat
    BY HealthAssumption DEF ErrorsTyped, RecentDays
  <1>2. Logged(errors, RecentDays) \subseteq Logged(errors, 0 .. MaxDay)
    BY <1>1, Zenon DEF Logged
  <1>3. IsFiniteSet(Logged(errors, RecentDays))
    BY <1>2, FS_Subset DEF ErrorsCounted
  <1>4. {d \in 0 .. day : d > day - Window} = RecentDays
    BY <1>1, HealthAssumption DEF RecentDays
  <1> QED
    BY <1>3, <1>4, FS_CardinalityType DEF RecentAt, RecentErrors

LEMMA RecentGrows ==
  ASSUME ErrorsTyped, ErrorsCounted, LogError
  PROVE  RecentAt(errors') \in Nat /\ RecentAt(errors) <= RecentAt(errors')
  <1> DEFINE es == errors'
  <1>1. RecentDays \subseteq 0 .. MaxDay
    BY HealthAssumption DEF ErrorsTyped, RecentDays
  <1>2. Logged(errors, RecentDays) \subseteq Logged(errors, 0 .. MaxDay)
    BY <1>1, Zenon DEF Logged
  <1>3. IsFiniteSet(Logged(errors, RecentDays))
    BY <1>2, FS_Subset DEF ErrorsCounted
  <1>4. Logged(es, RecentDays) \in {Logged(errors, RecentDays),
                                    Logged(errors, RecentDays) \cup {<<day, errors[day] + 1>>}}
    BY <1>1, OneErrorMore
  <1> HIDE DEF es
  <1>5. IsFiniteSet(Logged(es, RecentDays)) /\ Logged(errors, RecentDays) \subseteq Logged(es, RecentDays)
    <2>1. IsFiniteSet(Logged(es, RecentDays))
      BY <1>3, <1>4, OneMoreIsFinite, Zenon
    <2>2. Logged(errors, RecentDays) \subseteq Logged(es, RecentDays)
      BY <1>4, Zenon
    <2> QED
      BY <2>1, <2>2
  <1>6. RecentAt(es) \in Nat /\ RecentAt(errors) <= RecentAt(es)
    BY <1>5, FS_Subset, FS_CardinalityType DEF RecentAt
  <1> QED
    BY <1>6 DEF es

----------------------------------------------------------------------------
(* How the history of the source goes on *)

LEMMA CrawlStep ==
  ASSUME OrderInv, [Next]_healthVars
  PROVE  \/ \E type, r : Appended(type, r) /\ UNCHANGED <<errors, day>> /\ Watch
         \/ \E j \in DOMAIN jobs : Moved(j) /\ UNCHANGED <<errors, day>> /\ Watch
         \/ LogError
         \/ NextDay
         \/ ReadRules \/ ReadLatest \/ ReadErrors \/ ReadFailures
         \/ UNCHANGED <<jobs, errors, day>> /\ page' \in {page, NoPage}
  <1>1. ASSUME NEW type, NEW r, Create(type, r), UNCHANGED <<errors, UntouchedByCrawls>>, Watch
        PROVE  Appended(type, r) /\ UNCHANGED <<errors, day>> /\ Watch
    BY <1>1 DEF Create, Appended, UntouchedByCrawls
  <1>2. (\E type : Trigger(type)) \/ RetryLatest =>
            \E type, r : Appended(type, r) /\ UNCHANGED <<errors, day>> /\ Watch
    BY <1>1, Zenon DEF Trigger, RetryLatest
  <1>3. ASSUME NEW j \in DOMAIN jobs,
               \/ Pick(j) \/ Run(j)
               \/ \E status \in {"succeeded", "failed", "partial"} : Finish(j, status)
        PROVE  Moved(j) /\ UNCHANGED <<errors, day>> /\ Watch
    BY <1>3, CrawledMoves DEF UntouchedByCrawls
  <1>4. \/ \E type \in {"manual", "scheduled"} : Trigger(type)
        \/ RetryLatest
        \/ \E j \in DOMAIN jobs : \/ Pick(j) \/ Run(j)
              \/ \E status \in {"succeeded", "failed", "partial"} : Finish(j, status)
        \/ LogError
        \/ NextDay
        \/ ReadRules \/ ReadLatest \/ ReadErrors \/ ReadFailures
        \/ UNCHANGED <<jobs, errors, day>> /\ page' \in {page, NoPage}
    BY DEF Next, healthVars, UntouchedByCrawls, LoadRules, SaveRules, Leave
  <1> QED
    BY <1>2, <1>3, <1>4, Zenon

\* The three facts a page depends on, while time stands still.
LEMMA HistoryGoesOn ==
  ASSUME OrderInv, ErrorsTyped, ErrorsCounted, [Next]_healthVars, jobs' \in Seq(JobRow),
         page.at # "closed"
  PROVE  /\ RecentAt(errors') \in Nat /\ RecentAt(errors)' = RecentAt(errors')
         /\ Progress(Looked(jobs), RecentAt(errors), LastStatus(jobs),
                     Looked(jobs'), RecentAt(errors'), LastStatus(jobs'))
  <1>1. jobs \in Seq(JobRow) /\ DOMAIN jobs = 1 .. Len(jobs) /\ Len(jobs) \in Nat
    BY DEF OrderInv, JobsTyped
  <1>2. /\ Looked(jobs) \in Nat /\ (Looked(jobs) >= 1 <=> LastStatus(jobs) = "failed")
        /\ Looked(jobs') \in Nat /\ (Looked(jobs') >= 1 <=> LastStatus(jobs') = "failed")
    BY <1>1, LookedCounts
  <1>3. RecentAt(errors) \in Nat
    BY RecentIsNumber
  <1> DEFINE Goal == /\ RecentAt(errors') \in Nat /\ RecentAt(errors)' = RecentAt(errors')
                     /\ Progress(Looked(jobs), RecentAt(errors), LastStatus(jobs),
                                 Looked(jobs'), RecentAt(errors'), LastStatus(jobs'))
  <1>4. day' = day => RecentAt(errors)' = RecentAt(errors')
    BY DEF RecentAt, RecentDays
  <1>5. ASSUME UNCHANGED <<errors, day>>,
               Looked(jobs') < Looked(jobs) => Looked(jobs') = 0 /\ LastStatus(jobs') = "pending"
        PROVE  Goal
    BY <1>2, <1>3, <1>4, <1>5 DEF Progress
  <1>6. ASSUME NEW type, NEW r, Appended(type, r), UNCHANGED <<errors, day>>
        PROVE  Goal
    <2>1. PICK new : new = [status |-> "pending", type |-> type, retryOf |-> r,
                            queued |-> day, picked |-> Nil]
      OBVIOUS
    <2>2. jobs' = Append(jobs, new) /\ new.status = "pending"
      BY <1>6, <2>1 DEF Appended
    <2>3. jobs' # <<>> /\ jobs'[Len(jobs')] = new
      BY <1>1, <2>2
    <2>4. LastStatus(jobs') = "pending"
      BY <2>2, <2>3 DEF LastStatus
    <2> QED
      BY <1>2, <1>5, <1>6, <2>4
  <1>7. ASSUME NEW j \in DOMAIN jobs, Moved(j), UNCHANGED <<errors, day>>
        PROVE  Goal
    <2>1. j = Len(jobs) /\ jobs[j].status \in {"pending", "running"}
      BY <1>7 DEF OrderInv, OnlyLastActive, Moved, Active
    <2>2. LastStatus(jobs) # "failed"
      BY <1>1, <2>1 DEF LastStatus
    <2> QED
      BY <1>2, <1>5, <1>7, <2>2
  <1>8. ASSUME LogError
        PROVE  Goal
    <2>1. PICK j \in DOMAIN jobs : jobs[j].status = "running"
      BY <1>8 DEF LogError
    <2>2. j = Len(jobs)
      BY <2>1 DEF OrderInv, OnlyLastActive, Active
    <2>3. LastStatus(jobs) = "running"
      BY <1>1, <2>1, <2>2 DEF LastStatus
    <2>4. jobs' = jobs /\ day' = day
      BY <1>8 DEF LogError, UntouchedByCrawls
    <2>5. RecentAt(errors') \in Nat /\ RecentAt(errors) <= RecentAt(errors')
      BY <1>8, RecentGrows
    <2> QED
      BY <1>2, <1>4, <2>3, <2>4, <2>5 DEF Progress
  <1>9. ASSUME UNCHANGED <<jobs, errors, day>>
        PROVE  Goal
    BY <1>5, <1>9, <1>2
  <1> HIDE DEF Goal
  <1>10. ~NextDay
    BY DEF NextDay
  <1>11. ReadRules \/ ReadLatest \/ ReadErrors \/ ReadFailures => UNCHANGED <<jobs, errors, day>>
    BY DEF ReadRules, ReadLatest, ReadErrors, ReadFailures, UntouchedByCrawls
  <1>12. Goal
    <2>1. CASE \E type, r : Appended(type, r) /\ UNCHANGED <<errors, day>> /\ Watch
      BY <1>6, <2>1
    <2>2. CASE \E j \in DOMAIN jobs : Moved(j) /\ UNCHANGED <<errors, day>> /\ Watch
      BY <1>7, <2>2
    <2> QED
      BY <1>8, <1>9, <1>10, <1>11, <2>1, <2>2, CrawlStep
  <1> QED
    BY <1>12 DEF Goal

\* To look back no further does no harm while no more failures are asked for.
LEMMA LookbackSuffices ==
  ASSUME NEW js \in Seq(JobRow), NEW es, NEW r \in RuleRow, r.failureCritical <= Lookback
  PROVE  Documented(r, js, es, Looked(js)) = Documented(r, js, es, Streak(js))
  <1>1. /\ Streak(js) \in Nat /\ Lookback \in Nat
        /\ r.failureCritical \in Nat /\ r.failureWarning \in Nat
    BY StreakCounts, HealthAssumption DEF RuleRow
  <1>2. CASE Streak(js) < Lookback
    BY <1>2 DEF Looked
  <1>3. CASE ~(Streak(js) < Lookback)
    <2>1. Looked(js) >= r.failureCritical /\ Streak(js) >= r.failureCritical
      BY <1>1, <1>3 DEF Looked
    <2> QED
      BY <2>1, DocumentedIs, Zenon DEF LevelOf
  <1> QED
    BY <1>2, <1>3

----------------------------------------------------------------------------
(* The page is real *)

Open == page.at \in {"rules", "latest", "errors"}

Now == LevelOf(page.rules, Looked(jobs), RecentAt(errors), LastStatus(jobs))

\* A page under way has the source's present level among those it remembers, and
\* what it has read so far can only lead to one of them.
PageInv ==
    /\ page.at \in {"closed", "rules", "latest", "errors", "shown"}
    /\ Open => /\ page.rules \in RuleRow
               /\ Now \in page.moments
    /\ page.at = "latest" =>
          LatestSeen(page.rules, page.latest, RecentAt(errors), Looked(jobs), page.moments)
    /\ page.at = "errors" =>
          /\ page.errors \in Nat
          /\ LatestSeen(page.rules, page.latest, page.errors, Looked(jobs), page.moments)
          /\ ErrorsSeen(page.rules, page.errors, RecentAt(errors), Looked(jobs), page.moments)
    /\ SummaryIsReal

LEMMA PageKept ==
  ASSUME PageInv, UNCHANGED <<jobs, errors, day, page>>
  PROVE  PageInv'
  <1>1. RecentAt(errors)' = RecentAt(errors)
    BY DEF RecentAt, RecentDays
  <1>2. Now' = Now /\ (Open <=> Open')
    BY <1>1 DEF Now, Open
  <1> QED
    BY <1>1, <1>2 DEF PageInv, SummaryIsReal

LEMMA PageWatched ==
  ASSUME OrderInv, ErrorsTyped, ErrorsCounted, PageTyped, PageInv, [Next]_healthVars,
         jobs' \in Seq(JobRow), Open, Watch
  PROVE  PageInv'
  <1> DEFINE r == page.rules
             f == Looked(jobs)
             e == RecentAt(errors)
             l == LastStatus(jobs)
             f2 == Looked(jobs')
             e2 == RecentAt(errors')
             l2 == LastStatus(jobs')
             M == page.moments
             M2 == M \cup {LevelOf(r, f2, e2, l2)}
  <1>1. jobs \in Seq(JobRow) /\ page.at # "closed"
    BY DEF OrderInv, JobsTyped, Open
  <1>2. /\ r \in RuleRow /\ f \in Nat /\ f2 \in Nat /\ e \in Nat /\ e2 \in Nat
        /\ RecentAt(errors)' = e2 /\ Progress(f, e, l, f2, e2, l2)
    <2>1. f \in Nat /\ f2 \in Nat
      BY <1>1, LookedCounts
    <2> QED
      BY <1>1, <2>1, HistoryGoesOn, RecentIsNumber DEF PageInv
  <1>3. LevelOf(r, f, e, l) \in M
    BY DEF PageInv, Now
  <1>4. page' = [page EXCEPT !.moments = M2]
    <2>1. PICK d : d = Documented(page.rules, jobs', errors', Looked(jobs'))
      OBVIOUS
    <2>2. d = LevelOf(r, f2, e2, l2)
      BY <2>1, DocumentedIs
    <2>3. page' = [page EXCEPT !.moments = page.moments \cup {d}]
      BY <2>1, Zenon DEF Watch, Open
    <2> QED
      BY <2>2, <2>3
  <1>5. /\ page'.at = page.at /\ page'.rules = r /\ page'.latest = page.latest
        /\ page'.errors = page.errors /\ page'.moments = M2
    BY <1>4 DEF PageTyped, NoPage
  <1>6. Now' = LevelOf(r, f2, e2, l2)
    BY <1>2, <1>5 DEF Now
  <1>7. page.at = "latest" => LatestSeen(r, page.latest, e2, f2, M2)
    <2>1. SUFFICES ASSUME page.at = "latest" PROVE LatestSeen(r, page.latest, e2, f2, M2)
      OBVIOUS
    <2>2. LatestSeen(r, page.latest, e, f, M)
      BY <2>1 DEF PageInv
    <2>3. e <= e2
      BY <1>2 DEF Progress
    <2> HIDE DEF r, f, e, l, f2, e2, l2, M
    <2> QED
      BY <1>2, <1>3, <2>2, <2>3, LatestStaysSeen
  <1>8. page.at = "errors" => /\ page.errors \in Nat
                              /\ LatestSeen(r, page.latest, page.errors, f2, M2)
                              /\ ErrorsSeen(r, page.errors, e2, f2, M2)
    <2>1. SUFFICES ASSUME page.at = "errors"
                   PROVE  /\ page.errors \in Nat
                          /\ LatestSeen(r, page.latest, page.errors, f2, M2)
                          /\ ErrorsSeen(r, page.errors, e2, f2, M2)
      OBVIOUS
    <2>2. /\ page.errors \in Nat /\ LatestSeen(r, page.latest, page.errors, f, M)
          /\ ErrorsSeen(r, page.errors, e, f, M)
      BY <2>1 DEF PageInv
    <2> HIDE DEF r, f, e, l, f2, e2, l2, M
    <2>3. LatestSeen(r, page.latest, page.errors, f2, M2)
      BY <1>2, <1>3, <2>2, LatestStaysSeen
    <2>4. ErrorsSeen(r, page.errors, e2, f2, M2)
      BY <1>2, <1>3, <2>2, ErrorsStaySeen
    <2> QED
      BY <2>2, <2>3, <2>4
  <1>9. /\ page.at \in {"rules", "latest", "errors"} /\ Open'
    BY <1>5 DEF Open, PageInv
  <1>10. LevelOf(r, f2, e2, l2) \in M2
    OBVIOUS
  <1> HIDE DEF r, f, e, l, f2, e2, l2, M, M2
  <1>11. Now' \in page'.moments
    BY <1>5, <1>6, <1>10
  <1> QED
    BY <1>2, <1>5, <1>7, <1>8, <1>9, <1>11 DEF PageInv, SummaryIsReal, f2

LEMMA PageRead ==
  ASSUME OrderInv, ErrorsTyped, ErrorsCounted, RulesTyped, PageTyped, PageInv,
         ReadRules \/ ReadLatest \/ ReadErrors \/ ReadFailures
  PROVE  PageInv'
  <1> DEFINE r == page.rules
             f == Looked(jobs)
             e == RecentAt(errors)
             l == LastStatus(jobs)
             M == page.moments
  <1>1. UNCHANGED <<jobs, errors, day>> /\ RecentAt(errors)' = e
    BY DEF ReadRules, ReadLatest, ReadErrors, ReadFailures, UntouchedByCrawls, RecentAt, RecentDays
  <1>2. /\ f \in Nat /\ e \in Nat /\ (f >= 1 <=> l = "failed") /\ RecentErrors = e
        /\ ConsecutiveFailures = f
    BY LookedCounts, FailuresCounted, RecentIsNumber DEF OrderInv, JobsTyped
  <1>3. CASE ReadRules
    <2>1. PICK s, d : s = Ensured /\ d = LevelOf(Ensured, f, e, l)
      OBVIOUS
    <2>2. s \in RuleRow
      BY <2>1, EnsuredTyped DEF RulesTyped
    <2>3. page' = [NoPage EXCEPT !.at = "rules", !.rules = s, !.moments = {d}]
      BY <1>3, <2>1, DocumentedIs DEF ReadRules
    <2>4. page'.at = "rules" /\ page'.rules = s /\ page'.moments = {d}
      BY <2>3 DEF NoPage
    <2>5. Now' = d
      BY <1>1, <2>1, <2>4 DEF Now
    <2> QED
      BY <2>2, <2>4, <2>5 DEF PageInv, SummaryIsReal
  <1>4. CASE ReadLatest
    <2>1. page.at = "rules" /\ page' = [page EXCEPT !.at = "latest", !.latest = l]
      BY <1>4 DEF ReadLatest, LatestStatus, LastStatus
    <2>2. page'.at = "latest" /\ page'.latest = l /\ page'.rules = r /\ page'.moments = M
      BY <2>1 DEF PageTyped, NoPage
    <2>3. r \in RuleRow /\ LevelOf(r, f, e, l) \in M
      BY <2>1 DEF PageInv, Open, Now
    <2>4. Now' = LevelOf(r, f, e, l)
      BY <1>1, <2>2 DEF Now
    <2>5. LatestSeen(r, l, e, f, M)
      <3> HIDE DEF r, f, e, l, M
      <3> QED
        BY <1>2, <2>3, LatestReadNow
    <2> QED
      BY <1>1, <2>2, <2>3, <2>4, <2>5 DEF PageInv, SummaryIsReal
  <1>5. CASE ReadErrors
    <2>1. page.at = "latest" /\ page' = [page EXCEPT !.at = "errors", !.errors = e]
      BY <1>2, <1>5 DEF ReadErrors
    <2>2. /\ page'.at = "errors" /\ page'.errors = e /\ page'.latest = page.latest
          /\ page'.rules = r /\ page'.moments = M
      BY <2>1 DEF PageTyped, NoPage
    <2>3. /\ r \in RuleRow /\ LevelOf(r, f, e, l) \in M
          /\ LatestSeen(r, page.latest, e, f, M)
      BY <2>1 DEF PageInv, Open, Now
    <2>4. Now' = LevelOf(r, f, e, l)
      BY <1>1, <2>2 DEF Now
    <2>5. ErrorsSeen(r, e, e, f, M)
      <3> HIDE DEF r, f, e, l, M
      <3> QED
        BY <1>2, <2>3, ErrorsReadNow
    <2> QED
      BY <1>1, <1>2, <2>2, <2>3, <2>4, <2>5 DEF PageInv, SummaryIsReal
  <1>6. CASE ReadFailures
    <2>1. PICK c, v : c = ConsecutiveFailures /\ v = Evaluate(page.rules, page.latest, page.errors, c)
      OBVIOUS
    <2>2. page.at = "errors" /\ page' = [page EXCEPT !.at = "shown", !.level = v]
      BY <1>6, <2>1 DEF ReadFailures
    <2>3. page'.at = "shown" /\ page'.level = v /\ page'.moments = M
      BY <2>2 DEF PageTyped, NoPage
    <2>4. /\ r \in RuleRow /\ LevelOf(r, f, e, l) \in M
          /\ page.errors \in Nat
          /\ LatestSeen(r, page.latest, page.errors, f, M)
          /\ ErrorsSeen(r, page.errors, e, f, M)
      BY <2>2 DEF PageInv, Open, Now
    <2>5. v \in M
      <3>1. v = Evaluate(r, page.latest, page.errors, f)
        BY <1>2, <2>1
      <3> HIDE DEF r, f, e, l, M
      <3> QED
        BY <1>2, <2>4, <3>1, ShownWasSo
    <2> QED
      BY <2>3, <2>5 DEF PageInv, Open, SummaryIsReal
  <1> QED
    BY <1>3, <1>4, <1>5, <1>6

LEMMA PageStep ==
  ASSUME OrderInv, ErrorsTyped, ErrorsCounted, RulesTyped, PageTyped, PageInv,
         [Next]_healthVars, jobs' \in Seq(JobRow)
  PROVE  PageInv'
  <1>1. CASE Watch
    <2>1. CASE Open
      BY <1>1, <2>1, PageWatched
    <2>2. CASE ~Open
      BY <1>1, <2>2 DEF Watch, Open, PageInv, SummaryIsReal
    <2> QED
      BY <2>1, <2>2
  <1>2. CASE ReadRules \/ ReadLatest \/ ReadErrors \/ ReadFailures
    BY <1>2, PageRead
  <1>3. CASE page' = NoPage
    BY <1>3 DEF NoPage, PageInv, Open, SummaryIsReal
  <1>4. CASE NextDay
    BY <1>4 DEF NextDay, PageInv, Open, SummaryIsReal
  <1>5. CASE UNCHANGED <<jobs, errors, day, page>>
    BY <1>5, PageKept
  <1>6. LogError => Watch
    BY DEF LogError
  <1> QED
    BY <1>1, <1>2, <1>3, <1>4, <1>5, <1>6, CrawlStep

\* Whatever jobs and errors come between the four statements of a page, and however
\* many, the level it shows is one that the documented rules gave the source at some
\* moment of the reading, the failures counted within the lookback, whatever the
\* thresholds: an error is only logged while a job runs, when the level
\* was a warning already, and a row of failures only ends with a new job, which is
\* a warning again (SourceHealth.SummaryIsReal).
THEOREM SummariesAreReal == Spec => []SummaryIsReal
  <1> DEFINE Inv == OrderInv /\ HealthInv /\ ErrorsCounted /\ PageInv
  <1>1. Init => Inv
    <2> SUFFICES ASSUME Init PROVE Inv
      OBVIOUS
    <2>1. Logged(errors, 0 .. MaxDay) = {}
      BY DEF Init, Logged
    <2>2. ErrorsCounted
      BY <2>1, FS_EmptySet DEF ErrorsCounted
    <2>3. PageInv
      BY DEF Init, NoPage, PageInv, Open, SummaryIsReal
    <2> QED
      BY <2>2, <2>3, OrderInit, HealthInit
  <1>2. Inv /\ [Next]_healthVars => Inv'
    <2> SUFFICES ASSUME Inv, [Next]_healthVars PROVE Inv'
      OBVIOUS
    <2>1. OrderInv' /\ jobs' \in Seq(JobRow)
      BY OrderStep DEF OrderInv, JobsTyped
    <2>2. HealthInv'
      BY JobsFitStep, ErrorsTypedStep, RulesTypedStep, PageTypedStep DEF HealthInv
    <2>3. ErrorsCounted'
      BY ErrorsCountedStep DEF HealthInv
    <2>4. PageInv'
      BY <2>1, PageStep DEF HealthInv
    <2> QED
      BY <2>1, <2>2, <2>3, <2>4
  <1>3. Inv => SummaryIsReal
    BY DEF PageInv
  <1> QED
    BY <1>1, <1>2, <1>3, PTL DEF Spec
================================================================================
