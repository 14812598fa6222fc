----------------------------- MODULE SourceHealth -----------------------------
(***************************************************************************)
(* The health of one source as the operations pages show it: the history   *)
(* of its jobs and errors, the configurable rules, the admins who change   *)
(* them, and a page that reads the history in one statement after another  *)
(* while jobs run.                                                         *)
(*                                                                         *)
(* The clock counts days; what is Window days old is no longer recent.  No *)
(* page is read across midnight.  A job's type and its retry matter to the *)
(* button that retries the latest failure.                                 *)
(***************************************************************************)
EXTENDS Naturals, Sequences, FiniteSets

CONSTANTS
    Admins,
    Patches,        \* what admins ask for: some of the columns of a rule row
    Window,         \* days that are recent
    Lookback,       \* jobs the count of consecutive failures looks at
    MaxJobs, MaxErrors, MaxDay, MaxUpdates,
    Nil

ThresholdColumn == {"errorWarning", "errorCritical", "failureWarning", "failureCritical"}
RuleColumn == ThresholdColumn \cup {"partialWarning"}
RuleRow == [errorWarning : Nat, errorCritical : Nat, failureWarning : Nat,
            failureCritical : Nat, partialWarning : BOOLEAN]

JobStatus == {"pending", "running", "succeeded", "failed", "partial"}

ASSUME HealthAssumption ==
    /\ Window \in Nat \ {0} /\ Lookback \in Nat \ {0} /\ Nil \notin Nat \cup JobStatus
    /\ MaxJobs \in Nat /\ MaxErrors \in Nat /\ MaxDay \in Nat /\ MaxUpdates \in Nat
    /\ \A p \in Patches :
           /\ DOMAIN p \subseteq RuleColumn
           /\ \A c \in DOMAIN p : IF c = "partialWarning" THEN p[c] \in BOOLEAN ELSE p[c] \in Nat

DefaultRules == [errorWarning |-> 3, errorCritical |-> 6, failureWarning |-> 1,
                 failureCritical |-> 1, partialWarning |-> TRUE]

JobType == {"manual", "scheduled", "manual_retry"}
Level == {"normal", "warning", "critical"}

VARIABLES
    jobs,           \* the crawl_job rows of the source, by id
    errors,         \* for each day, the crawl_error rows it brought
    rules,          \* the health_rule_config row, Nil until somebody reads it
    drafts,         \* each admin's loaded row and what is to become of it
    updates,
    day,
    page            \* the page being read

healthVars == <<jobs, errors, rules, drafts, updates, day, page>>

NoPage == [at |-> "closed", rules |-> Nil, latest |-> Nil, errors |-> 0,
           level |-> Nil, moments |-> {}]

Init ==
    /\ jobs = <<>>
    /\ errors = [d \in 0 .. MaxDay |-> 0]
    /\ rules = Nil
    /\ drafts = [a \in Admins |-> Nil]
    /\ updates = 0
    /\ day = 0
    /\ page = NoPage

Active(j) == jobs[j].status \in {"pending", "running"}
Newest(S) == IF S = {} THEN Nil ELSE CHOOSE j \in S : \A k \in S : k <= j

----------------------------------------------------------------------------
(* What the pages compute *)

\* _latest_job_map: the job with the greatest id
LatestStatus == IF jobs = <<>> THEN Nil ELSE jobs[Len(jobs)].status

\* The crawl_error rows of some days, by day and number.
Logged(es, days) == UNION {{d} \X (1 .. es[d]) : d \in days}

RecentErrorsMutant == Cardinality(Logged(errors, 0 .. day))

\* _recent_7d_error_count_map
RecentErrors == Cardinality(Logged(errors, {d \in 0 .. day : d > day - Window}))

\* _consecutive_failure_count: of the newest jobs, those before the first that
\* did not fail.
ConsecutiveFailures ==
    LET looked == {j \in DOMAIN jobs : j > Len(jobs) - Lookback}
    IN  Cardinality({j \in looked : \A k \in looked : k >= j => jobs[k].status = "failed"})

\* evaluate_health_status: the first rule that applies decides.
Evaluate(r, latest, recentErrors, failures) ==
    LET failing == latest = "failed" /\ failures >= 1
    IN  IF \/ recentErrors >= r.errorCritical
           \/ failures >= r.failureCritical
           \/ failing /\ r.failureCritical <= 1
        THEN "critical"
        ELSE IF \/ failing
                \/ recentErrors >= r.errorWarning
                \/ failures >= r.failureWarning
                \/ latest = "partial" /\ r.partialWarning
                \/ latest \notin {"succeeded", "partial"}
        THEN "warning"
        ELSE "normal"

\* The failures in a row, and those of them that lie within the lookback.
Unfailed(js) == {j \in DOMAIN js : js[j].status # "failed"}
Streak(js) == Len(js) - (IF Unfailed(js) = {} THEN 0 ELSE Newest(Unfailed(js)))
Looked(js) == IF Streak(js) < Lookback THEN Streak(js) ELSE Lookback

\* The documented levels, from the history as it is: a critical threshold, then a
\* warning threshold, then the outcome of the last job (docs/source-health.md 2.1;
\* a partial job that is not to warn counts as a success).
Documented(r, js, es, failures) ==
    LET well == {"succeeded"} \cup (IF r.partialWarning THEN {} ELSE {"partial"})
        recent == Cardinality(Logged(es, {d \in 0 .. day : day - d < Window}))
    IN  CASE recent >= r.errorCritical \/ failures >= r.failureCritical -> "critical"
          [] OTHER -> IF \/ recent >= r.errorWarning \/ failures >= r.failureWarning
                         \/ js = <<>> \/ js[Len(js)].status \notin well
                      THEN "warning" ELSE "normal"

----------------------------------------------------------------------------
(* The source is crawled *)

UntouchedByCrawls == <<rules, drafts, updates, day>>

\* A page under way remembers how the source has been meanwhile.
Watch ==
    page' = IF page.at \in {"closed", "shown"} THEN page
            ELSE [page EXCEPT !.moments = @ \cup {Documented(page.rules, jobs', errors', Looked(jobs'))}]

ActiveConflictMutant == \E j \in DOMAIN jobs : jobs[j].status = "running"

\* find_active_job_for_source and the index that allows one active job
ActiveConflict == \E j \in DOMAIN jobs : Active(j)

Create(type, original) ==
    /\ Len(jobs) < MaxJobs /\ ~ActiveConflict
    /\ jobs' = Append(jobs, [status |-> "pending", type |-> type, retryOf |-> original,
                             queued |-> day, picked |-> Nil])

Trigger(type) ==
    /\ Create(type, Nil)
    /\ UNCHANGED <<errors, UntouchedByCrawls>>
    /\ Watch

\* _trigger_latest_retry_for_source: the newest failure that neither is a retry
\* nor was retried; unless that was a manual job, the source is crawled anew.
Retryable == {j \in DOMAIN jobs : /\ jobs[j].status \in {"failed", "partial"}
                                  /\ jobs[j].retryOf = Nil
                                  /\ \A k \in DOMAIN jobs : jobs[k].retryOf # j}

RetryLatest ==
    LET j == Newest(Retryable)
    IN  /\ IF j # Nil /\ jobs[j].type = "manual" THEN Create("manual_retry", j)
           ELSE Create("manual", Nil)
        /\ UNCHANGED <<errors, UntouchedByCrawls>>
        /\ Watch

\* claim_pending_job_for_dispatch, again when the lease of the first has expired
Pick(j) ==
    /\ jobs[j].status = "pending"
    /\ jobs' = [jobs EXCEPT ![j].picked = day]
    /\ UNCHANGED <<errors, UntouchedByCrawls>>
    /\ Watch

RunMutant(j) ==
    /\ jobs[j].status = "pending"
    /\ jobs' = [jobs EXCEPT ![j].status = "running"]
    /\ UNCHANGED <<errors, UntouchedByCrawls>>
    /\ Watch

\* start_job: a job that nobody picked is picked now.
Run(j) ==
    /\ jobs[j].status = "pending"
    /\ jobs' = [jobs EXCEPT ![j].status = "running",
                            ![j].picked = IF @ = Nil THEN day ELSE @]
    /\ UNCHANGED <<errors, UntouchedByCrawls>>
    /\ Watch

\* A pending job can only fail.
Finish(j, status) ==
    /\ Active(j) /\ (jobs[j].status = "pending" => status = "failed")
    /\ jobs' = [jobs EXCEPT ![j].status = status]
    /\ UNCHANGED <<errors, UntouchedByCrawls>>
    /\ Watch

LogError ==
    /\ \E j \in DOMAIN jobs : jobs[j].status = "running"
    /\ Cardinality(Logged(errors, 0 .. MaxDay)) < MaxErrors
    /\ errors' = [errors EXCEPT ![day] = @ + 1]
    /\ UNCHANGED <<jobs, UntouchedByCrawls>>
    /\ Watch

NextDay ==
    /\ day < MaxDay /\ page.at = "closed"
    /\ day' = day + 1
    /\ UNCHANGED <<jobs, errors, rules, drafts, updates, page>>

----------------------------------------------------------------------------
(* The rules are changed *)

OrderedRules(r) == r.errorWarning <= r.errorCritical /\ r.failureWarning <= r.failureCritical

\* _ensure_config: whoever reads first inserts the defaults.
Ensured == IF rules = Nil THEN DefaultRules ELSE rules

\* update_rules: the row is loaded and the candidate is valid, else 400.
LoadRules(a, patch) ==
    /\ drafts[a] = Nil /\ updates < MaxUpdates
    /\ rules' = Ensured
    /\ updates' = updates + 1
    /\ LET candidate == [c \in RuleColumn |-> IF c \in DOMAIN patch THEN patch[c] ELSE Ensured[c]]
       IN  drafts' = IF OrderedRules(candidate)
                     THEN [drafts EXCEPT ![a] = [loaded |-> Ensured, candidate |-> candidate]]
                     ELSE drafts
    /\ UNCHANGED <<jobs, errors, day, page>>

\* The UPDATE sends the columns that differ from what was loaded.
Merged(a) == [c \in RuleColumn |-> IF drafts[a].candidate[c] # drafts[a].loaded[c]
                                   THEN drafts[a].candidate[c] ELSE rules[c]]

ChecksHoldMutant(r) == TRUE

\* CHECK constraints of health_rule_config
ChecksHold(r) == OrderedRules(r)

SaveRules(a) ==
    /\ drafts[a] # Nil
    /\ rules' = IF ChecksHold(Merged(a)) THEN Merged(a) ELSE rules
    /\ drafts' = [drafts EXCEPT ![a] = Nil]
    /\ UNCHANGED <<jobs, errors, updates, day, page>>

----------------------------------------------------------------------------
(* build_health_map, statement by statement *)

ReadRules ==
    /\ page.at = "closed"
    /\ rules' = Ensured
    /\ page' = [NoPage EXCEPT !.at = "rules", !.rules = Ensured,
                   !.moments = {Documented(Ensured, jobs, errors, Looked(jobs))}]
    /\ UNCHANGED <<jobs, errors, drafts, updates, day>>

ReadLatest ==
    /\ page.at = "rules"
    /\ page' = [page EXCEPT !.at = "latest", !.latest = LatestStatus]
    /\ UNCHANGED <<jobs, errors, UntouchedByCrawls>>

ReadErrors ==
    /\ page.at = "latest"
    /\ page' = [page EXCEPT !.at = "errors", !.errors = RecentErrors]
    /\ UNCHANGED <<jobs, errors, UntouchedByCrawls>>

ReadFailures ==
    /\ page.at = "errors"
    /\ page' = [page EXCEPT !.at = "shown",
                   !.level = Evaluate(page.rules, page.latest, page.errors, ConsecutiveFailures)]
    /\ UNCHANGED <<jobs, errors, UntouchedByCrawls>>

Leave ==
    /\ page.at = "shown"
    /\ page' = NoPage
    /\ UNCHANGED <<jobs, errors, UntouchedByCrawls>>

Next ==
    \/ \E type \in {"manual", "scheduled"} : Trigger(type)
    \/ RetryLatest
    \/ \E j \in DOMAIN jobs :
          Pick(j) \/ Run(j) \/ \E status \in {"succeeded", "failed", "partial"} : Finish(j, status)
    \/ LogError
    \/ NextDay
    \/ \E a \in Admins : SaveRules(a) \/ \E patch \in Patches : LoadRules(a, patch)
    \/ ReadRules \/ ReadLatest \/ ReadErrors \/ ReadFailures \/ Leave

Spec == Init /\ [][Next]_healthVars

----------------------------------------------------------------------------
(* What must hold *)

HealthTypeOK ==
    /\ \A j \in DOMAIN jobs :
          /\ jobs[j].status \in JobStatus /\ jobs[j].type \in JobType
          /\ jobs[j].status = "running" => jobs[j].picked # Nil
          /\ jobs[j].retryOf \in (1 .. j - 1) \cup {Nil}
          /\ jobs[j].queued \in 0 .. day /\ jobs[j].picked \in (jobs[j].queued .. day) \cup {Nil}
    /\ errors \in [0 .. MaxDay -> Nat]
    /\ rules \in RuleRow \cup {Nil}
    /\ page.rules \in RuleRow \cup {Nil} /\ page.level \in Level \cup {Nil}
    /\ page.moments \subseteq Level

\* No two admins, each with a valid change of some columns, leave rules whose
\* warning lies above their critical threshold: the second UPDATE merges with
\* the first and only the row's own CHECK sees the result
\* (health_rule_service.py:39-70, models/health_rule_config.py:16-41).
RulesOrdered == rules # Nil => OrderedRules(rules)

\* However jobs and errors come between the statements of a page, the level it
\* shows is one that the documented rules give at some moment of the reading,
\* whatever the thresholds, with the failures counted within the lookback
\* (source_health_service.py:72-138).  For a threshold above the lookback that is
\* less than docs/source-health.md:37 says; for the others it is the same.
SummaryIsReal == page.at = "shown" => page.level \in page.moments

Anchor(j) == IF jobs[j].picked = Nil THEN jobs[j].queued ELSE jobs[j].picked

\* The two orders of the job list, by id and by when a job was picked or queued,
\* agree within a source: a job is only created when no other is active, so none
\* is picked after a later one (crawl_job_repository.py:93-110, and the latest
\* failure's reason at source_health_service.py:205-220).
OrdersAgree == \A j, k \in DOMAIN jobs : j < k => Anchor(j) <= Anchor(k)
=============================================================================
