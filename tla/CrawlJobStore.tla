---------------------------- MODULE CrawlJobStore ----------------------------
(***************************************************************************)
(* The crawl_job table: what a row holds, what the database guarantees of  *)
(* it (the two unique indexes), and what each statement that              *)
(* CrawlJobService issues writes into a row.  Nothing here has state: the  *)
(* table is a function from job ids to rows, and the processes that read   *)
(* and write it are in CrawlJobSystem.                                     *)
(*                                                                         *)
(* A timestamp that is only ever compared with NULL is a Boolean (picked), *)
(* and timeout_at / lease_expires_at, which every statement writes         *)
(* together and with one value, are one column, lease.  A lease is "none"  *)
(* (NULL), "live" (in the future) or "expired" (at or before now): a live  *)
(* lease may expire at any moment, so its length needs no clock.           *)
(***************************************************************************)
EXTENDS Naturals, FiniteSets

CONSTANTS
    Job,        \* ids of the crawl_job rows, in the order they are handed out
    Source,     \* source_site rows
    Nil         \* SQL NULL

ASSUME JobAssumption == Job \subseteq Nat
ASSUME NilAssumption == Nil \notin Job /\ Nil \notin Source

----------------------------------------------------------------------------
(* Statuses *)

ActiveStatus == {"pending", "running"}
FinalStatus == {"succeeded", "failed", "partial"}
Status == {"absent"} \cup ActiveStatus \cup FinalStatus     \* "absent": no row has this id yet
Lease == {"none", "live", "expired"}

AllowedTransition ==
    [s \in ActiveStatus \cup FinalStatus |->
        CASE s = "pending" -> {"running", "failed"}
          [] s = "running" -> FinalStatus
          [] OTHER         -> {s}]

Row == [status   : Status,
        source   : Source \cup {Nil},
        retryOf  : Job \cup {Nil},
        picked   : BOOLEAN,
        lease    : Lease]

NoRow == [status |-> "absent", source |-> Nil, retryOf |-> Nil,
          picked |-> FALSE, lease |-> "none"]

IsActive(row) == row.status \in ActiveStatus
IsFinal(row) == row.status \in FinalStatus

----------------------------------------------------------------------------
(* The indexes.  An INSERT that would break one raises IntegrityError. *)

\* Mutant: the partial index covers pending rows only.
ActiveSlotFreeMutant(table, s) ==
    ~ \E j \in Job : table[j].source = s /\ table[j].status = "pending"

\* uq_crawl_job_source_active: one pending or running row per source.
ActiveSlotFree(table, s) ==
    ~ \E j \in Job : table[j].source = s /\ IsActive(table[j])

\* Mutant: the retry index is missing.
RetrySlotFreeMutant(table, r) == TRUE

\* uq_crawl_job_retry_of_job_id: one row per retried original (NULLs are free).
RetrySlotFree(table, r) ==
    r # Nil => ~ \E j \in Job : table[j].retryOf = r

\* The next id of the sequence: the lowest one no row has.
IsNextId(table, j) ==
    /\ table[j].status = "absent"
    /\ \A k \in Job : k < j => table[k].status # "absent"

----------------------------------------------------------------------------
(* Single conditional UPDATEs: the WHERE clause and the new row. *)

\* Mutant: the claim does not look at the lease.
ClaimableMutant(row) == row.status = "pending"

\* Mutant: a job that was once picked up is never handed over again.
ClaimableOnceMutant(row) == row.status = "pending" /\ ~row.picked

Claimable(row) ==
    /\ row.status = "pending"
    /\ \/ ~row.picked
       \/ row.lease \in {"none", "expired"}

Claimed(row) == [row EXCEPT !.picked = TRUE, !.lease = "live"]

Startable(row) == row.status = "pending"

\* Mutant: start_job writes no lease.
StartedMutant(row) == [row EXCEPT !.status = "running", !.picked = TRUE, !.lease = "none"]

Started(row) == [row EXCEPT !.status = "running", !.picked = TRUE, !.lease = "live"]

\* Mutant: the reconciliation takes running jobs whose lease is live, too.
ExpiredMutant(row) == row.status = "running"

Expired(row) == row.status = "running" /\ row.lease = "expired"

----------------------------------------------------------------------------
(* Unit-of-work UPDATEs.  The row was loaded earlier as "seen"; the flush   *)
(* sends only the columns whose new value differs from the loaded one, and  *)
(* its WHERE clause is the id alone, so it lands on whatever the row is now.*)

NewRow(s, r) ==
    [status |-> "pending", source |-> s, retryOf |-> r, picked |-> FALSE, lease |-> "none"]

\* Mutant: the heartbeat flushes the status it loaded.
BeatenMutant(row, seen) ==
    [row EXCEPT !.status = seen.status, !.picked = TRUE, !.lease = "live"]

Beaten(row, seen) ==
    [row EXCEPT !.picked = IF seen.picked THEN @ ELSE TRUE,
                !.lease  = "live"]

Finished(row, seen, target) ==
    [row EXCEPT !.status = IF seen.status # target THEN target ELSE @,
                !.picked = IF seen.status = "running" /\ ~seen.picked THEN TRUE ELSE @,
                !.lease  = IF seen.lease # "none" THEN "none" ELSE @]

\* Mutant: an expired job is queued again.
ReconciledMutant(row) == [row EXCEPT !.status = "pending", !.lease = "none"]

\* _expire_job on a row that was loaded as running with an expired lease.
Reconciled(row) == [row EXCEPT !.status = "failed", !.lease = "none"]
============================================================================
