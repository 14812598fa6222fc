----------------------------- MODULE CrawlStats -----------------------------
(***************************************************************************)
(* What the runs of one source leave behind in raw_document, crawl_error   *)
(* and in the counters of crawl_job, and how the process that started a    *)
(* spider turns them into a final status and a reason                      *)
(* (SqlAlchemyRawDocumentWriter, SqlAlchemyErrorWriter,                    *)
(* CrawlJobService.record_stats_in_session, SourceCrawlTriggerService).    *)
(* The writer of notices, versions and attachments counts in the same      *)
(* columns; of its rows, which NoticeStore has in full, there is only how  *)
(* many there are.                                                         *)
(*                                                                         *)
(* A writer looks for the stored document in one statement and writes it   *)
(* with the counters in a later one of the same transaction, at READ       *)
(* COMMITTED: another spider may commit in between.  Two spiders of one    *)
(* source run at once when one has outlived its worker (CrawlJobSystem);   *)
(* Overlap allows it.  Each job has one spider.                            *)
(***************************************************************************)
EXTENDS Naturals, FiniteSets

CONSTANTS
    Job,            \* the jobs of the source, with a spider each
    Url, Content,   \* normalised urls and body hashes
    Docs,           \* the raw_document items a spider yields
    MaxItems, MaxErrors,    \* items and errors one spider yields
    MaxFaults,      \* transactions the database refuses
    Overlap,        \* may two spiders of the source run at once
    Nil

\* extra_meta names the role of a page; nothing else is checked of it.
Roles == {"list", "detail", "other"}

\* An item: its place, its body, and what extra_meta says of a list page.
DocItem == [url : Url, content : Content, role : Roles,
            seen : Nat, unique : Nat, skipped : Nat]

ASSUME StatsAssumption ==
    /\ Docs \subseteq DocItem /\ Nil \notin Url \cup Content
    /\ \A d \in Docs : d.unique + d.skipped <= d.seen
    /\ MaxItems \in Nat /\ MaxErrors \in Nat /\ MaxFaults \in Nat /\ Overlap \in BOOLEAN

VARIABLES
    docs,       \* raw_document: a row per url, unique in (source, url_hash)
    rows,       \* how many notices, versions and attachments the source has
    errors,     \* crawl_error: how many rows of each kind a job has
    job,        \* the counters and the conclusion in crawl_job
    proc,       \* where the spider of a job and the process that waits for it are
    faults
vars == <<docs, rows, errors, job, proc, faults>>

Meta == [role : Roles, seen : Nat, unique : Nat, skipped : Nat]
Row == [job : Job, content : Content, meta : Meta, dupUrl : BOOLEAN, dupContent : BOOLEAN]

ASSUME NoRowAssumption == Nil \notin Row       \* NULL is no row

Counters == {"pages_fetched", "documents_saved", "deduplicated_count", "error_count",
             "list_items_seen", "list_items_unique", "list_items_source_duplicates_skipped",
             "detail_pages_fetched", "notices_upserted", "source_duplicates_suppressed",
             "records_inserted", "records_updated"}
Table == {"notice", "version", "attachment"}
Reasons == {"spider exited", "fetch failed", "nothing listed", "detail failed", "-"}

Stage == {"fetch", "parse"}     \* of a crawl_error; nothing writes "persist"
Zero == [c \in Counters |-> 0]
Idle == [at |-> "new", item |-> Nil, existing |-> Nil, dup |-> Nil,
         written |-> 0, rc |-> 0, scraped |-> 0]

Init ==
    /\ docs = [u \in Url |-> Nil]
    /\ rows = [t \in Table |-> 0]
    /\ errors = [j \in Job |-> [e \in Stage |-> 0]]
    /\ job = [j \in Job |-> [n |-> Zero, status |-> "running", reason |-> "-", scraped |-> 0]]
    /\ proc = [j \in Job |-> Idle]
    /\ faults = 0

Stored == {u \in Url : docs[u] # Nil}
Running(j) == proc[j].at \in {"idle", "looked"}

\* The worker starts the spider of a job that it has set running.
Start(j) ==
    /\ proc[j].at = "new"
    /\ Overlap \/ \A k \in Job : ~Running(k)
    /\ proc' = [proc EXCEPT ![j].at = "idle"]
    /\ UNCHANGED <<docs, rows, errors, job, faults>>

\* record_stats_in_session: every counter of the job goes up by its delta.
Counted(n, delta) == [c \in Counters |-> n[c] + delta[c]]
One(b) == IF b THEN 1 ELSE 0

--------------------------------------------------------------------------
(* write_raw_document: two queries, then one row and the counters in the   *)
(* same commit.                                                            *)

\* Some row of the source with this content, LIMIT 1 without an order: it may
\* be the row of the very url.
Twins(content) == {u \in Stored : docs[u].content = content}

Look(j, d) ==
    /\ proc[j].at = "idle" /\ proc[j].written < MaxItems
    /\ \E twin \in IF Twins(d.content) = {} THEN {Nil} ELSE Twins(d.content) :
           proc' = [proc EXCEPT ![j].at = "looked", ![j].item = d,
                                ![j].existing = docs[d.url], ![j].dup = twin]
    /\ UNCHANGED <<docs, rows, errors, job, faults>>

DuplicateContent(p) == p.dup # Nil /\ (p.existing = Nil \/ p.dup # p.item.url)

Payload(j, p) ==
    [job |-> j, content |-> p.item.content,
     meta |-> [role |-> p.item.role, seen |-> p.item.seen,
               unique |-> p.item.unique, skipped |-> p.item.skipped],
     dupUrl |-> p.existing # Nil, dupContent |-> DuplicateContent(p)]

\* The flush of a loaded row writes the columns that differ from what was
\* loaded; extra_meta always does, it names a new archive file every time.
Flushed(now, loaded, new) ==
    [f \in DOMAIN now |-> IF f = "meta" \/ new[f] # loaded[f] THEN new[f] ELSE now[f]]

\* Only new documents count as fetched pages.
DocDeltaNewMutant(p) ==
    [Zero EXCEPT !["documents_saved"] = 1,
        !["pages_fetched"] = IF p.existing = Nil THEN 1 ELSE 0,
        !["list_items_seen"] = IF p.item.role = "list" THEN p.item.seen ELSE 0,
        !["deduplicated_count"] = IF p.existing # Nil \/ DuplicateContent(p) THEN 1 ELSE 0,
        !["records_inserted"] = IF p.existing = Nil THEN 1 ELSE 0,
        !["records_updated"] = IF p.existing # Nil THEN 1 ELSE 0]

\* Duplicates of content are marked but not counted.
DocDeltaUrlMutant(p) ==
    [Zero EXCEPT !["documents_saved"] = 1, !["pages_fetched"] = 1,
        !["list_items_seen"] = IF p.item.role = "list" THEN p.item.seen ELSE 0,
        !["deduplicated_count"] = IF p.existing # Nil THEN 1 ELSE 0,
        !["records_inserted"] = IF p.existing = Nil THEN 1 ELSE 0,
        !["records_updated"] = IF p.existing # Nil THEN 1 ELSE 0]

DocDelta(p) ==
    LET list == p.item.role = "list"
    IN  [Zero EXCEPT
            !["pages_fetched"] = 1, !["documents_saved"] = 1,
            !["deduplicated_count"] = One(p.existing # Nil \/ DuplicateContent(p)),
            !["list_items_seen"] = IF list THEN p.item.seen ELSE 0,
            !["list_items_unique"] = IF list THEN p.item.unique ELSE 0,
            !["list_items_source_duplicates_skipped"] = IF list THEN p.item.skipped ELSE 0,
            !["detail_pages_fetched"] = One(p.item.role = "detail"),
            !["records_inserted"] = One(p.existing = Nil),
            !["records_updated"] = One(p.existing # Nil)]

Rest(j) == [proc[j] EXCEPT !.at = "idle", !.item = Nil, !.existing = Nil, !.dup = Nil,
                           !.written = @ + 1]

\* The insert meets a row that another spider has committed meanwhile.
InsertClash(p) == p.existing = Nil /\ docs[p.item.url] # Nil

Save(j) ==
    LET p == proc[j]
        url == p.item.url
    IN  /\ p.at = "looked" /\ ~InsertClash(p)
        /\ docs' = [docs EXCEPT ![url] = IF p.existing = Nil THEN Payload(j, p)
                                         ELSE Flushed(@, p.existing, Payload(j, p))]
        /\ job' = [job EXCEPT ![j].n = Counted(@, DocDelta(p))]
        /\ proc' = [proc EXCEPT ![j] = Rest(j)]
        /\ UNCHANGED <<rows, errors, faults>>

\* The counters are committed before the row that is then refused.
LoseMutant(j) ==
    /\ proc[j].at = "looked"
    /\ InsertClash(proc[j]) \/ faults < MaxFaults
    /\ faults' = IF InsertClash(proc[j]) THEN faults ELSE faults + 1
    /\ job' = [job EXCEPT ![j].n = Counted(@, DocDelta(proc[j]))]
    /\ proc' = [proc EXCEPT ![j] = Rest(j)]
    /\ UNCHANGED <<docs, rows, errors>>

\* The unique index or the database refuses the transaction: it is rolled back,
\* the pipeline drops the item and the spider goes on.  Nothing records it.
Lose(j) ==
    /\ proc[j].at = "looked"
    /\ InsertClash(proc[j]) \/ faults < MaxFaults
    /\ faults' = IF InsertClash(proc[j]) THEN faults ELSE faults + 1
    /\ proc' = [proc EXCEPT ![j] = Rest(j)]
    /\ UNCHANGED <<docs, rows, errors, job>>

\* The error row is committed, the counter is forgotten.
WriteErrorMutant(j, e) ==
    /\ proc[j].at = "idle"
    /\ job[j].n["error_count"] < MaxErrors
    /\ errors' = [errors EXCEPT ![j][e] = @ + 1]
    /\ UNCHANGED <<docs, rows, job, proc, faults>>

\* write_error: a row and the counter in one commit.
WriteError(j, e) ==
    /\ proc[j].at = "idle"
    /\ job[j].n["error_count"] < MaxErrors
    /\ errors' = [errors EXCEPT ![j][e] = @ + 1]
    /\ job' = [job EXCEPT ![j].n["error_count"] = @ + 1]
    /\ UNCHANGED <<docs, rows, proc, faults>>

--------------------------------------------------------------------------
(* write_notice, write_notice_version and write_attachment: one transaction *)
(* each, which leaves nothing when it is refused.  Whether it creates a row *)
(* or finds one is NoticeStore's matter; a row it finds must be there.      *)

Tally(created) ==
    [Zero EXCEPT !["deduplicated_count"] = One(~created),
                 !["records_inserted"] = One(created), !["records_updated"] = One(~created)]

Write(j, delta, added) ==
    /\ proc[j].at = "idle" /\ proc[j].written < MaxItems
    /\ rows' = [t \in Table |-> rows[t] + One(t \in added)]
    /\ job' = [job EXCEPT ![j].n = Counted(@, delta)]
    /\ proc' = [proc EXCEPT ![j].written = @ + 1]
    /\ UNCHANGED <<docs, errors, faults>>

Made(table, created) == IF created THEN {table} ELSE {}

WriteNotice(j, created) ==
    /\ created \/ rows["notice"] > 0
    /\ Write(j, [Tally(created) EXCEPT !["notices_upserted"] = 1], Made("notice", created))

\* A version of the notice with the same content is there: nothing is written.
SuppressNotice(j) ==
    /\ rows["version"] > 0
    /\ Write(j, [Zero EXCEPT !["deduplicated_count"] = 1,
                             !["source_duplicates_suppressed"] = 1], {})

\* The item of a version or an attachment may be the first of its notice, and
\* creates it: that notice is not counted.  A new notice has no version yet.
WritePart(j, part, created, first) ==
    /\ created \/ rows[part] > 0
    /\ first \/ rows["notice"] > 0
    /\ first /\ part = "version" => created
    /\ Write(j, Tally(created), Made(part, created) \cup Made("notice", first))

\* An attachment without a file: the notice is resolved and committed alone.
WriteNoFile(j, first) ==
    /\ first \/ rows["notice"] > 0
    /\ Write(j, Zero, Made("notice", first))

--------------------------------------------------------------------------
(* The spider process ends; whoever ran it concludes the job.              *)

\* It may be killed between the queries and the commit.
Exit(j, rc) ==
    /\ IF rc = 0 THEN proc[j].at = "idle" ELSE Running(j)
    /\ proc' = [proc EXCEPT ![j] = [Idle EXCEPT !.at = "exited", !.rc = rc]]
    /\ UNCHANGED <<docs, rows, errors, job, faults>>

\* The list documents that still name this job, in a transaction of its own.
ListDocs(j) == {u \in Stored : docs[u].job = j /\ docs[u].meta.role = "list"}

CollectListPageStats(j) ==
    /\ proc[j].at = "exited"
    /\ proc' = [proc EXCEPT ![j].at = "collected", ![j].scraped = Cardinality(ListDocs(j))]
    /\ UNCHANGED <<docs, rows, errors, job, faults>>

\* No fallback when another job has taken the list documents over.
PagesMetricMutant(n, scraped) == scraped

\* No list document left, e.g. another job fetched its pages again: all pages.
PagesMetric(n, scraped) == IF scraped > 0 THEN scraped ELSE n["pages_fetched"]

\* The messages, which only word the reason, are left out.
InferFailureReason(n, errs, scraped, rc) ==
    LET listed == n["list_items_seen"] > 0
    IN  IF rc # 0 THEN "spider exited"
        ELSE IF errs["fetch"] > 0 /\ (PagesMetric(n, scraped) = 0 \/ ~listed) THEN "fetch failed"
        ELSE IF ~listed THEN "nothing listed"
        ELSE IF \E e \in Stage : errs[e] > 0 THEN "detail failed"
        ELSE "-"

InferFinalStatus(n, reason, rc) ==
    IF rc # 0 \/ reason \in {"fetch failed", "spider exited"} THEN "failed"
    ELSE IF n["error_count"] > 0 THEN "partial" ELSE "succeeded"

Conclude(j) ==
    LET p == proc[j]
        reason == InferFailureReason(job[j].n, errors[j], p.scraped, p.rc)
    IN  /\ p.at = "collected"
        /\ job' = [job EXCEPT ![j].status = InferFinalStatus(job[j].n, reason, p.rc),
                              ![j].reason = reason,
                              ![j].scraped = PagesMetric(job[j].n, p.scraped)]
        /\ proc' = [proc EXCEPT ![j].at = "done"]
        /\ UNCHANGED <<docs, rows, errors, faults>>

Next ==
    \E j \in Job :
        \/ Start(j)
        \/ \E d \in Docs : Look(j, d)
        \/ Save(j)
        \/ Lose(j)
        \/ \E e \in Stage : WriteError(j, e)
        \/ \E created \in BOOLEAN : WriteNotice(j, created)
        \/ SuppressNotice(j)
        \/ \E part \in {"version", "attachment"}, created, first \in BOOLEAN :
               WritePart(j, part, created, first)
        \/ \E first \in BOOLEAN : WriteNoFile(j, first)
        \/ \E rc \in {0, 1} : Exit(j, rc)
        \/ CollectListPageStats(j)
        \/ Conclude(j)

Spec == Init /\ [][Next]_vars
--------------------------------------------------------------------------
(* Properties *)

\* Rows, counters and control points keep their types; a row's flag for a known
\* url comes with the update that found it.
StatsTypeOK ==
    /\ \A u \in Stored : docs[u] \in Row
    /\ rows \in [Table -> Nat]
    /\ \A j \in Job, e \in Stage : errors[j][e] \in 0 .. MaxErrors
    /\ \A j \in Job :
           /\ job[j].n \in [Counters -> Nat] /\ job[j].scraped \in Nat
           /\ job[j].status \in {"running", "succeeded", "failed", "partial"}
           /\ job[j].reason \in Reasons
           /\ proc[j].at \in {"new", "idle", "looked", "exited", "collected", "done"}
           /\ proc[j].item \in Docs \cup {Nil} /\ proc[j].dup \in Url \cup {Nil}
           /\ proc[j].existing \in Row \cup {Nil}
           /\ proc[j].written \in 0 .. MaxItems /\ proc[j].rc \in {0, 1} /\ proc[j].scraped \in Nat
    /\ faults \in 0 .. MaxFaults

\* What the jobs have counted in all: their counters added up, a unit for each count.
Units(c) == UNION {{j} \X (1 .. job[j].n[c]) : j \in Job}
InAll(c) == Cardinality(Units(c))

\* The counters of all jobs account for the tables: nothing was counted as inserted
\* that is not a row, and every row was, but for notices that came with a version or
\* an attachment; and each document and each notice a job claims to have saved is an
\* insert or an update of its own, whichever inserts met each other or were lost
\* (sqlalchemy_writer.py:199-211, 264-271, 363-369, 481-487).
RowsMatchCounters ==
    LET inserted == InAll("records_inserted")
        counted == Cardinality(Stored) + rows["version"] + rows["attachment"]
    IN  /\ counted <= inserted /\ inserted <= counted + rows["notice"]
        /\ \A j \in Job : LET n == job[j].n IN
               n["documents_saved"] + n["notices_upserted"]
                   <= n["records_inserted"] + n["records_updated"]

\* A job cannot own more list documents than it saved, nor report more list
\* pages than it fetched, although other jobs take its documents over between
\* its end and its conclusion (source_crawl_trigger_service.py:866-870).
PagesAreItsOwn ==
    \A j \in Job :
        /\ Cardinality({u \in Stored : docs[u].job = j}) <= job[j].n["documents_saved"]
        /\ job[j].scraped <= job[j].n["pages_fetched"]

ErrorRows(j) == errors[j]["fetch"] + errors[j]["parse"]

\* The final status says what happened: succeeded means a clean exit without a
\* single crawl_error, partial a clean exit with one, failed a bad exit or a
\* fetch error of a run that listed nothing (docs/crawl-job.md:15-18).
StatusTellsRun ==
    \A j \in Job : proc[j].at = "done" =>
        LET clean == proc[j].rc = 0
            barren == job[j].n["list_items_seen"] = 0 /\ errors[j]["fetch"] > 0
        IN  job[j].status = IF ~clean \/ barren THEN "failed"
                            ELSE IF ErrorRows(j) > 0 THEN "partial" ELSE "succeeded"

\* Every marked document was counted: a row marked as a known url has been saved
\* once more than it was inserted, and besides each update and each suppressed
\* notice, deduplicated_count has a row that is marked for its content alone,
\* although overlapping updates write only the columns that differ from what each
\* had loaded (sqlalchemy_writer.py:159-211).
MarksAreCounted ==
    LET known == {u \in Stored : docs[u].dupUrl}
        twins == {u \in Stored : docs[u].dupContent /\ ~docs[u].dupUrl}
    IN  /\ Cardinality(Stored) + Cardinality(known) <= InAll("documents_saved")
        /\ Cardinality(twins) + InAll("records_updated") + InAll("source_duplicates_suppressed")
               <= InAll("deduplicated_count")
=============================================================================
