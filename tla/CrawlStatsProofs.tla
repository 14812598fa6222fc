---------------------------- MODULE CrawlStatsProofs ----------------------------
(***************************************************************************)
(* What the spiders of a source leave behind, for any number of jobs,      *)
(* items, errors and refused transactions, overlapping or not.  A job's    *)
(* counters and its errors stand still once its spider has ended, so what  *)
(* its process infers from them in two later transactions is still true    *)
(* when it is written.  A sum over all jobs is the number of units they    *)
(* have counted, and each save adds at most one.                           *)
(***************************************************************************)
EXTENDS CrawlStats, FiniteSetTheorems, TLAPS

ProcRec == [at : {"new", "idle", "looked", "exited", "collected", "done"},
            item : Docs \cup {Nil}, existing : Row \cup {Nil}, dup : Url \cup {Nil},
            written : 0 .. MaxItems, rc : {0, 1}, scraped : Nat]

JobRec == [n : [Counters -> Nat], status : {"running", "succeeded", "failed", "partial"},
           reason : Reasons, scraped : Nat]

Shape ==
    /\ docs \in [Url -> Row \cup {Nil}]
    /\ rows \in [Table -> Nat]
    /\ errors \in [Job -> [Stage -> Nat]]
    /\ job \in [Job -> JobRec]
    /\ proc \in [Job -> ProcRec]
    /\ faults \in 0 .. MaxFaults

\* A spider between the queries and the write of an item: the row it has loaded
\* may be stale, but it is still there, and a known url stays one.
Visit(j) ==
    proc[j].at = "looked" =>
        /\ proc[j].item \in Docs /\ proc[j].written < MaxItems
        /\ proc[j].existing # Nil =>
              /\ docs[proc[j].item.url] # Nil
              /\ proc[j].existing.dupUrl => docs[proc[j].item.url].dupUrl

\* What the counters of one job have to do with each other and with its errors.
Books(n, errs) ==
    /\ n["error_count"] = errs["fetch"] + errs["parse"]
    /\ n["error_count"] <= MaxErrors
    /\ n["documents_saved"] = n["pages_fetched"]
    /\ n["documents_saved"] + n["notices_upserted"]
           <= n["records_inserted"] + n["records_updated"]
    /\ n["pages_fetched"] = 0 => n["list_items_seen"] = 0

Owned(j) == {u \in Stored : docs[u].job = j}

OwnsWhatItSaved(j) ==
    IsFiniteSet(Owned(j)) /\ Cardinality(Owned(j)) <= job[j].n["documents_saved"]

\* The metric is counted from documents of its own, and reported from the same.
ReportsItsOwn(j) ==
    /\ proc[j].at = "collected" => proc[j].scraped <= job[j].n["pages_fetched"]
    /\ job[j].scraped <= job[j].n["pages_fetched"]

TellsRun(j) ==
    proc[j].at = "done" =>
        LET clean == proc[j].rc = 0
            barren == job[j].n["list_items_seen"] = 0 /\ errors[j]["fetch"] > 0
        IN  job[j].status = IF ~clean \/ barren THEN "failed"
                            ELSE IF ErrorRows(j) > 0 THEN "partial" ELSE "succeeded"

StatsInv ==
    /\ Shape
    /\ \A j \in Job : /\ Visit(j) /\ Books(job[j].n, errors[j])
                      /\ OwnsWhatItSaved(j) /\ ReportsItsOwn(j) /\ TellsRun(j)

----------------------------------------------------------------------------
(* Counters *)

LEMMA DocTypes ==
  ASSUME NEW d \in Docs
  PROVE  /\ d \in DocItem /\ d.url \in Url /\ d.content \in Content
         /\ d.role \in Roles
         /\ d.seen \in Nat /\ d.unique \in Nat /\ d.skipped \in Nat
  BY StatsAssumption DEF DocItem

\* What one saved item adds to the counters of its job.
LEMMA DeltaOf ==
  ASSUME NEW p \in ProcRec, p.item \in Docs
  PROVE  LET delta == DocDelta(p) IN
         /\ delta \in [Counters -> Nat]
         /\ delta["pages_fetched"] = 1 /\ delta["documents_saved"] = 1
         /\ delta["error_count"] = 0 /\ delta["notices_upserted"] = 0
         /\ delta["records_inserted"] + delta["records_updated"] = 1
  <1> USE DocTypes DEF ProcRec
  <1>1. Zero \in [Counters -> Nat]
    BY DEF Zero
  <1>2. DocDelta(p) \in [Counters -> Nat]
    BY <1>1 DEF DocDelta, Counters, One
  <1>3. /\ DocDelta(p)["pages_fetched"] = 1 /\ DocDelta(p)["documents_saved"] = 1
        /\ DocDelta(p)["error_count"] = 0 /\ DocDelta(p)["notices_upserted"] = 0
    BY <1>1 DEF DocDelta, Counters, Zero, One
  <1>4. DocDelta(p)["records_inserted"] + DocDelta(p)["records_updated"] = 1
    <2>1. CASE p.existing = Nil
      BY <1>1, <2>1 DEF DocDelta, Counters, Zero, One
    <2>2. CASE p.existing # Nil
      BY <1>1, <2>2 DEF DocDelta, Counters, Zero, One
    <2> QED
      BY <2>1, <2>2
  <1> QED
    BY <1>2, <1>3, <1>4

\* Saving an item keeps the books: it is one page, one document, and either
\* inserted or updated.
LEMMA SavingKeepsBooks ==
  ASSUME NEW p \in ProcRec, p.item \in Docs,
         NEW n \in [Counters -> Nat], NEW errs \in [Stage -> Nat], Books(n, errs)
  PROVE  LET m == Counted(n, DocDelta(p)) IN
         /\ m \in [Counters -> Nat] /\ Books(m, errs)
         /\ m["documents_saved"] = n["documents_saved"] + 1
         /\ m["pages_fetched"] >= n["pages_fetched"]
  <1> DEFINE delta == DocDelta(p)
             m == Counted(n, delta)
  <1>1. /\ delta \in [Counters -> Nat]
        /\ delta["pages_fetched"] = 1 /\ delta["documents_saved"] = 1
        /\ delta["error_count"] = 0 /\ delta["notices_upserted"] = 0
        /\ delta["records_inserted"] + delta["records_updated"] = 1
    BY DeltaOf
  <1> HIDE DEF delta
  <1>2. m \in [Counters -> Nat] /\ \A c \in Counters : m[c] = n[c] + delta[c]
    BY <1>1 DEF Counted
  <1> HIDE DEF m
  <1>3. Counters = {"pages_fetched", "documents_saved", "deduplicated_count", "error_count",
                    "list_items_seen", "list_items_unique",
                    "list_items_source_duplicates_skipped",
                    "detail_pages_fetched", "notices_upserted",
                    "source_duplicates_suppressed", "records_inserted", "records_updated"}
    BY DEF Counters
  <1>4. /\ m["pages_fetched"] = n["pages_fetched"] + 1
        /\ m["documents_saved"] = n["documents_saved"] + 1
        /\ m["error_count"] = n["error_count"]
        /\ m["notices_upserted"] = n["notices_upserted"]
        /\ m["records_inserted"] + m["records_updated"]
               = n["records_inserted"] + n["records_updated"] + 1
    BY <1>1, <1>2, <1>3
  <1>5. /\ n["pages_fetched"] \in Nat /\ n["documents_saved"] \in Nat
        /\ n["error_count"] \in Nat /\ n["records_inserted"] \in Nat
        /\ n["records_updated"] \in Nat /\ n["notices_upserted"] \in Nat
    BY <1>3
  <1>6. Books(m, errs)
    BY <1>4, <1>5 DEF Books
  <1> QED
    BY <1>2, <1>4, <1>5, <1>6 DEF m, delta

----------------------------------------------------------------------------
(* Documents *)

LEMMA RowsWritten ==
  ASSUME NEW j \in Job, NEW p \in ProcRec, p.item \in Docs
  PROVE  /\ Payload(j, p) \in Row /\ Payload(j, p).job = j
         /\ \A now, loaded \in Row :
               LET r == Flushed(now, loaded, Payload(j, p)) IN
               r \in Row /\ r.job \in {now.job, j}
  <1>1. Payload(j, p) \in Row /\ Payload(j, p).job = j
    BY DocTypes DEF Payload, Row, Meta, Roles, DuplicateContent, ProcRec
  <1>2. ASSUME NEW now \in Row, NEW loaded \in Row, NEW new \in Row
        PROVE  Flushed(now, loaded, new) \in Row
               /\ Flushed(now, loaded, new).job \in {now.job, new.job}
    BY DEF Flushed, Row
  <1> QED
    BY <1>1, <1>2

LEMMA StoredRow ==
  ASSUME Shape, NEW u \in Url
  PROVE  docs[u] # Nil => docs[u] \in Row
  BY DEF Shape

\* The mark of a known url stays, whatever the flush leaves out.
LEMMA FlushedMark ==
  ASSUME NEW now \in Row, NEW loaded \in Row, NEW new \in Row,
         new.dupUrl, loaded.dupUrl => now.dupUrl
  PROVE  Flushed(now, loaded, new).dupUrl
  <1>1. "dupUrl" \in DOMAIN now
    BY DEF Row
  <1>2. Flushed(now, loaded, new).dupUrl =
           IF new.dupUrl # loaded.dupUrl THEN new.dupUrl ELSE now.dupUrl
    BY <1>1 DEF Flushed
  <1>3. new.dupUrl \in BOOLEAN /\ loaded.dupUrl \in BOOLEAN /\ now.dupUrl \in BOOLEAN
    BY DEF Row
  <1>4. CASE loaded.dupUrl
    <2>1. now.dupUrl
      BY <1>4
    <2> QED
      BY <1>2, <2>1, Zenon
  <1>5. CASE ~loaded.dupUrl
    <2>1. new.dupUrl = TRUE /\ loaded.dupUrl = FALSE
      BY <1>3, <1>5, Zenon
    <2> QED
      BY <1>2, <2>1
  <1> QED
    BY <1>4, <1>5

\* What a save does to the table: one row, of this job or of whom it was before.
LEMMA SavedRow ==
  ASSUME StatsInv, NEW j \in Job, Save(j)
  PROVE  LET url == proc[j].item.url IN
         /\ url \in Url
         /\ \E r \in Row :
               /\ docs' = [docs EXCEPT ![url] = r]
               /\ r.job = j \/ (docs[url] # Nil /\ r.job = docs[url].job)
               /\ IF proc[j].existing = Nil THEN docs[url] = Nil ELSE r.dupUrl
  <1> DEFINE p == proc[j]
             url == p.item.url
  <1>1. p \in ProcRec /\ p.item \in Docs /\ url \in Url
    BY DocTypes DEF StatsInv, Shape, Visit, Save
  <1>2. Payload(j, p) \in Row /\ Payload(j, p).job = j
    BY <1>1, RowsWritten
  <1>3. CASE p.existing = Nil
    <2>1. docs' = [docs EXCEPT ![url] = Payload(j, p)] /\ docs[url] = Nil
      BY <1>3 DEF Save, InsertClash
    <2> QED
      BY <1>1, <1>2, <1>3, <2>1
  <1>4. CASE p.existing # Nil
    <2>1. p.existing \in Row /\ docs[url] # Nil
      BY <1>1, <1>4 DEF ProcRec, StatsInv, Visit, Save
    <2>2. docs[url] \in Row
      BY <1>1, <2>1 DEF StatsInv, Shape
    <2>3. docs' = [docs EXCEPT ![url] = Flushed(docs[url], p.existing, Payload(j, p))]
      BY <1>1, <1>4 DEF Save
    <2>4. /\ Flushed(docs[url], p.existing, Payload(j, p)) \in Row
          /\ Flushed(docs[url], p.existing, Payload(j, p)).job \in {docs[url].job, j}
      BY <1>1, <2>1, <2>2, RowsWritten
    <2>5. Flushed(docs[url], p.existing, Payload(j, p)).dupUrl
      <3>1. Payload(j, p).dupUrl
        BY <1>4 DEF Payload
      <3>2. p.existing.dupUrl => docs[url].dupUrl
        BY <1>4 DEF StatsInv, Visit, Save
      <3> QED
        BY <1>2, <2>1, <2>2, <3>1, <3>2, FlushedMark
    <2> QED
      BY <1>1, <1>4, <2>1, <2>3, <2>4, <2>5
  <1> QED
    BY <1>3, <1>4

\* A job gains at most the row it saves; the others may only lose it.
LEMMA OwnersAfter ==
  ASSUME Shape, NEW j \in Job, NEW url \in Url, NEW r \in Row,
         docs' = [docs EXCEPT ![url] = r],
         r.job = j \/ (docs[url] # Nil /\ r.job = docs[url].job),
         NEW k \in Job
  PROVE  Owned(k)' \subseteq IF k = j THEN Owned(k) \cup {url} ELSE Owned(k)
  BY NoRowAssumption DEF Shape, Owned, Stored

LEMMA FewerOwned ==
  ASSUME NEW S, NEW T, NEW x, IsFiniteSet(S), T \subseteq S \cup {x}
  PROVE  /\ IsFiniteSet(T) /\ Cardinality(T) <= Cardinality(S) + 1
         /\ T \subseteq S => Cardinality(T) <= Cardinality(S)
         /\ Cardinality(T) \in Nat /\ Cardinality(S) \in Nat
  <1>0. Cardinality(S) \in Nat
    BY FS_CardinalityType
  <1>1. IsFiniteSet(S \cup {x}) /\ Cardinality(S \cup {x}) <= Cardinality(S) + 1
    <2>1. IsFiniteSet(S \cup {x})
      BY FS_AddElement
    <2>2. \/ Cardinality(S \cup {x}) = Cardinality(S)
          \/ Cardinality(S \cup {x}) = Cardinality(S) + 1
      BY FS_AddElement
    <2> QED
      BY <1>0, <2>1, <2>2
  <1>2. IsFiniteSet(T) /\ Cardinality(T) <= Cardinality(S \cup {x})
    BY <1>1, FS_Subset
  <1>3. T \subseteq S => Cardinality(T) <= Cardinality(S)
    BY FS_Subset
  <1>4. Cardinality(T) \in Nat /\ Cardinality(S) \in Nat /\ Cardinality(S \cup {x}) \in Nat
    BY <1>1, <1>2, FS_CardinalityType
  <1> QED
    BY <1>1, <1>2, <1>3, <1>4

----------------------------------------------------------------------------
(* Steps *)

LEMMA InitInv ==
  ASSUME Init
  PROVE  StatsInv
  <1> USE DEF Init
  <1>1. Zero \in [Counters -> Nat] /\ \A c \in Counters : Zero[c] = 0
    BY DEF Zero
  <1>2. Idle \in ProcRec
    BY StatsAssumption DEF Idle, ProcRec
  <1>3. [n |-> Zero, status |-> "running", reason |-> "-", scraped |-> 0] \in JobRec
    BY <1>1 DEF JobRec, Reasons
  <1>4. Shape
    BY <1>2, <1>3, StatsAssumption DEF Shape
  <1>5. \A j \in Job : Books(job[j].n, errors[j])
    BY <1>1, StatsAssumption DEF Books, Counters, Stage
  <1>6. \A j \in Job : Owned(j) = {}
    BY DEF Owned, Stored
  <1>7. \A j \in Job : OwnsWhatItSaved(j)
    <2>1. IsFiniteSet({}) /\ Cardinality({}) = 0
      BY FS_EmptySet
    <2>2. \A j \in Job : job[j].n["documents_saved"] = 0
      BY <1>1 DEF Counters
    <2> QED
      BY <1>6, <2>1, <2>2, SMTT(30) DEF OwnsWhatItSaved
  <1>8. \A j \in Job : Visit(j) /\ ReportsItsOwn(j) /\ TellsRun(j)
    BY <1>1 DEF Visit, ReportsItsOwn, TellsRun, Idle, Counters
  <1> QED
    BY <1>4, <1>5, <1>7, <1>8 DEF StatsInv

\* A step of one spider or of the process that waits for it, which leaves the
\* tables and the other jobs alone.
LEMMA Alone ==
  ASSUME StatsInv, NEW j \in Job, NEW q \in ProcRec,
         proc' = [proc EXCEPT ![j] = q], docs' = docs, rows' = rows, errors' = errors, job' = job,
         faults' \in 0 .. MaxFaults,
         Visit(j)', ReportsItsOwn(j)', q.at # "done"
  PROVE  StatsInv'
  <1>1. Shape'
    BY DEF StatsInv, Shape
  <1>2. proc'[j] = q /\ \A k \in Job \ {j} : proc'[k] = proc[k]
    BY DEF StatsInv, Shape
  <1>3. ASSUME NEW k \in Job
        PROVE  (Visit(k) /\ ReportsItsOwn(k) /\ TellsRun(k))'
    <2>1. CASE k = j
      BY <1>2, <2>1 DEF TellsRun
    <2>2. CASE k # j
      BY <1>2, <2>2 DEF StatsInv, Visit, ReportsItsOwn, TellsRun, ErrorRows
    <2> QED
      BY <2>1, <2>2
  <1>4. \A k \in Job : Books(job[k].n, errors[k])' /\ OwnsWhatItSaved(k)'
    BY DEF StatsInv, OwnsWhatItSaved, Owned, Stored
  <1> QED
    BY <1>1, <1>3, <1>4 DEF StatsInv

LEMMA StartInv ==
  ASSUME StatsInv, NEW j \in Job, Start(j)
  PROVE  StatsInv'
  <1>1. PICK q \in ProcRec : q = [proc[j] EXCEPT !.at = "idle"]
    BY ZenonT(40) DEF StatsInv, Shape, ProcRec
  <1>2. proc' = [proc EXCEPT ![j] = q] /\ proc'[j] = q /\ q.at = "idle"
    BY <1>1 DEF Start, StatsInv, Shape, ProcRec
  <1>3. Visit(j)' /\ ReportsItsOwn(j)'
    BY <1>2 DEF Visit, ReportsItsOwn, StatsInv, Start
  <1>4. faults' \in 0 .. MaxFaults /\ docs' = docs /\ rows' = rows /\ errors' = errors /\ job' = job
    BY DEF Start, StatsInv, Shape
  <1> QED
    BY <1>2, <1>3, <1>4, Alone

LEMMA LookInv ==
  ASSUME StatsInv, NEW j \in Job, NEW d \in Docs, Look(j, d)
  PROVE  StatsInv'
  <1>1. proc[j] \in ProcRec /\ d.url \in Url /\ docs[d.url] \in Row \cup {Nil}
    BY DocTypes DEF StatsInv, Shape
  <1>2. PICK twin \in Url \cup {Nil} :
           proc' = [proc EXCEPT ![j].at = "looked", ![j].item = d,
                                ![j].existing = docs[d.url], ![j].dup = twin]
    BY DEF Look, Twins, Stored
  <1>3. PICK q : q = [proc[j] EXCEPT !.at = "looked", !.item = d,
                                     !.existing = docs[d.url], !.dup = twin]
    OBVIOUS
  <1>4. /\ q \in ProcRec /\ q.at = "looked" /\ q.item = d /\ q.existing = docs[d.url]
        /\ q.written = proc[j].written
    BY <1>1, <1>3 DEF ProcRec
  <1>5. proc' = [proc EXCEPT ![j] = q] /\ proc'[j] = q
    BY <1>2, <1>3 DEF StatsInv, Shape
  <1>6. /\ docs' = docs /\ rows' = rows /\ errors' = errors /\ job' = job
        /\ faults' \in 0 .. MaxFaults /\ proc[j].written < MaxItems
    BY DEF Look, StatsInv, Shape
  <1>7. Visit(j)' /\ ReportsItsOwn(j)'
    BY <1>4, <1>5, <1>6 DEF Visit, ReportsItsOwn, StatsInv
  <1> QED
    BY <1>4, <1>5, <1>6, <1>7, Alone

LEMMA RestOf ==
  ASSUME StatsInv, NEW j \in Job, proc[j].at = "looked"
  PROVE  Rest(j) \in ProcRec /\ Rest(j).at = "idle"
  <1>1. proc[j] \in ProcRec /\ proc[j].written \in 0 .. MaxItems /\ proc[j].written < MaxItems
    BY DEF StatsInv, Shape, Visit, ProcRec
  <1>2. proc[j].written + 1 \in 0 .. MaxItems
    BY <1>1, StatsAssumption
  <1> QED
    BY <1>1, <1>2 DEF Rest, ProcRec

LEMMA LoseInv ==
  ASSUME StatsInv, NEW j \in Job, Lose(j)
  PROVE  StatsInv'
  <1>1. PICK q \in ProcRec : q = Rest(j) /\ q.at = "idle"
    BY RestOf DEF Lose
  <1>2. proc' = [proc EXCEPT ![j] = q] /\ proc'[j] = q
    BY <1>1 DEF Lose, StatsInv, Shape
  <1>3. docs' = docs /\ rows' = rows /\ errors' = errors /\ job' = job
    BY DEF Lose
  <1>4. faults' \in 0 .. MaxFaults
    BY StatsAssumption DEF Lose, StatsInv, Shape
  <1>5. Visit(j)' /\ ReportsItsOwn(j)'
    BY <1>1, <1>2, <1>3 DEF Visit, ReportsItsOwn, StatsInv
  <1> QED
    BY <1>1, <1>2, <1>3, <1>4, <1>5, Alone

LEMMA ExitInv ==
  ASSUME StatsInv, NEW j \in Job, NEW rc \in {0, 1}, Exit(j, rc)
  PROVE  StatsInv'
  <1>0. Idle \in ProcRec
    BY StatsAssumption DEF Idle, ProcRec
  <1>1. PICK q \in ProcRec : q = [Idle EXCEPT !.at = "exited", !.rc = rc]
    BY <1>0 DEF ProcRec
  <1>2. q.at = "exited"
    BY <1>1 DEF Idle
  <1>3. proc' = [proc EXCEPT ![j] = q] /\ proc'[j] = q
    BY <1>1 DEF Exit, StatsInv, Shape
  <1>4. /\ docs' = docs /\ rows' = rows /\ errors' = errors /\ job' = job /\ faults' \in 0 .. MaxFaults
    BY DEF Exit, StatsInv, Shape
  <1>5. Visit(j)' /\ ReportsItsOwn(j)'
    BY <1>2, <1>3, <1>4 DEF Visit, ReportsItsOwn, StatsInv
  <1> QED
    BY <1>2, <1>3, <1>4, <1>5, Alone

\* The list documents are some of those the job owns, which are no more than the
\* pages it fetched.
LEMMA CollectInv ==
  ASSUME StatsInv, NEW j \in Job, CollectListPageStats(j)
  PROVE  StatsInv'
  <1>1. PICK c : c = Cardinality(ListDocs(j))
    OBVIOUS
  <1>2. job[j].n["pages_fetched"] \in Nat /\ job[j].n["documents_saved"] = job[j].n["pages_fetched"]
    BY DEF StatsInv, Shape, Books, JobRec, Counters
  <1>3. ListDocs(j) \subseteq Owned(j) /\ IsFiniteSet(Owned(j))
    BY DEF ListDocs, Owned, StatsInv, OwnsWhatItSaved
  <1>4. c \in Nat /\ c <= Cardinality(Owned(j)) /\ Cardinality(Owned(j)) \in Nat
    BY <1>1, <1>3, FS_Subset, FS_CardinalityType
  <1>5. c <= job[j].n["pages_fetched"]
    BY <1>2, <1>4 DEF StatsInv, OwnsWhatItSaved
  <1>6. PICK q \in ProcRec : q = [proc[j] EXCEPT !.at = "collected", !.scraped = c]
    BY <1>4, ZenonT(40) DEF StatsInv, Shape, ProcRec
  <1>7. q.at = "collected" /\ q.scraped = c
    BY <1>6 DEF StatsInv, Shape, ProcRec
  <1>8. proc' = [proc EXCEPT ![j] = q] /\ proc'[j] = q
    BY <1>1, <1>6 DEF CollectListPageStats, StatsInv, Shape
  <1>9. /\ docs' = docs /\ rows' = rows /\ errors' = errors /\ job' = job /\ faults' \in 0 .. MaxFaults
    BY DEF CollectListPageStats, StatsInv, Shape
  <1>10. Visit(j)' /\ ReportsItsOwn(j)'
    BY <1>5, <1>7, <1>8, <1>9 DEF Visit, ReportsItsOwn, StatsInv
  <1> QED
    BY <1>7, <1>8, <1>9, <1>10, Alone

\* A row and the counters of its job, in one commit: the books balance before and
\* after, and the job owns one row more at most.
LEMMA SaveInv ==
  ASSUME StatsInv, NEW j \in Job, Save(j)
  PROVE  StatsInv'
  <1>1. proc[j] \in ProcRec /\ proc[j].item \in Docs /\ proc[j].at = "looked"
    BY DEF StatsInv, Shape, Visit, Save
  <1>2. PICK url \in Url, r \in Row :
           /\ docs' = [docs EXCEPT ![url] = r]
           /\ r.job = j \/ (docs[url] # Nil /\ r.job = docs[url].job)
           /\ docs[url] = Nil \/ r.dupUrl
    BY SavedRow
  <1>3. PICK q \in ProcRec : q = Rest(j) /\ q.at = "idle"
    BY <1>1, RestOf
  <1>4. PICK m \in [Counters -> Nat] :
           /\ m = Counted(job[j].n, DocDelta(proc[j]))
           /\ Books(m, errors[j])
           /\ m["documents_saved"] = job[j].n["documents_saved"] + 1
           /\ m["pages_fetched"] >= job[j].n["pages_fetched"]
    BY <1>1, SavingKeepsBooks DEF StatsInv, Shape, JobRec
  <1>4a. PICK b : b = [job[j] EXCEPT !.n = m]
    OBVIOUS
  <1>5. b \in JobRec /\ b.n = m /\ b.scraped = job[j].scraped
    BY <1>4a DEF StatsInv, Shape, JobRec
  <1>6. /\ proc' = [proc EXCEPT ![j] = q] /\ proc'[j] = q
        /\ job' = [job EXCEPT ![j] = b] /\ job'[j] = b
        /\ errors' = errors /\ rows' = rows /\ faults' = faults
    <2>1. job' = [job EXCEPT ![j] = [job[j] EXCEPT !.n = m]]
      BY <1>4 DEF Save
    <2>2. proc' = [proc EXCEPT ![j] = q] /\ errors' = errors /\ rows' = rows /\ faults' = faults
      BY <1>3 DEF Save
    <2> QED
      BY <1>4a, <2>1, <2>2 DEF StatsInv, Shape
  <1>7. \A k \in Job \ {j} : proc'[k] = proc[k] /\ job'[k] = job[k]
    BY <1>6 DEF StatsInv, Shape
  <1>8. Shape'
    BY <1>2, <1>5, <1>6 DEF StatsInv, Shape
  <1>9. ASSUME NEW u \in Url, docs[u] # Nil
        PROVE  docs'[u] # Nil /\ (docs[u].dupUrl => docs'[u].dupUrl)
    BY <1>2, <1>9, NoRowAssumption DEF StatsInv, Shape
  <1>10. ASSUME NEW k \in Job
         PROVE  Visit(k)'
    <2>1. CASE k = j
      BY <1>3, <1>6, <2>1 DEF Visit
    <2>2. CASE k # j
      BY <1>7, <1>9, <2>2, DocTypes DEF StatsInv, Visit
    <2> QED
      BY <2>1, <2>2
  <1>11. \A k \in Job : Books(job[k].n, errors[k])'
    BY <1>4, <1>5, <1>6, <1>7 DEF StatsInv
  <1>12. ASSUME NEW k \in Job
         PROVE  OwnsWhatItSaved(k)'
    <2>1. Owned(k)' \subseteq IF k = j THEN Owned(k) \cup {url} ELSE Owned(k)
      BY <1>2, OwnersAfter DEF StatsInv
    <2>2. IsFiniteSet(Owned(k)) /\ Cardinality(Owned(k)) <= job[k].n["documents_saved"]
      BY DEF StatsInv, OwnsWhatItSaved
    <2>3. PICK before, after : before = Owned(k) /\ after = Owned(k)'
      OBVIOUS
    <2>4. after \subseteq before \cup {url} /\ (k # j => after \subseteq before)
      BY <2>1, <2>3
    <2>5. /\ IsFiniteSet(after) /\ Cardinality(after) <= Cardinality(before) + 1
          /\ k # j => Cardinality(after) <= Cardinality(before)
          /\ Cardinality(after) \in Nat /\ Cardinality(before) \in Nat
      BY <2>2, <2>3, <2>4, FewerOwned
    <2>6. job[k].n["documents_saved"] \in Nat
      BY DEF StatsInv, Shape, JobRec, Counters
    <2>7. CASE k = j
      <3>1. job'[k].n["documents_saved"] = job[k].n["documents_saved"] + 1
        BY <1>4, <1>5, <1>6, <2>7
      <3>2. Cardinality(after) <= job'[k].n["documents_saved"]
        BY <2>2, <2>3, <2>5, <2>6, <3>1
      <3> QED
        BY <2>3, <2>5, <3>2 DEF OwnsWhatItSaved
    <2>8. CASE k # j
      BY <1>7, <2>2, <2>3, <2>5, <2>6, <2>8 DEF OwnsWhatItSaved
    <2> QED
      BY <2>7, <2>8
  <1>13. ASSUME NEW k \in Job
         PROVE  ReportsItsOwn(k)' /\ TellsRun(k)'
    <2>1. CASE k = j
      <3>1. /\ job[j].scraped <= job[j].n["pages_fetched"] /\ job[j].scraped \in Nat
            /\ job[j].n["pages_fetched"] \in Nat /\ m["pages_fetched"] \in Nat
        BY DEF StatsInv, ReportsItsOwn, Shape, JobRec, Counters
      <3>2. job[j].scraped <= m["pages_fetched"]
        BY <1>4, <3>1
      <3> QED
        BY <1>3, <1>5, <1>6, <2>1, <3>2 DEF ReportsItsOwn, TellsRun
    <2>2. CASE k # j
      BY <1>6, <1>7, <2>2 DEF StatsInv, ReportsItsOwn, TellsRun, ErrorRows
    <2> QED
      BY <2>1, <2>2
  <1> QED
    BY <1>8, <1>10, <1>11, <1>12, <1>13 DEF StatsInv

LEMMA WriteErrorInv ==
  ASSUME StatsInv, NEW j \in Job, NEW e \in Stage, WriteError(j, e)
  PROVE  StatsInv'
  <1>1. /\ job[j] \in JobRec /\ errors[j] \in [Stage -> Nat] /\ proc[j].at = "idle"
        /\ job[j].n \in [Counters -> Nat] /\ job[j].n["error_count"] < MaxErrors
    BY DEF StatsInv, Shape, WriteError, JobRec
  <1>1a. PICK m : m = [job[j].n EXCEPT !["error_count"] = @ + 1]
    OBVIOUS
  <1>1b. "error_count" \in Counters /\ job[j].n["error_count"] \in Nat
    BY <1>1 DEF Counters
  <1>2. /\ m \in [Counters -> Nat] /\ m["error_count"] = job[j].n["error_count"] + 1
        /\ \A c \in Counters \ {"error_count"} : m[c] = job[j].n[c]
    BY <1>1, <1>1a, <1>1b
  <1>2a. PICK errs : errs = [errors[j] EXCEPT ![e] = @ + 1]
    OBVIOUS
  <1>3. /\ errs \in [Stage -> Nat]
        /\ errs["fetch"] + errs["parse"] = errors[j]["fetch"] + errors[j]["parse"] + 1
    <2>1. /\ errs \in [Stage -> Nat] /\ errs[e] = errors[j][e] + 1
          /\ \A f \in Stage \ {e} : errs[f] = errors[j][f]
      BY <1>1, <1>2a
    <2>2. Stage = {"fetch", "parse"}
      BY DEF Stage
    <2>3. errors[j]["fetch"] \in Nat /\ errors[j]["parse"] \in Nat
      BY <1>1, <2>2
    <2>4. CASE e = "fetch"
      BY <2>1, <2>2, <2>3, <2>4
    <2>5. CASE e = "parse"
      BY <2>1, <2>2, <2>3, <2>5
    <2> QED
      BY <2>1, <2>2, <2>4, <2>5
  <1>3a. PICK b : b = [job[j] EXCEPT !.n = m]
    OBVIOUS
  <1>4. b \in JobRec /\ b.n = m /\ b.scraped = job[j].scraped
    BY <1>1, <1>2, <1>3a DEF JobRec
  <1>5. /\ job' = [job EXCEPT ![j] = b] /\ job'[j] = b
        /\ errors' = [errors EXCEPT ![j] = errs] /\ errors'[j] = errs
        /\ docs' = docs /\ rows' = rows /\ proc' = proc /\ faults' = faults
    <2>1. job' = [job EXCEPT ![j] = [job[j] EXCEPT !.n = m]]
      BY <1>1a DEF WriteError
    <2>2. errors' = [errors EXCEPT ![j] = errs]
      BY <1>2a DEF WriteError
    <2>3. docs' = docs /\ rows' = rows /\ proc' = proc /\ faults' = faults
      BY DEF WriteError
    <2> QED
      BY <1>3a, <2>1, <2>2, <2>3 DEF StatsInv, Shape
  <1>6. \A k \in Job \ {j} : errors'[k] = errors[k] /\ job'[k] = job[k]
    BY <1>5 DEF StatsInv, Shape
  <1>7. Shape'
    BY <1>3, <1>4, <1>5 DEF StatsInv, Shape
  <1>8. \A k \in Job : Visit(k)'
    BY <1>5 DEF StatsInv, Visit
  <1>9. /\ m["documents_saved"] = job[j].n["documents_saved"]
        /\ m["pages_fetched"] = job[j].n["pages_fetched"]
        /\ m["records_inserted"] = job[j].n["records_inserted"]
        /\ m["records_updated"] = job[j].n["records_updated"]
        /\ m["list_items_seen"] = job[j].n["list_items_seen"]
        /\ m["notices_upserted"] = job[j].n["notices_upserted"]
    BY <1>2 DEF Counters
  <1>10. Books(m, errs)
    BY <1>1, <1>2, <1>3, <1>9, StatsAssumption DEF StatsInv, Books, Counters
  <1>11. \A k \in Job : Books(job[k].n, errors[k])'
    BY <1>4, <1>5, <1>6, <1>10 DEF StatsInv
  <1>12. ASSUME NEW k \in Job
         PROVE  OwnsWhatItSaved(k)'
    <2>1. Owned(k)' = Owned(k)
      BY <1>5 DEF Owned, Stored
    <2>2. job'[k].n["documents_saved"] = job[k].n["documents_saved"]
      BY <1>4, <1>5, <1>6, <1>9
    <2> QED
      BY <2>1, <2>2 DEF StatsInv, OwnsWhatItSaved
  <1>13. ASSUME NEW k \in Job
         PROVE  ReportsItsOwn(k)' /\ TellsRun(k)'
    <2>1. CASE k = j
      BY <1>1, <1>4, <1>5, <1>9, <2>1 DEF StatsInv, ReportsItsOwn, TellsRun
    <2>2. CASE k # j
      BY <1>5, <1>6, <2>2 DEF StatsInv, ReportsItsOwn, TellsRun, ErrorRows
    <2> QED
      BY <2>1, <2>2
  <1> QED
    BY <1>7, <1>8, <1>11, <1>12, <1>13 DEF StatsInv

----------------------------------------------------------------------------
(* Notices, versions and attachments *)

\* What a transaction of these writers adds: nothing to the pages, the documents
\* and the errors, an insert for each row but perhaps a notice, and a duplicate for
\* each update and each suppressed notice.
PartDelta(delta, added) ==
    /\ delta \in [Counters -> {0, 1}] /\ added \subseteq Table
    /\ \A c \in {"pages_fetched", "documents_saved", "error_count", "list_items_seen"} : delta[c] = 0
    /\ delta["notices_upserted"] <= delta["records_inserted"] + delta["records_updated"]
    /\ One("version" \in added) + One("attachment" \in added) <= delta["records_inserted"]
    /\ delta["records_inserted"]
           <= One("version" \in added) + One("attachment" \in added) + One("notice" \in added)
    /\ delta["records_updated"] + delta["source_duplicates_suppressed"] <= delta["deduplicated_count"]

Parts(j) ==
    \/ \E created \in BOOLEAN : WriteNotice(j, created)
    \/ SuppressNotice(j)
    \/ \E part \in {"version", "attachment"}, created, first \in BOOLEAN :
           WritePart(j, part, created, first)
    \/ \E first \in BOOLEAN : WriteNoFile(j, first)

LEMMA TallyOf ==
  ASSUME NEW created \in BOOLEAN
  PROVE  /\ Tally(created) \in [Counters -> {0, 1}]
         /\ Tally(created)["records_inserted"] = One(created)
         /\ Tally(created)["records_updated"] = One(~created)
         /\ Tally(created)["deduplicated_count"] = One(~created)
         /\ \A c \in Counters \ {"records_inserted", "records_updated", "deduplicated_count"} :
               Tally(created)[c] = 0
  <1>1. /\ Zero \in [Counters -> {0, 1}] /\ \A c \in Counters : Zero[c] = 0
        /\ One(created) \in {0, 1} /\ One(~created) \in {0, 1}
    BY DEF Zero, One
  <1>2. {"records_inserted", "records_updated", "deduplicated_count"} \subseteq Counters
    BY DEF Counters
  <1> QED
    BY <1>1, <1>2 DEF Tally

LEMMA PartsWrite ==
  ASSUME NEW j \in Job, Parts(j)
  PROVE  \E delta, added : Write(j, delta, added) /\ PartDelta(delta, added)
  <1>1. /\ Zero \in [Counters -> {0, 1}] /\ \A c \in Counters : Zero[c] = 0
        /\ One(TRUE) = 1 /\ One(FALSE) = 0
    BY DEF Zero, One
  <1>2. CASE \E created \in BOOLEAN : WriteNotice(j, created)
    <2>1. PICK created \in BOOLEAN : WriteNotice(j, created)
      BY <1>2
    <2>2. PICK delta : delta = [Tally(created) EXCEPT !["notices_upserted"] = 1]
      OBVIOUS
    <2>3. PICK added : added = Made("notice", created)
      OBVIOUS
    <2>4. Write(j, delta, added)
      BY <2>1, <2>2, <2>3 DEF WriteNotice
    <2>5. added = IF created THEN {"notice"} ELSE {}
      BY <2>3 DEF Made
    <2>6. /\ delta \in [Counters -> {0, 1}] /\ delta["notices_upserted"] = 1
          /\ \A c \in Counters \ {"notices_upserted"} : delta[c] = Tally(created)[c]
      BY <2>2, TallyOf DEF Counters
    <2>6a. /\ delta["records_inserted"] = One(created)
           /\ delta["records_updated"] = One(~created)
           /\ delta["deduplicated_count"] = One(~created)
           /\ delta["source_duplicates_suppressed"] = 0
           /\ \A c \in {"pages_fetched", "documents_saved", "error_count", "list_items_seen"} :
                 delta[c] = 0
      BY <2>6, TallyOf DEF Counters
    <2>7. PartDelta(delta, added)
      <3>1. added \subseteq Table /\ "version" \notin added /\ "attachment" \notin added
        BY <2>5 DEF Table
      <3>2. One("version" \in added) = 0 /\ One("attachment" \in added) = 0
        BY <3>1 DEF One
      <3>3. One("notice" \in added) = One(created)
        BY <2>5 DEF One
      <3>4. /\ One(created) \in {0, 1} /\ One(~created) \in {0, 1}
            /\ 1 <= One(created) + One(~created)
        BY DEF One
      <3> QED
        BY <2>6, <2>6a, <3>1, <3>2, <3>3, <3>4 DEF PartDelta
    <2> QED
      BY <2>4, <2>7
  <1>3. CASE SuppressNotice(j)
    <2>1. PICK delta : delta = [Zero EXCEPT !["deduplicated_count"] = 1,
                                            !["source_duplicates_suppressed"] = 1]
      OBVIOUS
    <2>2. Write(j, delta, {})
      BY <1>3, <2>1 DEF SuppressNotice
    <2>3. PartDelta(delta, {})
      BY <1>1, <2>1 DEF PartDelta, Counters, One
    <2> QED
      BY <2>2, <2>3
  <1>4. CASE \E part \in {"version", "attachment"}, created, first \in BOOLEAN :
                WritePart(j, part, created, first)
    <2>1. PICK part \in {"version", "attachment"}, created \in BOOLEAN, first \in BOOLEAN :
                WritePart(j, part, created, first)
      BY <1>4
    <2>2. PICK delta : delta = Tally(created)
      OBVIOUS
    <2>3. PICK added : added = Made(part, created) \cup Made("notice", first)
      OBVIOUS
    <2>4. Write(j, delta, added)
      BY <2>1, <2>2, <2>3 DEF WritePart
    <2>5. /\ added \subseteq Table
          /\ "version" \in added <=> created /\ part = "version"
          /\ "attachment" \in added <=> created /\ part = "attachment"
      BY <2>1, <2>3 DEF Made, Table
    <2>6. One("version" \in added) + One("attachment" \in added) = One(created)
      BY <2>1, <2>5 DEF One
    <2>7. PartDelta(delta, added)
      <3>1. /\ One(created) \in {0, 1} /\ One(~created) \in {0, 1}
            /\ One("notice" \in added) \in {0, 1}
            /\ One("version" \in added) \in {0, 1} /\ One("attachment" \in added) \in {0, 1}
        BY DEF One
      <3>2. /\ delta \in [Counters -> {0, 1}]
            /\ delta["records_inserted"] = One(created)
            /\ delta["records_updated"] = One(~created)
            /\ delta["deduplicated_count"] = One(~created)
            /\ delta["source_duplicates_suppressed"] = 0 /\ delta["notices_upserted"] = 0
            /\ \A c \in {"pages_fetched", "documents_saved", "error_count", "list_items_seen"} :
                  delta[c] = 0
        BY <2>2, TallyOf DEF Counters
      <3> QED
        BY <2>5, <2>6, <3>1, <3>2 DEF PartDelta
    <2> QED
      BY <2>4, <2>7
  <1>5. CASE \E first \in BOOLEAN : WriteNoFile(j, first)
    <2>1. PICK first \in BOOLEAN : WriteNoFile(j, first)
      BY <1>5
    <2>2. PICK added : added = Made("notice", first)
      OBVIOUS
    <2>3. Write(j, Zero, added)
      BY <2>1, <2>2 DEF WriteNoFile
    <2>4. added \subseteq Table /\ "version" \notin added /\ "attachment" \notin added
      BY <2>2 DEF Made, Table
    <2>5. PartDelta(Zero, added)
      BY <1>1, <2>4 DEF PartDelta, Counters, One
    <2> QED
      BY <2>3, <2>5
  <1> QED
    BY <1>2, <1>3, <1>4, <1>5 DEF Parts

LEMMA PartKeepsBooks ==
  ASSUME NEW n \in [Counters -> Nat], NEW errs \in [Stage -> Nat], Books(n, errs),
         NEW delta, NEW added, PartDelta(delta, added)
  PROVE  LET m == Counted(n, delta) IN
         /\ m \in [Counters -> Nat] /\ Books(m, errs)
         /\ \A c \in {"documents_saved", "pages_fetched", "list_items_seen"} : m[c] = n[c]
  <1> DEFINE m == Counted(n, delta)
  <1>1. delta \in [Counters -> {0, 1}]
    BY DEF PartDelta
  <1>2. m \in [Counters -> Nat] /\ \A c \in Counters : m[c] = n[c] + delta[c] /\ n[c] \in Nat
    BY <1>1 DEF Counted
  <1> HIDE DEF m
  <1>3. \A c \in {"pages_fetched", "documents_saved", "error_count", "list_items_seen"} :
           c \in Counters /\ m[c] = n[c]
    BY <1>2 DEF PartDelta, Counters
  <1>4. \A c \in {"notices_upserted", "records_inserted", "records_updated"} :
           m[c] = n[c] + delta[c] /\ n[c] \in Nat /\ delta[c] \in Nat
    BY <1>1, <1>2 DEF Counters
  <1>5. n["documents_saved"] \in Nat
    BY <1>2, <1>3
  <1>6. m["documents_saved"] + m["notices_upserted"]
            <= m["records_inserted"] + m["records_updated"]
    BY <1>3, <1>4, <1>5 DEF Books, PartDelta
  <1>7. Books(m, errs)
    BY <1>3, <1>6 DEF Books
  <1> QED
    BY <1>2, <1>3, <1>7 DEF m

LEMMA PartsInv ==
  ASSUME StatsInv, NEW j \in Job, Parts(j)
  PROVE  StatsInv'
  <1>1. PICK delta, added : Write(j, delta, added) /\ PartDelta(delta, added)
    BY PartsWrite
  <1>2. /\ proc[j] \in ProcRec /\ job[j] \in JobRec /\ proc[j].at = "idle"
        /\ job[j].n \in [Counters -> Nat] /\ errors[j] \in [Stage -> Nat]
        /\ proc[j].written \in 0 .. MaxItems /\ proc[j].written < MaxItems
    BY <1>1 DEF Write, StatsInv, Shape, JobRec, ProcRec
  <1>3. PICK m \in [Counters -> Nat] :
           /\ m = Counted(job[j].n, delta) /\ Books(m, errors[j])
           /\ \A c \in {"documents_saved", "pages_fetched", "list_items_seen"} : m[c] = job[j].n[c]
    BY <1>1, <1>2, PartKeepsBooks DEF StatsInv
  <1>4. PICK b : b = [job[j] EXCEPT !.n = m]
    OBVIOUS
  <1>5. b \in JobRec /\ b.n = m /\ b.scraped = job[j].scraped
    BY <1>2, <1>4 DEF JobRec
  <1>6. PICK q : q = [proc[j] EXCEPT !.written = @ + 1]
    OBVIOUS
  <1>7. q \in ProcRec /\ q.at = "idle"
    <2>1. proc[j].written + 1 \in 0 .. MaxItems
      BY <1>2, StatsAssumption
    <2> QED
      BY <1>2, <1>6, <2>1 DEF ProcRec
  <1>8. /\ job' = [job EXCEPT ![j] = b] /\ job'[j] = b
        /\ proc' = [proc EXCEPT ![j] = q] /\ proc'[j] = q
        /\ docs' = docs /\ errors' = errors /\ faults' = faults
    <2>1. job' = [job EXCEPT ![j] = [job[j] EXCEPT !.n = m]]
      BY <1>1, <1>3 DEF Write
    <2>2. proc' = [proc EXCEPT ![j] = [proc[j] EXCEPT !.written = @ + 1]]
      BY <1>1 DEF Write
    <2>3. docs' = docs /\ errors' = errors /\ faults' = faults
      BY <1>1 DEF Write
    <2> QED
      BY <1>4, <1>6, <2>1, <2>2, <2>3 DEF StatsInv, Shape
  <1>9. rows' \in [Table -> Nat]
    <2>1. \A t \in Table : rows[t] \in Nat /\ One(t \in added) \in Nat
      BY DEF StatsInv, Shape, One
    <2> QED
      BY <1>1, <2>1 DEF Write
  <1>10. \A k \in Job \ {j} : proc'[k] = proc[k] /\ job'[k] = job[k]
    BY <1>8 DEF StatsInv, Shape
  <1>11. Shape'
    BY <1>5, <1>7, <1>8, <1>9 DEF StatsInv, Shape
  <1>12. ASSUME NEW k \in Job
         PROVE  Books(job[k].n, errors[k])' /\ OwnsWhatItSaved(k)'
    <2>1. job'[k].n["documents_saved"] = job[k].n["documents_saved"]
      BY <1>3, <1>5, <1>8, <1>10
    <2>2. Owned(k)' = Owned(k)
      BY <1>8 DEF Owned, Stored
    <2>3. OwnsWhatItSaved(k)'
      BY <2>1, <2>2 DEF StatsInv, OwnsWhatItSaved
    <2> QED
      BY <1>3, <1>5, <1>8, <1>10, <2>3 DEF StatsInv
  <1>13. ASSUME NEW k \in Job
         PROVE  Visit(k)' /\ ReportsItsOwn(k)' /\ TellsRun(k)'
    <2>1. CASE k = j
      BY <1>3, <1>5, <1>7, <1>8, <2>1 DEF StatsInv, Visit, ReportsItsOwn, TellsRun
    <2>2. CASE k # j
      BY <1>8, <1>10, <2>2 DEF StatsInv, Visit, ReportsItsOwn, TellsRun, ErrorRows
    <2> QED
      BY <2>1, <2>2
  <1> QED
    BY <1>11, <1>12, <1>13 DEF StatsInv

----------------------------------------------------------------------------
(* Conclusions *)

\* The reason is "fetch failed" only of a run that listed nothing: whatever was
\* listed came from a page, so the metric of such a run is not zero.
LEMMA StatusInferred ==
  ASSUME NEW n \in [Counters -> Nat], NEW errs \in [Stage -> Nat], Books(n, errs),
         NEW scraped \in Nat, NEW rc \in {0, 1}
  PROVE  LET barren == n["list_items_seen"] = 0 /\ errs["fetch"] > 0
             reason == InferFailureReason(n, errs, scraped, rc)
         IN  /\ reason \in Reasons
             /\ InferFinalStatus(n, reason, rc) =
                   IF rc # 0 \/ barren THEN "failed"
                   ELSE IF errs["fetch"] + errs["parse"] > 0 THEN "partial" ELSE "succeeded"
  <1> DEFINE reason == InferFailureReason(n, errs, scraped, rc)
  <1>1. /\ n["list_items_seen"] \in Nat /\ n["pages_fetched"] \in Nat /\ n["error_count"] \in Nat
        /\ errs["fetch"] \in Nat /\ errs["parse"] \in Nat
    BY DEF Counters, Stage
  <1>2. n["list_items_seen"] > 0 => PagesMetric(n, scraped) # 0
    BY <1>1 DEF Books, PagesMetric
  <1>3. reason \in Reasons
    BY DEF InferFailureReason, Reasons
  <1>4. CASE rc # 0
    BY <1>3, <1>4 DEF InferFinalStatus
  <1>5. CASE rc = 0 /\ n["list_items_seen"] = 0 /\ errs["fetch"] > 0
    <2>1. reason = "fetch failed"
      BY <1>1, <1>5 DEF InferFailureReason
    <2> QED
      BY <1>3, <1>5, <2>1 DEF InferFinalStatus
  <1>6. CASE rc = 0 /\ ~(n["list_items_seen"] = 0 /\ errs["fetch"] > 0)
    <2>1. reason \notin {"fetch failed", "spider exited"}
      BY <1>1, <1>2, <1>6 DEF InferFailureReason
    <2>2. n["error_count"] > 0 <=> errs["fetch"] + errs["parse"] > 0
      BY DEF Books
    <2> QED
      BY <1>3, <1>6, <2>1, <2>2 DEF InferFinalStatus
  <1> QED
    BY <1>3, <1>4, <1>5, <1>6

LEMMA ConcludeInv ==
  ASSUME StatsInv, NEW j \in Job, Conclude(j)
  PROVE  StatsInv'
  <1>1. /\ proc[j] \in ProcRec /\ job[j] \in JobRec /\ errors[j] \in [Stage -> Nat]
        /\ job[j].n \in [Counters -> Nat] /\ Books(job[j].n, errors[j])
        /\ proc[j].at = "collected" /\ proc[j].rc \in {0, 1} /\ proc[j].scraped \in Nat
    BY DEF StatsInv, Shape, JobRec, ProcRec, Conclude
  <1>2. PICK reason \in Reasons :
           reason = InferFailureReason(job[j].n, errors[j], proc[j].scraped, proc[j].rc)
    BY <1>1, StatusInferred
  <1>3. PICK st : st = InferFinalStatus(job[j].n, reason, proc[j].rc)
    OBVIOUS
  <1>4. /\ st \in {"succeeded", "failed", "partial"}
        /\ st = IF proc[j].rc # 0 \/ (job[j].n["list_items_seen"] = 0 /\ errors[j]["fetch"] > 0)
                THEN "failed"
                ELSE IF errors[j]["fetch"] + errors[j]["parse"] > 0 THEN "partial" ELSE "succeeded"
    BY <1>1, <1>2, <1>3, StatusInferred
  <1>5. PICK c : c = PagesMetric(job[j].n, proc[j].scraped)
    OBVIOUS
  <1>6. c \in Nat /\ c <= job[j].n["pages_fetched"]
    <2>1. job[j].n["pages_fetched"] \in Nat /\ proc[j].scraped <= job[j].n["pages_fetched"]
      BY <1>1 DEF StatsInv, ReportsItsOwn, Counters
    <2> QED
      BY <1>1, <1>5, <2>1 DEF PagesMetric
  <1>6a. PICK b : b = [job[j] EXCEPT !.status = st, !.reason = reason, !.scraped = c]
    OBVIOUS
  <1>7. b \in JobRec /\ b.n = job[j].n /\ b.status = st /\ b.scraped = c
    BY <1>1, <1>4, <1>6, <1>6a DEF JobRec
  <1>7a. PICK q : q = [proc[j] EXCEPT !.at = "done"]
    OBVIOUS
  <1>8. q \in ProcRec /\ q.at = "done" /\ q.rc = proc[j].rc
    BY <1>1, <1>7a DEF ProcRec
  <1>9. /\ job' = [job EXCEPT ![j] = b] /\ job'[j] = b
        /\ proc' = [proc EXCEPT ![j] = q] /\ proc'[j] = q
        /\ docs' = docs /\ rows' = rows /\ errors' = errors /\ faults' = faults
    <2>1. job' = [job EXCEPT ![j] = [job[j] EXCEPT !.status = st, !.reason = reason,
                                                   !.scraped = c]]
      BY <1>2, <1>3, <1>5 DEF Conclude
    <2>2. proc' = [proc EXCEPT ![j] = [proc[j] EXCEPT !.at = "done"]]
      BY DEF Conclude
    <2>3. docs' = docs /\ rows' = rows /\ errors' = errors /\ faults' = faults
      BY DEF Conclude
    <2> QED
      BY <1>6a, <1>7a, <2>1, <2>2, <2>3 DEF StatsInv, Shape
  <1>10. \A k \in Job \ {j} : proc'[k] = proc[k] /\ job'[k] = job[k]
    BY <1>9 DEF StatsInv, Shape
  <1>11. Shape'
    BY <1>7, <1>8, <1>9 DEF StatsInv, Shape
  <1>12. \A k \in Job : job'[k].n = job[k].n
    BY <1>7, <1>9, <1>10
  <1>13. \A k \in Job : Books(job[k].n, errors[k])' /\ OwnsWhatItSaved(k)'
    BY <1>9, <1>12 DEF StatsInv, OwnsWhatItSaved, Owned, Stored
  <1>14. ASSUME NEW k \in Job
         PROVE  Visit(k)' /\ ReportsItsOwn(k)' /\ TellsRun(k)'
    <2>1. CASE k = j
      <3>1. Visit(j)' /\ ReportsItsOwn(j)'
        BY <1>6, <1>7, <1>8, <1>9 DEF Visit, ReportsItsOwn
      <3>2. TellsRun(j)'
        BY <1>4, <1>7, <1>8, <1>9 DEF TellsRun, ErrorRows
      <3> QED
        BY <2>1, <3>1, <3>2
    <2>2. CASE k # j
      BY <1>9, <1>10, <2>2 DEF StatsInv, Visit, ReportsItsOwn, TellsRun, ErrorRows
    <2> QED
      BY <2>1, <2>2
  <1> QED
    BY <1>11, <1>13, <1>14 DEF StatsInv

LEMMA StatsStep == StatsInv /\ [Next]_vars => StatsInv'
  <1> SUFFICES ASSUME StatsInv, [Next]_vars
               PROVE  StatsInv'
    OBVIOUS
  <1>1. CASE UNCHANGED vars
    BY <1>1 DEF vars, StatsInv, Shape, Visit, OwnsWhatItSaved, Owned, Stored,
                ReportsItsOwn, TellsRun, ErrorRows
  <1>2. CASE Next
    <2>1. PICK j \in Job :
             \/ Start(j) \/ Save(j) \/ Lose(j) \/ CollectListPageStats(j) \/ Conclude(j)
             \/ \E d \in Docs : Look(j, d)
             \/ \E e \in Stage : WriteError(j, e)
             \/ Parts(j)
             \/ \E rc \in {0, 1} : Exit(j, rc)
      BY <1>2, Zenon DEF Next, Parts
    <2> QED
      BY <2>1, StartInv, SaveInv, LoseInv, CollectInv, ConcludeInv, LookInv,
         WriteErrorInv, PartsInv, ExitInv
  <1> QED
    BY <1>1, <1>2

LEMMA StatsInvariant == Spec => []StatsInv
  <1>1. Init => StatsInv
    BY InitInv
  <1> QED
    BY <1>1, StatsStep, PTL DEF Spec

----------------------------------------------------------------------------
(* Sums over all jobs *)

Known == {u \in Stored : docs[u].dupUrl}
Doubles == {u \in Stored : docs[u].dupContent /\ ~docs[u].dupUrl}
Summed == {"records_inserted", "records_updated", "deduplicated_count", "documents_saved",
           "source_duplicates_suppressed"}

SumsInv ==
    /\ IsFiniteSet(Stored) /\ \A c \in Summed : IsFiniteSet(Units(c))
    /\ Cardinality(Stored) + rows["version"] + rows["attachment"] <= InAll("records_inserted")
    /\ InAll("records_inserted")
           <= Cardinality(Stored) + rows["version"] + rows["attachment"] + rows["notice"]
    /\ Cardinality(Stored) + Cardinality(Known) <= InAll("documents_saved")
    /\ Cardinality(Doubles) + InAll("records_updated") + InAll("source_duplicates_suppressed")
           <= InAll("deduplicated_count")

\* One count more of one job is one unit more in all.
LEMMA OneUnitMore ==
  ASSUME StatsInv, StatsInv', NEW c \in Counters, IsFiniteSet(Units(c)), NEW j \in Job,
         NEW d \in {0, 1}, job'[j].n[c] = job[j].n[c] + d,
         \A k \in Job \ {j} : job'[k].n[c] = job[k].n[c]
  PROVE  /\ IsFiniteSet(Units(c))' /\ InAll(c) \in Nat /\ InAll(c)' = InAll(c) + d
  <1>1. \A k \in Job : job[k].n[c] \in Nat
    BY DEF StatsInv, Shape, JobRec
  <1>2. CASE d = 0
    <2>1. \A k \in Job : job'[k].n[c] = job[k].n[c]
      BY <1>1, <1>2
    <2>2. Units(c)' = Units(c)
      BY <2>1 DEF Units
    <2> QED
      BY <1>2, <2>2, FS_CardinalityType DEF InAll
  <1>3. CASE d = 1
    <2> DEFINE new == <<j, job[j].n[c] + 1>>
    <2>1. \A k, i : <<k, i>> \in Units(c) <=> k \in Job /\ i \in 1 .. job[k].n[c]
      BY DEF Units
    <2>2. \A k, i : <<k, i>> \in Units(c)' <=> k \in Job /\ i \in 1 .. job'[k].n[c]
      BY DEF Units
    <2>3. (\A u \in Units(c) : u = <<u[1], u[2]>>) /\ (\A u \in Units(c)' : u = <<u[1], u[2]>>)
      BY DEF Units
    <2>4. new \notin Units(c)
      BY <1>1, <2>1
    <2>5. ASSUME NEW k, NEW i
          PROVE  <<k, i>> \in Units(c)' <=> <<k, i>> \in Units(c) \/ <<k, i>> = new
      <3>1. CASE k = j
        <4>1. i \in 1 .. job'[j].n[c] <=> i \in 1 .. job[j].n[c] \/ i = job[j].n[c] + 1
          BY <1>1, <1>3
        <4> QED
          BY <2>1, <2>2, <3>1, <4>1
      <3>2. CASE k # j
        BY <2>1, <2>2, <3>2
      <3> QED
        BY <3>1, <3>2
    <2>6. Units(c)' = Units(c) \cup {new}
      BY <2>3, <2>5
    <2>7. IsFiniteSet(Units(c) \cup {new}) /\ Cardinality(Units(c) \cup {new}) = Cardinality(Units(c)) + 1
      BY <2>4, FS_AddElement
    <2> QED
      BY <1>3, <2>6, <2>7, FS_CardinalityType DEF InAll
  <1> QED
    BY <1>2, <1>3

\* What a step adds to the sums when it adds delta to the counters of one job.
LEMMA SumsOf ==
  ASSUME StatsInv, StatsInv', SumsInv, NEW j \in Job,
         NEW delta, \A c \in Summed : delta[c] \in {0, 1},
         job' = [job EXCEPT ![j].n = Counted(@, delta)]
  PROVE  \A c \in Summed : /\ IsFiniteSet(Units(c))' /\ InAll(c) \in Nat
                           /\ InAll(c)' = InAll(c) + delta[c] /\ delta[c] \in {0, 1}
  <1> SUFFICES ASSUME NEW c \in Summed
               PROVE  /\ IsFiniteSet(Units(c))' /\ InAll(c) \in Nat
                      /\ InAll(c)' = InAll(c) + delta[c] /\ delta[c] \in {0, 1}
    OBVIOUS
  <1>1. c \in Counters /\ IsFiniteSet(Units(c)) /\ delta[c] \in {0, 1}
    BY DEF Summed, Counters, SumsInv
  <1>2. job'[j].n = Counted(job[j].n, delta) /\ \A k \in Job \ {j} : job'[k] = job[k]
    BY DEF StatsInv, Shape, JobRec
  <1>3. job'[j].n[c] = job[j].n[c] + delta[c]
    BY <1>1, <1>2 DEF Counted
  <1> QED
    BY <1>1, <1>2, <1>3, OneUnitMore

\* Whether a saved item was new, and whether it was marked, as its job counts it.
LEMMA DeltaSums ==
  ASSUME NEW p \in ProcRec, p.item \in Docs
  PROVE  /\ DocDelta(p)["records_inserted"] = IF p.existing = Nil THEN 1 ELSE 0
         /\ DocDelta(p)["records_updated"] = IF p.existing = Nil THEN 0 ELSE 1
         /\ DocDelta(p)["documents_saved"] = 1
         /\ DocDelta(p)["source_duplicates_suppressed"] = 0
         /\ DocDelta(p)["deduplicated_count"]
                = IF p.existing # Nil \/ DuplicateContent(p) THEN 1 ELSE 0
  <1>1. Zero \in [Counters -> Nat]
    BY DEF Zero
  <1> QED
    BY <1>1 DEF DocDelta, Counters, Zero, One

\* A save adds a row or rewrites one, and marks no other row than that one: a new
\* row for its content at most, a rewritten one as a known url.
LEMMA SavedMarks ==
  ASSUME StatsInv, StatsInv', NEW j \in Job, Save(j)
  PROVE  LET p == proc[j]
             url == p.item.url
         IN  /\ Stored' = Stored \cup {url} /\ (url \in Stored <=> p.existing # Nil)
             /\ Known' \subseteq IF p.existing = Nil THEN Known ELSE Known \cup {url}
             /\ Doubles' \subseteq IF p.existing = Nil /\ DuplicateContent(p)
                                   THEN Doubles \cup {url} ELSE Doubles
  <1> DEFINE p == proc[j]
             url == p.item.url
  <1>1. p \in ProcRec /\ p.item \in Docs /\ url \in Url /\ p.at = "looked"
    BY DocTypes DEF StatsInv, Shape, Visit, Save
  <1>2. /\ p.existing = Nil => docs[url] = Nil
        /\ p.existing # Nil => docs[url] # Nil
    BY <1>1 DEF StatsInv, Visit, Save, InsertClash
  <1>3. PICK r \in Row : docs' = [docs EXCEPT ![url] = r] /\ (p.existing # Nil => r.dupUrl)
    BY SavedRow
  <1>4. r # Nil
    BY NoRowAssumption
  <1>5. docs'[url] = r /\ \A u \in Url \ {url} : docs'[u] = docs[u]
    BY <1>1, <1>3 DEF StatsInv, Shape
  <1>6. p.existing = Nil => ~r.dupUrl /\ r.dupContent = DuplicateContent(p)
    <2>1. p.existing = Nil => docs' = [docs EXCEPT ![url] = Payload(j, p)]
      BY DEF Save
    <2>2. p.existing = Nil => r = Payload(j, p)
      BY <1>1, <1>5, <2>1 DEF StatsInv, Shape
    <2>3. /\ Payload(j, p).dupUrl = (p.existing # Nil)
          /\ Payload(j, p).dupContent = DuplicateContent(p)
      BY DEF Payload
    <2> QED
      BY <2>2, <2>3, Zenon
  <1>7. Stored' = Stored \cup {url} /\ (url \in Stored <=> p.existing # Nil)
    BY <1>1, <1>2, <1>4, <1>5 DEF Stored
  <1>8. Known' \subseteq IF p.existing = Nil THEN Known ELSE Known \cup {url}
    BY <1>1, <1>5, <1>6, <1>7 DEF Known, Stored
  <1>9. Doubles' \subseteq IF p.existing = Nil /\ DuplicateContent(p)
                           THEN Doubles \cup {url} ELSE Doubles
    BY <1>1, <1>5, <1>3, <1>6, <1>7 DEF Doubles, Stored
  <1> QED
    BY <1>7, <1>8, <1>9

LEMMA SaveSums ==
  ASSUME StatsInv, StatsInv', SumsInv, NEW j \in Job, Save(j)
  PROVE  SumsInv'
  <1> DEFINE p == proc[j]
             url == p.item.url
             delta == DocDelta(p)
  <1>1. p \in ProcRec /\ p.item \in Docs
    BY DEF StatsInv, Shape, Visit, Save
  <1>2. /\ delta["records_inserted"] = IF p.existing = Nil THEN 1 ELSE 0
        /\ delta["records_updated"] = IF p.existing = Nil THEN 0 ELSE 1
        /\ delta["documents_saved"] = 1 /\ delta["source_duplicates_suppressed"] = 0
        /\ delta["deduplicated_count"] = IF p.existing # Nil \/ DuplicateContent(p) THEN 1 ELSE 0
    BY <1>1, DeltaSums
  <1> HIDE DEF delta
  <1>3. ASSUME NEW c \in Summed
        PROVE  /\ IsFiniteSet(Units(c))' /\ InAll(c) \in Nat
               /\ InAll(c)' = InAll(c) + delta[c]
    <2>1. \A e \in Summed : delta[e] \in {0, 1}
      BY <1>2 DEF Summed
    <2>2. job' = [job EXCEPT ![j].n = Counted(@, delta)]
      BY DEF Save, delta
    <2> QED
      BY <2>1, <2>2, SumsOf
  <1>4. /\ Stored' = Stored \cup {url} /\ (url \in Stored <=> p.existing # Nil)
        /\ Known' \subseteq IF p.existing = Nil THEN Known ELSE Known \cup {url}
        /\ Doubles' \subseteq IF p.existing = Nil /\ DuplicateContent(p)
                              THEN Doubles \cup {url} ELSE Doubles
        /\ rows' = rows
    BY SavedMarks DEF Save
  <1>5. IsFiniteSet(Stored) /\ IsFiniteSet(Known) /\ IsFiniteSet(Doubles)
    BY FS_Subset DEF SumsInv, Known, Doubles
  <1>6. /\ IsFiniteSet(Stored')
        /\ Cardinality(Stored') = Cardinality(Stored) + delta["records_inserted"]
        /\ Cardinality(Stored) \in Nat
    <2>1. Cardinality(Stored) \in Nat
      BY <1>5, FS_CardinalityType
    <2>2. CASE p.existing = Nil
      <3>1. url \notin Stored /\ Stored' = Stored \cup {url} /\ delta["records_inserted"] = 1
        BY <1>2, <1>4, <2>2
      <3>2. /\ IsFiniteSet(Stored \cup {url})
            /\ Cardinality(Stored \cup {url}) = Cardinality(Stored) + 1
        BY <1>5, <3>1, FS_AddElement
      <3> QED
        BY <2>1, <3>1, <3>2
    <2>3. CASE p.existing # Nil
      <3>1. Stored' = Stored
        BY <1>4, <2>3
      <3> QED
        BY <1>2, <1>5, <2>1, <2>3, <3>1
    <2> QED
      BY <2>2, <2>3
  <1>7. /\ Cardinality(Known') <= Cardinality(Known) + delta["records_updated"]
        /\ Cardinality(Known') \in Nat /\ Cardinality(Known) \in Nat
    <2>1. PICK S, T : S = Known /\ T = Known'
      OBVIOUS
    <2>2. T \subseteq S \cup {url} /\ (p.existing = Nil => T \subseteq S)
      BY <1>4, <2>1
    <2>3. /\ Cardinality(T) <= Cardinality(S) + 1
          /\ T \subseteq S => Cardinality(T) <= Cardinality(S)
          /\ Cardinality(T) \in Nat /\ Cardinality(S) \in Nat
      BY <1>5, <2>1, <2>2, FewerOwned
    <2> QED
      BY <1>2, <2>1, <2>2, <2>3
  <1>8. /\ Cardinality(Doubles') + delta["records_updated"]
                <= Cardinality(Doubles) + delta["deduplicated_count"]
        /\ Cardinality(Doubles') \in Nat /\ Cardinality(Doubles) \in Nat
    <2>1. PICK S, T : S = Doubles /\ T = Doubles'
      OBVIOUS
    <2>2. /\ T \subseteq S \cup {url}
          /\ ~(p.existing = Nil /\ DuplicateContent(p)) => T \subseteq S
      BY <1>4, <2>1
    <2>3. /\ Cardinality(T) <= Cardinality(S) + 1
          /\ T \subseteq S => Cardinality(T) <= Cardinality(S)
          /\ Cardinality(T) \in Nat /\ Cardinality(S) \in Nat
      BY <1>5, <2>1, <2>2, FewerOwned
    <2> QED
      BY <1>2, <2>1, <2>2, <2>3
  <1>9. PICK ins, upd, dup, saved, supp :
           /\ ins = InAll("records_inserted") /\ upd = InAll("records_updated")
           /\ dup = InAll("deduplicated_count") /\ saved = InAll("documents_saved")
           /\ supp = InAll("source_duplicates_suppressed")
    OBVIOUS
  <1>10. /\ ins \in Nat /\ upd \in Nat /\ dup \in Nat /\ saved \in Nat /\ supp \in Nat
         /\ InAll("records_inserted")' = ins + delta["records_inserted"]
         /\ InAll("records_updated")' = upd + delta["records_updated"]
         /\ InAll("deduplicated_count")' = dup + delta["deduplicated_count"]
         /\ InAll("documents_saved")' = saved + 1
         /\ InAll("source_duplicates_suppressed")' = supp
    BY <1>2, <1>3, <1>9 DEF Summed
  <1>11. PICK v, a, n : v = rows["version"] /\ a = rows["attachment"] /\ n = rows["notice"]
    OBVIOUS
  <1>12. v \in Nat /\ a \in Nat /\ n \in Nat
    BY <1>11 DEF StatsInv, Shape, Table
  <1>13. /\ Cardinality(Stored)' + v + a <= InAll("records_inserted")'
         /\ InAll("records_inserted")' <= Cardinality(Stored)' + v + a + n
    BY <1>2, <1>6, <1>9, <1>10, <1>11, <1>12 DEF SumsInv
  <1>14. Cardinality(Stored)' + Cardinality(Known)' <= InAll("documents_saved")'
    BY <1>2, <1>6, <1>7, <1>9, <1>10 DEF SumsInv
  <1>15. Cardinality(Doubles)' + InAll("records_updated")' + InAll("source_duplicates_suppressed")'
             <= InAll("deduplicated_count")'
    BY <1>2, <1>8, <1>9, <1>10 DEF SumsInv
  <1>16. rows'["version"] = v /\ rows'["attachment"] = a /\ rows'["notice"] = n
    BY <1>4, <1>11
  <1> QED
    BY <1>3, <1>6, <1>13, <1>14, <1>15, <1>16 DEF SumsInv

\* The other writers count their rows and their duplicates and leave the documents.
LEMMA PartsSums ==
  ASSUME StatsInv, StatsInv', SumsInv, NEW j \in Job, Parts(j)
  PROVE  SumsInv'
  <1>1. PICK delta, added : Write(j, delta, added) /\ PartDelta(delta, added)
    BY PartsWrite
  <1>2. /\ docs' = docs /\ job' = [job EXCEPT ![j].n = Counted(@, delta)]
        /\ \A c \in Summed : delta[c] \in {0, 1}
    BY <1>1 DEF Write, PartDelta, Summed, Counters
  <1>3. \A c \in Summed : /\ IsFiniteSet(Units(c))' /\ InAll(c) \in Nat
                          /\ InAll(c)' = InAll(c) + delta[c] /\ delta[c] \in {0, 1}
    BY <1>2, SumsOf
  <1>4. /\ Stored' = Stored /\ Known' = Known /\ Doubles' = Doubles
        /\ Cardinality(Stored) \in Nat /\ Cardinality(Known) \in Nat
        /\ Cardinality(Doubles) \in Nat
    <2>1. IsFiniteSet(Stored) /\ IsFiniteSet(Known) /\ IsFiniteSet(Doubles)
      BY FS_Subset DEF SumsInv, Known, Doubles
    <2> QED
      BY <1>2, <2>1, FS_CardinalityType DEF Stored, Known, Doubles
  <1>5. PICK more : more = [t \in Table |-> One(t \in added)]
    OBVIOUS
  <1>6. /\ \A t \in Table : rows[t] \in Nat /\ more[t] \in Nat /\ rows'[t] = rows[t] + more[t]
        /\ more["version"] + more["attachment"] <= delta["records_inserted"]
        /\ delta["records_inserted"] <= more["version"] + more["attachment"] + more["notice"]
    <2>1. \A t \in Table : more[t] = One(t \in added) /\ more[t] \in Nat
      BY <1>5 DEF One
    <2>2. \A t \in Table : rows[t] \in Nat /\ rows'[t] = rows[t] + more[t]
      BY <1>1, <2>1 DEF Write, StatsInv, Shape
    <2>3. /\ more["version"] = One("version" \in added)
          /\ more["attachment"] = One("attachment" \in added)
          /\ more["notice"] = One("notice" \in added)
      BY <2>1 DEF Table
    <2> QED
      BY <1>1, <2>1, <2>2, <2>3 DEF PartDelta
  <1>7. PICK stored, v, a, n, ins, more1, more2, more3, d :
           /\ stored = Cardinality(Stored) /\ ins = InAll("records_inserted")
           /\ v = rows["version"] /\ a = rows["attachment"] /\ n = rows["notice"]
           /\ more1 = more["version"] /\ more2 = more["attachment"] /\ more3 = more["notice"]
           /\ d = delta["records_inserted"]
    OBVIOUS
  <1>8. /\ stored \in Nat /\ ins \in Nat /\ d \in Nat
        /\ v \in Nat /\ a \in Nat /\ n \in Nat
        /\ more1 \in Nat /\ more2 \in Nat /\ more3 \in Nat
        /\ rows'["version"] = v + more1 /\ rows'["attachment"] = a + more2
        /\ rows'["notice"] = n + more3
        /\ InAll("records_inserted")' = ins + d
        /\ more1 + more2 <= d /\ d <= more1 + more2 + more3
    BY <1>3, <1>4, <1>6, <1>7 DEF Table, Summed
  <1>9. /\ stored + v + a <= ins /\ ins <= stored + v + a + n
    BY <1>7 DEF SumsInv
  <1>10. /\ stored + (v + more1) + (a + more2) <= ins + d
         /\ ins + d <= stored + (v + more1) + (a + more2) + (n + more3)
    BY <1>8, <1>9
  <1>11. /\ Cardinality(Stored)' + rows'["version"] + rows'["attachment"] <= InAll("records_inserted")'
         /\ InAll("records_inserted")'
               <= Cardinality(Stored)' + rows'["version"] + rows'["attachment"] + rows'["notice"]
    BY <1>4, <1>7, <1>8, <1>10
  <1>12. Cardinality(Stored)' + Cardinality(Known)' <= InAll("documents_saved")'
    <2>1. delta["documents_saved"] = 0
      BY <1>1 DEF PartDelta
    <2>2. InAll("documents_saved") \in Nat /\ InAll("documents_saved")' = InAll("documents_saved") + 0
      BY <1>3, <2>1 DEF Summed
    <2> QED
      BY <1>4, <2>2 DEF SumsInv
  <1>13. Cardinality(Doubles)' + InAll("records_updated")' + InAll("source_duplicates_suppressed")'
             <= InAll("deduplicated_count")'
    <2>1. delta["records_updated"] + delta["source_duplicates_suppressed"] <= delta["deduplicated_count"]
      BY <1>1 DEF PartDelta
    <2>2. \A c \in {"records_updated", "source_duplicates_suppressed", "deduplicated_count"} :
             /\ InAll(c) \in Nat /\ InAll(c)' = InAll(c) + delta[c] /\ delta[c] \in {0, 1}
      BY <1>3 DEF Summed
    <2> QED
      BY <1>4, <2>1, <2>2 DEF SumsInv
  <1> QED
    BY <1>3, <1>4, <1>11, <1>12, <1>13 DEF SumsInv

LEMMA SumsStep == StatsInv /\ StatsInv' /\ SumsInv /\ [Next]_vars => SumsInv'
  <1> SUFFICES ASSUME StatsInv, StatsInv', SumsInv, [Next]_vars
               PROVE  SumsInv'
    OBVIOUS
  <1>1. CASE \E j \in Job : Save(j)
    BY <1>1, SaveSums
  <1>2. CASE \E j \in Job : Parts(j)
    BY <1>2, PartsSums
  <1>3. CASE ~\E j \in Job : Save(j) \/ Parts(j)
    <2>1. \/ docs' = docs /\ rows' = rows /\ job' = job
          \/ \E j \in Job : Conclude(j) \/ \E e \in Stage : WriteError(j, e)
      <3>1. CASE UNCHANGED vars
        BY <3>1 DEF vars
      <3>2. CASE Next
        <4>1. PICK j \in Job :
                 \/ Start(j) \/ Lose(j) \/ CollectListPageStats(j) \/ Conclude(j)
                 \/ \E d \in Docs : Look(j, d)
                 \/ \E e \in Stage : WriteError(j, e)
                 \/ \E rc \in {0, 1} : Exit(j, rc)
          BY <1>3, <3>2, Zenon DEF Next, Parts
        <4>2. CASE Start(j) \/ Lose(j) \/ CollectListPageStats(j)
          BY <4>2 DEF Start, Lose, CollectListPageStats
        <4>3. CASE \E d \in Docs : Look(j, d)
          BY <4>3 DEF Look
        <4>4. CASE \E rc \in {0, 1} : Exit(j, rc)
          BY <4>4 DEF Exit
        <4> QED
          BY <4>1, <4>2, <4>3, <4>4
      <3> QED
        BY <3>1, <3>2
    <2>2. ASSUME NEW j \in Job, Conclude(j) \/ \E e \in Stage : WriteError(j, e)
          PROVE  docs' = docs /\ rows' = rows /\ \A k \in Job, c \in Summed : job'[k].n[c] = job[k].n[c]
      <3>1. job \in [Job -> JobRec]
        BY DEF StatsInv, Shape
      <3>2. CASE Conclude(j)
        <4>1. PICK st, reason, scraped :
                 /\ docs' = docs /\ rows' = rows
                 /\ job' = [job EXCEPT ![j].status = st, ![j].reason = reason, ![j].scraped = scraped]
          BY <3>2 DEF Conclude
        <4>2. \A k \in Job : job'[k].n = job[k].n
          BY <3>1, <4>1 DEF JobRec
        <4> QED
          BY <4>1, <4>2
      <3>3. CASE \E e \in Stage : WriteError(j, e)
        <4>1. docs' = docs /\ rows' = rows /\ job' = [job EXCEPT ![j].n["error_count"] = @ + 1]
          BY <3>3 DEF WriteError
        <4>2. job'[j].n = [job[j].n EXCEPT !["error_count"] = @ + 1]
              /\ \A k \in Job \ {j} : job'[k] = job[k]
          BY <3>1, <4>1 DEF JobRec
        <4>3. job[j].n \in [Counters -> Nat] /\ \A c \in Summed : c \in Counters /\ c # "error_count"
          BY <3>1 DEF JobRec, Summed, Counters
        <4>4. \A c \in Summed : job'[j].n[c] = job[j].n[c]
          BY <4>2, <4>3
        <4> QED
          BY <4>1, <4>2, <4>4
      <3> QED
        BY <2>2, <3>2, <3>3
    <2>3. docs' = docs /\ rows' = rows /\ \A c \in Summed : Units(c)' = Units(c)
      BY <2>1, <2>2 DEF Units
    <2> QED
      BY <2>3 DEF SumsInv, InAll, Summed, Known, Doubles, Stored
  <1> QED
    BY <1>1, <1>2, <1>3

LEMMA SumsInit == Init => SumsInv
  <1> SUFFICES ASSUME Init
               PROVE  SumsInv
    OBVIOUS
  <1>1. Stored = {} /\ Known = {} /\ Doubles = {}
    BY DEF Init, Stored, Known, Doubles
  <1>2. \A c \in Summed : Units(c) = {}
    BY DEF Init, Units, Summed, Zero, Counters
  <1>3. IsFiniteSet({}) /\ Cardinality({}) = 0
    BY FS_EmptySet
  <1>4. rows["version"] = 0 /\ rows["attachment"] = 0 /\ rows["notice"] = 0
    BY DEF Init, Table
  <1>5. \A c \in Summed : IsFiniteSet(Units(c)) /\ InAll(c) = 0
    BY <1>2, <1>3 DEF InAll
  <1>6. /\ InAll("records_inserted") = 0 /\ InAll("records_updated") = 0
        /\ InAll("deduplicated_count") = 0 /\ InAll("documents_saved") = 0
        /\ InAll("source_duplicates_suppressed") = 0
    BY <1>5 DEF Summed
  <1> QED
    BY <1>1, <1>3, <1>4, <1>5, <1>6 DEF SumsInv

LEMMA SumsInvariant == Spec => []SumsInv
  BY StatsInvariant, SumsInit, SumsStep, PTL DEF Spec

----------------------------------------------------------------------------
(* Theorems *)

\* Rows, counters and control points keep their types for any number of jobs, items
\* and faults; no spider writes more items or errors than it yields
\* (CrawlStats.StatsTypeOK).
THEOREM StatsTyped == Spec => []StatsTypeOK
  <1>1. StatsInv => StatsTypeOK
    <2> SUFFICES ASSUME StatsInv
                 PROVE  StatsTypeOK
      OBVIOUS
    <2>1. \A u \in Stored : docs[u] \in Row
      BY DEF StatsInv, Shape, Stored
    <2>2. ASSUME NEW j \in Job, NEW e \in Stage
          PROVE  errors[j][e] \in 0 .. MaxErrors
      <3>1. errors[j] \in [Stage -> Nat] /\ Books(job[j].n, errors[j])
        BY DEF StatsInv, Shape
      <3>2. errors[j]["fetch"] \in Nat /\ errors[j]["parse"] \in Nat
        BY <3>1 DEF Stage
      <3> QED
        BY <3>1, <3>2, StatsAssumption DEF Books, Stage
    <2>3. ASSUME NEW j \in Job
          PROVE  job[j] \in JobRec /\ proc[j] \in ProcRec
      BY DEF StatsInv, Shape
    <2> QED
      BY <2>1, <2>2, <2>3 DEF StatsTypeOK, JobRec, ProcRec, StatsInv, Shape
  <1> QED
    BY <1>1, StatsInvariant, PTL

\* The final status of a job says what happened to its spider, however many
\* transactions of other spiders lie between its end and its conclusion
\* (CrawlStats.StatusTellsRun; InferFinalStatus from the reason inferred).
THEOREM StatusIsTrue == Spec => []StatusTellsRun
  <1>1. StatsInv => StatusTellsRun
    BY DEF StatsInv, TellsRun, StatusTellsRun
  <1> QED
    BY <1>1, StatsInvariant, PTL

\* A job never owns more documents than it saved nor reports more list pages than
\* it fetched, although overlapping spiders take documents from each other and a
\* stale flush may leave a document with its newer owner (CrawlStats.PagesAreItsOwn).
THEOREM JobsReportTheirOwnPages == Spec => []PagesAreItsOwn
  <1>1. StatsInv => PagesAreItsOwn
    BY DEF StatsInv, OwnsWhatItSaved, Owned, ReportsItsOwn, PagesAreItsOwn
  <1> QED
    BY <1>1, StatsInvariant, PTL

\* The counters of all jobs account for the rows, for any number of jobs: nothing
\* counted as inserted is missing, every row but a notice that came with another item
\* was counted by the job whose INSERT the unique index let pass, and what a job saved
\* it either inserted or updated (CrawlStats.RowsMatchCounters).
THEOREM CountersAccountForRows == Spec => []RowsMatchCounters
  <1>1. StatsInv /\ SumsInv => RowsMatchCounters
    BY DEF StatsInv, Books, SumsInv, RowsMatchCounters
  <1> QED
    BY <1>1, StatsInvariant, SumsInvariant, PTL

\* No row carries a mark that no job has counted, whichever flushes of overlapping
\* updates leave columns of another writer in it, and deduplicated_count has room for
\* every update and suppressed notice besides (CrawlStats.MarksAreCounted).
THEOREM MarkedRowsWereCounted == Spec => []MarksAreCounted
  <1>1. SumsInv => MarksAreCounted
    BY DEF SumsInv, Known, Doubles, MarksAreCounted
  <1> QED
    BY <1>1, SumsInvariant, PTL
=============================================================================
