----------------------------- MODULE NoticeList -----------------------------
(***************************************************************************)
(* The notice workbench: the list query of NoticeRepository with its       *)
(* filters, deduplication, order and paging, and a reader who walks its    *)
(* pages while spiders store notices.                                      *)
(*                                                                         *)
(* A request counts in one statement and fetches its page in the next, and *)
(* the reader asks for the next page later still; each statement sees what *)
(* is committed by then. A tick of the clock is the end of the 24 hours in *)
(* which what was stored before it is new. The columns a filter compares   *)
(* for equality are one column, kind; deadline_at stands for budget_amount *)
(* and source_name, which sort like it.                                    *)
(* A spider's item is stripped and a blank of it is NULL before it is      *)
(* stored, so a key is a value or Nil.                                     *)
(***************************************************************************)
EXTENDS Integers, Sequences, FiniteSets, SequencesExt

CONSTANTS
    Notice,         \* ids, ascending in order of insertion
    Announced,      \* the items spiders store
    Day,            \* publication and deadline days, bounds of a filter
    Limit,          \* rows of a page
    Queries,        \* the queries readers make
    MaxNow, MaxRevisions,
    Nil

SortField == {"published_at", "deadline_at"}
Query == [dedup : BOOLEAN, kind : {Nil} \cup {a.kind : a \in Announced},
          recent : {Nil} \cup 0 .. MaxNow, from : {Nil} \cup Day, to : {Nil} \cup Day,
          sort : SortField, order : {"asc", "desc"}]

Columns == {"dedup_key", "source_duplicate_key", "dedup_hash", "text", "source", "kind",
            "published", "deadline"}

\* tender_notice, stored and revised by time t from the columns of items
Values(c) == {a[c] : a \in Announced}
Row(t) == [created : 0 .. t, revised : 0 .. t,
           dedup_key : Values("dedup_key") \cup Values("source_duplicate_key"),
           source_duplicate_key : Values("source_duplicate_key"),
           dedup_hash : Values("dedup_hash"), text : Values("text"),
           source : Values("source"), kind : Values("kind"),
           published : Day \cup {Nil}, deadline : Day \cup {Nil}]

ASSUME ListAssumption ==
    /\ Notice \subseteq Nat /\ Day \subseteq Nat /\ Limit \in Nat \ {0}
    /\ MaxNow \in Nat /\ MaxRevisions \in Nat
    /\ Nil \notin Day \cup Query \cup Row(MaxNow)
    /\ Queries \subseteq Query
    /\ \A a \in Announced :
           /\ DOMAIN a = Columns
           /\ {a.published, a.deadline} \subseteq Day \cup {Nil}

VARIABLES
    notices,        \* tender_notice with the creation time of its last version
    now,
    revisions,
    walk            \* the reader's request
vars == <<notices, now, revisions, walk>>

Closed == [at |-> "closed", q |-> Nil, offset |-> 0, total |-> 0,
           shown |-> {}, had |-> {}, disturbed |-> FALSE]

Init ==
    /\ notices = [n \in Notice |-> Nil]
    /\ now = 0
    /\ revisions = 0
    /\ walk = Closed

Rows == {n \in Notice : notices[n] # Nil}

--------------------------------------------------------------------------
(* The list query *)

Within(n, since) == notices[n].created >= since \/ notices[n].revised >= since

\* _is_recent_new_expr: the notice or a version of it is younger than a day.
RecentNew(n) == Within(n, now)

FirstPresent(columns, fallback) ==
    LET present == {i \in DOMAIN columns : columns[i] # Nil}
    IN  IF present = {} THEN fallback ELSE columns[CHOOSE i \in present : \A j \in present : i <= j]

Fallback(r) == <<r.source, r.text>>

\* _dedup_key_expr; _dedup_key_for_notice says the same of what spiders store.
DedupKeyExpr(n) == LET r == notices[n] IN
    FirstPresent(<<r.dedup_key, r.source_duplicate_key, r.dedup_hash>>, Fallback(r))

\* A comparison with NULL is not true: a bound drops notices without a date.
Matches(n, q) ==
    /\ q.kind = Nil \/ notices[n].kind = q.kind
    /\ q.recent = Nil \/ Within(n, now - q.recent)
    /\ q.from = Nil \/ (notices[n].published # Nil /\ notices[n].published >= q.from)
    /\ q.to = Nil \/ (notices[n].published # Nil /\ notices[n].published <= q.to)

Matching(q) == {n \in Rows : Matches(n, q)}
GroupUnfilteredMutant(n, q) == {m \in Rows : DedupKeyExpr(m) = DedupKeyExpr(n)}
Group(n, q) == {m \in Matching(q) : DedupKeyExpr(m) = DedupKeyExpr(n)}

\* ORDER BY, column by column: smaller first.
Less(s, t) == \E i \in DOMAIN s : s[i] < t[i] /\ \A j \in 1 .. i - 1 : s[j] = t[j]
Flag(b) == IF b THEN 1 ELSE 0
NullsLast(v, sign) == IF v = Nil THEN <<1, 0>> ELSE <<0, sign * v>>

RankTieMutant(n) == LET p == NullsLast(notices[n].published, -1) IN
    <<-Flag(RecentNew(n)), p[1], p[2]>>

\* The representative of a group, and the default order of the list.
Rank(n) == LET p == NullsLast(notices[n].published, -1) IN
    <<-Flag(RecentNew(n)), p[1], p[2], -n>>

Column(n, field) == IF field = "deadline_at" THEN notices[n].deadline ELSE notices[n].published

OrderByTieMutant(n, q) ==
    LET c == NullsLast(Column(n, q.sort), IF q.order = "asc" THEN 1 ELSE -1)
    IN  IF q.sort = "published_at" /\ q.order = "desc" THEN Rank(n) ELSE c

\* _build_order_by
OrderBy(n, q) ==
    LET c == NullsLast(Column(n, q.sort), IF q.order = "asc" THEN 1 ELSE -1)
    IN  IF q.sort = "published_at" /\ q.order = "desc" THEN Rank(n) ELSE <<c[1], c[2], -n>>

\* row_number() over a group is 1 for the row no other of it comes before.
Items(q) ==
    IF q.dedup THEN {n \in Matching(q) : \A m \in Group(n, q) : ~Less(Rank(m), Rank(n))}
    ELSE Matching(q)

DuplicateCount(n, q) == IF q.dedup THEN Cardinality(Group(n, q)) ELSE 1

Total(q) == Cardinality(Items(q))
Page(q, offset) ==
    LET items == Items(q)
        position(n) == Cardinality({m \in items : Less(OrderBy(m, q), OrderBy(n, q))})
    IN  {n \in items : position(n) \in offset .. offset + Limit - 1}

\* list_notices_for_export: all of it in the same order, rows that tie in any
Exported(q) ==
    CHOOSE s \in SetToSeqs(Items(q)) :
        \A i, j \in DOMAIN s : i < j => ~Less(OrderBy(s[j], q), OrderBy(s[i], q))

\* An entry of the list: a group, or a notice.
Entry(n, q) == IF q.dedup THEN DedupKeyExpr(n) ELSE n
Entries(q) == {Entry(n, q) : n \in Matching(q)}

--------------------------------------------------------------------------
(* Writers and time *)

\* b: may move an entry the reader has yet to reach past the one it has reached.
\* Between a count and its rows, every change lets the two disagree.
Disturb(b) == walk' = IF walk.at = "closed" THEN walk
                      ELSE [walk EXCEPT !.disturbed = @ \/ b \/ walk.at = "counted"]

Publish(n, a) ==
    /\ notices[n] = Nil /\ \A m \in Notice : m < n => notices[m] # Nil
    /\ notices' = [notices EXCEPT ![n] =
           [c \in Columns \cup {"created", "revised"} |-> IF c \in Columns THEN a[c] ELSE now]]
    /\ Disturb(walk.q # Nil /\ walk.q.dedup /\ DedupKeyExpr(n)' \in walk.had)
    /\ UNCHANGED <<now, revisions>>

\* _apply_notice_fields: what the item lacks keeps the value the notice has.
\* Content not stored before makes a new version, known content does not.
Revise(n, a, versioned) ==
    LET r == notices[n]
        kept == [c \in DOMAIN r |-> IF c \in Columns /\ a[c] # Nil THEN a[c] ELSE r[c]]
        key == IF a.dedup_key = Nil THEN a.source_duplicate_key ELSE a.dedup_key
    IN  /\ n \in Rows /\ a.source = r.source /\ revisions < MaxRevisions
        /\ notices' = [notices EXCEPT ![n] =
               [kept EXCEPT !.dedup_key = IF key = Nil THEN r.dedup_key ELSE key,
                            !.revised = IF versioned THEN now ELSE @]]
        /\ revisions' = revisions + 1
        /\ Disturb(notices' # notices)
        /\ UNCHANGED now

Tick ==
    /\ now < MaxNow
    /\ now' = now + 1
    /\ Disturb(TRUE)
    /\ UNCHANGED <<notices, revisions>>

--------------------------------------------------------------------------
(* A reader walks the pages *)

Open(q) ==
    /\ walk.at = "closed"
    /\ walk' = [Closed EXCEPT !.at = "asked", !.q = q, !.had = Entries(q)]
    /\ UNCHANGED <<notices, now, revisions>>

Count ==
    /\ walk.at = "asked"
    /\ walk' = [walk EXCEPT !.at = "counted", !.total = Total(walk.q)]
    /\ UNCHANGED <<notices, now, revisions>>

Show ==
    /\ walk.at = "counted"
    /\ walk' = [walk EXCEPT !.at = "shown",
                   !.shown = @ \cup {Entry(n, walk.q) : n \in Page(walk.q, walk.offset)}]
    /\ UNCHANGED <<notices, now, revisions>>

HasNextEarlyMutant == walk.offset + Limit + 1 < walk.total
HasNext == walk.offset + Limit < walk.total

NextPage ==
    /\ walk.at = "shown" /\ HasNext
    /\ walk' = [walk EXCEPT !.at = "asked", !.offset = @ + Limit]
    /\ UNCHANGED <<notices, now, revisions>>

Close ==
    /\ walk.at = "shown" /\ ~HasNext
    /\ walk' = Closed
    /\ UNCHANGED <<notices, now, revisions>>

Next ==
    \/ \E n \in Notice, a \in Announced : Publish(n, a)
    \/ \E n \in Notice, a \in Announced, versioned \in BOOLEAN : Revise(n, a, versioned)
    \/ Tick
    \/ \E q \in Queries : Open(q)
    \/ Count
    \/ Show
    \/ NextPage
    \/ Close

Spec == Init /\ [][Next]_vars
--------------------------------------------------------------------------
(* Properties *)

\* A row has the columns of the items it was stored and revised from, and no row
\* is older than what it holds: its last version is not older than itself
\* (models/tender_notice.py:23-92, sqlalchemy_writer.py:660-708).
ListTypeOK ==
    /\ notices \in [Notice -> Row(now) \cup {Nil}]
    /\ \A n \in Rows : notices[n].created <= notices[n].revised
    /\ now \in 0 .. MaxNow /\ revisions \in 0 .. MaxRevisions
    /\ walk.at \in {"closed", "asked", "counted", "shown"}
    /\ walk.q \in IF walk.at = "closed" THEN {Nil} ELSE Queries
    /\ walk.offset \in Nat /\ walk.total \in Nat /\ walk.disturbed \in BOOLEAN

\* For every query the pages are cut from the list the export writes: its i-th
\* row is on the page its position says, and on no other
\* (notice_repository.py:147-194, 412-442: every order ends with the id).
PagesPartitionTheList ==
    walk.at = "asked" =>
        LET exported == Exported(walk.q)
            pages == [k \in 0 .. (Len(exported) \div Limit) |-> Page(walk.q, k * Limit)]
        IN  \A i \in DOMAIN exported :
                {k \in DOMAIN pages : exported[i] \in pages[k]} = {(i - 1) \div Limit}

\* With deduplication each group of matching notices has exactly one row, and it
\* is shown as new when any of them is (notice_repository.py:387-410).
GroupHasOneRow ==
    walk.at = "asked" =>
        LET grouped == [walk.q EXCEPT !.dedup = TRUE]
        IN  \A n \in Matching(grouped) :
                \E m \in Items(grouped) : /\ Items(grouped) \cap Group(n, grouped) = {m}
                                          /\ RecentNew(n) => RecentNew(m)

\* One for each notice a row of the list is said to stand for.
Counted(q) == UNION {{n} \X (1 .. DuplicateCount(n, q)) : n \in Items(q)}

\* The duplicate counts of those rows add up to the total the workbench shows for
\* the list without deduplication (notice_repository.py:400-410, admin_notices.py:60-87).
DuplicatesAddUp ==
    walk.at = "asked" =>
        LET grouped == [walk.q EXCEPT !.dedup = TRUE]
        IN  Cardinality(Counted(grouped)) = Total([grouped EXCEPT !.dedup = FALSE])

\* A reader who walks the default order to its end has been shown every entry
\* that was there when the walk began, whatever new announcements were stored
\* meanwhile: a new one takes a place of its own and only pushes others back.
\* Excluded are a day that passes, a notice that is revised, a duplicate of an
\* entry, which carries it to the front, and a commit between a count and its rows
\* (notice_repository.py:164-172, admin_notices.py:89-94).
WalkMissesNothing ==
    walk.at = "shown" /\ ~HasNext /\ ~walk.disturbed
        /\ walk.q.sort = "published_at" /\ walk.q.order = "desc" => walk.had \subseteq walk.shown
=============================================================================
