------------------------------ MODULE SpiderPaging ------------------------------
(***************************************************************************)
(* How a spider walks the list of a site and fetches what it lists.  The   *)
(* Anhui spider asks for one list page after the other and follows each    *)
(* new entry through three pages; the national one (deal) asks an          *)
(* interface for pages and stores a draft of each entry before it fetches  *)
(* its one detail page, if it has an address.  List pages come one at a    *)
(* time, the chains of the entries run beside them.  Into which notice the *)
(* writer resolves an entry is a constant here (NoticeStore looks it up).  *)
(*                                                                         *)
(* The site is not ours: entries are added at the head of the list, or are *)
(* taken from it, while it is being walked, and its pager has quirks.      *)
(* Scrapy is external: it retries, orders requests as it likes and drops a *)
(* second request for the address of an entry.                             *)
(***************************************************************************)
EXTENDS Integers, FiniteSets, Sequences, SequencesExt

CONSTANTS
    Entry,              \* entries of the list
    Titled,             \* those with a title, and
    Linked,             \* those that have an address too, each its own
    Mark,               \* [Entry -> what makes two entries twins]
    Notice,             \* [Entry -> its notice]: twins share it, look-alikes may
    Day,                \* [Entry -> "new", "old" or "unknown"]: against the backfill year
    PageSizes,          \* how many entries a page of the site may hold
    Listings,           \* what the site may list at the start, newest first
    Spiders,            \* the spiders the model covers
    Arguments,          \* [max_pages, threshold, override, dedup, backfill], as given
    Quirks,             \* "none", "endless", "nameless", "clamped"
    MaxPageNo,          \* bound: the pages the site answers for
    MaxRuns, MaxChanges, MaxFaults,     \* bounds
    Nil

Marks == {Mark[e] : e \in Entry}
Notices == {Notice[e] : e \in Entry}

Why == {"repeated", "empty", "boundary", "limit", "nothing new", "last", "failed"}

ASSUME PagingAssumption ==
    /\ Linked \subseteq Titled /\ Titled \subseteq Entry
    /\ Mark \in [Entry -> Marks] /\ Notice \in [Entry -> Notices]
    /\ \A d, e \in Entry : Mark[d] = Mark[e] => Notice[d] = Notice[e]
    /\ Day \in [Entry -> {"new", "old", "unknown"}]
    /\ PageSizes \subseteq Nat \ {0}
    /\ Listings \subseteq Seq(Entry)
    /\ \A l \in Listings : /\ IsInjective(l)
                           /\ \A j, k \in DOMAIN l : j < k /\ Day[l[j]] = "old" => Day[l[k]] # "new"
    /\ Spiders \subseteq {"anhui", "deal"}
    /\ \A a \in Arguments : /\ {a.max_pages, a.override} \subseteq Int \cup {Nil}
                            /\ a.threshold \in Int /\ {a.dedup, a.backfill} \subseteq BOOLEAN
    /\ Quirks \subseteq {"none", "endless", "nameless", "clamped"}
    /\ MaxPageNo \in Nat /\ MaxRuns \in Nat /\ MaxChanges \in Nat /\ MaxFaults \in Nat
    /\ Nil \notin Int \cup Entry \cup Marks \cup Why

VARIABLES
    spider, args,           \* what is run
    quirk, size,            \* what its site is like
    site,                   \* the list of the site
    list,                   \* the list request under way, and why there is none
    seenPages,              \* _seen_list_pages
    seenMarks,              \* _seen_source_list_item_fingerprints, _seen_source_duplicate_keys
    count,                  \* the counters of the spider
    chain,                  \* how far the requests of an entry are
    shown,                  \* tender_notice: whose draft or text its current version is
    errors,                 \* crawl_error rows of the run
    runs, changes, faults

\* History of the run, read by properties only.
VARIABLES
    listed,                 \* what the site listed when the run began
    added,                  \* how many entries it got since
    taken                   \* whether any was taken away since

chosen == <<spider, args, quirk, size>>
bounds == <<runs, changes, faults>>
history == <<listed, added, taken>>
pagingVars == <<chosen, site, list, seenPages, seenMarks, count, chain, shown, errors,
                bounds, history>>

Zero == [pages |-> 0, seen |-> 0, unique |-> 0, skipped |-> 0, idle |-> 0]

\* The Anhui spider sees only links with a title on a page (_extract_list_items).
Readable(e) == spider = "anhui" => e \in Linked

\* The Anhui spider starts with page 1, the other with its landing page.
Begin(s) == [page |-> IF s = "anhui" THEN 1 ELSE 0, why |-> Nil]

Init ==
    /\ spider \in Spiders /\ args \in Arguments /\ quirk \in Quirks /\ size \in PageSizes
    /\ spider = "deal" => quirk = "none"      \* its interface has no pager
    /\ site \in Listings /\ \A e \in Range(site) : Readable(e)
    /\ list = Begin(spider)
    /\ seenPages = {} /\ seenMarks = {} /\ count = Zero
    /\ chain = [e \in Entry |-> "none"]
    /\ shown = [n \in Notices |-> Nil]
    /\ errors = 0
    /\ runs = 1 /\ changes = 0 /\ faults = 0
    /\ listed = Range(site) /\ added = 0 /\ taken = FALSE

----------------------------------------------------------------------------
(* The arguments of a run *)

\* _parse_optional_positive_int
Positive(n) == IF n = Nil THEN Nil ELSE IF n < 1 THEN 1 ELSE n

MaxPages == Positive(args.max_pages)

\* The older argument overrides the newer one.
Threshold == IF args.override # Nil THEN Positive(args.override) ELSE Positive(args.threshold)

Backfill == args.backfill

----------------------------------------------------------------------------
(* The site *)

\* The places of the list that are shown: the national interface is asked for the days
\* of the backfill year only.
Listing == {k \in DOMAIN site : spider = "deal" /\ Backfill => Day[site[k]] # "old"}

Pages == (Cardinality(Listing) + size - 1) \div size

\* The places on a page.
Page(p) ==
    {k \in Listing : Cardinality({j \in Listing : j <= k}) \in ((p - 1) * size + 1)..(p * size)}

\* A page beyond the last is empty, or some sites show their last one again,
\* clamped under its own number or endless under the one asked for.
Shown(p) == IF quirk \in {"clamped", "endless"} /\ p > Pages /\ Pages > 0 THEN Pages ELSE p

\* The link to the next page: its number, 0 if it names none, Nil if there is no link.
Pager(p) ==
    IF p < Pages THEN {p + 1, 0}
    ELSE IF quirk = "endless" THEN {1, 0}
    ELSE {Nil}

----------------------------------------------------------------------------
(* A list page of the Anhui spider *)

\* _current_page: the field of the page, 1 where there is none.
CurrentPage(p) ==
    CASE quirk = "nameless" -> 1 [] quirk = "clamped" -> Shown(p) [] OTHER -> p

\* _next_page_no
NextPageNo(pager, current) ==
    IF pager = Nil THEN Nil ELSE IF pager > current THEN pager ELSE current + 1

\* _is_in_backfill_window
InWindow(k) == ~Backfill \/ Day[site[k]] # "old"

\* One old entry is taken for the boundary.
AllOlderMutant(page) == Backfill /\ \E k \in page : Day[site[k]] = "old"

\* _all_items_older_than_backfill
AllOlder(page) == Backfill /\ page # {} /\ \A k \in page : Day[site[k]] = "old"

\* Twins within one page are overlooked.
FreshPageMutant(page, dedup) ==
    {site[k] : k \in {k \in page : dedup => Mark[site[k]] \notin seenMarks}}

\* Entries of earlier pages are overlooked.
FreshRunMutant(page, dedup) ==
    {site[k] : k \in {k \in page :
        dedup => \A j \in page : j < k => Mark[site[j]] # Mark[site[k]]}}

\* The entries of a page that are requested: the first of each mark not seen.
Fresh(page, dedup) ==
    {site[k] : k \in {k \in page :
        dedup => /\ Mark[site[k]] \notin seenMarks
                 /\ \A j \in page : j < k => Mark[site[j]] # Mark[site[k]]}}

\* Scrapy's filter drops a second request for an address.
Requested(entries, first) ==
    [e \in Entry |-> IF e \in entries /\ chain[e] = "none" THEN first ELSE chain[e]]

\* Every page with entries is taken for news.
CountedIdleMutant(page, window, fresh) ==
    [count EXCEPT !.pages   = @ + 1,
                  !.seen    = @ + Cardinality(page),
                  !.unique  = @ + Cardinality(fresh),
                  !.skipped = @ + Cardinality(window) - Cardinality(fresh),
                  !.idle    = IF page = {} THEN @ + 1 ELSE 0]

Counted(page, window, fresh) ==
    [count EXCEPT !.pages   = @ + 1,
                  !.seen    = @ + Cardinality(page),
                  !.unique  = @ + Cardinality(fresh),
                  !.skipped = @ + Cardinality(window) - Cardinality(fresh),
                  !.idle    = IF fresh = {} THEN @ + 1 ELSE 0]

\* One page without news too few is enough.
StopReasonEarlyMutant(page, counted, next) ==
    IF page = {} THEN "empty"
    ELSE IF AllOlder(page) THEN "boundary"
    ELSE IF MaxPages # Nil /\ counted.pages >= MaxPages THEN "limit"
    ELSE IF counted.idle > 0 /\ counted.idle + 1 >= Threshold THEN "nothing new"
    ELSE IF next = Nil THEN "last" ELSE Nil

\* Why parse asks for no further page, in the order it looks.
StopReason(page, counted, next) ==
    IF page = {} THEN "empty"
    ELSE IF AllOlder(page) THEN "boundary"
    ELSE IF MaxPages # Nil /\ counted.pages >= MaxPages THEN "limit"
    ELSE IF counted.idle >= Threshold THEN "nothing new"
    ELSE IF next = Nil THEN "last" ELSE Nil

ListPage ==
    LET current == CurrentPage(list.page)
        page == Page(Shown(list.page))
        window == IF AllOlder(page) THEN {} ELSE {k \in page : InWindow(k)}
        fresh == Fresh(window, args.dedup)
    IN  /\ spider = "anhui" /\ list.why = Nil /\ list.page <= MaxPageNo
        /\ current \notin seenPages
        /\ seenPages' = seenPages \cup {current}
        /\ seenMarks' = seenMarks \cup {Mark[e] : e \in fresh}
        /\ count' = Counted(page, window, fresh)
        /\ chain' = Requested(fresh, "detail")
        /\ \E pager \in Pager(Shown(list.page)) :
            LET next == NextPageNo(pager, current)
                why == StopReason(page, count', next)
            IN  list' = [page |-> IF why = Nil THEN next ELSE list.page, why |-> why]
        /\ UNCHANGED <<chosen, site, shown, errors, bounds, history>>

\* A page that says to be one that was seen ends the walk, without an error.
ListRepeated ==
    /\ spider = "anhui" /\ list.why = Nil
    /\ CurrentPage(list.page) \in seenPages
    /\ list' = [list EXCEPT !.why = "repeated"]
    /\ UNCHANGED <<chosen, site, seenPages, seenMarks, count, chain, shown, errors,
                   bounds, history>>

----------------------------------------------------------------------------
(* The landing page and a list page of the national spider *)

Landing ==
    /\ spider = "deal" /\ list.page = 0 /\ list.why = Nil
    /\ list' = [list EXCEPT !.page = 1]
    /\ UNCHANGED <<chosen, site, seenPages, seenMarks, count, chain, shown, errors,
                   bounds, history>>

\* The interface tells how many pages there are.
DealStop(p, pages) ==
    IF MaxPages # Nil /\ p >= MaxPages THEN "limit"
    ELSE IF pages > 0 /\ p < pages THEN Nil
    ELSE "last"

\* A notice shows the last of its new records as a draft: look-alikes replace each other.
Drafts(fresh) ==
    [n \in Notices |->
        LET places == {k \in DOMAIN site : site[k] \in fresh /\ Notice[site[k]] = n}
        IN  IF places = {} THEN shown[n]
            ELSE [kind |-> "draft",
                  mark |-> Mark[site[CHOOSE k \in places : \A j \in places : j <= k]]]]

\* Records without a title are counted and passed over.  Each new one is stored as a
\* draft, the current version of its notice, and its address, if any, is requested.
DealPage ==
    LET p == list.page
        page == Page(p)
        records == {k \in page : site[k] \in Titled}
        fresh == Fresh(records, TRUE)
        why == DealStop(p, Pages)
    IN  /\ spider = "deal" /\ p \in 1..MaxPageNo /\ list.why = Nil
        /\ seenMarks' = seenMarks \cup {Mark[e] : e \in fresh}
        /\ count' = Counted(page, records, fresh)
        /\ shown' = Drafts(fresh)
        /\ chain' = Requested(fresh \cap Linked, "bulletin")
        /\ list' = [page |-> IF why = Nil THEN p + 1 ELSE p, why |-> why]
        /\ UNCHANGED <<chosen, site, seenPages, errors, bounds, history>>

\* Anything but JSON, a captcha or another code: counted, reported, and the end.
DealRefused ==
    /\ spider = "deal" /\ list.page > 0 /\ list.why = Nil
    /\ faults < MaxFaults
    /\ faults' = faults + 1
    /\ count' = [count EXCEPT !.pages = @ + 1]
    /\ list' = [list EXCEPT !.why = "failed"]
    /\ errors' = errors + 1
    /\ UNCHANGED <<chosen, site, seenPages, seenMarks, chain, shown, runs, changes, history>>

\* The page cannot be parsed: it counts as met, and the walk ends.
ListUnreadable ==
    LET current == CurrentPage(list.page)
    IN  /\ spider = "anhui" /\ list.why = Nil /\ current \notin seenPages
        /\ faults < MaxFaults
        /\ faults' = faults + 1
        /\ seenPages' = seenPages \cup {current}
        /\ count' = [count EXCEPT !.pages = @ + 1]
        /\ list' = [list EXCEPT !.why = "failed"]
        /\ errors' = errors + 1
        /\ UNCHANGED <<chosen, site, seenMarks, chain, shown, runs, changes, history>>

\* handle_request_error of a list request
ListFails ==
    /\ list.why = Nil
    /\ faults < MaxFaults
    /\ faults' = faults + 1
    /\ list' = [list EXCEPT !.why = "failed"]
    /\ errors' = errors + 1
    /\ UNCHANGED <<chosen, site, seenPages, seenMarks, count, chain, shown, runs, changes, history>>

----------------------------------------------------------------------------
(* The chain of an entry *)

Step == [detail |-> "xmdj", xmdj |-> "bulletin", bulletin |-> "stored"]

Pending(e) == chain[e] \in DOMAIN Step

\* parse_detail, parse_xmdj and parse_bulletin; the last stores the notice with
\* its text, and so does parse_detail of the national spider.
ChainStep(e) ==
    /\ Pending(e)
    /\ chain' = [chain EXCEPT ![e] = Step[@]]
    /\ shown' = IF chain[e] # "bulletin" THEN shown
                ELSE [shown EXCEPT ![Notice[e]] = [kind |-> "full", mark |-> Mark[e]]]
    /\ UNCHANGED <<chosen, site, list, seenPages, seenMarks, count, errors, bounds, history>>

\* A request fails, an address has no guid, a page is no HTML or cannot be parsed.
ChainFails(e) ==
    /\ Pending(e)
    /\ faults < MaxFaults
    /\ faults' = faults + 1
    /\ chain' = [chain EXCEPT ![e] = "failed"]
    /\ errors' = errors + 1
    /\ UNCHANGED <<chosen, site, list, seenPages, seenMarks, count, shown, runs, changes, history>>

----------------------------------------------------------------------------
(* The site moves on; the next run *)

Publish(e) ==
    /\ changes < MaxChanges
    /\ e \notin Range(site) /\ Day[e] = "new" /\ Readable(e)
    /\ site' = <<e>> \o site
    /\ added' = added + 1
    /\ changes' = changes + 1
    /\ UNCHANGED <<chosen, list, seenPages, seenMarks, count, chain, shown, errors, runs, faults,
                   listed, taken>>

Withdraw(e) ==
    /\ changes < MaxChanges
    /\ \E k \in DOMAIN site : site[k] = e /\ site' = RemoveAt(site, k)
    /\ taken' = TRUE
    /\ changes' = changes + 1
    /\ UNCHANGED <<chosen, list, seenPages, seenMarks, count, chain, shown, errors, runs, faults,
                   listed, added>>

Ended == list.why # Nil /\ \A e \in Entry : ~Pending(e)

\* A new job of the source: a new process, the same table.
Rerun ==
    /\ Ended
    /\ runs < MaxRuns
    /\ runs' = runs + 1
    /\ list' = Begin(spider)
    /\ seenPages' = {} /\ seenMarks' = {} /\ count' = Zero
    /\ chain' = [e \in Entry |-> "none"]
    /\ errors' = 0
    /\ listed' = Range(site) /\ added' = 0 /\ taken' = FALSE
    /\ UNCHANGED <<chosen, site, shown, changes, faults>>

ListStep == ListPage \/ ListRepeated \/ Landing \/ DealPage

Next ==
    \/ ListStep \/ DealRefused \/ ListUnreadable \/ ListFails
    \/ \E e \in Entry : ChainStep(e) \/ ChainFails(e) \/ Publish(e) \/ Withdraw(e)
    \/ Rerun

Spec == Init /\ [][Next]_pagingVars

\* Scrapy answers every request, with a response or an error.
FairSpec ==
    /\ Spec
    /\ WF_pagingVars(ListStep)
    /\ \A e \in Entry : WF_pagingVars(ChainStep(e))

----------------------------------------------------------------------------
(* Properties *)

\* An entry with a title that was listed when the run began, of the year that is backfilled.
Wanted(e) == e \in listed /\ e \in Titled /\ (Backfill => Day[e] = "new")

Missed == {e \in Entry : Wanted(e) /\ Mark[e] \notin seenMarks}

\* A walk that ends at the last page, at an empty one or at the backfill boundary has
\* met every entry that was listed when it began, or a twin, however the list grew
\* under it and whatever the pager claims (anhui_ggzy_zfcg_spider.py:223-260).
NothingMissed ==
    list.why \in {"last", "empty", "boundary"} /\ ~taken => Missed = {}

\* Entries that can make a page look as if there was nothing new: old ones, all twins
\* but one, and those pushed back to the next page or met for the second time.
Stale ==
    added + Cardinality({e \in listed : Backfill /\ Day[e] = "old"})
          + Cardinality(listed) - Cardinality({Mark[e] : e \in listed})

\* A walk that gives up after pages without news has met them all too, unless there
\* are stale entries enough for that many full pages (:172-174, 243-250).
GivesUpAmongStale ==
    list.why = "nothing new" /\ ~taken => Missed = {} \/ Stale >= Threshold * size

\* The requests of the entries with a mark.
Chains(m) == {e \in Entry : chain[e] # "none" /\ Mark[e] = m}

\* The counters and what was done: with the filter of the run there are as many unique
\* entries as marks met, a mark is requested once, also when the list shifts, and only a
\* record without an address is not (ggzy_gov_cn_deal_spider.py:177-197).
CountersAddUp ==
    /\ count.skipped + count.unique <= count.seen
    /\ (spider = "deal" \/ args.dedup) =>
         /\ count.unique = Cardinality(seenMarks)
         /\ \A m \in Marks : \A d, e \in Chains(m) : d = e /\ m \in seenMarks
         /\ \A m \in seenMarks :
              Chains(m) # {} \/ (spider = "deal" /\ \E e \in Titled \ Linked : Mark[e] = m)

\* Once the text of an entry was stored no draft of it or of a twin takes its place in the
\* same run, also when it slides to the next page and is listed again.  A look-alike of
\* another mark may (sqlalchemy_writer.py:574-579).
TextOutlivesDraft ==
    \A e \in Entry :
        chain[e] = "stored" => shown[Notice[e]] \notin [kind : {"draft"}, mark : {Mark[e]}]

\* A run ends: whatever the pager says, a walk comes to an end and so do the chains.
\* An endless pager is left after pages without news.
RunEnds == (list.why = Nil) ~> Ended
================================================================================
