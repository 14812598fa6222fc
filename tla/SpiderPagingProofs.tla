---------------------------- MODULE SpiderPagingProofs ----------------------------
(***************************************************************************)
(* What a walk has counted and stored, for any site, however its list      *)
(* changes under the walk, any entries, runs and faults.  An entry is      *)
(* taken when its mark is new, and keeps its mark: so no mark is requested *)
(* twice, nor a second draft of it stored in a run.  What a                *)
(* walk has not met is behind the pages it was shown, and those were full: *)
(* so it ends having met all, or gives up among stale entries.             *)
(***************************************************************************)
EXTENDS SpiderPaging, FiniteSetTheorems, SequenceTheorems, WellFoundedInduction, TLAPS

Dedups == spider = "deal" \/ args.dedup

Begun == {e \in Entry : chain[e] # "none"}

SiteOK ==
    /\ site \in Seq(Entry) /\ args \in Arguments /\ spider \in Spiders
    /\ \A k \in DOMAIN site : Readable(site[k])

CountOK ==
    /\ count \in [pages : Nat, seen : Nat, unique : Nat, skipped : Int, idle : Nat]
    /\ count.skipped + count.unique <= count.seen

\* With the filter of the run an entry that was requested has its mark remembered, no two
\* have the same, and a mark that was remembered without a request has no address.
Unlinked == {Mark[e] : e \in Titled \ Linked}

RequestedOnce ==
    /\ IsFiniteSet(seenMarks) /\ count.unique = Cardinality(seenMarks)
    /\ \A e \in Begun : Mark[e] \in seenMarks
    /\ \A d, e \in Begun : Mark[d] = Mark[e] => d = e
    /\ \A m \in seenMarks : (\E e \in Begun : Mark[e] = m) \/ (spider = "deal" /\ m \in Unlinked)

MarksOK ==
    /\ chain \in [Entry -> {"none", "detail", "xmdj", "bulletin", "stored", "failed"}]
    /\ seenMarks \subseteq Marks
    /\ Dedups => RequestedOnce

TextOK ==
    /\ DOMAIN shown = Notices
    /\ TextOutlivesDraft

PagingInv == SiteOK /\ CountOK /\ MarksOK /\ TextOK

----------------------------------------------------------------------------
(* Pages *)

LEMMA MarkOf == ASSUME NEW e \in Entry PROVE Mark[e] \in Marks /\ Notice[e] \in Notices
  BY DEF Marks, Notices

\* A text is no draft, nor is the draft of another mark.
LEMMA OtherVersion ==
  ASSUME NEW kind, NEW mark, NEW m, kind # "draft" \/ mark # m
  PROVE  [kind |-> kind, mark |-> mark] \notin [kind : {"draft"}, mark : {m}]
  OBVIOUS

LEMMA Least ==
  ASSUME NEW K \in SUBSET Nat, NEW m \in K
  PROVE  \E l \in K : \A i \in K : l <= i
  <1>1. PICK l \in K : \A i \in K : <<i, l>> \notin OpToRel(<, Nat)
    BY NatLessThanWellFounded, WFMin
  <1>2. ASSUME NEW i \in K PROVE l <= i
    <2>1. i \in Nat /\ l \in Nat /\ <<i, l>> \notin OpToRel(<, Nat)
      BY <1>1, <1>2
    <2> QED
      BY <2>1 DEF OpToRel
  <1> QED
    BY <1>2

LEMMA Greatest ==
  ASSUME NEW n \in Nat, NEW K \in SUBSET (1 .. n), NEW m \in K
  PROVE  \E l \in K : \A i \in K : i <= l
  <1>1. PICK D : D = {n - k : k \in K}
    OBVIOUS
  <1>2. D \in SUBSET Nat /\ n - m \in D
    BY <1>1
  <1>3. PICK d \in D : \A i \in D : d <= i
    BY <1>2, Least
  <1>4. PICK l \in K : d = n - l
    BY <1>1, <1>3
  <1>5. ASSUME NEW i \in K PROVE i <= l
    <2>1. n - i \in D
      BY <1>1, <1>5
    <2>2. n - l <= n - i
      BY <1>3, <1>4, <2>1
    <2>3. i \in Int /\ l \in Int
      BY <1>5, <1>4
    <2> QED
      BY <2>2, <2>3
  <1> QED
    BY <1>5

LEMMA DisjointUnion ==
  ASSUME NEW S, NEW T, IsFiniteSet(S), IsFiniteSet(T), S \cap T = {}
  PROVE  IsFiniteSet(S \cup T) /\ Cardinality(S \cup T) = Cardinality(S) + Cardinality(T)
  <1>1. /\ Cardinality(S \cap T) = 0
        /\ Cardinality(S) \in Nat /\ Cardinality(T) \in Nat
    BY FS_EmptySet, FS_CardinalityType
  <1>2. /\ IsFiniteSet(S \cup T)
        /\ Cardinality(S \cup T) = Cardinality(S) + Cardinality(T) - Cardinality(S \cap T)
    BY FS_Union, Zenon
  <1> QED
    BY <1>1, <1>2

\* A page is a finite set of places of the list.
LEMMA PlacesOfPage ==
  ASSUME SiteOK, NEW p
  PROVE  Page(p) \subseteq DOMAIN site
  BY DEF Page, Listing

LEMMA PlacesAreFinite ==
  ASSUME SiteOK, NEW S \in SUBSET DOMAIN site
  PROVE  /\ IsFiniteSet(S) /\ Cardinality(S) \in Nat
         /\ \A T \in SUBSET S : IsFiniteSet(T) /\ Cardinality(T) <= Cardinality(S)
  <1>1. DOMAIN site = 1 .. Len(site) /\ Len(site) \in Nat
    BY DEF SiteOK
  <1>2. IsFiniteSet(DOMAIN site)
    BY <1>1, FS_Interval
  <1> QED
    BY <1>2, FS_Subset, FS_CardinalityType

\* The entries that are requested, their number, and that of their marks.
LEMMA FreshEntries ==
  ASSUME SiteOK, NEW page \in SUBSET DOMAIN site, NEW dedup \in BOOLEAN
  PROVE  LET fresh == Fresh(page, dedup)
             marks == {Mark[e] : e \in fresh}
         IN  /\ fresh \subseteq Entry /\ IsFiniteSet(fresh) /\ Cardinality(fresh) \in Nat
             /\ \A e \in fresh : \E k \in page : e = site[k]
             /\ dedup => /\ \A e \in fresh : Mark[e] \notin seenMarks
                         /\ \A d, e \in fresh : Mark[d] = Mark[e] => d = e
                         /\ IsFiniteSet(marks) /\ Cardinality(marks) = Cardinality(fresh)
  <1>1. PICK K : K = {k \in page : dedup => /\ Mark[site[k]] \notin seenMarks
                                            /\ \A j \in page : j < k => Mark[site[j]] # Mark[site[k]]}
    OBVIOUS
  <1>2. PICK F : F = Fresh(page, dedup)
    OBVIOUS
  <1>3. F = {site[k] : k \in K}
    BY <1>1, <1>2 DEF Fresh
  <1>4. K \subseteq DOMAIN site /\ IsFiniteSet(K)
    BY <1>1, PlacesAreFinite
  <1>5. F \subseteq Entry
    BY <1>3, <1>4 DEF SiteOK
  <1>6. IsFiniteSet(F) /\ Cardinality(F) \in Nat
    <2>1. PICK f : f = [k \in K |-> site[k]]
      OBVIOUS
    <2>2. f \in Surjection(K, F)
      BY <1>3, <2>1 DEF Surjection
    <2> QED
      BY <1>4, <2>2, FS_Surjection, FS_CardinalityType
  <1>7. ASSUME dedup
        PROVE  /\ \A e \in F : Mark[e] \notin seenMarks
               /\ \A d, e \in F : Mark[d] = Mark[e] => d = e
               /\ IsFiniteSet({Mark[e] : e \in F})
               /\ Cardinality({Mark[e] : e \in F}) = Cardinality(F)
    <2>1. \A e \in F : Mark[e] \notin seenMarks
      BY <1>1, <1>3, <1>7
    <2>2. \A d, e \in F : Mark[d] = Mark[e] => d = e
      <3> SUFFICES ASSUME NEW j \in K, NEW k \in K, Mark[site[j]] = Mark[site[k]]
                   PROVE  site[j] = site[k]
        BY <1>3
      <3>1. j \in page /\ k \in page /\ j \in Int /\ k \in Int
        BY <1>1 DEF SiteOK
      <3>2. ~(j < k) /\ ~(k < j)
        BY <1>1, <1>7, <3>1
      <3> QED
        BY <3>1, <3>2
    <2>3. PICK f : f = [e \in F |-> Mark[e]]
      OBVIOUS
    <2>4. PICK M : M = {Mark[e] : e \in F}
      OBVIOUS
    <2>5. f \in Bijection(F, M)
      BY <2>2, <2>3, <2>4 DEF Bijection, Injection, Surjection, IsInjective
    <2> QED
      BY <1>6, <2>1, <2>2, <2>4, <2>5, FS_Bijection DEF ExistsBijection
  <1>8. \A e \in F : \E k \in page : e = site[k]
    BY <1>1, <1>3
  <1> QED
    BY <1>2, <1>5, <1>6, <1>7, <1>8

----------------------------------------------------------------------------
(* Steps *)

LEMMA PagingInit == Init => PagingInv
  <1> SUFFICES ASSUME Init PROVE PagingInv
    OBVIOUS
  <1>1. SiteOK
    BY PagingAssumption DEF Init, SiteOK, Range
  <1>2. CountOK
    BY DEF Init, CountOK, Zero
  <1>3. MarksOK
    <2>1. Begun = {}
      BY DEF Init, Begun
    <2> QED
      BY <2>1, FS_EmptySet DEF Init, MarksOK, RequestedOnce, Zero
  <1>4. TextOK
    BY DEF Init, TextOK, TextOutlivesDraft
  <1> QED
    BY <1>1, <1>2, <1>3, <1>4 DEF PagingInv

\* What the counters make of a page.
LEMMA CountedPage ==
  ASSUME CountOK, SiteOK, NEW page \in SUBSET DOMAIN site, NEW window \in SUBSET page,
         NEW fresh, Cardinality(fresh) \in Nat, count' = Counted(page, window, fresh)
  PROVE  CountOK' /\ count'.unique = count.unique + Cardinality(fresh)
  <1>1. PICK p, w, f : p = Cardinality(page) /\ w = Cardinality(window) /\ f = Cardinality(fresh)
    OBVIOUS
  <1>2. p \in Nat /\ w \in Nat /\ w <= p /\ f \in Nat
    BY <1>1, PlacesAreFinite
  <1>3. DOMAIN count = {"pages", "seen", "unique", "skipped", "idle"}
    BY DEF CountOK
  <1>4. /\ DOMAIN count' = DOMAIN count /\ count' = [c \in DOMAIN count |-> count'[c]]
        /\ count'["pages"] = count["pages"] + 1 /\ count'["seen"] = count["seen"] + p
        /\ count'["unique"] = count["unique"] + f
        /\ count'["skipped"] = count["skipped"] + w - f
        /\ count'["idle"] \in {count["idle"] + 1, 0}
    BY <1>1, <1>3 DEF Counted
  <1> QED
    BY <1>1, <1>2, <1>3, <1>4 DEF CountOK

\* The entries of a page that are taken begin, but for those without an address; their
\* marks are remembered.
LEMMA FreshRequested ==
  ASSUME MarksOK, SiteOK, NEW page \in SUBSET DOMAIN site, NEW dedup \in BOOLEAN,
         Dedups => dedup, UNCHANGED <<spider, args>>, NEW first \in {"detail", "bulletin"},
         NEW begun \in SUBSET Fresh(page, dedup),
         spider # "deal" => begun = Fresh(page, dedup),
         \A e \in Fresh(page, dedup) : e \notin begun => e \in Titled \ Linked,
         count'.unique = count.unique + Cardinality(Fresh(page, dedup)),
         chain' = Requested(begun, first),
         seenMarks' = seenMarks \cup {Mark[e] : e \in Fresh(page, dedup)}
  PROVE  MarksOK'
  <1>1. PICK F, M : F = Fresh(page, dedup) /\ M = {Mark[e] : e \in F}
    OBVIOUS
  <1>2. /\ F \subseteq Entry /\ IsFiniteSet(F) /\ Cardinality(F) \in Nat
        /\ Dedups => /\ \A e \in F : Mark[e] \notin seenMarks
                     /\ \A d, e \in F : Mark[d] = Mark[e] => d = e
                     /\ IsFiniteSet(M) /\ Cardinality(M) = Cardinality(F)
    BY <1>1, FreshEntries
  <1>3. chain' = [e \in Entry |-> IF e \in begun /\ chain[e] = "none" THEN first ELSE chain[e]]
    BY DEF Requested
  <1>4. chain' \in [Entry -> {"none", "detail", "xmdj", "bulletin", "stored", "failed"}]
    BY <1>3 DEF MarksOK
  <1>5. seenMarks' = seenMarks \cup M /\ M \subseteq Marks
    BY <1>1, <1>2, MarkOf
  <1>6. Begun' = Begun \cup begun /\ begun \subseteq F
    BY <1>1, <1>2, <1>3, <1>4 DEF Begun, MarksOK
  <1>7. ASSUME Dedups
        PROVE  RequestedOnce'
    <2>1. /\ IsFiniteSet(seenMarks) /\ count.unique = Cardinality(seenMarks)
          /\ \A e \in Begun : Mark[e] \in seenMarks
          /\ \A d, e \in Begun : Mark[d] = Mark[e] => d = e
          /\ \A m \in seenMarks :
               (\E e \in Begun : Mark[e] = m) \/ (spider = "deal" /\ m \in Unlinked)
      BY <1>7 DEF MarksOK, RequestedOnce
    <2>2. seenMarks \cap M = {}
      <3>1. \A e \in F : Mark[e] \notin seenMarks
        BY <1>2, <1>7
      <3> QED
        BY <1>1, <3>1, Zenon
    <2>3. /\ IsFiniteSet(seenMarks \cup M)
          /\ Cardinality(seenMarks \cup M) = Cardinality(seenMarks) + Cardinality(M)
      BY <1>2, <1>7, <2>1, <2>2, DisjointUnion
    <2>4. \A d, e \in Begun \cup begun : Mark[d] = Mark[e] => d = e
      BY <1>2, <1>6, <1>7, <2>1
    <2>5. \A e \in Begun \cup begun : Mark[e] \in seenMarks \cup M
      BY <1>1, <1>6, <2>1
    <2>6. \A m \in M : (\E e \in begun : Mark[e] = m) \/ (spider = "deal" /\ m \in Unlinked)
      BY <1>1 DEF Unlinked
    <2>7. \A m \in seenMarks \cup M :
            (\E e \in Begun \cup begun : Mark[e] = m) \/ (spider = "deal" /\ m \in Unlinked)
      BY <2>1, <2>6
    <2>8. count'.unique = Cardinality(seenMarks')
      BY <1>1, <1>2, <1>5, <1>7, <2>1, <2>3
    <2> QED
      BY <1>5, <1>6, <2>3, <2>4, <2>5, <2>7, <2>8 DEF RequestedOnce
  <1>8. Dedups' <=> Dedups
    BY DEF Dedups
  <1> QED
    BY <1>4, <1>5, <1>7, <1>8, MarkOf DEF MarksOK

\* The draft of an entry that was taken now is the first of its mark.
LEMMA DraftsAreNew ==
  ASSUME MarksOK, TextOK, SiteOK, spider = "deal", NEW page \in SUBSET DOMAIN site,
         NEW fresh, fresh = Fresh(page, TRUE),
         chain' = Requested(fresh \cap Linked, "bulletin"), shown' = Drafts(fresh)
  PROVE  TextOK'
  <1>1. fresh \subseteq Entry /\ \A e \in fresh : Mark[e] \notin seenMarks
    BY FreshEntries
  <1>2. /\ DOMAIN shown' = Notices
        /\ \A n \in Notices :
             \/ shown'[n] = shown[n]
             \/ \E f \in fresh : shown'[n] = [kind |-> "draft", mark |-> Mark[f]]
    <2>1. DOMAIN site = 1 .. Len(site) /\ Len(site) \in Nat
      BY DEF SiteOK
    <2>2. SUFFICES ASSUME NEW n \in Notices, shown'[n] # shown[n]
                   PROVE  \E f \in fresh : shown'[n] = [kind |-> "draft", mark |-> Mark[f]]
      BY DEF Drafts
    <2>3. PICK K : K = {k \in DOMAIN site : site[k] \in fresh /\ Notice[site[k]] = n}
      OBVIOUS
    <2>4. K # {} /\ K \in SUBSET (1 .. Len(site))
      BY <2>1, <2>2, <2>3 DEF Drafts
    <2>5. PICK l : l = CHOOSE k \in K : \A j \in K : j <= k
      OBVIOUS
    <2>6. l \in K
      <3>1. \E k \in K : \A j \in K : j <= k
        BY <2>1, <2>4, Greatest
      <3> QED
        BY <2>5, <3>1
    <2>7. shown'[n] = [kind |-> "draft", mark |-> Mark[site[l]]]
      BY <2>3, <2>4, <2>5 DEF Drafts
    <2> QED
      BY <2>3, <2>6, <2>7
  <1>3. ASSUME NEW e \in Entry, chain'[e] = "stored"
        PROVE  shown'[Notice[e]] \notin [kind : {"draft"}, mark : {Mark[e]}]
    <2>1. chain[e] = "stored"
      BY <1>3 DEF Requested
    <2>2. Mark[e] \in seenMarks /\ Notice[e] \in Notices
      BY <2>1, MarkOf DEF MarksOK, RequestedOnce, Dedups, Begun
    <2>3. shown[Notice[e]] \notin [kind : {"draft"}, mark : {Mark[e]}]
      BY <2>1 DEF TextOK, TextOutlivesDraft
    <2>4. CASE shown'[Notice[e]] = shown[Notice[e]]
      BY <2>3, <2>4, Zenon
    <2>5. CASE \E f \in fresh : shown'[Notice[e]] = [kind |-> "draft", mark |-> Mark[f]]
      <3>1. PICK f \in fresh : shown'[Notice[e]] = [kind |-> "draft", mark |-> Mark[f]]
        BY <2>5
      <3>2. Mark[f] # Mark[e]
        BY <1>1, <2>2
      <3> QED
        BY <3>1, <3>2, OtherVersion
    <2> QED
      BY <1>2, <2>2, <2>4, <2>5
  <1> QED
    BY <1>2, <1>3 DEF TextOK, TextOutlivesDraft

LEMMA ListPageKeeps ==
  ASSUME PagingInv, ListPage
  PROVE  PagingInv'
  <1> DEFINE page == Page(Shown(list.page))
             window == IF AllOlder(page) THEN {} ELSE {k \in page : InWindow(k)}
             fresh == Fresh(window, args.dedup)
  <1>1. /\ SiteOK /\ CountOK /\ MarksOK /\ TextOK /\ spider = "anhui"
    BY DEF PagingInv, ListPage
  <1>2. /\ seenMarks' = seenMarks \cup {Mark[e] : e \in fresh}
        /\ count' = Counted(page, window, fresh)
        /\ chain' = Requested(fresh, "detail")
        /\ UNCHANGED <<spider, args, site, shown>>
    BY DEF ListPage, chosen
  <1>3. page \in SUBSET DOMAIN site /\ window \in SUBSET page
    BY <1>1, PlacesOfPage
  <1> HIDE DEF page, window
  <1>4. args.dedup \in BOOLEAN /\ (Dedups => args.dedup) /\ (Dedups' <=> Dedups)
    BY <1>1, <1>2, PagingAssumption DEF Dedups, SiteOK
  <1>5. window \in SUBSET DOMAIN site /\ Cardinality(fresh) \in Nat
    BY <1>1, <1>3, <1>4, FreshEntries
  <1> HIDE DEF fresh
  <1>6. CountOK' /\ count'.unique = count.unique + Cardinality(fresh)
    BY <1>1, <1>2, <1>3, <1>5, CountedPage
  <1>7. MarksOK'
    <2>1. fresh = Fresh(window, args.dedup)
      BY DEF fresh
    <2> QED
      BY <1>1, <1>2, <1>4, <1>5, <1>6, <2>1, FreshRequested
  <1>8. TextOK'
    <2>1. ASSUME NEW e \in Entry, chain'[e] = "stored" PROVE chain[e] = "stored"
      BY <1>2, <2>1 DEF Requested
    <2> QED
      BY <1>1, <1>2, <2>1 DEF TextOK, TextOutlivesDraft
  <1> QED
    BY <1>1, <1>2, <1>6, <1>7, <1>8 DEF PagingInv, SiteOK, Readable

LEMMA DealPageKeeps ==
  ASSUME PagingInv, DealPage
  PROVE  PagingInv'
  <1>1. /\ SiteOK /\ CountOK /\ MarksOK /\ TextOK /\ spider = "deal"
    BY DEF PagingInv, DealPage
  <1>2. PICK page, records, fresh, begun :
           /\ page = Page(list.page) /\ records = {k \in page : site[k] \in Titled}
           /\ fresh = Fresh(records, TRUE) /\ begun = fresh \cap Linked
    OBVIOUS
  <1>3. /\ seenMarks' = seenMarks \cup {Mark[e] : e \in fresh}
        /\ count' = Counted(page, records, fresh)
        /\ shown' = Drafts(fresh)
        /\ chain' = Requested(begun, "bulletin")
        /\ UNCHANGED <<spider, args, site>>
    BY <1>2 DEF DealPage, chosen
  <1>4. page \in SUBSET DOMAIN site /\ records \in SUBSET page /\ records \in SUBSET DOMAIN site
    BY <1>1, <1>2, PlacesOfPage
  <1>5. Cardinality(fresh) \in Nat /\ \A e \in fresh : e \in Titled
    <2>1. Cardinality(fresh) \in Nat /\ \A e \in fresh : \E k \in records : e = site[k]
      BY <1>1, <1>2, <1>4, FreshEntries
    <2> QED
      BY <1>2, <2>1
  <1>6. CountOK' /\ count'.unique = count.unique + Cardinality(fresh)
    BY <1>1, <1>3, <1>4, <1>5, CountedPage
  <1>7. MarksOK'
    <2>1. /\ begun \in SUBSET fresh /\ \A e \in fresh : e \notin begun => e \in Titled \ Linked
      BY <1>2, <1>5
    <2> QED
      BY <1>1, <1>2, <1>3, <1>4, <1>6, <2>1, FreshRequested
  <1>8. TextOK'
    BY <1>1, <1>2, <1>3, <1>4, DraftsAreNew
  <1> QED
    BY <1>1, <1>3, <1>6, <1>7, <1>8 DEF PagingInv, SiteOK, Readable

LEMMA ChainKeeps ==
  ASSUME PagingInv, NEW e \in Entry, ChainStep(e) \/ ChainFails(e)
  PROVE  PagingInv'
  <1>1. /\ SiteOK /\ CountOK /\ MarksOK /\ TextOK
        /\ UNCHANGED <<spider, args, site, seenMarks, count>>
    BY DEF PagingInv, ChainStep, ChainFails, chosen
  <1>2. PICK next \in {"xmdj", "bulletin", "stored", "failed"} :
           /\ chain[e] \in {"detail", "xmdj", "bulletin"}
           /\ chain' = [chain EXCEPT ![e] = next]
           /\ next = "stored" => chain[e] = "bulletin"
           /\ \/ shown' = [shown EXCEPT ![Notice[e]] = [kind |-> "full", mark |-> Mark[e]]]
              \/ shown' = shown /\ chain[e] # "bulletin"
              \/ shown' = shown /\ next = "failed"
    BY DEF ChainStep, ChainFails, Pending, Step
  <1>3. Begun' = Begun
    BY <1>1, <1>2 DEF Begun, MarksOK
  <1>4. MarksOK'
    BY <1>1, <1>2, <1>3 DEF MarksOK, RequestedOnce, Dedups
  <1>5. TextOK'
    <2>1. DOMAIN shown' = Notices
      BY <1>1, <1>2 DEF TextOK
    <2>2. ASSUME NEW d \in Entry, chain'[d] = "stored"
          PROVE  shown'[Notice[d]] \notin [kind : {"draft"}, mark : {Mark[d]}]
      <3>1. Notice[d] \in Notices /\ Notice[e] \in Notices
        BY MarkOf
      <3>2. \/ shown'[Notice[d]] = [kind |-> "full", mark |-> Mark[e]]
            \/ /\ shown'[Notice[d]] = shown[Notice[d]] /\ chain[d] = "stored"
        <4>1. \/ shown' = [shown EXCEPT ![Notice[e]] = [kind |-> "full", mark |-> Mark[e]]]
              \/ shown' = shown /\ next # "stored"
          BY <1>2
        <4>2. chain[d] = "stored" \/ (d = e /\ next = "stored")
          BY <1>1, <1>2, <2>2 DEF MarksOK
        <4> QED
          BY <1>1, <3>1, <4>1, <4>2 DEF TextOK
      <3>3. CASE shown'[Notice[d]] = [kind |-> "full", mark |-> Mark[e]]
        BY <3>3, OtherVersion
      <3>4. CASE shown'[Notice[d]] = shown[Notice[d]] /\ chain[d] = "stored"
        BY <1>1, <3>4 DEF TextOK, TextOutlivesDraft
      <3> QED
        BY <3>2, <3>3, <3>4
    <2> QED
      BY <2>1, <2>2 DEF TextOK, TextOutlivesDraft
  <1> QED
    BY <1>1, <1>4, <1>5 DEF PagingInv, SiteOK, Readable, CountOK

LEMMA RerunKeeps ==
  ASSUME PagingInv, Rerun
  PROVE  PagingInv'
  <1>1. Begun' = {}
    BY DEF Rerun, Begun
  <1>2. MarksOK'
    BY <1>1, FS_EmptySet DEF Rerun, MarksOK, RequestedOnce, Zero
  <1>3. CountOK'
    BY DEF Rerun, CountOK, Zero
  <1>4. TextOK'
    BY DEF Rerun, TextOK, TextOutlivesDraft, PagingInv
  <1> QED
    BY <1>2, <1>3, <1>4 DEF Rerun, PagingInv, SiteOK, Readable, chosen

LEMMA SiteMoves ==
  ASSUME PagingInv, NEW e \in Entry, Publish(e) \/ Withdraw(e)
  PROVE  PagingInv'
  <1>1. site' \in Seq(Entry) /\ \A k \in DOMAIN site' : Readable(site'[k])
    <2>1. site \in Seq(Entry) /\ \A k \in DOMAIN site : Readable(site[k])
      BY DEF PagingInv, SiteOK
    <2>2. CASE Publish(e)
      BY <2>1, <2>2 DEF Publish
    <2>3. CASE Withdraw(e)
      <3>1. PICK k \in DOMAIN site : site' = RemoveAt(site, k)
        BY <2>3 DEF Withdraw
      <3> QED
        BY <2>1, <3>1 DEF RemoveAt
    <2> QED
      BY <2>2, <2>3
  <1>2. spider' = spider
    BY DEF Publish, Withdraw, chosen
  <1> QED
    BY <1>1, <1>2, ZenonT(40)
    DEF Publish, Withdraw, PagingInv, SiteOK, CountOK, MarksOK, RequestedOnce, TextOK,
        TextOutlivesDraft, Begun, Dedups, Readable, chosen

LEMMA OthersKeep ==
  ASSUME PagingInv,
         \/ ListRepeated \/ Landing \/ DealRefused \/ ListUnreadable \/ ListFails
         \/ UNCHANGED pagingVars
  PROVE  PagingInv'
  <1>1. UNCHANGED <<spider, args, site, seenMarks, chain, shown>>
    BY DEF ListRepeated, Landing, DealRefused, ListUnreadable, ListFails, pagingVars, chosen
  <1>2. CountOK' /\ count'.unique = count.unique
    BY DEF PagingInv, CountOK, ListRepeated, Landing, DealRefused, ListUnreadable, ListFails,
           pagingVars
  <1> QED
    BY <1>1, <1>2
    DEF PagingInv, SiteOK, Readable, MarksOK, RequestedOnce, TextOK, TextOutlivesDraft, Begun, Dedups

LEMMA PagingInvariant == Spec => []PagingInv
  <1>1. PagingInv /\ [Next]_pagingVars => PagingInv'
    BY ListPageKeeps, DealPageKeeps, ChainKeeps, RerunKeeps, SiteMoves, OthersKeep
       DEF Next, ListStep
  <1> QED
    BY PagingInit, <1>1, PTL DEF Spec

----------------------------------------------------------------------------
(* What a page meets *)

Rank(k) == Cardinality({j \in Listing : j <= k})

SizeOK == size \in Nat \ {0}

LEMMA Monotone ==
  ASSUME NEW a \in Int, NEW b \in Int, NEW s \in Nat, a <= b
  PROVE  a * s <= b * s
  <1>1. PICK d \in Nat : b = a + d
    <2>1. b - a \in Nat /\ b = a + (b - a)
      OBVIOUS
    <2> QED
      BY <2>1, Zenon
  <1>2. b * s = a * s + d * s /\ d * s \in Nat
    BY <1>1
  <1> QED
    BY <1>2

LEMMA RankType ==
  ASSUME SiteOK, NEW k \in Listing
  PROVE  /\ Cardinality(Listing) \in Nat /\ Rank(k) \in 1 .. Cardinality(Listing)
         /\ \A j \in Listing : k <= j => Rank(k) <= Rank(j) /\ Rank(j) \in Nat
  <1>1. Listing \in SUBSET DOMAIN site /\ DOMAIN site \subseteq Nat
    BY DEF Listing, SiteOK
  <1>2. /\ IsFiniteSet(Listing) /\ Cardinality(Listing) \in Nat
        /\ \A T \in SUBSET Listing : IsFiniteSet(T) /\ Cardinality(T) <= Cardinality(Listing)
    BY <1>1, PlacesAreFinite
  <1> DEFINE B(j) == {i \in Listing : i <= j}
  <1>3. \A j : B(j) \in SUBSET Listing /\ Rank(j) = Cardinality(B(j))
    BY DEF Rank
  <1>4. k \in B(k)
    BY <1>1
  <1>5. \A j \in Listing : k <= j => B(k) \subseteq B(j)
    BY <1>1
  <1> HIDE DEF B
  <1>6. \A j : IsFiniteSet(B(j)) /\ Cardinality(B(j)) \in Nat
                /\ Cardinality(B(j)) <= Cardinality(Listing)
    BY <1>2, <1>3, FS_CardinalityType
  <1>7. Cardinality(B(k)) # 0
    BY <1>4, <1>6, FS_EmptySet
  <1>8. \A j \in Listing : k <= j => Cardinality(B(k)) <= Cardinality(B(j))
    BY <1>5, <1>6, FS_Subset
  <1> QED
    BY <1>2, <1>3, <1>6, <1>7, <1>8

LEMMA PagesSuffice ==
  ASSUME SiteOK, SizeOK
  PROVE  Pages \in Nat /\ Cardinality(Listing) \in Nat /\ Cardinality(Listing) <= Pages * size
  <1>1. PICK n, s : n = Cardinality(Listing) /\ s = size
    OBVIOUS
  <1>2. n \in Nat /\ s \in Nat \ {0}
    BY <1>1, PlacesAreFinite DEF Listing, SizeOK
  <1>3. PICK p : p = (n + s - 1) \div s
    OBVIOUS
  <1>4. p \in Nat /\ n <= p * s
    BY <1>2, <1>3
  <1> QED
    BY <1>1, <1>2, <1>3, <1>4 DEF Pages

\* A page before the end of the list is not empty.
LEMMA PageBeforeEnd ==
  ASSUME SiteOK, SizeOK, NEW p \in Nat \ {0}, NEW k \in Listing, (p - 1) * size < Rank(k)
  PROVE  Page(p) # {}
  <1>1. Listing \in SUBSET DOMAIN site /\ DOMAIN site \subseteq Nat /\ Listing \subseteq Nat
    BY DEF Listing, SiteOK
  <1>2. PICK M \in Nat : M = (p - 1) * size /\ M + 1 <= p * size
    <2>1. PICK s \in Nat \ {0} : s = size
      BY DEF SizeOK
    <2>2. (p - 1) * s \in Nat /\ p * s = (p - 1) * s + s
      OBVIOUS
    <2> QED
      BY <2>1, <2>2
  <1>3. \A j \in Listing : Rank(j) \in Nat
    BY RankType
  <1> DEFINE K == {j \in Listing : M < Rank(j)}
  <1>4. PICK l \in K : \A i \in K : l <= i
    <2>1. K \in SUBSET Nat /\ k \in K
      BY <1>1, <1>2
    <2> HIDE DEF K
    <2> QED
      BY <2>1, Least
  <1> DEFINE B == {j \in Listing : j < l}
  <1>5. l \in Listing /\ l \in Nat /\ M < Rank(l) /\ B \in SUBSET DOMAIN site /\ l \notin B
    BY <1>1, <1>4
  <1>6. IsFiniteSet(B) /\ Cardinality(B) \in Nat
    <2> HIDE DEF B
    <2> QED
      BY <1>5, PlacesAreFinite
  <1>7. Rank(l) = Cardinality(B) + 1
    <2>1. {j \in Listing : j <= l} = B \cup {l}
      BY <1>1, <1>5
    <2> HIDE DEF B
    <2>2. Cardinality(B \cup {l}) = Cardinality(B) + 1
      BY <1>5, <1>6, FS_AddElement
    <2> QED
      BY <2>1, <2>2, Zenon DEF Rank
  <1>8. Cardinality(B) <= M
    <2>1. CASE B = {}
      <3> HIDE DEF B
      <3>1. Cardinality(B) = 0
        BY <2>1, FS_EmptySet
      <3> QED
        BY <1>2, <3>1
    <2>2. CASE B # {}
      <3> DEFINE D == {d \in Nat : l - d \in B}
      <3>1. PICK b \in B : TRUE
        BY <2>2
      <3>2. PICK d \in D : \A i \in D : d <= i
        <4>1. b \in Nat /\ b < l
          BY <1>1, <3>1
        <4>2. l - b \in Nat /\ l - (l - b) = b
          BY <1>5, <4>1
        <4>3. D \in SUBSET Nat /\ l - b \in D
          BY <3>1, <4>2
        <4> HIDE DEF D
        <4> QED
          BY <4>3, Least
      <3>3. PICK j \in B : j = l - d
        BY <3>2
      <3>4. j \in Listing /\ j \in Nat /\ j < l
        BY <1>1, <3>3
      <3>5. ASSUME NEW i \in B PROVE i <= j
        <4>1. i \in Nat /\ i < l
          BY <1>1, <3>5
        <4>2. l - i \in Nat /\ l - (l - i) = i
          BY <1>5, <4>1
        <4>3. d <= l - i
          BY <3>2, <4>2
        <4> QED
          BY <1>5, <3>2, <3>3, <4>1, <4>3
      <3>6. {i \in Listing : i <= j} = B
        <4>1. ASSUME NEW i \in Listing, i <= j PROVE i \in B
          BY <1>1, <1>5, <3>4, <4>1
        <4>2. B \subseteq Listing
          OBVIOUS
        <4> HIDE DEF B
        <4> QED
          BY <3>5, <4>1, <4>2
      <3>7. Rank(j) <= M
        BY <1>2, <1>3, <1>4, <1>5, <3>4
      <3> QED
        BY <3>6, <3>7, Zenon DEF Rank
    <2> QED
      BY <2>1, <2>2
  <1>9. Rank(l) = M + 1
    BY <1>2, <1>5, <1>6, <1>7, <1>8
  <1>10. Rank(l) \in ((p - 1) * size + 1) .. (p * size)
    <2>1. PICK t \in Int : t = p * size /\ M + 1 <= t
      BY <1>2 DEF SizeOK
    <2> QED
      BY <1>2, <1>9, <2>1
  <1> QED
    BY <1>5, <1>10 DEF Page, Rank

\* Of each mark of a page an entry is requested, unless the mark was seen.
LEMMA FreshCovers ==
  ASSUME SiteOK, NEW page \in SUBSET DOMAIN site, NEW dedup \in BOOLEAN, NEW k \in page
  PROVE  Mark[site[k]] \in seenMarks \cup {Mark[e] : e \in Fresh(page, dedup)}
  <1>1. CASE ~dedup
    BY <1>1 DEF Fresh
  <1>2. CASE dedup /\ Mark[site[k]] \notin seenMarks
    <2> DEFINE K == {j \in page : Mark[site[j]] = Mark[site[k]]}
    <2>1. K \in SUBSET Nat /\ k \in K
      BY DEF SiteOK
    <2>2. PICK l \in K : \A i \in K : l <= i
      <3> HIDE DEF K
      <3> QED
        BY <2>1, Least
    <2>3. ASSUME NEW j \in page, j < l PROVE Mark[site[j]] # Mark[site[l]]
      BY <2>1, <2>2, <2>3
    <2>4. site[l] \in Fresh(page, dedup)
      BY <1>2, <2>2, <2>3 DEF Fresh
    <2> QED
      BY <2>2, <2>4
  <1> QED
    BY <1>1, <1>2

\* An entry that was listed when the run began and that is taken from a page it is on.
InYear(e) == e \in listed /\ (spider = "deal" => e \in Titled) /\ (Backfill => Day[e] # "old")

\* What of the list the marks m have not met yet is behind its first b places.
Behind(m, b) ==
    \A k \in DOMAIN site : InYear(site[k]) /\ Mark[site[k]] \notin m => k \in Listing /\ b < Rank(k)

ListOK == listed \subseteq {site[k] : k \in DOMAIN site}

\* Sites list the new before the old.
Sorted == \A j, k \in DOMAIN site : j < k /\ Day[site[j]] = "old" => Day[site[k]] # "new"

LEMMA InYearIsListed ==
  ASSUME NEW k \in DOMAIN site, InYear(site[k])
  PROVE  k \in Listing /\ InWindow(k)
  BY DEF Listing, InYear, InWindow

LEMMA WantedIsInYear ==
  ASSUME NEW e, Wanted(e)
  PROVE  InYear(e)
  BY DEF Wanted, InYear

\* If nothing is behind the end of the list, nothing is missed.
LEMMA AllMet ==
  ASSUME SiteOK, ListOK, NEW m, NEW b \in Nat, Behind(m, b), Cardinality(Listing) <= b
  PROVE  \A e \in Entry : Wanted(e) => Mark[e] \in m
  <1>1. SUFFICES ASSUME NEW e \in Entry, Wanted(e), Mark[e] \notin m PROVE FALSE
    OBVIOUS
  <1>2. PICK k \in DOMAIN site : site[k] = e
    BY <1>1 DEF ListOK, Wanted
  <1>3. k \in Listing /\ b < Rank(k)
    BY <1>1, <1>2, WantedIsInYear DEF Behind
  <1> QED
    BY <1>3, RankType

\* A page shown under its own number, or one that is beyond the last, meets what is
\* wanted of it, and leaves behind what comes after it.
LEMMA PageMeets ==
  ASSUME SiteOK, SizeOK, NEW p \in Nat \ {0}, Behind(seenMarks, (p - 1) * size),
         NEW s, s = p \/ Pages < p,
         NEW window \in SUBSET DOMAIN site,
         \A k \in Page(s) : InYear(site[k]) => k \in window,
         NEW dedup \in BOOLEAN
  PROVE  Behind(seenMarks \cup {Mark[e] : e \in Fresh(window, dedup)}, p * size)
  <1> DEFINE m == seenMarks \cup {Mark[e] : e \in Fresh(window, dedup)}
  <1>1. SUFFICES ASSUME NEW k \in DOMAIN site, InYear(site[k]), Mark[site[k]] \notin m
                 PROVE  k \in Listing /\ p * size < Rank(k)
    BY DEF Behind
  <1>2. k \in Listing /\ (p - 1) * size < Rank(k)
    BY <1>1 DEF Behind
  <1>3. /\ Rank(k) \in Nat /\ Rank(k) <= Cardinality(Listing) /\ Cardinality(Listing) \in Nat
        /\ Pages \in Nat /\ Cardinality(Listing) <= Pages * size
    BY <1>2, RankType, PagesSuffice
  <1>4. /\ size \in Nat /\ p * size \in Int /\ (p - 1) * size \in Int /\ Pages * size \in Int
    BY <1>3 DEF SizeOK
  <1>5. s = p
    <2>1. SUFFICES ASSUME Pages < p PROVE FALSE
      OBVIOUS
    <2>2. Pages <= p - 1 /\ p - 1 \in Int /\ Pages \in Int
      BY <1>3, <2>1
    <2>3. Pages * size <= (p - 1) * size
      BY <1>4, <2>2, Monotone
    <2> QED
      BY <1>2, <1>3, <1>4, <2>3
  <1>6. k \notin window
    BY <1>1, FreshCovers
  <1>7. k \notin Page(p)
    BY <1>1, <1>5, <1>6
  <1>8. Rank(k) \notin ((p - 1) * size + 1) .. (p * size)
    BY <1>2, <1>7 DEF Page, Rank
  <1>9. PICK a \in Int, b \in Int : a = (p - 1) * size /\ b = p * size
    BY <1>4
  <1> QED
    BY <1>2, <1>3, <1>8, <1>9

\* An empty page has nothing behind it.
LEMMA NothingBehindEmpty ==
  ASSUME SiteOK, SizeOK, ListOK, NEW p \in Nat \ {0}, NEW m, Behind(m, (p - 1) * size),
         NEW s, s = p \/ Pages < p, Page(s) = {}
  PROVE  \A e \in Entry : Wanted(e) => Mark[e] \in m
  <1>1. SUFFICES ASSUME NEW e \in Entry, Wanted(e), Mark[e] \notin m PROVE FALSE
    OBVIOUS
  <1>2. PICK k \in DOMAIN site : site[k] = e
    BY <1>1 DEF ListOK, Wanted
  <1>3. k \in Listing /\ (p - 1) * size < Rank(k)
    BY <1>1, <1>2, WantedIsInYear DEF Behind
  <1>4. /\ Rank(k) \in Nat /\ Rank(k) <= Cardinality(Listing) /\ Cardinality(Listing) \in Nat
        /\ Pages \in Nat /\ Cardinality(Listing) <= Pages * size
    BY <1>3, RankType, PagesSuffice
  <1>5. CASE s = p
    BY <1>3, <1>5, PageBeforeEnd
  <1>6. CASE Pages < p
    <2>1. Pages <= p - 1 /\ p - 1 \in Int /\ Pages \in Int /\ size \in Nat
      BY <1>4, <1>6 DEF SizeOK
    <2>2. /\ Pages * size <= (p - 1) * size
          /\ Pages * size \in Int /\ (p - 1) * size \in Int
      BY <2>1, Monotone
    <2> QED
      BY <1>3, <1>4, <2>2
  <1> QED
    BY <1>5, <1>6

\* Nor has a page of old entries anything new behind it.
LEMMA NothingBehindOld ==
  ASSUME SiteOK, SizeOK, ListOK, Sorted, NEW p \in Nat \ {0}, NEW m, Behind(m, (p - 1) * size),
         NEW s, s = p \/ (s \in Nat /\ s <= p /\ Pages < p), AllOlder(Page(s))
  PROVE  \A e \in Entry : Wanted(e) => Mark[e] \in m
  <1>1. SUFFICES ASSUME NEW e \in Entry, Wanted(e), Mark[e] \notin m PROVE FALSE
    OBVIOUS
  <1>2. PICK k \in DOMAIN site : site[k] = e
    BY <1>1 DEF ListOK, Wanted
  <1>3. k \in Listing /\ (p - 1) * size < Rank(k)
    BY <1>1, <1>2, WantedIsInYear DEF Behind
  <1>4. /\ Rank(k) \in Nat /\ Rank(k) <= Cardinality(Listing) /\ Cardinality(Listing) \in Nat
        /\ Pages \in Nat /\ Cardinality(Listing) <= Pages * size
    BY <1>3, RankType, PagesSuffice
  <1>5. CASE Pages < p
    <2>1. Pages <= p - 1 /\ p - 1 \in Int /\ Pages \in Int /\ size \in Nat
      BY <1>4, <1>5 DEF SizeOK
    <2>2. /\ Pages * size <= (p - 1) * size
          /\ Pages * size \in Int /\ (p - 1) * size \in Int
      BY <2>1, Monotone
    <2> QED
      BY <1>3, <1>4, <2>2
  <1>6. CASE s = p
    <2>1. PICK j \in Page(p) : Day[site[j]] = "old" /\ Backfill
      BY <1>6 DEF AllOlder
    <2>2. j \in Listing /\ Rank(j) \in ((p - 1) * size + 1) .. (p * size)
      BY <2>1 DEF Page, Rank
    <2>3. j \in Nat /\ k \in Nat /\ j \in DOMAIN site /\ Day[site[k]] = "new"
      BY <1>1, <1>2, <2>1, <2>2 DEF SiteOK, Listing, Wanted
    <2>4. k < j
      <3>1. ~(j < k) /\ j # k
        BY <1>2, <2>1, <2>3 DEF Sorted
      <3> QED
        BY <2>3, <3>1
    <2>5. Rank(k) <= Rank(j)
      BY <1>3, <2>2, <2>3, <2>4, RankType
    <2>6. PICK a \in Int, b \in Int : a = (p - 1) * size /\ b = p * size
      BY DEF SizeOK
    <2>7. Rank(k) \in ((p - 1) * size + 1) .. (p * size)
      BY <1>3, <1>4, <2>2, <2>5, <2>6
    <2>8. k \in Page(p)
      BY <1>3, <2>7 DEF Page, Rank
    <2> QED
      BY <1>6, <2>3, <2>8 DEF AllOlder
  <1> QED
    BY <1>5, <1>6

----------------------------------------------------------------------------
(* A walk *)

MeetInv ==
    /\ SizeOK /\ Sorted
    /\ spider = "deal" => quirk = "none"
    /\ list = [page |-> list.page, why |-> list.why] /\ list.page \in Nat
    /\ spider = "anhui" => list.page # 0
    /\ ~taken => ListOK /\ (list.why = Nil => Behind(seenMarks, (list.page - 1) * size))
    /\ NothingMissed

\* The history of the site and the bounds of the run stay.
SameSite == UNCHANGED <<spider, args, quirk, size, site, listed, taken>>

LEMMA SameSiteKeeps ==
  ASSUME SameSite
  PROVE  /\ SizeOK' <=> SizeOK
         /\ Sorted' <=> Sorted
         /\ ListOK' <=> ListOK
         /\ \A e : (Wanted(e)' <=> Wanted(e)) /\ (InYear(e)' <=> InYear(e))
         /\ \A m, b : Behind(m, b)' <=> Behind(m, b)
  <1>1. (SizeOK' <=> SizeOK) /\ (Sorted' <=> Sorted) /\ (ListOK' <=> ListOK)
    BY DEF SameSite, SizeOK, Sorted, ListOK
  <1>2. \A e : (Wanted(e)' <=> Wanted(e)) /\ (InYear(e)' <=> InYear(e))
    BY DEF SameSite, Wanted, InYear, Backfill
  <1>3. Listing' = Listing
    BY DEF SameSite, Listing, Backfill
  <1>4. \A k : Rank(k)' = Rank(k)
    BY <1>3, Zenon DEF Rank
  <1>5. \A m, b : Behind(m, b)' <=> Behind(m, b)
    BY <1>2, <1>3, <1>4 DEF SameSite, Behind
  <1> QED
    BY <1>1, <1>2, <1>5

LEMMA ShownNumber ==
  ASSUME SiteOK, SizeOK, NEW p \in Nat \ {0}
  PROVE  /\ Shown(p) = p \/ (Shown(p) = Pages /\ Pages < p)
         /\ Shown(p) \in Nat /\ Shown(p) <= p /\ Pages \in Nat
         /\ CurrentPage(p) \in Nat /\ CurrentPage(p) <= p
  <1>1. Pages \in Nat
    BY PagesSuffice
  <1>2. /\ Shown(p) = p \/ (Shown(p) = Pages /\ Pages < p)
        /\ Shown(p) \in Nat /\ Shown(p) <= p
    BY <1>1 DEF Shown
  <1> QED
    BY <1>1, <1>2 DEF CurrentPage

LEMMA NextNumber ==
  ASSUME SiteOK, SizeOK, NEW p \in Nat \ {0}, NEW pager \in Pager(Shown(p)),
         NEW next, next = NextPageNo(pager, CurrentPage(p))
  PROVE  /\ next = Nil => Pages <= p
         /\ next # Nil => next \in Nat \ {0} /\ next <= p + 1
  <1>1. PICK s, c, n : s = Shown(p) /\ c = CurrentPage(p) /\ n = Pages
    OBVIOUS
  <1>2. /\ s = p \/ (s = n /\ n < p)
        /\ s \in Nat /\ s <= p /\ n \in Nat /\ c \in Nat /\ c <= p
    BY <1>1, ShownNumber
  <1>3. pager \in {s + 1, 0, 1, Nil} /\ (pager = Nil => ~(s < n))
    <2>1. Nil \notin Int
      BY PagingAssumption
    <2> QED
      BY <1>1, <1>2, <2>1 DEF Pager
  <1>4. next = IF pager = Nil THEN Nil ELSE IF pager > c THEN pager ELSE c + 1
    BY <1>1 DEF NextPageNo
  <1>5. Nil \notin Int
    BY PagingAssumption
  <1>6. CASE pager = Nil
    BY <1>1, <1>2, <1>3, <1>4, <1>6
  <1>7. CASE pager # Nil
    <2>1. pager \in Nat /\ pager <= p + 1
      BY <1>2, <1>3, <1>7
    <2>2. next \in Nat \ {0} /\ next <= p + 1
      BY <1>2, <1>4, <1>7, <2>1
    <2> QED
      BY <1>5, <2>2
  <1> QED
    BY <1>6, <1>7

\* A walk that goes on, ends, or stays ended.
LEMMA WalkGoes ==
  ASSUME MeetInv, SameSite, list' = [page |-> list'.page, why |-> list'.why],
         list'.page \in Nat, spider = "anhui" => list'.page # 0,
         ~taken /\ list'.why = Nil => Behind(seenMarks', (list'.page - 1) * size'),
         ~taken /\ list'.why \in {"last", "empty", "boundary"} =>
            \A e \in Entry : Wanted(e) => Mark[e] \in seenMarks'
  PROVE  MeetInv'
  <1>1. /\ SizeOK' /\ Sorted' /\ (spider' = "deal" => quirk' = "none") /\ taken' = taken
        /\ spider' = spider /\ (ListOK' <=> ListOK)
    BY SameSiteKeeps DEF MeetInv, SameSite
  <1>2. ASSUME ~taken, list'.why = Nil PROVE Behind(seenMarks, (list.page - 1) * size)'
    <2>1. PICK m, b : m = seenMarks' /\ b = (list'.page - 1) * size'
      OBVIOUS
    <2>2. Behind(m, b)'
      BY <1>2, <2>1, SameSiteKeeps
    <2> QED
      BY <2>1, <2>2
  <1>3. NothingMissed'
    <2>1. \A e \in Entry : Wanted(e)' <=> Wanted(e)
      BY SameSiteKeeps
    <2> QED
      BY <1>1, <2>1 DEF NothingMissed, Missed
  <1> QED
    BY <1>1, <1>2, <1>3 DEF MeetInv

\* A list page that is not all old leaves what it has not met behind its places.
LEMMA ListPageLeaves ==
  ASSUME PagingInv, MeetInv, ListPage, ~taken, ~AllOlder(Page(Shown(list.page)))
  PROVE  Behind(seenMarks', list.page * size)
  <1>1. PICK p, s, page, window :
           /\ p = list.page /\ s = Shown(p) /\ page = Page(s)
           /\ window = {k \in page : InWindow(k)}
    OBVIOUS
  <1>2. /\ SiteOK /\ SizeOK /\ args.dedup \in BOOLEAN
        /\ p \in Nat \ {0} /\ Behind(seenMarks, (p - 1) * size)
    BY <1>1, PagingAssumption DEF PagingInv, SiteOK, MeetInv, ListPage
  <1>3. seenMarks' = seenMarks \cup {Mark[e] : e \in Fresh(window, args.dedup)}
    BY <1>1 DEF ListPage
  <1>4. page \in SUBSET DOMAIN site /\ window \in SUBSET DOMAIN site
    BY <1>1, <1>2, PlacesOfPage
  <1>5. \A k \in Page(s) : InYear(site[k]) => k \in window
    BY <1>1, <1>4, InYearIsListed
  <1>6. s = p \/ Pages < p
    BY <1>1, <1>2, ShownNumber
  <1>7. Behind(seenMarks \cup {Mark[e] : e \in Fresh(window, args.dedup)}, p * size)
    BY <1>2, <1>4, <1>5, <1>6, PageMeets
  <1> QED
    BY <1>1, <1>3, <1>7

LEMMA ListPageMeets ==
  ASSUME PagingInv, MeetInv, ListPage
  PROVE  MeetInv'
  <1>0. /\ SiteOK /\ SizeOK /\ spider = "anhui" /\ args.dedup \in BOOLEAN
        /\ list.page \in Nat \ {0} /\ list.why = Nil /\ size' = size
    BY PagingAssumption DEF PagingInv, SiteOK, MeetInv, ListPage, chosen
  <1>1. PICK p, s, page, window, fresh :
           /\ p = list.page /\ s = Shown(p) /\ page = Page(s)
           /\ window = IF AllOlder(page) THEN {} ELSE {k \in page : InWindow(k)}
           /\ fresh = Fresh(window, args.dedup)
    OBVIOUS
  <1>2. seenMarks' = seenMarks \cup {Mark[e] : e \in fresh} /\ SameSite
    BY <1>1 DEF ListPage, SameSite, chosen, history
  <1>2a. PICK pager \in Pager(s) :
           LET n == NextPageNo(pager, CurrentPage(p))
               w == StopReason(page, count', n)
           IN  list' = [page |-> IF w = Nil THEN n ELSE list.page, why |-> w]
    BY <1>1 DEF ListPage
  <1>3. PICK next, why :
           /\ next = NextPageNo(pager, CurrentPage(p))
           /\ why = StopReason(page, count', next)
           /\ list' = [page |-> IF why = Nil THEN next ELSE list.page, why |-> why]
    BY <1>2a
  <1>4. p \in Nat \ {0} /\ page \in SUBSET DOMAIN site /\ window \in SUBSET page
    BY <1>0, <1>1, PlacesOfPage
  <1>5. /\ s = p \/ (s = Pages /\ Pages < p)
        /\ s \in Nat /\ s <= p /\ Pages \in Nat
    BY <1>0, <1>1, <1>4, ShownNumber
  <1>6. /\ next = Nil => Pages <= p
        /\ next # Nil => next \in Nat \ {0} /\ next <= p + 1
    BY <1>0, <1>1, <1>3, <1>4, NextNumber
  <1>7. ASSUME ~taken, page = {} PROVE \A e \in Entry : Wanted(e) => Mark[e] \in seenMarks
    BY <1>0, <1>1, <1>4, <1>5, <1>7, NothingBehindEmpty DEF MeetInv
  <1>8. ASSUME ~taken, AllOlder(page)
        PROVE  \A e \in Entry : Wanted(e) => Mark[e] \in seenMarks
    BY <1>0, <1>1, <1>4, <1>5, <1>8, NothingBehindOld DEF MeetInv
  <1>9. ASSUME ~taken, ~AllOlder(page) PROVE Behind(seenMarks', p * size)
    BY <1>1, <1>9, ListPageLeaves
  <1>10. /\ why = "empty" => page = {}
         /\ why = "boundary" => AllOlder(page)
         /\ why = Nil => page # {} /\ ~AllOlder(page) /\ next # Nil
         /\ why = "last" => ~AllOlder(page) /\ next = Nil
    BY <1>3, PagingAssumption DEF StopReason, Why
  <1>11. ASSUME ~taken, why = Nil PROVE Behind(seenMarks', (list'.page - 1) * size')
    <2>1. next - 1 \in Int /\ next - 1 <= p /\ size \in Nat /\ p \in Int
      BY <1>4, <1>6, <1>10, <1>11, <1>0 DEF SizeOK
    <2>2. PICK a \in Int, b \in Int : a = (next - 1) * size /\ b = p * size
      BY <2>1
    <2>3. a <= b
      BY <2>1, <2>2, Monotone
    <2>4. Behind(seenMarks', b)
      BY <1>9, <1>10, <1>11, <2>2
    <2>5. Behind(seenMarks', a)
      <3>1. \A k \in Listing : Rank(k) \in Nat
        BY <1>0, RankType
      <3> QED
        BY <2>2, <2>3, <2>4, <3>1 DEF Behind
    <2> QED
      BY <1>0, <1>3, <1>11, <2>2, <2>5
  <1>12. ASSUME ~taken, why = "last"
         PROVE  \A e \in Entry : Wanted(e) => Mark[e] \in seenMarks'
    <2>1. Pages <= p /\ Pages \in Int /\ p \in Int /\ size \in Nat
      BY <1>0, <1>4, <1>5, <1>6, <1>10, <1>12 DEF SizeOK
    <2>2. Pages * size <= p * size /\ p * size \in Nat /\ Pages * size \in Nat
      BY <1>4, <1>5, <2>1, Monotone
    <2>3. Cardinality(Listing) <= p * size
      BY <1>0, <2>2, PagesSuffice
    <2>4. Behind(seenMarks', p * size) /\ ListOK
      BY <1>9, <1>10, <1>12 DEF MeetInv
    <2>5. PICK m : m = seenMarks'
      OBVIOUS
    <2> QED
      BY <1>0, <2>2, <2>3, <2>4, <2>5, AllMet
  <1>13. ASSUME ~taken, why \in {"last", "empty", "boundary"}
         PROVE  \A e \in Entry : Wanted(e) => Mark[e] \in seenMarks'
    BY <1>2, <1>7, <1>8, <1>10, <1>12, <1>13
  <1>14. /\ list'.why = why /\ list' = [page |-> list'.page, why |-> list'.why]
         /\ list'.page \in Nat /\ list'.page # 0
    BY <1>0, <1>3, <1>6, <1>10
  <1> QED
    BY <1>2, <1>11, <1>13, <1>14, WalkGoes

LEMMA DealPageMeets ==
  ASSUME PagingInv, MeetInv, DealPage
  PROVE  MeetInv'
  <1>0. /\ SiteOK /\ SizeOK /\ spider = "deal"
        /\ list.page \in Nat \ {0} /\ list.why = Nil /\ size' = size
    BY DEF PagingInv, MeetInv, DealPage, chosen
  <1>1. PICK p, page, records, fresh, why :
           /\ p = list.page /\ page = Page(p) /\ records = {k \in page : site[k] \in Titled}
           /\ fresh = Fresh(records, TRUE) /\ why = DealStop(p, Pages)
    OBVIOUS
  <1>2. /\ seenMarks' = seenMarks \cup {Mark[e] : e \in fresh} /\ SameSite
        /\ list' = [page |-> IF why = Nil THEN p + 1 ELSE p, why |-> why]
    BY <1>1 DEF DealPage, SameSite, chosen, history
  <1>3. /\ p \in Nat \ {0} /\ page \in SUBSET DOMAIN site /\ records \in SUBSET DOMAIN site
        /\ Pages \in Nat
    BY <1>0, <1>1, PlacesOfPage, PagesSuffice
  <1>4. ASSUME ~taken PROVE Behind(seenMarks', p * size)
    <2>1. Behind(seenMarks, (p - 1) * size)
      BY <1>0, <1>1, <1>4 DEF MeetInv
    <2>2. \A k \in Page(p) : InYear(site[k]) => k \in records
      BY <1>0, <1>1 DEF InYear
    <2>3. Behind(seenMarks \cup {Mark[e] : e \in Fresh(records, TRUE)}, p * size)
      BY <1>0, <1>1, <1>3, <2>1, <2>2, PageMeets
    <2> QED
      BY <1>1, <1>2, <2>3
  <1>5. /\ why \in {"limit", "last", Nil} /\ (why = "last" => Pages <= p)
    <2>1. Nil # "last"
      BY PagingAssumption DEF Why
    <2>2. /\ why \in {"limit", "last", Nil}
          /\ why = "last" => ~(Pages > 0 /\ p < Pages)
      BY <1>1, <2>1, Zenon DEF DealStop
    <2> QED
      BY <1>3, <2>2
  <1>6. ASSUME ~taken, why = "last"
        PROVE  \A e \in Entry : Wanted(e) => Mark[e] \in seenMarks'
    <2>1. Pages <= p /\ Pages \in Int /\ p \in Int /\ size \in Nat
      BY <1>0, <1>3, <1>5, <1>6 DEF SizeOK
    <2>2. Pages * size <= p * size /\ p * size \in Nat /\ Pages * size \in Nat
      BY <1>3, <2>1, Monotone
    <2>3. Cardinality(Listing) <= p * size
      BY <1>0, <2>2, PagesSuffice
    <2>4. Behind(seenMarks', p * size) /\ ListOK
      BY <1>4, <1>6 DEF MeetInv
    <2>5. PICK m : m = seenMarks'
      OBVIOUS
    <2> QED
      BY <1>0, <2>2, <2>3, <2>4, <2>5, AllMet
  <1>7. /\ list'.why = why /\ list' = [page |-> list'.page, why |-> list'.why]
        /\ list'.page \in Nat /\ (why = Nil => list'.page - 1 = p)
    BY <1>2, <1>3
  <1>8. ASSUME ~taken, why = Nil PROVE Behind(seenMarks', (list'.page - 1) * size')
    BY <1>0, <1>4, <1>7, <1>8
  <1>9. ASSUME ~taken, list'.why \in {"last", "empty", "boundary"}
        PROVE  \A e \in Entry : Wanted(e) => Mark[e] \in seenMarks'
    <2>1. Nil \notin Why
      BY PagingAssumption
    <2>2. why = "last"
      BY <1>5, <1>7, <1>9, <2>1 DEF Why
    <2> QED
      BY <1>6, <1>9, <2>2
  <1>10. ~taken /\ list'.why = Nil => Behind(seenMarks', (list'.page - 1) * size')
    BY <1>7, <1>8
  <1> QED
    BY <1>0, <1>2, <1>7, <1>9, <1>10, WalkGoes

LEMMA WalkStays ==
  ASSUME MeetInv, SameSite, UNCHANGED <<list, seenMarks>>
  PROVE  MeetInv'
  <1>1. ~taken /\ list'.why = Nil => Behind(seenMarks', (list'.page - 1) * size')
    BY DEF MeetInv, SameSite
  <1>2. ~taken /\ list'.why \in {"last", "empty", "boundary"} =>
            \A e \in Entry : Wanted(e) => Mark[e] \in seenMarks'
    BY DEF MeetInv, NothingMissed, Missed
  <1>3. list' = [page |-> list'.page, why |-> list'.why] /\ list'.page \in Nat
    BY DEF MeetInv
  <1>4. spider = "anhui" => list'.page # 0
    BY DEF MeetInv
  <1> QED
    BY <1>1, <1>2, <1>3, <1>4, WalkGoes

LEMMA OtherWalksMeet ==
  ASSUME PagingInv, MeetInv,
         \/ ListRepeated \/ Landing \/ DealRefused \/ ListUnreadable \/ ListFails
         \/ (\E e \in Entry : ChainStep(e) \/ ChainFails(e)) \/ UNCHANGED pagingVars
  PROVE  MeetInv'
  <1>1. SameSite /\ seenMarks' = seenMarks
    BY DEF SameSite, ListRepeated, Landing, DealRefused, ListUnreadable, ListFails, ChainStep,
           ChainFails, pagingVars, chosen, history
  <1>2. /\ list = [page |-> list.page, why |-> list.why] /\ list.page \in Nat
        /\ spider = "anhui" => list.page # 0
    BY DEF MeetInv
  <1>3. CASE Landing
    <2>1. /\ spider = "deal" /\ list.page = 0 /\ list.why = Nil
          /\ list' = [page |-> 1, why |-> Nil]
      BY <1>2, <1>3 DEF Landing
    <2>2. ASSUME ~taken PROVE Behind(seenMarks', (list'.page - 1) * size')
      <3>1. Behind(seenMarks, (0 - 1) * size) /\ size' = size
        BY <1>1, <2>1, <2>2 DEF MeetInv, SameSite
      <3>2. \A k \in Listing : 0 < Rank(k)
        <4>1. \A k \in Listing : Rank(k) \in 1 .. Cardinality(Listing)
          BY RankType DEF PagingInv
        <4> QED
          BY <4>1
      <3>3. (list'.page - 1) * size' = 0
        BY <2>1, <3>1 DEF MeetInv, SizeOK
      <3> QED
        BY <1>1, <3>1, <3>2, <3>3 DEF Behind
    <2>3. Nil \notin {"last", "empty", "boundary"}
      BY PagingAssumption DEF Why
    <2> QED
      BY <1>1, <2>1, <2>2, <2>3, WalkGoes
  <1>4. CASE ListRepeated \/ DealRefused \/ ListUnreadable \/ ListFails
    <2>1. PICK why \in {"repeated", "failed"} : list' = [list EXCEPT !.why = why]
      BY <1>4 DEF ListRepeated, DealRefused, ListUnreadable, ListFails
    <2>2. list' = [page |-> list.page, why |-> why]
      BY <1>2, <2>1
    <2>3. why # Nil
      BY PagingAssumption DEF Why
    <2>4. /\ list'.why \notin {Nil, "last", "empty", "boundary"} /\ list'.page = list.page
          /\ list' = [page |-> list'.page, why |-> list'.why]
      BY <2>2, <2>3
    <2> QED
      BY <1>1, <1>2, <2>4, WalkGoes
  <1>5. CASE (\E e \in Entry : ChainStep(e) \/ ChainFails(e)) \/ UNCHANGED pagingVars
    <2>1. list' = list
      BY <1>5 DEF ChainStep, ChainFails, pagingVars
    <2> QED
      BY <1>1, <2>1, WalkStays
  <1> QED
    BY <1>3, <1>4, <1>5

LEMMA RerunMeets ==
  ASSUME PagingInv, MeetInv, Rerun
  PROVE  MeetInv'
  <1>1. /\ UNCHANGED <<spider, args, quirk, size, site>> /\ taken' = FALSE
        /\ seenMarks' = {} /\ list' = Begin(spider) /\ listed' = Range(site)
    BY DEF Rerun, chosen
  <1>2. SizeOK' /\ Sorted' /\ (spider' = "deal" => quirk' = "none") /\ ListOK'
    BY <1>1 DEF MeetInv, SizeOK, Sorted, ListOK, Range
  <1>3. /\ list' = [page |-> list'.page, why |-> list'.why] /\ list'.page \in {0, 1}
        /\ spider' = "anhui" => list'.page # 0
        /\ list'.why = Nil
    BY <1>1 DEF Begin
  <1>4. Behind(seenMarks, (list.page - 1) * size)'
    <2>1. PICK b : b = (list'.page - 1) * size'
      OBVIOUS
    <2>2. b \in Int /\ b <= 0
      <3>1. PICK s \in Nat : s = size'
        BY <1>1 DEF MeetInv, SizeOK
      <3> QED
        BY <1>3, <2>1, <3>1
    <2>3. Listing' = Listing
      BY <1>1 DEF Listing, Backfill
    <2>4. \A k \in Listing : Rank(k)' \in Nat /\ b < Rank(k)'
      <3>1. \A k \in Listing : Rank(k) \in 1 .. Cardinality(Listing) /\ Cardinality(Listing) \in Nat
        BY RankType DEF PagingInv
      <3>2. \A k : Rank(k)' = Rank(k)
        BY <2>3, Zenon DEF Rank
      <3> QED
        BY <2>2, <3>1, <3>2
    <2>5. \A k \in DOMAIN site : InYear(site[k])' => k \in Listing
      BY <1>1 DEF InYear, Listing, Backfill
    <2> QED
      BY <1>1, <2>1, <2>3, <2>4, <2>5 DEF Behind
  <1>5. NothingMissed'
    BY <1>3, PagingAssumption DEF NothingMissed, Why
  <1> QED
    BY <1>1, <1>2, <1>3, <1>4, <1>5 DEF MeetInv

\* What was taken from a list leaves the others in their order.
LEMMA Shifted ==
  ASSUME NEW s \in Seq(Entry), NEW i \in DOMAIN s, NEW t, t = RemoveAt(s, i)
  PROVE  \A j \in DOMAIN t :
            (j < i /\ j \in DOMAIN s /\ t[j] = s[j]) \/ (i <= j /\ j + 1 \in DOMAIN s /\ t[j] = s[j + 1])
  <1>1. PICK n \in Nat : n = Len(s) /\ DOMAIN s = 1 .. n /\ i \in 1 .. n
    OBVIOUS
  <1>2. PICK l, r : l = SubSeq(s, 1, i - 1) /\ r = SubSeq(s, i + 1, n)
    OBVIOUS
  <1>3. /\ l \in Seq(Entry) /\ r \in Seq(Entry) /\ Len(l) = i - 1 /\ Len(r) = n - i
        /\ \A j \in 1 .. i - 1 : l[j] = s[j]
        /\ \A j \in 1 .. n - i : r[j] = s[i + j]
    BY <1>1, <1>2, SMTT(30)
  <1>4. t = l \o r
    BY <1>1, <1>2 DEF RemoveAt
  <1>5. /\ t \in Seq(Entry) /\ Len(t) = n - 1
        /\ \A j \in 1 .. n - 1 : t[j] = IF j <= i - 1 THEN l[j] ELSE r[j - (i - 1)]
    <2>1. /\ l \o r \in Seq(Entry) /\ Len(l \o r) = Len(l) + Len(r)
          /\ \A j \in 1 .. Len(l) + Len(r) :
                (l \o r)[j] = IF j <= Len(l) THEN l[j] ELSE r[j - Len(l)]
      BY <1>3, ConcatProperties
    <2>2. Len(l) + Len(r) = n - 1
      <3>1. PICK a, b : a = Len(l) /\ b = Len(r)
        OBVIOUS
      <3>2. i \in Int /\ n \in Int /\ a = i - 1 /\ b = n - i
        BY <1>1, <1>3, <3>1
      <3>3. a + b = n - 1
        BY <3>2
      <3> QED
        BY <3>1, <3>3
    <2>3. ASSUME NEW j \in 1 .. n - 1
          PROVE  t[j] = IF j <= i - 1 THEN l[j] ELSE r[j - (i - 1)]
      <3>1. PICK k : k = Len(l)
        OBVIOUS
      <3>2. t[j] = IF j <= k THEN l[j] ELSE r[j - k]
        BY <1>4, <2>1, <2>2, <2>3, <3>1
      <3> QED
        BY <1>3, <3>1, <3>2
    <2>4. t \in Seq(Entry) /\ Len(t) = n - 1
      BY <1>4, <2>1, <2>2
    <2> QED
      BY <2>3, <2>4
  <1>6. ASSUME NEW j \in 1 .. n - 1, j < i PROVE j \in 1 .. n /\ t[j] = s[j]
    <2>1. j <= i - 1 /\ j \in 1 .. i - 1 /\ j \in 1 .. n
      BY <1>1, <1>6
    <2> QED
      BY <1>3, <1>5, <2>1
  <1>7. ASSUME NEW j \in 1 .. n - 1, i <= j PROVE j + 1 \in 1 .. n /\ t[j] = s[j + 1]
    <2>1. /\ ~(j <= i - 1) /\ j - (i - 1) \in 1 .. n - i /\ i + (j - (i - 1)) = j + 1
          /\ j + 1 \in 1 .. n
      BY <1>1, <1>7
    <2> QED
      BY <1>3, <1>5, <2>1
  <1>8. DOMAIN t = 1 .. n - 1 /\ \A j \in 1 .. n - 1 : j < i \/ i <= j
    BY <1>1, <1>5
  <1> QED
    BY <1>1, <1>6, <1>7, <1>8

LEMMA WithdrawMeets ==
  ASSUME PagingInv, MeetInv, NEW e \in Entry, Withdraw(e)
  PROVE  MeetInv'
  <1>1. PICK i \in DOMAIN site : site' = RemoveAt(site, i)
    BY DEF Withdraw
  <1>2. /\ UNCHANGED <<spider, args, quirk, size, list, seenMarks>> /\ taken' = TRUE
    BY DEF Withdraw, chosen
  <1>3. Sorted'
    <2>1. site \in Seq(Entry) /\ site' \in Seq(Entry)
      BY <1>1 DEF PagingInv, SiteOK, RemoveAt
    <2>2. \A j \in DOMAIN site' :
             \/ j < i /\ j \in DOMAIN site /\ site'[j] = site[j]
             \/ i <= j /\ j + 1 \in DOMAIN site /\ site'[j] = site[j + 1]
      BY <1>1, <2>1, Shifted
    <2>3. ASSUME NEW j \in DOMAIN site', NEW k \in DOMAIN site', j < k
          PROVE  \E x, y \in DOMAIN site : x < y /\ site'[j] = site[x] /\ site'[k] = site[y]
      <3>1. j \in Nat /\ k \in Nat /\ i \in Nat
        BY <2>1
      <3>2. j < j + 1 /\ k < k + 1 /\ j < k + 1 /\ j + 1 < k + 1 /\ (i <= j => i <= k)
        BY <2>3, <3>1
      <3> QED
        BY <2>2, <2>3, <3>1, <3>2
    <2> QED
      BY <2>3 DEF MeetInv, Sorted
  <1> QED
    BY <1>2, <1>3 DEF MeetInv, SizeOK, NothingMissed

\* What is added at the head pushes the others back, in the days asked for too.
LEMMA PublishMeets ==
  ASSUME PagingInv, MeetInv, NEW e \in Entry, Publish(e)
  PROVE  MeetInv'
  <1>0. site \in Seq(Entry) /\ SiteOK
    BY DEF PagingInv, SiteOK
  <1>1. /\ UNCHANGED <<spider, args, quirk, size, list, seenMarks, listed, taken>>
        /\ site' = <<e>> \o site /\ Day[e] = "new" /\ e \notin Range(site)
    BY DEF Publish, chosen
  <1>2. PICK n \in Nat : n = Len(site) /\ DOMAIN site = 1 .. n
    BY <1>0
  <1>3. /\ DOMAIN site' = 1 .. n + 1 /\ site'[1] = e
        /\ \A k \in 1 .. n : site'[k + 1] = site[k]
    BY <1>0, <1>1, <1>2
  <1>4. \A k \in DOMAIN site' : k = 1 \/ (k - 1 \in DOMAIN site /\ site'[k] = site[k - 1])
    <2>1. ASSUME NEW k \in 1 .. n + 1, k # 1 PROVE k - 1 \in 1 .. n /\ (k - 1) + 1 = k
      BY <2>1
    <2>2. ASSUME NEW k \in 1 .. n + 1, k # 1 PROVE site'[k] = site[k - 1]
      BY <1>3, <2>1, <2>2
    <2> QED
      BY <1>2, <1>3, <2>1, <2>2
  <1>5. Sorted'
    <2>1. SUFFICES ASSUME NEW j \in DOMAIN site', NEW k \in DOMAIN site', j < k,
                          Day[site'[j]] = "old"
                   PROVE  Day[site'[k]] # "new"
      BY DEF Sorted
    <2>2. j # 1
      BY <1>1, <1>3, <2>1
    <2>3. k # 1 /\ j - 1 < k - 1
      BY <1>3, <2>1, <2>2
    <2>4. /\ j - 1 \in DOMAIN site /\ k - 1 \in DOMAIN site
          /\ site'[j] = site[j - 1] /\ site'[k] = site[k - 1]
      BY <1>4, <2>2, <2>3
    <2> QED
      BY <2>1, <2>3, <2>4 DEF MeetInv, Sorted
  <1>6. ListOK => ListOK'
    <2>1. ASSUME NEW k \in DOMAIN site PROVE site[k] \in {site'[i] : i \in DOMAIN site'}
      <3>1. k + 1 \in DOMAIN site' /\ site'[k + 1] = site[k]
        BY <1>2, <1>3
      <3> QED
        BY <3>1
    <2> QED
      BY <1>1, <2>1 DEF ListOK
  <1>7. ASSUME NEW k \in Listing PROVE k + 1 \in Listing' /\ Rank(k) <= Rank(k + 1)'
    <2>1. /\ Listing \in SUBSET DOMAIN site /\ Listing' \in SUBSET DOMAIN site'
          /\ \A j \in Listing : j + 1 \in Listing'
      <3>1. Listing \in SUBSET DOMAIN site /\ Listing' \in SUBSET DOMAIN site'
        BY DEF Listing
      <3>2. ASSUME NEW j \in Listing PROVE j + 1 \in Listing'
        <4>1. j \in 1 .. n /\ (spider = "deal" /\ Backfill => Day[site[j]] # "old")
          BY <1>2 DEF Listing
        <4>2. j + 1 \in DOMAIN site' /\ site'[j + 1] = site[j]
          BY <1>3, <4>1
        <4>3. Backfill' = Backfill /\ spider' = spider
          BY <1>1 DEF Backfill
        <4> QED
          BY <4>1, <4>2, <4>3 DEF Listing
      <3> QED
        BY <3>1, <3>2
    <2>2. PICK S, T : S = {j \in Listing : j <= k} /\ T = {j \in Listing' : j <= k + 1}
      OBVIOUS
    <2>3. IsFiniteSet(T) /\ IsFiniteSet(S)
      <3>1. IsFiniteSet(DOMAIN site') /\ IsFiniteSet(DOMAIN site)
        BY <1>2, <1>3, FS_Interval
      <3>2. T \in SUBSET DOMAIN site' /\ S \in SUBSET DOMAIN site
        BY <2>1, <2>2
      <3> QED
        BY <3>1, <3>2, FS_Subset
    <2>4. PICK f : f = [j \in S |-> j + 1]
      OBVIOUS
    <2>5. f \in Injection(S, T)
      <3>1. ASSUME NEW j \in S PROVE j \in Int /\ j + 1 \in T
        BY <1>2, <2>1, <2>2
      <3> QED
        BY <2>4, <3>1 DEF Injection, IsInjective
    <2>6. Cardinality(S) <= Cardinality(T)
      BY <2>3, <2>5, FS_Injection
    <2> QED
      BY <2>1, <2>2, <2>6, Zenon DEF Rank
  <1>8. ASSUME NEW m, NEW b \in Int, ListOK, Behind(m, b) PROVE Behind(m, b)'
    <2>1. SUFFICES ASSUME NEW k \in DOMAIN site', InYear(site[k])', Mark[site'[k]] \notin m
                   PROVE  k \in Listing' /\ b < Rank(k)'
      BY DEF Behind
    <2>2. PICK x : x = site'[k] /\ InYear(x)
      BY <1>1, <2>1 DEF InYear, Backfill
    <2>3. k # 1
      <3>1. SUFFICES ASSUME k = 1 PROVE FALSE
        OBVIOUS
      <3>2. InYear(e)
        BY <1>3, <2>1, <2>2, <3>1
      <3> QED
        BY <1>0, <1>1, <1>8, <3>2 DEF InYear, ListOK, Range
    <2>4. k - 1 \in DOMAIN site /\ site'[k] = site[k - 1] /\ k \in Int /\ k = (k - 1) + 1
      BY <1>3, <1>4, <2>3
    <2>5. k - 1 \in Listing /\ b < Rank(k - 1)
      BY <1>8, <2>1, <2>2, <2>4 DEF Behind
    <2>6. PICK j : j = k - 1 /\ j + 1 = k
      BY <2>4
    <2>7. k \in Listing' /\ Rank(j) <= Rank(k)'
      BY <1>7, <2>5, <2>6
    <2>8. Rank(j) \in Int /\ Rank(k)' \in Int
      <3>1. Rank(j) \in Int
        BY <1>0, <2>5, <2>6, RankType
      <3>2. IsFiniteSet({i \in Listing' : i <= k})
        <4>1. IsFiniteSet(DOMAIN site')
          BY <1>3, FS_Interval
        <4>2. {i \in Listing' : i <= k} \in SUBSET DOMAIN site'
          BY DEF Listing
        <4> QED
          BY <4>1, <4>2, FS_Subset
      <3>3. Cardinality({i \in Listing' : i <= k}) \in Nat
        BY <3>2, FS_CardinalityType
      <3> QED
        BY <3>1, <3>3 DEF Rank
    <2> QED
      BY <2>5, <2>6, <2>7, <2>8
  <1>9. ASSUME ~taken, list.why = Nil PROVE Behind(seenMarks, (list.page - 1) * size)'
    <2>1. PICK m, b : m = seenMarks /\ b = (list.page - 1) * size /\ b \in Int
      BY DEF MeetInv, SizeOK
    <2>2. ListOK /\ Behind(m, b)
      BY <1>9, <2>1 DEF MeetInv
    <2>3. Behind(m, b)'
      BY <1>8, <2>1, <2>2
    <2> QED
      BY <1>1, <2>1, <2>3
  <1>10. NothingMissed'
    BY <1>1 DEF MeetInv, NothingMissed, Missed, Wanted, Backfill
  <1> QED
    BY <1>1, <1>5, <1>6, <1>9, <1>10 DEF MeetInv, SizeOK

LEMMA MeetInit == Init => MeetInv
  <1> SUFFICES ASSUME Init PROVE MeetInv
    OBVIOUS
  <1>1. SiteOK /\ SizeOK /\ site \in Listings
    BY PagingAssumption DEF Init, SiteOK, SizeOK, Range
  <1>2. Sorted
    BY <1>1, PagingAssumption DEF Sorted
  <1>3. ListOK
    BY DEF Init, ListOK, Range
  <1>4. /\ list = [page |-> list.page, why |-> list.why] /\ list.page \in {0, 1}
        /\ spider = "anhui" => list.page # 0
        /\ list.why = Nil /\ (spider = "deal" => quirk = "none")
    BY DEF Init, Begin
  <1>5. Behind(seenMarks, (list.page - 1) * size)
    <2>1. PICK b : b = (list.page - 1) * size
      OBVIOUS
    <2>2. b \in Int /\ b <= 0
      <3>1. PICK s \in Nat : s = size
        BY <1>1 DEF SizeOK
      <3> QED
        BY <1>4, <2>1, <3>1
    <2>3. \A k \in Listing : b < Rank(k)
      <3>1. \A k \in Listing : Rank(k) \in 1 .. Cardinality(Listing) /\ Cardinality(Listing) \in Nat
        BY <1>1, RankType
      <3> QED
        BY <2>2, <3>1
    <2> QED
      BY <2>1, <2>3, InYearIsListed DEF Behind
  <1>6. NothingMissed
    BY <1>4, PagingAssumption DEF NothingMissed, Why
  <1> QED
    BY <1>1, <1>2, <1>3, <1>4, <1>5, <1>6 DEF MeetInv

LEMMA MeetInvariant == Spec => []MeetInv
  <1>1. PagingInv /\ MeetInv /\ [Next]_pagingVars => MeetInv'
    BY ListPageMeets, DealPageMeets, OtherWalksMeet, RerunMeets, PublishMeets, WithdrawMeets
       DEF Next, ListStep
  <1> QED
    BY PagingInvariant, MeetInit, <1>1, PTL DEF Spec

----------------------------------------------------------------------------
(* Giving up.  While something is missed every page so far was full, so    *)
(* the pages without news showed as many entries again as they have        *)
(* places; and what a page shows without news is stale: an entry added     *)
(* since, or pushed back by one, an old one, or a twin.                    *)

SeenOK == IsFiniteSet(seenMarks) /\ Cardinality(seenMarks) <= count.unique

\* What the site lists that it did not list when the run began.
Newer == {site[k] : k \in DOMAIN site} \ listed

GrownOK ==
    /\ \A j, k \in DOMAIN site : site[j] = site[k] => j = k
    /\ IsFiniteSet(listed) /\ listed \subseteq Entry /\ added \in Nat
    /\ ~taken => Cardinality(Newer) <= added

FullPages ==
    spider = "anhui" =>
        /\ quirk = "nameless" /\ list.page # 1 => 1 \in seenPages
        /\ ~taken /\ list.why = Nil /\ Missed # {} =>
              /\ count.seen = (list.page - 1) * size
              /\ count.idle * size <= count.seen - count.unique

IdleInv == SeenOK /\ GrownOK /\ FullPages /\ GivesUpAmongStale

\* What the site lists is finite.
LEMMA EntriesAreFinite ==
  ASSUME site \in Seq(Entry)
  PROVE  /\ IsFiniteSet(Newer)
         /\ Range(site) \subseteq Entry /\ IsFiniteSet(Range(site))
  <1>1. PICK S, g : S = {site[k] : k \in DOMAIN site} /\ g = [k \in DOMAIN site |-> site[k]]
    OBVIOUS
  <1>2. g \in Surjection(DOMAIN site, S)
    BY <1>1 DEF Surjection
  <1>3. IsFiniteSet(DOMAIN site)
    <2>1. DOMAIN site = 1 .. Len(site) /\ Len(site) \in Nat
      OBVIOUS
    <2> QED
      BY <2>1, FS_Interval
  <1>4. IsFiniteSet(S)
    BY <1>2, <1>3, FS_Surjection
  <1>5. Range(site) = S /\ S \subseteq Entry
    BY <1>1 DEF Range
  <1> QED
    BY <1>1, <1>4, <1>5, FS_Difference DEF Newer

\* Sets together have at most as many members as each for itself.
LEMMA UnionBound ==
  ASSUME NEW S, NEW T, IsFiniteSet(S), IsFiniteSet(T)
  PROVE  /\ IsFiniteSet(S \cup T) /\ Cardinality(S \cup T) \in Nat
         /\ Cardinality(S) \in Nat /\ Cardinality(T) \in Nat
         /\ Cardinality(S \cup T) <= Cardinality(S) + Cardinality(T)
  <1>1. IsFiniteSet(S \cap T)
    BY FS_Intersection
  <1>2. /\ IsFiniteSet(S \cup T)
        /\ Cardinality(S \cup T) = Cardinality(S) + Cardinality(T) - Cardinality(S \cap T)
    BY FS_Union, Zenon
  <1>3. /\ Cardinality(S \cap T) \in Nat /\ Cardinality(S \cup T) \in Nat
        /\ Cardinality(S) \in Nat /\ Cardinality(T) \in Nat
    BY <1>1, <1>2, FS_CardinalityType
  <1> QED
    BY <1>2, <1>3

\* Entries have at most as many marks, and one less for every twin.
LEMMA MarksOf ==
  ASSUME NEW S, IsFiniteSet(S)
  PROVE  LET marks == {Mark[e] : e \in S} IN
         /\ IsFiniteSet(marks) /\ Cardinality(marks) \in Nat /\ Cardinality(S) \in Nat
         /\ Cardinality(marks) <= Cardinality(S)
  <1>1. PICK f, M : f = [e \in S |-> Mark[e]] /\ M = {Mark[e] : e \in S}
    OBVIOUS
  <1>2. f \in Surjection(S, M)
    BY <1>1 DEF Surjection
  <1>3. IsFiniteSet(M) /\ Cardinality(M) <= Cardinality(S)
    BY <1>2, FS_Surjection
  <1> QED
    BY <1>1, <1>3, FS_CardinalityType

LEMMA TwinsOf ==
  ASSUME NEW T, IsFiniteSet(T), NEW S \in SUBSET T
  PROVE  Cardinality(S) + Cardinality({Mark[e] : e \in T})
            <= Cardinality({Mark[e] : e \in S}) + Cardinality(T)
  <1>1. PICK R : R = T \ S
    OBVIOUS
  <1>2. /\ IsFiniteSet(S) /\ IsFiniteSet(R) /\ S \cap R = {} /\ S \cup R = T
    BY <1>1, FS_Subset
  <1>3. Cardinality(T) = Cardinality(S) + Cardinality(R)
    BY <1>2, DisjointUnion
  <1>4. PICK ms, mr, mt : /\ ms = {Mark[e] : e \in S} /\ mr = {Mark[e] : e \in R}
                          /\ mt = {Mark[e] : e \in T}
    OBVIOUS
  <1>5. /\ IsFiniteSet(ms) /\ IsFiniteSet(mr)
        /\ Cardinality(mr) <= Cardinality(R) /\ Cardinality(R) \in Nat /\ Cardinality(S) \in Nat
    BY <1>2, <1>4, MarksOf
  <1>6. mt = ms \cup mr
    BY <1>2, <1>4
  <1>7. /\ Cardinality(mt) <= Cardinality(ms) + Cardinality(mr)
        /\ Cardinality(mt) \in Nat /\ Cardinality(ms) \in Nat /\ Cardinality(mr) \in Nat
    BY <1>5, <1>6, UnionBound
  <1> QED
    BY <1>3, <1>4, <1>5, <1>7

\* The entries that are requested are not more than the places of the page.
LEMMA FreshAtMost ==
  ASSUME SiteOK, NEW page \in SUBSET DOMAIN site, NEW dedup \in BOOLEAN
  PROVE  Cardinality(Fresh(page, dedup)) <= Cardinality(page)
  <1>1. PICK K : K = {k \in page : dedup => /\ Mark[site[k]] \notin seenMarks
                                            /\ \A j \in page : j < k => Mark[site[j]] # Mark[site[k]]}
    OBVIOUS
  <1>2. PICK F : F = Fresh(page, dedup)
    OBVIOUS
  <1>3. F = {site[k] : k \in K}
    BY <1>1, <1>2 DEF Fresh
  <1>4. K \in SUBSET page /\ IsFiniteSet(K) /\ IsFiniteSet(page) /\ Cardinality(K) <= Cardinality(page)
    BY <1>1, PlacesAreFinite
  <1>5. PICK f : f = [k \in K |-> site[k]]
    OBVIOUS
  <1>6. f \in Surjection(K, F)
    BY <1>3, <1>5 DEF Surjection
  <1>7. IsFiniteSet(F) /\ Cardinality(F) <= Cardinality(K)
    BY <1>4, <1>6, FS_Surjection
  <1>8. Cardinality(F) \in Nat /\ Cardinality(K) \in Nat /\ Cardinality(page) \in Nat
    BY <1>4, <1>7, FS_CardinalityType
  <1> QED
    BY <1>2, <1>4, <1>7, <1>8

\* Where the whole list is shown a place has its own number.
LEMMA RankOfPlace ==
  ASSUME SiteOK, Listing = DOMAIN site, NEW k \in DOMAIN site
  PROVE  Rank(k) = k
  <1>1. PICK n \in Nat : DOMAIN site = 1 .. n
    BY DEF SiteOK
  <1>2. k \in 1 .. n /\ {j \in Listing : j <= k} = 1 .. k
    BY <1>1
  <1>3. k \in Int /\ ~(1 > k) /\ Cardinality(1 .. k) = IF 1 > k THEN 0 ELSE k - 1 + 1
    BY <1>2, FS_Interval
  <1>4. Cardinality(1 .. k) = k
    BY <1>3
  <1> QED
    BY <1>2, <1>4, Zenon DEF Rank

\* Of the first b places of the list all but the stale ones have been met, if nothing
\* but what is behind them has not.
LEMMA PlacesMet ==
  ASSUME SiteOK, GrownOK, ~taken, spider = "anhui", Listing = DOMAIN site,
         NEW m, IsFiniteSet(m), NEW b \in Nat, b <= Len(site), Behind(m, b)
  PROVE  Stale \in Int /\ b <= Stale + Cardinality(m)
  <1>1. PICK n \in Nat : n = Len(site) /\ DOMAIN site = 1 .. n
    BY DEF SiteOK
  <1>2. PICK E, O, X, f :
           /\ E = {site[k] : k \in 1 .. b}
           /\ O = {e \in listed : Backfill /\ Day[e] = "old"}
           /\ X = {e \in E : InYear(e)}
           /\ f = [k \in 1 .. b |-> site[k]]
    OBVIOUS
  <1>3. 1 .. b \in SUBSET DOMAIN site
    BY <1>1
  <1>4. IsFiniteSet(E) /\ Cardinality(E) = b
    <2>1. f \in Bijection(1 .. b, E)
      BY <1>2, <1>3 DEF GrownOK, Bijection, Injection, Surjection, IsInjective
    <2>2. IsFiniteSet(1 .. b) /\ Cardinality(1 .. b) = b
      BY FS_Interval
    <2> QED
      BY <2>1, <2>2, FS_Bijection DEF ExistsBijection
  <1>5. IsFiniteSet(Newer) /\ Cardinality(Newer) <= added /\ added \in Nat
    <2>1. IsFiniteSet(Newer)
      BY EntriesAreFinite DEF SiteOK
    <2> QED
      BY <2>1 DEF GrownOK
  <1>6. /\ IsFiniteSet(listed) /\ O \in SUBSET listed /\ IsFiniteSet(O)
        /\ X \in SUBSET listed /\ IsFiniteSet(X)
    BY <1>2, FS_Subset DEF GrownOK, InYear
  <1>7. E \subseteq (Newer \cup O) \cup X
    <2>1. SUFFICES ASSUME NEW e \in E, e \in listed, e \notin O PROVE InYear(e)
      BY <1>2, <1>3 DEF Newer
    <2> QED
      BY <1>2, <2>1 DEF InYear
  <1>8. b <= Cardinality(Newer) + Cardinality(O) + Cardinality(X)
    <2>1. PICK u, v : u = Newer \cup O /\ v = u \cup X
      OBVIOUS
    <2>2. /\ IsFiniteSet(u) /\ Cardinality(u) \in Nat
          /\ Cardinality(Newer) \in Nat /\ Cardinality(O) \in Nat
          /\ Cardinality(u) <= Cardinality(Newer) + Cardinality(O)
      BY <1>5, <1>6, <2>1, UnionBound
    <2>3. /\ IsFiniteSet(v) /\ Cardinality(v) \in Nat /\ Cardinality(X) \in Nat
          /\ Cardinality(v) <= Cardinality(u) + Cardinality(X)
      BY <1>6, <2>1, <2>2, UnionBound
    <2>4. Cardinality(E) <= Cardinality(v)
      BY <1>7, <2>1, <2>3, FS_Subset
    <2> QED
      BY <1>4, <2>2, <2>3, <2>4
  <1>9. PICK mx, ml : mx = {Mark[e] : e \in X} /\ ml = {Mark[e] : e \in listed}
    OBVIOUS
  <1>10. Cardinality(X) + Cardinality(ml) <= Cardinality(mx) + Cardinality(listed)
    BY <1>6, <1>9, TwinsOf
  <1>11. mx \subseteq m
    <2>1. ASSUME NEW k \in 1 .. b, InYear(site[k]) PROVE Mark[site[k]] \in m
      <3>1. k \in DOMAIN site /\ Rank(k) = k /\ k \in Int /\ k <= b
        BY <1>3, RankOfPlace
      <3> QED
        BY <2>1, <3>1 DEF Behind
    <2> QED
      BY <1>2, <1>9, <2>1
  <1>12. Cardinality(mx) <= Cardinality(m) /\ Cardinality(m) \in Nat
    BY <1>11, FS_Subset, FS_CardinalityType
  <1>13. /\ Cardinality(mx) \in Nat /\ Cardinality(ml) \in Nat /\ Cardinality(O) \in Nat
         /\ Cardinality(X) \in Nat /\ Cardinality(listed) \in Nat /\ Cardinality(Newer) \in Nat
    BY <1>5, <1>6, <1>9, MarksOf, FS_CardinalityType
  <1>14. Stale = added + Cardinality(O) + Cardinality(listed) - Cardinality(ml)
    BY <1>2, <1>9, Zenon DEF Stale
  <1>15. PICK o, x, l, w, cx, cl, cm :
           /\ o = Cardinality(O) /\ x = Cardinality(X) /\ l = Cardinality(listed)
           /\ w = Cardinality(Newer) /\ cx = Cardinality(mx) /\ cl = Cardinality(ml)
           /\ cm = Cardinality(m)
    OBVIOUS
  <1>16. /\ o \in Nat /\ x \in Nat /\ l \in Nat /\ w \in Nat /\ cx \in Nat /\ cl \in Nat
         /\ cm \in Nat /\ added \in Nat
         /\ w <= added /\ b <= w + o + x /\ x + cl <= cx + l /\ cx <= cm
    BY <1>5, <1>8, <1>10, <1>12, <1>13, <1>15
  <1>17. added + o + l - cl \in Int /\ b <= (added + o + l - cl) + cm
    BY <1>16
  <1> QED
    BY <1>14, <1>15, <1>17

\* What the counters make of a page.
LEMMA CountedIs ==
  ASSUME CountOK, SiteOK, NEW page \in SUBSET DOMAIN site, NEW window \in SUBSET page,
         NEW fresh, Cardinality(fresh) \in Nat, count' = Counted(page, window, fresh)
  PROVE  /\ count'.seen = count.seen + Cardinality(page)
         /\ count'.unique = count.unique + Cardinality(fresh)
         /\ count'.idle = IF fresh = {} THEN count.idle + 1 ELSE 0
         /\ count'.seen \in Nat /\ count'.unique \in Nat /\ count'.idle \in Nat
         /\ count.seen \in Nat /\ count.unique \in Nat /\ count.idle \in Nat
  <1>1. PICK p, w, f : p = Cardinality(page) /\ w = Cardinality(window) /\ f = Cardinality(fresh)
    OBVIOUS
  <1>2. p \in Nat /\ f \in Nat
    BY <1>1, PlacesAreFinite
  <1>3. DOMAIN count = {"pages", "seen", "unique", "skipped", "idle"}
    BY DEF CountOK
  <1>4. /\ count'.seen = count.seen + p /\ count'.unique = count.unique + f
        /\ count'.idle = IF fresh = {} THEN count.idle + 1 ELSE 0
    BY <1>1, <1>3 DEF Counted
  <1>5. count.seen \in Nat /\ count.unique \in Nat /\ count.idle \in Nat
    BY DEF CountOK
  <1> QED
    BY <1>1, <1>2, <1>4, <1>5

\* The marks of the entries that are requested are not more than the entries.
LEMMA SeenGrows ==
  ASSUME SeenOK, SiteOK, CountOK, NEW page \in SUBSET DOMAIN site, NEW dedup \in BOOLEAN,
         seenMarks' = seenMarks \cup {Mark[e] : e \in Fresh(page, dedup)},
         count'.unique = count.unique + Cardinality(Fresh(page, dedup))
  PROVE  SeenOK'
  <1>1. PICK F, M : F = Fresh(page, dedup) /\ M = {Mark[e] : e \in F}
    OBVIOUS
  <1>2. IsFiniteSet(F) /\ Cardinality(F) \in Nat
    BY <1>1, FreshEntries
  <1>3. IsFiniteSet(M) /\ Cardinality(M) <= Cardinality(F)
    BY <1>1, <1>2, MarksOf
  <1>4. /\ IsFiniteSet(seenMarks \cup M) /\ Cardinality(seenMarks \cup M) \in Nat
        /\ Cardinality(seenMarks) \in Nat /\ Cardinality(M) \in Nat
        /\ Cardinality(seenMarks \cup M) <= Cardinality(seenMarks) + Cardinality(M)
    BY <1>3, UnionBound DEF SeenOK
  <1>5. count.unique \in Nat /\ Cardinality(seenMarks) <= count.unique
    BY DEF SeenOK, CountOK
  <1>6. seenMarks' = seenMarks \cup M /\ count'.unique = count.unique + Cardinality(F)
    BY <1>1
  <1>7. Cardinality(seenMarks \cup M) <= count.unique + Cardinality(F)
    BY <1>2, <1>3, <1>4, <1>5
  <1> QED
    BY <1>4, <1>6, <1>7 DEF SeenOK

LEMMA SeenKeeps ==
  ASSUME PagingInv, SeenOK, [Next]_pagingVars
  PROVE  SeenOK'
  <1>0. SiteOK /\ CountOK
    BY DEF PagingInv
  <1>1. CASE ListPage
    <2>1. PICK page, window, fresh :
             /\ page = Page(Shown(list.page))
             /\ window = IF AllOlder(page) THEN {} ELSE {k \in page : InWindow(k)}
             /\ fresh = Fresh(window, args.dedup)
      OBVIOUS
    <2>2. count' = Counted(page, window, fresh) /\ seenMarks' = seenMarks \cup {Mark[e] : e \in fresh}
      BY <1>1, <2>1 DEF ListPage
    <2>3. page \in SUBSET DOMAIN site /\ window \in SUBSET page /\ window \in SUBSET DOMAIN site
      BY <1>0, <2>1, PlacesOfPage
    <2>4. args.dedup \in BOOLEAN
      BY <1>0, PagingAssumption DEF SiteOK
    <2>5. Cardinality(fresh) \in Nat
      BY <1>0, <2>1, <2>3, <2>4, FreshEntries
    <2>6. count'.unique = count.unique + Cardinality(fresh)
      BY <1>0, <2>2, <2>3, <2>5, CountedIs
    <2> QED
      BY <1>0, <2>1, <2>2, <2>3, <2>4, <2>6, SeenGrows
  <1>2. CASE DealPage
    <2>1. PICK page, records, fresh :
             /\ page = Page(list.page) /\ records = {k \in page : site[k] \in Titled}
             /\ fresh = Fresh(records, TRUE)
      OBVIOUS
    <2>2. count' = Counted(page, records, fresh) /\ seenMarks' = seenMarks \cup {Mark[e] : e \in fresh}
      BY <1>2, <2>1 DEF DealPage
    <2>3. page \in SUBSET DOMAIN site /\ records \in SUBSET page /\ records \in SUBSET DOMAIN site
      BY <1>0, <2>1, PlacesOfPage
    <2>4. Cardinality(fresh) \in Nat
      BY <1>0, <2>1, <2>3, FreshEntries
    <2>5. count'.unique = count.unique + Cardinality(fresh)
      BY <1>0, <2>2, <2>3, <2>4, CountedIs
    <2> QED
      BY <1>0, <2>1, <2>2, <2>3, <2>5, SeenGrows
  <1>3. CASE Rerun
    BY <1>3, FS_EmptySet DEF Rerun, SeenOK, Zero
  <1>4. CASE \/ ListRepeated \/ Landing \/ DealRefused \/ ListUnreadable \/ ListFails
             \/ \E e \in Entry : ChainStep(e) \/ ChainFails(e) \/ Publish(e) \/ Withdraw(e)
             \/ UNCHANGED pagingVars
    <2>1. seenMarks' = seenMarks /\ count' \in {count, [count EXCEPT !.pages = @ + 1]}
      BY <1>4 DEF ListRepeated, Landing, DealRefused, ListUnreadable, ListFails, ChainStep,
         ChainFails, Publish, Withdraw, pagingVars
    <2>2. count'.unique = count.unique
      BY <1>0, <2>1 DEF CountOK
    <2> QED
      BY <2>1, <2>2 DEF SeenOK
  <1> QED
    BY <1>1, <1>2, <1>3, <1>4 DEF Next, ListStep

\* The site grows by what is added, and forgets in a new run.
LEMMA GrownKeeps ==
  ASSUME PagingInv, GrownOK, [Next]_pagingVars
  PROVE  GrownOK'
  <1>1. site \in Seq(Entry) /\ DOMAIN site = 1 .. Len(site) /\ Len(site) \in Nat
    BY DEF PagingInv, SiteOK
  <1>2. CASE UNCHANGED <<site, listed, added, taken>>
    <2>1. Newer' = Newer
      BY <1>2 DEF Newer
    <2> QED
      BY <1>2, <2>1 DEF GrownOK
  <1>3. ASSUME NEW e \in Entry, Publish(e) PROVE GrownOK'
    <2>1. /\ site' = <<e>> \o site /\ e \notin Range(site) /\ added' = added + 1
          /\ UNCHANGED <<listed, taken>>
      BY <1>3 DEF Publish
    <2>2. PICK n \in Nat : n = Len(site) /\ DOMAIN site = 1 .. n
      BY <1>1
    <2>3. /\ DOMAIN site' = 1 .. n + 1 /\ site'[1] = e
          /\ \A k \in 1 .. n : site'[k + 1] = site[k]
      BY <1>1, <2>1, <2>2
    <2>4. \A k \in 1 .. n + 1 : k = 1 \/ (k - 1 \in 1 .. n /\ site'[k] = site[k - 1])
      <3>1. ASSUME NEW k \in 1 .. n + 1, k # 1 PROVE k - 1 \in 1 .. n /\ (k - 1) + 1 = k
        BY <3>1
      <3> QED
        BY <2>3, <3>1
    <2>5. \A k \in 1 .. n : site[k] # e
      BY <2>1, <2>2 DEF Range
    <2>6. \A j, k \in DOMAIN site' : site'[j] = site'[k] => j = k
      <3>1. SUFFICES ASSUME NEW j \in 1 .. n + 1, NEW k \in 1 .. n + 1, site'[j] = site'[k]
                     PROVE  j = k
        BY <2>3
      <3>2. CASE j = 1 \/ k = 1
        BY <2>3, <2>4, <2>5, <3>1, <3>2
      <3>3. CASE j # 1 /\ k # 1
        <4>1. j - 1 \in 1 .. n /\ k - 1 \in 1 .. n /\ site[j - 1] = site[k - 1]
          BY <2>4, <3>1, <3>3
        <4>2. j - 1 = k - 1
          BY <2>2, <4>1 DEF GrownOK
        <4> QED
          BY <4>2
      <3> QED
        BY <3>2, <3>3
    <2>7. Newer' \in SUBSET (Newer \cup {e})
      <3>1. \A k \in DOMAIN site' : site'[k] = e \/ site'[k] \in {site[i] : i \in DOMAIN site}
        BY <2>2, <2>3, <2>4
      <3> QED
        BY <2>1, <3>1 DEF Newer
    <2>8. IsFiniteSet(Newer)
      BY <1>1, EntriesAreFinite
    <2>9. /\ IsFiniteSet(Newer \cup {e}) /\ Cardinality(Newer \cup {e}) \in Nat
          /\ Cardinality(Newer) \in Nat /\ Cardinality(Newer \cup {e}) <= Cardinality(Newer) + 1
      <3>1. IsFiniteSet({e}) /\ Cardinality({e}) = 1
        BY FS_Singleton
      <3> QED
        BY <2>8, <3>1, UnionBound
    <2>10. Cardinality(Newer') <= Cardinality(Newer \cup {e}) /\ Cardinality(Newer') \in Nat
      BY <2>7, <2>9, FS_Subset, FS_CardinalityType
    <2> QED
      BY <2>1, <2>6, <2>9, <2>10 DEF GrownOK
  <1>4. ASSUME NEW e \in Entry, Withdraw(e) PROVE GrownOK'
    <2>1. PICK i \in DOMAIN site : site' = RemoveAt(site, i)
      BY <1>4 DEF Withdraw
    <2>2. taken' = TRUE /\ UNCHANGED <<listed, added>>
      BY <1>4 DEF Withdraw
    <2>3. \A j \in DOMAIN site' :
             \/ j < i /\ j \in DOMAIN site /\ site'[j] = site[j]
             \/ i <= j /\ j + 1 \in DOMAIN site /\ site'[j] = site[j + 1]
      BY <1>1, <2>1, Shifted
    <2>4. site' \in Seq(Entry)
      BY <1>1, <2>1 DEF RemoveAt
    <2>5. \A j, k \in DOMAIN site' : site'[j] = site'[k] => j = k
      <3>1. SUFFICES ASSUME NEW j \in DOMAIN site', NEW k \in DOMAIN site', site'[j] = site'[k]
                     PROVE  j = k
        OBVIOUS
      <3>2. j \in Nat /\ k \in Nat /\ i \in Nat
        BY <1>1, <2>4
      <3>3. PICK x \in DOMAIN site : ((j < i /\ x = j) \/ (i <= j /\ x = j + 1)) /\ site'[j] = site[x]
        BY <2>3
      <3>4. PICK y \in DOMAIN site : ((k < i /\ y = k) \/ (i <= k /\ y = k + 1)) /\ site'[k] = site[y]
        BY <2>3
      <3>5. x = y
        BY <3>1, <3>3, <3>4 DEF GrownOK
      <3> QED
        BY <3>2, <3>3, <3>4, <3>5
    <2> QED
      BY <2>2, <2>5 DEF GrownOK
  <1>5. CASE Rerun
    <2>1. site' = site /\ listed' = Range(site) /\ added' = 0 /\ taken' = FALSE
      BY <1>5 DEF Rerun
    <2>2. Newer' = {}
      BY <2>1 DEF Newer, Range
    <2>3. Range(site) \subseteq Entry /\ IsFiniteSet(Range(site))
      BY <1>1, EntriesAreFinite
    <2> QED
      BY <2>1, <2>2, <2>3, FS_EmptySet DEF GrownOK
  <1>6. CASE \/ ListStep \/ DealRefused \/ ListUnreadable \/ ListFails
             \/ (\E e \in Entry : ChainStep(e) \/ ChainFails(e)) \/ UNCHANGED pagingVars
    BY <1>2, <1>6 DEF ListStep, ListPage, ListRepeated, Landing, DealPage, DealRefused,
       ListUnreadable, ListFails, ChainStep, ChainFails, pagingVars, chosen, history
  <1> QED
    BY <1>3, <1>4, <1>5, <1>6 DEF Next

\* The Anhui spider is shown the whole list.
LEMMA AnhuiListing ==
  ASSUME SiteOK, spider = "anhui"
  PROVE  /\ Listing = DOMAIN site /\ Len(site) \in Nat /\ DOMAIN site = 1 .. Len(site)
         /\ Cardinality(Listing) = Len(site)
  <1>1. PICK n \in Nat : n = Len(site) /\ DOMAIN site = 1 .. n
    BY DEF SiteOK
  <1>2. Listing = DOMAIN site
    BY Zenon DEF Listing
  <1>3. Cardinality(1 .. n) = IF 1 > n THEN 0 ELSE n - 1 + 1
    <2>1. 1 \in Int /\ n \in Int
      BY <1>1
    <2> QED
      BY <2>1, FS_Interval, Zenon
  <1>4. Cardinality(1 .. n) = n
    BY <1>1, <1>3
  <1> QED
    BY <1>1, <1>2, <1>4

\* A page before the end of the list is full.
LEMMA PageIsFull ==
  ASSUME SiteOK, SizeOK, spider = "anhui", NEW p \in Nat \ {0}, p * size <= Len(site)
  PROVE  Cardinality(Page(p)) = size
  <1>1. PICK n, s, a, b : n = Len(site) /\ s = size /\ a = (p - 1) * size /\ b = p * size
    OBVIOUS
  <1>2. s \in Nat \ {0} /\ a = (p - 1) * s /\ b = p * s
    BY <1>1 DEF SizeOK
  <1>3. a \in Nat /\ b = a + s
    BY <1>2
  <1>4. b <= n /\ n \in Nat /\ Listing = 1 .. n
    BY <1>1, AnhuiListing
  <1>5. \A k \in Listing : Cardinality({j \in Listing : j <= k}) = k
    BY AnhuiListing, RankOfPlace DEF Rank
  <1>6. Page(p) = a + 1 .. b
    <2>1. Page(p) = {k \in Listing : k \in a + 1 .. b}
      BY <1>1, <1>5, Zenon DEF Page
    <2> QED
      BY <1>2, <1>3, <1>4, <2>1
  <1>7. Cardinality(a + 1 .. b) = b - (a + 1) + 1
    <2>1. a + 1 \in Int /\ b \in Int /\ ~(a + 1 > b)
      BY <1>2, <1>3
    <2> QED
      BY <2>1, FS_Interval
  <1> QED
    BY <1>1, <1>2, <1>3, <1>6, <1>7

\* While something is missed there are pages to come.
LEMMA MorePages ==
  ASSUME SiteOK, SizeOK, ListOK, NEW p \in Nat \ {0}, NEW m, Behind(m, p * size),
         NEW e, Wanted(e), Mark[e] \notin m
  PROVE  p < Pages /\ p * size <= Cardinality(Listing)
  <1>1. PICK k \in DOMAIN site : site[k] = e
    BY DEF ListOK, Wanted
  <1>2. k \in Listing /\ p * size < Rank(k)
    BY <1>1, WantedIsInYear DEF Behind
  <1>3. PICK a, b, n, c, s : /\ a = p * size /\ b = Rank(k) /\ n = Cardinality(Listing)
                             /\ c = Pages /\ s = size
    OBVIOUS
  <1>4. s \in Nat \ {0} /\ a = p * s
    BY <1>3 DEF SizeOK
  <1>5. /\ n \in Nat /\ b \in 1 .. n /\ a < b
        /\ c \in Nat /\ n <= c * s
    BY <1>2, <1>3, RankType, PagesSuffice
  <1>6. a \in Nat /\ c * s \in Nat
    BY <1>4, <1>5
  <1>7. ~(c <= p)
    <2>1. SUFFICES ASSUME c <= p PROVE FALSE
      OBVIOUS
    <2>2. c * s <= p * s
      BY <1>4, <1>5, <2>1, Monotone
    <2> QED
      BY <1>4, <1>5, <1>6, <2>2
  <1> QED
    BY <1>3, <1>5, <1>6, <1>7

\* The page after a page that is not the last is the next one, whatever the pager says.
LEMMA NextOfFull ==
  ASSUME SiteOK, SizeOK, NEW p \in Nat \ {0}, p < Pages, CurrentPage(p) \notin seenPages,
         quirk = "nameless" /\ p # 1 => 1 \in seenPages,
         NEW pager \in Pager(Shown(p))
  PROVE  Shown(p) = p /\ CurrentPage(p) = p /\ NextPageNo(pager, p) = p + 1
  <1>1. Shown(p) = p
    BY ShownNumber DEF Shown
  <1>2. CurrentPage(p) = p
    BY <1>1 DEF CurrentPage
  <1>3. pager \in {p + 1, 0} /\ Nil \notin Int
    BY <1>1, PagingAssumption DEF Pager
  <1> QED
    BY <1>1, <1>2, <1>3 DEF NextPageNo

\* While something is missed a page was full, and what it showed without news counts.
LEMMA FullPage ==
  ASSUME PagingInv, MeetInv, FullPages, ListPage, ~taken, Missed' # {},
         ~AllOlder(Page(Shown(list.page)))
  PROVE  /\ count'.seen = list.page * size /\ list.page * size <= Len(site)
         /\ count'.idle * size <= count'.seen - count'.unique
         /\ Behind(seenMarks', list.page * size)
         /\ list'.why = Nil => list'.page = list.page + 1
  <1>1. PICK p, page, window, fresh :
           /\ p = list.page /\ page = Page(Shown(p))
           /\ window = {k \in page : InWindow(k)}
           /\ fresh = Fresh(window, args.dedup)
    OBVIOUS
  <1>2. /\ SiteOK /\ CountOK /\ SizeOK /\ ListOK /\ spider = "anhui" /\ args.dedup \in BOOLEAN
        /\ p \in Nat \ {0} /\ list.why = Nil /\ CurrentPage(p) \notin seenPages
    BY <1>1, PagingAssumption DEF PagingInv, SiteOK, MeetInv, ListPage
  <1>3. /\ seenMarks' = seenMarks \cup {Mark[e] : e \in fresh}
        /\ count' = Counted(page, window, fresh)
    BY <1>1 DEF ListPage
  <1>4. PICK e \in Entry : Wanted(e) /\ Mark[e] \notin seenMarks'
    <2>1. SameSite
      BY DEF ListPage, SameSite, chosen, history
    <2>2. \A e \in Entry : Wanted(e)' <=> Wanted(e)
      BY <2>1, SameSiteKeeps
    <2> QED
      BY <2>2 DEF Missed
  <1>5. Behind(seenMarks', p * size)
    BY <1>1, ListPageLeaves
  <1>6. p < Pages /\ p * size <= Cardinality(Listing)
    <2>1. PICK m : m = seenMarks'
      OBVIOUS
    <2> QED
      BY <1>2, <1>4, <1>5, <2>1, MorePages
  <1>7. p * size <= Len(site)
    BY <1>2, <1>6, AnhuiListing
  <1>8. quirk = "nameless" /\ p # 1 => 1 \in seenPages
    BY <1>1, <1>2 DEF FullPages
  <1>9. PICK pager \in Pager(Shown(p)) :
           LET n == NextPageNo(pager, CurrentPage(p))
               w == StopReason(page, count', n)
           IN  list' = [page |-> IF w = Nil THEN n ELSE list.page, why |-> w]
    BY <1>1 DEF ListPage
  <1>10. /\ Shown(p) = p /\ CurrentPage(p) = p /\ NextPageNo(pager, p) = p + 1
    BY <1>2, <1>6, <1>8, NextOfFull
  <1>11. list'.why = Nil => list'.page = p + 1
    BY <1>9, <1>10
  <1>12. Cardinality(page) = size
    BY <1>1, <1>2, <1>7, <1>10, PageIsFull
  <1>13. /\ page \in SUBSET DOMAIN site /\ window \in SUBSET page
         /\ window \in SUBSET DOMAIN site
    BY <1>1, <1>2, PlacesOfPage
  <1>14. /\ IsFiniteSet(fresh) /\ Cardinality(fresh) \in Nat /\ Cardinality(fresh) <= size
    <2>1. IsFiniteSet(fresh) /\ Cardinality(fresh) \in Nat
      BY <1>1, <1>2, <1>13, FreshEntries
    <2>2. Cardinality(fresh) <= Cardinality(window)
      BY <1>1, <1>2, <1>13, FreshAtMost
    <2>3. /\ Cardinality(window) \in Nat /\ Cardinality(window) <= size /\ size \in Nat
      BY <1>2, <1>12, <1>13, PlacesAreFinite DEF SizeOK
    <2> QED
      BY <2>1, <2>2, <2>3
  <1>15. /\ count'.seen = count.seen + Cardinality(page)
         /\ count'.unique = count.unique + Cardinality(fresh)
         /\ count'.idle = IF fresh = {} THEN count.idle + 1 ELSE 0
         /\ count.seen \in Nat /\ count.unique \in Nat /\ count.idle \in Nat
    BY <1>2, <1>3, <1>13, <1>14, CountedIs
  <1>16. count.seen = (p - 1) * size /\ count.idle * size <= count.seen - count.unique
    <2>1. Missed # {}
      BY <1>3, <1>4 DEF Missed
    <2> QED
      BY <1>1, <1>2, <2>1 DEF FullPages
  <1>17. PICK s, f, u, i, n : /\ s = size /\ f = Cardinality(fresh) /\ u = count.unique
                              /\ i = count.idle /\ n = count.seen
    OBVIOUS
  <1>18. /\ s \in Nat \ {0} /\ f \in Nat /\ f <= s /\ u \in Nat /\ i \in Nat /\ n \in Nat
         /\ n = (p - 1) * s /\ i * s <= n - u
         /\ count'.seen = n + s /\ count'.unique = u + f
    BY <1>2, <1>12, <1>14, <1>15, <1>16, <1>17 DEF SizeOK
  <1>19. i * s \in Nat /\ (i + 1) * s = i * s + s /\ n + s = p * s /\ 0 * s = 0
    BY <1>2, <1>18
  <1>20. count'.idle * s <= (n + s) - (u + f)
    <2>1. CASE fresh = {}
      <3>1. f = 0 /\ count'.idle = i + 1
        BY <1>15, <1>17, <2>1, FS_EmptySet
      <3> QED
        BY <1>18, <1>19, <3>1
    <2>2. CASE fresh # {}
      <3>1. count'.idle = 0
        BY <1>15, <2>2
      <3> QED
        BY <1>18, <1>19, <3>1
    <2> QED
      BY <2>1, <2>2
  <1> QED
    BY <1>1, <1>5, <1>7, <1>11, <1>17, <1>18, <1>19, <1>20

----------------------------------------------------------------------------
(* A walk that gives up *)

LEMMA ThresholdType == ASSUME SiteOK PROVE Threshold \in Nat \ {0}
  <1>1. {args.max_pages, args.override} \subseteq Int \cup {Nil} /\ args.threshold \in Int
    BY PagingAssumption DEF SiteOK
  <1>2. Nil \notin Int
    BY PagingAssumption
  <1> QED
    BY <1>1, <1>2 DEF Threshold, Positive

LEMMA ListPageGivesUp ==
  ASSUME PagingInv, MeetInv, IdleInv, SeenOK', ListPage
  PROVE  FullPages' /\ GivesUpAmongStale'
  <1>1. /\ spider = "anhui" /\ list.why = Nil
        /\ UNCHANGED <<spider, args, quirk, size, site, listed, added, taken>>
        /\ seenPages' = seenPages \cup {CurrentPage(list.page)}
    BY DEF ListPage, chosen, history
  <1>2. PICK pager, next, why :
           /\ next = NextPageNo(pager, CurrentPage(list.page))
           /\ why = StopReason(Page(Shown(list.page)), count', next)
           /\ list' = [page |-> IF why = Nil THEN next ELSE list.page, why |-> why]
    BY DEF ListPage
  <1>3. /\ list'.why = why /\ (why \in {Nil, "nothing new"} => ~AllOlder(Page(Shown(list.page))))
        /\ why = "nothing new" => count'.idle >= Threshold
    BY <1>2, PagingAssumption DEF StopReason, Why
  <1>4. quirk = "nameless" => 1 \in seenPages'
    BY <1>1 DEF CurrentPage
  <1>5. ASSUME ~taken, why \in {Nil, "nothing new"}, Missed' # {}
        PROVE  /\ count'.seen = list.page * size /\ list.page * size <= Len(site)
               /\ count'.idle * size <= count'.seen - count'.unique
               /\ Behind(seenMarks', list.page * size)
               /\ why = Nil => list'.page = list.page + 1
    BY <1>3, <1>5, FullPage DEF IdleInv
  <1>6. FullPages'
    <2>1. ASSUME ~taken, why = Nil, Missed' # {}
          PROVE  /\ count'.seen = (list'.page - 1) * size
                 /\ count'.idle * size <= count'.seen - count'.unique
      <3>1. list'.page - 1 = list.page
        BY <1>5, <2>1 DEF MeetInv
      <3> QED
        BY <1>5, <2>1, <3>1
    <2> QED
      BY <1>1, <1>3, <1>4, <2>1 DEF FullPages
  <1>7. GivesUpAmongStale'
    <2>1. SUFFICES ASSUME why = "nothing new", ~taken, Missed' # {}
                   PROVE  Stale' >= (Threshold * size)'
      BY <1>1, <1>3 DEF GivesUpAmongStale
    <2>2. PICK m, b, s, t, i, u :
             /\ m = seenMarks' /\ b = list.page * size /\ s = size /\ t = Threshold
             /\ i = count'.idle /\ u = count'.unique
      OBVIOUS
    <2>3. /\ SiteOK /\ s \in Nat \ {0} /\ t \in Nat \ {0} /\ b \in Nat /\ Listing = DOMAIN site
          /\ i \in Nat /\ u \in Nat
      <3>1. SiteOK /\ size \in Nat \ {0} /\ list.page \in Nat
        BY DEF PagingInv, MeetInv, SizeOK
      <3>2. CountOK'
        BY ListPageKeeps DEF PagingInv
      <3>3. count'.idle \in Nat /\ count'.unique \in Nat
        BY <3>2 DEF CountOK
      <3> QED
        BY <1>1, <2>2, <3>1, <3>3, ThresholdType, AnhuiListing
    <2>4. /\ b <= Len(site) /\ Behind(m, b) /\ i * s <= b - u /\ t <= i
      BY <1>3, <1>5, <2>1, <2>2
    <2>5. IsFiniteSet(m) /\ Cardinality(m) <= u /\ Cardinality(m) \in Nat
      BY <2>2, FS_CardinalityType DEF SeenOK
    <2>6. Stale \in Int /\ b <= Stale + Cardinality(m)
      BY <1>1, <2>1, <2>3, <2>4, <2>5, PlacesMet DEF IdleInv
    <2>7. t * s <= i * s /\ t * s \in Nat /\ i * s \in Nat
      BY <2>3, <2>4, Monotone
    <2>8. t * s <= Stale
      BY <2>3, <2>4, <2>5, <2>6, <2>7
    <2>9. Stale' = Stale /\ Threshold' = Threshold
      BY <1>1 DEF Stale, Backfill, Threshold
    <2> QED
      BY <1>1, <2>2, <2>3, <2>6, <2>7, <2>8, <2>9
  <1> QED
    BY <1>6, <1>7

\* An addition makes one more entry stale.
LEMMA PublishGivesUp ==
  ASSUME PagingInv, MeetInv, IdleInv, NEW e \in Entry, Publish(e)
  PROVE  FullPages' /\ GivesUpAmongStale'
  <1>1. /\ UNCHANGED <<spider, args, quirk, size, list, seenPages, seenMarks, count, listed, taken>>
        /\ added' = added + 1
    BY DEF Publish, chosen
  <1>2. Missed' = Missed /\ Threshold' = Threshold
    BY <1>1 DEF Missed, Wanted, Backfill, Threshold
  <1>3. FullPages'
    BY <1>1, <1>2 DEF IdleInv, FullPages
  <1>4. Stale \in Int /\ Stale' = Stale + 1
    <2>1. PICK o, l, m : /\ o = Cardinality({x \in listed : Backfill /\ Day[x] = "old"})
                         /\ l = Cardinality(listed) /\ m = Cardinality({Mark[x] : x \in listed})
      OBVIOUS
    <2>2. o \in Nat /\ l \in Nat /\ m \in Nat /\ added \in Nat
      <3>1. IsFiniteSet(listed) /\ added \in Nat
        BY DEF IdleInv, GrownOK
      <3>2. l \in Nat /\ m \in Nat
        BY <2>1, <3>1, MarksOf
      <3>3. {x \in listed : Backfill /\ Day[x] = "old"} \in SUBSET listed
        OBVIOUS
      <3>4. o \in Nat
        BY <2>1, <3>1, <3>3, FS_Subset, FS_CardinalityType
      <3> QED
        BY <3>1, <3>2, <3>4
    <2>3. Stale = added + o + l - m
      BY <2>1, Zenon DEF Stale
    <2>4. Stale' = added' + o + l - m
      <3>1. Backfill' = Backfill /\ listed' = listed
        BY <1>1 DEF Backfill
      <3> QED
        BY <2>1, <3>1, Zenon DEF Stale
    <2> QED
      BY <1>1, <2>2, <2>3, <2>4
  <1>5. GivesUpAmongStale'
    <2>1. size \in Nat /\ Threshold \in Nat
      BY ThresholdType DEF PagingInv, MeetInv, SizeOK
    <2>2. PICK n \in Nat : n = Threshold * size /\ n = (Threshold * size)'
      BY <1>1, <1>2, <2>1
    <2>3. list.why = "nothing new" /\ ~taken => Missed = {} \/ Stale >= n
      BY <2>2 DEF IdleInv, GivesUpAmongStale
    <2>4. Stale >= n => Stale' >= n
      <3>1. PICK v \in Int : v = Stale /\ Stale' = v + 1
        BY <1>4
      <3> QED
        BY <3>1
    <2>5. list'.why = "nothing new" /\ ~taken' => Missed' = {} \/ Stale' >= n
      BY <1>1, <1>2, <2>3, <2>4, Zenon
    <2> QED
      BY <2>2, <2>5, Zenon DEF GivesUpAmongStale
  <1> QED
    BY <1>3, <1>5

LEMMA OthersGiveUp ==
  ASSUME PagingInv, MeetInv, IdleInv,
         \/ ListRepeated \/ Landing \/ DealPage \/ DealRefused \/ ListUnreadable \/ ListFails
         \/ (\E e \in Entry : ChainStep(e) \/ ChainFails(e) \/ Withdraw(e))
         \/ Rerun \/ UNCHANGED pagingVars
  PROVE  FullPages' /\ GivesUpAmongStale'
  <1>1. Nil \notin Why
    BY PagingAssumption
  <1>2. CASE UNCHANGED <<spider, args, quirk, size, list, seenPages, seenMarks, count, history>>
    <2>1. Missed' = Missed /\ Threshold' = Threshold /\ Stale' = Stale
      BY <1>2 DEF history, Missed, Wanted, Backfill, Threshold, Stale
    <2> QED
      BY <1>2, <2>1 DEF IdleInv, FullPages, GivesUpAmongStale, history
  <1>3. ASSUME NEW e \in Entry, Withdraw(e) PROVE FullPages' /\ GivesUpAmongStale'
    <2>1. taken' /\ UNCHANGED <<spider, quirk, list, seenPages>>
      BY <1>3 DEF Withdraw, chosen
    <2> QED
      BY <2>1 DEF IdleInv, FullPages, GivesUpAmongStale
  <1>4. CASE ListRepeated \/ ListFails \/ ListUnreadable \/ DealRefused
    <2>1. PICK why \in {"repeated", "failed"} : list' = [list EXCEPT !.why = why]
      BY <1>4 DEF ListRepeated, ListFails, ListUnreadable, DealRefused
    <2>2. list' = [page |-> list.page, why |-> why]
      BY <2>1 DEF MeetInv
    <2>3. list'.why \in {"repeated", "failed"} /\ list'.page = list.page /\ list'.why # Nil
      BY <1>1, <2>2 DEF Why
    <2>4. UNCHANGED <<spider, quirk>> /\ seenPages \subseteq seenPages'
      BY <1>4 DEF ListRepeated, ListFails, ListUnreadable, DealRefused, chosen
    <2> QED
      BY <2>3, <2>4 DEF IdleInv, FullPages, GivesUpAmongStale
  <1>5. CASE Landing \/ DealPage
    <2>1. spider' = "deal" /\ list'.why # "nothing new"
      <3>1. Nil # "nothing new"
        BY <1>1 DEF Why
      <3>2. CASE Landing
        <4>1. list' = [list EXCEPT !.page = 1] /\ list.why = Nil /\ spider' = "deal"
          BY <3>2 DEF Landing, chosen
        <4>2. list' = [page |-> 1, why |-> Nil]
          BY <4>1 DEF MeetInv
        <4> QED
          BY <3>1, <4>1, <4>2
      <3>3. CASE DealPage
        <4>1. spider' = "deal" /\ list'.why = DealStop(list.page, Pages)
          BY <3>3 DEF DealPage, chosen
        <4>2. DealStop(list.page, Pages) \in {"limit", "last", Nil}
          BY Zenon DEF DealStop
        <4> QED
          BY <3>1, <4>1, <4>2
      <3> QED
        BY <1>5, <3>2, <3>3
    <2> QED
      BY <2>1 DEF FullPages, GivesUpAmongStale
  <1>6. CASE Rerun
    <2>1. /\ list' = Begin(spider) /\ count' = Zero /\ UNCHANGED <<spider, size>>
      BY <1>6 DEF Rerun, chosen
    <2>2. list'.why = Nil /\ (spider = "anhui" => list'.page = 1)
      BY <2>1 DEF Begin
    <2>3. size \in Nat /\ (1 - 1) * size = 0 /\ 0 * size = 0
      BY DEF MeetInv, SizeOK
    <2>4. FullPages'
      BY <2>1, <2>2, <2>3 DEF FullPages, Zero
    <2>5. GivesUpAmongStale'
      BY <1>1, <2>2 DEF GivesUpAmongStale, Why
    <2> QED
      BY <2>4, <2>5
  <1>7. CASE (\E e \in Entry : ChainStep(e) \/ ChainFails(e)) \/ UNCHANGED pagingVars
    BY <1>2, <1>7 DEF ChainStep, ChainFails, pagingVars, chosen
  <1> QED
    BY <1>3, <1>4, <1>5, <1>6, <1>7

LEMMA IdleInit == Init => IdleInv
  <1> SUFFICES ASSUME Init PROVE IdleInv
    OBVIOUS
  <1>1. SeenOK
    BY FS_EmptySet DEF Init, SeenOK, Zero
  <1>2. GrownOK
    <2>1. site \in Seq(Entry) /\ IsInjective(site)
      BY PagingAssumption DEF Init
    <2>2. Newer = {}
      BY DEF Init, Newer, Range
    <2>3. Range(site) \subseteq Entry /\ IsFiniteSet(Range(site))
      BY <2>1, EntriesAreFinite
    <2> QED
      BY <2>1, <2>2, <2>3, FS_EmptySet DEF Init, GrownOK, IsInjective
  <1>3. FullPages
    <2>1. size \in Nat /\ (1 - 1) * size = 0 /\ 0 * size = 0
      BY PagingAssumption DEF Init
    <2>2. spider = "anhui" => list.page = 1
      BY DEF Init, Begin
    <2> QED
      BY <2>1, <2>2 DEF Init, FullPages, Zero
  <1>4. GivesUpAmongStale
    BY PagingAssumption DEF Init, Begin, GivesUpAmongStale, Why
  <1> QED
    BY <1>1, <1>2, <1>3, <1>4 DEF IdleInv

LEMMA IdleInvariant == Spec => []IdleInv
  <1>1. PagingInv /\ MeetInv /\ IdleInv /\ [Next]_pagingVars => IdleInv'
    <2> SUFFICES ASSUME PagingInv, MeetInv, IdleInv, [Next]_pagingVars PROVE IdleInv'
      OBVIOUS
    <2>1. SeenOK' /\ GrownOK'
      BY SeenKeeps, GrownKeeps DEF IdleInv
    <2>2. FullPages' /\ GivesUpAmongStale'
      BY <2>1, ListPageGivesUp, PublishGivesUp, OthersGiveUp DEF Next, ListStep
    <2> QED
      BY <2>1, <2>2 DEF IdleInv
  <1> QED
    BY PagingInvariant, MeetInvariant, IdleInit, <1>1, PTL DEF Spec

----------------------------------------------------------------------------
(* Theorems *)

\* However the list shifts under the walk, whatever entries share a mark and whatever
\* records lack a title or an address, the counters agree with what was requested: one
\* unique entry for each mark, requested once, unless it has no address, and never more
\* than the entries seen (SpiderPaging.CountersAddUp).
THEOREM CountersAgree == Spec => []CountersAddUp
  <1>1. ASSUME PagingInv PROVE CountersAddUp
    <2>1. SUFFICES ASSUME Dedups
                   PROVE  /\ count.unique = Cardinality(seenMarks)
                          /\ \A m \in Marks : \A d, e \in Chains(m) : d = e /\ m \in seenMarks
                          /\ \A m \in seenMarks :
                               \/ Chains(m) # {}
                               \/ spider = "deal" /\ \E e \in Titled \ Linked : Mark[e] = m
      BY <1>1 DEF PagingInv, CountOK, CountersAddUp, Dedups
    <2>2. RequestedOnce
      BY <1>1, <2>1 DEF PagingInv, MarksOK
    <2> QED
      BY <2>2 DEF RequestedOnce, Chains, Begun, Unlinked
  <1> QED
    BY <1>1, PagingInvariant, PTL

\* In one run no draft of the list replaces the text of an entry that was stored, when the
\* entry or a twin of it is listed again, whatever other entries the writer puts into its
\* notice (SpiderPaging.TextOutlivesDraft).
THEOREM TextStays == Spec => []TextOutlivesDraft
  <1>1. PagingInv => TextOutlivesDraft
    BY DEF PagingInv, TextOK
  <1> QED
    BY <1>1, PagingInvariant, PTL

\* A walk that ends at the last page, at an empty one or at the backfill boundary has
\* met every entry listed when it began that is wanted, or a twin of it, on any site
\* that lists the new before the old, however many entries are added at its head
\* meanwhile, whatever its pager claims: what is not met yet is always behind the
\* places of the pages before the next, since additions only push entries back
\* (SpiderPaging.NothingMissed).
THEOREM WalksMeetAll == Spec => []NothingMissed
  <1>1. MeetInv => NothingMissed
    BY DEF MeetInv
  <1> QED
    BY <1>1, MeetInvariant, PTL

\* A walk that gives up after pages without news has met all that is wanted too, unless
\* at least that many full pages of entries were stale: added since the run began, or
\* pushed back by one, old ones of the list, or twins; for any threshold and pager.
\* While something is missed every page so far was full, and of the places on them all
\* but the stale ones have brought a mark that was new (SpiderPaging.GivesUpAmongStale).
THEOREM WalksGiveUpAmongStale == Spec => []GivesUpAmongStale
  <1>1. IdleInv => GivesUpAmongStale
    BY DEF IdleInv
  <1> QED
    BY <1>1, IdleInvariant, PTL
===================================================================================
