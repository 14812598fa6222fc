------------------------------ MODULE NoticeProofs ------------------------------
(***************************************************************************)
(* What holds of the notice tables for any number of writers, notices,     *)
(* contents, losses and crashes.  Rows are never deleted, so what a        *)
(* session has loaded stays true of the rows as far as links and numbers   *)
(* go; what a row says may be stale, and only writers that take turns      *)
(* (OneProcess) keep exactly one version current.                          *)
(***************************************************************************)
EXTENDS NoticeDetail, FiniteSetTheorems, TLAPS

\* What a session holds fits what its callback is doing.
Fits(l) ==
    /\ l.stage = "idle" => l.pc = "begin"
    /\ l.stage # "idle" => l.ann \in Announcements
    /\ l.stage = "file" => l.ann.url # Nil
    /\ l.pc = "read" => l.stage = "version"
    /\ l.pc # "begin" => l.notice \in Notice /\ (l.stage = "file" => l.seen # Nil)

\* What a transaction has loaded is still there: the notice and the version it
\* pointed to, the version with the same content and its number.  The next
\* number was read when there were at most as many versions as now.
Recalls(l) ==
    l.pc # "begin" =>
        /\ l.seen # Nil => /\ notices[l.notice] # Nil
                           /\ l.seen.current # Nil => versions[l.notice][l.seen.current] # Nil
        /\ l.pc = "read" =>
              /\ l.version # Nil => /\ versions[l.notice][l.ann.content] # Nil
                                    /\ versions[l.notice][l.ann.content].no = l.version.no
              /\ l.no \in 1..Cardinality(Stored(l.notice)) + 1

Sessions == \A w \in Writers : Fits(loc[w]) /\ Recalls(loc[w])

\* A notice points to a version of its own.
PointersLinked ==
    \A n \in Notice :
        notices[n] # Nil /\ notices[n].current # Nil => versions[n][notices[n].current] # Nil

\* There is a last number.
FinitelyMany == \A n \in Notice : IsFiniteSet(Stored(n))

NoticeInv ==
    /\ NoticeTypeOK /\ Sessions
    /\ PointersLinked /\ AttachmentsLinked
    /\ FinitelyMany /\ VersionsNumbered

--------------------------------------------------------------------------------
(* Items and rows *)

\* The columns of an item; only an attachment has no look.
LEMMA ItemTyped ==
    ASSUME NEW a \in Announcements, NEW s \in Stage
    PROVE  /\ Item(a, s).ext \in Ext \cup {Nil}
           /\ Item(a, s).hash \in Hash
           /\ Item(a, s).sourceKey \in Key
           /\ Item(a, s).dedupKey \in Key
           /\ Item(a, s).type \in Type
           /\ s = "file" => Item(a, s).look = Nil
           /\ s # "file" => Item(a, s).look \in Look
  BY NoticeAssumption DEF Item, Announcement

\* What a transaction makes of the row it loaded is a row, and points where it is told.
LEMMA AppliedTyped ==
    ASSUME NEW seen \in NoticeRow \cup {Nil}, NEW i,
           i.ext \in Ext \cup {Nil}, i.hash \in Hash, i.sourceKey \in Key, i.dedupKey \in Key,
           i.type \in Type, i.look \in Look \cup {Nil}, seen = Nil => i.look \in Look,
           NEW current \in Content \cup {Nil}
    PROVE  /\ [Applied(seen, i) EXCEPT !.current = current] \in NoticeRow
           /\ [Applied(seen, i) EXCEPT !.current = current].current = current
<1>1. CASE seen = Nil
  <2>1. Applied(seen, i) \in NoticeRow
    BY <1>1 DEF Applied, NoticeRow
  <2> QED
    BY <2>1 DEF NoticeRow
<1>2. CASE seen # Nil
  <2>1. seen \in NoticeRow
    BY <1>2
  <2>2. Applied(seen, i) \in NoticeRow
    BY <1>2, <2>1 DEF Applied, NoticeRow
  <2> QED
    BY <2>2 DEF NoticeRow
<1> QED
  BY <1>1, <1>2

\* A flush leaves a row, with the new value where it differs from the loaded one.
LEMMA FlushedNotice ==
    ASSUME NEW row \in NoticeRow, NEW seen \in NoticeRow, NEW new \in NoticeRow
    PROVE  /\ Flushed(row, seen, new) \in NoticeRow
           /\ Flushed(row, seen, new).current
                = IF new.current # seen.current THEN new.current ELSE row.current
  BY DEF Flushed, NoticeRow

LEMMA FlushedVersion ==
    ASSUME NEW row \in VersionRow, NEW seen \in VersionRow, NEW new \in VersionRow
    PROVE  /\ Flushed(row, seen, new) \in VersionRow
           /\ Flushed(row, seen, new).no = IF new.no # seen.no THEN new.no ELSE row.no
           /\ Flushed(row, seen, new).current
                = IF new.current # seen.current THEN new.current ELSE row.current
  BY DEF Flushed, VersionRow

\* A stage that is not idle is one of an announcement.
LEMMA StageOf ==
    ASSUME NoticeTypeOK, NEW w \in Writers, Fits(loc[w]), loc[w].stage # "idle"
    PROVE  loc[w].stage \in Stage /\ loc[w].ann \in Announcements
  BY DEF NoticeTypeOK, Local, Fits

\* What a writer makes of its notice is a row that points where the transaction
\* says, or where it pointed before if that is what the transaction loaded.
LEMMA NewNoticeTyped ==
    ASSUME NoticeTypeOK, NEW w \in Writers, Fits(loc[w]), Recalls(loc[w]),
           loc[w].pc # "begin", NEW current \in Content \cup {Nil}
    PROVE  /\ NewNotice(w, current) \in NoticeRow
           /\ NewNotice(w, current).current
                = IF loc[w].seen # Nil /\ current = loc[w].seen.current
                  THEN notices[loc[w].notice].current ELSE current
<1> DEFINE l == loc[w]
           i == ItemOf(w)
<1>1. /\ l.stage \in Stage /\ l.ann \in Announcements /\ l.notice \in Notice
      /\ l.seen \in NoticeRow \cup {Nil} /\ (l.stage = "file" => l.seen # Nil)
  BY StageOf DEF NoticeTypeOK, Local, Fits
<1>2. /\ i.ext \in Ext \cup {Nil} /\ i.hash \in Hash /\ i.sourceKey \in Key
      /\ i.dedupKey \in Key /\ i.type \in Type
      /\ i.look \in Look \cup {Nil} /\ (l.seen = Nil => i.look \in Look)
  <2> HIDE DEF l
  <2>1. i = Item(l.ann, l.stage)
    BY DEF ItemOf, l
  <2> HIDE DEF i
  <2> QED
    BY <1>1, <2>1, ItemTyped
<1>3. Target(w, current) \in NoticeRow /\ Target(w, current).current = current
  <2> HIDE DEF i
  <2>1. Target(w, current) = [Applied(l.seen, i) EXCEPT !.current = current]
    BY DEF Target, i
  <2> HIDE DEF l
  <2>2. /\ [Applied(l.seen, i) EXCEPT !.current = current] \in NoticeRow
        /\ [Applied(l.seen, i) EXCEPT !.current = current].current = current
    BY <1>1, <1>2, AppliedTyped
  <2> QED
    BY <2>1, <2>2
<1>4. CASE l.seen = Nil
  BY <1>3, <1>4 DEF NewNotice
<1>5. CASE l.seen # Nil
  <2>1. l.seen \in NoticeRow /\ notices[l.notice] \in NoticeRow
    BY <1>1, <1>5 DEF NoticeTypeOK, Recalls
  <2>2. NewNotice(w, current) = Flushed(notices[l.notice], l.seen, Target(w, current))
    BY <1>5 DEF NewNotice
  <2> QED
    BY <1>3, <1>5, <2>1, <2>2, FlushedNotice
<1> QED
  BY <1>4, <1>5

\* The version a writer stores is a row with the number it had, or the one read.
LEMMA NewVersionTyped ==
    ASSUME NoticeTypeOK, NEW w \in Writers, Fits(loc[w]), Recalls(loc[w]),
           loc[w].pc = "read"
    PROVE  /\ loc[w].ann.content \in Content
           /\ NewVersion(w) \in VersionRow
           /\ loc[w].version = Nil =>
                 NewVersion(w).no = loc[w].no /\ NewVersion(w).current
           /\ loc[w].version # Nil =>
                 /\ NewVersion(w).no = versions[loc[w].notice][loc[w].ann.content].no
                 /\ loc[w].version.current
                       => NewVersion(w).current
                            = versions[loc[w].notice][loc[w].ann.content].current
                 /\ ~loc[w].version.current => NewVersion(w).current
<1> DEFINE l == loc[w]
           i == ItemOf(w)
           new == [no |-> IF l.version = Nil THEN l.no ELSE l.version.no, current |-> TRUE,
                   sourceKey |-> i.sourceKey, dedupKey |-> i.dedupKey,
                   look |-> i.look, type |-> i.type]
           row == versions[l.notice][l.ann.content]
<1>1. /\ l.stage = "version" /\ l.ann \in Announcements /\ l.notice \in Notice
      /\ l.version \in VersionRow \cup {Nil} /\ l.no \in Nat
  BY StageOf DEF NoticeTypeOK, Local, Fits
<1>2. l.ann.content \in Content
  BY <1>1, NoticeAssumption DEF Announcement
<1>3. /\ i.sourceKey \in Key /\ i.dedupKey \in Key /\ i.type \in Type /\ i.look \in Look
  <2> HIDE DEF l
  <2>1. i = Item(l.ann, l.stage) /\ l.stage \in Stage
    BY <1>1 DEF ItemOf, l, Stage
  <2> HIDE DEF i
  <2> QED
    BY <1>1, <2>1, ItemTyped
<1>4. new \in VersionRow
  <2>1. PICK k \in Nat : k = IF l.version = Nil THEN l.no ELSE l.version.no
    <3> HIDE DEF l
    <3> QED
      BY <1>1 DEF VersionRow
  <2>2. new = [no |-> k, current |-> TRUE, sourceKey |-> i.sourceKey, dedupKey |-> i.dedupKey,
               look |-> i.look, type |-> i.type]
    BY <2>1
  <2> HIDE DEF l, i, new
  <2> QED
    BY <1>3, <2>2 DEF VersionRow
<1>5. CASE l.version = Nil
  <2>1. NewVersion(w) = new
    BY <1>5 DEF NewVersion
  <2> QED
    BY <1>2, <1>4, <1>5, <2>1
<1>6. CASE l.version # Nil
  <2>1. NewVersion(w) = Flushed(row, l.version, new)
    BY <1>6 DEF NewVersion
  <2>2. row \in VersionRow /\ row.no = l.version.no /\ l.version \in VersionRow
    <3>1. l.version \in VersionRow
      BY <1>1, <1>6
    <3>2. row \in VersionRow \cup {Nil}
      BY <1>1, <1>2 DEF NoticeTypeOK
    <3> QED
      BY <1>6, <3>1, <3>2 DEF Recalls
  <2>3. new.no = l.version.no /\ new.current
    BY <1>6
  <2>4. /\ Flushed(row, l.version, new) \in VersionRow
        /\ Flushed(row, l.version, new).no = row.no
        /\ l.version.current => Flushed(row, l.version, new).current = row.current
        /\ ~l.version.current => Flushed(row, l.version, new).current
    <3> HIDE DEF row, new, l
    <3>1. new.current = TRUE /\ l.version.current \in BOOLEAN
      BY <2>2, <2>3, <1>4 DEF VersionRow
    <3> DEFINE flushed == Flushed(row, l.version, new)
    <3>2. /\ flushed \in VersionRow
          /\ flushed.no = IF new.no # l.version.no THEN new.no ELSE row.no
          /\ flushed.current = IF new.current # l.version.current THEN new.current ELSE row.current
      BY <1>4, <2>2, FlushedVersion
    <3> HIDE DEF flushed
    <3>3. flushed.no = row.no
      BY <2>2, <2>3, <3>2
    <3>4. l.version.current = TRUE => flushed.current = row.current
      BY <3>1, <3>2
    <3>5. l.version.current = FALSE => flushed.current = TRUE
      BY <3>1, <3>2
    <3> QED
      BY <3>1, <3>2, <3>3, <3>4, <3>5 DEF flushed
  <2> QED
    BY <1>2, <1>6, <2>1, <2>4
<1> QED
  BY <1>5, <1>6

--------------------------------------------------------------------------------
(* What a step does to the sessions *)

\* Nil is no id, no value and no row.
LEMMA NilIsNoRow ==
    /\ Nil \notin Ext /\ Nil \notin Content /\ Nil \notin Notice /\ Nil \notin Writers
    /\ Nil \notin Announcements
    /\ Nil \notin NoticeRow /\ Nil \notin VersionRow /\ Nil \notin AttachmentRow
  BY NoticeAssumption

LEMMA IdleTyped == Idle \in Local
  BY DEF Idle, Local

\* A transaction that ends leaves its callback at the beginning of an item, or idle.
LEMMA EndKeeps ==
    ASSUME NoticeTypeOK, NEW w \in Writers, Fits(loc[w]), loc[w].stage # "idle", End(w)
    PROVE  /\ loc' \in [Writers -> Local]
           /\ lock' \in [Notice -> Writers \cup {Nil}]
           /\ loc'[w].pc = "begin" /\ Fits(loc'[w])
           /\ \A v \in Writers \ {w} : loc'[v] = loc[v]
<1> DEFINE l == loc[w]
<1>1. loc' = [loc EXCEPT ![w] = Advanced(l)]
  BY DEF End
<1>2. l.ann \in Announcements /\ l.stage \in Stage
  BY StageOf
<1>3. /\ Advanced(l) \in Local /\ Advanced(l).pc = "begin" /\ Fits(Advanced(l))
  <2>1. NextStage(l) \in {"version", "file", "idle"} /\ (NextStage(l) = "file" => l.ann.url # Nil)
    BY DEF NextStage
  <2>2. CASE NextStage(l) = "idle"
    BY <2>2, IdleTyped DEF Advanced, Idle, Fits
  <2>3. CASE NextStage(l) # "idle"
    <3> DEFINE new == [Idle EXCEPT !.stage = NextStage(l), !.ann = l.ann]
    <3>1. Idle.pc = "begin"
      BY DEF Idle
    <3>2. /\ new \in Local /\ new.stage = NextStage(l) /\ new.ann = l.ann
          /\ new.pc = "begin"
      BY <1>2, <2>1, <3>1, IdleTyped DEF Local, Stage
    <3>3. Advanced(l) = new
      BY <2>3 DEF Advanced
    <3> HIDE DEF new
    <3> QED
      BY <1>2, <2>1, <2>3, <3>2, <3>3 DEF Fits
  <2> QED
    BY <2>2, <2>3
<1>4. lock' \in [Notice -> Writers \cup {Nil}]
  BY DEF End, NoticeTypeOK
<1> QED
  BY <1>1, <1>3, <1>4 DEF NoticeTypeOK

\* A fetched announcement begins with its notice.
LEMMA FetchKeeps ==
    ASSUME NoticeTypeOK, NEW w \in Writers, NEW a \in Announcements, Fetch(w, a)
    PROVE  /\ loc' \in [Writers -> Local]
           /\ loc'[w].pc = "begin" /\ Fits(loc'[w])
           /\ \A v \in Writers \ {w} : loc'[v] = loc[v]
<1> DEFINE l == [Idle EXCEPT !.stage = "notice", !.ann = a]
<1>1. loc' = [loc EXCEPT ![w] = l]
  BY DEF Fetch
<1>2. l \in Local /\ Fits(l) /\ l.pc = "begin"
  <2>1. Idle.pc = "begin"
    BY DEF Idle
  <2>2. l \in Local /\ l.stage = "notice" /\ l.ann = a /\ l.pc = "begin"
    BY <2>1, IdleTyped DEF Local, Stage
  <2> HIDE DEF l
  <2> QED
    BY <2>2 DEF Fits
<1> HIDE DEF l
<1> QED
  BY <1>1, <1>2 DEF NoticeTypeOK

\* The rules find rows only.
LEMMA ResolvedIsThere ==
    ASSUME NEW i, NEW n \in Resolved(i)
    PROVE  n \in Notice /\ notices[n] # Nil
<1> DEFINE rules == <<By("ext", i.ext), By("sourceKey", i.sourceKey), By("dedupKey", i.dedupKey),
                      By("hash", i.hash), LookAlikes(i)>>
           hits == {r \in 1..5 : rules[r] # {}}
           first == CHOOSE r \in hits : \A q \in hits : r <= q
<1>1. Resolved(i) = IF hits = {} THEN {} ELSE rules[first]
  BY DEF Resolved
<1>2. \A r \in 1..5 : \A m \in rules[r] : m \in Notice /\ notices[m] # Nil
  <2>1. /\ rules[1] = By("ext", i.ext) /\ rules[2] = By("sourceKey", i.sourceKey)
        /\ rules[3] = By("dedupKey", i.dedupKey) /\ rules[4] = By("hash", i.hash)
        /\ rules[5] = LookAlikes(i)
    OBVIOUS
  <2>2. \A column, value : \A m \in By(column, value) : m \in Notice /\ notices[m] # Nil
    BY DEF By
  <2>3. \A m \in LookAlikes(i) : m \in Notice /\ notices[m] # Nil
    BY DEF LookAlikes
  <2> HIDE DEF rules
  <2>4. \A r \in 1..5 : r = 1 \/ r = 2 \/ r = 3 \/ r = 4 \/ r = 5
    OBVIOUS
  <2> QED
    BY <2>1, <2>2, <2>3, <2>4
<1>3. ASSUME hits # {} PROVE first \in 1..5
  <2>1. \E r \in hits : \A q \in hits : r <= q
    <3>1. hits \subseteq 1..5
      OBVIOUS
    <3> HIDE DEF hits
    <3>2. CASE 1 \in hits BY <3>1, <3>2
    <3>3. CASE 1 \notin hits /\ 2 \in hits BY <3>1, <3>3
    <3>4. CASE 1 \notin hits /\ 2 \notin hits /\ 3 \in hits BY <3>1, <3>4
    <3>5. CASE 1 \notin hits /\ 2 \notin hits /\ 3 \notin hits /\ 4 \in hits BY <3>1, <3>5
    <3>6. CASE 1 \notin hits /\ 2 \notin hits /\ 3 \notin hits /\ 4 \notin hits
      <4>1. \A q \in hits : q = 5
        BY <3>1, <3>6
      <4>2. 5 \in hits
        BY <1>3, <4>1
      <4> QED BY <4>1, <4>2
    <3> QED BY <3>2, <3>3, <3>4, <3>5, <3>6
  <2>2. first \in hits
    <3> HIDE DEF hits
    <3> QED BY <2>1
  <2> QED
    BY <2>2
<1> HIDE DEF rules, hits, first
<1> QED
  BY <1>1, <1>2, <1>3

\* A notice that is found is remembered as it is, one that is not is to be new.
LEMMA ResolveKeeps ==
    ASSUME NoticeInv, NEW w \in Writers, Resolve(w)
    PROVE  /\ loc' \in [Writers -> Local]
           /\ loc'[w].pc = "resolved" /\ Fits(loc'[w])
           /\ loc'[w].seen = notices[loc'[w].notice]
           /\ \A v \in Writers \ {w} : loc'[v] = loc[v]
<1> DEFINE l == loc[w]
<1>1. l.stage \in Stage /\ l.ann \in Announcements /\ l.stage # "idle" /\ l.pc = "begin"
  <2>1. Fits(loc[w]) /\ loc[w].stage # "idle" /\ NoticeTypeOK /\ loc[w].pc = "begin"
    BY DEF NoticeInv, Sessions, Resolve, At, Stage
  <2> QED
    BY <2>1, StageOf
<1>2. l.stage = "file" => l.ann.url # Nil
  BY DEF NoticeInv, Sessions, Fits
<1>3. ASSUME NEW n \in Notice, Enters(w, n, notices[n]), l.stage = "file" => notices[n] # Nil
      PROVE  /\ loc' \in [Writers -> Local]
             /\ loc'[w].pc = "resolved" /\ Fits(loc'[w])
             /\ loc'[w].notice = n /\ loc'[w].seen = notices[n]
             /\ \A v \in Writers \ {w} : loc'[v] = loc[v]
  <2> DEFINE new == [l EXCEPT !.pc = "resolved", !.notice = n, !.seen = notices[n]]
  <2>1. loc' = [loc EXCEPT ![w] = new]
    BY <1>3 DEF Enters
  <2>2. l \in Local /\ notices[n] \in NoticeRow \cup {Nil} /\ loc \in [Writers -> Local]
    BY DEF NoticeInv, NoticeTypeOK
  <2>3. /\ new \in Local /\ new.pc = "resolved" /\ new.notice = n /\ new.seen = notices[n]
        /\ new.stage = l.stage /\ new.ann = l.ann
    <3> HIDE DEF l
    <3> QED
      BY <2>2 DEF Local
  <2> HIDE DEF new, l
  <2>4. Fits(new)
    BY <1>1, <1>2, <1>3, <2>3 DEF Fits
  <2> QED
    BY <2>1, <2>2, <2>3, <2>4
<1>4. CASE Resolved(ItemOf(w)) # {}
  <2>1. PICK n \in Resolved(ItemOf(w)) : Enters(w, n, notices[n])
    BY <1>4 DEF Resolve
  <2>2. n \in Notice /\ notices[n] # Nil
    BY ResolvedIsThere
  <2> QED
    BY <1>3, <2>1, <2>2
<1>5. CASE Resolved(ItemOf(w)) = {}
  <2>1. PICK n \in Notice : IsFreeId(n) /\ Enters(w, n, Nil) /\ ItemOf(w).look # Nil
    BY <1>5 DEF Resolve
  <2>2. notices[n] = Nil /\ l.stage # "file"
    BY <2>1 DEF IsFreeId, ItemOf, Item
  <2> QED
    BY <1>3, <2>1, <2>2
<1> QED
  BY <1>4, <1>5

--------------------------------------------------------------------------------
(* Numbers *)

\* The number read for a new version is the one after the last.
LEMMA NextNumberIsNext ==
    ASSUME NEW n \in Notice, NEW k \in Nat, Numbers(n) = 1..k
    PROVE  NextNumber(n) = k + 1
<1>1. CASE k = 0
  BY <1>1 DEF NextNumber
<1>2. CASE k # 0
  <2> DEFINE last == CHOOSE j \in Numbers(n) : \A i \in Numbers(n) : i <= j
  <2>1. \E j \in Numbers(n) : \A i \in Numbers(n) : i <= j
    <3>1. k \in Numbers(n) /\ \A i \in Numbers(n) : i <= k
      BY <1>2
    <3> QED
      BY <3>1
  <2>2. last \in Numbers(n) /\ \A i \in Numbers(n) : i <= last
    BY <2>1
  <2> HIDE DEF last
  <2>3. last = k
    <3>1. last \in 1..k /\ k \in 1..k
      BY <1>2, <2>2
    <3>2. k <= last
      BY <2>2, <3>1
    <3> QED
      BY <3>1, <3>2
  <2>4. 1 \in Numbers(n)
    BY <1>2
  <2> QED
    BY <2>3, <2>4, SMTT(30) DEF NextNumber, last
<1> QED
  BY <1>1, <1>2

\* The flush before the versions are read changes no row; the number read is the
\* next one.
LEMMA ReadKeeps ==
    ASSUME NoticeInv, NEW w \in Writers, ReadVersions(w)
    PROVE  /\ loc' \in [Writers -> Local]
           /\ lock' \in [Notice -> Writers \cup {Nil}]
           /\ loc'[w].pc = "read" /\ Fits(loc'[w])
           /\ loc'[w].notice = loc[w].notice /\ loc'[w].seen = loc[w].seen
           /\ loc'[w].ann = loc[w].ann
           /\ loc'[w].version = versions[loc[w].notice][loc[w].ann.content]
           /\ loc'[w].no = Cardinality(Stored(loc[w].notice)) + 1
           /\ \A v \in Writers \ {w} : loc'[v] = loc[v]
<1> DEFINE l == loc[w]
           n == l.notice
           k == Cardinality(Stored(n))
           row == versions[n][l.ann.content]
           no == NextNumber(n)
           new == [l EXCEPT !.pc = "read", !.version = row, !.no = no]
<1>1. /\ l.stage = "version" /\ l.pc = "resolved" /\ n \in Notice /\ l.ann \in Announcements
      /\ l \in Local /\ NoticeTypeOK
  <2>1. l.stage = "version" /\ l.pc = "resolved"
    BY DEF ReadVersions, At
  <2>2. NoticeTypeOK /\ Fits(l)
    BY DEF NoticeInv, Sessions
  <2> QED
    BY <2>1, <2>2 DEF Fits, NoticeTypeOK
<1>2. l.ann.content \in Content
  BY <1>1, NoticeAssumption DEF Announcement
<1>3. versions[n][l.ann.content] \in VersionRow \cup {Nil}
  BY <1>1, <1>2 DEF NoticeTypeOK
<1>4. NextNumber(n) = k + 1 /\ k \in Nat
  <2>1. IsFiniteSet(Stored(n)) /\ Numbers(n) = 1..k
    BY <1>1 DEF NoticeInv, FinitelyMany, VersionsNumbered
  <2>2. k \in Nat
    BY <2>1, FS_CardinalityType
  <2> HIDE DEF k
  <2> QED
    BY <1>1, <2>1, <2>2, NextNumberIsNext
<1>5. lock' \in [Notice -> Writers \cup {Nil}]
  BY <1>1 DEF ReadVersions, NoticeTypeOK
<1>6. loc' = [loc EXCEPT ![w] = new]
  BY <1>1 DEF ReadVersions, NoticeTypeOK
<1>7. /\ new \in Local
      /\ new.pc = "read" /\ new.notice = n /\ new.seen = l.seen /\ new.ann = l.ann
      /\ new.stage = l.stage /\ new.version = row /\ new.no = no
  <2>1. l \in Local /\ row \in VersionRow \cup {Nil} /\ no \in Nat
    BY <1>1, <1>3, <1>4
  <2> HIDE DEF l, row, no
  <2> QED
    BY <2>1 DEF Local
<1>8. Fits(new)
  <2>1. l.stage = "version" /\ n \in Notice /\ l.ann \in Announcements
    BY <1>1
  <2> HIDE DEF l, n, new
  <2> QED
    BY <1>7, <2>1 DEF Fits
<1> HIDE DEF new
<1> QED
  BY <1>1, <1>4, <1>5, <1>6, <1>7, <1>8 DEF NoticeTypeOK

--------------------------------------------------------------------------------
(* What a step does to the rows *)

\* Rows are never deleted, a version keeps its number, and versions are only added.
RowsStay ==
    /\ \A n \in Notice : notices[n] # Nil => notices'[n] # Nil
    /\ \A n \in Notice, c \in Content :
          versions[n][c] # Nil => versions'[n][c] # Nil /\ versions'[n][c].no = versions[n][c].no
    /\ \A n \in Notice :
          Cardinality(Stored(n)) \in Nat /\ Cardinality(Stored(n))' \in Nat
             /\ Cardinality(Stored(n)) <= Cardinality(Stored(n))'

\* What holds of the rows.
RowsInv ==
    /\ notices \in [Notice -> NoticeRow \cup {Nil}]
    /\ versions \in [Notice -> [Content -> VersionRow \cup {Nil}]]
    /\ attachments \in [Url -> AttachmentRow \cup {Nil}]
    /\ PointersLinked /\ AttachmentsLinked /\ FinitelyMany /\ VersionsNumbered

LEMMA NoticeInvGives ==
    ASSUME NoticeInv, NEW w \in Writers
    PROVE  NoticeTypeOK /\ Fits(loc[w]) /\ Recalls(loc[w]) /\ RowsInv
  BY DEF NoticeInv, Sessions, NoticeTypeOK, RowsInv

\* What the versions of every notice are like after versions were left alone.
LEMMA VersionsUnchanged ==
    ASSUME RowsInv, versions' = versions
    PROVE  /\ FinitelyMany' /\ VersionsNumbered'
           /\ \A n \in Notice : /\ Cardinality(Stored(n)) \in Nat
                                /\ Cardinality(Stored(n))' = Cardinality(Stored(n))
<1>1. \A n \in Notice : /\ Cardinality(Stored(n)) \in Nat
                        /\ Stored(n)' = Stored(n) /\ Numbers(n)' = Numbers(n)
  BY FS_CardinalityType DEF RowsInv, FinitelyMany, Stored, Numbers
<1>2. \A n \in Notice : Cardinality(Stored(n))' = Cardinality(Stored(n))
  BY <1>1
<1>3. FinitelyMany' /\ VersionsNumbered'
  BY <1>1, <1>2 DEF RowsInv, FinitelyMany, VersionsNumbered
<1> QED
  BY <1>1, <1>2, <1>3

\* A step that writes no row.
LEMMA RowsUnchanged ==
    ASSUME RowsInv, UNCHANGED <<notices, versions, attachments>>
    PROVE  RowsInv' /\ RowsStay
<1>1. /\ FinitelyMany' /\ VersionsNumbered'
      /\ \A n \in Notice : /\ Cardinality(Stored(n)) \in Nat
                           /\ Cardinality(Stored(n))' = Cardinality(Stored(n))
  BY VersionsUnchanged
<1>2. PointersLinked' /\ AttachmentsLinked'
  BY DEF RowsInv, PointersLinked, AttachmentsLinked
<1> QED
  BY <1>1, <1>2 DEF RowsInv, RowsStay

\* The notice of a transaction is written with the pointer it had, or with none
\* if it is new.
LEMMA PointerOfNotice ==
    ASSUME NoticeInv, NEW w \in Writers, loc[w].pc # "begin"
    PROVE  LET n == loc[w].notice
               row == NewNotice(w, SeenCurrent(w))
           IN  /\ n \in Notice /\ row \in NoticeRow /\ row # Nil
               /\ loc[w].seen # Nil => row.current = notices[n].current
               /\ loc[w].seen = Nil => row.current = Nil
               /\ row.current # Nil => versions[n][row.current] # Nil
               /\ SeenCurrent(w) \in Content \cup {Nil}
               /\ SeenCurrent(w) # Nil => versions[n][SeenCurrent(w)] # Nil
<1> DEFINE n == loc[w].notice
           current == SeenCurrent(w)
           row == NewNotice(w, current)
<1>1. NoticeTypeOK /\ Fits(loc[w]) /\ Recalls(loc[w]) /\ RowsInv
  BY NoticeInvGives
<1>2. n \in Notice /\ loc[w].seen \in NoticeRow \cup {Nil}
  BY <1>1 DEF Fits, NoticeTypeOK, Local
<1>3. /\ current \in Content \cup {Nil}
      /\ loc[w].seen # Nil => current = loc[w].seen.current
      /\ loc[w].seen = Nil => current = Nil
  BY <1>2 DEF SeenCurrent, NoticeRow
<1>4. /\ row \in NoticeRow
      /\ row.current = IF loc[w].seen # Nil /\ current = loc[w].seen.current
                       THEN notices[n].current ELSE current
  <2> HIDE DEF current
  <2> QED
    BY <1>1, <1>3, NewNoticeTyped
<1>5. current # Nil => versions[n][current] # Nil
  BY <1>1, <1>3 DEF Recalls
<1>6. loc[w].seen # Nil => notices[n] # Nil
  BY <1>1 DEF Recalls
<1>7. row.current # Nil => versions[n][row.current] # Nil
  <2>1. CASE loc[w].seen = Nil
    BY <1>3, <1>4, <2>1
  <2>2. CASE loc[w].seen # Nil
    <3>1. row.current = notices[n].current /\ notices[n] # Nil
      BY <1>3, <1>4, <1>6, <2>2
    <3> HIDE DEF row, n, current
    <3> QED
      BY <1>1, <1>2, <3>1 DEF RowsInv, PointersLinked
  <2> QED
    BY <2>1, <2>2
<1> QED
  BY <1>2, <1>3, <1>4, <1>5, <1>7, NilIsNoRow

\* write_notice
LEMMA NoticeRows ==
    ASSUME NoticeInv, NEW w \in Writers, CommitNotice(w)
    PROVE  RowsInv' /\ RowsStay
<1> DEFINE n == loc[w].notice
           row == NewNotice(w, SeenCurrent(w))
<1>1. RowsInv /\ loc[w].pc # "begin"
  BY NoticeInvGives DEF CommitNotice, At
<1>2. /\ n \in Notice /\ row \in NoticeRow /\ row # Nil
      /\ row.current # Nil => versions[n][row.current] # Nil
  BY <1>1, PointerOfNotice
<1>3. /\ notices' = [notices EXCEPT ![n] = row]
      /\ versions' = versions /\ attachments' = attachments
  BY DEF CommitNotice
<1> HIDE DEF n, row
<1>4. /\ FinitelyMany' /\ VersionsNumbered'
      /\ \A m \in Notice : /\ Cardinality(Stored(m)) \in Nat
                           /\ Cardinality(Stored(m))' = Cardinality(Stored(m))
  BY <1>1, <1>3, VersionsUnchanged
<1>5. notices' \in [Notice -> NoticeRow \cup {Nil}]
  BY <1>1, <1>2, <1>3 DEF RowsInv
<1>6. PointersLinked'
  BY <1>1, <1>2, <1>3 DEF RowsInv, PointersLinked
<1>7. \A m \in Notice : notices[m] # Nil => notices'[m] # Nil
  BY <1>1, <1>2, <1>3 DEF RowsInv
<1>8. AttachmentsLinked'
  <2> SUFFICES ASSUME NEW u \in Url, attachments[u] # Nil
               PROVE  /\ notices'[attachments[u].notice] # Nil
                      /\ attachments[u].version # Nil
                           => versions[attachments[u].notice][attachments[u].version] # Nil
    BY <1>3 DEF AttachmentsLinked
  <2>1. attachments[u] \in AttachmentRow
    BY <1>1 DEF RowsInv
  <2> QED
    BY <1>1, <1>7, <2>1 DEF RowsInv, AttachmentsLinked, AttachmentRow
<1> QED
  BY <1>1, <1>3, <1>4, <1>5, <1>6, <1>7, <1>8 DEF RowsInv, RowsStay

\* A demoted version keeps its number.
LEMMA DemotedTyped ==
    ASSUME NEW row \in VersionRow \cup {Nil}
    PROVE  /\ Demoted(row) \in VersionRow \cup {Nil}
           /\ row = Nil => Demoted(row) = Nil
           /\ row # Nil => /\ Demoted(row) # Nil
                           /\ Demoted(row).no = row.no /\ Demoted(row).current = FALSE
<1>1. CASE row = Nil
  BY <1>1 DEF Demoted
<1>2. CASE row # Nil
  <2>1. row \in VersionRow
    BY <1>2
  <2>2. Demoted(row) = [row EXCEPT !.current = FALSE]
    BY <1>2 DEF Demoted
  <2>3. [row EXCEPT !.current = FALSE] \in VersionRow
        /\ [row EXCEPT !.current = FALSE].no = row.no
        /\ [row EXCEPT !.current = FALSE].current = FALSE
    BY <2>1 DEF VersionRow
  <2> QED
    BY <1>2, <2>2, <2>3, NilIsNoRow
<1> QED
  BY <1>1, <1>2

\* What write_notice_version commits: the version of this content, the others
\* demoted, the notice pointing to it.
LEMMA VersionCommitted ==
    ASSUME NoticeInv, NEW w \in Writers, CommitVersion(w)
    PROVE  LET n == loc[w].notice
               c == loc[w].ann.content
           IN  /\ n \in Notice /\ c \in Content /\ loc[w].pc = "read"
               /\ versions' \in [Notice -> [Content -> VersionRow \cup {Nil}]]
               /\ versions'[n][c] = NewVersion(w) /\ NewVersion(w) # Nil
               /\ \A d \in Content \ {c} : versions'[n][d] = Demoted(versions[n][d])
               /\ \A m \in Notice \ {n} : versions'[m] = versions[m]
               /\ notices' = [notices EXCEPT ![n] = NewNotice(w, c)]
               /\ NewNotice(w, c) \in NoticeRow /\ NewNotice(w, c) # Nil
               /\ NewNotice(w, c).current
                    = IF loc[w].seen # Nil /\ c = loc[w].seen.current
                      THEN notices[n].current ELSE c
<1> DEFINE l == loc[w]
           n == l.notice
           c == l.ann.content
           new == NewVersion(w)
           row == NewNotice(w, c)
           all == [d \in Content |-> IF d = c THEN new ELSE Demoted(versions[n][d])]
<1>1. NoticeTypeOK /\ Fits(l) /\ Recalls(l) /\ RowsInv /\ l.pc = "read"
  BY NoticeInvGives DEF CommitVersion, At
<1>2. n \in Notice /\ c \in Content /\ new \in VersionRow
  <2>1. c \in Content /\ new \in VersionRow
    BY <1>1, NewVersionTyped
  <2> QED
    BY <1>1, <2>1 DEF Fits
<1>3. /\ row \in NoticeRow
      /\ row.current = IF l.seen # Nil /\ c = l.seen.current THEN notices[n].current ELSE c
  <2>1. c \in Content \cup {Nil} /\ l.pc # "begin"
    BY <1>1, <1>2
  <2> HIDE DEF c
  <2> QED
    BY <1>1, <2>1, NewNoticeTyped
<1>4. versions' = [versions EXCEPT ![n] = all]
  BY DEF CommitVersion
<1>5. \A d \in Content : Demoted(versions[n][d]) \in VersionRow \cup {Nil}
  BY <1>1, <1>2, DemotedTyped, ZenonT(60) DEF RowsInv
<1>6. all \in [Content -> VersionRow \cup {Nil}] /\ all[c] = new
      /\ \A d \in Content \ {c} : all[d] = Demoted(versions[n][d])
  <2> HIDE DEF n, c, new
  <2> QED
    BY <1>2, <1>5
<1>7. notices' = [notices EXCEPT ![n] = row]
  BY DEF CommitVersion
<1>8. /\ versions' \in [Notice -> [Content -> VersionRow \cup {Nil}]]
      /\ versions'[n] = all /\ \A m \in Notice \ {n} : versions'[m] = versions[m]
  <2> HIDE DEF all, n
  <2> QED
    BY <1>1, <1>2, <1>4, <1>6 DEF RowsInv
<1>9. new # Nil /\ row # Nil
  BY <1>2, <1>3, NilIsNoRow
<1> HIDE DEF n, c, new, row, all
<1>10. versions'[n][c] = new /\ \A d \in Content \ {c} : versions'[n][d] = Demoted(versions[n][d])
  BY <1>6, <1>8
<1> QED
  BY <1>1, <1>2, <1>3, <1>7, <1>8, <1>9, <1>10 DEF n, c, new, row

\* The numbers of a notice after one version was written: the same, or one more,
\* the next.
LEMMA NumbersAfter ==
    ASSUME RowsInv, NEW n \in Notice, NEW c \in Content,
           versions' \in [Notice -> [Content -> VersionRow \cup {Nil}]],
           versions'[n][c] # Nil,
           \A d \in Content \ {c} :
              /\ versions[n][d] = Nil => versions'[n][d] = Nil
              /\ versions[n][d] # Nil => /\ versions'[n][d] # Nil
                                         /\ versions'[n][d].no = versions[n][d].no,
           versions[n][c] # Nil => versions'[n][c].no = versions[n][c].no,
           versions[n][c] = Nil => versions'[n][c].no = Cardinality(Stored(n)) + 1
    PROVE  /\ IsFiniteSet(Stored(n))'
           /\ (Numbers(n) = 1..Cardinality(Stored(n)))'
           /\ \A d, e \in Stored(n)' : versions'[n][d].no = versions'[n][e].no => d = e
           /\ Cardinality(Stored(n)) \in Nat /\ Cardinality(Stored(n))' \in Nat
           /\ Cardinality(Stored(n)) <= Cardinality(Stored(n))'
<1>1. PICK k \in Nat : k = Cardinality(Stored(n))
  BY FS_CardinalityType DEF RowsInv, FinitelyMany
<1>2. IsFiniteSet(Stored(n)) /\ Numbers(n) = 1..k
      /\ \A d, e \in Stored(n) : versions[n][d].no = versions[n][e].no => d = e
  BY <1>1 DEF RowsInv, FinitelyMany, VersionsNumbered
<1>3. Stored(n)' = Stored(n) \cup {c}
  BY DEF Stored
<1>4. CASE versions[n][c] # Nil
  <2>1. Stored(n)' = Stored(n)
    BY <1>3, <1>4 DEF Stored
  <2>2. \A d \in Stored(n) : versions'[n][d].no = versions[n][d].no
    BY <1>4 DEF Stored
  <2>3. Numbers(n)' = Numbers(n)
    <3>1. Numbers(n)' = {versions'[n][d].no : d \in Stored(n)'}
      BY DEF Numbers, Stored
    <3>2. Numbers(n) = {versions[n][d].no : d \in Stored(n)}
      BY DEF Numbers, Stored
    <3> QED
      BY <2>1, <2>2, <3>1, <3>2
  <2>4. Cardinality(Stored(n))' = k
    BY <1>1, <2>1
  <2> QED
    BY <1>1, <1>2, <2>1, <2>2, <2>3, <2>4
<1>5. CASE versions[n][c] = Nil
  <2>1. c \notin Stored(n)
    BY <1>5 DEF Stored
  <2>2. IsFiniteSet(Stored(n))' /\ Cardinality(Stored(n))' = k + 1
    BY <1>1, <1>2, <1>3, <2>1, FS_AddElement
  <2>3. \A d \in Stored(n) : versions'[n][d].no = versions[n][d].no /\ versions[n][d].no \in 1..k
    <3>1. \A d \in Stored(n) : versions[n][d].no \in Numbers(n)
      BY DEF Numbers, Stored
    <3> QED
      BY <1>2, <2>1, <3>1 DEF Stored
  <2>4. versions'[n][c].no = k + 1
    BY <1>1, <1>5
  <2>5. Numbers(n)' = 1..k + 1
    <3>1. Numbers(n)' = {versions'[n][d].no : d \in Stored(n) \cup {c}}
      BY <1>3 DEF Numbers, Stored
    <3>2. Numbers(n) = {versions[n][d].no : d \in Stored(n)}
      BY DEF Numbers, Stored
    <3>3. Numbers(n)' = {versions'[n][d].no : d \in Stored(n)} \cup {versions'[n][c].no}
      BY <3>1
    <3>4. {versions'[n][d].no : d \in Stored(n)} = {versions[n][d].no : d \in Stored(n)}
      BY <2>3
    <3>5. Numbers(n)' = Numbers(n) \cup {k + 1}
      BY <2>4, <3>2, <3>3, <3>4
    <3> QED
      BY <1>2, <3>5
  <2>6. \A d, e \in Stored(n)' : versions'[n][d].no = versions'[n][e].no => d = e
    BY <1>2, <1>3, <2>3, <2>4
  <2> QED
    BY <1>1, <2>2, <2>5, <2>6
<1> QED
  BY <1>4, <1>5

\* write_notice_version
LEMMA VersionRows ==
    ASSUME NoticeInv, NEW w \in Writers, CommitVersion(w)
    PROVE  RowsInv' /\ RowsStay
<1>1. PICK n \in Notice, c \in Content : n = loc[w].notice /\ c = loc[w].ann.content
  BY VersionCommitted
<1>2. /\ versions' \in [Notice -> [Content -> VersionRow \cup {Nil}]]
      /\ versions'[n][c] = NewVersion(w) /\ NewVersion(w) # Nil
      /\ \A d \in Content \ {c} : versions'[n][d] = Demoted(versions[n][d])
      /\ \A m \in Notice \ {n} : versions'[m] = versions[m]
      /\ notices' = [notices EXCEPT ![n] = NewNotice(w, c)]
      /\ NewNotice(w, c) \in NoticeRow /\ NewNotice(w, c) # Nil
      /\ NewNotice(w, c).current
           = IF loc[w].seen # Nil /\ c = loc[w].seen.current THEN notices[n].current ELSE c
  BY <1>1, VersionCommitted
<1>3. /\ NoticeTypeOK /\ Fits(loc[w]) /\ Recalls(loc[w]) /\ RowsInv /\ loc[w].pc = "read"
      /\ ~VersionClash(w) /\ attachments' = attachments
  BY NoticeInvGives DEF CommitVersion, At
<1>4. /\ loc[w].version = Nil => /\ NewVersion(w).no = loc[w].no
                                 /\ versions[n][c] = Nil /\ loc[w].no \notin Numbers(n)
      /\ loc[w].version # Nil => NewVersion(w).no = versions[n][c].no /\ versions[n][c] # Nil
      /\ loc[w].no \in 1..Cardinality(Stored(n)) + 1
  <2>1. /\ loc[w].version = Nil => NewVersion(w).no = loc[w].no
        /\ loc[w].version # Nil => NewVersion(w).no = versions[n][c].no
    BY <1>1, <1>3, NewVersionTyped
  <2> QED
    BY <1>1, <1>3, <2>1 DEF VersionClash, Recalls
<1>5. \A d \in Content \ {c} :
         /\ versions[n][d] = Nil => versions'[n][d] = Nil
         /\ versions[n][d] # Nil => versions'[n][d] # Nil /\ versions'[n][d].no = versions[n][d].no
  <2>1. \A d \in Content \ {c} :
           /\ Demoted(versions[n][d]) = Nil <=> versions[n][d] = Nil
           /\ versions[n][d] # Nil => Demoted(versions[n][d]).no = versions[n][d].no
    BY <1>3, DemotedTyped DEF RowsInv
  <2> QED
    BY <1>2, <2>1
<1>6. Cardinality(Stored(n)) \in Nat /\ Numbers(n) = 1..Cardinality(Stored(n))
  BY <1>3, FS_CardinalityType DEF RowsInv, FinitelyMany, VersionsNumbered
<1>7. /\ versions[n][c] # Nil => versions'[n][c].no = versions[n][c].no
      /\ versions[n][c] = Nil => versions'[n][c].no = Cardinality(Stored(n)) + 1
  BY <1>2, <1>4, <1>6
<1>8. /\ IsFiniteSet(Stored(n))'
      /\ (Numbers(n) = 1..Cardinality(Stored(n)))'
      /\ \A d, e \in Stored(n)' : versions'[n][d].no = versions'[n][e].no => d = e
      /\ Cardinality(Stored(n)) \in Nat /\ Cardinality(Stored(n))' \in Nat
      /\ Cardinality(Stored(n)) <= Cardinality(Stored(n))'
  BY <1>2, <1>3, <1>5, <1>7, NumbersAfter
<1>9. \A m \in Notice \ {n} :
         /\ Stored(m)' = Stored(m) /\ Numbers(m)' = Numbers(m)
         /\ Cardinality(Stored(m)) \in Nat /\ IsFiniteSet(Stored(m))
         /\ \A d \in Stored(m) : versions'[m][d].no = versions[m][d].no
  BY <1>2, <1>3, FS_CardinalityType DEF RowsInv, FinitelyMany, Stored, Numbers
<1>10. \A m \in Notice \ {n} : Cardinality(Stored(m))' = Cardinality(Stored(m))
  BY <1>9
<1>11. FinitelyMany'
  BY <1>8, <1>9 DEF FinitelyMany
<1>12. VersionsNumbered'
  <2> SUFFICES ASSUME NEW m \in Notice
               PROVE  /\ (Numbers(m) = 1..Cardinality(Stored(m)))'
                      /\ \A d, e \in Stored(m)' :
                            versions'[m][d].no = versions'[m][e].no => d = e
    BY DEF VersionsNumbered
  <2>1. CASE m = n
    BY <1>8, <2>1
  <2>2. CASE m # n
    <3>1. Numbers(m) = 1..Cardinality(Stored(m))
          /\ \A d, e \in Stored(m) : versions[m][d].no = versions[m][e].no => d = e
      BY <1>3 DEF RowsInv, VersionsNumbered
    <3> QED
      BY <1>9, <1>10, <2>2, <3>1
  <2> QED
    BY <2>1, <2>2
<1>13. RowsStay
  <2>1. \A m \in Notice, d \in Content :
           versions[m][d] # Nil => versions'[m][d] # Nil /\ versions'[m][d].no = versions[m][d].no
    BY <1>2, <1>5, <1>7
  <2>2. \A m \in Notice : notices[m] # Nil => notices'[m] # Nil
    BY <1>2, <1>3 DEF RowsInv
  <2> QED
    BY <1>8, <1>9, <1>10, <2>1, <2>2 DEF RowsStay
<1>14. notices' \in [Notice -> NoticeRow \cup {Nil}]
  BY <1>2, <1>3 DEF RowsInv
<1>15. PointersLinked'
  <2> SUFFICES ASSUME NEW m \in Notice, notices'[m] # Nil, notices'[m].current # Nil
               PROVE  versions'[m][notices'[m].current] # Nil
    BY DEF PointersLinked
  <2>1. CASE m # n
    BY <1>2, <1>3, <2>1 DEF RowsInv, PointersLinked
  <2>2. CASE m = n
    <3>1. notices'[m] = NewNotice(w, c)
      BY <1>2, <1>3, <2>2 DEF RowsInv
    <3>2. CASE loc[w].seen # Nil /\ c = loc[w].seen.current
      <4>1. notices[n] # Nil /\ notices'[m].current = notices[n].current
        BY <1>1, <1>2, <1>3, <3>1, <3>2 DEF Recalls
      <4>2. notices[n].current \in Content /\ versions[n][notices[n].current] # Nil
        BY <1>3, <2>2, <4>1 DEF RowsInv, PointersLinked, NoticeRow
      <4> QED
        BY <1>2, <1>5, <2>2, <4>1, <4>2
    <3>3. CASE ~(loc[w].seen # Nil /\ c = loc[w].seen.current)
      BY <1>2, <2>2, <3>1, <3>3
    <3> QED
      BY <3>2, <3>3
  <2> QED
    BY <2>1, <2>2
<1>16. AttachmentsLinked'
  <2> SUFFICES ASSUME NEW u \in Url, attachments[u] # Nil
               PROVE  /\ notices'[attachments[u].notice] # Nil
                      /\ attachments[u].version # Nil
                           => versions'[attachments[u].notice][attachments[u].version] # Nil
    BY <1>3 DEF AttachmentsLinked
  <2>1. attachments[u].notice \in Notice /\ attachments[u].version \in Content \cup {Nil}
    BY <1>3 DEF RowsInv, AttachmentRow
  <2> QED
    BY <1>3, <1>13, <2>1 DEF RowsInv, AttachmentsLinked, RowsStay
<1> QED
  BY <1>2, <1>3, <1>11, <1>12, <1>13, <1>14, <1>15, <1>16 DEF RowsInv

\* The version an attachment is linked to is one of its notice.
LEMMA LinkIsThere ==
    ASSUME NoticeInv, NEW w \in Writers, loc[w].pc # "begin"
    PROVE  LET v == LinkedVersion(w)
           IN  /\ v \in Content \cup {Nil}
               /\ v # Nil => versions[loc[w].notice][v] # Nil
<1> DEFINE l == loc[w]
           named == {c \in Content : /\ versions[l.notice][c] # Nil
                                     /\ versions[l.notice][c].no = l.ann.fileVersion}
<1>1. LinkedVersion(w) = IF named # {} THEN CHOOSE c \in named : TRUE ELSE SeenCurrent(w)
  BY DEF LinkedVersion
<1>2. /\ SeenCurrent(w) \in Content \cup {Nil}
      /\ SeenCurrent(w) # Nil => versions[l.notice][SeenCurrent(w)] # Nil
  BY PointerOfNotice
<1>3. \A c \in named : c \in Content /\ versions[l.notice][c] # Nil
  OBVIOUS
<1>4. named # {} => (CHOOSE c \in named : TRUE) \in named
  <2> HIDE DEF named
  <2> QED
    OBVIOUS
<1> HIDE DEF named, l
<1> QED
  BY <1>1, <1>2, <1>3, <1>4 DEF l

\* write_attachment
LEMMA FileRows ==
    ASSUME NoticeInv, NEW w \in Writers, CommitFile(w)
    PROVE  RowsInv' /\ RowsStay
<1>1. /\ NoticeTypeOK /\ Fits(loc[w]) /\ RowsInv /\ loc[w].pc # "begin" /\ loc[w].stage = "file"
  BY NoticeInvGives DEF CommitFile, At
<1>2. loc[w].ann.url \in Url
  <2>1. loc[w].ann \in Announcement /\ loc[w].ann.url # Nil
    BY <1>1, NoticeAssumption DEF Fits
  <2> QED
    BY <2>1 DEF Announcement
<1>3. PICK n \in Notice, u \in Url : n = loc[w].notice /\ u = loc[w].ann.url
  BY <1>1, <1>2 DEF Fits
<1> DEFINE row == NewNotice(w, SeenCurrent(w))
           link == LinkedVersion(w)
<1>4. /\ row \in NoticeRow /\ row # Nil
      /\ row.current # Nil => versions[n][row.current] # Nil
      /\ link \in Content \cup {Nil} /\ (link # Nil => versions[n][link] # Nil)
  BY <1>1, <1>3, PointerOfNotice, LinkIsThere
<1>5. /\ notices' = [notices EXCEPT ![n] = row]
      /\ attachments' = [attachments EXCEPT ![u] = [notice |-> n, version |-> link]]
      /\ versions' = versions
  BY <1>3 DEF CommitFile
<1> HIDE DEF row, link
<1>6. /\ FinitelyMany' /\ VersionsNumbered'
      /\ \A m \in Notice : /\ Cardinality(Stored(m)) \in Nat
                           /\ Cardinality(Stored(m))' = Cardinality(Stored(m))
  BY <1>1, <1>5, VersionsUnchanged
<1>7. /\ notices' \in [Notice -> NoticeRow \cup {Nil}]
      /\ \A m \in Notice : notices[m] # Nil => notices'[m] # Nil
      /\ notices'[n] # Nil
  BY <1>1, <1>4, <1>5 DEF RowsInv
<1>8. PointersLinked'
  BY <1>1, <1>4, <1>5 DEF RowsInv, PointersLinked
<1>9. attachments' \in [Url -> AttachmentRow \cup {Nil}]
  <2>1. [notice |-> n, version |-> link] \in AttachmentRow
    BY <1>4 DEF AttachmentRow
  <2> QED
    BY <1>1, <1>5, <2>1 DEF RowsInv
<1>10. AttachmentsLinked'
  <2> SUFFICES ASSUME NEW t \in Url, attachments'[t] # Nil
               PROVE  /\ notices'[attachments'[t].notice] # Nil
                      /\ attachments'[t].version # Nil
                           => versions'[attachments'[t].notice][attachments'[t].version] # Nil
    BY DEF AttachmentsLinked
  <2>1. CASE t = u
    <3>1. attachments'[t] = [notice |-> n, version |-> link]
      BY <1>1, <1>5, <2>1 DEF RowsInv
    <3> QED
      BY <1>4, <1>5, <1>7, <3>1
  <2>2. CASE t # u
    <3>1. attachments'[t] = attachments[t] /\ attachments[t] \in AttachmentRow
      BY <1>1, <1>5, <2>2 DEF RowsInv
    <3>2. attachments[t].notice \in Notice
      BY <3>1 DEF AttachmentRow
    <3> QED
      BY <1>1, <1>5, <1>7, <3>1, <3>2 DEF RowsInv, AttachmentsLinked
  <2> QED
    BY <2>1, <2>2
<1> QED
  BY <1>1, <1>5, <1>6, <1>7, <1>8, <1>9, <1>10 DEF RowsInv, RowsStay

--------------------------------------------------------------------------------
(* The invariant *)

\* What a session has loaded stays true of rows that stay.
LEMMA RecallsStays ==
    ASSUME NoticeInv, RowsStay, NEW v \in Writers, loc'[v] = loc[v]
    PROVE  Recalls(loc[v])'
<1> DEFINE l == loc[v]
<1>1. NoticeTypeOK /\ Fits(l) /\ Recalls(l)
  BY NoticeInvGives
<1>2. SUFFICES ASSUME l.pc # "begin"
               PROVE  /\ l.seen # Nil =>
                            /\ notices'[l.notice] # Nil
                            /\ l.seen.current # Nil => versions'[l.notice][l.seen.current] # Nil
                      /\ l.pc = "read" =>
                            /\ l.version # Nil =>
                                  /\ versions'[l.notice][l.ann.content] # Nil
                                  /\ versions'[l.notice][l.ann.content].no = l.version.no
                            /\ l.no \in 1..Cardinality({c \in Content : versions'[l.notice][c] # Nil}) + 1
  BY DEF Recalls, Stored
<1>3. PICK n \in Notice : n = l.notice
  BY <1>1, <1>2 DEF Fits
<1>4. l.pc = "read" => l.ann.content \in Content
  <2>1. l.pc = "read" => l.ann \in Announcement
    BY <1>1, NoticeAssumption DEF Fits
  <2> QED
    BY <2>1 DEF Announcement
<1>5. l.seen # Nil => l.seen.current \in Content \cup {Nil}
  <2>1. l.seen # Nil => l.seen \in NoticeRow
    BY <1>1 DEF NoticeTypeOK, Local
  <2> QED
    BY <2>1 DEF NoticeRow
<1>6. /\ notices[n] # Nil => notices'[n] # Nil
      /\ \A c \in Content :
            versions[n][c] # Nil => versions'[n][c] # Nil /\ versions'[n][c].no = versions[n][c].no
      /\ Cardinality(Stored(n)) \in Nat
      /\ Cardinality({c \in Content : versions'[n][c] # Nil}) \in Nat
      /\ Cardinality(Stored(n)) <= Cardinality({c \in Content : versions'[n][c] # Nil})
  BY DEF RowsStay, Stored
<1>7. l.pc = "read" => l.no \in 1..Cardinality({c \in Content : versions'[n][c] # Nil}) + 1
  <2>1. l.pc = "read" => l.no \in 1..Cardinality(Stored(n)) + 1
    BY <1>1, <1>3 DEF Recalls
  <2> HIDE DEF l
  <2> QED
    BY <1>6, <2>1
<1> QED
  BY <1>1, <1>2, <1>3, <1>4, <1>5, <1>6, <1>7 DEF Recalls

\* After a step each session is as before, at the beginning of an item, or has
\* just read what is there.
SessionsStep ==
    \A v \in Writers : /\ Fits(loc'[v])
                       /\ \/ loc'[v] = loc[v]
                          \/ loc'[v].pc = "begin"
                          \/ Recalls(loc[v])'

\* One step of a writer that ends its transaction.
LEMMA EndStep ==
    ASSUME NoticeInv, NEW w \in Writers, loc[w].stage # "idle", End(w)
    PROVE  SessionsStep /\ loc' \in [Writers -> Local] /\ lock' \in [Notice -> Writers \cup {Nil}]
<1>1. \A v \in Writers : Fits(loc[v])
  BY DEF NoticeInv, Sessions
<1>2. /\ loc' \in [Writers -> Local] /\ lock' \in [Notice -> Writers \cup {Nil}]
      /\ loc'[w].pc = "begin" /\ Fits(loc'[w])
      /\ \A v \in Writers \ {w} : loc'[v] = loc[v]
  BY <1>1, EndKeeps DEF NoticeInv
<1> QED
  BY <1>1, <1>2 DEF SessionsStep

LEMMA FetchStep ==
    ASSUME NoticeInv, NEW w \in Writers, NEW a \in Announcements, Fetch(w, a)
    PROVE  SessionsStep /\ loc' \in [Writers -> Local]
<1>1. \A v \in Writers : Fits(loc[v])
  BY DEF NoticeInv, Sessions
<1>2. /\ loc' \in [Writers -> Local] /\ loc'[w].pc = "begin" /\ Fits(loc'[w])
      /\ \A v \in Writers \ {w} : loc'[v] = loc[v]
  BY FetchKeeps DEF NoticeInv
<1> QED
  BY <1>1, <1>2 DEF SessionsStep

LEMMA ResolveStep ==
    ASSUME NoticeInv, NEW w \in Writers, Resolve(w)
    PROVE  SessionsStep /\ loc' \in [Writers -> Local]
<1>1. \A v \in Writers : Fits(loc[v])
  BY DEF NoticeInv, Sessions
<1>2. /\ loc' \in [Writers -> Local] /\ loc'[w].pc = "resolved" /\ Fits(loc'[w])
      /\ loc'[w].seen = notices[loc'[w].notice]
      /\ \A v \in Writers \ {w} : loc'[v] = loc[v]
  BY ResolveKeeps
<1>3. notices' = notices /\ versions' = versions
  BY DEF Resolve
<1>4. PICK n \in Notice : n = loc'[w].notice
  BY <1>2 DEF Fits
<1>5. notices[n] # Nil /\ notices[n].current # Nil => versions[n][notices[n].current] # Nil
  BY DEF NoticeInv, PointersLinked
<1>6. Recalls(loc[w])'
  BY <1>2, <1>3, <1>4, <1>5 DEF Recalls
<1> QED
  BY <1>1, <1>2, <1>6 DEF SessionsStep

LEMMA ReadStep ==
    ASSUME NoticeInv, NEW w \in Writers, ReadVersions(w)
    PROVE  /\ SessionsStep /\ loc' \in [Writers -> Local]
           /\ lock' \in [Notice -> Writers \cup {Nil}]
<1>1. \A v \in Writers : Fits(loc[v])
  BY DEF NoticeInv, Sessions
<1>2. /\ loc' \in [Writers -> Local]
      /\ lock' \in [Notice -> Writers \cup {Nil}]
      /\ loc'[w].pc = "read" /\ Fits(loc'[w])
      /\ loc'[w].notice = loc[w].notice /\ loc'[w].seen = loc[w].seen
      /\ loc'[w].ann = loc[w].ann
      /\ loc'[w].version = versions[loc[w].notice][loc[w].ann.content]
      /\ loc'[w].no = Cardinality(Stored(loc[w].notice)) + 1
      /\ \A v \in Writers \ {w} : loc'[v] = loc[v]
  BY ReadKeeps
<1>3. notices' = notices /\ versions' = versions
  BY DEF ReadVersions
<1>4. loc[w].pc # "begin" /\ Recalls(loc[w])
  BY NoticeInvGives DEF ReadVersions, At
<1>5. PICK n \in Notice : n = loc[w].notice
  BY <1>1, <1>4 DEF Fits
<1>6. Stored(n)' = Stored(n) /\ Cardinality(Stored(n)) \in Nat
  BY <1>3, FS_CardinalityType DEF NoticeInv, FinitelyMany, Stored
<1>7. loc'[w].no \in 1..Cardinality(Stored(n))' + 1
  BY <1>2, <1>5, <1>6
<1>8. Recalls(loc[w])'
  <2> DEFINE r == loc'[w]
  <2>1. r.no \in 1..Cardinality({c \in Content : versions'[n][c] # Nil}) + 1
    BY <1>7 DEF Stored
  <2>2. /\ r.seen # Nil => /\ notices'[n] # Nil
                           /\ r.seen.current # Nil => versions'[n][r.seen.current] # Nil
        /\ r.version # Nil => /\ versions'[n][r.ann.content] # Nil
                              /\ versions'[n][r.ann.content].no = r.version.no
        /\ r.notice = n
    BY <1>2, <1>3, <1>4, <1>5 DEF Recalls
  <2> QED
    BY <2>1, <2>2 DEF Recalls, Stored
<1> QED
  BY <1>1, <1>2, <1>8 DEF SessionsStep

LEMMA CrashStep ==
    ASSUME NoticeInv, NEW w \in Writers, Crash(w)
    PROVE  /\ SessionsStep /\ loc' \in [Writers -> Local]
           /\ lock' \in [Notice -> Writers \cup {Nil}]
<1>1. \A v \in Writers : Fits(loc[v])
  BY DEF NoticeInv, Sessions
<1>2. Idle \in Local /\ Idle.pc = "begin" /\ Fits(Idle)
  BY IdleTyped DEF Idle, Fits
<1>3. loc' = [v \in Writers |-> IF v = w \/ OneProcess THEN Idle ELSE loc[v]]
      /\ lock' = [n \in Notice |-> IF lock[n] = w \/ OneProcess THEN Nil ELSE lock[n]]
  BY DEF Crash
<1>4. loc \in [Writers -> Local] /\ lock \in [Notice -> Writers \cup {Nil}]
  BY DEF NoticeInv, NoticeTypeOK
<1>5. SessionsStep
  BY <1>1, <1>2, <1>3 DEF SessionsStep
<1> QED
  BY <1>2, <1>3, <1>4, <1>5

\* One step of a writer, action by action.
LEMMA WriterStep ==
    ASSUME NoticeInv, Next
    PROVE  /\ RowsInv' /\ RowsStay /\ SessionsStep
           /\ loc' \in [Writers -> Local] /\ lock' \in [Notice -> Writers \cup {Nil}]
           /\ faults' \in 0..MaxFaults
<1> DEFINE Goal == /\ RowsInv' /\ RowsStay /\ SessionsStep
                   /\ loc' \in [Writers -> Local] /\ lock' \in [Notice -> Writers \cup {Nil}]
                   /\ faults' \in 0..MaxFaults
<1>1. RowsInv /\ lock \in [Notice -> Writers \cup {Nil}] /\ faults \in 0..MaxFaults
  BY DEF NoticeInv, NoticeTypeOK, RowsInv
<1>2. PICK w \in Writers :
         \/ \E a \in Announcements : Fetch(w, a)
         \/ Suppress(w) \/ Resolve(w) \/ DropFile(w)
         \/ CommitNotice(w)
         \/ ReadVersions(w) \/ CommitVersion(w)
         \/ CommitFile(w)
         \/ Reject(w) \/ Lose(w) \/ Crash(w)
  BY DEF Next
<1>3. ASSUME UNCHANGED <<notices, versions, attachments>>
      PROVE  RowsInv' /\ RowsStay
  BY <1>1, <1>3, RowsUnchanged
<1>4. CASE \E a \in Announcements : Fetch(w, a)
  BY <1>1, <1>3, <1>4, FetchStep DEF Fetch
<1>5. CASE Suppress(w)
  <2>1. loc[w].stage # "idle" /\ End(w)
    BY <1>5 DEF Suppress, At
  <2> QED
    BY <1>1, <1>3, <1>5, <2>1, EndStep DEF Suppress
<1>6. CASE Resolve(w)
  BY <1>1, <1>3, <1>6, ResolveStep DEF Resolve
<1>7. CASE DropFile(w)
  <2>1. loc[w].stage # "idle" /\ End(w)
    BY <1>7 DEF DropFile, At
  <2> QED
    BY <1>1, <1>3, <1>7, <2>1, EndStep DEF DropFile
<1>8. CASE CommitNotice(w)
  <2>1. loc[w].stage # "idle" /\ End(w) /\ faults' = faults
    BY <1>8 DEF CommitNotice, At
  <2> QED
    BY <1>1, <1>8, <2>1, EndStep, NoticeRows
<1>9. CASE ReadVersions(w)
  BY <1>1, <1>3, <1>9, ReadStep DEF ReadVersions
<1>10. CASE CommitVersion(w)
  <2>1. loc[w].stage # "idle" /\ End(w) /\ faults' = faults
    BY <1>10 DEF CommitVersion, At
  <2> QED
    BY <1>1, <1>10, <2>1, EndStep, VersionRows
<1>11. CASE CommitFile(w)
  <2>1. loc[w].stage # "idle" /\ End(w) /\ faults' = faults
    BY <1>11 DEF CommitFile, At
  <2> QED
    BY <1>1, <1>11, <2>1, EndStep, FileRows
<1>12. CASE Reject(w)
  <2>1. loc[w].stage # "idle" /\ End(w)
    BY <1>12 DEF Reject, At
  <2> QED
    BY <1>1, <1>3, <1>12, <2>1, EndStep DEF Reject
<1>13. ASSUME faults < MaxFaults, faults' = faults + 1 PROVE faults' \in 0..MaxFaults
  BY <1>1, <1>13, NoticeAssumption
<1>14. CASE Lose(w)
  <2>1. loc[w].stage # "idle" /\ End(w)
    BY <1>14 DEF Lose
  <2> QED
    BY <1>1, <1>3, <1>13, <1>14, <2>1, EndStep DEF Lose
<1>15. CASE Crash(w)
  BY <1>1, <1>3, <1>13, <1>15, CrashStep DEF Crash
<1> QED
  BY <1>2, <1>4, <1>5, <1>6, <1>7, <1>8, <1>9, <1>10, <1>11, <1>12, <1>14, <1>15

\* The invariant holds at first and is kept by every step.
LEMMA NoticeInvHolds == Spec => []NoticeInv
<1>1. Init => NoticeInv
  <2> SUFFICES ASSUME Init PROVE NoticeInv
    OBVIOUS
  <2>1. NoticeTypeOK
    BY IdleTyped, NoticeAssumption DEF Init, NoticeTypeOK
  <2>2. Sessions
    BY DEF Init, Sessions, Fits, Recalls, Idle
  <2>3. \A n \in Notice : Stored(n) = {} /\ Numbers(n) = {}
    BY DEF Init, Stored, Numbers
  <2>4. \A n \in Notice : IsFiniteSet(Stored(n)) /\ Cardinality(Stored(n)) = 0
    BY <2>3, FS_EmptySet
  <2>5. FinitelyMany
    BY <2>4 DEF FinitelyMany
  <2>6. VersionsNumbered
    <3>1. {} = 1..0
      OBVIOUS
    <3> QED
      BY <2>3, <2>4, <3>1 DEF VersionsNumbered
  <2>7. PointersLinked /\ AttachmentsLinked
    BY DEF Init, PointersLinked, AttachmentsLinked
  <2> QED
    BY <2>1, <2>2, <2>5, <2>6, <2>7 DEF NoticeInv
<1>2. NoticeInv /\ [Next]_noticeVars => NoticeInv'
  <2> SUFFICES ASSUME NoticeInv, [Next]_noticeVars PROVE NoticeInv'
    OBVIOUS
  <2>1. CASE Next
    <3>1. /\ RowsInv' /\ RowsStay /\ SessionsStep
          /\ loc' \in [Writers -> Local] /\ lock' \in [Notice -> Writers \cup {Nil}]
          /\ faults' \in 0..MaxFaults
      BY <2>1, WriterStep
    <3>2. \A v \in Writers : Recalls(loc[v])'
      <4> SUFFICES ASSUME NEW v \in Writers PROVE Recalls(loc[v])'
        OBVIOUS
      <4>1. CASE loc'[v] = loc[v]
        BY <3>1, <4>1, RecallsStays
      <4>2. CASE loc'[v].pc = "begin"
        BY <4>2 DEF Recalls
      <4> QED
        BY <3>1, <4>1, <4>2 DEF SessionsStep
    <3>3. Sessions'
      BY <3>1, <3>2 DEF Sessions, SessionsStep
    <3> QED
      BY <3>1, <3>3 DEF NoticeInv, NoticeTypeOK, RowsInv
  <2>2. CASE UNCHANGED noticeVars
    <3>1. RowsInv
      BY DEF NoticeInv, NoticeTypeOK, RowsInv
    <3>2. RowsInv' /\ RowsStay
      BY <2>2, <3>1, RowsUnchanged DEF noticeVars
    <3>3. \A v \in Writers : Recalls(loc[v])' /\ Fits(loc[v])'
      BY <2>2, <3>2, RecallsStays DEF noticeVars, NoticeInv, Sessions
    <3> QED
      BY <2>2, <3>2, <3>3 DEF NoticeInv, NoticeTypeOK, RowsInv, Sessions, noticeVars
  <2> QED
    BY <2>1, <2>2
<1> QED
  BY <1>1, <1>2, PTL DEF Spec

\* Columns and sessions have their types, for any number of writers.
THEOREM NoticesTyped == Spec => []NoticeTypeOK
<1>1. NoticeInv => NoticeTypeOK
  BY DEF NoticeInv
<1> QED
  BY <1>1, NoticeInvHolds, PTL

\* The versions of a notice are numbered 1, 2, ... whatever processes add them at
\* once: the number a writer has read is the next one or is taken, and what is
\* taken the unique index refuses (write_notice_version).
THEOREM VersionsStayNumbered == Spec => []VersionsNumbered
<1>1. NoticeInv => VersionsNumbered
  BY DEF NoticeInv
<1> QED
  BY <1>1, NoticeInvHolds, PTL

\* An attachment is linked to a notice and a version of it, although the session
\* that links them loaded the notice earlier (write_attachment).
THEOREM AttachmentsStayLinked == Spec => []AttachmentsLinked
<1>1. NoticeInv => AttachmentsLinked
  BY DEF NoticeInv
<1> QED
  BY <1>1, NoticeInvHolds, PTL

--------------------------------------------------------------------------------
(* One current version *)

\* Writers that take turns find what they loaded unchanged when they write.
TurnsInv ==
    /\ \A v, w \in Writers : loc[v].pc # "begin" /\ loc[w].pc # "begin" => v = w
    /\ \A w \in Writers : loc[w].pc # "begin" =>
          /\ loc[w].seen = notices[loc[w].notice]
          /\ loc[w].pc = "read" => loc[w].version = versions[loc[w].notice][loc[w].ann.content]

\* Of one notice: no version and no pointer, or one that is current and the one
\* the notice points to.
OneCurrent(n) ==
    IF Stored(n) = {} THEN notices[n] = Nil \/ notices[n].current = Nil
    ELSE notices[n] # Nil /\ {c \in Stored(n) : versions[n][c].current} = {notices[n].current}

\* A notice that is written with its pointer as it is.
LEMMA PointerKept ==
    ASSUME NoticeTypeOK, OneCurrentVersion, NEW n \in Notice, NEW row,
           row.current = IF notices[n] = Nil THEN Nil ELSE notices[n].current, row # Nil,
           notices' = [notices EXCEPT ![n] = row], versions' = versions
    PROVE  OneCurrentVersion'
<1> SUFFICES ASSUME NEW m \in Notice PROVE OneCurrent(m)'
  BY DEF OneCurrentVersion, OneCurrent
<1>1. OneCurrent(m) /\ OneCurrent(n)
  BY DEF OneCurrentVersion, OneCurrent
<1>2. Stored(m)' = Stored(m)
  BY DEF Stored
<1>3. notices'[n] = row /\ (m # n => notices'[m] = notices[m])
  BY DEF NoticeTypeOK
<1> QED
  BY <1>1, <1>2, <1>3 DEF OneCurrent

\* write_notice and write_attachment
LEMMA WriteKeepsPointer ==
    ASSUME NoticeInv, TurnsInv, OneCurrentVersion, NEW w \in Writers, loc[w].pc # "begin",
           notices' = [notices EXCEPT ![loc[w].notice] = NewNotice(w, SeenCurrent(w))],
           versions' = versions
    PROVE  OneCurrentVersion'
<1>1. PICK n \in Notice : n = loc[w].notice
  BY PointerOfNotice
<1>2. NoticeTypeOK /\ loc[w].seen = notices[n]
  BY <1>1 DEF NoticeInv, TurnsInv
<1>3. /\ NewNotice(w, SeenCurrent(w)) # Nil
      /\ NewNotice(w, SeenCurrent(w)).current
            = IF notices[n] = Nil THEN Nil ELSE notices[n].current
  BY <1>1, <1>2, PointerOfNotice
<1> QED
  BY <1>1, <1>2, <1>3, PointerKept

\* write_notice_version
LEMMA VersionIsCurrent ==
    ASSUME NoticeInv, TurnsInv, OneCurrentVersion, NEW w \in Writers, CommitVersion(w)
    PROVE  OneCurrentVersion'
<1>1. PICK n \in Notice, c \in Content : n = loc[w].notice /\ c = loc[w].ann.content
  BY VersionCommitted
<1>2. /\ loc[w].pc = "read"
      /\ versions'[n][c] = NewVersion(w) /\ NewVersion(w) # Nil
      /\ \A d \in Content \ {c} : versions'[n][d] = Demoted(versions[n][d])
      /\ \A m \in Notice \ {n} : versions'[m] = versions[m]
      /\ notices' = [notices EXCEPT ![n] = NewNotice(w, c)] /\ NewNotice(w, c) # Nil
      /\ NewNotice(w, c).current
           = IF loc[w].seen # Nil /\ c = loc[w].seen.current THEN notices[n].current ELSE c
  BY <1>1, VersionCommitted
<1>3. NoticeTypeOK /\ Fits(loc[w]) /\ Recalls(loc[w]) /\ RowsInv
  BY NoticeInvGives
<1>4. loc[w].seen = notices[n] /\ loc[w].version = versions[n][c]
  BY <1>1, <1>2 DEF TurnsInv
<1>5. notices'[n] = NewNotice(w, c) /\ NewNotice(w, c).current = c
      /\ \A m \in Notice \ {n} : notices'[m] = notices[m]
  BY <1>2, <1>3, <1>4 DEF NoticeTypeOK
<1>6. versions'[n][c].current = TRUE
  <2>1. /\ NewVersion(w) \in VersionRow
        /\ loc[w].version = Nil => NewVersion(w).current
        /\ loc[w].version # Nil =>
              /\ loc[w].version.current => NewVersion(w).current = versions[n][c].current
              /\ ~loc[w].version.current => NewVersion(w).current
    BY <1>1, <1>2, <1>3, NewVersionTyped
  <2>2. NewVersion(w).current \in BOOLEAN
    BY <2>1 DEF VersionRow
  <2>3. NewVersion(w).current
    <3>1. CASE loc[w].version = Nil
      BY <2>1, <3>1, Zenon
    <3>2. CASE loc[w].version # Nil
      BY <1>4, <2>1, <3>2, Zenon
    <3> QED
      BY <3>1, <3>2
  <2> QED
    BY <1>2, <2>2, <2>3
<1>7. \A d \in Content \ {c} : versions'[n][d] # Nil => versions'[n][d].current = FALSE
  <2> SUFFICES ASSUME NEW d \in Content \ {c}, versions'[n][d] # Nil
               PROVE  versions'[n][d].current = FALSE
    OBVIOUS
  <2>1. versions[n][d] \in VersionRow \cup {Nil} /\ versions'[n][d] = Demoted(versions[n][d])
    BY <1>2, <1>3 DEF RowsInv
  <2> DEFINE row == versions[n][d]
  <2> HIDE DEF row
  <2>2. /\ row = Nil => Demoted(row) = Nil
        /\ row # Nil => Demoted(row).current = FALSE
    BY <2>1, DemotedTyped DEF row
  <2> QED
    BY <2>1, <2>2 DEF row
<1> SUFFICES ASSUME NEW m \in Notice PROVE OneCurrent(m)'
  BY DEF OneCurrentVersion, OneCurrent
<1>8. CASE m # n
  <2>1. OneCurrent(m)
    BY DEF OneCurrentVersion, OneCurrent
  <2>2. versions'[m] = versions[m] /\ notices'[m] = notices[m] /\ Stored(m)' = Stored(m)
    BY <1>2, <1>5, <1>8 DEF Stored
  <2> QED
    BY <2>1, <2>2 DEF OneCurrent
<1>9. CASE m = n
  <2>1. c \in Stored(m)'
    BY <1>2, <1>9 DEF Stored
  <2>2. {d \in Stored(m)' : versions'[m][d].current} = {c}
    <3>1. \A d \in Stored(m)' : d # c => versions'[m][d].current = FALSE
      BY <1>7, <1>9 DEF Stored
    <3> QED
      BY <1>6, <1>9, <2>1, <3>1
  <2> QED
    BY <1>2, <1>5, <1>9, <2>1, <2>2 DEF OneCurrent
<1> QED
  BY <1>8, <1>9

\* A transaction that ends leaves the others as they are.
LEMMA EndTurns ==
    ASSUME NoticeInv, TurnsInv, NEW w \in Writers, loc[w].stage # "idle", End(w),
           UNCHANGED <<notices, versions>> \/ loc[w].pc # "begin"
    PROVE  TurnsInv'
<1>1. loc'[w].pc = "begin" /\ \A v \in Writers \ {w} : loc'[v] = loc[v]
  <2>1. NoticeTypeOK /\ Fits(loc[w])
    BY NoticeInvGives
  <2> QED
    BY <2>1, EndKeeps
<1>2. loc[w].pc # "begin" => \A v \in Writers : loc'[v].pc = "begin"
  BY <1>1 DEF TurnsInv
<1> QED
  BY <1>1, <1>2 DEF TurnsInv

\* One step of one of the writers of a process.
LEMMA TurnsStep ==
    ASSUME OneProcess, NoticeInv, TurnsInv, OneCurrentVersion, Next
    PROVE  TurnsInv' /\ OneCurrentVersion'
<1>1. PICK w \in Writers :
         \/ \E a \in Announcements : Fetch(w, a)
         \/ Suppress(w) \/ Resolve(w) \/ DropFile(w)
         \/ CommitNotice(w)
         \/ ReadVersions(w) \/ CommitVersion(w)
         \/ CommitFile(w)
         \/ Reject(w) \/ Lose(w) \/ Crash(w)
  BY DEF Next
<1>2. ASSUME UNCHANGED <<notices, versions>> PROVE OneCurrentVersion'
  BY <1>2 DEF OneCurrentVersion, Stored
<1>3. NoticeTypeOK /\ Fits(loc[w])
  BY NoticeInvGives
<1>4. CASE \E a \in Announcements : Fetch(w, a)
  <2>1. PICK a \in Announcements : Fetch(w, a)
    BY <1>4
  <2>2. /\ loc'[w].pc = "begin" /\ \A v \in Writers \ {w} : loc'[v] = loc[v]
        /\ UNCHANGED <<notices, versions>>
    BY <1>3, <2>1, FetchKeeps DEF Fetch
  <2> QED
    BY <1>2, <2>2 DEF TurnsInv
<1>5. CASE Suppress(w) \/ DropFile(w) \/ Reject(w) \/ Lose(w)
  <2>1. loc[w].stage # "idle" /\ End(w) /\ UNCHANGED <<notices, versions>>
    BY <1>5 DEF Suppress, DropFile, Reject, Lose, At
  <2> QED
    BY <1>2, <2>1, EndTurns
<1>6. CASE Resolve(w)
  <2>1. /\ loc'[w].seen = notices[loc'[w].notice] /\ loc'[w].pc = "resolved"
        /\ \A v \in Writers \ {w} : loc'[v] = loc[v]
    BY <1>6, ResolveKeeps
  <2>2. \A v \in Writers \ {w} : loc[v].pc = "begin"
    BY <1>6 DEF Resolve, MayBegin
  <2>3. UNCHANGED <<notices, versions>>
    BY <1>6 DEF Resolve
  <2> QED
    BY <1>2, <2>1, <2>2, <2>3 DEF TurnsInv
<1>7. CASE CommitNotice(w)
  <2>1. /\ loc[w].stage # "idle" /\ loc[w].pc # "begin" /\ End(w) /\ versions' = versions
        /\ notices' = [notices EXCEPT ![loc[w].notice] = NewNotice(w, SeenCurrent(w))]
    BY <1>7 DEF CommitNotice, At
  <2> QED
    BY <2>1, EndTurns, WriteKeepsPointer
<1>8. CASE ReadVersions(w)
  <2>1. /\ loc'[w].pc = "read" /\ loc[w].pc = "resolved"
        /\ loc'[w].notice = loc[w].notice /\ loc'[w].seen = loc[w].seen
        /\ loc'[w].ann = loc[w].ann
        /\ loc'[w].version = versions[loc[w].notice][loc[w].ann.content]
        /\ \A v \in Writers \ {w} : loc'[v] = loc[v]
        /\ UNCHANGED <<notices, versions>>
    BY <1>8, ReadKeeps DEF ReadVersions, At
  <2>2. loc[w].seen = notices[loc[w].notice] /\ \A v \in Writers \ {w} : loc[v].pc = "begin"
    BY <2>1 DEF TurnsInv
  <2>3. \A v \in Writers : loc'[v].pc # "begin" => v = w
    BY <2>1, <2>2
  <2>4. /\ loc'[w].seen = notices'[loc'[w].notice]
        /\ loc'[w].version = versions'[loc'[w].notice][loc'[w].ann.content]
    BY <2>1, <2>2
  <2>5. TurnsInv'
    BY <2>3, <2>4 DEF TurnsInv
  <2> QED
    BY <1>2, <2>1, <2>5
<1>9. CASE CommitVersion(w)
  <2>1. loc[w].stage # "idle" /\ loc[w].pc # "begin" /\ End(w)
    BY <1>9 DEF CommitVersion, At
  <2> QED
    BY <1>9, <2>1, EndTurns, VersionIsCurrent
<1>10. CASE CommitFile(w)
  <2>1. /\ loc[w].stage # "idle" /\ loc[w].pc # "begin" /\ End(w) /\ versions' = versions
        /\ notices' = [notices EXCEPT ![loc[w].notice] = NewNotice(w, SeenCurrent(w))]
    BY <1>10 DEF CommitFile, At
  <2> QED
    BY <2>1, EndTurns, WriteKeepsPointer
<1>11. CASE Crash(w)
  <2>1. \A v \in Writers : loc'[v] = Idle
    BY <1>11 DEF Crash
  <2>2. Idle.pc = "begin"
    BY DEF Idle
  <2>3. UNCHANGED <<notices, versions>>
    BY <1>11 DEF Crash
  <2> QED
    BY <1>2, <2>1, <2>2, <2>3 DEF TurnsInv
<1> QED
  BY <1>1, <1>4, <1>5, <1>6, <1>7, <1>8, <1>9, <1>10, <1>11

\* In one process, whose callbacks write item by item, a notice with versions has
\* exactly one that is current, and points to it, whatever is lost or killed
\* between items (write_notice_version).  With two processes it does not hold.
THEOREM OneCurrentInOneProcess == OneProcess => (Spec => []OneCurrentVersion)
<1> SUFFICES ASSUME OneProcess PROVE Spec => []OneCurrentVersion
  OBVIOUS
<1>1. Init => TurnsInv /\ OneCurrentVersion
  <2> SUFFICES ASSUME Init PROVE TurnsInv /\ OneCurrentVersion
    OBVIOUS
  <2>1. TurnsInv
    BY DEF Init, TurnsInv, Idle
  <2>2. \A n \in Notice : Stored(n) = {} /\ notices[n] = Nil
    BY DEF Init, Stored
  <2> QED
    BY <2>1, <2>2 DEF OneCurrentVersion
<1>2. NoticeInv /\ TurnsInv /\ OneCurrentVersion /\ [Next]_noticeVars
         => TurnsInv' /\ OneCurrentVersion'
  <2>1. ASSUME NoticeInv, TurnsInv, OneCurrentVersion, Next PROVE TurnsInv' /\ OneCurrentVersion'
    BY <2>1, TurnsStep
  <2>2. ASSUME TurnsInv, OneCurrentVersion, UNCHANGED noticeVars
        PROVE  TurnsInv' /\ OneCurrentVersion'
    BY <2>2 DEF TurnsInv, OneCurrentVersion, Stored, noticeVars
  <2> QED
    BY <2>1, <2>2
<1> QED
  BY <1>1, <1>2, NoticeInvHolds, PTL DEF Spec

----------------------------------------------------------------------------
(* A notice shows its current version.  Between the transaction that       *)
(* writes the notice and the one that writes the version a notice is ahead *)
(* of its version; then some callback still owes the version, and whatever *)
(* the others store meanwhile, its item finds that notice again by its id  *)
(* and is not refused.  An attachment would put its own keys on the notice *)
(* and the version of an announcement without an id may be refused, so     *)
(* both are left out here.                                                 *)

Plain == \A a \in Announcements : a.ext # Nil /\ a.url = Nil

\* No two notices have an external id or a hash in common.
KeysUnique ==
    \A n \in Notice : notices[n] # Nil =>
        /\ notices[n].ext # Nil
        /\ \A m \in Notice \ {n} : notices[m] # Nil =>
              notices[m].ext # notices[n].ext /\ notices[m].hash # notices[n].hash

\* The number read for a new version is not taken meanwhile.
NumberFree == \A w \in Writers : loc[w].pc = "read" => loc[w].no \notin Numbers(loc[w].notice)

Agrees(n) ==
    notices[n].current # Nil =>
        LET v == versions[n][notices[n].current] IN
        /\ notices[n].type = v.type
        /\ notices[n].look = v.look
        /\ notices[n].sourceKey = v.sourceKey
        /\ notices[n].dedupKey = v.dedupKey

\* The next item of the callback is the version of what the notice says.
Owes(w, n) ==
    /\ loc[w].stage = "version"
    /\ loc[w].ann.ext = notices[n].ext /\ loc[w].ann.hash = notices[n].hash
    /\ loc[w].pc # "begin" => loc[w].notice = n

AgreesOrOwed(n) == notices[n] # Nil => Agrees(n) \/ \E w \in Writers : Owes(w, n)

Owed == faults = 0 => \A n \in Notice : AgreesOrOwed(n)

SnapshotInv == KeysUnique /\ NumberFree /\ Owed

\* What a plain announcement makes of a row: its own columns.
LEMMA AppliedColumns ==
    ASSUME NEW seen \in NoticeRow \cup {Nil}, NEW i, NEW current, i.ext # Nil, i.look # Nil
    PROVE  LET row == [Applied(seen, i) EXCEPT !.current = current] IN
           /\ row.ext = i.ext /\ row.hash = i.hash
           /\ row.sourceKey = i.sourceKey /\ row.dedupKey = i.dedupKey
           /\ row.look = i.look /\ row.type = i.type
  BY DEF Applied

\* A flush of a row that is still the loaded one.
LEMMA FlushedColumns ==
    ASSUME NEW row \in NoticeRow, NEW new \in NoticeRow
    PROVE  Flushed(row, row, new) = new
<1>1. DOMAIN row = DOMAIN new /\ new = [c \in DOMAIN new |-> new[c]]
  BY DEF NoticeRow
<1>2. Flushed(row, row, new) = [c \in DOMAIN new |-> new[c]]
  BY <1>1 DEF Flushed
<1> QED
  BY <1>1, <1>2

LEMMA FlushedVersionColumns ==
    ASSUME NEW row \in VersionRow, NEW new \in VersionRow
    PROVE  Flushed(row, row, new) = new
<1>1. DOMAIN row = DOMAIN new /\ new = [c \in DOMAIN new |-> new[c]]
  BY DEF VersionRow
<1>2. Flushed(row, row, new) = [c \in DOMAIN new |-> new[c]]
  BY <1>1 DEF Flushed
<1> QED
  BY <1>1, <1>2

\* The items of plain announcements.
LEMMA PlainItem ==
    ASSUME Plain, NoticeTypeOK, NEW w \in Writers, Fits(loc[w]), loc[w].stage # "idle"
    PROVE  LET i == ItemOf(w) IN
           /\ loc[w].stage \in {"notice", "version"} /\ loc[w].ann \in Announcements
           /\ i.ext = loc[w].ann.ext /\ i.hash = loc[w].ann.hash
           /\ i.ext \in Ext /\ i.ext # Nil /\ i.hash \in Hash
           /\ i.sourceKey \in Key /\ i.dedupKey \in Key
           /\ i.look \in Look /\ i.look # Nil /\ i.type \in Type
<1> DEFINE l == loc[w]
<1>1. l.ann \in Announcements /\ l.stage \in Stage
  BY StageOf
<1>2. l.stage # "file"
  BY <1>1 DEF Plain, Fits
<1>3. l.ann.ext # Nil
  BY <1>1 DEF Plain
<1>4. Nil \notin Look
  BY NoticeAssumption
<1>5. PICK a, s : a = l.ann /\ s = l.stage /\ a \in Announcements /\ s \in Stage /\ s # "file"
                  /\ a.ext # Nil
  BY <1>1, <1>2, <1>3
<1>6. ItemOf(w) = Item(a, s)
  BY <1>5 DEF ItemOf
<1>7. Item(a, s).ext = a.ext /\ Item(a, s).hash = a.hash
  BY DEF Item
<1> HIDE DEF l
<1>8. /\ Item(a, s).ext \in Ext /\ Item(a, s).hash \in Hash /\ Item(a, s).sourceKey \in Key
      /\ Item(a, s).dedupKey \in Key /\ Item(a, s).look \in Look /\ Item(a, s).type \in Type
  BY <1>5, <1>7, ItemTyped
<1> QED
  BY <1>4, <1>5, <1>6, <1>7, <1>8 DEF Stage, l

\* What a transaction of a process writes is the item.
LEMMA NoticeIsItem ==
    ASSUME Plain, NoticeInv, TurnsInv, NEW w \in Writers, loc[w].pc # "begin",
           NEW current \in Content \cup {Nil}
    PROVE  LET row == NewNotice(w, current)
               i == ItemOf(w)
           IN  /\ row.ext = i.ext /\ row.hash = i.hash
               /\ row.sourceKey = i.sourceKey /\ row.dedupKey = i.dedupKey
               /\ row.look = i.look /\ row.type = i.type
<1> DEFINE l == loc[w]
           i == ItemOf(w)
<1>1. NoticeTypeOK /\ Fits(l) /\ Recalls(l) /\ l.stage # "idle" /\ l.notice \in Notice
  BY NoticeInvGives DEF Fits
<1>2. /\ i.ext \in Ext /\ i.ext # Nil /\ i.hash \in Hash /\ i.sourceKey \in Key
      /\ i.dedupKey \in Key /\ i.look \in Look /\ i.look # Nil /\ i.type \in Type
  BY <1>1, PlainItem
<1>3. l.seen \in NoticeRow \cup {Nil}
  BY <1>1 DEF NoticeTypeOK, Local
<1> DEFINE target == [Applied(l.seen, i) EXCEPT !.current = current]
<1>4. Target(w, current) = target
  BY DEF Target
<1>5. /\ target \in NoticeRow
      /\ target.ext = i.ext /\ target.hash = i.hash
      /\ target.sourceKey = i.sourceKey /\ target.dedupKey = i.dedupKey
      /\ target.look = i.look /\ target.type = i.type
  <2> HIDE DEF l, i
  <2> QED
    BY <1>2, <1>3, AppliedTyped, AppliedColumns
<1>6. NewNotice(w, current) = target
  <2> HIDE DEF i, target
  <2>1. CASE l.seen = Nil
    BY <1>4, <2>1 DEF NewNotice
  <2>2. CASE l.seen # Nil
    <3>1. l.seen \in NoticeRow /\ notices[l.notice] = l.seen
      BY <1>3, <2>2 DEF TurnsInv
    <3>2. NewNotice(w, current) = Flushed(notices[l.notice], l.seen, target)
      BY <1>4, <2>2 DEF NewNotice
    <3> QED
      BY <1>5, <3>1, <3>2, FlushedColumns
  <2> QED
    BY <2>1, <2>2
<1> HIDE DEF target, i
<1> QED
  BY <1>5, <1>6 DEF i

\* The version of a transaction of a process is the item, too.
LEMMA VersionIsItem ==
    ASSUME Plain, NoticeInv, TurnsInv, NEW w \in Writers, loc[w].pc = "read"
    PROVE  LET row == NewVersion(w)
               i == ItemOf(w)
           IN  /\ row.sourceKey = i.sourceKey /\ row.dedupKey = i.dedupKey
               /\ row.look = i.look /\ row.type = i.type
<1> DEFINE l == loc[w]
           i == ItemOf(w)
           no == IF l.version = Nil THEN l.no ELSE l.version.no
           new == [no |-> no, current |-> TRUE,
                   sourceKey |-> i.sourceKey, dedupKey |-> i.dedupKey,
                   look |-> i.look, type |-> i.type]
<1>1. NoticeTypeOK /\ Fits(l) /\ l.stage # "idle" /\ l.pc = "read"
  BY NoticeInvGives DEF Fits
<1>2. i.sourceKey \in Key /\ i.dedupKey \in Key /\ i.look \in Look /\ i.type \in Type
  BY <1>1, PlainItem
<1>3. l.version \in VersionRow \cup {Nil} /\ l.no \in Nat
  BY <1>1 DEF NoticeTypeOK, Local
<1>4. l.version = versions[l.notice][l.ann.content]
  BY <1>1 DEF TurnsInv
<1>5. NewVersion(w) = new
  <2>1. CASE l.version = Nil
    BY <2>1 DEF NewVersion
  <2>2. CASE l.version # Nil
    <3>1. l.version \in VersionRow
      BY <1>3, <2>2
    <3>2. NewVersion(w) = Flushed(l.version, l.version, new)
      BY <1>4, <2>2 DEF NewVersion
    <3>3. no \in Nat
      <4> HIDE DEF l
      <4> QED
        BY <2>2, <3>1 DEF VersionRow
    <3>4. new \in VersionRow
      <4> HIDE DEF i, l, no
      <4> QED
        BY <1>2, <3>3 DEF VersionRow
    <3> HIDE DEF new, l
    <3> QED
      BY <3>1, <3>2, <3>4, FlushedVersionColumns
  <2> QED
    BY <2>1, <2>2
<1> HIDE DEF no, i
<1> QED
  BY <1>5 DEF i

\* Whatever is written, the unique indexes keep the notices apart.
LEMMA WriteUnique ==
    ASSUME Plain, NoticeInv, TurnsInv, KeysUnique, NEW w \in Writers, loc[w].pc # "begin",
           NEW current \in Content \cup {Nil}, ~Clash(w, current),
           notices' = [notices EXCEPT ![loc[w].notice] = NewNotice(w, current)]
    PROVE  KeysUnique'
<1> DEFINE n == loc[w].notice
           row == NewNotice(w, current)
<1>1. NoticeTypeOK /\ Fits(loc[w]) /\ loc[w].stage # "idle" /\ n \in Notice
  BY NoticeInvGives DEF Fits
<1>2. row.ext # Nil
  BY <1>1, PlainItem, NoticeIsItem
<1>3. \A m \in Notice \ {n} : notices[m] # Nil => notices[m].ext # row.ext /\ notices[m].hash # row.hash
  BY <1>2 DEF Clash
<1>4. notices'[n] = row /\ \A m \in Notice \ {n} : notices'[m] = notices[m]
  BY <1>1 DEF NoticeTypeOK
<1> HIDE DEF row, n
<1> QED
  BY <1>2, <1>3, <1>4 DEF KeysUnique

\* A notice other than the one that is written is what it was, and the writer owed
\* it nothing.
LEMMA OwedElsewhere ==
    ASSUME NEW w \in Writers, loc[w].pc # "begin", NEW m \in Notice, AgreesOrOwed(m),
           m # loc[w].notice, notices'[m] = notices[m], versions'[m] = versions[m],
           \A v \in Writers \ {w} : loc'[v] = loc[v]
    PROVE  AgreesOrOwed(m)'
<1>1. Agrees(m)' = Agrees(m)
  BY DEF Agrees
<1>2. ASSUME NEW v \in Writers, Owes(v, m) PROVE Owes(v, m)'
  <2>1. v # w
    BY <1>2 DEF Owes
  <2> QED
    BY <1>2, <2>1 DEF Owes
<1> QED
  BY <1>1, <1>2 DEF AgreesOrOwed

\* A step that writes no row and forgets no debt.
LEMMA DebtsStay ==
    ASSUME Owed, NEW w \in Writers, UNCHANGED <<notices, versions, faults>>,
           \A v \in Writers \ {w} : loc'[v] = loc[v],
           \A n \in Notice : notices[n] # Nil /\ Owes(w, n) => Owes(w, n)'
    PROVE  Owed'
<1> SUFFICES ASSUME faults = 0, NEW n \in Notice PROVE AgreesOrOwed(n)'
  BY DEF Owed
<1>1. AgreesOrOwed(n)
  BY DEF Owed
<1>2. Agrees(n)' = Agrees(n) /\ notices'[n] = notices[n]
  BY DEF Agrees
<1>3. ASSUME NEW v \in Writers, Owes(v, n), notices[n] # Nil PROVE Owes(v, n)'
  BY <1>3 DEF Owes
<1> QED
  BY <1>1, <1>2, <1>3 DEF AgreesOrOwed

\* A notice item is followed by the version item of the same announcement.
LEMMA VersionFollows ==
    ASSUME NoticeTypeOK, NEW w \in Writers, loc[w].stage = "notice", End(w)
    PROVE  /\ loc'[w].stage = "version" /\ loc'[w].pc = "begin"
           /\ loc'[w].ann = loc[w].ann
<1> DEFINE new == [Idle EXCEPT !.stage = "version", !.ann = loc[w].ann]
<1>1. NextStage(loc[w]) = "version"
  BY DEF NextStage
<1>2. Advanced(loc[w]) = new
  BY <1>1 DEF Advanced
<1>3. loc' = [loc EXCEPT ![w] = new]
  BY <1>2 DEF End
<1>4. new.stage = "version" /\ new.pc = "begin" /\ new.ann = loc[w].ann
  BY DEF Idle
<1> HIDE DEF new
<1> QED
  BY <1>3, <1>4 DEF NoticeTypeOK

\* The external id comes first among the rules.
LEMMA ResolvedByExt ==
    ASSUME NEW i, By("ext", i.ext) # {}
    PROVE  Resolved(i) = By("ext", i.ext)
<1> DEFINE rules == <<By("ext", i.ext), By("sourceKey", i.sourceKey), By("dedupKey", i.dedupKey),
                      By("hash", i.hash), LookAlikes(i)>>
           hits == {r \in 1..5 : rules[r] # {}}
           first == CHOOSE r \in hits : \A q \in hits : r <= q
<1>1. Resolved(i) = IF hits = {} THEN {} ELSE rules[first]
  BY DEF Resolved
<1>2. rules[1] = By("ext", i.ext)
  OBVIOUS
<1> HIDE DEF rules
<1>3. 1 \in hits /\ \A q \in hits : q \in Nat /\ 1 <= q
  BY <1>2
<1> HIDE DEF hits
<1>4. first \in hits /\ \A q \in hits : first <= q
  BY <1>3
<1>5. first \in Nat /\ 1 <= first /\ first <= 1
  BY <1>3, <1>4
<1> HIDE DEF first
<1>6. first = 1
  BY <1>5
<1> QED
  BY <1>1, <1>2, <1>3, <1>6

\* A callback that owes a notice its version finds it, and no other.
LEMMA DebtorFinds ==
    ASSUME Plain, NoticeInv, KeysUnique, NEW w \in Writers, Resolve(w),
           NEW n \in Notice, notices[n] # Nil, Owes(w, n)
    PROVE  Owes(w, n)'
<1> DEFINE i == ItemOf(w)
<1>1. NoticeTypeOK /\ Fits(loc[w]) /\ loc[w].stage = "version" /\ loc \in [Writers -> Local]
  BY NoticeInvGives DEF Owes, NoticeTypeOK
<1>2. i.ext = loc[w].ann.ext /\ i.ext # Nil
  BY <1>1, PlainItem
<1>3. notices[n].ext = i.ext
  BY <1>2 DEF Owes
<1> HIDE DEF i
<1>4. By("ext", i.ext) = {n}
  BY <1>2, <1>3 DEF By, KeysUnique
<1>5. Resolved(i) = {n}
  BY <1>4, ResolvedByExt
<1>6. Enters(w, n, notices[n])
  BY <1>5 DEF Resolve, i
<1>7. loc'[w] = [loc[w] EXCEPT !.pc = "resolved", !.notice = n, !.seen = notices[n]]
  BY <1>1, <1>6 DEF Enters
<1>8. loc'[w].stage = loc[w].stage /\ loc'[w].ann = loc[w].ann /\ loc'[w].notice = n
  BY <1>1, <1>7 DEF Local
<1>9. notices' = notices
  BY DEF Resolve
<1> QED
  BY <1>8, <1>9 DEF Owes

\* Its version is not refused: the notice has the id and the hash already, and the
\* number that was read is free.
LEMMA DebtorIsNotRefused ==
    ASSUME Plain, NoticeInv, TurnsInv, KeysUnique, NumberFree, NEW w \in Writers,
           NEW n \in Notice, notices[n] # Nil, Owes(w, n)
    PROVE  ~Reject(w)
<1> SUFFICES ASSUME Reject(w) PROVE FALSE
  OBVIOUS
<1> DEFINE content == loc[w].ann.content
           row == NewNotice(w, content)
<1>1. /\ loc[w].stage = "version" /\ loc[w].pc = "read" /\ loc[w].notice = n
      /\ Clash(w, content) \/ VersionClash(w)
  BY DEF Reject, At, Owes
<1>2. NoticeTypeOK /\ Fits(loc[w]) /\ Recalls(loc[w])
  BY NoticeInvGives
<1>3. content \in Content
  BY <1>1, <1>2, NewVersionTyped
<1>4. row.ext = notices[n].ext /\ row.hash = notices[n].hash
  <2>1. ItemOf(w).ext = loc[w].ann.ext /\ ItemOf(w).hash = loc[w].ann.hash
    BY <1>1, <1>2, PlainItem
  <2>2. content \in Content \cup {Nil} /\ loc[w].pc # "begin"
    BY <1>1, <1>3
  <2> HIDE DEF content
  <2>3. row.ext = ItemOf(w).ext /\ row.hash = ItemOf(w).hash
    BY <2>2, NoticeIsItem
  <2> QED
    BY <2>1, <2>3 DEF Owes
<1>5. ~Clash(w, content)
  BY <1>1, <1>4 DEF Clash, KeysUnique
<1>6. ~VersionClash(w)
  BY <1>1 DEF VersionClash, TurnsInv, NumberFree
<1> QED
  BY <1>1, <1>5, <1>6

\* A write of the notice by its own item leaves the writer in debt.
LEMMA NoticeThenVersion ==
    ASSUME Plain, NoticeInv, TurnsInv, Owed, NEW w \in Writers, CommitNotice(w)
    PROVE  Owed'
<1> DEFINE n == loc[w].notice
           row == NewNotice(w, SeenCurrent(w))
<1>1. /\ loc[w].stage = "notice" /\ loc[w].pc # "begin" /\ End(w)
      /\ notices' = [notices EXCEPT ![n] = row] /\ versions' = versions /\ faults' = faults
  BY DEF CommitNotice, At
<1>2. NoticeTypeOK /\ Fits(loc[w]) /\ loc[w].stage # "idle"
  BY <1>1, NoticeInvGives
<1>3. n \in Notice /\ SeenCurrent(w) \in Content \cup {Nil}
  BY <1>1, PointerOfNotice
<1>4. row.ext = loc[w].ann.ext /\ row.hash = loc[w].ann.hash
  <2>1. ItemOf(w).ext = loc[w].ann.ext /\ ItemOf(w).hash = loc[w].ann.hash
    BY <1>2, PlainItem
  <2> QED
    BY <1>1, <1>3, <2>1, NoticeIsItem
<1>5. /\ loc'[w].stage = "version" /\ loc'[w].pc = "begin" /\ loc'[w].ann = loc[w].ann
      /\ \A v \in Writers \ {w} : loc'[v] = loc[v]
  BY <1>1, <1>2, VersionFollows, EndKeeps
<1>6. notices'[n] = row /\ \A m \in Notice \ {n} : notices'[m] = notices[m]
  BY <1>1, <1>2, <1>3 DEF NoticeTypeOK
<1> HIDE DEF row
<1> SUFFICES ASSUME faults = 0, NEW m \in Notice PROVE AgreesOrOwed(m)'
  BY <1>1 DEF Owed
<1>7. CASE m = n
  <2>1. Owes(w, m)'
    BY <1>4, <1>5, <1>6, <1>7 DEF Owes
  <2> QED
    BY <2>1 DEF AgreesOrOwed
<1>8. CASE m # n
  <2>1. AgreesOrOwed(m)
    BY DEF Owed
  <2> QED
    BY <1>1, <1>5, <1>6, <1>8, <2>1, OwedElsewhere
<1> QED
  BY <1>7, <1>8

\* A write of the version leaves the notice in agreement with it, whoever owed what.
LEMMA VersionThenAgrees ==
    ASSUME Plain, NoticeInv, TurnsInv, Owed, NEW w \in Writers, CommitVersion(w)
    PROVE  Owed'
<1> DEFINE n == loc[w].notice
           c == loc[w].ann.content
           row == NewNotice(w, c)
           version == NewVersion(w)
<1>1. /\ n \in Notice /\ c \in Content /\ loc[w].pc = "read"
      /\ versions'[n][c] = version
      /\ \A m \in Notice \ {n} : versions'[m] = versions[m]
      /\ notices' = [notices EXCEPT ![n] = row]
      /\ row.current = IF loc[w].seen # Nil /\ c = loc[w].seen.current
                       THEN notices[n].current ELSE c
  BY VersionCommitted
<1>2. NoticeTypeOK /\ Fits(loc[w]) /\ loc[w].stage # "idle" /\ End(w) /\ faults' = faults
  BY NoticeInvGives DEF CommitVersion, At
<1>3. row.current = c
  BY <1>1 DEF TurnsInv
<1>4. /\ row.type = version.type /\ row.look = version.look
      /\ row.sourceKey = version.sourceKey /\ row.dedupKey = version.dedupKey
  <2>1. c \in Content \cup {Nil} /\ loc[w].pc # "begin"
    BY <1>1
  <2> HIDE DEF c
  <2> QED
    BY <1>1, <2>1, NoticeIsItem, VersionIsItem
<1>5. \A v \in Writers \ {w} : loc'[v] = loc[v]
  BY <1>2, EndKeeps
<1>6. notices'[n] = row /\ \A m \in Notice \ {n} : notices'[m] = notices[m]
  BY <1>1, <1>2 DEF NoticeTypeOK
<1> HIDE DEF row, version
<1> SUFFICES ASSUME faults = 0, NEW m \in Notice PROVE AgreesOrOwed(m)'
  BY <1>2 DEF Owed
<1>7. CASE m = n
  <2>1. notices'[m] = row /\ versions'[m][c] = version /\ row.current = c
    BY <1>1, <1>3, <1>6, <1>7
  <2> HIDE DEF c, n
  <2>2. Agrees(m)'
    BY <1>4, <2>1 DEF Agrees
  <2> QED
    BY <2>2 DEF AgreesOrOwed
<1>8. CASE m # n
  <2>1. AgreesOrOwed(m)
    BY DEF Owed
  <2> QED
    BY <1>1, <1>5, <1>6, <1>8, <2>1, OwedElsewhere
<1> QED
  BY <1>7, <1>8

\* A transaction that ends, by whatever step, holds no number any more.
LEMMA EndFreesNumbers ==
    ASSUME NoticeInv, TurnsInv, NumberFree, NEW w \in Writers, loc[w].stage # "idle", End(w),
           versions' = versions \/ loc[w].pc # "begin"
    PROVE  NumberFree'
<1>1. loc'[w].pc = "begin" /\ \A v \in Writers \ {w} : loc'[v] = loc[v]
  <2>1. NoticeTypeOK /\ Fits(loc[w])
    BY NoticeInvGives
  <2> QED
    BY <2>1, EndKeeps
<1>2. CASE versions' = versions
  BY <1>1, <1>2 DEF NumberFree, Numbers
<1>3. CASE loc[w].pc # "begin"
  <2>1. \A v \in Writers : loc'[v].pc = "begin"
    BY <1>1, <1>3 DEF TurnsInv
  <2> QED
    BY <2>1 DEF NumberFree
<1> QED
  BY <1>2, <1>3

\* One step of one of the writers of a process.
LEMMA SnapshotStep ==
    ASSUME OneProcess, Plain, NoticeInv, TurnsInv, SnapshotInv, Next
    PROVE  SnapshotInv'
<1>1. PICK w \in Writers :
         \/ \E a \in Announcements : Fetch(w, a)
         \/ Suppress(w) \/ Resolve(w) \/ DropFile(w)
         \/ CommitNotice(w)
         \/ ReadVersions(w) \/ CommitVersion(w)
         \/ CommitFile(w)
         \/ Reject(w) \/ Lose(w) \/ Crash(w)
  BY DEF Next
<1>2. NoticeTypeOK /\ Fits(loc[w]) /\ KeysUnique /\ NumberFree /\ Owed /\ faults \in Nat
  <2>1. NoticeTypeOK /\ MaxFaults \in Nat
    BY NoticeAssumption DEF NoticeInv
  <2> QED
    BY <2>1, NoticeInvGives DEF SnapshotInv, NoticeTypeOK
<1>3. ASSUME notices' = notices PROVE KeysUnique'
  BY <1>2, <1>3 DEF KeysUnique
<1>4. CASE \E a \in Announcements : Fetch(w, a)
  <2>1. PICK a \in Announcements : Fetch(w, a)
    BY <1>4
  <2>2. /\ loc'[w].pc = "begin" /\ \A v \in Writers \ {w} : loc'[v] = loc[v]
        /\ loc[w].stage = "idle" /\ UNCHANGED <<notices, versions, faults>>
    BY <1>2, <2>1, FetchKeeps DEF Fetch
  <2>3. Owed'
    BY <1>2, <2>2, DebtsStay DEF Owes
  <2> QED
    BY <1>2, <1>3, <2>2, <2>3 DEF SnapshotInv, NumberFree, Numbers
<1>5. CASE Suppress(w)
  <2>1. /\ loc[w].stage = "notice" /\ End(w) /\ UNCHANGED <<notices, versions, faults>>
    BY <1>5 DEF Suppress, At
  <2>2. \A v \in Writers \ {w} : loc'[v] = loc[v]
    BY <1>2, <2>1, EndKeeps
  <2>3. Owed'
    BY <1>2, <2>1, <2>2, DebtsStay DEF Owes
  <2> QED
    BY <1>2, <1>3, <2>1, <2>3, EndFreesNumbers DEF SnapshotInv
<1>6. CASE Resolve(w)
  <2>1. /\ loc'[w].pc = "resolved" /\ \A v \in Writers \ {w} : loc'[v] = loc[v]
        /\ UNCHANGED <<notices, versions, faults>>
    BY <1>6, ResolveKeeps DEF Resolve
  <2>2. Owed'
    BY <1>2, <1>6, <2>1, DebtsStay, DebtorFinds
  <2> QED
    BY <1>2, <1>3, <2>1, <2>2 DEF SnapshotInv, NumberFree, Numbers
<1>7. CASE DropFile(w) \/ CommitFile(w)
  <2>1. loc[w].stage = "file"
    BY <1>7 DEF DropFile, CommitFile, At
  <2> QED
    BY <1>2, <2>1, PlainItem
<1>8. CASE CommitNotice(w)
  <2>1. /\ loc[w].stage # "idle" /\ loc[w].pc # "begin" /\ End(w)
        /\ ~Clash(w, SeenCurrent(w)) /\ versions' = versions
        /\ notices' = [notices EXCEPT ![loc[w].notice] = NewNotice(w, SeenCurrent(w))]
    BY <1>8 DEF CommitNotice, At
  <2>2. SeenCurrent(w) \in Content \cup {Nil}
    BY <2>1, PointerOfNotice
  <2>3. KeysUnique'
    BY <1>2, <2>1, <2>2, WriteUnique
  <2> QED
    BY <1>2, <1>8, <2>1, <2>3, NoticeThenVersion, EndFreesNumbers DEF SnapshotInv
<1>9. CASE ReadVersions(w)
  <2> DEFINE n == loc[w].notice
             k == Cardinality(Stored(n))
  <2>1. /\ loc[w].pc = "resolved" /\ loc[w].stage = "version" /\ loc'[w].stage = "version"
        /\ loc'[w].notice = n /\ loc'[w].ann = loc[w].ann /\ loc'[w].no = k + 1
        /\ \A v \in Writers \ {w} : loc'[v] = loc[v]
        /\ UNCHANGED <<notices, versions, faults>>
    <3>1. loc'[w].pc = "read" /\ Fits(loc'[w])
      BY <1>9, ReadKeeps
    <3> QED
      BY <1>9, <3>1, ReadKeeps DEF ReadVersions, At, Fits
  <2>2. Owed'
    BY <1>2, <2>1, DebtsStay DEF Owes
  <2>3. k + 1 \notin Numbers(n)
    <3>1. n \in Notice
      BY <1>2, <2>1 DEF Fits
    <3>2. Numbers(n) = 1..k /\ IsFiniteSet(Stored(n))
      BY <3>1 DEF NoticeInv, VersionsNumbered, FinitelyMany
    <3>3. k \in Nat
      BY <3>2, FS_CardinalityType
    <3> HIDE DEF k, n
    <3> QED
      BY <3>2, <3>3
  <2>4. \A m : Numbers(m)' = Numbers(m)
    BY <2>1 DEF Numbers
  <2> HIDE DEF k
  <2>5. NumberFree'
    BY <1>2, <2>1, <2>3, <2>4 DEF NumberFree
  <2> QED
    BY <1>3, <2>1, <2>2, <2>5 DEF SnapshotInv
<1>10. CASE CommitVersion(w)
  <2> DEFINE content == loc[w].ann.content
  <2>1. /\ loc[w].stage # "idle" /\ loc[w].pc # "begin" /\ End(w) /\ ~Clash(w, content)
    BY <1>10 DEF CommitVersion, At
  <2>2. content \in Content /\ notices' = [notices EXCEPT ![loc[w].notice] = NewNotice(w, content)]
    BY <1>10, VersionCommitted
  <2>3. content \in Content \cup {Nil}
    BY <2>2
  <2> HIDE DEF content
  <2>4. KeysUnique'
    BY <1>2, <2>1, <2>2, <2>3, WriteUnique
  <2> QED
    BY <1>2, <1>10, <2>1, <2>4, VersionThenAgrees, EndFreesNumbers DEF SnapshotInv
<1>11. CASE Reject(w)
  <2>1. /\ loc[w].stage # "idle" /\ End(w) /\ UNCHANGED <<notices, versions, faults>>
    BY <1>11 DEF Reject, At
  <2>2. \A v \in Writers \ {w} : loc'[v] = loc[v]
    BY <1>2, <2>1, EndKeeps
  <2>3. Owed'
    BY <1>2, <1>11, <2>1, <2>2, DebtsStay, DebtorIsNotRefused
  <2> QED
    BY <1>2, <1>3, <2>1, <2>3, EndFreesNumbers DEF SnapshotInv
<1>12. CASE Lose(w)
  <2>1. /\ loc[w].stage # "idle" /\ End(w) /\ UNCHANGED <<notices, versions>>
        /\ faults' = faults + 1
    BY <1>12 DEF Lose
  <2>2. Owed'
    BY <1>2, <2>1 DEF Owed
  <2> QED
    BY <1>2, <1>3, <2>1, <2>2, EndFreesNumbers DEF SnapshotInv
<1>13. CASE Crash(w)
  <2>1. UNCHANGED <<notices, versions>> /\ faults' = faults + 1
        /\ \A v \in Writers : loc'[v] = Idle
    BY <1>13 DEF Crash
  <2>2. Owed'
    BY <1>2, <2>1 DEF Owed
  <2>3. NumberFree'
    BY <2>1 DEF NumberFree, Idle
  <2> QED
    BY <1>3, <2>1, <2>2, <2>3 DEF SnapshotInv
<1> QED
  BY <1>1, <1>4, <1>5, <1>6, <1>7, <1>8, <1>9, <1>10, <1>11, <1>12, <1>13

\* Once the callbacks of a process have written their items, none of them lost, every
\* notice shows the type, look and keys of its current version, however the callbacks
\* took turns and whatever look-alikes were merged (_apply_notice_fields): for plain
\* announcements, which have an id and no attachment.
THEOREM SnapshotsAreCurrent == OneProcess /\ Plain => (Spec => []SnapshotIsCurrent)
<1> SUFFICES ASSUME OneProcess, Plain PROVE Spec => []SnapshotIsCurrent
  OBVIOUS
<1>1. Init => TurnsInv /\ OneCurrentVersion /\ SnapshotInv
  <2> SUFFICES ASSUME Init PROVE TurnsInv /\ OneCurrentVersion /\ SnapshotInv
    OBVIOUS
  <2>1. TurnsInv /\ NumberFree
    BY DEF Init, TurnsInv, NumberFree, Idle
  <2>2. \A n \in Notice : Stored(n) = {} /\ notices[n] = Nil
    BY DEF Init, Stored
  <2> QED
    BY <2>1, <2>2 DEF OneCurrentVersion, SnapshotInv, KeysUnique, Owed, AgreesOrOwed
<1>2. NoticeInv /\ TurnsInv /\ OneCurrentVersion /\ SnapshotInv /\ [Next]_noticeVars
         => TurnsInv' /\ OneCurrentVersion' /\ SnapshotInv'
  <2>1. ASSUME NoticeInv, TurnsInv, OneCurrentVersion, SnapshotInv, Next
        PROVE  TurnsInv' /\ OneCurrentVersion' /\ SnapshotInv'
    BY <2>1, TurnsStep, SnapshotStep
  <2>2. ASSUME TurnsInv, OneCurrentVersion, SnapshotInv, UNCHANGED noticeVars
        PROVE  TurnsInv' /\ OneCurrentVersion' /\ SnapshotInv'
    <3>1. UNCHANGED <<notices, versions, loc, faults>>
      BY <2>2 DEF noticeVars
    <3>2. TurnsInv' /\ OneCurrentVersion'
      BY <2>2, <3>1 DEF TurnsInv, OneCurrentVersion, Stored
    <3>3. KeysUnique' /\ NumberFree'
      BY <2>2, <3>1 DEF SnapshotInv, KeysUnique, NumberFree, Numbers
    <3>4. \A n \in Notice : AgreesOrOwed(n)' = AgreesOrOwed(n)
      BY <3>1 DEF AgreesOrOwed, Agrees, Owes
    <3>5. Owed'
      BY <2>2, <3>1, <3>4 DEF SnapshotInv, Owed
    <3> QED
      BY <3>2, <3>3, <3>5 DEF SnapshotInv
  <2> QED
    BY <2>1, <2>2
<1>3. SnapshotInv => SnapshotIsCurrent
  <2> SUFFICES ASSUME SnapshotInv, faults = 0, \A w \in Writers : loc[w].stage = "idle",
                      NEW n \in Notice, notices[n] # Nil
               PROVE  Agrees(n)
    BY DEF SnapshotIsCurrent, Agrees
  <2>1. AgreesOrOwed(n)
    BY DEF SnapshotInv, Owed
  <2> QED
    BY <2>1 DEF AgreesOrOwed, Owes
<1> QED
  BY <1>1, <1>2, <1>3, NoticeInvHolds, PTL DEF Spec

----------------------------------------------------------------------------
(* The detail page beside any number of writers of one process.  Between   *)
(* its statements the notice may get versions and another current one, but *)
(* loses none, so what the page has read still names a row; and while the  *)
(* writers take turns the one version that is flagged as current is the    *)
(* one the notice points to at that moment.                                *)

PageFields == DOMAIN page = DOMAIN Blank

\* A page under way is of a notice that is there, and knows its current version.
Following ==
    page.at \in {"notice", "versions"} =>
        /\ page.notice \in Notice /\ notices[page.notice] # Nil
        /\ Current(notices, page.notice) \subseteq page.wasCurrent

\* The version the notice pointed to when it was read has a row.
PointerHasRow ==
    page.at = "notice" /\ page.pointer # Nil =>
        page.pointer \in page.wasCurrent /\ page.pointer \in Stored(page.notice)

PageInv == PageFields /\ Following /\ PointerHasRow /\ ShownWasCurrent

----------------------------------------------------------------------------
(* Choosing a version *)

\* The rows a page loads.
RowsOf(n) == {[content |-> c, no |-> versions[n][c].no, current |-> versions[n][c].current] :
                 c \in Stored(n)}

LEMMA NewestOfOne ==
  ASSUME NEW v, v.no \in Nat
  PROVE  Newest({v}) = v
  BY DEF Newest

LEMMA RowsLoaded ==
  ASSUME NoticeTypeOK, NEW n \in Notice
  PROVE  /\ \A v \in RowsOf(n) : /\ v.content \in Stored(n) /\ v.content \in Content
                                 /\ v.content # Nil /\ v.no \in Nat
                                 /\ v.current = versions[n][v.content].current
         /\ \A c \in Stored(n) : \E v \in RowsOf(n) : v.content = c
         /\ \A u, v \in RowsOf(n) : u.content = v.content => u = v
  <1>1. \A c \in Stored(n) : c \in Content /\ c # Nil /\ versions[n][c].no \in Nat
    BY NoticeAssumption DEF NoticeTypeOK, Stored, VersionRow
  <1> DEFINE row(c) == [content |-> c, no |-> versions[n][c].no,
                        current |-> versions[n][c].current]
  <1>2. \A c : /\ row(c).content = c /\ row(c).no = versions[n][c].no
               /\ row(c).current = versions[n][c].current
    OBVIOUS
  <1>3. RowsOf(n) = {row(c) : c \in Stored(n)}
    BY DEF RowsOf
  <1> HIDE DEF row
  <1>4. \A v \in RowsOf(n) : v.content \in Stored(n) /\ v = row(v.content)
    BY <1>2, <1>3
  <1>5. \A c \in Stored(n) : row(c) \in RowsOf(n)
    BY <1>3
  <1> HIDE DEF RowsOf
  <1> QED
    BY <1>1, <1>2, <1>4, <1>5

\* A page that knows where the notice points shows that version, if it is there.
LEMMA PointedIsShown ==
  ASSUME NoticeTypeOK, NEW n \in Notice, NEW c \in Stored(n)
  PROVE  /\ ResolveCurrentVersion(c, RowsOf(n)) = c
         /\ SelectVersion(Nil, c, RowsOf(n)) = c
  <1>1. PICK r \in RowsOf(n) : r.content = c
    BY RowsLoaded
  <1>2. {v \in RowsOf(n) : v.content = c} = {r}
    BY <1>1, RowsLoaded
  <1>3. {v \in RowsOf(n) : v.content = Nil} = {}
    BY RowsLoaded
  <1>4. Newest({r}) = r /\ RowsOf(n) # {}
    BY <1>1, RowsLoaded, NewestOfOne
  <1>5. ResolveCurrentVersion(c, RowsOf(n)) = c
    BY <1>1, <1>2, <1>4 DEF ResolveCurrentVersion
  <1>6. SelectVersion(Nil, c, RowsOf(n)) = c
    BY <1>2, <1>3, <1>4 DEF SelectVersion
  <1> QED
    BY <1>5, <1>6

\* A page that read the notice before it had a version shows the flagged one, and
\* that is the one the notice points to by now.
LEMMA FlaggedIsCurrent ==
  ASSUME NoticeTypeOK, OneCurrentVersion, NEW n \in Notice, notices[n] # Nil
  PROVE  ResolveCurrentVersion(Nil, RowsOf(n)) \in Current(notices, n) \cup {Nil}
  <1>1. {v \in RowsOf(n) : v.content = Nil} = {}
    BY RowsLoaded
  <1>2. CASE RowsOf(n) = {}
    BY <1>2 DEF ResolveCurrentVersion
  <1>3. CASE RowsOf(n) # {}
    <2> DEFINE c == notices[n].current
    <2>1. Stored(n) # {}
      BY <1>3, RowsLoaded
    <2>2. {d \in Stored(n) : versions[n][d].current} = {c}
      BY <2>1 DEF OneCurrentVersion
    <2>3. c \in Stored(n)
      BY <2>2
    <2>4. PICK r \in RowsOf(n) : r.content = c
      BY <2>3, RowsLoaded
    <2>5. \A v \in RowsOf(n) : v.current => v.content = c
      BY <2>2, RowsLoaded
    <2>6. r.current
      BY <2>2, <2>4, RowsLoaded
    <2>7. {v \in RowsOf(n) : v.current} = {r}
      BY <2>4, <2>5, <2>6, RowsLoaded
    <2>8. Newest({r}) = r
      BY <2>4, RowsLoaded, NewestOfOne
    <2>9. ResolveCurrentVersion(Nil, RowsOf(n)) = c
      BY <1>1, <1>3, <2>4, <2>7, <2>8 DEF ResolveCurrentVersion
    <2> QED
      BY <2>9 DEF Current
  <1> QED
    BY <1>2, <1>3

----------------------------------------------------------------------------
(* The steps of a reader and of the writers *)

LEMMA LoadNoticeKeeps ==
  ASSUME NoticeInv, PageInv, NEW n \in Notice, NEW wanted \in Wanted, LoadNotice(n, wanted)
  PROVE  PageInv'
  <1>1. /\ page'.at = "notice" /\ page'.notice = n /\ page'.pointer = notices[n].current
        /\ page'.wasCurrent = Current(notices, n) /\ DOMAIN page' = DOMAIN Blank
    BY DEF LoadNotice, Blank
  <1>2. notices[n] # Nil /\ UNCHANGED noticeVars
    BY DEF LoadNotice
  <1>3. notices[n].current # Nil => /\ notices[n].current \in Current(notices, n)
                                    /\ notices[n].current \in Stored(n)
    BY <1>2 DEF Current, Stored, NoticeInv, NoticeTypeOK, PointersLinked, NoticeRow
  <1> QED
    BY <1>1, <1>2, <1>3 DEF PageInv, PageFields, Following, PointerHasRow, ShownWasCurrent,
       noticeVars, Stored, Blank

LEMMA LoadVersionsKeeps ==
  ASSUME NoticeInv, OneCurrentVersion, PageInv, LoadVersions
  PROVE  PageInv'
  <1> DEFINE n == page.notice
  <1>1. page.at = "notice" /\ n \in Notice /\ notices[n] # Nil /\ NoticeTypeOK
    BY DEF LoadVersions, PageInv, Following, NoticeInv
  <1>2. /\ page'.at = "versions" /\ page'.notice = n /\ page'.pointer = page.pointer
        /\ page'.wasCurrent = page.wasCurrent /\ page'.wanted = page.wanted
        /\ page'.current = ResolveCurrentVersion(page.pointer, RowsOf(n))
        /\ page'.selected = SelectVersion(page.wanted, page.pointer, RowsOf(n))
        /\ DOMAIN page' = DOMAIN page
    BY DEF LoadVersions, RowsOf, PageInv, PageFields, Blank
  <1>3. UNCHANGED noticeVars
    BY DEF LoadVersions
  <1>4. ShownWasCurrent'
    <2>1. CASE page.pointer = Nil
      <3>1. page'.current \in Current(notices, n) \cup {Nil}
        BY <1>1, <1>2, <2>1, FlaggedIsCurrent
      <3> QED
        BY <1>1, <1>2, <2>1, <3>1 DEF PageInv, Following, ShownWasCurrent
    <2>2. CASE page.pointer # Nil
      <3>1. page.pointer \in page.wasCurrent /\ page.pointer \in Stored(n)
        BY <1>1, <2>2 DEF PageInv, PointerHasRow
      <3> QED
        BY <1>1, <1>2, <3>1, PointedIsShown DEF ShownWasCurrent
    <2> QED
      BY <2>1, <2>2
  <1> QED
    BY <1>1, <1>2, <1>3, <1>4 DEF PageInv, PageFields, Following, PointerHasRow, noticeVars, Blank

LEMMA ReaderKeeps ==
  ASSUME PageInv, LoadAttachments \/ Leave
  PROVE  PageInv'
  <1>1. CASE LoadAttachments
    <2>1. /\ page'.at = "shown" /\ page'.pointer = page.pointer /\ page'.wanted = page.wanted
          /\ page'.current = page.current /\ page'.selected = page.selected
          /\ page'.wasCurrent = page.wasCurrent /\ DOMAIN page' = DOMAIN page
      BY <1>1 DEF LoadAttachments, PageInv, PageFields, Blank
    <2> QED
      BY <1>1, <2>1
         DEF LoadAttachments, PageInv, PageFields, Following, PointerHasRow, ShownWasCurrent, Blank
  <1>2. CASE Leave
    <2>1. page' = Blank
      BY <1>2 DEF Leave
    <2> QED
      BY <2>1 DEF PageInv, PageFields, Following, PointerHasRow, ShownWasCurrent, Blank
  <1> QED
    BY <1>1, <1>2

LEMMA WritersKeep ==
  ASSUME NoticeInv, PageInv, Next, Watch
  PROVE  PageInv'
  <1>1. RowsStay
    BY WriterStep
  <1>2. CASE page.at \in {"closed", "shown"}
    <2>1. page' = page
      BY <1>2 DEF Watch
    <2> QED
      BY <1>2, <2>1 DEF PageInv, PageFields, Following, PointerHasRow, ShownWasCurrent, Blank
  <1>3. CASE page.at \notin {"closed", "shown"}
    <2>1. page' = [page EXCEPT !.wasCurrent = @ \cup Current(notices', page.notice)]
      BY <1>3 DEF Watch
    <2>2. /\ page'.at = page.at /\ page'.notice = page.notice /\ page'.pointer = page.pointer
          /\ page'.wanted = page.wanted /\ page'.current = page.current
          /\ page'.selected = page.selected
          /\ page'.wasCurrent = page.wasCurrent \cup Current(notices', page.notice)
          /\ DOMAIN page' = DOMAIN page
      BY <2>1 DEF PageInv, PageFields, Blank
    <2>3. PageFields' /\ ShownWasCurrent'
      BY <2>2 DEF PageInv, PageFields, ShownWasCurrent, Blank
    <2>4. Following'
      BY <1>1, <2>2 DEF PageInv, Following, RowsStay
    <2>5. PointerHasRow'
      BY <1>1, <2>2 DEF PageInv, Following, PointerHasRow, RowsStay, Stored
    <2> QED
      BY <2>3, <2>4, <2>5 DEF PageInv
  <1> QED
    BY <1>2, <1>3

\* Readers write nothing: the tables behave beside them as they do alone.
LEMMA ReadersOnlyRead == DetailSpec => Spec
  <1>1. DetailInit => Init
    BY DEF DetailInit
  <1>2. [DetailNext]_detailVars => [Next]_noticeVars
    BY DEF DetailNext, detailVars, LoadNotice, LoadVersions, LoadAttachments, Leave
  <1> QED
    BY <1>1, <1>2, PTL DEF DetailSpec, Spec

\* However the writers of a process come between the three statements of the detail
\* page, the version it presents as current was the current one at some moment of the
\* reading, and a link that names no version shows that one, for any number of
\* writers, versions and losses (notice_repository.py, admin_notices.py).
THEOREM PagesShowACurrentVersion == OneProcess => (DetailSpec => []ShownWasCurrent)
  <1> SUFFICES ASSUME OneProcess PROVE DetailSpec => []ShownWasCurrent
    OBVIOUS
  <1>1. DetailInit => PageInv
    BY DEF DetailInit, PageInv, PageFields, Following, PointerHasRow, ShownWasCurrent, Blank
  <1>2. ASSUME NoticeInv, OneCurrentVersion, PageInv, [DetailNext]_detailVars
        PROVE  PageInv'
    <2>1. CASE Next /\ Watch
      BY <1>2, <2>1, WritersKeep
    <2>2. ASSUME NEW n \in Notice, NEW wanted \in Wanted, LoadNotice(n, wanted) PROVE PageInv'
      BY <1>2, <2>2, LoadNoticeKeeps
    <2>3. CASE LoadVersions
      BY <1>2, <2>3, LoadVersionsKeeps
    <2>4. CASE LoadAttachments \/ Leave
      BY <1>2, <2>4, ReaderKeeps
    <2>5. CASE UNCHANGED detailVars
      BY <1>2, <2>5 DEF detailVars, noticeVars, PageInv, PageFields, Following, PointerHasRow,
         ShownWasCurrent, Stored
    <2> QED
      BY <1>2, <2>1, <2>2, <2>3, <2>4, <2>5 DEF DetailNext
  <1>3. NoticeInv /\ OneCurrentVersion /\ PageInv /\ [DetailNext]_detailVars => PageInv'
    BY <1>2
  <1>4. Spec => []OneCurrentVersion
    BY OneCurrentInOneProcess
  <1>5. PageInv => ShownWasCurrent
    BY DEF PageInv
  <1> QED
    BY <1>1, <1>3, <1>4, <1>5, ReadersOnlyRead, NoticeInvHolds, PTL DEF DetailSpec
================================================================================
