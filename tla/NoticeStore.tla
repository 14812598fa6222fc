------------------------------ MODULE NoticeStore ------------------------------
(***************************************************************************)
(* The SQLAlchemy notice writer: how the items a spider yields for one     *)
(* announcement (the notice, its version, its attachment) become rows of   *)
(* tender_notice, notice_version and tender_attachment.                    *)
(*                                                                         *)
(* A writer is one callback of a spider; its items are written in order,   *)
(* each in a transaction of its own that reads, flushes and commits.  The  *)
(* callbacks of one process take turns (OneProcess); those of two          *)
(* processes, say a spider that outlived its worker and the one of the     *)
(* retried job, overlap, and PostgreSQL's READ COMMITTED is all that keeps *)
(* them apart: a flush locks the rows it changes until the commit, the     *)
(* unique indexes reject twins, and a row read earlier may be stale.       *)
(*                                                                         *)
(* All rows are of one source: every lookup is.  The look of a notice is   *)
(* its title, day, issuer, region and budget as far as they tell two       *)
(* announcements apart; Alike relates the looks the similarity rule merges.*)
(***************************************************************************)
EXTENDS Naturals, FiniteSets

CONSTANTS
    Writers,        \* spider callbacks
    Notice,         \* ids of tender_notice rows
    Ext, Hash, Key, Look, Content, Type, Url,   \* values of the columns
    DefaultType,    \* what normalize_notice_type makes of no type at all
    Alike,          \* <<look of an item, look of a notice>> pairs that merge
    Announcements,  \* what the site publishes
    OneProcess,     \* TRUE: the writers are callbacks of one process
    MaxFaults,      \* bound: lost transactions and crashes in a behaviour
    Nil

Stage == {"notice", "version", "file"}

Announcement ==
    [ext : Ext \cup {Nil}, hash : Hash, look : Look, content : Content, type : Type,
     sourceKey : [Stage -> Key], dedupKey : [Stage -> Key],     \* as each item carries them
     url : Url \cup {Nil}, fileVersion : {1, Nil}]

NoticeRow == [ext : Ext \cup {Nil}, hash : Hash, sourceKey : Key, dedupKey : Key,
              look : Look, type : Type, current : Content \cup {Nil}]

VersionRow == [no : Nat, current : BOOLEAN, sourceKey : Key, dedupKey : Key,
               look : Look, type : Type]

AttachmentRow == [notice : Notice, version : Content \cup {Nil}]

ASSUME NoticeAssumption ==
    /\ Notice \subseteq Nat
    /\ DefaultType \in Type
    /\ Alike \subseteq Look \X Look
    /\ Announcements \subseteq Announcement
    /\ Nil \notin Ext \cup Hash \cup Key \cup Look \cup Content \cup Type \cup Url
                   \cup Announcement \cup Writers \cup Notice
                   \cup NoticeRow \cup VersionRow \cup AttachmentRow
    /\ OneProcess \in BOOLEAN
    /\ MaxFaults \in Nat

VARIABLES
    notices,        \* tender_notice: committed rows, Nil where there is none
    versions,       \* notice_version, by notice and content hash
    attachments,    \* tender_attachment, by url hash
    lock,           \* the writer whose open transaction has flushed the notice
    loc,            \* each writer's progress and what its session has loaded
    faults

noticeVars == <<notices, versions, attachments, lock, loc, faults>>

Local == [stage   : Stage \cup {"idle"},                \* the item it writes
          pc      : {"begin", "resolved", "read"},      \* how far the transaction is
          ann     : Announcements \cup {Nil},
          notice  : Notice \cup {Nil},
          seen    : NoticeRow \cup {Nil},               \* Nil: the notice is new
          version : VersionRow \cup {Nil},              \* Nil: the version is new
          no      : Nat]

Idle == [stage |-> "idle", pc |-> "begin", ann |-> Nil, notice |-> Nil,
         seen |-> Nil, version |-> Nil, no |-> 0]

Init ==
    /\ notices = [n \in Notice |-> Nil]
    /\ versions = [n \in Notice |-> [c \in Content |-> Nil]]
    /\ attachments = [u \in Url |-> Nil]
    /\ lock = [n \in Notice |-> Nil]
    /\ loc = [w \in Writers |-> Idle]
    /\ faults = 0

\* The announcement is written; the next item of it, if there is one, is next.
NextStage(l) ==
    CASE l.stage = "notice"                    -> "version"
      [] l.stage = "version" /\ l.ann.url # Nil -> "file"
      [] OTHER                                 -> "idle"

Advanced(l) == IF NextStage(l) = "idle" THEN Idle
               ELSE [Idle EXCEPT !.stage = NextStage(l), !.ann = l.ann]

\* The transaction ends, by commit or rollback.
End(w) ==
    /\ loc' = [loc EXCEPT ![w] = Advanced(@)]
    /\ lock' = [n \in Notice |-> IF lock[n] = w THEN Nil ELSE lock[n]]

At(w, stages, pc) == loc[w].stage \in stages /\ loc[w].pc = pc

MayBegin(w) == OneProcess => \A v \in Writers \ {w} : loc[v].pc = "begin"

\* The columns an UPDATE sends are those that differ from what was loaded.
Flushed(row, seen, new) ==
    [c \in DOMAIN row |-> IF new[c] # seen[c] THEN new[c] ELSE row[c]]

----------------------------------------------------------------------------
(* Items and the notice they belong to *)

\* normalize_notice_item: an attachment has no title and no type of its own.
Item(a, stage) ==
    [ext |-> a.ext, hash |-> a.hash,
     sourceKey |-> a.sourceKey[stage], dedupKey |-> a.dedupKey[stage],
     look |-> IF stage = "file" THEN Nil ELSE a.look,
     type |-> IF stage = "file" THEN DefaultType ELSE a.type]

ItemOf(w) == Item(loc[w].ann, loc[w].stage)

\* _exists_notice_version_with_identity_content
Known(i, content) ==
    \E n \in Notice :
        /\ versions[n][content] # Nil
        /\ \/ versions[n][content].sourceKey = i.sourceKey
           \/ versions[n][content].dedupKey = i.dedupKey

By(column, value) ==
    {n \in Notice : notices[n] # Nil /\ value # Nil /\ notices[n][column] = value}

\* _find_notice_by_high_similarity
LookAlikes(i) ==
    {n \in Notice : notices[n] # Nil /\ <<i.look, notices[n].look>> \in Alike}

\* _resolve_notice: the first rule that finds a row decides; a query without
\* ORDER BY may return any of the rows it finds.
Resolved(i) ==
    LET rules == <<By("ext", i.ext), By("sourceKey", i.sourceKey), By("dedupKey", i.dedupKey),
                   By("hash", i.hash), LookAlikes(i)>>
        hits == {r \in 1..5 : rules[r] # {}}
    IN  IF hits = {} THEN {} ELSE rules[CHOOSE r \in hits : \A q \in hits : r <= q]

IsFreeId(n) == notices[n] = Nil /\ \A v \in Writers : loc[v].notice # n

\* Mutant: the type of a notice is settled by its first item.
SettledMutant(seen, i) ==
    IF seen = Nil
    THEN [ext |-> i.ext, hash |-> i.hash, sourceKey |-> i.sourceKey, dedupKey |-> i.dedupKey,
          look |-> i.look, type |-> i.type, current |-> Nil]
    ELSE [seen EXCEPT !.hash = i.hash, !.sourceKey = i.sourceKey, !.dedupKey = i.dedupKey,
                      !.look = IF i.look # Nil THEN i.look ELSE @]

\* _apply_notice_fields, on the loaded row or on the new one.
Applied(seen, i) ==
    IF seen = Nil
    THEN [ext |-> i.ext, hash |-> i.hash, sourceKey |-> i.sourceKey, dedupKey |-> i.dedupKey,
          look |-> i.look, type |-> i.type, current |-> Nil]
    ELSE [ext |-> IF i.ext # Nil THEN i.ext ELSE seen.ext, hash |-> i.hash,
          sourceKey |-> i.sourceKey, dedupKey |-> i.dedupKey,
          look |-> IF i.look # Nil THEN i.look ELSE seen.look,
          type |-> i.type, current |-> seen.current]

\* What the transaction makes of the notice, with the version it points to.
Target(w, current) == [Applied(loc[w].seen, ItemOf(w)) EXCEPT !.current = current]

NewNotice(w, current) ==
    LET l == loc[w] IN
    IF l.seen = Nil THEN Target(w, current)
    ELSE Flushed(notices[l.notice], l.seen, Target(w, current))

SeenCurrent(w) == IF loc[w].seen = Nil THEN Nil ELSE loc[w].seen.current

\* The UPDATE of the notice waits for whoever has flushed it.
MayFlush(w, current) ==
    LET l == loc[w] IN
    l.seen = Nil \/ Target(w, current) = l.seen \/ lock[l.notice] \in {w, Nil}

\* uq_tender_notice_source_external_id and uq_tender_notice_source_dedup_hash
Clash(w, current) ==
    LET row == NewNotice(w, current) IN
    \E m \in Notice \ {loc[w].notice} :
        /\ notices[m] # Nil
        /\ \/ row.ext # Nil /\ notices[m].ext = row.ext
           \/ notices[m].hash = row.hash

----------------------------------------------------------------------------
(* Steps common to the three kinds of item *)

\* A response has been parsed into the items of announcement a.
Fetch(w, a) ==
    /\ loc[w].stage = "idle"
    /\ loc' = [loc EXCEPT ![w] = [Idle EXCEPT !.stage = "notice", !.ann = a]]
    /\ UNCHANGED <<notices, versions, attachments, lock, faults>>

\* write_notice: the content is known under this identity; only counters change.
Suppress(w) ==
    /\ At(w, {"notice"}, "begin")
    /\ MayBegin(w)
    /\ Known(ItemOf(w), loc[w].ann.content)
    /\ End(w)
    /\ UNCHANGED <<notices, versions, attachments, faults>>

Enters(w, n, seen) ==
    loc' = [loc EXCEPT ![w] = [@ EXCEPT !.pc = "resolved", !.notice = n, !.seen = seen]]

Resolve(w) ==
    /\ At(w, Stage, "begin")
    /\ MayBegin(w)
    /\ ~(loc[w].stage = "notice" /\ Known(ItemOf(w), loc[w].ann.content))
    /\ LET found == Resolved(ItemOf(w))
       IN  IF found # {}
           THEN \E n \in found : Enters(w, n, notices[n])
           ELSE /\ ItemOf(w).look # Nil
                /\ \E n \in Notice :
                      /\ IsFreeId(n) /\ \A m \in Notice : m < n => ~IsFreeId(m)
                      /\ Enters(w, n, Nil)
    /\ UNCHANGED <<notices, versions, attachments, lock, faults>>

\* An attachment whose notice is not there is dropped.
DropFile(w) ==
    /\ At(w, {"file"}, "begin")
    /\ MayBegin(w)
    /\ Resolved(ItemOf(w)) = {}
    /\ End(w)
    /\ UNCHANGED <<notices, versions, attachments, faults>>

----------------------------------------------------------------------------
(* write_notice *)

CommitNotice(w) ==
    LET current == SeenCurrent(w) IN
    /\ At(w, {"notice"}, "resolved")
    /\ MayFlush(w, current)
    /\ ~Clash(w, current)
    /\ notices' = [notices EXCEPT ![loc[w].notice] = NewNotice(w, current)]
    /\ End(w)
    /\ UNCHANGED <<versions, attachments, faults>>

----------------------------------------------------------------------------
(* write_notice_version *)

Numbers(n) == {versions[n][c].no : c \in {d \in Content : versions[n][d] # Nil}}

\* Every item asks for version 1; a new content takes the next number.
NextNumber(n) ==
    IF 1 \in Numbers(n) THEN 1 + CHOOSE k \in Numbers(n) : \A l \in Numbers(n) : l <= k ELSE 1

\* _resolve_notice_version; its first query flushes the changed notice.
ReadVersions(w) ==
    LET l == loc[w] IN
    /\ At(w, {"version"}, "resolved")
    /\ MayFlush(w, SeenCurrent(w))
    /\ lock' = IF l.seen # Nil /\ Target(w, SeenCurrent(w)) = l.seen THEN lock
               ELSE [lock EXCEPT ![l.notice] = w]
    /\ loc' = [loc EXCEPT ![w].pc = "read", ![w].version = versions[l.notice][l.ann.content],
                          ![w].no = NextNumber(l.notice)]
    /\ UNCHANGED <<notices, versions, attachments, faults>>

\* Mutant: nothing keeps two versions from the same number.
VersionClashMutant(w) == FALSE

\* uq_notice_version_notice_version_no and uq_notice_version_notice_content_hash
VersionClash(w) ==
    LET l == loc[w] IN
    /\ l.version = Nil
    /\ \/ versions[l.notice][l.ann.content] # Nil
       \/ l.no \in Numbers(l.notice)

NewVersion(w) ==
    LET l == loc[w]
        i == ItemOf(w)
        new == [no |-> IF l.version = Nil THEN l.no ELSE l.version.no, current |-> TRUE,
                sourceKey |-> i.sourceKey, dedupKey |-> i.dedupKey,
                look |-> i.look, type |-> i.type]
    IN  IF l.version = Nil THEN new
        ELSE Flushed(versions[l.notice][l.ann.content], l.version, new)

\* Mutant: the version that was current stays current.
DemotedMutant(row) == row

\* UPDATE notice_version SET is_current = false
Demoted(row) == IF row = Nil THEN Nil ELSE [row EXCEPT !.current = FALSE]

CommitVersion(w) ==
    LET n == loc[w].notice
        content == loc[w].ann.content
    IN  /\ At(w, {"version"}, "read")
        /\ MayFlush(w, content)
        /\ ~Clash(w, content)
        /\ ~VersionClash(w)
        /\ versions' = [versions EXCEPT ![n] =
                           [c \in Content |-> IF c = content THEN NewVersion(w)
                                              ELSE Demoted(@[c])]]
        /\ notices' = [notices EXCEPT ![n] = NewNotice(w, content)]
        /\ End(w)
        /\ UNCHANGED <<attachments, faults>>

----------------------------------------------------------------------------
(* write_attachment *)

\* Mutant: the link to the current version is left over from another notice.
LinkedVersionMutant(w) == loc[w].ann.content

\* The version with the number the item names, else the notice's current one.
LinkedVersion(w) ==
    LET l == loc[w]
        named == {c \in Content : /\ versions[l.notice][c] # Nil
                                  /\ versions[l.notice][c].no = l.ann.fileVersion}
    IN  IF named # {} THEN CHOOSE c \in named : TRUE ELSE SeenCurrent(w)

CommitFile(w) ==
    LET l == loc[w] IN
    /\ At(w, {"file"}, "resolved")
    /\ MayFlush(w, SeenCurrent(w))
    /\ ~Clash(w, SeenCurrent(w))
    /\ notices' = [notices EXCEPT ![l.notice] = NewNotice(w, SeenCurrent(w))]
    /\ attachments' = [attachments EXCEPT ![l.ann.url] =
                          [notice |-> l.notice, version |-> LinkedVersion(w)]]
    /\ End(w)
    /\ UNCHANGED <<versions, faults>>

----------------------------------------------------------------------------
(* Failures *)

\* A unique index raises IntegrityError: the item is rolled back and dropped.
Reject(w) ==
    /\ \/ At(w, {"notice", "file"}, "resolved") /\ Clash(w, SeenCurrent(w))
       \/ At(w, {"version"}, "read") /\ (Clash(w, loc[w].ann.content) \/ VersionClash(w))
    /\ End(w)
    /\ UNCHANGED <<notices, versions, attachments, faults>>

\* A deadlock or a lost connection: the same, for no reason in the data.
Lose(w) ==
    /\ loc[w].stage # "idle"
    /\ faults < MaxFaults
    /\ faults' = faults + 1
    /\ End(w)
    /\ UNCHANGED <<notices, versions, attachments>>

\* The process is killed.
Crash(w) ==
    /\ loc[w].stage # "idle"
    /\ faults < MaxFaults
    /\ faults' = faults + 1
    /\ loc' = [v \in Writers |-> IF v = w \/ OneProcess THEN Idle ELSE loc[v]]
    /\ lock' = [n \in Notice |-> IF lock[n] = w \/ OneProcess THEN Nil ELSE lock[n]]
    /\ UNCHANGED <<notices, versions, attachments>>

Next ==
    \E w \in Writers :
        \/ \E a \in Announcements : Fetch(w, a)
        \/ Suppress(w) \/ Resolve(w) \/ DropFile(w)
        \/ CommitNotice(w)
        \/ ReadVersions(w) \/ CommitVersion(w)
        \/ CommitFile(w)
        \/ Reject(w) \/ Lose(w) \/ Crash(w)

Spec == Init /\ [][Next]_noticeVars

----------------------------------------------------------------------------
(* What must hold *)

\* The variables have their types.
NoticeTypeOK ==
    /\ notices \in [Notice -> NoticeRow \cup {Nil}]
    /\ versions \in [Notice -> [Content -> VersionRow \cup {Nil}]]
    /\ attachments \in [Url -> AttachmentRow \cup {Nil}]
    /\ lock \in [Notice -> Writers \cup {Nil}]
    /\ loc \in [Writers -> Local]
    /\ faults \in 0..MaxFaults

Stored(n) == {c \in Content : versions[n][c] # Nil}

\* A notice with versions has one that is current, and it is the one the notice
\* points to (write_notice_version, whatever is lost or killed between items).
OneCurrentVersion ==
    \A n \in Notice :
        LET current == {c \in Stored(n) : versions[n][c].current} IN
        IF Stored(n) = {} THEN notices[n] = Nil \/ notices[n].current = Nil
        ELSE notices[n] # Nil /\ current = {notices[n].current}

\* The versions of a notice are numbered 1, 2, ... without gaps or repetitions,
\* whatever processes add them at once.
VersionsNumbered ==
    \A n \in Notice :
        /\ Numbers(n) = 1..Cardinality(Stored(n))
        /\ \A c, d \in Stored(n) : versions[n][c].no = versions[n][d].no => c = d

\* An attachment belongs to a notice that is there and to a version of it.
AttachmentsLinked ==
    \A u \in Url :
        attachments[u] # Nil =>
            /\ notices[attachments[u].notice] # Nil
            /\ attachments[u].version # Nil
                 => versions[attachments[u].notice][attachments[u].version] # Nil

\* When no item was lost and no callback is under way, a notice shows what its
\* current version says (_apply_notice_fields after each of the three items).
SnapshotIsCurrent ==
    faults = 0 /\ (\A w \in Writers : loc[w].stage = "idle")
    => \A n \in Notice :
         notices[n] # Nil /\ notices[n].current # Nil =>
            LET v == versions[n][notices[n].current] IN
            /\ notices[n].type = v.type
            /\ notices[n].look = v.look
            /\ notices[n].sourceKey = v.sourceKey
            /\ notices[n].dedupKey = v.dedupKey
================================================================================
