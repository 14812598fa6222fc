----------------------------- MODULE NoticeDetail -----------------------------
(***************************************************************************)
(* The detail page of a notice, read while spiders write it: the notice,   *)
(* its versions and its attachments come from three statements, and each   *)
(* sees what is committed when it runs.  The page presents one version as  *)
(* current and shows one selected version with the attachments linked to   *)
(* it.  A version is known here by its content, as in NoticeStore.  Which  *)
(* row a link names, by number or id, is left to the reader as `wanted'.   *)
(***************************************************************************)
EXTENDS NoticeStore

CONSTANT Wanted     \* what links name

ASSUME DetailAssumption == Wanted \subseteq Content \cup {Nil}

VARIABLE page   \* the page a reader has asked for

detailVars == <<noticeVars, page>>

Blank == [at |-> "closed", notice |-> Nil, wanted |-> Nil, pointer |-> Nil,
          versions |-> {}, current |-> Nil, selected |-> Nil, files |-> {}, wasCurrent |-> {}]

Current(rows, n) == IF rows[n] = Nil THEN {} ELSE {rows[n].current} \ {Nil}

\* The first statement: the notice with its source, 404 when there is none.
LoadNotice(n, wanted) ==
    /\ page.at = "closed" /\ notices[n] # Nil
    /\ page' = [Blank EXCEPT !.at = "notice", !.notice = n, !.wanted = wanted,
                             !.pointer = notices[n].current, !.wasCurrent = Current(notices, n)]
    /\ UNCHANGED noticeVars

\* ORDER BY version_no DESC
Newest(rows) == CHOOSE v \in rows : \A u \in rows : u.no <= v.no

ResolveCurrentVersionMutant(pointer, rows) == IF rows = {} THEN Nil ELSE Newest(rows).content

\* _resolve_current_version: the row the notice points to, else one that is
\* flagged, else the newest.
ResolveCurrentVersion(pointer, rows) ==
    LET pointed == {v \in rows : v.content = pointer}
        flagged == {v \in rows : v.current}
    IN  CASE rows = {}     -> Nil
          [] pointed # {}  -> Newest(pointed).content
          [] pointed = {} /\ flagged # {} -> Newest(flagged).content
          [] OTHER         -> Newest(rows).content

\* _select_version: the wanted row, else the one the notice points to.
SelectVersion(wanted, pointer, rows) ==
    LET named == {v \in rows : v.content = wanted}
        pointed == {v \in rows : v.content = pointer}
    IN  CASE rows = {}    -> Nil
          [] named # {}   -> wanted
          [] named = {} /\ pointed # {} -> pointer
          [] OTHER        -> Newest(rows).content

LoadVersions ==
    /\ page.at = "notice"
    /\ LET n == page.notice
           rows == {[content |-> c, no |-> versions[n][c].no, current |-> versions[n][c].current] :
                        c \in Stored(n)}
       IN  page' = [page EXCEPT !.at = "versions", !.versions = rows,
                        !.current = ResolveCurrentVersion(page.pointer, rows),
                        !.selected = SelectVersion(page.wanted, page.pointer, rows)]
    /\ UNCHANGED noticeVars

\* All attachments of the notice; shown are those of the selected version, or
\* all while there is no version.
LoadAttachments ==
    /\ page.at = "versions"
    /\ page' = [page EXCEPT !.at = "shown",
           !.files = {u \in Url : /\ attachments[u] # Nil
                                  /\ attachments[u].notice = page.notice
                                  /\ page.selected \in {Nil, attachments[u].version}}]
    /\ UNCHANGED noticeVars

Leave ==
    /\ page.at = "shown"
    /\ page' = Blank
    /\ UNCHANGED noticeVars

\* A page under way remembers which versions have been current meanwhile.
Watch == page' = IF page.at \in {"closed", "shown"} THEN page
                 ELSE [page EXCEPT !.wasCurrent = @ \cup Current(notices', page.notice)]

DetailInit == Init /\ page = Blank

DetailNext ==
    \/ Next /\ Watch
    \/ \E n \in Notice, wanted \in Wanted : LoadNotice(n, wanted)
    \/ LoadVersions
    \/ LoadAttachments
    \/ Leave

DetailSpec == DetailInit /\ [][DetailNext]_detailVars

----------------------------------------------------------------------------
(* What must hold *)

\* What a page presents as the current version was the current one at some
\* moment while the page was read; an older text that was found again and is
\* current again counts, whatever its number.  A link that names no version shows
\* that one too, if the notice had a version when it was read (notice_repository.py:461-478,
\* admin_notices.py:441-469, sqlalchemy_writer.py:342-351).
ShownWasCurrent ==
    page.at \in {"versions", "shown"} =>
        /\ page.current # Nil => page.current \in page.wasCurrent
        /\ page.wanted = Nil /\ page.pointer # Nil => page.selected = page.current
=============================================================================
