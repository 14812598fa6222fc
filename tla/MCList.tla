------------------------------- MODULE MCList -------------------------------
(* Small instances of NoticeList for TLC. *)
EXTENDS NoticeList

CONSTANTS k1, k2, t1

Stored(key, dup, hash, source, published, deadline) ==
    [dedup_key |-> key, source_duplicate_key |-> dup, dedup_hash |-> hash, text |-> t1, source |-> source,
     kind |-> IF source = 1 THEN "announcement" ELSE "result", published |-> published, deadline |-> deadline]

\* One announcement twice, once without its dedup_key, and rows of an older schema:
\* the hash only, and no key at all.
SomeAnnounced == {Stored(k1, k1, k1, 1, 0, Nil), Stored(Nil, k1, k2, 1, 1, 1),
                  Stored(Nil, Nil, k2, 1, Nil, 0), Stored(Nil, Nil, Nil, 2, 0, 0)}

Default == [dedup |-> TRUE, kind |-> Nil, recent |-> Nil, from |-> Nil, to |-> Nil,
            sort |-> "published_at", order |-> "desc"]
SomeQueries == {Default,
                [Default EXCEPT !.dedup = FALSE, !.kind = "announcement", !.recent = 0, !.from = 0, !.to = 0],
                [Default EXCEPT !.dedup = FALSE, !.sort = "deadline_at", !.order = "asc"]}
=============================================================================
