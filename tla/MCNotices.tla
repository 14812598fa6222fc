------------------------------- MODULE MCNotices -------------------------------
(* Small instances of NoticeStore for TLC. *)
EXTENDS NoticeStore, TLC

\* An announcement whose items all carry the same keys, as the spiders emit them.
Page(e, h, k, l, c, t) ==
    [ext |-> e, hash |-> h, look |-> l, content |-> c, type |-> t,
     sourceKey |-> [s \in Stage |-> k], dedupKey |-> [s \in Stage |-> k],
     url |-> Nil, fileVersion |-> Nil]

\* The same with an attachment, whose item has no key and no type: both are
\* computed from what little it carries.  The source key comes out as that of an
\* announcement with this locator; the dedup key, without title, as another.
PageWithFile(p, s, d, u, v) ==
    [p EXCEPT !.url = u, !.fileVersion = v, !.sourceKey["file"] = s, !.dedupKey["file"] = d]

CONSTANTS e1, e2, e3, h1, h2, h3, k1, k2, k3, k4, l1, l2, c1, c2, c3, u1, announcement, result

\* A page, its update, and a look-alike of it under another id.
Updates == {Page(e1, h1, k1, l1, c1, announcement), Page(e1, h1, k1, l1, c2, announcement),
            Page(e3, h3, k3, l1, c1, result)}

\* A page with a file, its update, and another page with the same file.
Files == {PageWithFile(Page(e1, h1, k1, l1, c1, announcement), k1, k3, u1, 1),
          PageWithFile(Page(e1, h1, k1, l1, c2, announcement), k1, k3, u1, Nil),
          PageWithFile(Page(Nil, h2, k2, l2, c3, announcement), k2, k4, u1, Nil)}

\* The writers are interchangeable.
Symmetry == Permutations(Writers)

\* Only a look is alike to itself.
SameLook == {<<l1, l1>>, <<l2, l2>>}
================================================================================
