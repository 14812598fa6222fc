------------------------------- MODULE MCStats -------------------------------
(* Small instances of CrawlStats for TLC. *)
EXTENDS CrawlStats, TLC

CONSTANTS l1, l2, d1, c1, c2

List(u, c, seen, unique, skipped) ==
    [url |-> u, content |-> c, role |-> "list", seen |-> seen, unique |-> unique, skipped |-> skipped]

\* Two list urls whose bodies may be the same, an empty list, and a detail page
\* that is served the body of another page.
SomeDocs == {List(l1, c1, 2, 1, 1), List(l2, c1, 0, 0, 0), List(l2, c2, 1, 1, 0),
             [url |-> d1, content |-> c2, role |-> "detail", seen |-> 0, unique |-> 0, skipped |-> 0]}

\* Nothing tells one job from another, and the run checks invariants only.
JobsAlike == Permutations(Job)
===============================================================================
