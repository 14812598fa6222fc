------------------------------ MODULE MCParameters ------------------------------
(* Small instances of JobParameters for TLC. *)
EXTENDS JobParameters, TLC

CONSTANTS n1, n2, y1

\* A backfill by hand, without a limit.
ByHand == {[type |-> "backfill", max_pages |-> Nil, year |-> y1]}

\* Page limits are only ever copied.
LimitSymmetry == Permutations(PageLimit)
=================================================================================
