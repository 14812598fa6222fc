-------------------------------- MODULE MCPaging --------------------------------
(* Small instances of SpiderPaging for TLC. *)
EXTENDS SpiderPaging

CONSTANTS e1, e2, e3, e4, e5, e6, e7

\* e2 is a twin of e1 and e6 a look-alike of e3; e4 is of another year, e5 appears later;
\* e6 has no address, e7 has no title.
Twins ==
    [e \in Entry |-> CASE e \in {e1, e2} -> "p1" [] e = e3 -> "p3" [] e = e4 -> "p4"
                       [] e = e5 -> "p5" [] e = e6 -> "p6" [] OTHER -> "p7"]

LookAlikes == [e \in Entry |-> IF e = e6 THEN "p3" ELSE Twins[e]]

Days == [e \in Entry |-> CASE e = e4 -> "old" [] e \in {e2, e7} -> "unknown" [] OTHER -> "new"]

Lists == {<<e1, e2, e3, e4>>, <<e3, e7, e6, e1>>, <<>>}

\* No limit, or a limit of three pages and the older threshold argument.
Given ==
    {[max_pages |-> n[1], threshold |-> 1, override |-> n[2], dedup |-> TRUE, backfill |-> b] :
        n \in {<<Nil, Nil>>, <<3, 2>>}, b \in BOOLEAN}
================================================================================
