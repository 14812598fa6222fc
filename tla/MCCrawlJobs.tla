------------------------------ MODULE MCCrawlJobs ------------------------------
(* Small instances of CrawlJobSystem for TLC. *)
EXTENDS CrawlJobRefinement, TLC

\* The processes of one kind are interchangeable; jobs are not (ids are ordered).
Symmetry == Permutations(Clients) \cup Permutations(Sweepers) \cup Permutations(Workers)
                \cup Permutations(Schedulers)
================================================================================
