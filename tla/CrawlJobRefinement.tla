-------------------------- MODULE CrawlJobRefinement --------------------------
(* CrawlJobSystem implements SourceSlots: the slot of a source is held by its *)
(* pending or running row.                                                    *)
EXTENDS CrawlJobSystem

ActiveJobs(s) == {j \in Job : jobs[j].source = s /\ IsActive(jobs[j])}

slotHolder ==
    [s \in Source |-> IF ActiveJobs(s) = {} THEN Nil ELSE CHOOSE j \in ActiveJobs(s) : TRUE]

slotPhase ==
    [s \in Source |->
        IF ActiveJobs(s) = {} THEN "free"
        ELSE IF \E j \in ActiveJobs(s) : jobs[j].status = "running" THEN "executing"
        ELSE "queued"]

usedJobs == {j \in Job : jobs[j].status # "absent"}

Slots == INSTANCE SourceSlots WITH holder <- slotHolder, phase <- slotPhase, used <- usedJobs

\* Every behaviour of the processes is one of the slots: no interleaving of
\* requests, dispatchers, workers, crashes and reconciliations lets a job begin
\* twice, reuses an id or hands a slot over without freeing it.
ImplementsSourceSlots == Slots!Spec
===============================================================================
