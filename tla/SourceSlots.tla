------------------------------ MODULE SourceSlots ------------------------------
(***************************************************************************)
(* What the crawl_job table promises about each source, without processes, *)
(* rows or leases: a source has one slot; a job that has never been used   *)
(* may take a free slot, begins at most once while it holds it, and gives  *)
(* it back once.  CrawlJobSystem implements this (CrawlJobRefinement).     *)
(***************************************************************************)
EXTENDS Naturals

CONSTANTS Job, Source, Nil

VARIABLES
    holder,     \* the job that has the source's slot
    phase,      \* "free", "queued" or "executing"
    used        \* jobs that have ever been queued

slotVars == <<holder, phase, used>>

Init ==
    /\ holder = [s \in Source |-> Nil]
    /\ phase = [s \in Source |-> "free"]
    /\ used = {}

\* A transaction may free several slots at once.
Freed(f, S, free) == [s \in Source |-> IF s \in S THEN free ELSE f[s]]

Held == {s \in Source : phase[s] # "free"}

Enqueue(s, j, S) ==
    /\ phase[s] = "free"
    /\ j \notin used
    /\ holder' = [Freed(holder, S, Nil) EXCEPT ![s] = j]
    /\ phase' = [Freed(phase, S, "free") EXCEPT ![s] = "queued"]
    /\ used' = used \cup {j}

Begin(s) ==
    /\ phase[s] = "queued"
    /\ phase' = [phase EXCEPT ![s] = "executing"]
    /\ UNCHANGED <<holder, used>>

Release(S) ==
    /\ S # {}
    /\ holder' = Freed(holder, S, Nil)
    /\ phase' = Freed(phase, S, "free")
    /\ UNCHANGED used

Next ==
    \/ \E s \in Source, j \in Job, S \in SUBSET Held : Enqueue(s, j, S)
    \/ \E s \in Source : Begin(s)
    \/ \E S \in SUBSET Held : Release(S)

Spec == Init /\ [][Next]_slotVars
================================================================================
