----------------------------- MODULE JobParameters -----------------------------
(***************************************************************************)
(* Which page limit and backfill year the spider of a job is given.  They  *)
(* are resolved when a job is asked for, written into the row, carried to  *)
(* the worker by the process that dispatches the job or read back from the *)
(* row by the sweep, passed on to the spider, written again by everyone    *)
(* who starts or closes the job, and inherited from the row by a retry.    *)
(*                                                                         *)
(* The module lays this over CrawlJobSystem: every step is one of its      *)
(* steps, with what that step does to the parameters.                      *)
(***************************************************************************)
EXTENDS CrawlJobSystem

CONSTANTS
    PageLimit, Year,
    ScriptArgs          \* what the script is run with

JobType == {"manual", "scheduled", "backfill", "manual_retry"}

Params == [type : JobType, max_pages : PageLimit \cup {Nil}, year : Year \cup {Nil}]

ASSUME ParamAssumption == Nil \notin PageLimit \cup Year \cup Params /\ ScriptArgs \subseteq Params

VARIABLES
    default,    \* source_site.default_max_pages
    kind,       \* crawl_job.job_type
    params,     \* crawl_job.job_params_json
    held,       \* the parameters a process holds
    spiderArgs  \* the arguments of the spider a runner launched

\* History: what was asked of a job, Nil of one of the script.
VARIABLE asked

paramVars == <<default, kind, params, held, spiderArgs, asked>>
allVars == <<vars, paramVars>>

MaybeParams == Params \cup {Nil}

Held == [wants  : MaybeParams,              \* history: what was asked of the process
         arg    : MaybeParams,              \* spider_args, the argv of a worker
         load   : [Job -> MaybeParams],     \* the requests it is to dispatch
         loaded : MaybeParams]              \* the column as its session loaded it

Anew(w, a) == [wants |-> w, arg |-> a, load |-> [j \in Job |-> Nil], loaded |-> Nil]

Nothing == Anew(Nil, Nil)

ParamInit ==
    /\ Init
    /\ default \in [Source -> PageLimit]
    /\ kind = [j \in Job |-> Nil] /\ params = [j \in Job |-> Nil]
    /\ held = [p \in Proc |-> Nothing]
    /\ spiderArgs = [p \in Runners |-> Nil]
    /\ asked = [j \in Job |-> Nil]

\* A thread or process that is done forgets.
Hold(h) == held' = [p \in Proc |-> IF loc'[p].pc = "idle" THEN Nothing ELSE h[p]]

Holds(p, wants, arg) == [held EXCEPT ![p] = Anew(wants, arg)]

----------------------------------------------------------------------------
(* Asking for a job *)

Crawl(t, n, y) == [type |-> t, max_pages |-> n, year |-> y]

Given(n, d) == IF n # Nil THEN n ELSE d

\* The year of a manual crawl is dropped, a backfill must name one.
Resolved(s, t, n, y) == Crawl(t, Given(n, default[s]), IF t = "backfill" THEN y ELSE Nil)

\* The button that crawls with the default, as the tick does.
Button(t, s) == Resolved(s, t, Nil, Nil)

\* What the bodies, the form and the button can ask of a source, and the tick.
Wishes(p, s) ==
    IF p \in Clients
    THEN {Resolved(s, "manual", n, y) : n \in PageLimit \cup {Nil}, y \in Year \cup {Nil}}
           \cup {Resolved(s, "backfill", n, y) : n \in PageLimit \cup {Nil}, y \in Year}
    ELSE {Button("scheduled", s)}

Ask(p, s, a) ==
    /\ Request(p, s)
    /\ Hold(Holds(p, a, a))
    /\ UNCHANGED <<default, kind, params, spiderArgs, asked>>

\* read_payload_int of a column that may be NULL.
Read(a, key) == IF a = Nil THEN Nil ELSE a[key]

\* What a retry inherits from the row of its original.
RetryOf(r, n) ==
    Crawl("manual_retry", Given(n, Given(Read(params[r], "max_pages"), default[jobs[r].source])),
          Read(params[r], "year"))

\* What a retry is meant to repeat.
Repeat(r, n) ==
    IF asked[r] = Nil THEN Nil
    ELSE Crawl("manual_retry", Given(n, asked[r].max_pages), asked[r].year)

AskRetry(p, r, n) ==
    /\ RequestRetry(p, r)
    /\ Hold(Holds(p, Repeat(r, n), RetryOf(r, n)))
    /\ UNCHANGED <<default, kind, params, spiderArgs, asked>>

Retryable(s) ==
    {r \in Job : /\ jobs[r].source = s /\ jobs[r].status \in {"failed", "partial"}
                 /\ jobs[r].retryOf = Nil /\ RetrySlotFree(jobs, r)}

\* The button that retries the latest retryable job, if that was a manual one;
\* anything else, a failed backfill too, is answered by a manual crawl.
AskRetryLatest(p, s) ==
    \/ \E r \in Retryable(s) :
          /\ \A q \in Retryable(s) : q <= r
          /\ kind[r] = "manual"
          /\ AskRetry(p, r, Nil)
    \/ /\ p \in Clients
       /\ \A r \in Retryable(s) : (\A q \in Retryable(s) : q <= r) => kind[r] # "manual"
       /\ Ask(p, s, Button("manual", s))

\* The row gets the parameters; the request thread goes on with the same ones.
Insert(p, j) ==
    /\ InsertJob(p, j)
    /\ params' = [params EXCEPT ![j] = held[p].arg]
    /\ kind' = [kind EXCEPT ![j] = held[p].arg.type]
    /\ asked' = [asked EXCEPT ![j] = held[p].wants]
    /\ Hold([held EXCEPT ![p].load[j] = held[p].arg])
    /\ UNCHANGED <<default, spiderArgs>>

----------------------------------------------------------------------------
(* Handing it over *)

\* The sweep reads the limit only.
RequestOfMutant(j) == Crawl(kind[j], Read(params[j], "max_pages"), Nil)

\* _load_candidates
RequestOf(j) == Crawl(kind[j], Read(params[j], "max_pages"), Read(params[j], "year"))

SweepAll(d) ==
    /\ Sweep(d)
    /\ Hold([held EXCEPT ![d].load = [j \in Job |-> IF j \in Candidates THEN RequestOf(j) ELSE Nil]])
    /\ UNCHANGED <<default, kind, params, spiderArgs, asked>>

\* The command line of the worker.
Launch(d, w) ==
    /\ LaunchWorker(d, w)
    /\ Hold(Holds(w, Nil, held[d].load[loc[d].job]))
    /\ UNCHANGED <<default, kind, params, spiderArgs, asked>>

----------------------------------------------------------------------------
(* Running it *)

\* A job of another type than the one on the command line is not run.
Start(p) ==
    /\ StartJob(p)
    /\ held[p].arg.type = kind[loc[p].job]
    /\ params' = IF Startable(jobs[loc[p].job])
                 THEN [params EXCEPT ![loc[p].job] = held[p].arg] ELSE params
    /\ Hold(held)
    /\ UNCHANGED <<default, kind, spiderArgs, asked>>

Spawn(p) ==
    /\ SpawnSpider(p)
    /\ spiderArgs' = [spiderArgs EXCEPT ![p] = held[p].arg]
    /\ Hold(held)
    /\ UNCHANGED <<default, kind, params, asked>>

Exit(p) ==
    /\ SpiderExits(p)
    /\ spiderArgs' = [spiderArgs EXCEPT ![p] = Nil]
    /\ Hold(held)
    /\ UNCHANGED <<default, kind, params, asked>>

\* The flush sends the column if it differs from the one that was loaded.
Flush(j, old, new) == params' = [params EXCEPT ![j] = IF old # new THEN new ELSE @]

LoadColumn(p) == Hold([held EXCEPT ![p].loaded = params[loc[p].job]])

\* finish_job; the script passes no parameters.
Finish(p) ==
    \/ /\ FinishRead(p)
       /\ LoadColumn(p)
       /\ UNCHANGED <<default, kind, params, spiderArgs, asked>>
    \/ /\ FinishWrite(p)
       /\ IF p \in Clis THEN UNCHANGED params
          ELSE Flush(loc[p].job, held[p].loaded, held[p].arg)
       /\ Hold(held)
       /\ UNCHANGED <<default, kind, spiderArgs, asked>>

\* What a process knows of the job it gives up.
Known(p) == IF p \in Dispatchers THEN held[p].load[loc[p].job] ELSE held[p].arg

\* fail_job_if_active, of a dispatcher and of a worker
Fail(p) ==
    \/ /\ FailRead(p)
       /\ LoadColumn(p)
       /\ UNCHANGED <<default, kind, params, spiderArgs, asked>>
    \/ /\ FailWrite(p)
       /\ Flush(loc[p].job, held[p].loaded, Known(p))
       /\ Hold(held)
       /\ UNCHANGED <<default, kind, spiderArgs, asked>>

----------------------------------------------------------------------------
(* The script, and everything else *)

\* It writes no parameters and gives its spider what it is told.
Script(p, s, j, a) ==
    /\ CliCreate(p, s, j)
    /\ params' = [params EXCEPT ![j] = Nil]
    /\ kind' = [kind EXCEPT ![j] = a.type]
    /\ asked' = [asked EXCEPT ![j] = Nil]
    /\ Hold(Holds(p, Nil, a))
    /\ UNCHANGED <<default, spiderArgs>>

\* An administrator edits the source.
EditDefault(s, n) ==
    /\ default' = [default EXCEPT ![s] = n]
    /\ UNCHANGED <<vars, kind, params, held, spiderArgs, asked>>

\* Steps that neither read nor write parameters.
Other ==
    /\ \/ \E p \in Creators : CheckActive(p) \/ InsertConflict(p)
       \/ \E d \in Dispatchers : Claim(d) \/ LaunchFails(d) \/ HandoffFails(d)
       \/ \E p \in Runners :
             \/ BootFails(p) \/ SpawnFails(p) \/ HeartbeatRead(p) \/ HeartbeatWrite(p)
             \/ \E t \in FinalStatus : Conclude(p, t)
             \/ ConcludeFails(p)
       \/ \E p \in Clis : CliStart(p)
       \/ \E p \in Pages : ReconcileStep(p)
       \/ \E j \in Job : LeaseExpires(j)
       \/ \E p \in Proc : Crash(p)
    /\ Hold(held)
    /\ UNCHANGED <<default, kind, params, spiderArgs, asked>>

ParamNext ==
    \/ \E p \in Creators, s \in Source : \E a \in Wishes(p, s) : Ask(p, s, a)
    \/ \E p \in Clients, r \in Job, n \in PageLimit \cup {Nil} : AskRetry(p, r, n)
    \/ \E p \in Clients, s \in Source : AskRetryLatest(p, s)
    \/ \E p \in Creators, j \in Job : Insert(p, j)
    \/ \E d \in Dispatchers : SweepAll(d) \/ \E w \in Workers : Launch(d, w)
    \/ \E p \in Runners : Start(p) \/ Spawn(p) \/ Exit(p) \/ Finish(p)
    \/ \E p \in Dispatchers \cup Runners : Fail(p)
    \/ \E p \in Clis, s \in Source, j \in Job, a \in ScriptArgs : Script(p, s, j, a)
    \/ \E s \in Source, n \in PageLimit : EditDefault(s, n)
    \/ Other

ParamSpec == ParamInit /\ [][ParamNext]_allVars

----------------------------------------------------------------------------
(* Properties *)

\* Whoever hands a job over, sweeps it up, starts it or closes it, after whichever
\* crash, lost hand-off or reconciliation, its row and its spider have the limit and
\* the year it was asked for, and a retry those of its original, whatever became of
\* the default of the source since (the paths of job_params_json and of the argv).
RunsAsAsked ==
    /\ \A j \in Job : asked[j] # Nil => params[j] = asked[j]
    /\ \A p \in Runners :
          child[p] # Nil /\ asked[child[p]] # Nil => spiderArgs[p] = asked[child[p]]
================================================================================
