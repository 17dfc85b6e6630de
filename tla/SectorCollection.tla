-------------------------- MODULE SectorCollection --------------------------
(***************************************************************************)
(* The collection of one LeBonCoin sector (sector_collection.py): tasks    *)
(* queued by the beat or by a retry look whether the sector is due, open a *)
(* collection run from the checkpoint of the latest one, lease an account, *)
(* a proxy and a SIM (resource_lock.py), scrape the next pages, store the  *)
(* listings and write the next checkpoint.  Leases last TTL and are never  *)
(* renewed; tasks overlap and die.                                         *)
(***************************************************************************)
EXTENDS Integers, FiniteSets, Sequences, FiniteSetsExt

CONSTANTS
    Tasks,
    Pool,          \* Pool[kind]: the resources of that kind assigned to the sector
    TTL,           \* ttl_seconds, in ticks
    Frequency,     \* frequency_minutes, in ticks
    DayLength,     \* ticks of a day
    Volume,        \* daily_volume
    PerPage,       \* the 20 listings a page is reckoned to have
    MaxTime,       \* bound: the clock
    MaxRuns,       \* bound: collection runs
    MaxDeaths      \* bound: processes that die

VARIABLES
    clock,
    open,       \* the clock is inside the sector's schedule
    runs,       \* collection_runs of the sector, in order of creation
    lease,      \* locked_by (a run; 0: free) and locked_until of each resource
    ctask,      \* the Celery tasks
    account,    \* the LBC account the scraper uses: platform_accounts.status
    deaths

vars == <<clock, open, runs, lease, ctask, account, deaths>>

Kinds == DOMAIN Pool
Resources == UNION {Pool[k] : k \in Kinds}
Idle == [at |-> "idle", run |-> 0, now |-> 0, page |-> 1, pages |-> 0,
         todo |-> {}, tried |-> {}, claimed |-> {}, found |-> 0]

Init ==
    /\ clock = 0
    /\ open = TRUE
    /\ runs = <<>>
    /\ lease = [r \in Resources |-> [by |-> 0, until |-> 0]]
    /\ ctask = [t \in Tasks |-> Idle]
    /\ account = "ACTIF"
    /\ deaths = 0

-----------------------------------------------------------------------------
(* The first transaction of collect_sector.                                *)

Latest == runs[Len(runs)]

IsDue == runs # <<>> => clock >= Latest.started + Frequency

\* listings_seen of the runs of the day that completed.
SeenToday ==
    FoldSet(LAMBDA i, n : n + runs[i].seen, 0,
        {i \in DOMAIN runs : /\ runs[i].status = "completed"
                             /\ runs[i].started \div DayLength = clock \div DayLength})

MaxPages(remaining) == Max({1, Min({remaining \div PerPage + 1, 100})})

\* Outside the schedule, not due or beyond the volume: skipped, nothing changes.
\* (The range of pages says nothing new: it spares the proofs SeenToday's sum.)
Read(t) ==
    /\ ctask[t] = Idle
    /\ open /\ IsDue /\ SeenToday < Volume
    /\ \E pages \in 1 .. 100 :
          /\ pages = MaxPages(Volume - SeenToday)
          /\ ctask' = [ctask EXCEPT ![t] =
                [Idle EXCEPT !.at = "insert", !.now = clock, !.pages = pages,
                             !.page = IF runs = <<>> THEN 1 ELSE Latest.next]]
    /\ UNCHANGED <<clock, open, runs, lease, account, deaths>>

\* The account is required, a kind with no resource assigned is not.
Insert(t) ==
    LET q == ctask[t]
    IN  /\ q.at = "insert"
        /\ Len(runs) < MaxRuns
        /\ runs' = Append(runs, [status |-> "running", started |-> q.now, seen |-> 0,
                                 from |-> q.page, next |-> q.page])
        /\ ctask' = [ctask EXCEPT ![t].at = "claim", ![t].run = Len(runs'),
                ![t].todo = {"account"} \cup {k \in Kinds : Pool[k] # {}}]
        /\ UNCHANGED <<clock, open, lease, account, deaths>>

-----------------------------------------------------------------------------
(* resource_lock.py.                                                       *)

Claimable(r, run) ==
    \/ lease[r].by \in {0, run}
    \/ lease[r].until < clock

\* claim_resource succeeds: the account first, then the others.
Claim(t, kind, r) ==
    /\ ctask[t].at = "claim"
    /\ kind \in ctask[t].todo /\ ("account" \in ctask[t].todo => kind = "account")
    /\ r \in Pool[kind] \ ctask[t].tried
    /\ Claimable(r, ctask[t].run)
    /\ lease' = [lease EXCEPT ![r] = [by |-> ctask[t].run, until |-> clock + TTL]]
    /\ ctask' = [ctask EXCEPT ![t].claimed = @ \cup {[resource |-> r, until |-> clock + TTL]},
                              ![t].todo = @ \ {kind}]
    /\ UNCHANGED <<clock, open, runs, account, deaths>>

\* It does not: the loop goes to the next resource of the kind.
Denied(t, kind, r) ==
    /\ ctask[t].at = "claim"
    /\ kind \in ctask[t].todo /\ ("account" \in ctask[t].todo => kind = "account")
    /\ r \in Pool[kind] \ ctask[t].tried
    /\ ~Claimable(r, ctask[t].run)
    /\ ctask' = [ctask EXCEPT ![t].tried = @ \cup {r},
          ![t].at = IF Pool[kind] \subseteq ctask[t].tried \cup {r} THEN "fail" ELSE @]
    /\ UNCHANGED <<clock, open, runs, lease, account, deaths>>

\* Mutation of Freed: release_resource does not look at locked_by.
FreedWhoever(r, run) == [by |-> 0, until |-> 0]

Freed(r, run) == IF lease[r].by = run THEN [by |-> 0, until |-> 0] ELSE lease[r]

\* The finally clause, one resource after the other.
Release(t) ==
    /\ ctask[t].at = "release"
    /\ IF ctask[t].claimed = {}
       THEN ctask' = [ctask EXCEPT ![t] = Idle] /\ UNCHANGED lease
       ELSE \E c \in ctask[t].claimed :
              /\ lease' = [lease EXCEPT ![c.resource] = Freed(c.resource, ctask[t].run)]
              /\ ctask' = [ctask EXCEPT ![t].claimed = @ \ {c}]
    /\ UNCHANGED <<clock, open, runs, account, deaths>>

-----------------------------------------------------------------------------
(* Scraping and its outcome.                                               *)

\* The pages scrape_lbc visits: "max_pages" is a number of pages to the
\* caller and the number of the last page to the scraper.
Visited(t) == ctask[t].page .. ctask[t].pages

\* Without an active account scrape_lbc warns and returns nothing.
Scrape(t) ==
    /\ ctask[t].at = "claim" /\ ctask[t].todo = {}
    /\ LET pages == IF account = "ACTIF" THEN Visited(t) ELSE {}
       IN  \E perPage \in {1, PerPage} :
              ctask' = [ctask EXCEPT ![t].at = "complete",
                                     ![t].found = perPage * Cardinality(pages)]
    /\ UNCHANGED <<clock, open, runs, lease, account, deaths>>

\* The scraper or the storage raises; DataDome quarantines the account.
ScrapeFails(t, blocked) ==
    /\ ctask[t].at = "claim" /\ ctask[t].todo = {}
    /\ account = "ACTIF"
    /\ account' = IF blocked THEN "QUARANTAINE" ELSE account
    /\ ctask' = [ctask EXCEPT ![t].at = "fail"]
    /\ UNCHANGED <<clock, open, runs, lease, deaths>>

Complete(t) ==
    LET q == ctask[t]
    IN  /\ q.at = "complete"
        /\ runs' = [runs EXCEPT ![q.run].status = "completed",
                                ![q.run].seen = q.found,
                                ![q.run].next = q.page + q.pages]
        /\ ctask' = [ctask EXCEPT ![t].at = "release"]
        /\ UNCHANGED <<clock, open, lease, account, deaths>>

\* Mutation of Failed: the checkpoint of a failed run advances too.
FailedPast(t) ==
    [runs EXCEPT ![ctask[t].run].status = "failed",
                 ![ctask[t].run].next = ctask[t].page + ctask[t].pages]

Failed(t) == [runs EXCEPT ![ctask[t].run].status = "failed"]

\* Celery queues the task again, which is one more task that looks.
Fail(t) ==
    /\ ctask[t].at = "fail"
    /\ runs' = Failed(t)
    /\ ctask' = [ctask EXCEPT ![t].at = "release"]
    /\ UNCHANGED <<clock, open, lease, account, deaths>>

-----------------------------------------------------------------------------

Die(t) ==
    /\ ctask[t] # Idle
    /\ deaths < MaxDeaths
    /\ deaths' = deaths + 1
    /\ ctask' = [ctask EXCEPT ![t] = Idle]
    /\ UNCHANGED <<clock, open, runs, lease, account>>

\* Time passes and the schedule of the sector may open or close.
Tick ==
    /\ clock < MaxTime
    /\ clock' = clock + 1
    /\ open' \in BOOLEAN
    /\ UNCHANGED <<runs, lease, ctask, account, deaths>>

\* An operator sets the status of the account (PATCH /accounts/{id}/status).
Reactivate ==
    /\ account = "QUARANTAINE"
    /\ account' = "ACTIF"
    /\ UNCHANGED <<clock, open, runs, lease, ctask, deaths>>

Next ==
    \/ \E t \in Tasks :
          \/ Read(t) \/ Insert(t) \/ Release(t)
          \/ \E kind \in Kinds : \E r \in Pool[kind] : Claim(t, kind, r) \/ Denied(t, kind, r)
          \/ Scrape(t)
          \/ \E blocked \in BOOLEAN : ScrapeFails(t, blocked)
          \/ Complete(t) \/ Fail(t) \/ Die(t)
    \/ Tick
    \/ Reactivate

-----------------------------------------------------------------------------

TypeOK ==
    /\ clock \in 0 .. MaxTime
    /\ open \in BOOLEAN
    /\ \A i \in DOMAIN runs : runs[i].status \in {"running", "completed", "failed"}
    /\ \A r \in Resources : lease[r].by \in 0 .. Len(runs)
    /\ \A t \in Tasks : ctask[t].run \in 0 .. Len(runs)
    /\ account \in {"ACTIF", "QUARANTAINE"}

\* Until its lease expires, a resource belongs to the task that claimed it:
\* no other task claims it, nor frees it when its own lease has expired.
LeasesHold ==
    \A t \in Tasks : \A c \in ctask[t].claimed :
        clock <= c.until => lease[c.resource].by = ctask[t].run

\* Failed, dead and overlapping runs never move the checkpoint: each page
\* before it was in the range of a run that completed.
CheckpointsFollowRuns ==
    \A i \in DOMAIN runs : \A page \in 1 .. runs[i].next - 1 :
        \E j \in DOMAIN runs :
            /\ runs[j].status = "completed"
            /\ page \in runs[j].from .. runs[j].next - 1
=============================================================================
