---------------------------- MODULE SmsCampaign ----------------------------
(***************************************************************************)
(* The SMS campaign machine: the operator commands of the control tower    *)
(* (campaign_control.py, workflow_control.py), the historical start route  *)
(* (api/campaigns.py), the Celery task that runs one batch of a campaign   *)
(* (tasks.py, campaign_runner.py) and the blacklist it consults.           *)
(*                                                                         *)
(* Requests are API calls and Jobs are Celery tasks.  A request dispatches *)
(* at most one task, and a task that is queued again for its next batch    *)
(* continues the same chain, so both are indexed by the request: job[r] is *)
(* the chain of tasks that request r started.  A database transaction is   *)
(* one step, except for a command, whose read of the current state and     *)
(* whose commit are two steps: nothing is locked in between.               *)
(***************************************************************************)
EXTENDS Integers, FiniteSets

CONSTANTS
    Campaigns, Listings, Phones, Keys,
    Requests,       \* API calls; their number bounds commands and dispatches
    None,           \* the absent value
    OptOuts,        \* the numbers whose owner may send a STOP
    PhoneOf,        \* listing.phone
    ScopeOf,        \* listing.campaign_id, None when it is not pre-assigned
    Routes,         \* the entry points in use: "campaign", "workflow", "legacy"
    BatchSize,      \* CAMPAIGN_BATCH_SIZE
    Concurrency,    \* prefork children of the Celery worker
    SimQuota,       \* the largest quota_remaining a SIM reports
    WindowCloses,   \* bound: FALSE keeps an instance within one day's window
    MaxFaults,      \* bound: failing answers of SMSTools and of the SmsLog commit
    MaxCrashes      \* bound: processes that die, or tasks that end in an exception

ASSUME SmsCampaignAssumption ==
    /\ None \notin Campaigns \cup Requests \cup Listings
    /\ IsFiniteSet(Listings)
    /\ IsFiniteSet(Requests)
    /\ OptOuts \subseteq Phones
    /\ PhoneOf \in [Listings -> Phones]
    /\ ScopeOf \in [Listings -> Campaigns \cup {None}]
    /\ BatchSize \in Nat \ {0}
    /\ Concurrency \in Nat \ {0}
    /\ SimQuota \in Nat
    /\ WindowCloses \in BOOLEAN
    /\ MaxFaults \in Nat
    /\ MaxCrashes \in Nat

VARIABLES
    campaign,     \* campaigns.status and campaigns.sent
    workflow,     \* workflow_runs created by request r (status NONE before)
    request,      \* progress of the API call r
    job,          \* progress and locals of the Celery tasks of r
    contacted,    \* listings whose status is SMS_ENVOYE; the others are NOUVELLE
    blacklist,    \* blacklist.phone
    audit,        \* audit_events.idempotency_key
    windowOpen,   \* is_within_sms_window()
    faults, crashes,
    \* What the sellers saw, for the properties.
    texts,        \* copies of a message the provider accepted, per listing
    accepted,     \* the same, per campaign
    overrun,      \* messages of a task since its campaign was last stopped
    late          \* messages of a task to a number already on the blacklist

dbVars == <<campaign, workflow, contacted, blacklist, audit>>
history == <<texts, accepted>>
budget == <<faults, crashes>>
vars == <<dbVars, request, job, windowOpen, budget, history, overrun, late>>

-----------------------------------------------------------------------------
CampaignStatus ==
    {"PENDING", "RUNNING", "PAUSED", "COMPLETED", "FAILED", "CANCELLED"}
Active == {"PENDING", "RUNNING", "PAUSED"}
Stopped == {"PAUSED", "CANCELLED"}
Working == {"loop", "screen", "sleep", "record", "finish", "requeue"}
Actions == {"start", "pause", "resume", "cancel", "retry"}

\* _TRANSITIONS of campaign_control: which action a campaign accepts.
CampaignAllows(status, action) ==
    \/ action = "start" /\ status = "PENDING"
    \/ action = "pause" /\ status = "RUNNING"
    \/ action = "resume" /\ status = "PAUSED"
    \/ action = "cancel" /\ status \in Active
    \/ action = "retry" /\ status = "FAILED"

\* _TRANSITIONS of workflow_control.
WorkflowAllows(status, action) ==
    \/ action = "pause" /\ status \in {"PENDING", "RUNNING"}
    \/ action = "resume" /\ status = "PAUSED"
    \/ action = "cancel" /\ status \in Active
    \/ action = "retry" /\ status \in {"FAILED", "CANCELLED"}

\* Mutation of Dispatches: a resume is committed but not dispatched.
DispatchesNew(action) == action \in {"start", "retry"}

\* The actions after which a task is sent to the broker.
Dispatches(action) == action \in {"start", "resume", "retry"}

\* The campaign status a command writes, whichever of the two tables it uses.
CommandedStatus(action) ==
    CASE action = "pause" -> "PAUSED"
      [] action = "cancel" -> "CANCELLED"
      [] OTHER -> "RUNNING"

\* The workflow status a command writes.
CommandedRun(action) ==
    CASE action = "pause" -> "PAUSED"
      [] action = "cancel" -> "CANCELLED"
      [] OTHER -> "PENDING"

NoRun == [status |-> "NONE", campaign |-> None, born |-> 0, task |-> None]
NoRequest == [pc |-> "idle", route |-> "none", action |-> "none", key |-> None,
              campaign |-> None, run |-> None, seen |-> "none", old |-> None]
NoJob == [pc |-> "none", orig |-> FALSE, campaign |-> None, run |-> None,
          batch |-> {}, cur |-> None, prev |-> 0, sent |-> 0, quota |-> 0,
          more |-> FALSE, why |-> "none"]

\* A request that was answered, and a task that ended, keep no locals.
Served(q) == [NoRequest EXCEPT !.pc = "done", !.key = q.key]
Ended == [NoJob EXCEPT !.pc = "done"]
Killed == [NoJob EXCEPT !.pc = "killed"]

Created == {w \in Requests : workflow[w].status # "NONE"}
ActiveRuns(c) ==
    {w \in Created : workflow[w].campaign = c /\ workflow[w].status \in Active}
Newest(w, S) == w \in S /\ \A v \in S : workflow[v].born <= workflow[w].born

Init ==
    /\ campaign = [c \in Campaigns |-> [status |-> "PENDING", sent |-> 0]]
    /\ workflow = [r \in Requests |-> NoRun]
    /\ request = [r \in Requests |-> NoRequest]
    /\ job = [r \in Requests |-> NoJob]
    /\ contacted = {}
    /\ blacklist = {}
    /\ audit = {}
    /\ windowOpen = TRUE
    /\ faults = 0
    /\ crashes = 0
    /\ texts = [l \in Listings |-> 0]
    /\ accepted = [c \in Campaigns |-> 0]
    /\ overrun = [r \in Requests |-> 0]
    /\ late = [r \in Requests |-> [p \in Phones |-> 0]]

-----------------------------------------------------------------------------
(* Operator commands.  A refused or duplicate command changes nothing and  *)
(* is left out.                                                            *)

\* execute_campaign_command looks for the key, then reads the campaign.
ReadCampaign(r, c, a, k) ==
    /\ "campaign" \in Routes
    /\ request[r].pc = "idle"
    /\ k \notin audit
    /\ CampaignAllows(campaign[c].status, a)
    /\ request' = [request EXCEPT ![r] =
          [NoRequest EXCEPT !.pc = "read", !.route = "campaign", !.action = a,
                            !.key = k, !.campaign = c]]
    /\ UNCHANGED <<dbVars, job, windowOpen, budget, history>>

\* workflow_runs.idempotency_key is unique, audit_events.idempotency_key is not.
KeyTaken(r) == \E w \in Created : request[w].key = request[r].key

\* A start, a retry, or any action on a campaign with no active run, makes a
\* new run, under the identifier of its request.
Fresh(r) ==
    \/ request[r].action \in {"start", "retry"}
    \/ ActiveRuns(request[r].campaign) = {}

\* The commit: of the new run, or of the newest active one.
CommitCampaign(r, w) ==
    LET a == request[r].action
        c == request[r].campaign
    IN  /\ request[r].pc = "read"
        /\ request[r].route = "campaign"
        /\ \/ /\ Fresh(r)
              /\ ~KeyTaken(r)
              /\ w = r
              /\ workflow' = [workflow EXCEPT ![w] =
                    [status |-> "PENDING", campaign |-> c,
                     born |-> Cardinality(Created) + 1, task |-> None]]
           \/ /\ ~Fresh(r)
              /\ Newest(w, ActiveRuns(c))
              /\ workflow' = [workflow EXCEPT ![w].status = CommandedRun(a)]
        /\ campaign' = [campaign EXCEPT ![c].status = CommandedStatus(a)]
        /\ audit' = audit \cup {request[r].key}
        /\ request' = [request EXCEPT ![r] =
              IF Dispatches(a) THEN [@ EXCEPT !.run = w, !.pc = "dispatch"] ELSE Served(@)]
        /\ UNCHANGED <<job, contacted, blacklist, windowOpen, budget, history>>

\* The unique key of the run is violated: the transaction rolls back.
RejectDuplicate(r) ==
    /\ request[r].pc = "read"
    /\ request[r].route = "campaign"
    /\ Fresh(r)
    /\ KeyTaken(r)
    /\ request' = [request EXCEPT ![r] = Served(@)]
    /\ UNCHANGED <<dbVars, job, windowOpen, budget, history>>

\* command_workflow reads the run, its campaign and its Celery task id.
ReadWorkflow(r, w, a, k) ==
    /\ "workflow" \in Routes
    /\ request[r].pc = "idle"
    /\ k \notin audit
    /\ w \in Created
    /\ WorkflowAllows(workflow[w].status, a)
    /\ LET c == workflow[w].campaign
       IN request' = [request EXCEPT ![r] =
            [NoRequest EXCEPT !.pc = "read", !.route = "workflow", !.action = a,
                              !.key = k, !.campaign = c, !.run = w,
                              !.seen = campaign[c].status, !.old = workflow[w].task]]
    /\ UNCHANGED <<dbVars, job, windowOpen, budget, history>>

\* The ORM writes the campaign only when its status differs from the one read.
CommitWorkflow(r) ==
    LET a == request[r].action
        c == request[r].campaign
    IN  /\ request[r].pc = "read"
        /\ request[r].route = "workflow"
        /\ workflow' = [workflow EXCEPT ![request[r].run].status = CommandedRun(a)]
        /\ campaign' = [campaign EXCEPT ![c].status =
              IF CommandedStatus(a) = request[r].seen THEN @ ELSE CommandedStatus(a)]
        /\ audit' = audit \cup {request[r].key}
        /\ request' = [request EXCEPT ![r].pc =
              IF Dispatches(a) THEN "dispatch" ELSE "revoke"]
        /\ UNCHANGED <<job, contacted, blacklist, windowOpen, budget, history>>

\* apply_async, after the commit.
Dispatch(r) ==
    /\ request[r].pc = "dispatch"
    /\ job' = [job EXCEPT ![r] =
          [NoJob EXCEPT !.pc = "queued", !.orig = TRUE,
                        !.campaign = request[r].campaign, !.run = request[r].run]]
    /\ request' = [request EXCEPT ![r].pc = "store"]
    /\ UNCHANGED <<dbVars, windowOpen, budget, history>>

\* workflow.celery_task_id, in a transaction of its own.
StoreTaskId(r) ==
    /\ request[r].pc = "store"
    /\ workflow' = [workflow EXCEPT ![request[r].run].task = r]
    /\ request' = [request EXCEPT ![r] = Served(@)]
    /\ UNCHANGED <<campaign, contacted, blacklist, audit, job, windowOpen,
                   budget, history>>

\* _stop_execution revokes the task id read at the start: a queued task is
\* discarded, a running one is killed by a cancel only.  The id names the
\* first task of a chain; it designates nothing once that task was requeued.
Revoke(r) ==
    LET t == request[r].old
        hit == /\ t # None
               /\ job[t].orig
               /\ \/ job[t].pc = "queued"
                  \/ job[t].pc \in Working /\ request[r].action = "cancel"
    IN  /\ request[r].pc = "revoke"
        /\ job' = IF hit THEN [job EXCEPT ![t] = Killed] ELSE job
        /\ request' = [request EXCEPT ![r] = Served(@)]
        /\ UNCHANGED <<dbVars, windowOpen, budget, history>>

\* POST /campaigns/{id}/start: no run, no status change, a task all the same.
StartLegacy(r, c) ==
    /\ "legacy" \in Routes
    /\ request[r].pc = "idle"
    /\ campaign[c].status \notin {"COMPLETED", "FAILED"}
    /\ job' = [job EXCEPT ![r] =
          [NoJob EXCEPT !.pc = "queued", !.orig = TRUE, !.campaign = c]]
    /\ request' = [request EXCEPT ![r] =
          [NoRequest EXCEPT !.pc = "done", !.route = "legacy"]]
    /\ UNCHANGED <<dbVars, windowOpen, budget, history>>

\* The API process dies, or the broker refuses, after the commit.
CrashRequest(r) ==
    /\ request[r].pc \in {"dispatch", "store", "revoke"}
    /\ crashes < MaxCrashes
    /\ request' = [request EXCEPT ![r] = Served(@)]
    /\ crashes' = crashes + 1
    /\ UNCHANGED <<dbVars, job, windowOpen, faults, history>>

-----------------------------------------------------------------------------
(* The Celery task: run_campaign_task and run_campaign.                    *)

FreeWorker == Cardinality({r \in Requests : job[r].pc \in Working}) < Concurrency

\* Outside the window the task queues itself again, under a new task id, for
\* the next opening.
Defer(r) ==
    /\ job[r].pc = "queued"
    /\ job[r].orig
    /\ ~windowOpen
    /\ FreeWorker
    /\ job' = [job EXCEPT ![r].orig = FALSE]
    /\ UNCHANGED <<dbVars, request, windowOpen, budget, history>>

\* The campaign is neither PENDING nor RUNNING any more.
Refuse(r) ==
    /\ job[r].pc = "queued"
    /\ windowOpen
    /\ FreeWorker
    /\ campaign[job[r].campaign].status \notin {"PENDING", "RUNNING"}
    /\ job' = [job EXCEPT ![r] = Ended]
    /\ UNCHANGED <<dbVars, request, windowOpen, budget, history>>

\* When some listing is assigned to the campaign, only those are its scope.
Eligible(c) ==
    LET assigned == {l \in Listings : ScopeOf[l] = c}
        scope == IF assigned = {} THEN Listings ELSE assigned
    IN  scope \ contacted

\* The first transaction: take the campaign, read the counters, fetch a batch
\* (the query has no ORDER BY) and one row more, then ask for the SIMs.
Begin(r, batch, q) ==
    LET c == job[r].campaign
        w == job[r].run
        eligible == Eligible(c)
    IN  /\ job[r].pc = "queued"
        /\ windowOpen
        /\ FreeWorker
        /\ campaign[c].status \in {"PENDING", "RUNNING"}
        /\ batch \subseteq eligible
        /\ Cardinality(batch) = IF Cardinality(eligible) <= BatchSize
                                THEN Cardinality(eligible) ELSE BatchSize
        /\ campaign' = [campaign EXCEPT ![c].status = "RUNNING"]
        /\ workflow' = IF w = None THEN workflow
                       ELSE [workflow EXCEPT ![w].status = "RUNNING"]
        /\ job' = [job EXCEPT ![r] =
              [@ EXCEPT !.pc = "loop", !.batch = batch, !.cur = None,
                        !.prev = campaign[c].sent, !.sent = 0, !.quota = q,
                        !.more = Cardinality(eligible) > BatchSize, !.why = "none"]]
        /\ UNCHANGED <<request, contacted, blacklist, audit, windowOpen,
                       budget, history>>

\* Mutation of Interruption: only the first listing of a batch looks.
InterruptionAtFirst(r) ==
    IF /\ job[r].run # None
       /\ job[r].cur = None
       /\ campaign[job[r].campaign].status \in Stopped
    THEN campaign[job[r].campaign].status ELSE "none"

\* _interrupted_campaign_status; a task started without a run never looks.
Interruption(r) ==
    LET c == job[r].campaign
        w == job[r].run
    IN  CASE w = None -> "none"
          [] w # None /\ campaign[c].status \in Stopped -> campaign[c].status
          [] w # None /\ campaign[c].status \notin Stopped
               /\ workflow[w].status \in Stopped -> workflow[w].status
          [] OTHER -> "none"

Interrupt(r) ==
    /\ job[r].pc = "loop"
    /\ job[r].batch # {}
    /\ Interruption(r) # "none"
    /\ job' = [job EXCEPT ![r].pc = "finish", ![r].why = Interruption(r)]
    /\ UNCHANGED <<dbVars, request, windowOpen, budget, history>>

Pick(r, l) ==
    /\ job[r].pc = "loop"
    /\ l \in job[r].batch
    /\ Interruption(r) = "none"
    /\ job' = [job EXCEPT ![r].pc = "screen", ![r].cur = l, ![r].batch = @ \ {l}]
    /\ UNCHANGED <<dbVars, request, windowOpen, budget, history>>

\* Mutation of Screen: the blacklist is not consulted.
ScreenWithoutBlacklist(r) ==
    /\ job[r].pc = "screen"
    /\ job' = [job EXCEPT ![r] =
          IF @.quota = 0 THEN [@ EXCEPT !.pc = "finish", !.why = "quota"]
          ELSE [@ EXCEPT !.pc = "sleep"]]
    /\ UNCHANGED <<dbVars, request, windowOpen, budget, history>>

\* Mutation of Screen: a SIM without quota is used.
ScreenWithoutQuota(r) ==
    /\ job[r].pc = "screen"
    /\ job' = [job EXCEPT ![r].pc =
          IF PhoneOf[job[r].cur] \in blacklist THEN "loop" ELSE "sleep"]
    /\ UNCHANGED <<dbVars, request, windowOpen, budget, history>>

\* is_blacklisted, then _select_best_sim; the task then sleeps for minutes.
Screen(r) ==
    /\ job[r].pc = "screen"
    /\ job' = [job EXCEPT ![r] =
          IF PhoneOf[@.cur] \in blacklist THEN [@ EXCEPT !.pc = "loop"]
          ELSE IF @.quota = 0 THEN [@ EXCEPT !.pc = "finish", !.why = "quota"]
          ELSE [@ EXCEPT !.pc = "sleep"]]
    /\ UNCHANGED <<dbVars, request, windowOpen, budget, history>>

Fault(n) ==
    /\ faults + n <= MaxFaults
    /\ faults' = faults + n

\* The provider accepted n copies of the message for job[r].cur.
Texted(r, n) ==
    LET l == job[r].cur
    IN  /\ texts' = [texts EXCEPT ![l] = @ + n]
        /\ accepted' = [accepted EXCEPT ![job[r].campaign] = @ + n]

\* send_sms answers SENT.  It retries an attempt whose answer was lost, so
\* each of its first two attempts may have delivered one more copy.
SendAccepted(r, lost) ==
    /\ job[r].pc = "sleep"
    /\ Fault(lost)
    /\ Texted(r, 1 + lost)
    /\ job' = [job EXCEPT ![r].pc = "record", ![r].sent = @ + 1, ![r].quota = @ - 1]
    /\ UNCHANGED <<dbVars, request, windowOpen, crashes>>

\* Mutation of SendFailed: sent is incremented before the answer is looked at.
SendFailedCounted(r, lost) ==
    /\ job[r].pc = "sleep"
    /\ Fault(1 + lost)
    /\ Texted(r, lost)
    /\ job' = [job EXCEPT ![r].pc = "loop", ![r].sent = @ + 1]
    /\ UNCHANGED <<dbVars, request, windowOpen, crashes>>

\* Any other answer, or an exception after attempts that may have delivered.
SendFailed(r, lost) ==
    /\ job[r].pc = "sleep"
    /\ Fault(1 + lost)
    /\ Texted(r, lost)
    /\ job' = [job EXCEPT ![r].pc = "loop"]
    /\ UNCHANGED <<dbVars, request, windowOpen, crashes>>

\* HTTP 402, at the first attempt or after lost ones: InsufficientCreditError
\* ends the batch.
SendWithoutCredit(r, lost) ==
    /\ job[r].pc = "sleep"
    /\ Fault(1 + lost)
    /\ Texted(r, lost)
    /\ job' = [job EXCEPT ![r].pc = "finish", ![r].why = "credit"]
    /\ UNCHANGED <<dbVars, request, windowOpen, crashes>>

\* Mutation of Record: the listing stays NOUVELLE.
RecordUnmarked(r) ==
    /\ job[r].pc = "record"
    /\ job' = [job EXCEPT ![r].pc = "loop"]
    /\ UNCHANGED <<dbVars, request, windowOpen, budget, history>>

\* The SmsLog row and the status of the listing, in one transaction.  Nothing
\* here reads the row back: the status of the listing stands for both.
Record(r) ==
    /\ job[r].pc = "record"
    /\ contacted' = contacted \cup {job[r].cur}
    /\ job' = [job EXCEPT ![r].pc = "loop"]
    /\ UNCHANGED <<campaign, workflow, blacklist, audit, request, windowOpen,
                   budget, history>>

\* That transaction fails: the exception is caught and the loop goes on.
RecordFails(r) ==
    /\ job[r].pc = "record"
    /\ Fault(1)
    /\ job' = [job EXCEPT ![r].pc = "loop"]
    /\ UNCHANGED <<dbVars, request, windowOpen, crashes, history>>

FinalStatus(r) ==
    CASE job[r].why \in Stopped -> job[r].why
      [] job[r].why = "credit" -> "FAILED"
      [] job[r].why = "quota" -> "PAUSED"
      [] job[r].why = "none" /\ job[r].more -> "RUNNING"
      [] OTHER -> "COMPLETED"

\* Mutation of Total: the counter forgets the previous batches.
TotalOfBatch(r) == job[r].sent

\* previous_sent + sent: the first was read when the batch began.
Total(r) == job[r].prev + job[r].sent

\* The last transaction writes the status and the counter it computed, over
\* whatever the row holds by then.
Finish(r) ==
    LET c == job[r].campaign
        w == job[r].run
    IN  /\ \/ job[r].pc = "finish"
           \/ job[r].pc = "loop" /\ job[r].batch = {}
        /\ campaign' = [campaign EXCEPT
              ![c] = [status |-> FinalStatus(r), sent |-> Total(r)]]
        /\ workflow' = IF w = None THEN workflow
                       ELSE [workflow EXCEPT ![w].status = FinalStatus(r)]
        /\ job' = [job EXCEPT ![r] =
              IF FinalStatus(r) = "RUNNING" THEN [@ EXCEPT !.pc = "requeue"] ELSE Ended]
        /\ UNCHANGED <<contacted, blacklist, audit, request, windowOpen,
                       budget, history>>

\* Mutation of Requeue: apply_async is left out.
RequeueNothing(r) ==
    /\ job[r].pc = "requeue"
    /\ job' = [job EXCEPT ![r] = Ended]
    /\ UNCHANGED <<dbVars, request, windowOpen, budget, history>>

\* run_campaign_task queues the next batch, under a new task id.
Requeue(r) ==
    /\ job[r].pc = "requeue"
    /\ job' = [job EXCEPT ![r] =
          [NoJob EXCEPT !.pc = "queued", !.campaign = job[r].campaign, !.run = job[r].run]]
    /\ UNCHANGED <<dbVars, request, windowOpen, budget, history>>

\* The worker process dies, or a call that is not guarded (get_sim_list, a
\* database read) raises: the task is acknowledged and never runs again.
JobDies(r) ==
    /\ job[r].pc \in Working
    /\ crashes < MaxCrashes
    /\ job' = [job EXCEPT ![r] = Ended]
    /\ crashes' = crashes + 1
    /\ UNCHANGED <<dbVars, request, windowOpen, faults, history>>

-----------------------------------------------------------------------------
(* The environment: STOP messages and the clock.                           *)

AddToBlacklist(p) ==
    /\ p \notin blacklist
    /\ blacklist' = blacklist \cup {p}
    /\ UNCHANGED <<campaign, workflow, contacted, audit, request, job,
                   windowOpen, budget, history>>

CloseWindow ==
    /\ WindowCloses
    /\ windowOpen
    /\ windowOpen' = FALSE
    /\ UNCHANGED <<dbVars, request, job, budget, history>>

OpenWindow ==
    /\ ~windowOpen
    /\ windowOpen' = TRUE
    /\ UNCHANGED <<dbVars, request, job, budget, history>>

-----------------------------------------------------------------------------
RequestStep(r) ==
    \/ \E c \in Campaigns, a \in Actions, k \in Keys : ReadCampaign(r, c, a, k)
    \/ \E w \in Requests : CommitCampaign(r, w)
    \/ RejectDuplicate(r)
    \/ \E w \in Requests, a \in Actions, k \in Keys : ReadWorkflow(r, w, a, k)
    \/ CommitWorkflow(r)
    \/ Dispatch(r)
    \/ StoreTaskId(r)
    \/ Revoke(r)
    \/ \E c \in Campaigns : StartLegacy(r, c)
    \/ CrashRequest(r)

JobStep(r) ==
    \/ Defer(r)
    \/ Refuse(r)
    \/ \E batch \in SUBSET Listings, q \in 0..SimQuota : Begin(r, batch, q)
    \/ Interrupt(r)
    \/ \E l \in Listings : Pick(r, l)
    \/ Screen(r)
    \/ \E lost \in 0..2 : SendAccepted(r, lost)
    \/ \E lost \in 0..3 : SendFailed(r, lost)
    \/ \E lost \in 0..2 : SendWithoutCredit(r, lost)
    \/ Record(r)
    \/ RecordFails(r)
    \/ Finish(r)
    \/ Requeue(r)
    \/ JobDies(r)

Environment ==
    \/ \E p \in OptOuts : AddToBlacklist(p)
    \/ CloseWindow
    \/ OpenWindow

\* A task that leaves its sleep by itself called send_sms.
Sends(r) == job[r].pc = "sleep" /\ job'[r].pc \in {"record", "loop", "finish"}

\* The messages a task sent although its campaign is stopped (the count starts
\* again whenever it is not) and those it sent to each blacklisted number.
Observe ==
    /\ overrun' = [r \in Requests |->
          IF job'[r].campaign = None \/ campaign'[job'[r].campaign].status \notin Stopped
          THEN 0
          ELSE overrun[r] + (IF Sends(r) THEN 1 ELSE 0)]
    /\ late' = [r \in Requests |-> [p \in Phones |->
          IF job'[r].campaign = None THEN 0
          ELSE late[r][p] + (IF /\ Sends(r)
                                /\ PhoneOf[job[r].cur] = p
                                /\ p \in blacklist
                             THEN 1 ELSE 0)]]

Next ==
    /\ \/ \E r \in Requests : RequestStep(r) \/ JobStep(r)
       \/ Environment
    /\ Observe

Spec == Init /\ [][Next]_vars

\* Steps that the API process takes once it has begun a command.
Serve(r) ==
    \/ \E w \in Requests : CommitCampaign(r, w)
    \/ RejectDuplicate(r) \/ CommitWorkflow(r) \/ Dispatch(r) \/ StoreTaskId(r) \/ Revoke(r)

\* A worker takes a queued task; the window may close and reopen meanwhile.
Take(r) ==
    \/ Refuse(r)
    \/ \E batch \in SUBSET Listings, q \in 0..SimQuota : Begin(r, batch, q)

\* A task that runs goes on: its calls are bounded by timeouts and its sleep
\* by 720 seconds.
Work(r) ==
    \/ Interrupt(r) \/ Screen(r) \/ Record(r) \/ RecordFails(r)
    \/ Finish(r) \/ Requeue(r)
    \/ \E l \in Listings : Pick(r, l)
    \/ \E lost \in 0..2 : SendAccepted(r, lost) \/ SendWithoutCredit(r, lost)
    \/ \E lost \in 0..3 : SendFailed(r, lost)

\* The API serves, the worker works, the broker delivers each queued task, and
\* the window reopens every morning.  No operator has to do anything.
FairSpec ==
    /\ Spec
    /\ \A r \in Requests : WF_vars(Serve(r) /\ Observe)
    /\ \A r \in Requests : WF_vars(Work(r) /\ Observe)
    /\ \A r \in Requests : SF_vars(Take(r) /\ Observe)
    /\ WF_vars(OpenWindow /\ Observe)

-----------------------------------------------------------------------------
(* Properties.                                                             *)

CampaignRow == [status : CampaignStatus, sent : Nat]
Run == [status : CampaignStatus \cup {"NONE"}, campaign : Campaigns \cup {None},
        born : Nat, task : Requests \cup {None}]
Request == [pc : {"idle", "read", "dispatch", "store", "revoke", "done"},
            route : {"none", "campaign", "workflow", "legacy"},
            action : Actions \cup {"none"}, key : Keys \cup {None},
            campaign : Campaigns \cup {None}, run : Requests \cup {None},
            seen : CampaignStatus \cup {"none"}, old : Requests \cup {None}]
Job == [pc : {"none", "queued", "done", "killed"} \cup Working, orig : BOOLEAN,
        campaign : Campaigns \cup {None}, run : Requests \cup {None},
        batch : SUBSET Listings, cur : Listings \cup {None}, prev : Nat,
        sent : Nat, quota : Nat, more : BOOLEAN,
        why : {"none", "quota", "credit"} \cup Stopped]

\* Every variable keeps its type: the columns of campaigns and workflow_runs,
\* the locals of execute_campaign_command, command_workflow and run_campaign.
TypeOK ==
    /\ campaign \in [Campaigns -> CampaignRow]
    /\ workflow \in [Requests -> Run]
    /\ request \in [Requests -> Request]
    /\ job \in [Requests -> Job]
    /\ contacted \subseteq Listings
    /\ blacklist \subseteq Phones
    /\ audit \subseteq Keys
    /\ windowOpen \in BOOLEAN
    /\ faults \in Nat
    /\ crashes \in Nat
    /\ texts \in [Listings -> Nat]
    /\ accepted \in [Campaigns -> Nat]
    /\ overrun \in [Requests -> Nat]
    /\ late \in [Requests -> [Phones -> Nat]]

\* campaigns.sent never claims more messages than the provider accepted, in
\* spite of concurrent batches that each write previous_sent + sent
\* (campaign_runner.py 121, 247), of crashes and of failing commits.
SentIsBacked == \A c \in Campaigns : campaign[c].sent <= accepted[c]

\* Pause and cancel take hold: once its campaign is stopped, and for as long
\* as it stays so, a task of the control tower sends at most the one message
\* it was sleeping before (campaign_runner.py 163-168).
StopsWithinOneMessage == \A r \in Requests : job[r].run # None => overrun[r] <= 1

\* A number on the blacklist gets at most one more message from each chain of
\* tasks: the one that passed is_blacklisted before the STOP and slept
\* (campaign_runner.py 169-180), however many listings share the number.
OptOutWithinOneMessage ==
    \A r \in Requests, p \in Phones : late[r][p] <= 1

Kills == Cardinality({r \in Requests : job[r].pc = "killed"})

\* A listing is marked SMS_ENVOYE only after its message left, so it can be
\* texted again; but each copy beyond one per worker is the consequence of a
\* lost answer, of a failed commit or of a task that died in between
\* (campaign_runner.py 189-210).
RepeatsAreBounded ==
    \A l \in Listings : texts[l] <= Concurrency + faults + crashes + Kills

\* No process died and no task was revoked.
Undisturbed == crashes + Kills = 0

Idle(c) == \A r \in Requests : job[r].campaign = c => job[r].pc \notin Working

\* "Preserve cumulative counters": a campaign that one chain of tasks drives
\* misses no message between two batches, but for the copies of lost answers
\* and the batch of a task that died (campaign_runner.py 121, 247).
CountersKept ==
    \A c \in Campaigns :
        /\ Idle(c)
        /\ Undisturbed
        /\ Cardinality({r \in Requests : job[r].pc # "none"}) = 1
        => accepted[c] <= campaign[c].sent + faults

\* A RUNNING campaign has a task that runs or is queued, or a command about to
\* dispatch one: unless a process died or was killed, it is never left RUNNING
\* with nobody to finish it (tasks.py 498-500, campaign_control.py 161-177).
RunningIsDriven ==
    \A c \in Campaigns : campaign[c].status = "RUNNING" /\ Undisturbed =>
        \E r \in Requests :
            \/ job[r].campaign = c /\ job[r].pc \in Working \cup {"queued"}
            \/ request[r].campaign = c /\ request[r].pc = "dispatch"

\* A RUNNING campaign leaves that status: each batch ends, the backlog shrinks
\* from batch to batch, and the last one completes the campaign.  It takes
\* fewer listings of opted-out sellers than a batch holds: see BacklogCompletes.
CampaignSettles ==
    \A c \in Campaigns :
        campaign[c].status = "RUNNING"
            ~> (campaign[c].status # "RUNNING" \/ ~Undisturbed)

\* README R01: no message leaves outside 08h-20h, Paris time.
SmsOnlyInWindow == [][\A r \in Requests : Sends(r) => windowOpen]_vars

\* A campaign whose scope holds no eligible listing any more (each one was
\* contacted or is blacklisted) does not stay RUNNING.
BacklogCompletes ==
    \A c \in Campaigns :
        (campaign[c].status = "RUNNING"
            /\ \A l \in Eligible(c) : PhoneOf[l] \in blacklist)
        ~> campaign[c].status # "RUNNING"
=============================================================================
