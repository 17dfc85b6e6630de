--------------------------- MODULE BrowserUseTasks ---------------------------
(***************************************************************************)
(* One Browser Use workflow (browser_use_workflows.py): its Celery task    *)
(* starts a paid task at the provider, polls it until it ends, costs too   *)
(* much or takes too long, and is retried on a network failure, which      *)
(* starts another paid task.  An operator may stop the workflow meanwhile. *)
(***************************************************************************)
EXTENDS Integers, FiniteSets, Sequences

CONSTANTS
    Stops,        \* the operator's stop requests
    MaxPolls,     \* browser_use_task_timeout_seconds, in polls
    MaxRetries,   \* of run_browser_use_task
    MaxFaults     \* bound: failed calls, dead processes

VARIABLES
    workflow,   \* the row: status, and the provider task its checkpoint names
    job,        \* the Celery task: where it stands, the provider task it watches
    task,       \* the provider's tasks, in order of creation
    stop,       \* each stop request: where it stands, the provider task it read
    faults

vars == <<workflow, job, task, stop, faults>>

Ended == {"COMPLETED", "FAILED", "CANCELLED"}

Init ==
    /\ workflow = [status |-> "PENDING", task |-> 0]
    /\ job = [at |-> "created", task |-> 0, polls |-> 0, retries |-> 0]
    /\ task = <<>>
    /\ stop = [s \in Stops |-> [at |-> "idle", task |-> 0]]
    /\ faults = 0

\* The provider ends a task whether or not it still runs.
StoppedAt(i) == [task EXCEPT ![i] = IF @ = "running" THEN "stopped" ELSE @]

GoTo(at) == job' = [job EXCEPT !.at = at]

SetStatus(status) == workflow' = [workflow EXCEPT !.status = status]

-----------------------------------------------------------------------------
(* The Celery task.                                                        *)

\* The row is committed before its task is queued.
Dispatch ==
    /\ job.at = "created"
    /\ GoTo("queued")
    /\ UNCHANGED <<workflow, task, stop, faults>>

\* The broker refuses the task: the request marks the workflow and raises.
DispatchFails ==
    /\ job.at = "created"
    /\ faults < MaxFaults
    /\ faults' = faults + 1
    /\ SetStatus("FAILED")
    /\ GoTo("done")
    /\ UNCHANGED <<task, stop>>

\* Whatever the status was, a stop included.
Start ==
    /\ job.at = "queued"
    /\ SetStatus("RUNNING")
    /\ GoTo("create")
    /\ UNCHANGED <<task, stop, faults>>

CreateTask ==
    /\ job.at = "create"
    /\ task' = Append(task, "running")
    /\ job' = [job EXCEPT !.at = "store", !.task = Len(task'), !.polls = 0]
    /\ UNCHANGED <<workflow, stop, faults>>

\* The checkpoint of an earlier attempt is replaced.
StoreTask ==
    /\ job.at = "store"
    /\ workflow' = [workflow EXCEPT !.task = job.task]
    /\ GoTo("poll")
    /\ UNCHANGED <<task, stop, faults>>

\* Cost limit or timeout: the provider task is stopped, RuntimeError or
\* TimeoutError is raised and is not one that Celery retries.
GiveUp ==
    /\ task' = StoppedAt(job.task)
    /\ SetStatus("FAILED")
    /\ GoTo("done")

\* Mutation of TooLong: the provider task is not stopped.
TooLongUnstopped ==
    /\ job.at = "poll"
    /\ job.polls = MaxPolls
    /\ SetStatus("FAILED")
    /\ GoTo("done")
    /\ UNCHANGED <<task, stop, faults>>

TooLong ==
    /\ job.at = "poll"
    /\ job.polls = MaxPolls
    /\ GiveUp
    /\ UNCHANGED <<stop, faults>>

TooExpensive ==
    /\ job.at = "poll"
    /\ job.polls < MaxPolls
    /\ GiveUp
    /\ UNCHANGED <<stop, faults>>

\* Mutation of Poll: the time already waited is not counted.
PollForever ==
    /\ job.at = "poll"
    /\ job.polls < MaxPolls
    /\ GoTo(IF task[job.task] \in {"finished", "stopped"} THEN "detail" ELSE "poll")
    /\ UNCHANGED <<workflow, task, stop, faults>>

Poll ==
    /\ job.at = "poll"
    /\ job.polls < MaxPolls
    /\ IF task[job.task] \in {"finished", "stopped"}
       THEN GoTo("detail")
       ELSE job' = [job EXCEPT !.polls = @ + 1]
    /\ UNCHANGED <<workflow, task, stop, faults>>

\* The detail of the task decides, over whatever the status is by now.
Finish(success) ==
    /\ job.at = "detail"
    /\ SetStatus(IF task[job.task] = "finished" /\ success THEN "COMPLETED" ELSE "CANCELLED")
    /\ GoTo("done")
    /\ UNCHANGED <<task, stop, faults>>

\* A call to the provider raises.  A timeout or a network error is retried,
\* another HTTP error is not; a creation may have happened all the same.
CallFails(network, happened) ==
    /\ job.at \in {"create", "poll", "detail"}
    /\ happened => job.at = "create"
    /\ faults < MaxFaults
    /\ faults' = faults + 1
    /\ task' = IF happened THEN Append(task, "running") ELSE task
    /\ SetStatus("FAILED")
    /\ job' = IF network /\ job.retries < MaxRetries
              THEN [job EXCEPT !.at = "queued", !.retries = @ + 1]
              ELSE [job EXCEPT !.at = "done"]
    /\ UNCHANGED stop

\* The process dies; Celery acknowledged the task before it ran it.
Die ==
    /\ job.at \notin {"done", "dead", "queued"}
    /\ faults < MaxFaults
    /\ faults' = faults + 1
    /\ GoTo("dead")
    /\ UNCHANGED <<workflow, task, stop>>

-----------------------------------------------------------------------------
(* The operator and the provider.                                          *)

StopReads(s) ==
    /\ stop[s].at = "idle"
    /\ stop' = [stop EXCEPT ![s] = [at |-> "stop", task |-> workflow.task]]
    /\ UNCHANGED <<workflow, job, task, faults>>

StopCalls(s) ==
    /\ stop[s].at = "stop"
    /\ task' = IF stop[s].task = 0 THEN task ELSE StoppedAt(stop[s].task)
    /\ stop' = [stop EXCEPT ![s].at = "write"]
    /\ UNCHANGED <<workflow, job, faults>>

StopWrites(s) ==
    /\ stop[s].at = "write"
    /\ SetStatus("CANCELLED")
    /\ stop' = [stop EXCEPT ![s].at = "done"]
    /\ UNCHANGED <<job, task, faults>>

\* The call to the provider fails: the request answers 502 and writes nothing.
StopFails(s) ==
    /\ stop[s].at = "stop" /\ stop[s].task # 0
    /\ faults < MaxFaults
    /\ faults' = faults + 1
    /\ stop' = [stop EXCEPT ![s].at = "done"]
    /\ UNCHANGED <<workflow, job, task>>

TaskEnds(i) ==
    /\ task[i] = "running"
    /\ task' = [task EXCEPT ![i] = "finished"]
    /\ UNCHANGED <<workflow, job, stop, faults>>

-----------------------------------------------------------------------------

\* What a live worker does by itself.
Step ==
    \/ Dispatch \/ Start \/ CreateTask \/ StoreTask
    \/ TooLong \/ Poll
    \/ \E success \in BOOLEAN : Finish(success)

Next ==
    \/ Step
    \/ TooExpensive
    \/ DispatchFails
    \/ \E network, happened \in BOOLEAN : CallFails(network, happened)
    \/ Die
    \/ \E s \in Stops : StopReads(s) \/ StopCalls(s) \/ StopWrites(s) \/ StopFails(s)
    \/ \E i \in DOMAIN task : TaskEnds(i)

-----------------------------------------------------------------------------

TypeOK ==
    /\ workflow.status \in Ended \cup {"PENDING", "RUNNING"}
    /\ workflow.task \in 0 .. Len(task)
    /\ job.at \in {"created", "queued", "create", "store", "poll", "detail", "done", "dead"}
    /\ job.task \in 0 .. Len(task)
    /\ job.polls \in 0 .. MaxPolls
    /\ \A i \in DOMAIN task : task[i] \in {"running", "finished", "stopped"}

\* Each provider task that runs, and is paid, with nobody to watch its cost
\* and its duration was left by a failed call or a dead process of its own:
\* no other path abandons one.
LeaksAreFaults ==
    LET watched == IF job.at \in {"store", "poll", "detail"} THEN {job.task} ELSE {}
    IN  Cardinality({i \in DOMAIN task : task[i] = "running"} \ watched) <= faults

\* A workflow does not stay PENDING or RUNNING, unless its process died.
WorkflowEnds == <>[](workflow.status \in Ended \/ job.at = "dead")
=============================================================================
