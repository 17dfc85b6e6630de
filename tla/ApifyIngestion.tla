--------------------------- MODULE ApifyIngestion ---------------------------
(***************************************************************************)
(* The ingestion of Apify runs: a run ends on Apify's side, the            *)
(* application learns of it from a webhook, from the answer to its own     *)
(* launch or from the periodic reconciliation, and an import worker reads  *)
(* the dataset of the run item by item, one transaction per item           *)
(* (src/app/services/apify_runs.py, apify_ingestion.py, tasks.py,          *)
(* webhooks/apify.py).  One Apify account; the tables are the state, a     *)
(* transaction is a step.  Every sender of news about a run works from a   *)
(* status it was given earlier, which may be out of date when it is        *)
(* written.                                                                *)
(***************************************************************************)
EXTENDS Integers, FiniteSets, Sequences

CONSTANTS
  Runs,       \* the runs of one Apify account
  Bindings,   \* the actor bindings of the account
  NoBinding,  \* the binding of a run whose actor was never bound
  NoRun,      \* the run of an idle worker
  BindingOf,  \* the binding a run resolves to
  Size,       \* number of items in every dataset
  Kind,       \* Kind[r][k]: what the normaliser makes of item k of run r
  Workers,    \* the slots that run import tasks
  PageSize,   \* apify_import_page_size
  ListLimit,  \* how many recent runs one reconciliation lists
  MaxFaults   \* bound: lost webhooks and processes that die

Kinds == {"lead", "doubtful", "noise"}

ASSUME RunsAssumption ==
  /\ NoRun \notin Runs
  /\ NoBinding \notin Bindings
  /\ BindingOf \in [Runs -> Bindings \cup {NoBinding}]

ASSUME DatasetAssumption ==
  /\ Size \in Nat
  /\ Kind \in [Runs -> [1 .. Size -> Kinds]]

ASSUME BoundsAssumption ==
  /\ PageSize \in Nat \ {0}
  /\ ListLimit \in Nat \ {0}
  /\ MaxFaults \in Nat

\* The breaker looks at the last hundred items of a binding: here, at them all.
ASSUME SampleAssumption ==
  IsFiniteSet(Runs) /\ Cardinality(Runs \X (1 .. Size)) <= 100

VARIABLES
  started,    \* the runs Apify has started, oldest first
  remote,     \* the status Apify gives a run
  hook,       \* the webhook of a run: "unsent", "sent", "stored", "closed"
  launch,     \* launch_binding's work on a run it starts
  row,        \* the apify_runs row of a run; status "none": no such row
  item,       \* item[r][k]: status of the apify_items row, "none": no row
  queue,      \* the runs with an import message in the broker
  worker,     \* the import tasks under way
  reconcile,  \* what a reconciliation still has to sync: <<[run, status], ...>>
  suspended,  \* the bindings whose suspended_reason is set
  faults,     \* how many faults have happened (bounded by MaxFaults)
  died        \* history: the runs an import of which died

vars == <<started, remote, hook, launch, row, item, queue, worker,
          reconcile, suspended, faults, died>>

Ended == {"SUCCEEDED", "FAILED"}
Statuses == {"none", "RUNNING"} \cup Ended
Settled == {"IMPORTED", "EXCEPTION", "IGNORED"}

Row == [status : Statuses, imported : BOOLEAN,
        read : 0 .. Size, actionable : Nat, exceptions : Nat]

Worker == [pc : {"idle", "items", "save", "breaker"}, run : Runs \cup {NoRun},
           read : 0 .. Size, actionable : Nat, exceptions : Nat]

NewRow == [status |-> "none", imported |-> FALSE,
           read |-> 0, actionable |-> 0, exceptions |-> 0]

Idle == [pc |-> "idle", run |-> NoRun,
         read |-> 0, actionable |-> 0, exceptions |-> 0]

Begun(r) == [pc |-> "items", run |-> r,
             read |-> 0, actionable |-> 0, exceptions |-> 0]

Init ==
  /\ started = <<>>
  /\ remote = [r \in Runs |-> "none"]
  /\ hook = [r \in Runs |-> "unsent"]
  /\ launch = [r \in Runs |-> "no"]
  /\ row = [r \in Runs |-> NewRow]
  /\ item = [r \in Runs |-> [k \in 1 .. Size |-> "none"]]
  /\ queue = {}
  /\ worker = [w \in Workers |-> Idle]
  /\ reconcile = <<>>
  /\ suspended = {}
  /\ faults = 0
  /\ died = {}

Bound(r) == BindingOf[r] \in Bindings

Fault ==
  /\ faults < MaxFaults
  /\ faults' = faults + 1

\* Mutation of Synced: only a new row takes the status.
SyncedOnce(r, status) ==
  [row EXCEPT ![r].status = IF @ = "none" THEN status ELSE @]

\* Mutation of Synced: a new row starts with a status of its own.
SyncedPending(r, status) ==
  [row EXCEPT ![r].status = IF @ = "none" THEN "PENDING" ELSE status]

\* _sync_remote_run_in_session: the row takes the status the sender was given,
\* whatever it holds now; a new row needs a binding.
Synced(r, status) == [row EXCEPT ![r].status = status]
CanSync(r) == row[r].status # "none" \/ Bound(r)

-----------------------------------------------------------------------------
\* Apify starts and ends runs, and calls the webhook of a bound resource.

\* launch_binding reads that the binding may run, and commits.
Launch(r) ==
  /\ remote[r] = "none" /\ launch[r] = "no"
  /\ Bound(r) /\ BindingOf[r] \notin suspended
  /\ launch' = [launch EXCEPT ![r] = "asked"]
  /\ UNCHANGED <<started, remote, hook, row, item, queue, worker, reconcile,
                 suspended, faults, died>>

\* Apify starts the run, for the launch or by its own schedule.  The answer
\* to a launch says RUNNING; when it is lost the launch ends in an error.
Start(r) ==
  /\ remote[r] = "none"
  /\ remote' = [remote EXCEPT ![r] = "RUNNING"]
  /\ started' = Append(started, r)
  /\ \/ /\ launch[r] = "no"
        /\ UNCHANGED <<launch, faults>>
     \/ /\ launch[r] = "asked"
        /\ launch' = [launch EXCEPT ![r] = "answered"]
        /\ UNCHANGED faults
     \/ /\ launch[r] = "asked"
        /\ launch' = [launch EXCEPT ![r] = "over"]
        /\ Fault
  /\ UNCHANGED <<hook, row, item, queue, worker, reconcile, suspended, died>>

\* The launch writes the status of its answer, however long that took.
LaunchSyncs(r) ==
  /\ launch[r] = "answered"
  /\ launch' = [launch EXCEPT ![r] = "over"]
  /\ row' = Synced(r, "RUNNING")
  /\ UNCHANGED <<started, remote, hook, item, queue, worker, reconcile,
                 suspended, faults, died>>

\* The run ends.  Webhooks are registered for the ends of bound resources.
End(r) ==
  /\ remote[r] = "RUNNING"
  /\ \E status \in Ended : remote' = [remote EXCEPT ![r] = status]
  /\ hook' = [hook EXCEPT ![r] = IF Bound(r) THEN "sent" ELSE "closed"]
  /\ UNCHANGED <<started, launch, row, item, queue, worker, reconcile,
                 suspended, faults, died>>

\* accept_webhook: one transaction stores the event and syncs the row.  A
\* second delivery finds the event stored and changes nothing.
WebhookStored(r) ==
  /\ hook[r] = "sent"
  /\ hook' = [hook EXCEPT ![r] = "stored"]
  /\ row' = Synced(r, remote[r])
  /\ UNCHANGED <<started, remote, launch, item, queue, worker, reconcile,
                 suspended, faults, died>>

\* receive_apify_webhook queues the import after that commit.
WebhookQueues(r) ==
  /\ hook[r] = "stored"
  /\ hook' = [hook EXCEPT ![r] = "closed"]
  /\ queue' = queue \cup {r}
  /\ UNCHANGED <<started, remote, launch, row, item, worker, reconcile,
                 suspended, faults, died>>

\* The call never arrives, or the server dies before it queues the import:
\* the stored event makes every later delivery a duplicate.
WebhookLost(r) ==
  /\ hook[r] \in {"sent", "stored"}
  /\ hook' = [hook EXCEPT ![r] = "closed"]
  /\ Fault
  /\ UNCHANGED <<started, remote, launch, row, item, queue, worker, reconcile,
                 suspended, died>>

-----------------------------------------------------------------------------
\* reconcile_runs lists the recent runs once and then syncs them one
\* transaction at a time, most recent first.

ReconcileLists ==
  /\ reconcile = <<>> /\ started # <<>>
  /\ LET n == Len(started)
         listed == IF n < ListLimit THEN n ELSE ListLimit
     IN  reconcile' = [i \in 1 .. listed |->
                         LET r == started[n + 1 - i] IN [run |-> r, status |-> remote[r]]]
  /\ UNCHANGED <<started, remote, hook, launch, row, item, queue, worker,
                 suspended, faults, died>>

\* A run that resolves to no binding raises apify_binding_not_found_for_run
\* out of the loop: the rest of the list is not synced.
ReconcileSyncs ==
  /\ reconcile # <<>>
  /\ LET r == Head(reconcile).run
         status == Head(reconcile).status
     IN  /\ row' = IF CanSync(r) THEN Synced(r, status) ELSE row
         /\ queue' = IF CanSync(r) /\ status = "SUCCEEDED" /\ ~row[r].imported
                       THEN queue \cup {r} ELSE queue
         /\ reconcile' = IF CanSync(r) THEN Tail(reconcile) ELSE <<>>
  /\ UNCHANGED <<started, remote, hook, launch, item, worker, suspended,
                 faults, died>>

\* The task dies between two runs, or between a sync and its message.
ReconcileDies ==
  /\ reconcile # <<>>
  /\ reconcile' = <<>>
  /\ row' \in {row} \cup
       (IF CanSync(Head(reconcile).run)
          THEN {Synced(Head(reconcile).run, Head(reconcile).status)} ELSE {})
  /\ Fault
  /\ UNCHANGED <<started, remote, hook, launch, item, queue, worker,
                 suspended, died>>

\* replay_run: an operator queues a successful run again.
Replay(r) ==
  /\ row[r].status = "SUCCEEDED"
  /\ queue' = queue \cup {r}
  /\ UNCHANGED <<started, remote, hook, launch, row, item, worker, reconcile,
                 suspended, faults, died>>

-----------------------------------------------------------------------------
\* import_apify_run_task.

\* import_remote_run and _load_run_context: a run that is not SUCCEEDED at
\* this moment is refused for good, and the message is gone.
ImportBegins(w, r) ==
  /\ worker[w].pc = "idle" /\ r \in queue
  /\ queue' = queue \ {r}
  /\ worker' = IF row[r].status = "SUCCEEDED"
                 THEN [worker EXCEPT ![w] = Begun(r)]
                 ELSE worker
  /\ UNCHANGED <<started, remote, hook, launch, row, item, reconcile,
                 suspended, faults, died>>

\* _process_new_item: the verdict on the item, or IGNORED when its processing
\* raises, as it does for a lead whose campaign is not running.
Outcomes(kind) ==
  {"IGNORED"} \cup (CASE kind = "lead"     -> {"IMPORTED"}
                      [] kind = "doubtful" -> {"EXCEPTION"}
                      [] kind = "noise"    -> {})

\* Mutation of ItemStatus: a replayed item is processed again.
ItemStatusAgain(r, k) == Outcomes(Kind[r][k])

\* _insert_or_load_item: an item that has its row keeps it.
ItemStatus(r, k) ==
  IF item[r][k] = "none" THEN Outcomes(Kind[r][k]) ELSE {item[r][k]}

\* Mutation of Counted: an item that was on record counts as ignored.
CountedOnce(c, status) ==
  [pc |-> IF (c.read + 1) % PageSize = 0 THEN "save" ELSE "items",
   run |-> c.run,
   read |-> c.read + 1,
   actionable |-> IF status = "IMPORTED" /\ item[c.run][c.read + 1] = "none"
                    THEN c.actionable + 1 ELSE c.actionable,
   exceptions |-> IF status = "EXCEPTION" THEN c.exceptions + 1 ELSE c.exceptions]

\* The import counts an item with this status; a full page is saved next.
Counted(c, status) ==
  [pc |-> IF (c.read + 1) % PageSize = 0 THEN "save" ELSE "items",
   run |-> c.run,
   read |-> c.read + 1,
   actionable |-> IF status = "IMPORTED" THEN c.actionable + 1 ELSE c.actionable,
   exceptions |-> IF status = "EXCEPTION" THEN c.exceptions + 1 ELSE c.exceptions]

\* _import_one_item, one transaction.
ImportItem(w) ==
  LET c == worker[w]
      k == c.read + 1
  IN  /\ c.pc = "items" /\ c.read < Size
      /\ \E status \in ItemStatus(c.run, k) :
           /\ item' = [item EXCEPT ![c.run][k] = status]
           /\ worker' = [worker EXCEPT ![w] = Counted(c, status)]
      /\ UNCHANGED <<started, remote, hook, launch, row, queue, reconcile,
                     suspended, faults, died>>

\* What a save makes of the row of a run.
SavedRow(old, c, finished) ==
  [old EXCEPT !.read = c.read, !.actionable = c.actionable,
              !.exceptions = c.exceptions, !.imported = old.imported \/ finished]

\* Mutation of Saved: every page ends the import.
SavedEach(c, finished) == [row EXCEPT ![c.run] = SavedRow(@, c, TRUE)]

\* _save_run_progress overwrites the counts of the row.
Saved(c, finished) == [row EXCEPT ![c.run] = SavedRow(@, c, finished)]

SavePage(w) ==
  /\ worker[w].pc = "save"
  /\ row' = Saved(worker[w], FALSE)
  /\ worker' = [worker EXCEPT ![w] = [@ EXCEPT !.pc = "items"]]
  /\ UNCHANGED <<started, remote, hook, launch, item, queue, reconcile,
                 suspended, faults, died>>

ImportEnds(w) ==
  /\ worker[w].pc = "items" /\ worker[w].read = Size
  /\ row' = Saved(worker[w], TRUE)
  /\ worker' = [worker EXCEPT ![w] = [@ EXCEPT !.pc = "breaker"]]
  /\ UNCHANGED <<started, remote, hook, launch, item, queue, reconcile,
                 suspended, faults, died>>

\* The rows of a binding's items, over all its runs, with a status among ss.
ItemsOf(b, ss) ==
  {rk \in Runs \X (1 .. Size) : BindingOf[rk[1]] = b /\ item[rk[1]][rk[2]] \in ss}

\* ambiguity_rate > 0.10
TooDoubtful(b) ==
  10 * Cardinality(ItemsOf(b, {"EXCEPTION"})) > Cardinality(ItemsOf(b, Settled))

\* Mutation of Breaker: the rate is that of the imported items.
BreakerOfImported(w) ==
  LET b == BindingOf[worker[w].run]
  IN  /\ worker[w].pc = "breaker"
      /\ \E odd \in BOOLEAN :
           suspended' = IF \/ odd
                           \/ 10 * Cardinality(ItemsOf(b, {"IMPORTED"})) < Cardinality(ItemsOf(b, Settled))
                          THEN suspended \cup {b} ELSE suspended
      /\ worker' = [worker EXCEPT ![w] = Idle]
      /\ UNCHANGED <<started, remote, hook, launch, row, item, queue, reconcile,
                     faults, died>>

\* evaluate_apify_binding_circuit_breaker: too many doubtful items suspend
\* the binding; repeated numbers or a changed schema may as well.
Breaker(w) ==
  LET b == BindingOf[worker[w].run]
  IN  /\ worker[w].pc = "breaker"
      /\ \E odd \in BOOLEAN :
           suspended' = IF TooDoubtful(b) \/ odd THEN suspended \cup {b} ELSE suspended
      /\ worker' = [worker EXCEPT ![w] = Idle]
      /\ UNCHANGED <<started, remote, hook, launch, row, item, queue, reconcile,
                     faults, died>>

\* The dataset cannot be read any further: the task is retried from the first
\* item, or it has no retry left.  A worker that dies loses its message.
ImportDies(w) ==
  /\ worker[w].pc # "idle"
  /\ worker' = [worker EXCEPT ![w] = Idle]
  /\ queue' \in {queue, queue \cup {worker[w].run}}
  /\ died' = died \cup {worker[w].run}
  /\ Fault
  /\ UNCHANGED <<started, remote, hook, launch, row, item, reconcile, suspended>>

-----------------------------------------------------------------------------
RunStep(r) ==
  \/ Launch(r)
  \/ Start(r)
  \/ LaunchSyncs(r)
  \/ End(r)
  \/ WebhookStored(r)
  \/ WebhookQueues(r)
  \/ WebhookLost(r)
  \/ Replay(r)

ImportStep(w) ==
  \/ ImportItem(w)
  \/ SavePage(w)
  \/ ImportEnds(w)
  \/ Breaker(w)

Next ==
  \/ \E r \in Runs : RunStep(r)
  \/ ReconcileLists
  \/ ReconcileSyncs
  \/ ReconcileDies
  \/ \E w \in Workers, r \in Runs : ImportBegins(w, r)
  \/ \E w \in Workers : ImportStep(w)
  \/ \E w \in Workers : ImportDies(w)

Spec == Init /\ [][Next]_vars

\* Celery beat runs the reconciliation for ever, a task that runs goes on, and
\* the broker serves its messages in order: none waits for ever.  Nothing
\* makes Apify end a run or deliver its webhook.
Fairness ==
  /\ WF_vars(ReconcileLists)
  /\ WF_vars(ReconcileSyncs)
  /\ \A r \in Runs : WF_vars(LaunchSyncs(r))
  /\ \A r \in Runs : SF_vars(\E w \in Workers : ImportBegins(w, r))
  /\ \A w \in Workers : WF_vars(ImportStep(w))

FairSpec == Spec /\ Fairness

-----------------------------------------------------------------------------
\* Types of the variables.
TypeOK ==
  /\ started \in Seq(Runs)
  /\ remote \in [Runs -> Statuses]
  /\ hook \in [Runs -> {"unsent", "sent", "stored", "closed"}]
  /\ launch \in [Runs -> {"no", "asked", "answered", "over"}]
  /\ row \in [Runs -> Row]
  /\ item \in [Runs -> [1 .. Size -> Settled \cup {"none"}]]
  /\ queue \subseteq Runs
  /\ worker \in [Workers -> Worker]
  /\ reconcile \in Seq([run : Runs, status : Statuses])
  /\ suspended \subseteq Bindings \cup {NoBinding}
  /\ faults \in 0 .. MaxFaults
  /\ died \subseteq Runs

\* A run marked imported has every item of its dataset on record, whatever
\* imports died, ran twice at once or were overtaken by one another
\* (import_run sets imported_at after the last item only).
ImportedIsComplete ==
  \A r \in Runs : row[r].imported => \A k \in 1 .. Size : item[r][k] \in Settled

\* How many of the first n items of a dataset have this status.
Count(items, n, status) == Cardinality({k \in 1 .. n : items[k] = status})

\* Once no import of an imported run is at work, the counters of its row are
\* the counts of its items, although every import of the run, replays
\* included, overwrites them with its own (_save_run_progress); only an import
\* that died may leave a partial count behind.
CountersMatch ==
  \A r \in Runs :
    /\ row[r].imported
    /\ r \notin died
    /\ \A w \in Workers : worker[w].run # r
    => /\ row[r].read = Size
       /\ row[r].actionable = Count(item[r], Size, "IMPORTED")
       /\ row[r].exceptions = Count(item[r], Size, "EXCEPTION")

\* An item is decided once: no replay, retry or concurrent import of its run
\* takes a settled status back or changes it (uq_apify_dataset_item).
ItemsSettleOnce ==
  [][\A r \in Runs, k \in 1 .. Size :
       item[r][k] \in Settled => item'[r][k] = item[r][k]]_vars

\* When no import of a binding's runs is at work and none died, a binding with
\* more than a tenth of doubtful items is suspended, even if two of its runs
\* were imported side by side and each breaker saw only part of the items.
DoubtfulBindingsAreSuspended ==
  \A b \in Bindings :
    /\ TooDoubtful(b)
    /\ \A r \in died : BindingOf[r] # b
    /\ \A w \in Workers : worker[w].run # NoRun => BindingOf[worker[w].run] # b
    => b \in suspended

\* A run that succeeded is imported in the end, although its webhook may be
\* lost, its import refused on a status that a late answer wrote back, or its
\* worker dead: the reconciliation queues it again.
FinishedRunsAreImported ==
  \A r \in Runs : (remote[r] = "SUCCEEDED" /\ Bound(r)) ~> row[r].imported

=============================================================================
