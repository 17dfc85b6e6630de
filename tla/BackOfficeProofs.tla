-------------------------- MODULE BackOfficeProofs --------------------------
(***************************************************************************)
(* Theorems about the machines of MCBackOffice.  What other modules prove  *)
(* of a component is brought here by instances of those modules; the       *)
(* profiles, the bindings and the Browser Use tasks are proved about here. *)
(***************************************************************************)
EXTENDS MCBackOffice, Sequences, FiniteSetTheorems, TLAPS

InboxT == INSTANCE LbcInboxProofs WITH
    Messages <- 1 .. 3,
    AccountOf <- <<"first", "first", "second">>, NumberOf <- <<None, "n2", "n3">>,
    Manual <- "manual", Syncs <- {"manual", "scheduled"},
    workflow <- inboxRun, faults <- inboxFaults, deaths <- inboxDeaths, begun <- syncs,
    MaxFaults <- 1, MaxDeaths <- 1, MaxSyncs <- 3

CreationT == INSTANCE AccountCreationProofs WITH
    Manual <- {}, Visits <- {Reconciler}, job <- creationJob, workflow <- creation

PhonesT == INSTANCE AccountCreationProofs WITH job <- creationJob, workflow <- creation

LbcT == INSTANCE LbcMessagingProofs

SectorT == INSTANCE SectorCollectionProofs WITH
    account <- scraper,
    Pool <- [k \in {"account", "proxy"} |-> IF k = "account" THEN {Resource1} ELSE {Resource2}],
    TTL <- 1, Frequency <- 1, DayLength <- 3, Volume <- 4, PerPage <- 1

-----------------------------------------------------------------------------
(* A step of the back office is a step of one machine.                     *)

LEMMA InboxMoves ==
  /\ Init => Inbox!Init
  /\ [Next]_vars => [Inbox!Next]_inboxVars
BY DEF Init, Next, vars, Phones, Lbc, Creates, Learns, Binds, Browses, Collects, Replies

LEMMA SectorMoves ==
  /\ Init => Sector!Init
  /\ [Next]_vars => [Sector!Next]_sectorVars
BY DEF Init, Next, vars, Phones, Lbc, Creates, Learns, Binds, Browses, Collects, Replies

LEMMA LearningMoves ==
  /\ Init => Learning!Init
  /\ [Next]_vars => [Learning!Next]_profileVars
BY DEF Init, Next, vars, Phones, Lbc, Creates, Learns, Binds, Browses, Collects, Replies

LEMMA BindingsMoves ==
  /\ Init => Bindings!Init
  /\ [Next]_vars => [Bindings!Next]_bindingVars
BY DEF Init, Next, vars, Phones, Lbc, Creates, Learns, Binds, Browses, Collects, Replies

LEMMA BrowserMoves ==
  /\ Init => Browser!Init
  /\ [Next]_vars => [Browser!Next]_browserVars
BY DEF Init, Next, vars, Phones, Lbc, Creates, Learns, Binds, Browses, Collects, Replies

\* AccountCreation has the variables of PhoneActivations for its own.
LEMMA CreationMoves ==
  /\ Init /\ machine = "creation" => Creation!Init
  /\ [Next]_vars => machine' = machine
  /\ [Next]_vars /\ machine = "creation" => [Creation!Next]_<<phoneVars, creationOwn>>
BY DEF Init, Next, vars, Phones, Lbc, Creates, Learns, Binds, Browses, Collects, Replies

-----------------------------------------------------------------------------
(* LbcInbox.                                                               *)

LEMMA SameInbox ==
  /\ Inbox!Init => InboxT!Init
  /\ Inbox!Next => InboxT!Next
  /\ InboxT!RepliesReachContacts => RepliesReachContacts
<1>1. Inbox!Init => InboxT!Init
  BY DEF Inbox!Init, InboxT!Init, Inbox!Idle, InboxT!Idle
<1>2. Inbox!Next => InboxT!Next
  BY DEF Inbox!Idle, Inbox!At, Inbox!Set, Inbox!Fault, Inbox!Queue, Inbox!QueueFails,
         Inbox!Begin, Inbox!Fetch, Inbox!FetchFails, Inbox!Inserting, Inbox!Known,
         Inbox!Insert, Inbox!Contact, Inbox!OpenContact, Inbox!ContactFails,
         Inbox!CommitRow, Inbox!NextAccount, Inbox!Finish, Inbox!Die, Inbox!Next,
         InboxT!Idle, InboxT!At, InboxT!Set, InboxT!Fault, InboxT!Queue, InboxT!QueueFails,
         InboxT!Begin, InboxT!Fetch, InboxT!FetchFails, InboxT!Inserting, InboxT!Known,
         InboxT!Insert, InboxT!Contact, InboxT!OpenContact, InboxT!ContactFails,
         InboxT!CommitRow, InboxT!NextAccount, InboxT!Finish, InboxT!Die, InboxT!Next
<1>3. InboxT!RepliesReachContacts => RepliesReachContacts
  BY DEF RepliesReachContacts, Inbox!RepliesReachContacts, InboxT!RepliesReachContacts,
         Inbox!Cardinality, InboxT!Cardinality
<1> QED
  BY <1>1, <1>2, <1>3

\* The recorded replies whose number has no contact are no more than the calls
\* that failed (lbc_messaging.py 411-443): what LbcInboxProofs shows for any
\* messages, brought to the inbox of the back office.
THEOREM RepliesAreHeard == Spec => []RepliesReachContacts
<1>1. InboxT!Init /\ [][InboxT!Next]_inboxVars => []InboxT!RepliesReachContacts
  <2>1. IsFiniteSet(1 .. 3)
    <3>1. 1 \in Int /\ 3 \in Int
      OBVIOUS
    <3> QED
      BY <3>1, FS_Interval
  <2>2. InboxT!IsFiniteSet(1 .. 3)
    BY <2>1 DEF IsFiniteSet, InboxT!IsFiniteSet
  <2>3. "manual" \in {"manual", "scheduled"}
    OBVIOUS
  <2>4. InboxT!Init /\ [][InboxT!Next]_InboxT!vars => []InboxT!RepliesReachContacts
    BY <2>2, <2>3, InboxT!RepliesAreHeard
  <2>5. [InboxT!Next]_inboxVars => [InboxT!Next]_InboxT!vars
    BY DEF inboxVars, InboxT!vars
  <2> QED
    BY <2>4, <2>5, PTL
<1> QED
  BY <1>1, InboxMoves, SameInbox, PTL DEF Spec

-----------------------------------------------------------------------------
(* SectorCollection.                                                       *)

LEMMA SameSector ==
  /\ Sector!Init => SectorT!Init
  /\ Sector!Next => SectorT!Next
  /\ SectorT!LeasesHold => LeasesHold
  /\ SectorT!CheckpointsFollowRuns => CheckpointsFollowRuns
<1>1. Sector!Init => SectorT!Init
  BY DEF Sector!Init, SectorT!Init, Sector!Idle, SectorT!Idle,
         Sector!Resources, SectorT!Resources, Sector!Kinds, SectorT!Kinds
<1>2. Sector!SeenToday = SectorT!SeenToday
  BY DEF Sector!SeenToday, SectorT!SeenToday, Sector!FoldSet, SectorT!FoldSet,
         Sector!MapThenFoldSet, SectorT!MapThenFoldSet
<1>3. \A n : Sector!MaxPages(n) = SectorT!MaxPages(n)
  BY DEF Sector!MaxPages, SectorT!MaxPages, Sector!Max, SectorT!Max, Sector!Min, SectorT!Min
<1>4. ASSUME NEW t \in Tasks, Sector!Read(t) PROVE SectorT!Read(t)
  BY <1>2, <1>3, <1>4
     DEF Sector!Read, SectorT!Read, Sector!Idle, SectorT!Idle, Sector!IsDue, SectorT!IsDue,
         Sector!Latest, SectorT!Latest
<1>5. ASSUME NEW t \in Tasks, Sector!Scrape(t) PROVE SectorT!Scrape(t)
  BY <1>5 DEF Sector!Scrape, SectorT!Scrape, Sector!Visited, SectorT!Visited,
              Sector!Cardinality, SectorT!Cardinality
<1>6. Sector!Next => SectorT!Next
  BY <1>4, <1>5
     DEF Sector!Insert, Sector!Release, Sector!Claim, Sector!Denied, Sector!Claimable,
         Sector!Freed, Sector!ScrapeFails, Sector!Complete, Sector!Fail, Sector!Failed,
         Sector!Die, Sector!Tick, Sector!Reactivate, Sector!Next, Sector!Kinds, Sector!Idle,
         SectorT!Insert, SectorT!Release, SectorT!Claim, SectorT!Denied, SectorT!Claimable,
         SectorT!Freed, SectorT!ScrapeFails, SectorT!Complete, SectorT!Fail, SectorT!Failed,
         SectorT!Die, SectorT!Tick, SectorT!Reactivate, SectorT!Next, SectorT!Kinds, SectorT!Idle
<1>7. SectorT!LeasesHold => LeasesHold
  BY DEF LeasesHold, Sector!LeasesHold, SectorT!LeasesHold
<1>8. SectorT!CheckpointsFollowRuns => CheckpointsFollowRuns
  BY DEF CheckpointsFollowRuns, Sector!CheckpointsFollowRuns, SectorT!CheckpointsFollowRuns
<1> QED
  BY <1>1, <1>6, <1>7, <1>8

LEMMA SectorIsAssumed == SectorT!SectorAssumption
<1> DEFINE kinds == {"account", "proxy"}
           pool == [k \in kinds |-> IF k = "account" THEN {Resource1} ELSE {Resource2}]
<1>1. \A j, k \in kinds : j # k => pool[j] \cap pool[k] = {}
  BY BackOfficeAssumption
<1> QED
  BY <1>1, BackOfficeAssumption DEF SectorT!SectorAssumption, SectorT!Kinds

LEMMA SectorHolds ==
  /\ SectorT!Init /\ [][SectorT!Next]_sectorVars => []SectorT!LeasesHold
  /\ SectorT!Init /\ [][SectorT!Next]_sectorVars => []SectorT!CheckpointsFollowRuns
<1>1. /\ SectorT!Init /\ [][SectorT!Next]_SectorT!vars => []SectorT!LeasesHold
      /\ SectorT!Init /\ [][SectorT!Next]_SectorT!vars => []SectorT!CheckpointsFollowRuns
  BY SectorIsAssumed, SectorT!ClaimsHold, SectorT!CheckpointsAreEarned
<1>2. [SectorT!Next]_sectorVars => [SectorT!Next]_SectorT!vars
  BY DEF sectorVars, SectorT!vars
<1> QED
  BY <1>1, <1>2, PTL

\* A lease that has not expired is its holder's, however tasks overlap, fail
\* and die (resource_lock.py 18-45, sector_collection.py 190): what
\* SectorCollectionProofs shows for any resources, brought to this instance.
THEOREM ClaimsHold == Spec => []LeasesHold
  BY SectorMoves, SameSector, SectorHolds, PTL DEF Spec

\* Each page before a checkpoint is of a run that completed (next_page,
\* sector_collection.py 114 and 173), brought here in the same way.
THEOREM CheckpointsAreEarned == Spec => []CheckpointsFollowRuns
  BY SectorMoves, SameSector, SectorHolds, PTL DEF Spec

-----------------------------------------------------------------------------
(* AccountCreation.                                                        *)

LEMMA SameCreation ==
  /\ Creation!Init => CreationT!Init
  /\ Creation!Next => CreationT!Next
  /\ CreationT!PaidIsRecorded => Creation!PaidIsRecorded
<1>1. Creation!Init => CreationT!Init
  BY DEF Creation!Init, CreationT!Init, Creation!InitPhones, CreationT!InitPhones,
         Creation!Attempts, CreationT!Attempts, Creation!NoVisit, CreationT!NoVisit
<1>2. Creation!PhonesNext => CreationT!PhonesNext
  <2>1. Creation!Listed = CreationT!Listed
    BY DEF Creation!Listed, CreationT!Listed, Creation!ActiveStatuses, CreationT!ActiveStatuses
  <2>2. \A S : Creation!Cardinality(S) = CreationT!Cardinality(S)
    BY DEF Creation!Cardinality, CreationT!Cardinality
  <2>3. ASSUME NEW v, Creation!ReconcileReads(v) PROVE CreationT!ReconcileReads(v)
    BY <2>1, <2>2, <2>3
       DEF Creation!ReconcileReads, CreationT!ReconcileReads, Creation!NoVisit, CreationT!NoVisit
  <2> QED
    BY <2>3
       DEF Creation!Fault, Creation!SetActivation, Creation!Buy, Creation!Accepts,
           Creation!CancelAtProvider, Creation!ProviderMoves, Creation!TimePasses,
           Creation!Reserve, Creation!RecordReserved, Creation!Leave, Creation!Expired,
           Creation!ReconcileExpires, Creation!RefreshReads, Creation!StatusOf,
           Creation!Asks, Creation!AskFails, Creation!Writes, Creation!CancelReads,
           Creation!CancelStatus, Creation!CancelCalls, Creation!CancelFails,
           Creation!VisitDies, Creation!VisitStep, Creation!VisitBegins,
           Creation!PhonesNext, Creation!NoVisit, Creation!ActiveStatuses,
           Creation!TerminalStatuses, CreationT!Fault, CreationT!SetActivation,
           CreationT!Buy, CreationT!Accepts, CreationT!CancelAtProvider,
           CreationT!ProviderMoves, CreationT!TimePasses, CreationT!Reserve,
           CreationT!RecordReserved, CreationT!Leave, CreationT!Expired,
           CreationT!ReconcileExpires, CreationT!RefreshReads, CreationT!StatusOf,
           CreationT!Asks, CreationT!AskFails, CreationT!Writes, CreationT!CancelReads,
           CreationT!CancelStatus, CreationT!CancelCalls, CreationT!CancelFails,
           CreationT!VisitDies, CreationT!VisitStep, CreationT!VisitBegins,
           CreationT!PhonesNext, CreationT!NoVisit, CreationT!ActiveStatuses,
           CreationT!TerminalStatuses
<1>3. Creation!JobStep => CreationT!JobStep
  BY DEF Creation!Buy, Creation!SetActivation, Creation!Accepts,
         Creation!CancelAtProvider, Creation!CancelStatus, Creation!phoneVars,
         Creation!GoTo, Creation!Fails, Creation!Checkpoint, Creation!Dispatch,
         Creation!Start, Creation!Prepare, Creation!BuyNumber, Creation!Record,
         Creation!Otp, Creation!OtpTimesOut, Creation!MarkReceived, Creation!Verify,
         Creation!EmailTimesOut, Creation!CancelNumber, Creation!Settle,
         Creation!Succeed, Creation!Finish, Creation!Fail, Creation!Retry,
         Creation!JobStep, CreationT!Buy, CreationT!SetActivation, CreationT!Accepts,
         CreationT!CancelAtProvider, CreationT!CancelStatus, CreationT!phoneVars,
         CreationT!GoTo, CreationT!Fails, CreationT!Checkpoint, CreationT!Dispatch,
         CreationT!Start, CreationT!Prepare, CreationT!BuyNumber, CreationT!Record,
         CreationT!Otp, CreationT!OtpTimesOut, CreationT!MarkReceived, CreationT!Verify,
         CreationT!EmailTimesOut, CreationT!CancelNumber, CreationT!Settle,
         CreationT!Succeed, CreationT!Finish, CreationT!Fail, CreationT!Retry,
         CreationT!JobStep
<1>4. Creation!JobFails => CreationT!JobFails
  BY DEF Creation!Buy, Creation!Fault, Creation!Accepts, Creation!CancelAtProvider,
         Creation!GoTo, Creation!Fails, Creation!DispatchFails,
         Creation!ProxyUnavailable, Creation!BuyFails, Creation!RecordFails,
         Creation!RegisterFails, Creation!CancelNumberFails, Creation!SucceedFails,
         Creation!JobDies, Creation!JobFails, CreationT!Buy, CreationT!Fault,
         CreationT!Accepts, CreationT!CancelAtProvider, CreationT!GoTo, CreationT!Fails,
         CreationT!DispatchFails, CreationT!ProxyUnavailable, CreationT!BuyFails,
         CreationT!RecordFails, CreationT!RegisterFails, CreationT!CancelNumberFails,
         CreationT!SucceedFails, CreationT!JobDies, CreationT!JobFails
<1>5. Creation!Next => CreationT!Next
  BY <1>2, <1>3, <1>4
     DEF Creation!ReconcileWorkflow, Creation!Lasting, Creation!phoneVars,
         Creation!creationVars, Creation!Next, CreationT!ReconcileWorkflow,
         CreationT!Lasting, CreationT!phoneVars, CreationT!creationVars, CreationT!Next
<1>6. CreationT!PaidIsRecorded => Creation!PaidIsRecorded
  BY DEF Creation!PaidIsRecorded, Creation!BeingRecorded, Creation!Cardinality,
         CreationT!PaidIsRecorded, CreationT!BeingRecorded, CreationT!Cardinality
<1> QED
  BY <1>1, <1>5, <1>6

\* A number that was paid has its row, or a call failed or a process died
\* (account_creation.py 527-555): what AccountCreationProofs shows
\* with any visits, brought to the machine whose only visit is the reconciler.
THEOREM NumbersAreAccountedFor == Spec => []PaidIsRecorded
<1>1. CreationT!Init /\ [][CreationT!Next]_CreationT!vars => []CreationT!PaidIsRecorded
  <2>1. CreationT!PhonesAssumption
    BY PhonesAssumption DEF IsFiniteSet, CreationT!IsFiniteSet
  <2> QED
    BY <2>1, CreationT!NumbersAreAccountedFor
<1>2. [CreationT!Next]_<<phoneVars, creationOwn>> => [CreationT!Next]_CreationT!vars
  BY DEF phoneVars, creationOwn, CreationT!vars, CreationT!phoneVars, CreationT!creationVars
<1>3. machine = "creation" /\ [Next]_vars => [CreationT!Next]_CreationT!vars
  BY <1>2, CreationMoves, SameCreation
<1>4. Init /\ machine = "creation" => CreationT!Init
  BY CreationMoves, SameCreation
<1>5. CreationT!PaidIsRecorded => PaidIsRecorded
  BY SameCreation DEF PaidIsRecorded
<1>6. ~(machine = "creation") => PaidIsRecorded
  BY DEF PaidIsRecorded
<1>7. /\ machine = "creation" /\ [Next]_vars => (machine = "creation")'
      /\ ~(machine = "creation") /\ [Next]_vars => ~(machine = "creation")'
  BY CreationMoves
<1> QED
  BY <1>1, <1>3, <1>4, <1>5, <1>6, <1>7, PTL DEF Spec

-----------------------------------------------------------------------------
(* BrowserUseTasks.                                                        *)

JobPlaces == {"created", "queued", "create", "store", "poll", "detail", "done", "dead"}
TaskStatuses == {"running", "finished", "stopped"}

BrowserJob == [at : JobPlaces, task : Int, polls : Int, retries : Int]

TypedBrowser ==
  /\ workflow \in [status : Browser!Ended \cup {"PENDING", "RUNNING"}, task : Int]
  /\ job \in BrowserJob
  /\ providerTask \in Seq(TaskStatuses)
  /\ stop \in [Stops -> [at : {"idle", "stop", "write", "done"}, task : Int]]
  /\ browserFaults \in Nat

\* The identifiers that are kept are those of tasks the provider knows.
KnownTasks ==
  /\ workflow.task \in 0 .. Len(providerTask)
  /\ job.task \in 0 .. Len(providerTask)
  /\ \A s \in Stops : stop[s].task \in 0 .. Len(providerTask)
  /\ job.at \in {"store", "poll", "detail"} => job.task # 0
  /\ job.polls \in 0 .. MaxPolls

\* The detail of a task is read when the task has ended.
DetailsAreOfEnded == job.at = "detail" => providerTask[job.task] # "running"

Watched == IF job.at \in {"store", "poll", "detail"} THEN {job.task} ELSE {}
Leaks == {i \in DOMAIN providerTask : providerTask[i] = "running"} \ Watched
FewLeaks == Cardinality(Leaks) <= browserFaults

BrowserInv == TypedBrowser /\ KnownTasks /\ DetailsAreOfEnded /\ FewLeaks

USE DEF JobPlaces, TaskStatuses, BrowserJob

\* A job that watches another task, or is queued again.
LEMMA JobTyped ==
  ASSUME NEW j \in BrowserJob, NEW at \in JobPlaces, NEW n \in Int, NEW m \in Int, NEW new
  PROVE  /\ new = [j EXCEPT !.at = at, !.task = n, !.polls = m] =>
              new \in BrowserJob /\ new.at = at /\ new.task = n /\ new.polls = m
         /\ new = [j EXCEPT !.at = at, !.retries = n] =>
              new \in BrowserJob /\ new.at = at /\ new.task = j.task /\ new.polls = j.polls
         /\ new = [j EXCEPT !.at = at] =>
              new \in BrowserJob /\ new.at = at /\ new.task = j.task /\ new.polls = j.polls
  BY DEF BrowserJob

LEMMA LeaksAreFinite ==
  ASSUME TypedBrowser
  PROVE  IsFiniteSet(Leaks) /\ Cardinality(Leaks) \in Nat
<1>1. 1 \in Int /\ Len(providerTask) \in Int /\ Leaks \subseteq 1 .. Len(providerTask)
  BY DEF TypedBrowser, Leaks
<1> QED
  BY <1>1, FS_Interval, FS_Subset, FS_CardinalityType

\* A step that leaves nothing unwatched, or one task at the price of a fault.
LEMMA NothingLeaks ==
  ASSUME TypedBrowser, FewLeaks, Leaks' \subseteq Leaks, browserFaults' = browserFaults
  PROVE  FewLeaks'
<1>1. Cardinality(Leaks') <= Cardinality(Leaks) /\ Cardinality(Leaks') \in Nat
  BY LeaksAreFinite, FS_Subset, FS_CardinalityType
<1> QED
  BY <1>1, LeaksAreFinite DEF FewLeaks, TypedBrowser

LEMMA FaultLeaks ==
  ASSUME TypedBrowser, FewLeaks, NEW i, Leaks' \subseteq Leaks \cup {i},
         browserFaults' = browserFaults + 1
  PROVE  FewLeaks'
<1>1. /\ IsFiniteSet(Leaks \cup {i})
      /\ Cardinality(Leaks \cup {i}) <= Cardinality(Leaks) + 1
  BY LeaksAreFinite, FS_AddElement
<1>2. /\ Cardinality(Leaks') <= Cardinality(Leaks \cup {i})
      /\ Cardinality(Leaks') \in Nat /\ Cardinality(Leaks \cup {i}) \in Nat
  BY <1>1, FS_Subset, FS_CardinalityType
<1> QED
  BY <1>1, <1>2, LeaksAreFinite DEF FewLeaks, TypedBrowser

LEMMA BrowserStart == Browser!Init => BrowserInv
<1> SUFFICES ASSUME Browser!Init PROVE BrowserInv
  OBVIOUS
<1>1. TypedBrowser /\ KnownTasks /\ DetailsAreOfEnded
  BY BackOfficeAssumption
     DEF Browser!Init, TypedBrowser, KnownTasks, DetailsAreOfEnded
<1>2. Leaks = {}
  BY DEF Browser!Init, Leaks
<1> QED
  BY <1>1, <1>2, FS_EmptySet DEF BrowserInv, FewLeaks, Browser!Init

\* What becomes of the tasks at the provider: they keep their number and end.
LEMMA StoppedTyped ==
  ASSUME TypedBrowser, NEW i \in 1 .. Len(providerTask),
         providerTask' = Browser!StoppedAt(i)
  PROVE  /\ providerTask' \in Seq(TaskStatuses) /\ Len(providerTask') = Len(providerTask)
         /\ \A j \in 1 .. Len(providerTask) :
              providerTask'[j] = "running" => j # i /\ providerTask[j] = "running"
  BY DEF TypedBrowser, Browser!StoppedAt

LEMMA AppendTyped ==
  ASSUME TypedBrowser, providerTask' = Append(providerTask, "running")
  PROVE  /\ providerTask' \in Seq(TaskStatuses) /\ Len(providerTask') = Len(providerTask) + 1
         /\ \A j \in 1 .. Len(providerTask) : providerTask'[j] = providerTask[j]
  BY DEF TypedBrowser

\* A step that leaves the tasks at the provider alone.
LEMMA BrowserQuiet ==
  ASSUME BrowserInv, providerTask' = providerTask,
         \/ Browser!Dispatch \/ Browser!DispatchFails \/ Browser!Start \/ Browser!StoreTask
         \/ Browser!Poll \/ Browser!Die \/ \E success \in BOOLEAN : Browser!Finish(success)
         \/ \E s \in Stops : \/ Browser!StopReads(s) \/ Browser!StopWrites(s)
                             \/ Browser!StopFails(s)
  PROVE  BrowserInv'
<1> USE DEF BrowserInv, Browser!GoTo, Browser!SetStatus, Browser!Ended
<1>1. CASE Browser!Dispatch \/ Browser!Start \/ Browser!StoreTask
  <2>1. TypedBrowser' /\ KnownTasks' /\ DetailsAreOfEnded'
    BY <1>1 DEF Browser!Dispatch, Browser!Start, Browser!StoreTask,
                TypedBrowser, KnownTasks, DetailsAreOfEnded
  <2>2. Leaks' \subseteq Leaks /\ browserFaults' = browserFaults
    BY <1>1 DEF Browser!Dispatch, Browser!Start, Browser!StoreTask,
                TypedBrowser, Leaks, Watched
  <2> QED
    BY <2>1, <2>2, NothingLeaks
<1>2. CASE Browser!Poll \/ \E success \in BOOLEAN : Browser!Finish(success)
  <2>1. TypedBrowser' /\ KnownTasks' /\ DetailsAreOfEnded'
    BY <1>2, BackOfficeAssumption DEF Browser!Poll, Browser!Finish,
                TypedBrowser, KnownTasks, DetailsAreOfEnded
  <2>2. Leaks' \subseteq Leaks /\ browserFaults' = browserFaults
    BY <1>2 DEF Browser!Poll, Browser!Finish,
                TypedBrowser, DetailsAreOfEnded, Leaks, Watched
  <2> QED
    BY <2>1, <2>2, NothingLeaks
<1>3. CASE Browser!DispatchFails \/ Browser!Die
  <2>1. TypedBrowser' /\ KnownTasks' /\ DetailsAreOfEnded'
    BY <1>3 DEF Browser!DispatchFails, Browser!Die,
                TypedBrowser, KnownTasks, DetailsAreOfEnded
  <2>2. Leaks' \subseteq Leaks \cup {job.task} /\ browserFaults' = browserFaults + 1
    BY <1>3 DEF Browser!DispatchFails, Browser!Die, TypedBrowser, Leaks, Watched
  <2> QED
    BY <2>1, <2>2, FaultLeaks
<1>4. ASSUME NEW s \in Stops,
             Browser!StopReads(s) \/ Browser!StopWrites(s) \/ Browser!StopFails(s)
      PROVE  BrowserInv'
  <2>0. PICK new : /\ stop' = [stop EXCEPT ![s] = new]
                   /\ new \in [at : {"idle", "stop", "write", "done"}, task : Int]
                   /\ new.task \in {stop[s].task, workflow.task}
    <3>1. stop[s] \in [at : {"idle", "stop", "write", "done"}, task : Int]
      BY DEF TypedBrowser
    <3>2. CASE Browser!StopReads(s)
      <4>1. workflow.task \in Int
        BY DEF TypedBrowser
      <4> WITNESS [at |-> "stop", task |-> workflow.task]
      <4> QED
        BY <3>2, <4>1 DEF Browser!StopReads
    <3>3. CASE Browser!StopWrites(s) \/ Browser!StopFails(s)
      <4> WITNESS [stop[s] EXCEPT !.at = "done"]
      <4> QED
        BY <3>1, <3>3 DEF Browser!StopWrites, Browser!StopFails, TypedBrowser
    <3> QED
      BY <1>4, <3>2, <3>3
  <2>1. TypedBrowser' /\ KnownTasks' /\ DetailsAreOfEnded'
    <3>1. /\ job' = job
          /\ workflow' \in [status : Browser!Ended \cup {"PENDING", "RUNNING"}, task : Int]
          /\ workflow'.task = workflow.task
          /\ browserFaults' \in Nat
      BY <1>4 DEF Browser!StopReads, Browser!StopWrites, Browser!StopFails, TypedBrowser
    <3> QED
      BY <2>0, <3>1 DEF TypedBrowser, KnownTasks, DetailsAreOfEnded
  <2>2. Leaks' = Leaks /\ browserFaults' \in {browserFaults, browserFaults + 1}
    BY <1>4 DEF Browser!StopReads, Browser!StopWrites, Browser!StopFails, Leaks, Watched
  <2> QED
    BY <2>1, <2>2, NothingLeaks, FaultLeaks
<1> QED
  BY <1>1, <1>2, <1>3, <1>4

\* A task at the provider begins, is stopped or ends.
LEMMA BrowserTasks ==
  ASSUME BrowserInv,
         \/ Browser!CreateTask \/ Browser!TooLong \/ Browser!TooExpensive
         \/ \E network, happened \in BOOLEAN : Browser!CallFails(network, happened)
         \/ \E s \in Stops : Browser!StopCalls(s)
         \/ \E i \in DOMAIN providerTask : Browser!TaskEnds(i)
  PROVE  BrowserInv'
<1> USE DEF BrowserInv, Browser!GoTo, Browser!SetStatus, Browser!Ended
<1>1. CASE Browser!CreateTask
  <2>0. providerTask' = Append(providerTask, "running") /\ Len(providerTask) \in Nat
    BY <1>1 DEF Browser!CreateTask, TypedBrowser
  <2>1. TypedBrowser' /\ KnownTasks' /\ DetailsAreOfEnded'
    <3>1. Len(providerTask') = Len(providerTask) + 1 /\ providerTask' \in Seq(TaskStatuses)
      BY <2>0, AppendTyped
    <3>2. /\ job' \in BrowserJob
          /\ job'.at = "store" /\ job'.task = Len(providerTask) + 1 /\ job'.polls = 0
      <4>1. job' = [job EXCEPT !.at = "store", !.task = Len(providerTask) + 1, !.polls = 0]
        BY <1>1, <3>1 DEF Browser!CreateTask
      <4>2. PICK m \in Int : m = 0
        OBVIOUS
      <4>3. PICK n \in Int : n = Len(providerTask) + 1
        BY <2>0
      <4>4. job' = [job EXCEPT !.at = "store", !.task = n, !.polls = m]
        BY <4>1, <4>2, <4>3
      <4>5. job \in BrowserJob /\ "store" \in JobPlaces
        BY DEF TypedBrowser
      <4>6. job' \in BrowserJob /\ job'.at = "store" /\ job'.task = n /\ job'.polls = m
        BY <4>4, <4>5, JobTyped
      <4> QED
        BY <4>2, <4>3, <4>6
    <3>3. TypedBrowser'
      BY <1>1, <3>1, <3>2 DEF Browser!CreateTask, TypedBrowser
    <3> QED
      BY <1>1, <2>0, <3>3, <3>2, AppendTyped, BackOfficeAssumption
         DEF Browser!CreateTask, KnownTasks, DetailsAreOfEnded
  <2>2. Leaks' \subseteq Leaks /\ browserFaults' = browserFaults
    BY <1>1, AppendTyped DEF Browser!CreateTask, TypedBrowser, Leaks, Watched
  <2> QED
    BY <2>1, <2>2, NothingLeaks
<1>2. CASE Browser!TooLong \/ Browser!TooExpensive
  <2>0. job.task \in 1 .. Len(providerTask) /\ providerTask' = Browser!StoppedAt(job.task)
    BY <1>2 DEF Browser!TooLong, Browser!TooExpensive, Browser!GiveUp, KnownTasks
  <2>1. TypedBrowser' /\ KnownTasks' /\ DetailsAreOfEnded'
    BY <1>2, <2>0, StoppedTyped
       DEF Browser!TooLong, Browser!TooExpensive, Browser!GiveUp, TypedBrowser, KnownTasks,
           DetailsAreOfEnded
  <2>2. Leaks' \subseteq Leaks /\ browserFaults' = browserFaults
    BY <1>2, <2>0, StoppedTyped
       DEF Browser!TooLong, Browser!TooExpensive, Browser!GiveUp, TypedBrowser, Leaks, Watched
  <2> QED
    BY <2>1, <2>2, NothingLeaks
<1>3. ASSUME NEW network \in BOOLEAN, NEW happened \in BOOLEAN,
             Browser!CallFails(network, happened)
      PROVE  BrowserInv'
  <2>0. /\ Len(providerTask) \in Nat
        /\ \/ providerTask' = providerTask
           \/ providerTask' = Append(providerTask, "running") /\ job.at = "create"
    BY <1>3 DEF Browser!CallFails, TypedBrowser
  <2>a. /\ providerTask' \in Seq(TaskStatuses)
        /\ Len(providerTask') \in {Len(providerTask), Len(providerTask) + 1}
    BY <2>0, AppendTyped DEF TypedBrowser
  <2>b. /\ job' \in BrowserJob
        /\ job'.at \in {"queued", "done"} /\ job'.task = job.task /\ job'.polls = job.polls
    <3>1. \/ job' = [job EXCEPT !.at = "queued", !.retries = @ + 1]
          \/ job' = [job EXCEPT !.at = "done"]
      BY <1>3 DEF Browser!CallFails
    <3>2. /\ job \in BrowserJob /\ "queued" \in JobPlaces /\ "done" \in JobPlaces
          /\ job.retries \in Int
      BY DEF TypedBrowser
    <3>3. PICK n \in Int : n = job.retries + 1
      BY <3>2
    <3>4. \/ job' = [job EXCEPT !.at = "queued", !.retries = n]
          \/ job' = [job EXCEPT !.at = "done"]
      BY <3>1, <3>3
    <3>5. CASE job' = [job EXCEPT !.at = "queued", !.retries = n]
      BY <3>2, <3>5, JobTyped
    <3>6. CASE job' = [job EXCEPT !.at = "done"]
      BY <3>2, <3>3, <3>6, JobTyped
    <3> QED
      BY <3>4, <3>5, <3>6
  <2>1. TypedBrowser' /\ KnownTasks' /\ DetailsAreOfEnded'
    <3>0. /\ workflow' \in [status : Browser!Ended \cup {"PENDING", "RUNNING"}, task : Int]
          /\ browserFaults' \in Nat
      BY <1>3 DEF Browser!CallFails, TypedBrowser
    <3>1. TypedBrowser'
      BY <1>3, <2>a, <2>b, <3>0 DEF Browser!CallFails, TypedBrowser
    <3>2. /\ workflow'.task = workflow.task /\ stop' = stop
      BY <1>3 DEF Browser!CallFails, TypedBrowser
    <3> QED
      BY <2>0, <2>a, <2>b, <3>1, <3>2 DEF KnownTasks, DetailsAreOfEnded
  <2>2. browserFaults' = browserFaults + 1 /\ Watched' = {}
    BY <1>3 DEF Browser!CallFails, TypedBrowser, Watched
  <2>3. CASE providerTask' = providerTask
    <3>1. Leaks' \subseteq Leaks \cup {job.task}
      BY <2>3 DEF Leaks, Watched
    <3> QED
      BY <2>1, <2>2, <3>1, FaultLeaks
  <2>4. CASE providerTask' = Append(providerTask, "running") /\ job.at = "create"
    <3>1. Leaks' \subseteq Leaks \cup {Len(providerTask) + 1}
      BY <2>4, AppendTyped DEF TypedBrowser, Leaks, Watched
    <3> QED
      BY <2>1, <2>2, <3>1, FaultLeaks
  <2> QED
    BY <2>0, <2>3, <2>4
<1>4. ASSUME NEW s \in Stops, Browser!StopCalls(s)
      PROVE  BrowserInv'
  <2>0. \/ providerTask' = providerTask
        \/ /\ stop[s].task \in 1 .. Len(providerTask)
           /\ providerTask' = Browser!StoppedAt(stop[s].task)
    BY <1>4 DEF Browser!StopCalls, KnownTasks
  <2>1. /\ providerTask' \in Seq(TaskStatuses) /\ Len(providerTask') = Len(providerTask)
        /\ \A j \in 1 .. Len(providerTask) :
              providerTask'[j] = "running" => providerTask[j] = "running"
    BY <2>0, StoppedTyped DEF TypedBrowser
  <2>2. TypedBrowser' /\ KnownTasks' /\ DetailsAreOfEnded'
    BY <1>4, <2>1 DEF Browser!StopCalls, TypedBrowser, KnownTasks, DetailsAreOfEnded
  <2>3. job' = job /\ browserFaults' = browserFaults
    BY <1>4 DEF Browser!StopCalls
  <2>4. Leaks' \subseteq Leaks
    BY <2>1, <2>3 DEF TypedBrowser, Leaks, Watched
  <2> QED
    BY <2>2, <2>3, <2>4, NothingLeaks
<1>5. ASSUME NEW i \in DOMAIN providerTask, Browser!TaskEnds(i)
      PROVE  BrowserInv'
  <2>1. /\ providerTask' \in Seq(TaskStatuses) /\ Len(providerTask') = Len(providerTask)
        /\ \A j \in 1 .. Len(providerTask) :
              providerTask'[j] = "running" => providerTask[j] = "running"
    BY <1>5 DEF Browser!TaskEnds, TypedBrowser
  <2>2. TypedBrowser' /\ KnownTasks' /\ DetailsAreOfEnded'
    BY <1>5, <2>1 DEF Browser!TaskEnds, TypedBrowser, KnownTasks, DetailsAreOfEnded
  <2>3. Leaks' \subseteq Leaks /\ browserFaults' = browserFaults
    BY <1>5, <2>1 DEF Browser!TaskEnds, TypedBrowser, Leaks, Watched
  <2> QED
    BY <2>2, <2>3, NothingLeaks
<1> QED
  BY <1>1, <1>2, <1>3, <1>4, <1>5

LEMMA BrowserSteps == BrowserInv /\ [Browser!Next]_browserVars => BrowserInv'
<1> SUFFICES ASSUME BrowserInv, [Browser!Next]_browserVars PROVE BrowserInv'
  OBVIOUS
<1>1. CASE UNCHANGED browserVars
  <2>1. TypedBrowser' /\ KnownTasks' /\ DetailsAreOfEnded'
    BY <1>1 DEF browserVars, BrowserInv, TypedBrowser, KnownTasks, DetailsAreOfEnded
  <2>2. Leaks' = Leaks /\ browserFaults' = browserFaults
    BY <1>1 DEF browserVars, Leaks, Watched
  <2> QED
    BY <2>1, <2>2 DEF BrowserInv, FewLeaks
<1>2. CASE Browser!Next
  <2> DEFINE quiet == \/ Browser!Dispatch \/ Browser!DispatchFails \/ Browser!Start
                      \/ Browser!StoreTask \/ Browser!Poll \/ Browser!Die
                      \/ \E success \in BOOLEAN : Browser!Finish(success)
                      \/ \E s \in Stops : \/ Browser!StopReads(s) \/ Browser!StopWrites(s)
                                          \/ Browser!StopFails(s)
  <2>1. quiet => providerTask' = providerTask
    BY DEF Browser!Dispatch, Browser!DispatchFails, Browser!Start, Browser!StoreTask,
           Browser!Poll, Browser!Die, Browser!Finish, Browser!StopReads, Browser!StopWrites,
           Browser!StopFails
  <2>2. \/ quiet
        \/ Browser!CreateTask \/ Browser!TooLong \/ Browser!TooExpensive
        \/ \E network, happened \in BOOLEAN : Browser!CallFails(network, happened)
        \/ \E s \in Stops : Browser!StopCalls(s)
        \/ \E i \in DOMAIN providerTask : Browser!TaskEnds(i)
    BY <1>2 DEF Browser!Next, Browser!Step
  <2> QED
    BY <2>1, <2>2, BrowserQuiet, BrowserTasks
<1> QED
  BY <1>1, <1>2

LEMMA BrowserHolds == Spec => []BrowserInv
  BY BrowserMoves, BrowserStart, BrowserSteps, PTL DEF Spec

\* The paid tasks that run with nobody to watch their cost are no more than
\* the calls that failed and the processes that died: no retry, stop or limit
\* abandons one (browser_use_workflows.py 97-197).
THEOREM LeaksAreCounted == Spec => []LeaksAreFaults
<1>1. BrowserInv => LeaksAreFaults
  <2>1. \A S : Browser!Cardinality(S) = Cardinality(S)
    BY DEF Browser!Cardinality, Cardinality
  <2> QED
    BY <2>1
       DEF BrowserInv, FewLeaks, Leaks, Watched, LeaksAreFaults, Browser!LeaksAreFaults
<1> QED
  BY <1>1, BrowserHolds, PTL

-----------------------------------------------------------------------------
(* ApifyProfiles.                                                          *)

Kinds == {"create", "evaluate", "promote", "rollback"}
Statuses == {"none", "candidate", "active", "retired"}
Optional == Profiles \cup {None}
ProfileRow == [status : Statuses, version : 0 .. Cardinality(Profiles)]
Experiment == [born : 0 .. MaxBegun, decision : {"none", "keep", "discard", "crash"},
               baseline : Optional]
Transaction == [kind : Kinds \cup {"none"}, profile : Optional,
                todo : Seq(Profiles \cup {"binding", "active"}), active : Optional,
                born : 0 .. MaxBegun]

TypedLearning ==
  /\ profile \in [Profiles -> ProfileRow]
  /\ active \in Optional
  /\ experiment \in [Profiles -> Experiment]
  /\ tx \in [Tx -> Transaction]
  /\ holder \in [Profiles \cup {"binding"} -> Tx \cup {None}]
  /\ begun \in 0 .. MaxBegun

\* What an operation has left to lock.
Stages(kind, p) ==
  IF kind = "create" THEN {<<"binding">>, <<>>}
  ELSE IF kind = "rollback"
       THEN {<<"binding", p, "active">>, <<p, "active">>, <<"active">>, <<>>}
       ELSE {<<p, "binding", "active">>, <<"binding", "active">>, <<"active">>, <<>>}

Staged ==
  \A t \in Tx : tx[t].kind # "none" =>
    tx[t].profile \in Profiles /\ tx[t].todo \in Stages(tx[t].kind, tx[t].profile)

Outside == \A t \in Tx : tx[t].kind = "none" => tx[t] = Learning!NoTx

\* A profile that is being created belongs to that transaction alone.
Creating ==
  \A t \in Tx :
    /\ tx[t].kind = "create" =>
         /\ profile[tx[t].profile].status = "none"
         /\ \A u \in Tx \ {t} : tx[u].profile # tx[t].profile
    /\ tx[t].kind \in Kinds \ {"create"} => profile[tx[t].profile].status # "none"

\* A promotion or rollback past its lock of the binding still holds it, and the
\* active profile it read then is the active profile.
HasBinding(t) ==
  /\ tx[t].kind \in {"promote", "rollback"}
  /\ tx[t].todo \in {<<tx[t].profile, "active">>, <<"active">>, <<>>}

BindingKept == \A t \in Tx : HasBinding(t) => holder["binding"] = t /\ tx[t].active = active

LearningInv == TypedLearning /\ Staged /\ Outside /\ Creating /\ BindingKept /\ OneActive

LEMMA NoTxTyped ==
  /\ Learning!NoTx \in Transaction
  /\ Learning!NoTx.kind = "none" /\ Learning!NoTx.profile = None
<1>1. PICK z \in 0 .. MaxBegun : z = 0
  BY BackOfficeAssumption
<1>2. \A S : <<>> \in Seq(S)
  OBVIOUS
<1> QED
  BY <1>1, <1>2 DEF Learning!NoTx, Transaction, Optional

LEMMA LearningStart == Learning!Init => LearningInv
<1> SUFFICES ASSUME Learning!Init PROVE LearningInv
  OBVIOUS
<1>1. 0 \in 0 .. MaxBegun /\ 0 \in 0 .. Cardinality(Profiles)
  BY BackOfficeAssumption, FS_CardinalityType
<1>2. TypedLearning
  BY <1>1, NoTxTyped
     DEF Learning!Init, TypedLearning, Learning!NoExperiment, Experiment, ProfileRow, Statuses,
         Optional, Learning!Rows
<1>3. Staged /\ Outside /\ Creating /\ BindingKept /\ OneActive
  BY NoTxTyped, BackOfficeAssumption
     DEF Learning!Init, Staged, Outside, Creating, BindingKept, HasBinding, OneActive,
         Learning!OneActive, Kinds
<1> QED
  BY <1>2, <1>3 DEF LearningInv

\* A transaction that ends.
LEMMA LeaveKeeps ==
  ASSUME LearningInv, NEW t \in Tx, Learning!Leave(t)
  PROVE  /\ tx' \in [Tx -> Transaction]
         /\ holder' \in [Profiles \cup {"binding"} -> Tx \cup {None}]
         /\ Staged' /\ Outside'
         /\ tx'[t] = Learning!NoTx
         /\ \A u \in Tx \ {t} : tx'[u] = tx[u]
         /\ \A u \in Tx : HasBinding(u)' =>
              u # t /\ holder["binding"] = u /\ holder'["binding"] = u /\ tx[u].active = active
<1> USE DEF LearningInv
<1>1. /\ tx' = [tx EXCEPT ![t] = Learning!NoTx]
      /\ tx \in [Tx -> Transaction]
  BY DEF Learning!Leave, TypedLearning
<1>2. tx' \in [Tx -> Transaction] /\ tx'[t] = Learning!NoTx /\ \A u \in Tx \ {t} : tx'[u] = tx[u]
  BY <1>1, NoTxTyped
<1>3. holder' \in [Profiles \cup {"binding"} -> Tx \cup {None}]
  BY DEF Learning!Leave, Learning!Released, Learning!Rows, TypedLearning
<1>4. Staged' /\ Outside'
  BY <1>2, NoTxTyped DEF Staged, Outside
<1>5. ASSUME NEW u \in Tx, HasBinding(u)'
      PROVE  u # t /\ holder["binding"] = u /\ holder'["binding"] = u /\ tx[u].active = active
  <2>1. u # t /\ HasBinding(u)
    BY <1>2, <1>5, NoTxTyped DEF HasBinding
  <2> QED
    BY <2>1 DEF BindingKept, Learning!Leave, Learning!Released, Learning!Rows
<1> QED
  BY <1>2, <1>3, <1>4, <1>5

\* A transaction ends and leaves the profiles as they are.
LEMMA QuietLeave ==
  ASSUME LearningInv, NEW t \in Tx, Learning!Leave(t),
         UNCHANGED <<profile, active, begun>>, experiment' \in [Profiles -> Experiment]
  PROVE  LearningInv'
<1> USE DEF LearningInv
<1>1. TypedLearning' /\ Staged' /\ Outside' /\ BindingKept'
  BY LeaveKeeps DEF TypedLearning, BindingKept, HasBinding
<1>2. Creating'
  <2>1. ASSUME NEW u \in Tx, tx'[u].kind # "none"
        PROVE  /\ u # t /\ tx'[u] = tx[u]
               /\ \A v \in Tx \ {u} : tx'[v].profile \in {tx[v].profile, None}
               /\ tx[u].profile # None
    BY <2>1, LeaveKeeps, NoTxTyped, BackOfficeAssumption DEF Staged
  <2> QED
    BY <2>1 DEF Creating, Kinds
<1>3. OneActive'
  BY DEF OneActive, Learning!OneActive
<1> QED
  BY <1>1, <1>2, <1>3

LEMMA QuietEnds ==
  ASSUME LearningInv, NEW t \in Tx,
         \/ Learning!Refuse(t) \/ Learning!Abort(t)
         \/ \E crashed \in BOOLEAN : Learning!CommitEvaluate(t, crashed)
  PROVE  LearningInv'
<1>1. CASE Learning!Refuse(t) \/ Learning!Abort(t)
  BY <1>1, QuietLeave DEF Learning!Refuse, Learning!Abort, LearningInv, TypedLearning
<1>2. ASSUME NEW crashed \in BOOLEAN, Learning!CommitEvaluate(t, crashed)
      PROVE  LearningInv'
  <2> DEFINE p == tx[t].profile
             decision == IF crashed THEN "crash" ELSE Learning!Decision(tx[t].active, p)
             found == [born |-> tx[t].born, baseline |-> tx[t].active, decision |-> decision]
  <2>1. decision \in {"keep", "discard", "crash"}
    BY DEF Learning!Decision
  <2>2. tx[t] \in Transaction /\ experiment \in [Profiles -> Experiment]
    BY DEF LearningInv, TypedLearning
  <2> HIDE DEF decision
  <2>3. found \in Experiment
    BY <2>1, <2>2 DEF Transaction, Experiment
  <2>4. experiment' \in {experiment, [experiment EXCEPT ![p] = found]}
    BY <1>2 DEF Learning!CommitEvaluate, decision
  <2> HIDE DEF found
  <2>5. experiment' \in [Profiles -> Experiment]
    BY <2>2, <2>3, <2>4
  <2> QED
    BY <1>2, <2>5, QuietLeave DEF Learning!CommitEvaluate, Learning!Ends
<1> QED
  BY <1>1, <1>2

LEMMA CreateKeeps ==
  ASSUME LearningInv, NEW t \in Tx, Learning!CommitCreate(t)
  PROVE  LearningInv'
<1> USE DEF LearningInv
<1> DEFINE p == tx[t].profile
           old == {q \in Profiles : profile[q].status # "none"}
           new == [status |-> "candidate", version |-> 1 + Cardinality(old)]
<1>0. /\ tx[t].kind = "create" /\ p \in Profiles /\ Learning!Leave(t)
      /\ profile[p].status = "none" /\ \A u \in Tx \ {t} : tx[u].profile # p
  BY DEF Learning!CommitCreate, Learning!Ends, Staged, Creating
<1>1. profile' = [profile EXCEPT ![p] = new]
  <2>1. \A S : Learning!Cardinality(S) = Cardinality(S)
    BY DEF Learning!Cardinality, Cardinality
  <2> QED
    BY <2>1 DEF Learning!CommitCreate
<1>2. new \in ProfileRow
  <2>1. IsFiniteSet(old) /\ IsFiniteSet(Profiles)
    BY BackOfficeAssumption, FS_Subset
  <2>2. p \notin old /\ old \cup {p} \subseteq Profiles
    BY <1>0
  <2>3. /\ Cardinality(old \cup {p}) = Cardinality(old) + 1
        /\ Cardinality(old \cup {p}) <= Cardinality(Profiles)
    BY <2>1, <2>2, FS_AddElement, FS_Subset
  <2>4. Cardinality(old) \in Nat /\ Cardinality(Profiles) \in Nat
    BY <2>1, FS_CardinalityType
  <2>5. 1 + Cardinality(old) \in 0 .. Cardinality(Profiles)
    <3>1. \A a, b \in Nat : a + 1 <= b => 1 + a \in 0 .. b
      OBVIOUS
    <3>2. Cardinality(old) + 1 <= Cardinality(Profiles)
      BY <2>3
    <3> QED
      BY <2>4, <3>1, <3>2
  <2> QED
    BY <2>5 DEF ProfileRow, Statuses
<1> HIDE DEF new
<1>3. TypedLearning' /\ Staged' /\ Outside' /\ BindingKept'
  BY <1>0, <1>1, <1>2, LeaveKeeps
     DEF Learning!CommitCreate, TypedLearning, BindingKept
<1>4. Creating'
  <2>1. ASSUME NEW u \in Tx, tx'[u].kind # "none"
        PROVE  /\ u # t /\ tx'[u] = tx[u]
               /\ \A v \in Tx \ {u} : tx'[v].profile \in {tx[v].profile, None}
               /\ tx[u].profile # None
               /\ profile'[tx[u].profile] = profile[tx[u].profile]
    BY <1>0, <1>1, <2>1, LeaveKeeps, NoTxTyped, BackOfficeAssumption DEF Staged, TypedLearning
  <2> QED
    BY <2>1 DEF Creating, Kinds
<1>5. OneActive'
  <2>1. new.status = "candidate"
    BY DEF new
  <2> QED
    BY <1>0, <1>1, <2>1
       DEF Learning!CommitCreate, OneActive, Learning!OneActive, TypedLearning
<1> QED
  BY <1>3, <1>4, <1>5

\* The promotion or rollback names a profile that is not being created, and
\* the former active profile is the one it read under the lock.
LEMMA InstallKeeps ==
  ASSUME LearningInv, NEW t \in Tx, NEW kind \in {"promote", "rollback"},
         Learning!Install(t, kind)
  PROVE  LearningInv'
<1> USE DEF LearningInv
<1> DEFINE p == tx[t].profile
<1>0. /\ tx[t].kind = kind /\ p \in Profiles /\ Learning!Leave(t)
      /\ holder["binding"] = t /\ tx[t].active = active
      /\ profile[p].status # "none"
  BY DEF Learning!Install, Learning!Ends, Staged, Creating, BindingKept, HasBinding, Kinds
<1>1. /\ profile' \in [Profiles -> ProfileRow]
      /\ \A q \in Profiles : profile'[q].status =
            IF q = p THEN "active" ELSE IF q = active THEN "retired" ELSE profile[q].status
  BY <1>0 DEF Learning!Install, TypedLearning, ProfileRow, Statuses
<1>2. active' = p
  BY DEF Learning!Install
<1>3. TypedLearning' /\ Staged' /\ Outside'
  BY <1>0, <1>1, <1>2, LeaveKeeps DEF Learning!Install, TypedLearning, Optional
<1>4. BindingKept'
  BY <1>0, LeaveKeeps DEF BindingKept
<1>5. Creating'
  <2>1. ASSUME NEW u \in Tx, tx'[u].kind # "none"
        PROVE  /\ u # t /\ tx'[u] = tx[u]
               /\ \A v \in Tx \ {u} : tx'[v].profile \in {tx[v].profile, None}
               /\ tx[u].profile \in Profiles /\ tx[u].profile # None
    <3>1. u # t /\ tx'[u] = tx[u]
      BY <1>0, <2>1, LeaveKeeps, NoTxTyped
    <3>2. \A v \in Tx \ {u} : tx'[v].profile \in {tx[v].profile, None}
      BY <1>0, LeaveKeeps, NoTxTyped
    <3> QED
      BY <2>1, <3>1, <3>2, BackOfficeAssumption DEF Staged
  <2>2. ASSUME NEW u \in Tx, tx'[u].kind = "create"
        PROVE  profile'[tx[u].profile].status = "none"
    BY <1>0, <1>1, <2>1, <2>2 DEF Creating, OneActive, Learning!OneActive
  <2> QED
    BY <1>1, <2>1, <2>2 DEF Creating, Kinds
<1>6. OneActive'
  BY <1>0, <1>1, <1>2 DEF OneActive, Learning!OneActive
<1> QED
  BY <1>3, <1>4, <1>5, <1>6

LEMMA BeginKeeps ==
  ASSUME LearningInv, NEW t \in Tx, NEW kind \in Kinds, NEW p \in Profiles,
         Learning!Begin(t, kind, p)
  PROVE  LearningInv'
<1> USE DEF LearningInv
<1>1. /\ begun \in Nat /\ begun' = begun + 1 /\ begun' \in 0 .. MaxBegun
      /\ UNCHANGED <<profile, active, experiment, holder>>
      /\ tx[t] = Learning!NoTx
  BY BackOfficeAssumption DEF Learning!Begin, TypedLearning
<1>2. PICK new : /\ tx' = [tx EXCEPT ![t] = new]
                 /\ new = [kind |-> kind, profile |-> p, todo |-> Learning!LockOrder(kind, p),
                           active |-> IF kind = "evaluate" THEN active ELSE None,
                           born |-> begun']
  BY DEF Learning!Begin
<1>3. /\ Learning!LockOrder(kind, p) \in Stages(kind, p)
      /\ Learning!LockOrder(kind, p) \in Seq(Profiles \cup {"binding", "active"})
      /\ kind \in {"promote", "rollback"} =>
           Learning!LockOrder(kind, p) \notin {<<p, "active">>, <<"active">>, <<>>}
  <2>1. CASE kind = "create"
    BY <2>1 DEF Learning!LockOrder, Stages
  <2>2. CASE kind = "rollback"
    BY <2>2 DEF Learning!LockOrder, Stages
  <2>3. CASE kind \in {"evaluate", "promote"}
    <3>1. /\ Learning!LockOrder(kind, p) = <<p, "binding", "active">>
          /\ Stages(kind, p) =
               {<<p, "binding", "active">>, <<"binding", "active">>, <<"active">>, <<>>}
      BY <2>3 DEF Learning!LockOrder, Stages
    <3> QED
      BY <3>1
  <2> QED
    BY <2>1, <2>2, <2>3 DEF Kinds
<1>4. new \in Transaction
  BY <1>1, <1>2, <1>3 DEF TypedLearning, Transaction, Optional
<1>5. /\ tx' \in [Tx -> Transaction] /\ tx'[t] = new
      /\ \A u \in Tx \ {t} : tx'[u] = tx[u]
  BY <1>2, <1>4 DEF TypedLearning
<1>6. new.kind = kind /\ new.profile = p /\ new.todo = Learning!LockOrder(kind, p)
  BY <1>2
<1>7. TypedLearning' /\ Staged' /\ Outside'
  BY <1>1, <1>3, <1>5, <1>6 DEF TypedLearning, Staged, Outside, Kinds
<1>8. BindingKept'
  <2>1. ~HasBinding(t)'
    BY <1>3, <1>5, <1>6 DEF HasBinding
  <2>2. \A u \in Tx \ {t} : HasBinding(u)' => HasBinding(u)
    BY <1>5 DEF HasBinding
  <2> QED
    BY <1>1, <1>5, <2>1, <2>2 DEF BindingKept
<1>9. Creating'
  <2>1. CASE kind = "create"
    <3>1. profile[p].status = "none" /\ \A u \in Tx : tx[u].profile # p
      BY <2>1 DEF Learning!Begin
    <3> QED
      BY <1>1, <1>5, <1>6, <2>1, <3>1 DEF Creating, Kinds
  <2>2. CASE kind # "create"
    <3>1. profile[p].status # "none"
      BY <2>2 DEF Learning!Begin, Kinds
    <3> QED
      BY <1>1, <1>5, <1>6, <2>2, <3>1 DEF Creating, Kinds
  <2> QED
    BY <2>1, <2>2
<1>10. OneActive'
  BY <1>1 DEF OneActive, Learning!OneActive
<1> QED
  BY <1>7, <1>8, <1>9, <1>10

\* What is left when the first row is locked.
LEMMA StagesGoOn ==
  ASSUME NEW kind \in Kinds, NEW p \in Profiles, NEW todo \in Stages(kind, p), todo # <<>>
  PROVE  /\ Tail(todo) \in Stages(kind, p)
         /\ /\ kind \in {"promote", "rollback"}
            /\ Tail(todo) \in {<<p, "active">>, <<"active">>, <<>>}
            => todo \in {<<p, "active">>, <<"active">>, <<>>} \/ Head(todo) = "binding"
<1>1. CASE kind = "create"
  <2>1. Stages(kind, p) = {<<"binding">>, <<>>}
    BY <1>1 DEF Stages
  <2>2. todo = <<"binding">>
    BY <2>1
  <2>3. Tail(todo) = <<>>
    BY <2>2
  <2> QED
    BY <1>1, <2>1, <2>3
<1>2. CASE kind = "rollback"
  <2>1. Stages(kind, p) =
          {<<"binding", p, "active">>, <<p, "active">>, <<"active">>, <<>>}
    BY <1>2 DEF Stages
  <2>2. CASE todo = <<"binding", p, "active">>
    <3>1. Head(todo) = "binding" /\ Tail(todo) = <<p, "active">>
      BY <2>2
    <3> QED
      BY <2>1, <3>1
  <2>3. CASE todo = <<p, "active">>
    <3>1. Tail(todo) = <<"active">>
      BY <2>3
    <3> QED
      BY <2>1, <2>3, <3>1
  <2>4. CASE todo = <<"active">>
    <3>1. Tail(todo) = <<>>
      BY <2>4
    <3> QED
      BY <2>1, <2>4, <3>1
  <2> QED
    BY <2>1, <2>2, <2>3, <2>4
<1>3. CASE kind \in {"evaluate", "promote"}
  <2>1. Stages(kind, p) =
          {<<p, "binding", "active">>, <<"binding", "active">>, <<"active">>, <<>>}
    BY <1>3 DEF Stages
  <2>2. CASE todo = <<p, "binding", "active">>
    <3>1. Tail(todo) = <<"binding", "active">>
      BY <2>2
    <3>2. "binding" # p /\ \A a, b : <<"binding", a>> # <<p, b>>
      BY BackOfficeAssumption
    <3> QED
      BY <2>1, <3>1, <3>2
  <2>3. CASE todo = <<"binding", "active">>
    <3>1. Head(todo) = "binding" /\ Tail(todo) = <<"active">>
      BY <2>3
    <3> QED
      BY <2>1, <3>1
  <2>4. CASE todo = <<"active">>
    <3>1. Tail(todo) = <<>>
      BY <2>4
    <3> QED
      BY <2>1, <2>4, <3>1
  <2> QED
    BY <2>1, <2>2, <2>3, <2>4
<1> QED
  BY <1>1, <1>2, <1>3 DEF Kinds

LEMMA LockKeeps ==
  ASSUME LearningInv, NEW t \in Tx, Learning!Lock(t)
  PROVE  LearningInv'
<1> USE DEF LearningInv
<1> DEFINE row == Learning!Wanted(t)
           kind == tx[t].kind
           p == tx[t].profile
           todo == tx[t].todo
<1>1. /\ todo # <<>> /\ kind \in Kinds /\ p \in Profiles /\ todo \in Stages(kind, p)
      /\ tx[t] \in Transaction
      /\ UNCHANGED <<profile, active, experiment, begun>>
  BY DEF Learning!Lock, Outside, Staged, Learning!NoTx, TypedLearning, Transaction
<1>2. PICK new : /\ tx' = [tx EXCEPT ![t] = new]
                 /\ new = [tx[t] EXCEPT !.todo = Tail(todo),
                              !.active = IF row = "binding" /\ kind # "evaluate"
                                         THEN active ELSE tx[t].active]
  BY DEF Learning!Lock, TypedLearning
<1>3. /\ new.kind = kind /\ new.profile = p /\ new.todo = Tail(todo)
      /\ new.active = IF row = "binding" /\ kind # "evaluate" THEN active ELSE tx[t].active
  BY <1>1, <1>2 DEF Transaction
<1>4. new \in Transaction
  <2>1. Tail(todo) \in Seq(Profiles \cup {"binding", "active"})
    BY <1>1 DEF Transaction
  <2> QED
    BY <1>1, <1>2, <2>1 DEF TypedLearning, Transaction
<1>5. /\ tx' \in [Tx -> Transaction] /\ tx'[t] = new
      /\ \A u \in Tx \ {t} : tx'[u] = tx[u]
  BY <1>2, <1>4 DEF TypedLearning
<1>6. /\ holder' \in [Profiles \cup {"binding"} -> Tx \cup {None}]
      /\ holder'["binding"] = IF row = "binding" THEN t ELSE holder["binding"]
      /\ row = "binding" => holder["binding"] \in {None, t}
  BY BackOfficeAssumption
     DEF Learning!Lock, Learning!Free, Learning!Rows, TypedLearning
<1>7. TypedLearning' /\ Staged' /\ Outside'
  <2>1. TypedLearning'
    BY <1>1, <1>5, <1>6 DEF TypedLearning
  <2>2. Tail(todo) \in Stages(kind, p)
    BY <1>1, StagesGoOn
  <2> QED
    BY <1>1, <1>3, <1>5, <2>1, <2>2 DEF Staged, Outside, Kinds
<1>8. BindingKept'
  <2>1. ASSUME NEW u \in Tx \ {t}, HasBinding(u)'
        PROVE  holder'["binding"] = u /\ tx'[u].active = active'
    <3>1. HasBinding(u)
      BY <1>5, <2>1 DEF HasBinding
    <3> QED
      BY <1>1, <1>5, <1>6, <3>1, BackOfficeAssumption DEF BindingKept
  <2>2. ASSUME HasBinding(t)'
        PROVE  holder'["binding"] = t /\ tx'[t].active = active'
    <3>1. /\ kind \in {"promote", "rollback"}
          /\ Tail(todo) \in {<<p, "active">>, <<"active">>, <<>>}
      BY <1>3, <1>5, <2>2 DEF HasBinding
    <3>2. CASE todo \in {<<p, "active">>, <<"active">>, <<>>}
      <4>1. holder["binding"] = t /\ tx[t].active = active
        BY <3>1, <3>2 DEF BindingKept, HasBinding
      <4> QED
        BY <1>1, <1>3, <1>5, <1>6, <4>1
    <3>3. CASE Head(todo) = "binding"
      <4>1. row = "binding"
        BY <3>3 DEF Learning!Wanted
      <4> QED
        BY <1>1, <1>3, <1>5, <1>6, <3>1, <4>1
    <3> QED
      BY <1>1, <3>1, <3>2, <3>3, StagesGoOn
  <2> QED
    BY <2>1, <2>2 DEF BindingKept
<1>9. Creating' /\ OneActive'
  BY <1>1, <1>3, <1>5 DEF Creating, OneActive, Learning!OneActive
<1> QED
  BY <1>7, <1>8, <1>9

LEMMA LearningSteps == LearningInv /\ [Learning!Next]_profileVars => LearningInv'
<1> SUFFICES ASSUME LearningInv, [Learning!Next]_profileVars PROVE LearningInv'
  OBVIOUS
<1>1. CASE UNCHANGED profileVars
  <2>1. TypedLearning' /\ Staged' /\ Outside'
    BY <1>1 DEF profileVars, LearningInv, TypedLearning, Staged, Outside
  <2>2. Creating' /\ OneActive'
    BY <1>1 DEF profileVars, LearningInv, Creating, OneActive, Learning!OneActive
  <2>3. BindingKept'
    BY <1>1 DEF profileVars, LearningInv, BindingKept, HasBinding
  <2> QED
    BY <2>1, <2>2, <2>3 DEF LearningInv
<1>2. CASE Learning!Next
  <2>1. PICK t \in Tx :
          \/ Learning!Step(t)
          \/ \E kind \in Kinds, p \in Profiles : Learning!Begin(t, kind, p)
    BY <1>2 DEF Learning!Next, Kinds
  <2>2. CASE Learning!Step(t)
    BY <2>2, LockKeeps, QuietEnds, CreateKeeps, InstallKeeps DEF Learning!Step
  <2>3. CASE \E kind \in Kinds, p \in Profiles : Learning!Begin(t, kind, p)
    BY <2>3, BeginKeeps
  <2> QED
    BY <2>1, <2>2, <2>3
<1> QED
  BY <1>1, <1>2

LEMMA LearningHolds == Spec => []LearningInv
  BY LearningMoves, LearningStart, LearningSteps, PTL DEF Spec

\* The binding names the one profile whose status is active, however many
\* creations, evaluations, promotions and rollbacks overlap, are refused or are
\* aborted by PostgreSQL (apify_learning.py 341-418).
THEOREM OneProfileIsActive == Spec => []OneActive
<1>1. LearningInv => OneActive
  BY DEF LearningInv
<1> QED
  BY <1>1, LearningHolds, PTL

-----------------------------------------------------------------------------
(* ApifyBindings.                                                          *)

RequestRecord ==
  [kind : {"none", "enable", "disable", "update", "delete"},
   at : {"none", "delete", "validate", "create", "commit"},
   account : {"active", "suspended", "deleted"}, enabled : BOOLEAN,
   webhook : Nat, new : Nat]

TypedBindings ==
  /\ account \in {"active", "suspended", "deleted"}
  /\ enabled \in BOOLEAN /\ doubt \in BOOLEAN
  /\ made \in Nat
  /\ webhook \in Nat /\ webhook <= made
  /\ live \in SUBSET Nat /\ \A w \in live : w # 0 /\ w <= made
  /\ request \in [Requests -> RequestRecord]
  /\ \A r \in Requests : request[r].webhook <= made /\ request[r].new <= made

\* What a request is about to write: identifiers are new, so a request that
\* created a webhook writes it; the others write what they read, or NULL.
Sound(q) ==
  /\ q.kind = "none" => q = Bindings!Idle
  /\ q.kind # "none" => q.at # "none"
  /\ q.at = "delete" =>
       q.new = 0 /\ q.kind # "enable" /\ (q.kind = "update" => q.enabled)
  /\ q.at \in {"validate", "create"} => q.kind \in {"enable", "update"}
  /\ q.at = "validate" /\ ~q.enabled => q.new = q.webhook
  /\ q.at = "commit" /\ q.kind = "enable" => q.new # 0 /\ q.new # q.webhook
  /\ q.at = "commit" /\ q.kind = "update" => q.new # 0 \/ q.new = q.webhook
  /\ q.kind = "delete" => q.new = 0

\* Unless there is a doubt, one request at a time knows the row and Apify.
InTune ==
  ~doubt =>
    /\ \A r, s \in Requests : request[r].kind # "none" /\ request[s].kind # "none" => r = s
    /\ (\A r \in Requests : request[r].kind = "none") => live = {webhook} \ {0}
    /\ \A r \in Requests : request[r].kind # "none" =>
         /\ request[r].webhook = webhook
         /\ live = {IF request[r].at = "delete" THEN webhook ELSE request[r].new} \ {0}

BindingInv ==
  /\ TypedBindings
  /\ \A r \in Requests : Sound(request[r])
  /\ enabled => webhook # 0
  /\ InTune

LEMMA IdleTyped ==
  /\ Bindings!Idle \in RequestRecord /\ Sound(Bindings!Idle)
  /\ Bindings!Idle.kind = "none" /\ Bindings!Idle.webhook = 0 /\ Bindings!Idle.new = 0
<1>1. PICK z \in Nat : z = 0
  OBVIOUS
<1> QED
  BY <1>1 DEF Bindings!Idle, RequestRecord, Sound

LEMMA BindingsStart == Bindings!Init => BindingInv
<1> SUFFICES ASSUME Bindings!Init PROVE BindingInv
  OBVIOUS
<1>1. \A r \in Requests : request[r] = Bindings!Idle
  BY DEF Bindings!Init
<1>2. TypedBindings
  <2>1. request \in [Requests -> RequestRecord]
    BY IdleTyped DEF Bindings!Init
  <2>2. /\ made = 0 /\ webhook = 0 /\ live = {} /\ account = "active"
        /\ enabled \in BOOLEAN /\ doubt \in BOOLEAN
    BY DEF Bindings!Init
  <2> QED
    BY <1>1, <2>1, <2>2, IdleTyped DEF TypedBindings
<1>3. InTune
  BY <1>1, IdleTyped DEF Bindings!Init, InTune
<1> QED
  BY <1>1, <1>2, <1>3, IdleTyped DEF Bindings!Init, BindingInv

LEMMA RequestsTyped ==
  ASSUME TypedBindings, NEW r \in Requests, NEW new \in RequestRecord,
         request' = [request EXCEPT ![r] = new], made' \in Nat, made <= made',
         new.webhook <= made', new.new <= made'
  PROVE  /\ request' \in [Requests -> RequestRecord]
         /\ request'[r] = new /\ \A s \in Requests \ {r} : request'[s] = request[s]
         /\ \A s \in Requests : request'[s].webhook <= made' /\ request'[s].new <= made'
<1>1. /\ request' \in [Requests -> RequestRecord]
      /\ request'[r] = new /\ \A s \in Requests \ {r} : request'[s] = request[s]
  BY DEF TypedBindings
<1>2. \A s \in Requests : request[s].webhook \in Nat /\ request[s].new \in Nat
  BY DEF TypedBindings, RequestRecord
<1> QED
  BY <1>1, <1>2 DEF TypedBindings

LEMMA BindingBegins ==
  ASSUME BindingInv, NEW r \in Requests,
         NEW kind \in {"enable", "disable", "update", "delete"}, Bindings!Begin(r, kind)
  PROVE  BindingInv'
<1> USE DEF BindingInv
<1>1. /\ UNCHANGED <<account, enabled, webhook, live, made>>
      /\ made \in Nat /\ made <= made'
      /\ request[r].kind = "none"
      /\ doubt' \in BOOLEAN
      /\ ~doubt' => ~doubt /\ \A s \in Requests : request[s].kind = "none"
  <2>1. /\ UNCHANGED <<account, enabled, webhook, live, made>>
        /\ made \in Nat /\ made <= made'
        /\ request[r].kind = "none"
    BY IdleTyped DEF Bindings!Begin, TypedBindings
  <2>2. doubt' = (doubt \/ Bindings!Pending # {})
    BY DEF Bindings!Begin
  <2>3. doubt' \in BOOLEAN
    BY <2>2
  <2>4. ~doubt' => ~doubt /\ Bindings!Pending = {}
    BY <2>2
  <2> QED
    BY <2>1, <2>3, <2>4 DEF Bindings!Pending
<1>2. PICK n \in Nat : n = IF Bindings!Deletes(kind) THEN 0 ELSE webhook
  BY DEF TypedBindings
<1>3. PICK at \in {"delete", "validate", "commit"} :
        at = IF Bindings!Deletes(kind) THEN "delete"
             ELSE IF kind \in {"enable", "update"} THEN "validate" ELSE "commit"
  OBVIOUS
<1>4. PICK new :
        /\ request' = [request EXCEPT ![r] = new]
        /\ new = [kind |-> kind, at |-> at, account |-> account, enabled |-> enabled,
                  webhook |-> webhook, new |-> n]
  BY <1>2, <1>3 DEF Bindings!Begin, Bindings!After
<1>5. new \in RequestRecord /\ new.webhook <= made' /\ new.new <= made'
  BY <1>1, <1>2, <1>4 DEF TypedBindings, RequestRecord
<1>6. /\ request' \in [Requests -> RequestRecord]
      /\ request'[r] = new /\ \A s \in Requests \ {r} : request'[s] = request[s]
      /\ \A s \in Requests : request'[s].webhook <= made' /\ request'[s].new <= made'
  BY <1>1, <1>4, <1>5, RequestsTyped
<1>7. TypedBindings'
  BY <1>1, <1>6 DEF TypedBindings
<1>8. Sound(new)
  BY <1>2, <1>3, <1>4 DEF Sound, Bindings!Deletes
<1>9. InTune'
  <2> SUFFICES ASSUME ~doubt' PROVE InTune'
    BY DEF InTune
  <2>1. /\ live = {webhook} \ {0}
        /\ \A s \in Requests \ {r} : request'[s].kind = "none"
    BY <1>1, <1>6 DEF InTune
  <2>2. new.kind # "none" /\ new.webhook = webhook /\ new.at = at /\ new.new = n
    BY <1>4
  <2>3. live = {IF at = "delete" THEN webhook ELSE n} \ {0}
    BY <1>2, <1>3, <2>1
  <2> QED
    BY <1>1, <1>6, <2>1, <2>2, <2>3 DEF InTune
<1> QED
  BY <1>1, <1>6, <1>7, <1>8, <1>9

\* A request goes on: it deletes a webhook at Apify, is validated, or creates one.
LEMMA BindingGoesOn ==
  ASSUME BindingInv, NEW r \in Requests,
         Bindings!RemoteDelete(r) \/ Bindings!Validate(r) \/ Bindings!RemoteCreate(r)
  PROVE  BindingInv'
<1> USE DEF BindingInv
<1> DEFINE q == request[r]
<1>0. q \in RequestRecord /\ Sound(q) /\ q.kind # "none"
  <2>1. q \in RequestRecord /\ Sound(q)
    BY DEF TypedBindings
  <2>2. q.at \in {"delete", "validate", "create"}
    BY DEF Bindings!RemoteDelete, Bindings!Validate, Bindings!RemoteCreate
  <2> QED
    BY <2>1, <2>2 DEF Sound, Bindings!Idle
<1>1. ASSUME NEW at \in {"validate", "create", "commit"}, NEW n \in Nat, NEW new,
             new = [q EXCEPT !.at = at, !.new = n],
             request' = [request EXCEPT ![r] = new],
             made' \in Nat, made <= made', n <= made', Sound(new),
             UNCHANGED <<account, enabled, webhook>>,
             live' \in SUBSET Nat, \A w \in live' : w # 0 /\ w <= made',
             doubt' \in BOOLEAN,
             ~doubt' => ~doubt /\ (live = {IF q.at = "delete" THEN webhook ELSE q.new} \ {0}
                                    => live' = {n} \ {0})
      PROVE  BindingInv'
  <2>1. /\ new \in RequestRecord
        /\ new.kind = q.kind /\ new.at = at /\ new.new = n /\ new.webhook = q.webhook
    BY <1>0, <1>1 DEF RequestRecord
  <2>2. q.webhook <= made' /\ webhook <= made' /\ webhook \in Nat /\ made \in Nat
    BY <1>0, <1>1 DEF TypedBindings, RequestRecord
  <2>3. /\ request' \in [Requests -> RequestRecord]
        /\ request'[r] = new /\ \A s \in Requests \ {r} : request'[s] = request[s]
        /\ \A s \in Requests : request'[s].webhook <= made' /\ request'[s].new <= made'
    BY <1>1, <2>1, <2>2, RequestsTyped
  <2>4. TypedBindings'
    BY <1>1, <2>2, <2>3 DEF TypedBindings
  <2>5. InTune'
    <3> SUFFICES ASSUME ~doubt' PROVE InTune'
      BY DEF InTune
    <3>1. /\ \A s \in Requests \ {r} : request'[s].kind = "none"
          /\ q.webhook = webhook /\ live' = {n} \ {0}
      BY <1>0, <1>1, <2>3 DEF InTune
    <3> QED
      BY <1>0, <1>1, <2>1, <2>3, <3>1 DEF InTune
  <2> QED
    BY <1>1, <2>3, <2>4, <2>5
<1>2. CASE Bindings!RemoteDelete(r)
  <2>1. PICK at \in {"validate", "commit"} :
          at = IF q.kind \in {"enable", "update"} THEN "validate" ELSE "commit"
    OBVIOUS
  <2>2. PICK n \in Nat : n = q.new
    BY <1>0 DEF RequestRecord
  <2>3. PICK new : new = [q EXCEPT !.at = at, !.new = n]
    OBVIOUS
  <2>4. request' = [request EXCEPT ![r] = new]
    <3>1. [q EXCEPT !.at = at] = [q EXCEPT !.at = at, !.new = n]
      BY <1>0, <2>2 DEF RequestRecord
    <3> QED
      BY <1>2, <2>1, <2>3, <3>1 DEF Bindings!RemoteDelete, Bindings!After, TypedBindings
  <2>5. /\ new.kind = q.kind /\ new.at = at /\ new.new = n /\ new.webhook = q.webhook
        /\ new.enabled = q.enabled
    BY <1>0, <2>3 DEF RequestRecord
  <2>6. Sound(new)
    BY <1>0, <1>2, <2>1, <2>2, <2>5 DEF Sound, Bindings!RemoteDelete
  <2>7. /\ UNCHANGED <<account, enabled, webhook, made, doubt>>
        /\ live' = live \ {q.webhook} /\ q.at = "delete" /\ n = 0
    BY <1>0, <1>2, <2>2 DEF Bindings!RemoteDelete, Sound
  <2>8. /\ made' \in Nat /\ made <= made' /\ n <= made' /\ doubt' \in BOOLEAN
        /\ live' \in SUBSET Nat /\ \A w \in live' : w # 0 /\ w <= made'
    <3>1. made' \in Nat /\ made <= made' /\ n <= made'
      BY <2>2, <2>7 DEF TypedBindings
    <3>2. live' \in SUBSET Nat /\ \A w \in live' : w # 0 /\ w <= made'
      BY <2>7 DEF TypedBindings
    <3>3. doubt' \in BOOLEAN
      BY <2>7 DEF TypedBindings
    <3> QED
      BY <3>1, <3>2, <3>3
  <2>9. ~doubt' => ~doubt /\ (live = {webhook} \ {0} => live' = {n} \ {0})
    BY <1>0, <2>7 DEF InTune
  <2> QED
    BY <1>1, <2>1, <2>3, <2>4, <2>6, <2>7, <2>8, <2>9
<1>3. CASE Bindings!Validate(r)
  <2>1. PICK at \in {"create", "commit"} :
          at = IF q.kind = "enable" \/ q.enabled THEN "create" ELSE "commit"
    OBVIOUS
  <2>2. PICK n \in Nat : n = q.new
    BY <1>0 DEF RequestRecord
  <2>3. PICK new : new = [q EXCEPT !.at = at, !.new = n]
    OBVIOUS
  <2>4. request' = [request EXCEPT ![r] = new]
    <3>1. [q EXCEPT !.at = at] = [q EXCEPT !.at = at, !.new = n]
      BY <1>0, <2>2 DEF RequestRecord
    <3> QED
      BY <1>3, <2>1, <2>3, <3>1 DEF Bindings!Validate, Bindings!Recreates, TypedBindings
  <2>5. /\ new.kind = q.kind /\ new.at = at /\ new.new = n /\ new.webhook = q.webhook
        /\ new.enabled = q.enabled
    BY <1>0, <2>3 DEF RequestRecord
  <2>6. Sound(new)
    BY <1>0, <1>3, <2>1, <2>2, <2>5 DEF Sound, Bindings!Validate
  <2>7. /\ UNCHANGED <<account, enabled, webhook, live, made, doubt>>
        /\ q.at = "validate"
    BY <1>3 DEF Bindings!Validate
  <2>8. /\ made' \in Nat /\ made <= made' /\ n <= made' /\ doubt' \in BOOLEAN
        /\ live' \in SUBSET Nat /\ \A w \in live' : w # 0 /\ w <= made'
    BY <2>2, <2>7 DEF TypedBindings
  <2> QED
    BY <1>1, <2>1, <2>2, <2>3, <2>4, <2>6, <2>7, <2>8
<1>4. CASE Bindings!RemoteCreate(r)
  <2>1. made' = made + 1 /\ made \in Nat /\ live' = live \cup {made'} /\ q.at = "create"
    BY <1>4 DEF Bindings!RemoteCreate, TypedBindings
  <2>2. PICK n \in Nat : n = made'
    BY <2>1
  <2>3. PICK new : new = [q EXCEPT !.at = "commit", !.new = n]
    OBVIOUS
  <2>4. request' = [request EXCEPT ![r] = new]
    BY <1>4, <2>2, <2>3 DEF Bindings!RemoteCreate, TypedBindings
  <2>5. /\ new.kind = q.kind /\ new.at = "commit" /\ new.new = n /\ new.webhook = q.webhook
        /\ new.enabled = q.enabled
    BY <1>0, <2>3 DEF RequestRecord
  <2>6. Sound(new)
    <3>1. n # 0 /\ n # q.webhook
      BY <1>0, <2>1, <2>2 DEF TypedBindings, RequestRecord
    <3> QED
      BY <1>0, <2>1, <2>5, <3>1 DEF Sound
  <2>7. UNCHANGED <<account, enabled, webhook>> /\ doubt' = (doubt \/ q.new # 0)
    BY <1>4 DEF Bindings!RemoteCreate
  <2>8. doubt' \in BOOLEAN /\ (~doubt' => ~doubt /\ q.new = 0)
    BY <2>7
  <2>9. /\ made' \in Nat /\ made <= made' /\ n <= made'
        /\ live' \in SUBSET Nat /\ \A w \in live' : w # 0 /\ w <= made'
    BY <2>1, <2>2 DEF TypedBindings
  <2>10. live = {IF q.at = "delete" THEN webhook ELSE q.new} \ {0} /\ q.new = 0
         => live' = {n} \ {0}
    BY <2>1, <2>2
  <2> QED
    BY <1>1, <2>3, <2>4, <2>6, <2>7, <2>8, <2>9, <2>10
<1> QED
  BY <1>2, <1>3, <1>4

\* A request ends: it commits, or it fails and nothing but the account changes.
LEMMA BindingEnds ==
  ASSUME BindingInv, NEW r \in Requests, Bindings!Commit(r) \/ Bindings!Fail(r)
  PROVE  BindingInv'
<1> USE DEF BindingInv
<1> DEFINE q == request[r]
<1>0. q \in RequestRecord /\ Sound(q) /\ q.kind # "none"
  <2>1. q \in RequestRecord /\ Sound(q)
    BY DEF TypedBindings
  <2>2. q.at = "commit" \/ q.kind # "none"
    BY DEF Bindings!Commit, Bindings!Fail
  <2> QED
    BY <2>1, <2>2 DEF Sound, Bindings!Idle
<1>1. request' = [request EXCEPT ![r] = Bindings!Idle] /\ UNCHANGED <<live, made>>
  BY DEF Bindings!Commit, Bindings!Fail
<1>2. /\ request' \in [Requests -> RequestRecord]
      /\ request'[r] = Bindings!Idle /\ \A s \in Requests \ {r} : request'[s] = request[s]
      /\ \A s \in Requests : request'[s].webhook <= made' /\ request'[s].new <= made'
  <2>1. made' \in Nat /\ made <= made' /\ 0 <= made'
    BY <1>1 DEF TypedBindings
  <2> QED
    BY <1>1, <2>1, IdleTyped, RequestsTyped
<1>3. \A s \in Requests : Sound(request'[s])
  BY <1>2, IdleTyped
<1>4. ASSUME account' \in {"active", "suspended", "deleted"}, enabled' \in BOOLEAN,
             doubt' \in BOOLEAN, webhook' \in {0, q.new, webhook},
             enabled' => webhook' # 0,
             ~doubt' => ~doubt /\ (/\ q.webhook = webhook
                                   /\ live = {IF q.at = "delete" THEN webhook ELSE q.new} \ {0}
                                   => live = {webhook'} \ {0})
      PROVE  BindingInv'
  <2>1. TypedBindings'
    <3>1. webhook' \in Nat /\ webhook' <= made'
      BY <1>0, <1>1, <1>4 DEF TypedBindings, RequestRecord
    <3> QED
      BY <1>1, <1>2, <1>4, <3>1 DEF TypedBindings
  <2>2. InTune'
    <3> SUFFICES ASSUME ~doubt' PROVE InTune'
      BY DEF InTune
    <3>1. /\ \A s \in Requests : request'[s].kind = "none"
          /\ live' = {webhook'} \ {0}
      BY <1>0, <1>1, <1>2, <1>4, IdleTyped DEF InTune
    <3> QED
      BY <3>1 DEF InTune
  <2> QED
    BY <1>3, <1>4, <2>1, <2>2
<1>5. CASE Bindings!Commit(r)
  <2>1. /\ q.at = "commit" /\ doubt' = doubt
        /\ account' = IF q.kind = "delete" THEN "deleted" ELSE account
        /\ enabled' = IF q.kind = "delete" THEN FALSE
                      ELSE IF q.kind = "enable" THEN TRUE
                      ELSE IF q.kind = "disable" THEN FALSE ELSE enabled
        /\ webhook' = IF q.kind = "delete" THEN 0
                      ELSE IF q.new # q.webhook THEN q.new ELSE webhook
    BY <1>5 DEF Bindings!Commit
  <2>2. account' \in {"active", "suspended", "deleted"} /\ enabled' \in BOOLEAN
    BY <2>1 DEF TypedBindings
  <2>3. q.kind \in {"enable", "disable", "update", "delete"}
    BY <1>0 DEF RequestRecord
  <2>4. enabled' => webhook' # 0
    BY <1>0, <2>1, <2>3 DEF Sound
  <2>5. /\ q.webhook = webhook
        /\ live = {IF q.at = "delete" THEN webhook ELSE q.new} \ {0}
        => live = {webhook'} \ {0}
    BY <1>0, <2>1 DEF Sound
  <2>6. webhook' \in {0, q.new, webhook} /\ doubt' \in BOOLEAN
    BY <2>1 DEF TypedBindings
  <2> QED
    BY <1>4, <2>1, <2>2, <2>4, <2>5, <2>6
<1>6. CASE Bindings!Fail(r)
  <2>1. /\ enabled' = enabled /\ webhook' = webhook
        /\ account' \in {account, "suspended"}
        /\ doubt' = (doubt \/ (q.at # "delete" /\ q.new # q.webhook))
    BY <1>6 DEF Bindings!Fail
  <2>2. account' \in {"active", "suspended", "deleted"} /\ enabled' \in BOOLEAN
    BY <2>1 DEF TypedBindings
  <2>3. doubt' \in BOOLEAN /\ (~doubt' => ~doubt /\ (q.at = "delete" \/ q.new = q.webhook))
    BY <2>1
  <2> QED
    BY <1>4, <2>1, <2>2, <2>3
<1> QED
  BY <1>5, <1>6

LEMMA BindingSteps == BindingInv /\ [Bindings!Next]_bindingVars => BindingInv'
<1> SUFFICES ASSUME BindingInv, [Bindings!Next]_bindingVars PROVE BindingInv'
  OBVIOUS
<1>1. ASSUME UNCHANGED <<webhook, live, made, request, doubt>>,
             account' \in {"active", "suspended", "deleted"}, enabled' \in {enabled, FALSE}
      PROVE  BindingInv'
  <2>1. TypedBindings'
    BY <1>1 DEF BindingInv, TypedBindings
  <2>2. InTune'
    BY <1>1 DEF BindingInv, InTune
  <2>3. \A r \in Requests : Sound(request'[r])
    BY <1>1 DEF BindingInv
  <2>4. enabled' => webhook' # 0
    BY <1>1 DEF BindingInv, TypedBindings
  <2> QED
    BY <2>1, <2>2, <2>3, <2>4 DEF BindingInv
<1>2. CASE UNCHANGED bindingVars
  BY <1>1, <1>2 DEF bindingVars, BindingInv, TypedBindings
<1>3. ASSUME NEW s \in {"active", "suspended"}, Bindings!SetAccount(s)
      PROVE  BindingInv'
  BY <1>1, <1>3 DEF Bindings!SetAccount
<1>4. CASE Bindings!Break
  BY <1>1, <1>4 DEF Bindings!Break, BindingInv, TypedBindings
<1> QED
  BY <1>2, <1>3, <1>4, BindingBegins, BindingGoesOn, BindingEnds DEF Bindings!Next

LEMMA BindingsHold == Spec => []BindingInv
  BY BindingsMoves, BindingsStart, BindingSteps, PTL DEF Spec

\* An enabled binding names a webhook, whatever requests overlap; and unless
\* requests overlapped, one failed half-way or a kept identifier was forgotten,
\* Apify has the webhook the row names and no other (apify_accounts.py 346-507).
THEOREM RowsAndApifyAgree == Spec => []WebhooksAgree
<1>1. BindingInv => WebhooksAgree
  BY DEF BindingInv, InTune, WebhooksAgree, Bindings!WebhooksAgree, Bindings!Pending
<1> QED
  BY <1>1, BindingsHold, PTL

-----------------------------------------------------------------------------
(* The types of every machine.                                             *)

LEMMA PhonesMove ==
  /\ Init /\ ~(machine = "creation") => InitPhones
  /\ [Next]_vars /\ ~(machine = "creation") => [PhonesNext]_phoneVars
BY DEF Init, Next, vars, Phones, Lbc, Creates, Learns, Binds, Browses, Collects, Replies

LEMMA LbcMoves ==
  /\ Init => InitLbc
  /\ [Next]_vars => [LbcNext]_lbcVars
BY DEF Init, Next, vars, Phones, Lbc, Creates, Learns, Binds, Browses, Collects, Replies

LEMMA SamePhones ==
  /\ InitPhones => PhonesT!InitPhones
  /\ PhonesNext => PhonesT!PhonesNext
  /\ PhonesT!TypePhones => TypePhones
<1>1. InitPhones => PhonesT!InitPhones
  BY DEF InitPhones, PhonesT!InitPhones, NoVisit, PhonesT!NoVisit
<1>2. PhonesNext => PhonesT!PhonesNext
  <2>1. Listed = PhonesT!Listed
    BY DEF Listed, PhonesT!Listed, ActiveStatuses, PhonesT!ActiveStatuses
  <2>2. \A S : Cardinality(S) = PhonesT!Cardinality(S)
    BY DEF Cardinality, PhonesT!Cardinality
  <2>3. ASSUME NEW v, ReconcileReads(v) PROVE PhonesT!ReconcileReads(v)
    BY <2>1, <2>2, <2>3 DEF ReconcileReads, PhonesT!ReconcileReads, NoVisit, PhonesT!NoVisit
  <2> QED
    BY <2>3
       DEF Fault, SetActivation, Buy, Accepts, CancelAtProvider, ProviderMoves, TimePasses,
           Reserve, RecordReserved, Leave, Expired, ReconcileExpires, RefreshReads, StatusOf,
           Asks, AskFails, Writes, CancelReads, CancelStatus, CancelCalls, CancelFails,
           VisitDies, VisitStep, VisitBegins, PhonesNext, NoVisit, ActiveStatuses,
           TerminalStatuses, PhonesT!Fault, PhonesT!SetActivation, PhonesT!Buy,
           PhonesT!Accepts, PhonesT!CancelAtProvider, PhonesT!ProviderMoves,
           PhonesT!TimePasses, PhonesT!Reserve, PhonesT!RecordReserved, PhonesT!Leave,
           PhonesT!Expired, PhonesT!ReconcileExpires, PhonesT!RefreshReads,
           PhonesT!StatusOf, PhonesT!Asks, PhonesT!AskFails, PhonesT!Writes,
           PhonesT!CancelReads, PhonesT!CancelStatus, PhonesT!CancelCalls,
           PhonesT!CancelFails, PhonesT!VisitDies, PhonesT!VisitStep, PhonesT!VisitBegins,
           PhonesT!PhonesNext, PhonesT!NoVisit, PhonesT!ActiveStatuses,
           PhonesT!TerminalStatuses
<1>3. PhonesT!TypePhones => TypePhones
  BY DEF TypePhones, PhonesT!TypePhones, ActiveStatuses, TerminalStatuses,
         PhonesT!ActiveStatuses, PhonesT!TerminalStatuses
<1> QED
  BY <1>1, <1>2, <1>3

LEMMA SameLbc ==
  /\ InitLbc => LbcT!InitLbc
  /\ LbcNext => LbcT!LbcNext
  /\ LbcT!TypeLbc => TypeLbc
<1>1. Rows = LbcT!Rows /\ NoMessage = LbcT!NoMessage /\ First = LbcT!First
  BY DEF Rows, LbcT!Rows, Steps, LbcT!Steps, NoMessage, LbcT!NoMessage, First, LbcT!First
<1>2. NoTask = LbcT!NoTask
  BY <1>1 DEF NoTask, LbcT!NoTask
<1>3. \A S : Cardinality(S) = LbcT!Cardinality(S)
  BY DEF Cardinality, LbcT!Cardinality
<1>4. \A S : Min(S) = LbcT!Min(S)
  BY DEF Min, LbcT!Min
<1>5. \A l : Counted(l) = LbcT!Counted(l)
  BY DEF Counted, LbcT!Counted, Steps, LbcT!Steps
<1>6. Eligible = LbcT!Eligible
  BY <1>3, <1>5 DEF Eligible, LbcT!Eligible
<1>7. InitLbc => LbcT!InitLbc
  BY <1>1, <1>2 DEF InitLbc, LbcT!InitLbc
<1>8. \A t : Begin(t) => LbcT!Begin(t)
  BY <1>2, <1>3, <1>4, <1>6
     DEF Begin, LbcT!Begin, More, LbcT!More, SetTask, LbcT!SetTask, Active, LbcT!Active
<1>9. \A a : Cardinality(SentToday(a)) = LbcT!Cardinality(LbcT!SentToday(a))
  BY <1>1, <1>3 DEF SentToday, LbcT!SentToday
<1>10. \A t : ReadUsage(t) => LbcT!ReadUsage(t)
  BY <1>9 DEF ReadUsage, LbcT!ReadUsage, SetTask, LbcT!SetTask
<1>11. \A t : PickStep(t) => LbcT!PickStep(t)
  BY <1>3, <1>5
     DEF PickStep, LbcT!PickStep, SetTask, LbcT!SetTask, TaskAt, LbcT!TaskAt
<1>12. \A t : TaskStep(t) => LbcT!TaskStep(t)
  BY <1>2, <1>8, <1>10, <1>11
     DEF TaskStep, NoAccount, TakeListing, LeaveLoop, PauseForQuota, QueueMessage, Send, Mark,
         EndReads, EndWrites, SetTask, TaskAt, SetBoth, MayContinue, Free, KeyIsFree, Stray,
         Deliver, Used, FinalStatus,
         LbcT!TaskStep, LbcT!NoAccount, LbcT!TakeListing, LbcT!LeaveLoop,
         LbcT!PauseForQuota, LbcT!QueueMessage, LbcT!Send, LbcT!Mark, LbcT!EndReads,
         LbcT!EndWrites, LbcT!SetTask, LbcT!TaskAt, LbcT!SetBoth, LbcT!MayContinue,
         LbcT!Free, LbcT!KeyIsFree, LbcT!Stray, LbcT!Deliver, LbcT!Used, LbcT!FinalStatus
<1>13. \A t : /\ SendFails(t) => LbcT!SendFails(t)
              /\ TaskFails(t) => LbcT!TaskFails(t)
              /\ TaskDies(t) => LbcT!TaskDies(t)
  BY <1>2
     DEF SendFails, TaskFails, TaskDies, LbcFault, Trouble, SetTask, SetBoth, Deliver, Stray,
         Active, LbcT!SendFails, LbcT!TaskFails, LbcT!TaskDies, LbcT!LbcFault,
         LbcT!Trouble, LbcT!SetTask, LbcT!SetBoth, LbcT!Deliver, LbcT!Stray, LbcT!Active
<1>14. Resume => LbcT!Resume
  <2>1. FreeSlots = LbcT!FreeSlots
    BY <1>2 DEF FreeSlots, LbcT!FreeSlots
  <2> QED
    BY <2>1
       DEF Resume, Command, Trouble, TaskAt, Active, LbcT!Resume, LbcT!Command,
           LbcT!Trouble, LbcT!TaskAt, LbcT!Active
<1>15. /\ Pause => LbcT!Pause
       /\ Cancel => LbcT!Cancel
       /\ DayPasses => LbcT!DayPasses
       /\ AccountsMove => LbcT!AccountsMove
  BY <1>1
     DEF Pause, Cancel, DayPasses, AccountsMove, MoveAccount, PatchAccount, RemoveAccount,
         WarmUpReads, WarmUpDecides, Command, Trouble, SetBoth, campaignVars, Transitions,
         AccountStatuses, LbcT!Pause, LbcT!Cancel, LbcT!DayPasses, LbcT!AccountsMove,
         LbcT!MoveAccount, LbcT!PatchAccount, LbcT!RemoveAccount, LbcT!WarmUpReads,
         LbcT!WarmUpDecides, LbcT!Command, LbcT!Trouble, LbcT!SetBoth,
         LbcT!campaignVars, LbcT!Transitions, LbcT!AccountStatuses
<1>16. LbcNext => LbcT!LbcNext
  BY <1>12, <1>13, <1>14, <1>15 DEF LbcNext, LbcT!LbcNext
<1>17. LbcT!TypeLbc => TypeLbc
  BY <1>1 DEF TypeLbc, LbcT!TypeLbc, AccountStatuses, LbcT!AccountStatuses
<1> QED
  BY <1>7, <1>16, <1>17

\* The numbers of the requests, for the machines that buy none of their own.
LEMMA PhonesTyped == Spec => [](~(machine = "creation") => TypePhones)
<1>1. PhonesT!InitPhones /\ [][PhonesT!PhonesNext]_PhonesT!phoneVars => []PhonesT!TypePhones
  <2>1. PhonesT!PhonesAssumption
    BY PhonesAssumption DEF IsFiniteSet, PhonesT!IsFiniteSet
  <2> QED
    BY <2>1, PhonesT!PhonesTypes
<1>2. [PhonesT!PhonesNext]_phoneVars => [PhonesT!PhonesNext]_PhonesT!phoneVars
  BY DEF phoneVars, PhonesT!phoneVars
<1>3. ~(machine = "creation") /\ [Next]_vars =>
        [PhonesT!PhonesNext]_PhonesT!phoneVars /\ ~(machine = "creation")'
  BY <1>2, PhonesMove, SamePhones, CreationMoves
<1>4. Init /\ ~(machine = "creation") => PhonesT!InitPhones
  BY PhonesMove, SamePhones
<1>5. machine = "creation" /\ [Next]_vars => (machine = "creation")'
  BY CreationMoves
<1> QED
  BY <1>1, <1>3, <1>4, <1>5, SamePhones, PTL DEF Spec

\* Those of the task that creates an account.
LEMMA CreationTyped == Spec => [](machine = "creation" => Creation!TypeOK)
<1>1. CreationT!Init /\ [][CreationT!Next]_CreationT!vars => []CreationT!TypeOK
  <2>1. CreationT!PhonesAssumption
    BY PhonesAssumption DEF IsFiniteSet, CreationT!IsFiniteSet
  <2>2. MaxAttempts \in Nat \ {0}
    BY BackOfficeAssumption
  <2> QED
    BY <2>1, <2>2, CreationT!CreationTypes
<1>2. [CreationT!Next]_<<phoneVars, creationOwn>> => [CreationT!Next]_CreationT!vars
  BY DEF phoneVars, creationOwn, CreationT!vars, CreationT!phoneVars, CreationT!creationVars
<1>3. machine = "creation" /\ [Next]_vars =>
        [CreationT!Next]_CreationT!vars /\ (machine = "creation")'
  BY <1>2, CreationMoves, SameCreation
<1>4. Init /\ machine = "creation" => CreationT!Init
  BY CreationMoves, SameCreation
<1>5. CreationT!TypeOK => Creation!TypeOK
  BY DEF CreationT!TypeOK, Creation!TypeOK, CreationT!TypePhones, Creation!TypePhones,
         CreationT!Attempts, Creation!Attempts, CreationT!ActiveStatuses,
         Creation!ActiveStatuses, CreationT!TerminalStatuses, Creation!TerminalStatuses
<1>6. ~(machine = "creation") /\ [Next]_vars => ~(machine = "creation")'
  BY CreationMoves
<1> QED
  BY <1>1, <1>3, <1>4, <1>5, <1>6, PTL DEF Spec

LEMMA LbcIsAssumed == LbcT!LbcAssumption
  BY LbcAssumption DEF IsFiniteSet, LbcT!IsFiniteSet

LEMMA LbcTyped == Spec => []TypeLbc
<1>1. LbcT!InitLbc /\ [][LbcT!LbcNext]_LbcT!lbcVars => []LbcT!TypeLbc
  BY LbcIsAssumed, LbcT!LbcTypes
<1>2. [LbcT!LbcNext]_lbcVars => [LbcT!LbcNext]_LbcT!lbcVars
  BY DEF lbcVars, LbcT!lbcVars
<1>3. [Next]_vars => [LbcT!LbcNext]_LbcT!lbcVars
  BY <1>2, LbcMoves, SameLbc
<1> QED
  BY <1>1, <1>3, LbcMoves, SameLbc, PTL DEF Spec

LEMMA SectorTyped == Spec => []Sector!TypeOK
<1>1. SectorT!Init /\ [][SectorT!Next]_SectorT!vars => []SectorT!TypeOK
  BY SectorIsAssumed, SectorT!Types
<1>2. [SectorT!Next]_sectorVars => [SectorT!Next]_SectorT!vars
  BY DEF sectorVars, SectorT!vars
<1>3. SectorT!TypeOK => Sector!TypeOK
  BY DEF SectorT!TypeOK, Sector!TypeOK, SectorT!Resources, Sector!Resources, SectorT!Kinds,
         Sector!Kinds
<1> QED
  BY <1>1, <1>2, <1>3, SectorMoves, SameSector, PTL DEF Spec

LEMMA InboxTyped == Spec => []Inbox!TypeOK
<1>1. InboxT!Init /\ [][InboxT!Next]_InboxT!vars => []InboxT!TypeOK
  <2>1. "manual" \in {"manual", "scheduled"} /\ 1 \in Nat /\ 3 \in Nat
    OBVIOUS
  <2> QED
    BY <2>1, InboxT!InboxTypes
<1>2. [InboxT!Next]_inboxVars => [InboxT!Next]_InboxT!vars
  BY DEF inboxVars, InboxT!vars
<1>3. InboxT!TypeOK => Inbox!TypeOK
  BY DEF InboxT!TypeOK, Inbox!TypeOK
<1> QED
  BY <1>1, <1>2, <1>3, InboxMoves, SameInbox, PTL DEF Spec

\* The types of the eight machines, for any constants within the assumptions:
\* among them, that a row of phone_activations is of a number that was bought
\* and that what Leboncoin delivered has its row.
THEOREM Types == Spec => []TypeOK
<1>1. LearningInv => Learning!TypeOK
  <2>1. \A S : Learning!Cardinality(S) = Cardinality(S)
    BY DEF Learning!Cardinality, Cardinality
  <2> QED
    BY <2>1
       DEF LearningInv, TypedLearning, Transaction, Experiment, ProfileRow, Optional, Statuses,
           Kinds, Learning!TypeOK, Learning!Rows
<1>2. BindingInv => Bindings!TypeOK
  BY DEF BindingInv, TypedBindings, Bindings!TypeOK
<1>3. BrowserInv => Browser!TypeOK
  BY DEF BrowserInv, TypedBrowser, KnownTasks, Browser!TypeOK
<1>4. /\ ~(machine = "creation") => TypePhones
      /\ machine = "creation" => Creation!TypeOK
      /\ TypeLbc /\ Learning!TypeOK /\ Bindings!TypeOK /\ Browser!TypeOK
      /\ Sector!TypeOK /\ Inbox!TypeOK
      => TypeOK
  BY DEF TypeOK
<1> QED
  BY <1>1, <1>2, <1>3, <1>4, PhonesTyped, CreationTyped, LbcTyped, SectorTyped, InboxTyped,
     LearningHolds, BindingsHold, BrowserHolds, PTL

-----------------------------------------------------------------------------
(* What LbcMessagingProofs and AccountCreationProofs show, of this Spec.    *)

\* A seller receives each step once, a pause lets each task send one message,
\* a completed campaign left no listing out and no account goes over its quota
\* but for faults (send_lbc_message_batch): the same in the back office.
THEOREM CampaignsHold ==
  Spec => [](StepsAreSentOnce /\ StopsAfterOneMessage /\ CompletedIsTreated /\ QuotasHold)
<1>1. /\ LbcT!InitLbc /\ [][LbcT!LbcNext]_LbcT!lbcVars => []LbcT!StepsAreSentOnce
      /\ LbcT!InitLbc /\ [][LbcT!LbcNext]_LbcT!lbcVars => []LbcT!StopsAfterOneMessage
      /\ LbcT!InitLbc /\ [][LbcT!LbcNext]_LbcT!lbcVars => []LbcT!CompletedIsTreated
      /\ LbcT!InitLbc /\ [][LbcT!LbcNext]_LbcT!lbcVars => []LbcT!QuotasHold
  BY LbcIsAssumed, LbcT!SendsOnce, LbcT!PausesTakeHold, LbcT!CompletionIsHonest,
     LbcT!QuotasAreKept
<1>2. [LbcT!LbcNext]_lbcVars => [LbcT!LbcNext]_LbcT!lbcVars
  BY DEF lbcVars, LbcT!lbcVars
<1>3. [Next]_vars => [LbcT!LbcNext]_LbcT!lbcVars
  BY <1>2, LbcMoves, SameLbc
<1>4. LbcT!StepsAreSentOnce => StepsAreSentOnce
  BY DEF StepsAreSentOnce, LbcT!StepsAreSentOnce, Rows, LbcT!Rows, Steps, LbcT!Steps
<1>5. LbcT!StopsAfterOneMessage => StopsAfterOneMessage
  BY DEF StopsAfterOneMessage, LbcT!StopsAfterOneMessage
<1>6. LbcT!CompletedIsTreated => CompletedIsTreated
  BY DEF CompletedIsTreated, LbcT!CompletedIsTreated, Untouched, LbcT!Untouched, Steps,
         LbcT!Steps, Active, LbcT!Active
<1>7. LbcT!QuotasHold => QuotasHold
  BY DEF QuotasHold, LbcT!QuotasHold, Rows, LbcT!Rows, Steps, LbcT!Steps, Cardinality,
         LbcT!Cardinality
<1> QED
  BY <1>1, <1>3, <1>4, <1>5, <1>6, <1>7, LbcMoves, SameLbc, PTL DEF Spec

\* A row of phone_activations that says CANCELLED is right, of the requests as
\* of the task that creates an account.
THEOREM CancellationsAreTrue == Spec => []CancelledIsCancelled
<1>1. PhonesT!InitPhones /\ [][PhonesT!PhonesNext]_PhonesT!phoneVars
        => []PhonesT!CancelledIsCancelled
  <2>1. PhonesT!PhonesAssumption
    BY PhonesAssumption DEF IsFiniteSet, PhonesT!IsFiniteSet
  <2> QED
    BY <2>1, PhonesT!PhonesTell
<1>2. CreationT!Init /\ [][CreationT!Next]_CreationT!vars => []CreationT!CancelledIsCancelled
  <2>1. CreationT!PhonesAssumption
    BY PhonesAssumption DEF IsFiniteSet, CreationT!IsFiniteSet
  <2> QED
    BY <2>1, CreationT!CreationTells
<1>3. /\ [PhonesT!PhonesNext]_phoneVars => [PhonesT!PhonesNext]_PhonesT!phoneVars
      /\ [CreationT!Next]_<<phoneVars, creationOwn>> => [CreationT!Next]_CreationT!vars
  BY DEF phoneVars, creationOwn, PhonesT!phoneVars, CreationT!vars, CreationT!phoneVars,
         CreationT!creationVars
<1>4. /\ machine = "creation" /\ [Next]_vars =>
           [CreationT!Next]_CreationT!vars /\ (machine = "creation")'
      /\ ~(machine = "creation") /\ [Next]_vars =>
           [PhonesT!PhonesNext]_PhonesT!phoneVars /\ ~(machine = "creation")'
  BY <1>3, CreationMoves, SameCreation, PhonesMove, SamePhones
<1>5. /\ Init /\ machine = "creation" => CreationT!Init
      /\ Init /\ ~(machine = "creation") => PhonesT!InitPhones
  BY CreationMoves, SameCreation, PhonesMove, SamePhones
<1>6. /\ PhonesT!CancelledIsCancelled => CancelledIsCancelled
      /\ CreationT!CancelledIsCancelled => CancelledIsCancelled
  BY DEF CancelledIsCancelled, PhonesT!CancelledIsCancelled, CreationT!CancelledIsCancelled
<1> QED
  BY <1>1, <1>2, <1>4, <1>5, <1>6, PTL DEF Spec
=============================================================================
