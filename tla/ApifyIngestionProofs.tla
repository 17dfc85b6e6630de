------------------------ MODULE ApifyIngestionProofs ------------------------
(***************************************************************************)
(* Theorems about ApifyIngestion, for every number of runs, items, workers *)
(* and faults.                                                             *)
(***************************************************************************)
EXTENDS ApifyIngestion, FiniteSetTheorems, SequenceTheorems, TLAPS

USE RunsAssumption, DatasetAssumption, BoundsAssumption

\* An import has a run, and a full dataset behind it once it ended.
WorkersOwn ==
  \A w \in Workers :
    /\ worker[w].pc = "idle" <=> worker[w].run = NoRun
    /\ worker[w].pc = "breaker" => worker[w].read = Size

\* The items an import has passed are on record.
Passed ==
  \A w \in Workers : worker[w].run # NoRun =>
    \A k \in 1 .. worker[w].read : item[worker[w].run][k] \in Settled

\* An import counts what the rows of the items it passed say.
CountsPassed ==
  \A w \in Workers : worker[w].run # NoRun =>
    /\ worker[w].actionable = Count(item[worker[w].run], worker[w].read, "IMPORTED")
    /\ worker[w].exceptions = Count(item[worker[w].run], worker[w].read, "EXCEPTION")

\* The row of a run holds the counts of a complete import.
Full(r) ==
  /\ row[r].read = Size
  /\ row[r].actionable = Count(item[r], Size, "IMPORTED")
  /\ row[r].exceptions = Count(item[r], Size, "EXCEPTION")

\* An imported run without its counts has an import that will write them.
Overwritten ==
  \A r \in Runs : row[r].imported /\ r \notin died =>
    \/ Full(r)
    \/ \E w \in Workers : worker[w].run = r /\ worker[w].pc \in {"items", "save"}

Typing == TypeOK /\ WorkersOwn
Settling == Passed /\ ImportedIsComplete
Counting == CountsPassed /\ Overwritten

-----------------------------------------------------------------------------
(* Type correctness.                                                       *)

\* Writing a status or the progress of an import keeps the rows.
LEMMA StatusTyped ==
  ASSUME NEW old \in Row, NEW status \in Statuses
  PROVE  [old EXCEPT !.status = status] \in Row
  BY DEF Row

LEMMA SyncedTyped ==
  ASSUME row \in [Runs -> Row], NEW r \in Runs, NEW status \in Statuses
  PROVE  Synced(r, status) \in [Runs -> Row]
<1> DEFINE new == [row[r] EXCEPT !.status = status]
<1>1. new \in Row
  BY StatusTyped
<1>2. Synced(r, status) = [row EXCEPT ![r] = new]
  BY DEF Synced
<1> QED
  BY <1>1, <1>2

LEMMA SavedRowTyped ==
  ASSUME NEW old \in Row, NEW c \in Worker, NEW finished \in BOOLEAN
  PROVE  /\ SavedRow(old, c, finished) \in Row
         /\ SavedRow(old, c, finished).status = old.status
         /\ SavedRow(old, c, finished).read = c.read
         /\ SavedRow(old, c, finished).actionable = c.actionable
         /\ SavedRow(old, c, finished).exceptions = c.exceptions
         /\ SavedRow(old, c, finished).imported = (old.imported \/ finished)
  BY DEF SavedRow, Row, Worker

LEMMA SavedTyped ==
  ASSUME row \in [Runs -> Row], NEW c \in Worker, c.run \in Runs, NEW finished \in BOOLEAN
  PROVE  Saved(c, finished) \in [Runs -> Row]
  BY SavedRowTyped DEF Saved

LEMMA CountedTyped ==
  ASSUME NEW c \in Worker, c.read < Size, NEW status \in Settled
  PROVE  /\ Counted(c, status) \in Worker
         /\ Counted(c, status).pc \in {"items", "save"}
  BY DEF Counted, Worker

LEMMA IdleTyped == Idle \in Worker /\ Idle.pc = "idle" /\ Idle.run = NoRun
  BY DEF Idle, Worker

-----------------------------------------------------------------------------
LEMMA InitTyping == Init => Typing
  BY IdleTyped DEF Init, Typing, TypeOK, WorkersOwn, Row, NewRow, Statuses

LEMMA RunTyping ==
  ASSUME Typing, NEW r \in Runs, RunStep(r)
  PROVE  Typing'
<1> USE DEF Typing, TypeOK
<1>1. CASE Launch(r)
  BY <1>1 DEF Launch, WorkersOwn
<1>2. CASE Start(r)
  <2>1. started' \in Seq(Runs)
    BY <1>2, AppendProperties DEF Start
  <2>2. faults' \in 0 .. MaxFaults
    BY <1>2 DEF Start, Fault
  <2>3. launch' \in [Runs -> {"no", "asked", "answered", "over"}]
    BY <1>2 DEF Start
  <2> QED
    BY <1>2, <2>1, <2>2, <2>3 DEF Start, Statuses, WorkersOwn
<1>3. CASE LaunchSyncs(r)
  BY <1>3, SyncedTyped DEF LaunchSyncs, Statuses, WorkersOwn
<1>4. CASE End(r)
  BY <1>4 DEF End, Ended, Statuses, WorkersOwn
<1>5. CASE WebhookStored(r)
  BY <1>5, SyncedTyped DEF WebhookStored, WorkersOwn
<1>6. CASE WebhookQueues(r)
  BY <1>6 DEF WebhookQueues, WorkersOwn
<1>7. CASE WebhookLost(r)
  BY <1>7 DEF WebhookLost, Fault, WorkersOwn
<1>8. CASE Replay(r)
  BY <1>8 DEF Replay, WorkersOwn
<1> QED
  BY <1>1, <1>2, <1>3, <1>4, <1>5, <1>6, <1>7, <1>8 DEF RunStep

LEMMA ListTyping ==
  ASSUME Typing, ReconcileLists
  PROVE  Typing'
<1> DEFINE n == Len(started)
           listed == IF n < ListLimit THEN n ELSE ListLimit
<1>1. n \in Nat /\ listed \in Nat /\ listed <= n
  BY DEF Typing, TypeOK
<1>2. ASSUME NEW i \in 1 .. listed
      PROVE  started[n + 1 - i] \in Runs /\ remote[started[n + 1 - i]] \in Statuses
  <2>1. n + 1 - i \in 1 .. n
    BY <1>1
  <2> QED
    BY <2>1 DEF Typing, TypeOK
<1>3. reconcile' \in [1 .. listed -> [run : Runs, status : Statuses]]
  BY <1>2 DEF ReconcileLists
<1>4. reconcile' \in Seq([run : Runs, status : Statuses])
  <2> DEFINE R == [run : Runs, status : Statuses]
  <2>1. reconcile' \in [1 .. listed -> R] /\ listed \in Nat
    BY <1>1, <1>3
  <2> HIDE DEF R, listed
  <2>2. reconcile' \in Seq(R)
    BY <2>1, SeqDef
  <2> QED
    BY <2>2 DEF R
<1> QED
  BY <1>4 DEF ReconcileLists, Typing, TypeOK, WorkersOwn

\* A reconciliation has runs and statuses on its list.
LEMMA HeadTyped ==
  ASSUME reconcile \in Seq([run : Runs, status : Statuses]), reconcile # <<>>
  PROVE  /\ Head(reconcile).run \in Runs
         /\ Head(reconcile).status \in Statuses
         /\ Tail(reconcile) \in Seq([run : Runs, status : Statuses])
<1> DEFINE R == [run : Runs, status : Statuses]
<1>1. reconcile \in Seq(R)
  OBVIOUS
<1> HIDE DEF R
<1>2. Head(reconcile) \in R /\ Tail(reconcile) \in Seq(R)
  BY <1>1, HeadTailProperties
<1> QED
  BY <1>2 DEF R

LEMMA ReconcileTyping ==
  ASSUME Typing, ReconcileSyncs \/ ReconcileDies
  PROVE  Typing'
<1> USE DEF Typing, TypeOK
<1>1. reconcile # <<>>
  BY DEF ReconcileSyncs, ReconcileDies
<1>2. Head(reconcile).run \in Runs /\ Head(reconcile).status \in Statuses
  BY <1>1, HeadTyped
<1>3. Synced(Head(reconcile).run, Head(reconcile).status) \in [Runs -> Row]
  BY <1>2, SyncedTyped
<1>4. Tail(reconcile) \in Seq([run : Runs, status : Statuses])
  BY <1>1
<1>5. CASE ReconcileSyncs
  BY <1>2, <1>3, <1>4, <1>5 DEF ReconcileSyncs, WorkersOwn
<1>6. CASE ReconcileDies
  BY <1>3, <1>6 DEF ReconcileDies, Fault, WorkersOwn
<1> QED
  BY <1>5, <1>6

\* A worker that takes another record of its type keeps the others.
LEMMA WorkerMoves ==
  ASSUME Typing, NEW w \in Workers, NEW new \in Worker,
         new.pc = "idle" <=> new.run = NoRun,
         new.pc = "breaker" => new.read = Size,
         worker' = [worker EXCEPT ![w] = new]
  PROVE  worker' \in [Workers -> Worker] /\ WorkersOwn'
  BY DEF Typing, TypeOK, WorkersOwn

LEMMA BeginTyping ==
  ASSUME Typing, NEW w \in Workers, NEW r \in Runs, ImportBegins(w, r)
  PROVE  Typing'
<1>1. Begun(r) \in Worker /\ Begun(r).pc = "items" /\ Begun(r).run = r
  BY DEF Begun, Worker
<1>2. worker' \in [Workers -> Worker] /\ WorkersOwn'
  <2>1. CASE worker' = [worker EXCEPT ![w] = Begun(r)]
    BY <1>1, <2>1, WorkerMoves
  <2>2. CASE worker' = worker
    BY <2>2 DEF Typing, TypeOK, WorkersOwn
  <2> QED
    BY <2>1, <2>2 DEF ImportBegins
<1> QED
  BY <1>2 DEF ImportBegins, Typing, TypeOK

\* A worker that is not idle has a run.
LEMMA Busy ==
  ASSUME Typing, NEW w \in Workers, worker[w].pc # "idle"
  PROVE  worker[w] \in Worker /\ worker[w].run \in Runs
  BY DEF Typing, TypeOK, WorkersOwn, Worker

\* The status of an item after an import passed it.
LEMMA StatusSettles ==
  ASSUME TypeOK, NEW r \in Runs, NEW k \in 1 .. Size, NEW status \in ItemStatus(r, k)
  PROVE  /\ status \in Settled
         /\ item[r][k] \in Settled => status = item[r][k]
  BY DEF TypeOK, ItemStatus, Outcomes, Settled, Kinds

\* Writing one item keeps the others.
LEMMA ItemWritten ==
  ASSUME TypeOK, NEW r \in Runs, NEW k \in 1 .. Size, NEW status \in Settled,
         item' = [item EXCEPT ![r][k] = status]
  PROVE  /\ item' \in [Runs -> [1 .. Size -> Settled \cup {"none"}]]
         /\ item'[r][k] = status
         /\ \A q \in Runs, j \in 1 .. Size : q # r \/ j # k => item'[q][j] = item[q][j]
  BY DEF TypeOK

LEMMA ItemTyping ==
  ASSUME Typing, NEW w \in Workers, ImportItem(w)
  PROVE  Typing'
<1>1. worker[w] \in Worker /\ worker[w].run \in Runs
  BY Busy DEF ImportItem
<1>2. worker[w].read + 1 \in 1 .. Size /\ worker[w].read < Size
  BY <1>1 DEF ImportItem, Worker
<1>3. PICK status \in ItemStatus(worker[w].run, worker[w].read + 1) :
        /\ item' = [item EXCEPT ![worker[w].run][worker[w].read + 1] = status]
        /\ worker' = [worker EXCEPT ![w] = Counted(worker[w], status)]
  BY DEF ImportItem
<1>4. status \in Settled
  BY <1>1, <1>2, StatusSettles DEF Typing
<1>5. item' \in [Runs -> [1 .. Size -> Settled \cup {"none"}]]
  BY <1>1, <1>2, <1>3, <1>4, ItemWritten DEF Typing
<1>6. Counted(worker[w], status).run = worker[w].run
  BY DEF Counted
<1>7. worker' \in [Workers -> Worker] /\ WorkersOwn'
  BY <1>1, <1>2, <1>3, <1>4, <1>6, CountedTyped, WorkerMoves
<1> QED
  BY <1>5, <1>7 DEF ImportItem, Typing, TypeOK


LEMMA SaveTyping ==
  ASSUME Typing, NEW w \in Workers, SavePage(w) \/ ImportEnds(w)
  PROVE  Typing'
<1>1. worker[w] \in Worker /\ worker[w].run \in Runs
  BY Busy DEF SavePage, ImportEnds
<1>2. row' \in [Runs -> Row]
  <2>1. row \in [Runs -> Row]
    BY DEF Typing, TypeOK
  <2>2. /\ Saved(worker[w], TRUE) \in [Runs -> Row]
        /\ Saved(worker[w], FALSE) \in [Runs -> Row]
    BY <1>1, <2>1, SavedTyped
  <2> QED
    BY <2>2 DEF SavePage, ImportEnds
<1>3. worker' \in [Workers -> Worker] /\ WorkersOwn'
  <2>1. CASE SavePage(w)
    <3> DEFINE new == [worker[w] EXCEPT !.pc = "items"]
    <3>1. new \in Worker /\ new.pc = "items" /\ new.run = worker[w].run
      BY <1>1 DEF Worker
    <3> QED
      BY <1>1, <2>1, <3>1, WorkerMoves DEF SavePage
  <2>2. CASE ImportEnds(w)
    <3> DEFINE new == [worker[w] EXCEPT !.pc = "breaker"]
    <3>1. new \in Worker /\ new.pc = "breaker" /\ new.run = worker[w].run
          /\ new.read = worker[w].read
      BY <1>1 DEF Worker
    <3>2. new.read = Size
      BY <2>2, <3>1 DEF ImportEnds
    <3> QED
      BY <1>1, <2>2, <3>1, <3>2, WorkerMoves DEF ImportEnds
  <2> QED
    BY <2>1, <2>2
<1> QED
  BY <1>2, <1>3 DEF SavePage, ImportEnds, Typing, TypeOK

LEMMA LeaveTyping ==
  ASSUME Typing, NEW w \in Workers, Breaker(w) \/ ImportDies(w)
  PROVE  Typing'
<1>1. worker[w] \in Worker /\ worker[w].run \in Runs
  BY Busy DEF Breaker, ImportDies
<1>2. worker' \in [Workers -> Worker] /\ WorkersOwn'
  BY IdleTyped, WorkerMoves DEF Breaker, ImportDies
<1>3. CASE Breaker(w)
  BY <1>1, <1>2, <1>3 DEF Breaker, Typing, TypeOK
<1>4. CASE ImportDies(w)
  BY <1>1, <1>2, <1>4 DEF ImportDies, Fault, Typing, TypeOK
<1> QED
  BY <1>3, <1>4

LEMMA NextTyping == Typing /\ [Next]_vars => Typing'
<1> SUFFICES ASSUME Typing, [Next]_vars PROVE Typing'
  OBVIOUS
<1>1. CASE UNCHANGED vars
  BY <1>1 DEF vars, Typing, TypeOK, WorkersOwn
<1>2. ASSUME NEW w \in Workers, ImportStep(w) PROVE Typing'
  BY <1>2, ItemTyping, SaveTyping, LeaveTyping DEF ImportStep
<1> QED
  BY <1>1, <1>2, RunTyping, ListTyping, ReconcileTyping, BeginTyping, LeaveTyping DEF Next

\* Every variable has its type (the tables, the workers, the broker).
THEOREM Types == Spec => []TypeOK
<1>1. Spec => []Typing
  BY InitTyping, NextTyping, PTL DEF Spec
<1>2. Typing => TypeOK
  BY DEF Typing
<1> QED
  BY <1>1, <1>2, PTL

-----------------------------------------------------------------------------
(* Counting items.                                                         *)

LEMMA CountSame ==
  \A f, g, status : \A n \in Nat :
    (\A k \in 1 .. n : f[k] = g[k]) => Count(f, n, status) = Count(g, n, status)
<1> SUFFICES ASSUME NEW f, NEW g, NEW status, NEW n \in Nat, \A k \in 1 .. n : f[k] = g[k]
             PROVE  Count(f, n, status) = Count(g, n, status)
  OBVIOUS
<1>1. {k \in 1 .. n : f[k] = status} = {k \in 1 .. n : g[k] = status}
  OBVIOUS
<1> QED
  BY <1>1 DEF Count

LEMMA CountNone ==
  ASSUME NEW f, NEW status
  PROVE  Count(f, 0, status) = 0
<1>1. {k \in 1 .. 0 : f[k] = status} = {}
  OBVIOUS
<1> QED
  BY <1>1, FS_EmptySet DEF Count

LEMMA CountNext ==
  ASSUME NEW f, NEW n \in Nat, NEW status
  PROVE  /\ Count(f, n, status) \in Nat
         /\ Count(f, n + 1, status) =
              IF f[n + 1] = status THEN Count(f, n, status) + 1 ELSE Count(f, n, status)
<1> DEFINE K == {k \in 1 .. n : f[k] = status}
           L == {k \in 1 .. n + 1 : f[k] = status}
<1>1. IsFiniteSet(K)
  <2>1. IsFiniteSet(1 .. n)
    BY FS_Interval
  <2>2. K \in SUBSET (1 .. n)
    OBVIOUS
  <2> QED
    BY <2>1, <2>2, FS_Subset
<1>2. CASE f[n + 1] = status
  <2>1. L = K \cup {n + 1} /\ n + 1 \notin K
    BY <1>2
  <2> QED
    BY <1>1, <1>2, <2>1, FS_AddElement, FS_CardinalityType DEF Count
<1>3. CASE f[n + 1] # status
  <2>1. L = K
    BY <1>3
  <2> QED
    BY <1>1, <1>3, <2>1, FS_CardinalityType DEF Count
<1> QED
  BY <1>2, <1>3

-----------------------------------------------------------------------------
(* Items settle once.                                                      *)

ItemsKept ==
  \A r \in Runs, k \in 1 .. Size : item[r][k] \in Settled => item'[r][k] = item[r][k]

LEMMA ItemStepKeeps ==
  ASSUME Typing, NEW w \in Workers, ImportItem(w)
  PROVE  /\ ItemsKept
         /\ worker[w].run \in Runs /\ worker[w].read + 1 \in 1 .. Size
         /\ worker[w].read \in Nat
         /\ \A q \in Runs, k \in 1 .. Size :
              q # worker[w].run \/ k # worker[w].read + 1 => item'[q][k] = item[q][k]
         /\ \E status \in Settled :
              /\ item'[worker[w].run][worker[w].read + 1] = status
              /\ worker' = [worker EXCEPT ![w] = Counted(worker[w], status)]
<1>1. worker[w] \in Worker /\ worker[w].run \in Runs
  BY Busy DEF ImportItem
<1>2. worker[w].read + 1 \in 1 .. Size /\ worker[w].read \in Nat
  BY <1>1 DEF ImportItem, Worker
<1>3. PICK status \in ItemStatus(worker[w].run, worker[w].read + 1) :
        /\ item' = [item EXCEPT ![worker[w].run][worker[w].read + 1] = status]
        /\ worker' = [worker EXCEPT ![w] = Counted(worker[w], status)]
  BY DEF ImportItem
<1>4. /\ status \in Settled
      /\ item[worker[w].run][worker[w].read + 1] \in Settled
           => status = item[worker[w].run][worker[w].read + 1]
  BY <1>1, <1>2, StatusSettles DEF Typing
<1>5. /\ item'[worker[w].run][worker[w].read + 1] = status
      /\ \A q \in Runs, k \in 1 .. Size :
           q # worker[w].run \/ k # worker[w].read + 1 => item'[q][k] = item[q][k]
  <2> DEFINE r == worker[w].run
             k == worker[w].read + 1
  <2>1. /\ r \in Runs /\ k \in 1 .. Size /\ status \in Settled
        /\ item' = [item EXCEPT ![r][k] = status]
    BY <1>1, <1>2, <1>3, <1>4
  <2>2. item \in [Runs -> [1 .. Size -> Settled \cup {"none"}]]
    BY DEF Typing, TypeOK
  <2> HIDE DEF r, k
  <2>3. /\ item'[r][k] = status
        /\ \A q \in Runs, j \in 1 .. Size : q # r \/ j # k => item'[q][j] = item[q][j]
    BY ONLY <2>1, <2>2
  <2> QED
    BY <2>3 DEF r, k
<1>6. ItemsKept
  BY <1>4, <1>5 DEF ItemsKept
<1> QED
  BY <1>1, <1>2, <1>3, <1>4, <1>5, <1>6

\* Only an import writes items.
LEMMA OthersKeep ==
  ASSUME [Next]_vars, ~ \E w \in Workers : ImportItem(w)
  PROVE  item' = item
  BY DEF Next, vars, RunStep, ImportStep, Launch, Start, LaunchSyncs, End, WebhookStored,
         WebhookQueues, WebhookLost, Replay, ReconcileLists, ReconcileSyncs, ReconcileDies,
         ImportBegins, SavePage, ImportEnds, Breaker, ImportDies

LEMMA NextKeepsItems == Typing /\ [Next]_vars => ItemsKept
  BY ItemStepKeeps, OthersKeep DEF ItemsKept

\* No replay, retry or concurrent import changes an item that is settled.
THEOREM ItemsAreFinal == Spec => ItemsSettleOnce
<1>1. Typing /\ [Next]_vars =>
        [\A r \in Runs, k \in 1 .. Size :
           item[r][k] \in Settled => item'[r][k] = item[r][k]]_vars
  BY NextKeepsItems DEF ItemsKept
<1> QED
  BY <1>1, InitTyping, NextTyping, PTL DEF Spec, ItemsSettleOnce

-----------------------------------------------------------------------------
(* The inductive invariant.                                                *)

\* A step that moves no worker and writes no item, and writes only the status
\* of a row.
Quiet ==
  /\ UNCHANGED <<item, worker, suspended, died>>
  /\ row' \in [Runs -> Row]
  /\ \A r \in Runs :
       /\ row'[r].imported = row[r].imported
       /\ row'[r].read = row[r].read
       /\ row'[r].actionable = row[r].actionable
       /\ row'[r].exceptions = row[r].exceptions

LEMMA SyncedQuiet ==
  ASSUME row \in [Runs -> Row], NEW r \in Runs, NEW status \in Statuses,
         row' = Synced(r, status)
  PROVE  \A q \in Runs :
           /\ row'[q].imported = row[q].imported
           /\ row'[q].read = row[q].read
           /\ row'[q].actionable = row[q].actionable
           /\ row'[q].exceptions = row[q].exceptions
<1> DEFINE new == [row[r] EXCEPT !.status = status]
<1>1. row' = [row EXCEPT ![r] = new]
  BY DEF Synced
<1>2. /\ new.imported = row[r].imported
      /\ new.read = row[r].read
      /\ new.actionable = row[r].actionable
      /\ new.exceptions = row[r].exceptions
  BY DEF Row
<1> QED
  BY <1>1, <1>2

LEMMA RunQuiet ==
  ASSUME Typing, NEW r \in Runs, RunStep(r)
  PROVE  Quiet
<1>1. Typing'
  BY RunTyping
<1>2. UNCHANGED <<item, worker, suspended, died>>
  BY DEF RunStep, Launch, Start, LaunchSyncs, End, WebhookStored, WebhookQueues,
         WebhookLost, Replay
<1>3. CASE LaunchSyncs(r) \/ WebhookStored(r)
  <2>1. PICK status \in Statuses : row' = Synced(r, status)
    BY <1>3 DEF LaunchSyncs, WebhookStored, Typing, TypeOK, Statuses
  <2> QED
    BY <1>1, <1>2, <2>1, SyncedQuiet DEF Quiet, Typing, TypeOK
<1>4. CASE ~ (LaunchSyncs(r) \/ WebhookStored(r))
  <2>1. row' = row
    BY <1>4 DEF RunStep, Launch, Start, End, WebhookQueues, WebhookLost, Replay
  <2> QED
    BY <1>1, <1>2, <2>1 DEF Quiet, Typing, TypeOK
<1> QED
  BY <1>3, <1>4

LEMMA ReconcileQuiet ==
  ASSUME Typing, ReconcileLists \/ ReconcileSyncs \/ ReconcileDies
  PROVE  Quiet
<1>1. Typing'
  BY ListTyping, ReconcileTyping
<1>2. UNCHANGED <<item, worker, suspended, died>>
  BY DEF ReconcileLists, ReconcileSyncs, ReconcileDies
<1>3. row' = row \/ \E r \in Runs, status \in Statuses : row' = Synced(r, status)
  <2>1. CASE ReconcileLists
    BY <2>1 DEF ReconcileLists
  <2>2. CASE ReconcileSyncs \/ ReconcileDies
    <3>1. Head(reconcile).run \in Runs /\ Head(reconcile).status \in Statuses
      BY <2>2, HeadTyped DEF ReconcileSyncs, ReconcileDies, Typing, TypeOK
    <3> QED
      BY <2>2, <3>1 DEF ReconcileSyncs, ReconcileDies
  <2> QED
    BY <2>1, <2>2
<1> QED
  BY <1>1, <1>2, <1>3, SyncedQuiet DEF Quiet, Typing, TypeOK

Invariants == Settling /\ Counting /\ DoubtfulBindingsAreSuspended

LEMMA QuietKeeps ==
  ASSUME Invariants, Quiet
  PROVE  Invariants'
<1>1. \A r \in Runs, s \in Settled : Count(item[r], Size, s)' = Count(item[r], Size, s)
  BY DEF Quiet
<1>2. Settling'
  BY DEF Invariants, Settling, Passed, ImportedIsComplete, Quiet
<1>3. CountsPassed'
  BY DEF Invariants, Counting, CountsPassed, Quiet
<1>4. Overwritten'
  BY DEF Invariants, Counting, Overwritten, Full, Quiet
<1>5. DoubtfulBindingsAreSuspended'
  BY DEF Invariants, DoubtfulBindingsAreSuspended, TooDoubtful, ItemsOf, Quiet
<1> QED
  BY <1>2, <1>3, <1>4, <1>5 DEF Invariants, Counting

LEMMA InitInvariants == Init => Invariants
<1> SUFFICES ASSUME Init PROVE Invariants
  OBVIOUS
<1>1. Settling /\ Counting
  BY DEF Init, Settling, Passed, ImportedIsComplete, Counting, CountsPassed, Overwritten,
         NewRow, Idle
<1>2. ASSUME NEW b \in Bindings PROVE ~ TooDoubtful(b)
  <2>1. ItemsOf(b, {"EXCEPTION"}) = {} /\ ItemsOf(b, Settled) = {}
    BY DEF ItemsOf, Init, Settled
  <2> QED
    BY ONLY <2>1, FS_EmptySet DEF TooDoubtful
<1> QED
  BY <1>1, <1>2 DEF Invariants, DoubtfulBindingsAreSuspended

\* The import of an item.
LEMMA ItemKeeps ==
  ASSUME Typing, Invariants, NEW w \in Workers, ImportItem(w)
  PROVE  Invariants'
<1> DEFINE r == worker[w].run
           n == worker[w].read
<1>1. /\ ItemsKept
      /\ r \in Runs /\ n + 1 \in 1 .. Size /\ n \in Nat
      /\ \A q \in Runs, k \in 1 .. Size : q # r \/ k # n + 1 => item'[q][k] = item[q][k]
  BY ItemStepKeeps
<1>2. PICK status \in Settled :
        item'[r][n + 1] = status /\ worker' = [worker EXCEPT ![w] = Counted(worker[w], status)]
  BY ItemStepKeeps
<1>3. /\ \A v \in Workers \ {w} : worker'[v] = worker[v]
      /\ worker'[w] = Counted(worker[w], status)
      /\ worker'[w].run = r /\ worker'[w].read = n + 1
      /\ worker'[w].pc \in {"items", "save"} /\ worker[w].pc = "items"
      /\ worker'[w].actionable = IF status = "IMPORTED" THEN worker[w].actionable + 1
                                                        ELSE worker[w].actionable
      /\ worker'[w].exceptions = IF status = "EXCEPTION" THEN worker[w].exceptions + 1
                                                         ELSE worker[w].exceptions
  BY <1>2 DEF Counted, Typing, TypeOK, ImportItem
<1>4. UNCHANGED <<row, suspended, died>>
  BY DEF ImportItem
<1>5. \A v \in Workers : worker[v].run # NoRun =>
        /\ worker[v].run \in Runs /\ worker[v].read \in 0 .. Size
        /\ \A k \in 1 .. worker[v].read :
             item'[worker[v].run][k] = item[worker[v].run][k]
  <2>1. ASSUME NEW v \in Workers, worker[v].run # NoRun
        PROVE  worker[v].run \in Runs /\ worker[v].read \in 0 .. Size
    BY <2>1 DEF Typing, TypeOK, Worker
  <2> QED
    BY <1>1, <2>1 DEF Invariants, Settling, Passed, ItemsKept
<1>6. r # NoRun
  BY <1>1
<1> HIDE DEF r, n
<1>7. Settling'
  <2>1. Passed'
    <3> SUFFICES ASSUME NEW v \in Workers, worker'[v].run # NoRun,
                        NEW k \in 1 .. worker'[v].read
                 PROVE  item'[worker'[v].run][k] \in Settled
      BY DEF Passed
    <3>1. CASE v = w
      <4>1. CASE k = n + 1
        BY <1>2, <1>3, <3>1, <4>1
      <4>2. CASE k # n + 1
        <5>1. k \in 1 .. n
          BY <1>1, <1>3, <3>1, <4>2
        <5>2. item[r][k] \in Settled /\ item'[r][k] = item[r][k]
          BY <1>5, <1>6, <5>1 DEF Invariants, Settling, Passed, r, n
        <5> QED
          BY <1>3, <3>1, <5>2
      <4> QED
        BY <4>1, <4>2
    <3>2. CASE v # w
      BY <1>3, <1>5, <3>2 DEF Invariants, Settling, Passed
    <3> QED
      BY <3>1, <3>2
  <2>2. ImportedIsComplete'
    BY <1>1, <1>4 DEF Invariants, Settling, ImportedIsComplete, ItemsKept
  <2> QED
    BY <2>1, <2>2 DEF Settling
<1>8. CountsPassed'
  <2> SUFFICES ASSUME NEW v \in Workers, worker'[v].run # NoRun
               PROVE  /\ worker'[v].actionable
                           = Count(item'[worker'[v].run], worker'[v].read, "IMPORTED")
                      /\ worker'[v].exceptions
                           = Count(item'[worker'[v].run], worker'[v].read, "EXCEPTION")
    BY DEF CountsPassed
  <2>1. CASE v = w
    <3>1. \A s \in Settled : Count(item'[r], n, s) = Count(item[r], n, s)
      <4>1. \A k \in 1 .. n : item'[r][k] = item[r][k]
        BY <1>5, <1>6 DEF r, n
      <4> QED
        BY ONLY <1>1, <4>1, CountSame
    <3>2. \A s \in Settled : Count(item'[r], n + 1, s)
            = IF status = s THEN Count(item[r], n, s) + 1 ELSE Count(item[r], n, s)
      BY <1>1, <1>2, <3>1, CountNext
    <3>3. /\ worker[w].actionable = Count(item[r], n, "IMPORTED")
          /\ worker[w].exceptions = Count(item[r], n, "EXCEPTION")
      BY <1>6 DEF Invariants, Counting, CountsPassed, r, n
    <3> QED
      BY <1>3, <2>1, <3>2, <3>3 DEF Settled
  <2>2. CASE v # w
    <3>1. worker'[v] = worker[v] /\ worker[v].run # NoRun
      BY <1>3, <2>2
    <3>2. \A s : Count(item'[worker[v].run], worker[v].read, s)
                   = Count(item[worker[v].run], worker[v].read, s)
      <4>1. /\ worker[v].read \in Nat
            /\ \A k \in 1 .. worker[v].read :
                 item'[worker[v].run][k] = item[worker[v].run][k]
        BY <1>5, <3>1
      <4> QED
        BY ONLY <4>1, CountSame
    <3> QED
      BY <3>1, <3>2 DEF Invariants, Counting, CountsPassed
  <2> QED
    BY <2>1, <2>2
<1>9. Overwritten'
  <2> SUFFICES ASSUME NEW q \in Runs, row[q].imported, q \notin died, ~ Full(q)'
               PROVE  \E v \in Workers : worker'[v].run = q /\ worker'[v].pc \in {"items", "save"}
    BY <1>4 DEF Overwritten
  <2>1. \A k \in 1 .. Size : item'[q][k] = item[q][k]
    BY <1>1 DEF Invariants, Settling, ImportedIsComplete, ItemsKept
  <2>2. \A s : Count(item'[q], Size, s) = Count(item[q], Size, s)
    BY ONLY <2>1, DatasetAssumption, CountSame
  <2>3. ~ Full(q)
    BY <1>4, <2>2 DEF Full
  <2>4. PICK v \in Workers : worker[v].run = q /\ worker[v].pc \in {"items", "save"}
    BY <2>3 DEF Invariants, Counting, Overwritten
  <2> QED
    BY <1>3, <2>4 DEF r
<1>10. DoubtfulBindingsAreSuspended'
  <2> SUFFICES ASSUME NEW b \in Bindings, TooDoubtful(b)',
                      \A q \in died : BindingOf[q] # b,
                      \A v \in Workers : worker'[v].run # NoRun => BindingOf[worker'[v].run] # b
               PROVE  b \in suspended
    BY <1>4 DEF DoubtfulBindingsAreSuspended
  <2>1. BindingOf[r] # b
    BY <1>3, <1>6
  <2>2. \A ss : ItemsOf(b, ss)' = ItemsOf(b, ss)
    BY <1>1, <2>1 DEF ItemsOf
  <2>3. TooDoubtful(b)
    BY <2>2 DEF TooDoubtful
  <2>4. \A v \in Workers : worker[v].run # NoRun => BindingOf[worker[v].run] # b
    BY <1>3, <2>1 DEF r
  <2> QED
    BY <2>3, <2>4 DEF Invariants, DoubtfulBindingsAreSuspended
<1> QED
  BY <1>7, <1>8, <1>9, <1>10 DEF Invariants, Counting

\* A save, of a page or of the whole import.
LEMMA SaveKeeps ==
  ASSUME Typing, Invariants, NEW w \in Workers, SavePage(w) \/ ImportEnds(w)
  PROVE  Invariants'
<1> DEFINE r == worker[w].run
<1>1. worker[w] \in Worker /\ r \in Runs /\ r # NoRun
  BY Busy DEF SavePage, ImportEnds
<1>2. UNCHANGED <<item, suspended, died>>
  BY DEF SavePage, ImportEnds
<1>3. PICK finished \in BOOLEAN :
        /\ row' = Saved(worker[w], finished)
        /\ finished => worker[w].read = Size
        /\ ~ finished => worker'[w].pc = "items"
  <2>1. CASE SavePage(w)
    <3>1. worker'[w].pc = "items"
      BY <1>1, <2>1 DEF SavePage, Typing, TypeOK, Worker
    <3> QED
      BY <2>1, <3>1 DEF SavePage
  <2>2. CASE ImportEnds(w)
    BY <2>2 DEF ImportEnds
  <2> QED
    BY <2>1, <2>2
<1>4. /\ row'[r].imported = (row[r].imported \/ finished)
      /\ row'[r].read = worker[w].read
      /\ row'[r].actionable = worker[w].actionable
      /\ row'[r].exceptions = worker[w].exceptions
      /\ \A q \in Runs \ {r} : row'[q] = row[q]
  <2>1. row \in [Runs -> Row]
    BY DEF Typing, TypeOK
  <2>2. row' = [row EXCEPT ![r] = SavedRow(row[r], worker[w], finished)]
    BY <1>3 DEF Saved
  <2> QED
    BY <1>1, <2>1, <2>2, SavedRowTyped
<1>5. /\ worker' = [worker EXCEPT ![w] = worker'[w]]
      /\ worker'[w].run = r
      /\ worker'[w].read = worker[w].read
      /\ worker'[w].actionable = worker[w].actionable
      /\ worker'[w].exceptions = worker[w].exceptions
  <2>1. PICK at \in {"items", "breaker"} :
          worker' = [worker EXCEPT ![w] = [worker[w] EXCEPT !.pc = at]]
    BY DEF SavePage, ImportEnds
  <2> QED
    BY <1>1, <2>1 DEF Typing, TypeOK, Worker
<1>6. \A v \in Workers : /\ worker'[v].run = worker[v].run
                         /\ worker'[v].read = worker[v].read
                         /\ worker'[v].actionable = worker[v].actionable
                         /\ worker'[v].exceptions = worker[v].exceptions
                         /\ v # w => worker'[v].pc = worker[v].pc
  BY <1>5 DEF Typing, TypeOK
<1>7. Settling'
  <2>1. Passed'
    BY <1>2, <1>6 DEF Invariants, Settling, Passed
  <2>2. ImportedIsComplete'
    BY <1>1, <1>2, <1>3, <1>4 DEF Invariants, Settling, Passed, ImportedIsComplete
  <2> QED
    BY <2>1, <2>2 DEF Settling
<1>8. CountsPassed'
  BY <1>2, <1>6 DEF Invariants, Counting, CountsPassed
<1>9. Overwritten'
  <2> SUFFICES ASSUME NEW q \in Runs, row'[q].imported, q \notin died, ~ Full(q)'
               PROVE  \E v \in Workers : worker'[v].run = q /\ worker'[v].pc \in {"items", "save"}
    BY <1>2 DEF Overwritten
  <2>1. CASE q = r
    <3>1. ~ finished
      <4> SUFFICES ASSUME finished PROVE Full(q)'
        OBVIOUS
      <4>1. worker[w].read = Size
        BY <1>3
      <4>2. /\ worker[w].actionable = Count(item[r], Size, "IMPORTED")
            /\ worker[w].exceptions = Count(item[r], Size, "EXCEPTION")
        BY <1>1, <4>1 DEF Invariants, Counting, CountsPassed
      <4> QED
        BY <1>2, <1>4, <2>1, <4>1, <4>2 DEF Full
    <3> QED
      BY <1>3, <1>5, <2>1, <3>1
  <2>2. CASE q # r
    <3>1. row[q].imported /\ ~ Full(q)
      BY <1>2, <1>4, <2>2 DEF Full
    <3>2. PICK v \in Workers : worker[v].run = q /\ worker[v].pc \in {"items", "save"}
      BY <3>1 DEF Invariants, Counting, Overwritten
    <3> QED
      BY <1>6, <2>2, <3>2
  <2> QED
    BY <2>1, <2>2
<1>10. DoubtfulBindingsAreSuspended'
  BY <1>2, <1>6 DEF Invariants, DoubtfulBindingsAreSuspended, TooDoubtful, ItemsOf
<1> QED
  BY <1>7, <1>8, <1>9, <1>10 DEF Invariants, Counting

\* The steps that change who works on what: a worker begins, ends its breaker
\* or dies.
LEMMA BeginKeeps ==
  ASSUME Typing, Invariants, NEW w \in Workers, NEW r \in Runs, ImportBegins(w, r)
  PROVE  Invariants'
<1>1. UNCHANGED <<row, item, suspended, died>>
  BY DEF ImportBegins
<1>2. worker[w].run = NoRun
  BY DEF ImportBegins, Typing, WorkersOwn
<1>3. \A v \in Workers : worker'[v] = worker[v] \/ (v = w /\ worker'[v] = Begun(r))
  BY DEF ImportBegins, Typing, TypeOK
<1>4. \A v \in Workers : worker[v].run # NoRun => worker'[v] = worker[v]
  BY <1>2, <1>3 DEF ImportBegins, Typing, TypeOK
<1>5. \A s : Count(item[r], 0, s) = 0
  BY CountNone
<1>6. Settling'
  BY <1>1, <1>3 DEF Invariants, Settling, Passed, ImportedIsComplete, Begun
<1>7. CountsPassed'
  <2> SUFFICES ASSUME NEW v \in Workers, worker'[v].run # NoRun
               PROVE  /\ worker'[v].actionable
                           = Count(item[worker'[v].run], worker'[v].read, "IMPORTED")
                      /\ worker'[v].exceptions
                           = Count(item[worker'[v].run], worker'[v].read, "EXCEPTION")
    BY <1>1 DEF CountsPassed
  <2>1. CASE worker'[v] = worker[v]
    BY <2>1 DEF Invariants, Counting, CountsPassed
  <2>2. CASE worker'[v] = Begun(r)
    <3>1. /\ worker'[v].run = r /\ worker'[v].read = 0
          /\ worker'[v].actionable = 0 /\ worker'[v].exceptions = 0
      BY <2>2 DEF Begun
    <3> QED
      BY <1>5, <3>1
  <2> QED
    BY <1>3, <2>1, <2>2
<1>8. Overwritten'
  <2> SUFFICES ASSUME NEW q \in Runs, row[q].imported, q \notin died', ~ Full(q)
               PROVE  \E v \in Workers : worker'[v].run = q /\ worker'[v].pc \in {"items", "save"}
    BY <1>1 DEF Overwritten, Full
  <2>1. PICK v \in Workers : worker[v].run = q /\ worker[v].pc \in {"items", "save"}
    BY <1>1 DEF Invariants, Counting, Overwritten
  <2> QED
    BY <1>4, <2>1
<1>9. DoubtfulBindingsAreSuspended'
  BY <1>1, <1>4 DEF Invariants, DoubtfulBindingsAreSuspended, TooDoubtful, ItemsOf
<1> QED
  BY <1>6, <1>7, <1>8, <1>9 DEF Invariants, Counting

LEMMA LeaveKeeps ==
  ASSUME Typing, Invariants, NEW w \in Workers, Breaker(w) \/ ImportDies(w)
  PROVE  Invariants'
<1>1. UNCHANGED <<row, item>>
  BY DEF Breaker, ImportDies
<1>2. worker[w].run \in Runs
  BY Busy DEF Breaker, ImportDies
<1>3. worker' = [worker EXCEPT ![w] = Idle] /\ Idle.run = NoRun
  BY IdleTyped DEF Breaker, ImportDies
<1>4. /\ worker'[w].run = NoRun
      /\ \A v \in Workers \ {w} : worker'[v] = worker[v]
  BY <1>3 DEF Typing, TypeOK
<1>5. Settling'
  BY <1>1, <1>4 DEF Invariants, Settling, Passed, ImportedIsComplete
<1>6. CountsPassed'
  BY <1>1, <1>4 DEF Invariants, Counting, CountsPassed
<1>7. died \subseteq died' /\ (worker[w].run \in died' \/ worker[w].pc = "breaker")
  BY DEF Breaker, ImportDies
<1>8. Overwritten'
  <2> SUFFICES ASSUME NEW q \in Runs, row[q].imported, q \notin died', ~ Full(q)
               PROVE  \E v \in Workers : worker'[v].run = q /\ worker'[v].pc \in {"items", "save"}
    BY <1>1 DEF Overwritten, Full
  <2>1. PICK v \in Workers : worker[v].run = q /\ worker[v].pc \in {"items", "save"}
    BY <1>7 DEF Invariants, Counting, Overwritten
  <2> QED
    BY <1>4, <1>7, <2>1
<1>9. suspended \subseteq suspended'
      /\ \/ worker[w].run \in died'
         \/ TooDoubtful(BindingOf[worker[w].run]) => BindingOf[worker[w].run] \in suspended'
  BY DEF Breaker, ImportDies
<1>10. \A b \in Bindings : TooDoubtful(b)' => TooDoubtful(b)
  BY <1>1 DEF TooDoubtful, ItemsOf
<1>11. DoubtfulBindingsAreSuspended'
  BY <1>4, <1>7, <1>9, <1>10 DEF Invariants, DoubtfulBindingsAreSuspended
<1> QED
  BY <1>5, <1>6, <1>8, <1>11 DEF Invariants, Counting

LEMMA StutterKeeps == Invariants /\ UNCHANGED vars => Invariants'
  BY DEF vars, Invariants, Settling, Counting, Passed, ImportedIsComplete, CountsPassed,
         Overwritten, Full, DoubtfulBindingsAreSuspended, TooDoubtful, ItemsOf

LEMMA NextInvariants == Typing /\ Invariants /\ [Next]_vars => Invariants'
<1> SUFFICES ASSUME Typing, Invariants, [Next]_vars PROVE Invariants'
  OBVIOUS
<1>1. CASE UNCHANGED vars
  BY <1>1, StutterKeeps
<1>2. ASSUME NEW w \in Workers, ImportStep(w) PROVE Invariants'
  BY <1>2, ItemKeeps, SaveKeeps, LeaveKeeps DEF ImportStep
<1>3. ASSUME NEW r \in Runs, RunStep(r) PROVE Invariants'
  BY <1>3, RunQuiet, QuietKeeps
<1>4. CASE ReconcileLists \/ ReconcileSyncs \/ ReconcileDies
  BY <1>4, ReconcileQuiet, QuietKeeps
<1> QED
  BY <1>1, <1>2, <1>3, <1>4, BeginKeeps, LeaveKeeps DEF Next

LEMMA FullMatches == Overwritten => CountersMatch
  BY DEF Overwritten, CountersMatch, Full

LEMMA Invariance == Spec => [](Typing /\ Invariants)
  BY InitTyping, InitInvariants, NextTyping, NextInvariants, PTL DEF Spec

\* A run marked imported has every item on record.
THEOREM ImportsAreComplete == Spec => []ImportedIsComplete
<1>1. Typing /\ Invariants => ImportedIsComplete
  BY DEF Invariants, Settling
<1> QED
  BY <1>1, Invariance, PTL

\* The counters of an imported run are those of its items, replays included.
THEOREM CountersAreRight == Spec => []CountersMatch
<1>1. Typing /\ Invariants => CountersMatch
  BY FullMatches DEF Invariants, Counting
<1> QED
  BY <1>1, Invariance, PTL

\* The circuit breaker misses no binding, whatever runs are imported together.
THEOREM BreakerHolds == Spec => []DoubtfulBindingsAreSuspended
<1>1. Typing /\ Invariants => DoubtfulBindingsAreSuspended
  BY DEF Invariants
<1> QED
  BY <1>1, Invariance, PTL

=============================================================================
