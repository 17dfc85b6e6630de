------------------------- MODULE LbcMessagingProofs -------------------------
(***************************************************************************)
(* Theorems about LbcMessaging, for every number of listings, accounts,    *)
(* tasks, commands, faults and days.                                       *)
(***************************************************************************)
EXTENDS LbcMessaging, FiniteSetTheorems, TLAPS

Places ==
  {"idle", "queued", "none", "usage", "check", "quota", "step", "queue", "send", "mark", "end",
   "write"}

RunStatuses == {"none", "PENDING", "RUNNING", "PAUSED", "CANCELLED", "FAILED", "COMPLETED"}
MessageStatuses == {"none", "QUEUED", "SENT", "FAILED"}

Both == [campaign : RunStatuses, run : RunStatuses]

Message == [status : MessageStatuses, account : Accounts, today : BOOLEAN]

Task ==
  [at : Places, todo : SUBSET Listings, more : BOOLEAN, pool : SUBSET Accounts,
   usage : [Accounts -> Nat], row : Rows, account : Accounts,
   result : {"none", "SENT", "FAILED"}, seen : Both]

TypedLbc ==
  /\ status \in Both
  /\ message \in [Rows -> Message]
  /\ delivered \in [Rows -> Nat]
  /\ task \in [Tasks -> Task]
  /\ stray \in [Tasks -> Nat]
  /\ overlapped \in BOOLEAN
  /\ count \in [days : Nat, commands : Nat, faults : Nat]

USE DEF Places, RunStatuses, MessageStatuses

-----------------------------------------------------------------------------
(* What a step of a task does to it.                                       *)

\* Task t moves to the record new, the other tasks stay.
Moves(t, new) == new \in Task /\ task' = [task EXCEPT ![t] = new]

LEMMA RowsExist == Rows # {} /\ (CHOOSE r \in Rows : TRUE) \in Rows
<1>1. PICK l \in Listings : TRUE
  BY LbcAssumption
<1>2. <<l, 0>> \in Rows
  BY DEF Rows, Steps
<1> QED
  BY <1>2

LEMMA NoTaskTyped == NoTask \in Task /\ NoTask.at = "idle"
<1>1. (CHOOSE a \in Accounts : TRUE) \in Accounts
  BY LbcAssumption
<1> QED
  BY <1>1, RowsExist DEF NoTask, Task, Both

LEMMA NoMessageTyped == NoMessage \in Message /\ NoMessage.status = "none" /\ ~NoMessage.today
<1>1. (CHOOSE a \in Accounts : TRUE) \in Accounts
  BY LbcAssumption
<1> QED
  BY <1>1 DEF NoMessage, Message

LEMMA RowsAreFinite == IsFiniteSet(Rows) /\ IsFiniteSet(Steps)
<1>1. IsFiniteSet(Steps)
  <2>1. 0 \in Int /\ 2 \in Int
    OBVIOUS
  <2>2. IsFiniteSet(0 .. 2)
    BY ONLY <2>1, FS_Interval, Zenon
  <2> QED
    BY <2>2 DEF Steps
<1> QED
  BY <1>1, LbcAssumption, FS_Product DEF Rows

LEMMA SentIsCounted == \A a : Cardinality(SentToday(a)) \in Nat
<1> SUFFICES ASSUME NEW a PROVE Cardinality(SentToday(a)) \in Nat
  OBVIOUS
<1>1. SentToday(a) \subseteq Rows
  BY DEF SentToday
<1> QED
  BY <1>1, RowsAreFinite, FS_Subset, FS_CardinalityType

\* Moving on without looking at anything else.
LEMMA MovesOn ==
  ASSUME TypedLbc, NEW t \in Tasks, NEW at \in Places
  PROVE  /\ [task[t] EXCEPT !.at = at] \in Task
         /\ TaskAt(t, at) => Moves(t, [task[t] EXCEPT !.at = at])
         /\ [task[t] EXCEPT !.at = at].at = at
         /\ [task[t] EXCEPT !.at = at].row = task[t].row
         /\ [task[t] EXCEPT !.at = at].todo = task[t].todo
         /\ [task[t] EXCEPT !.at = at].more = task[t].more
         /\ [task[t] EXCEPT !.at = at].usage = task[t].usage
         /\ [task[t] EXCEPT !.at = at].account = task[t].account
         /\ [task[t] EXCEPT !.at = at].result = task[t].result
         /\ [task[t] EXCEPT !.at = at].seen = task[t].seen
  BY DEF TypedLbc, Task, TaskAt, Moves

\* The batch it takes and whether that was the last one.
LEMMA BeginMoves ==
  ASSUME TypedLbc, NEW t \in Tasks, Begin(t)
  PROVE  \/ /\ status.campaign # "RUNNING" /\ UNCHANGED <<status, overlapped>>
            /\ Moves(t, NoTask)
         \/ /\ status.campaign = "RUNNING" /\ status' \in Both
            /\ status'.campaign = "RUNNING" /\ status'.run = "RUNNING"
            /\ overlapped' = (overlapped \/ \E u \in Tasks \ {t} : Active(u))
            /\ \E new : /\ Moves(t, new)
                        /\ new.at \in {"usage", "none"}
                        /\ new.more = More
                        /\ new.todo \in SUBSET Eligible
                        /\ Cardinality(new.todo) = Min({BatchSize, Cardinality(Eligible)})
<1>1. CASE status.campaign # "RUNNING"
  BY <1>1, NoTaskTyped DEF Begin, SetTask, Moves
<1>2. CASE status.campaign = "RUNNING"
  <2>1. status' \in Both /\ status'.campaign = "RUNNING" /\ status'.run = "RUNNING"
    BY <1>2 DEF Begin, TypedLbc, Both
  <2>2. PICK B \in SUBSET Eligible :
          /\ Cardinality(B) = Min({BatchSize, Cardinality(Eligible)})
          /\ SetTask(t, [NoTask EXCEPT
                !.at = IF \E a \in Accounts : sender[a] = "ACTIF" THEN "usage" ELSE "none",
                !.todo = B, !.more = More,
                !.pool = {a \in Accounts : sender[a] = "ACTIF"}])
    BY <1>2 DEF Begin
  <2> DEFINE new == [NoTask EXCEPT
                !.at = IF \E a \in Accounts : sender[a] = "ACTIF" THEN "usage" ELSE "none",
                !.todo = B, !.more = More,
                !.pool = {a \in Accounts : sender[a] = "ACTIF"}]
  <2>3. B \in SUBSET Listings /\ More \in BOOLEAN /\ {a \in Accounts : sender[a] = "ACTIF"} \in SUBSET Accounts
    BY DEF Eligible, More
  <2>4. /\ new \in Task /\ new.at \in {"usage", "none"} /\ new.more = More /\ new.todo = B
    BY <2>3, NoTaskTyped DEF Task
  <2>5. Moves(t, new)
    BY <2>2, <2>4 DEF SetTask, Moves
  <2>6. overlapped' = (overlapped \/ \E u \in Tasks \ {t} : Active(u))
    BY <1>2 DEF Begin
  <2> HIDE DEF new
  <2> QED
    BY <1>2, <2>1, <2>2, <2>4, <2>5, <2>6
<1> QED
  BY <1>1, <1>2

LEMMA UsageMoves ==
  ASSUME TypedLbc, NEW t \in Tasks, ReadUsage(t)
  PROVE  \E new : /\ Moves(t, new) /\ new.at = "check"
                  /\ new.todo = task[t].todo /\ new.more = task[t].more
                  /\ new.usage = [a \in Accounts |-> Cardinality(SentToday(a))]
<1> DEFINE usage == [a \in Accounts |-> Cardinality(SentToday(a))]
           new == [task[t] EXCEPT !.at = "check", !.usage = usage]
<1>1. usage \in [Accounts -> Nat]
  BY SentIsCounted
<1>2. new \in Task /\ new.at = "check" /\ new.todo = task[t].todo /\ new.more = task[t].more
      /\ new.usage = usage
  <2> HIDE DEF usage
  <2> QED
    BY <1>1 DEF TypedLbc, Task
<1>3. Moves(t, new)
  BY <1>2 DEF ReadUsage, SetTask, Moves
<1> HIDE DEF new
<1> QED
  BY <1>2, <1>3

LEMMA TakeMoves ==
  ASSUME TypedLbc, NEW t \in Tasks, TakeListing(t)
  PROVE  \/ Moves(t, [task[t] EXCEPT !.at = "quota"])
         \/ \E new : \E l \in task[t].todo, a \in Free(t) :
              /\ Moves(t, new) /\ new.at = "step" /\ new.row = <<l, 0>> /\ new.account = a
              /\ new.todo = task[t].todo \ {l} /\ new.more = task[t].more
              /\ new.usage = task[t].usage
<1>1. PICK l \in task[t].todo :
          IF Free(t) = {}
          THEN SetTask(t, [task[t] EXCEPT !.at = "quota"])
          ELSE \E a \in Free(t) :
                  SetTask(t, [task[t] EXCEPT !.at = "step", !.todo = @ \ {l},
                                             !.row = <<l, 0>>, !.account = a])
  BY DEF TakeListing
<1>2. CASE Free(t) = {}
  BY <1>1, <1>2, MovesOn DEF SetTask, Moves
<1>3. CASE Free(t) # {}
  <2>1. PICK a \in Free(t) : SetTask(t, [task[t] EXCEPT !.at = "step", !.todo = @ \ {l},
                                             !.row = <<l, 0>>, !.account = a])
    BY <1>1, <1>3
  <2> DEFINE new == [task[t] EXCEPT !.at = "step", !.todo = @ \ {l}, !.row = <<l, 0>>, !.account = a]
  <2>2. a \in Accounts /\ <<l, 0>> \in Rows
    BY DEF Free, TypedLbc, Task, Rows, Steps
  <2>3. /\ new \in Task /\ new.at = "step" /\ new.row = <<l, 0>> /\ new.account = a
        /\ new.todo = task[t].todo \ {l} /\ new.more = task[t].more /\ new.usage = task[t].usage
    BY <2>2 DEF TypedLbc, Task
  <2>4. Moves(t, new)
    BY <2>1, <2>3 DEF SetTask, Moves
  <2> HIDE DEF new
  <2> QED
    BY <2>3, <2>4
<1> QED
  BY <1>2, <1>3

\* The step is within the sequence.
LEMMA PickMoves ==
  ASSUME TypedLbc, NEW t \in Tasks, PickStep(t)
  PROVE  \/ /\ Moves(t, [task[t] EXCEPT !.at = "check"])
            /\ Cardinality(Counted(task[t].row[1])) # 0
         \/ \E new, s :
              /\ Moves(t, new) /\ new.at = "queue" /\ new.row = <<task[t].row[1], s>>
              /\ new.todo = task[t].todo /\ new.more = task[t].more
              /\ new.usage = task[t].usage /\ new.account = task[t].account
<1> DEFINE l == task[t].row[1]
           s == Cardinality(Counted(l))
           new == [task[t] EXCEPT !.at = "queue", !.row = <<l, s>>]
<1>1. CASE s \in {0} \cup Templated
  <2>1. <<l, s>> \in Rows
    <3>1. l \in Listings
      BY DEF TypedLbc, Task, Rows
    <3>2. s \in Steps
      <4> HIDE DEF s
      <4> QED
        BY <1>1, LbcAssumption DEF Steps
    <3> QED
      BY <3>1, <3>2 DEF Rows
  <2>2. /\ new \in Task /\ new.at = "queue" /\ new.row = <<l, s>>
        /\ new.todo = task[t].todo /\ new.more = task[t].more
        /\ new.usage = task[t].usage /\ new.account = task[t].account
    <3> HIDE DEF l, s
    <3> QED
      BY <2>1 DEF TypedLbc, Task
  <2>3. Moves(t, new)
    BY <1>1, <2>2 DEF PickStep, SetTask, Moves
  <2> HIDE DEF new
  <2> QED
    BY <2>2, <2>3
<1>2. CASE s \notin {0} \cup Templated
  BY <1>2, MovesOn DEF PickStep
<1> QED
  BY <1>1, <1>2

LEMMA QueueMoves ==
  ASSUME TypedLbc, NEW t \in Tasks, QueueMessage(t)
  PROVE  \/ /\ message[task[t].row].status = "none"
            /\ \E row \in Message :
                 /\ row.status = "QUEUED" /\ row.account = task[t].account /\ row.today
                 /\ message' = [message EXCEPT ![task[t].row] = row]
            /\ Moves(t, [task[t] EXCEPT !.at = "send"])
         \/ /\ message[task[t].row].status # "none"
            /\ message' = message
            /\ Moves(t, [task[t] EXCEPT !.at = "check"])
<1>1. CASE KeyIsFree(task[t].row)
  <2> DEFINE row == [status |-> "QUEUED", account |-> task[t].account, today |-> TRUE]
  <2>1. row \in Message /\ row.status = "QUEUED" /\ row.account = task[t].account /\ row.today
    BY DEF TypedLbc, Task, Message
  <2>2. message' = [message EXCEPT ![task[t].row] = row]
    BY <1>1 DEF QueueMessage
  <2>3. Moves(t, [task[t] EXCEPT !.at = "send"])
    BY <1>1, MovesOn DEF QueueMessage
  <2> HIDE DEF row
  <2> QED
    BY <1>1, <2>1, <2>2, <2>3 DEF KeyIsFree
<1>2. CASE ~KeyIsFree(task[t].row)
  BY <1>2, MovesOn DEF QueueMessage, KeyIsFree
<1> QED
  BY <1>1, <1>2

LEMMA SendMoves ==
  ASSUME TypedLbc, NEW t \in Tasks, Send(t) \/ SendFails(t)
  PROVE  \E new : /\ Moves(t, new) /\ new.at = "mark" /\ new.row = task[t].row
                  /\ new.todo = task[t].todo /\ new.more = task[t].more
                  /\ new.usage = task[t].usage /\ new.account = task[t].account
                  /\ \/ Send(t) /\ new.result = "SENT"
                     \/ SendFails(t) /\ new.result = "FAILED"
<1>1. ASSUME NEW result \in {"SENT", "FAILED"},
             task' = [task EXCEPT ![t] = [task[t] EXCEPT !.at = "mark", !.result = result]]
      PROVE  \E new : /\ Moves(t, new) /\ new.at = "mark" /\ new.row = task[t].row
                      /\ new.todo = task[t].todo /\ new.more = task[t].more
                      /\ new.usage = task[t].usage /\ new.account = task[t].account
                      /\ new.result = result
  <2> DEFINE new == [task[t] EXCEPT !.at = "mark", !.result = result]
  <2>1. /\ new \in Task /\ new.at = "mark" /\ new.row = task[t].row
        /\ new.todo = task[t].todo /\ new.more = task[t].more
        /\ new.usage = task[t].usage /\ new.account = task[t].account
        /\ new.result = result
    BY DEF TypedLbc, Task
  <2>2. Moves(t, new)
    BY <1>1, <2>1 DEF Moves
  <2> HIDE DEF new
  <2> QED
    BY <2>1, <2>2
<1>2. CASE Send(t)
  <2>1. task' = [task EXCEPT ![t] = [task[t] EXCEPT !.at = "mark", !.result = "SENT"]]
    BY <1>2 DEF Send, SetTask
  <2>2. \E new : /\ Moves(t, new) /\ new.at = "mark" /\ new.row = task[t].row
                  /\ new.todo = task[t].todo /\ new.more = task[t].more
                  /\ new.usage = task[t].usage /\ new.account = task[t].account
                  /\ new.result = "SENT"
    BY <1>1, <2>1
  <2> QED
    BY <1>2, <2>2
<1>3. CASE SendFails(t)
  <2>1. task' = [task EXCEPT ![t] = [task[t] EXCEPT !.at = "mark", !.result = "FAILED"]]
    BY <1>3 DEF SendFails, SetTask
  <2>2. \E new : /\ Moves(t, new) /\ new.at = "mark" /\ new.row = task[t].row
                  /\ new.todo = task[t].todo /\ new.more = task[t].more
                  /\ new.usage = task[t].usage /\ new.account = task[t].account
                  /\ new.result = "FAILED"
    BY <1>1, <2>1
  <2> QED
    BY <1>3, <2>2
<1> QED
  BY <1>2, <1>3

\* The usage grows by the message that was sent.
LEMMA MarkMoves ==
  ASSUME TypedLbc, NEW t \in Tasks, Mark(t)
  PROVE  /\ message' \in [Rows -> Message]
         /\ message'[task[t].row] = [message[task[t].row] EXCEPT !.status = task[t].result]
         /\ \A r \in Rows : r # task[t].row => message'[r] = message[r]
         /\ \E new : /\ Moves(t, new) /\ new.at = "check"
                     /\ new.todo = task[t].todo /\ new.more = task[t].more
                     /\ \A a \in Accounts : new.usage[a] =
                          IF task[t].result = "SENT" /\ a = task[t].account
                          THEN task[t].usage[a] + 1 ELSE task[t].usage[a]
<1> DEFINE row == task[t].row
           marked == [message[row] EXCEPT !.status = task[t].result]
           usage == IF task[t].result = "SENT" THEN Used(task[t].usage, task[t].account)
                    ELSE task[t].usage
           new == [task[t] EXCEPT !.at = "check", !.usage = usage]
<1>1. row \in Rows /\ marked \in Message
  BY DEF TypedLbc, Task, Message
<1>2. message' = [message EXCEPT ![row] = marked]
  BY DEF Mark, TypedLbc
<1>3. /\ usage \in [Accounts -> Nat]
      /\ \A a \in Accounts : usage[a] =
           IF task[t].result = "SENT" /\ a = task[t].account
           THEN task[t].usage[a] + 1 ELSE task[t].usage[a]
  BY DEF Used, TypedLbc, Task
<1>4. /\ new \in Task /\ new.at = "check" /\ new.usage = usage
      /\ new.todo = task[t].todo /\ new.more = task[t].more
  <2>1. task[t] \in Task
    BY DEF TypedLbc
  <2>2. usage \in [Accounts -> Nat]
    BY <1>3
  <2> HIDE DEF usage
  <2> QED
    BY <2>1, <2>2 DEF Task
<1>5. Moves(t, new)
  BY <1>4 DEF Mark, SetTask, Moves
<1>6. /\ message' \in [Rows -> Message] /\ message'[row] = marked
      /\ \A r \in Rows : r # row => message'[r] = message[r]
  <2> HIDE DEF marked, row
  <2> QED
    BY <1>1, <1>2 DEF TypedLbc
<1> HIDE DEF new, usage
<1> QED
  BY <1>3, <1>4, <1>5, <1>6

LEMMA EndMoves ==
  ASSUME TypedLbc, NEW t \in Tasks, EndReads(t)
  PROVE  \E new : /\ Moves(t, new) /\ new.at = "write" /\ new.seen = status
                  /\ new.todo = task[t].todo /\ new.more = task[t].more
<1> DEFINE new == [task[t] EXCEPT !.at = "write", !.seen = status]
<1>1. /\ new \in Task /\ new.at = "write" /\ new.seen = status
      /\ new.todo = task[t].todo /\ new.more = task[t].more
  BY DEF TypedLbc, Task
<1>2. Moves(t, new)
  BY <1>1 DEF EndReads, SetTask, Moves
<1> HIDE DEF new
<1> QED
  BY <1>1, <1>2

\* The task ends, or is queued again for the next batch.
LEMMA WriteMoves ==
  ASSUME TypedLbc, NEW t \in Tasks, EndWrites(t)
  PROVE  /\ FinalStatus(t) \in RunStatuses
         /\ status' \in Both
         /\ status'.campaign = IF FinalStatus(t) = task[t].seen.campaign THEN status.campaign
                               ELSE FinalStatus(t)
         /\ \E new : Moves(t, new) /\ new.at \in {"idle", "queued"}
<1>1. FinalStatus(t) \in RunStatuses
  BY DEF FinalStatus, TypedLbc, Task, Both
<1>2. /\ status' \in Both
      /\ status'.campaign = IF FinalStatus(t) = task[t].seen.campaign THEN status.campaign
                            ELSE FinalStatus(t)
  BY <1>1 DEF EndWrites, TypedLbc, Both
<1> DEFINE new == [NoTask EXCEPT !.at = IF FinalStatus(t) = "RUNNING" THEN "queued" ELSE "idle"]
<1>3. new \in Task /\ new.at \in {"idle", "queued"}
  BY NoTaskTyped DEF Task
<1>4. Moves(t, new)
  BY <1>3 DEF EndWrites, SetTask, Moves
<1> HIDE DEF new
<1> QED
  BY <1>1, <1>2, <1>3, <1>4

\* The steps that let a task go.
LEMMA Leaves ==
  ASSUME NEW t \in Tasks, NoAccount(t) \/ PauseForQuota(t) \/ TaskFails(t) \/ TaskDies(t)
  PROVE  Moves(t, NoTask)
  BY NoTaskTyped DEF NoAccount, PauseForQuota, TaskFails, TaskDies, SetTask, Moves

-----------------------------------------------------------------------------
(* Types.                                                                  *)

LEMMA MovesTyped ==
  ASSUME TypedLbc, NEW t \in Tasks, NEW new, Moves(t, new)
  PROVE  task' \in [Tasks -> Task]
  BY DEF TypedLbc, Moves

LEMMA TypesStart == InitLbc => TypedLbc
<1> SUFFICES ASSUME InitLbc PROVE TypedLbc
  OBVIOUS
<1>1. \A t \in Tasks : [NoTask EXCEPT !.at = IF t = First THEN "queued" ELSE "idle"] \in Task
  BY NoTaskTyped DEF Task
<1> QED
  BY <1>1, NoMessageTyped DEF InitLbc, TypedLbc, Both

\* Every bound is a number, and a fault is one of them.
LEMMA Counts ==
  ASSUME TypedLbc
  PROVE  /\ LbcFault \/ Command \/ DayPasses => count' \in [days : Nat, commands : Nat, faults : Nat]
         /\ LbcFault => count'.faults = count.faults + 1
         /\ Command \/ DayPasses => count'.faults = count.faults
         /\ count.faults \in Nat
  BY DEF TypedLbc, LbcFault, Command, DayPasses

LEMMA TypesSteps == TypedLbc /\ [LbcNext]_lbcVars => TypedLbc'
<1> SUFFICES ASSUME TypedLbc, [LbcNext]_lbcVars PROVE TypedLbc'
  OBVIOUS
<1>0. CASE UNCHANGED lbcVars
  BY <1>0 DEF lbcVars, TypedLbc
<1>1. ASSUME NEW t \in Tasks, Begin(t)
      PROVE  TypedLbc'
  <2>1. status' \in Both /\ task' \in [Tasks -> Task] /\ overlapped' \in BOOLEAN
    BY <1>1, BeginMoves, MovesTyped DEF TypedLbc
  <2> QED
    BY <1>1, <2>1 DEF Begin, TypedLbc
<1>2. ASSUME NEW t \in Tasks, NoAccount(t) \/ PauseForQuota(t) \/ TaskFails(t) \/ TaskDies(t)
      PROVE  TypedLbc'
  <2>1. task' \in [Tasks -> Task]
    BY <1>2, Leaves, MovesTyped
  <2>2. status' \in Both /\ UNCHANGED <<message, delivered, stray, overlapped>>
    BY <1>2 DEF NoAccount, PauseForQuota, TaskFails, TaskDies, SetBoth, Both, TypedLbc
  <2>3. count' \in [days : Nat, commands : Nat, faults : Nat]
    BY <1>2, Counts DEF NoAccount, PauseForQuota, TaskFails, TaskDies, TypedLbc
  <2> QED
    BY <2>1, <2>2, <2>3 DEF TypedLbc
<1>3. ASSUME NEW t \in Tasks,
             ReadUsage(t) \/ TakeListing(t) \/ LeaveLoop(t) \/ PickStep(t) \/ EndReads(t)
      PROVE  TypedLbc'
  <2>1. \E new : Moves(t, new)
    <3>1. CASE ReadUsage(t)
      BY <3>1, UsageMoves
    <3>2. CASE TakeListing(t)
      BY <3>2, TakeMoves
    <3>3. CASE LeaveLoop(t)
      BY <3>3, MovesOn DEF LeaveLoop
    <3>4. CASE PickStep(t)
      BY <3>4, PickMoves
    <3>5. CASE EndReads(t)
      BY <3>5, EndMoves
    <3> QED
      BY <1>3, <3>1, <3>2, <3>3, <3>4, <3>5
  <2>2. task' \in [Tasks -> Task]
    BY <2>1, MovesTyped
  <2> QED
    BY <1>3, <2>2 DEF TypedLbc, ReadUsage, TakeListing, LeaveLoop, PickStep, EndReads
<1>4. ASSUME NEW t \in Tasks, QueueMessage(t)
      PROVE  TypedLbc'
  <2>1. task' \in [Tasks -> Task] /\ message' \in [Rows -> Message]
    BY <1>4, QueueMoves, MovesTyped DEF TypedLbc
  <2> QED
    BY <1>4, <2>1 DEF QueueMessage, TypedLbc
<1>5. ASSUME NEW t \in Tasks, Send(t) \/ SendFails(t)
      PROVE  TypedLbc'
  <2>1. task' \in [Tasks -> Task]
    BY <1>5, SendMoves, MovesTyped
  <2>2. delivered' \in [Rows -> Nat] /\ stray' \in [Tasks -> Nat]
    BY <1>5 DEF Send, SendFails, Deliver, Stray, TypedLbc, Task
  <2>3. count' \in [days : Nat, commands : Nat, faults : Nat]
    BY <1>5, Counts DEF Send, SendFails, TypedLbc
  <2> QED
    BY <1>5, <2>1, <2>2, <2>3 DEF Send, SendFails, TypedLbc
<1>6. ASSUME NEW t \in Tasks, Mark(t)
      PROVE  TypedLbc'
  <2>1. task' \in [Tasks -> Task] /\ message' \in [Rows -> Message]
    BY <1>6, MarkMoves, MovesTyped
  <2> QED
    BY <1>6, <2>1 DEF Mark, TypedLbc
<1>7. ASSUME NEW t \in Tasks, EndWrites(t)
      PROVE  TypedLbc'
  <2>1. status' \in Both /\ task' \in [Tasks -> Task]
    BY <1>7, WriteMoves, MovesTyped
  <2>2. stray' \in [Tasks -> Nat]
    BY <1>7 DEF EndWrites, TypedLbc
  <2> QED
    BY <1>7, <2>1, <2>2 DEF EndWrites, TypedLbc
<1>8. CASE Pause \/ Cancel
  <2>1. status' \in Both
    BY <1>8 DEF Pause, Cancel, SetBoth, Both
  <2>2. count' \in [days : Nat, commands : Nat, faults : Nat]
    BY <1>8, Counts DEF Pause, Cancel
  <2> QED
    BY <1>8, <2>1, <2>2 DEF Pause, Cancel, campaignVars, TypedLbc
<1>9. CASE Resume
  <2>1. (CHOOSE t \in FreeSlots : TRUE) \in Tasks
    BY <1>9 DEF Resume, FreeSlots
  <2>2. task' \in [Tasks -> Task]
    <3> DEFINE u == CHOOSE t \in FreeSlots : TRUE
    <3>1. TaskAt(u, "queued") /\ u \in Tasks
      BY <1>9, <2>1 DEF Resume
    <3> HIDE DEF u
    <3>2. Moves(u, [task[u] EXCEPT !.at = "queued"])
      BY <3>1, MovesOn
    <3> QED
      BY <3>1, <3>2, MovesTyped
  <2>3. count' \in [days : Nat, commands : Nat, faults : Nat]
    BY <1>9, Counts DEF Resume
  <2>4. status' \in Both /\ overlapped' \in BOOLEAN /\ stray' \in [Tasks -> Nat]
    BY <1>9 DEF Resume, Both, TypedLbc
  <2> QED
    BY <1>9, <2>2, <2>3, <2>4 DEF Resume, TypedLbc
<1>10. CASE DayPasses
  <2>1. \A r \in Rows : [message[r] EXCEPT !.today = FALSE] \in Message
    BY DEF TypedLbc, Message
  <2>2. message' \in [Rows -> Message]
    BY <1>10, <2>1 DEF DayPasses
  <2>3. count' \in [days : Nat, commands : Nat, faults : Nat]
    BY <1>10, Counts
  <2> QED
    BY <1>10, <2>2, <2>3 DEF DayPasses, TypedLbc
<1>11. CASE AccountsMove
  <2>1. count' \in [days : Nat, commands : Nat, faults : Nat]
    BY <1>11, Counts
       DEF AccountsMove, MoveAccount, PatchAccount, RemoveAccount, WarmUpReads, WarmUpDecides, TypedLbc
  <2>2. UNCHANGED <<status, message, delivered, task, stray, overlapped>>
    BY <1>11 DEF AccountsMove, MoveAccount, PatchAccount, RemoveAccount, WarmUpReads,
                 WarmUpDecides, campaignVars
  <2> QED
    BY <2>1, <2>2 DEF TypedLbc
<1> QED
  BY <1>0, <1>1, <1>2, <1>3, <1>4, <1>5, <1>6, <1>7, <1>8, <1>9, <1>10, <1>11
     DEF LbcNext, TaskStep

\* The actions that give a task a record at which it handles no message, and
\* touch neither messages nor deliveries.
LEMMA QuietMoves ==
  ASSUME TypedLbc, NEW t \in Tasks,
         \/ Begin(t) \/ NoAccount(t) \/ PauseForQuota(t) \/ TaskFails(t) \/ TaskDies(t)
         \/ ReadUsage(t) \/ TakeListing(t) \/ LeaveLoop(t) \/ PickStep(t)
         \/ EndReads(t) \/ EndWrites(t)
  PROVE  /\ UNCHANGED <<message, delivered>>
         /\ \E new : Moves(t, new) /\ new.at \notin {"send", "mark"}
<1>1. UNCHANGED <<message, delivered>>
  BY DEF Begin, NoAccount, PauseForQuota, TaskFails, TaskDies, ReadUsage, TakeListing, LeaveLoop,
         PickStep, EndReads, EndWrites
<1>2. CASE Begin(t)
  BY <1>1, <1>2, BeginMoves, NoTaskTyped
<1>3. CASE NoAccount(t) \/ PauseForQuota(t) \/ TaskFails(t) \/ TaskDies(t)
  BY <1>1, <1>3, Leaves, NoTaskTyped
<1>4. CASE ReadUsage(t)
  BY <1>1, <1>4, UsageMoves
<1>5. CASE TakeListing(t)
  <2>1. [task[t] EXCEPT !.at = "quota"].at = "quota"
    BY MovesOn
  <2> QED
    BY <1>1, <1>5, <2>1, TakeMoves
<1>6. CASE LeaveLoop(t)
  <2>1. Moves(t, [task[t] EXCEPT !.at = "end"]) /\ [task[t] EXCEPT !.at = "end"].at = "end"
    BY <1>6, MovesOn DEF LeaveLoop
  <2> QED
    BY <1>1, <2>1
<1>7. CASE PickStep(t)
  <2>1. [task[t] EXCEPT !.at = "check"].at = "check"
    BY MovesOn
  <2> QED
    BY <1>1, <1>7, <2>1, PickMoves
<1>8. CASE EndReads(t)
  BY <1>1, <1>8, EndMoves
<1>9. CASE EndWrites(t)
  BY <1>1, <1>9, WriteMoves
<1> QED
  BY <1>2, <1>3, <1>4, <1>5, <1>6, <1>7, <1>8, <1>9

LEMMA ResumeMoves ==
  ASSUME TypedLbc, Resume
  PROVE  /\ \E t \in Tasks : \E new : Moves(t, new) /\ new.at = "queued" /\ task[t].at = "idle"
         /\ UNCHANGED <<message, delivered>>
<1> DEFINE u == CHOOSE t \in FreeSlots : TRUE
<1>1. TaskAt(u, "queued") /\ u \in Tasks /\ task[u] = NoTask
  BY DEF Resume, FreeSlots
<1> HIDE DEF u
<1>2. /\ Moves(u, [task[u] EXCEPT !.at = "queued"])
      /\ [task[u] EXCEPT !.at = "queued"].at = "queued"
  BY <1>1, MovesOn
<1>3. UNCHANGED <<message, delivered>>
  BY DEF Resume
<1> QED
  BY <1>1, <1>2, <1>3, NoTaskTyped

\* Commands, days and accounts leave the tasks alone, except Resume.
LEMMA OthersMove ==
  ASSUME UNCHANGED lbcVars \/ Pause \/ Cancel \/ AccountsMove
  PROVE  UNCHANGED <<message, delivered, task, overlapped>>
  BY DEF lbcVars, Pause, Cancel, AccountsMove, MoveAccount, PatchAccount, RemoveAccount,
         WarmUpReads, WarmUpDecides, campaignVars

-----------------------------------------------------------------------------
(* A step is sent once.                                                    *)

Handles(t, r) == task[t].at \in {"send", "mark"} /\ task[t].row = r

\* The row of the message that a task handles is its own.
RowsAreOwned ==
  /\ \A t \in Tasks, r \in Rows : Handles(t, r) =>
       /\ message[r].status = "QUEUED" /\ message[r].account = task[t].account
       /\ task[t].at = "send" => delivered[r] = 0
       /\ task[t].at = "mark" => task[t].result # "none"
  /\ \A t, u \in Tasks, r \in Rows : Handles(t, r) /\ Handles(u, r) => t = u

\* What was delivered has a row, whose key nobody takes again.
DeliveredHaveRows ==
  \A r \in Rows : delivered[r] <= 1 /\ (delivered[r] = 1 => message[r].status # "none")

SendInv == RowsAreOwned /\ DeliveredHaveRows

LEMMA QuietKeeps ==
  ASSUME TypedLbc, SendInv, NEW t \in Tasks, NEW new, Moves(t, new),
         new.at \notin {"send", "mark"}, UNCHANGED <<message, delivered>>
  PROVE  SendInv'
<1>1. \A u \in Tasks : task'[u] = IF u = t THEN new ELSE task[u]
  BY DEF Moves, TypedLbc
<1>2. \A u \in Tasks, r \in Rows : Handles(u, r)' => Handles(u, r) /\ task'[u] = task[u]
  BY <1>1 DEF Handles
<1> QED
  BY <1>2 DEF SendInv, RowsAreOwned, DeliveredHaveRows

LEMMA SendStart == InitLbc => SendInv
<1> SUFFICES ASSUME InitLbc PROVE SendInv
  OBVIOUS
<1>1. \A t \in Tasks : task[t].at \in {"queued", "idle"}
  BY NoTaskTyped DEF InitLbc, Task
<1> QED
  BY <1>1 DEF InitLbc, SendInv, RowsAreOwned, DeliveredHaveRows, Handles

LEMMA SendSteps == TypedLbc /\ SendInv /\ [LbcNext]_lbcVars => SendInv'
<1> SUFFICES ASSUME TypedLbc, SendInv, [LbcNext]_lbcVars PROVE SendInv'
  OBVIOUS
<1> USE DEF SendInv
<1>1. ASSUME NEW t \in Tasks, QueueMessage(t)
      PROVE  SendInv'
  <2> DEFINE r == task[t].row
  <2>0. delivered' = delivered /\ r \in Rows /\ r = task[t].row
    BY <1>1 DEF QueueMessage, TypedLbc, Task
  <2> HIDE DEF r
  <2>1. CASE message[r].status # "none"
    <3>1. /\ message' = message /\ Moves(t, [task[t] EXCEPT !.at = "check"])
          /\ [task[t] EXCEPT !.at = "check"].at = "check"
      BY <1>1, <2>0, <2>1, QueueMoves, MovesOn
    <3> QED
      BY <2>0, <3>1, QuietKeeps
  <2>2. CASE message[r].status = "none"
    <3>1. PICK row \in Message :
            /\ row.status = "QUEUED" /\ row.account = task[t].account
            /\ message' = [message EXCEPT ![r] = row]
            /\ Moves(t, [task[t] EXCEPT !.at = "send"])
      BY <1>1, <2>0, <2>2, QueueMoves
    <3>2. /\ task'[t].at = "send" /\ task'[t].row = r /\ task'[t].account = task[t].account
          /\ \A u \in Tasks \ {t} : task'[u] = task[u]
      BY <2>0, <3>1, MovesOn DEF Moves, TypedLbc
    <3>3. message'[r] = row /\ \A q \in Rows \ {r} : message'[q] = message[q]
      BY <2>0, <3>1 DEF TypedLbc
    <3>4. delivered[r] = 0
      BY <2>0, <2>2 DEF DeliveredHaveRows, TypedLbc
    <3>5. \A u \in Tasks : ~Handles(u, r)
      BY <2>0, <2>2 DEF RowsAreOwned
    <3>6. RowsAreOwned'
      BY <2>0, <3>1, <3>2, <3>3, <3>4, <3>5 DEF RowsAreOwned, Handles
    <3>7. DeliveredHaveRows'
      BY <2>0, <3>1, <3>3 DEF DeliveredHaveRows
    <3> QED
      BY <3>6, <3>7
  <2> QED
    BY <2>1, <2>2
<1>2. ASSUME NEW t \in Tasks, Send(t) \/ SendFails(t)
      PROVE  SendInv'
  <2> DEFINE r == task[t].row
  <2>0. /\ message' = message /\ r \in Rows /\ r = task[t].row /\ task[t].at = "send"
        /\ delivered' = [delivered EXCEPT ![r] = @ + 1] \/ delivered' = delivered
    BY <1>2 DEF Send, SendFails, Deliver, TypedLbc, Task
  <2> HIDE DEF r
  <2>1. /\ task'[t].at = "mark" /\ task'[t].row = r /\ task'[t].account = task[t].account
        /\ task'[t].result # "none"
        /\ \A u \in Tasks \ {t} : task'[u] = task[u]
    BY <1>2, <2>0, SendMoves DEF Moves, TypedLbc
  <2>2. message[r].status = "QUEUED" /\ message[r].account = task[t].account /\ delivered[r] = 0
    BY <2>0 DEF RowsAreOwned, Handles
  <2>3. \A u \in Tasks \ {t} : ~Handles(u, r)
    BY <2>0 DEF RowsAreOwned, Handles
  <2>4. delivered'[r] \in {0, 1} /\ \A q \in Rows \ {r} : delivered'[q] = delivered[q]
    BY <2>0, <2>2 DEF TypedLbc
  <2>5. RowsAreOwned'
    BY <2>0, <2>1, <2>2, <2>3, <2>4 DEF RowsAreOwned, Handles
  <2>6. DeliveredHaveRows'
    BY <2>0, <2>2, <2>4 DEF DeliveredHaveRows
  <2> QED
    BY <2>5, <2>6
<1>3. ASSUME NEW t \in Tasks, Mark(t)
      PROVE  SendInv'
  <2> DEFINE r == task[t].row
  <2>0. delivered' = delivered /\ r \in Rows /\ r = task[t].row /\ task[t].at = "mark"
    BY <1>3 DEF Mark, TypedLbc, Task
  <2> HIDE DEF r
  <2>1. /\ task'[t].at = "check"
        /\ \A u \in Tasks \ {t} : task'[u] = task[u]
    <3>1. PICK new : Moves(t, new) /\ new.at = "check"
      BY <1>3, MarkMoves
    <3> QED
      BY <3>1 DEF Moves, TypedLbc
  <2>2. \A u \in Tasks \ {t} : ~Handles(u, r)
    BY <2>0 DEF RowsAreOwned, Handles
  <2>3. /\ message'[r].status # "none"
        /\ \A q \in Rows \ {r} : message'[q] = message[q]
    <3>1. message'[r] = [message[r] EXCEPT !.status = task[t].result]
      BY <1>3, <2>0, MarkMoves
    <3>2. task[t].result # "none"
      BY <2>0 DEF RowsAreOwned, Handles
    <3>3. message'[r].status = task[t].result
      BY <2>0, <3>1 DEF TypedLbc, Message
    <3> QED
      BY <1>3, <2>0, <3>2, <3>3, MarkMoves
  <2>4. RowsAreOwned'
    BY <2>0, <2>1, <2>2, <2>3 DEF RowsAreOwned, Handles
  <2>5. DeliveredHaveRows'
    BY <2>0, <2>3 DEF DeliveredHaveRows
  <2> QED
    BY <2>4, <2>5
<1>4. CASE DayPasses
  <2>1. \A r \in Rows : /\ message'[r].status = message[r].status
                        /\ message'[r].account = message[r].account
    BY <1>4 DEF DayPasses, TypedLbc, Message
  <2>2. UNCHANGED <<task, delivered>>
    BY <1>4 DEF DayPasses
  <2> QED
    BY <2>1, <2>2 DEF RowsAreOwned, DeliveredHaveRows, Handles
<1>5. CASE Resume
  <2>1. PICK t \in Tasks : \E new : Moves(t, new) /\ new.at = "queued"
    BY <1>5, ResumeMoves
  <2>2. PICK new : Moves(t, new) /\ new.at = "queued"
    BY <2>1
  <2> QED
    BY <1>5, <2>2, ResumeMoves, QuietKeeps
<1>6. CASE UNCHANGED lbcVars \/ Pause \/ Cancel \/ AccountsMove
  BY <1>6, OthersMove DEF RowsAreOwned, DeliveredHaveRows, Handles
<1>7. ASSUME NEW t \in Tasks,
         \/ Begin(t) \/ NoAccount(t) \/ PauseForQuota(t) \/ TaskFails(t) \/ TaskDies(t)
         \/ ReadUsage(t) \/ TakeListing(t) \/ LeaveLoop(t) \/ PickStep(t)
         \/ EndReads(t) \/ EndWrites(t)
      PROVE  SendInv'
  BY <1>7, QuietMoves, QuietKeeps
<1> QED
  BY <1>1, <1>2, <1>3, <1>4, <1>5, <1>6, <1>7 DEF LbcNext, TaskStep

\* SendsOnce: for any number of listings, accounts and tasks, whatever fails,
\* dies, is paused or resumed in lbc_messaging.py, each seller receives each
\* step at most once.
THEOREM SendsOnce == InitLbc /\ [][LbcNext]_lbcVars => []StepsAreSentOnce
<1>1. SendInv => StepsAreSentOnce
  BY DEF SendInv, DeliveredHaveRows, StepsAreSentOnce
<1> QED
  BY <1>1, TypesStart, TypesSteps, SendStart, SendSteps, PTL

-----------------------------------------------------------------------------
(* A pause takes hold within one message.                                  *)

\* A task that sent a message since the campaign stopped is past the check
\* that will make it leave.
StrayInv ==
  \A t \in Tasks :
    /\ stray[t] <= 1
    /\ stray[t] = 1 => /\ status.campaign # "RUNNING"
                       /\ task[t].at \in {"idle", "queued", "mark", "check", "end", "write"}

\* Steps that count no message and do not let the campaign run again.
LEMMA StrayKept ==
  ASSUME TypedLbc, StrayInv, NEW t \in Tasks, NEW new, Moves(t, new), stray' = stray,
         status'.campaign = "RUNNING" => status.campaign = "RUNNING",
         stray[t] = 1 => new.at \in {"idle", "queued", "mark", "check", "end", "write"}
  PROVE  StrayInv'
<1>1. \A u \in Tasks : task'[u] = IF u = t THEN new ELSE task[u]
  BY DEF Moves, TypedLbc
<1> QED
  BY <1>1 DEF StrayInv

LEMMA StraySteps == TypedLbc /\ StrayInv /\ [LbcNext]_lbcVars => StrayInv'
<1> SUFFICES ASSUME TypedLbc, StrayInv, [LbcNext]_lbcVars PROVE StrayInv'
  OBVIOUS
<1>1. ASSUME NEW t \in Tasks,
             \/ Begin(t) \/ ReadUsage(t) \/ TakeListing(t) \/ PickStep(t) \/ QueueMessage(t)
             \/ LeaveLoop(t) \/ EndReads(t) \/ Mark(t)
             \/ NoAccount(t) \/ PauseForQuota(t) \/ TaskFails(t) \/ TaskDies(t)
      PROVE  StrayInv'
  <2>1. stray' = stray /\ (status'.campaign = "RUNNING" => status.campaign = "RUNNING")
    <3>1. stray' = stray
      BY <1>1 DEF Begin, ReadUsage, TakeListing, PickStep, QueueMessage, LeaveLoop, EndReads,
                  Mark, NoAccount, PauseForQuota, TaskFails, TaskDies
    <3>2. CASE Begin(t)
      BY <3>1, <3>2, BeginMoves
    <3>3. CASE NoAccount(t) \/ PauseForQuota(t) \/ TaskFails(t)
      BY <3>1, <3>3 DEF NoAccount, PauseForQuota, TaskFails, SetBoth
    <3>4. CASE \/ ReadUsage(t) \/ TakeListing(t) \/ PickStep(t) \/ QueueMessage(t)
               \/ LeaveLoop(t) \/ EndReads(t) \/ Mark(t) \/ TaskDies(t)
      BY <3>1, <3>4 DEF ReadUsage, TakeListing, PickStep, QueueMessage, LeaveLoop, EndReads, Mark,
                        TaskDies
    <3> QED
      BY <1>1, <3>2, <3>3, <3>4
  <2>2. \E new : /\ Moves(t, new)
                 /\ stray[t] = 1 => new.at \in {"idle", "queued", "mark", "check", "end", "write"}
    <3>1. CASE Begin(t)
      BY <3>1, BeginMoves, NoTaskTyped DEF StrayInv
    <3>2. CASE ReadUsage(t)
      BY <3>2, UsageMoves
    <3>3. CASE TakeListing(t)
      <4>1. stray[t] # 1
        BY <3>3 DEF TakeListing, MayContinue, StrayInv
      <4> QED
        BY <3>3, <4>1, TakeMoves
    <3>4. CASE PickStep(t)
      <4>1. stray[t] # 1
        BY <3>4 DEF PickStep, StrayInv
      <4> QED
        BY <3>4, <4>1, PickMoves
    <3>5. CASE QueueMessage(t)
      <4>1. stray[t] # 1
        BY <3>5 DEF QueueMessage, StrayInv
      <4> QED
        BY <3>5, <4>1, QueueMoves
    <3>6. CASE LeaveLoop(t)
      <4>1. Moves(t, [task[t] EXCEPT !.at = "end"]) /\ [task[t] EXCEPT !.at = "end"].at = "end"
        BY <3>6, MovesOn DEF LeaveLoop
      <4> QED
        BY <4>1
    <3>7. CASE EndReads(t)
      BY <3>7, EndMoves
    <3>8. CASE Mark(t)
      BY <3>8, MarkMoves
    <3>9. CASE NoAccount(t) \/ PauseForQuota(t) \/ TaskFails(t) \/ TaskDies(t)
      BY <3>9, Leaves, NoTaskTyped
    <3> QED
      BY <1>1, <3>1, <3>2, <3>3, <3>4, <3>5, <3>6, <3>7, <3>8, <3>9
  <2> QED
    BY <2>1, <2>2, StrayKept
<1>2. ASSUME NEW t \in Tasks, Send(t) \/ SendFails(t)
      PROVE  StrayInv'
  <2>1. status' = status /\ task[t].at = "send" /\ Stray(t)
    BY <1>2 DEF Send, SendFails
  <2>2. stray[t] = 0
    BY <2>1 DEF StrayInv, TypedLbc
  <2>3. task'[t].at = "mark" /\ \A u \in Tasks \ {t} : task'[u] = task[u]
    <3>1. PICK new : Moves(t, new) /\ new.at = "mark"
      BY <1>2, SendMoves
    <3> QED
      BY <3>1 DEF Moves, TypedLbc
  <2>4. /\ stray'[t] <= 1 /\ (stray'[t] = 1 => status.campaign # "RUNNING")
        /\ \A u \in Tasks \ {t} : stray'[u] = stray[u]
    BY <2>1, <2>2 DEF Stray, TypedLbc
  <2> QED
    BY <2>1, <2>3, <2>4 DEF StrayInv
<1>3. ASSUME NEW t \in Tasks, EndWrites(t)
      PROVE  StrayInv'
  <2>1. PICK new : Moves(t, new) /\ new.at \in {"idle", "queued"}
    BY <1>3, WriteMoves
  <2>2. CASE status'.campaign = "RUNNING" /\ status.campaign # "RUNNING"
    <3>1. \A u \in Tasks : stray'[u] = 0
      BY <1>3, <2>2 DEF EndWrites
    <3> QED
      BY <3>1 DEF StrayInv
  <2>3. CASE ~(status'.campaign = "RUNNING" /\ status.campaign # "RUNNING")
    <3>1. stray' = stray
      BY <1>3, <2>3 DEF EndWrites
    <3> QED
      BY <2>1, <2>3, <3>1, StrayKept
  <2> QED
    BY <2>2, <2>3
<1>4. CASE Resume
  <2>1. \A t \in Tasks : stray'[t] = 0
    BY <1>4 DEF Resume
  <2> QED
    BY <2>1 DEF StrayInv
<1>5. CASE DayPasses \/ UNCHANGED lbcVars \/ Pause \/ Cancel \/ AccountsMove
  <2>1. UNCHANGED <<task, stray>> /\ (status'.campaign = "RUNNING" => status.campaign = "RUNNING")
    BY <1>5 DEF DayPasses, lbcVars, Pause, Cancel, AccountsMove, MoveAccount, PatchAccount,
                RemoveAccount, WarmUpReads, WarmUpDecides, campaignVars, SetBoth
  <2> QED
    BY <2>1 DEF StrayInv
<1> QED
  BY <1>1, <1>2, <1>3, <1>4, <1>5 DEF LbcNext, TaskStep

\* PausesTakeHold: once a campaign is paused, cancelled or failed, each of its
\* tasks sends one more message at most (_may_continue before each listing).
THEOREM PausesTakeHold == InitLbc /\ [][LbcNext]_lbcVars => []StopsAfterOneMessage
<1>1. InitLbc => StrayInv
  BY DEF InitLbc, StrayInv
<1>2. StrayInv => StopsAfterOneMessage
  BY DEF StrayInv, StopsAfterOneMessage
<1> QED
  BY <1>1, <1>2, TypesStart, TypesSteps, StraySteps, PTL

-----------------------------------------------------------------------------
(* A completed campaign has treated every listing.                         *)

\* Without overlap one task has a batch, and it has not been paused unnoticed.
Alone ==
  ~overlapped =>
    /\ \A t, u \in Tasks : Active(t) /\ Active(u) => t = u
    /\ \A t \in Tasks : Active(t) =>
         \/ status.campaign = "RUNNING" /\ status.run = "RUNNING"
         \/ status.campaign \in {"PAUSED", "CANCELLED"}

\* What is untouched is still in the last batch; nothing is left at its end,
\* and what the end of the batch has seen was seen after that.
LastBatchCovers ==
  ~overlapped => \A t \in Tasks : Active(t) =>
    /\ ~task[t].more /\ status.campaign = "RUNNING" =>
         \A l \in Listings : Untouched(l) =>
            \/ l \in task[t].todo
            \/ task[t].at \in {"step", "queue"} /\ l = task[t].row[1]
    /\ task[t].at \in {"end", "write"} /\ status.campaign = "RUNNING" => task[t].todo = {}
    /\ task[t].at = "write" /\ ~task[t].more
         /\ task[t].seen.campaign \notin {"PAUSED", "CANCELLED"} =>
            \A l \in Listings : ~Untouched(l)

CoverInv == Alone /\ LastBatchCovers /\ CompletedIsTreated

TouchedStays == \A l \in Listings : Untouched(l)' => Untouched(l)

\* No step takes the row of a message away.
LEMMA NoRowVanishes ==
  ASSUME TypedLbc, SendInv, [LbcNext]_lbcVars
  PROVE  TouchedStays
<1>1. ASSUME \A r \in Rows : message'[r].status = "none" => message[r].status = "none"
      PROVE  TouchedStays
  BY <1>1 DEF TouchedStays, Untouched, Rows
<1>2. ASSUME NEW t \in Tasks, QueueMessage(t)
      PROVE  TouchedStays
  <2>1. task[t].row \in Rows
    BY DEF TypedLbc, Task
  <2>2. \A r \in Rows : message'[r].status = "none" => message[r].status = "none"
    BY <1>2, <2>1, QueueMoves DEF TypedLbc
  <2> QED
    BY <1>1, <2>2
<1>3. ASSUME NEW t \in Tasks, Mark(t)
      PROVE  TouchedStays
  <2>1. task[t].at = "mark" /\ task[t].row \in Rows
    BY <1>3 DEF Mark, TypedLbc, Task
  <2>2. message[task[t].row].status # "none"
    BY <2>1 DEF SendInv, RowsAreOwned, Handles
  <2>3. \A r \in Rows : message'[r].status = "none" => message[r].status = "none"
        \/ r = task[t].row
    BY <1>3, MarkMoves
  <2>4. message'[task[t].row].status # "none"
    <3>1. message'[task[t].row].status = task[t].result
      <4>1. message[task[t].row] \in Message
        BY <2>1 DEF TypedLbc
      <4>2. message'[task[t].row] = [message[task[t].row] EXCEPT !.status = task[t].result]
        BY <1>3, MarkMoves
      <4> QED
        BY <4>1, <4>2 DEF Message
    <3> QED
      BY <2>1, <3>1 DEF SendInv, RowsAreOwned, Handles
  <2> QED
    BY <1>1, <2>1, <2>2, <2>3, <2>4
<1>4. CASE DayPasses
  <2>1. \A r \in Rows : message'[r].status = message[r].status
    BY <1>4 DEF DayPasses, TypedLbc, Message
  <2> QED
    BY <1>1, <2>1
<1>5. ASSUME message' = message PROVE TouchedStays
  BY <1>1, <1>5
<1>6. ASSUME NEW t \in Tasks, Send(t) \/ SendFails(t) PROVE message' = message
  BY <1>6 DEF Send, SendFails
<1> QED
  BY <1>2, <1>3, <1>4, <1>5, <1>6, QuietMoves, ResumeMoves, OthersMove DEF LbcNext, TaskStep

\* The first batch of eligible listings that is not full is all of them.
LEMMA LastBatchIsAll ==
  ASSUME NEW B \in SUBSET Eligible, ~More,
         Cardinality(B) = Min({BatchSize, Cardinality(Eligible)})
  PROVE  \A l \in Listings : Untouched(l) => l \in B
<1>1. IsFiniteSet(Eligible) /\ Cardinality(Eligible) \in Nat
  BY LbcAssumption, FS_Subset, FS_CardinalityType DEF Eligible
<1>2. Cardinality(Eligible) <= BatchSize
  BY <1>1, LbcAssumption DEF More
<1>3. Min({BatchSize, Cardinality(Eligible)}) = Cardinality(Eligible)
  <2> DEFINE n == Cardinality(Eligible)
  <2>1. n \in Nat /\ n <= BatchSize /\ BatchSize \in Nat
    BY <1>1, <1>2, LbcAssumption
  <2> HIDE DEF n
  <2>2. n \in {BatchSize, n} /\ \A y \in {BatchSize, n} : n <= y
    BY <2>1
  <2>3. /\ Min({BatchSize, n}) \in {BatchSize, n}
        /\ \A y \in {BatchSize, n} : Min({BatchSize, n}) <= y
    BY <2>2 DEF Min
  <2>4. Min({BatchSize, n}) = n
    BY <2>1, <2>2, <2>3
  <2> QED
    BY <2>4 DEF n
<1>4. B = Eligible
  BY <1>1, <1>3, FS_Subset
<1>5. ASSUME NEW l \in Listings, Untouched(l)
      PROVE  l \in Eligible
  <2>1. Counted(l) = {}
    BY <1>5 DEF Counted, Untouched
  <2>2. Cardinality(Counted(l)) = 0
    BY <2>1, FS_EmptySet
  <2> QED
    BY <2>1, <2>2 DEF Eligible
<1> QED
  BY <1>4, <1>5

\* A listing whose messages count is not untouched.
LEMMA CountedIsTouched ==
  ASSUME NEW l \in Listings, Cardinality(Counted(l)) # 0
  PROVE  ~Untouched(l)
<1>1. Counted(l) # {}
  BY FS_EmptySet
<1> QED
  BY <1>1 DEF Counted, Untouched

\* A step of the one task that has a batch, which leaves the statuses alone.
LEMMA BatchGoesOn ==
  ASSUME TypedLbc, CoverInv, TouchedStays, NEW t \in Tasks, Active(t), NEW new, Moves(t, new),
         UNCHANGED <<status, overlapped>>,
         ~overlapped /\ new.at \notin {"idle", "queued"} =>
           /\ ~new.more /\ status.campaign = "RUNNING" =>
                \A l \in Listings : Untouched(l)' =>
                  \/ l \in new.todo
                  \/ new.at \in {"step", "queue"} /\ l = new.row[1]
           /\ new.at \in {"end", "write"} /\ status.campaign = "RUNNING" => new.todo = {}
           /\ new.at = "write" /\ ~new.more
                /\ new.seen.campaign \notin {"PAUSED", "CANCELLED"} =>
                   \A l \in Listings : ~Untouched(l)'
  PROVE  CoverInv'
<1>1. \A u \in Tasks : task'[u] = IF u = t THEN new ELSE task[u]
  BY DEF Moves, TypedLbc
<1>2. \A u \in Tasks : Active(u)' => Active(u)
  BY <1>1 DEF Active
<1>3. Alone'
  BY <1>2 DEF CoverInv, Alone
<1>4. CompletedIsTreated'
  BY DEF CoverInv, CompletedIsTreated, TouchedStays
<1>5. CASE overlapped
  BY <1>3, <1>4, <1>5 DEF CoverInv, LastBatchCovers
<1>6. CASE ~overlapped
  <2>1. \A u \in Tasks : Active(u)' => u = t
    BY <1>2, <1>6 DEF CoverInv, Alone
  <2>2. task'[t] = new /\ (Active(t)' => new.at \notin {"idle", "queued"})
    BY <1>1 DEF Active
  <2>3. LastBatchCovers'
    BY <1>6, <2>1, <2>2 DEF LastBatchCovers
  <2> QED
    BY <1>3, <1>4, <2>3 DEF CoverInv
<1> QED
  BY <1>5, <1>6

\* The one task that has a batch lets it go: what remains to be shown is that
\* nothing is untouched when the campaign is COMPLETED.
LEMMA BatchIsLet ==
  ASSUME TypedLbc, CoverInv, NEW t \in Tasks, Active(t), NEW new, Moves(t, new),
         overlapped' = overlapped, new.at \in {"idle", "queued"}, CompletedIsTreated'
  PROVE  CoverInv'
<1>1. \A u \in Tasks : task'[u] = IF u = t THEN new ELSE task[u]
  BY DEF Moves, TypedLbc
<1>2. ~overlapped => \A u \in Tasks : ~Active(u)'
  BY <1>1 DEF CoverInv, Alone, Active
<1> QED
  BY <1>2 DEF CoverInv, Alone, LastBatchCovers

\* Nobody gets a batch, and the campaign does not go on running.
LEMMA NobodyBegins ==
  ASSUME TypedLbc, CoverInv, TouchedStays, NEW t \in Tasks, ~Active(t), NEW new, Moves(t, new),
         new.at \in {"idle", "queued"}, UNCHANGED <<status, overlapped>>
  PROVE  CoverInv'
<1>1. \A u \in Tasks : task'[u] = IF u = t THEN new ELSE task[u]
  BY DEF Moves, TypedLbc
<1>2. \A u \in Tasks : Active(u)' => Active(u) /\ task'[u] = task[u]
  BY <1>1 DEF Active
<1>3. Alone'
  BY <1>2 DEF CoverInv, Alone
<1>4. LastBatchCovers'
  BY <1>2 DEF CoverInv, LastBatchCovers, TouchedStays
<1>5. CompletedIsTreated'
  BY DEF CoverInv, CompletedIsTreated, TouchedStays
<1> QED
  BY <1>3, <1>4, <1>5 DEF CoverInv

LEMMA BeginCovers ==
  ASSUME TypedLbc, CoverInv, TouchedStays, NEW t \in Tasks, Begin(t)
  PROVE  CoverInv'
<1>0. task[t].at = "queued" /\ ~Active(t) /\ message' = message
  BY DEF Begin, Active
<1>1. CASE status.campaign # "RUNNING"
  BY <1>0, <1>1, BeginMoves, NobodyBegins, NoTaskTyped
<1>2. CASE status.campaign = "RUNNING"
  <2>1. /\ status'.campaign = "RUNNING" /\ status'.run = "RUNNING"
        /\ overlapped' = (overlapped \/ \E u \in Tasks \ {t} : Active(u))
    BY <1>2, BeginMoves
  <2>2. PICK new : /\ Moves(t, new)
                   /\ new.at \in {"usage", "none"}
                   /\ new.more = More
                   /\ new.todo \in SUBSET Eligible
                   /\ Cardinality(new.todo) = Min({BatchSize, Cardinality(Eligible)})
    BY <1>2, BeginMoves
  <2>3. ~new.more => \A l \in Listings : Untouched(l) => l \in new.todo
    BY <2>2, LastBatchIsAll
  <2>4. \A u \in Tasks : task'[u] = IF u = t THEN new ELSE task[u]
    BY <2>2 DEF Moves, TypedLbc
  <2>5. ~overlapped' => \A u \in Tasks : Active(u)' => u = t
    BY <2>1, <2>4 DEF Active, TypedLbc
  <2>6. Alone'
    BY <2>1, <2>5 DEF Alone
  <2>7. \A l \in Listings : Untouched(l)' => Untouched(l)
    BY DEF TouchedStays
  <2>8. LastBatchCovers'
    BY <2>2, <2>3, <2>4, <2>5, <2>7 DEF LastBatchCovers
  <2>9. CompletedIsTreated'
    BY <2>1 DEF CompletedIsTreated
  <2> QED
    BY <2>6, <2>8, <2>9 DEF CoverInv
<1> QED
  BY <1>1, <1>2

LEMMA BatchStepsCover ==
  ASSUME TypedLbc, CoverInv, TouchedStays, NEW t \in Tasks,
         \/ ReadUsage(t) \/ TakeListing(t) \/ LeaveLoop(t) \/ PickStep(t) \/ QueueMessage(t)
         \/ Send(t) \/ SendFails(t) \/ Mark(t) \/ EndReads(t)
  PROVE  CoverInv'
<1>0. Active(t) /\ UNCHANGED <<status, overlapped>>
  BY DEF Active, ReadUsage, TakeListing, LeaveLoop, PickStep, QueueMessage, Send, SendFails, Mark,
         EndReads
<1>a. PICK l0 : l0 = task[t].row[1]
  OBVIOUS
<1>1. ~overlapped /\ ~task[t].more /\ status.campaign = "RUNNING" =>
        \A l \in Listings : Untouched(l)' =>
          \/ l \in task[t].todo
          \/ task[t].at \in {"step", "queue"} /\ l = l0
  BY <1>0, <1>a DEF CoverInv, LastBatchCovers, TouchedStays
<1>2. CASE ReadUsage(t)
  <2>1. task[t].at = "usage"
    BY <1>2 DEF ReadUsage
  <2> QED
    BY <1>0, <1>1, <1>2, <2>1, UsageMoves, BatchGoesOn
<1>3. CASE TakeListing(t)
  <2>1. task[t].at = "check"
    BY <1>3 DEF TakeListing
  <2>2. CASE Moves(t, [task[t] EXCEPT !.at = "quota"])
    <3> DEFINE new == [task[t] EXCEPT !.at = "quota"]
    <3>1. new.at = "quota" /\ new.todo = task[t].todo /\ new.more = task[t].more
      BY MovesOn
    <3>2. Moves(t, new)
      BY <2>2
    <3> HIDE DEF new
    <3> QED
      BY <1>0, <1>1, <2>1, <3>1, <3>2, BatchGoesOn
  <2>3. ASSUME NEW new, NEW l \in task[t].todo,
               Moves(t, new), new.at = "step", new.row = <<l, 0>>,
               new.todo = task[t].todo \ {l}, new.more = task[t].more
        PROVE  CoverInv'
    <3>1. new.row[1] = l
      BY <2>3
    <3> QED
      BY <1>0, <1>1, <2>1, <2>3, <3>1, BatchGoesOn
  <2> QED
    BY <1>3, <2>2, <2>3, TakeMoves
<1>4. CASE LeaveLoop(t)
  <2> DEFINE new == [task[t] EXCEPT !.at = "end"]
  <2>1. task[t].at = "check" /\ (task[t].todo = {} \/ ~MayContinue(status))
    BY <1>4 DEF LeaveLoop
  <2>2. /\ Moves(t, new) /\ new.at = "end" /\ new.todo = task[t].todo /\ new.more = task[t].more
    BY <1>4, MovesOn DEF LeaveLoop
  <2>3. ~overlapped /\ status.campaign = "RUNNING" => task[t].todo = {}
    BY <1>0, <2>1 DEF MayContinue, CoverInv, Alone
  <2> HIDE DEF new
  <2> QED
    BY <1>0, <1>1, <2>1, <2>2, <2>3, BatchGoesOn
<1>5. CASE PickStep(t)
  <2>1. task[t].at = "step" /\ l0 \in Listings /\ l0 = task[t].row[1]
    BY <1>a, <1>5 DEF PickStep, TypedLbc, Task, Rows
  <2>2. CASE Moves(t, [task[t] EXCEPT !.at = "check"]) /\ Cardinality(Counted(l0)) # 0
    <3> DEFINE new == [task[t] EXCEPT !.at = "check"]
    <3>1. Moves(t, new) /\ new.at = "check" /\ new.todo = task[t].todo /\ new.more = task[t].more
      BY <2>2, MovesOn
    <3>2. ~Untouched(l0)'
      <4>1. ~Untouched(l0)
        BY <2>1, <2>2, CountedIsTouched
      <4> QED
        BY <2>1, <4>1 DEF TouchedStays
    <3> HIDE DEF new
    <3>3. ~overlapped /\ ~new.more /\ status.campaign = "RUNNING" =>
            \A l \in Listings : Untouched(l)' => l \in new.todo
      BY <1>1, <3>1, <3>2
    <3> QED
      BY <1>0, <3>1, <3>3, BatchGoesOn
  <2>3. ASSUME NEW new, NEW s, Moves(t, new), new.at = "queue", new.row = <<l0, s>>,
               new.todo = task[t].todo, new.more = task[t].more
        PROVE  CoverInv'
    <3>1. new.row[1] = l0
      BY <2>3
    <3> QED
      BY <1>0, <1>1, <2>1, <2>3, <3>1, BatchGoesOn
  <2> QED
    BY <1>5, <2>1, <2>2, <2>3, PickMoves
<1>6. CASE QueueMessage(t)
  <2>1. task[t].at = "queue" /\ task[t].row \in Rows /\ l0 \in Listings /\ l0 = task[t].row[1]
        /\ task[t].row = <<l0, task[t].row[2]>> /\ task[t].row[2] \in Steps
    BY <1>a, <1>6 DEF QueueMessage, TypedLbc, Task, Rows
  <2>2. message'[task[t].row].status # "none"
    BY <1>6, <2>1, QueueMoves DEF TypedLbc
  <2>3. ~Untouched(l0)'
    <3>1. message'[<<l0, task[t].row[2]>>].status # "none"
      BY <2>1, <2>2
    <3> QED
      BY <2>1, <3>1 DEF Untouched
  <2>4. \E new : /\ Moves(t, new) /\ new.at \in {"send", "check"}
                 /\ new.todo = task[t].todo /\ new.more = task[t].more
    <3>1. ASSUME NEW at \in {"send", "check"}
          PROVE  /\ [task[t] EXCEPT !.at = at].at = at
                 /\ [task[t] EXCEPT !.at = at].todo = task[t].todo
                 /\ [task[t] EXCEPT !.at = at].more = task[t].more
      BY MovesOn
    <3>2. \E at \in {"send", "check"} : Moves(t, [task[t] EXCEPT !.at = at])
      BY <1>6, QueueMoves
    <3> QED
      BY <3>1, <3>2
  <2>5. PICK new : /\ Moves(t, new) /\ new.at \in {"send", "check"}
                   /\ new.todo = task[t].todo /\ new.more = task[t].more
    BY <2>4
  <2>6. ~overlapped /\ ~new.more /\ status.campaign = "RUNNING" =>
          \A l \in Listings : Untouched(l)' => l \in new.todo
    BY <1>1, <2>3, <2>5
  <2> QED
    BY <1>0, <2>5, <2>6, BatchGoesOn
<1>7. CASE Send(t) \/ SendFails(t)
  <2>1. task[t].at = "send"
    BY <1>7 DEF Send, SendFails
  <2> QED
    BY <1>0, <1>1, <1>7, <2>1, SendMoves, BatchGoesOn
<1>8. CASE Mark(t)
  <2>1. task[t].at = "mark"
    BY <1>8 DEF Mark
  <2> QED
    BY <1>0, <1>1, <1>8, <2>1, MarkMoves, BatchGoesOn
<1>9. CASE EndReads(t)
  <2>1. task[t].at = "end"
    BY <1>9 DEF EndReads
  <2>2. PICK new : /\ Moves(t, new) /\ new.at = "write" /\ new.seen = status
                   /\ new.todo = task[t].todo /\ new.more = task[t].more
    BY <1>9, EndMoves
  <2>3. ~overlapped /\ status.campaign = "RUNNING" => task[t].todo = {}
    BY <1>0, <2>1 DEF CoverInv, LastBatchCovers
  <2>4. ~overlapped /\ status.campaign \notin {"PAUSED", "CANCELLED"} => status.campaign = "RUNNING"
    BY <1>0 DEF CoverInv, Alone
  <2> QED
    BY <1>0, <1>1, <2>1, <2>2, <2>3, <2>4, BatchGoesOn
<1> QED
  BY <1>2, <1>3, <1>4, <1>5, <1>6, <1>7, <1>8, <1>9

LEMMA EndCovers ==
  ASSUME TypedLbc, CoverInv, TouchedStays, NEW t \in Tasks, EndWrites(t)
  PROVE  CoverInv'
<1>1. Active(t) /\ UNCHANGED <<message, overlapped>> /\ task[t].at = "write"
  BY DEF EndWrites, Active
<1>2. PICK new : Moves(t, new) /\ new.at \in {"idle", "queued"}
  BY WriteMoves
<1>3. CompletedIsTreated'
  <2> SUFFICES ASSUME status'.campaign = "COMPLETED", ~overlapped
               PROVE  \A l \in Listings : ~Untouched(l)'
    BY <1>1 DEF CompletedIsTreated
  <2>1. CASE status.campaign = "COMPLETED"
    BY <2>1 DEF CoverInv, CompletedIsTreated, TouchedStays
  <2>2. CASE status.campaign # "COMPLETED"
    <3>1. FinalStatus(t) = "COMPLETED"
      BY <2>2, WriteMoves
    <3>2. ~task[t].more /\ task[t].seen.campaign \notin {"PAUSED", "CANCELLED"}
      BY <3>1 DEF FinalStatus
    <3> QED
      BY <1>1, <3>2 DEF CoverInv, LastBatchCovers, TouchedStays
  <2> QED
    BY <2>1, <2>2
<1> QED
  BY <1>1, <1>2, <1>3, BatchIsLet

LEMMA CoverSteps == TypedLbc /\ SendInv /\ CoverInv /\ [LbcNext]_lbcVars => CoverInv'
<1> SUFFICES ASSUME TypedLbc, SendInv, CoverInv, [LbcNext]_lbcVars PROVE CoverInv'
  OBVIOUS
<1>0. TouchedStays
  BY NoRowVanishes
<1>1. ASSUME NEW t \in Tasks, NoAccount(t) \/ PauseForQuota(t) \/ TaskFails(t)
      PROVE  CoverInv'
  <2>1. Active(t) /\ overlapped' = overlapped /\ status'.campaign \in {"PAUSED", "FAILED"}
    BY <1>1 DEF NoAccount, PauseForQuota, TaskFails, Active, SetBoth
  <2>2. Moves(t, NoTask) /\ NoTask.at = "idle"
    BY <1>1, Leaves, NoTaskTyped
  <2> QED
    BY <2>1, <2>2, BatchIsLet DEF CompletedIsTreated
<1>2. ASSUME NEW t \in Tasks, TaskDies(t)
      PROVE  CoverInv'
  <2>1. UNCHANGED <<status, overlapped>>
    BY <1>2 DEF TaskDies
  <2>2. Moves(t, NoTask) /\ NoTask.at = "idle"
    BY <1>2, Leaves, NoTaskTyped
  <2>3. CompletedIsTreated'
    BY <1>0, <2>1 DEF CoverInv, CompletedIsTreated, TouchedStays
  <2> QED
    BY <1>0, <2>1, <2>2, <2>3, BatchIsLet, NobodyBegins
<1>3. CASE Pause \/ Cancel
  <2>1. UNCHANGED <<message, task, overlapped>> /\ status'.campaign \in {"PAUSED", "CANCELLED"}
    BY <1>3, OthersMove DEF Pause, Cancel, SetBoth
  <2>2. Alone'
    BY <2>1 DEF CoverInv, Alone, Active
  <2>3. LastBatchCovers'
    BY <2>1 DEF CoverInv, LastBatchCovers, Active, Untouched
  <2>4. CompletedIsTreated'
    BY <2>1 DEF CompletedIsTreated
  <2> QED
    BY <2>2, <2>3, <2>4 DEF CoverInv
<1>4. CASE Resume
  <2>1. /\ overlapped' = (overlapped \/ \E t \in Tasks : Active(t))
        /\ status'.campaign = "RUNNING"
    BY <1>4 DEF Resume
  <2>2. PICK t \in Tasks : \E new : Moves(t, new) /\ new.at = "queued" /\ task[t].at = "idle"
    BY <1>4, ResumeMoves
  <2>3. PICK new : Moves(t, new) /\ new.at = "queued"
    BY <2>2
  <2>4. \A u \in Tasks : task'[u] = IF u = t THEN new ELSE task[u]
    BY <2>3 DEF Moves, TypedLbc
  <2>5. ~overlapped' => \A u \in Tasks : ~Active(u)'
    BY <2>1, <2>3, <2>4 DEF Active
  <2> QED
    BY <2>1, <2>5 DEF CoverInv, Alone, LastBatchCovers, CompletedIsTreated
<1>5. CASE DayPasses \/ UNCHANGED lbcVars \/ AccountsMove
  <2>1. UNCHANGED <<status, task, overlapped>>
    BY <1>5 DEF DayPasses, lbcVars, AccountsMove, MoveAccount, PatchAccount, RemoveAccount,
                WarmUpReads, WarmUpDecides, campaignVars
  <2>2. Alone'
    BY <2>1 DEF CoverInv, Alone, Active
  <2>3. LastBatchCovers'
    BY <1>0, <2>1 DEF CoverInv, LastBatchCovers, Active, TouchedStays
  <2>4. CompletedIsTreated'
    BY <1>0, <2>1 DEF CoverInv, CompletedIsTreated, TouchedStays
  <2> QED
    BY <2>2, <2>3, <2>4 DEF CoverInv
<1> QED
  BY <1>0, <1>1, <1>2, <1>3, <1>4, <1>5, BeginCovers, BatchStepsCover, EndCovers
     DEF LbcNext, TaskStep

LEMMA CoverStart == InitLbc => CoverInv
<1> SUFFICES ASSUME InitLbc PROVE CoverInv
  OBVIOUS
<1>1. \A t \in Tasks : ~Active(t)
  BY NoTaskTyped DEF InitLbc, Active, Task
<1> QED
  BY <1>1 DEF InitLbc, CoverInv, Alone, LastBatchCovers, CompletedIsTreated

\* CompletionIsHonest: for any batch size and number of listings, a campaign
\* that reports COMPLETED has written, or tried to write, to every listing,
\* however it was paused, resumed and failed, unless two batches overlapped.
THEOREM CompletionIsHonest == InitLbc /\ [][LbcNext]_lbcVars => []CompletedIsTreated
<1>1. CoverInv => CompletedIsTreated
  BY DEF CoverInv
<1> QED
  BY <1>1, CoverStart, TypesStart, TypesSteps, SendStart, SendSteps, CoverSteps, PTL

-----------------------------------------------------------------------------
(* An account keeps within its quota.                                      *)

\* A message was sent and its row does not say so yet.
Marking(r) == \E t \in Tasks : task[t].at = "mark" /\ task[t].result = "SENT" /\ task[t].row = r

\* Messages of today that were delivered and that no row will ever call SENT.
Unsettled ==
  {r \in Rows : /\ delivered[r] > 0 /\ message[r].today
                /\ message[r].status # "SENT" /\ ~Marking(r)}

\* Only faults leave such messages.
UnsettledInv == Cardinality(Unsettled) <= count.faults

\* The usage a batch keeps is no less than what the rows say, and the account
\* of the message in preparation is below its quota.
UsageInv ==
  ~overlapped =>
    /\ \A a \in Accounts : Cardinality(SentToday(a)) <= Quota
    /\ \A t \in Tasks : task[t].at \in {"check", "quota", "step", "queue", "send", "mark"} =>
         \A a \in Accounts : /\ Cardinality(SentToday(a)) <= task[t].usage[a]
                             /\ task[t].usage[a] <= Quota
    /\ \A t \in Tasks : task[t].at \in {"step", "queue", "send", "mark"} =>
         task[t].usage[task[t].account] < Quota

LEMMA SentTodayIsFinite == \A a : SentToday(a) \subseteq Rows /\ IsFiniteSet(SentToday(a))
  BY RowsAreFinite, FS_Subset DEF SentToday

LEMMA NoMoreToday ==
  ASSUME \A a \in Accounts : SentToday(a)' \subseteq SentToday(a)
  PROVE  \A a \in Accounts : Cardinality(SentToday(a)') <= Cardinality(SentToday(a))
  BY SentTodayIsFinite, FS_Subset

LEMMA SentIsCountedNext == \A a : Cardinality(SentToday(a)') \in Nat
<1>1. (\A a : Cardinality(SentToday(a)) \in Nat)'
  BY SentIsCounted, PTL
<1> QED
  BY <1>1

\* A step of one task while the rows of today stay.
LEMMA UsageGoesOn ==
  ASSUME TypedLbc, TypedLbc', UsageInv, NEW t \in Tasks, NEW new, Moves(t, new),
         \A a \in Accounts : SentToday(a)' \subseteq SentToday(a),
         ~overlapped' => ~overlapped,
         ~overlapped /\ new.at \in {"check", "quota", "step", "queue", "send", "mark"} =>
           /\ \A a \in Accounts : /\ Cardinality(SentToday(a)) <= new.usage[a]
                                  /\ new.usage[a] <= Quota
           /\ new.at \in {"step", "queue", "send", "mark"} => new.usage[new.account] < Quota
  PROVE  UsageInv'
<1>1. \A u \in Tasks : task'[u] = IF u = t THEN new ELSE task[u]
  BY DEF Moves, TypedLbc
<1>2. \A a \in Accounts : Cardinality(SentToday(a)') <= Cardinality(SentToday(a))
  BY NoMoreToday
<1>3. \A a \in Accounts : Cardinality(SentToday(a)') \in Nat /\ Cardinality(SentToday(a)) \in Nat
  BY SentIsCounted, SentIsCountedNext
<1>4. \A u \in Tasks, a \in Accounts : task'[u].usage[a] \in Nat
  BY DEF TypedLbc, Task
<1>5. \A a \in Accounts, n \in Nat :
         Cardinality(SentToday(a)) <= n => Cardinality(SentToday(a)') <= n
  BY <1>2, <1>3
<1>6. CASE overlapped'
  BY <1>6 DEF UsageInv
<1>7. CASE ~overlapped'
  <2>1. \A a \in Accounts : Cardinality(SentToday(a)') <= Quota
    BY <1>5, <1>7, LbcAssumption DEF UsageInv
  <2>2. \A u \in Tasks : task'[u].at \in {"check", "quota", "step", "queue", "send", "mark"} =>
          \A a \in Accounts : /\ Cardinality(SentToday(a)) <= task'[u].usage[a]
                              /\ task'[u].usage[a] <= Quota
    BY <1>1, <1>7 DEF UsageInv
  <2>3. \A u \in Tasks : task'[u].at \in {"step", "queue", "send", "mark"} =>
          task'[u].usage[task'[u].account] < Quota
    BY <1>1, <1>7 DEF UsageInv
  <2>4. \A u \in Tasks : task'[u].at \in {"check", "quota", "step", "queue", "send", "mark"} =>
          \A a \in Accounts : Cardinality(SentToday(a)') <= task'[u].usage[a]
    BY <1>4, <1>5, <2>2
  <2> QED
    BY <2>1, <2>2, <2>3, <2>4 DEF UsageInv
<1> QED
  BY <1>6, <1>7

\* Which steps let an account send more today.
LEMMA TodayKept ==
  ASSUME message' = message \/ DayPasses \/ (\E t \in Tasks : QueueMessage(t)), TypedLbc
  PROVE  \A a \in Accounts : SentToday(a)' \subseteq SentToday(a)
<1>1. CASE message' = message
  BY <1>1 DEF SentToday
<1>2. CASE DayPasses
  <2>1. \A r \in Rows : ~message'[r].today
    BY <1>2 DEF DayPasses, TypedLbc, Message
  <2> QED
    BY <2>1 DEF SentToday
<1>3. ASSUME NEW t \in Tasks, QueueMessage(t)
      PROVE  \A a \in Accounts : SentToday(a)' \subseteq SentToday(a)
  <2>1. task[t].row \in Rows
    BY DEF TypedLbc, Task
  <2>2. \A r \in Rows : message'[r].status = "SENT" => message'[r] = message[r]
    BY <1>3, <2>1, QueueMoves DEF TypedLbc
  <2> QED
    BY <2>2 DEF SentToday
<1> QED
  BY <1>1, <1>2, <1>3

LEMMA MarkUsage ==
  ASSUME TypedLbc, TypedLbc', SendInv, UsageInv, Alone, NEW t \in Tasks, Mark(t)
  PROVE  UsageInv'
<1>a. PICK r \in Rows, b \in Accounts : r = task[t].row /\ b = task[t].account
  BY DEF TypedLbc, Task
<1>1. /\ task[t].at = "mark" /\ message[r].status = "QUEUED" /\ message[r].account = b
      /\ overlapped' = overlapped
  BY <1>a DEF Mark, SendInv, RowsAreOwned, Handles
<1>2. PICK new : /\ Moves(t, new) /\ new.at = "check"
                 /\ \A a \in Accounts : new.usage[a] =
                      IF task[t].result = "SENT" /\ a = b
                      THEN task[t].usage[a] + 1 ELSE task[t].usage[a]
  <2>1. PICK moved : /\ Moves(t, moved) /\ moved.at = "check"
                     /\ \A a \in Accounts : moved.usage[a] =
                          IF task[t].result = "SENT" /\ a = task[t].account
                          THEN task[t].usage[a] + 1 ELSE task[t].usage[a]
    <3>1. \E new : /\ Moves(t, new) /\ new.at = "check"
                   /\ new.todo = task[t].todo /\ new.more = task[t].more
                   /\ \A a \in Accounts : new.usage[a] =
                        IF task[t].result = "SENT" /\ a = task[t].account
                        THEN task[t].usage[a] + 1 ELSE task[t].usage[a]
      BY MarkMoves, Zenon
    <3> QED
      BY <3>1, Zenon
  <2> QED
    BY <1>a, <2>1
<1>3. /\ message'[r].status = task[t].result /\ message'[r].account = b
      /\ message'[r].today = message[r].today
      /\ \A q \in Rows : q # r => message'[q] = message[q]
  <2>1. message[r] \in Message /\ message'[r] = [message[r] EXCEPT !.status = task[t].result]
    BY <1>a, MarkMoves DEF TypedLbc
  <2> QED
    BY <1>1, <1>a, <2>1, MarkMoves DEF Message
<1>4. \A u \in Tasks : task'[u] = IF u = t THEN new ELSE task[u]
  BY <1>2 DEF Moves, TypedLbc
<1>5. \A a \in Accounts : a # b => SentToday(a)' \subseteq SentToday(a)
  BY <1>1, <1>3 DEF SentToday
<1>6. CASE task[t].result # "SENT"
  <2>1. \A a \in Accounts : SentToday(a)' \subseteq SentToday(a)
    BY <1>1, <1>3, <1>6 DEF SentToday
  <2>2. \A a \in Accounts : new.usage[a] = task[t].usage[a]
    BY <1>2, <1>6
  <2>3. ~overlapped => \A a \in Accounts : /\ Cardinality(SentToday(a)) <= new.usage[a]
                                           /\ new.usage[a] <= Quota
    BY <1>1, <2>2 DEF UsageInv
  <2> QED
    BY <1>1, <1>2, <2>1, <2>3, UsageGoesOn
<1>7. CASE task[t].result = "SENT" /\ ~overlapped
  <2>1. /\ \A a \in Accounts : Cardinality(SentToday(a)) <= task[t].usage[a]
        /\ \A a \in Accounts : task[t].usage[a] <= Quota
        /\ task[t].usage[b] < Quota
    BY <1>1, <1>7, <1>a DEF UsageInv
  <2>2. \A a \in Accounts : task[t].usage[a] \in Nat
    BY DEF TypedLbc, Task
  <2>3. \A a \in Accounts : a # b => Cardinality(SentToday(a)') <= Cardinality(SentToday(a))
    BY <1>5, SentTodayIsFinite, FS_Subset
  <2>4. Cardinality(SentToday(b)') <= Cardinality(SentToday(b)) + 1
    <3>1. SentToday(b)' \subseteq SentToday(b) \cup {r}
      BY <1>3 DEF SentToday
    <3>2. /\ IsFiniteSet(SentToday(b) \cup {r})
          /\ Cardinality(SentToday(b) \cup {r}) \in {Cardinality(SentToday(b)), Cardinality(SentToday(b)) + 1}
      BY SentTodayIsFinite, FS_AddElement
    <3>3. Cardinality(SentToday(b)') <= Cardinality(SentToday(b) \cup {r})
      BY <3>1, <3>2, FS_Subset
    <3>4. Cardinality(SentToday(b)) \in Nat /\ Cardinality(SentToday(b)') \in Nat
      BY SentIsCounted, SentIsCountedNext
    <3> QED
      BY ONLY <3>2, <3>3, <3>4, SMT
  <2>5. \A a \in Accounts : Cardinality(SentToday(a)') \in Nat /\ Cardinality(SentToday(a)) \in Nat
    BY SentIsCounted, SentIsCountedNext
  <2>6. \A a \in Accounts : Cardinality(SentToday(a)') <= new.usage[a] /\ new.usage[a] <= Quota
    <3>1. ASSUME NEW a \in Accounts, a # b
          PROVE  Cardinality(SentToday(a)') <= new.usage[a] /\ new.usage[a] <= Quota
      <4>1. new.usage[a] = task[t].usage[a]
        BY <1>2, <3>1
      <4> QED
        BY <2>1, <2>2, <2>3, <2>5, <3>1, <4>1
    <3>2. Cardinality(SentToday(b)') <= new.usage[b] /\ new.usage[b] <= Quota
      <4>1. new.usage[b] = task[t].usage[b] + 1
        BY <1>2, <1>7
      <4> QED
        BY <2>1, <2>2, <2>4, <2>5, <4>1, LbcAssumption
    <3> QED
      BY <3>1, <3>2
  <2>7. \A a \in Accounts : Cardinality(SentToday(a)') <= Quota
    <3>1. \A a \in Accounts : new.usage[a] \in Nat
      BY <1>2, <2>2
    <3> QED
      BY <2>5, <2>6, <3>1, LbcAssumption
  <2>8. \A u \in Tasks \ {t} : ~Active(u)
    BY <1>1, <1>7 DEF Alone, Active
  <2>9. \A u \in Tasks : task'[u].at \in {"check", "quota", "step", "queue", "send", "mark"} => u = t
    BY <1>4, <2>8 DEF Active
  <2> QED
    BY <1>2, <1>4, <2>6, <2>7, <2>9 DEF UsageInv
<1> QED
  BY <1>1, <1>6, <1>7 DEF UsageInv

LEMMA UsageSteps ==
  ASSUME TypedLbc, TypedLbc', SendInv, CoverInv, UsageInv, [LbcNext]_lbcVars
  PROVE  UsageInv'
<1>1. ASSUME NEW t \in Tasks,
             \/ Begin(t) \/ NoAccount(t) \/ PauseForQuota(t) \/ TaskFails(t) \/ TaskDies(t)
             \/ EndReads(t) \/ EndWrites(t)
      PROVE  UsageInv'
  <2>1. (~overlapped' => ~overlapped) /\ message' = message
    <3>1. CASE Begin(t)
      BY <3>1, BeginMoves DEF Begin
    <3>2. CASE \/ NoAccount(t) \/ PauseForQuota(t) \/ TaskFails(t) \/ TaskDies(t)
               \/ EndReads(t) \/ EndWrites(t)
      BY <3>2 DEF NoAccount, PauseForQuota, TaskFails, TaskDies, EndReads, EndWrites
    <3> QED
      BY <1>1, <3>1, <3>2
  <2>2. PICK new : /\ Moves(t, new)
                   /\ new.at \in {"idle", "queued", "none", "usage", "write"}
    <3>1. CASE Begin(t)
      BY <3>1, BeginMoves, NoTaskTyped
    <3>2. CASE NoAccount(t) \/ PauseForQuota(t) \/ TaskFails(t) \/ TaskDies(t)
      BY <3>2, Leaves, NoTaskTyped
    <3>3. CASE EndReads(t)
      BY <3>3, EndMoves
    <3>4. CASE EndWrites(t)
      BY <3>4, WriteMoves
    <3> QED
      BY <1>1, <3>1, <3>2, <3>3, <3>4
  <2> QED
    BY <2>1, <2>2, TodayKept, UsageGoesOn
<1>2. ASSUME NEW t \in Tasks, ReadUsage(t)
      PROVE  UsageInv'
  <2>1. message' = message /\ overlapped' = overlapped
    BY <1>2 DEF ReadUsage
  <2>2. PICK new : /\ Moves(t, new) /\ new.at = "check"
                   /\ new.usage = [a \in Accounts |-> Cardinality(SentToday(a))]
    BY <1>2, UsageMoves
  <2>3. \A a \in Accounts : new.usage[a] = Cardinality(SentToday(a))
    BY <2>2
  <2>4. \A a \in Accounts : Cardinality(SentToday(a)) <= Cardinality(SentToday(a))
    BY SentIsCounted
  <2>5. ~overlapped => \A a \in Accounts : /\ Cardinality(SentToday(a)) <= new.usage[a]
                                           /\ new.usage[a] <= Quota
    BY <2>3, <2>4 DEF UsageInv
  <2> QED
    BY <2>1, <2>2, <2>5, TodayKept, UsageGoesOn
<1>3. ASSUME NEW t \in Tasks, TakeListing(t)
      PROVE  UsageInv'
  <2>1. task[t].at = "check" /\ message' = message /\ overlapped' = overlapped
    BY <1>3 DEF TakeListing
  <2>2. \E new : /\ Moves(t, new) /\ new.usage = task[t].usage
                 /\ \/ new.at = "quota"
                    \/ new.at = "step" /\ new.usage[new.account] < Quota
    <3>1. CASE Moves(t, [task[t] EXCEPT !.at = "quota"])
      <4>1. /\ [task[t] EXCEPT !.at = "quota"].at = "quota"
            /\ [task[t] EXCEPT !.at = "quota"].usage = task[t].usage
        BY MovesOn
      <4> QED
        BY <3>1, <4>1
    <3>2. ASSUME NEW new, NEW a \in Free(t),
                 Moves(t, new), new.at = "step", new.account = a, new.usage = task[t].usage
          PROVE  new.usage[new.account] < Quota
      BY <3>2 DEF Free
    <3> QED
      BY <1>3, <3>1, <3>2, TakeMoves
  <2>3. PICK new : /\ Moves(t, new) /\ new.usage = task[t].usage
                   /\ \/ new.at = "quota"
                      \/ new.at = "step" /\ new.usage[new.account] < Quota
    BY <2>2
  <2>4. ~overlapped => \A a \in Accounts : /\ Cardinality(SentToday(a)) <= new.usage[a]
                                           /\ new.usage[a] <= Quota
    BY <2>1, <2>3 DEF UsageInv
  <2> QED
    BY <2>1, <2>3, <2>4, TodayKept, UsageGoesOn
<1>4. ASSUME NEW t \in Tasks,
             LeaveLoop(t) \/ PickStep(t) \/ QueueMessage(t) \/ Send(t) \/ SendFails(t)
      PROVE  UsageInv'
  <2>1. /\ overlapped' = overlapped /\ (message' = message \/ QueueMessage(t))
        /\ task[t].at \in {"check", "step", "queue", "send"}
    BY <1>4 DEF LeaveLoop, PickStep, QueueMessage, Send, SendFails
  <2>2. \E new : /\ Moves(t, new) /\ new.usage = task[t].usage
                 /\ new.account = task[t].account
                 /\ new.at \notin {"step"}
                 /\ new.at \in {"queue", "send", "mark"} => task[t].at \in {"step", "queue", "send"}
    <3>1. CASE LeaveLoop(t)
      <4>1. /\ Moves(t, [task[t] EXCEPT !.at = "end"])
            /\ [task[t] EXCEPT !.at = "end"].at = "end"
            /\ [task[t] EXCEPT !.at = "end"].usage = task[t].usage
            /\ [task[t] EXCEPT !.at = "end"].account = task[t].account
        BY <3>1, MovesOn DEF LeaveLoop
      <4> QED
        BY <4>1
    <3>2. CASE PickStep(t)
      <4>1. /\ [task[t] EXCEPT !.at = "check"].at = "check"
            /\ [task[t] EXCEPT !.at = "check"].usage = task[t].usage
            /\ [task[t] EXCEPT !.at = "check"].account = task[t].account
        BY MovesOn
      <4>2. task[t].at = "step"
        BY <3>2 DEF PickStep
      <4> QED
        BY <3>2, <4>1, <4>2, PickMoves
    <3>3. CASE QueueMessage(t)
      <4>1. ASSUME NEW at \in {"send", "check"}
            PROVE  /\ [task[t] EXCEPT !.at = at].at = at
                   /\ [task[t] EXCEPT !.at = at].usage = task[t].usage
                   /\ [task[t] EXCEPT !.at = at].account = task[t].account
        BY MovesOn
      <4>2. \E at \in {"send", "check"} : Moves(t, [task[t] EXCEPT !.at = at])
        BY <3>3, QueueMoves
      <4>3. task[t].at = "queue"
        BY <3>3 DEF QueueMessage
      <4> QED
        BY <4>1, <4>2, <4>3
    <3>4. CASE Send(t) \/ SendFails(t)
      <4>1. task[t].at = "send"
        BY <3>4 DEF Send, SendFails
      <4> QED
        BY <3>4, <4>1, SendMoves
    <3> QED
      BY <1>4, <3>1, <3>2, <3>3, <3>4
  <2>3. PICK new : /\ Moves(t, new) /\ new.usage = task[t].usage
                   /\ new.account = task[t].account
                   /\ new.at \notin {"step"}
                   /\ new.at \in {"queue", "send", "mark"} => task[t].at \in {"step", "queue", "send"}
    BY <2>2
  <2>4. ~overlapped =>
           /\ \A a \in Accounts : /\ Cardinality(SentToday(a)) <= new.usage[a]
                                  /\ new.usage[a] <= Quota
           /\ new.at \in {"step", "queue", "send", "mark"} => new.usage[new.account] < Quota
    BY <2>1, <2>3 DEF UsageInv
  <2>5. \A a \in Accounts : SentToday(a)' \subseteq SentToday(a)
    BY <2>1, TodayKept
  <2> QED
    BY <2>1, <2>3, <2>4, <2>5, UsageGoesOn
<1>5. ASSUME NEW t \in Tasks, Mark(t)
      PROVE  UsageInv'
  <2>1. CASE overlapped
    BY <1>5, <2>1 DEF Mark, UsageInv
  <2>2. CASE ~overlapped
    BY <1>5, <2>2, MarkUsage DEF CoverInv
  <2> QED
    BY <2>1, <2>2
<1>6. CASE Resume
  <2>1. PICK t \in Tasks : \E new : Moves(t, new) /\ new.at = "queued"
    BY <1>6, ResumeMoves
  <2>2. PICK new : Moves(t, new) /\ new.at = "queued"
    BY <2>1
  <2>3. message' = message /\ (~overlapped' => ~overlapped)
    BY <1>6 DEF Resume
  <2> QED
    BY <2>2, <2>3, TodayKept, UsageGoesOn
<1>7. CASE DayPasses \/ UNCHANGED lbcVars \/ Pause \/ Cancel \/ AccountsMove
  <2>1. UNCHANGED <<task, overlapped>> /\ (message' = message \/ DayPasses)
    BY <1>7, OthersMove DEF DayPasses
  <2>2. \A a \in Accounts : Cardinality(SentToday(a)') <= Cardinality(SentToday(a))
    BY <2>1, TodayKept, NoMoreToday
  <2>3. \A a \in Accounts : /\ Cardinality(SentToday(a)') \in Nat
                            /\ Cardinality(SentToday(a)) \in Nat
    BY SentIsCounted, SentIsCountedNext
  <2>4. \A a \in Accounts, n \in Nat :
           Cardinality(SentToday(a)) <= n => Cardinality(SentToday(a)') <= n
    BY <2>2, <2>3
  <2>5. \A u \in Tasks, a \in Accounts : task[u].usage[a] \in Nat
    BY DEF TypedLbc, Task
  <2> QED
    BY <2>1, <2>4, <2>5, LbcAssumption DEF UsageInv
<1> QED
  BY <1>1, <1>2, <1>3, <1>4, <1>5, <1>6, <1>7 DEF LbcNext, TaskStep

LEMMA UnsettledIsFinite == IsFiniteSet(Unsettled) /\ IsFiniteSet(Unsettled)'
<1>1. IsFiniteSet(Unsettled)
  BY RowsAreFinite, FS_Subset DEF Unsettled
<1>2. (IsFiniteSet(Unsettled))'
  BY <1>1, PTL
<1> QED
  BY <1>1, <1>2

LEMMA NoMoreUnsettled ==
  ASSUME TypedLbc, UnsettledInv, Unsettled' \subseteq Unsettled, count'.faults = count.faults
  PROVE  UnsettledInv'
<1>1. /\ Cardinality(Unsettled') <= Cardinality(Unsettled)
      /\ Cardinality(Unsettled) \in Nat /\ Cardinality(Unsettled') \in Nat
  BY UnsettledIsFinite, FS_Subset, FS_CardinalityType
<1>2. count.faults \in Nat
  BY DEF TypedLbc
<1> QED
  BY <1>1, <1>2 DEF UnsettledInv

LEMMA OneMoreUnsettled ==
  ASSUME TypedLbc, UnsettledInv, NEW r \in Rows,
         Unsettled' \subseteq Unsettled \cup {r}, count'.faults = count.faults + 1
  PROVE  UnsettledInv'
<1> DEFINE more == Unsettled \cup {r}
<1>1. /\ IsFiniteSet(more)
      /\ Cardinality(more) \in {Cardinality(Unsettled), Cardinality(Unsettled) + 1}
  BY UnsettledIsFinite, FS_AddElement
<1>2. Cardinality(Unsettled) \in Nat /\ Cardinality(Unsettled') \in Nat
  BY UnsettledIsFinite, FS_CardinalityType
<1> HIDE DEF more
<1>3. Cardinality(Unsettled') <= Cardinality(more)
  BY <1>1, FS_Subset DEF more
<1>4. count.faults \in Nat /\ Cardinality(Unsettled) <= count.faults
  BY DEF TypedLbc, UnsettledInv
<1>5. Cardinality(Unsettled') <= count.faults + 1
  BY ONLY <1>1, <1>2, <1>3, <1>4, SMT
<1> QED
  BY <1>5 DEF UnsettledInv

LEMMA UnsettledSteps ==
  ASSUME TypedLbc, SendInv, UnsettledInv, [LbcNext]_lbcVars
  PROVE  UnsettledInv'
<1>1. ASSUME NEW t \in Tasks,
             \/ Begin(t) \/ NoAccount(t) \/ PauseForQuota(t) \/ ReadUsage(t) \/ TakeListing(t)
             \/ LeaveLoop(t) \/ PickStep(t) \/ EndReads(t) \/ EndWrites(t)
      PROVE  UnsettledInv'
  <2>1. task[t].at # "mark" /\ count' = count
    BY <1>1 DEF Begin, NoAccount, PauseForQuota, ReadUsage, TakeListing, LeaveLoop, PickStep,
                EndReads, EndWrites
  <2>2. UNCHANGED <<message, delivered>> /\ \E new : Moves(t, new)
    BY <1>1, QuietMoves
  <2>3. \A u \in Tasks : u # t => task'[u] = task[u]
    BY <2>2 DEF Moves, TypedLbc
  <2>4. \A r : Marking(r) => Marking(r)'
    BY <2>1, <2>3 DEF Marking
  <2>5. Unsettled' \subseteq Unsettled
    BY <2>2, <2>4 DEF Unsettled
  <2> QED
    BY <2>1, <2>5, NoMoreUnsettled
<1>2. ASSUME NEW t \in Tasks, TaskFails(t) \/ TaskDies(t)
      PROVE  UnsettledInv'
  <2>1. UNCHANGED <<message, delivered>> /\ count'.faults = count.faults + 1
    BY <1>2, Counts DEF TaskFails, TaskDies
  <2>2. Moves(t, NoTask)
    BY <1>2, Leaves
  <2>3. \A u \in Tasks : u # t => task'[u] = task[u]
    BY <2>2 DEF Moves, TypedLbc
  <2>4. \A r : r # task[t].row /\ Marking(r) => Marking(r)'
    BY <2>3 DEF Marking
  <2>5. Unsettled' \subseteq Unsettled \cup {task[t].row}
    BY <2>1, <2>4 DEF Unsettled
  <2>6. task[t].row \in Rows
    BY DEF TypedLbc, Task
  <2> QED
    BY <2>1, <2>5, <2>6, OneMoreUnsettled
<1>3. ASSUME NEW t \in Tasks, QueueMessage(t)
      PROVE  UnsettledInv'
  <2> DEFINE r == task[t].row
  <2>1. r \in Rows /\ delivered' = delivered /\ count' = count /\ task[t].at = "queue"
    BY <1>3 DEF QueueMessage, TypedLbc, Task
  <2>2. \E new : Moves(t, new)
    BY <1>3, QueueMoves
  <2>3. \A u \in Tasks : u # t => task'[u] = task[u]
    BY <2>2 DEF Moves, TypedLbc
  <2>4. \A q : Marking(q) => Marking(q)'
    BY <2>1, <2>3 DEF Marking
  <2>5. Unsettled' \subseteq Unsettled
    <3>1. CASE message' = message
      BY <2>1, <2>4, <3>1 DEF Unsettled
    <3>2. CASE message[r].status = "none"
      <4>1. \A q \in Rows : q # r => message'[q] = message[q]
        BY <1>3, <2>1, QueueMoves DEF TypedLbc
      <4>2. ~(delivered[r] > 0)
        BY <2>1, <3>2 DEF SendInv, DeliveredHaveRows, TypedLbc
      <4> QED
        BY <2>1, <2>4, <4>1, <4>2 DEF Unsettled
    <3> QED
      BY <1>3, <3>1, <3>2, QueueMoves
  <2> QED
    BY <2>1, <2>5, NoMoreUnsettled
<1>4. ASSUME NEW t \in Tasks, Send(t) \/ SendFails(t)
      PROVE  UnsettledInv'
  <2>1. PICK r \in Rows : r = task[t].row
    BY DEF TypedLbc, Task
  <2>2. /\ message' = message /\ task[t].at = "send"
        /\ \A q \in Rows : q # r => delivered'[q] = delivered[q]
    BY <1>4, <2>1 DEF Send, SendFails, Deliver, TypedLbc
  <2>3. PICK new : /\ Moves(t, new) /\ new.at = "mark" /\ new.row = r
                   /\ \/ Send(t) /\ new.result = "SENT"
                      \/ SendFails(t) /\ new.result = "FAILED"
    BY <1>4, <2>1, SendMoves
  <2>4. \A u \in Tasks : task'[u] = IF u = t THEN new ELSE task[u]
    BY <2>3 DEF Moves, TypedLbc
  <2>5. \A q : Marking(q) => Marking(q)'
    BY <2>2, <2>4 DEF Marking
  <2>6. Unsettled' \subseteq Unsettled \cup {r}
    BY <2>2, <2>5 DEF Unsettled
  <2>7. CASE Send(t) /\ new.result = "SENT"
    <3>1. Marking(r)'
      BY <2>3, <2>4, <2>7 DEF Marking
    <3>2. Unsettled' \subseteq Unsettled
      BY <2>6, <3>1 DEF Unsettled
    <3>3. count' = count
      BY <2>7 DEF Send
    <3> QED
      BY <3>2, <3>3, NoMoreUnsettled
  <2>8. CASE SendFails(t)
    <3>1. count'.faults = count.faults + 1
      BY <2>8, Counts DEF SendFails
    <3> QED
      BY <2>6, <3>1, OneMoreUnsettled
  <2> QED
    BY <2>3, <2>7, <2>8
<1>5. ASSUME NEW t \in Tasks, Mark(t)
      PROVE  UnsettledInv'
  <2>1. PICK r \in Rows : r = task[t].row
    BY DEF TypedLbc, Task
  <2>2. /\ task[t].at = "mark" /\ count' = count /\ delivered' = delivered
        /\ message[r].status = "QUEUED"
        /\ \A u \in Tasks : Handles(u, r) => u = t
    BY <1>5, <2>1 DEF Mark, SendInv, RowsAreOwned, Handles
  <2>3. /\ message'[r].status = task[t].result /\ message'[r].today = message[r].today
        /\ \A q \in Rows : q # r => message'[q] = message[q]
    <3>1. message[r] \in Message /\ message'[r] = [message[r] EXCEPT !.status = task[t].result]
      BY <1>5, <2>1, MarkMoves DEF TypedLbc
    <3> QED
      BY <1>5, <2>1, <3>1, MarkMoves DEF Message
  <2>4. PICK new : Moves(t, new) /\ new.at = "check"
    BY <1>5, MarkMoves
  <2>5. \A u \in Tasks : u # t => task'[u] = task[u]
    BY <2>4 DEF Moves, TypedLbc
  <2>6. \A q : q # r /\ Marking(q) => Marking(q)'
    BY <2>1, <2>5 DEF Marking
  <2>7. r \in Unsettled' => r \in Unsettled
    <3>1. task[t].result # "SENT" => ~Marking(r)
      BY <2>1, <2>2 DEF Marking, Handles
    <3>2. r \in Unsettled' => task[t].result # "SENT" /\ delivered[r] > 0 /\ message[r].today
      BY <2>2, <2>3 DEF Unsettled
    <3> QED
      BY <2>2, <3>1, <3>2 DEF Unsettled
  <2>8. Unsettled' \subseteq Unsettled
    BY <2>2, <2>3, <2>6, <2>7 DEF Unsettled
  <2> QED
    BY <2>2, <2>8, NoMoreUnsettled
<1>6. CASE Resume
  <2>1. UNCHANGED <<message, delivered>> /\ count'.faults = count.faults
    BY <1>6, ResumeMoves, Counts DEF Resume
  <2>2. PICK t \in Tasks : \E new : Moves(t, new) /\ task[t].at = "idle"
    BY <1>6, ResumeMoves
  <2>3. \A u \in Tasks : u # t => task'[u] = task[u]
    BY <2>2 DEF Moves, TypedLbc
  <2>4. \A r : Marking(r) => Marking(r)'
    BY <2>2, <2>3 DEF Marking
  <2>5. Unsettled' \subseteq Unsettled
    BY <2>1, <2>4 DEF Unsettled
  <2> QED
    BY <2>1, <2>5, NoMoreUnsettled
<1>7. CASE DayPasses
  <2>1. \A r \in Rows : ~message'[r].today
    BY <1>7 DEF DayPasses, TypedLbc, Message
  <2>2. Unsettled' \subseteq Unsettled
    BY <2>1 DEF Unsettled
  <2> QED
    BY <1>7, <2>2, Counts, NoMoreUnsettled
<1>8. CASE UNCHANGED lbcVars \/ Pause \/ Cancel \/ AccountsMove
  <2>1. UNCHANGED <<message, delivered, task>>
    BY <1>8, OthersMove
  <2>2. count'.faults = count.faults
    BY <1>8, Counts DEF lbcVars, Pause, Cancel, AccountsMove, MoveAccount, PatchAccount,
                        RemoveAccount, WarmUpReads, WarmUpDecides
  <2>3. Unsettled' \subseteq Unsettled
    BY <2>1 DEF Unsettled, Marking
  <2> QED
    BY <2>2, <2>3, NoMoreUnsettled
<1> QED
  BY <1>1, <1>2, <1>3, <1>4, <1>5, <1>6, <1>7, <1>8 DEF LbcNext, TaskStep

\* What was delivered today is in the rows, in the hand of the one task at
\* work, or unsettled.
LEMMA QuotaFollows ==
  ASSUME TypedLbc, SendInv, CoverInv, UsageInv, UnsettledInv
  PROVE  QuotasHold
<1> SUFFICES ASSUME ~overlapped, NEW a \in Accounts
             PROVE  Cardinality({r \in Rows : /\ delivered[r] > 0 /\ message[r].account = a
                                              /\ message[r].today})
                      <= Quota + count.faults
  BY DEF QuotasHold
<1> DEFINE D == {r \in Rows : delivered[r] > 0 /\ message[r].account = a /\ message[r].today}
           H == {r \in D : Marking(r) /\ r \notin SentToday(a)}
           M == SentToday(a) \cup H
<1>1. D \subseteq M \cup Unsettled
  BY DEF Unsettled, SentToday
<1>2. IsFiniteSet(M) /\ Cardinality(M) <= Quota
  <2>1. CASE H = {}
    <3>1. M = SentToday(a)
      BY <2>1
    <3> HIDE DEF M
    <3> QED
      BY <3>1, SentTodayIsFinite DEF UsageInv
  <2>2. CASE H # {}
    <3>1. PICK r \in H : TRUE
      BY <2>2
    <3>2. PICK t \in Tasks : task[t].at = "mark" /\ task[t].row = r
      BY <3>1 DEF Marking
    <3>3. \A q \in H : q = r
      BY <3>2 DEF Marking, CoverInv, Alone, Active
    <3>4. M = SentToday(a) \cup {r}
      BY <3>1, <3>3
    <3>5. task[t].account = a
      BY <3>1, <3>2 DEF SendInv, RowsAreOwned, Handles
    <3>6. /\ Cardinality(SentToday(a)) <= task[t].usage[a] /\ task[t].usage[a] < Quota
          /\ task[t].usage[a] \in Nat /\ Quota \in Nat /\ Cardinality(SentToday(a)) \in Nat
      BY <3>2, <3>5, SentIsCounted, LbcAssumption DEF UsageInv, TypedLbc, Task
    <3> HIDE DEF M, H
    <3>7. /\ IsFiniteSet(M)
          /\ Cardinality(M) \in {Cardinality(SentToday(a)), Cardinality(SentToday(a)) + 1}
      BY <3>4, SentTodayIsFinite, FS_AddElement
    <3> QED
      BY ONLY <3>6, <3>7, SMT
  <2> QED
    BY <2>1, <2>2
<1> HIDE DEF M
<1>3. /\ IsFiniteSet(M \cup Unsettled)
      /\ Cardinality(M \cup Unsettled) <= Cardinality(M) + Cardinality(Unsettled)
      /\ Cardinality(M \cup Unsettled) \in Nat
      /\ Cardinality(M) \in Nat /\ Cardinality(Unsettled) \in Nat
  <2>1. /\ IsFiniteSet(M \cup Unsettled)
        /\ Cardinality(M \cup Unsettled)
              = Cardinality(M) + Cardinality(Unsettled) - Cardinality(M \cap Unsettled)
    BY <1>2, UnsettledIsFinite, FS_Union
  <2>2. IsFiniteSet(M \cap Unsettled)
    BY <1>2, FS_Subset
  <2>3. /\ Cardinality(M) \in Nat /\ Cardinality(Unsettled) \in Nat
        /\ Cardinality(M \cap Unsettled) \in Nat /\ Cardinality(M \cup Unsettled) \in Nat
    BY <1>2, <2>1, <2>2, UnsettledIsFinite, FS_CardinalityType
  <2> QED
    BY ONLY <2>1, <2>3, SMT
<1> HIDE DEF D
<1>4. Cardinality(D) <= Cardinality(M \cup Unsettled) /\ Cardinality(D) \in Nat
  <2>1. IsFiniteSet(D) /\ Cardinality(D) <= Cardinality(M \cup Unsettled)
    BY <1>1, <1>3, FS_Subset
  <2> QED
    BY <2>1, FS_CardinalityType
<1>5. Cardinality(Unsettled) <= count.faults /\ count.faults \in Nat /\ Quota \in Nat
  BY LbcAssumption DEF UnsettledInv, TypedLbc
<1>6. Cardinality(D) <= Quota + count.faults
  BY ONLY <1>2, <1>3, <1>4, <1>5, SMT
<1> QED
  BY <1>6 DEF D

\* QuotasAreKept: for any quota, batch size and number of accounts, an account
\* delivers on one day no more messages than its quota and one per fault: the
\* usage that a batch reads once and counts on (send_lbc_message_batch) never
\* falls behind the rows, unless two batches count at the same time.
THEOREM QuotasAreKept == InitLbc /\ [][LbcNext]_lbcVars => []QuotasHold
<1> DEFINE QuotaInv == TypedLbc /\ SendInv /\ CoverInv /\ UsageInv /\ UnsettledInv
<1>1. InitLbc => QuotaInv
  <2> SUFFICES ASSUME InitLbc PROVE QuotaInv
    OBVIOUS
  <2>1. TypedLbc /\ SendInv
    BY TypesStart, SendStart
  <2>2. \A t \in Tasks : task[t].at \in {"idle", "queued"}
    BY NoTaskTyped DEF InitLbc, Task
  <2>3. CoverInv
    BY CoverStart
  <2>4. UsageInv
    <3>1. \A a : SentToday(a) = {}
      BY NoMessageTyped DEF InitLbc, SentToday
    <3>2. \A a : Cardinality(SentToday(a)) <= Quota
      BY <3>1, FS_EmptySet, LbcAssumption
    <3> QED
      BY <2>2, <3>2 DEF UsageInv
  <2>5. UnsettledInv
    <3>1. Unsettled = {}
      BY DEF InitLbc, Unsettled
    <3> QED
      BY <3>1, FS_EmptySet DEF InitLbc, UnsettledInv
  <2> QED
    BY <2>1, <2>3, <2>4, <2>5
<1>2. QuotaInv /\ [LbcNext]_lbcVars => QuotaInv'
  BY TypesSteps, SendSteps, CoverSteps, UsageSteps, UnsettledSteps
<1>3. QuotaInv => QuotasHold
  BY QuotaFollows
<1> QED
  BY <1>1, <1>2, <1>3, PTL

-----------------------------------------------------------------------------
(* Types.                                                                  *)

SenderStatuses == AccountStatuses \cup {"deleted"}

TypedSenders ==
  /\ sender \in [Accounts -> SenderStatuses]
  /\ warming \subseteq Accounts
  /\ due \subseteq Listings

\* No command and no decision of the warm-up leaves an account in a status of
\* its own.
LEMMA AccountsKeepTypes ==
  ASSUME TypedSenders, AccountsMove
  PROVE  TypedSenders'
<1>1. "deleted" \in SenderStatuses /\ {"ACTIF", "RALENTI"} \subseteq SenderStatuses
  BY DEF SenderStatuses, AccountStatuses
<1>2. \A m \in Transitions : m.to \in SenderStatuses
  BY DEF Transitions, SenderStatuses, AccountStatuses
<1>3. due' = due
  BY DEF AccountsMove, MoveAccount, PatchAccount, RemoveAccount, WarmUpReads, WarmUpDecides,
         campaignVars
<1>4. warming' \subseteq Accounts
  BY DEF AccountsMove, MoveAccount, PatchAccount, RemoveAccount, WarmUpReads, WarmUpDecides,
         TypedSenders
<1>5. sender' \in [Accounts -> SenderStatuses]
  <2>1. ASSUME NEW a \in Accounts, NEW s \in SenderStatuses,
               \/ sender' = [sender EXCEPT ![a] = s]
               \/ sender' = [sender EXCEPT ![a] = IF @ = "deleted" THEN @ ELSE s]
        PROVE  sender' \in [Accounts -> SenderStatuses]
    BY <2>1 DEF TypedSenders
  <2>2. ASSUME NEW a \in Accounts, MoveAccount(a)
        PROVE  sender' \in [Accounts -> SenderStatuses]
    BY <1>2, <2>1, <2>2 DEF MoveAccount
  <2>3. ASSUME NEW a \in Accounts, PatchAccount(a)
        PROVE  sender' \in [Accounts -> SenderStatuses]
    BY <2>1, <2>3 DEF PatchAccount, SenderStatuses
  <2>4. ASSUME NEW a \in Accounts, RemoveAccount(a)
        PROVE  sender' \in [Accounts -> SenderStatuses]
    BY <1>1, <2>1, <2>4 DEF RemoveAccount
  <2>5. ASSUME NEW a \in Accounts, WarmUpDecides(a)
        PROVE  sender' \in [Accounts -> SenderStatuses]
    <3>1. PICK s \in {"ACTIF", "RALENTI", sender[a]} :
             sender' = [sender EXCEPT ![a] = IF @ = "deleted" THEN @ ELSE s]
      BY <2>5 DEF WarmUpDecides
    <3>2. s \in SenderStatuses
      BY <1>1, <3>1 DEF TypedSenders
    <3> QED
      BY <2>1, <3>1, <3>2
  <2>6. CASE WarmUpReads
    BY <2>6 DEF WarmUpReads, TypedSenders
  <2> QED
    BY <2>2, <2>3, <2>4, <2>5, <2>6 DEF AccountsMove
<1> QED
  BY <1>3, <1>4, <1>5 DEF TypedSenders

LEMMA SendersSteps ==
  ASSUME TypedSenders, [LbcNext]_lbcVars
  PROVE  TypedSenders'
<1>1. CASE AccountsMove
  BY <1>1, AccountsKeepTypes
<1>2. CASE DayPasses
  <2>1. due' \subseteq Listings
    BY <1>2 DEF DayPasses, Rows
  <2> QED
    BY <1>2, <2>1 DEF DayPasses, TypedSenders
<1>3. ASSUME NEW t \in Tasks, QueueMessage(t)
      PROVE  TypedSenders'
  BY <1>3 DEF QueueMessage, TypedSenders
<1>4. CASE UNCHANGED <<sender, warming, due>>
  BY <1>4 DEF TypedSenders
<1>5. \/ UNCHANGED <<sender, warming, due>> \/ AccountsMove \/ DayPasses
      \/ \E t \in Tasks : QueueMessage(t)
  BY DEF LbcNext, TaskStep, Begin, NoAccount, ReadUsage, TakeListing, LeaveLoop, PauseForQuota,
         PickStep, Send, SendFails, Mark, EndReads, EndWrites, TaskFails, TaskDies, Pause,
         Cancel, Resume, campaignVars, lbcVars
<1> QED
  BY <1>1, <1>2, <1>3, <1>4, <1>5

\* LbcTypes: the types of the campaign and of its accounts, for any number of
\* them; what was delivered has its row, whatever failed in between.
THEOREM LbcTypes == InitLbc /\ [][LbcNext]_lbcVars => []TypeLbc
<1> DEFINE TypesInv == TypedLbc /\ SendInv /\ TypedSenders
<1>1. InitLbc => TypesInv
  <2>1. InitLbc => TypedSenders
    BY DEF InitLbc, TypedSenders, SenderStatuses, AccountStatuses
  <2> QED
    BY <2>1, TypesStart, SendStart
<1>2. TypesInv /\ [LbcNext]_lbcVars => TypesInv'
  BY TypesSteps, SendSteps, SendersSteps
<1>3. TypesInv => TypeLbc
  <2> SUFFICES ASSUME TypesInv PROVE TypeLbc
    OBVIOUS
  <2>1. \A r \in Rows : message[r].status \in {"none", "QUEUED", "SENT", "FAILED"}
    BY DEF TypedLbc, Message
  <2>2. \A r \in Rows : delivered[r] > 0 => message[r].status # "none"
    BY DEF TypedLbc, SendInv, DeliveredHaveRows
  <2>3. \A t \in Tasks : task[t].todo \subseteq Listings /\ task[t].pool \subseteq Accounts
    BY DEF TypedLbc, Task
  <2> QED
    BY <2>1, <2>2, <2>3 DEF TypedSenders, SenderStatuses, TypeLbc
<1> QED
  BY <1>1, <1>2, <1>3, PTL
=============================================================================
