---------------------------- MODULE LbcMessaging ----------------------------
(***************************************************************************)
(* One run of a campaign that writes to sellers through Leboncoin's        *)
(* messaging (lbc_messaging.py), and the accounts it writes from: a task   *)
(* takes a batch of eligible listings and a snapshot of the active         *)
(* accounts, then sends one message after the other with Browser Use.      *)
(* Operators pause, resume and cancel the campaign and move the accounts;  *)
(* the warm-up decides about the accounts it read a moment ago.            *)
(***************************************************************************)
EXTENDS Integers, FiniteSets, FiniteSetsExt, AccountStates

CONSTANTS
    Listings, Accounts, Tasks,
    Quota,         \* quota_actuel of an account
    BatchSize,     \* LBC_MESSAGE_BATCH_SIZE
    Templated,     \* the follow-up steps that have an enabled template
    MaxDays,       \* bound: the days that pass
    MaxTrouble     \* bound: commands on the campaign and on accounts, failed
                   \* calls and dead workers together

ASSUME LbcAssumption ==
    /\ IsFiniteSet(Listings) /\ Listings # {}
    /\ Accounts # {}
    /\ Templated \subseteq {1, 2}
    /\ BatchSize \in Nat \ {0}
    /\ Quota \in Nat

VARIABLES
    status,      \* of the campaign and of its workflow run
    message,     \* lbc_message_log by listing and step: status, account, of today
    delivered,   \* what Leboncoin delivered (external)
    due,         \* the listings whose latest next_due_at has passed
    sender,      \* platform_accounts.status, or "deleted"
    warming,     \* the accounts the warm-up read and has not decided about
    task,        \* the Celery tasks of the run
    stray,       \* history: messages a task sent since the campaign left RUNNING
    overlapped,  \* history: two tasks had a batch at the same time
    lost,        \* history: a worker died with a task
    count        \* of the bounds

lbcVars == <<status, message, delivered, due, sender, warming, task, stray, overlapped, lost, count>>
campaignVars == <<message, delivered, due, task, overlapped, lost>>

Steps == 0 .. 2
Rows == Listings \X Steps

NoMessage == [status |-> "none", account |-> CHOOSE a \in Accounts : TRUE, today |-> FALSE]

NoTask == [at |-> "idle", todo |-> {}, more |-> FALSE, pool |-> {},
           usage |-> [a \in Accounts |-> 0], row |-> CHOOSE r \in Rows : TRUE,
           account |-> CHOOSE a \in Accounts : TRUE, result |-> "none",
           seen |-> [campaign |-> "none", run |-> "none"]]

First == CHOOSE t \in Tasks : TRUE

\* The start command was committed and its task queued.
InitLbc ==
    /\ status = [campaign |-> "RUNNING", run |-> "PENDING"]
    /\ message = [r \in Rows |-> NoMessage]
    /\ delivered = [r \in Rows |-> 0]
    /\ due = {}
    /\ sender = [a \in Accounts |-> "ACTIF"]
    /\ warming = {}
    /\ task = [t \in Tasks |-> [NoTask EXCEPT !.at = IF t = First THEN "queued" ELSE "idle"]]
    /\ stray = [t \in Tasks |-> 0]
    /\ overlapped = FALSE
    /\ lost = FALSE
    /\ count = [days |-> 0, commands |-> 0, faults |-> 0]

Trouble == count.commands + count.faults

LbcFault ==
    /\ Trouble < MaxTrouble
    /\ count' = [count EXCEPT !.faults = @ + 1]

SetBoth(s) == status' = [campaign |-> s, run |-> s]

SetTask(t, rec) == task' = [task EXCEPT ![t] = rec]

TaskAt(t, at) == task' = [task EXCEPT ![t].at = at]

\* Rows that count: a failed message is one that was never sent.
Counted(l) == {s \in Steps : message[<<l, s>>].status \in {"QUEUED", "SENT"}}

Eligible ==
    {l \in Listings :
        /\ Cardinality(Counted(l)) < 3
        /\ Counted(l) = {} \/ l \in due}

Active(t) == task[t].at \notin {"idle", "queued"}

-----------------------------------------------------------------------------
(* A batch.                                                                *)

\* Mutation of More: a batch that is full is taken for the last one.
MoreNever == FALSE

More == Cardinality(Eligible) > BatchSize

\* The query has no order: any batch of the eligible listings.
Begin(t) ==
    /\ task[t].at = "queued"
    /\ IF status.campaign # "RUNNING"
       THEN /\ SetTask(t, NoTask)
            /\ UNCHANGED <<status, overlapped>>
       ELSE /\ status' = [status EXCEPT !.run = "RUNNING"]
            /\ \E B \in SUBSET Eligible :
                  /\ Cardinality(B) = Min({BatchSize, Cardinality(Eligible)})
                  /\ SetTask(t, [NoTask EXCEPT
                        !.at = IF \E a \in Accounts : sender[a] = "ACTIF" THEN "usage" ELSE "none",
                        !.todo = B, !.more = More,
                        !.pool = {a \in Accounts : sender[a] = "ACTIF"}])
            /\ overlapped' = (overlapped \/ \E u \in Tasks \ {t} : Active(u))
    /\ UNCHANGED <<message, delivered, due, sender, warming, stray, lost, count>>

NoAccount(t) ==
    /\ task[t].at = "none"
    /\ status' = [campaign |-> "PAUSED", run |-> "FAILED"]
    /\ SetTask(t, NoTask)
    /\ UNCHANGED <<message, delivered, due, sender, warming, stray, overlapped, lost, count>>

SentToday(a) ==
    {r \in Rows : message[r].status = "SENT" /\ message[r].account = a /\ message[r].today}

ReadUsage(t) ==
    /\ task[t].at = "usage"
    /\ SetTask(t, [task[t] EXCEPT !.at = "check",
                                  !.usage = [a \in Accounts |-> Cardinality(SentToday(a))]])
    /\ UNCHANGED <<status, message, delivered, due, sender, warming, stray, overlapped, lost, count>>

\* Mutation of MayContinue: nothing is looked at.
MayContinueAnyway(s) == TRUE

MayContinue(s) == s.campaign = "RUNNING" /\ s.run = "RUNNING"

\* The accounts that the snapshot and the usage of this batch allow.
Free(t) == {a \in task[t].pool : task[t].usage[a] < Quota}

\* Takes a listing and the account that was used least.
TakeListing(t) ==
    /\ task[t].at = "check"
    /\ MayContinue(status)
    /\ \E l \in task[t].todo :
          IF Free(t) = {}
          THEN SetTask(t, [task[t] EXCEPT !.at = "quota"])
          ELSE \E a \in Free(t) :
                  /\ \A b \in Free(t) : task[t].usage[a] <= task[t].usage[b]
                  /\ SetTask(t, [task[t] EXCEPT !.at = "step", !.todo = @ \ {l},
                                                !.row = <<l, 0>>, !.account = a])
    /\ UNCHANGED <<status, message, delivered, due, sender, warming, stray, overlapped, lost, count>>

LeaveLoop(t) ==
    /\ task[t].at = "check"
    /\ task[t].todo = {} \/ ~MayContinue(status)
    /\ TaskAt(t, "end")
    /\ UNCHANGED <<status, message, delivered, due, sender, warming, stray, overlapped, lost, count>>

PauseForQuota(t) ==
    /\ task[t].at = "quota"
    /\ SetBoth("PAUSED")
    /\ SetTask(t, NoTask)
    /\ UNCHANGED <<message, delivered, due, sender, warming, stray, overlapped, lost, count>>

\* The step is counted again; the first one needs no template.
PickStep(t) ==
    /\ task[t].at = "step"
    /\ LET l == task[t].row[1]
           s == Cardinality(Counted(l))
       IN  IF s \in {0} \cup Templated
           THEN SetTask(t, [task[t] EXCEPT !.at = "queue", !.row = <<l, s>>])
           ELSE TaskAt(t, "check")
    /\ UNCHANGED <<status, message, delivered, due, sender, warming, stray, overlapped, lost, count>>

\* Mutation of KeyIsFree: the conflict on external_key is ignored.
KeyIsFreeAlways(r) == TRUE

\* external_key is unique, whatever became of its message.
KeyIsFree(r) == message[r].status = "none"

QueueMessage(t) ==
    /\ task[t].at = "queue"
    /\ LET r == task[t].row
       IN  IF KeyIsFree(r)
           THEN /\ message' = [message EXCEPT ![r] =
                        [status |-> "QUEUED", account |-> task[t].account, today |-> TRUE]]
                /\ due' = due \ {r[1]}
                /\ TaskAt(t, "send")
           ELSE /\ UNCHANGED <<message, due>>
                /\ TaskAt(t, "check")
    /\ UNCHANGED <<status, delivered, sender, warming, stray, overlapped, lost, count>>

Stray(t) ==
    stray' = IF status.campaign = "RUNNING" THEN stray ELSE [stray EXCEPT ![t] = @ + 1]

Deliver(r) == delivered' = [delivered EXCEPT ![r] = @ + 1]

Send(t) ==
    /\ task[t].at = "send"
    /\ Deliver(task[t].row)
    /\ Stray(t)
    /\ SetTask(t, [task[t] EXCEPT !.at = "mark", !.result = "SENT"])
    /\ UNCHANGED <<status, message, due, sender, warming, overlapped, lost, count>>

\* Refused, timed out or never answered: it may have been delivered.
SendFails(t) ==
    /\ task[t].at = "send"
    /\ LbcFault
    /\ Deliver(task[t].row) \/ UNCHANGED delivered
    /\ Stray(t)
    /\ SetTask(t, [task[t] EXCEPT !.at = "mark", !.result = "FAILED"])
    /\ UNCHANGED <<status, message, due, sender, warming, overlapped, lost>>

\* Mutation of Used: the usage read at the beginning is not kept up to date.
UsedOnce(usage, a) == usage

Used(usage, a) == [usage EXCEPT ![a] = @ + 1]

Mark(t) ==
    /\ task[t].at = "mark"
    /\ message' = [message EXCEPT ![task[t].row].status = task[t].result]
    /\ SetTask(t, [task[t] EXCEPT !.at = "check",
          !.usage = IF task[t].result = "SENT" THEN Used(@, task[t].account) ELSE @])
    /\ UNCHANGED <<status, delivered, due, sender, warming, stray, overlapped, lost, count>>

\* The end of the batch reads both rows and writes what it decided, over what
\* a command wrote in between.
EndReads(t) ==
    /\ task[t].at = "end"
    /\ SetTask(t, [task[t] EXCEPT !.at = "write", !.seen = status])
    /\ UNCHANGED <<status, message, delivered, due, sender, warming, stray, overlapped, lost, count>>

FinalStatus(t) ==
    IF task[t].seen.campaign \in {"PAUSED", "CANCELLED"} THEN task[t].seen.campaign
    ELSE IF task[t].more THEN "RUNNING" ELSE "COMPLETED"

EndWrites(t) ==
    /\ task[t].at = "write"
    /\ status' = [campaign |-> IF FinalStatus(t) = task[t].seen.campaign THEN status.campaign
                               ELSE FinalStatus(t),
                  run |-> IF FinalStatus(t) = task[t].seen.run THEN status.run ELSE FinalStatus(t)]
    /\ SetTask(t, [NoTask EXCEPT !.at = IF FinalStatus(t) = "RUNNING" THEN "queued" ELSE "idle"])
    /\ stray' = IF status'.campaign = "RUNNING" /\ status.campaign # "RUNNING"
                THEN [u \in Tasks |-> 0] ELSE stray
    /\ UNCHANGED <<message, delivered, due, sender, warming, overlapped, lost, count>>

\* An exception: mark_lbc_message_campaign_failed, over a pause or a cancel.
TaskFails(t) ==
    /\ Active(t)
    /\ LbcFault
    /\ SetBoth("FAILED")
    /\ SetTask(t, NoTask)
    /\ UNCHANGED <<message, delivered, due, sender, warming, stray, overlapped, lost>>

TaskDies(t) ==
    /\ task[t].at # "idle"
    /\ LbcFault
    /\ SetTask(t, NoTask)
    /\ lost' = TRUE
    /\ UNCHANGED <<status, message, delivered, due, sender, warming, stray, overlapped>>

-----------------------------------------------------------------------------
(* Commands on the campaign, the calendar and the accounts.                *)

Command ==
    /\ Trouble < MaxTrouble
    /\ count' = [count EXCEPT !.commands = @ + 1]

Pause ==
    /\ Command
    /\ status.campaign = "RUNNING"
    /\ SetBoth("PAUSED")
    /\ UNCHANGED <<campaignVars, sender, warming, stray>>

Cancel ==
    /\ Command
    /\ status.campaign \in {"RUNNING", "PAUSED"}
    /\ SetBoth("CANCELLED")
    /\ UNCHANGED <<campaignVars, sender, warming, stray>>

FreeSlots == {t \in Tasks : task[t] = NoTask}

\* A task that has not noticed the pause goes on beside the new one.
Resume ==
    /\ Command
    /\ status = [campaign |-> "PAUSED", run |-> "PAUSED"]
    /\ status' = [campaign |-> "RUNNING", run |-> "PENDING"]
    /\ FreeSlots # {} /\ TaskAt(CHOOSE t \in FreeSlots : TRUE, "queued")
    /\ overlapped' = (overlapped \/ \E t \in Tasks : Active(t))
    /\ stray' = [t \in Tasks |-> 0]
    /\ UNCHANGED <<message, delivered, due, sender, warming, lost>>

\* A new day: the follow-ups of what was sent are due, the quotas are free.
DayPasses ==
    /\ count.days < MaxDays
    /\ count' = [count EXCEPT !.days = @ + 1]
    /\ message' = [r \in Rows |-> [message[r] EXCEPT !.today = FALSE]]
    /\ due' = {r[1] : r \in {q \in Rows : message[q].status # "none"}}
    /\ UNCHANGED <<status, delivered, sender, warming, task, stray, overlapped, lost>>

MoveAccount(a) ==
    /\ Command
    /\ \E m \in Transitions : sender[a] = m.from /\ sender' = [sender EXCEPT ![a] = m.to]
    /\ UNCHANGED <<status, campaignVars, warming, stray>>

\* PATCH /accounts/{id}/status: any status, whatever the transitions say.
PatchAccount(a) ==
    /\ Command
    /\ sender[a] # "deleted"
    /\ \E s \in AccountStatuses \ {sender[a]} : sender' = [sender EXCEPT ![a] = s]
    /\ UNCHANGED <<status, campaignVars, warming, stray>>

RemoveAccount(a) ==
    /\ Command
    /\ sender[a] = "QUARANTAINE"
    /\ sender' = [sender EXCEPT ![a] = "deleted"]
    /\ UNCHANGED <<status, campaignVars, warming, stray>>

WarmUpReads ==
    /\ warming = {}
    /\ warming' = {a \in Accounts : sender[a] = "EN_CHAUFFE"}
    /\ warming' # {}
    /\ UNCHANGED <<status, campaignVars, sender, stray, count>>

\* Promoted, slowed down or kept, by what was read: over a quarantine that an
\* operator set since.
WarmUpDecides(a) ==
    /\ a \in warming
    /\ warming' = warming \ {a}
    /\ \E s \in {"ACTIF", "RALENTI", sender[a]} :
          sender' = [sender EXCEPT ![a] = IF @ = "deleted" THEN @ ELSE s]
    /\ UNCHANGED <<status, campaignVars, stray, count>>

-----------------------------------------------------------------------------

TaskStep(t) ==
    \/ Begin(t) \/ NoAccount(t) \/ ReadUsage(t)
    \/ TakeListing(t) \/ LeaveLoop(t) \/ PauseForQuota(t)
    \/ PickStep(t) \/ QueueMessage(t) \/ Send(t) \/ Mark(t)
    \/ EndReads(t) \/ EndWrites(t)

AccountsMove ==
    \/ \E a \in Accounts :
          MoveAccount(a) \/ PatchAccount(a) \/ RemoveAccount(a) \/ WarmUpDecides(a)
    \/ WarmUpReads

LbcNext ==
    \/ \E t \in Tasks : TaskStep(t) \/ SendFails(t) \/ TaskFails(t) \/ TaskDies(t)
    \/ Pause \/ Cancel \/ Resume
    \/ DayPasses
    \/ AccountsMove

-----------------------------------------------------------------------------

TypeLbc ==
    /\ \A r \in Rows :
          /\ message[r].status \in {"none", "QUEUED", "SENT", "FAILED"}
          /\ delivered[r] > 0 => message[r].status # "none"
    /\ due \subseteq Listings
    /\ \A a \in Accounts : sender[a] \in AccountStatuses \cup {"deleted"}
    /\ warming \subseteq Accounts
    /\ \A t \in Tasks : task[t].todo \subseteq Listings /\ task[t].pool \subseteq Accounts

\* A seller receives each step of the campaign at most once, whatever tasks run
\* together, fail or are resumed.
StepsAreSentOnce == \A r \in Rows : delivered[r] <= 1

\* On one day an account delivers no more than its quota and one message per
\* fault, unless two batches counted at the same time.
QuotasHold ==
    ~overlapped => \A a \in Accounts :
        Cardinality({r \in Rows : delivered[r] > 0 /\ message[r].account = a /\ message[r].today})
            <= Quota + count.faults

\* Once the campaign is paused, cancelled or failed, each task sends at most
\* the message it was preparing.
StopsAfterOneMessage == \A t \in Tasks : stray[t] <= 1

Untouched(l) == \A s \in Steps : message[<<l, s>>].status = "none"

\* A campaign that reports COMPLETED has written, or tried to write, to every
\* listing, unless two of its tasks overlapped.
CompletedIsTreated ==
    status.campaign = "COMPLETED" /\ ~overlapped => \A l \in Listings : ~Untouched(l)

\* While its campaign runs, every eligible listing is written to in the end,
\* unless the campaign is stopped, a worker dies or two batches overlap.
BacklogIsTreated ==
    \A l \in Listings :
        (Untouched(l) /\ status.campaign = "RUNNING")
            ~> (\/ ~Untouched(l)
                \/ status.campaign \in {"PAUSED", "CANCELLED", "FAILED"}
                \/ lost \/ overlapped)
=============================================================================
