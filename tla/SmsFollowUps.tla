---------------------------- MODULE SmsFollowUps ----------------------------
(***************************************************************************)
(* Follow-up sequences and the replies that stop them: the creation of a   *)
(* sequence and the task that sends what is due (sms_sequence.py), the     *)
(* webhook of inbound messages (webhooks/sms.py), their record and replay  *)
(* (sms_inbox.py) and the blacklist (blacklist.py).                        *)
(*                                                                         *)
(* A transaction is one step, except for the task that sends: it locks the *)
(* rows of the sequences it claims and sends inside its transaction, so    *)
(* its claim, each contact it reads, each message and its commit are steps *)
(* of their own, and what it writes is visible at the commit only.         *)
(***************************************************************************)
EXTENDS Integers, FiniteSets

CONSTANTS
    Contacts,       \* numbers in E.164 form
    Sequences,      \* pairs of a contact and a campaign: the pair is unique
    ContactOf,      \* the contact of each sequence
    Events,         \* messages that the provider delivers to the webhook
    SenderOf,       \* the contact that sent each of them
    KindOf,         \* "STOP", "reply", or "blank" when the body is empty
    Tasks,          \* executions of run_sms_sequences_task that may overlap
    None,
    LastStep,       \* len(SEQUENCE_DELAYS_DAYS) - 1
    DueOf,          \* weeks from the creation to each step
    SplitSteps,     \* steps for which two or more templates are enabled
    Limit,          \* sequences claimed by a task
    MaxWeek,        \* bound: weeks that pass
    WindowCloses,   \* bound: FALSE keeps the instance inside the window
    MaxFaults,      \* bound: failing sends and failing transactions
    MaxCrashes      \* bound: processes that die

Steps == 0..LastStep

ASSUME SmsFollowUpsAssumption ==
    /\ ContactOf \in [Sequences -> Contacts]
    /\ SenderOf \in [Events -> Contacts]
    /\ KindOf \in [Events -> {"STOP", "reply", "blank"}]
    /\ None \notin Sequences \cup Events
    /\ LastStep \in Nat
    /\ DueOf \in [Steps -> Nat]
    /\ SplitSteps \subseteq Steps
    /\ Limit \in Nat \ {0}
    /\ {MaxWeek, MaxFaults, MaxCrashes} \subseteq Nat
    /\ WindowCloses \in BOOLEAN
    /\ IsFiniteSet(Sequences)

VARIABLES
    contact,        \* contacts.status, "none" before the row exists
    sequence,       \* sms_sequences
    blacklist,      \* blacklist.phone
    event,          \* webhook_events: "none", "pending" or "processed"
    logged,         \* events with an SmsLog row under the key inbound:{event}
    opening,        \* progress of ensure_contact_sequence for each sequence
    hook,           \* progress of the webhook request of each event
    task,           \* progress and locals of run_due_sms_sequences
    replay,         \* progress and locals of replay_pending_sms_events
    windowOpen, week, faults, crashes,
    \* What the sellers saw, for the properties.
    texts,          \* copies of each step's message that the provider accepted
    late            \* messages of a task to a number already on the blacklist

inbox == <<blacklist, event, logged, hook, replay>>
clock == <<windowOpen, week>>
vars == <<inbox, contact, sequence, opening, task, clock, faults, crashes,
          texts, late>>

-----------------------------------------------------------------------------
Never == -1
NoSequence == [status |-> "none", step |-> -1, born |-> 0, due |-> Never]
NoTask == [pc |-> "idle", claimed |-> {}, todo |-> {}, cur |-> None, known |-> {},
           sent |-> {}, dropped |-> {}, silenced |-> {}]
NoReplay == [pc |-> "idle", batch |-> {}, todo |-> {}, cur |-> None, done |-> {}]

Of(c) == {s \in Sequences : ContactOf[s] = c}

\* SELECT ... FOR UPDATE: the rows a task holds until its transaction ends.
Locked(s) == \E t \in Tasks : s \in task[t].claimed

Due(s) ==
    /\ sequence[s].status = "ACTIVE"
    /\ sequence[s].due # Never
    /\ sequence[s].due <= week

Init ==
    /\ contact = [c \in Contacts |-> "none"]
    /\ sequence = [s \in Sequences |-> NoSequence]
    /\ blacklist = {}
    /\ event = [e \in Events |-> "none"]
    /\ logged = {}
    /\ opening = [s \in Sequences |-> "no"]
    /\ hook = [e \in Events |-> "none"]
    /\ task = [t \in Tasks |-> NoTask]
    /\ replay = NoReplay
    /\ windowOpen = TRUE
    /\ week = 0
    /\ faults = 0
    /\ crashes = 0
    /\ texts = [s \in Sequences |-> [k \in Steps |-> 0]]
    /\ late = [t \in Tasks |-> [c \in Contacts |-> 0]]

Fault(n) ==
    /\ faults + n <= MaxFaults
    /\ faults' = faults + n

Crash ==
    /\ crashes < MaxCrashes
    /\ crashes' = crashes + 1

-----------------------------------------------------------------------------
(* ensure_contact_sequence: the checks, then the insertions.  The status of *)
(* the campaign, which must be RUNNING, belongs to SmsCampaign.             *)

EnsureChecks(s) ==
    LET c == ContactOf[s]
    IN  /\ opening[s] = "no"
        /\ c \notin blacklist
        /\ contact[c] \in {"none", "ACTIVE"}
        /\ sequence[s].status = "none"
        /\ opening' = [opening EXCEPT ![s] =
              IF contact[c] = "none" THEN "create" ELSE "reuse"]
        /\ UNCHANGED <<inbox, contact, sequence, task, clock, faults, crashes,
                       texts, late>>

\* phone_e164 is unique: a transaction that lost the race to create the contact
\* is rolled back.
EnsureInserts(s) ==
    LET c == ContactOf[s]
        wins == opening[s] = "create" => contact[c] = "none"
    IN  /\ opening[s] # "no"
        /\ opening' = [opening EXCEPT ![s] = "no"]
        /\ contact' = IF contact[c] = "none"
                      THEN [contact EXCEPT ![c] = "ACTIVE"] ELSE contact
        /\ sequence' = IF wins
                       THEN [sequence EXCEPT ![s] =
                              [status |-> "ACTIVE", step |-> -1, born |-> week, due |-> week]]
                       ELSE sequence
        /\ UNCHANGED <<inbox, task, clock, faults, crashes, texts, late>>

-----------------------------------------------------------------------------
(* run_due_sms_sequences.                                                  *)

\* Mutation of Claimable: FOR UPDATE without SKIP LOCKED, on a stale read.
ClaimableAll == {s \in Sequences : Due(s)}

\* SELECT ... FOR UPDATE SKIP LOCKED.
Claimable == {s \in Sequences : Due(s) /\ ~Locked(s)}

\* One transaction begins, inside the window; with nothing due it ends at once.
Claim(t, batch) ==
    /\ task[t].pc = "idle"
    /\ windowOpen
    /\ batch # {}
    /\ batch \subseteq Claimable
    /\ Cardinality(batch) = IF Cardinality(Claimable) <= Limit
                            THEN Cardinality(Claimable) ELSE Limit
    /\ task' = [task EXCEPT ![t] =
          [NoTask EXCEPT !.pc = "loop", !.claimed = batch, !.todo = batch,
             !.silenced = {c \in Contacts : contact[c] # "ACTIVE"}]]
    /\ UNCHANGED <<inbox, contact, sequence, opening, clock, faults, crashes,
                   texts, late>>

\* Mutation of Silent: the blacklist is not asked again.
SilentByStatus(t, c) == contact[c] # "ACTIVE" /\ c \notin task[t].known

\* Mutation of Silent: the status of the contact is not looked at.
SilentIfListed(t, c) == c \in blacklist

\* The session keeps the contact it loaded first: for a second sequence of the
\* same contact it sees the status of the first.  is_blacklisted asks anew.
Silent(t, c) ==
    \/ contact[c] # "ACTIVE" /\ c \notin task[t].known
    \/ c \in blacklist

\* The contact of the next sequence silences it, or its message is prepared.
Screen(t, s) ==
    LET c == ContactOf[s]
        r == task[t]
    IN  /\ r.pc = "loop"
        /\ s \in r.todo
        /\ task' = [task EXCEPT ![t] =
              IF Silent(t, c)
              THEN [r EXCEPT !.todo = @ \ {s}, !.dropped = @ \cup {s}]
              ELSE [r EXCEPT !.todo = @ \ {s}, !.known = @ \cup {c},
                             !.pc = "send", !.cur = s]]
        /\ UNCHANGED <<inbox, contact, sequence, opening, clock, faults, crashes,
                       texts, late>>

\* No SIM of the sector has quota left: the sequence is left for a later run.
SkipWithoutSim(t) ==
    /\ task[t].pc = "send"
    /\ task' = [task EXCEPT ![t].pc = "loop"]
    /\ UNCHANGED <<inbox, contact, sequence, opening, clock, faults, crashes,
                   texts, late>>

\* The provider accepted n copies.
Texted(t, n) ==
    LET s == task[t].cur
    IN  texts' = [texts EXCEPT ![s][sequence[s].step + 1] = @ + n]

\* send_sms was called: its message cannot be taken back.
Called(t) ==
    LET c == ContactOf[task[t].cur]
    IN  late' = IF c \in blacklist THEN [late EXCEPT ![t][c] = @ + 1] ELSE late

\* The answer is SENT, after attempts whose answer may have been lost.
SendAccepted(t, lost) ==
    /\ task[t].pc = "send"
    /\ Fault(lost)
    /\ Texted(t, 1 + lost)
    /\ Called(t)
    /\ task' = [task EXCEPT ![t].pc = "loop", ![t].sent = @ \cup {task[t].cur}]
    /\ UNCHANGED <<inbox, contact, sequence, opening, clock, crashes>>

\* Any other answer, or an exception: both end in the next turn of the loop.
SendFailed(t, lost) ==
    /\ task[t].pc = "send"
    /\ Fault(1 + lost)
    /\ Texted(t, lost)
    /\ Called(t)
    /\ task' = [task EXCEPT ![t].pc = "loop"]
    /\ UNCHANGED <<inbox, contact, sequence, opening, clock, crashes>>

\* Mutation of AfterSend: the next step is due at once.
AfterSendNow(q) == [q EXCEPT !.step = @ + 1, !.due = week]

\* Mutation of AfterSend: the last step does not complete the sequence.
AfterSendPastEnd(q) ==
    [q EXCEPT !.step = @ + 1,
       !.due = IF q.step + 2 > LastStep THEN @ ELSE q.born + DueOf[q.step + 2]]

\* A sequence whose message was sent.  When the next step has two templates,
\* scalar_one_or_none raises after current_step was set: the date stays.
AfterSend(q) ==
    LET next == q.step + 2
    IN  [q EXCEPT !.step = @ + 1,
           !.due = IF next > LastStep THEN Never
                   ELSE IF next \in SplitSteps THEN @ ELSE q.born + DueOf[next],
           !.status = IF next > LastStep THEN "COMPLETED" ELSE @]

Commit(t) ==
    /\ task[t].pc = "loop"
    /\ task[t].todo = {}
    /\ sequence' = [s \in Sequences |->
          IF s \in task[t].sent THEN AfterSend(sequence[s])
          ELSE IF s \in task[t].dropped THEN [sequence[s] EXCEPT !.status = "CANCELLED"]
          ELSE sequence[s]]
    /\ task' = [task EXCEPT ![t] = NoTask]
    /\ late' = [late EXCEPT ![t] = [c \in Contacts |-> 0]]
    /\ UNCHANGED <<inbox, contact, opening, clock, faults, crashes, texts>>

\* The worker dies, or get_sim_list or a query raises outside the inner try:
\* the transaction is rolled back, the messages are not.
Rollback(t) ==
    /\ task[t].pc # "idle"
    /\ Crash
    /\ task' = [task EXCEPT ![t] = NoTask]
    /\ late' = [late EXCEPT ![t] = [c \in Contacts |-> 0]]
    /\ UNCHANGED <<inbox, contact, sequence, opening, clock, faults, texts>>

-----------------------------------------------------------------------------
(* record_inbound_sms, for the webhook and for the replay.                 *)

\* The status that the first transaction gives the contact.
RecordedStatus(e) ==
    CASE KindOf[e] = "STOP" -> "DO_NOT_CONTACT"
      [] KindOf[e] = "blank" -> "INVALID"
      [] OTHER -> "PAUSED"

\* The SmsLog row and the status.  The key inbound:{event} is unique.
Recorded(e) ==
    /\ e \notin logged
    /\ logged' = logged \cup {e}
    /\ contact' = [contact EXCEPT ![SenderOf[e]] = RecordedStatus(e)]

\* Mutation of Stopped: the rows are written although a task holds them.
StoppedAtOnce(e) ==
    /\ contact' = [contact EXCEPT ![SenderOf[e]] =
          IF KindOf[e] = "STOP" THEN "DO_NOT_CONTACT" ELSE "PAUSED"]
    /\ sequence' = [s \in Sequences |->
          IF ContactOf[s] = SenderOf[e] /\ sequence[s].status = "ACTIVE"
          THEN [sequence[s] EXCEPT !.status = "CANCELLED", !.due = Never]
          ELSE sequence[s]]

\* stop_contact_sequences, which waits for the rows a task has locked.
Stopped(e) ==
    LET active == {s \in Of(SenderOf[e]) : sequence[s].status = "ACTIVE"}
    IN  /\ \A s \in active : ~Locked(s)
        /\ contact' = [contact EXCEPT ![SenderOf[e]] =
              IF KindOf[e] = "STOP" THEN "DO_NOT_CONTACT" ELSE "PAUSED"]
        /\ sequence' = [s \in Sequences |->
              IF s \in active
              THEN [sequence[s] EXCEPT !.status = "CANCELLED", !.due = Never]
              ELSE sequence[s]]

-----------------------------------------------------------------------------
(* receive_sms and its background task.  A delivery of an event that is     *)
(* stored already is answered "duplicate" and changes nothing.              *)

Receive(e) ==
    /\ event[e] = "none"
    /\ event' = [event EXCEPT ![e] = "pending"]
    /\ hook' = [hook EXCEPT ![e] = IF KindOf[e] = "STOP" THEN "blacklist" ELSE "record"]
    /\ UNCHANGED <<contact, sequence, blacklist, logged, opening, task, replay,
                   clock, faults, crashes, texts, late>>

AddToBlacklist(e) ==
    /\ hook[e] = "blacklist"
    /\ blacklist' = blacklist \cup {SenderOf[e]}
    /\ hook' = [hook EXCEPT ![e] = "record"]
    /\ UNCHANGED <<contact, sequence, event, logged, opening, task, replay,
                   clock, faults, crashes, texts, late>>

HookRecords(e) ==
    /\ hook[e] = "record"
    /\ Recorded(e)
    /\ hook' = [hook EXCEPT ![e] = "stop"]
    /\ UNCHANGED <<sequence, blacklist, event, opening, task, replay, clock,
                   faults, crashes, texts, late>>

\* The replay was first: the exception is logged, the event left to it.
HookIsLate(e) ==
    /\ hook[e] = "record"
    /\ e \in logged
    /\ hook' = [hook EXCEPT ![e] = "done"]
    /\ UNCHANGED <<contact, sequence, blacklist, event, logged, opening, task,
                   replay, clock, faults, crashes, texts, late>>

HookStops(e) ==
    /\ hook[e] = "stop"
    /\ Stopped(e)
    /\ hook' = [hook EXCEPT ![e] = "mark"]
    /\ UNCHANGED <<blacklist, event, logged, opening, task, replay, clock,
                   faults, crashes, texts, late>>

\* The replay locks the events it works on.
HookMarks(e) ==
    /\ hook[e] = "mark"
    /\ e \notin replay.batch
    /\ event' = [event EXCEPT ![e] = "processed"]
    /\ hook' = [hook EXCEPT ![e] = "done"]
    /\ UNCHANGED <<contact, sequence, blacklist, logged, opening, task, replay,
                   clock, faults, crashes, texts, late>>

\* A transaction of the request fails: add_to_blacklist answers 500 and drops
\* the background task, the record is left to the replay.
HookFails(e) ==
    /\ hook[e] \in {"blacklist", "record", "stop", "mark"}
    /\ Crash
    /\ hook' = [hook EXCEPT ![e] = "done"]
    /\ UNCHANGED <<contact, sequence, blacklist, event, logged, opening, task,
                   replay, clock, faults, texts, late>>

-----------------------------------------------------------------------------
(* replay_pending_sms_events, every minute.                                *)

ReplayBegins ==
    LET pending == {e \in Events : event[e] = "pending"}
    IN  /\ replay.pc = "idle"
        /\ pending # {}
        /\ replay' = [NoReplay EXCEPT !.pc = "loop", !.batch = pending, !.todo = pending]
        /\ UNCHANGED <<contact, sequence, blacklist, event, logged, opening, hook,
                       task, clock, faults, crashes, texts, late>>

ReplayRecords(e) ==
    /\ replay.pc = "loop"
    /\ e \in replay.todo
    /\ Recorded(e)
    /\ replay' = [replay EXCEPT !.pc = "stop", !.cur = e, !.todo = @ \ {e}]
    /\ UNCHANGED <<sequence, blacklist, event, opening, hook, task, clock,
                   faults, crashes, texts, late>>

\* The event has its SmsLog row: the insertion fails and the event is skipped.
ReplaySkips(e) ==
    /\ replay.pc = "loop"
    /\ e \in replay.todo
    /\ e \in logged
    /\ replay' = [replay EXCEPT !.todo = @ \ {e}]
    /\ UNCHANGED <<contact, sequence, blacklist, event, logged, opening, hook,
                   task, clock, faults, crashes, texts, late>>

ReplayStops ==
    /\ replay.pc = "stop"
    /\ Stopped(replay.cur)
    /\ replay' = [replay EXCEPT !.pc = "loop", !.cur = None, !.done = @ \cup {replay.cur}]
    /\ UNCHANGED <<blacklist, event, logged, opening, hook, task, clock, faults,
                   crashes, texts, late>>

\* Mutation of ReplayCommits: the marks are forgotten.
ReplayCommitsNothing ==
    /\ replay.pc = "loop"
    /\ replay.todo = {}
    /\ replay' = NoReplay
    /\ UNCHANGED <<contact, sequence, blacklist, event, logged, opening, hook,
                   task, clock, faults, crashes, texts, late>>

\* The marks of the events that were recorded, at the end.
ReplayCommits ==
    /\ replay.pc = "loop"
    /\ replay.todo = {}
    /\ event' = [e \in Events |-> IF e \in replay.done THEN "processed" ELSE event[e]]
    /\ replay' = NoReplay
    /\ UNCHANGED <<contact, sequence, blacklist, logged, opening, hook, task,
                   clock, faults, crashes, texts, late>>

\* The worker dies: what it recorded stays, its marks are rolled back.
ReplayDies ==
    /\ replay.pc # "idle"
    /\ Crash
    /\ replay' = NoReplay
    /\ UNCHANGED <<contact, sequence, blacklist, event, logged, opening, hook,
                   task, clock, faults, texts, late>>

-----------------------------------------------------------------------------
MoveWindow ==
    /\ WindowCloses
    /\ windowOpen' = ~windowOpen
    /\ UNCHANGED <<inbox, contact, sequence, opening, task, week, faults, crashes,
                   texts, late>>

PassWeek ==
    /\ week < MaxWeek
    /\ week' = week + 1
    /\ UNCHANGED <<inbox, contact, sequence, opening, task, windowOpen, faults,
                   crashes, texts, late>>

-----------------------------------------------------------------------------
\* A task goes on by itself: send_sms and get_sim_list have timeouts.
TaskGoesOn(t) ==
    \/ \E s \in Sequences : Screen(t, s)
    \/ SkipWithoutSim(t)
    \/ \E lost \in 0..2 : SendAccepted(t, lost)
    \/ \E lost \in 0..3 : SendFailed(t, lost)
    \/ Commit(t)

HookGoesOn(e) == AddToBlacklist(e) \/ HookRecords(e) \/ HookIsLate(e)
                 \/ HookStops(e) \/ HookMarks(e)

ReplayGoesOn ==
    \/ \E e \in Events : ReplayRecords(e) \/ ReplaySkips(e)
    \/ ReplayStops
    \/ ReplayCommits

Next ==
    \/ \E s \in Sequences : EnsureChecks(s) \/ EnsureInserts(s)
    \/ \E t \in Tasks :
          \/ \E batch \in SUBSET Sequences : Claim(t, batch)
          \/ TaskGoesOn(t)
          \/ Rollback(t)
    \/ \E e \in Events : Receive(e) \/ HookGoesOn(e) \/ HookFails(e)
    \/ ReplayBegins \/ ReplayGoesOn \/ ReplayDies
    \/ MoveWindow
    \/ PassWeek

Spec == Init /\ [][Next]_vars

\* Celery beat starts the replay every minute and the sequences every five;
\* PostgreSQL grants a row to those who wait for it; the window reopens and
\* weeks pass.  Neither sellers nor operators have to do anything.
FairSpec ==
    /\ Spec
    /\ \A t \in Tasks :
          /\ WF_vars(TaskGoesOn(t))
          /\ SF_vars(\E batch \in SUBSET Sequences : Claim(t, batch))
    /\ \A e \in Events : WF_vars(HookGoesOn(e)) /\ SF_vars(HookStops(e))
                         /\ SF_vars(HookMarks(e))
    /\ WF_vars(ReplayBegins)
    /\ WF_vars(ReplayGoesOn) /\ SF_vars(ReplayStops)
    /\ WF_vars(PassWeek)
    /\ WF_vars(MoveWindow /\ windowOpen')

-----------------------------------------------------------------------------
(* Properties.                                                             *)

TypeOK ==
    /\ contact \in [Contacts -> {"none", "ACTIVE", "PAUSED", "INVALID", "DO_NOT_CONTACT"}]
    /\ sequence \in [Sequences ->
          [status : {"none", "ACTIVE", "COMPLETED", "CANCELLED"},
           step : -1..LastStep, born : Nat, due : Nat \cup {Never}]]
    /\ blacklist \subseteq Contacts
    /\ event \in [Events -> {"none", "pending", "processed"}]
    /\ logged \subseteq Events
    /\ opening \in [Sequences -> {"no", "create", "reuse"}]
    /\ hook \in [Events -> {"none", "blacklist", "record", "stop", "mark", "done"}]
    /\ task \in [Tasks ->
          [pc : {"idle", "loop", "send"}, claimed : SUBSET Sequences,
           todo : SUBSET Sequences, cur : Sequences \cup {None},
           known : SUBSET Contacts, sent : SUBSET Sequences,
           dropped : SUBSET Sequences, silenced : SUBSET Contacts]]
    /\ replay \in [pc : {"idle", "loop", "stop"}, batch : SUBSET Events,
                   todo : SUBSET Events, cur : Events \cup {None}, done : SUBSET Events]
    /\ windowOpen \in BOOLEAN
    /\ week \in Nat
    /\ faults \in Nat
    /\ crashes \in Nat
    /\ texts \in [Sequences -> [Steps -> Nat]]
    /\ late \in [Tasks -> [Contacts -> Nat]]

\* "Idempotent SMS follow-up sequences": a step is texted once, however many
\* tasks overlap; each further copy is a lost answer, a failed send or a
\* transaction that was rolled back (sms_sequence.py 240-250, 336, 366-411).
StepsAreTextedOnce ==
    \A s \in Sequences, k \in Steps : texts[s][k] <= 1 + faults + crashes

\* A message that leaves is the next of a sequence that is ACTIVE and due, and
\* its row stays locked until then: no reply cancels it under the task
\* (sms_sequence.py 240-250, 417-429).
ClaimsHold ==
    \A t \in Tasks : \A s \in task[t].claimed :
        /\ sequence[s].status = "ACTIVE"
        /\ \A u \in Tasks \ {t} : s \notin task[u].claimed

\* A task that began after a reply was recorded does not text its sender, even
\* if the reply's second transaction never came (sms_sequence.py 266-271).
RepliesSilence ==
    \A t \in Tasks : task[t].pc = "send" =>
        ContactOf[task[t].cur] \notin task[t].silenced

\* A task texts a number that is on the blacklist at most once: it asks again
\* for each sequence, even of a contact it holds in its session.
ListedWithinOneMessage ==
    \A t \in Tasks, c \in Contacts : late[t][c] <= 1

\* Each step leaves at its time in the programme, counted from the creation of
\* the sequence (sms_sequence.py 117-118, 399-405).
StepsAreDue ==
    [][\A s \in Sequences, k \in Steps : texts'[s][k] > texts[s][k] =>
          week >= sequence[s].born + DueOf[k]]_vars

\* Every stored message is processed in the end, by the webhook or by the
\* replay, unless one of them dies half-way (sms_inbox.py 125-154).
EventsAreProcessed ==
    \A e \in Events :
        event[e] = "pending" ~> (event[e] = "processed" \/ crashes > 0)

\* The sequences of a contact that answered end, even those that were inserted
\* behind the reply or whose stop was lost in a crash: the next run finds them.
\* (The model counts MaxWeek weeks: the programme must end within them.)
SilencedSequencesEnd ==
    \A s \in Sequences :
        (/\ sequence[s].status = "ACTIVE"
         /\ sequence[s].born + DueOf[LastStep] <= MaxWeek
         /\ contact[ContactOf[s]] # "ACTIVE")
        ~> sequence[s].status # "ACTIVE"

\* R02: the number of a STOP that was received is on the blacklist in the end.
StopIsBlacklisted ==
    \A e \in Events :
        (event[e] # "none" /\ KindOf[e] = "STOP") ~> SenderOf[e] \in blacklist

\* The abstract course of a sequence.
Course == INSTANCE SequenceCourse WITH
    status <- [s \in Sequences |-> sequence[s].status],
    step <- [s \in Sequences |-> sequence[s].step],
    delivered <- [s \in Sequences |-> {k \in Steps : texts[s][k] > 0}]

\* The tasks, webhooks and replays together give every sequence that course.
FollowsCourse == Course!Spec
=============================================================================
