-------------------------- MODULE SmsFollowUpsProofs --------------------------
(***************************************************************************)
(* What SmsFollowUps keeps for any number of contacts, sequences, events,  *)
(* overlapping tasks, faults and deaths, and the proof that it gives every *)
(* sequence the course of SequenceCourse.                                  *)
(***************************************************************************)
EXTENDS SmsFollowUps, TLAPS

TaskRecord ==
    [pc : {"idle", "loop", "send"}, claimed : SUBSET Sequences,
     todo : SUBSET Sequences, cur : Sequences \cup {None},
     known : SUBSET Contacts, sent : SUBSET Sequences,
     dropped : SUBSET Sequences, silenced : SUBSET Contacts]

SequenceRecord ==
    [status : {"none", "ACTIVE", "COMPLETED", "CANCELLED"},
     step : -1..LastStep, born : Nat, due : Nat \cup {Never}]

\* A sequence that a task claimed is waiting, sent, dropped, skipped, or the
\* one whose message is prepared.
WellFormed(r) ==
    /\ r.pc = "idle" => r.claimed = {}
    /\ r.todo \subseteq r.claimed
    /\ r.sent \subseteq r.claimed
    /\ r.dropped \subseteq r.claimed
    /\ r.todo \cap r.sent = {}
    /\ r.todo \cap r.dropped = {}
    /\ r.sent \cap r.dropped = {}
    /\ r.pc = "send" => /\ r.cur \in r.claimed
                        /\ r.cur \notin r.todo
                        /\ r.cur \notin r.sent
                        /\ r.cur \notin r.dropped
    /\ r.known \cap r.silenced = {}
    /\ r.pc = "send" => ContactOf[r.cur] \in r.known

TaskShape == \A t \in Tasks : WellFormed(task[t])

\* ClaimsHold, and the date that made the sequence due.
Claims ==
    \A t \in Tasks : \A s \in task[t].claimed :
        /\ sequence[s].status = "ACTIVE"
        /\ sequence[s].due # Never
        /\ sequence[s].due <= week

Apart == \A t, u \in Tasks : t # u => task[t].claimed \cap task[u].claimed = {}

\* A sequence has a contact; before it exists it has no step; while it is
\* ACTIVE it has one more step, due at its time unless that step has variants.
Sound(s) ==
    /\ sequence[s].status # "none" => contact[ContactOf[s]] # "none"
    /\ sequence[s].status = "none" => sequence[s].step = -1
    /\ opening[s] # "no" => sequence[s].status = "none"
    /\ opening[s] = "reuse" => contact[ContactOf[s]] # "none"
    /\ sequence[s].status = "ACTIVE" => sequence[s].step + 1 \in Steps
    /\ (DueOf[0] = 0 /\ sequence[s].status = "ACTIVE"
          /\ sequence[s].step + 1 \notin SplitSteps)
       => sequence[s].due = sequence[s].born + DueOf[sequence[s].step + 1]

SequenceShape == \A s \in Sequences : Sound(s)

\* The contact of a claimed sequence that was silenced when the task began is
\* silenced still.
Silence ==
    \A t \in Tasks : \A s \in task[t].claimed :
        ContactOf[s] \in task[t].silenced => contact[ContactOf[s]] \notin {"none", "ACTIVE"}

\* A message that left for a number on the blacklist was the last: the task
\* asks again before it prepares another.
Listed ==
    \A t \in Tasks, c \in Contacts :
        late[t][c] # 0 =>
          /\ late[t][c] = 1
          /\ c \in blacklist
          /\ ~(task[t].pc = "send" /\ ContactOf[task[t].cur] = c)

\* The one copy of a step that needs no fault: it is recorded in the row, or
\* will be by the task that sent it.
Told(s, k) ==
    \/ k <= sequence[s].step
    \/ k = sequence[s].step + 1 /\ \E t \in Tasks : s \in task[t].sent

Copies ==
    \A s \in Sequences, k \in Steps :
        texts[s][k] <= faults + crashes + (IF Told(s, k) THEN 1 ELSE 0)

\* What a task will record as sent has left.
Left ==
    \A t \in Tasks : \A s \in task[t].sent : texts[s][sequence[s].step + 1] > 0

ReplayShape == replay.pc = "stop" => replay.cur \in Events

IInv ==
    /\ TypeOK
    /\ ReplayShape
    /\ TaskShape
    /\ Claims
    /\ Apart
    /\ SequenceShape
    /\ Silence
    /\ Listed
    /\ Copies
    /\ Left

-----------------------------------------------------------------------------
(* The records.                                                            *)

\* Sequences do not share their locals with None.
LEMMA NoneIsOutside == None \notin Sequences /\ None \notin Events
BY SmsFollowUpsAssumption

\* A task between two transactions.
LEMMA NoTaskFits == NoTask \in TaskRecord /\ WellFormed(NoTask)
BY DEF NoTask, TaskRecord, WellFormed

\* The next step of an ACTIVE sequence is a step of the programme.
LEMMA NextStep ==
  ASSUME IInv, NEW s \in Sequences, sequence[s].status = "ACTIVE"
  PROVE  /\ sequence[s] \in SequenceRecord
         /\ sequence[s].step + 1 \in Steps
         /\ contact[ContactOf[s]] # "none"
BY DEF IInv, TypeOK, SequenceShape, Sound, SequenceRecord

\* The sequence of the message that a task prepared.
LEMMA Prepared ==
  ASSUME IInv, NEW t \in Tasks, task[t].pc = "send"
  PROVE  /\ task[t].cur \in Sequences
         /\ task[t].cur \in task[t].claimed
         /\ ContactOf[task[t].cur] \in Contacts
         /\ sequence[task[t].cur].status = "ACTIVE"
         /\ sequence[task[t].cur].step + 1 \in Steps
         /\ sequence[task[t].cur].step \in Int
         /\ ~Told(task[t].cur, sequence[task[t].cur].step + 1)
<1> DEFINE s == task[t].cur
<1>1. s \in task[t].claimed /\ s \notin task[t].sent /\ task[t].claimed \subseteq Sequences
  BY DEF IInv, TypeOK, TaskShape, WellFormed
<1>2. sequence[s].status = "ACTIVE"
  BY <1>1 DEF IInv, Claims
<1>3. sequence[s].step + 1 \in Steps /\ sequence[s].step \in Int
  BY <1>1, <1>2, NextStep DEF SequenceRecord
<1>4. \A u \in Tasks : s \notin task[u].sent
  BY <1>1 DEF IInv, Apart, TaskShape, WellFormed
<1>5. ~Told(s, sequence[s].step + 1)
  BY <1>3, <1>4 DEF Told
<1> QED
  BY <1>1, <1>2, <1>3, <1>5, SmsFollowUpsAssumption

-----------------------------------------------------------------------------
(* ensure_contact_sequence.                                                *)

\* The checks change nothing but the progress.
LEMMA EnsureChecksStep ==
  ASSUME IInv, NEW s \in Sequences, EnsureChecks(s)
  PROVE  IInv'
<1> USE DEF EnsureChecks, inbox, clock
<1>1. TypeOK' /\ ReplayShape'
  BY DEF IInv, TypeOK, ReplayShape
<1>2. SequenceShape'
  BY DEF IInv, TypeOK, SequenceShape, Sound
<1>3. TaskShape' /\ Claims' /\ Apart' /\ Silence' /\ Listed' /\ Left'
  BY DEF IInv, TaskShape, Claims, Apart, Silence, Listed, Left
<1>4. Copies'
  BY DEF IInv, Copies, Told
<1> QED
  BY <1>1, <1>2, <1>3, <1>4 DEF IInv

\* The insertions, of a sequence that did not exist, change no row that a task
\* holds, and of the contacts only one that did not exist.
LEMMA EnsureInsertsStep ==
  ASSUME IInv, NEW s \in Sequences, EnsureInserts(s)
  PROVE  IInv'
<1> USE SmsFollowUpsAssumption
<1> DEFINE c == ContactOf[s]
<1>1. /\ UNCHANGED <<inbox, task, clock, faults, crashes, texts, late>>
      /\ opening' = [opening EXCEPT ![s] = "no"]
      /\ c \in Contacts
      /\ sequence[s].status = "none" /\ sequence[s].step = -1
      /\ opening[s] # "no"
  BY DEF EnsureInserts, IInv, SequenceShape, Sound
<1>2. \A d \in Contacts : contact[d] # "none" => contact'[d] = contact[d]
  BY DEF EnsureInserts, IInv, TypeOK
<1>3. \A u \in Sequences : u # s => sequence'[u] = sequence[u]
  BY DEF EnsureInserts, IInv, TypeOK
<1>4. /\ contact' \in [Contacts -> {"none", "ACTIVE", "PAUSED", "INVALID", "DO_NOT_CONTACT"}]
      /\ contact'[c] # "none"
  BY <1>1 DEF EnsureInserts, IInv, TypeOK
<1>5. \/ sequence' = sequence
      \/ /\ sequence' = [sequence EXCEPT ![s] =
               [status |-> "ACTIVE", step |-> -1, born |-> week, due |-> week]]
         /\ sequence'[s] = [status |-> "ACTIVE", step |-> -1, born |-> week, due |-> week]
  BY DEF EnsureInserts, IInv, TypeOK
<1>6. sequence'[s].step = -1
  BY <1>1, <1>5
<1>7. \A t \in Tasks : s \notin task[t].claimed
  BY <1>1 DEF IInv, Claims
<1>8. \A t \in Tasks : task[t].claimed \subseteq Sequences /\ task[t].sent \subseteq task[t].claimed
  BY DEF IInv, TypeOK, TaskShape, WellFormed
<1>9. TypeOK' /\ ReplayShape'
  <2>1. sequence' \in [Sequences -> SequenceRecord]
    <3>1. [status |-> "ACTIVE", step |-> -1, born |-> week, due |-> week] \in SequenceRecord
      BY DEF IInv, TypeOK, SequenceRecord
    <3>2. sequence \in [Sequences -> SequenceRecord]
      BY DEF IInv, TypeOK, SequenceRecord
    <3> QED
      BY <1>5, <3>1, <3>2
  <2> QED
    BY <1>1, <1>4, <2>1 DEF IInv, TypeOK, ReplayShape, inbox, clock, SequenceRecord
<1>10. TaskShape' /\ Apart' /\ Listed'
  BY <1>1 DEF IInv, TaskShape, Apart, Listed, inbox
<1>11. Claims' /\ Silence' /\ Left'
  <2>1. \A t \in Tasks : \A u \in task[t].claimed :
          /\ sequence'[u] = sequence[u]
          /\ sequence[u].status = "ACTIVE"
          /\ ContactOf[u] \in Contacts
          /\ contact'[ContactOf[u]] = contact[ContactOf[u]]
    BY <1>2, <1>3, <1>7, <1>8, NextStep DEF IInv, Claims
  <2> QED
    BY <1>1, <1>8, <2>1 DEF IInv, Claims, Silence, Left, clock
<1>12. SequenceShape'
  <2> SUFFICES ASSUME NEW u \in Sequences PROVE Sound(u)'
    BY DEF SequenceShape
  <2>1. Sound(u)
    BY DEF IInv, SequenceShape
  <2>2. CASE u # s
    <3>1. /\ sequence'[u] = sequence[u]
          /\ opening'[u] = opening[u]
          /\ contact[ContactOf[u]] # "none" => contact'[ContactOf[u]] # "none"
      BY <1>1, <1>2, <1>3, <2>2 DEF IInv, TypeOK
    <3> QED
      BY <2>1, <3>1 DEF Sound
  <2>3. CASE u = s
    <3>1. opening'[s] = "no" /\ contact'[ContactOf[s]] # "none"
      BY <1>1, <1>4 DEF IInv, TypeOK
    <3>2. 0 \in Steps
      BY DEF Steps
    <3>3. week \in Nat
      BY DEF IInv, TypeOK
    <3>4. CASE sequence' = sequence
      BY <1>1, <2>3, <3>1, <3>4 DEF Sound
    <3>5. CASE sequence'[s] = [status |-> "ACTIVE", step |-> -1, born |-> week, due |-> week]
      <4>1. sequence'[s].step + 1 = 0
        BY <3>5
      <4> QED
        BY <2>3, <3>1, <3>2, <3>3, <3>5, <4>1 DEF Sound
    <3> QED
      BY <1>5, <3>4, <3>5
  <2> QED
    BY <2>2, <2>3
<1>13. Copies'
  <2> SUFFICES ASSUME NEW u \in Sequences, NEW k \in Steps
               PROVE  texts'[u][k] <= faults' + crashes' + (IF Told(u, k)' THEN 1 ELSE 0)
    BY DEF Copies
  <2>1. sequence'[u].step = sequence[u].step
    BY <1>1, <1>3, <1>6
  <2> QED
    BY <1>1, <2>1 DEF IInv, Copies, Told
<1> QED
  BY <1>9, <1>10, <1>11, <1>12, <1>13 DEF IInv

-----------------------------------------------------------------------------
(* The steps of a task that write nothing: it claims, screens or skips.    *)

\* Nothing but the locals of one task changed.
Turns(t, new) ==
    /\ task' = [task EXCEPT ![t] = new]
    /\ UNCHANGED <<inbox, contact, sequence, opening, clock, faults, crashes,
                   texts, late>>

\* A turn keeps the invariant if the locals fit what was claimed, the sent
\* sequences are the same, and no message to a listed number is prepared.
LEMMA TurnStep ==
  ASSUME IInv, NEW t \in Tasks, NEW new \in TaskRecord, Turns(t, new), WellFormed(new),
         \A s \in new.claimed : s \in task[t].claimed \/ (Due(s) /\ ~Locked(s)),
         \A s \in new.claimed :
            ContactOf[s] \in new.silenced => contact[ContactOf[s]] \notin {"none", "ACTIVE"},
         new.sent = task[t].sent,
         new.pc = "send" => ContactOf[new.cur] \notin blacklist
  PROVE  IInv'
<1>1. /\ task' \in [Tasks -> TaskRecord]
      /\ \A u \in Tasks : task'[u] = IF u = t THEN new ELSE task[u]
  BY DEF Turns, IInv, TypeOK, TaskRecord
<1>2. UNCHANGED <<contact, sequence, opening, blacklist, event, logged, hook, replay,
                  windowOpen, week, faults, crashes, texts, late>>
  BY DEF Turns, inbox, clock
<1>3. TypeOK' /\ ReplayShape'
  BY <1>1, <1>2 DEF IInv, TypeOK, ReplayShape, TaskRecord
<1>4. TaskShape'
  <2> SUFFICES ASSUME NEW u \in Tasks PROVE WellFormed(task'[u])
    BY DEF TaskShape, WellFormed
  <2> QED
    BY <1>1 DEF IInv, TaskShape
<1>5. Claims'
  BY <1>1, <1>2 DEF IInv, Claims, Due
<1>6. Apart'
  BY <1>1 DEF IInv, Apart, Locked
<1>7. SequenceShape'
  BY <1>2 DEF IInv, SequenceShape, Sound
<1>8. Silence'
  BY <1>1, <1>2 DEF IInv, Silence
<1>9. Listed'
  BY <1>1, <1>2 DEF IInv, Listed
<1>10. \A u \in Tasks : task'[u].sent = task[u].sent
  BY <1>1
<1>11. Copies' /\ Left'
  BY <1>2, <1>10 DEF IInv, Copies, Told, Left
<1> QED
  BY <1>3, <1>4, <1>5, <1>6, <1>7, <1>8, <1>9, <1>11 DEF IInv

\* Nobody else holds the rows that SKIP LOCKED returns.
LEMMA ClaimStep ==
  ASSUME IInv, NEW t \in Tasks, NEW batch \in SUBSET Sequences, Claim(t, batch)
  PROVE  IInv'
<1> DEFINE new == [NoTask EXCEPT !.pc = "loop", !.claimed = batch, !.todo = batch,
                     !.silenced = {c \in Contacts : contact[c] # "ACTIVE"}]
<1>1. new \in TaskRecord /\ WellFormed(new)
  BY DEF NoTask, TaskRecord, WellFormed
<1>2. Turns(t, new)
  BY DEF Claim, Turns
<1>3. \A s \in new.claimed : Due(s) /\ ~Locked(s)
  BY DEF Claim, Claimable, NoTask
<1>4. \A s \in new.claimed :
        ContactOf[s] \in new.silenced => contact[ContactOf[s]] \notin {"none", "ACTIVE"}
  <2> SUFFICES ASSUME NEW s \in batch, contact[ContactOf[s]] # "ACTIVE"
               PROVE  contact[ContactOf[s]] # "none"
    BY DEF NoTask
  <2> QED
    BY <1>3, NextStep DEF Due, NoTask
<1>5. new.sent = task[t].sent
  <2>1. task[t].pc = "idle"
    BY DEF Claim
  <2> QED
    BY <2>1 DEF IInv, TaskShape, WellFormed, NoTask
<1>6. new.pc # "send"
  BY DEF NoTask
<1> HIDE DEF new
<1> QED
  BY <1>1, <1>2, <1>3, <1>4, <1>5, <1>6, TurnStep

\* A message is prepared only for a contact that is ACTIVE, or that was when
\* the session read it, and whose number is not listed.
LEMMA ScreenStep ==
  ASSUME IInv, NEW t \in Tasks, NEW s \in Sequences, Screen(t, s)
  PROVE  IInv'
<1> DEFINE c == ContactOf[s]
           old == task[t]
<1>1. old \in TaskRecord /\ WellFormed(old)
  BY DEF IInv, TypeOK, TaskShape, TaskRecord
<1>2. old.pc = "loop" /\ s \in old.todo /\ s \in old.claimed
  BY <1>1 DEF Screen, WellFormed
<1>3. c \in Contacts
  BY SmsFollowUpsAssumption
<1>4. \A u \in old.claimed :
        ContactOf[u] \in old.silenced => contact[ContactOf[u]] \notin {"none", "ACTIVE"}
  BY DEF IInv, Silence
<1>5. CASE Silent(t, c)
  <2> DEFINE new == [old EXCEPT !.todo = @ \ {s}, !.dropped = @ \cup {s}]
  <2>1. new \in TaskRecord
    BY <1>1 DEF TaskRecord
  <2>2. /\ new.claimed = old.claimed /\ new.todo = old.todo \ {s} /\ new.pc = old.pc
        /\ new.sent = old.sent /\ new.dropped = old.dropped \cup {s}
        /\ new.known = old.known /\ new.silenced = old.silenced /\ new.cur = old.cur
    BY <1>1 DEF TaskRecord
  <2>3. Turns(t, new)
    <3>1. task' = [task EXCEPT ![t] = new]
      BY <1>5 DEF Screen
    <3> QED
      BY <3>1 DEF Screen, Turns
  <2> HIDE DEF new
  <2>4. WellFormed(new)
    BY <1>1, <1>2, <2>2 DEF WellFormed
  <2> QED
    BY <1>2, <1>4, <2>1, <2>2, <2>3, <2>4, TurnStep
<1>6. CASE ~Silent(t, c)
  <2> DEFINE new == [old EXCEPT !.todo = @ \ {s}, !.known = @ \cup {c},
                       !.pc = "send", !.cur = s]
  <2>1. new \in TaskRecord
    BY <1>1, <1>3 DEF TaskRecord
  <2>2. /\ new.claimed = old.claimed /\ new.todo = old.todo \ {s} /\ new.pc = "send"
        /\ new.sent = old.sent /\ new.dropped = old.dropped
        /\ new.known = old.known \cup {c} /\ new.silenced = old.silenced /\ new.cur = s
    BY <1>1 DEF TaskRecord
  <2>3. Turns(t, new)
    <3>1. task' = [task EXCEPT ![t] = new]
      BY <1>6 DEF Screen
    <3> QED
      BY <3>1 DEF Screen, Turns
  <2>4. c \notin blacklist
    BY <1>6 DEF Silent
  <2>5. c \notin old.silenced
    BY <1>1, <1>2, <1>4, <1>6 DEF Silent, WellFormed
  <2> HIDE DEF new
  <2>6. WellFormed(new)
    BY <1>1, <1>2, <2>2, <2>5 DEF WellFormed
  <2> QED
    BY <1>2, <1>4, <2>1, <2>2, <2>3, <2>4, <2>6, TurnStep
<1> QED
  BY <1>5, <1>6

\* A sequence without a SIM is left as it is.
LEMMA SkipStep ==
  ASSUME IInv, NEW t \in Tasks, SkipWithoutSim(t)
  PROVE  IInv'
<1> DEFINE new == [task[t] EXCEPT !.pc = "loop"]
<1>1. task[t] \in TaskRecord /\ WellFormed(task[t]) /\ task[t].pc = "send"
  BY DEF IInv, TypeOK, TaskShape, TaskRecord, SkipWithoutSim
<1>2. new \in TaskRecord /\ WellFormed(new)
  BY <1>1 DEF TaskRecord, WellFormed
<1>3. Turns(t, new)
  BY DEF SkipWithoutSim, Turns
<1>4. /\ new.claimed = task[t].claimed /\ new.sent = task[t].sent
      /\ new.silenced = task[t].silenced /\ new.pc = "loop"
  BY <1>1 DEF TaskRecord
<1> HIDE DEF new
<1> QED
  BY <1>2, <1>3, <1>4, TurnStep DEF IInv, Silence

-----------------------------------------------------------------------------
(* The messages.                                                           *)

\* What both outcomes of send_sms do: n copies left and f faults were counted.
Sends(t, n, f) ==
    /\ task[t].pc = "send"
    /\ faults' = faults + f
    /\ Texted(t, n)
    /\ Called(t)
    /\ UNCHANGED <<inbox, contact, sequence, opening, clock, crashes>>

\* The copies of the prepared step grow, those of no other.
LEMMA TextsMove ==
  ASSUME IInv, NEW t \in Tasks, NEW n \in Nat, NEW f, Sends(t, n, f)
  PROVE  /\ texts' \in [Sequences -> [Steps -> Nat]]
         /\ \A s \in Sequences, k \in Steps :
               texts'[s][k] = IF s = task[t].cur /\ k = sequence[s].step + 1
                              THEN texts[s][k] + n ELSE texts[s][k]
<1> DEFINE c == task[t].cur
           j == sequence[c].step + 1
<1>1. c \in Sequences /\ j \in Steps
  BY Prepared DEF Sends
<1>2. texts \in [Sequences -> [Steps -> Nat]]
  BY DEF IInv, TypeOK
<1>3. texts' = [texts EXCEPT ![c][j] = texts[c][j] + n]
  BY DEF Sends, Texted
<1>4. texts[c][j] + n \in Nat
  BY <1>1, <1>2
<1> HIDE DEF c, j
<1>5. texts' \in [Sequences -> [Steps -> Nat]]
  BY <1>1, <1>2, <1>3, <1>4
<1>6. \A s \in Sequences, k \in Steps :
        texts'[s][k] = IF s = c /\ k = j THEN texts[s][k] + n ELSE texts[s][k]
  BY <1>1, <1>2, <1>3
<1>7. \A s \in Sequences, k \in Steps :
        (s = c /\ k = j) <=> (s = task[t].cur /\ k = sequence[s].step + 1)
  BY DEF c, j
<1> QED
  BY <1>5, <1>6, <1>7

\* The first message to a listed number is counted, and there is no second.
LEMMA LateMoves ==
  ASSUME IInv, NEW t \in Tasks, NEW n, NEW f, Sends(t, n, f)
  PROVE  /\ late' \in [Tasks -> [Contacts -> Nat]]
         /\ \A u \in Tasks, d \in Contacts :
               late'[u][d] = late[u][d]
               \/ (u = t /\ d = ContactOf[task[t].cur] /\ d \in blacklist /\ late'[u][d] = 1)
<1> DEFINE c == ContactOf[task[t].cur]
<1>1. c \in Contacts
  BY Prepared DEF Sends
<1>2. late \in [Tasks -> [Contacts -> Nat]]
  BY DEF IInv, TypeOK
<1>3. late[t][c] = 0
  BY <1>1 DEF IInv, Listed, Sends
<1>4. late' = late \/ (c \in blacklist /\ late' = [late EXCEPT ![t][c] = late[t][c] + 1])
  BY DEF Sends, Called
<1>5. late[t][c] + 1 = 1
  BY <1>3
<1> HIDE DEF c
<1>6. late' = late \/ (c \in blacklist /\ late' = [late EXCEPT ![t][c] = 1])
  BY <1>4, <1>5
<1>7. /\ late' \in [Tasks -> [Contacts -> Nat]]
      /\ \A u \in Tasks, d \in Contacts :
            late'[u][d] = late[u][d] \/ (u = t /\ d = c /\ d \in blacklist /\ late'[u][d] = 1)
  BY <1>1, <1>2, <1>6
<1> QED
  BY <1>7 DEF c

\* A message leaves: answered SENT it is the one copy of its step that needs no
\* fault; otherwise all its copies are paid for by faults.
LEMMA SendStep ==
  ASSUME IInv, NEW t \in Tasks, NEW lost \in Nat, SendAccepted(t, lost) \/ SendFailed(t, lost)
  PROVE  IInv'
<1> DEFINE old == task[t]
           s == old.cur
           n == IF SendAccepted(t, lost) THEN 1 + lost ELSE lost
           f == IF SendAccepted(t, lost) THEN lost ELSE 1 + lost
           new == [old EXCEPT !.pc = "loop",
                     !.sent = IF SendAccepted(t, lost) THEN @ \cup {s} ELSE @]
<1>1. n \in Nat /\ f \in Nat
  OBVIOUS
<1>2. Sends(t, n, f)
  <2>1. CASE SendAccepted(t, lost)
    BY <2>1 DEF SendAccepted, Sends, Fault
  <2>2. CASE ~SendAccepted(t, lost)
    BY <2>2 DEF SendFailed, Sends, Fault
  <2> QED
    BY <2>1, <2>2
<1>3. old \in TaskRecord /\ WellFormed(old) /\ old.pc = "send"
  BY <1>2 DEF Sends, IInv, TypeOK, TaskShape, TaskRecord
<1>4. /\ s \in Sequences /\ s \in old.claimed
      /\ sequence[s].status = "ACTIVE"
      /\ sequence[s].step + 1 \in Steps /\ sequence[s].step \in Int
      /\ ~Told(s, sequence[s].step + 1)
  BY <1>3, Prepared
<1>5. new \in TaskRecord /\ WellFormed(new)
  BY <1>3, <1>4 DEF TaskRecord, WellFormed
<1>6. task' = [task EXCEPT ![t] = new]
  <2>1. CASE SendAccepted(t, lost)
    BY <1>3, <2>1 DEF SendAccepted, IInv, TypeOK, TaskRecord
  <2>2. CASE ~SendAccepted(t, lost)
    BY <1>3, <2>2 DEF SendFailed, IInv, TypeOK, TaskRecord
  <2> QED
    BY <2>1, <2>2
<1>7. /\ task' \in [Tasks -> TaskRecord]
      /\ \A u \in Tasks : task'[u] = IF u = t THEN new ELSE task[u]
  BY <1>5, <1>6 DEF IInv, TypeOK, TaskRecord
<1>8. /\ new.claimed = old.claimed /\ new.silenced = old.silenced /\ new.pc = "loop"
      /\ new.sent = IF SendAccepted(t, lost) THEN old.sent \cup {s} ELSE old.sent
  BY <1>3 DEF TaskRecord
<1>9. UNCHANGED <<contact, sequence, opening, blacklist, event, logged, hook, replay,
                  windowOpen, week, crashes>>
  BY <1>2 DEF Sends, inbox, clock
<1>10. faults \in Nat /\ crashes \in Nat /\ faults' = faults + f
  BY <1>2 DEF Sends, IInv, TypeOK
<1>11. /\ texts' \in [Sequences -> [Steps -> Nat]]
       /\ \A u \in Sequences, k \in Steps :
             texts'[u][k] = IF u = s /\ k = sequence[u].step + 1
                            THEN texts[u][k] + n ELSE texts[u][k]
  BY <1>1, <1>2, TextsMove
<1>12. /\ late' \in [Tasks -> [Contacts -> Nat]]
       /\ \A u \in Tasks, d \in Contacts :
             late'[u][d] = late[u][d]
             \/ (u = t /\ d = ContactOf[s] /\ d \in blacklist /\ late'[u][d] = 1)
  BY <1>2, LateMoves
<1>13. texts \in [Sequences -> [Steps -> Nat]]
  BY DEF IInv, TypeOK
<1>14. n <= f + 1 /\ (SendAccepted(t, lost) => n > 0) /\ (~SendAccepted(t, lost) => n <= f)
  OBVIOUS
<1> HIDE DEF n, f, new, s, old
<1>15. TypeOK' /\ ReplayShape'
  BY <1>1, <1>7, <1>9, <1>10, <1>11, <1>12 DEF IInv, TypeOK, ReplayShape, TaskRecord
<1>16. TaskShape'
  <2> SUFFICES ASSUME NEW u \in Tasks PROVE WellFormed(task'[u])
    BY DEF TaskShape, WellFormed
  <2> QED
    BY <1>5, <1>7 DEF IInv, TaskShape
<1>17. Claims' /\ Apart' /\ Silence'
  BY <1>7, <1>8, <1>9 DEF IInv, Claims, Apart, Silence, old
<1>18. SequenceShape'
  BY <1>9 DEF IInv, SequenceShape, Sound
<1>19. Listed'
  BY <1>7, <1>8, <1>9, <1>12 DEF IInv, Listed
<1>20. Copies'
  <2> SUFFICES ASSUME NEW u \in Sequences, NEW k \in Steps
               PROVE  texts'[u][k] <= faults' + crashes' + (IF Told(u, k)' THEN 1 ELSE 0)
    BY DEF Copies
  <2>1. texts[u][k] \in Nat /\ texts[u][k] <= faults + crashes + (IF Told(u, k) THEN 1 ELSE 0)
    BY <1>13 DEF IInv, Copies
  <2>2. Told(u, k) => Told(u, k)'
    <3>1. \A v \in Tasks : task[v].sent \subseteq task'[v].sent
      BY <1>7, <1>8 DEF old
    <3> QED
      BY <1>9, <3>1 DEF Told
  <2>3. CASE u = s /\ k = sequence[s].step + 1
    <3>1. ~Told(u, k)
      BY <1>4, <2>3
    <3>2. texts'[u][k] = texts[u][k] + n
      BY <1>11, <2>3
    <3>3. CASE SendAccepted(t, lost)
      <4>1. s \in task'[t].sent
        BY <1>7, <1>8, <3>3
      <4>2. Told(u, k)'
        BY <1>9, <2>3, <4>1 DEF Told
      <4> QED
        BY <1>1, <1>9, <1>10, <1>14, <2>1, <3>1, <3>2, <4>2
    <3>4. CASE ~SendAccepted(t, lost)
      BY <1>1, <1>9, <1>10, <1>14, <2>1, <3>1, <3>2, <3>4
    <3> QED
      BY <3>3, <3>4
  <2>4. CASE ~(u = s /\ k = sequence[s].step + 1)
    <3>1. texts'[u][k] = texts[u][k]
      BY <1>11, <2>4
    <3> QED
      BY <1>1, <1>9, <1>10, <2>1, <2>2, <3>1
  <2> QED
    BY <2>3, <2>4
<1>21. Left'
  <2> SUFFICES ASSUME NEW v \in Tasks, NEW u \in task'[v].sent
               PROVE  texts'[u][sequence'[u].step + 1] > 0
    BY DEF Left
  <2>1. u \in Sequences /\ sequence[u].status = "ACTIVE" /\ sequence[u].step + 1 \in Steps
    <3>1. u \in task[v].claimed /\ task[v].claimed \subseteq Sequences
      BY <1>7, <1>8, <1>15, <1>16 DEF TypeOK, TaskShape, WellFormed, old
    <3>2. u \in Sequences /\ sequence[u].status = "ACTIVE"
      BY <3>1 DEF IInv, Claims
    <3> QED
      BY <3>2, NextStep
  <2>2. texts[u][sequence[u].step + 1] \in Nat
    BY <1>13, <2>1
  <2>3. CASE u \in task[v].sent
    <3>1. texts[u][sequence[u].step + 1] > 0
      BY <2>3 DEF IInv, Left
    <3> QED
      BY <1>1, <1>9, <1>11, <2>1, <2>2, <3>1
  <2>4. CASE u \notin task[v].sent
    <3>1. u = s /\ SendAccepted(t, lost)
      BY <1>7, <1>8, <2>4 DEF old
    <3> QED
      BY <1>1, <1>9, <1>11, <1>14, <2>1, <2>2, <3>1
  <2> QED
    BY <2>3, <2>4
<1> QED
  BY <1>15, <1>16, <1>17, <1>18, <1>19, <1>20, <1>21 DEF IInv

-----------------------------------------------------------------------------
(* The end of a transaction.                                               *)

\* The locals of the task are gone, and with them its locks.
Resets(t) ==
    /\ task' = [task EXCEPT ![t] = NoTask]
    /\ late' = [late EXCEPT ![t] = [c \in Contacts |-> 0]]
    /\ UNCHANGED <<inbox, contact, opening, clock, faults, texts>>

\* What the end leaves of the conjuncts that no row of the sequences matters to.
LEMMA ResetMoves ==
  ASSUME IInv, NEW t \in Tasks, Resets(t)
  PROVE  /\ task' \in [Tasks -> TaskRecord]
         /\ late' \in [Tasks -> [Contacts -> Nat]]
         /\ \A u \in Tasks : task'[u] = IF u = t THEN NoTask ELSE task[u]
         /\ TaskShape' /\ Apart' /\ Listed' /\ ReplayShape'
<1>1. /\ task' \in [Tasks -> TaskRecord]
      /\ \A u \in Tasks : task'[u] = IF u = t THEN NoTask ELSE task[u]
  BY NoTaskFits DEF Resets, IInv, TypeOK, TaskRecord
<1>2. /\ late' \in [Tasks -> [Contacts -> Nat]]
      /\ \A u \in Tasks, d \in Contacts : late'[u][d] = IF u = t THEN 0 ELSE late[u][d]
  BY DEF Resets, IInv, TypeOK
<1>3. TaskShape'
  <2> SUFFICES ASSUME NEW u \in Tasks PROVE WellFormed(task'[u])
    BY DEF TaskShape, WellFormed
  <2> QED
    BY <1>1, NoTaskFits DEF IInv, TaskShape
<1>4. NoTask.claimed = {}
  BY DEF NoTask
<1>5. Apart'
  BY <1>1, <1>4 DEF IInv, Apart
<1>6. Listed' /\ ReplayShape'
  BY <1>1, <1>2 DEF Resets, inbox, IInv, Listed, ReplayShape
<1> QED
  BY <1>1, <1>2, <1>3, <1>5, <1>6

\* A recorded step is followed by the next at its time, or by none.
LEMMA AfterSendFits ==
  ASSUME IInv, NEW q \in SequenceRecord, q.status = "ACTIVE", q.step + 1 \in Steps
  PROVE  /\ AfterSend(q) \in SequenceRecord
         /\ AfterSend(q).step = q.step + 1
         /\ AfterSend(q).born = q.born
         /\ AfterSend(q).status = IF q.step + 1 = LastStep THEN "COMPLETED" ELSE "ACTIVE"
         /\ AfterSend(q).status = "ACTIVE" =>
              /\ AfterSend(q).step + 1 \in Steps
              /\ AfterSend(q).step + 1 \notin SplitSteps =>
                    AfterSend(q).due = q.born + DueOf[AfterSend(q).step + 1]
<1>1. /\ q.step \in -1..LastStep /\ LastStep \in Nat /\ q.born \in Nat
      /\ q.due \in Nat \cup {Never}
      /\ q.step + 1 <= LastStep
  BY SmsFollowUpsAssumption DEF SequenceRecord, Steps
<1>2. DueOf \in [Steps -> Nat]
  BY SmsFollowUpsAssumption
<1> DEFINE next == q.step + 2
<1>3. next \in Int /\ (next > LastStep <=> q.step + 1 = LastStep)
  BY <1>1
<1>4. ~(next > LastStep) => next \in Steps /\ q.born + DueOf[next] \in Nat
  <2>1. ~(next > LastStep) => next \in Steps
    BY <1>1 DEF Steps
  <2> QED
    BY <1>1, <1>2, <2>1
<1>5. /\ AfterSend(q).step = q.step + 1
      /\ AfterSend(q).born = q.born
      /\ AfterSend(q).due = IF next > LastStep THEN Never
                            ELSE IF next \in SplitSteps THEN q.due ELSE q.born + DueOf[next]
      /\ AfterSend(q).status = IF next > LastStep THEN "COMPLETED" ELSE q.status
  BY DEF AfterSend, SequenceRecord
<1>6. AfterSend(q) \in SequenceRecord
  <2>1. q.step + 1 \in -1..LastStep
    BY <1>1
  <2>2. (IF next > LastStep THEN Never
         ELSE IF next \in SplitSteps THEN q.due ELSE q.born + DueOf[next])
        \in Nat \cup {Never}
    BY <1>1, <1>4
  <2> QED
    BY <2>1, <2>2 DEF AfterSend, SequenceRecord
<1>7. AfterSend(q).step + 1 = next
  BY <1>1, <1>5
<1> HIDE DEF next
<1> QED
  BY <1>3, <1>4, <1>5, <1>6, <1>7

\* The commit writes only rows that the task holds: the steps it sent, which
\* have left, and the sequences it cancels.
LEMMA CommitMoves ==
  ASSUME IInv, NEW t \in Tasks, Commit(t)
  PROVE  /\ Resets(t) /\ crashes' = crashes
         /\ sequence' \in [Sequences -> SequenceRecord]
         /\ \A s \in Sequences :
               \/ sequence'[s] = sequence[s] /\ s \notin task[t].sent \cup task[t].dropped
               \/ /\ s \in task[t].sent /\ s \in task[t].claimed
                  /\ sequence[s].status = "ACTIVE"
                  /\ sequence'[s] = AfterSend(sequence[s])
               \/ /\ s \in task[t].dropped /\ s \in task[t].claimed
                  /\ s \notin task[t].sent
                  /\ sequence[s].status = "ACTIVE"
                  /\ sequence'[s] = [sequence[s] EXCEPT !.status = "CANCELLED"]
<1>1. Resets(t) /\ crashes' = crashes
  BY DEF Commit, Resets
<1>2. /\ task[t].sent \subseteq task[t].claimed /\ task[t].dropped \subseteq task[t].claimed
      /\ task[t].sent \cap task[t].dropped = {}
      /\ \A s \in task[t].claimed : sequence[s].status = "ACTIVE"
  BY DEF IInv, TaskShape, WellFormed, Claims
<1>3. \A s \in Sequences :
        sequence'[s] = IF s \in task[t].sent THEN AfterSend(sequence[s])
                       ELSE IF s \in task[t].dropped
                            THEN [sequence[s] EXCEPT !.status = "CANCELLED"]
                            ELSE sequence[s]
  BY DEF Commit
<1>4. \A s \in Sequences : sequence'[s] \in SequenceRecord
  <2> SUFFICES ASSUME NEW s \in Sequences PROVE sequence'[s] \in SequenceRecord
    OBVIOUS
  <2>1. sequence[s] \in SequenceRecord
    BY DEF IInv, TypeOK, SequenceRecord
  <2>2. [sequence[s] EXCEPT !.status = "CANCELLED"] \in SequenceRecord
    BY <2>1 DEF SequenceRecord
  <2>3. CASE s \in task[t].sent
    BY <1>2, <1>3, <2>1, <2>3, NextStep, AfterSendFits
  <2> QED
    BY <1>3, <2>1, <2>2, <2>3
<1>5. sequence' \in [Sequences -> SequenceRecord]
  <2>1. sequence' = [s \in Sequences |-> sequence'[s]]
    BY DEF Commit
  <2> QED
    BY <1>4, <2>1
<1>6. \A s \in Sequences :
         \/ sequence'[s] = sequence[s] /\ s \notin task[t].sent \cup task[t].dropped
         \/ /\ s \in task[t].sent /\ s \in task[t].claimed
            /\ sequence[s].status = "ACTIVE"
            /\ sequence'[s] = AfterSend(sequence[s])
         \/ /\ s \in task[t].dropped /\ s \in task[t].claimed
            /\ s \notin task[t].sent
            /\ sequence[s].status = "ACTIVE"
            /\ sequence'[s] = [sequence[s] EXCEPT !.status = "CANCELLED"]
  BY <1>2, <1>3
<1> QED
  BY <1>1, <1>5, <1>6

\* The commit: the step that was sent becomes the row's.
LEMMA CommitStep ==
  ASSUME IInv, NEW t \in Tasks, Commit(t)
  PROVE  IInv'
<1> DEFINE old == task[t]
<1>1. /\ task' \in [Tasks -> TaskRecord]
      /\ late' \in [Tasks -> [Contacts -> Nat]]
      /\ \A u \in Tasks : task'[u] = IF u = t THEN NoTask ELSE task[u]
      /\ TaskShape' /\ Apart' /\ Listed' /\ ReplayShape'
  BY CommitMoves, ResetMoves
<1>2. UNCHANGED <<contact, opening, blacklist, event, logged, hook, replay,
                  windowOpen, week, faults, crashes, texts>>
  BY CommitMoves DEF Resets, inbox, clock
<1>3. sequence' \in [Sequences -> SequenceRecord]
  BY CommitMoves
<1>4. NoTask.claimed = {} /\ NoTask.sent = {}
  BY DEF NoTask
<1>5. TypeOK'
  BY <1>1, <1>2, <1>3 DEF IInv, TypeOK, TaskRecord, SequenceRecord
<1>6. \A u \in Tasks : u # t => \A s \in task[u].claimed :
         s \in Sequences /\ sequence'[s] = sequence[s]
  <2> SUFFICES ASSUME NEW u \in Tasks, u # t, NEW s \in task[u].claimed
               PROVE  s \in Sequences /\ sequence'[s] = sequence[s]
    OBVIOUS
  <2>1. s \in Sequences /\ s \notin old.claimed
    BY DEF IInv, TypeOK, Apart
  <2> QED
    BY <2>1, CommitMoves
<1>7. Claims' /\ Silence'
  BY <1>1, <1>2, <1>4, <1>6 DEF IInv, Claims, Silence
<1>8. Left'
  <2>1. \A u \in Tasks : task[u].sent \subseteq task[u].claimed
    BY DEF IInv, TaskShape, WellFormed
  <2> QED
    BY <1>1, <1>2, <1>4, <1>6, <2>1 DEF IInv, Left
<1>9. SequenceShape'
  <2> SUFFICES ASSUME NEW s \in Sequences PROVE Sound(s)'
    BY DEF SequenceShape
  <2>1. Sound(s) /\ sequence[s] \in SequenceRecord
    BY DEF IInv, TypeOK, SequenceShape, SequenceRecord
  <2>2. CASE sequence'[s] = sequence[s]
    BY <1>2, <2>1, <2>2 DEF Sound
  <2>3. CASE s \in old.sent /\ sequence[s].status = "ACTIVE"
             /\ sequence'[s] = AfterSend(sequence[s])
    <3>1. sequence[s].step + 1 \in Steps
      BY <2>3, NextStep
    <3>2. /\ sequence'[s].born = sequence[s].born
          /\ sequence'[s].status \in {"COMPLETED", "ACTIVE"}
          /\ sequence'[s].status = "ACTIVE" =>
               /\ sequence'[s].step + 1 \in Steps
               /\ sequence'[s].step + 1 \notin SplitSteps =>
                     sequence'[s].due = sequence[s].born + DueOf[sequence'[s].step + 1]
      BY <2>1, <2>3, <3>1, AfterSendFits
    <3> QED
      BY <1>2, <2>1, <2>3, <3>2 DEF Sound
  <2>4. CASE sequence[s].status = "ACTIVE"
             /\ sequence'[s] = [sequence[s] EXCEPT !.status = "CANCELLED"]
    <3>1. sequence'[s].status = "CANCELLED"
      BY <2>1, <2>4 DEF SequenceRecord
    <3> QED
      BY <1>2, <2>1, <2>4, <3>1 DEF Sound
  <2> QED
    BY <2>2, <2>3, <2>4, CommitMoves
<1>10. Copies'
  <2> SUFFICES ASSUME NEW s \in Sequences, NEW k \in Steps
               PROVE  texts'[s][k] <= faults' + crashes' + (IF Told(s, k)' THEN 1 ELSE 0)
    BY DEF Copies
  <2>1. texts[s][k] \in Nat /\ faults \in Nat /\ crashes \in Nat /\ k \in Int
    <3>1. k \in Int
      BY DEF Steps
    <3> QED
      BY <3>1 DEF IInv, TypeOK
  <2>2. texts[s][k] <= faults + crashes + (IF Told(s, k) THEN 1 ELSE 0)
    BY DEF IInv, Copies
  <2>3. sequence[s] \in SequenceRecord
    BY DEF IInv, TypeOK, SequenceRecord
  <2>4. Told(s, k) => Told(s, k)'
    <3>1. CASE s \in old.sent /\ sequence[s].status = "ACTIVE"
               /\ sequence'[s] = AfterSend(sequence[s])
      <4>1. sequence'[s].step = sequence[s].step + 1 /\ sequence[s].step \in Int
        BY <2>3, <3>1, NextStep, AfterSendFits DEF SequenceRecord
      <4> QED
        BY <2>1, <4>1 DEF Told
    <3>2. CASE s \notin old.sent
      <4>1. sequence'[s].step = sequence[s].step
        BY <2>3, <3>2, CommitMoves DEF SequenceRecord
      <4>2. \A u \in Tasks : s \in task[u].sent => s \in task'[u].sent
        BY <1>1, <3>2
      <4> QED
        BY <4>1, <4>2 DEF Told
    <3> QED
      BY <3>1, <3>2, CommitMoves
  <2> QED
    BY <1>2, <2>1, <2>2, <2>4
<1> QED
  BY <1>1, <1>5, <1>7, <1>8, <1>9, <1>10 DEF IInv

\* A transaction that is rolled back: its messages have left, its crash pays.
LEMMA RollbackStep ==
  ASSUME IInv, NEW t \in Tasks, Rollback(t)
  PROVE  IInv'
<1>1. Resets(t) /\ sequence' = sequence /\ crashes' = crashes + 1
  BY DEF Rollback, Crash, Resets
<1>2. /\ task' \in [Tasks -> TaskRecord]
      /\ late' \in [Tasks -> [Contacts -> Nat]]
      /\ \A u \in Tasks : task'[u] = IF u = t THEN NoTask ELSE task[u]
      /\ TaskShape' /\ Apart' /\ Listed' /\ ReplayShape'
  BY <1>1, ResetMoves
<1>3. UNCHANGED <<contact, sequence, opening, blacklist, event, logged, hook, replay,
                  windowOpen, week, faults, texts>>
  BY <1>1 DEF Resets, inbox, clock
<1>4. NoTask.claimed = {} /\ NoTask.sent = {}
  BY DEF NoTask
<1>5. TypeOK'
  BY <1>1, <1>2, <1>3 DEF IInv, TypeOK, TaskRecord
<1>6. Claims' /\ Silence' /\ Left'
  BY <1>2, <1>3, <1>4 DEF IInv, Claims, Silence, Left
<1>7. SequenceShape'
  BY <1>3 DEF IInv, SequenceShape, Sound
<1>8. Copies'
  <2> SUFFICES ASSUME NEW s \in Sequences, NEW k \in Steps
               PROVE  texts'[s][k] <= faults' + crashes' + (IF Told(s, k)' THEN 1 ELSE 0)
    BY DEF Copies
  <2>1. texts[s][k] \in Nat /\ faults \in Nat /\ crashes \in Nat
    BY DEF IInv, TypeOK
  <2>2. texts[s][k] <= faults + crashes + (IF Told(s, k) THEN 1 ELSE 0)
    BY DEF IInv, Copies
  <2> QED
    BY <1>1, <1>3, <2>1, <2>2
<1> QED
  BY <1>2, <1>5, <1>6, <1>7, <1>8 DEF IInv

-----------------------------------------------------------------------------
(* The inbound messages.                                                   *)

\* All that the webhook and the replay do to the sequences, their contacts and
\* the blacklist, and what they leave alone.
Hears ==
    /\ UNCHANGED <<opening, task, clock, faults, texts, late>>
    /\ crashes' \in {crashes, crashes + 1}
    /\ blacklist \subseteq blacklist'
    /\ \A c \in Contacts : contact'[c] = contact[c] \/ contact'[c] \notin {"none", "ACTIVE"}
    /\ \A s \in Sequences :
          \/ sequence'[s] = sequence[s]
          \/ /\ ~Locked(s)
             /\ sequence[s].status = "ACTIVE"
             /\ sequence'[s] = [sequence[s] EXCEPT !.status = "CANCELLED", !.due = Never]

\* The status that either transaction gives a contact ends its sequences.
LEMMA RecordedStatusFits ==
  ASSUME NEW e \in Events
  PROVE  RecordedStatus(e) \in {"PAUSED", "INVALID", "DO_NOT_CONTACT"}
BY SmsFollowUpsAssumption DEF RecordedStatus

\* The first transaction of an inbound message.
LEMMA RecordedHears ==
  ASSUME IInv, NEW e \in Events, Recorded(e)
  PROVE  /\ logged' \subseteq Events
         /\ contact' \in [Contacts -> {"none", "ACTIVE", "PAUSED", "INVALID", "DO_NOT_CONTACT"}]
         /\ \A c \in Contacts :
               contact'[c] = contact[c] \/ contact'[c] \notin {"none", "ACTIVE"}
<1>1. SenderOf[e] \in Contacts
  BY SmsFollowUpsAssumption
<1> QED
  BY <1>1, RecordedStatusFits DEF Recorded, IInv, TypeOK

\* The second: it cancels only rows that no task holds.
LEMMA StoppedHears ==
  ASSUME IInv, NEW e \in Events, Stopped(e)
  PROVE  /\ contact' \in [Contacts -> {"none", "ACTIVE", "PAUSED", "INVALID", "DO_NOT_CONTACT"}]
         /\ sequence' \in [Sequences -> SequenceRecord]
         /\ \A c \in Contacts :
               contact'[c] = contact[c] \/ contact'[c] \notin {"none", "ACTIVE"}
         /\ \A s \in Sequences :
               \/ sequence'[s] = sequence[s]
               \/ /\ ~Locked(s)
                  /\ sequence[s].status = "ACTIVE"
                  /\ sequence'[s] = [sequence[s] EXCEPT !.status = "CANCELLED", !.due = Never]
<1>1. SenderOf[e] \in Contacts
  BY SmsFollowUpsAssumption
<1>2. contact' = [contact EXCEPT ![SenderOf[e]] =
         IF KindOf[e] = "STOP" THEN "DO_NOT_CONTACT" ELSE "PAUSED"]
  BY DEF Stopped
<1>3. /\ contact' \in [Contacts -> {"none", "ACTIVE", "PAUSED", "INVALID", "DO_NOT_CONTACT"}]
      /\ \A c \in Contacts :
            contact'[c] = contact[c] \/ contact'[c] \notin {"none", "ACTIVE"}
  BY <1>1, <1>2 DEF IInv, TypeOK
<1> DEFINE active == {s \in Of(SenderOf[e]) : sequence[s].status = "ACTIVE"}
<1>4. /\ sequence' = [s \in Sequences |->
              IF s \in active
              THEN [sequence[s] EXCEPT !.status = "CANCELLED", !.due = Never]
              ELSE sequence[s]]
      /\ \A s \in active : ~Locked(s) /\ sequence[s].status = "ACTIVE"
  BY DEF Stopped
<1> HIDE DEF active
<1>5. \A s \in Sequences : [sequence[s] EXCEPT !.status = "CANCELLED", !.due = Never] \in SequenceRecord
                           /\ sequence[s] \in SequenceRecord
  <2> SUFFICES ASSUME NEW s \in Sequences
               PROVE  /\ [sequence[s] EXCEPT !.status = "CANCELLED", !.due = Never] \in SequenceRecord
                      /\ sequence[s] \in SequenceRecord
    OBVIOUS
  <2>1. sequence[s] \in SequenceRecord
    BY DEF IInv, TypeOK, SequenceRecord
  <2> QED
    BY <2>1 DEF SequenceRecord
<1>6. sequence' \in [Sequences -> SequenceRecord]
  BY <1>4, <1>5
<1>7. \A s \in Sequences :
         \/ sequence'[s] = sequence[s]
         \/ /\ ~Locked(s)
            /\ sequence[s].status = "ACTIVE"
            /\ sequence'[s] = [sequence[s] EXCEPT !.status = "CANCELLED", !.due = Never]
  BY <1>4
<1> QED
  BY <1>3, <1>6, <1>7

\* The steps of the webhook.
LEMMA HookHears ==
  ASSUME IInv, NEW e \in Events, Receive(e) \/ HookGoesOn(e) \/ HookFails(e)
  PROVE  TypeOK' /\ ReplayShape' /\ Hears
<1>1. SenderOf[e] \in Contacts
  BY SmsFollowUpsAssumption
<1>2. CASE Receive(e)
  BY <1>2 DEF Receive, IInv, TypeOK, ReplayShape, Hears, clock
<1>3. CASE AddToBlacklist(e)
  BY <1>1, <1>3 DEF AddToBlacklist, IInv, TypeOK, ReplayShape, Hears, clock
<1>4. CASE HookRecords(e)
  <2>1. Recorded(e)
    BY <1>4 DEF HookRecords
  <2> QED
    BY <1>4, <2>1, RecordedHears DEF HookRecords, IInv, TypeOK, ReplayShape, Hears, clock
<1>5. CASE HookIsLate(e)
  BY <1>5 DEF HookIsLate, IInv, TypeOK, ReplayShape, Hears, clock
<1>6. CASE HookStops(e)
  <2>1. Stopped(e)
    BY <1>6 DEF HookStops
  <2> QED
    BY <1>6, <2>1, StoppedHears
    DEF HookStops, IInv, TypeOK, ReplayShape, Hears, clock, SequenceRecord
<1>7. CASE HookMarks(e)
  BY <1>7 DEF HookMarks, IInv, TypeOK, ReplayShape, Hears, clock
<1>8. CASE HookFails(e)
  BY <1>8 DEF HookFails, Crash, IInv, TypeOK, ReplayShape, Hears, clock
<1> QED
  BY <1>2, <1>3, <1>4, <1>5, <1>6, <1>7, <1>8 DEF HookGoesOn

\* The steps of the replay.
LEMMA ReplayHears ==
  ASSUME IInv, ReplayBegins \/ ReplayGoesOn \/ ReplayDies
  PROVE  TypeOK' /\ ReplayShape' /\ Hears
<1>1. CASE ReplayBegins
  BY <1>1 DEF ReplayBegins, NoReplay, IInv, TypeOK, ReplayShape, Hears, clock
<1>2. ASSUME NEW e \in Events, ReplayRecords(e)
      PROVE  TypeOK' /\ ReplayShape' /\ Hears
  <2>1. Recorded(e)
    BY <1>2 DEF ReplayRecords
  <2> QED
    BY <1>2, <2>1, RecordedHears DEF ReplayRecords, IInv, TypeOK, ReplayShape, Hears, clock
<1>3. ASSUME NEW e \in Events, ReplaySkips(e)
      PROVE  TypeOK' /\ ReplayShape' /\ Hears
  BY <1>3 DEF ReplaySkips, IInv, TypeOK, ReplayShape, Hears, clock
<1>4. CASE ReplayStops
  <2>1. replay.cur \in Events /\ Stopped(replay.cur)
    BY <1>4 DEF ReplayStops, IInv, ReplayShape
  <2> QED
    BY <1>4, <2>1, StoppedHears
    DEF ReplayStops, IInv, TypeOK, ReplayShape, Hears, clock, SequenceRecord
<1>5. CASE ReplayCommits
  BY <1>5 DEF ReplayCommits, NoReplay, IInv, TypeOK, ReplayShape, Hears, clock
<1>6. CASE ReplayDies
  BY <1>6 DEF ReplayDies, Crash, NoReplay, IInv, TypeOK, ReplayShape, Hears, clock
<1> QED
  BY <1>1, <1>2, <1>3, <1>4, <1>5, <1>6 DEF ReplayGoesOn

\* No inbound message reaches a row under a task, and none wakes a contact.
LEMMA HearsStep ==
  ASSUME IInv, TypeOK', ReplayShape', Hears
  PROVE  IInv'
<1>1. /\ UNCHANGED <<opening, task, windowOpen, week, faults, texts, late>>
      /\ blacklist \subseteq blacklist'
  BY DEF Hears, clock
<1>2. \A t \in Tasks : \A s \in task[t].claimed :
         s \in Sequences /\ ContactOf[s] \in Contacts /\ sequence'[s] = sequence[s]
  <2> SUFFICES ASSUME NEW t \in Tasks, NEW s \in task[t].claimed
               PROVE  s \in Sequences /\ ContactOf[s] \in Contacts /\ sequence'[s] = sequence[s]
    OBVIOUS
  <2>1. s \in Sequences /\ Locked(s)
    BY DEF Locked, IInv, TypeOK
  <2> QED
    BY <2>1, SmsFollowUpsAssumption DEF Hears
<1>3. TaskShape' /\ Apart' /\ Listed'
  BY <1>1 DEF IInv, TaskShape, Apart, Listed
<1>4. Claims' /\ Silence'
  <2>1. Claims'
    BY <1>1, <1>2 DEF IInv, Claims
  <2>2. \A t \in Tasks : \A s \in task[t].claimed :
          \/ contact'[ContactOf[s]] = contact[ContactOf[s]]
          \/ contact'[ContactOf[s]] \notin {"none", "ACTIVE"}
    BY <1>2 DEF Hears
  <2> QED
    BY <1>1, <2>1, <2>2 DEF IInv, Silence
<1>5. Left'
  <2>1. \A t \in Tasks : task[t].sent \subseteq task[t].claimed
    BY DEF IInv, TaskShape, WellFormed
  <2> QED
    BY <1>1, <1>2, <2>1 DEF IInv, Left
<1>6. \A s \in Sequences :
         /\ sequence'[s].step = sequence[s].step
         /\ sequence'[s].status # "ACTIVE" \/ sequence'[s] = sequence[s]
         /\ (sequence'[s].status = "none") <=> (sequence[s].status = "none")
  <2> SUFFICES ASSUME NEW s \in Sequences
               PROVE  /\ sequence'[s].step = sequence[s].step
                      /\ sequence'[s].status # "ACTIVE" \/ sequence'[s] = sequence[s]
                      /\ (sequence'[s].status = "none") <=> (sequence[s].status = "none")
    OBVIOUS
  <2>1. sequence[s] \in SequenceRecord
    BY DEF IInv, TypeOK, SequenceRecord
  <2> QED
    BY <2>1 DEF Hears, SequenceRecord
<1>7. SequenceShape'
  <2> SUFFICES ASSUME NEW s \in Sequences PROVE Sound(s)'
    BY DEF SequenceShape
  <2>1. Sound(s)
    BY DEF IInv, SequenceShape
  <2>2. contact[ContactOf[s]] # "none" => contact'[ContactOf[s]] # "none"
    BY SmsFollowUpsAssumption DEF Hears
  <2> QED
    BY <1>1, <1>6, <2>1, <2>2 DEF Sound
<1>8. Copies'
  <2> SUFFICES ASSUME NEW s \in Sequences, NEW k \in Steps
               PROVE  texts'[s][k] <= faults' + crashes' + (IF Told(s, k)' THEN 1 ELSE 0)
    BY DEF Copies
  <2>1. texts[s][k] \in Nat /\ faults \in Nat /\ crashes \in Nat
    BY DEF IInv, TypeOK
  <2>2. texts[s][k] <= faults + crashes + (IF Told(s, k) THEN 1 ELSE 0)
    BY DEF IInv, Copies
  <2>3. Told(s, k)' <=> Told(s, k)
    BY <1>1, <1>6 DEF Told
  <2>4. crashes' \in {crashes, crashes + 1}
    BY DEF Hears
  <2> QED
    BY <1>1, <2>1, <2>2, <2>3, <2>4
<1> QED
  BY <1>3, <1>4, <1>5, <1>7, <1>8 DEF IInv

-----------------------------------------------------------------------------
(* The clock, and all steps together.                                      *)

\* The window and the weeks.
LEMMA ClockStep ==
  ASSUME IInv, MoveWindow \/ PassWeek
  PROVE  IInv'
<1>1. /\ UNCHANGED <<contact, sequence, opening, blacklist, event, logged, hook,
                     task, replay, faults, crashes, texts, late>>
      /\ windowOpen' \in BOOLEAN
      /\ week' \in Nat /\ week \in Nat /\ week' >= week
  <2>1. week \in Nat /\ windowOpen \in BOOLEAN
    BY DEF IInv, TypeOK
  <2>2. CASE MoveWindow
    <3>1. windowOpen' \in BOOLEAN /\ week' = week
      BY <2>2, Zenon DEF MoveWindow
    <3> QED
      BY <2>1, <2>2, <3>1 DEF MoveWindow, inbox
  <2>3. CASE PassWeek
    BY <2>1, <2>3 DEF PassWeek, inbox
  <2> QED
    BY <2>2, <2>3
<1>2. TypeOK' /\ ReplayShape'
  BY <1>1 DEF IInv, TypeOK, ReplayShape
<1>3. TaskShape' /\ Apart' /\ Silence' /\ Listed' /\ Left' /\ SequenceShape'
  BY <1>1 DEF IInv, TaskShape, Apart, Silence, Listed, Left, SequenceShape, Sound
<1>4. Claims'
  <2> SUFFICES ASSUME NEW t \in Tasks, NEW s \in task[t].claimed
               PROVE  /\ sequence[s].status = "ACTIVE" /\ sequence[s].due # Never
                      /\ sequence[s].due <= week'
    BY <1>1 DEF Claims
  <2>1. sequence[s].status = "ACTIVE" /\ sequence[s].due # Never /\ sequence[s].due <= week
    BY DEF IInv, Claims
  <2>2. sequence[s].due \in Nat
    <3>1. s \in Sequences
      BY DEF IInv, TypeOK
    <3>2. sequence[s] \in SequenceRecord
      BY <3>1 DEF IInv, TypeOK, SequenceRecord
    <3> QED
      BY <2>1, <3>2 DEF SequenceRecord
  <2> QED
    BY <1>1, <2>1, <2>2
<1>5. Copies'
  BY <1>1 DEF IInv, Copies, Told
<1> QED
  BY <1>2, <1>3, <1>4, <1>5 DEF IInv

\* Every step keeps the invariant.
LEMMA Inductive ==
  ASSUME IInv, [Next]_vars
  PROVE  IInv'
<1>1. ASSUME NEW s \in Sequences, EnsureChecks(s) \/ EnsureInserts(s)
      PROVE  IInv'
  BY <1>1, EnsureChecksStep, EnsureInsertsStep
<1>2. ASSUME NEW t \in Tasks, NEW batch \in SUBSET Sequences, Claim(t, batch)
      PROVE  IInv'
  BY <1>2, ClaimStep
<1>3. ASSUME NEW t \in Tasks, TaskGoesOn(t)
      PROVE  IInv'
  <2>1. ASSUME NEW s \in Sequences, Screen(t, s)
        PROVE  IInv'
    BY <2>1, ScreenStep
  <2>2. CASE SkipWithoutSim(t)
    BY <2>2, SkipStep
  <2>3. ASSUME NEW lost \in 0..3, SendAccepted(t, lost) \/ SendFailed(t, lost)
        PROVE  IInv'
    BY <2>3, SendStep
  <2>4. CASE Commit(t)
    BY <2>4, CommitStep
  <2>5. 0..2 \subseteq 0..3
    OBVIOUS
  <2> QED
    BY <1>3, <2>1, <2>2, <2>3, <2>4, <2>5 DEF TaskGoesOn
<1>4. ASSUME NEW t \in Tasks, Rollback(t)
      PROVE  IInv'
  BY <1>4, RollbackStep
<1>5. ASSUME NEW e \in Events, Receive(e) \/ HookGoesOn(e) \/ HookFails(e)
      PROVE  IInv'
  BY <1>5, HookHears, HearsStep
<1>6. CASE ReplayBegins \/ ReplayGoesOn \/ ReplayDies
  BY <1>6, ReplayHears, HearsStep
<1>7. CASE MoveWindow \/ PassWeek
  BY <1>7, ClockStep
<1>8. CASE UNCHANGED vars
  <2>1. UNCHANGED <<contact, sequence, opening, blacklist, event, logged, hook, task,
                    replay, windowOpen, week, faults, crashes, texts, late>>
    BY <1>8 DEF vars, inbox, clock
  <2> QED
    BY <2>1 DEF IInv, TypeOK, ReplayShape, TaskShape, Claims, Apart, SequenceShape, Sound,
                Silence, Listed, Copies, Told, Left
<1> QED
  BY <1>1, <1>2, <1>3, <1>4, <1>5, <1>6, <1>7, <1>8 DEF Next

\* Nothing has happened yet.
LEMMA Initial == Init => IInv
<1> SUFFICES ASSUME Init PROVE IInv
  OBVIOUS
<1> USE SmsFollowUpsAssumption
<1>1. \A t \in Tasks : task[t] = NoTask
  BY DEF Init
<1>2. TypeOK
  <2>1. NoSequence \in SequenceRecord
    BY DEF NoSequence, SequenceRecord, Never
  <2>2. NoReplay \in [pc : {"idle", "loop", "stop"}, batch : SUBSET Events,
                      todo : SUBSET Events, cur : Events \cup {None}, done : SUBSET Events]
    BY DEF NoReplay
  <2> QED
    BY <2>1, <2>2, NoTaskFits DEF Init, TypeOK, TaskRecord, SequenceRecord
<1>3. ReplayShape
  BY DEF Init, ReplayShape, NoReplay
<1>4. TaskShape /\ Claims /\ Apart /\ Silence /\ Left
  <2>1. NoTask.claimed = {} /\ NoTask.sent = {}
    BY DEF NoTask
  <2> QED
    BY <1>1, <2>1, NoTaskFits DEF TaskShape, Claims, Apart, Silence, Left
<1>5. SequenceShape
  BY DEF Init, SequenceShape, Sound, NoSequence
<1>6. Listed
  BY DEF Init, Listed
<1>7. Copies
  BY DEF Init, Copies
<1> QED
  BY <1>2, <1>3, <1>4, <1>5, <1>6, <1>7 DEF IInv

-----------------------------------------------------------------------------
(* What the sellers may rely on.                                           *)

\* The invariant holds in every state: a task owns the rows it claimed, what it
\* has sent is not recorded twice, and each step's time is the row's date.
THEOREM FollowUpsInvariance == Spec => []IInv
<1> QED
  BY Initial, Inductive, PTL DEF Spec

\* Contacts, sequences, events, tasks and the replay keep their types.
THEOREM FollowUpsTypes == Spec => []TypeOK
<1>1. IInv => TypeOK
  BY DEF IInv
<1> QED
  BY <1>1, FollowUpsInvariance, PTL

\* The row locks hold to the commit: no reply, no other task and no opening
\* moves a sequence under the task that sends its message.
THEOREM RowsAreHeld == Spec => []ClaimsHold
<1>1. IInv => ClaimsHold
  BY DEF IInv, Claims, Apart, ClaimsHold
<1> QED
  BY <1>1, FollowUpsInvariance, PTL

\* A task that began after a reply was recorded prepares no message to its
\* sender, whatever it holds in its session.
THEOREM RepliesTakeHold == Spec => []RepliesSilence
<1>1. IInv => RepliesSilence
  BY DEF IInv, TaskShape, WellFormed, RepliesSilence
<1> QED
  BY <1>1, FollowUpsInvariance, PTL

\* After a number is listed a task sends it at most the one message that it had
\* prepared, for any number of sequences of the contact.
THEOREM ListTakesHold == Spec => []ListedWithinOneMessage
<1>1. IInv => ListedWithinOneMessage
  <2> SUFFICES ASSUME IInv, NEW t \in Tasks, NEW c \in Contacts
               PROVE  late[t][c] <= 1
    BY DEF ListedWithinOneMessage
  <2>1. late[t][c] \in Nat /\ (late[t][c] = 0 \/ late[t][c] = 1)
    BY DEF IInv, TypeOK, Listed
  <2> QED
    BY <2>1
<1> QED
  BY <1>1, FollowUpsInvariance, PTL

\* A step reaches the seller once, plus once for each fault and each crash, for
\* any number of tasks that overlap.
THEOREM StepsLeaveOnce == Spec => []StepsAreTextedOnce
<1>1. IInv => StepsAreTextedOnce
  <2> SUFFICES ASSUME IInv, NEW s \in Sequences, NEW k \in Steps
               PROVE  texts[s][k] <= 1 + faults + crashes
    BY DEF StepsAreTextedOnce
  <2>1. texts[s][k] \in Nat /\ faults \in Nat /\ crashes \in Nat
    BY DEF IInv, TypeOK
  <2>2. texts[s][k] <= faults + crashes + (IF Told(s, k) THEN 1 ELSE 0)
    BY DEF IInv, Copies
  <2> QED
    BY <2>1, <2>2
<1> QED
  BY <1>1, FollowUpsInvariance, PTL

-----------------------------------------------------------------------------
(* The time of the steps.                                                  *)

\* Only the two outcomes of send_sms add copies.
LEMMA OnlySendsText ==
  ASSUME IInv, [Next]_vars
  PROVE  \/ texts' = texts
         \/ \E t \in Tasks, n, f \in Nat : Sends(t, n, f)
<1>1. ASSUME NEW t \in Tasks, NEW lost \in Nat, SendAccepted(t, lost)
      PROVE  Sends(t, 1 + lost, lost)
  BY <1>1 DEF SendAccepted, Sends, Fault
<1>2. ASSUME NEW t \in Tasks, NEW lost \in Nat, SendFailed(t, lost)
      PROVE  Sends(t, lost, 1 + lost)
  BY <1>2 DEF SendFailed, Sends, Fault
<1>3. ASSUME NEW t \in Tasks, TaskGoesOn(t)
      PROVE  texts' = texts \/ \E n, f \in Nat : Sends(t, n, f)
  <2>1. ASSUME NEW s \in Sequences, Screen(t, s)
        PROVE  texts' = texts
    BY <2>1 DEF Screen
  <2>2. ASSUME NEW lost \in 0..2, SendAccepted(t, lost)
        PROVE  \E n, f \in Nat : Sends(t, n, f)
    <3>1. lost \in Nat /\ 1 + lost \in Nat
      OBVIOUS
    <3> QED
      BY <1>1, <2>2, <3>1
  <2>3. ASSUME NEW lost \in 0..3, SendFailed(t, lost)
        PROVE  \E n, f \in Nat : Sends(t, n, f)
    <3>1. lost \in Nat /\ 1 + lost \in Nat
      OBVIOUS
    <3> QED
      BY <1>2, <2>3, <3>1
  <2>4. CASE SkipWithoutSim(t) \/ Commit(t)
    BY <2>4 DEF SkipWithoutSim, Commit
  <2> QED
    BY <1>3, <2>1, <2>2, <2>3, <2>4 DEF TaskGoesOn
<1>4. ASSUME NEW s \in Sequences, EnsureChecks(s) \/ EnsureInserts(s)
      PROVE  texts' = texts
  BY <1>4 DEF EnsureChecks, EnsureInserts
<1>5. ASSUME NEW t \in Tasks, NEW batch \in SUBSET Sequences, Claim(t, batch)
      PROVE  texts' = texts
  BY <1>5 DEF Claim
<1>6. ASSUME NEW t \in Tasks, Rollback(t)
      PROVE  texts' = texts
  BY <1>6 DEF Rollback
<1>7. ASSUME NEW e \in Events, Receive(e) \/ HookGoesOn(e) \/ HookFails(e)
      PROVE  texts' = texts
  BY <1>7, HookHears DEF Hears
<1>8. CASE ReplayBegins \/ ReplayGoesOn \/ ReplayDies
  BY <1>8, ReplayHears DEF Hears
<1>9. CASE MoveWindow \/ PassWeek \/ UNCHANGED vars
  BY <1>9 DEF MoveWindow, PassWeek, vars
<1> QED
  BY <1>3, <1>4, <1>5, <1>6, <1>7, <1>8, <1>9 DEF Next

\* A message that leaves was due: its step's date was computed from the
\* creation, unless the step has variants.
LEMMA SendsAreDue ==
  ASSUME DueOf[0] = 0, IInv, [Next]_vars, NEW s \in Sequences, NEW k \in Steps,
         k \notin SplitSteps, texts'[s][k] > texts[s][k]
  PROVE  week >= sequence[s].born + DueOf[k]
<1>1. texts[s][k] \in Nat
  BY DEF IInv, TypeOK
<1>2. PICK t \in Tasks, n \in Nat, f \in Nat : Sends(t, n, f)
  BY <1>1, OnlySendsText
<1>3. s = task[t].cur /\ k = sequence[s].step + 1
  BY <1>1, <1>2, TextsMove
<1>4. s \in task[t].claimed
  BY <1>2, <1>3, Prepared DEF Sends
<1>5. sequence[s].status = "ACTIVE" /\ sequence[s].due <= week
  BY <1>4 DEF IInv, Claims
<1>6. sequence[s].due = sequence[s].born + DueOf[k]
  BY <1>3, <1>5 DEF IInv, SequenceShape, Sound
<1>7. sequence[s].born \in Nat /\ DueOf[k] \in Nat /\ week \in Nat
  BY SmsFollowUpsAssumption DEF IInv, TypeOK
<1> QED
  BY <1>5, <1>6, <1>7

\* A step with at most one template leaves at its time, whatever the variants
\* of the steps before and after it (sms_sequence.py 388-405).
PlainStepsAreDue ==
    [][\A s \in Sequences, k \in Steps \ SplitSteps : texts'[s][k] > texts[s][k] =>
          week >= sequence[s].born + DueOf[k]]_vars

\* The date of a step without variants holds across crashes and overlapping
\* tasks; the first step is due at the creation (SEQUENCE_DELAYS_DAYS[0] = 0).
THEOREM PlainStepsLeaveInTime ==
  ASSUME DueOf[0] = 0
  PROVE  Spec => PlainStepsAreDue
<1>1. IInv /\ [Next]_vars =>
        [\A s \in Sequences, k \in Steps \ SplitSteps : texts'[s][k] > texts[s][k] =>
            week >= sequence[s].born + DueOf[k]]_vars
  BY SendsAreDue
<1> QED
  BY <1>1, FollowUpsInvariance, PTL DEF Spec, PlainStepsAreDue

\* With one template a step every message leaves at its time.
THEOREM StepsLeaveInTime ==
  ASSUME DueOf[0] = 0, SplitSteps = {}
  PROVE  Spec => StepsAreDue
<1>1. IInv /\ [Next]_vars =>
        [\A s \in Sequences, k \in Steps : texts'[s][k] > texts[s][k] =>
            week >= sequence[s].born + DueOf[k]]_vars
  BY SendsAreDue
<1> QED
  BY <1>1, FollowUpsInvariance, PTL DEF Spec, StepsAreDue

-----------------------------------------------------------------------------
(* The refinement of SequenceCourse.                                       *)

Status == [s \in Sequences |-> sequence[s].status]
Step == [s \in Sequences |-> sequence[s].step]
Delivered == [s \in Sequences |-> {k \in Steps : texts[s][k] > 0}]

\* A step that no seller and no row shows.
LEMMA Stutters ==
  ASSUME UNCHANGED <<sequence, texts>>
  PROVE  UNCHANGED Course!course
BY DEF Course!course

\* The creation of a sequence.
LEMMA OpensCourse ==
  ASSUME IInv, NEW s \in Sequences, EnsureInserts(s)
  PROVE  [Course!Next]_(Course!course)
<1>1. /\ sequence[s].status = "none" /\ sequence[s].step = -1
      /\ UNCHANGED texts
  BY DEF EnsureInserts, IInv, SequenceShape, Sound
<1>2. \/ sequence' = sequence
      \/ sequence' = [sequence EXCEPT ![s] =
               [status |-> "ACTIVE", step |-> -1, born |-> week, due |-> week]]
  BY DEF EnsureInserts
<1>3. CASE sequence' = sequence
  BY <1>1, <1>3, Stutters
<1>4. CASE sequence' = [sequence EXCEPT ![s] =
               [status |-> "ACTIVE", step |-> -1, born |-> week, due |-> week]]
  <2>1. \A u \in Sequences : sequence'[u] =
           IF u = s THEN [status |-> "ACTIVE", step |-> -1, born |-> week, due |-> week]
           ELSE sequence[u]
    BY <1>4 DEF IInv, TypeOK
  <2>2. Status' = [Status EXCEPT ![s] = "ACTIVE"]
    <3>1. \A u \in Sequences :
            sequence'[u].status = IF u = s THEN "ACTIVE" ELSE sequence[u].status
      BY <2>1
    <3> QED
      BY <3>1 DEF Status
  <2>3. Step' = Step
    BY <1>1, <2>1 DEF Step
  <2>4. Delivered' = Delivered
    BY <1>1 DEF Delivered
  <2>5. Status[s] = "none"
    BY <1>1 DEF Status
  <2>6. Course!Open(s)
    BY <2>2, <2>3, <2>4, <2>5 DEF Course!Open, Status, Step, Delivered
  <2> QED
    BY <2>6 DEF Course!Next
<1> QED
  BY <1>2, <1>3, <1>4

\* A message: the next step of an ACTIVE sequence reaches its seller, or no
\* copy left.
LEMMA SendsDeliver ==
  ASSUME IInv, NEW t \in Tasks, NEW n \in Nat, NEW f, Sends(t, n, f)
  PROVE  [Course!Next]_(Course!course)
<1> SUFFICES ASSUME NEW s \in Sequences, s = task[t].cur
             PROVE  [Course!Next]_(Course!course)
  BY Prepared DEF Sends
<1> DEFINE j == sequence[s].step + 1
<1>1. sequence[s].status = "ACTIVE" /\ j \in Steps
  BY Prepared DEF Sends
<1>2. UNCHANGED sequence
  BY DEF Sends
<1>3. /\ texts' \in [Sequences -> [Steps -> Nat]]
      /\ \A u \in Sequences, k \in Steps :
            texts'[u][k] = IF u = s /\ k = j THEN texts[u][k] + n ELSE texts[u][k]
  <2>1. \A u \in Sequences, k \in Steps :
          (u = s /\ k = j) <=> (u = task[t].cur /\ k = sequence[u].step + 1)
    OBVIOUS
  <2> QED
    BY <2>1, TextsMove
<1>4. texts \in [Sequences -> [Steps -> Nat]]
  BY DEF IInv, TypeOK
<1>5. Status' = Status /\ Step' = Step /\ Status[s] = "ACTIVE" /\ Step[s] + 1 = j
  BY <1>1, <1>2 DEF Status, Step
<1> HIDE DEF j
<1>6. CASE n = 0
  <2>1. Delivered' = Delivered
    BY <1>3, <1>4, <1>6 DEF Delivered
  <2> QED
    BY <1>5, <2>1 DEF Course!course, Status, Step, Delivered
<1>7. CASE n > 0
  <2>1. Delivered' = [Delivered EXCEPT ![s] = Delivered[s] \cup {j}]
    <3>1. ASSUME NEW u \in Sequences
          PROVE  {k \in Steps : texts'[u][k] > 0} =
                   IF u = s THEN {k \in Steps : texts[u][k] > 0} \cup {j}
                   ELSE {k \in Steps : texts[u][k] > 0}
      BY <1>1, <1>3, <1>4, <1>7
    <3> QED
      BY <1>1, <3>1 DEF Delivered
  <2>2. Course!Deliver(s)
    BY <1>5, <2>1 DEF Course!Deliver, Status, Step, Delivered
  <2> QED
    BY <1>1, <2>2 DEF Course!Next
<1> QED
  BY <1>6, <1>7

\* The commit settles what was sent, which has left, and what was dropped.
LEMMA CommitSettles ==
  ASSUME IInv, NEW t \in Tasks, Commit(t)
  PROVE  [Course!Next]_(Course!course)
<1> SUFFICES ASSUME NEW sent \in SUBSET Sequences, sent = task[t].sent,
                    NEW dropped \in SUBSET Sequences, dropped = task[t].dropped
             PROVE  [Course!Next]_(Course!course)
  <2>1. task[t].sent \in SUBSET Sequences /\ task[t].dropped \in SUBSET Sequences
    BY DEF IInv, TypeOK
  <2> QED
    BY <2>1
<1>1. /\ sent \subseteq task[t].claimed /\ dropped \subseteq task[t].claimed
      /\ task[t].claimed \subseteq Sequences
      /\ sent \cap dropped = {}
      /\ \A s \in task[t].claimed : sequence[s].status = "ACTIVE"
  BY DEF IInv, TypeOK, TaskShape, WellFormed, Claims
<1>2. \A s \in sent : /\ sequence[s].step + 1 \in Steps
                      /\ texts[s][sequence[s].step + 1] > 0
  BY <1>1, NextStep DEF IInv, Left
<1>3. \A s \in Sequences :
         /\ sequence'[s].step = IF s \in sent THEN sequence[s].step + 1 ELSE sequence[s].step
         /\ sequence'[s].status =
               IF s \in dropped THEN "CANCELLED"
               ELSE IF s \in sent /\ sequence[s].step + 1 = LastStep THEN "COMPLETED"
               ELSE sequence[s].status
  <2> SUFFICES ASSUME NEW s \in Sequences
               PROVE  /\ sequence'[s].step = IF s \in sent THEN sequence[s].step + 1 ELSE sequence[s].step
                      /\ sequence'[s].status =
                            IF s \in dropped THEN "CANCELLED"
                            ELSE IF s \in sent /\ sequence[s].step + 1 = LastStep THEN "COMPLETED"
                            ELSE sequence[s].status
    OBVIOUS
  <2>1. sequence[s] \in SequenceRecord
    BY DEF IInv, TypeOK, SequenceRecord
  <2>2. CASE sequence'[s] = sequence[s] /\ s \notin sent \cup dropped
    BY <2>2
  <2>3. CASE s \in sent /\ sequence[s].status = "ACTIVE" /\ sequence'[s] = AfterSend(sequence[s])
    BY <1>1, <1>2, <2>1, <2>3, AfterSendFits
  <2>4. CASE s \in dropped /\ s \notin sent
             /\ sequence'[s] = [sequence[s] EXCEPT !.status = "CANCELLED"]
    BY <2>1, <2>4 DEF SequenceRecord
  <2> QED
    BY <2>2, <2>3, <2>4, CommitMoves
<1>4. UNCHANGED texts
  BY DEF Commit
<1>5. Step' = [s \in Sequences |-> IF s \in sent THEN Step[s] + 1 ELSE Step[s]]
  BY <1>3 DEF Step
<1>6. Status' = [s \in Sequences |->
          IF s \in dropped THEN "CANCELLED"
          ELSE IF s \in sent /\ Step[s] + 1 = LastStep THEN "COMPLETED"
          ELSE Status[s]]
  BY <1>3 DEF Status, Step
<1>7. Delivered' = Delivered
  BY <1>4 DEF Delivered
<1>8. /\ \A s \in sent \cup dropped : Status[s] = "ACTIVE"
      /\ \A s \in sent : Step[s] + 1 \in Delivered[s]
  BY <1>1, <1>2 DEF Status, Step, Delivered
<1>9. Course!Settle(sent, dropped)
  BY <1>5, <1>6, <1>7, <1>8 DEF Course!Settle, Status, Step, Delivered
<1>10. sent \in SUBSET Sequences /\ dropped \in SUBSET (Sequences \ sent)
  BY <1>1
<1> QED
  BY <1>9, <1>10 DEF Course!Next

\* A reply or a STOP cancels ACTIVE sequences and settles nothing else; any
\* other step of the webhook and of the replay leaves them all.
LEMMA HearsSettles ==
  ASSUME IInv, Hears, sequence' \in [Sequences -> SequenceRecord]
  PROVE  [Course!Next]_(Course!course)
<1> SUFFICES ASSUME NEW dropped \in SUBSET Sequences,
                    dropped = {s \in Sequences : sequence'[s] # sequence[s]}
             PROVE  [Course!Next]_(Course!course)
  OBVIOUS
<1>1. \A s \in Sequences :
        /\ sequence'[s].step = sequence[s].step
        /\ sequence'[s].status = IF s \in dropped THEN "CANCELLED" ELSE sequence[s].status
        /\ s \in dropped => sequence[s].status = "ACTIVE"
  <2> SUFFICES ASSUME NEW s \in Sequences
               PROVE  /\ sequence'[s].step = sequence[s].step
                      /\ sequence'[s].status = IF s \in dropped THEN "CANCELLED" ELSE sequence[s].status
                      /\ s \in dropped => sequence[s].status = "ACTIVE"
    OBVIOUS
  <2>1. sequence[s] \in SequenceRecord
    BY DEF IInv, TypeOK, SequenceRecord
  <2>2. CASE sequence'[s] = sequence[s]
    BY <2>2
  <2>3. CASE sequence'[s] # sequence[s]
    <3>1. /\ sequence[s].status = "ACTIVE"
          /\ sequence'[s] = [sequence[s] EXCEPT !.status = "CANCELLED", !.due = Never]
      BY <2>3 DEF Hears
    <3>2. s \in dropped
      BY <2>3
    <3>3. sequence'[s].step = sequence[s].step /\ sequence'[s].status = "CANCELLED"
      BY <2>1, <3>1 DEF SequenceRecord
    <3> QED
      BY <3>1, <3>2, <3>3
  <2> QED
    BY <2>2, <2>3
<1>2. UNCHANGED texts
  BY DEF Hears
<1>3. Step' = [s \in Sequences |-> IF s \in {} THEN Step[s] + 1 ELSE Step[s]]
  BY <1>1 DEF Step
<1>4. Status' = [s \in Sequences |->
          IF s \in dropped THEN "CANCELLED"
          ELSE IF s \in {} /\ Step[s] + 1 = LastStep THEN "COMPLETED"
          ELSE Status[s]]
  BY <1>1 DEF Status
<1>5. Delivered' = Delivered
  BY <1>2 DEF Delivered
<1>6. \A s \in {} \cup dropped : Status[s] = "ACTIVE"
  BY <1>1 DEF Status
<1>7. Course!Settle({}, dropped)
  BY <1>3, <1>4, <1>5, <1>6 DEF Course!Settle, Status, Step, Delivered
<1> QED
  BY <1>7 DEF Course!Next

\* Every step of the system is a step of the course, or shows in no sequence.
LEMMA StepFollowsCourse ==
  ASSUME IInv, [Next]_vars
  PROVE  [Course!Next]_(Course!course)
<1>1. ASSUME NEW s \in Sequences, EnsureChecks(s) \/ EnsureInserts(s)
      PROVE  [Course!Next]_(Course!course)
  <2>1. CASE EnsureChecks(s)
    BY <2>1, Stutters DEF EnsureChecks
  <2>2. CASE EnsureInserts(s)
    BY <2>2, OpensCourse
  <2> QED
    BY <1>1, <2>1, <2>2
<1>2. ASSUME NEW t \in Tasks, NEW batch \in SUBSET Sequences, Claim(t, batch)
      PROVE  [Course!Next]_(Course!course)
  BY <1>2, Stutters DEF Claim
<1>3. ASSUME NEW t \in Tasks, TaskGoesOn(t)
      PROVE  [Course!Next]_(Course!course)
  <2>1. ASSUME NEW s \in Sequences, Screen(t, s)
        PROVE  [Course!Next]_(Course!course)
    BY <2>1, Stutters DEF Screen
  <2>2. ASSUME NEW lost \in 0..2, SendAccepted(t, lost)
        PROVE  [Course!Next]_(Course!course)
    <3>1. Sends(t, 1 + lost, lost) /\ 1 + lost \in Nat
      BY <2>2 DEF SendAccepted, Sends, Fault
    <3> QED
      BY <3>1, SendsDeliver
  <2>3. ASSUME NEW lost \in 0..3, SendFailed(t, lost)
        PROVE  [Course!Next]_(Course!course)
    <3>1. Sends(t, lost, 1 + lost) /\ lost \in Nat
      BY <2>3 DEF SendFailed, Sends, Fault
    <3> QED
      BY <3>1, SendsDeliver
  <2>4. CASE SkipWithoutSim(t)
    BY <2>4, Stutters DEF SkipWithoutSim
  <2>5. CASE Commit(t)
    BY <2>5, CommitSettles
  <2> QED
    BY <1>3, <2>1, <2>2, <2>3, <2>4, <2>5 DEF TaskGoesOn
<1>4. ASSUME NEW t \in Tasks, Rollback(t)
      PROVE  [Course!Next]_(Course!course)
  BY <1>4, Stutters DEF Rollback
<1>5. ASSUME NEW e \in Events, Receive(e) \/ HookGoesOn(e) \/ HookFails(e)
      PROVE  [Course!Next]_(Course!course)
  <2>1. TypeOK' /\ Hears
    BY <1>5, HookHears
  <2> QED
    BY <2>1, HearsSettles DEF TypeOK, SequenceRecord
<1>6. CASE ReplayBegins \/ ReplayGoesOn \/ ReplayDies
  <2>1. TypeOK' /\ Hears
    BY <1>6, ReplayHears
  <2> QED
    BY <2>1, HearsSettles DEF TypeOK, SequenceRecord
<1>7. CASE MoveWindow \/ PassWeek \/ UNCHANGED vars
  BY <1>7, Stutters DEF MoveWindow, PassWeek, vars
<1> QED
  BY <1>1, <1>2, <1>3, <1>4, <1>5, <1>6, <1>7 DEF Next

\* The tasks, webhooks and replays together implement SequenceCourse: messages
\* in order, steps recorded after they left, and no life after the end.
THEOREM CourseIsFollowed == Spec => FollowsCourse
<1>1. Init => Course!Init
  BY DEF Init, Course!Init, NoSequence
<1>2. IInv /\ [Next]_vars => [Course!Next]_(Course!course)
  BY StepFollowsCourse
<1> QED
  BY <1>1, <1>2, FollowUpsInvariance, PTL DEF Spec, FollowsCourse, Course!Spec

=============================================================================
