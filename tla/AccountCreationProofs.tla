------------------------ MODULE AccountCreationProofs ------------------------
(***************************************************************************)
(* Theorems about PhoneActivations and AccountCreation, for every number   *)
(* of orders, requests, attempts and faults.                               *)
(***************************************************************************)
EXTENDS AccountCreation, FiniteSetTheorems, TLAPS

Places == {"idle", "record", "expire", "next", "ask", "write", "cancel"}
OrderStatuses == {"none", "waiting", "received", "cancelled", "expired"}
RowStatuses == ActiveStatuses \cup TerminalStatuses \cup {"none", "RECEIVED"}

VisitRecord ==
  [at : Places, order : Orders \cup {0}, todo : SUBSET Orders, late : SUBSET Orders,
   status : RowStatuses]

TypedPhones ==
  /\ order \in [Orders -> OrderStatuses]
  /\ activation \in [Orders -> RowStatuses]
  /\ visit \in [Visits -> VisitRecord]
  /\ faults \in Nat

\* A request that is about to write CANCELLED was told so by the provider.
WritesWhatIsTrue ==
  \A v \in Visits : visit[v].status = "CANCELLED" =>
    /\ visit[v].at = "write"
    /\ \A o \in Orders : visit[v].order = o => order[o] = "cancelled"

USE DEF OrderStatuses, RowStatuses, ActiveStatuses, TerminalStatuses, Places

PhonesInv == TypedPhones /\ WritesWhatIsTrue /\ CancelledIsCancelled

JobPlaces ==
  {"created", "queued", "prepare", "buy", "record", "otp", "received", "verify", "cancel",
   "settle", "succeed", "finish", "fail", "retry", "done"}

Job ==
  [at : JobPlaces, n : Int, error : {"none", "retry", "stop"},
   number : {"none", "FAILED", "CANCELLED"}]

\* The same of the task that creates an account.
SettlesWhatIsTrue ==
  job.at = "settle" =>
    /\ job.number # "none"
    /\ \A o \in Orders : job.number = "CANCELLED" /\ job.n = o => order[o] = "cancelled"

CreationInv == PhonesInv /\ job \in Job /\ SettlesWhatIsTrue

-----------------------------------------------------------------------------
(* What the provider and the rows do.                                      *)

\* Nothing brings a cancelled number back.
CancelledStays == \A o \in Orders : order[o] = "cancelled" => order'[o] = "cancelled"

LEMMA CancelAtProviderKeeps ==
  ASSUME order \in [Orders -> OrderStatuses], NEW o, CancelAtProvider(o)
  PROVE  /\ order' \in [Orders -> OrderStatuses]
         /\ CancelledStays
         /\ CancelStatus(o) \in {"CANCELLED", "none"}
         /\ o \in Orders /\ CancelStatus(o) = "CANCELLED" => order'[o] = "cancelled"
  BY DEF CancelAtProvider, CancelledStays, CancelStatus, Accepts

LEMMA BuyKeeps ==
  ASSUME order \in [Orders -> OrderStatuses], NEW o, Buy(o)
  PROVE  order' \in [Orders -> OrderStatuses] /\ CancelledStays
  BY DEF Buy, CancelledStays

LEMMA NoVisitTyped == NoVisit \in VisitRecord /\ NoVisit.at = "idle" /\ NoVisit.status = "none"
  BY DEF NoVisit, VisitRecord

\* What Leave makes of a visit writes nothing.
LEMMA LeaveTyped ==
  ASSUME TypedPhones, NEW v \in Visits, Leave(v)
  PROVE  /\ visit' \in [Visits -> VisitRecord]
         /\ visit'[v].status = "none"
         /\ \A w \in Visits \ {v} : visit'[w] = visit[w]
<1> DEFINE next == [NoVisit EXCEPT !.at = "next", !.todo = visit[v].todo]
<1>1. next \in VisitRecord /\ next.status = "none"
  BY DEF TypedPhones, NoVisit, VisitRecord
<1>2. visit' = [visit EXCEPT ![v] = IF visit[v].todo = {} THEN NoVisit ELSE next]
  BY DEF Leave, TypedPhones
<1> HIDE DEF next
<1> QED
  BY <1>1, <1>2, NoVisitTyped DEF TypedPhones

\* A step that moves one visit to a place where it writes nothing, and writes
\* no CANCELLED, keeps the invariant.
LEMMA MoveKeeps ==
  ASSUME PhonesInv, NEW v \in Visits, NEW new \in VisitRecord,
         visit' = [visit EXCEPT ![v] = new],
         new.status # "CANCELLED",
         order' \in [Orders -> OrderStatuses], CancelledStays,
         activation' \in [Orders -> RowStatuses],
         \A o \in Orders : activation'[o] = "CANCELLED" => activation[o] = "CANCELLED",
         faults' \in Nat
  PROVE  PhonesInv'
  BY DEF PhonesInv, TypedPhones, WritesWhatIsTrue, CancelledIsCancelled, CancelledStays

\* A step that leaves the visits alone.
LEMMA StillKeeps ==
  ASSUME PhonesInv, visit' = visit,
         order' \in [Orders -> OrderStatuses], CancelledStays,
         activation' \in [Orders -> RowStatuses],
         \A o \in Orders : activation'[o] = "CANCELLED" =>
            activation[o] = "CANCELLED" \/ order'[o] = "cancelled",
         faults' \in Nat
  PROVE  PhonesInv'
  BY DEF PhonesInv, TypedPhones, WritesWhatIsTrue, CancelledIsCancelled, CancelledStays

LEMMA FaultTyped ==
  ASSUME faults \in Nat, Fault
  PROVE  faults' \in Nat /\ faults' = faults + 1
  BY DEF Fault

-----------------------------------------------------------------------------
(* The requests and the reconciler.                                        *)

LEMMA PhonesStart == InitPhones => PhonesInv
<1> SUFFICES ASSUME InitPhones PROVE PhonesInv
  OBVIOUS
<1>1. TypedPhones
  BY NoVisitTyped DEF InitPhones, TypedPhones
<1> QED
  BY <1>1, NoVisitTyped DEF InitPhones, PhonesInv, WritesWhatIsTrue, CancelledIsCancelled

LEMMA PhonesSteps ==
  ASSUME PhonesInv, [PhonesNext]_phoneVars
  PROVE  PhonesInv'
<1> USE DEF PhonesInv
<1>0. CASE UNCHANGED phoneVars
  BY <1>0 DEF phoneVars, TypedPhones, WritesWhatIsTrue, CancelledIsCancelled
<1>1. ASSUME NEW v \in Visits, NEW o \in Manual, Reserve(v, o)
      PROVE  PhonesInv'
  <2> DEFINE new == [visit[v] EXCEPT !.at = "record", !.order = o]
  <2>1. new \in VisitRecord /\ new.status # "CANCELLED"
    BY <1>1, PhonesAssumption, NoVisitTyped DEF Reserve, TypedPhones, VisitRecord
  <2>2. visit' = [visit EXCEPT ![v] = new]
    BY <1>1 DEF Reserve, TypedPhones
  <2> HIDE DEF new
  <2> QED
    BY <1>1, <2>1, <2>2, BuyKeeps, MoveKeeps DEF Reserve, TypedPhones
<1>2. ASSUME NEW v \in Visits, RecordReserved(v)
      PROVE  PhonesInv'
  BY <1>2, NoVisitTyped, MoveKeeps
     DEF RecordReserved, SetActivation, TypedPhones, CancelledStays
<1>3. ASSUME NEW v \in Visits, ReconcileReads(v)
      PROVE  PhonesInv'
  <2>1. PICK L \in SUBSET Listed : visit' = [visit EXCEPT ![v] =
                [NoVisit EXCEPT !.at = "expire", !.late = L \cap late, !.todo = L \ late]]
    BY <1>3 DEF ReconcileReads
  <2> DEFINE new == [NoVisit EXCEPT !.at = "expire", !.late = L \cap late, !.todo = L \ late]
  <2>2. new \in VisitRecord /\ new.status # "CANCELLED"
    BY DEF NoVisit, VisitRecord, Listed
  <2> HIDE DEF new
  <2> QED
    BY <1>3, <2>1, <2>2, MoveKeeps DEF ReconcileReads, TypedPhones, CancelledStays, new
<1>4. ASSUME NEW v \in Visits, ReconcileExpires(v)
      PROVE  PhonesInv'
  <2>1. /\ activation' \in [Orders -> RowStatuses]
        /\ \A o \in Orders : activation'[o] = "CANCELLED" => activation[o] = "CANCELLED"
    BY <1>4 DEF ReconcileExpires, Expired, TypedPhones
  <2> QED
    BY <1>4, <2>1, LeaveTyped
       DEF ReconcileExpires, TypedPhones, WritesWhatIsTrue, CancelledIsCancelled
<1>5. ASSUME NEW v \in Visits, NEW o \in Orders, RefreshReads(v, o)
      PROVE  PhonesInv'
  <2> DEFINE new ==
          [NoVisit EXCEPT !.order = o, !.todo = visit[v].todo \ {o},
           !.at = IF activation[o] \in ActiveStatuses /\ o \notin late THEN "ask" ELSE "write",
           !.status = IF activation[o] \in ActiveStatuses /\ o \in late
                      THEN "EXPIRED" ELSE "none"]
  <2>1. new \in VisitRecord /\ new.status # "CANCELLED"
    BY DEF NoVisit, VisitRecord, TypedPhones
  <2>2. visit' = [visit EXCEPT ![v] = new]
    BY <1>5 DEF RefreshReads
  <2> HIDE DEF new
  <2> QED
    BY <1>5, <2>1, <2>2, MoveKeeps DEF RefreshReads, TypedPhones, CancelledStays
<1>6. ASSUME NEW v \in Visits, Asks(v)
      PROVE  PhonesInv'
  <2> DEFINE answer == StatusOf(order[visit[v].order])
             new == [visit[v] EXCEPT !.at = "write", !.status = answer]
  <2>1. /\ answer \in RowStatuses
        /\ \A o \in Orders : visit[v].order = o /\ answer = "CANCELLED" => order[o] = "cancelled"
    BY DEF StatusOf
  <2>2. visit' = [visit EXCEPT ![v] = new]
    BY <1>6 DEF Asks, TypedPhones
  <2>3. new \in VisitRecord /\ new.order = visit[v].order /\ new.status = answer
    BY <2>1 DEF VisitRecord, TypedPhones
  <2> HIDE DEF new, answer
  <2>4. TypedPhones'
    BY <1>6, <2>2, <2>3 DEF Asks, TypedPhones
  <2>5. new.at = "write"
    BY DEF VisitRecord, TypedPhones, new
  <2>6. WritesWhatIsTrue'
    <3>1. order' = order
      BY <1>6 DEF Asks
    <3> QED
      BY <2>1, <2>2, <2>3, <2>5, <3>1 DEF TypedPhones, WritesWhatIsTrue
  <2> QED
    BY <1>6, <2>4, <2>6 DEF Asks, CancelledIsCancelled
<1>7. ASSUME NEW v \in Visits, AskFails(v) \/ CancelFails(v)
      PROVE  PhonesInv'
  <2> DEFINE new == [visit[v] EXCEPT !.at = "write"]
  <2>1. visit' = [visit EXCEPT ![v] = new]
    BY <1>7 DEF AskFails, CancelFails, TypedPhones
  <2>2. new \in VisitRecord /\ new.order = visit[v].order /\ new.status = visit[v].status
    BY DEF VisitRecord, TypedPhones
  <2>3. new.status # "CANCELLED"
    BY <1>7, <2>2 DEF AskFails, CancelFails, WritesWhatIsTrue
  <2>4. order' \in [Orders -> OrderStatuses] /\ CancelledStays
    BY <1>7, CancelAtProviderKeeps DEF AskFails, CancelFails, TypedPhones, CancelledStays
  <2> HIDE DEF new
  <2> QED
    BY <1>7, <2>1, <2>2, <2>3, <2>4, FaultTyped, MoveKeeps
       DEF AskFails, CancelFails, TypedPhones
<1>8. ASSUME NEW v \in Visits, Writes(v)
      PROVE  PhonesInv'
  <2>1. visit[v].at = "write" /\ Leave(v) /\ UNCHANGED <<order, faults>>
    BY <1>8 DEF Writes
  <2>2. /\ activation' \in [Orders -> RowStatuses]
        /\ \A o \in Orders : activation'[o] = "CANCELLED" =>
             activation[o] = "CANCELLED" \/ order[o] = "cancelled"
    BY <1>8 DEF Writes, SetActivation, TypedPhones, WritesWhatIsTrue, VisitRecord
  <2> QED
    BY <2>1, <2>2, LeaveTyped DEF TypedPhones, WritesWhatIsTrue, CancelledIsCancelled
<1>9. ASSUME NEW v \in Visits, NEW o \in Orders, CancelReads(v, o)
      PROVE  PhonesInv'
  <2> DEFINE new == [visit[v] EXCEPT !.at = "cancel", !.order = o]
  <2>1. new \in VisitRecord /\ new.status # "CANCELLED"
    BY <1>9, NoVisitTyped DEF CancelReads, TypedPhones, VisitRecord
  <2>2. visit' = [visit EXCEPT ![v] = new]
    BY <1>9 DEF CancelReads, TypedPhones
  <2> HIDE DEF new
  <2> QED
    BY <1>9, <2>1, <2>2, MoveKeeps DEF CancelReads, TypedPhones, CancelledStays
<1>10. ASSUME NEW v \in Visits, CancelCalls(v)
       PROVE  PhonesInv'
  <2> DEFINE answer == CancelStatus(visit[v].order)
             new == [visit[v] EXCEPT !.at = "write", !.status = answer]
  <2>1. /\ order' \in [Orders -> OrderStatuses] /\ CancelledStays /\ answer \in RowStatuses
        /\ \A o \in Orders : visit[v].order = o /\ answer = "CANCELLED" => order'[o] = "cancelled"
    BY <1>10, CancelAtProviderKeeps DEF CancelCalls, TypedPhones
  <2>2. visit' = [visit EXCEPT ![v] = new]
    BY <1>10 DEF CancelCalls, TypedPhones
  <2>3. new \in VisitRecord /\ new.order = visit[v].order /\ new.status = answer
    BY <2>1 DEF VisitRecord, TypedPhones
  <2> HIDE DEF new, answer
  <2>4. TypedPhones'
    BY <1>10, <2>1, <2>2, <2>3 DEF CancelCalls, TypedPhones
  <2>5. new.at = "write"
    BY DEF VisitRecord, TypedPhones, new
  <2>6. WritesWhatIsTrue'
    BY <1>10, <2>1, <2>2, <2>3, <2>5 DEF TypedPhones, WritesWhatIsTrue, CancelledStays
  <2> QED
    BY <1>10, <2>1, <2>4, <2>6 DEF CancelCalls, CancelledIsCancelled, CancelledStays
<1>11. ASSUME NEW v \in Visits, VisitDies(v)
       PROVE  PhonesInv'
  BY <1>11, NoVisitTyped, FaultTyped, MoveKeeps DEF VisitDies, TypedPhones, CancelledStays
<1>12. ASSUME NEW o \in Orders, ProviderMoves(o) \/ TimePasses(o)
       PROVE  PhonesInv'
  <2>1. order' \in [Orders -> OrderStatuses] /\ CancelledStays
    BY <1>12 DEF ProviderMoves, TimePasses, TypedPhones, CancelledStays
  <2> QED
    BY <1>12, <2>1, StillKeeps DEF ProviderMoves, TimePasses, TypedPhones
<1>13. ASSUME NEW v \in Visits, VisitStep(v)
       PROVE  PhonesInv'
  <2>1. visit[v].todo \subseteq Orders
    BY DEF TypedPhones, VisitRecord
  <2> QED
    BY <1>13, <1>2, <1>4, <1>5, <1>6, <1>8, <1>10, <2>1 DEF VisitStep
<1> QED
  BY <1>0, <1>1, <1>3, <1>5, <1>7, <1>9, <1>11, <1>12, <1>13 DEF PhonesNext, VisitBegins

\* PhonesTell: whatever requests, reconciliations, faults and expiries of
\* phone_operations.py overlap, a row that says CANCELLED is right.
THEOREM PhonesTell == InitPhones /\ [][PhonesNext]_phoneVars => []CancelledIsCancelled
<1>1. PhonesInv => CancelledIsCancelled
  BY DEF PhonesInv
<1> QED
  BY <1>1, PhonesStart, PhonesSteps, PTL

-----------------------------------------------------------------------------
(* The task that creates an account.                                       *)

LEMMA PhonesCancelled ==
  ASSUME PhonesInv, [PhonesNext]_phoneVars
  PROVE  CancelledStays
<1>1. ASSUME NEW v \in Visits, CancelCalls(v) \/ CancelFails(v)
      PROVE  CancelledStays
  BY <1>1, CancelAtProviderKeeps
     DEF CancelCalls, CancelFails, CancelledStays, PhonesInv, TypedPhones
<1>2. ASSUME NEW v \in Visits, NEW o \in Manual, Reserve(v, o)
      PROVE  CancelledStays
  BY <1>2, BuyKeeps DEF Reserve, PhonesInv, TypedPhones
<1>3. ASSUME NEW o \in Orders, ProviderMoves(o)
      PROVE  CancelledStays
  BY <1>3 DEF ProviderMoves, CancelledStays, PhonesInv, TypedPhones
<1>4. order' = order => CancelledStays
  BY DEF CancelledStays
<1> QED
  BY <1>1, <1>2, <1>3, <1>4
     DEF PhonesNext, VisitStep, VisitBegins, phoneVars, RecordReserved, ReconcileReads,
         ReconcileExpires, RefreshReads, Asks, AskFails, Writes, CancelReads, VisitDies, TimePasses

\* The task moves, its verdict on the number stays as it is.
LEMMA MovesTyped ==
  ASSUME job \in Job, NEW at \in JobPlaces, NEW error \in {"none", "retry", "stop"}
  PROVE  /\ [job EXCEPT !.at = at] \in Job
         /\ [job EXCEPT !.at = at].at = at
         /\ [job EXCEPT !.at = at].n = job.n
         /\ [job EXCEPT !.at = at, !.error = error] \in Job
         /\ [job EXCEPT !.at = at, !.error = error].at = at
         /\ [job EXCEPT !.at = at, !.error = error].n = job.n
  BY DEF Job

LEMMA MovesOut ==
  CreationInv =>
    \A at \in JobPlaces \ {"settle"}, error \in {"retry", "stop"} :
      job' = [job EXCEPT !.at = at] \/ job' = [job EXCEPT !.at = at, !.error = error]
        => job' \in Job /\ job'.at # "settle"
<1> SUFFICES ASSUME CreationInv,
                    NEW at \in JobPlaces \ {"settle"}, NEW error \in {"retry", "stop"},
                    job' = [job EXCEPT !.at = at] \/ job' = [job EXCEPT !.at = at, !.error = error]
             PROVE  job' \in Job /\ job'.at # "settle"
  OBVIOUS
<1>1. at \in JobPlaces /\ at # "settle" /\ error \in {"none", "retry", "stop"} /\ job \in Job
  BY DEF CreationInv
<1>2. /\ [job EXCEPT !.at = at] \in Job /\ [job EXCEPT !.at = at].at = at
      /\ [job EXCEPT !.at = at, !.error = error] \in Job
      /\ [job EXCEPT !.at = at, !.error = error].at = at
  BY <1>1, MovesTyped
<1> QED
  BY <1>1, <1>2

USE DEF JobPlaces

LEMMA CreationStart == Init => CreationInv
  BY PhonesStart DEF Init, CreationInv, Job, SettlesWhatIsTrue

\* The actions that leave the numbers and their rows alone.
LEMMA QuietSteps ==
  ASSUME CreationInv,
         \/ Dispatch \/ Start \/ Prepare \/ Otp \/ Verify \/ EmailTimesOut \/ Finish \/ Fail
         \/ Retry \/ ReconcileWorkflow
  PROVE  UNCHANGED phoneVars /\ CreationInv'
<1>1. UNCHANGED phoneVars
  BY DEF Dispatch, Start, Prepare, Otp, Verify, EmailTimesOut, Finish, Fail, Retry,
         ReconcileWorkflow
<1>2. PhonesInv'
  BY <1>1, PhonesSteps DEF CreationInv
<1>3. CASE Retry
  <2>1. \/ job' = [at |-> "queued", n |-> job.n + 1, error |-> "none", number |-> "none"]
        \/ job' = [job EXCEPT !.at = "done"]
    BY <1>3 DEF Retry, GoTo
  <2>2. job' \in Job /\ job'.at # "settle"
    BY <2>1 DEF CreationInv, Job
  <2> QED
    BY <1>1, <1>2, <2>2 DEF CreationInv, SettlesWhatIsTrue
<1>4. CASE ReconcileWorkflow
  BY <1>1, <1>2, <1>4 DEF ReconcileWorkflow, CreationInv, SettlesWhatIsTrue, phoneVars
<1>5. CASE Dispatch \/ Start \/ Prepare \/ Otp \/ Verify \/ EmailTimesOut \/ Finish \/ Fail
  <2>1. \E at \in JobPlaces \ {"settle"}, error \in {"retry", "stop"} :
           job' = [job EXCEPT !.at = at] \/ job' = [job EXCEPT !.at = at, !.error = error]
    BY <1>5 DEF GoTo, Dispatch, Start, Prepare, Otp, Verify, EmailTimesOut, Finish, Fail
  <2>2. job' \in Job /\ job'.at # "settle"
    BY <2>1, MovesOut
  <2> QED
    BY <1>1, <1>2, <2>2 DEF CreationInv, SettlesWhatIsTrue
<1> QED
  BY <1>1, <1>3, <1>4, <1>5

\* The failures that leave them alone.
LEMMA QuietFailures ==
  ASSUME CreationInv,
         \/ DispatchFails \/ ProxyUnavailable \/ RecordFails \/ RegisterFails \/ SucceedFails
         \/ JobDies
  PROVE  /\ UNCHANGED <<order, activation, visit>> /\ faults' = faults + 1
         /\ CreationInv'
<1>1. UNCHANGED <<order, activation, visit>> /\ Fault
  BY DEF DispatchFails, ProxyUnavailable, RecordFails, RegisterFails, SucceedFails, JobDies
<1>2. faults' \in Nat /\ faults' = faults + 1
  BY <1>1, FaultTyped DEF CreationInv, PhonesInv, TypedPhones
<1>3. PhonesInv'
  <2>1. order' \in [Orders -> OrderStatuses] /\ CancelledStays
    BY <1>1 DEF CreationInv, PhonesInv, TypedPhones, CancelledStays
  <2> QED
    BY <1>1, <1>2, <2>1, StillKeeps DEF CreationInv, PhonesInv, TypedPhones
<1>4. job' \in Job /\ job'.at # "settle"
  <2>1. \E at \in JobPlaces \ {"settle"}, error \in {"retry", "stop"} :
           job' = [job EXCEPT !.at = at] \/ job' = [job EXCEPT !.at = at, !.error = error]
    BY DEF DispatchFails, ProxyUnavailable, RecordFails, RegisterFails, SucceedFails, JobDies,
           GoTo, Fails
  <2> QED
    BY <2>1, MovesOut
<1> QED
  BY <1>1, <1>2, <1>3, <1>4 DEF CreationInv, SettlesWhatIsTrue

\* Attempts that deal with the number: they buy it, cancel it or write its row.
LEMMA NumberSteps ==
  ASSUME CreationInv,
         \/ BuyNumber \/ BuyFails \/ OtpTimesOut \/ CancelNumber \/ CancelNumberFails
         \/ Record \/ MarkReceived \/ Settle \/ Succeed
  PROVE  CreationInv'
<1> USE DEF CreationInv, SettlesWhatIsTrue
<1>1. CASE BuyNumber \/ BuyFails \/ OtpTimesOut
  <2>1. order' \in [Orders -> OrderStatuses] /\ CancelledStays
    BY <1>1, BuyKeeps, CancelAtProviderKeeps
       DEF BuyNumber, BuyFails, OtpTimesOut, PhonesInv, TypedPhones, CancelledStays
  <2>2. faults' \in Nat /\ UNCHANGED <<activation, visit>>
    BY <1>1, FaultTyped DEF BuyNumber, BuyFails, OtpTimesOut, PhonesInv, TypedPhones
  <2>3. PhonesInv'
    BY <2>1, <2>2, StillKeeps DEF PhonesInv, TypedPhones
  <2>4. \E at \in JobPlaces \ {"settle"}, error \in {"retry", "stop"} :
           job' = [job EXCEPT !.at = at] \/ job' = [job EXCEPT !.at = at, !.error = error]
    BY <1>1 DEF BuyNumber, BuyFails, OtpTimesOut, GoTo, Fails
  <2> QED
    BY <2>3, <2>4, MovesOut
<1>2. CASE CancelNumber \/ CancelNumberFails
  <2>1. /\ order' \in [Orders -> OrderStatuses] /\ CancelledStays
        /\ CancelStatus(job.n) \in {"CANCELLED", "none"}
        /\ CancelNumber /\ job.n \in Orders /\ CancelStatus(job.n) = "CANCELLED"
             => order'[job.n] = "cancelled"
    BY <1>2, CancelAtProviderKeeps
       DEF CancelNumber, CancelNumberFails, PhonesInv, TypedPhones, CancelledStays, CancelStatus
  <2>2. faults' \in Nat /\ UNCHANGED <<activation, visit>>
    BY <1>2, FaultTyped DEF CancelNumber, CancelNumberFails, PhonesInv, TypedPhones
  <2>3. PhonesInv'
    BY <2>1, <2>2, StillKeeps DEF PhonesInv, TypedPhones
  <2>4. \E number \in {"FAILED", "CANCELLED"} :
          /\ job' = [job EXCEPT !.at = "settle", !.number = number]
          /\ number = "CANCELLED" => CancelNumber /\ CancelStatus(job.n) = "CANCELLED"
    BY <1>2, <2>1 DEF CancelNumber, CancelNumberFails
  <2>5. /\ job' \in Job /\ job'.number # "none" /\ job'.n = job.n
        /\ job'.number = "CANCELLED" => CancelNumber /\ CancelStatus(job.n) = "CANCELLED"
    BY <2>4 DEF Job
  <2> QED
    BY <2>1, <2>3, <2>5
<1>3. CASE Record \/ MarkReceived \/ Settle \/ Succeed
  <2>1. \E status \in RowStatuses \ {"none"} :
          /\ SetActivation(job.n, status)
          /\ \A o \in Orders : status = "CANCELLED" /\ job.n = o => order[o] = "cancelled"
    BY <1>3 DEF Record, MarkReceived, Settle, Succeed, Job
  <2>2. UNCHANGED <<order, visit, faults>>
    BY <1>3 DEF Record, MarkReceived, Settle, Succeed
  <2>3. /\ activation' \in [Orders -> RowStatuses]
        /\ \A o \in Orders : activation'[o] = "CANCELLED" =>
             activation[o] = "CANCELLED" \/ order[o] = "cancelled"
    BY <2>1 DEF SetActivation, PhonesInv, TypedPhones
  <2>4. PhonesInv'
    BY <2>2, <2>3, StillKeeps DEF PhonesInv, TypedPhones, CancelledStays
  <2>5. \E at \in JobPlaces \ {"settle"}, error \in {"retry", "stop"} :
           job' = [job EXCEPT !.at = at] \/ job' = [job EXCEPT !.at = at, !.error = error]
    BY <1>3 DEF Record, MarkReceived, Settle, Succeed, GoTo, Fails
  <2> QED
    BY <2>4, <2>5, MovesOut
<1> QED
  BY <1>1, <1>2, <1>3

LEMMA CreationSteps == CreationInv /\ [Next]_vars => CreationInv'
<1> SUFFICES ASSUME CreationInv, [Next]_vars PROVE CreationInv'
  OBVIOUS
<1>1. CASE (PhonesNext /\ UNCHANGED creationVars) \/ UNCHANGED vars
  <2>1. [PhonesNext]_phoneVars /\ UNCHANGED job
    BY <1>1 DEF vars, creationVars
  <2> QED
    BY <2>1, PhonesSteps, PhonesCancelled
       DEF CreationInv, SettlesWhatIsTrue, CancelledStays
<1>2. CASE JobStep \/ JobFails \/ ReconcileWorkflow
  BY <1>2, QuietSteps, QuietFailures, NumberSteps DEF JobStep, JobFails
<1> QED
  BY <1>1, <1>2 DEF Next

\* CreationTells: the task of account_creation.py, its retries and its
\* cancellations included, leaves a row CANCELLED only when the provider
\* cancelled the number.
THEOREM CreationTells == Init /\ [][Next]_vars => []CancelledIsCancelled
<1>1. CreationInv => CancelledIsCancelled
  BY DEF CreationInv, PhonesInv
<1> QED
  BY <1>1, CreationStart, CreationSteps, PTL

-----------------------------------------------------------------------------
(* Numbers that were paid and have no row.                                 *)

Lost == {o \in Orders : order[o] # "none" /\ activation[o] = "none" /\ ~BeingRecorded(o)}

\* A step loses a number when it is a fault, and then one.
LosesOnlyByFault ==
  \/ faults' = faults /\ Lost' \subseteq Lost
  \/ faults' = faults + 1 /\ \E o : Lost' \subseteq Lost \cup {o}

\* A row stays, a number bought is in good hands or was bought before, and
\* who had it in hand has it still or recorded it, except for one number.
LEMMA KeepsInHand ==
  ASSUME NEW x,
         \A o \in Orders : activation[o] # "none" => activation'[o] # "none",
         \A o \in Orders : o # x /\ order'[o] # "none" =>
            order[o] # "none" \/ BeingRecorded(o)',
         \A o \in Orders : o # x /\ BeingRecorded(o) =>
            BeingRecorded(o)' \/ activation'[o] # "none"
  PROVE  Lost' \subseteq Lost \cup {x}
  BY DEF Lost

\* An order of none is no order, and nothing is lost.
LEMMA KeepsAllInHand ==
  ASSUME \A o \in Orders : activation[o] # "none" => activation'[o] # "none",
         \A o \in Orders : order'[o] # "none" =>
            order[o] # "none" \/ BeingRecorded(o)',
         \A o \in Orders : BeingRecorded(o) => BeingRecorded(o)' \/ activation'[o] # "none"
  PROVE  Lost' \subseteq Lost
  BY DEF Lost

\* Cancelling leaves the set of numbers bought as it is.
LEMMA CancelBuysNothing ==
  ASSUME order \in [Orders -> OrderStatuses], NEW o, CancelAtProvider(o)
  PROVE  \A p \in Orders : order'[p] # "none" => order[p] # "none"
  BY DEF CancelAtProvider, Accepts

\* The visits that record nothing before and after their step.
LEMMA OthersRecord ==
  ASSUME visit \in [Visits -> VisitRecord], NEW v \in Visits, NEW new,
         visit' = [visit EXCEPT ![v] = new], visit[v].at # "record", job' = job
  PROVE  \A o \in Orders : BeingRecorded(o) => BeingRecorded(o)'
  BY DEF BeingRecorded

LEMMA PhonesLose ==
  ASSUME CreationInv, PhonesNext, UNCHANGED creationVars
  PROVE  LosesOnlyByFault
<1> USE DEF CreationInv, PhonesInv
<1>0. job' = job
  BY DEF creationVars
<1>1. ASSUME NEW v \in Visits, NEW o \in Manual, Reserve(v, o)
      PROVE  LosesOnlyByFault
  <2>1. visit'[v].at = "record" /\ visit'[v].order = o /\ visit[v].at # "record"
    BY <1>1, NoVisitTyped DEF Reserve, TypedPhones, VisitRecord
  <2>2. BeingRecorded(o)'
    BY <2>1 DEF BeingRecorded
  <2>3. \A p \in Orders : order'[p] # "none" => order[p] # "none" \/ p = o
    BY <1>1 DEF Reserve, Buy, TypedPhones
  <2>4. \A p \in Orders : BeingRecorded(p) => BeingRecorded(p)'
    BY <1>0, <1>1, <2>1, OthersRecord DEF Reserve, TypedPhones
  <2>5. UNCHANGED <<activation, faults>>
    BY <1>1 DEF Reserve
  <2> QED
    BY <2>2, <2>3, <2>4, <2>5, KeepsAllInHand DEF LosesOnlyByFault
<1>2. ASSUME NEW v \in Visits, RecordReserved(v)
      PROVE  LosesOnlyByFault
  <2>1. UNCHANGED <<order, faults>> /\ visit' = [visit EXCEPT ![v] = NoVisit]
    BY <1>2 DEF RecordReserved
  <2>2. \A o \in Orders : activation'[o] = IF o = visit[v].order THEN "WAITING" ELSE activation[o]
    BY <1>2 DEF RecordReserved, SetActivation, TypedPhones
  <2>3. \A o \in Orders : BeingRecorded(o) => BeingRecorded(o)' \/ o = visit[v].order
    BY <1>0, <2>1 DEF BeingRecorded, TypedPhones
  <2> QED
    BY <2>1, <2>2, <2>3, KeepsAllInHand DEF LosesOnlyByFault
<1>3. ASSUME NEW v \in Visits, VisitDies(v)
      PROVE  LosesOnlyByFault
  <2>1. UNCHANGED <<order, activation>> /\ visit' = [visit EXCEPT ![v] = NoVisit]
    BY <1>3 DEF VisitDies
  <2>2. \A o \in Orders : BeingRecorded(o) => BeingRecorded(o)' \/ o = visit[v].order
    BY <1>0, <2>1 DEF BeingRecorded, TypedPhones
  <2>3. Lost' \subseteq Lost \cup {visit[v].order}
    BY <2>1, <2>2, KeepsInHand
  <2>4. faults' = faults + 1
    BY <1>3, FaultTyped DEF VisitDies, TypedPhones
  <2> QED
    BY <2>3, <2>4 DEF LosesOnlyByFault
<1>4. ASSUME NEW v \in Visits, CancelFails(v) \/ AskFails(v) \/ CancelCalls(v)
      PROVE  LosesOnlyByFault
  <2>1. visit[v].at # "record" /\ activation' = activation
    BY <1>4 DEF CancelFails, AskFails, CancelCalls
  <2>2. \E new : visit' = [visit EXCEPT ![v] = new]
    BY <1>4 DEF CancelFails, AskFails, CancelCalls
  <2>3. \A p \in Orders : order'[p] # "none" => order[p] # "none"
    BY <1>4, CancelBuysNothing DEF CancelFails, AskFails, CancelCalls, TypedPhones
  <2>4. Lost' \subseteq Lost
    BY <1>0, <2>1, <2>2, <2>3, OthersRecord, KeepsAllInHand DEF TypedPhones
  <2>5. faults' = faults \/ faults' = faults + 1
    BY <1>4, FaultTyped DEF CancelFails, AskFails, CancelCalls, TypedPhones
  <2> QED
    BY <2>4, <2>5 DEF LosesOnlyByFault
<1>5. ASSUME NEW v \in Visits, ReconcileExpires(v) \/ Writes(v)
      PROVE  LosesOnlyByFault
  <2>1. UNCHANGED <<order, faults>> /\ visit[v].at # "record"
    BY <1>5 DEF ReconcileExpires, Writes
  <2>2. \E new : visit' = [visit EXCEPT ![v] = new]
    BY <1>5 DEF ReconcileExpires, Writes, Leave
  <2>3. \A o \in Orders : activation[o] # "none" => activation'[o] # "none"
    BY <1>5 DEF ReconcileExpires, Writes, Expired, SetActivation, TypedPhones
  <2> QED
    BY <1>0, <2>1, <2>2, <2>3, OthersRecord, KeepsAllInHand DEF LosesOnlyByFault, TypedPhones
<1>6. ASSUME NEW v \in Visits, NEW o \in Orders,
             ReconcileReads(v) \/ RefreshReads(v, o) \/ Asks(v) \/ CancelReads(v, o)
      PROVE  LosesOnlyByFault
  <2>1. UNCHANGED <<order, activation, faults>> /\ visit[v].at # "record"
    BY <1>6, NoVisitTyped DEF ReconcileReads, RefreshReads, Asks, CancelReads
  <2>2. \E new : visit' = [visit EXCEPT ![v] = new]
    BY <1>6 DEF ReconcileReads, RefreshReads, Asks, CancelReads
  <2> QED
    BY <1>0, <2>1, <2>2, OthersRecord, KeepsAllInHand DEF LosesOnlyByFault, TypedPhones
<1>7. ASSUME NEW o \in Orders, ProviderMoves(o) \/ TimePasses(o)
      PROVE  LosesOnlyByFault
  <2>1. UNCHANGED <<activation, visit, faults>>
    BY <1>7 DEF ProviderMoves, TimePasses
  <2>2. \A p \in Orders : order'[p] # "none" => order[p] # "none"
    BY <1>7 DEF ProviderMoves, TimePasses, TypedPhones
  <2>3. \A p \in Orders : BeingRecorded(p) => BeingRecorded(p)'
    BY <1>0, <2>1 DEF BeingRecorded
  <2> QED
    BY <2>1, <2>2, <2>3, KeepsAllInHand DEF LosesOnlyByFault
<1>8. ASSUME NEW v \in Visits, NEW o \in visit[v].todo, RefreshReads(v, o)
      PROVE  LosesOnlyByFault
  BY <1>6, <1>8 DEF TypedPhones, VisitRecord
<1>9. ASSUME NEW v \in Visits, ReconcileReads(v) \/ Asks(v)
      PROVE  LosesOnlyByFault
  <2>1. UNCHANGED <<order, activation, faults>> /\ visit[v].at # "record"
    BY <1>9, NoVisitTyped DEF ReconcileReads, Asks
  <2>2. \E new : visit' = [visit EXCEPT ![v] = new]
    BY <1>9 DEF ReconcileReads, Asks
  <2> QED
    BY <1>0, <2>1, <2>2, OthersRecord, KeepsAllInHand DEF LosesOnlyByFault, TypedPhones
<1> QED
  BY <1>1, <1>2, <1>3, <1>4, <1>5, <1>6, <1>7, <1>8, <1>9
     DEF PhonesNext, VisitStep, VisitBegins

\* The actions of the task, and of the reconciler of workflows.
LEMMA JobLoses ==
  ASSUME CreationInv, JobStep \/ JobFails \/ ReconcileWorkflow
  PROVE  LosesOnlyByFault
<1> USE DEF CreationInv, PhonesInv
<1>1. CASE \/ Dispatch \/ Start \/ Prepare \/ Otp \/ Verify \/ EmailTimesOut \/ Finish \/ Fail
           \/ Retry \/ ReconcileWorkflow
  <2>1. UNCHANGED <<order, activation, visit, faults>>
    BY <1>1, QuietSteps DEF phoneVars
  <2>2. job.at # "record" \/ job' = job
    BY <1>1 DEF Dispatch, Start, Prepare, Otp, Verify, EmailTimesOut, Finish, Fail, Retry,
                ReconcileWorkflow
  <2>3. \A o \in Orders : BeingRecorded(o) => BeingRecorded(o)'
    BY <2>1, <2>2 DEF BeingRecorded
  <2> QED
    BY <2>1, <2>3, KeepsAllInHand DEF LosesOnlyByFault
<1>2. CASE \/ DispatchFails \/ ProxyUnavailable \/ RecordFails \/ RegisterFails \/ SucceedFails
           \/ JobDies
  <2>1. UNCHANGED <<order, activation, visit>> /\ faults' = faults + 1
    BY <1>2, QuietFailures
  <2>2. \A o \in Orders : o # job.n /\ BeingRecorded(o) => BeingRecorded(o)'
    BY <2>1 DEF BeingRecorded
  <2> QED
    BY <2>1, <2>2, KeepsInHand DEF LosesOnlyByFault
<1>3. CASE BuyNumber
  <2>1. UNCHANGED <<activation, visit, faults>> /\ job.at = "buy" /\ Buy(job.n)
    BY <1>3 DEF BuyNumber
  <2>2. job'.at = "record" /\ job'.n = job.n
    BY <1>3 DEF BuyNumber, GoTo, Job
  <2>3. \A o \in Orders : order'[o] # "none" => order[o] # "none" \/ o = job.n
    BY <2>1 DEF Buy, TypedPhones
  <2>4. \A o \in Orders : BeingRecorded(o) \/ o = job.n => BeingRecorded(o)'
    BY <2>1, <2>2 DEF BeingRecorded
  <2> QED
    BY <2>1, <2>3, <2>4, KeepsAllInHand DEF LosesOnlyByFault
<1>4. CASE BuyFails
  <2>1. UNCHANGED <<activation, visit>> /\ faults' = faults + 1 /\ job.at = "buy"
    BY <1>4, FaultTyped DEF BuyFails, TypedPhones
  <2>2. \A o \in Orders : o # job.n /\ order'[o] # "none" => order[o] # "none"
    BY <1>4 DEF BuyFails, Buy, TypedPhones
  <2>3. \A o \in Orders : BeingRecorded(o) => BeingRecorded(o)'
    BY <2>1 DEF BeingRecorded
  <2> QED
    BY <2>1, <2>2, <2>3, KeepsInHand DEF LosesOnlyByFault
<1>5. CASE OtpTimesOut \/ CancelNumber \/ CancelNumberFails
  <2>1. UNCHANGED <<activation, visit>> /\ job.at # "record"
    BY <1>5 DEF OtpTimesOut, CancelNumber, CancelNumberFails
  <2>2. \A o \in Orders : order'[o] # "none" => order[o] # "none"
    BY <1>5, CancelBuysNothing DEF OtpTimesOut, CancelNumber, CancelNumberFails, TypedPhones
  <2>3. \A o \in Orders : BeingRecorded(o) => BeingRecorded(o)'
    BY <2>1 DEF BeingRecorded
  <2>4. Lost' \subseteq Lost
    BY <2>1, <2>2, <2>3, KeepsAllInHand
  <2>5. faults' = faults \/ faults' = faults + 1
    BY <1>5, FaultTyped DEF OtpTimesOut, CancelNumber, CancelNumberFails, TypedPhones
  <2> QED
    BY <2>4, <2>5 DEF LosesOnlyByFault
<1>6. CASE Record \/ MarkReceived \/ Settle \/ Succeed
  <2>1. UNCHANGED <<order, visit, faults>>
    BY <1>6 DEF Record, MarkReceived, Settle, Succeed
  <2>2. \E status \in RowStatuses \ {"none"} : SetActivation(job.n, status)
    BY <1>6 DEF Record, MarkReceived, Settle, Succeed, Job, SettlesWhatIsTrue
  <2>3. \A o \in Orders : activation[o] # "none" \/ o = job.n => activation'[o] # "none"
    BY <2>2 DEF SetActivation, TypedPhones
  <2>4. \A o \in Orders : BeingRecorded(o) => BeingRecorded(o)' \/ o = job.n
    BY <2>1 DEF BeingRecorded
  <2> QED
    BY <2>1, <2>3, <2>4, KeepsAllInHand DEF LosesOnlyByFault
<1> QED
  BY <1>1, <1>2, <1>3, <1>4, <1>5, <1>6 DEF JobStep, JobFails

LostInv == CreationInv /\ Cardinality(Lost) <= faults

\* One number more, at most.
LEMMA OneMore ==
  \A S, T, x : IsFiniteSet(S) /\ T \subseteq S \cup {x}
     => IsFiniteSet(T) /\ Cardinality(T) <= Cardinality(S) + 1 /\ Cardinality(S) \in Nat
        /\ Cardinality(T) \in Nat
<1> SUFFICES ASSUME NEW S, NEW T, NEW x, IsFiniteSet(S), T \subseteq S \cup {x}
             PROVE  /\ IsFiniteSet(T) /\ Cardinality(T) <= Cardinality(S) + 1
                    /\ Cardinality(S) \in Nat /\ Cardinality(T) \in Nat
  OBVIOUS
<1>1. /\ IsFiniteSet(S \cup {x}) /\ Cardinality(S) \in Nat
      /\ \/ Cardinality(S \cup {x}) = Cardinality(S)
         \/ Cardinality(S \cup {x}) = Cardinality(S) + 1
  BY FS_AddElement, FS_CardinalityType
<1>2. IsFiniteSet(T) /\ Cardinality(T) <= Cardinality(S \cup {x}) /\ Cardinality(T) \in Nat
  BY <1>1, FS_Subset, FS_CardinalityType
<1> QED
  BY <1>1, <1>2

LEMMA LostSteps == LostInv /\ [Next]_vars => LostInv'
<1> SUFFICES ASSUME LostInv, [Next]_vars PROVE LostInv'
  OBVIOUS
<1>1. CreationInv'
  BY CreationSteps DEF LostInv
<1>2. LosesOnlyByFault
  <2>1. CASE UNCHANGED vars
    BY <2>1 DEF LosesOnlyByFault, Lost, BeingRecorded, vars, phoneVars, creationVars
  <2>2. CASE Next
    BY <2>2, PhonesLose, JobLoses DEF LostInv, Next
  <2> QED
    BY <2>1, <2>2
<1>3. IsFiniteSet(Lost) /\ IsFiniteSet(Lost')
  BY PhonesAssumption, FS_Subset DEF Lost
<1>4. Lost' \subseteq Lost => Cardinality(Lost') <= Cardinality(Lost)
  BY <1>3, FS_Subset
<1>5. \A o : Lost' \subseteq Lost \cup {o} => Cardinality(Lost') <= Cardinality(Lost) + 1
  BY <1>3, OneMore
<1>6. Cardinality(Lost) \in Nat /\ Cardinality(Lost') \in Nat /\ faults \in Nat
  BY <1>3, FS_CardinalityType DEF LostInv, CreationInv, PhonesInv, TypedPhones
<1>7. \/ Cardinality(Lost') <= Cardinality(Lost) /\ faults' = faults
      \/ Cardinality(Lost') <= Cardinality(Lost) + 1 /\ faults' = faults + 1
  BY <1>2, <1>4, <1>5, Zenon DEF LosesOnlyByFault
<1>8. faults' \in Nat
  BY <1>1 DEF CreationInv, PhonesInv, TypedPhones
<1>9. Cardinality(Lost) <= faults
  BY DEF LostInv
<1>10. Cardinality(Lost') <= faults'
  BY ONLY <1>6, <1>7, <1>8, <1>9, SMT
<1> QED
  BY <1>1, <1>10 DEF LostInv

\* NumbersAreAccountedFor: for any number of orders, attempts and requests, as
\* many numbers as there were faults, at most, were paid and have no row
\* (_phone_activation_for_order, record_phone_activation).
THEOREM NumbersAreAccountedFor == Init /\ [][Next]_vars => []PaidIsRecorded
<1>1. Init => LostInv
  <2> SUFFICES ASSUME Init PROVE LostInv
    OBVIOUS
  <2>1. Lost = {}
    BY DEF Init, InitPhones, Lost
  <2> QED
    BY <2>1, CreationStart, FS_EmptySet DEF LostInv, Init, InitPhones
<1>2. LostInv => PaidIsRecorded
  BY DEF LostInv, PaidIsRecorded, Lost
<1> QED
  BY <1>1, <1>2, LostSteps, PTL

-----------------------------------------------------------------------------
(* Types: a row, and what is about to write one, has a number that was     *)
(* bought.                                                                 *)

Bought(o) == order[o] # "none"

OnlyBought ==
  /\ late \subseteq Orders
  /\ \A o \in Orders : activation[o] # "none" => Bought(o)
  /\ \A v \in Visits :
       /\ visit[v].at \in {"record", "ask", "write", "cancel"} =>
            visit[v].order \in Orders /\ Bought(visit[v].order)
       /\ \A o \in visit[v].todo \cup visit[v].late : Bought(o)

PhonesTypesInv == PhonesInv /\ OnlyBought

\* What was bought remains so.
BoughtStays == \A o \in Orders : Bought(o) => Bought(o)'

LEMMA OrdersStay ==
  ASSUME PhonesInv, NEW o
  PROVE  /\ Buy(o) => BoughtStays /\ (o \in Orders => Bought(o)')
         /\ CancelAtProvider(o) => BoughtStays
         /\ ProviderMoves(o) => BoughtStays
         /\ order' = order => BoughtStays
  BY DEF Buy, CancelAtProvider, Accepts, ProviderMoves, BoughtStays, Bought, PhonesInv, TypedPhones

\* A step of one visit keeps what the rows say when the visit keeps to the
\* numbers that were bought.
LEMMA VisitBuys ==
  ASSUME PhonesTypesInv, BoughtStays, NEW v \in Visits, NEW new \in VisitRecord,
         visit' = [visit EXCEPT ![v] = new], late' = late,
         \A o \in Orders : activation'[o] # "none" => activation[o] # "none" \/ Bought(o)',
         new.at \in {"record", "ask", "write", "cancel"} =>
            new.order \in Orders /\ Bought(new.order)',
         \A o \in new.todo \cup new.late : Bought(o) \/ Bought(o)'
  PROVE  OnlyBought'
<1>1. \A w \in Visits : visit'[w] = IF w = v THEN new ELSE visit[w]
  BY DEF PhonesTypesInv, PhonesInv, TypedPhones
<1>2. \A w \in Visits : visit[w].todo \cup visit[w].late \subseteq Orders
  BY DEF PhonesTypesInv, PhonesInv, TypedPhones, VisitRecord
<1>3. new.todo \cup new.late \subseteq Orders
  BY DEF VisitRecord
<1>4. \A o \in Orders : activation'[o] # "none" => Bought(o)'
  BY DEF PhonesTypesInv, OnlyBought, BoughtStays
<1>5. ASSUME NEW w \in Visits
      PROVE  /\ visit'[w].at \in {"record", "ask", "write", "cancel"} =>
                  visit'[w].order \in Orders /\ order'[visit'[w].order] # "none"
             /\ \A o \in visit'[w].todo \cup visit'[w].late : order'[o] # "none"
  <2>1. CASE w = v
    BY <1>1, <1>3, <2>1 DEF BoughtStays, Bought
  <2>2. CASE w # v
    <3>1. visit'[w] = visit[w]
      BY <1>1, <2>2
    <3>2. visit[w].at \in {"record", "ask", "write", "cancel"} =>
             visit[w].order \in Orders /\ order'[visit[w].order] # "none"
      BY DEF PhonesTypesInv, OnlyBought, BoughtStays, Bought
    <3>3. \A o \in visit[w].todo \cup visit[w].late : order'[o] # "none"
      BY <1>2 DEF PhonesTypesInv, OnlyBought, BoughtStays, Bought
    <3> QED
      BY <3>1, <3>2, <3>3
  <2> QED
    BY <2>1, <2>2
<1> QED
  BY <1>4, <1>5 DEF OnlyBought, PhonesTypesInv, Bought

LEMMA BoughtStart == InitPhones => OnlyBought
  BY DEF InitPhones, OnlyBought, NoVisit

LEMMA BoughtSteps ==
  ASSUME PhonesTypesInv, [PhonesNext]_phoneVars
  PROVE  OnlyBought'
<1> USE DEF PhonesTypesInv
<1>a. ASSUME NEW v \in Visits
      PROVE  visit[v] \in VisitRecord
  BY DEF PhonesInv, TypedPhones
<1>b. ASSUME NEW v \in Visits, Leave(v), BoughtStays, late' = late,
             \A o \in Orders : activation'[o] # "none" => activation[o] # "none" \/ Bought(o)'
      PROVE  OnlyBought'
  <2> DEFINE next == [NoVisit EXCEPT !.at = "next", !.todo = visit[v].todo]
             new == IF visit[v].todo = {} THEN NoVisit ELSE next
  <2>1. visit' = [visit EXCEPT ![v] = new]
    BY <1>b DEF Leave, PhonesInv, TypedPhones
  <2>2. next \in VisitRecord /\ next.at = "next" /\ next.todo = visit[v].todo /\ next.late = {}
    BY <1>a DEF NoVisit, VisitRecord
  <2>3. NoVisit.todo = {} /\ NoVisit.late = {}
    BY DEF NoVisit
  <2>4. new \in VisitRecord /\ new.at \in {"idle", "next"} /\ new.todo = visit[v].todo
        /\ new.late = {}
    BY <2>2, <2>3, NoVisitTyped
  <2>5. \A o \in new.todo \cup new.late : Bought(o)
    BY <2>4 DEF OnlyBought
  <2> HIDE DEF new
  <2> QED
    BY <1>b, <2>1, <2>4, <2>5, VisitBuys
<1>0. CASE UNCHANGED phoneVars
  BY <1>0 DEF phoneVars, OnlyBought, Bought
<1>1. ASSUME NEW v \in Visits, NEW o \in Manual, Reserve(v, o)
      PROVE  OnlyBought'
  <2> DEFINE new == [visit[v] EXCEPT !.at = "record", !.order = o]
  <2>1. o \in Orders /\ visit[v] = NoVisit
    BY <1>1, PhonesAssumption DEF Reserve
  <2>2. new \in VisitRecord /\ new.order = o /\ new.todo = {} /\ new.late = {}
    <3>1. /\ visit[v] \in VisitRecord
          /\ visit[v].todo = {} /\ visit[v].late = {}
      BY <2>1, NoVisitTyped DEF NoVisit
    <3> QED
      BY <2>1, <3>1 DEF VisitRecord
  <2>3. visit' = [visit EXCEPT ![v] = new]
    BY <1>1 DEF Reserve, PhonesInv, TypedPhones
  <2>4. BoughtStays /\ Bought(o)'
    BY <1>1, <2>1, OrdersStay DEF Reserve
  <2> HIDE DEF new
  <2> QED
    BY <1>1, <2>1, <2>2, <2>3, <2>4, VisitBuys DEF Reserve
<1>2. ASSUME NEW v \in Visits, RecordReserved(v)
      PROVE  OnlyBought'
  <2>1. visit' = [visit EXCEPT ![v] = NoVisit] /\ BoughtStays /\ late' = late
    BY <1>2, OrdersStay DEF RecordReserved
  <2>2. \A o \in Orders : activation'[o] # "none" => activation[o] # "none" \/ Bought(o)'
    BY <1>2 DEF RecordReserved, SetActivation, OnlyBought, Bought, PhonesInv, TypedPhones
  <2>3. NoVisit.at = "idle" /\ NoVisit.todo = {} /\ NoVisit.late = {}
    BY DEF NoVisit
  <2> QED
    BY <2>1, <2>2, <2>3, NoVisitTyped, VisitBuys
<1>3. ASSUME NEW v \in Visits, ReconcileReads(v)
      PROVE  OnlyBought'
  <2>1. PICK L \in SUBSET Listed : visit' = [visit EXCEPT ![v] =
                [NoVisit EXCEPT !.at = "expire", !.late = L \cap late, !.todo = L \ late]]
    BY <1>3 DEF ReconcileReads
  <2> DEFINE new == [NoVisit EXCEPT !.at = "expire", !.late = L \cap late, !.todo = L \ late]
  <2>2. new \in VisitRecord /\ new.at = "expire" /\ new.todo \subseteq L /\ new.late \subseteq L
    BY DEF NoVisit, VisitRecord, Listed
  <2>3. \A o \in L : Bought(o)
    BY DEF Listed, OnlyBought
  <2>4. BoughtStays /\ late' = late /\ activation' = activation
    BY <1>3, OrdersStay DEF ReconcileReads
  <2>5. visit' = [visit EXCEPT ![v] = new]
    BY <2>1
  <2> HIDE DEF new
  <2> QED
    BY <2>2, <2>3, <2>4, <2>5, VisitBuys
<1>4. ASSUME NEW v \in Visits, ReconcileExpires(v)
      PROVE  OnlyBought'
  <2>1. BoughtStays /\ late' = late /\ Leave(v)
    BY <1>4, OrdersStay DEF ReconcileExpires
  <2>2. \A o \in Orders : activation'[o] # "none" => activation[o] # "none" \/ Bought(o)'
    BY <1>4, <2>1 DEF ReconcileExpires, Expired, OnlyBought, BoughtStays
  <2> QED
    BY <1>b, <2>1, <2>2
<1>5. ASSUME NEW v \in Visits, NEW o \in Orders, RefreshReads(v, o)
      PROVE  OnlyBought'
  <2> DEFINE new ==
          [NoVisit EXCEPT !.order = o, !.todo = visit[v].todo \ {o},
           !.at = IF activation[o] \in ActiveStatuses /\ o \notin late THEN "ask" ELSE "write",
           !.status = IF activation[o] \in ActiveStatuses /\ o \in late
                      THEN "EXPIRED" ELSE "none"]
  <2>1. new \in VisitRecord /\ new.order = o /\ new.todo = visit[v].todo \ {o} /\ new.late = {}
    BY <1>a DEF NoVisit, VisitRecord
  <2>2. visit' = [visit EXCEPT ![v] = new]
    BY <1>5 DEF RefreshReads
  <2>3. BoughtStays /\ late' = late /\ activation' = activation
    BY <1>5, OrdersStay DEF RefreshReads
  <2>4. Bought(o)'
    BY <1>5, <2>3 DEF RefreshReads, OnlyBought, BoughtStays
  <2>5. \A p \in new.todo \cup new.late : Bought(p)
    BY <2>1 DEF OnlyBought
  <2> HIDE DEF new
  <2> QED
    BY <2>1, <2>2, <2>3, <2>4, <2>5, VisitBuys
<1>6. ASSUME NEW v \in Visits, Asks(v) \/ AskFails(v) \/ CancelCalls(v) \/ CancelFails(v)
      PROVE  OnlyBought'
  <2>1. PICK s : visit' = [visit EXCEPT ![v] = [visit[v] EXCEPT !.at = "write", !.status = s]]
    <3>1. CASE Asks(v) \/ CancelCalls(v)
      BY <1>6, <3>1 DEF Asks, CancelCalls, PhonesInv, TypedPhones
    <3>2. CASE AskFails(v) \/ CancelFails(v)
      <4>1. visit[v].status = visit[v].status /\ visit[v] \in VisitRecord
        BY <1>a
      <4>2. [visit[v] EXCEPT !.at = "write"] =
            [visit[v] EXCEPT !.at = "write", !.status = visit[v].status]
        BY <4>1 DEF VisitRecord
      <4>3. visit' = [visit EXCEPT ![v] = [visit[v] EXCEPT !.at = "write"]]
        BY <3>2 DEF AskFails, CancelFails, PhonesInv, TypedPhones
      <4> QED
        BY <4>2, <4>3
    <3> QED
      BY <1>6, <3>1, <3>2
  <2> DEFINE new == [visit[v] EXCEPT !.at = "write", !.status = s]
  <2>2. new.order = visit[v].order /\ new.todo = visit[v].todo /\ new.late = visit[v].late
        /\ new.at = "write"
    BY <1>a DEF VisitRecord
  <2>3. visit'[v] = new /\ new \in VisitRecord
    <3>1. visit'[v] = new
      BY <2>1 DEF PhonesInv, TypedPhones
    <3>2. visit' \in [Visits -> VisitRecord]
      BY PhonesSteps DEF PhonesInv, TypedPhones
    <3> QED
      BY <3>1, <3>2
  <2>4. BoughtStays /\ late' = late /\ activation' = activation
    BY <1>6, OrdersStay DEF Asks, AskFails, CancelCalls, CancelFails
  <2>5. visit[v].order \in Orders /\ Bought(visit[v].order)
    BY <1>6 DEF Asks, AskFails, CancelCalls, CancelFails, OnlyBought
  <2>6. /\ new.order \in Orders /\ order'[new.order] # "none"
        /\ \A o \in new.todo \cup new.late : order[o] # "none"
    BY <2>2, <2>4, <2>5 DEF OnlyBought, BoughtStays, Bought
  <2> HIDE DEF new
  <2> QED
    BY <2>1, <2>2, <2>3, <2>4, <2>6, VisitBuys DEF new, Bought
<1>8. ASSUME NEW v \in Visits, Writes(v)
      PROVE  OnlyBought'
  <2>1. BoughtStays /\ late' = late /\ Leave(v) /\ order' = order
    BY <1>8, OrdersStay DEF Writes
  <2>2. Bought(visit[v].order) /\ visit[v].order \in Orders
    BY <1>8 DEF Writes, OnlyBought
  <2>3. \A o \in Orders : activation'[o] # "none" => activation[o] # "none" \/ Bought(o)'
    BY <1>8, <2>1, <2>2 DEF Writes, SetActivation, Bought, PhonesInv, TypedPhones
  <2> QED
    BY <1>b, <2>1, <2>3
<1>9. ASSUME NEW v \in Visits, NEW o \in Orders, CancelReads(v, o)
      PROVE  OnlyBought'
  <2> DEFINE new == [visit[v] EXCEPT !.at = "cancel", !.order = o]
  <2>1. new \in VisitRecord /\ new.order = o /\ new.todo = visit[v].todo /\ new.late = visit[v].late
    BY <1>a DEF VisitRecord
  <2>2. visit' = [visit EXCEPT ![v] = new] /\ late' = late /\ activation' = activation
    BY <1>9 DEF CancelReads, PhonesInv, TypedPhones
  <2>3. BoughtStays /\ Bought(o)'
    BY <1>9, OrdersStay DEF CancelReads, OnlyBought, BoughtStays
  <2>4. \A p \in new.todo \cup new.late : Bought(p)
    BY <2>1 DEF OnlyBought
  <2> HIDE DEF new
  <2> QED
    BY <2>1, <2>2, <2>3, <2>4, VisitBuys
<1>11. ASSUME NEW v \in Visits, VisitDies(v)
       PROVE  OnlyBought'
  <2>1. visit' = [visit EXCEPT ![v] = NoVisit] /\ BoughtStays /\ late' = late
        /\ activation' = activation
    BY <1>11, OrdersStay DEF VisitDies
  <2>3. NoVisit.at = "idle" /\ NoVisit.todo = {} /\ NoVisit.late = {}
    BY DEF NoVisit
  <2> QED
    BY <2>1, <2>3, NoVisitTyped, VisitBuys
<1>12. ASSUME NEW o \in Orders, ProviderMoves(o) \/ TimePasses(o)
       PROVE  OnlyBought'
  <2>1. BoughtStays /\ activation' = activation /\ visit' = visit /\ late' \subseteq late \cup {o}
    BY <1>12, OrdersStay DEF ProviderMoves, TimePasses
  <2>2. \A v \in Visits : visit[v].todo \cup visit[v].late \subseteq Orders
    BY DEF PhonesInv, TypedPhones, VisitRecord
  <2> QED
    BY <2>1, <2>2 DEF OnlyBought, BoughtStays, Bought
<1>13. ASSUME NEW v \in Visits, VisitStep(v)
       PROVE  OnlyBought'
  <2>1. visit[v].todo \subseteq Orders
    BY <1>a DEF VisitRecord
  <2> QED
    BY <1>13, <1>2, <1>4, <1>5, <1>6, <1>8, <2>1 DEF VisitStep
<1> QED
  BY <1>0, <1>1, <1>3, <1>5, <1>6, <1>9, <1>11, <1>12, <1>13 DEF PhonesNext, VisitBegins

LEMMA PhonesTypesAre == PhonesTypesInv => TypePhones
  BY DEF PhonesTypesInv, PhonesInv, TypedPhones, OnlyBought, TypePhones, Bought, VisitRecord

\* PhonesTypes: whatever requests and reconciliations of phone_operations.py
\* overlap, a row is only ever written for a number that was bought.
THEOREM PhonesTypes == InitPhones /\ [][PhonesNext]_phoneVars => []TypePhones
<1>1. InitPhones => PhonesTypesInv
  BY PhonesStart, BoughtStart DEF PhonesTypesInv
<1>2. PhonesTypesInv /\ [PhonesNext]_phoneVars => PhonesTypesInv'
  BY PhonesSteps, BoughtSteps DEF PhonesTypesInv
<1> QED
  BY <1>1, <1>2, PhonesTypesAre, PTL

\* The attempts that have bought their number and have not ended.
Holding == {"record", "otp", "received", "verify", "cancel", "settle", "succeed"}

JobBought == job.at \in Holding /\ job.n \in Orders => Bought(job.n)

TypedCreation ==
  /\ job.n \in Attempts
  /\ acct \in [Attempts -> {"none", "EN_CREATION", "EN_CHAUFFE", "QUARANTAINE"}]
  /\ workflow \in {"PENDING", "RUNNING", "COMPLETED", "FAILED"}

CreationTypesInv == CreationInv /\ OnlyBought /\ JobBought /\ TypedCreation

\* The steps of the task that leave the numbers and their rows alone.
QuietJob ==
  \/ Dispatch \/ DispatchFails \/ Start \/ Prepare \/ ProxyUnavailable \/ RecordFails
  \/ Otp \/ Verify \/ EmailTimesOut \/ RegisterFails \/ SucceedFails \/ Finish \/ Fail
  \/ Retry \/ JobDies \/ ReconcileWorkflow

\* The visits stay where they are, and rows are written for numbers bought.
LEMMA RowsBuy ==
  ASSUME CreationTypesInv, BoughtStays, visit' = visit, late' = late,
         \A o \in Orders : activation'[o] # "none" => activation[o] # "none" \/ Bought(o)'
  PROVE  OnlyBought'
<1>1. \A v \in Visits : visit[v].todo \cup visit[v].late \subseteq Orders
  BY DEF CreationTypesInv, CreationInv, PhonesInv, TypedPhones, VisitRecord
<1>2. \A v \in Visits :
         /\ visit[v].at \in {"record", "ask", "write", "cancel"} =>
              visit[v].order \in Orders /\ order'[visit[v].order] # "none"
         /\ \A o \in visit[v].todo \cup visit[v].late : order'[o] # "none"
  BY <1>1 DEF CreationTypesInv, OnlyBought, BoughtStays, Bought
<1> QED
  BY <1>2 DEF CreationTypesInv, OnlyBought, BoughtStays, Bought

LEMMA PhonesBuy ==
  ASSUME PhonesInv, [PhonesNext]_phoneVars
  PROVE  BoughtStays
<1>1. \/ \E o : Buy(o) \/ CancelAtProvider(o) \/ ProviderMoves(o)
      \/ order' = order
  BY DEF PhonesNext, VisitStep, VisitBegins, phoneVars, Reserve, RecordReserved, ReconcileReads,
         ReconcileExpires, RefreshReads, Asks, AskFails, Writes, CancelReads, CancelCalls,
         CancelFails, VisitDies, TimePasses
<1> QED
  BY <1>1, OrdersStay

\* The numbers and the accounts through the steps of the task.
LEMMA JobKeepsBought ==
  ASSUME CreationTypesInv, JobStep \/ JobFails \/ ReconcileWorkflow
  PROVE  OnlyBought' /\ BoughtStays
<1>1. job.n \in Attempts /\ job \in Job
  BY DEF CreationTypesInv, TypedCreation, CreationInv
<1>2. ASSUME UNCHANGED <<visit, late, activation>>, BoughtStays
      PROVE  OnlyBought'
  BY <1>2, RowsBuy
<1>3. PhonesInv
  BY DEF CreationTypesInv, CreationInv
<1>4. CASE QuietJob
  <2>1. UNCHANGED <<order, visit, late, activation>>
    BY <1>4 DEF QuietJob, Dispatch, DispatchFails, Start, Prepare, ProxyUnavailable, RecordFails,
           Otp, Verify, EmailTimesOut, RegisterFails, SucceedFails, Finish, Fail, Retry,
           JobDies, ReconcileWorkflow, phoneVars
  <2> QED
    BY <1>2, <1>3, <2>1, OrdersStay
<1>5. CASE BuyNumber \/ BuyFails \/ OtpTimesOut \/ CancelNumber \/ CancelNumberFails
  <2>1. /\ Buy(job.n) \/ CancelAtProvider(job.n) \/ order' = order
        /\ UNCHANGED <<visit, late, activation>>
    BY <1>5 DEF BuyNumber, BuyFails, OtpTimesOut, CancelNumber, CancelNumberFails
  <2> QED
    BY <1>2, <1>3, <2>1, OrdersStay
<1>6. CASE Record \/ MarkReceived \/ Settle \/ Succeed
  <2>1. job.at \in Holding /\ UNCHANGED <<order, visit, late>>
    BY <1>6 DEF Record, MarkReceived, Settle, Succeed, Holding
  <2>2. \E s \in RowStatuses : activation' = [activation EXCEPT ![job.n] = s]
    BY <1>1, <1>6 DEF Record, MarkReceived, Settle, Succeed, SetActivation, Job
  <2>3. BoughtStays
    BY <1>3, <2>1, OrdersStay
  <2>4. \A o \in Orders : activation'[o] # "none" => activation[o] # "none" \/ Bought(o)'
    BY <1>3, <2>1, <2>2 DEF CreationTypesInv, JobBought, Bought, PhonesInv, TypedPhones
  <2> QED
    BY <2>1, <2>3, <2>4, RowsBuy
<1> QED
  BY <1>4, <1>5, <1>6 DEF QuietJob, JobStep, JobFails

\* Moves of the task that end in a place where it holds its number held one
\* already, or bought it.
LEMMA JobTypes ==
  ASSUME CreationTypesInv, JobStep \/ JobFails \/ ReconcileWorkflow,
         MaxAttempts \in Nat \ {0}
  PROVE  JobBought' /\ TypedCreation'
<1>1. /\ job \in Job /\ job.n \in Attempts /\ BoughtStays
      /\ acct \in [Attempts -> {"none", "EN_CREATION", "EN_CHAUFFE", "QUARANTAINE"}]
      /\ workflow \in {"PENDING", "RUNNING", "COMPLETED", "FAILED"}
  BY JobKeepsBought DEF CreationTypesInv, TypedCreation, CreationInv
<1>2. acct' \in [Attempts -> {"none", "EN_CREATION", "EN_CHAUFFE", "QUARANTAINE"}]
  BY <1>1 DEF JobStep, JobFails, ReconcileWorkflow, Dispatch, DispatchFails, Start, Prepare,
         ProxyUnavailable, BuyNumber, BuyFails, Record, RecordFails, Otp, OtpTimesOut,
         MarkReceived, Verify, EmailTimesOut, RegisterFails, CancelNumber, CancelNumberFails,
         Settle, Succeed, SucceedFails, Finish, Fail, Retry, JobDies
<1>3. workflow' \in {"PENDING", "RUNNING", "COMPLETED", "FAILED"}
  BY <1>1 DEF JobStep, JobFails, ReconcileWorkflow, Dispatch, DispatchFails, Start, Prepare,
         ProxyUnavailable, BuyNumber, BuyFails, Record, RecordFails, Otp, OtpTimesOut,
         MarkReceived, Verify, EmailTimesOut, RegisterFails, CancelNumber, CancelNumberFails,
         Settle, Succeed, SucceedFails, Finish, Fail, Retry, JobDies, Checkpoint
<1>4. ASSUME job'.n = job.n, job'.at \notin Holding \/ job.at \in Holding
      PROVE  JobBought' /\ job'.n \in Attempts
  BY <1>1, <1>4 DEF JobBought, BoughtStays, Bought, CreationTypesInv
<1>5. JobBought' /\ job'.n \in Attempts
  <2>1. CASE Retry
    <3>1. CASE job.n < MaxAttempts
      <4>1. job'.at = "queued" /\ job'.n = job.n + 1
        BY <2>1, <3>1 DEF Retry
      <4> QED
        BY <1>1, <3>1, <4>1 DEF JobBought, Holding, Attempts
    <3>2. CASE ~(job.n < MaxAttempts)
      <4>1. job' = [job EXCEPT !.at = "done"]
        BY <2>1, <3>2 DEF Retry, GoTo
      <4> QED
        BY <1>1, <1>4, <4>1 DEF Job, Holding
    <3> QED
      BY <3>1, <3>2
  <2>2. CASE BuyNumber
    <3>1. job' = [job EXCEPT !.at = "record"] /\ Buy(job.n)
      BY <2>2 DEF BuyNumber, GoTo
    <3>2. job'.n = job.n
      BY <1>1, <3>1 DEF Job
    <3>3. job.n \in Orders => Bought(job.n)'
      BY <1>1, <3>1, <3>2, OrdersStay DEF CreationTypesInv, CreationInv, Buy, Bought
    <3> QED
      BY <1>1, <3>2, <3>3 DEF JobBought, Bought
  <2>3. CASE ReconcileWorkflow
    BY <1>1, <1>4, <2>3 DEF ReconcileWorkflow
  <2>4. CASE \/ Dispatch \/ DispatchFails \/ Start \/ Prepare \/ ProxyUnavailable \/ BuyFails
            \/ RecordFails \/ Settle \/ Succeed \/ SucceedFails \/ Finish \/ Fail \/ JobDies
    <3>1. \E at \in JobPlaces \ Holding : job' = [job EXCEPT !.at = at]
      BY <2>4 DEF Dispatch, DispatchFails, Start, Prepare, ProxyUnavailable, BuyFails,
                  RecordFails, Settle, Succeed, SucceedFails, Finish, Fail, JobDies,
                  GoTo, Fails, Holding
    <3> QED
      BY <1>1, <1>4, <3>1 DEF Job
  <2>5. CASE \/ Record \/ Otp \/ OtpTimesOut \/ MarkReceived \/ Verify \/ EmailTimesOut
            \/ RegisterFails \/ CancelNumber \/ CancelNumberFails
    <3>1. job.at \in Holding
      BY <2>5 DEF Record, Otp, OtpTimesOut, MarkReceived, Verify, EmailTimesOut,
                  RegisterFails, CancelNumber, CancelNumberFails, Holding
    <3>2. job'.n = job.n
      BY <1>1, <2>5 DEF Record, Otp, OtpTimesOut, MarkReceived, Verify, EmailTimesOut,
                  RegisterFails, CancelNumber, CancelNumberFails, GoTo, Job
    <3> QED
      BY <1>4, <3>1, <3>2
  <2> QED
    BY <2>1, <2>2, <2>3, <2>4, <2>5 DEF JobStep, JobFails
<1> QED
  BY <1>2, <1>3, <1>5 DEF TypedCreation, Attempts

\* CreationTypes: the task of account_creation.py only records, settles or
\* marks used a number that one of its attempts bought, whatever fails.
THEOREM CreationTypes ==
  ASSUME MaxAttempts \in Nat \ {0}
  PROVE  Init /\ [][Next]_vars => []TypeOK
<1>1. Init => CreationTypesInv
  BY CreationStart, BoughtStart
     DEF Init, CreationTypesInv, JobBought, Holding, TypedCreation, Attempts
<1>2. CreationTypesInv /\ [Next]_vars => CreationTypesInv'
  <2> SUFFICES ASSUME CreationTypesInv, [Next]_vars PROVE CreationTypesInv'
    OBVIOUS
  <2>1. CreationInv'
    BY CreationSteps DEF CreationTypesInv
  <2>2. CASE JobStep \/ JobFails \/ ReconcileWorkflow
    BY <2>1, <2>2, JobKeepsBought, JobTypes DEF CreationTypesInv
  <2>3. CASE (PhonesNext /\ UNCHANGED creationVars) \/ UNCHANGED vars
    <3>1. [PhonesNext]_phoneVars /\ UNCHANGED creationVars
      BY <2>3 DEF vars, creationVars
    <3>2. OnlyBought'
      BY <3>1, BoughtSteps DEF CreationTypesInv, CreationInv, PhonesTypesInv
    <3>3. BoughtStays
      BY <3>1, PhonesBuy DEF CreationTypesInv, CreationInv
    <3>4. JobBought' /\ TypedCreation'
      BY <3>1, <3>3
         DEF CreationTypesInv, creationVars, JobBought, TypedCreation, BoughtStays, Bought, Attempts
    <3> QED
      BY <2>1, <3>2, <3>4 DEF CreationTypesInv
  <2> QED
    BY <2>2, <2>3 DEF Next
<1>3. CreationTypesInv => TypeOK
  BY PhonesTypesAre DEF CreationTypesInv, CreationInv, PhonesTypesInv, TypedCreation, TypeOK
<1> QED
  BY <1>1, <1>2, <1>3, PTL
=============================================================================
