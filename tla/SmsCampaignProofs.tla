------------------------- MODULE SmsCampaignProofs -------------------------
(***************************************************************************)
(* Theorems about SmsCampaign, for every number of campaigns, listings,    *)
(* requests, workers, faults and crashes.                                  *)
(***************************************************************************)
EXTENDS SmsCampaign, FiniteSetTheorems, TLAPS

Alive == {"queued"} \cup Working

\* What a request holds while it is being served.
RequestsOwn ==
    \A r \in Requests :
        /\ request[r].pc \in {"read", "dispatch", "store"} =>
              request[r].campaign \in Campaigns
        /\ request[r].pc = "read" => request[r].key \in Keys
        /\ \/ request[r].pc \in {"dispatch", "store"}
           \/ request[r].pc = "read" /\ request[r].route = "workflow"
           => request[r].run \in Requests /\ workflow[request[r].run].campaign \in Campaigns

\* A run that exists has a campaign.
RunsOwn == \A w \in Created : workflow[w].campaign \in Campaigns

\* What a task holds from one of its steps to the next.
JobsOwn ==
    \A r \in Requests :
        /\ job[r].pc \in Alive => job[r].campaign \in Campaigns
        /\ job[r].pc \notin Alive => job[r].campaign = None /\ job[r].run = None
        /\ job[r].run # None => workflow[job[r].run].campaign \in Campaigns
        /\ job[r].pc \in {"screen", "sleep", "record"} => job[r].cur \in Listings
        /\ job[r].pc = "sleep" => job[r].quota > 0

Typing == TypeOK /\ RequestsOwn /\ RunsOwn /\ JobsOwn

\* The total that a working task is about to write is backed already.
Backed ==
    /\ SentIsBacked
    /\ \A r \in Requests :
          job[r].pc \in Working => Total(r) <= accepted[job[r].campaign]

\* A task of the control tower that sent although its campaign is stopped is
\* past its sleep and will look at the campaign before it picks a listing.
Stopping ==
    \A r \in Requests :
        /\ job[r].run # None => overrun[r] <= 1
        /\ overrun[r] > 0 =>
              /\ job[r].campaign \in Campaigns
              /\ campaign[job[r].campaign].status \in Stopped
              /\ job[r].run # None => job[r].pc \notin {"screen", "sleep"}

\* A task that texted a blacklisted number is not about to do it again.
OptedOut ==
    \A r \in Requests, p \in Phones :
        /\ late[r][p] <= 1
        /\ late[r][p] > 0 =>
              p \in blacklist /\ ~(job[r].pc = "sleep" /\ PhoneOf[job[r].cur] = p)

\* No task of a request runs before the request dispatches it.
Waiting == {"idle", "read", "dispatch"}
Dispatched == \A r \in Requests : request[r].pc \in Waiting => job[r].pc = "none"

IInv == Typing /\ Dispatched /\ Backed /\ Stopping /\ OptedOut
-----------------------------------------------------------------------------
(* Type correctness.                                                       *)

USE SmsCampaignAssumption

LEMMA InitTyping == Init => Typing
  BY DEF Init, Typing, TypeOK, RequestsOwn, RunsOwn, JobsOwn, CampaignRow, CampaignStatus,
         Run, Request, Job, NoRun, NoRequest, NoJob, Created, Alive, Working

\* The history variables keep their types in every step.
LEMMA ObserveTyping ==
  ASSUME TypeOK, Observe
  PROVE  /\ overrun' \in [Requests -> Nat]
         /\ late' \in [Requests -> [Phones -> Nat]]
  BY DEF TypeOK, Observe, Sends

\* Writing one column keeps the rows of campaigns and of workflow_runs.
LEMMA StatusTyped ==
  ASSUME NEW f \in [Campaigns -> CampaignRow], NEW c, NEW s \in CampaignStatus
  PROVE  [f EXCEPT ![c].status = s] \in [Campaigns -> CampaignRow]
  BY DEF CampaignRow

LEMMA RunStatusTyped ==
  ASSUME NEW f \in [Requests -> Run], NEW w, NEW s \in CampaignStatus
  PROVE  [f EXCEPT ![w].status = s] \in [Requests -> Run]
  BY DEF Run

LEMMA TaskTyped ==
  ASSUME NEW f \in [Requests -> Run], NEW w, NEW t \in Requests
  PROVE  [f EXCEPT ![w].task = t] \in [Requests -> Run]
  BY DEF Run

LEMMA RequestPcTyped ==
  ASSUME NEW f \in [Requests -> Request], NEW r \in Requests,
         NEW pc \in {"idle", "read", "dispatch", "store", "revoke", "done"}
  PROVE  [f EXCEPT ![r].pc = pc] \in [Requests -> Request]
<1>1. [f[r] EXCEPT !.pc = pc] \in Request
  BY DEF Request
<1>2. [f EXCEPT ![r].pc = pc] = [f EXCEPT ![r] = [f[r] EXCEPT !.pc = pc]]
  OBVIOUS
<1> QED
  BY <1>1, <1>2

LEMMA JobPcTyped ==
  ASSUME NEW f \in [Requests -> Job], NEW r \in Requests, NEW pc \in Working
  PROVE  [f EXCEPT ![r].pc = pc] \in [Requests -> Job]
<1>1. [f[r] EXCEPT !.pc = pc] \in Job
  BY DEF Job
<1>2. [f EXCEPT ![r].pc = pc] = [f EXCEPT ![r] = [f[r] EXCEPT !.pc = pc]]
  OBVIOUS
<1> QED
  BY <1>1, <1>2

LEMMA CommandsTyped ==
  \A a : CommandedStatus(a) \in CampaignStatus /\ CommandedRun(a) \in CampaignStatus
  BY DEF CommandedStatus, CommandedRun, CampaignStatus

\* The API calls.
LEMMA RequestTyping ==
  ASSUME Typing, NEW r \in Requests, RequestStep(r), Observe
  PROVE  Typing'
<1> USE DEF Typing
<1>1. ASSUME NEW c \in Campaigns, NEW a \in Actions, NEW k \in Keys, ReadCampaign(r, c, a, k)
      PROVE  Typing'
  <2>1. request' \in [Requests -> Request]
    BY <1>1 DEF TypeOK, ReadCampaign, Request, NoRequest
  <2>2. TypeOK'
    BY <1>1, <2>1, ObserveTyping DEF TypeOK, ReadCampaign, dbVars, budget, history
  <2>3. RequestsOwn'
    BY <1>1 DEF TypeOK, RequestsOwn, ReadCampaign, NoRequest, dbVars
  <2> QED
    BY <1>1, <2>2, <2>3 DEF RunsOwn, JobsOwn, ReadCampaign, Created, dbVars
<1>2. ASSUME NEW w \in Requests, CommitCampaign(r, w)
      PROVE  Typing'
  <2> DEFINE c == request[r].campaign
             new == [status |-> "PENDING", campaign |-> c,
                     born |-> Cardinality(Created) + 1, task |-> None]
  <2>1. c \in Campaigns /\ request[r].key \in Keys
    BY <1>2 DEF CommitCampaign, RequestsOwn
  <2>2. campaign' \in [Campaigns -> CampaignRow]
    BY <1>2, StatusTyped, CommandsTyped DEF TypeOK, CommitCampaign
  <2>3. Cardinality(Created) \in Nat
    <3>1. IsFiniteSet(Created)
      BY FS_Subset DEF Created
    <3> QED
      BY <3>1, FS_CardinalityType
  <2>4. new \in Run
    BY <2>1, <2>3 DEF Run, CampaignStatus
  <2>5. workflow' \in [Requests -> Run]
    <3>1. CASE workflow' = [workflow EXCEPT ![w] = new]
      BY <3>1, <2>4 DEF TypeOK
    <3>2. CASE workflow' = [workflow EXCEPT ![w].status = CommandedRun(request[r].action)]
      BY <3>2, RunStatusTyped, CommandsTyped DEF TypeOK
    <3> QED
      BY <1>2, <3>1, <3>2 DEF CommitCampaign
  <2>6. request' \in [Requests -> Request]
    <3> DEFINE next == IF Dispatches(request[r].action)
                       THEN [request[r] EXCEPT !.run = w, !.pc = "dispatch"]
                       ELSE Served(request[r])
    <3>1. next \in Request
      <4>1. request[r] \in Request
        BY DEF TypeOK
      <4>2. [request[r] EXCEPT !.run = w, !.pc = "dispatch"] \in Request
        BY <4>1 DEF Request
      <4>3. Served(request[r]) \in Request
        BY <4>1 DEF Request, NoRequest, Served
      <4> QED
        BY <4>2, <4>3
    <3>2. request' = [request EXCEPT ![r] = next]
      BY <1>2 DEF CommitCampaign
    <3> QED
      BY <3>1, <3>2 DEF TypeOK
  <2>7. TypeOK'
    BY <1>2, <2>1, <2>2, <2>5, <2>6, ObserveTyping
    DEF TypeOK, CommitCampaign, budget, history
  <2>8. \A v \in Requests : workflow[v].campaign \in Campaigns => workflow'[v].campaign \in Campaigns
    <3>1. CASE workflow' = [workflow EXCEPT ![w] = new]
      BY <3>1, <2>1 DEF TypeOK
    <3>2. CASE workflow' = [workflow EXCEPT ![w].status = CommandedRun(request[r].action)]
      BY <3>2 DEF TypeOK, Run
    <3> QED
      BY <1>2, <3>1, <3>2 DEF CommitCampaign
  <2>9. workflow'[w].campaign \in Campaigns
    BY <1>2, <2>1 DEF TypeOK, CommitCampaign, Run, Newest, ActiveRuns, RunsOwn
  <2>10. RunsOwn'
    BY <1>2, <2>8, <2>9 DEF TypeOK, CommitCampaign, RunsOwn, Created, Run
  <2>11. RequestsOwn'
    BY <1>2, <2>1, <2>8, <2>9 DEF TypeOK, CommitCampaign, RequestsOwn, Served, NoRequest
  <2>12. JobsOwn'
    BY <1>2, <2>8 DEF TypeOK, CommitCampaign, JobsOwn, Job
  <2> QED
    BY <2>7, <2>10, <2>11, <2>12
<1>3. ASSUME RejectDuplicate(r)
      PROVE  Typing'
  <2>1. request' \in [Requests -> Request]
    BY <1>3 DEF TypeOK, RejectDuplicate, Request, NoRequest, Served
  <2>2. TypeOK'
    BY <1>3, <2>1, ObserveTyping DEF TypeOK, RejectDuplicate, dbVars, budget, history
  <2> QED
    BY <1>3, <2>2
    DEF TypeOK, RequestsOwn, RunsOwn, JobsOwn, RejectDuplicate, Created, dbVars, Served, NoRequest
<1>4. ASSUME NEW w \in Requests, NEW a \in Actions, NEW k \in Keys, ReadWorkflow(r, w, a, k)
      PROVE  Typing'
  <2>1. workflow[w].campaign \in Campaigns
    BY <1>4 DEF ReadWorkflow, RunsOwn
  <2>2. /\ campaign[workflow[w].campaign].status \in CampaignStatus
        /\ workflow[w].task \in Requests \cup {None}
    BY <2>1 DEF TypeOK, CampaignRow, Run
  <2>3. request' \in [Requests -> Request]
    BY <1>4, <2>1, <2>2 DEF TypeOK, ReadWorkflow, Request, NoRequest
  <2>4. TypeOK'
    BY <1>4, <2>3, ObserveTyping DEF TypeOK, ReadWorkflow, dbVars, budget, history
  <2> QED
    BY <1>4, <2>1, <2>4
    DEF TypeOK, RequestsOwn, RunsOwn, JobsOwn, ReadWorkflow, Created, dbVars, NoRequest
<1>5. ASSUME CommitWorkflow(r)
      PROVE  Typing'
  <2>1. request[r].run \in Requests /\ workflow[request[r].run].campaign \in Campaigns
    BY <1>5 DEF CommitWorkflow, RequestsOwn
  <2>2. request[r].campaign \in Campaigns /\ request[r].key \in Keys
    BY <1>5 DEF CommitWorkflow, RequestsOwn
  <2>3. campaign' \in [Campaigns -> CampaignRow]
    <3> DEFINE s == IF CommandedStatus(request[r].action) = request[r].seen
                    THEN campaign[request[r].campaign].status
                    ELSE CommandedStatus(request[r].action)
    <3>1. s \in CampaignStatus
      BY <2>2, CommandsTyped DEF TypeOK, CampaignRow
    <3>2. campaign' = [campaign EXCEPT ![request[r].campaign].status = s]
      BY <1>5, <2>2 DEF TypeOK, CommitWorkflow
    <3> QED
      BY <3>1, <3>2, StatusTyped DEF TypeOK
  <2>4. workflow' \in [Requests -> Run]
    BY <1>5, RunStatusTyped, CommandsTyped DEF TypeOK, CommitWorkflow
  <2>5. request' \in [Requests -> Request]
    <3> DEFINE pc == IF Dispatches(request[r].action) THEN "dispatch" ELSE "revoke"
    <3>1. request' = [request EXCEPT ![r].pc = pc]
      BY <1>5 DEF CommitWorkflow
    <3> QED
      BY <3>1, RequestPcTyped DEF TypeOK
  <2>6. TypeOK'
    BY <1>5, <2>2, <2>3, <2>4, <2>5, ObserveTyping DEF TypeOK, CommitWorkflow, budget, history
  <2>7. \A v \in Requests : workflow'[v].campaign = workflow[v].campaign
    BY <1>5 DEF TypeOK, CommitWorkflow, Run
  <2>8. RunsOwn'
    BY <1>5, <2>1, <2>7 DEF TypeOK, CommitWorkflow, RunsOwn, Created, Run
  <2> QED
    BY <1>5, <2>1, <2>2, <2>6, <2>7, <2>8
    DEF TypeOK, CommitWorkflow, RequestsOwn, JobsOwn, Job
<1>6. ASSUME Dispatch(r)
      PROVE  Typing'
  <2>1. /\ request[r].campaign \in Campaigns
        /\ request[r].run \in Requests
        /\ workflow[request[r].run].campaign \in Campaigns
    BY <1>6 DEF Dispatch, RequestsOwn
  <2>2. job' \in [Requests -> Job]
    BY <1>6, <2>1 DEF TypeOK, Dispatch, Job, NoJob
  <2>3. request' \in [Requests -> Request]
    BY <1>6, RequestPcTyped DEF TypeOK, Dispatch
  <2>4. TypeOK'
    BY <1>6, <2>2, <2>3, ObserveTyping DEF TypeOK, Dispatch, dbVars, budget, history
  <2>5. JobsOwn'
    BY <1>6, <2>1 DEF TypeOK, Dispatch, JobsOwn, NoJob, dbVars, Alive, Working
  <2> QED
    BY <1>6, <2>1, <2>4, <2>5 DEF TypeOK, Dispatch, RequestsOwn, RunsOwn, Created, dbVars
<1>7. ASSUME StoreTaskId(r)
      PROVE  Typing'
  <2>1. workflow' \in [Requests -> Run]
    BY <1>7, TaskTyped DEF TypeOK, StoreTaskId
  <2>2. request' \in [Requests -> Request]
    BY <1>7 DEF TypeOK, StoreTaskId, Request, Served, NoRequest
  <2>3. TypeOK'
    BY <1>7, <2>1, <2>2, ObserveTyping DEF TypeOK, StoreTaskId, budget, history
  <2>4. \A v \in Requests : /\ workflow'[v].campaign = workflow[v].campaign
                           /\ workflow'[v].status = workflow[v].status
    BY <1>7 DEF TypeOK, StoreTaskId, Run
  <2> QED
    BY <1>7, <2>3, <2>4
    DEF TypeOK, StoreTaskId, RequestsOwn, RunsOwn, JobsOwn, Created, Job, Served, NoRequest
<1>8. ASSUME Revoke(r)
      PROVE  Typing'
  <2>1. job' \in [Requests -> Job]
    BY <1>8 DEF TypeOK, Revoke, Job, Killed, NoJob
  <2>2. request' \in [Requests -> Request]
    BY <1>8 DEF TypeOK, Revoke, Request, Served, NoRequest
  <2>3. TypeOK'
    BY <1>8, <2>1, <2>2, ObserveTyping DEF TypeOK, Revoke, dbVars, budget, history
  <2>4. JobsOwn'
    BY <1>8 DEF TypeOK, Revoke, JobsOwn, Killed, NoJob, dbVars, Alive, Working
  <2> QED
    BY <1>8, <2>3, <2>4
    DEF TypeOK, Revoke, RequestsOwn, RunsOwn, Created, dbVars, Served, NoRequest
<1>9. ASSUME NEW c \in Campaigns, StartLegacy(r, c)
      PROVE  Typing'
  <2>1. job' \in [Requests -> Job]
    BY <1>9 DEF TypeOK, StartLegacy, Job, NoJob
  <2>2. request' \in [Requests -> Request]
    BY <1>9 DEF TypeOK, StartLegacy, Request, NoRequest
  <2>3. TypeOK'
    BY <1>9, <2>1, <2>2, ObserveTyping DEF TypeOK, StartLegacy, dbVars, budget, history
  <2>4. JobsOwn'
    BY <1>9 DEF TypeOK, StartLegacy, JobsOwn, NoJob, dbVars, Alive, Working
  <2> QED
    BY <1>9, <2>3, <2>4 DEF TypeOK, StartLegacy, RequestsOwn, RunsOwn, Created, dbVars, NoRequest
<1>10. ASSUME CrashRequest(r)
       PROVE  Typing'
  <2>1. request' \in [Requests -> Request]
    BY <1>10 DEF TypeOK, CrashRequest, Request, NoRequest, Served
  <2>2. TypeOK'
    BY <1>10, <2>1, ObserveTyping DEF TypeOK, CrashRequest, dbVars, history
  <2> QED
    BY <1>10, <2>2
    DEF TypeOK, RequestsOwn, RunsOwn, JobsOwn, CrashRequest, Created, dbVars, Served, NoRequest
<1> QED
  BY <1>1, <1>2, <1>3, <1>4, <1>5, <1>6, <1>7, <1>8, <1>9, <1>10 DEF RequestStep

\* A step of a task that leaves the tables of the commands alone.
LEMMA OwnersKept ==
  ASSUME Typing, UNCHANGED <<workflow, request>>
  PROVE  RequestsOwn' /\ RunsOwn'
  BY DEF Typing, RequestsOwn, RunsOwn, Created

\* Such a step preserves the types as soon as it preserves those of the job.
LEMMA JobStepTyping ==
  ASSUME Typing, Observe, UNCHANGED <<workflow, request, blacklist, audit, windowOpen>>,
         JobsOwn', job' \in [Requests -> Job],
         campaign' \in [Campaigns -> CampaignRow], contacted' \subseteq Listings,
         faults' \in Nat, crashes' \in Nat,
         texts' \in [Listings -> Nat], accepted' \in [Campaigns -> Nat]
  PROVE  Typing'
<1>1. TypeOK'
  BY ObserveTyping DEF Typing, TypeOK
<1> QED
  BY <1>1, OwnersKept DEF Typing

LEMMA FaultTyped ==
  ASSUME faults \in Nat, NEW n \in Nat, Fault(n)
  PROVE  faults' \in Nat
  BY DEF Fault

LEMMA TextedTyped ==
  ASSUME Typing, NEW r \in Requests, job[r].pc = "sleep", NEW n \in Nat, Texted(r, n)
  PROVE  texts' \in [Listings -> Nat] /\ accepted' \in [Campaigns -> Nat]
<1>1. job[r].cur \in Listings /\ job[r].campaign \in Campaigns
  BY DEF Typing, JobsOwn, Alive, Working
<1> QED
  BY <1>1 DEF Typing, TypeOK, Texted

\* The Celery tasks.
LEMMA JobTyping ==
  ASSUME Typing, NEW r \in Requests, JobStep(r), Observe
  PROVE  Typing'
<1> USE DEF Typing
<1>0. job[r] \in Job
  BY DEF TypeOK
<1>1. ASSUME Defer(r)
      PROVE  Typing'
  <2>1. job' \in [Requests -> Job]
    <3>1. [job[r] EXCEPT !.orig = FALSE] \in Job
      BY <1>0 DEF Job
    <3>2. job' = [job EXCEPT ![r] = [job[r] EXCEPT !.orig = FALSE]]
      BY <1>1 DEF Defer, TypeOK
    <3> QED
      BY <3>1, <3>2 DEF TypeOK
  <2>2. JobsOwn'
    BY <1>1 DEF TypeOK, Defer, JobsOwn, Job, dbVars
  <2> QED
    BY <1>1, <2>1, <2>2, JobStepTyping DEF TypeOK, Defer, dbVars, budget, history
<1>2. ASSUME Refuse(r)
      PROVE  Typing'
  <2>1. job' \in [Requests -> Job]
    BY <1>2 DEF TypeOK, Refuse, Job, Ended, NoJob
  <2>2. JobsOwn'
    BY <1>2 DEF TypeOK, Refuse, JobsOwn, Ended, NoJob, dbVars, Alive, Working
  <2> QED
    BY <1>2, <2>1, <2>2, JobStepTyping DEF TypeOK, Refuse, dbVars, budget, history
<1>3. ASSUME NEW batch \in SUBSET Listings, NEW q \in 0..SimQuota, Begin(r, batch, q)
      PROVE  Typing'
  <2> DEFINE more == Cardinality(Eligible(job[r].campaign)) > BatchSize
             new == [job[r] EXCEPT !.pc = "loop", !.batch = batch, !.cur = None,
                        !.prev = campaign[job[r].campaign].sent, !.sent = 0, !.quota = q,
                        !.more = more, !.why = "none"]
  <2>1. more \in BOOLEAN
    OBVIOUS
  <2>2. campaign[job[r].campaign].sent \in Nat
    BY <1>3 DEF TypeOK, CampaignRow, JobsOwn, Alive, Begin
  <2>3. job[r] \in Job /\ q \in Nat
    BY DEF TypeOK
  <2> HIDE DEF more
  <2>4. new \in Job
    BY <2>1, <2>2, <2>3 DEF Job, Working
  <2>5. job' = [job EXCEPT ![r] = new]
    BY <1>3 DEF Begin, more
  <2>6. job' \in [Requests -> Job]
    BY <2>4, <2>5 DEF TypeOK
  <2>7. campaign' \in [Campaigns -> CampaignRow]
    BY <1>3, StatusTyped DEF TypeOK, Begin, CampaignStatus
  <2>8. workflow' \in [Requests -> Run]
    BY <1>3, RunStatusTyped DEF TypeOK, Begin, CampaignStatus
  <2>9. TypeOK'
    BY <1>3, <2>6, <2>7, <2>8, ObserveTyping DEF TypeOK, Begin, budget, history
  <2> QED
    BY <1>3, <2>9
    DEF TypeOK, RequestsOwn, RunsOwn, JobsOwn, Begin, Alive, Working, Created, Run
<1>4. ASSUME Interrupt(r)
      PROVE  Typing'
  <2>1. Interruption(r) \in {"none"} \cup Stopped
    BY DEF Interruption
  <2>2. [job[r] EXCEPT !.pc = "finish", !.why = Interruption(r)] \in Job
    BY <1>0, <2>1 DEF Job, Working
  <2>3. job' = [job EXCEPT ![r] = [job[r] EXCEPT !.pc = "finish", !.why = Interruption(r)]]
    BY <1>4 DEF Interrupt, TypeOK
  <2>4. JobsOwn'
    BY <1>4, <2>3 DEF TypeOK, Interrupt, JobsOwn, Job, dbVars, Alive, Working
  <2> QED
    BY <1>4, <2>2, <2>3, <2>4, JobStepTyping DEF TypeOK, Interrupt, dbVars, budget, history
<1>5. ASSUME NEW l \in Listings, Pick(r, l)
      PROVE  Typing'
  <2> DEFINE new == [job[r] EXCEPT !.pc = "screen", !.cur = l, !.batch = @ \ {l}]
  <2>1. new \in Job
    BY <1>0 DEF Job, Working
  <2>2. job' = [job EXCEPT ![r] = new]
    BY <1>5 DEF Pick, TypeOK
  <2>3. JobsOwn'
    BY <1>5, <2>2 DEF TypeOK, Pick, JobsOwn, Job, dbVars, Alive, Working
  <2> QED
    BY <1>5, <2>1, <2>2, <2>3, JobStepTyping DEF TypeOK, Pick, dbVars, budget, history
<1>6. ASSUME Screen(r)
      PROVE  Typing'
  <2>1. [job[r] EXCEPT !.pc = "finish", !.why = "quota"] \in Job
    BY <1>0 DEF Job, Working
  <2>2. [job[r] EXCEPT !.pc = "loop"] \in Job /\ [job[r] EXCEPT !.pc = "sleep"] \in Job
    BY <1>0 DEF Job, Working
  <2>3. job' \in [Requests -> Job]
    BY <1>6, <2>1, <2>2 DEF TypeOK, Screen
  <2>4. JobsOwn'
    BY <1>6 DEF TypeOK, Screen, JobsOwn, Job, dbVars, Alive, Working
  <2> QED
    BY <1>6, <2>3, <2>4, JobStepTyping DEF TypeOK, Screen, dbVars, budget, history
<1>7. ASSUME NEW lost \in 0..2, SendAccepted(r, lost)
      PROVE  Typing'
  <2> DEFINE new == [job[r] EXCEPT !.pc = "record", !.sent = @ + 1, !.quota = @ - 1]
  <2>1. job[r] \in Job /\ job[r].quota \in Nat /\ job[r].quota > 0 /\ job[r].sent \in Nat
    BY <1>7 DEF TypeOK, Job, JobsOwn, SendAccepted
  <2>2. job[r].quota - 1 \in Nat /\ job[r].sent + 1 \in Nat
    BY <2>1
  <2>3. new \in Job
    BY <2>1, <2>2 DEF Job, Working
  <2>4. job' = [job EXCEPT ![r] = new]
    BY <1>7 DEF SendAccepted, TypeOK
  <2>5. JobsOwn'
    BY <1>7, <2>4 DEF TypeOK, SendAccepted, JobsOwn, Job, dbVars, Alive, Working
  <2>6. texts' \in [Listings -> Nat] /\ accepted' \in [Campaigns -> Nat] /\ faults' \in Nat
    BY <1>7, TextedTyped, FaultTyped DEF TypeOK, SendAccepted
  <2> QED
    BY <1>7, <2>3, <2>4, <2>5, <2>6, JobStepTyping DEF TypeOK, SendAccepted, dbVars
<1>8. ASSUME NEW lost \in 0..3, SendFailed(r, lost)
      PROVE  Typing'
  <2>1. job' \in [Requests -> Job]
    BY <1>8, JobPcTyped DEF TypeOK, SendFailed, Working
  <2>2. JobsOwn'
    BY <1>8 DEF TypeOK, SendFailed, JobsOwn, Job, dbVars, Alive, Working
  <2>3. texts' \in [Listings -> Nat] /\ accepted' \in [Campaigns -> Nat] /\ faults' \in Nat
    <3>1. job[r].pc = "sleep" /\ Texted(r, lost) /\ Fault(1 + lost) /\ 1 + lost \in Nat
      BY <1>8 DEF SendFailed
    <3> QED
      BY <3>1, TextedTyped, FaultTyped DEF TypeOK
  <2> QED
    BY <1>8, <2>1, <2>2, <2>3, JobStepTyping DEF TypeOK, SendFailed, dbVars
<1>9. ASSUME NEW lost \in 0..2, SendWithoutCredit(r, lost)
      PROVE  Typing'
  <2> DEFINE new == [job[r] EXCEPT !.pc = "finish", !.why = "credit"]
  <2>1. new \in Job
    BY <1>0 DEF Job, Working
  <2>2. job' = [job EXCEPT ![r] = new]
    BY <1>9 DEF SendWithoutCredit, TypeOK
  <2>3. JobsOwn'
    BY <1>9, <2>2 DEF TypeOK, SendWithoutCredit, JobsOwn, Job, dbVars, Alive, Working
  <2>4. texts' \in [Listings -> Nat] /\ accepted' \in [Campaigns -> Nat] /\ faults' \in Nat
    <3>1. job[r].pc = "sleep" /\ Texted(r, lost) /\ Fault(1 + lost) /\ 1 + lost \in Nat
      BY <1>9 DEF SendWithoutCredit
    <3> QED
      BY <3>1, TextedTyped, FaultTyped DEF TypeOK
  <2> QED
    BY <1>9, <2>1, <2>2, <2>3, <2>4, JobStepTyping DEF TypeOK, SendWithoutCredit, dbVars
<1>10. ASSUME Record(r)
       PROVE  Typing'
  <2>1. job' \in [Requests -> Job]
    BY <1>10, JobPcTyped DEF TypeOK, Record, Working
  <2>2. JobsOwn'
    BY <1>10 DEF TypeOK, Record, JobsOwn, Job, Alive, Working
  <2>3. contacted' \subseteq Listings
    BY <1>10 DEF TypeOK, JobsOwn, Record
  <2> QED
    BY <1>10, <2>1, <2>2, <2>3, JobStepTyping DEF TypeOK, Record, budget, history
<1>11. ASSUME RecordFails(r)
       PROVE  Typing'
  <2>1. job' \in [Requests -> Job]
    BY <1>11, JobPcTyped DEF TypeOK, RecordFails, Working
  <2>2. JobsOwn'
    BY <1>11 DEF TypeOK, RecordFails, JobsOwn, Job, dbVars, Alive, Working
  <2> QED
    BY <1>11, <2>1, <2>2, JobStepTyping, FaultTyped DEF TypeOK, RecordFails, dbVars, history
<1>12. ASSUME Finish(r)
       PROVE  Typing'
  <2>1. job[r] \in Job /\ job[r].campaign \in Campaigns /\ Total(r) \in Nat
    BY <1>12 DEF TypeOK, JobsOwn, Alive, Working, Finish, Job, Total
  <2>2. FinalStatus(r) \in CampaignStatus
    BY DEF FinalStatus, CampaignStatus, Stopped
  <2>3. [status |-> FinalStatus(r), sent |-> Total(r)] \in CampaignRow
    BY <2>1, <2>2 DEF CampaignRow
  <2>4. campaign' \in [Campaigns -> CampaignRow]
    BY <1>12, <2>3 DEF TypeOK, Finish
  <2>5. workflow' \in [Requests -> Run]
    BY <1>12, <2>2, RunStatusTyped DEF TypeOK, Finish
  <2>6. [job[r] EXCEPT !.pc = "requeue"] \in Job /\ Ended \in Job
    BY <2>1 DEF Job, Ended, NoJob, Working
  <2>7. job' \in [Requests -> Job]
    BY <1>12, <2>6 DEF TypeOK, Finish
  <2>8. TypeOK'
    BY <1>12, <2>4, <2>5, <2>7, ObserveTyping DEF TypeOK, Finish, budget, history
  <2>9. \A v \in Requests : workflow'[v].campaign = workflow[v].campaign
    BY <1>12 DEF TypeOK, Finish, Run
  <2>10. JobsOwn'
    BY <1>12, <2>9 DEF TypeOK, Finish, JobsOwn, Job, Ended, NoJob, Alive, Working
  <2>11. RunsOwn'
    <3>1. job[r].run # None => workflow[job[r].run].campaign \in Campaigns
      BY DEF JobsOwn
    <3>2. \A v \in Requests : v # job[r].run => workflow'[v] = workflow[v]
      BY <1>12 DEF TypeOK, Finish
    <3> QED
      BY <2>9, <3>1, <3>2, <1>12 DEF Finish, RunsOwn, Created
  <2> QED
    BY <1>12, <2>8, <2>9, <2>10, <2>11 DEF TypeOK, Finish, RequestsOwn
<1>13. ASSUME Requeue(r)
       PROVE  Typing'
  <2> DEFINE new == [NoJob EXCEPT !.pc = "queued", !.campaign = job[r].campaign,
                        !.run = job[r].run]
  <2>1. new \in Job
    BY DEF TypeOK, Job, NoJob, Working
  <2>2. job' = [job EXCEPT ![r] = new]
    BY <1>13 DEF Requeue
  <2>3. JobsOwn'
    BY <1>13, <2>2 DEF TypeOK, Requeue, JobsOwn, Job, NoJob, dbVars, Alive, Working
  <2> QED
    BY <1>13, <2>1, <2>2, <2>3, JobStepTyping DEF TypeOK, Requeue, dbVars, budget, history
<1>14. ASSUME JobDies(r)
       PROVE  Typing'
  <2>1. Ended \in Job
    BY DEF Job, Ended, NoJob
  <2>2. JobsOwn'
    BY <1>14 DEF TypeOK, JobDies, JobsOwn, Ended, NoJob, dbVars, Alive, Working
  <2> QED
    BY <1>14, <2>1, <2>2, JobStepTyping DEF TypeOK, JobDies, dbVars, history
<1> QED
  BY <1>1, <1>2, <1>3, <1>4, <1>5, <1>6, <1>7, <1>8, <1>9, <1>10, <1>11, <1>12, <1>13, <1>14
  DEF JobStep

\* STOP messages and the clock.
LEMMA EnvironmentTyping ==
  ASSUME Typing, Environment, Observe
  PROVE  Typing'
<1>1. blacklist' \subseteq Phones /\ windowOpen' \in BOOLEAN
  BY DEF Typing, TypeOK, Environment, AddToBlacklist, CloseWindow, OpenWindow, dbVars
<1>2. UNCHANGED <<campaign, workflow, contacted, audit, request, job, budget, history>>
  BY DEF Environment, AddToBlacklist, CloseWindow, OpenWindow, dbVars
<1>3. TypeOK'
  BY <1>1, <1>2, ObserveTyping DEF Typing, TypeOK, budget, history
<1> QED
  BY <1>2, <1>3, OwnersKept DEF Typing, JobsOwn

LEMMA TypingStep ==
  ASSUME Typing, [Next]_vars
  PROVE  Typing'
<1>1. CASE Next
  BY <1>1, RequestTyping, JobTyping, EnvironmentTyping DEF Next
<1>2. CASE UNCHANGED vars
  BY <1>2 DEF vars, dbVars, budget, history, Typing, TypeOK, RequestsOwn, RunsOwn, JobsOwn,
              Created
<1> QED
  BY <1>1, <1>2

\* Every variable keeps its type (campaign_control.py, workflow_control.py,
\* campaign_runner.py): no step writes a status, a counter or a reference that
\* the tables cannot hold, the quota of the SIMs never goes below zero, and a
\* task never reads a campaign, a run or a listing it does not hold.
THEOREM Types == Spec => []TypeOK
<1>1. Spec => []Typing
  BY InitTyping, TypingStep, PTL DEF Spec
<1>2. Typing => TypeOK
  BY DEF Typing
<1> QED
  BY <1>1, <1>2, PTL

-----------------------------------------------------------------------------
(* What one step can do to the task of request q.                          *)

Moves(q) ==
    /\ job'[q].pc = "screen" /\ job[q].pc # "screen" => Interruption(q) = "none"
    /\ job'[q].pc = "sleep" =>
          /\ job'[q].cur = job[q].cur
          /\ \/ job[q].pc = "sleep"
             \/ job[q].pc = "screen" /\ PhoneOf[job[q].cur] \notin blacklist'
    /\ job'[q].run \in {job[q].run, None} \/ request[q].pc = "dispatch"
    /\ request'[q].pc \in Waiting =>
          /\ request[q].pc \in Waiting
          /\ job[q].pc = "none" => job'[q].pc = "none"
    /\ blacklist \subseteq blacklist'

LEMMA RequestMoves ==
  ASSUME Typing, NEW r \in Requests, RequestStep(r)
  PROVE  \A q \in Requests : Moves(q)
<1>1. ASSUME NEW c \in Campaigns, NEW a \in Actions, NEW k \in Keys, ReadCampaign(r, c, a, k)
      PROVE  \A q \in Requests : Moves(q)
  BY <1>1 DEF TypeOK, dbVars, ReadCampaign, NoRequest, Moves, Typing, Job, Waiting
<1>2. ASSUME NEW w \in Requests, CommitCampaign(r, w)
      PROVE  \A q \in Requests : Moves(q)
  BY <1>2 DEF TypeOK, dbVars, CommitCampaign, Served, NoRequest, Moves, Typing, Job, Waiting
<1>3. ASSUME RejectDuplicate(r)
      PROVE  \A q \in Requests : Moves(q)
  BY <1>3 DEF TypeOK, dbVars, RejectDuplicate, Served, NoRequest, Moves, Typing, Job, Waiting
<1>4. ASSUME NEW w \in Requests, NEW a \in Actions, NEW k \in Keys, ReadWorkflow(r, w, a, k)
      PROVE  \A q \in Requests : Moves(q)
  BY <1>4 DEF TypeOK, dbVars, ReadWorkflow, NoRequest, Moves, Typing, Job, Waiting
<1>5. ASSUME CommitWorkflow(r)
      PROVE  \A q \in Requests : Moves(q)
  BY <1>5 DEF TypeOK, dbVars, CommitWorkflow, Moves, Typing, Job, Waiting
<1>6. ASSUME Dispatch(r)
      PROVE  \A q \in Requests : Moves(q)
  BY <1>6 DEF TypeOK, dbVars, Dispatch, NoJob, Moves, Typing, Job, Waiting
<1>7. ASSUME StoreTaskId(r)
      PROVE  \A q \in Requests : Moves(q)
  BY <1>7 DEF TypeOK, dbVars, StoreTaskId, Served, NoRequest, Moves, Typing, Job, Waiting
<1>8. ASSUME Revoke(r)
      PROVE  \A q \in Requests : Moves(q)
  BY <1>8 DEF TypeOK, dbVars, Revoke, Served, NoRequest, Killed, NoJob, Working, Moves, Typing, Job, Waiting
<1>9. ASSUME NEW c \in Campaigns, StartLegacy(r, c)
      PROVE  \A q \in Requests : Moves(q)
  BY <1>9 DEF TypeOK, dbVars, StartLegacy, NoJob, NoRequest, Moves, Typing, Job, Waiting
<1>10. ASSUME CrashRequest(r)
       PROVE  \A q \in Requests : Moves(q)
  BY <1>10 DEF TypeOK, dbVars, CrashRequest, Served, NoRequest, Moves, Typing, Job, Waiting
<1> QED
  BY <1>1, <1>2, <1>3, <1>4, <1>5, <1>6, <1>7, <1>8, <1>9, <1>10
  DEF RequestStep

LEMMA JobMoves ==
  ASSUME Typing, NEW r \in Requests, JobStep(r)
  PROVE  \A q \in Requests : Moves(q)
<1>1. ASSUME Defer(r)
      PROVE  \A q \in Requests : Moves(q)
  BY <1>1 DEF TypeOK, dbVars, Defer, Moves, Typing, Job, Waiting
<1>2. ASSUME Refuse(r)
      PROVE  \A q \in Requests : Moves(q)
  BY <1>2 DEF TypeOK, dbVars, Refuse, Ended, NoJob, Moves, Typing, Job, Waiting
<1>3. ASSUME NEW batch \in SUBSET Listings, NEW quota \in 0..SimQuota, Begin(r, batch, quota)
      PROVE  \A q \in Requests : Moves(q)
  BY <1>3 DEF TypeOK, dbVars, Begin, Moves, Typing, Job, Waiting
<1>4. ASSUME Interrupt(r)
      PROVE  \A q \in Requests : Moves(q)
  BY <1>4 DEF TypeOK, dbVars, Interrupt, Moves, Typing, Job, Waiting
<1>5. ASSUME NEW l \in Listings, Pick(r, l)
      PROVE  \A q \in Requests : Moves(q)
  BY <1>5 DEF TypeOK, dbVars, Pick, Moves, Typing, Job, Waiting
<1>6. ASSUME Screen(r)
      PROVE  \A q \in Requests : Moves(q)
  BY <1>6 DEF TypeOK, dbVars, Screen, Moves, Typing, Job, Waiting
<1>7. ASSUME NEW lost \in 0..2, SendAccepted(r, lost)
      PROVE  \A q \in Requests : Moves(q)
  BY <1>7 DEF TypeOK, dbVars, SendAccepted, Moves, Typing, Job, Waiting
<1>8. ASSUME NEW lost \in 0..3, SendFailed(r, lost)
      PROVE  \A q \in Requests : Moves(q)
  BY <1>8 DEF TypeOK, dbVars, SendFailed, Moves, Typing, Job, Waiting
<1>9. ASSUME NEW lost \in 0..2, SendWithoutCredit(r, lost)
      PROVE  \A q \in Requests : Moves(q)
  BY <1>9 DEF TypeOK, dbVars, SendWithoutCredit, Moves, Typing, Job, Waiting
<1>10. ASSUME Record(r)
       PROVE  \A q \in Requests : Moves(q)
  BY <1>10 DEF TypeOK, dbVars, Record, Moves, Typing, Job, Waiting
<1>11. ASSUME RecordFails(r)
       PROVE  \A q \in Requests : Moves(q)
  BY <1>11 DEF TypeOK, dbVars, RecordFails, Moves, Typing, Job, Waiting
<1>12. ASSUME Finish(r)
       PROVE  \A q \in Requests : Moves(q)
  BY <1>12 DEF TypeOK, dbVars, Finish, Ended, NoJob, Moves, Typing, Job, Waiting
<1>13. ASSUME Requeue(r)
       PROVE  \A q \in Requests : Moves(q)
  BY <1>13 DEF TypeOK, dbVars, Requeue, NoJob, Moves, Typing, Job, Waiting
<1>14. ASSUME JobDies(r)
       PROVE  \A q \in Requests : Moves(q)
  BY <1>14 DEF TypeOK, dbVars, JobDies, Ended, NoJob, Working, Moves, Typing, Job, Waiting
<1> QED
  BY <1>1, <1>2, <1>3, <1>4, <1>5, <1>6, <1>7, <1>8, <1>9, <1>10, <1>11, <1>12,
     <1>13, <1>14
  DEF JobStep

LEMMA AllMoves ==
  ASSUME Typing, Next
  PROVE  \A q \in Requests : Moves(q)
<1>1. CASE Environment
  BY <1>1 DEF Environment, AddToBlacklist, CloseWindow, OpenWindow, dbVars, Moves
<1> QED
  BY <1>1, RequestMoves, JobMoves DEF Next

-----------------------------------------------------------------------------
(* Stop commands and opt-outs.                                             *)

\* What the invariants say of one step that is taken: the two histories.
LEMMA StoppingStep ==
  ASSUME Typing, Dispatched, Stopping, Typing', Next
  PROVE  Stopping'
<1> SUFFICES ASSUME NEW r \in Requests
             PROVE  /\ job'[r].run # None => overrun'[r] <= 1
                    /\ overrun'[r] > 0 =>
                          /\ job'[r].campaign \in Campaigns
                          /\ campaign'[job'[r].campaign].status \in Stopped
                          /\ job'[r].run # None => job'[r].pc \notin {"screen", "sleep"}
  BY DEF Stopping
<1>1. overrun[r] \in Nat /\ overrun'[r] \in Nat
  BY DEF Typing, TypeOK
<1>2. Moves(r)
  BY AllMoves
<1>3. /\ overrun'[r] > 0 => /\ job'[r].campaign # None
                            /\ campaign'[job'[r].campaign].status \in Stopped
      /\ Sends(r) => overrun'[r] <= overrun[r] + 1
      /\ ~Sends(r) => overrun'[r] <= overrun[r]
  BY <1>1 DEF Next, Observe
<1>4. job'[r].campaign \in Campaigns \cup {None}
  BY DEF Typing, TypeOK, Job
<1>5. job[r].run = None /\ job'[r].run # None => overrun[r] = 0
  <2>1. SUFFICES ASSUME job[r].run = None, job'[r].run # None
                 PROVE  overrun[r] = 0
    OBVIOUS
  <2>2. job[r].pc = "none"
    BY <1>2, <2>1 DEF Moves, Dispatched, Waiting
  <2>3. job[r].campaign = None
    BY <2>2 DEF Typing, JobsOwn, Alive, Working
  <2> QED
    BY <1>1, <2>3, SmsCampaignAssumption DEF Stopping
<1>6. job'[r].run # None /\ job[r].run # None => job'[r].run = job[r].run
  BY <1>2, SmsCampaignAssumption DEF Moves, Dispatched, Waiting, Typing, JobsOwn, Alive, Working
<1>7. CASE Sends(r)
  <2>1. job[r].pc = "sleep" /\ job'[r].pc \in {"record", "loop", "finish"}
    BY <1>7 DEF Sends
  <2>2. job[r].run # None => overrun[r] = 0
    BY <1>1, <2>1 DEF Stopping
  <2> QED
    BY <1>1, <1>3, <1>4, <1>5, <1>7, <2>1, <2>2
<1>8. CASE ~Sends(r)
  <2>1. job'[r].run # None => overrun'[r] <= 1
    BY <1>1, <1>3, <1>5, <1>8 DEF Stopping
  <2>2. ASSUME job'[r].run # None, overrun'[r] > 0
        PROVE  job'[r].pc \notin {"screen", "sleep"}
    <3>1. overrun[r] > 0
      BY <1>1, <1>3, <1>8, <2>2
    <3>2. job[r].run # None
      BY <1>1, <1>5, <2>2, <3>1
    <3>3. /\ campaign[job[r].campaign].status \in Stopped
          /\ job[r].pc \notin {"screen", "sleep"}
      BY <3>1, <3>2 DEF Stopping
    <3>4. Interruption(r) # "none"
      BY <3>2, <3>3 DEF Interruption, Stopped
    <3> QED
      BY <1>2, <3>3, <3>4 DEF Moves
  <2> QED
    BY <1>3, <1>4, <2>1, <2>2
<1> QED
  BY <1>7, <1>8

LEMMA OptedOutStep ==
  ASSUME Typing, OptedOut, Typing', Next
  PROVE  OptedOut'
<1> SUFFICES ASSUME NEW r \in Requests, NEW p \in Phones
             PROVE  /\ late'[r][p] <= 1
                    /\ late'[r][p] > 0 =>
                          /\ p \in blacklist'
                          /\ ~(job'[r].pc = "sleep" /\ PhoneOf[job'[r].cur] = p)
  BY DEF OptedOut
<1> DEFINE Hits == Sends(r) /\ PhoneOf[job[r].cur] = p /\ p \in blacklist
<1>1. late[r][p] \in Nat /\ late'[r][p] \in Nat
  BY DEF Typing, TypeOK
<1>2. Moves(r)
  BY AllMoves
<1>3. late'[r][p] = 0 \/ late'[r][p] = late[r][p] + (IF Hits THEN 1 ELSE 0)
  BY DEF Next, Observe
<1>4. CASE Hits
  <2>1. job[r].pc = "sleep" /\ job'[r].pc # "sleep" /\ p \in blacklist'
    BY <1>2, <1>4 DEF Sends, Moves
  <2>2. late[r][p] = 0
    BY <1>1, <1>4, <2>1 DEF OptedOut
  <2> QED
    BY <1>1, <1>3, <1>4, <2>1, <2>2
<1>5. CASE ~Hits
  <2>1. late'[r][p] <= late[r][p]
    BY <1>1, <1>3, <1>5
  <2>2. ASSUME late'[r][p] > 0
        PROVE  p \in blacklist' /\ ~(job'[r].pc = "sleep" /\ PhoneOf[job'[r].cur] = p)
    <3>1. p \in blacklist /\ ~(job[r].pc = "sleep" /\ PhoneOf[job[r].cur] = p)
      BY <1>1, <2>1, <2>2 DEF OptedOut
    <3> QED
      BY <1>2, <3>1 DEF Moves
  <2> QED
    BY <1>1, <2>1, <2>2 DEF OptedOut
<1> QED
  BY <1>4, <1>5

-----------------------------------------------------------------------------
(* The counter of sent messages.                                           *)

\* A step that neither begins nor finishes a batch, nor sends.
Quiet ==
    /\ accepted' = accepted
    /\ \A c \in Campaigns : campaign'[c].sent = campaign[c].sent
    /\ \A q \in Requests : job'[q].pc \in Working =>
          /\ job[q].pc \in Working
          /\ job'[q].campaign = job[q].campaign
          /\ job'[q].prev = job[q].prev
          /\ job'[q].sent = job[q].sent

LEMMA QuietBacked ==
  ASSUME Typing, Backed, Quiet
  PROVE  Backed'
  BY DEF Quiet, Backed, SentIsBacked, Total

LEMMA RequestQuiet ==
  ASSUME Typing, NEW r \in Requests, RequestStep(r)
  PROVE  Quiet
<1>1. ASSUME NEW c \in Campaigns, NEW a \in Actions, NEW k \in Keys, ReadCampaign(r, c, a, k)
      PROVE  Quiet
  BY <1>1 DEF dbVars, history, ReadCampaign, Quiet, Typing, TypeOK, Job, Working
<1>2. ASSUME NEW w \in Requests, CommitCampaign(r, w)
      PROVE  Quiet
  BY <1>2 DEF dbVars, history, CommitCampaign, CampaignRow, Quiet, Typing, TypeOK, Job, Working
<1>3. ASSUME RejectDuplicate(r)
      PROVE  Quiet
  BY <1>3 DEF dbVars, history, RejectDuplicate, Quiet, Typing, TypeOK, Job, Working
<1>4. ASSUME NEW w \in Requests, NEW a \in Actions, NEW k \in Keys, ReadWorkflow(r, w, a, k)
      PROVE  Quiet
  BY <1>4 DEF dbVars, history, ReadWorkflow, Quiet, Typing, TypeOK, Job, Working
<1>5. ASSUME CommitWorkflow(r)
      PROVE  Quiet
  BY <1>5 DEF dbVars, history, CommitWorkflow, CampaignRow, Quiet, Typing, TypeOK, Job, Working
<1>6. ASSUME Dispatch(r)
      PROVE  Quiet
  BY <1>6 DEF dbVars, history, Dispatch, NoJob, Quiet, Typing, TypeOK, Job, Working
<1>7. ASSUME StoreTaskId(r)
      PROVE  Quiet
  BY <1>7 DEF dbVars, history, StoreTaskId, Quiet, Typing, TypeOK, Job, Working
<1>8. ASSUME Revoke(r)
      PROVE  Quiet
  BY <1>8 DEF dbVars, history, Revoke, Killed, NoJob, Quiet, Typing, TypeOK, Job, Working
<1>9. ASSUME NEW c \in Campaigns, StartLegacy(r, c)
      PROVE  Quiet
  BY <1>9 DEF dbVars, history, StartLegacy, NoJob, Quiet, Typing, TypeOK, Job, Working
<1>10. ASSUME CrashRequest(r)
       PROVE  Quiet
  BY <1>10 DEF dbVars, history, CrashRequest, Quiet, Typing, TypeOK, Job, Working
<1> QED
  BY <1>1, <1>2, <1>3, <1>4, <1>5, <1>6, <1>7, <1>8, <1>9, <1>10
  DEF RequestStep

\* A message counted by a batch is one more that the provider accepted.
LEMMA SendBacked ==
  ASSUME Typing, Backed, NEW r \in Requests, job[r].pc = "sleep",
         NEW n \in Nat, NEW s \in Nat, s <= n, Texted(r, n),
         campaign' = campaign, job'[r].campaign = job[r].campaign,
         Total(r)' = Total(r) + s, \A q \in Requests \ {r} : job'[q] = job[q]
  PROVE  Backed'
<1>1. job[r].campaign \in Campaigns /\ job[r].pc \in Working
  BY DEF Typing, JobsOwn, Alive, Working
<1>2. accepted' = [accepted EXCEPT ![job[r].campaign] = @ + n]
  BY DEF Texted
<1>3. \A c \in Campaigns : /\ accepted[c] \in Nat /\ accepted'[c] \in Nat
                           /\ campaign[c].sent \in Nat
                           /\ accepted[c] <= accepted'[c]
  BY <1>1, <1>2 DEF Typing, TypeOK, CampaignRow
<1>4. \A q \in Requests : Total(q) \in Nat
  BY DEF Typing, TypeOK, Job, Total
<1>5. SentIsBacked'
  <2> SUFFICES ASSUME NEW c \in Campaigns
               PROVE  campaign[c].sent <= accepted'[c]
    BY DEF SentIsBacked
  <2>1. campaign[c].sent <= accepted[c]
    BY DEF Backed, SentIsBacked
  <2> QED
    BY <1>3, <2>1
<1>6. Total(r)' <= accepted'[job'[r].campaign]
  BY <1>1, <1>2, <1>3, <1>4 DEF Backed, Typing, TypeOK
<1>7. ASSUME NEW q \in Requests \ {r}, job'[q].pc \in Working
      PROVE  Total(q)' <= accepted'[job'[q].campaign]
  <2>1. job'[q] = job[q] /\ Total(q)' = Total(q)
    BY <1>7 DEF Total
  <2>2. job[q].campaign \in Campaigns
    BY <1>7, <2>1 DEF Typing, JobsOwn, Alive
  <2>3. Total(q) <= accepted[job[q].campaign]
    BY <1>7, <2>1 DEF Backed
  <2> QED
    <3>1. /\ accepted[job[q].campaign] \in Nat /\ accepted'[job[q].campaign] \in Nat
          /\ accepted[job[q].campaign] <= accepted'[job[q].campaign]
      BY <1>3, <2>2
    <3>2. Total(q) <= accepted'[job[q].campaign]
      BY <1>4, <2>3, <3>1
    <3> QED
      BY <2>1, <3>2
<1> QED
  BY <1>5, <1>6, <1>7 DEF Backed

LEMMA JobBacked ==
  ASSUME Typing, Backed, Typing', NEW r \in Requests, JobStep(r)
  PROVE  Backed'
<1>1. ASSUME Defer(r)
      PROVE  Backed'
  BY QuietBacked, <1>1 DEF dbVars, history, Defer, Quiet, Typing, TypeOK, Job, Working
<1>2. ASSUME Refuse(r)
      PROVE  Backed'
  BY QuietBacked, <1>2 DEF dbVars, history, Refuse, Ended, NoJob, Quiet, Typing, TypeOK, Job, Working
<1>3. ASSUME Interrupt(r)
      PROVE  Backed'
  BY QuietBacked, <1>3 DEF dbVars, history, Interrupt, Quiet, Typing, TypeOK, Job, Working
<1>4. ASSUME NEW l \in Listings, Pick(r, l)
      PROVE  Backed'
  BY QuietBacked, <1>4 DEF dbVars, history, Pick, Quiet, Typing, TypeOK, Job, Working
<1>5. ASSUME Screen(r)
      PROVE  Backed'
  BY QuietBacked, <1>5 DEF dbVars, history, Screen, Quiet, Typing, TypeOK, Job, Working
<1>6. ASSUME NEW lost \in 0..2, SendWithoutCredit(r, lost)
      PROVE  Backed'
  <2>1. /\ job[r].pc = "sleep" /\ Texted(r, lost)
        /\ campaign' = campaign
        /\ \A q \in Requests \ {r} : job'[q] = job[q]
    BY <1>6 DEF SendWithoutCredit, dbVars, Typing, TypeOK
  <2>2. /\ job'[r].campaign = job[r].campaign
        /\ job'[r].prev = job[r].prev /\ job'[r].sent = job[r].sent
    BY <1>6 DEF SendWithoutCredit, Typing, TypeOK, Job
  <2>3. Total(r)' = Total(r) + 0
    BY <2>2 DEF Total, Typing, TypeOK, Job
  <2> QED
    BY <2>1, <2>2, <2>3, SendBacked
<1>7. ASSUME Record(r)
      PROVE  Backed'
  BY QuietBacked, <1>7 DEF dbVars, history, Record, Quiet, Typing, TypeOK, Job, Working
<1>8. ASSUME RecordFails(r)
      PROVE  Backed'
  BY QuietBacked, <1>8 DEF dbVars, history, RecordFails, Quiet, Typing, TypeOK, Job, Working
<1>9. ASSUME Requeue(r)
      PROVE  Backed'
  BY QuietBacked, <1>9 DEF dbVars, history, Requeue, NoJob, Quiet, Typing, TypeOK, Job, Working
<1>10. ASSUME JobDies(r)
       PROVE  Backed'
  BY QuietBacked, <1>10 DEF dbVars, history, JobDies, Ended, NoJob, Quiet, Typing, TypeOK, Job, Working
<1>11. ASSUME NEW batch \in SUBSET Listings, NEW q \in 0..SimQuota, Begin(r, batch, q)
       PROVE  Backed'
  <2> DEFINE c == job[r].campaign
  <2>1. c \in Campaigns
    BY <1>11 DEF Begin, Typing, JobsOwn, Alive
  <2>2. job'[r].prev = campaign[c].sent /\ job'[r].sent = 0 /\ job'[r].campaign = c
    BY <1>11 DEF Begin, Typing, TypeOK, Job
  <2>3. Total(r)' = campaign[c].sent
    BY <2>1, <2>2 DEF Total, Typing, TypeOK, CampaignRow
  <2>4. /\ accepted' = accepted
        /\ \A d \in Campaigns : campaign'[d].sent = campaign[d].sent
        /\ \A v \in Requests \ {r} : job'[v] = job[v]
    BY <1>11 DEF Begin, history, Typing, TypeOK, CampaignRow
  <2>5. \A v \in Requests \ {r} : Total(v)' = Total(v)
    BY <2>4 DEF Total
  <2> QED
    BY <2>1, <2>2, <2>3, <2>4, <2>5 DEF Backed, SentIsBacked
<1>12. ASSUME NEW lost \in 0..2, SendAccepted(r, lost)
       PROVE  Backed'
  <2>1. /\ job[r].pc = "sleep" /\ Texted(r, 1 + lost)
        /\ campaign' = campaign
        /\ \A q \in Requests \ {r} : job'[q] = job[q]
    BY <1>12 DEF SendAccepted, dbVars, Typing, TypeOK
  <2>2. /\ job'[r].campaign = job[r].campaign
        /\ job'[r].prev = job[r].prev /\ job'[r].sent = job[r].sent + 1
    BY <1>12 DEF SendAccepted, Typing, TypeOK, Job
  <2>3. Total(r)' = Total(r) + 1
    BY <2>2 DEF Total, Typing, TypeOK, Job
  <2> QED
    BY <2>1, <2>2, <2>3, SendBacked
<1>13. ASSUME NEW lost \in 0..3, SendFailed(r, lost)
       PROVE  Backed'
  <2>1. /\ job[r].pc = "sleep" /\ Texted(r, lost)
        /\ campaign' = campaign
        /\ \A q \in Requests \ {r} : job'[q] = job[q]
    BY <1>13 DEF SendFailed, dbVars, Typing, TypeOK
  <2>2. /\ job'[r].campaign = job[r].campaign
        /\ job'[r].prev = job[r].prev /\ job'[r].sent = job[r].sent
    BY <1>13 DEF SendFailed, Typing, TypeOK, Job
  <2>3. Total(r)' = Total(r) + 0
    BY <2>2 DEF Total, Typing, TypeOK, Job
  <2> QED
    BY <2>1, <2>2, <2>3, SendBacked
<1>14. ASSUME Finish(r)
       PROVE  Backed'
  <2> DEFINE c == job[r].campaign
  <2>1. c \in Campaigns /\ job[r].pc \in Working
    BY <1>14 DEF Finish, Typing, JobsOwn, Alive, Working
  <2>2. accepted' = accepted
    BY <1>14 DEF Finish, history
  <2>3. \A d \in Campaigns : campaign'[d].sent = IF d = c THEN Total(r) ELSE campaign[d].sent
    BY <1>14, <2>1 DEF Finish, Typing, TypeOK, CampaignRow
  <2>4. \A q \in Requests : job'[q].pc \in Working =>
            /\ job[q].pc \in Working
            /\ job'[q].campaign = job[q].campaign
            /\ Total(q)' = Total(q)
    BY <1>14, <2>1 DEF Finish, Typing, TypeOK, Job, Ended, NoJob, Total, Working
  <2> QED
    BY <2>1, <2>2, <2>3, <2>4 DEF Backed, SentIsBacked
<1> QED
  BY <1>1, <1>2, <1>3, <1>4, <1>5, <1>6, <1>7, <1>8, <1>9, <1>10, <1>11, <1>12,
     <1>13, <1>14
  DEF JobStep

LEMMA BackedStep ==
  ASSUME Typing, Backed, Typing', Next
  PROVE  Backed'
<1>1. CASE Environment
  BY <1>1, QuietBacked
  DEF Environment, AddToBlacklist, CloseWindow, OpenWindow, dbVars, history, Quiet
<1>2. ASSUME NEW r \in Requests, RequestStep(r)
      PROVE  Backed'
  BY <1>2, RequestQuiet, QuietBacked
<1> QED
  BY <1>1, <1>2, JobBacked DEF Next

-----------------------------------------------------------------------------
(* The inductive invariant and what follows from it.                       *)

LEMMA InitInvariant == Init => IInv
<1> SUFFICES ASSUME Init PROVE IInv
  OBVIOUS
<1>1. Dispatched /\ Stopping
  BY DEF Init, Dispatched, NoJob, Stopping
<1>2. Backed
  BY DEF Init, Backed, SentIsBacked, NoJob, Working
<1>3. OptedOut
  BY DEF Init, OptedOut
<1> QED
  BY <1>1, <1>2, <1>3, InitTyping DEF IInv

LEMMA InvariantStep ==
  ASSUME IInv, [Next]_vars
  PROVE  IInv'
<1>1. CASE Next
  <2>1. Typing'
    BY <1>1, TypingStep DEF IInv
  <2>2. Dispatched'
    BY <1>1, AllMoves DEF IInv, Dispatched, Moves
  <2> QED
    BY <1>1, <2>1, <2>2, BackedStep, StoppingStep, OptedOutStep DEF IInv
<1>2. CASE UNCHANGED vars
  <2>1. Typing'
    BY TypingStep DEF IInv
  <2> QED
    BY <1>2, <2>1
    DEF vars, dbVars, history, IInv, Dispatched, Backed, SentIsBacked, Total, Stopping, OptedOut
<1> QED
  BY <1>1, <1>2

THEOREM Invariance == Spec => []IInv
  BY InitInvariant, InvariantStep, PTL DEF Spec

\* campaigns.sent never claims more messages than the provider accepted, for
\* any number of workers and tasks that each write previous_sent + sent over
\* one another (campaign_runner.py 121, 247), of faults and of crashes.
THEOREM CountersAreBacked == Spec => []SentIsBacked
<1>1. IInv => SentIsBacked
  BY DEF IInv, Backed
<1> QED
  BY <1>1, Invariance, PTL

\* A pause or a cancel lets each task of the control tower send at most the
\* one message it was sleeping before (campaign_runner.py 163-168), whatever
\* the size of its batch and the commands that interleave.
THEOREM StopTakesHold == Spec => []StopsWithinOneMessage
<1>1. IInv => StopsWithinOneMessage
  BY DEF IInv, Stopping, StopsWithinOneMessage
<1> QED
  BY <1>1, Invariance, PTL

\* A number on the blacklist gets at most one more message from each chain of
\* tasks (campaign_runner.py 169-180), however many listings share it.
THEOREM OptOutTakesHold == Spec => []OptOutWithinOneMessage
<1>1. IInv => OptOutWithinOneMessage
  BY DEF IInv, OptedOut, OptOutWithinOneMessage
<1> QED
  BY <1>1, Invariance, PTL

-----------------------------------------------------------------------------
(* The copies of a message.                                                *)

One(P) == IF P THEN 1 ELSE 0

\* The tasks that occupy a worker.
Busy == {q \in Requests : job[q].pc \in Working}

\* A task that has sent the message of a listing and will mark it.
SendsTo(q, l) == job[q].pc = "record" /\ job[q].cur = l
Senders(l) == {q \in Requests : SendsTo(q, l)}

\* A task that may still send it, whether the listing was marked or not.
Holds(q, l) ==
    /\ job[q].pc \in Working
    /\ l \in job[q].batch \/ (job[q].pc \in {"screen", "sleep"} /\ job[q].cur = l)
Holders(l) == {q \in Requests : Holds(q, l)}

Dead == {q \in Requests : job[q].pc = "killed"}

\* Before a listing is marked each copy has its sender or a loss; when it is
\* marked the tasks that still hold it are bounded by the workers.
Repeats ==
    /\ Cardinality(Busy) <= Concurrency
    /\ \A q \in Requests :
          job[q].pc \in {"screen", "sleep", "record"} => job[q].cur \notin job[q].batch
    /\ \A l \in Listings :
          \/ /\ l \in contacted
             /\ texts[l] + Cardinality(Holders(l)) <= Concurrency + faults + crashes + Kills
          \/ /\ l \notin contacted
             /\ texts[l] <= Cardinality(Senders(l)) + faults + crashes + Kills

\* Two sets that differ in one element at most.
LEMMA CountOne ==
  ASSUME NEW S, NEW T, NEW x, IsFiniteSet(S), IsFiniteSet(T), S \ {x} = T \ {x}
  PROVE  /\ Cardinality(S) \in Nat /\ Cardinality(T) \in Nat
         /\ Cardinality(T) + One(x \in S) = Cardinality(S) + One(x \in T)
<1>1. /\ Cardinality(S \ {x}) = IF x \in S THEN Cardinality(S) - 1 ELSE Cardinality(S)
      /\ Cardinality(T \ {x}) = IF x \in T THEN Cardinality(T) - 1 ELSE Cardinality(T)
  BY FS_RemoveElement
<1>2. Cardinality(S) \in Nat /\ Cardinality(T) \in Nat
  BY FS_CardinalityType
<1>3. Cardinality(S \ {x}) = Cardinality(T \ {x})
  OBVIOUS
<1> QED
  BY ONLY <1>1, <1>2, <1>3, SMT DEF One

\* Each set of requests is finite.
LEMMA SomeRequests ==
  ASSUME NEW S \in SUBSET Requests
  PROVE  IsFiniteSet(S) /\ Cardinality(S) \in Nat
BY FS_Subset, FS_CardinalityType, SmsCampaignAssumption

\* What a step of one task leaves of the others, and what it pays for a listing:
\* a copy, or a task that gives a listing up, against a loss.
Turns(r) ==
    /\ \A q \in Requests : q # r => job'[q] = job[q]
    /\ job'[r].pc \in Working => job[r].pc \in Working \/ FreeWorker
    /\ job'[r].pc \in {"screen", "sleep", "record"} => job'[r].cur \notin job'[r].batch
    /\ faults' \in Nat /\ crashes' \in Nat

Pays(r, l) ==
    \/ /\ l \in contacted /\ l \in contacted'
       /\ texts'[l] + One(r \in Holders(l)') + faults + crashes + One(r \in Dead)
          <= texts[l] + One(r \in Holders(l)) + faults' + crashes' + One(r \in Dead')
    \/ /\ l \notin contacted /\ l \notin contacted'
       /\ texts'[l] + One(r \in Senders(l)) + faults + crashes + One(r \in Dead)
          <= texts[l] + One(r \in Senders(l)') + faults' + crashes' + One(r \in Dead')
    \/ /\ l \notin contacted /\ l \in contacted'
       /\ r \in Senders(l) /\ (r \in Holders(l)' => r \in Holders(l))
       /\ texts' = texts /\ faults' = faults /\ crashes' = crashes
       /\ r \notin Dead /\ r \notin Dead'

\* One side of the account: copies x, tasks g that hold the listing, faults f,
\* crashes c and killed tasks k, each before and after a step of one task.
Account(b, x, xn, g, gn, f, fn, c, cn, k, kn, h, hn, d, dn) ==
    /\ x + g <= b + f + c + k
    /\ gn + h = g + hn
    /\ kn + d = k + dn
    /\ xn + hn + f + c + d <= x + h + fn + cn + dn

LEMMA AccountKept ==
  \A b, x, xn, g, gn, f, fn, c, cn, k, kn, h, hn, d, dn \in Int :
     Account(b, x, xn, g, gn, f, fn, c, cn, k, kn, h, hn, d, dn)
     => xn + gn <= b + fn + cn + kn
BY SMT DEF Account

\* The other: copies x and tasks s that have sent them.
Ledger(x, xn, s, sn, f, fn, c, cn, k, kn, m, mn, d, dn) ==
    /\ x <= s + f + c + k
    /\ sn + m = s + mn
    /\ kn + d = k + dn
    /\ xn + m + f + c + d <= x + mn + fn + cn + dn

LEMMA LedgerKept ==
  \A x, xn, s, sn, f, fn, c, cn, k, kn, m, mn, d, dn \in Int :
     Ledger(x, xn, s, sn, f, fn, c, cn, k, kn, m, mn, d, dn)
     => xn <= sn + fn + cn + kn
BY SMT DEF Ledger

\* The moment a listing is marked: its senders become holders at most.
Marked(b, x, g, gn, s, f, c, k) ==
    /\ x <= s + f + c + k
    /\ g + s <= b
    /\ gn <= g

LEMMA MarkedKept ==
  \A b, x, g, gn, s, f, c, k \in Int :
     Marked(b, x, g, gn, s, f, c, k) => x + gn <= b + f + c + k
BY SMT DEF Marked

\* A step that pays keeps the bound.
LEMMA RepeatsKept ==
  ASSUME Typing, Typing', Repeats, NEW r \in Requests, Turns(r),
         \A l \in Listings : Pays(r, l)
  PROVE  Repeats'
<1>1. /\ faults \in Int /\ crashes \in Int /\ faults' \in Int /\ crashes' \in Int
      /\ Concurrency \in Int
  BY SmsCampaignAssumption DEF Typing, TypeOK
<1>2. /\ Kills \in Int /\ Kills' \in Int
      /\ Kills' + One(r \in Dead) = Kills + One(r \in Dead')
      /\ r \notin Dead /\ r \notin Dead' => Kills' = Kills
  <2>1. Dead \ {r} = Dead' \ {r}
    BY DEF Turns, Dead
  <2>2. Dead \in SUBSET Requests /\ Dead' \in SUBSET Requests
    BY DEF Dead
  <2>3. IsFiniteSet(Dead) /\ IsFiniteSet(Dead')
    BY <2>2, SomeRequests
  <2>4. /\ Cardinality(Dead) \in Nat /\ Cardinality(Dead') \in Nat
        /\ Cardinality(Dead') + One(r \in Dead) = Cardinality(Dead) + One(r \in Dead')
    BY <2>1, <2>3, CountOne
  <2>5. Kills = Cardinality(Dead) /\ Kills' = Cardinality(Dead')
    BY DEF Kills, Dead
  <2>6. r \notin Dead /\ r \notin Dead' => Dead = Dead'
    BY <2>1
  <2> QED
    BY <2>4, <2>5, <2>6
<1>3. Cardinality(Busy') <= Concurrency
  <2>1. Busy \ {r} = Busy' \ {r}
    BY DEF Turns, Busy
  <2>2. Busy \in SUBSET Requests /\ Busy' \in SUBSET Requests
    BY DEF Busy
  <2>3. IsFiniteSet(Busy) /\ IsFiniteSet(Busy')
    BY <2>2, SomeRequests
  <2>4. /\ Cardinality(Busy) \in Nat /\ Cardinality(Busy') \in Nat
        /\ Cardinality(Busy') + One(r \in Busy) = Cardinality(Busy) + One(r \in Busy')
    BY <2>1, <2>3, CountOne
  <2>5. r \in Busy' => r \in Busy \/ Cardinality(Busy) < Concurrency
    BY DEF Turns, FreeWorker, Busy
  <2>6. Cardinality(Busy) <= Concurrency
    BY DEF Repeats
  <2> QED
    BY <1>1, <2>4, <2>5, <2>6 DEF One
<1>4. \A q \in Requests :
         job'[q].pc \in {"screen", "sleep", "record"} => job'[q].cur \notin job'[q].batch
  BY DEF Turns, Repeats
<1>5. ASSUME NEW l \in Listings
      PROVE  \/ /\ l \in contacted'
                /\ texts'[l] + Cardinality(Holders(l)') <= Concurrency + faults' + crashes' + Kills'
             \/ /\ l \notin contacted'
                /\ texts'[l] <= Cardinality(Senders(l)') + faults' + crashes' + Kills'
  <2>1. /\ Holders(l) \in SUBSET Requests /\ Holders(l)' \in SUBSET Requests
        /\ Senders(l) \in SUBSET Requests /\ Senders(l)' \in SUBSET Requests
        /\ Holders(l) \ {r} = Holders(l)' \ {r}
        /\ Senders(l) \ {r} = Senders(l)' \ {r}
    BY DEF Turns, Holders, Senders, Holds, SendsTo
  <2>2. /\ IsFiniteSet(Holders(l)) /\ IsFiniteSet(Holders(l)')
        /\ IsFiniteSet(Senders(l)) /\ IsFiniteSet(Senders(l)')
    BY <2>1, SomeRequests
  <2> DEFINE G == Cardinality(Holders(l))
             Gn == Cardinality(Holders(l)')
             S == Cardinality(Senders(l))
             Sn == Cardinality(Senders(l)')
             h == One(r \in Holders(l))
             hn == One(r \in Holders(l)')
             m == One(r \in Senders(l))
             mn == One(r \in Senders(l)')
             d == One(r \in Dead)
             dn == One(r \in Dead')
  <2>3. G \in Int /\ Gn \in Int /\ Gn + h = G + hn
    BY <2>1, <2>2, CountOne
  <2>4. S \in Int /\ Sn \in Int /\ Sn + m = S + mn
    BY <2>1, <2>2, CountOne
  <2>5. texts[l] \in Int /\ texts'[l] \in Int
    BY DEF Typing, TypeOK
  <2>6. h \in Int /\ hn \in Int /\ m \in Int /\ mn \in Int /\ d \in Int /\ dn \in Int
    BY DEF One
  <2>7. CASE l \in contacted /\ l \in contacted'
    <3>1. texts'[l] + hn + faults + crashes + d <= texts[l] + h + faults' + crashes' + dn
      BY <2>7 DEF Pays
    <3>2. texts[l] + G <= Concurrency + faults + crashes + Kills
      BY <2>7 DEF Repeats
    <3>3. Account(Concurrency, texts[l], texts'[l], G, Gn, faults, faults', crashes, crashes',
                  Kills, Kills', h, hn, d, dn)
      BY <1>2, <2>3, <3>1, <3>2 DEF Account
    <3> HIDE DEF G, Gn, h, hn, d, dn
    <3>4. texts'[l] + Gn <= Concurrency + faults' + crashes' + Kills'
      BY <1>1, <1>2, <2>3, <2>5, <2>6, <3>3, AccountKept
    <3> QED
      BY <2>7, <3>4 DEF Gn
  <2>8. CASE l \notin contacted /\ l \notin contacted'
    <3>1. texts'[l] + m + faults + crashes + d <= texts[l] + mn + faults' + crashes' + dn
      BY <2>8 DEF Pays
    <3>2. texts[l] <= S + faults + crashes + Kills
      BY <2>8 DEF Repeats
    <3>3. Ledger(texts[l], texts'[l], S, Sn, faults, faults', crashes, crashes',
                 Kills, Kills', m, mn, d, dn)
      BY <1>2, <2>4, <3>1, <3>2 DEF Ledger
    <3> HIDE DEF S, Sn, m, mn, d, dn
    <3>4. texts'[l] <= Sn + faults' + crashes' + Kills'
      BY <1>1, <1>2, <2>4, <2>5, <2>6, <3>3, LedgerKept
    <3> QED
      BY <2>8, <3>4 DEF Sn
  <2>9. CASE l \notin contacted /\ l \in contacted'
    <3>1. /\ r \in Senders(l) /\ (r \in Holders(l)' => r \in Holders(l))
          /\ texts' = texts /\ faults' = faults /\ crashes' = crashes
          /\ Kills' = Kills
      BY <1>2, <2>9 DEF Pays
    <3>2. texts[l] <= S + faults + crashes + Kills
      BY <2>9 DEF Repeats
    <3>3. G + S <= Concurrency
      <4>1. /\ Holders(l) \subseteq Busy \ Senders(l)
            /\ Busy \cap Senders(l) = Senders(l)
        BY DEF Repeats, Holders, Senders, Holds, SendsTo, Busy, Working
      <4>2. IsFiniteSet(Busy) /\ Cardinality(Busy) \in Nat
        <5>1. Busy \in SUBSET Requests
          BY DEF Busy
        <5> QED
          BY <5>1, SomeRequests
      <4>3. /\ IsFiniteSet(Busy \ Senders(l))
            /\ Cardinality(Busy \ Senders(l)) = Cardinality(Busy) - Cardinality(Busy \cap Senders(l))
        BY <4>2, FS_Difference
      <4>4. G <= Cardinality(Busy \ Senders(l))
        BY <4>1, <4>3, FS_Subset
      <4>5. Cardinality(Busy \ Senders(l)) = Cardinality(Busy) - S
        BY <4>1, <4>3
      <4>6. Cardinality(Busy) <= Concurrency
        BY DEF Repeats
      <4> HIDE DEF G, S
      <4> QED
        BY <1>1, <2>3, <2>4, <4>2, <4>4, <4>5, <4>6
    <3>4. Gn <= G
      <4>1. hn <= h
        BY <3>1 DEF One
      <4> HIDE DEF G, Gn, h, hn
      <4> QED
        BY <2>3, <2>6, <4>1
    <3>5. Marked(Concurrency, texts[l], G, Gn, S, faults, crashes, Kills)
      BY <3>2, <3>3, <3>4 DEF Marked
    <3> HIDE DEF G, Gn, S
    <3>6. texts[l] + Gn <= Concurrency + faults + crashes + Kills
      BY <1>1, <1>2, <2>3, <2>4, <2>5, <3>5, MarkedKept
    <3> QED
      BY <2>9, <3>1, <3>6 DEF Gn
  <2> QED
    BY <2>7, <2>8, <2>9 DEF Pays
<1> QED
  BY <1>3, <1>4, <1>5 DEF Repeats

\* A step that sends nothing, marks nothing and loses no sender unpaid.
Calm(r) ==
    /\ texts' = texts /\ contacted' = contacted /\ faults' = faults
    /\ job[r].pc = "killed" => job'[r].pc = "killed"
    /\ \A l \in Listings : Holds(r, l)' => Holds(r, l) \/ l \notin contacted
    /\ \/ /\ crashes' = crashes
          /\ \A l \in Listings : SendsTo(r, l) => SendsTo(r, l)' \/ job'[r].pc = "killed"
       \/ crashes' = crashes + 1

LEMMA CalmPays ==
  ASSUME Typing, NEW r \in Requests, Calm(r)
  PROVE  \A l \in Listings : Pays(r, l)
<1> SUFFICES ASSUME NEW l \in Listings
             PROVE  Pays(r, l)
  OBVIOUS
<1>1. texts[l] \in Nat /\ faults \in Nat /\ crashes \in Nat
  BY DEF Typing, TypeOK
<1>2. /\ r \in Holders(l) <=> Holds(r, l)
      /\ r \in Holders(l)' <=> Holds(r, l)'
      /\ r \in Senders(l) <=> SendsTo(r, l)
      /\ r \in Senders(l)' <=> SendsTo(r, l)'
      /\ r \in Dead <=> job[r].pc = "killed"
      /\ r \in Dead' <=> job'[r].pc = "killed"
  BY DEF Holders, Senders, Dead
<1>3. SendsTo(r, l) => job[r].pc # "killed"
  BY DEF SendsTo
<1>4. One(r \in Dead) <= One(r \in Dead')
  BY <1>2 DEF Calm, One
<1>5. CASE l \in contacted
  <2>1. One(r \in Holders(l)') <= One(r \in Holders(l))
    BY <1>2, <1>5 DEF Calm, One
  <2>2. crashes' >= crashes /\ crashes' \in Nat
    BY <1>1 DEF Calm
  <2>3. /\ One(r \in Dead) \in Nat /\ One(r \in Dead') \in Nat
        /\ One(r \in Holders(l)) \in Nat /\ One(r \in Holders(l)') \in Nat
    BY DEF One
  <2> QED
    BY <1>1, <1>4, <1>5, <2>1, <2>2, <2>3 DEF Calm, Pays
<1>6. CASE l \notin contacted
  <2>1. CASE crashes' = crashes + 1
    <3>1. One(r \in Senders(l)) <= 1 + One(r \in Senders(l)')
      BY DEF One
    <3>2. /\ One(r \in Dead) \in Nat /\ One(r \in Dead') \in Nat
          /\ One(r \in Senders(l)) \in Nat /\ One(r \in Senders(l)') \in Nat
      BY DEF One
    <3> QED
      BY <1>1, <1>4, <1>6, <2>1, <3>1, <3>2 DEF Calm, Pays
  <2>2. CASE /\ crashes' = crashes
             /\ \A k \in Listings : SendsTo(r, k) => SendsTo(r, k)' \/ job'[r].pc = "killed"
    <3>1. One(r \in Senders(l)) + One(r \in Dead) <= One(r \in Senders(l)') + One(r \in Dead')
      BY <1>2, <1>3, <2>2 DEF Calm, One
    <3>2. /\ One(r \in Dead) \in Nat /\ One(r \in Dead') \in Nat
          /\ One(r \in Senders(l)) \in Nat /\ One(r \in Senders(l)') \in Nat
      BY DEF One
    <3> QED
      BY <1>1, <1>6, <2>2, <3>1, <3>2 DEF Calm, Pays
  <2> QED
    BY <2>1, <2>2 DEF Calm
<1> QED
  BY <1>5, <1>6

\* A step that leaves the tasks and the listings alone.
LEMMA StillCalm ==
  ASSUME Typing, Typing', Repeats, NEW r \in Requests, job' = job,
         texts' = texts, contacted' = contacted, faults' = faults,
         crashes' = crashes \/ crashes' = crashes + 1
  PROVE  Turns(r) /\ Calm(r)
<1>1. faults' \in Nat /\ crashes' \in Nat
  BY DEF Typing, TypeOK
<1> QED
  BY <1>1 DEF Turns, Calm, Holds, SendsTo, Repeats

\* A request starts a task, kills one or leaves them all alone.
LEMMA RequestCalm ==
  ASSUME Typing, Typing', Dispatched, Repeats, NEW r \in Requests, RequestStep(r)
  PROVE  \E q \in Requests : Turns(q) /\ Calm(q)
<1>1. faults' \in Nat /\ crashes' \in Nat
  BY DEF Typing, TypeOK
<1>2. ASSUME NEW c \in Campaigns, NEW a \in Actions, NEW k \in Keys, ReadCampaign(r, c, a, k)
      PROVE  \E q \in Requests : Turns(q) /\ Calm(q)
  BY <1>2, StillCalm DEF ReadCampaign, dbVars, budget, history
<1>3. ASSUME NEW w \in Requests, CommitCampaign(r, w)
      PROVE  \E q \in Requests : Turns(q) /\ Calm(q)
  BY <1>3, StillCalm DEF CommitCampaign, dbVars, budget, history
<1>4. ASSUME RejectDuplicate(r)
      PROVE  \E q \in Requests : Turns(q) /\ Calm(q)
  BY <1>4, StillCalm DEF RejectDuplicate, dbVars, budget, history
<1>5. ASSUME NEW w \in Requests, NEW a \in Actions, NEW k \in Keys, ReadWorkflow(r, w, a, k)
      PROVE  \E q \in Requests : Turns(q) /\ Calm(q)
  BY <1>5, StillCalm DEF ReadWorkflow, dbVars, budget, history
<1>6. ASSUME CommitWorkflow(r)
      PROVE  \E q \in Requests : Turns(q) /\ Calm(q)
  BY <1>6, StillCalm DEF CommitWorkflow, dbVars, budget, history
<1>7. ASSUME Dispatch(r)
      PROVE  \E q \in Requests : Turns(q) /\ Calm(q)
  <2>1. job[r].pc = "none"
    BY <1>7 DEF Dispatch, Dispatched, Waiting
  <2>2. Turns(r)
    BY <1>1, <1>7 DEF Typing, TypeOK, Dispatch, NoJob, Turns, Working
  <2>3. Calm(r)
    BY <1>7, <2>1
    DEF Typing, TypeOK, Dispatch, NoJob, Calm, Holds, SendsTo, Working, dbVars, budget, history
  <2> QED
    BY <2>2, <2>3
<1>8. ASSUME StoreTaskId(r)
      PROVE  \E q \in Requests : Turns(q) /\ Calm(q)
  BY <1>8, StillCalm DEF StoreTaskId, dbVars, budget, history
<1>9. ASSUME Revoke(r)
      PROVE  \E q \in Requests : Turns(q) /\ Calm(q)
  <2>1. CASE job' = job
    BY <1>9, <2>1, StillCalm DEF Revoke, dbVars, budget, history
  <2>2. CASE job' # job
    <3>1. PICK t \in Requests : job' = [job EXCEPT ![t] = Killed]
      BY <1>9, <2>2 DEF Revoke, Typing, TypeOK, Request
    <3>2. Turns(t)
      BY <1>1, <3>1 DEF Typing, TypeOK, Killed, NoJob, Turns, Working
    <3>3. Calm(t)
      BY <1>9, <3>1
      DEF Revoke, Typing, TypeOK, Killed, NoJob, Calm, Holds, SendsTo, Working,
          dbVars, budget, history
    <3> QED
      BY <3>2, <3>3
  <2> QED
    BY <2>1, <2>2
<1>10. ASSUME NEW c \in Campaigns, StartLegacy(r, c)
       PROVE  \E q \in Requests : Turns(q) /\ Calm(q)
  <2>1. job[r].pc = "none"
    BY <1>10 DEF StartLegacy, Dispatched, Waiting
  <2>2. Turns(r)
    BY <1>1, <1>10 DEF Typing, TypeOK, StartLegacy, NoJob, Turns, Working
  <2>3. Calm(r)
    BY <1>10, <2>1
    DEF Typing, TypeOK, StartLegacy, NoJob, Calm, Holds, SendsTo, Working, dbVars, budget, history
  <2> QED
    BY <2>2, <2>3
<1>11. ASSUME CrashRequest(r)
       PROVE  \E q \in Requests : Turns(q) /\ Calm(q)
  BY <1>11, StillCalm DEF CrashRequest, dbVars, budget, history
<1> QED
  BY <1>2, <1>3, <1>4, <1>5, <1>6, <1>7, <1>8, <1>9, <1>10, <1>11 DEF RequestStep

\* What a message costs: each copy beyond the first is a fault, and the first
\* is one when it is not counted.
LEMMA SendPays ==
  ASSUME Typing, NEW r \in Requests, job[r].pc = "sleep",
         job[r].cur \notin job[r].batch, NEW n \in Nat, NEW f \in Nat,
         Texted(r, n), faults' = faults + f, crashes' = crashes, contacted' = contacted,
         \A l \in Listings : Holds(r, l)' => Holds(r, l) /\ l # job[r].cur,
         \/ n <= f
         \/ n <= f + 1 /\ \A l \in Listings : l = job[r].cur => SendsTo(r, l)'
  PROVE  \A l \in Listings : Pays(r, l)
<1> SUFFICES ASSUME NEW l \in Listings
             PROVE  Pays(r, l)
  OBVIOUS
<1>1. /\ texts[l] \in Nat /\ faults \in Nat /\ crashes \in Nat
      /\ job[r].cur \in Listings
  BY DEF Typing, TypeOK, JobsOwn
<1>2. /\ r \in Holders(l) <=> Holds(r, l)
      /\ r \in Holders(l)' <=> Holds(r, l)'
      /\ r \in Senders(l) <=> SendsTo(r, l)
      /\ r \in Senders(l)' <=> SendsTo(r, l)'
      /\ r \in Dead <=> job[r].pc = "killed"
  BY DEF Holders, Senders, Dead
<1>3. r \notin Dead /\ r \notin Senders(l)
  BY <1>2 DEF SendsTo
<1>4. Holds(r, job[r].cur)
  BY DEF Holds, Working
<1>5. /\ texts'[l] = IF l = job[r].cur THEN texts[l] + n ELSE texts[l]
      /\ faults' = faults + f /\ crashes' = crashes
  BY <1>1 DEF Texted, Typing, TypeOK
<1>6. One(r \in Dead) = 0 /\ One(r \in Dead') \in Nat /\ One(r \in Senders(l)) = 0
  BY <1>3 DEF One
<1>7. CASE l \in contacted
  <2>1. /\ One(r \in Holders(l)) \in 0..1 /\ One(r \in Holders(l)') \in 0..1
        /\ One(r \in Holders(l)') <= One(r \in Holders(l))
        /\ l = job[r].cur => One(r \in Holders(l)') = 0 /\ One(r \in Holders(l)) = 1
    BY <1>2, <1>4 DEF One
  <2>2. texts'[l] + One(r \in Holders(l)') + faults + crashes + One(r \in Dead)
        <= texts[l] + One(r \in Holders(l)) + faults' + crashes' + One(r \in Dead')
    <3>1. CASE l = job[r].cur
      BY <1>1, <1>5, <1>6, <2>1, <3>1
    <3>2. CASE l # job[r].cur
      BY <1>1, <1>5, <1>6, <2>1, <3>2
    <3> QED
      BY <3>1, <3>2
  <2> QED
    BY <1>7, <2>2 DEF Pays
<1>8. CASE l \notin contacted
  <2>1. /\ One(r \in Senders(l)') \in 0..1
        /\ l = job[r].cur => n <= f \/ (n <= f + 1 /\ One(r \in Senders(l)') = 1)
    BY <1>2 DEF One
  <2>2. texts'[l] + One(r \in Senders(l)) + faults + crashes + One(r \in Dead)
        <= texts[l] + One(r \in Senders(l)') + faults' + crashes' + One(r \in Dead')
    <3>1. CASE l = job[r].cur
      BY <1>1, <1>5, <1>6, <2>1, <3>1
    <3>2. CASE l # job[r].cur
      BY <1>1, <1>5, <1>6, <2>1, <3>2
    <3> QED
      BY <3>1, <3>2
  <2> QED
    BY <1>8, <2>2 DEF Pays
<1> QED
  BY <1>7, <1>8

\* Each step of a task pays for the listing it is about.
LEMMA JobPays ==
  ASSUME Typing, Typing', Repeats, NEW r \in Requests, JobStep(r)
  PROVE  Turns(r) /\ \A l \in Listings : Pays(r, l)
<1>1. faults' \in Nat /\ crashes' \in Nat
  BY DEF Typing, TypeOK
<1>2. job[r].pc \in {"screen", "sleep", "record"} => job[r].cur \notin job[r].batch
  BY DEF Repeats
<1>3. ASSUME Defer(r)
      PROVE  Turns(r) /\ Calm(r)
  BY <1>1, <1>2, <1>3
  DEF Defer, Typing, TypeOK, Turns, Calm, Holds, SendsTo, Working, dbVars, budget, history
<1>4. ASSUME Refuse(r)
      PROVE  Turns(r) /\ Calm(r)
  BY <1>1, <1>4
  DEF Refuse, Ended, NoJob, Typing, TypeOK, Turns, Calm, Holds, SendsTo, Working,
      dbVars, budget, history
<1>5. ASSUME NEW batch \in SUBSET Listings, NEW quota \in 0..SimQuota, Begin(r, batch, quota)
      PROVE  Turns(r) /\ Calm(r)
  <2>1. job' = [job EXCEPT ![r] =
           [job[r] EXCEPT !.pc = "loop", !.batch = batch, !.cur = None,
                          !.prev = campaign[job[r].campaign].sent, !.sent = 0, !.quota = quota,
                          !.more = Cardinality(Eligible(job[r].campaign)) > BatchSize,
                          !.why = "none"]]
    BY <1>5 DEF Begin
  <2>2. /\ \A q \in Requests : q # r => job'[q] = job[q]
        /\ job'[r].pc = "loop" /\ job'[r].batch = batch
    BY <2>1 DEF Typing, TypeOK, Job
  <2>3. Turns(r)
    BY <1>1, <1>5, <2>2 DEF Begin, Turns
  <2>4. batch \cap contacted = {}
    BY <1>5 DEF Begin, Eligible
  <2>5. Calm(r)
    BY <1>5, <2>2, <2>4 DEF Begin, Calm, Holds, SendsTo, budget, history
  <2> QED
    BY <2>3, <2>5
<1>6. ASSUME Interrupt(r)
      PROVE  Turns(r) /\ Calm(r)
  BY <1>1, <1>6
  DEF Interrupt, Typing, TypeOK, Turns, Calm, Holds, SendsTo, Working, dbVars, budget, history
<1>7. ASSUME NEW l \in Listings, Pick(r, l)
      PROVE  Turns(r) /\ Calm(r)
  BY <1>1, <1>7
  DEF Pick, Typing, TypeOK, Job, Turns, Calm, Holds, SendsTo, Working, dbVars, budget, history
<1>8. ASSUME Screen(r)
      PROVE  Turns(r) /\ Calm(r)
  BY <1>1, <1>2, <1>8
  DEF Screen, Typing, TypeOK, Job, Turns, Calm, Holds, SendsTo, Working, dbVars, budget, history
<1>9. ASSUME NEW lost \in 0..2, SendAccepted(r, lost)
      PROVE  Turns(r) /\ \A l \in Listings : Pays(r, l)
  <2>1. /\ \A q \in Requests : q # r => job'[q] = job[q]
        /\ job[r].pc = "sleep"
        /\ job'[r].pc = "record" /\ job'[r].batch = job[r].batch /\ job'[r].cur = job[r].cur
    BY <1>9 DEF SendAccepted, Typing, TypeOK, Job
  <2>2. Turns(r)
    BY <1>1, <1>2, <2>1 DEF Turns, Working
  <2>3. /\ Texted(r, 1 + lost) /\ faults' = faults + lost
        /\ crashes' = crashes /\ contacted' = contacted
    BY <1>9 DEF SendAccepted, Fault, dbVars
  <2>4. \A l \in Listings :
           /\ Holds(r, l)' => Holds(r, l) /\ l # job[r].cur
           /\ l = job[r].cur => SendsTo(r, l)'
    BY <1>2, <2>1 DEF Holds, SendsTo, Working
  <2>5. 1 + lost \in Nat /\ lost \in Nat /\ 1 + lost <= lost + 1
    OBVIOUS
  <2> QED
    BY <1>2, <2>1, <2>2, <2>3, <2>4, <2>5, SendPays
<1>10. ASSUME NEW lost \in 0..3, SendFailed(r, lost)
       PROVE  Turns(r) /\ \A l \in Listings : Pays(r, l)
  <2>1. /\ \A q \in Requests : q # r => job'[q] = job[q]
        /\ job[r].pc = "sleep"
        /\ job'[r].pc = "loop" /\ job'[r].batch = job[r].batch
    BY <1>10 DEF SendFailed, Typing, TypeOK, Job
  <2>2. Turns(r)
    BY <1>1, <2>1 DEF Turns, Working
  <2>3. /\ Texted(r, lost) /\ faults' = faults + (1 + lost)
        /\ crashes' = crashes /\ contacted' = contacted
    BY <1>10 DEF SendFailed, Fault, dbVars
  <2>4. \A l \in Listings : Holds(r, l)' => Holds(r, l) /\ l # job[r].cur
    BY <1>2, <2>1 DEF Holds, Working
  <2>5. 1 + lost \in Nat /\ lost \in Nat /\ lost <= 1 + lost
    OBVIOUS
  <2> QED
    BY <1>2, <2>1, <2>2, <2>3, <2>4, <2>5, SendPays
<1>11. ASSUME NEW lost \in 0..2, SendWithoutCredit(r, lost)
       PROVE  Turns(r) /\ \A l \in Listings : Pays(r, l)
  <2>1. /\ \A q \in Requests : q # r => job'[q] = job[q]
        /\ job[r].pc = "sleep"
        /\ job'[r].pc = "finish" /\ job'[r].batch = job[r].batch
    BY <1>11 DEF SendWithoutCredit, Typing, TypeOK, Job
  <2>2. Turns(r)
    BY <1>1, <2>1 DEF Turns, Working
  <2>3. /\ Texted(r, lost) /\ faults' = faults + (1 + lost)
        /\ crashes' = crashes /\ contacted' = contacted
    BY <1>11 DEF SendWithoutCredit, Fault, dbVars
  <2>4. \A l \in Listings : Holds(r, l)' => Holds(r, l) /\ l # job[r].cur
    BY <1>2, <2>1 DEF Holds, Working
  <2>5. 1 + lost \in Nat /\ lost \in Nat /\ lost <= 1 + lost
    OBVIOUS
  <2> QED
    BY <1>2, <2>1, <2>2, <2>3, <2>4, <2>5, SendPays
<1>12. ASSUME Record(r)
       PROVE  Turns(r) /\ \A l \in Listings : Pays(r, l)
  <2>1. /\ \A q \in Requests : q # r => job'[q] = job[q]
        /\ job[r].pc = "record" /\ job[r].cur \in Listings
        /\ job'[r].pc = "loop" /\ job'[r].batch = job[r].batch
    BY <1>12 DEF Record, Typing, TypeOK, Job, JobsOwn
  <2>2. Turns(r)
    BY <1>1, <2>1 DEF Turns, Working
  <2>3. /\ contacted' = contacted \cup {job[r].cur} /\ texts' = texts
        /\ faults' = faults /\ crashes' = crashes
    BY <1>12 DEF Record, budget, history
  <2>4. ASSUME NEW l \in Listings
        PROVE  Pays(r, l)
    <3>1. /\ r \in Holders(l) <=> Holds(r, l)
          /\ r \in Holders(l)' <=> Holds(r, l)'
          /\ r \in Senders(l) <=> SendsTo(r, l)
          /\ r \in Senders(l)' <=> SendsTo(r, l)'
          /\ r \notin Dead /\ r \notin Dead'
      BY <2>1 DEF Holders, Senders, Dead
    <3>2. Holds(r, l)' => Holds(r, l)
      BY <2>1 DEF Holds, Working
    <3>3. texts[l] \in Nat /\ faults \in Nat /\ crashes \in Nat
      BY DEF Typing, TypeOK
    <3>4. CASE l \in contacted
      <4>1. One(r \in Holders(l)') \in Nat /\ One(r \in Holders(l)) \in Nat
        BY DEF One
      <4>2. One(r \in Holders(l)') <= One(r \in Holders(l))
        BY <3>1, <3>2 DEF One
      <4>3. One(r \in Dead) = 0 /\ One(r \in Dead') = 0
        BY <3>1 DEF One
      <4> QED
        BY <2>3, <3>3, <3>4, <4>1, <4>2, <4>3 DEF Pays
    <3>5. CASE l \notin contacted /\ l = job[r].cur
      BY <2>1, <2>3, <3>1, <3>2, <3>5 DEF Pays, SendsTo
    <3>6. CASE l \notin contacted /\ l # job[r].cur
      <4>1. ~SendsTo(r, l) /\ ~SendsTo(r, l)'
        BY <2>1, <3>6 DEF SendsTo
      <4>2. /\ One(r \in Dead) = 0 /\ One(r \in Dead') = 0
            /\ One(r \in Senders(l)) = 0 /\ One(r \in Senders(l)') = 0
        BY <3>1, <4>1 DEF One
      <4> QED
        BY <2>3, <3>3, <3>6, <4>2 DEF Pays
    <3> QED
      BY <3>4, <3>5, <3>6
  <2> QED
    BY <2>2, <2>4
<1>13. ASSUME RecordFails(r)
       PROVE  Turns(r) /\ \A l \in Listings : Pays(r, l)
  <2>1. /\ \A q \in Requests : q # r => job'[q] = job[q]
        /\ job[r].pc = "record"
        /\ job'[r].pc = "loop" /\ job'[r].batch = job[r].batch
    BY <1>13 DEF RecordFails, Typing, TypeOK, Job
  <2>2. Turns(r)
    BY <1>1, <2>1 DEF Turns, Working
  <2>3. /\ contacted' = contacted /\ texts' = texts
        /\ faults' = faults + 1 /\ crashes' = crashes
    BY <1>13 DEF RecordFails, Fault, dbVars, history
  <2>4. ASSUME NEW l \in Listings
        PROVE  Pays(r, l)
    <3>1. /\ r \in Holders(l) <=> Holds(r, l)
          /\ r \in Holders(l)' <=> Holds(r, l)'
          /\ r \notin Dead /\ r \notin Dead'
      BY <2>1 DEF Holders, Dead
    <3>2. Holds(r, l)' => Holds(r, l)
      BY <2>1 DEF Holds, Working
    <3>3. texts[l] \in Nat /\ faults \in Nat /\ crashes \in Nat
      BY DEF Typing, TypeOK
    <3>4. /\ One(r \in Holders(l)') \in Nat /\ One(r \in Holders(l)) \in Nat
          /\ One(r \in Holders(l)') <= One(r \in Holders(l))
          /\ One(r \in Dead) = 0 /\ One(r \in Dead') = 0
      BY <3>1, <3>2 DEF One
    <3>5. One(r \in Senders(l)) \in 0..1 /\ One(r \in Senders(l)') \in 0..1
      BY DEF One
    <3>6. CASE l \in contacted
      BY <2>3, <3>3, <3>4, <3>6 DEF Pays
    <3>7. CASE l \notin contacted
      BY <2>3, <3>3, <3>4, <3>5, <3>7 DEF Pays
    <3> QED
      BY <3>6, <3>7
  <2> QED
    BY <2>2, <2>4
<1>14. ASSUME Finish(r)
       PROVE  Turns(r) /\ Calm(r)
  BY <1>1, <1>14
  DEF Finish, Ended, NoJob, Typing, TypeOK, Turns, Calm, Holds, SendsTo, Working, budget, history
<1>15. ASSUME Requeue(r)
       PROVE  Turns(r) /\ Calm(r)
  BY <1>1, <1>15
  DEF Requeue, NoJob, Typing, TypeOK, Turns, Calm, Holds, SendsTo, Working, dbVars,
      budget, history
<1>16. ASSUME JobDies(r)
       PROVE  Turns(r) /\ Calm(r)
  BY <1>1, <1>16
  DEF JobDies, Ended, NoJob, Typing, TypeOK, Turns, Calm, Holds, SendsTo, Working, dbVars, history
<1> QED
  BY <1>3, <1>4, <1>5, <1>6, <1>7, <1>8, <1>9, <1>10, <1>11, <1>12, <1>13, <1>14,
     <1>15, <1>16, CalmPays
  DEF JobStep

\* Repeats is inductive.
LEMMA RepeatsStep ==
  ASSUME IInv, Typing', Repeats, [Next]_vars
  PROVE  Repeats'
<1>1. Typing /\ Dispatched
  BY DEF IInv
<1>2. ASSUME NEW r \in Requests, RequestStep(r)
      PROVE  Repeats'
  <2>1. PICK q \in Requests : Turns(q) /\ Calm(q)
    BY <1>1, <1>2, RequestCalm
  <2> QED
    BY <1>1, <2>1, CalmPays, RepeatsKept
<1>3. ASSUME NEW r \in Requests, JobStep(r)
      PROVE  Repeats'
  BY <1>1, <1>3, JobPays, RepeatsKept
<1>4. CASE Environment \/ UNCHANGED vars
  <2>1. /\ job' = job /\ contacted' = contacted /\ texts' = texts
        /\ faults' = faults /\ crashes' = crashes
    BY <1>4
    DEF Environment, AddToBlacklist, CloseWindow, OpenWindow, vars, dbVars, budget, history
  <2> QED
    BY <2>1
    DEF Repeats, Busy, Senders, SendsTo, Holders, Holds, Kills
<1> QED
  BY <1>2, <1>3, <1>4 DEF Next

LEMMA InitRepeats == Init => Repeats
<1> SUFFICES ASSUME Init PROVE Repeats
  OBVIOUS
<1>1. \A q \in Requests : job[q].pc = "none"
  BY DEF Init, NoJob
<1>2. Busy = {} /\ {r \in Requests : job[r].pc = "killed"} = {}
  BY <1>1 DEF Busy, Working
<1>3. \A l \in Listings : Senders(l) = {}
  BY <1>1 DEF Senders, SendsTo
<1>4. Cardinality({}) = 0
  BY FS_EmptySet
<1>5. Cardinality(Busy) = 0 /\ Kills = 0 /\ \A l \in Listings : Cardinality(Senders(l)) = 0
  BY <1>2, <1>3, <1>4 DEF Kills
<1>6. \A l \in Listings : l \notin contacted /\ texts[l] = 0
  BY DEF Init
<1>7. faults = 0 /\ crashes = 0
  BY DEF Init
<1> QED
  BY <1>1, <1>5, <1>6, <1>7, SmsCampaignAssumption DEF Repeats

\* However many tasks, listings and commands there are, each copy of a message
\* beyond one per worker is a lost answer, a failed commit or a task that died
\* (campaign_runner.py 189-210).
THEOREM CopiesAreBounded == Spec => []RepeatsAreBounded
<1>1. Init => IInv /\ Repeats
  BY InitInvariant, InitRepeats
<1>2. IInv /\ Repeats /\ [Next]_vars => (IInv /\ Repeats)'
  BY InvariantStep, RepeatsStep DEF IInv
<1>3. IInv /\ Repeats => RepeatsAreBounded
  <2> SUFFICES ASSUME IInv, Repeats, NEW l \in Listings
               PROVE  texts[l] <= Concurrency + faults + crashes + Kills
    BY DEF RepeatsAreBounded
  <2>1. texts[l] \in Nat /\ faults \in Nat /\ crashes \in Nat /\ Concurrency \in Nat
    BY SmsCampaignAssumption DEF IInv, Typing, TypeOK
  <2>2. /\ Cardinality(Holders(l)) \in Nat /\ Cardinality(Senders(l)) \in Nat
        /\ Kills \in Nat
    <3>1. /\ Holders(l) \in SUBSET Requests /\ Senders(l) \in SUBSET Requests
          /\ Dead \in SUBSET Requests /\ Kills = Cardinality(Dead)
      BY DEF Holders, Senders, Dead, Kills
    <3> QED
      BY <3>1, SomeRequests
  <2>3. Cardinality(Senders(l)) <= Concurrency
    <3>1. Senders(l) \subseteq Busy /\ Busy \in SUBSET Requests
      BY DEF Senders, SendsTo, Busy, Working
    <3>2. IsFiniteSet(Busy) /\ Cardinality(Busy) \in Nat
      BY <3>1, SomeRequests
    <3>3. Cardinality(Senders(l)) <= Cardinality(Busy)
      BY <3>1, <3>2, FS_Subset
    <3>4. Cardinality(Busy) <= Concurrency
      BY DEF Repeats
    <3> QED
      BY <2>1, <2>2, <3>2, <3>3, <3>4
  <2>4. \/ texts[l] + Cardinality(Holders(l)) <= Concurrency + faults + crashes + Kills
        \/ texts[l] <= Cardinality(Senders(l)) + faults + crashes + Kills
    BY DEF Repeats
  <2> QED
    BY <2>1, <2>2, <2>3, <2>4
<1> QED
  BY <1>1, <1>2, <1>3, PTL DEF Spec

-----------------------------------------------------------------------------
(* A RUNNING campaign is driven.                                           *)

\* Undisturbed, without the cardinality.
Hushed == crashes = 0 /\ \A q \in Requests : job[q].pc # "killed"

LEMMA UndisturbedMeans == Typing => (Undisturbed <=> Hushed)
<1> SUFFICES ASSUME Typing
             PROVE  Undisturbed <=> Hushed
  OBVIOUS
<1>1. Dead \in SUBSET Requests /\ Kills = Cardinality(Dead) /\ crashes \in Nat
  BY DEF Dead, Kills, Typing, TypeOK
<1>2. IsFiniteSet(Dead) /\ Cardinality(Dead) \in Nat
  BY <1>1, SomeRequests
<1>3. Cardinality(Dead) = 0 <=> Dead = {}
  BY <1>2, FS_EmptySet
<1>4. Dead = {} <=> \A q \in Requests : job[q].pc # "killed"
  BY DEF Dead
<1>5. Undisturbed <=> crashes + Cardinality(Dead) = 0
  BY <1>1 DEF Undisturbed
<1>6. Cardinality(Dead) = 0 <=> \A q \in Requests : job[q].pc # "killed"
  BY <1>3, <1>4
<1> HIDE DEF Dead
<1> QED
  BY <1>1, <1>2, <1>5, <1>6 DEF Hushed

\* A task that steps was not killed, and only a death counts as a crash.
LEMMA JobStepLives ==
  ASSUME Typing, NEW r \in Requests, JobStep(r)
  PROVE  job[r].pc # "killed" /\ (crashes' = crashes \/ crashes' = crashes + 1)
BY DEF JobStep, Defer, Refuse, Begin, Interrupt, Pick, Screen, SendAccepted, SendFailed,
       SendWithoutCredit, Record, RecordFails, Finish, Requeue, JobDies, Working, budget

\* What was disturbed once stays so.
LEMMA DisturbedStays ==
  ASSUME IInv, Repeats, Typing', [Next]_vars, Undisturbed'
  PROVE  /\ Undisturbed
         /\ crashes' = crashes
         /\ \A q \in Requests : job'[q].pc # "killed"
<1>1. Typing /\ Dispatched
  BY DEF IInv
<1>2. Hushed'
  <2>1. Typing' => (Undisturbed' <=> Hushed')
    BY UndisturbedMeans, PTL
  <2> QED
    BY <2>1
<1>3. crashes \in Nat
  BY <1>1 DEF Typing, TypeOK
<1>4. /\ crashes' = crashes \/ crashes' = crashes + 1
      /\ \A q \in Requests : job[q].pc = "killed" => job'[q].pc = "killed"
  <2>1. CASE \E r \in Requests : RequestStep(r)
    BY <1>1, <2>1, RequestCalm DEF Turns, Calm
  <2>2. CASE \E r \in Requests : JobStep(r)
    BY <1>1, <2>2, JobPays, JobStepLives DEF Turns
  <2>3. CASE Environment \/ UNCHANGED vars
    BY <2>3 DEF Environment, AddToBlacklist, CloseWindow, OpenWindow, vars, budget
  <2> QED
    BY <2>1, <2>2, <2>3 DEF Next
<1>5. Hushed
  BY <1>2, <1>3, <1>4 DEF Hushed
<1>6. Undisturbed
  BY <1>1, <1>5, UndisturbedMeans
<1> QED
  BY <1>2, <1>3, <1>4, <1>6 DEF Hushed

\* A task or a command that will see to campaign c.
Drives(r, c) ==
    \/ job[r].campaign = c /\ job[r].pc \in Working \cup {"queued"}
    \/ request[r].campaign = c /\ request[r].pc = "dispatch"
Driven(c) == \E r \in Requests : Drives(r, c)

\* A command under way is one of the actions of the control tower.
Commanded == \A r \in Requests : request[r].pc = "read" => request[r].action \in Actions

\* The whole of what is proved of every reachable state.
Inv == IInv /\ Repeats /\ Commanded /\ RunningIsDriven

\* A request keeps its campaign driven, and hands it over to the task.
LEMMA RequestDrives ==
  ASSUME Typing, Dispatched, Commanded, RunningIsDriven, Undisturbed,
         NEW r \in Requests, RequestStep(r),
         crashes' = crashes, \A q \in Requests : job'[q].pc # "killed",
         NEW c \in Campaigns, campaign'[c].status = "RUNNING"
  PROVE  \E q \in Requests : Drives(q, c)'
<1>1. /\ campaign[c].status = "RUNNING" => \E q \in Requests : Drives(q, c)
      /\ request[r].pc \in Waiting => job[r].pc = "none"
      /\ crashes \in Nat
  BY DEF RunningIsDriven, Drives, Dispatched, Typing, TypeOK
<1>2. ASSUME NEW x \in Campaigns, NEW a \in Actions, NEW k \in Keys, ReadCampaign(r, x, a, k)
      PROVE  \E q \in Requests : Drives(q, c)'
  BY <1>1, <1>2 DEF ReadCampaign, dbVars, Drives, Typing, TypeOK
<1>3. ASSUME NEW w \in Requests, CommitCampaign(r, w)
      PROVE  \E q \in Requests : Drives(q, c)'
  <2>1. CASE Dispatches(request[r].action) /\ request[r].campaign = c
    BY <1>3, <2>1 DEF CommitCampaign, Drives, Typing, TypeOK, Request
  <2>2. CASE ~Dispatches(request[r].action) /\ request[r].campaign = c
    <3>1. request[r].action \in {"pause", "cancel"}
      BY <1>3, <2>2 DEF CommitCampaign, Commanded, Actions, Dispatches
    <3>2. campaign'[c].status = CommandedStatus(request[r].action)
      BY <1>3, <2>2 DEF CommitCampaign, Typing, TypeOK, CampaignRow
    <3> QED
      BY <3>1, <3>2 DEF CommandedStatus
  <2>3. CASE request[r].campaign # c
    <3>1. campaign[c].status = "RUNNING"
      BY <1>3, <2>3 DEF CommitCampaign, Typing, TypeOK
    <3>2. PICK q \in Requests : Drives(q, c)
      BY <1>1, <3>1
    <3>3. q # r
      BY <1>1, <1>3, <2>3, <3>2 DEF CommitCampaign, Drives, Waiting, Working
    <3> QED
      BY <1>3, <3>2, <3>3 DEF CommitCampaign, Drives, Typing, TypeOK
  <2> QED
    BY <2>1, <2>2, <2>3
<1>4. ASSUME RejectDuplicate(r)
      PROVE  \E q \in Requests : Drives(q, c)'
  BY <1>1, <1>4 DEF RejectDuplicate, dbVars, Drives, Typing, TypeOK
<1>5. ASSUME NEW w \in Requests, NEW a \in Actions, NEW k \in Keys, ReadWorkflow(r, w, a, k)
      PROVE  \E q \in Requests : Drives(q, c)'
  BY <1>1, <1>5 DEF ReadWorkflow, dbVars, Drives, Typing, TypeOK
<1>6. ASSUME CommitWorkflow(r)
      PROVE  \E q \in Requests : Drives(q, c)'
  <2>1. CASE Dispatches(request[r].action) /\ request[r].campaign = c
    BY <1>6, <2>1 DEF CommitWorkflow, Drives, Typing, TypeOK, Request
  <2>2. CASE /\ ~Dispatches(request[r].action) /\ request[r].campaign = c
             /\ CommandedStatus(request[r].action) # request[r].seen
    <3>1. request[r].action \in {"pause", "cancel"}
      BY <1>6, <2>2 DEF CommitWorkflow, Commanded, Actions, Dispatches
    <3>2. campaign'[c].status = CommandedStatus(request[r].action)
      BY <1>6, <2>2 DEF CommitWorkflow, Typing, TypeOK, CampaignRow
    <3> QED
      BY <3>1, <3>2 DEF CommandedStatus
  <2>3. CASE \/ request[r].campaign # c
             \/ CommandedStatus(request[r].action) = request[r].seen
    <3>1. campaign[c].status = "RUNNING"
      BY <1>6, <2>3 DEF CommitWorkflow, Typing, TypeOK, CampaignRow
    <3>2. PICK q \in Requests : Drives(q, c)
      BY <1>1, <3>1
    <3>3. q # r
      BY <1>1, <1>6, <3>2 DEF CommitWorkflow, Drives, Waiting, Working
    <3> QED
      BY <1>6, <3>2, <3>3 DEF CommitWorkflow, Drives, Typing, TypeOK
  <2> QED
    BY <2>1, <2>2, <2>3
<1>7. ASSUME Dispatch(r)
      PROVE  \E q \in Requests : Drives(q, c)'
  <2>1. PICK q \in Requests : Drives(q, c)
    BY <1>1, <1>7 DEF Dispatch, dbVars
  <2>2. CASE q = r
    BY <1>1, <1>7, <2>1, <2>2
    DEF Dispatch, Drives, NoJob, Typing, TypeOK, Waiting, Working
  <2>3. CASE q # r
    BY <1>7, <2>1, <2>3 DEF Dispatch, Drives, Typing, TypeOK
  <2> QED
    BY <2>2, <2>3
<1>8. ASSUME StoreTaskId(r)
      PROVE  \E q \in Requests : Drives(q, c)'
  BY <1>1, <1>8 DEF StoreTaskId, Drives, Typing, TypeOK
<1>9. ASSUME Revoke(r)
      PROVE  \E q \in Requests : Drives(q, c)'
  <2>1. job' = job
    <3>1. \A t \in Requests : [job EXCEPT ![t] = Killed][t].pc = "killed"
      BY DEF Killed, NoJob, Typing, TypeOK
    <3>2. request[r].old \in Requests \cup {None}
      BY DEF Typing, TypeOK, Request
    <3>3. job' = job \/ (request[r].old # None /\ job' = [job EXCEPT ![request[r].old] = Killed])
      BY <1>9 DEF Revoke
    <3> QED
      BY <3>1, <3>2, <3>3
  <2> QED
    BY <1>1, <1>9, <2>1 DEF Revoke, dbVars, Drives, Typing, TypeOK
<1>10. ASSUME NEW x \in Campaigns, StartLegacy(r, x)
       PROVE  \E q \in Requests : Drives(q, c)'
  <2>1. PICK q \in Requests : Drives(q, c)
    BY <1>1, <1>10 DEF StartLegacy, dbVars
  <2>2. q # r
    BY <1>1, <1>10, <2>1 DEF StartLegacy, Drives, Waiting, Working
  <2> QED
    BY <1>10, <2>1, <2>2 DEF StartLegacy, Drives, Typing, TypeOK
<1>11. ASSUME CrashRequest(r)
       PROVE  FALSE
  BY <1>1, <1>11 DEF CrashRequest
<1> QED
  BY <1>2, <1>3, <1>4, <1>5, <1>6, <1>7, <1>8, <1>9, <1>10, <1>11 DEF RequestStep

\* A task drives its campaign until it stops it or hands it to the next batch.
LEMMA JobDrives ==
  ASSUME Typing, RunningIsDriven, Undisturbed, NEW r \in Requests, JobStep(r),
         crashes' = crashes, NEW c \in Campaigns, campaign'[c].status = "RUNNING"
  PROVE  \E q \in Requests : Drives(q, c)'
<1>1. /\ campaign[c].status = "RUNNING" => \E q \in Requests : Drives(q, c)
      /\ crashes \in Nat
  BY DEF RunningIsDriven, Drives, Typing, TypeOK
<1>2. ASSUME campaign'[c] = campaign[c], request' = request,
             \A q \in Requests : q # r => job'[q] = job[q],
             Drives(r, c) => Drives(r, c)'
      PROVE  \E q \in Requests : Drives(q, c)'
  BY <1>1, <1>2 DEF Drives
<1>3. ASSUME Defer(r)
      PROVE  \E q \in Requests : Drives(q, c)'
  BY <1>2, <1>3 DEF Defer, dbVars, Drives, Typing, TypeOK
<1>4. ASSUME Refuse(r)
      PROVE  \E q \in Requests : Drives(q, c)'
  <2>1. job[r].campaign # c
    BY <1>4 DEF Refuse, dbVars
  <2>2. job[r].pc = "queued" /\ (Drives(r, c) => request[r].campaign = c /\ request[r].pc = "dispatch")
    BY <1>4, <2>1 DEF Refuse, Drives
  <2> QED
    BY <1>2, <1>4, <2>2 DEF Refuse, dbVars, Drives, Typing, TypeOK
<1>5. ASSUME NEW batch \in SUBSET Listings, NEW quota \in 0..SimQuota, Begin(r, batch, quota)
      PROVE  \E q \in Requests : Drives(q, c)'
  <2>1. job'[r].pc = "loop" /\ job'[r].campaign = job[r].campaign
    BY <1>5 DEF Begin, Typing, TypeOK, Job
  <2>2. CASE job[r].campaign = c
    BY <2>1, <2>2 DEF Drives, Working
  <2>3. CASE job[r].campaign # c
    BY <1>2, <1>5, <2>1, <2>3 DEF Begin, Drives, Typing, TypeOK
  <2> QED
    BY <2>2, <2>3
<1>6. ASSUME Interrupt(r)
      PROVE  \E q \in Requests : Drives(q, c)'
  BY <1>2, <1>6 DEF Interrupt, dbVars, Drives, Working, Typing, TypeOK, Job
<1>7. ASSUME NEW l \in Listings, Pick(r, l)
      PROVE  \E q \in Requests : Drives(q, c)'
  BY <1>2, <1>7 DEF Pick, dbVars, Drives, Working, Typing, TypeOK, Job
<1>8. ASSUME Screen(r)
      PROVE  \E q \in Requests : Drives(q, c)'
  BY <1>2, <1>8 DEF Screen, dbVars, Drives, Working, Typing, TypeOK, Job
<1>9. ASSUME NEW lost \in 0..2, SendAccepted(r, lost)
      PROVE  \E q \in Requests : Drives(q, c)'
  BY <1>2, <1>9 DEF SendAccepted, dbVars, Drives, Working, Typing, TypeOK, Job
<1>10. ASSUME NEW lost \in 0..3, SendFailed(r, lost)
       PROVE  \E q \in Requests : Drives(q, c)'
  BY <1>2, <1>10 DEF SendFailed, dbVars, Drives, Working, Typing, TypeOK, Job
<1>11. ASSUME NEW lost \in 0..2, SendWithoutCredit(r, lost)
       PROVE  \E q \in Requests : Drives(q, c)'
  BY <1>2, <1>11 DEF SendWithoutCredit, dbVars, Drives, Working, Typing, TypeOK, Job
<1>12. ASSUME Record(r)
       PROVE  \E q \in Requests : Drives(q, c)'
  BY <1>2, <1>12 DEF Record, Drives, Working, Typing, TypeOK, Job
<1>13. ASSUME RecordFails(r)
       PROVE  \E q \in Requests : Drives(q, c)'
  BY <1>2, <1>13 DEF RecordFails, dbVars, Drives, Working, Typing, TypeOK, Job
<1>14. ASSUME Finish(r)
       PROVE  \E q \in Requests : Drives(q, c)'
  <2>1. CASE job[r].campaign = c
    <3>1. FinalStatus(r) = "RUNNING"
      BY <1>14, <2>1 DEF Finish, Typing, TypeOK
    <3>2. job'[r].pc = "requeue" /\ job'[r].campaign = c
      BY <1>14, <2>1, <3>1 DEF Finish, Typing, TypeOK, Job
    <3> QED
      BY <3>2 DEF Drives, Working
  <2>2. CASE job[r].campaign # c
    BY <1>2, <1>14, <2>2 DEF Finish, Ended, NoJob, Drives, Typing, TypeOK
  <2> QED
    BY <2>1, <2>2
<1>15. ASSUME Requeue(r)
       PROVE  \E q \in Requests : Drives(q, c)'
  BY <1>2, <1>15 DEF Requeue, NoJob, dbVars, Drives, Working, Typing, TypeOK
<1>16. ASSUME JobDies(r)
       PROVE  FALSE
  BY <1>1, <1>16 DEF JobDies
<1> QED
  BY <1>3, <1>4, <1>5, <1>6, <1>7, <1>8, <1>9, <1>10, <1>11, <1>12, <1>13, <1>14,
     <1>15, <1>16
  DEF JobStep

\* Only a read gives a request an action.
LEMMA CommandedStep ==
  ASSUME Typing, Commanded, [Next]_vars
  PROVE  Commanded'
<1>1. ASSUME NEW r \in Requests, RequestStep(r)
      PROVE  Commanded'
  <2>1. ASSUME NEW c \in Campaigns, NEW a \in Actions, NEW k \in Keys, ReadCampaign(r, c, a, k)
        PROVE  Commanded'
    BY <2>1 DEF ReadCampaign, NoRequest, Commanded, Typing, TypeOK
  <2>2. ASSUME NEW w \in Requests, NEW a \in Actions, NEW k \in Keys, ReadWorkflow(r, w, a, k)
        PROVE  Commanded'
    BY <2>2 DEF ReadWorkflow, NoRequest, Commanded, Typing, TypeOK
  <2>3. ASSUME NEW w \in Requests, CommitCampaign(r, w)
        PROVE  Commanded'
    BY <2>3 DEF CommitCampaign, Served, NoRequest, Commanded, Typing, TypeOK, Request
  <2>4. CASE request' = [request EXCEPT ![r] = Served(request[r])]
    BY <2>4 DEF Served, NoRequest, Commanded, Typing, TypeOK
  <2>5. ASSUME NEW x \in {"dispatch", "revoke", "store"}, request' = [request EXCEPT ![r].pc = x]
        PROVE  Commanded'
    BY <2>5 DEF Commanded, Typing, TypeOK, Request
  <2>6. CASE RejectDuplicate(r) \/ StoreTaskId(r) \/ Revoke(r) \/ CrashRequest(r)
    BY <2>4, <2>6 DEF RejectDuplicate, StoreTaskId, Revoke, CrashRequest
  <2>7. CASE CommitWorkflow(r)
    BY <2>5, <2>7 DEF CommitWorkflow
  <2>8. CASE Dispatch(r)
    BY <2>5, <2>8 DEF Dispatch
  <2>9. ASSUME NEW c \in Campaigns, StartLegacy(r, c)
        PROVE  Commanded'
    BY <2>9 DEF StartLegacy, NoRequest, Commanded, Typing, TypeOK
  <2> QED
    BY <1>1, <2>1, <2>2, <2>3, <2>6, <2>7, <2>8, <2>9 DEF RequestStep
<1>2. ASSUME NEW r \in Requests, JobStep(r)
      PROVE  Commanded'
  BY <1>2
  DEF JobStep, Defer, Refuse, Begin, Interrupt, Pick, Screen, SendAccepted, SendFailed,
      SendWithoutCredit, Record, RecordFails, Finish, Requeue, JobDies, Commanded
<1>3. CASE Environment \/ UNCHANGED vars
  BY <1>3 DEF Environment, AddToBlacklist, CloseWindow, OpenWindow, vars, Commanded
<1> QED
  BY <1>1, <1>2, <1>3 DEF Next

LEMMA InvInductive ==
  /\ Init => Inv
  /\ Inv /\ [Next]_vars => Inv'
<1>1. ASSUME Init
      PROVE  Inv
  <2>1. Commanded /\ RunningIsDriven
    BY <1>1 DEF Init, NoRequest, Commanded, RunningIsDriven
  <2> QED
    BY <1>1, <2>1, InitInvariant, InitRepeats DEF Inv
<1>2. ASSUME Inv, [Next]_vars
      PROVE  Inv'
  <2>1. IInv' /\ Typing'
    BY <1>2, InvariantStep DEF Inv, IInv
  <2>2. Repeats'
    BY <1>2, <2>1, RepeatsStep DEF Inv
  <2>3. Typing /\ Dispatched /\ Commanded /\ RunningIsDriven
    BY <1>2 DEF Inv, IInv
  <2>4. Commanded'
    BY <1>2, <2>3, CommandedStep
  <2>5. ASSUME NEW c \in Campaigns, campaign'[c].status = "RUNNING", Undisturbed'
        PROVE  \E q \in Requests : Drives(q, c)'
    <3>1. Undisturbed /\ crashes' = crashes /\ \A q \in Requests : job'[q].pc # "killed"
      BY <1>2, <2>1, <2>5, DisturbedStays DEF Inv
    <3>2. ASSUME NEW r \in Requests, RequestStep(r)
          PROVE  \E q \in Requests : Drives(q, c)'
      BY <2>3, <2>5, <3>1, <3>2, RequestDrives
    <3>3. ASSUME NEW r \in Requests, JobStep(r)
          PROVE  \E q \in Requests : Drives(q, c)'
      BY <2>3, <2>5, <3>1, <3>3, JobDrives
    <3>4. CASE Environment \/ UNCHANGED vars
      <4>1. campaign' = campaign /\ job' = job /\ request' = request
        BY <3>4 DEF Environment, AddToBlacklist, CloseWindow, OpenWindow, vars, dbVars
      <4> QED
        BY <2>3, <2>5, <3>1, <4>1 DEF RunningIsDriven, Drives
    <3> QED
      BY <1>2, <3>2, <3>3, <3>4 DEF Next
  <2>6. RunningIsDriven'
    BY <2>5 DEF RunningIsDriven, Drives
  <2> QED
    BY <2>1, <2>2, <2>4, <2>6 DEF Inv
<1> QED
  BY <1>1, <1>2

\* However the commands, the tasks and the clock interleave, a RUNNING campaign
\* has a task that runs or is queued, or a command about to dispatch one, until
\* a process dies or is killed (tasks.py 498-500, campaign_control.py 161-177).
THEOREM NoCampaignIsStranded == Spec => []RunningIsDriven
<1>1. Inv => RunningIsDriven
  BY DEF Inv
<1> QED
  BY <1>1, InvInductive, PTL DEF Spec

-----------------------------------------------------------------------------
(* The counter of a campaign that one chain of tasks drives.               *)

\* A batch from its first transaction to its last.
Batching == Working \ {"requeue"}

\* At most one task was ever started.
Alone ==
    \A q, u \in Requests : job[q].pc # "none" /\ job[u].pc # "none" => q = u

\* What the counter, or the total a batch is about to write, accounts for.
Counted ==
    \A c \in Campaigns :
        /\ (\A q \in Requests : job[q].campaign = c => job[q].pc \notin Batching)
              => accepted[c] <= campaign[c].sent + faults
        /\ \A q \in Requests :
              job[q].pc \in Batching /\ job[q].campaign = c => accepted[c] <= Total(q) + faults

Kept == Undisturbed /\ Alone => Counted

\* A step that neither sends nor writes the counter, and a started task stays.
Steady ==
    /\ accepted' = accepted
    /\ faults' \in Nat /\ faults <= faults'
    /\ \A c \in Campaigns : campaign'[c].sent = campaign[c].sent
    /\ \A q \in Requests :
          /\ job[q].pc # "none" => job'[q].pc # "none"
          /\ job[q].pc \in Batching <=> job'[q].pc \in Batching
          /\ job[q].pc \in Batching =>
                /\ job'[q].campaign = job[q].campaign
                /\ job'[q].prev = job[q].prev /\ job'[q].sent = job[q].sent

LEMMA SteadyCounted ==
  ASSUME Typing, Typing', Kept, Undisturbed, Steady
  PROVE  Alone' => Counted'
<1> SUFFICES ASSUME Alone'
             PROVE  Counted'
  OBVIOUS
<1>1. Counted
  BY DEF Kept, Alone, Steady
<1> SUFFICES ASSUME NEW c \in Campaigns
             PROVE  /\ (\A q \in Requests : job'[q].campaign = c => job'[q].pc \notin Batching)
                          => accepted'[c] <= campaign'[c].sent + faults'
                    /\ \A q \in Requests :
                          job'[q].pc \in Batching /\ job'[q].campaign = c
                          => accepted'[c] <= Total(q)' + faults'
  BY DEF Counted
<1>2. /\ accepted[c] \in Nat /\ faults \in Nat /\ faults' \in Nat
      /\ campaign[c].sent \in Nat
      /\ \A q \in Requests : Total(q) \in Nat
  BY DEF Typing, TypeOK, CampaignRow, Job, Total
<1>3. ASSUME \A q \in Requests : job'[q].campaign = c => job'[q].pc \notin Batching
      PROVE  accepted'[c] <= campaign'[c].sent + faults'
  <2>1. accepted[c] <= campaign[c].sent + faults
    BY <1>1, <1>3 DEF Counted, Steady
  <2> QED
    BY <1>2, <2>1 DEF Steady
<1>4. ASSUME NEW q \in Requests, job'[q].pc \in Batching, job'[q].campaign = c
      PROVE  accepted'[c] <= Total(q)' + faults'
  <2>1. accepted[c] <= Total(q) + faults
    BY <1>1, <1>4 DEF Counted, Steady
  <2>2. Total(q)' = Total(q)
    BY <1>4 DEF Steady, Total
  <2> QED
    BY <1>2, <2>1, <2>2 DEF Steady
<1> QED
  BY <1>3, <1>4

\* A request writes no counter and starts no batch.
LEMMA RequestSteady ==
  ASSUME Typing, Typing', Dispatched, NEW r \in Requests, RequestStep(r),
         \A q \in Requests : job'[q].pc # "killed"
  PROVE  Steady
<1>1. /\ faults' \in Nat /\ faults \in Nat
      /\ request[r].pc \in Waiting => job[r].pc = "none"
  BY DEF Typing, TypeOK, Dispatched
<1>2. ASSUME job' = job, accepted' = accepted, faults' = faults,
             \A c \in Campaigns : campaign'[c].sent = campaign[c].sent
      PROVE  Steady
  BY <1>1, <1>2 DEF Steady
<1>3. ASSUME NEW c \in Campaigns, NEW a \in Actions, NEW k \in Keys, ReadCampaign(r, c, a, k)
      PROVE  Steady
  BY <1>2, <1>3 DEF ReadCampaign, dbVars, budget, history
<1>4. ASSUME NEW w \in Requests, CommitCampaign(r, w)
      PROVE  Steady
  <2>1. \A c \in Campaigns : campaign'[c].sent = campaign[c].sent
    BY <1>4 DEF CommitCampaign, Typing, TypeOK, CampaignRow
  <2> QED
    BY <1>2, <1>4, <2>1 DEF CommitCampaign, budget, history
<1>5. ASSUME RejectDuplicate(r)
      PROVE  Steady
  BY <1>2, <1>5 DEF RejectDuplicate, dbVars, budget, history
<1>6. ASSUME NEW w \in Requests, NEW a \in Actions, NEW k \in Keys, ReadWorkflow(r, w, a, k)
      PROVE  Steady
  BY <1>2, <1>6 DEF ReadWorkflow, dbVars, budget, history
<1>7. ASSUME CommitWorkflow(r)
      PROVE  Steady
  <2>1. \A c \in Campaigns : campaign'[c].sent = campaign[c].sent
    BY <1>7 DEF CommitWorkflow, Typing, TypeOK, CampaignRow
  <2> QED
    BY <1>2, <1>7, <2>1 DEF CommitWorkflow, budget, history
<1>8. ASSUME job[r].pc = "none", job'[r].pc = "queued", \A q \in Requests : q # r => job'[q] = job[q],
             accepted' = accepted, faults' = faults, campaign' = campaign
      PROVE  Steady
  BY <1>1, <1>8 DEF Steady, Batching, Working
<1>9. ASSUME Dispatch(r)
      PROVE  Steady
  <2>1. job'[r].pc = "queued" /\ \A q \in Requests : q # r => job'[q] = job[q]
    BY <1>9 DEF Dispatch, NoJob, Typing, TypeOK
  <2> QED
    BY <1>1, <1>8, <1>9, <2>1 DEF Dispatch, Waiting, dbVars, budget, history
<1>10. ASSUME StoreTaskId(r)
       PROVE  Steady
  BY <1>2, <1>10 DEF StoreTaskId, budget, history
<1>11. ASSUME Revoke(r)
       PROVE  Steady
  <2>1. job' = job
    <3>1. \A t \in Requests : [job EXCEPT ![t] = Killed][t].pc = "killed"
      BY DEF Killed, NoJob, Typing, TypeOK
    <3>2. request[r].old \in Requests \cup {None}
      BY DEF Typing, TypeOK, Request
    <3>3. job' = job \/ (request[r].old # None /\ job' = [job EXCEPT ![request[r].old] = Killed])
      BY <1>11 DEF Revoke
    <3> QED
      BY <3>1, <3>2, <3>3
  <2> QED
    BY <1>2, <1>11, <2>1 DEF Revoke, dbVars, budget, history
<1>12. ASSUME NEW c \in Campaigns, StartLegacy(r, c)
       PROVE  Steady
  <2>1. job'[r].pc = "queued" /\ \A q \in Requests : q # r => job'[q] = job[q]
    BY <1>12 DEF StartLegacy, NoJob, Typing, TypeOK
  <2> QED
    BY <1>1, <1>8, <1>12, <2>1 DEF StartLegacy, Waiting, dbVars, budget, history
<1>13. ASSUME CrashRequest(r)
       PROVE  Steady
  BY <1>2, <1>13 DEF CrashRequest, dbVars, history
<1> QED
  BY <1>3, <1>4, <1>5, <1>6, <1>7, <1>9, <1>10, <1>11, <1>12, <1>13 DEF RequestStep

\* A message of the only task: what is not counted is a fault.
LEMMA SendCounted ==
  ASSUME Typing, Typing', Kept, Undisturbed, NEW r \in Requests, job[r].pc = "sleep",
         NEW n \in Nat, NEW s \in Nat, NEW f \in Nat, n <= s + f,
         Texted(r, n), campaign' = campaign, faults' = faults + f,
         job'[r].campaign = job[r].campaign, job'[r].pc \in Batching,
         Total(r)' = Total(r) + s, \A q \in Requests : q # r => job'[q] = job[q]
  PROVE  Alone' => Counted'
<1> SUFFICES ASSUME Alone'
             PROVE  Counted'
  OBVIOUS
<1>1. job[r].pc # "none" /\ job'[r].pc # "none"
  BY DEF Batching, Working
<1>2. Alone
  BY <1>1 DEF Alone
<1>3. \A q \in Requests : q # r => job[q].pc = "none" /\ job'[q].pc = "none"
  BY <1>1, <1>2 DEF Alone
<1>4. Counted /\ job[r].campaign \in Campaigns /\ job[r].pc \in Batching
  BY <1>2 DEF Kept, Typing, JobsOwn, Alive, Batching, Working
<1> SUFFICES ASSUME NEW c \in Campaigns
             PROVE  /\ (\A q \in Requests : job'[q].campaign = c => job'[q].pc \notin Batching)
                          => accepted'[c] <= campaign'[c].sent + faults'
                    /\ \A q \in Requests :
                          job'[q].pc \in Batching /\ job'[q].campaign = c
                          => accepted'[c] <= Total(q)' + faults'
  BY DEF Counted
<1>5. /\ accepted[c] \in Nat /\ faults \in Nat /\ campaign[c].sent \in Nat
      /\ Total(r) \in Nat
      /\ accepted'[c] = IF c = job[r].campaign THEN accepted[c] + n ELSE accepted[c]
  BY DEF Typing, TypeOK, CampaignRow, Job, Total, Texted
<1>6. CASE c = job[r].campaign
  <2>1. accepted[c] <= Total(r) + faults
    BY <1>4, <1>6 DEF Counted
  <2>2. accepted'[c] <= Total(r)' + faults'
    BY <1>5, <1>6, <2>1
  <2>3. \A q \in Requests : job'[q].pc \in Batching => q = r
    BY <1>3 DEF Batching, Working
  <2> QED
    BY <1>6, <2>2, <2>3
<1>7. CASE c # job[r].campaign
  <2>1. \A q \in Requests : /\ job[q].campaign = c => job[q].pc \notin Batching
                            /\ job'[q].campaign = c => job'[q].pc \notin Batching
    BY <1>3, <1>7 DEF Batching, Working
  <2>2. accepted[c] <= campaign[c].sent + faults
    BY <1>4, <2>1 DEF Counted
  <2>3. accepted'[c] <= campaign'[c].sent + faults'
    BY <1>5, <1>7, <2>2
  <2> QED
    BY <2>1, <2>3
<1> QED
  BY <1>6, <1>7

\* Each step of the only task keeps the account of its campaign.
LEMMA JobCounted ==
  ASSUME Typing, Typing', Kept, Undisturbed, NEW r \in Requests, JobStep(r),
         crashes' = crashes
  PROVE  Alone' => Counted'
<1>1. /\ faults' \in Nat /\ faults \in Nat /\ crashes \in Nat
      /\ job[r].pc \in Alive => job[r].campaign \in Campaigns
  BY DEF Typing, TypeOK, JobsOwn
<1>2. ASSUME \A q \in Requests : q # r => job'[q] = job[q], job'[r].pc # "none",
             job[r].pc \in Batching <=> job'[r].pc \in Batching,
             job[r].pc \in Batching =>
                /\ job'[r].campaign = job[r].campaign
                /\ job'[r].prev = job[r].prev /\ job'[r].sent = job[r].sent,
             accepted' = accepted, campaign' = campaign, faults <= faults'
      PROVE  Alone' => Counted'
  <2>1. Steady
    BY <1>1, <1>2 DEF Steady
  <2> QED
    BY <2>1, SteadyCounted
<1>3. CASE Defer(r)
  BY <1>1, <1>2, <1>3 DEF Defer, Batching, Working, Typing, TypeOK, dbVars, budget, history
<1>4. CASE Refuse(r)
  BY <1>1, <1>2, <1>4
  DEF Refuse, Ended, NoJob, Batching, Working, Typing, TypeOK, dbVars, budget, history
<1>5. ASSUME NEW batch \in SUBSET Listings, NEW quota \in 0..SimQuota, Begin(r, batch, quota), Alone'
      PROVE  Counted'
  <2>1. /\ job[r].pc = "queued"
        /\ job'[r].pc = "loop" /\ job'[r].campaign = job[r].campaign
        /\ job'[r].prev = campaign[job[r].campaign].sent /\ job'[r].sent = 0
        /\ \A q \in Requests : q # r => job'[q] = job[q]
    BY <1>5 DEF Begin, Typing, TypeOK, Job
  <2>2. Alone /\ \A q \in Requests : q # r => job[q].pc = "none" /\ job'[q].pc = "none"
    BY <1>5, <2>1 DEF Alone
  <2>3. Counted
    BY <2>2 DEF Kept
  <2>4. /\ accepted' = accepted /\ faults' = faults
        /\ \A c \in Campaigns : campaign'[c].sent = campaign[c].sent
    BY <1>5 DEF Begin, Typing, TypeOK, CampaignRow, budget, history
  <2>5. \A q \in Requests : job[q].pc \notin Batching /\ (job'[q].pc \in Batching => q = r)
    BY <2>1, <2>2 DEF Batching, Working
  <2>6. \A c \in Campaigns : accepted[c] <= campaign[c].sent + faults
    BY <2>3, <2>5 DEF Counted
  <2>7. job[r].campaign \in Campaigns
    BY <1>1, <2>1 DEF Alive
  <2>8. Total(r)' = campaign[job[r].campaign].sent
    BY <2>1, <2>7 DEF Total, Typing, TypeOK, CampaignRow
  <2> QED
    BY <2>1, <2>4, <2>5, <2>6, <2>8 DEF Counted
<1>6. CASE Interrupt(r)
  BY <1>1, <1>2, <1>6
  DEF Interrupt, Batching, Working, Typing, TypeOK, Job, dbVars, budget, history
<1>7. ASSUME NEW l \in Listings, Pick(r, l)
      PROVE  Alone' => Counted'
  BY <1>1, <1>2, <1>7
  DEF Pick, Batching, Working, Typing, TypeOK, Job, dbVars, budget, history
<1>8. CASE Screen(r)
  <2>1. /\ \A q \in Requests : q # r => job'[q] = job[q]
        /\ job'[r].pc \in {"loop", "finish", "sleep"}
        /\ job'[r].campaign = job[r].campaign
        /\ job'[r].prev = job[r].prev /\ job'[r].sent = job[r].sent
    BY <1>8 DEF Screen, Typing, TypeOK, Job
  <2> QED
    BY <1>1, <1>2, <1>8, <2>1 DEF Screen, Batching, Working, dbVars, budget, history
<1>9. ASSUME NEW lost \in 0..2, SendAccepted(r, lost)
      PROVE  Alone' => Counted'
  <2>1. /\ \A q \in Requests : q # r => job'[q] = job[q]
        /\ job[r].pc = "sleep" /\ job'[r].pc = "record"
        /\ job'[r].campaign = job[r].campaign
        /\ job'[r].prev = job[r].prev /\ job'[r].sent = job[r].sent + 1
    BY <1>9 DEF SendAccepted, Typing, TypeOK, Job
  <2>2. Total(r)' = Total(r) + 1
    BY <2>1 DEF Total, Typing, TypeOK, Job
  <2>3. Texted(r, 1 + lost) /\ faults' = faults + lost /\ campaign' = campaign
    BY <1>9 DEF SendAccepted, Fault, dbVars
  <2>4. 1 + lost \in Nat /\ 1 \in Nat /\ lost \in Nat /\ 1 + lost <= 1 + lost
    OBVIOUS
  <2>5. job'[r].pc \in Batching
    BY <2>1 DEF Batching, Working
  <2> QED
    BY <2>1, <2>2, <2>3, <2>4, <2>5, SendCounted
<1>10. ASSUME NEW lost \in 0..3, SendFailed(r, lost)
       PROVE  Alone' => Counted'
  <2>1. /\ \A q \in Requests : q # r => job'[q] = job[q]
        /\ job[r].pc = "sleep" /\ job'[r].pc = "loop"
        /\ job'[r].campaign = job[r].campaign
        /\ job'[r].prev = job[r].prev /\ job'[r].sent = job[r].sent
    BY <1>10 DEF SendFailed, Typing, TypeOK, Job
  <2>2. Total(r)' = Total(r) + 0
    BY <2>1 DEF Total, Typing, TypeOK, Job
  <2>3. Texted(r, lost) /\ faults' = faults + (1 + lost) /\ campaign' = campaign
    BY <1>10 DEF SendFailed, Fault, dbVars
  <2>4. lost \in Nat /\ 0 \in Nat /\ 1 + lost \in Nat /\ lost <= 0 + (1 + lost)
    OBVIOUS
  <2>5. job'[r].pc \in Batching
    BY <2>1 DEF Batching, Working
  <2> QED
    BY <2>1, <2>2, <2>3, <2>4, <2>5, SendCounted
<1>11. ASSUME NEW lost \in 0..2, SendWithoutCredit(r, lost)
       PROVE  Alone' => Counted'
  <2>1. /\ \A q \in Requests : q # r => job'[q] = job[q]
        /\ job[r].pc = "sleep" /\ job'[r].pc = "finish"
        /\ job'[r].campaign = job[r].campaign
        /\ job'[r].prev = job[r].prev /\ job'[r].sent = job[r].sent
    BY <1>11 DEF SendWithoutCredit, Typing, TypeOK, Job
  <2>2. Total(r)' = Total(r) + 0
    BY <2>1 DEF Total, Typing, TypeOK, Job
  <2>3. Texted(r, lost) /\ faults' = faults + (1 + lost) /\ campaign' = campaign
    BY <1>11 DEF SendWithoutCredit, Fault, dbVars
  <2>4. lost \in Nat /\ 0 \in Nat /\ 1 + lost \in Nat /\ lost <= 0 + (1 + lost)
    OBVIOUS
  <2>5. job'[r].pc \in Batching
    BY <2>1 DEF Batching, Working
  <2> QED
    BY <2>1, <2>2, <2>3, <2>4, <2>5, SendCounted
<1>12. CASE Record(r)
  BY <1>1, <1>2, <1>12 DEF Record, Batching, Working, Typing, TypeOK, Job, budget, history
<1>13. CASE RecordFails(r)
  BY <1>1, <1>2, <1>13
  DEF RecordFails, Fault, Batching, Working, Typing, TypeOK, Job, dbVars, history
<1>14. ASSUME Finish(r), Alone'
       PROVE  Counted'
  <2>1. /\ job[r].pc \in Batching
        /\ job'[r].pc \in {"requeue", "done"}
        /\ \A q \in Requests : q # r => job'[q] = job[q]
    BY <1>14 DEF Finish, Ended, NoJob, Batching, Working, Typing, TypeOK, Job
  <2>2. Alone /\ \A q \in Requests : q # r => job[q].pc = "none" /\ job'[q].pc = "none"
    BY <1>14, <2>1 DEF Alone, Batching, Working
  <2>3. Counted
    BY <2>2 DEF Kept
  <2>4. job[r].campaign \in Campaigns
    BY <1>1, <2>1 DEF Alive, Batching
  <2>5. /\ accepted' = accepted /\ faults' = faults
        /\ \A c \in Campaigns : campaign'[c].sent =
              IF c = job[r].campaign THEN Total(r) ELSE campaign[c].sent
    BY <1>14, <2>4 DEF Finish, Typing, TypeOK, CampaignRow, budget, history
  <2>6. \A q \in Requests : job'[q].pc \notin Batching /\ (job[q].pc \in Batching => q = r)
    BY <2>1, <2>2 DEF Batching, Working
  <2>7. accepted[job[r].campaign] <= Total(r) + faults
    BY <2>1, <2>3, <2>4 DEF Counted
  <2>8. \A c \in Campaigns : c # job[r].campaign => accepted[c] <= campaign[c].sent + faults
    BY <2>3, <2>6 DEF Counted
  <2> QED
    BY <2>5, <2>6, <2>7, <2>8 DEF Counted
<1>15. CASE Requeue(r)
  <2>1. /\ \A q \in Requests : q # r => job'[q] = job[q]
        /\ job[r].pc = "requeue" /\ job'[r].pc = "queued"
    BY <1>15 DEF Requeue, NoJob, Typing, TypeOK
  <2> QED
    BY <1>1, <1>2, <1>15, <2>1 DEF Requeue, Batching, Working, dbVars, budget, history
<1>16. ASSUME JobDies(r)
       PROVE  FALSE
  BY <1>1, <1>16 DEF JobDies
<1> QED
  BY <1>3, <1>4, <1>5, <1>6, <1>7, <1>8, <1>9, <1>10, <1>11, <1>12, <1>13, <1>14,
     <1>15, <1>16
  DEF JobStep

LEMMA KeptStep ==
  ASSUME Inv, Typing', Kept, [Next]_vars
  PROVE  Kept'
<1> SUFFICES ASSUME Undisturbed', Alone'
             PROVE  Counted'
  BY DEF Kept
<1>1. IInv /\ Typing /\ Dispatched /\ Repeats
  BY DEF Inv, IInv
<1>2. Undisturbed /\ crashes' = crashes /\ \A q \in Requests : job'[q].pc # "killed"
  BY <1>1, DisturbedStays
<1>3. ASSUME NEW r \in Requests, RequestStep(r)
      PROVE  Counted'
  BY <1>1, <1>2, <1>3, RequestSteady, SteadyCounted
<1>4. ASSUME NEW r \in Requests, JobStep(r)
      PROVE  Counted'
  BY <1>1, <1>2, <1>4, JobCounted
<1>5. CASE Environment \/ UNCHANGED vars
  <2>1. campaign' = campaign /\ job' = job /\ accepted' = accepted /\ faults' = faults
    BY <1>5
    DEF Environment, AddToBlacklist, CloseWindow, OpenWindow, vars, dbVars, budget, history
  <2>2. Steady
    BY <1>1, <2>1 DEF Steady, Typing, TypeOK
  <2> QED
    BY <1>1, <1>2, <2>2, SteadyCounted
<1> QED
  BY <1>3, <1>4, <1>5 DEF Next

LEMMA InitKept == Init => Kept
BY DEF Init, NoJob, Kept, Counted, Batching, Working

\* "Preserve cumulative counters": a campaign that one chain of tasks drives
\* misses no message between two batches, however many batches it takes, but
\* for the copies of lost answers (campaign_runner.py 121, 247).
THEOREM NoMessageIsMissed == Spec => []CountersKept
<1>1. Init => Inv /\ Kept
  BY InvInductive, InitKept
<1>2. Inv /\ Kept /\ [Next]_vars => (Inv /\ Kept)'
  <2> SUFFICES ASSUME Inv, Kept, [Next]_vars
               PROVE  Inv' /\ Kept'
    OBVIOUS
  <2>1. Inv' /\ Typing'
    BY InvInductive DEF Inv, IInv
  <2> QED
    BY <2>1, KeptStep
<1>3. Inv /\ Kept => CountersKept
  <2> SUFFICES ASSUME Inv, Kept, NEW c \in Campaigns, Idle(c), Undisturbed,
                      Cardinality({q \in Requests : job[q].pc # "none"}) = 1
               PROVE  accepted[c] <= campaign[c].sent + faults
    BY DEF CountersKept
  <2> DEFINE Started == {q \in Requests : job[q].pc # "none"}
  <2>1. IsFiniteSet(Started)
    <3>1. Started \in SUBSET Requests
      OBVIOUS
    <3> QED
      BY <3>1, SomeRequests
  <2>2. PICK u : Started = {u}
    <3>1. Cardinality(Started) = 1
      OBVIOUS
    <3> HIDE DEF Started
    <3> QED
      BY <2>1, <3>1, FS_Singleton
  <2>3. Alone
    BY <2>2 DEF Alone
  <2>4. \A q \in Requests : job[q].campaign = c => job[q].pc \notin Batching
    BY DEF Idle, Batching
  <2> QED
    BY <2>3, <2>4 DEF Kept, Counted
<1> QED
  BY <1>1, <1>2, <1>3, PTL DEF Spec
=============================================================================
