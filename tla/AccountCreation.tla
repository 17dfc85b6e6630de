--------------------------- MODULE AccountCreation ---------------------------
(***************************************************************************)
(* The creation of a Leboncoin account (account_creation.py): a Celery     *)
(* task prepares its proxy, buys a number, records the account and the     *)
(* number, registers, waits for the one-time password and the e-mail code, *)
(* and is retried with another number when the registration fails.  Each   *)
(* stage reports to the workflow, which a reconciler closes when it lasts. *)
(***************************************************************************)
EXTENDS PhoneActivations

CONSTANT MaxAttempts   \* the first attempt and Celery's retries

VARIABLES
    job,        \* the Celery task: where it stands, its attempt and how that ends
    acct,       \* platform_accounts.status of each attempt's account
    workflow    \* workflow_runs.status of the account.create workflow

creationVars == <<job, acct, workflow>>
vars == <<phoneVars, creationVars>>

Attempts == 1 .. MaxAttempts

Init ==
    /\ InitPhones
    /\ job = [at |-> "created", n |-> 1, error |-> "none", number |-> "none"]
    /\ acct = [n \in Attempts |-> "none"]
    /\ workflow = "PENDING"

GoTo(at) == job' = [job EXCEPT !.at = at]

\* The attempt fails; Celery retries an AccountCreationError alone.
Fails(error) == job' = [job EXCEPT !.at = IF error = "retry" THEN "retry" ELSE "fail"]

\* _creation_checkpoint: whatever the status was.
Checkpoint == workflow' = "RUNNING"

-----------------------------------------------------------------------------
(* The request and the beginning of an attempt.                            *)

Dispatch ==
    /\ job.at = "created"
    /\ GoTo("queued")
    /\ UNCHANGED <<phoneVars, acct, workflow>>

\* The broker refuses, or the task is queued and its identifier not stored.
DispatchFails ==
    /\ job.at = "created"
    /\ Fault
    /\ workflow' = "FAILED"
    /\ \E at \in {"done", "queued"} : GoTo(at)
    /\ UNCHANGED <<order, activation, late, visit, acct>>

Start ==
    /\ job.at = "queued"
    /\ Checkpoint
    /\ GoTo("prepare")
    /\ UNCHANGED <<phoneVars, acct>>

\* Mode A rotates the proxy's address and checks the carrier.
Prepare ==
    /\ job.at = "prepare"
    /\ Checkpoint
    /\ GoTo("buy")
    /\ UNCHANGED <<phoneVars, acct>>

ProxyUnavailable ==
    /\ job.at = "prepare"
    /\ Fault
    /\ Fails("stop")
    /\ UNCHANGED <<order, activation, late, visit, acct, workflow>>

BuyNumber ==
    /\ job.at = "buy"
    /\ Buy(job.n)
    /\ GoTo("record")
    /\ UNCHANGED <<activation, late, visit, faults, acct, workflow>>

\* No country has a number, or the answer that names the bought one is lost.
BuyFails ==
    /\ job.at = "buy"
    /\ Fault
    /\ Buy(job.n) \/ UNCHANGED order
    /\ Fails("stop")
    /\ UNCHANGED <<activation, late, visit, acct, workflow>>

\* Mutation of Record: the number is only recorded with its password.
RecordAccountOnly ==
    /\ job.at = "record"
    /\ Checkpoint
    /\ acct' = [acct EXCEPT ![job.n] = "EN_CREATION"]
    /\ GoTo("otp")
    /\ UNCHANGED phoneVars

\* One transaction, between two checkpoints.
Record ==
    /\ job.at = "record"
    /\ Checkpoint
    /\ acct' = [acct EXCEPT ![job.n] = "EN_CREATION"]
    /\ SetActivation(job.n, "WAITING")
    /\ GoTo("otp")
    /\ UNCHANGED <<order, late, visit, faults>>

\* A checkpoint or the transaction fails, the number is bought.
RecordFails ==
    /\ job.at = "record"
    /\ Fault
    /\ Fails("stop")
    /\ UNCHANGED <<order, activation, late, visit, acct, workflow>>

-----------------------------------------------------------------------------
(* The registration, by Patchright or by Browser Use.                      *)

Otp ==
    /\ job.at = "otp"
    /\ order[job.n] = "received"
    /\ Checkpoint
    /\ GoTo("received")
    /\ UNCHANGED <<phoneVars, acct>>

\* poll_sms gave up: the number is cancelled here and again by the handler of
\* the exception.
OtpTimesOut ==
    /\ job.at = "otp"
    /\ order[job.n] # "received"
    /\ CancelAtProvider(job.n)
    /\ job' = [job EXCEPT !.at = "cancel", !.error = "retry"]
    /\ UNCHANGED <<activation, late, visit, faults, acct, workflow>>

MarkReceived ==
    /\ job.at = "received"
    /\ SetActivation(job.n, "RECEIVED")
    /\ GoTo("verify")
    /\ UNCHANGED <<order, late, visit, faults, acct, workflow>>

Verify ==
    /\ job.at = "verify"
    /\ Checkpoint
    /\ GoTo("succeed")
    /\ UNCHANGED <<phoneVars, acct>>

\* Mode A without the code of the e-mail.
EmailTimesOut ==
    /\ job.at = "verify"
    /\ job' = [job EXCEPT !.at = "cancel", !.error = "retry"]
    /\ UNCHANGED <<phoneVars, acct, workflow>>

\* The browser, the provider or a checkpoint fails, or DataDome blocks.
RegisterFails ==
    /\ job.at \in {"otp", "received", "verify"}
    /\ Fault
    /\ \E error \in {"retry", "stop"} : job' = [job EXCEPT !.at = "cancel", !.error = error]
    /\ UNCHANGED <<order, activation, late, visit, acct, workflow>>

-----------------------------------------------------------------------------
(* How an attempt ends.                                                    *)

CancelNumber ==
    /\ job.at = "cancel"
    /\ CancelAtProvider(job.n)
    /\ job' = [job EXCEPT !.at = "settle",
                          !.number = IF CancelStatus(job.n) = "none" THEN "FAILED"
                                     ELSE CancelStatus(job.n)]
    /\ UNCHANGED <<activation, late, visit, faults, acct, workflow>>

CancelNumberFails ==
    /\ job.at = "cancel"
    /\ Fault
    /\ CancelAtProvider(job.n) \/ UNCHANGED order
    /\ job' = [job EXCEPT !.at = "settle", !.number = "FAILED"]
    /\ UNCHANGED <<activation, late, visit, acct, workflow>>

\* Over whatever an operator or a refresh wrote since.
Settle ==
    /\ job.at = "settle"
    /\ acct' = [acct EXCEPT ![job.n] = "QUARANTAINE"]
    /\ SetActivation(job.n, job.number)
    /\ Fails(job.error)
    /\ UNCHANGED <<order, late, visit, faults, workflow>>

\* Over an operator's quarantine too.
Succeed ==
    /\ job.at = "succeed"
    /\ acct' = [acct EXCEPT ![job.n] = "EN_CHAUFFE"]
    /\ SetActivation(job.n, "USED")
    /\ GoTo("finish")
    /\ UNCHANGED <<order, late, visit, faults, workflow>>

\* The row of the account stays EN_CREATION, or the workflow is not closed.
SucceedFails ==
    /\ job.at \in {"succeed", "finish"}
    /\ Fault
    /\ Fails("stop")
    /\ UNCHANGED <<order, activation, late, visit, acct, workflow>>

Finish ==
    /\ job.at = "finish"
    /\ workflow' = "COMPLETED"
    /\ GoTo("done")
    /\ UNCHANGED <<phoneVars, acct>>

\* finish_account_creation_workflow takes an error without a text for none.
Fail ==
    /\ job.at = "fail"
    /\ workflow' \in {"FAILED", "COMPLETED"}
    /\ GoTo("done")
    /\ UNCHANGED <<phoneVars, acct>>

Retry ==
    /\ job.at = "retry"
    /\ IF job.n < MaxAttempts
       THEN /\ Checkpoint
            /\ job' = [at |-> "queued", n |-> job.n + 1, error |-> "none", number |-> "none"]
       ELSE /\ workflow' = "FAILED"
            /\ GoTo("done")
    /\ UNCHANGED <<phoneVars, acct>>

JobDies ==
    /\ job.at # "done"
    /\ Fault
    /\ GoTo("done")
    /\ UNCHANGED <<order, activation, late, visit, acct, workflow>>

-----------------------------------------------------------------------------
(* The reconciler of workflows looks at the age of the workflow alone.     *)

\* Mutation of Lasting: a workflow that began is left to its worker.
LastingPending == {"PENDING"}

Lasting == {"PENDING", "RUNNING"}

ReconcileWorkflow ==
    /\ workflow \in Lasting
    /\ workflow' = "FAILED"
    /\ UNCHANGED <<phoneVars, job, acct>>

-----------------------------------------------------------------------------

JobStep ==
    \/ Dispatch \/ Start \/ Prepare \/ BuyNumber \/ Record
    \/ Otp \/ OtpTimesOut \/ MarkReceived \/ Verify \/ EmailTimesOut
    \/ CancelNumber \/ Settle \/ Succeed \/ Finish \/ Fail \/ Retry

JobFails ==
    \/ DispatchFails \/ ProxyUnavailable \/ BuyFails \/ RecordFails
    \/ RegisterFails \/ CancelNumberFails \/ SucceedFails \/ JobDies

Next ==
    \/ JobStep \/ JobFails \/ ReconcileWorkflow
    \/ PhonesNext /\ UNCHANGED creationVars

-----------------------------------------------------------------------------

TypeOK ==
    /\ TypePhones
    /\ job.n \in Attempts
    /\ \A n \in Attempts : acct[n] \in {"none", "EN_CREATION", "EN_CHAUFFE", "QUARANTAINE"}
    /\ workflow \in {"PENDING", "RUNNING", "COMPLETED", "FAILED"}

\* Someone is about to record the number that was just bought.
BeingRecorded(o) ==
    \/ \E v \in Visits : visit[v].at = "record" /\ visit[v].order = o
    \/ o = job.n /\ job.at = "record"

\* A number that was paid has its row, so that it can be refunded: only a call
\* that failed or a process that died may have lost one.
PaidIsRecorded ==
    Cardinality({o \in Orders : order[o] # "none" /\ activation[o] = "none" /\ ~BeingRecorded(o)})
        <= faults

\* However the task ends, is retried or dies, the workflow is closed for good.
CreationsEnd == <>[](workflow \in {"COMPLETED", "FAILED"})
=============================================================================
