-------------------------- MODULE PhoneActivations --------------------------
(***************************************************************************)
(* The telephone numbers bought for one-time passwords and the rows that   *)
(* follow them (phone_operations.py).  A number is paid when it is bought; *)
(* the provider (external) delivers a message, lets it expire or refunds   *)
(* it.  Requests and the reconciler read a row, ask the provider and write *)
(* the row again, over whatever was written meanwhile.                     *)
(***************************************************************************)
EXTENDS Integers, FiniteSets

CONSTANTS
    Orders,        \* the numbers bought, by the time of their purchase
    Manual,        \* those of them that are reserved by hand
    Visits,        \* requests that may be in flight, and the reconciler
    Reconciler,    \* the visit of reconcile_phone_activations_task
    Limit,         \* rows the reconciler looks at
    MaxFaults      \* bound: failed calls and processes that die

ASSUME PhonesAssumption ==
    IsFiniteSet(Orders) /\ Manual \subseteq Orders /\ Reconciler \in Visits

VARIABLES
    order,        \* what the provider says of each number
    activation,   \* phone_activations.status; "none" when there is no row
    late,         \* the numbers whose expires_at has passed
    visit,        \* the requests and reconcilers
    faults

phoneVars == <<order, activation, late, visit, faults>>

\* EXPIRED stands for REFUNDED too.
ActiveStatuses == {"RESERVED", "WAITING"}
TerminalStatuses == {"USED", "CANCELLED", "EXPIRED", "FAILED"}

NoVisit == [at |-> "idle", order |-> 0, todo |-> {}, late |-> {}, status |-> "none"]

InitPhones ==
    /\ order = [o \in Orders |-> "none"]
    /\ activation = [o \in Orders |-> "none"]
    /\ late = {}
    /\ visit = [v \in Visits |-> NoVisit]
    /\ faults = 0

Fault ==
    /\ faults < MaxFaults
    /\ faults' = faults + 1

SetActivation(o, status) == activation' = [activation EXCEPT ![o] = status]

-----------------------------------------------------------------------------
(* The provider.                                                           *)

\* Mutation of Buy: a refused purchase is taken for an order.
BuyRefused(o) == order[o] = "none" /\ UNCHANGED order

Buy(o) == order[o] = "none" /\ order' = [order EXCEPT ![o] = "waiting"]

\* cancel_number: accepted while no message was delivered.
Accepts(o) == order[o] = "waiting"

CancelAtProvider(o) ==
    order' = IF Accepts(o) THEN [order EXCEPT ![o] = "cancelled"] ELSE order

ProviderMoves(o) ==
    /\ order[o] = "waiting"
    /\ \E s \in {"received", "expired"} : order' = [order EXCEPT ![o] = s]
    /\ UNCHANGED <<activation, late, visit, faults>>

TimePasses(o) ==
    /\ order[o] # "none"
    /\ o \notin late
    /\ late' = late \cup {o}
    /\ UNCHANGED <<order, activation, visit, faults>>

-----------------------------------------------------------------------------
(* Reservation by hand: bought, then recorded.                             *)

Reserve(v, o) ==
    /\ visit[v] = NoVisit
    /\ v # Reconciler
    /\ \A p \in Manual : p < o => order[p] # "none"
    /\ Buy(o)
    /\ visit' = [visit EXCEPT ![v].at = "record", ![v].order = o]
    /\ UNCHANGED <<activation, late, faults>>

RecordReserved(v) ==
    /\ visit[v].at = "record"
    /\ SetActivation(visit[v].order, "WAITING")
    /\ visit' = [visit EXCEPT ![v] = NoVisit]
    /\ UNCHANGED <<order, late, faults>>

-----------------------------------------------------------------------------
(* refresh_phone_activation, by hand or for the reconciler.                *)

\* The request ends; the reconciler goes on with the rows it has to refresh.
Leave(v) ==
    visit' = [visit EXCEPT ![v] = IF @.todo = {} THEN NoVisit
                                  ELSE [NoVisit EXCEPT !.at = "next", !.todo = visit[v].todo]]

Listed == {o \in Orders : activation[o] \in ActiveStatuses}

\* reconcile_phone_activations lists the newest active rows, among them those
\* that are late.
ReconcileReads(v) ==
    /\ v = Reconciler
    /\ visit[v] = NoVisit
    /\ Listed # {}
    /\ \E L \in SUBSET Listed :
          /\ Cardinality(L) = (IF Cardinality(Listed) < Limit THEN Cardinality(Listed) ELSE Limit)
          /\ \A o \in L, p \in Listed \ L : o > p
          /\ visit' = [visit EXCEPT ![v] =
                [NoVisit EXCEPT !.at = "expire", !.late = L \cap late, !.todo = L \ late]]
    /\ UNCHANGED <<order, activation, late, faults>>

\* Mutation of Expired: late rows are refreshed like the others, never expired.
ExpiredNever(L) == activation

Expired(L) == [o \in Orders |-> IF o \in L THEN "EXPIRED" ELSE activation[o]]

ReconcileExpires(v) ==
    /\ visit[v].at = "expire"
    /\ activation' = Expired(visit[v].late)
    /\ Leave(v)
    /\ UNCHANGED <<order, late, faults>>

\* Reads the row of o; a row that is settled or late needs no provider.
RefreshReads(v, o) ==
    /\ activation[o] # "none"
    /\ \/ visit[v] = NoVisit /\ v # Reconciler /\ activation[o] \in ActiveStatuses
       \/ visit[v].at = "next" /\ o \in visit[v].todo
    /\ visit' = [visit EXCEPT ![v] =
          [NoVisit EXCEPT !.order = o, !.todo = visit[v].todo \ {o},
           !.at = IF activation[o] \in ActiveStatuses /\ o \notin late THEN "ask" ELSE "write",
           !.status = IF activation[o] \in ActiveStatuses /\ o \in late
                      THEN "EXPIRED" ELSE "none"]]
    /\ UNCHANGED <<order, activation, late, faults>>

\* What the answer of the provider makes of the status.
StatusOf(answer) ==
    CASE answer = "received" -> "RECEIVED"
      [] answer = "cancelled" -> "CANCELLED"
      [] answer = "expired" -> "EXPIRED"
      [] OTHER -> "none"

Asks(v) ==
    /\ visit[v].at = "ask"
    /\ visit' = [visit EXCEPT ![v].at = "write",
                              ![v].status = StatusOf(order[visit[v].order])]
    /\ UNCHANGED <<order, activation, late, faults>>

\* The provider does not answer: the row keeps its status.
AskFails(v) ==
    /\ visit[v].at = "ask"
    /\ Fault
    /\ visit' = [visit EXCEPT ![v].at = "write"]
    /\ UNCHANGED <<order, activation, late>>

Writes(v) ==
    /\ visit[v].at = "write"
    /\ IF visit[v].status = "none" THEN UNCHANGED activation
       ELSE SetActivation(visit[v].order, visit[v].status)
    /\ Leave(v)
    /\ UNCHANGED <<order, late, faults>>

-----------------------------------------------------------------------------
(* cancel_phone_activation.                                                *)

CancelReads(v, o) ==
    /\ visit[v] = NoVisit
    /\ v # Reconciler
    /\ activation[o] \notin TerminalStatuses \cup {"none"}
    /\ visit' = [visit EXCEPT ![v].at = "cancel", ![v].order = o]
    /\ UNCHANGED <<order, activation, late, faults>>

\* Mutation of CancelStatus: a rejected cancellation is taken for a success.
CancelStatusAlways(o) == "CANCELLED"

CancelStatus(o) == IF Accepts(o) THEN "CANCELLED" ELSE "none"

CancelCalls(v) ==
    /\ visit[v].at = "cancel"
    /\ CancelAtProvider(visit[v].order)
    /\ visit' = [visit EXCEPT ![v].at = "write", ![v].status = CancelStatus(visit[v].order)]
    /\ UNCHANGED <<activation, late, faults>>

\* The answer is lost, the number may be cancelled: the row does not say so.
CancelFails(v) ==
    /\ visit[v].at = "cancel"
    /\ Fault
    /\ CancelAtProvider(visit[v].order) \/ UNCHANGED order
    /\ visit' = [visit EXCEPT ![v].at = "write"]
    /\ UNCHANGED <<activation, late>>

VisitDies(v) ==
    /\ visit[v] # NoVisit
    /\ Fault
    /\ visit' = [visit EXCEPT ![v] = NoVisit]
    /\ UNCHANGED <<order, activation, late>>

-----------------------------------------------------------------------------

\* What a request or a reconciler that began does by itself.
VisitStep(v) ==
    \/ RecordReserved(v)
    \/ ReconcileExpires(v)
    \/ \E o \in visit[v].todo : RefreshReads(v, o)
    \/ Asks(v) \/ Writes(v)
    \/ CancelCalls(v)

VisitBegins(v) ==
    \/ \E o \in Manual : Reserve(v, o)
    \/ \E o \in Orders : RefreshReads(v, o) \/ CancelReads(v, o)

PhonesNext ==
    \/ \E v \in Visits :
          \/ VisitStep(v) \/ VisitBegins(v) \/ ReconcileReads(v)
          \/ AskFails(v) \/ CancelFails(v) \/ VisitDies(v)
    \/ \E o \in Orders : ProviderMoves(o) \/ TimePasses(o)

TypePhones ==
    /\ \A o \in Orders :
          /\ order[o] \in {"none", "waiting", "received", "cancelled", "expired"}
          /\ activation[o] \in ActiveStatuses \cup TerminalStatuses \cup {"none", "RECEIVED"}
          /\ activation[o] # "none" => order[o] # "none"
    /\ late \subseteq Orders
    /\ \A v \in Visits : visit[v].order \in Orders \cup {0} /\ visit[v].todo \subseteq Orders

\* A number whose row says CANCELLED is cancelled at the provider, hence not
\* paid, whoever wrote the row.
CancelledIsCancelled ==
    \A o \in Orders : activation[o] = "CANCELLED" => order[o] = "cancelled"

\* A row does not wait for its message for ever: the reconciler finds it late.
NumbersEnd == \A o \in Orders : (activation[o] = "WAITING") ~> (activation[o] # "WAITING")
=============================================================================
