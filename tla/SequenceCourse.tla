--------------------------- MODULE SequenceCourse ---------------------------
(***************************************************************************)
(* What a follow-up sequence promises, whatever the tasks, webhooks and    *)
(* crashes do: its messages reach the seller in the order of the steps, a  *)
(* step is recorded only after its message left, and a sequence that was   *)
(* completed or cancelled is over: it sends nothing more and stays so.     *)
(***************************************************************************)
EXTENDS Integers

CONSTANTS
    Sequences,
    LastStep       \* the last index of the programme

VARIABLES
    status,        \* "none" before the sequence exists
    step,          \* the last recorded step, -1 before the first
    delivered      \* the steps whose message reached the seller

course == <<status, step, delivered>>

Init ==
    /\ status = [s \in Sequences |-> "none"]
    /\ step = [s \in Sequences |-> -1]
    /\ delivered = [s \in Sequences |-> {}]

Open(s) ==
    /\ status[s] = "none"
    /\ status' = [status EXCEPT ![s] = "ACTIVE"]
    /\ UNCHANGED <<step, delivered>>

\* The message of the next step leaves, possibly again.
Deliver(s) ==
    /\ status[s] = "ACTIVE"
    /\ delivered' = [delivered EXCEPT ![s] = @ \cup {step[s] + 1}]
    /\ UNCHANGED <<status, step>>

\* One transaction ends: it recorded the steps of some sequences and cancelled
\* others.
Settle(done, dropped) ==
    /\ \A s \in done \cup dropped : status[s] = "ACTIVE"
    /\ \A s \in done : step[s] + 1 \in delivered[s]
    /\ step' = [s \in Sequences |-> IF s \in done THEN step[s] + 1 ELSE step[s]]
    /\ status' = [s \in Sequences |->
          IF s \in dropped THEN "CANCELLED"
          ELSE IF s \in done /\ step[s] + 1 = LastStep THEN "COMPLETED"
          ELSE status[s]]
    /\ UNCHANGED delivered

Next ==
    \/ \E s \in Sequences : Open(s) \/ Deliver(s)
    \/ \E done \in SUBSET Sequences :
          \E dropped \in SUBSET (Sequences \ done) : Settle(done, dropped)

Spec == Init /\ [][Next]_course
=============================================================================
