--------------------------- MODULE MCSmsFollowUps ---------------------------
(* Instances of SmsFollowUps for TLC: one seller, whose number two campaigns *)
(* follow up.                                                                *)
EXTENDS SmsFollowUps, TLC

CONSTANTS c1, s1, s2, e1, e2, t1, t2

MCContactOf == [s \in Sequences |-> c1]
MCSenderOf == [e \in Events |-> c1]
\* A STOP, then any other answer.
MCKindOf == [e \in Events |-> IF e = e1 THEN "STOP" ELSE "reply"]
\* One step a week.
MCDueOf == [k \in Steps |-> k]

\* The campaigns and the tasks are interchangeable, the two events are not.
Symmetric == Permutations(Sequences) \cup Permutations(Tasks)
=============================================================================
