-------------------------- MODULE MCApifyIngestion --------------------------
(* Instances of ApifyIngestion: every run bound, and one run bound beside a *)
(* run of an actor that was never bound.                                    *)
EXTENDS ApifyIngestion

CONSTANTS r1, b1

MCAllBound == [r \in Runs |-> b1]
MCOneBound == [r \in Runs |-> IF r = r1 THEN b1 ELSE NoBinding]

MCKind == [r \in Runs |-> [k \in 1 .. Size |->
             <<"doubtful", "lead", "noise">>[k]]]

=============================================================================
