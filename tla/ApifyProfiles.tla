--------------------------- MODULE ApifyProfiles ---------------------------
(***************************************************************************)
(* The normalisation profiles of one Apify binding (apify_learning.py):    *)
(* a candidate is created, replayed over the items already imported,       *)
(* promoted when its latest experiment says "keep", and an operator may    *)
(* roll back to any profile.                                               *)
(*                                                                         *)
(* Each operation is one database transaction that locks rows one by one   *)
(* (FOR UPDATE, or the locks its writes take) and releases them when it    *)
(* ends.  Operations lock the same rows in different orders, so that they  *)
(* may wait for each other; PostgreSQL then aborts one of them.            *)
(***************************************************************************)
EXTENDS Integers, FiniteSets, Sequences

CONSTANTS
    Profiles, Items,
    Tx,           \* database sessions: how many transactions overlap
    None,
    Row,          \* Row[p][i]: what item i gives under profile p (None: no profile)
    Mappings,     \* len(profile.mappings)
    Blacklist,    \* the telephone numbers that are blacklisted
    MaxBegun      \* bound: transactions that begin

VARIABLES
    profile,      \* apify_normalization_profiles: status and version
    active,       \* binding.active_profile_id
    experiment,   \* the experiment with the latest created_at, per candidate
    tx,           \* the transaction of each session
    holder,       \* who holds the lock of a row
    begun         \* transactions begun, which dates their now()

vars == <<profile, active, experiment, tx, holder, begun>>

Rows == Profiles \cup {"binding"}
NoExperiment == [born |-> 0, decision |-> "none", baseline |-> None]
NoTx == [kind |-> "none", profile |-> None, todo |-> <<>>, active |-> None, born |-> 0]
Running == {t \in Tx : tx[t].kind # "none"}

Init ==
    /\ profile = [p \in Profiles |-> [status |-> "none", version |-> 0]]
    /\ active = None
    /\ experiment = [p \in Profiles |-> NoExperiment]
    /\ tx = [t \in Tx |-> NoTx]
    /\ holder = [r \in Rows |-> None]
    /\ begun = 0

-----------------------------------------------------------------------------
(* compare_profiles.                                                       *)

\* A telephone the baseline found must not change.
KeepsPhones(old, new) ==
    \A i \in Items : old[i].phone # None => new[i].phone = old[i].phone

Ambiguities(rows) == Cardinality({i \in Items : rows[i].ambiguous})

\* _mark_duplicates marks every item but the first of those that share a phone.
Duplicates(rows) ==
    LET found == {i \in Items : rows[i].phone # None}
    IN  Cardinality(found) - Cardinality({rows[i].phone : i \in found})

\* A telephone that only the candidate finds needs two independent signals.
HasEvidence(old, new) ==
    \A i \in Items :
        old[i].phone = None /\ new[i].phone # None => new[i].signals >= 2

SameResults(old, new) ==
    \A i \in Items : /\ old[i].phone = new[i].phone
                     /\ old[i].ambiguous = new[i].ambiguous

\* Every gate must be passed; a corpus too small is discarded as well.
Decision(baseline, candidate) ==
    LET old == Row[baseline]
        new == Row[candidate]
    IN  IF /\ Items # {}
           /\ KeepsPhones(old, new)
           /\ \A i \in Items : new[i].phone \in Blacklist => old[i].phone \in Blacklist
           /\ Ambiguities(new) <= Ambiguities(old)
           /\ Duplicates(new) <= Duplicates(old)
           /\ HasEvidence(old, new)
           /\ SameResults(old, new) => Mappings[candidate] <= Mappings[baseline]
        THEN "keep" ELSE "discard"

-----------------------------------------------------------------------------
(* Transactions.                                                           *)

\* The rows each operation locks, in its order; "active" is the profile the
\* binding named when the operation read it.  (The shared locks of an
\* evaluation's foreign keys are taken as exclusive: more waiting, no less.)
LockOrder(kind, p) ==
    CASE kind = "create" -> <<"binding">>
      [] kind = "promote" -> <<p, "binding", "active">>
      [] kind = "rollback" -> <<"binding", p, "active">>
      [] kind = "evaluate" -> <<p, "binding", "active">>

\* An evaluation reads the binding first and locks rows when it writes.
Begin(t, kind, p) ==
    /\ tx[t] = NoTx
    /\ begun < MaxBegun
    /\ CASE kind = "create" ->
             profile[p].status = "none" /\ \A u \in Tx : tx[u].profile # p
         [] kind = "evaluate" -> profile[p].status = "candidate"
         [] OTHER -> profile[p].status # "none"
    /\ begun' = begun + 1
    /\ tx' = [tx EXCEPT ![t] =
          [kind |-> kind, profile |-> p, todo |-> LockOrder(kind, p),
           active |-> IF kind = "evaluate" THEN active ELSE None,
           born |-> begun']]
    /\ UNCHANGED <<profile, active, experiment, holder>>

\* The row t locks next; None when no profile was active.
Wanted(t) == IF Head(tx[t].todo) = "active" THEN tx[t].active ELSE Head(tx[t].todo)

\* Mutation of Free: the binding is read without FOR UPDATE.
FreeOrBinding(t, row) ==
    row \in {None, "binding"} \cup {r \in Rows : holder[r] \in {None, t}}

Free(t, row) == row \in {None} \cup {r \in Rows : holder[r] \in {None, t}}

\* promote_profile checks these before it looks at the active profile.
Approved(p) ==
    /\ profile[p].status = "candidate"
    /\ experiment[p].decision = "keep"

\* A promotion that holds its candidate and the binding, about to decide.
Deciding(t) == tx[t].kind = "promote" /\ tx[t].todo = <<"active">>

Lock(t) ==
    /\ tx[t].todo # <<>>
    /\ Deciding(t) => Approved(tx[t].profile)
    /\ Free(t, Wanted(t))
    /\ holder' = [r \in Rows |-> IF r = Wanted(t) THEN t ELSE holder[r]]
    /\ tx' = [tx EXCEPT ![t].todo = Tail(@),
                        ![t].active = IF Wanted(t) = "binding" /\ tx[t].kind # "evaluate"
                                      THEN active ELSE @]
    /\ UNCHANGED <<profile, active, experiment, begun>>

\* Mutation of Released: an exception leaves the transaction open.
ReleasedIfDone(t) ==
    [r \in Rows |-> IF holder[r] = t /\ tx[t].todo = <<>> THEN None ELSE holder[r]]

\* get_db commits or rolls back, and the locks of t are gone.
Released(t) == [r \in Rows |-> IF holder[r] = t THEN None ELSE holder[r]]

Leave(t) ==
    /\ tx' = [tx EXCEPT ![t] = NoTx]
    /\ holder' = Released(t)

\* apify_profile_not_candidate, apify_profile_not_approved.
Refuse(t) ==
    /\ Deciding(t)
    /\ ~Approved(tx[t].profile)
    /\ Leave(t)
    /\ UNCHANGED <<profile, active, experiment, begun>>

Ends(t, kind) == tx[t].kind = kind /\ tx[t].todo = <<>> /\ Leave(t)

\* The next version of the binding's profiles.
CommitCreate(t) ==
    /\ Ends(t, "create")
    /\ profile' = [profile EXCEPT ![tx[t].profile] =
          [status |-> "candidate",
           version |-> 1 + Cardinality({p \in Profiles : profile[p].status # "none"})]]
    /\ UNCHANGED <<active, experiment, begun>>

\* p becomes the active profile and the former one is retired.
Install(t, kind) ==
    /\ Ends(t, kind)
    /\ profile' = [q \in Profiles |->
          IF q = tx[t].profile THEN [profile[q] EXCEPT !.status = "active"]
          ELSE IF q = tx[t].active THEN [profile[q] EXCEPT !.status = "retired"]
          ELSE profile[q]]
    /\ active' = tx[t].profile
    /\ UNCHANGED <<experiment, begun>>

\* The experiment is the latest one unless a younger transaction committed
\* before; a replay that raises is recorded as a crash.
CommitEvaluate(t, crashed) ==
    LET p == tx[t].profile
        found == [born |-> tx[t].born, baseline |-> tx[t].active,
                  decision |-> IF crashed THEN "crash" ELSE Decision(tx[t].active, p)]
    IN  /\ Ends(t, "evaluate")
        /\ experiment' = IF experiment[p].born > found.born THEN experiment
                         ELSE [experiment EXCEPT ![p] = found]
        /\ UNCHANGED <<profile, active, begun>>

-----------------------------------------------------------------------------
(* PostgreSQL (external) ends one of the transactions that wait in a ring. *)

Waits(t) == tx[t].todo # <<>> /\ ~Free(t, Wanted(t)) /\ (Deciding(t) => Approved(tx[t].profile))

Deadlocked ==
    UNION {S \in SUBSET Running :
        \A t \in S : Waits(t) /\ holder[Wanted(t)] \in S}

Abort(t) ==
    /\ t \in Deadlocked
    /\ Leave(t)
    /\ UNCHANGED <<profile, active, experiment, begun>>

-----------------------------------------------------------------------------

Step(t) ==
    \/ Lock(t)
    \/ Refuse(t)
    \/ CommitCreate(t)
    \/ \E kind \in {"promote", "rollback"} : Install(t, kind)
    \/ \E crashed \in BOOLEAN : CommitEvaluate(t, crashed)
    \/ Abort(t)

Next ==
    \E t \in Tx :
        \/ Step(t)
        \/ \E kind \in {"create", "evaluate", "promote", "rollback"}, p \in Profiles :
              Begin(t, kind, p)

-----------------------------------------------------------------------------
(* Properties.                                                             *)

TypeOK ==
    /\ profile \in [Profiles ->
          [status : {"none", "candidate", "active", "retired"}, version : 0 .. Cardinality(Profiles)]]
    /\ active \in Profiles \cup {None}
    /\ experiment \in [Profiles ->
          [born : 0 .. MaxBegun, decision : {"none", "keep", "discard", "crash"},
           baseline : Profiles \cup {None}]]
    /\ \A t \in Tx : tx[t].kind \in {"none", "create", "evaluate", "promote", "rollback"}
    /\ holder \in [Rows -> Tx \cup {None}]

\* The binding names the one profile whose status is active, whatever
\* promotions and rollbacks overlap.
OneActive == \A p \in Profiles : profile[p].status = "active" <=> p = active

\* Promotions, rollbacks and evaluations lock rows in different orders and
\* may wait for each other; each one ends all the same.
RequestsEnd == \A t \in Tx : []<>(tx[t].kind = "none")
=============================================================================
