---------------------------- MODULE LbcInboxProofs ----------------------------
(***************************************************************************)
(* What LbcInbox keeps for any number of accounts, messages, overlapping   *)
(* tasks, faults and deaths.                                               *)
(***************************************************************************)
EXTENDS LbcInbox, FiniteSetTheorems, TLAPS

Places == {"idle", "queued", "fetch", "persist", "contact", "commit", "done"}

\* What TypeOK says of the tasks and of the counter of faults; a task that
\* handles a message has one.
TypedInbox ==
    /\ sync \in [Syncs -> [at : Places,
                           accounts : SUBSET {AccountOf[m] : m \in Messages},
                           messages : SUBSET Messages,
                           cur : Messages \cup {None}]]
    /\ \A s \in Syncs : sync[s].at \in {"contact", "commit"} => sync[s].cur \in Messages
    /\ recorded \subseteq Messages
    /\ faults \in Nat

\* The messages that no later synchronisation will read: those recorded, and
\* those whose row is about to be committed.
Settled(m) == m \in recorded \/ \E s \in Syncs : sync[s].at = "commit" /\ sync[s].cur = m

\* Of those, the ones that tell a number without a contact.
Unheard == {m \in Messages : Settled(m) /\ NumberOf[m] # None /\ NumberOf[m] \notin contacts}

HeardInv == TypedInbox /\ Cardinality(Unheard) <= faults

-----------------------------------------------------------------------------

\* A number that was already without a contact, or one more.
LEMMA OneMore ==
  ASSUME NEW S, NEW T, NEW x, IsFiniteSet(S), T \subseteq S \cup {x}
  PROVE  IsFiniteSet(T) /\ Cardinality(T) <= Cardinality(S) + 1
<1>1. IsFiniteSet(S \cup {x}) /\ Cardinality(S \cup {x}) <= Cardinality(S) + 1
  <2>1. /\ IsFiniteSet(S \cup {x}) /\ Cardinality(S) \in Nat
        /\ \/ Cardinality(S \cup {x}) = Cardinality(S)
           \/ Cardinality(S \cup {x}) = Cardinality(S) + 1
    BY FS_AddElement, FS_CardinalityType
  <2> QED
    BY <2>1
<1>2. IsFiniteSet(T) /\ Cardinality(T) <= Cardinality(S \cup {x})
  BY <1>1, FS_Subset
<1>3. Cardinality(S) \in Nat /\ Cardinality(T) \in Nat /\ Cardinality(S \cup {x}) \in Nat
  BY <1>1, <1>2, FS_CardinalityType
<1> QED
  BY <1>1, <1>2, <1>3

\* The steps of one task: what it becomes.
Moves(s, new) == sync' = [sync EXCEPT ![s] = new]

Record == [at : Places, accounts : SUBSET {AccountOf[m] : m \in Messages},
           messages : SUBSET Messages, cur : Messages \cup {None}]

\* A task that is not running has the form of a task.
LEMMA IdleTyped == Idle \in Record
BY DEF Idle, Record, Places

\* Steps that settle no message with a number but the ones they had.
LEMMA NothingNew ==
  ASSUME TypedInbox, NEW s \in Syncs, NEW new \in Record, Moves(s, new),
         recorded' \subseteq Messages,
         contacts \subseteq contacts',
         \A m \in Messages :
            (m \in recorded' \/ (new.at = "commit" /\ new.cur = m))
            => Settled(m) \/ NumberOf[m] = None \/ NumberOf[m] \in contacts'
  PROVE  Unheard' \subseteq Unheard
<1> SUFFICES ASSUME NEW m \in Messages, m \in Unheard'
             PROVE  m \in Unheard
  BY DEF Unheard
<1>1. NumberOf[m] # None /\ NumberOf[m] \notin contacts' /\ NumberOf[m] \notin contacts
  BY DEF Unheard
<1>2. \A u \in Syncs : sync'[u] = IF u = s THEN new ELSE sync[u]
  BY DEF Moves, TypedInbox
<1>3. \/ m \in recorded'
      \/ \E u \in Syncs : sync'[u].at = "commit" /\ sync'[u].cur = m
  BY DEF Unheard, Settled
<1>4. Settled(m)
  <2>1. CASE m \in recorded' \/ (new.at = "commit" /\ new.cur = m)
    BY <1>1, <2>1
  <2>2. CASE \E u \in Syncs \ {s} : sync'[u].at = "commit" /\ sync'[u].cur = m
    BY <1>2, <2>2 DEF Settled
  <2> QED
    BY <1>2, <1>3, <2>1, <2>2
<1> QED
  BY <1>1, <1>4 DEF Unheard

\* A task that settles nothing: it is not about to commit, and nothing else
\* that concerns the messages changed.
LEMMA Quiet ==
  ASSUME TypedInbox, NEW s \in Syncs, NEW new \in Record, Moves(s, new),
         new.at # "commit", UNCHANGED <<recorded, contacts>>
  PROVE  Unheard' \subseteq Unheard
<1>1. \A m \in Messages :
        (m \in recorded' \/ (new.at = "commit" /\ new.cur = m))
        => Settled(m) \/ NumberOf[m] = None \/ NumberOf[m] \in contacts'
  BY DEF Settled
<1> QED
  BY <1>1, NothingNew DEF TypedInbox

-----------------------------------------------------------------------------
(* One step of the tasks.                                                  *)

\* What a step adds to the numbers without a contact: nothing, or with a fault
\* the number of one message.
Adds ==
    \/ Unheard' \subseteq Unheard /\ faults' = faults
    \/ Unheard' \subseteq Unheard /\ faults' = faults + 1
    \/ \E m : Unheard' \subseteq Unheard \cup {m} /\ faults' = faults + 1

\* A task that becomes a record keeps the types.
LEMMA TypesMove ==
  ASSUME TypedInbox, NEW s \in Syncs, NEW new \in Record, Moves(s, new),
         new.at \in {"contact", "commit"} => new.cur \in Messages,
         recorded' \subseteq Messages, faults' \in Nat
  PROVE  TypedInbox'
<1>1. \A u \in Syncs : sync'[u] = IF u = s THEN new ELSE sync[u]
  BY DEF Moves, TypedInbox
<1>2. sync' \in [Syncs -> Record]
  BY DEF Moves, TypedInbox, Record
<1> QED
  BY <1>1, <1>2 DEF TypedInbox, Record

\* The operator's request.
LEMMA QueueAdds ==
  ASSUME TypedInbox, Manual \in Syncs, Queue \/ QueueFails
  PROVE  TypedInbox' /\ Adds
<1>1. CASE Queue
  <2>1. [Idle EXCEPT !.at = "queued"] \in Record
    BY DEF Idle, Record, Places
  <2>2. Moves(Manual, [Idle EXCEPT !.at = "queued"])
    BY <1>1 DEF Queue, Set, Moves
  <2>3. Unheard' \subseteq Unheard
    BY <1>1, <2>1, <2>2, Quiet DEF Queue, Idle
  <2> QED
    BY <1>1, <2>1, <2>2, <2>3, TypesMove DEF Queue, TypedInbox, Idle, Adds
<1>2. CASE QueueFails
  BY <1>2 DEF QueueFails, Fault, TypedInbox, Adds, Unheard, Settled
<1> QED
  BY <1>1, <1>2

\* The steps after which the task is not about to commit a row.
LEMMA QuietAdds ==
  ASSUME TypedInbox, NEW s \in Syncs,
         Begin(s) \/ Fetch(s) \/ FetchFails(s) \/ NextAccount(s) \/ Finish(s) \/ Die(s)
  PROVE  TypedInbox' /\ Adds
<1>1. sync[s] \in Record
  BY DEF TypedInbox, Record
<1>2. PICK new \in Record : Moves(s, new) /\ new.at \notin {"contact", "commit"}
  <2>1. CASE Begin(s)
    <3>1. PICK active \in SUBSET {AccountOf[m] : m \in Messages} :
            Set(s, [Idle EXCEPT !.at = "fetch", !.accounts = active])
      BY <2>1 DEF Begin
    <3>2. [Idle EXCEPT !.at = "fetch", !.accounts = active] \in Record
      BY DEF Idle, Record, Places
    <3> QED
      BY <3>1, <3>2 DEF Set, Moves, Idle
  <2>2. CASE Fetch(s)
    <3>1. PICK a \in sync[s].accounts :
            \E read \in SUBSET {m \in Messages : AccountOf[m] = a} :
              Set(s, [sync[s] EXCEPT !.at = "persist", !.accounts = @ \ {a}, !.messages = read])
      BY <2>2 DEF Fetch
    <3>2. PICK read \in SUBSET Messages :
            Set(s, [sync[s] EXCEPT !.at = "persist", !.accounts = @ \ {a}, !.messages = read])
      BY <3>1
    <3> DEFINE r == [sync[s] EXCEPT !.at = "persist", !.accounts = @ \ {a}, !.messages = read]
    <3>3. r \in Record /\ r.at = "persist"
      BY <1>1 DEF Record, Places
    <3> QED
      BY <3>2, <3>3 DEF Set, Moves
  <2>3. CASE FetchFails(s) \/ Die(s)
    BY <2>3, IdleTyped DEF FetchFails, Die, Set, Moves, Idle
  <2>4. CASE NextAccount(s)
    <3> DEFINE r == [sync[s] EXCEPT !.at = "fetch"]
    <3>1. r \in Record /\ r.at = "fetch"
      BY <1>1 DEF Record, Places
    <3> QED
      BY <2>4, <3>1 DEF NextAccount, Set, Moves
  <2>5. CASE Finish(s)
    <3>1. [Idle EXCEPT !.at = "done"] \in Record
      BY DEF Idle, Record, Places
    <3> QED
      BY <2>5, <3>1, IdleTyped DEF Finish, Set, Moves, Idle
  <2> QED
    BY <2>1, <2>2, <2>3, <2>4, <2>5
<1>3. UNCHANGED <<recorded, contacts>> /\ faults' \in {faults, faults + 1}
  BY DEF Begin, Fetch, FetchFails, NextAccount, Finish, Die, Fault
<1>4. Unheard' \subseteq Unheard
  BY <1>2, <1>3, Quiet
<1> QED
  BY <1>2, <1>3, <1>4, TypesMove DEF TypedInbox, Adds

\* A message that is known, tells no number, or waits for its contact.
LEMMA InsertAdds ==
  ASSUME TypedInbox, NEW s \in Syncs, Insert(s)
  PROVE  TypedInbox' /\ Adds
<1>1. sync[s] \in Record
  BY DEF TypedInbox, Record
<1>2. UNCHANGED <<recorded, contacts, faults>>
  BY DEF Insert
<1>3. PICK m \in sync[s].messages :
        Set(s, IF Known(m) THEN [sync[s] EXCEPT !.messages = @ \ {m}]
               ELSE [sync[s] EXCEPT !.messages = @ \ {m}, !.cur = m,
                       !.at = IF NumberOf[m] = None THEN "commit" ELSE "contact"])
  BY DEF Insert
<1>4. At(s, "persist") /\ m \in Messages
  BY <1>1, <1>3 DEF Insert, Record
<1>5. PICK new \in Record : /\ Moves(s, new)
                            /\ new.at = "commit" => NumberOf[new.cur] = None
                            /\ new.at \in {"contact", "commit"} => new.cur \in Messages
  <2>1. CASE Known(m)
    <3> DEFINE r == [sync[s] EXCEPT !.messages = @ \ {m}]
    <3>1. r \in Record /\ r.at = "persist"
      BY <1>1, <1>4 DEF Record, Places, At
    <3> QED
      BY <1>3, <2>1, <3>1 DEF Set, Moves
  <2>2. CASE ~Known(m)
    <3> DEFINE at == IF NumberOf[m] = None THEN "commit" ELSE "contact"
               r == [sync[s] EXCEPT !.messages = @ \ {m}, !.cur = m, !.at = at]
    <3>1. /\ r \in Record /\ r.at = at /\ r.cur = m
          /\ at = "commit" => NumberOf[m] = None
      BY <1>1, <1>4 DEF Record, Places
    <3> QED
      BY <1>3, <1>4, <2>2, <3>1 DEF Set, Moves
  <2> QED
    BY <2>1, <2>2
<1>6. Unheard' \subseteq Unheard
  <2>1. \A k \in Messages : (k \in recorded' \/ (new.at = "commit" /\ new.cur = k))
                            => Settled(k) \/ NumberOf[k] = None \/ NumberOf[k] \in contacts'
    BY <1>2, <1>5 DEF Settled
  <2> QED
    BY <1>2, <1>5, <2>1, NothingNew DEF TypedInbox
<1> QED
  BY <1>2, <1>5, <1>6, TypesMove DEF TypedInbox, Adds

\* The contact is there before its row is about to be committed.
LEMMA OpenContactAdds ==
  ASSUME TypedInbox, NEW s \in Syncs, OpenContact(s)
  PROVE  TypedInbox' /\ Adds
<1> DEFINE new == [sync[s] EXCEPT !.at = "commit"]
<1>1. sync[s] \in Record
  BY DEF TypedInbox, Record
<1>2. new \in Record /\ Moves(s, new) /\ new.cur = sync[s].cur /\ new.cur \in Messages
  BY <1>1 DEF TypedInbox, At, OpenContact, Contact, Set, Moves, Record, Places
<1>3. /\ contacts' = contacts \cup {NumberOf[sync[s].cur]}
      /\ UNCHANGED <<recorded, faults>>
  BY DEF OpenContact, Contact
<1>4. \A k \in Messages : (k \in recorded' \/ (new.at = "commit" /\ new.cur = k))
                          => Settled(k) \/ NumberOf[k] = None \/ NumberOf[k] \in contacts'
  BY <1>2, <1>3 DEF Settled
<1>5. Unheard' \subseteq Unheard
  <2> HIDE DEF new
  <2> QED
    BY <1>2, <1>3, <1>4, NothingNew DEF TypedInbox
<1>6. TypedInbox'
  <2> HIDE DEF new
  <2> QED
    BY <1>2, <1>3, TypesMove DEF TypedInbox
<1> QED
  BY <1>3, <1>5, <1>6 DEF Adds

\* The failure that loses a number.
LEMMA ContactFailsAdds ==
  ASSUME TypedInbox, NEW s \in Syncs, ContactFails(s)
  PROVE  TypedInbox' /\ Adds
<1> DEFINE new == [sync[s] EXCEPT !.at = "commit"]
<1>1. sync[s] \in Record
  BY DEF TypedInbox, Record
<1>2. new \in Record /\ Moves(s, new) /\ new.cur = sync[s].cur /\ new.cur \in Messages
  BY <1>1 DEF TypedInbox, At, ContactFails, Set, Moves, Record, Places
<1>3. /\ contacts \subseteq contacts'
      /\ recorded' = recorded
      /\ faults' = faults + 1
  BY DEF ContactFails, Fault
<1>4. \A u \in Syncs : sync'[u] = IF u = s THEN new ELSE sync[u]
  BY <1>2 DEF Moves, TypedInbox
<1>5. \A k \in Messages : Settled(k)' => Settled(k) \/ k = sync[s].cur
  BY <1>2, <1>3, <1>4 DEF Settled
<1>6. Unheard' \subseteq Unheard \cup {sync[s].cur}
  BY <1>3, <1>5 DEF Unheard
<1>7. TypedInbox'
  <2> HIDE DEF new
  <2> QED
    BY <1>2, <1>3, TypesMove DEF TypedInbox
<1> QED
  BY <1>3, <1>6, <1>7 DEF Adds

\* The row is of a message that was settled already.
LEMMA CommitRowAdds ==
  ASSUME TypedInbox, NEW s \in Syncs, CommitRow(s)
  PROVE  TypedInbox' /\ Adds
<1> DEFINE new == [sync[s] EXCEPT !.at = "persist", !.cur = None]
<1>1. sync[s] \in Record /\ sync[s].at = "commit" /\ sync[s].cur \in Messages
  BY DEF CommitRow, At, TypedInbox, Record
<1>2. new \in Record /\ Moves(s, new) /\ new.at = "persist"
  BY <1>1 DEF CommitRow, Set, Moves, Record, Places
<1>3. /\ recorded' = recorded \cup {sync[s].cur}
      /\ UNCHANGED <<contacts, faults>>
  BY DEF CommitRow
<1>4. \A k \in Messages : (k \in recorded' \/ (new.at = "commit" /\ new.cur = k)) => Settled(k)
  BY <1>1, <1>2, <1>3 DEF Settled
<1> HIDE DEF new
<1>5. Unheard' \subseteq Unheard
  BY <1>1, <1>2, <1>3, <1>4, NothingNew DEF TypedInbox
<1>6. TypedInbox'
  BY <1>1, <1>2, <1>3, TypesMove DEF TypedInbox
<1> QED
  BY <1>3, <1>5, <1>6 DEF Adds

\* Every step.
LEMMA StepsAdd ==
  ASSUME TypedInbox, Manual \in Syncs, [Next]_vars
  PROVE  TypedInbox' /\ Adds
<1>1. CASE UNCHANGED vars
  BY <1>1 DEF vars, TypedInbox, Adds, Unheard, Settled
<1>2. CASE Next
  BY <1>2, QueueAdds, QuietAdds, InsertAdds, OpenContactAdds, ContactFailsAdds, CommitRowAdds
     DEF Next
<1> QED
  BY <1>1, <1>2

-----------------------------------------------------------------------------

\* Numbers lost are paid for by faults, one each.
LEMMA HeardSteps ==
  ASSUME IsFiniteSet(Messages), Manual \in Syncs, HeardInv, [Next]_vars
  PROVE  HeardInv'
<1>1. TypedInbox' /\ Adds
  BY StepsAdd DEF HeardInv
<1>2. IsFiniteSet(Unheard) /\ IsFiniteSet(Unheard')
  BY FS_Subset DEF Unheard
<1>3. Cardinality(Unheard) \in Nat /\ Cardinality(Unheard') \in Nat
  BY <1>2, FS_CardinalityType
<1>4. Unheard' \subseteq Unheard => Cardinality(Unheard') <= Cardinality(Unheard)
  BY <1>2, FS_Subset
<1>5. \A m : Unheard' \subseteq Unheard \cup {m} =>
               Cardinality(Unheard') <= Cardinality(Unheard) + 1
  BY <1>2, OneMore
<1>6. \/ Cardinality(Unheard') <= Cardinality(Unheard) /\ faults' \in {faults, faults + 1}
      \/ Cardinality(Unheard') <= Cardinality(Unheard) + 1 /\ faults' = faults + 1
  BY <1>1, <1>4, <1>5 DEF Adds
<1>7. faults \in Nat /\ Cardinality(Unheard) <= faults
  BY DEF HeardInv, TypedInbox
<1>8. Cardinality(Unheard') <= faults'
  BY ONLY <1>3, <1>6, <1>7, SMT
<1> QED
  BY <1>1, <1>8 DEF HeardInv

\* RepliesReachContacts for any number of accounts, messages, overlapping tasks
\* and deaths: the numbers in recorded replies that have no contact are at most
\* as many as the calls that failed (_persist_inbound_message).
THEOREM RepliesAreHeard ==
  ASSUME IsFiniteSet(Messages), Manual \in Syncs
  PROVE  Init /\ [][Next]_vars => []RepliesReachContacts
<1>1. Init => HeardInv
  <2> SUFFICES ASSUME Init PROVE HeardInv
    OBVIOUS
  <2>1. TypedInbox
    BY IdleTyped DEF Init, TypedInbox, Idle, Record
  <2>2. Unheard = {}
    BY DEF Init, Unheard, Settled, Idle
  <2> QED
    BY <2>1, <2>2, FS_EmptySet DEF Init, HeardInv
<1>2. HeardInv /\ [Next]_vars => HeardInv'
  BY HeardSteps
<1>3. HeardInv => RepliesReachContacts
  <2> SUFFICES ASSUME HeardInv PROVE RepliesReachContacts
    OBVIOUS
  <2> DEFINE S == {m \in recorded : NumberOf[m] # None /\ NumberOf[m] \notin contacts}
  <2>1. S \subseteq Unheard /\ IsFiniteSet(Unheard)
    BY FS_Subset DEF HeardInv, TypedInbox, Unheard, Settled
  <2>2. /\ Cardinality(S) <= Cardinality(Unheard)
        /\ Cardinality(S) \in Nat /\ Cardinality(Unheard) \in Nat
    BY <2>1, FS_Subset, FS_CardinalityType
  <2>3. Cardinality(Unheard) <= faults /\ faults \in Nat
    BY DEF HeardInv, TypedInbox
  <2>4. Cardinality(S) <= faults
    BY ONLY <2>2, <2>3, SMT
  <2> QED
    BY <2>4 DEF RepliesReachContacts
<1> QED
  BY <1>1, <1>2, <1>3, PTL

-----------------------------------------------------------------------------
(* Types.                                                                  *)

\* A contact is opened for a message that tells a number.
Telling == \A s \in Syncs : sync[s].at = "contact" => NumberOf[sync[s].cur] # None

Bounded ==
  /\ workflow \in {"none", "PENDING", "RUNNING", "COMPLETED"}
  /\ contacts \subseteq {NumberOf[m] : m \in Messages} \ {None}
  /\ faults \in 0 .. MaxFaults /\ deaths \in 0 .. MaxDeaths /\ begun \in 0 .. MaxSyncs

LEMMA TellingSteps ==
  ASSUME TypedInbox, Telling, Manual \in Syncs, [Next]_vars
  PROVE  Telling'
<1>1. ASSUME NEW s \in Syncs, NEW new, Moves(s, new),
             new.at = "contact" => NumberOf[new.cur] # None
      PROVE  Telling'
  BY <1>1 DEF Moves, TypedInbox, Telling
<1>2. CASE QueueFails \/ UNCHANGED vars
  BY <1>2 DEF QueueFails, vars, Telling
<1>3. CASE Queue
  BY <1>1, <1>3 DEF Queue, Set, Moves, Idle
<1>4. ASSUME NEW s \in Syncs
      PROVE  sync[s] \in Record
  BY DEF TypedInbox, Record
<1>5. ASSUME NEW s \in Syncs, Begin(s)
      PROVE  Telling'
  <2>1. PICK active \in SUBSET {AccountOf[m] : m \in Messages} :
             Moves(s, [Idle EXCEPT !.at = "fetch", !.accounts = active])
    BY <1>5 DEF Begin, Set, Moves
  <2> QED
    BY <1>1, <2>1 DEF Idle
<1>6. ASSUME NEW s \in Syncs, Fetch(s)
      PROVE  Telling'
  <2>1. PICK a, read : Moves(s, [sync[s] EXCEPT !.at = "persist", !.accounts = @ \ {a},
                                                !.messages = read])
    BY <1>6 DEF Fetch, Set, Moves
  <2> QED
    BY <1>1, <1>4, <2>1 DEF Record
<1>7. ASSUME NEW s \in Syncs, FetchFails(s) \/ Finish(s) \/ Die(s)
      PROVE  Telling'
  <2>1. Moves(s, Idle) \/ Moves(s, [Idle EXCEPT !.at = "done"])
    BY <1>7 DEF FetchFails, Finish, Die, Set, Moves
  <2> QED
    BY <1>1, <2>1 DEF Idle
<1>8. ASSUME NEW s \in Syncs, OpenContact(s) \/ ContactFails(s) \/ CommitRow(s) \/ NextAccount(s)
      PROVE  Telling'
  <2>1. \/ Moves(s, [sync[s] EXCEPT !.at = "commit"])
        \/ Moves(s, [sync[s] EXCEPT !.at = "persist", !.cur = None])
        \/ Moves(s, [sync[s] EXCEPT !.at = "fetch"])
    BY <1>8 DEF OpenContact, Contact, ContactFails, CommitRow, NextAccount, Set, Moves
  <2> QED
    BY <1>1, <1>4, <2>1 DEF Record
<1>9. ASSUME NEW s \in Syncs, Insert(s)
      PROVE  Telling'
  <2>1. sync[s] \in Record /\ sync[s].at = "persist"
    BY <1>4, <1>9 DEF Insert, At
  <2>2. PICK m \in sync[s].messages :
        Set(s, IF Known(m) THEN [sync[s] EXCEPT !.messages = @ \ {m}]
               ELSE [sync[s] EXCEPT !.messages = @ \ {m}, !.cur = m,
                       !.at = IF NumberOf[m] = None THEN "commit" ELSE "contact"])
    BY <1>9 DEF Insert
  <2>3. CASE Known(m)
    <3>1. Moves(s, [sync[s] EXCEPT !.messages = @ \ {m}])
      BY <2>2, <2>3 DEF Set, Moves
    <3> QED
      BY <1>1, <2>1, <3>1 DEF Record
  <2>4. CASE ~Known(m)
    <3>1. Moves(s, [sync[s] EXCEPT !.messages = @ \ {m}, !.cur = m,
                      !.at = IF NumberOf[m] = None THEN "commit" ELSE "contact"])
      BY <2>2, <2>4 DEF Set, Moves
    <3> QED
      BY <1>1, <2>1, <3>1 DEF Record
  <2> QED
    BY <2>3, <2>4
<1> QED
  BY <1>2, <1>3, <1>5, <1>6, <1>7, <1>8, <1>9 DEF Next

LEMMA BoundedSteps ==
  ASSUME TypedInbox, Telling, Bounded, [Next]_vars,
         MaxFaults \in Nat, MaxDeaths \in Nat, MaxSyncs \in Nat
  PROVE  Bounded'
<1>1. CASE Queue \/ QueueFails \/ UNCHANGED vars
  BY <1>1 DEF Queue, QueueFails, vars, Fault, Bounded
<1>2. ASSUME NEW s \in Syncs, OpenContact(s) \/ ContactFails(s)
      PROVE  Bounded'
  <2>1. sync[s].cur \in Messages /\ NumberOf[sync[s].cur] # None
    BY <1>2 DEF OpenContact, Contact, ContactFails, At, TypedInbox, Telling
  <2>2. /\ contacts' \subseteq contacts \cup {NumberOf[sync[s].cur]}
        /\ UNCHANGED <<workflow, deaths, begun>>
        /\ faults' = faults \/ Fault
    BY <1>2 DEF OpenContact, Contact, ContactFails
  <2> QED
    BY <2>1, <2>2 DEF Fault, Bounded
<1>3. ASSUME NEW s \in Syncs, Begin(s) \/ Finish(s)
      PROVE  Bounded'
  <2>1. /\ workflow' \in {workflow, "RUNNING", "COMPLETED"}
        /\ UNCHANGED <<contacts, faults, deaths>>
    BY <1>3 DEF Begin, Finish
  <2>2. begun' = begun \/ (begun < MaxSyncs /\ begun' = begun + 1)
    BY <1>3 DEF Begin, Finish
  <2>3. begun' \in 0 .. MaxSyncs
    BY <2>2 DEF Bounded
  <2> QED
    BY <2>1, <2>3 DEF Bounded
<1>4. ASSUME NEW s \in Syncs, Fetch(s) \/ Insert(s) \/ CommitRow(s) \/ NextAccount(s)
      PROVE  Bounded'
  BY <1>4 DEF Fetch, Insert, CommitRow, NextAccount, Bounded
<1>5. ASSUME NEW s \in Syncs, FetchFails(s)
      PROVE  Bounded'
  BY <1>5 DEF FetchFails, Fault, Bounded
<1>6. ASSUME NEW s \in Syncs, Die(s)
      PROVE  Bounded'
  BY <1>6 DEF Die, Bounded
<1> QED
  BY <1>1, <1>2, <1>3, <1>4, <1>5, <1>6 DEF Next

\* The types of the inbox, for any messages and tasks: in particular every
\* contact that is opened has a number that some message tells.
THEOREM InboxTypes ==
  ASSUME Manual \in Syncs, MaxFaults \in Nat, MaxDeaths \in Nat, MaxSyncs \in Nat
  PROVE  Init /\ [][Next]_vars => []TypeOK
<1> DEFINE TypesInv == TypedInbox /\ Telling /\ Bounded
<1>1. Init => TypesInv
  <2> SUFFICES ASSUME Init PROVE TypesInv
    OBVIOUS
  <2>1. TypedInbox /\ Telling
    BY IdleTyped DEF Init, TypedInbox, Idle, Record, Telling
  <2>2. Bounded
    BY DEF Init, Bounded
  <2> QED
    BY <2>1, <2>2
<1>2. TypesInv /\ [Next]_vars => TypesInv'
  BY StepsAdd, TellingSteps, BoundedSteps
<1>3. TypesInv => TypeOK
  BY DEF TypedInbox, Bounded, TypeOK, Places
<1> QED
  BY <1>1, <1>2, <1>3, PTL
=============================================================================
