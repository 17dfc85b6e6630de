------------------------------- MODULE LbcInbox -------------------------------
(***************************************************************************)
(* The replies of Leboncoin's sellers (lbc_messaging.py): a task reads the *)
(* inbox of each account through Browser Use, records every message once,  *)
(* by its key, and opens the seller's contact when the message tells a     *)
(* number.  The schedule starts it every ten minutes, an operator under a  *)
(* workflow.  The contact has a transaction of its own, inside the one     *)
(* that records the message.                                               *)
(***************************************************************************)
EXTENDS Integers, FiniteSets

CONSTANTS
    Messages,
    AccountOf,      \* the account that receives each message
    NumberOf,       \* the number it tells, with its listing known, or None
    None,
    Manual,         \* the task of the operator's request
    Syncs,          \* the tasks: Manual, and those of the schedule
    MaxFaults,      \* bound: calls that fail
    MaxDeaths,      \* bound: processes that die
    MaxSyncs        \* bound: tasks that begin

VARIABLES
    workflow,       \* workflow_runs.status of the operator's synchronisation
    sync,           \* the tasks: the accounts and the messages they have left
    recorded,       \* lbc_message_log: the committed inbound rows
    contacts,       \* the numbers that have a contact and its sequence
    faults, deaths, begun

vars == <<workflow, sync, recorded, contacts, faults, deaths, begun>>

Idle == [at |-> "idle", accounts |-> {}, messages |-> {}, cur |-> None]

Init ==
    /\ workflow = "none"
    /\ sync = [s \in Syncs |-> Idle]
    /\ recorded = {} /\ contacts = {}
    /\ faults = 0 /\ deaths = 0 /\ begun = 0

At(s, at) == sync[s].at = at
Set(s, r) == sync' = [sync EXCEPT ![s] = r]

Fault ==
    /\ faults < MaxFaults
    /\ faults' = faults + 1

-----------------------------------------------------------------------------
(* The request: the workflow is committed before its task is queued.       *)

Queue ==
    /\ workflow = "none"
    /\ workflow' = "PENDING"
    /\ Set(Manual, [Idle EXCEPT !.at = "queued"])
    /\ UNCHANGED <<recorded, contacts, faults, deaths, begun>>

\* The broker refuses: the workflow stays PENDING.
QueueFails ==
    /\ workflow = "none"
    /\ Fault
    /\ workflow' = "PENDING"
    /\ UNCHANGED <<sync, recorded, contacts, deaths, begun>>

Begin(s) ==
    /\ At(s, IF s = Manual THEN "queued" ELSE "idle")
    /\ begun < MaxSyncs
    /\ begun' = begun + 1
    /\ workflow' = IF s = Manual THEN "RUNNING" ELSE workflow
    /\ \E active \in SUBSET {AccountOf[m] : m \in Messages} :
          Set(s, [Idle EXCEPT !.at = "fetch", !.accounts = active])
    /\ UNCHANGED <<recorded, contacts, faults, deaths>>

\* Browser Use tells which messages are new: it may forget or repeat some.
Fetch(s) ==
    /\ At(s, "fetch")
    /\ \E a \in sync[s].accounts :
       \E read \in SUBSET {m \in Messages : AccountOf[m] = a} :
          Set(s, [sync[s] EXCEPT !.at = "persist", !.accounts = @ \ {a}, !.messages = read])
    /\ UNCHANGED <<workflow, recorded, contacts, faults, deaths, begun>>

\* No except: the accounts that follow are not read, the workflow stays RUNNING.
FetchFails(s) ==
    /\ At(s, "fetch")
    /\ sync[s].accounts # {}
    /\ Fault
    /\ Set(s, Idle)
    /\ UNCHANGED <<workflow, recorded, contacts, deaths, begun>>

-----------------------------------------------------------------------------
(* _persist_inbound_message: one transaction for each message.             *)

\* A transaction that inserted the key and has not ended makes others wait.
Inserting(m) == \E s \in Syncs : sync[s].cur = m

\* on_conflict_do_nothing on external_key.
Known(m) == m \in recorded

Insert(s) ==
    /\ At(s, "persist")
    /\ \E m \in sync[s].messages :
          /\ ~Inserting(m)
          /\ Set(s, IF Known(m) THEN [sync[s] EXCEPT !.messages = @ \ {m}]
                    ELSE [sync[s] EXCEPT !.messages = @ \ {m}, !.cur = m,
                            !.at = IF NumberOf[m] = None THEN "commit" ELSE "contact"])
    /\ UNCHANGED <<workflow, recorded, contacts, faults, deaths, begun>>

\* Mutation of Contact: the row is committed before the contact is opened.
ContactAfterRow(s) ==
    /\ At(s, "contact")
    /\ recorded' = recorded \cup {sync[s].cur}
    /\ Set(s, [sync[s] EXCEPT !.at = "commit"])
    /\ UNCHANGED contacts

\* ensure_contact_and_sequence commits before the row does.
Contact(s) ==
    /\ At(s, "contact")
    /\ contacts' = contacts \cup {NumberOf[sync[s].cur]}
    /\ Set(s, [sync[s] EXCEPT !.at = "commit"])
    /\ UNCHANGED recorded

OpenContact(s) ==
    /\ Contact(s)
    /\ UNCHANGED <<workflow, faults, deaths, begun>>

\* Any exception is logged and the row is recorded all the same: the message is
\* known from then on.  When the queue refused, the contact was committed.
ContactFails(s) ==
    /\ At(s, "contact")
    /\ Fault
    /\ contacts' \in {contacts, contacts \cup {NumberOf[sync[s].cur]}}
    /\ Set(s, [sync[s] EXCEPT !.at = "commit"])
    /\ UNCHANGED <<workflow, recorded, deaths, begun>>

CommitRow(s) ==
    /\ At(s, "commit")
    /\ recorded' = recorded \cup {sync[s].cur}
    /\ Set(s, [sync[s] EXCEPT !.at = "persist", !.cur = None])
    /\ UNCHANGED <<workflow, contacts, faults, deaths, begun>>

NextAccount(s) ==
    /\ At(s, "persist")
    /\ sync[s].messages = {}
    /\ Set(s, [sync[s] EXCEPT !.at = "fetch"])
    /\ UNCHANGED <<workflow, recorded, contacts, faults, deaths, begun>>

Finish(s) ==
    /\ At(s, "fetch")
    /\ sync[s].accounts = {}
    /\ Set(s, IF s = Manual THEN [Idle EXCEPT !.at = "done"] ELSE Idle)
    /\ workflow' = IF s = Manual THEN "COMPLETED" ELSE workflow
    /\ UNCHANGED <<recorded, contacts, faults, deaths, begun>>

\* The process dies or a query raises: the row that was not committed goes, the
\* contact stays.
Die(s) ==
    /\ ~At(s, "idle")
    /\ deaths < MaxDeaths
    /\ deaths' = deaths + 1
    /\ Set(s, Idle)
    /\ UNCHANGED <<workflow, recorded, contacts, faults, begun>>

Next ==
    \/ Queue \/ QueueFails
    \/ \E s \in Syncs :
          \/ Begin(s) \/ Fetch(s) \/ FetchFails(s)
          \/ Insert(s) \/ OpenContact(s) \/ ContactFails(s) \/ CommitRow(s)
          \/ NextAccount(s) \/ Finish(s) \/ Die(s)

-----------------------------------------------------------------------------

TypeOK ==
    /\ workflow \in {"none", "PENDING", "RUNNING", "COMPLETED"}
    /\ sync \in [Syncs -> [at : {"idle", "queued", "fetch", "persist", "contact", "commit", "done"},
                           accounts : SUBSET {AccountOf[m] : m \in Messages},
                           messages : SUBSET Messages,
                           cur : Messages \cup {None}]]
    /\ recorded \subseteq Messages
    /\ contacts \subseteq {NumberOf[m] : m \in Messages} \ {None}
    /\ faults \in 0 .. MaxFaults /\ deaths \in 0 .. MaxDeaths /\ begun \in 0 .. MaxSyncs

\* A reply that is recorded is never read again, so the number it tells must
\* have its contact by then: whatever tasks overlap or die, a number is lost by
\* a failed call alone (_persist_inbound_message).
RepliesReachContacts ==
    Cardinality({m \in recorded : NumberOf[m] # None /\ NumberOf[m] \notin contacts})
        <= faults
=============================================================================
