---------------------------- MODULE MCBackOffice ----------------------------
(***************************************************************************)
(* The back office: eight machines that share no state, checked in one     *)
(* run.  The initial state says which machine moves; the variables of the  *)
(* others keep their initial values.                                       *)
(***************************************************************************)
EXTENDS PhoneActivations, LbcMessaging

CONSTANTS MaxAttempts, Profiles, Items, Tx, None, MaxBegun,
          Requests, MaxWebhooks, MaxFailures, Stops, MaxPolls, MaxRetries,
          Resource1, Resource2, MaxTime, MaxRuns, MaxDeaths, p1, p2, i1

\* The rows of a table differ from those of another, from None and from the
\* names that the machines give to other things.
ASSUME BackOfficeAssumption ==
    /\ IsFiniteSet(Profiles) /\ None \notin Profiles /\ None \notin Tx
    /\ {"binding", "active"} \cap Profiles = {} /\ None \notin {"binding", "active"}
    /\ Resource1 # Resource2
    /\ {MaxBegun, MaxWebhooks, MaxPolls, MaxTime} \subseteq Nat
    /\ MaxAttempts \in Nat \ {0}

VARIABLES
    machine,
    creationJob, acct, creation,                           \* AccountCreation
    profile, active, experiment, tx, holder, begun,        \* ApifyProfiles
    account, enabled, webhook, live, made, request, failures, doubt, \* ApifyBindings
    workflow, job, providerTask, stop, browserFaults,      \* BrowserUseTasks
    clock, open, runs, lease, ctask, scraper, deaths,      \* SectorCollection
    inboxRun, sync, recorded, contacts, inboxFaults, inboxDeaths, syncs \* LbcInbox

creationOwn == <<creationJob, acct, creation>>
profileVars == <<profile, active, experiment, tx, holder, begun>>
bindingVars == <<account, enabled, webhook, live, made, request, failures, doubt>>
browserVars == <<workflow, job, providerTask, stop, browserFaults>>
sectorVars == <<clock, open, runs, lease, ctask, scraper, deaths>>
inboxVars == <<inboxRun, sync, recorded, contacts, inboxFaults, inboxDeaths, syncs>>
vars == <<machine, phoneVars, lbcVars, creationOwn, profileVars, bindingVars,
          browserVars, sectorVars, inboxVars>>

Creation == INSTANCE AccountCreation WITH
    Manual <- {}, Visits <- {Reconciler}, job <- creationJob, workflow <- creation

\* The baseline finds a telephone in the first item; the other profile finds
\* one in both, with two signals.
MCRow ==
    [p \in Profiles \cup {None} |->
        [i \in Items |->
            [phone |-> IF p = p2 \/ (p = p1 /\ i = i1) THEN i ELSE None,
             ambiguous |-> FALSE, signals |-> 2]]]

Learning == INSTANCE ApifyProfiles WITH
    Row <- MCRow, Mappings <- [p \in Profiles |-> 1], Blacklist <- {}

Bindings == INSTANCE ApifyBindings

Browser == INSTANCE BrowserUseTasks WITH
    task <- providerTask, faults <- browserFaults, MaxFaults <- 3

Sector == INSTANCE SectorCollection WITH
    account <- scraper,
    Pool <- [k \in {"account", "proxy"} |-> IF k = "account" THEN {Resource1} ELSE {Resource2}],
    TTL <- 1, Frequency <- 1, DayLength <- 3, Volume <- 4, PerPage <- 1

\* Two sellers write to the first account, the second of them a number, and one
\* to the other.
Inbox == INSTANCE LbcInbox WITH
    Messages <- 1 .. 3,
    AccountOf <- <<"first", "first", "second">>, NumberOf <- <<None, "n2", "n3">>,
    Manual <- "manual", Syncs <- {"manual", "scheduled"},
    workflow <- inboxRun, faults <- inboxFaults, deaths <- inboxDeaths, begun <- syncs,
    MaxFaults <- 1, MaxDeaths <- 1, MaxSyncs <- 3

-----------------------------------------------------------------------------

Init ==
    /\ machine \in {"phones", "lbc", "creation", "learning", "bindings", "browser",
                    "sector", "inbox"}
    /\ IF machine = "creation" THEN Creation!Init
       ELSE InitPhones /\ creationJob = "none" /\ acct = "none" /\ creation = "none"
    /\ InitLbc
    /\ Learning!Init /\ Bindings!Init /\ Browser!Init /\ Sector!Init /\ Inbox!Init

Phones ==
    /\ machine = "phones" /\ PhonesNext
    /\ UNCHANGED <<machine, lbcVars, creationOwn, profileVars, bindingVars, browserVars, sectorVars,
                   inboxVars>>

Lbc ==
    /\ machine = "lbc" /\ LbcNext
    /\ UNCHANGED <<machine, phoneVars, creationOwn, profileVars, bindingVars, browserVars, sectorVars,
                   inboxVars>>

Creates ==
    /\ machine = "creation" /\ Creation!Next
    /\ UNCHANGED <<machine, lbcVars, profileVars, bindingVars, browserVars, sectorVars,
                   inboxVars>>

Learns ==
    /\ machine = "learning" /\ Learning!Next
    /\ UNCHANGED <<machine, phoneVars, lbcVars, creationOwn, bindingVars, browserVars, sectorVars,
                   inboxVars>>

Binds ==
    /\ machine = "bindings" /\ Bindings!Next
    /\ UNCHANGED <<machine, phoneVars, lbcVars, creationOwn, profileVars, browserVars, sectorVars,
                   inboxVars>>

Browses ==
    /\ machine = "browser" /\ Browser!Next
    /\ UNCHANGED <<machine, phoneVars, lbcVars, creationOwn, profileVars, bindingVars, sectorVars,
                   inboxVars>>

Collects ==
    /\ machine = "sector" /\ Sector!Next
    /\ UNCHANGED <<machine, phoneVars, lbcVars, creationOwn, profileVars, bindingVars, browserVars,
                   inboxVars>>

Replies ==
    /\ machine = "inbox" /\ Inbox!Next
    /\ UNCHANGED <<machine, phoneVars, lbcVars, creationOwn, profileVars, bindingVars,
                   browserVars, sectorVars>>

Next == Phones \/ Lbc \/ Creates \/ Learns \/ Binds \/ Browses \/ Collects \/ Replies

\* Processes that run go on; reconcilers and clocks come back.
Fairness ==
    /\ \A v \in Visits \ {Reconciler} : WF_phoneVars(machine = "phones" /\ VisitStep(v))
    /\ WF_phoneVars(machine \in {"phones", "creation"} /\ VisitStep(Reconciler))
    /\ WF_phoneVars(machine \in {"phones", "creation"} /\ ReconcileReads(Reconciler))
    /\ \A o \in Orders : WF_phoneVars(machine \in {"phones", "creation"} /\ TimePasses(o))
    /\ WF_<<phoneVars, creationOwn>>(machine = "creation" /\ Creation!JobStep)
    /\ WF_<<phoneVars, creationOwn>>(machine = "creation" /\ Creation!ReconcileWorkflow)
    /\ \A t \in Tx : WF_profileVars(machine = "learning" /\ Learning!Step(t))
    /\ WF_browserVars(machine = "browser" /\ Browser!Step)

Spec == Init /\ [][Next]_vars /\ Fairness

-----------------------------------------------------------------------------

\* The types of every machine.
TypeOK ==
    /\ IF machine = "creation" THEN Creation!TypeOK ELSE TypePhones
    /\ TypeLbc
    /\ Learning!TypeOK /\ Bindings!TypeOK /\ Browser!TypeOK /\ Sector!TypeOK
    /\ Inbox!TypeOK

\* ApifyProfiles: one active profile, the one the binding names.
OneActive == Learning!OneActive

\* ApifyProfiles: row locks taken in different orders end no request for ever.
RequestsEnd == Learning!RequestsEnd

\* ApifyBindings: the rows and Apify agree on the webhooks that exist.
WebhooksAgree == Bindings!WebhooksAgree

\* BrowserUseTasks: paid tasks are left unwatched by faults alone.
LeaksAreFaults == Browser!LeaksAreFaults

\* BrowserUseTasks: a workflow ends unless its process died.
WorkflowEnds == machine = "browser" => Browser!WorkflowEnds

\* SectorCollection: a lease that has not expired is its holder's.
LeasesHold == Sector!LeasesHold

\* SectorCollection: only completed runs move the checkpoint.
CheckpointsFollowRuns == Sector!CheckpointsFollowRuns

\* LbcInbox: a recorded reply's number has its contact, except for failed calls.
RepliesReachContacts == Inbox!RepliesReachContacts

\* AccountCreation: a number that was paid has its row, except for faults.
PaidIsRecorded == machine = "creation" => Creation!PaidIsRecorded

\* AccountCreation: the workflow of a creation is closed for good.
CreationsEnd == machine = "creation" => Creation!CreationsEnd
=============================================================================
