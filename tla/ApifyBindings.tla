---------------------------- MODULE ApifyBindings ----------------------------
(***************************************************************************)
(* One Apify account and one binding of it (apify_accounts.py): enabling a *)
(* binding creates a webhook at Apify, disabling it, changing it or        *)
(* deleting the account deletes that webhook.  A request reads the rows,   *)
(* calls Apify and commits: Apify keeps what a request did before it       *)
(* failed, the database does not.  Requests overlap; rows are not locked.  *)
(***************************************************************************)
EXTENDS Integers, FiniteSets

CONSTANTS
    Requests,      \* the requests that may overlap
    MaxWebhooks,   \* bound: webhooks created
    MaxFailures    \* bound: requests that fail at Apify

VARIABLES
    account,     \* apify_accounts.status; "deleted" when the row is gone
    enabled,     \* binding.enabled
    webhook,     \* binding.webhook_id; 0 is NULL
    live,        \* the webhooks that exist at Apify
    made,        \* webhooks created so far: their identifiers
    request,     \* what each request read and where it stands
    failures,
    doubt        \* observed: Apify and the row may have diverged

vars == <<account, enabled, webhook, live, made, request, failures, doubt>>

Idle == [kind |-> "none", at |-> "none", account |-> "active",
         enabled |-> FALSE, webhook |-> 0, new |-> 0]

Init ==
    /\ account = "active"
    /\ enabled = FALSE
    /\ webhook = 0
    /\ live = {}
    /\ made = 0
    /\ request = [r \in Requests |-> Idle]
    /\ failures = 0
    /\ doubt = FALSE

Pending == {r \in Requests : request[r].kind # "none"}

-----------------------------------------------------------------------------

\* set_binding_enabled returns at once when there is nothing to change.
Sensible(kind) ==
    CASE kind = "enable" -> ~enabled
      [] kind = "disable" -> enabled
      [] OTHER -> TRUE

\* An update deletes the webhook of an enabled binding only.
Deletes(kind) ==
    /\ webhook # 0
    /\ kind \in {"disable", "delete"} \/ (kind = "update" /\ enabled)

After(kind) == IF kind \in {"enable", "update"} THEN "validate" ELSE "commit"

\* The session keeps the account it loads here, whatever happens to it later.
Begin(r, kind) ==
    /\ request[r] = Idle
    /\ account # "deleted"
    /\ Sensible(kind)
    /\ request' = [request EXCEPT ![r] =
          [kind |-> kind, at |-> IF Deletes(kind) THEN "delete" ELSE After(kind),
           account |-> account, enabled |-> enabled, webhook |-> webhook,
           new |-> IF Deletes(kind) THEN 0 ELSE webhook]]
    /\ doubt' = (doubt \/ Pending # {})
    /\ UNCHANGED <<account, enabled, webhook, live, made, failures>>

RemoteDelete(r) ==
    /\ request[r].at = "delete"
    /\ live' = live \ {request[r].webhook}
    /\ request' = [request EXCEPT ![r].at = After(request[r].kind)]
    /\ UNCHANGED <<account, enabled, webhook, made, failures, doubt>>

\* Mutation of Recreates: only enabling makes a webhook.
RecreatesNever(r) == request[r].kind = "enable"

\* An updated binding that was enabled needs its webhook again.
Recreates(r) == request[r].kind = "enable" \/ request[r].enabled

\* _validate_binding_activation accepts: the account is active and (not
\* represented) the campaign runs and the catalog has the resource.
Validate(r) ==
    /\ request[r].at = "validate"
    /\ request[r].account = "active"
    /\ request' = [request EXCEPT ![r].at = IF Recreates(r) THEN "create" ELSE "commit"]
    /\ UNCHANGED <<account, enabled, webhook, live, made, failures, doubt>>

\* _create_binding_webhook; an id kept in the row is forgotten.
RemoteCreate(r) ==
    /\ request[r].at = "create"
    /\ made < MaxWebhooks
    /\ made' = made + 1
    /\ live' = live \cup {made'}
    /\ request' = [request EXCEPT ![r].at = "commit", ![r].new = made']
    /\ doubt' = (doubt \/ request[r].new # 0)
    /\ UNCHANGED <<account, enabled, webhook, failures>>

\* Only the columns that the request changed are written; deleting the
\* account deletes its bindings.
Commit(r) ==
    /\ request[r].at = "commit"
    /\ account # "deleted"
    /\ LET q == request[r]
           gone == q.kind = "delete"
       IN  /\ account' = IF gone THEN "deleted" ELSE account
           /\ enabled' = IF gone THEN FALSE
                         ELSE IF q.kind = "enable" THEN TRUE
                         ELSE IF q.kind = "disable" THEN FALSE ELSE enabled
           /\ webhook' = IF gone THEN 0
                         ELSE IF q.new # q.webhook THEN q.new ELSE webhook
    /\ request' = [request EXCEPT ![r] = Idle]
    /\ UNCHANGED <<live, made, failures, doubt>>

\* A validation or a call to Apify raises, or the rows are gone: the
\* transaction is rolled back, what Apify did is not.  A deletion marks the
\* account instead.
Fail(r) ==
    LET q == request[r]
        forced == account = "deleted" \/ (q.at = "validate" /\ q.account # "active")
    IN  /\ q.kind # "none"
        /\ forced \/ failures < MaxFailures
        /\ failures' = IF forced THEN failures ELSE failures + 1
        /\ account' = IF q.kind = "delete" /\ account # "deleted" THEN "suspended" ELSE account
        /\ request' = [request EXCEPT ![r] = Idle]
        /\ doubt' = (doubt \/ (q.at # "delete" /\ q.new # q.webhook))
        /\ UNCHANGED <<enabled, webhook, live, made>>

\* suspend_account; replace_account_token and a probe reactivate.
SetAccount(status) ==
    /\ account \notin {"deleted", status}
    /\ status \in {"active", "suspended"}
    /\ account' = status
    /\ UNCHANGED <<enabled, webhook, live, made, request, failures, doubt>>

\* The circuit breaker of the ingestion disables the binding and keeps its id.
Break ==
    /\ enabled
    /\ enabled' = FALSE
    /\ UNCHANGED <<account, webhook, live, made, request, failures, doubt>>

Next ==
    \/ \E r \in Requests :
          \/ \E kind \in {"enable", "disable", "update", "delete"} : Begin(r, kind)
          \/ RemoteDelete(r)
          \/ Validate(r)
          \/ RemoteCreate(r)
          \/ Commit(r)
          \/ Fail(r)
    \/ \E status \in {"active", "suspended"} : SetAccount(status)
    \/ Break

-----------------------------------------------------------------------------

TypeOK ==
    /\ account \in {"active", "suspended", "deleted"}
    /\ enabled \in BOOLEAN
    /\ webhook \in 0 .. made
    /\ live \subseteq 1 .. made
    /\ doubt \in BOOLEAN

\* An enabled binding names a webhook, whatever overlaps; and unless requests
\* overlapped, one of them failed half-way, or a suspended binding was enabled
\* again, Apify has the webhook the row names and no other.
WebhooksAgree ==
    /\ enabled => webhook # 0
    /\ ~doubt /\ Pending = {} => live = {webhook} \ {0}
=============================================================================
