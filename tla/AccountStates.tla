---------------------------- MODULE AccountStates ----------------------------
(***************************************************************************)
(* The statuses of a Leboncoin account and what an operator's command      *)
(* makes of them (account_control._TRANSITIONS).                           *)
(***************************************************************************)

AccountStatuses == {"EN_CREATION", "EN_CHAUFFE", "ACTIF", "RALENTI", "QUARANTAINE", "BLOQUE"}

Transitions ==
    {[from |-> s, action |-> "quarantine", to |-> "QUARANTAINE"] :
        s \in AccountStatuses \ {"QUARANTAINE"}}
    \cup {[from |-> s, action |-> "restore", to |-> "EN_CHAUFFE"] :
        s \in {"QUARANTAINE", "BLOQUE"}}
    \cup {[from |-> s, action |-> "warm", to |-> "EN_CHAUFFE"] :
        s \in {"EN_CREATION", "RALENTI"}}
=============================================================================
