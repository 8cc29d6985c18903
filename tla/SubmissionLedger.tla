-------------------------- MODULE SubmissionLedger --------------------------
(***************************************************************************)
(* What the public endpoint promises about what it stores: one submission  *)
(* per idempotency key, a notification owed for every one that is not      *)
(* spam, nothing stored twice or half, and a visitor told of a submission  *)
(* only when it is there.  Submissions implements this module.             *)
(***************************************************************************)
CONSTANTS Requests, Widgets, Asked, NoKey, None

VARIABLES req,    \* what each request asks: its widget, its key, whether it is spam
          ledger, \* per request: "absent", "stored" or "removed"
          owed,   \* per request: whether a notification is owed for it
          told    \* per request: the submission its receipt names, "refused", or None

lvars == <<req, ledger, owed, told>>

SameKey(i, r) == /\ req[i].key # NoKey
                 /\ req[i].key = req[r].key /\ req[i].widget = req[r].widget

LInit == /\ req \in Asked
         /\ ledger = [r \in Requests |-> "absent"]
         /\ owed = [r \in Requests |-> FALSE]
         /\ told = [r \in Requests |-> None]

\* The submission and what follows from it appear in one step, once per key,
\* and never for a widget that is gone.
Store(r) == /\ ledger[r] = "absent" /\ told[r] = None
            /\ \A i \in Requests : SameKey(i, r) => ledger[i] = "absent"
            /\ \A i \in Requests : ledger[i] = "removed" => req[i].widget # req[r].widget
            /\ ledger' = [ledger EXCEPT ![r] = "stored"]
            /\ owed' = [owed EXCEPT ![r] = ~req[r].spam]
            /\ UNCHANGED <<req, told>>

\* A receipt names the submission the request stored, or the one its key did.
Tell(r, i) == /\ told[r] = None
              /\ ledger[i] # "absent"
              /\ i = r \/ SameKey(i, r)
              /\ told' = [told EXCEPT ![r] = i]
              /\ UNCHANGED <<req, ledger, owed>>

Refuse(r) == /\ told[r] = None
             /\ told' = [told EXCEPT ![r] = "refused"]
             /\ UNCHANGED <<req, ledger, owed>>

Remove(w) == LET its == {r \in Requests : ledger[r] = "stored" /\ req[r].widget = w}
             IN /\ ledger' = [r \in Requests |-> IF r \in its THEN "removed" ELSE ledger[r]]
                /\ owed' = [r \in Requests |-> owed[r] /\ r \notin its]
                /\ UNCHANGED <<req, told>>

LNext == \/ \E r \in Requests : Store(r) \/ Refuse(r) \/ \E i \in Requests : Tell(r, i)
         \/ \E w \in Widgets : Remove(w)

LSpec == LInit /\ [][LNext]_lvars
=============================================================================
