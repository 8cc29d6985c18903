------------------------- MODULE NotificationQueue -------------------------
(***************************************************************************)
(* What the platform promises about the confirmation that follows a stored *)
(* submission (DESIGN.md, "Failure boundaries"): it is tried at most       *)
(* MaxAttempts times, it ends delivered or dead, and it ends dead only     *)
(* when every attempt has been used.  Nothing is said here of workers,     *)
(* claims or a database; NotificationWorker implements this module.        *)
(***************************************************************************)
EXTENDS Naturals

CONSTANTS Submissions, MaxAttempts

VARIABLES outcome, \* "none", "open", "delivered", "dead" or "gone" (deleted)
          tries,   \* attempts begun
          sent     \* confirmations that left for the visitor

qvars == <<outcome, tries, sent>>

QInit == /\ outcome = [s \in Submissions |-> "none"]
         /\ tries = [s \in Submissions |-> 0]
         /\ sent = [s \in Submissions |-> 0]

\* A submission is stored and owes its visitor a confirmation.
Accept(s) == /\ outcome[s] = "none"
             /\ outcome' = [outcome EXCEPT ![s] = "open"]
             /\ UNCHANGED <<tries, sent>>

\* One attempt begins on each submission of the batch S.
Try(S) == /\ \A s \in S : outcome[s] = "open" /\ tries[s] < MaxAttempts
          /\ tries' = [s \in Submissions |-> IF s \in S THEN tries[s] + 1 ELSE tries[s]]
          /\ UNCHANGED <<outcome, sent>>

\* An attempt sends at most one confirmation, and none once the outcome is
\* known; one may still leave for a submission deleted under the attempt.
Send(s) == /\ outcome[s] \in {"open", "gone"}
           /\ sent[s] < tries[s]
           /\ sent' = [sent EXCEPT ![s] = @ + 1]
           /\ UNCHANGED <<outcome, tries>>

Settle(s) == /\ outcome[s] = "open" /\ sent[s] > 0
             /\ outcome' = [outcome EXCEPT ![s] = "delivered"]
             /\ UNCHANGED <<tries, sent>>

GiveUp(s) == /\ outcome[s] = "open" /\ tries[s] = MaxAttempts
             /\ outcome' = [outcome EXCEPT ![s] = "dead"]
             /\ UNCHANGED <<tries, sent>>

\* The owner deletes the widget: its submissions and what they owe go with it.
Remove(S) == /\ \A s \in S : outcome[s] # "none"
             /\ outcome' = [s \in Submissions |-> IF s \in S THEN "gone" ELSE outcome[s]]
             /\ UNCHANGED <<tries, sent>>

QNext == \/ \E S \in SUBSET Submissions : Try(S) \/ Remove(S)
         \/ \E s \in Submissions : Accept(s) \/ Send(s) \/ Settle(s) \/ GiveUp(s)

QSpec == QInit /\ [][QNext]_qvars

\* The promise of DESIGN.md, in full: whatever is owed is settled, unless the
\* owner deletes it first.
EverySubmissionSettles ==
  \A s \in Submissions : outcome[s] = "open" ~> outcome[s] \in {"delivered", "dead", "gone"}
=============================================================================
