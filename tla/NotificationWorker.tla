------------------------- MODULE NotificationWorker -------------------------
(***************************************************************************)
(* The notification worker (app/services/notifications.py) and the table   *)
(* it drains (app/repositories/notifications.py, notification_jobs).       *)
(*                                                                         *)
(* A process claims jobs in one statement and then works through its batch *)
(* one job after the other, with an await, and so an interleaving, between *)
(* any two database calls.  Every repository call is a transaction of its  *)
(* own and one action here.  Workers poll with claim_due; drivers claim    *)
(* one job by name with claim_one, as the repository's tests do, and       *)
(* process it with the same code.  A deployment may run several of either. *)
(*                                                                         *)
(* Abstracted: which due jobs a full batch takes (ORDER BY next_attempt_at *)
(* LIMIT n, minus the rows another claim has locked) is any non-empty set  *)
(* of them; the order of a batch is free, since RETURNING promises none;   *)
(* time is the number of units a job must still wait.                      *)
(***************************************************************************)
EXTENDS Integers, FiniteSets

CONSTANTS Submissions,  \* submissions that owe a notification
          Widgets,      \* the widgets they belong to
          WidgetOf,     \* [Submissions -> Widgets]
          Workers,      \* processes running NotificationWorker.run
          Drivers,      \* processes that claim_one and then process
          BatchSize,    \* BATCH_SIZE
          MaxAttempts,  \* NOTIFY_MAX_ATTEMPTS
          MaxBackoff,   \* MAX_BACKOFF_SECONDS
          WebhookUrl,   \* whether WEBHOOK_URL is set
          ForceFailure, \* NOTIFY_FORCE_FAILURE
          MaxCrashes,   \* bound: processes killed or stopped mid-work
          MaxDbErrors,  \* bound: repository calls that raise
          None          \* no job in hand

Processes == Workers \cup Drivers

ASSUME ConstantsAssumption ==
  /\ IsFiniteSet(Submissions)
  /\ WidgetOf \in [Submissions -> Widgets]
  /\ Workers \cap Drivers = {}
  /\ BatchSize \in Nat \ {0} /\ MaxAttempts \in Nat \ {0} /\ MaxBackoff \in Nat \ {0}
  /\ WebhookUrl \in BOOLEAN /\ ForceFailure \in BOOLEAN
  /\ MaxCrashes \in Nat /\ MaxDbErrors \in Nat
  /\ None \notin Submissions

\* Arithmetic tlapm has no rule for.
ASSUME PowerAssumption == \A n \in 0..MaxAttempts : 2^n > 0

VARIABLES status,   \* notification_jobs.status; "none" before the insert, "gone" after the cascade
          attempts, \* notification_jobs.attempts (kept, unread, once the row is gone)
          wait,     \* time units until next_attempt_at
          batch,    \* per process: job["attempts"] of each claimed job, 0 when not claimed
          job,      \* per process: the job being processed
          pc,       \* per process: what it does next
          emails,   \* confirmation lines printed, per submission
          posts,    \* webhook requests that reached the receiver
          crashes, dbErrors

rows == <<status, attempts, wait>>
procs == <<batch, job, pc>>
sends == <<emails, posts>>
faults == <<crashes, dbErrors>>
vars == <<status, attempts, wait, batch, job, pc, emails, posts, crashes, dbErrors>>

Statuses == {"none", "pending", "processing", "delivered", "dead", "gone"}
Exists(s) == status[s] \notin {"none", "gone"}

\* "loop" with an empty batch is the poll; with jobs left it is the for loop.
Steps == {"loop", "markGone", "deliver", "markDelivered", "handleFailure"}
Holds(p, s) == batch[p][s] > 0
Idle(p) == pc[p] = "loop" /\ \A s \in Submissions : ~Holds(p, s)

Init == /\ status = [s \in Submissions |-> "none"]
        /\ attempts = [s \in Submissions |-> 0]
        /\ wait = [s \in Submissions |-> 0]
        /\ batch = [p \in Processes |-> [s \in Submissions |-> 0]]
        /\ job = [p \in Processes |-> None]
        /\ pc = [p \in Processes |-> "loop"]
        /\ emails = [s \in Submissions |-> 0]
        /\ posts = [s \in Submissions |-> 0]
        /\ crashes = 0
        /\ dbErrors = 0
-----------------------------------------------------------------------------
(* The rest of the platform, as this table sees it. *)

\* The request commits the submission together with its job; its widget is
\* still there to be referenced.
Enqueue(s) == /\ status[s] = "none"
              /\ \A t \in Submissions : WidgetOf[t] = WidgetOf[s] => status[t] # "gone"
              /\ status' = [status EXCEPT ![s] = "pending"]
              /\ UNCHANGED <<attempts, wait, procs, sends, faults>>

\* DELETE of a widget cascades to its submissions and their jobs.
DeleteWidget(w) ==
  /\ \E s \in Submissions : WidgetOf[s] = w /\ Exists(s)
  /\ status' = [s \in Submissions |-> IF WidgetOf[s] = w /\ Exists(s) THEN "gone" ELSE status[s]]
  /\ UNCHANGED <<attempts, wait, procs, sends, faults>>

Elapse == /\ \E s \in Submissions : wait[s] > 0
          /\ wait' = [s \in Submissions |-> IF wait[s] > 0 THEN wait[s] - 1 ELSE 0]
          /\ UNCHANGED <<status, attempts, procs, sends, faults>>
-----------------------------------------------------------------------------
(* Claiming. *)

\* Mutant: a claim that also takes what is being processed.
ClaimableAgain == {s \in Submissions : status[s] \in {"pending", "processing"}}
Claimable == {s \in Submissions : status[s] = "pending"}
\* Mutant: a retry is never due.
DueUntried == {s \in Claimable : wait[s] = 0 /\ attempts[s] = 0}
Due == {s \in Claimable : wait[s] = 0}

\* Mutant: the claim leaves the counting of the attempt to whoever fails it.
ClaimUncounted(p, S) ==
  /\ status' = [s \in Submissions |-> IF s \in S THEN "processing" ELSE status[s]]
  /\ batch' = [batch EXCEPT ![p] = [s \in Submissions |-> IF s \in S THEN attempts[s] + 1 ELSE 0]]
  /\ UNCHANGED <<attempts, wait, job, pc, sends, faults>>

Claim(p, S) ==
  /\ status' = [s \in Submissions |-> IF s \in S THEN "processing" ELSE status[s]]
  /\ attempts' = [s \in Submissions |-> IF s \in S THEN attempts[s] + 1 ELSE attempts[s]]
  /\ batch' = [batch EXCEPT ![p] = [s \in Submissions |-> IF s \in S THEN attempts[s] + 1 ELSE 0]]
  /\ UNCHANGED <<wait, job, pc, sends, faults>>

ClaimDue(w) == /\ Idle(w)
               /\ \E S \in SUBSET Due :
                    /\ S # {} /\ Cardinality(S) <= BatchSize
                    /\ Claim(w, S)

ClaimOne(d, s) == /\ Idle(d)
                  /\ s \in Claimable
                  /\ Claim(d, {s})
-----------------------------------------------------------------------------
(* Processing one job. *)

\* payload_for: the process goes on with what it read here.
PayloadFor(p, s) ==
  /\ pc[p] = "loop" /\ Holds(p, s)
  /\ job' = [job EXCEPT ![p] = s]
  /\ pc' = [pc EXCEPT ![p] = IF Exists(s) THEN "deliver" ELSE "markGone"]
  /\ UNCHANGED <<rows, batch, sends, faults>>

\* Mutant: a failed webhook is logged and taken for a success.
DeliverUnchecked(p) ==
  /\ pc[p] = "deliver"
  /\ \E reached \in BOOLEAN :
       /\ reached => WebhookUrl /\ ~ForceFailure
       /\ emails' = [emails EXCEPT ![job[p]] = IF ForceFailure THEN @ ELSE @ + 1]
       /\ posts' = [posts EXCEPT ![job[p]] = IF reached THEN @ + 1 ELSE @]
       /\ pc' = [pc EXCEPT ![p] = "markDelivered"]
  /\ UNCHANGED <<rows, batch, job, faults>>

\* deliver prints the email, then posts to the webhook; the receiver may see
\* the post and the worker still fail, on a timeout or an error response.
Deliver(p) ==
  /\ pc[p] = "deliver"
  /\ \E ok \in BOOLEAN, reached \in BOOLEAN :
       /\ ForceFailure => ~ok
       /\ reached => WebhookUrl /\ ~ForceFailure
       /\ ok => (reached <=> WebhookUrl)
       /\ ~ok => WebhookUrl \/ ForceFailure
       /\ emails' = [emails EXCEPT ![job[p]] = IF ForceFailure THEN @ ELSE @ + 1]
       /\ posts' = [posts EXCEPT ![job[p]] = IF reached THEN @ + 1 ELSE @]
       /\ pc' = [pc EXCEPT ![p] = IF ok THEN "markDelivered" ELSE "handleFailure"]
  /\ UNCHANGED <<rows, batch, job, faults>>

\* Each marking call is UPDATE ... WHERE id = ..., which touches no row when
\* the cascade took it; then process returns to the loop.
Mark(s, st) == status' = [status EXCEPT ![s] = IF Exists(s) THEN st ELSE @]

\* Mutant: the job stays in the batch and is processed again.
ReturnKeepingJob(p) == /\ UNCHANGED batch
                       /\ job' = [job EXCEPT ![p] = None]
                       /\ pc' = [pc EXCEPT ![p] = "loop"]

Return(p) == /\ batch' = [batch EXCEPT ![p][job[p]] = 0]
             /\ job' = [job EXCEPT ![p] = None]
             /\ pc' = [pc EXCEPT ![p] = "loop"]

MarkGone(p) == /\ pc[p] = "markGone"
               /\ Mark(job[p], "dead")
               /\ Return(p)
               /\ UNCHANGED <<attempts, wait, sends, faults>>

MarkDelivered(p) == /\ pc[p] = "markDelivered"
                    /\ Mark(job[p], "delivered")
                    /\ Return(p)
                    /\ UNCHANGED <<attempts, wait, sends, faults>>

\* Mutant: one attempt too many.
ExhaustedLate(p) == batch[p][job[p]] > MaxAttempts
Exhausted(p) == batch[p][job[p]] >= MaxAttempts
Backoff(n) == IF 2^n <= MaxBackoff THEN 2^n ELSE MaxBackoff

\* Mutant: the row is left as it is until a retry that nobody will make.
HandleFailureUnmarked(p) ==
  /\ pc[p] = "handleFailure"
  /\ IF Exhausted(p) THEN Mark(job[p], "dead") ELSE UNCHANGED status
  /\ Return(p)
  /\ UNCHANGED <<attempts, wait, sends, faults>>

HandleFailure(p) ==
  /\ pc[p] = "handleFailure"
  /\ IF Exhausted(p)
       THEN Mark(job[p], "dead") /\ UNCHANGED wait
       ELSE /\ Mark(job[p], "pending")
            /\ wait' = [wait EXCEPT ![job[p]] = IF Exists(job[p]) THEN Backoff(batch[p][job[p]]) ELSE @]
  /\ Return(p)
  /\ UNCHANGED <<attempts, sends, faults>>
-----------------------------------------------------------------------------
(* Faults. *)

\* What a process had claimed is forgotten; no statement anywhere takes a row
\* out of 'processing' except the one that holds it.
Forget(p) == /\ batch' = [batch EXCEPT ![p] = [s \in Submissions |-> 0]]
             /\ job' = [job EXCEPT ![p] = None]
             /\ pc' = [pc EXCEPT ![p] = "loop"]

\* The process is killed, or stop() cancels its task at an await; it restarts
\* at the poll.  A call running in its thread finishes or not: the crash comes
\* after or before that action.
Crash(p) == /\ ~Idle(p) /\ crashes < MaxCrashes
            /\ crashes' = crashes + 1
            /\ Forget(p)
            /\ UNCHANGED <<rows, sends, dbErrors>>

\* A repository call of process() raises (a lost connection, a pool timeout).
\* Only deliver() is inside a try: the exception leaves tick() and with it the
\* rest of the batch, and run() prints it and polls again.
DbError(p) == /\ ~Idle(p) /\ pc[p] # "deliver" /\ dbErrors < MaxDbErrors
              /\ dbErrors' = dbErrors + 1
              /\ Forget(p)
              /\ UNCHANGED <<rows, sends, crashes>>
-----------------------------------------------------------------------------
Process(p) == \/ \E s \in Submissions : PayloadFor(p, s)
              \/ Deliver(p) \/ MarkGone(p) \/ MarkDelivered(p) \/ HandleFailure(p)

Next == \/ \E s \in Submissions : Enqueue(s)
        \/ \E w \in Widgets : DeleteWidget(w)
        \/ Elapse
        \/ \E w \in Workers : ClaimDue(w)
        \/ \E d \in Drivers, s \in Submissions : ClaimOne(d, s)
        \/ \E p \in Processes : Process(p) \/ Crash(p) \/ DbError(p)

Spec == Init /\ [][Next]_vars

\* Time passes; run() never stops polling and awaits every step it started.
\* Nothing obliges a visitor to submit, an owner to delete, a driver to claim.
Fairness == /\ WF_vars(Elapse)
            /\ \A w \in Workers : WF_vars(ClaimDue(w))
            /\ \A p \in Processes : WF_vars(Process(p))

FairSpec == Spec /\ Fairness
-----------------------------------------------------------------------------
(* Properties. *)

TypeOK == /\ status \in [Submissions -> Statuses]
          /\ attempts \in [Submissions -> 0..MaxAttempts]
          /\ wait \in [Submissions -> 0..MaxBackoff]
          /\ batch \in [Processes -> [Submissions -> 0..MaxAttempts]]
          /\ job \in [Processes -> Submissions \cup {None}]
          /\ pc \in [Processes -> Steps]
          /\ emails \in [Submissions -> 0..MaxAttempts]
          /\ posts \in [Submissions -> 0..MaxAttempts]
          /\ crashes \in 0..MaxCrashes
          /\ dbErrors \in 0..MaxDbErrors

\* "A second worker picks different rows" (claim_due): no job is ever in the
\* hands of two processes, and the attempt number its holder compares with
\* NOTIFY_MAX_ATTEMPTS is never stale.
ExclusiveClaim ==
  \A p \in Processes, s \in Submissions : Holds(p, s) =>
    /\ status[s] \in {"processing", "gone"} /\ batch[p][s] = attempts[s]
    /\ \A q \in Processes \ {p} : ~Holds(q, s)

\* At most one confirmation per attempt begun, at most one webhook request per
\* confirmation, and a visitor's submission that is being retried has always
\* kept an attempt for the retry.
OneEmailPerAttempt ==
  \A s \in Submissions :
    /\ posts[s] <= emails[s] /\ emails[s] <= attempts[s]
    /\ status[s] = "pending" => attempts[s] < MaxAttempts

DeliveredMeansSent ==
  \A s \in Submissions : status[s] = "delivered" =>
    /\ emails[s] > 0
    /\ WebhookUrl => posts[s] > 0
DeadMeansExhausted == \A s \in Submissions : status[s] = "dead" => attempts[s] = MaxAttempts

\* A job reads 'delivered' only after its email and, where one is configured,
\* its webhook request went out.  Dead-letter is reached by using up
\* NOTIFY_MAX_ATTEMPTS and no other way: the "submission no longer exists"
\* branch never marks a row that is there.
StatusIsTruthful == DeliveredMeansSent /\ DeadMeansExhausted

\* Once a job is delivered or dead nothing is sent for it and no process
\* changes it: only the cascade of a delete touches it again.
SettledIsFinal ==
  [][\A s \in Submissions : status[s] \in {"delivered", "dead"} =>
       /\ status'[s] \in {status[s], "gone"}
       /\ attempts'[s] = attempts[s] /\ emails'[s] = emails[s] /\ posts'[s] = posts[s]]_vars

\* A job is left in 'processing' with nobody working on it only by a fault, and
\* one fault costs at most one batch.
Orphans == {s \in Submissions : status[s] = "processing" /\ \A p \in Processes : ~Holds(p, s)}
FaultCostsOneBatch == Cardinality(Orphans) <= BatchSize * (crashes + dbErrors)

\* The loop survives what a batch does to it: whatever happened to the
\* processes before, every stored submission's notification ends delivered,
\* dead or deleted, unless a fault left it in 'processing' with nobody on it.
SettledOrStranded ==
  \A s \in Submissions : status[s] \in {"pending", "processing"} ~>
    status[s] \in {"delivered", "dead", "gone"} \/ s \in Orphans

\* The promise this component implements.
Outcome(s) == IF status[s] \in {"pending", "processing"} THEN "open" ELSE status[s]
Queue == INSTANCE NotificationQueue WITH
           outcome <- [s \in Submissions |-> Outcome(s)], tries <- attempts, sent <- emails
Implements == Queue!QSpec

\* "A background worker picks it up, retries with exponential backoff, and
\* after NOTIFY_MAX_ATTEMPTS moves it to dead-letter" (DESIGN.md): every stored
\* submission's notification ends delivered, dead or deleted.
EverySubmissionSettles == Queue!EverySubmissionSettles
=============================================================================
