---------------------- MODULE NotificationWorkerProofs ----------------------
(***************************************************************************)
(* NotificationWorker for any number of submissions, widgets, processes,   *)
(* attempts and faults: the safety properties of the runs, and that the    *)
(* worker implements NotificationQueue.                                    *)
(***************************************************************************)
EXTENDS NotificationWorker, FiniteSetTheorems, TLAPS

\* What a process in the middle of a job knows of it: it still holds the job
\* it looks at, a job it believes gone is gone, a job it is about to mark
\* delivered has been sent.
JobInHand ==
  \A p \in Processes :
    /\ pc[p] # "loop" => job[p] \in Submissions /\ Holds(p, job[p])
    /\ pc[p] = "markGone" => status[job[p]] = "gone"
    /\ pc[p] = "markDelivered" => emails[job[p]] > 0 /\ (WebhookUrl => posts[job[p]] > 0)

\* The current attempt on a job has not sent its email before deliver() ran.
Tried(p, s) == job[p] = s /\ pc[p] \in {"markDelivered", "handleFailure"}
AttemptUnspent ==
  \A p \in Processes, s \in Submissions : Holds(p, s) /\ ~Tried(p, s) => emails[s] < attempts[s]

FreshIsUntried == \A s \in Submissions : status[s] = "none" => attempts[s] = 0

IInv == /\ TypeOK
        /\ ExclusiveClaim
        /\ OneEmailPerAttempt
        /\ DeliveredMeansSent
        /\ DeadMeansExhausted
        /\ JobInHand
        /\ AttemptUnspent
        /\ FreshIsUntried
-----------------------------------------------------------------------------
\* reschedule's delay is within the cap.
LEMMA BackoffBounded ==
  ASSUME NEW n \in 0..MaxAttempts
  PROVE  Backoff(n) \in 0..MaxBackoff
<1>1. 2^n \in Int OBVIOUS
<1>2. 2^n > 0 BY PowerAssumption
<1> QED BY <1>1, <1>2, ConstantsAssumption DEF Backoff

\* Nothing is claimed, sent or stored at the start.
LEMMA InitInv == Init => IInv
BY ConstantsAssumption
DEF Init, IInv, TypeOK, ExclusiveClaim, OneEmailPerAttempt, DeliveredMeansSent,
    DeadMeansExhausted, JobInHand, AttemptUnspent, FreshIsUntried, Holds, Tried,
    Statuses, Steps, Processes

\* A claim of any set of pending jobs by an idle process keeps the invariant.
LEMMA ClaimInv ==
  ASSUME IInv, NEW p \in Processes, NEW S \in SUBSET Claimable, Idle(p), Claim(p, S)
  PROVE  IInv'
<1> USE ConstantsAssumption DEF Claim, Claimable, Holds, Idle, IInv, sends, faults
<1>1. TypeOK'
  BY DEF TypeOK, OneEmailPerAttempt, Statuses, Steps
<1>2. ExclusiveClaim'
  BY DEF TypeOK, ExclusiveClaim
<1>3. OneEmailPerAttempt'
  BY DEF TypeOK, OneEmailPerAttempt
<1>4. DeliveredMeansSent' /\ DeadMeansExhausted' /\ FreshIsUntried'
  BY DEF TypeOK, DeliveredMeansSent, DeadMeansExhausted, FreshIsUntried
<1>5. JobInHand'
  BY DEF TypeOK, JobInHand
<1>6. AttemptUnspent'
  BY DEF TypeOK, AttemptUnspent, Tried, OneEmailPerAttempt, ExclusiveClaim
<1> QED BY <1>1, <1>2, <1>3, <1>4, <1>5, <1>6

\* A process that loses its batch, to a crash or an error, keeps it too.
LEMMA ForgetInv ==
  ASSUME IInv, NEW p \in Processes, Forget(p), UNCHANGED <<rows, sends>>,
         crashes' \in 0..MaxCrashes, dbErrors' \in 0..MaxDbErrors
  PROVE  IInv'
<1> USE ConstantsAssumption DEF Forget, Holds, IInv, rows, sends
<1>1. TypeOK'
  BY DEF TypeOK, Statuses, Steps
<1>2. ExclusiveClaim'
  BY DEF TypeOK, ExclusiveClaim
<1>3. OneEmailPerAttempt' /\ DeliveredMeansSent' /\ DeadMeansExhausted' /\ FreshIsUntried'
  BY DEF TypeOK, OneEmailPerAttempt, DeliveredMeansSent, DeadMeansExhausted, FreshIsUntried
<1>4. JobInHand' /\ AttemptUnspent'
  BY DEF TypeOK, JobInHand, AttemptUnspent, Tried
<1> QED BY <1>1, <1>2, <1>3, <1>4

\* Returning from a job: the row was marked st, with next_attempt_at moved only
\* for a retry.
LEMMA ReturnInv ==
  ASSUME IInv, NEW p \in Processes, pc[p] # "loop", NEW st \in {"pending", "delivered", "dead"},
         Mark(job[p], st), Return(p), wait' \in [Submissions -> 0..MaxBackoff],
         UNCHANGED <<attempts, sends, faults>>,
         st = "pending" => attempts[job[p]] < MaxAttempts,
         st = "delivered" => pc[p] = "markDelivered",
         st = "dead" => status[job[p]] = "gone" \/ attempts[job[p]] = MaxAttempts
  PROVE  IInv'
<1> USE ConstantsAssumption DEF Mark, Return, Exists, Holds, IInv, sends, faults
<1>0. job[p] \in Submissions /\ batch[p][job[p]] > 0 /\ status[job[p]] \in {"processing", "gone"}
  BY DEF JobInHand, ExclusiveClaim
<1>1. TypeOK'
  <2>1. status' \in [Submissions -> Statuses]
    BY <1>0 DEF TypeOK, Statuses
  <2>2. batch' \in [Processes -> [Submissions -> 0..MaxAttempts]]
    BY <1>0 DEF TypeOK
  <2>3. job' \in [Processes -> Submissions \cup {None}] /\ pc' \in [Processes -> Steps]
    BY DEF TypeOK, Steps
  <2> QED BY <2>1, <2>2, <2>3 DEF TypeOK
<1>2. ExclusiveClaim'
  BY <1>0 DEF TypeOK, ExclusiveClaim
<1>3. OneEmailPerAttempt' /\ DeadMeansExhausted' /\ FreshIsUntried'
  BY <1>0 DEF TypeOK, OneEmailPerAttempt, DeadMeansExhausted, FreshIsUntried
<1>4. DeliveredMeansSent'
  BY <1>0 DEF TypeOK, DeliveredMeansSent, JobInHand
<1>5. JobInHand'
  BY <1>0 DEF TypeOK, JobInHand, ExclusiveClaim
<1>6. AttemptUnspent'
  BY <1>0 DEF TypeOK, AttemptUnspent, Tried
<1> QED BY <1>1, <1>2, <1>3, <1>4, <1>5, <1>6
-----------------------------------------------------------------------------
\* Every step of the platform keeps the invariant.
LEMMA NextInv == IInv /\ [Next]_vars => IInv'
<1> SUFFICES ASSUME IInv, [Next]_vars PROVE IInv'
  OBVIOUS
<1> USE ConstantsAssumption
<1>1. ASSUME NEW s \in Submissions, Enqueue(s) PROVE IInv'
  BY <1>1 DEF Enqueue, IInv, TypeOK, ExclusiveClaim, OneEmailPerAttempt, DeliveredMeansSent,
              DeadMeansExhausted, JobInHand, AttemptUnspent, FreshIsUntried, Holds, Tried,
              Statuses, procs, sends, faults
<1>2. ASSUME NEW w \in Widgets, DeleteWidget(w) PROVE IInv'
  BY <1>2 DEF DeleteWidget, Exists, IInv, TypeOK, ExclusiveClaim, OneEmailPerAttempt,
              DeliveredMeansSent, DeadMeansExhausted, JobInHand, AttemptUnspent,
              FreshIsUntried, Holds, Tried, Statuses, procs, sends, faults
<1>3. CASE Elapse
  BY <1>3 DEF Elapse, IInv, TypeOK, ExclusiveClaim, OneEmailPerAttempt, DeliveredMeansSent,
              DeadMeansExhausted, JobInHand, AttemptUnspent, FreshIsUntried, Holds, Tried,
              procs, sends, faults
<1>4. ASSUME NEW w \in Workers, ClaimDue(w) PROVE IInv'
  <2>1. PICK S \in SUBSET Due : Claim(w, S)
    BY <1>4 DEF ClaimDue
  <2>2. w \in Processes /\ S \in SUBSET Claimable /\ Idle(w)
    BY <1>4 DEF Due, Processes, ClaimDue
  <2> QED BY <2>1, <2>2, ClaimInv
<1>5. ASSUME NEW d \in Drivers, NEW s \in Submissions, ClaimOne(d, s) PROVE IInv'
  <2>1. d \in Processes /\ {s} \in SUBSET Claimable /\ Idle(d) /\ Claim(d, {s})
    BY <1>5 DEF ClaimOne, Processes
  <2> QED BY <2>1, ClaimInv
<1>6. ASSUME NEW p \in Processes, NEW s \in Submissions, PayloadFor(p, s) PROVE IInv'
  BY <1>6 DEF PayloadFor, Exists, IInv, TypeOK, ExclusiveClaim, OneEmailPerAttempt,
              DeliveredMeansSent, DeadMeansExhausted, JobInHand, AttemptUnspent,
              FreshIsUntried, Holds, Tried, Steps, rows, sends, faults
<1>7. ASSUME NEW p \in Processes, Deliver(p) PROVE IInv'
  <2> DEFINE s == job[p]
  <2>1. s \in Submissions /\ Holds(p, s) /\ ~Tried(p, s)
    BY <1>7 DEF IInv, JobInHand, Deliver, Tried
  <2>2. emails[s] < attempts[s] /\ status[s] \in {"processing", "gone"}
        /\ \A q \in Processes \ {p} : ~Holds(q, s)
    BY <2>1 DEF IInv, AttemptUnspent, ExclusiveClaim
  <2>3. TypeOK'
    BY <1>7, <2>1, <2>2 DEF Deliver, IInv, TypeOK, OneEmailPerAttempt, Steps, rows, faults
  <2>4. ExclusiveClaim' /\ DeadMeansExhausted' /\ FreshIsUntried'
    BY <1>7 DEF Deliver, IInv, ExclusiveClaim, DeadMeansExhausted, FreshIsUntried, Holds, rows
  <2>5. OneEmailPerAttempt' /\ DeliveredMeansSent'
    BY <1>7, <2>1, <2>2 DEF Deliver, IInv, TypeOK, OneEmailPerAttempt, DeliveredMeansSent, rows
  <2>6. JobInHand'
    BY <1>7, <2>1, <2>2 DEF Deliver, IInv, TypeOK, JobInHand, Holds, rows
  <2>7. AttemptUnspent'
    BY <1>7, <2>1, <2>2 DEF Deliver, IInv, TypeOK, AttemptUnspent, Tried, Holds, rows
  <2> QED BY <2>3, <2>4, <2>5, <2>6, <2>7 DEF IInv
<1>8. ASSUME NEW p \in Processes, MarkGone(p) PROVE IInv'
  BY <1>8, ReturnInv DEF MarkGone, IInv, TypeOK, JobInHand
<1>9. ASSUME NEW p \in Processes, MarkDelivered(p) PROVE IInv'
  BY <1>9, ReturnInv DEF MarkDelivered, IInv, TypeOK
<1>10. ASSUME NEW p \in Processes, HandleFailure(p) PROVE IInv'
  <2>1. job[p] \in Submissions /\ Holds(p, job[p]) /\ pc[p] # "loop"
    BY <1>10 DEF HandleFailure, IInv, JobInHand
  <2>2. batch[p][job[p]] = attempts[job[p]] /\ attempts[job[p]] \in 0..MaxAttempts
    BY <2>1 DEF IInv, ExclusiveClaim, TypeOK
  <2>3. CASE Exhausted(p)
    <3>1. attempts[job[p]] = MaxAttempts
      BY <2>2, <2>3 DEF Exhausted
    <3>2. Mark(job[p], "dead") /\ wait' \in [Submissions -> 0..MaxBackoff]
      BY <1>10, <2>3 DEF HandleFailure, IInv, TypeOK
    <3> QED BY <1>10, <2>1, <3>1, <3>2, ReturnInv DEF HandleFailure
  <2>4. CASE ~Exhausted(p)
    <3>1. wait' \in [Submissions -> 0..MaxBackoff]
      BY <1>10, <2>1, <2>2, <2>4, BackoffBounded DEF HandleFailure, IInv, TypeOK
    <3> QED BY <1>10, <2>1, <2>2, <2>4, <3>1, ReturnInv DEF HandleFailure, Exhausted
  <2> QED BY <2>3, <2>4
<1>11. ASSUME NEW p \in Processes, Crash(p) PROVE IInv'
  BY <1>11, ForgetInv DEF Crash, IInv, TypeOK, rows, sends
<1>12. ASSUME NEW p \in Processes, DbError(p) PROVE IInv'
  BY <1>12, ForgetInv DEF DbError, IInv, TypeOK, rows, sends
<1>13. CASE UNCHANGED vars
  BY <1>13 DEF vars, IInv, TypeOK, ExclusiveClaim, OneEmailPerAttempt, DeliveredMeansSent,
               DeadMeansExhausted, JobInHand, AttemptUnspent, FreshIsUntried, Holds, Tried
<1> QED BY <1>1, <1>2, <1>3, <1>4, <1>5, <1>6, <1>7, <1>8, <1>9, <1>10, <1>11, <1>12, <1>13
        DEF Next, Process

\* The inductive invariant holds in every reachable state.
LEMMA Invariant == Spec => []IInv
BY InitInv, NextInv, PTL DEF Spec

\* Every variable keeps its type: in particular no job is ever claimed more
\* than NOTIFY_MAX_ATTEMPTS times.
THEOREM TypeCorrect == Spec => []TypeOK
<1>1. IInv => TypeOK BY DEF IInv
<1> QED BY <1>1, Invariant, PTL

\* No two processes ever hold the same job, and none holds a stale attempt
\* number, however many workers and drivers poll one table.
THEOREM ClaimsAreExclusive == Spec => []ExclusiveClaim
<1>1. IInv => ExclusiveClaim BY DEF IInv
<1> QED BY <1>1, Invariant, PTL

\* A visitor gets at most one confirmation per attempt, so at most
\* NOTIFY_MAX_ATTEMPTS of them, whatever crashes or is deleted.
THEOREM EmailsAreBounded == Spec => []OneEmailPerAttempt
<1>1. IInv => OneEmailPerAttempt BY DEF IInv
<1> QED BY <1>1, Invariant, PTL

\* The two final statuses are truthful: 'delivered' was sent, 'dead' has used
\* every attempt.
THEOREM StatusesAreTruthful == Spec => []StatusIsTruthful
<1>1. IInv => StatusIsTruthful BY DEF IInv, StatusIsTruthful
<1> QED BY <1>1, Invariant, PTL
-----------------------------------------------------------------------------
\* The worker implements the promise: every step, with its interleavings, its
\* faults and its forgotten batches, is a step of the queue or changes nothing
\* the queue speaks of.
THEOREM WorkerImplementsQueue == Spec => Implements
<1> DEFINE outcome == [s \in Submissions |-> Outcome(s)]
<1>1. Init => Queue!QInit
  BY DEF Init, Queue!QInit, Outcome
<1>2. ASSUME IInv, [Next]_vars PROVE [Queue!QNext]_(Queue!qvars)
  <2> USE <1>2
  <2>1. ASSUME NEW s \in Submissions, Enqueue(s) PROVE Queue!Accept(s)
    BY <2>1 DEF Enqueue, Queue!Accept, Outcome, IInv, TypeOK, sends
  <2>2. ASSUME NEW w \in Widgets, DeleteWidget(w) PROVE \E S \in SUBSET Submissions : Queue!Remove(S)
    <3> DEFINE S == {s \in Submissions : WidgetOf[s] = w /\ Exists(s)}
    <3>1. Queue!Remove(S)
      BY <2>2 DEF DeleteWidget, Exists, Queue!Remove, Outcome, IInv, TypeOK, sends
    <3> QED BY <3>1
  <2>3. ASSUME NEW p \in Processes, NEW S \in SUBSET Claimable, Claim(p, S) PROVE Queue!Try(S)
    BY <2>3, ConstantsAssumption
    DEF Claim, Claimable, Queue!Try, Outcome, IInv, TypeOK, OneEmailPerAttempt, sends
  <2>4. ASSUME NEW w \in Workers, ClaimDue(w) PROVE \E S \in SUBSET Submissions : Queue!Try(S)
    <3>1. PICK S \in SUBSET Due : Claim(w, S)
      BY <2>4 DEF ClaimDue
    <3>2. w \in Processes /\ S \in SUBSET Claimable /\ S \in SUBSET Submissions
      BY DEF Processes, Due, Claimable
    <3> QED BY <2>3, <3>1, <3>2
  <2>5. ASSUME NEW d \in Drivers, NEW s \in Submissions, ClaimOne(d, s) PROVE Queue!Try({s})
    <3>1. d \in Processes /\ {s} \in SUBSET Claimable /\ Claim(d, {s})
      BY <2>5 DEF Processes, ClaimOne
    <3> QED BY <2>3, <3>1
  <2>6. ASSUME NEW p \in Processes, pc[p] # "loop"
        PROVE  /\ job[p] \in Submissions /\ Holds(p, job[p])
               /\ status[job[p]] \in {"processing", "gone"}
               /\ batch[p][job[p]] = attempts[job[p]] /\ attempts[job[p]] \in 0..MaxAttempts
    BY <2>6 DEF IInv, JobInHand, ExclusiveClaim, TypeOK
  <2>7. ASSUME NEW p \in Processes, Deliver(p)
        PROVE  Queue!Send(job[p]) \/ UNCHANGED Queue!qvars
    <3>1. emails[job[p]] < attempts[job[p]]
      BY <2>6, <2>7 DEF Deliver, IInv, AttemptUnspent, Tried
    <3> QED BY <2>6, <2>7, <3>1 DEF Deliver, Queue!Send, Queue!qvars, Outcome, IInv, TypeOK, rows
  <2>8. ASSUME NEW p \in Processes, MarkGone(p) PROVE UNCHANGED Queue!qvars
    BY <2>6, <2>8 DEF MarkGone, Mark, Exists, Queue!qvars, Outcome, IInv, TypeOK, JobInHand, sends
  <2>9. ASSUME NEW p \in Processes, MarkDelivered(p)
        PROVE  Queue!Settle(job[p]) \/ UNCHANGED Queue!qvars
    BY <2>6, <2>9
    DEF MarkDelivered, Mark, Exists, Queue!Settle, Queue!qvars, Outcome, IInv, TypeOK, JobInHand, sends
  <2>10. ASSUME NEW p \in Processes, HandleFailure(p)
         PROVE  Queue!GiveUp(job[p]) \/ UNCHANGED Queue!qvars
    <3>1. CASE Exhausted(p)
      <4>1. attempts[job[p]] = MaxAttempts
        BY <2>6, <2>10, <3>1, ConstantsAssumption DEF Exhausted, HandleFailure
      <4> QED BY <2>6, <2>10, <3>1, <4>1
              DEF HandleFailure, Mark, Exists, Queue!GiveUp, Queue!qvars, Outcome, IInv, TypeOK, sends
    <3>2. CASE ~Exhausted(p)
      BY <2>6, <2>10, <3>2 DEF HandleFailure, Mark, Exists, Queue!qvars, Outcome, IInv, TypeOK, sends
    <3> QED BY <3>1, <3>2
  <2>11. /\ Elapse => UNCHANGED Queue!qvars
         /\ UNCHANGED vars => UNCHANGED Queue!qvars
         /\ \A p \in Processes : Crash(p) \/ DbError(p) => UNCHANGED Queue!qvars
         /\ \A p \in Processes, s \in Submissions : PayloadFor(p, s) => UNCHANGED Queue!qvars
    BY DEF Elapse, Crash, DbError, PayloadFor, vars, rows, sends, Outcome, Queue!qvars
  <2>12. ASSUME NEW p \in Processes, Process(p) PROVE [Queue!QNext]_(Queue!qvars)
    BY <2>6, <2>7, <2>8, <2>9, <2>10, <2>11, <2>12
    DEF Process, Queue!QNext, Deliver, MarkDelivered, HandleFailure
  <2> QED BY <2>1, <2>2, <2>4, <2>5, <2>11, <2>12 DEF Next, Queue!QNext
<1> QED BY <1>1, <1>2, Invariant, PTL DEF Spec, Implements, Queue!QSpec
-----------------------------------------------------------------------------
\* Once a job is delivered or dead nothing is sent for it and its attempts stop.
THEOREM SettledJobsStay == Spec => SettledIsFinal
<1> DEFINE Step(s) == status[s] \in {"delivered", "dead"} =>
                        /\ status'[s] \in {status[s], "gone"}
                        /\ attempts'[s] = attempts[s] /\ emails'[s] = emails[s] /\ posts'[s] = posts[s]
<1>1. ASSUME IInv, [Next]_vars, NEW s \in Submissions PROVE Step(s)
  <2>1. ASSUME status[s] \in {"delivered", "dead"} PROVE \A p \in Processes : ~Holds(p, s)
    BY <1>1, <2>1 DEF IInv, ExclusiveClaim
  <2>2. ASSUME NEW p \in Processes, pc[p] # "loop", status[s] \in {"delivered", "dead"}
        PROVE  job[p] # s
    BY <1>1, <2>1, <2>2 DEF IInv, JobInHand
  <2>3. /\ \A t \in Submissions : Enqueue(t) => Step(s)
        /\ \A w \in Widgets : DeleteWidget(w) => Step(s)
        /\ Elapse => Step(s)
    BY <1>1 DEF Enqueue, DeleteWidget, Elapse, sends, IInv, TypeOK
  <2>4. ASSUME NEW p \in Processes, NEW S \in SUBSET Claimable, Claim(p, S) PROVE Step(s)
    BY <2>4 DEF Claim, Claimable, sends
  <2>4a. /\ \A w \in Workers : ClaimDue(w) => Step(s)
         /\ \A d \in Drivers, t \in Submissions : ClaimOne(d, t) => Step(s)
    <3>1. Due \subseteq Claimable /\ Workers \subseteq Processes /\ Drivers \subseteq Processes
      BY DEF Due, Processes
    <3>2. \A w \in Workers : ClaimDue(w) => Step(s)
      BY <2>4, <3>1 DEF ClaimDue
    <3>3. ASSUME NEW d \in Drivers, NEW t \in Submissions, ClaimOne(d, t) PROVE Step(s)
      <4>1. d \in Processes /\ {t} \in SUBSET Claimable /\ Claim(d, {t})
        BY <3>1, <3>3 DEF ClaimOne
      <4> QED BY <2>4, <4>1
    <3> QED BY <3>2, <3>3
  <2>5. ASSUME NEW p \in Processes, Process(p) PROVE Step(s)
    BY <1>1, <2>2, <2>5 DEF Process, PayloadFor, Deliver, MarkGone, MarkDelivered, HandleFailure,
                       Mark, IInv, TypeOK, rows, sends
  <2>6. \A p \in Processes : Crash(p) \/ DbError(p) => Step(s)
    BY DEF Crash, DbError, rows, sends
  <2>7. UNCHANGED vars => Step(s)
    BY DEF vars
  <2> HIDE DEF Step
  <2> QED BY <1>1, <2>3, <2>4a, <2>5, <2>6, <2>7 DEF Next
<1>2. IInv /\ [Next]_vars => [\A s \in Submissions : Step(s)]_vars
  BY <1>1
<1> QED BY <1>2, Invariant, PTL DEF Spec, SettledIsFinal
-----------------------------------------------------------------------------
\* A fault costs at most the batch it interrupts.

Held(p) == {s \in Submissions : Holds(p, s)}
BInv == FaultCostsOneBatch /\ \A p \in Processes : Cardinality(Held(p)) <= BatchSize

\* Sets of submissions are finite, and a part is no larger than the whole.
LEMMA Part ==
  ASSUME NEW S \in SUBSET Submissions, NEW T \in SUBSET S
  PROVE  IsFiniteSet(S) /\ Cardinality(S) \in Nat /\ Cardinality(T) \in Nat /\ Cardinality(T) <= Cardinality(S)
BY ConstantsAssumption, FS_Subset, FS_CardinalityType

\* Without a new orphan the bound stands.
LEMMA Shrink ==
  ASSUME IInv, BInv, Orphans' \subseteq Orphans, crashes' = crashes, dbErrors' = dbErrors
  PROVE  FaultCostsOneBatch'
<1>1. Orphans \in SUBSET Submissions BY DEF Orphans
<1>2. /\ Cardinality(Orphans') \in Nat /\ Cardinality(Orphans) \in Nat
      /\ Cardinality(Orphans') <= Cardinality(Orphans)
  BY <1>1, Part
<1>3. DEFINE allowed == BatchSize * (crashes + dbErrors)
<1>4. allowed \in Int BY ConstantsAssumption DEF IInv, TypeOK
<1>5. Cardinality(Orphans) <= allowed BY DEF BInv, FaultCostsOneBatch
<1>6. allowed' = allowed OBVIOUS
<1>7. Cardinality(Orphans') <= allowed
  <2> HIDE DEF allowed
  <2> QED BY <1>2, <1>4, <1>5
<1> QED BY <1>6, <1>7 DEF FaultCostsOneBatch

\* As long as no job is orphaned and no batch grows, nothing is lost.
LEMMA NoLoss ==
  ASSUME IInv, BInv, Orphans' \subseteq Orphans, UNCHANGED faults,
         \A p \in Processes : Held(p)' \subseteq Held(p)
  PROVE  BInv'
<1>1. crashes' = crashes /\ dbErrors' = dbErrors BY DEF faults
<1>2. Orphans \subseteq Submissions BY DEF Orphans
<1>3. FaultCostsOneBatch'
  BY <1>1, <1>2, Shrink
<1>4. ASSUME NEW p \in Processes PROVE Cardinality(Held(p)') <= BatchSize
  <2>1. Held(p) \subseteq Submissions BY DEF Held
  <2> QED BY <2>1, Part, ConstantsAssumption DEF BInv
<1> QED BY <1>3, <1>4 DEF BInv

\* A claim puts what it takes from 'pending' into one batch.
LEMMA ClaimLoss ==
  ASSUME IInv, BInv, NEW p \in Processes, NEW S \in SUBSET Claimable, Idle(p), Claim(p, S),
         Cardinality(S) <= BatchSize
  PROVE  BInv'
<1> USE DEF Claim, Holds
<1>1. Orphans' \subseteq Orphans
  BY DEF Orphans, Claimable, Idle, IInv, TypeOK
<1>2. FaultCostsOneBatch'
  BY <1>1, Shrink DEF faults
<1>3. ASSUME NEW q \in Processes PROVE Cardinality(Held(q)') <= BatchSize
  <2>1. CASE q = p
    <3>1. Held(q)' = S
      BY <2>1 DEF Held, Claimable, IInv, TypeOK, OneEmailPerAttempt
    <3> QED BY <3>1
  <2>2. CASE q # p
    <3>1. Held(q)' = Held(q) BY <2>2 DEF Held, IInv, TypeOK
    <3> QED BY <3>1 DEF BInv
  <2> QED BY <2>1, <2>2
<1> QED BY <1>2, <1>3 DEF BInv

\* What a fault orphans is the batch of the process it hits.
LEMMA FaultLoss ==
  ASSUME IInv, BInv, NEW p \in Processes, Forget(p), UNCHANGED rows,
         (crashes + dbErrors)' = crashes + dbErrors + 1
  PROVE  BInv'
<1>1. Orphans' \subseteq Orphans \cup Held(p)
  BY DEF Orphans, Held, Holds, Forget, rows, IInv, TypeOK
<1>2. Orphans \in SUBSET Submissions /\ Held(p) \in SUBSET Submissions
  BY DEF Orphans, Held
<1>3. Cardinality(Orphans') <= Cardinality(Orphans) + Cardinality(Held(p))
  <2>1. Cardinality(Orphans \cup Held(p)) <= Cardinality(Orphans) + Cardinality(Held(p))
    <3>1. IsFiniteSet(Orphans) /\ IsFiniteSet(Held(p)) BY <1>2, Part
    <3>2. Orphans \cap Held(p) \in SUBSET Submissions BY <1>2
    <3>3. Cardinality(Orphans \cap Held(p)) \in Nat BY <3>2, Part
    <3>4. Cardinality(Orphans) \in Nat /\ Cardinality(Held(p)) \in Nat BY <1>2, Part
    <3>5. Cardinality(Orphans \cup Held(p))
            = Cardinality(Orphans) + Cardinality(Held(p)) - Cardinality(Orphans \cap Held(p))
      BY <3>1, FS_Union, Zenon
    <3> QED BY <3>3, <3>4, <3>5
  <2>2. Cardinality(Orphans') <= Cardinality(Orphans \cup Held(p))
    BY <1>1, <1>2, Part
  <2>3. Cardinality(Orphans') \in Nat /\ Cardinality(Orphans \cup Held(p)) \in Nat
    BY <1>1, <1>2, Part
  <2> QED BY <1>2, <2>1, <2>2, <2>3, Part
<1>4. FaultCostsOneBatch'
  <2> DEFINE n == crashes + dbErrors
  <2>1. n \in Nat /\ BatchSize \in Nat BY ConstantsAssumption DEF IInv, TypeOK
  <2>2. BatchSize * (n + 1) = BatchSize * n + BatchSize BY <2>1
  <2>3. Cardinality(Orphans) <= BatchSize * n /\ Cardinality(Held(p)) <= BatchSize
    BY DEF BInv, FaultCostsOneBatch
  <2>4. Cardinality(Orphans) \in Nat /\ Cardinality(Held(p)) \in Nat /\ Cardinality(Orphans') \in Nat
    BY <1>1, <1>2, Part
  <2>5. BatchSize * n \in Nat BY <2>1
  <2>6. Cardinality(Orphans') <= BatchSize * (n + 1)
    <3> HIDE DEF n
    <3> QED BY <1>3, <2>1, <2>2, <2>3, <2>4, <2>5
  <2> QED BY <2>6 DEF FaultCostsOneBatch
<1>5. ASSUME NEW q \in Processes PROVE Cardinality(Held(q)') <= BatchSize
  <2>1. Held(q)' \subseteq Held(q) /\ Held(q) \in SUBSET Submissions
    BY DEF Held, Holds, Forget, IInv, TypeOK
  <2> QED BY <2>1, Part, ConstantsAssumption DEF BInv
<1> QED BY <1>4, <1>5 DEF BInv

\* A job is without a process in 'processing' only by a fault, and a fault
\* costs at most one batch, however many processes, jobs and faults there are.
THEOREM FaultsCostBatches == Spec => []FaultCostsOneBatch
<1>1. ASSUME Init PROVE BInv
  <2>1. Orphans = {} /\ \A p \in Processes : Held(p) = {}
    BY <1>1 DEF Init, Orphans, Held, Holds
  <2>2. Cardinality({}) = 0 BY FS_EmptySet
  <2>3. BatchSize * (crashes + dbErrors) = 0 BY <1>1, ConstantsAssumption DEF Init
  <2>4. FaultCostsOneBatch BY <2>1, <2>2, <2>3 DEF FaultCostsOneBatch
  <2>5. \A p \in Processes : Cardinality(Held(p)) <= BatchSize
    BY <2>1, <2>2, ConstantsAssumption
  <2> QED BY <2>4, <2>5 DEF BInv
<1>2. ASSUME IInv, BInv, [Next]_vars PROVE BInv'
  <2> USE <1>2
  <2>1. ASSUME \/ \E s \in Submissions : Enqueue(s)
               \/ \E w \in Widgets : DeleteWidget(w)
               \/ Elapse \/ UNCHANGED vars
               \/ \E p \in Processes : Process(p)
        PROVE  BInv'
    <3>1. UNCHANGED faults
      BY <2>1 DEF Enqueue, DeleteWidget, Elapse, vars, faults, Process, PayloadFor, Deliver,
                  MarkGone, MarkDelivered, HandleFailure
    <3>2. \A p \in Processes : Held(p)' \subseteq Held(p)
      <4>1. CASE batch' = batch BY <4>1 DEF Held, Holds
      <4>2. ASSUME NEW p \in Processes, Return(p), job[p] \in Submissions
            PROVE  \A q \in Processes : Held(q)' \subseteq Held(q)
        BY <4>2 DEF Held, Holds, Return, IInv, TypeOK
      <4>3. CASE \/ \E s \in Submissions : Enqueue(s)
                 \/ \E w \in Widgets : DeleteWidget(w)
                 \/ Elapse \/ UNCHANGED vars
        BY <4>1, <4>3 DEF Enqueue, DeleteWidget, Elapse, vars, procs
      <4>4. ASSUME NEW p \in Processes, Process(p)
            PROVE  batch' = batch \/ (Return(p) /\ job[p] \in Submissions)
        BY <4>4 DEF Process, PayloadFor, Deliver, MarkGone, MarkDelivered, HandleFailure,
                    IInv, JobInHand
      <4> QED BY <2>1, <4>1, <4>2, <4>3, <4>4
    <3>3. Orphans' \subseteq Orphans
      <4>1. CASE \/ \E s \in Submissions : Enqueue(s)
                 \/ \E w \in Widgets : DeleteWidget(w)
                 \/ Elapse \/ UNCHANGED vars
        BY <4>1 DEF Orphans, Holds, Enqueue, DeleteWidget, Elapse, vars, procs, IInv, TypeOK
      <4>2. ASSUME NEW p \in Processes, Process(p) PROVE Orphans' \subseteq Orphans
        BY <4>2 DEF Orphans, Holds, Process, PayloadFor, Deliver, MarkGone, MarkDelivered,
                    HandleFailure, Mark, Return, Exists, rows, IInv, TypeOK, JobInHand, ExclusiveClaim
      <4> QED BY <2>1, <4>1, <4>2
    <3> QED BY <3>1, <3>2, <3>3, NoLoss
  <2>2. ASSUME NEW w \in Workers, ClaimDue(w) PROVE BInv'
    <3>1. PICK S \in SUBSET Due : Cardinality(S) <= BatchSize /\ Claim(w, S)
      BY <2>2 DEF ClaimDue
    <3>2. w \in Processes /\ S \in SUBSET Claimable /\ Idle(w)
      BY <2>2 DEF Due, Processes, ClaimDue
    <3> QED BY <3>1, <3>2, ClaimLoss
  <2>3. ASSUME NEW d \in Drivers, NEW s \in Submissions, ClaimOne(d, s) PROVE BInv'
    <3>1. d \in Processes /\ {s} \in SUBSET Claimable /\ Idle(d) /\ Claim(d, {s})
      BY <2>3 DEF ClaimOne, Processes
    <3>2. Cardinality({s}) <= BatchSize BY FS_Singleton, ConstantsAssumption
    <3> QED BY <3>1, <3>2, ClaimLoss
  <2>4. ASSUME NEW p \in Processes, Crash(p) \/ DbError(p) PROVE BInv'
    <3>1. Forget(p) /\ UNCHANGED rows BY <2>4 DEF Crash, DbError
    <3>2. (crashes + dbErrors)' = crashes + dbErrors + 1
      BY <2>4, ConstantsAssumption DEF Crash, DbError, IInv, TypeOK
    <3> QED BY <3>1, <3>2, FaultLoss
  <2> QED BY <2>1, <2>2, <2>3, <2>4 DEF Next
<1> QED BY <1>1, <1>2, Invariant, PTL DEF Spec, BInv
=============================================================================
