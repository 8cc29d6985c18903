---------------------------- MODULE Submissions ----------------------------
(***************************************************************************)
(* POST /public/submissions from the moment its body is read to its        *)
(* answer: SubmissionsService.submit and the repository calls it makes,    *)
(* each a step, with any number of requests in flight in the threadpool,   *)
(* the owner's changes to the widget between any two steps, and Postgres   *)
(* as the code uses it (one unique index, two foreign keys, row locks).    *)
(*                                                                         *)
(* A request, the row it may insert and that row's job share an identity.  *)
(* Abstracted: the payload (any request may be refused; RateLimiter and    *)
(* Validation say which), but for the step at which it makes the code      *)
(* raise; geo enrichment (PublicEdge) and the wording of answers.          *)
(***************************************************************************)
EXTENDS Naturals, FiniteSets

CONSTANTS Requests,
          Widgets,
          Keys,        \* non-empty Idempotency-Key values
          NoKey,       \* no Idempotency-Key header: NULL in the column
          EmptyKey,    \* an empty header: "" in the column, yet falsy in submit
          Asked,       \* what the requests ask, together
          PoolSize,    \* connections in the pool
          MaxCrashes,  \* bound: crashes of the server process
          MaxDbErrors, \* bound: repository calls that raise
          None

\* raises: the step that what is sent brings to an exception nothing catches.
\* A widget_id with a NUL is refused by the driver; float() overflows on a long
\* integer in a number field, and an error that names a lone surrogate cannot
\* be encoded; jsonb takes neither NaN nor NUL, and no index page a very long key.
Content == [widget : Widgets, key : Keys \cup {NoKey, EmptyKey}, spam : BOOLEAN,
            raises : {"getActive", "check", "insert", "nowhere"}]

ASSUME AskedAssumption == Asked \subseteq [Requests -> Content]
ASSUME KeyAssumption == EmptyKey # NoKey /\ NoKey \notin Keys /\ EmptyKey \notin Keys
ASSUME BoundAssumption == PoolSize \in Nat \ {0} /\ MaxCrashes \in Nat /\ MaxDbErrors \in Nat
ASSUME NoneAssumption == None \notin Requests /\ "refused" \notin Requests /\ None # "refused"

VARIABLES req,     \* what each request asks
          widget,  \* the widgets table: "active", "inactive" or "deleted"
          row,     \* the submissions table, by inserting request
          job,     \* the notification_jobs table, by submission
          pc,      \* the next statement of each request
          answer,  \* the answer each request got: its status and the id it names
          crashes, dbErrors

tables == <<widget, row, job>>
faults == <<crashes, dbErrors>>
vars == <<req, widget, row, job, pc, answer, crashes, dbErrors>>

RowStates == {"none", "open", "stored", "deleted"} \* "open": inserted, not committed
\* Mutant: the second lookup runs while the first connection is still held.
InTransactionNested == {"insert", "insertJob", "commit", "findAgain"}
InTransaction == {"insert", "insertJob", "commit"}
Reads == {"getActive", "find", "findAgain"}
Steps == InTransaction \cup Reads \cup {"arrive", "check", "connect", "receipt", "done", "lost"}

Codes == {200, 201, 202, 400, 404, 413, 429, 500}
Unanswered == [code |-> 0, id |-> None]

Init == /\ req \in Asked
        /\ widget = [w \in Widgets |-> "active"]
        /\ row = [r \in Requests |-> "none"]
        /\ job = [r \in Requests |-> "none"]
        /\ pc = [r \in Requests |-> "arrive"]
        /\ answer = [r \in Requests |-> Unanswered]
        /\ crashes = 0
        /\ dbErrors = 0

\* The unique index on (widget_id, idempotency_key) WHERE the key IS NOT NULL.
SameKey(i, r) == /\ req[i].key # NoKey
                 /\ req[i].key = req[r].key /\ req[i].widget = req[r].widget
\* Mutant: the lookup reads what is not committed.
FoundUncommitted(r) == {i \in Requests : row[i] \in {"open", "stored"} /\ SameKey(i, r)}
Found(r) == {i \in Requests : row[i] = "stored" /\ SameKey(i, r)}
Conflicts(r, state) == \E i \in Requests \ {r} : row[i] = state /\ SameKey(i, r)

\* A connection is held by each open transaction and lent to each read.
PoolHasRoom == Cardinality({r \in Requests : pc[r] \in InTransaction}) < PoolSize

Goto(r, step) == pc' = [pc EXCEPT ![r] = step] /\ UNCHANGED answer
Answer(r, code, id) == /\ pc' = [pc EXCEPT ![r] = "done"]
                       /\ answer' = [answer EXCEPT ![r] = [code |-> code, id |-> id]]
-----------------------------------------------------------------------------
(* The request. *)

\* create_submission: size, JSON and envelope.
Arrive(r) == /\ pc[r] = "arrive"
             /\ Goto(r, "getActive") \/ \E code \in {400, 413} : Answer(r, code, None)
             /\ UNCHANGED <<req, tables, faults>>

GetActive(r) == /\ pc[r] = "getActive" /\ PoolHasRoom
                /\ req[r].raises # "getActive"
                /\ IF widget[req[r].widget] = "active" THEN Goto(r, "check")
                                                       ELSE Answer(r, 404, None)
                /\ UNCHANGED <<req, tables, faults>>

\* Mutant: the framework's own validation error reaches the visitor.
CheckUnhandled(r) == /\ pc[r] = "check"
                     /\ \/ Answer(r, 422, None)
                        \/ /\ req[r].raises # "check"
                           /\ Answer(r, 429, None) \/ Goto(r, IF req[r].key \in Keys THEN "find" ELSE "connect")
                     /\ UNCHANGED <<req, tables, faults>>

\* Unknown keys, validation, the rate limit: before the idempotency lookup,
\* which an empty key skips as a missing one does.
Check(r) == /\ pc[r] = "check"
            /\ \/ Answer(r, 400, None)
               \/ /\ req[r].raises # "check"
                  /\ Answer(r, 429, None) \/ Goto(r, IF req[r].key \in Keys THEN "find" ELSE "connect")
            /\ UNCHANGED <<req, tables, faults>>

Find(r) == /\ pc[r] = "find" /\ PoolHasRoom
           /\ \/ \E i \in Found(r) : Answer(r, 200, i)
              \/ Found(r) = {} /\ Goto(r, "connect")
           /\ UNCHANGED <<req, tables, faults>>

Connect(r) == /\ pc[r] = "connect" /\ PoolHasRoom
              /\ Goto(r, "insert")
              /\ UNCHANGED <<req, tables, faults>>

\* Mutant: a lookup that found nothing is trusted, and there is no unique index.
InsertUnindexed(r) ==
  /\ pc[r] = "insert" /\ req[r].raises # "insert"
  /\ \/ /\ widget[req[r].widget] = "deleted"
        /\ Answer(r, 500, None)
        /\ UNCHANGED row
     \/ /\ widget[req[r].widget] # "deleted"
        /\ row' = [row EXCEPT ![r] = "open"]
        /\ Goto(r, IF req[r].spam THEN "commit" ELSE "insertJob")
  /\ UNCHANGED <<req, widget, job, faults>>

\* Mutant: an uncommitted row with the same key counts as a conflict at once.
InsertImpatient(r) ==
  /\ pc[r] = "insert" /\ req[r].raises # "insert"
  /\ \/ /\ Conflicts(r, "open") \/ Conflicts(r, "stored")
        /\ Goto(r, "findAgain")
        /\ UNCHANGED row
     \/ /\ ~Conflicts(r, "open") /\ ~Conflicts(r, "stored")
        /\ widget[req[r].widget] # "deleted"
        /\ row' = [row EXCEPT ![r] = "open"]
        /\ Goto(r, IF req[r].spam THEN "commit" ELSE "insertJob")
  /\ UNCHANGED <<req, widget, job, faults>>

\* INSERT ... ON CONFLICT DO NOTHING: waits for an uncommitted row with the
\* same key, gives way to a committed one, and fails its foreign key when the
\* widget is gone.
Insert(r) ==
  /\ pc[r] = "insert" /\ req[r].raises # "insert"
  /\ ~Conflicts(r, "open")
  /\ \/ /\ Conflicts(r, "stored")
        /\ Goto(r, "findAgain")
        /\ UNCHANGED row
     \/ /\ ~Conflicts(r, "stored") /\ widget[req[r].widget] = "deleted"
        /\ Answer(r, 500, None)
        /\ UNCHANGED row
     \/ /\ ~Conflicts(r, "stored") /\ widget[req[r].widget] # "deleted"
        /\ row' = [row EXCEPT ![r] = "open"]
        /\ Goto(r, IF req[r].spam THEN "commit" ELSE "insertJob")
  /\ UNCHANGED <<req, widget, job, faults>>

InsertJob(r) == /\ pc[r] = "insertJob"
                /\ job' = [job EXCEPT ![r] = "open"]
                /\ Goto(r, "commit")
                /\ UNCHANGED <<req, widget, row, faults>>

\* Mutant: the job is written on another connection, which is rolled back.
CommitRowOnly(r) == /\ pc[r] = "commit"
                    /\ row' = [row EXCEPT ![r] = "stored"]
                    /\ job' = [job EXCEPT ![r] = "none"]
                    /\ Goto(r, "receipt")
                    /\ UNCHANGED <<req, widget, faults>>

Commit(r) == /\ pc[r] = "commit"
             /\ row' = [row EXCEPT ![r] = "stored"]
             /\ job' = [job EXCEPT ![r] = IF @ = "open" THEN "stored" ELSE @]
             /\ Goto(r, "receipt")
             /\ UNCHANGED <<req, widget, faults>>

Receipt(r) == /\ pc[r] = "receipt"
              /\ Answer(r, IF req[r].spam THEN 202 ELSE 201, r)
              /\ UNCHANGED <<req, tables, faults>>

\* The replay that lost the race; receipt(None) raises when the row it lost to
\* is gone again.
FindAgain(r) == /\ pc[r] = "findAgain" /\ PoolHasRoom
                /\ \/ \E i \in Found(r) : Answer(r, 200, i)
                   \/ Found(r) = {} /\ Answer(r, 500, None)
                /\ UNCHANGED <<req, tables, faults>>

\* What was sent makes the step raise: before the widget is looked up, before
\* the limit is counted, or before the insert looks at any other row.
Raise(r) == /\ pc[r] = req[r].raises
            /\ pc[r] = "getActive" => PoolHasRoom
            /\ Answer(r, 500, None)
            /\ UNCHANGED <<req, tables, faults>>
-----------------------------------------------------------------------------
(* The owner. *)

\* PATCH {"active": ...} takes no lock an open insert holds.
SetActive(w) == /\ widget[w] # "deleted"
                /\ widget' = [widget EXCEPT ![w] = IF @ = "active" THEN "inactive" ELSE "active"]
                /\ UNCHANGED <<req, row, job, pc, answer, faults>>

\* Mutant: no cascade to jobs.
DeleteWidgetKeepingJobs(w) ==
  LET its == {r \in Requests : req[r].widget = w}
  IN /\ widget[w] # "deleted"
     /\ \A r \in its : row[r] # "open"
     /\ widget' = [widget EXCEPT ![w] = "deleted"]
     /\ row' = [r \in Requests |-> IF r \in its /\ row[r] = "stored" THEN "deleted" ELSE row[r]]
     /\ UNCHANGED <<req, job, pc, answer, faults>>

\* DELETE waits for the inserts that hold the widget's key, then cascades.
DeleteWidget(w) ==
  LET its == {r \in Requests : req[r].widget = w}
  IN /\ widget[w] # "deleted"
     /\ \A r \in its : row[r] # "open"
     /\ widget' = [widget EXCEPT ![w] = "deleted"]
     /\ row' = [r \in Requests |-> IF r \in its /\ row[r] = "stored" THEN "deleted" ELSE row[r]]
     /\ job' = [r \in Requests |-> IF r \in its /\ job[r] = "stored" THEN "deleted" ELSE job[r]]
     /\ UNCHANGED <<req, pc, answer, faults>>
-----------------------------------------------------------------------------
(* Faults. *)

\* A repository call raises (connection lost, pool timeout): its transaction
\* is rolled back and the visitor gets a 500.  At "receipt" it is a commit that
\* succeeded and was reported as failed.
DbError(r) == /\ pc[r] \in InTransaction \cup Reads \cup {"connect", "receipt"}
              /\ dbErrors < MaxDbErrors
              /\ dbErrors' = dbErrors + 1
              /\ row' = [row EXCEPT ![r] = IF @ = "open" THEN "none" ELSE @]
              /\ job' = [job EXCEPT ![r] = IF @ = "open" THEN "none" ELSE @]
              /\ Answer(r, 500, None)
              /\ UNCHANGED <<req, widget, crashes>>

\* The server process dies: every request in flight is lost, every open
\* transaction rolled back.
Crash == /\ crashes < MaxCrashes
         /\ \E r \in Requests : pc[r] \notin {"arrive", "done", "lost"}
         /\ crashes' = crashes + 1
         /\ pc' = [r \in Requests |-> IF pc[r] \in {"arrive", "done"} THEN pc[r] ELSE "lost"]
         /\ row' = [r \in Requests |-> IF row[r] = "open" THEN "none" ELSE row[r]]
         /\ job' = [r \in Requests |-> IF job[r] = "open" THEN "none" ELSE job[r]]
         /\ UNCHANGED <<req, widget, answer, dbErrors>>
-----------------------------------------------------------------------------
Submit(r) == \/ GetActive(r) \/ Check(r) \/ Find(r) \/ Connect(r) \/ Insert(r)
             \/ InsertJob(r) \/ Commit(r) \/ Receipt(r) \/ FindAgain(r) \/ Raise(r)

Next == \/ \E r \in Requests : Arrive(r) \/ Submit(r) \/ DbError(r)
        \/ \E w \in Widgets : SetActive(w) \/ DeleteWidget(w)
        \/ Crash

Spec == Init /\ [][Next]_vars

\* A request in the threadpool runs on, and the pool serves its waiters in
\* turn; nothing obliges a visitor to send one or an owner to do anything.
FairSpec == Spec /\ \A r \in Requests : WF_vars(Submit(r))
-----------------------------------------------------------------------------
(* Properties. *)

TypeOK == /\ req \in [Requests -> Content]
          /\ widget \in [Widgets -> {"active", "inactive", "deleted"}]
          /\ row \in [Requests -> RowStates]
          /\ job \in [Requests -> RowStates]
          /\ pc \in [Requests -> Steps]
          /\ answer \in [Requests -> [code : Codes \cup {0}, id : Requests \cup {None}]]
          /\ crashes \in 0..MaxCrashes
          /\ dbErrors \in 0..MaxDbErrors

Receipted(r) == answer[r].id # None

\* "The original row, no second insert": all receipts for one key name one
\* submission, whoever inserted it, in whatever order the requests ran, and at
\* most one of them says it was the first.
OneSubmissionPerKey ==
  \A r1, r2 \in Requests : r1 # r2 /\ SameKey(r1, r2) /\ Receipted(r1) /\ Receipted(r2) =>
    /\ answer[r1].id = answer[r2].id
    /\ {answer[r1].code, answer[r2].code} \cap {200} # {}

\* A visitor who was given an id has a submission: it was committed, and only
\* the deletion of the widget can have taken it since.
ReceiptIsDurable ==
  \A r \in Requests : Receipted(r) =>
    \/ row[answer[r].id] = "stored"
    \/ row[answer[r].id] = "deleted" /\ widget[req[r].widget] = "deleted"

JobFollowsSubmission ==
  \A r \in Requests :
    /\ row[r] \in {"stored", "deleted"} => job[r] = IF req[r].spam THEN "none" ELSE row[r]
    /\ row[r] \in {"none", "open"} => job[r] \in {"none", row[r]}
NoOrphanRows == \A r \in Requests : widget[req[r].widget] = "deleted" => row[r] \notin {"open", "stored"}

\* "A submission can never exist without the job that is supposed to follow
\* it", spam has none, no job outlives or precedes its submission, and a
\* deleted widget has no submission and gets none afterwards.
TablesAgree == JobFollowsSubmission /\ NoOrphanRows

\* A visitor sees a server error only when the database failed, the owner
\* deleted the widget meanwhile, or what he sent raises by itself: no order of
\* the requests brings one about, since a replay that loses the race for its key
\* always finds the row it lost to.
ErrorsHaveACause ==
  \A r \in Requests : answer[r].code = 500 =>
    dbErrors > 0 \/ widget[req[r].widget] = "deleted" \/ req[r].raises # "nowhere"

\* Every request taken up is answered, however small the pool and whoever
\* holds the key: nobody waits for a connection or a row for ever.
EveryRequestAnswered ==
  \A r \in Requests : pc[r] = "getActive" ~> pc[r] \in {"done", "lost"}

\* The promise this component implements.
LedgerState(r) == CASE row[r] = "stored" -> "stored"
                    [] row[r] = "deleted" -> "removed"
                    [] OTHER -> "absent"
Told(r) == IF Receipted(r) THEN answer[r].id
           ELSE IF answer[r].code # 0 THEN "refused" ELSE None
Ledger == INSTANCE SubmissionLedger WITH
            ledger <- [r \in Requests |-> LedgerState(r)],
            owed <- [r \in Requests |-> job[r] = "stored"],
            told <- [r \in Requests |-> Told(r)]
Implements == Ledger!LSpec
=============================================================================
