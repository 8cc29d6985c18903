------------------------- MODULE SubmissionsProofs -------------------------
(***************************************************************************)
(* Submissions for any number of requests, widgets, keys, connections and  *)
(* faults: the safety properties of the runs, and that the endpoint        *)
(* implements SubmissionLedger.                                            *)
(***************************************************************************)
EXTENDS Submissions, TLAPS

Live == {"open", "stored", "deleted"}

\* No two rows that are there, or were until the cascade, share a key.
KeysAreUnique ==
  \A i, r \in Requests : i # r /\ row[i] \in Live /\ row[r] \in Live => ~SameKey(i, r)

DeletedWithWidget == \A r \in Requests : row[r] = "deleted" => widget[req[r].widget] = "deleted"

\* Where a request stands tells what it has written: nothing up to its insert,
\* an open row until its commit, a row for good from then on.
StepAndRow ==
  \A r \in Requests :
    /\ row[r] = "open" <=> pc[r] \in {"insertJob", "commit"}
    /\ pc[r] = "receipt" => row[r] \in {"stored", "deleted"}
    /\ row[r] # "none" => pc[r] \in {"insertJob", "commit", "receipt", "done", "lost"}
    /\ pc[r] = "insertJob" => ~req[r].spam /\ job[r] = "none"
    /\ pc[r] = "commit" => job[r] = IF req[r].spam THEN "none" ELSE "open"

\* A receipt was made from a committed row: the request's own, and then it says
\* 'received', or the one that has its key, and then it says 'replayed'.
ReceiptNamesRow ==
  \A r \in Requests :
    /\ answer[r].code # 0 <=> pc[r] = "done"
    /\ Receipted(r) => /\ pc[r] = "done"
                       /\ answer[r].id \in Requests
                       /\ row[answer[r].id] \in {"stored", "deleted"}
                       /\ answer[r].id = r \/ (answer[r].code = 200 /\ SameKey(answer[r].id, r))

IInv == /\ TypeOK
        /\ KeysAreUnique
        /\ NoOrphanRows
        /\ DeletedWithWidget
        /\ StepAndRow
        /\ JobFollowsSubmission
        /\ ReceiptNamesRow

\* Two requests ask of one widget what the content of either says.
LEMMA ContentType ==
  ASSUME TypeOK, NEW r \in Requests
  PROVE  req[r].widget \in Widgets /\ req[r].spam \in BOOLEAN
BY DEF TypeOK, Content

\* The tables are empty and nobody was told anything at the start.
LEMMA InitInv == Init => IInv
BY BoundAssumption, NoneAssumption, AskedAssumption
DEF Init, IInv, TypeOK, KeysAreUnique, Live, NoOrphanRows, DeletedWithWidget, StepAndRow,
    JobFollowsSubmission, ReceiptNamesRow, Receipted, Unanswered, RowStates, Steps,
    InTransaction, Reads, Codes
-----------------------------------------------------------------------------
\* A step that writes no table and moves one request on, without an answer.
LEMMA GotoInv ==
  ASSUME IInv, NEW r \in Requests, NEW step \in Steps \ {"insertJob", "commit", "receipt", "done", "lost"},
         pc[r] \notin {"insertJob", "commit", "receipt", "done", "lost"},
         Goto(r, step), UNCHANGED <<req, tables, faults>>
  PROVE  IInv'
<1> USE DEF IInv, Goto, tables, faults
<1>1. TypeOK'
  BY DEF TypeOK
<1>2. KeysAreUnique' /\ NoOrphanRows' /\ DeletedWithWidget' /\ JobFollowsSubmission'
  BY DEF KeysAreUnique, SameKey, NoOrphanRows, DeletedWithWidget, JobFollowsSubmission
<1>3. StepAndRow'
  BY DEF TypeOK, StepAndRow
<1>4. ReceiptNamesRow'
  BY DEF TypeOK, ReceiptNamesRow, Receipted, SameKey
<1> QED BY <1>1, <1>2, <1>3, <1>4

\* A step that answers: with no id, with the request's own row, or with the
\* stored row that has its key.
LEMMA AnswerInv ==
  ASSUME IInv, NEW r \in Requests, pc[r] \notin {"insertJob", "commit", "done", "lost"},
         NEW code \in Codes, NEW id \in Requests \cup {None}, Answer(r, code, id),
         \/ id = None
         \/ id = r /\ pc[r] = "receipt"
         \/ id \in Found(r) /\ code = 200,
         UNCHANGED <<req, tables>>, crashes' \in 0..MaxCrashes, dbErrors' \in 0..MaxDbErrors
  PROVE  IInv'
<1> USE NoneAssumption DEF IInv, Answer, tables
<1>1. TypeOK'
  BY DEF TypeOK, Steps, Codes
<1>2. KeysAreUnique' /\ NoOrphanRows' /\ DeletedWithWidget' /\ JobFollowsSubmission'
  BY DEF KeysAreUnique, SameKey, NoOrphanRows, DeletedWithWidget, JobFollowsSubmission
<1>3. StepAndRow'
  BY DEF TypeOK, StepAndRow
<1>4. ReceiptNamesRow'
  <2>1. id # None => row[id] \in {"stored", "deleted"} /\ (id = r \/ (code = 200 /\ SameKey(id, r)))
    BY DEF Found, StepAndRow
  <2> QED BY <2>1 DEF TypeOK, ReceiptNamesRow, Receipted, SameKey, Codes
<1> QED BY <1>1, <1>2, <1>3, <1>4

\* A rollback: rows and jobs that were open vanish, and the requests that had
\* opened them stop.
LEMMA RollbackInv ==
  ASSUME IInv, NEW S \in SUBSET Requests,
         row' = [r \in Requests |-> IF r \in S /\ row[r] = "open" THEN "none" ELSE row[r]],
         job' = [r \in Requests |-> IF r \in S /\ job[r] = "open" THEN "none" ELSE job[r]],
         pc' \in [Requests -> Steps], answer' \in [Requests -> [code : Codes \cup {0}, id : Requests \cup {None}]],
         \A r \in S : pc[r] # "done" /\ pc'[r] \in {"done", "lost"}
                      /\ (answer'[r].code # 0 <=> pc'[r] = "done") /\ answer'[r].id = None,
         \A r \in Requests \ S : pc'[r] = pc[r] /\ answer'[r] = answer[r],
         UNCHANGED <<req, widget>>, crashes' \in 0..MaxCrashes, dbErrors' \in 0..MaxDbErrors
  PROVE  IInv'
<1> USE NoneAssumption DEF IInv
<1>1. TypeOK'
  BY DEF TypeOK, RowStates
<1>2. KeysAreUnique'
  BY DEF TypeOK, KeysAreUnique, SameKey, Live
<1>3. NoOrphanRows' /\ DeletedWithWidget'
  BY DEF TypeOK, NoOrphanRows, DeletedWithWidget
<1>4. StepAndRow'
  BY DEF TypeOK, StepAndRow
<1>5. JobFollowsSubmission'
  <2>1. \A r \in Requests \ S : row'[r] = row[r] /\ job'[r] = job[r]
    OBVIOUS
  <2>2. \A r \in S : /\ row'[r] = IF row[r] = "open" THEN "none" ELSE row[r]
                     /\ job'[r] = IF job[r] = "open" THEN "none" ELSE job[r]
    OBVIOUS
  <2> QED BY <2>1, <2>2 DEF JobFollowsSubmission
<1>6. ReceiptNamesRow'
  BY DEF TypeOK, ReceiptNamesRow, Receipted, SameKey
<1> QED BY <1>1, <1>2, <1>3, <1>4, <1>5, <1>6
-----------------------------------------------------------------------------
\* Every step of the endpoint, the owner and the faults keeps the invariant.
LEMMA NextInv == IInv /\ [Next]_vars => IInv'
<1> SUFFICES ASSUME IInv, [Next]_vars PROVE IInv'
  OBVIOUS
<1> USE NoneAssumption DEF IInv
<1>0. crashes \in 0..MaxCrashes /\ dbErrors \in 0..MaxDbErrors /\ None \in Requests \cup {None}
  BY DEF TypeOK
<1>1. ASSUME NEW r \in Requests, Arrive(r) PROVE IInv'
  <2>1. CASE Goto(r, "getActive")
    BY <1>1, <2>1, GotoInv DEF Arrive, Steps, Reads, InTransaction
  <2>2. ASSUME NEW code \in {400, 413}, Answer(r, code, None) PROVE IInv'
    BY <1>0, <1>1, <2>2, AnswerInv DEF Arrive, Codes, faults
  <2> QED BY <1>1, <2>1, <2>2 DEF Arrive
<1>2. ASSUME NEW r \in Requests, GetActive(r) PROVE IInv'
  <2>1. CASE Goto(r, "check")
    BY <1>2, <2>1, GotoInv DEF GetActive, Steps, Reads, InTransaction
  <2>2. CASE Answer(r, 404, None)
    BY <1>0, <1>2, <2>2, AnswerInv DEF GetActive, Codes, faults
  <2> QED BY <1>2, <2>1, <2>2 DEF GetActive
<1>3. ASSUME NEW r \in Requests, Check(r) PROVE IInv'
  <2>1. ASSUME NEW step \in {"find", "connect"}, Goto(r, step) PROVE IInv'
    BY <1>3, <2>1, GotoInv DEF Check, Steps, Reads, InTransaction
  <2>2. ASSUME NEW code \in {400, 429}, Answer(r, code, None) PROVE IInv'
    BY <1>0, <1>3, <2>2, AnswerInv DEF Check, Codes, faults
  <2> QED BY <1>3, <2>1, <2>2 DEF Check
<1>4. ASSUME NEW r \in Requests, Find(r) PROVE IInv'
  <2>1. CASE Goto(r, "connect")
    BY <1>4, <2>1, GotoInv DEF Find, Steps, Reads, InTransaction
  <2>2. ASSUME NEW i \in Found(r), Answer(r, 200, i) PROVE IInv'
    BY <1>0, <1>4, <2>2, AnswerInv DEF Find, Codes, Found, faults
  <2> QED BY <1>4, <2>1, <2>2 DEF Find
<1>5. ASSUME NEW r \in Requests, Connect(r) PROVE IInv'
  BY <1>5, GotoInv DEF Connect, Steps, Reads, InTransaction
<1>6. ASSUME NEW r \in Requests, Insert(r) PROVE IInv'
  <2>1. CASE Goto(r, "findAgain") /\ UNCHANGED row
    BY <1>6, <2>1, GotoInv DEF Insert, Steps, Reads, InTransaction, tables
  <2>2. CASE Answer(r, 500, None) /\ UNCHANGED row
    BY <1>0, <1>6, <2>2, AnswerInv DEF Insert, Codes, tables, faults
  <2>3. CASE /\ ~Conflicts(r, "open") /\ ~Conflicts(r, "stored") /\ widget[req[r].widget] # "deleted"
             /\ row' = [row EXCEPT ![r] = "open"]
             /\ Goto(r, IF req[r].spam THEN "commit" ELSE "insertJob")
    <3> USE <2>3 DEF Goto, faults
    <3>0. pc[r] = "insert" /\ row[r] = "none" /\ job[r] = "none" /\ UNCHANGED <<req, widget, job, answer, faults>>
      BY <1>6 DEF Insert, StepAndRow, TypeOK, RowStates, JobFollowsSubmission
    <3>1. TypeOK'
      BY <3>0 DEF TypeOK, RowStates, Steps, InTransaction
    <3>2. KeysAreUnique'
      <4>1. \A i \in Requests \ {r} : row[i] \in Live => ~SameKey(i, r)
        BY DEF Conflicts, Live, DeletedWithWidget, SameKey
      <4>2. \A i \in Requests : SameKey(r, i) => SameKey(i, r)
        BY DEF SameKey
      <4> QED BY <3>0, <4>1, <4>2 DEF KeysAreUnique, SameKey, TypeOK
    <3>3. NoOrphanRows' /\ DeletedWithWidget'
      BY <3>0 DEF NoOrphanRows, DeletedWithWidget, TypeOK
    <3>4. StepAndRow'
      BY <3>0, ContentType DEF StepAndRow, TypeOK
    <3>5. JobFollowsSubmission'
      BY <3>0 DEF JobFollowsSubmission, TypeOK
    <3>6. ReceiptNamesRow'
      BY <3>0 DEF ReceiptNamesRow, Receipted, SameKey, TypeOK
    <3> QED BY <3>1, <3>2, <3>3, <3>4, <3>5, <3>6
  <2> QED BY <1>6, <2>1, <2>2, <2>3 DEF Insert
<1>7. ASSUME NEW r \in Requests, InsertJob(r) PROVE IInv'
  <2> USE <1>7 DEF InsertJob, Goto, faults
  <2>1. TypeOK'
    BY DEF TypeOK, RowStates, Steps, InTransaction
  <2>2. KeysAreUnique' /\ NoOrphanRows' /\ DeletedWithWidget'
    BY DEF KeysAreUnique, SameKey, NoOrphanRows, DeletedWithWidget
  <2>3. StepAndRow' /\ JobFollowsSubmission'
    BY DEF StepAndRow, JobFollowsSubmission, TypeOK
  <2>4. ReceiptNamesRow'
    BY DEF ReceiptNamesRow, Receipted, SameKey, TypeOK
  <2> QED BY <2>1, <2>2, <2>3, <2>4
<1>8. ASSUME NEW r \in Requests, Commit(r) PROVE IInv'
  <2> USE <1>8 DEF Commit, Goto, faults
  <2>0. row[r] = "open" /\ job[r] = IF req[r].spam THEN "none" ELSE "open"
    BY DEF StepAndRow
  <2>1. TypeOK'
    BY DEF TypeOK, RowStates, Steps
  <2>2. KeysAreUnique' /\ NoOrphanRows' /\ DeletedWithWidget'
    BY <2>0 DEF KeysAreUnique, Live, SameKey, NoOrphanRows, DeletedWithWidget, TypeOK
  <2>3. StepAndRow'
    BY <2>0 DEF StepAndRow, TypeOK
  <2>4. JobFollowsSubmission'
    BY <2>0, ContentType DEF JobFollowsSubmission, TypeOK
  <2>5. ReceiptNamesRow'
    BY <2>0 DEF ReceiptNamesRow, Receipted, SameKey, TypeOK
  <2> QED BY <2>1, <2>2, <2>3, <2>4, <2>5
<1>9. ASSUME NEW r \in Requests, Receipt(r) PROVE IInv'
  BY <1>0, <1>9, AnswerInv DEF Receipt, Codes, faults
<1>10. ASSUME NEW r \in Requests, FindAgain(r) PROVE IInv'
  <2>1. ASSUME NEW i \in Found(r), Answer(r, 200, i) PROVE IInv'
    BY <1>0, <1>10, <2>1, AnswerInv DEF FindAgain, Codes, Found, faults
  <2>2. CASE Answer(r, 500, None)
    BY <1>0, <1>10, <2>2, AnswerInv DEF FindAgain, Codes, faults
  <2> QED BY <1>10, <2>1, <2>2 DEF FindAgain
<1>16. ASSUME NEW r \in Requests, Raise(r) PROVE IInv'
  <2>1. pc[r] \in {"getActive", "check", "insert"}
    <3>1. pc[r] # "nowhere" /\ req[r].raises \in {"getActive", "check", "insert", "nowhere"}
      BY DEF TypeOK, Content, Steps, InTransaction, Reads
    <3> QED BY <1>16, <3>1 DEF Raise
  <2> QED BY <1>0, <1>16, <2>1, AnswerInv DEF Raise, Codes, faults
<1>11. ASSUME NEW w \in Widgets, SetActive(w) PROVE IInv'
  BY <1>11 DEF SetActive, TypeOK, KeysAreUnique, SameKey, NoOrphanRows, DeletedWithWidget,
               StepAndRow, JobFollowsSubmission, ReceiptNamesRow, Receipted, faults
<1>12. ASSUME NEW w \in Widgets, DeleteWidget(w) PROVE IInv'
  <2> USE <1>12 DEF DeleteWidget, faults
  <2>0. \A r \in Requests :
          /\ row'[r] = IF req[r].widget = w /\ row[r] = "stored" THEN "deleted" ELSE row[r]
          /\ job'[r] = IF req[r].widget = w /\ job[r] = "stored" THEN "deleted" ELSE job[r]
          /\ widget'[req[r].widget] = IF req[r].widget = w THEN "deleted" ELSE widget[req[r].widget]
          /\ req[r].widget = w => row[r] # "open"
    BY ContentType DEF TypeOK
  <2>1. TypeOK'
    BY DEF TypeOK, RowStates
  <2>2. KeysAreUnique'
    BY <2>0 DEF KeysAreUnique, Live, SameKey
  <2>3. NoOrphanRows' /\ DeletedWithWidget'
    BY <2>0 DEF NoOrphanRows, DeletedWithWidget
  <2>4. StepAndRow'
    BY <2>0 DEF StepAndRow, JobFollowsSubmission
  <2>5. JobFollowsSubmission'
    BY <2>0, ContentType DEF JobFollowsSubmission
  <2>6. ReceiptNamesRow'
    BY <2>0 DEF ReceiptNamesRow, Receipted, SameKey
  <2> QED BY <2>1, <2>2, <2>3, <2>4, <2>5, <2>6
<1>13. ASSUME NEW r \in Requests, DbError(r) PROVE IInv'
  <2>1. /\ row' = [i \in Requests |-> IF i \in {r} /\ row[i] = "open" THEN "none" ELSE row[i]]
        /\ job' = [i \in Requests |-> IF i \in {r} /\ job[i] = "open" THEN "none" ELSE job[i]]
    BY <1>13 DEF DbError, TypeOK
  <2>2. pc' \in [Requests -> Steps] /\ answer' \in [Requests -> [code : Codes \cup {0}, id : Requests \cup {None}]]
    BY <1>13 DEF DbError, Answer, TypeOK, Steps, Codes
  <2>3. /\ \A i \in {r} : pc[i] # "done" /\ pc'[i] \in {"done", "lost"}
                          /\ (answer'[i].code # 0 <=> pc'[i] = "done") /\ answer'[i].id = None
        /\ \A i \in Requests \ {r} : pc'[i] = pc[i] /\ answer'[i] = answer[i]
    BY <1>13 DEF DbError, Answer, TypeOK, InTransaction, Reads
  <2>4. UNCHANGED <<req, widget>> /\ crashes' \in 0..MaxCrashes /\ dbErrors' \in 0..MaxDbErrors
    BY <1>13, BoundAssumption DEF DbError, TypeOK
  <2> DEFINE S == {r}
  <2> HIDE DEF S
  <2>5. /\ row' = [i \in Requests |-> IF i \in S /\ row[i] = "open" THEN "none" ELSE row[i]]
        /\ job' = [i \in Requests |-> IF i \in S /\ job[i] = "open" THEN "none" ELSE job[i]]
        /\ \A i \in S : pc[i] # "done" /\ pc'[i] \in {"done", "lost"}
                       /\ (answer'[i].code # 0 <=> pc'[i] = "done") /\ answer'[i].id = None
        /\ \A i \in Requests \ S : pc'[i] = pc[i] /\ answer'[i] = answer[i]
        /\ S \in SUBSET Requests
    BY <2>1, <2>3 DEF S
  <2> QED BY <2>2, <2>4, <2>5, RollbackInv
<1>14. CASE Crash
  <2> DEFINE S == {r \in Requests : pc[r] \notin {"arrive", "done"}}
  <2>0. \A i \in Requests : i \notin S => row[i] # "open" /\ job[i] # "open"
    BY DEF TypeOK, RowStates, StepAndRow, JobFollowsSubmission
  <2>1. /\ row' = [i \in Requests |-> IF i \in S /\ row[i] = "open" THEN "none" ELSE row[i]]
        /\ job' = [i \in Requests |-> IF i \in S /\ job[i] = "open" THEN "none" ELSE job[i]]
    <3> HIDE DEF S
    <3> QED BY <1>14, <2>0 DEF Crash
  <2>2. pc' \in [Requests -> Steps] /\ answer' \in [Requests -> [code : Codes \cup {0}, id : Requests \cup {None}]]
    BY <1>14 DEF Crash, TypeOK, Steps
  <2>3. /\ \A i \in S : pc[i] # "done" /\ pc'[i] \in {"done", "lost"}
                          /\ (answer'[i].code # 0 <=> pc'[i] = "done") /\ answer'[i].id = None
        /\ \A i \in Requests \ S : pc'[i] = pc[i] /\ answer'[i] = answer[i]
    BY <1>14 DEF Crash, TypeOK, ReceiptNamesRow, Receipted
  <2>4. UNCHANGED <<req, widget>> /\ crashes' \in 0..MaxCrashes /\ dbErrors' \in 0..MaxDbErrors
    BY <1>14, BoundAssumption DEF Crash, TypeOK
  <2> HIDE DEF S
  <2>5. S \in SUBSET Requests
    BY DEF S
  <2> QED BY <2>1, <2>2, <2>3, <2>4, <2>5, RollbackInv
<1>15. CASE UNCHANGED vars
  BY <1>15 DEF vars, TypeOK, KeysAreUnique, SameKey, NoOrphanRows, DeletedWithWidget,
               StepAndRow, JobFollowsSubmission, ReceiptNamesRow, Receipted
<1> QED BY <1>1, <1>2, <1>3, <1>4, <1>5, <1>6, <1>7, <1>8, <1>9, <1>10, <1>11, <1>12, <1>13, <1>14, <1>15, <1>16
        DEF Next, Submit

\* The inductive invariant holds in every reachable state.
LEMMA Invariant == Spec => []IInv
BY InitInv, NextInv, PTL DEF Spec

\* Every variable keeps its type.
THEOREM TypeCorrect == Spec => []TypeOK
<1>1. IInv => TypeOK BY DEF IInv
<1> QED BY <1>1, Invariant, PTL

\* However many requests carry one key, in whatever order their statements
\* run, every receipt names the same submission and one at most is the first.
THEOREM ReplaysAgree == Spec => []OneSubmissionPerKey
<1>1. ASSUME IInv PROVE OneSubmissionPerKey
  <2> SUFFICES ASSUME NEW r1 \in Requests, NEW r2 \in Requests, r1 # r2, SameKey(r1, r2),
                      Receipted(r1), Receipted(r2)
               PROVE  answer[r1].id = answer[r2].id
                      /\ {answer[r1].code, answer[r2].code} \cap {200} # {}
    BY DEF OneSubmissionPerKey
  <2>1. /\ answer[r1].id \in Requests /\ row[answer[r1].id] \in Live
        /\ answer[r1].id = r1 \/ (answer[r1].code = 200 /\ SameKey(answer[r1].id, r1))
        /\ answer[r2].id \in Requests /\ row[answer[r2].id] \in Live
        /\ answer[r2].id = r2 \/ (answer[r2].code = 200 /\ SameKey(answer[r2].id, r2))
    BY <1>1 DEF IInv, ReceiptNamesRow, Live
  <2>2. SameKey(answer[r1].id, answer[r2].id)
    BY <2>1 DEF SameKey
  <2>3. answer[r1].id = answer[r2].id
    BY <1>1, <2>1, <2>2 DEF IInv, KeysAreUnique
  <2> QED BY <2>1, <2>3
<1> QED BY <1>1, Invariant, PTL

\* An id once given stays good until its widget is deleted, through every
\* crash and database error.
THEOREM ReceiptsAreDurable == Spec => []ReceiptIsDurable
<1>1. IInv => ReceiptIsDurable
  BY DEF IInv, ReceiptIsDurable, ReceiptNamesRow, DeletedWithWidget, SameKey
<1> QED BY <1>1, Invariant, PTL

\* A submission and its job are there together or not at all, and a deleted
\* widget keeps neither.
THEOREM RowsBelongTogether == Spec => []TablesAgree
<1>1. IInv => TablesAgree BY DEF IInv, TablesAgree
<1> QED BY <1>1, Invariant, PTL
-----------------------------------------------------------------------------
\* A request that lost the race for its key can find the row it lost to, as
\* long as the widget is there.
LoserFinds ==
  \A r \in Requests : pc[r] = "findAgain" => Found(r) # {} \/ widget[req[r].widget] = "deleted"
EInv == ErrorsHaveACause /\ LoserFinds

\* What a step may do that bears on it: no row is taken from a widget that
\* stays, a deletion and a database error are not undone, only a conflict sends
\* a request to the second lookup and only a cause gives it a 500.
Excusable ==
  /\ req' = req
  /\ \A w \in Widgets : widget[w] = "deleted" => widget'[w] = "deleted"
  /\ dbErrors > 0 => dbErrors' > 0
  /\ \A i \in Requests : row[i] = "stored" => row'[i] = "stored" \/ widget'[req[i].widget] = "deleted"
  /\ \A r \in Requests :
       /\ pc'[r] = "findAgain" => pc[r] = "findAgain" \/ Conflicts(r, "stored")
       /\ answer'[r].code = 500 => \/ answer[r].code = 500 \/ dbErrors' > 0
                                   \/ widget[req[r].widget] = "deleted"
                                   \/ req[r].raises # "nowhere"
                                   \/ pc[r] = "findAgain" /\ Found(r) = {}

LEMMA EveryStepExcusable == IInv /\ [Next]_vars => Excusable
<1> SUFFICES ASSUME IInv, [Next]_vars PROVE Excusable OBVIOUS
<1> USE DEF Excusable, faults, tables, Goto, Answer
<1>1. ASSUME NEW r \in Requests, \/ Arrive(r) \/ GetActive(r) \/ Check(r) \/ Find(r) \/ Connect(r)
                                 \/ InsertJob(r) \/ Receipt(r)
      PROVE  Excusable
  BY <1>1 DEF Arrive, GetActive, Check, Find, Connect, InsertJob, Receipt, IInv, TypeOK
<1>2. ASSUME NEW r \in Requests, Insert(r) PROVE Excusable
  <2>1. UNCHANGED <<req, widget, dbErrors>> /\ row' = [row EXCEPT ![r] = row'[r]]
        /\ (row[r] = "stored" => row'[r] = "stored")
    BY <1>2 DEF Insert, IInv, TypeOK, StepAndRow
  <2>2. \A i \in Requests : pc'[i] = "findAgain" => pc[i] = "findAgain" \/ Conflicts(i, "stored")
    BY <1>2 DEF Insert, IInv, TypeOK
  <2>3. \A i \in Requests : answer'[i].code = 500 => \/ answer[i].code = 500
                                                     \/ widget[req[i].widget] = "deleted"
    BY <1>2 DEF Insert, IInv, TypeOK
  <2> QED BY <2>1, <2>2, <2>3 DEF IInv, TypeOK
<1>3. ASSUME NEW r \in Requests, Commit(r) PROVE Excusable
  BY <1>3 DEF Commit, IInv, TypeOK
<1>4. ASSUME NEW r \in Requests, FindAgain(r) PROVE Excusable
  BY <1>4 DEF FindAgain, IInv, TypeOK
<1>5. ASSUME NEW w \in Widgets, SetActive(w) \/ DeleteWidget(w) PROVE Excusable
  BY <1>5, ContentType DEF SetActive, DeleteWidget, IInv, TypeOK
<1>6. ASSUME NEW r \in Requests, DbError(r) PROVE Excusable
  BY <1>6 DEF DbError, IInv, TypeOK
<1>7. CASE Crash
  BY <1>7 DEF Crash, IInv, TypeOK
<1>8. CASE UNCHANGED vars
  BY <1>8 DEF vars
<1>9. ASSUME NEW r \in Requests, Raise(r) PROVE Excusable
  <2>1. req[r].raises # "nowhere"
    BY <1>9 DEF Raise, IInv, TypeOK, Steps, InTransaction, Reads
  <2> QED BY <1>9, <2>1 DEF Raise, IInv, TypeOK
<1> QED BY <1>1, <1>2, <1>3, <1>4, <1>5, <1>6, <1>7, <1>8, <1>9 DEF Next, Submit

\* Without a database error, with the widget in place and for what raises
\* nowhere by itself, no interleaving of requests gives a visitor a server error.
THEOREM ErrorsAreExcused == Spec => []ErrorsHaveACause
<1>1. Init => EInv
  BY DEF Init, EInv, ErrorsHaveACause, LoserFinds, Unanswered
<1>2. ASSUME IInv, EInv, [Next]_vars PROVE EInv'
  <2>1. Excusable BY <1>2, EveryStepExcusable
  <2>2. ErrorsHaveACause'
    BY <1>2, <2>1, ContentType DEF IInv, EInv, ErrorsHaveACause, LoserFinds, Excusable
  <2>3. ASSUME NEW r \in Requests, pc'[r] = "findAgain"
        PROVE  Found(r)' # {} \/ widget'[req'[r].widget] = "deleted"
    <3>1. PICK i \in Requests : \/ row[i] = "stored" /\ SameKey(i, r)
                                \/ widget[req[r].widget] = "deleted"
      BY <1>2, <2>1, <2>3 DEF Excusable, EInv, LoserFinds, Found, Conflicts
    <3>2. SameKey(i, r) => req[i].widget = req[r].widget /\ SameKey(i, r)'
      BY <2>1 DEF SameKey, Excusable
    <3> QED BY <1>2, <2>1, <3>1, <3>2, ContentType DEF Excusable, Found, IInv
  <2> QED BY <2>2, <2>3 DEF EInv, LoserFinds
<1>3. EInv => ErrorsHaveACause BY DEF EInv
<1> QED BY <1>1, <1>2, <1>3, Invariant, PTL DEF Spec
-----------------------------------------------------------------------------
\* The endpoint implements the promise: a request's many statements come down
\* to one step that stores it with its notification and one that answers.
THEOREM SubmissionsImplementLedger == Spec => Implements
<1>1. Init => Ledger!LInit
  <2> SUFFICES ASSUME Init PROVE Ledger!LInit
    OBVIOUS
  <2>1. \A r \in Requests : LedgerState(r) = "absent" /\ job[r] # "stored" /\ Told(r) = None
    BY NoneAssumption DEF Init, LedgerState, Told, Receipted, Unanswered
  <2>2. [r \in Requests |-> job[r] = "stored"] = [r \in Requests |-> FALSE]
    BY <2>1, Zenon
  <2>3. req \in Asked
    BY DEF Init
  <2> QED BY <2>1, <2>2, <2>3 DEF Ledger!LInit
<1>2. ASSUME IInv, [Next]_vars PROVE [Ledger!LNext]_(Ledger!lvars)
  <2> USE <1>2, NoneAssumption DEF IInv
  <2>1. ASSUME NEW r \in Requests, NEW step, Goto(r, step), UNCHANGED <<req, tables>>
        PROVE  UNCHANGED Ledger!lvars
    BY <2>1 DEF Goto, tables, Ledger!lvars, LedgerState, Told, Receipted
  <2>2. ASSUME NEW r \in Requests, pc[r] # "done"
        PROVE  Told(r) = None /\ answer[r].id = None /\ answer[r].code = 0
    BY <2>2 DEF Told, ReceiptNamesRow, Receipted, TypeOK
  <2>3. ASSUME NEW r \in Requests, pc[r] # "done", NEW code \in Codes, Answer(r, code, None),
               UNCHANGED req, [i \in Requests |-> LedgerState(i)]' = [i \in Requests |-> LedgerState(i)],
               [i \in Requests |-> job[i] = "stored"]' = [i \in Requests |-> job[i] = "stored"]
        PROVE  Ledger!Refuse(r)
    <3>1. \A i \in Requests : Told(i)' = IF i = r THEN "refused" ELSE Told(i)
      BY <2>3 DEF Answer, Told, Receipted, TypeOK, Codes
    <3> QED BY <2>2, <2>3, <3>1 DEF Ledger!Refuse
  <2>4. ASSUME NEW r \in Requests, NEW i \in Requests, NEW code \in Codes, pc[r] # "done",
               Answer(r, code, i), UNCHANGED <<req, tables>>,
               row[i] \in {"stored", "deleted"}, i = r \/ SameKey(i, r)
        PROVE  Ledger!Tell(r, i)
    <3>1. \A j \in Requests : Told(j)' = IF j = r THEN i ELSE Told(j)
      BY <2>4 DEF Answer, Told, Receipted, TypeOK, Codes
    <3>2. [j \in Requests |-> Told(j)]' = [[j \in Requests |-> Told(j)] EXCEPT ![r] = i]
      BY <3>1
    <3>3. LedgerState(i) # "absent" /\ (i = r \/ Ledger!SameKey(i, r))
      BY <2>4 DEF LedgerState, SameKey, Ledger!SameKey
    <3>4. UNCHANGED <<req, [j \in Requests |-> LedgerState(j)], [j \in Requests |-> job[j] = "stored"]>>
      BY <2>4 DEF tables, LedgerState
    <3>5. /\ [j \in Requests |-> Told(j)][r] = None
          /\ [j \in Requests |-> LedgerState(j)][i] # "absent"
      BY <2>2, <2>4, <3>3
    <3> QED BY <3>2, <3>3, <3>4, <3>5, Zenon DEF Ledger!Tell
  <2>5. ASSUME NEW r \in Requests, Arrive(r) \/ GetActive(r) \/ Check(r) \/ Connect(r) \/ Raise(r)
        PROVE  Ledger!Refuse(r) \/ UNCHANGED Ledger!lvars
    <3>1. CASE UNCHANGED <<req, tables>> /\ \E step \in Steps : Goto(r, step)
      BY <2>1, <3>1
    <3>2. CASE \E code \in Codes : Answer(r, code, None)
      <4>1. PICK code \in Codes : Answer(r, code, None)
        BY <3>2
      <4>2. pc[r] # "done" /\ UNCHANGED <<req, tables>>
        BY <2>5 DEF Arrive, GetActive, Check, Connect, Raise, TypeOK, Content
      <4>3. /\ [i \in Requests |-> LedgerState(i)]' = [i \in Requests |-> LedgerState(i)]
            /\ [i \in Requests |-> job[i] = "stored"]' = [i \in Requests |-> job[i] = "stored"]
        BY <4>2 DEF tables, LedgerState
      <4> QED BY <2>3, <4>1, <4>2, <4>3
    <3> QED BY <2>5, <3>1, <3>2
            DEF Arrive, GetActive, Check, Connect, Raise, Steps, InTransaction, Reads, Codes
  <2>6. ASSUME NEW r \in Requests, Find(r) \/ FindAgain(r)
        PROVE  Ledger!Refuse(r) \/ UNCHANGED Ledger!lvars \/ \E i \in Requests : Ledger!Tell(r, i)
    <3>1. pc[r] # "done" /\ UNCHANGED <<req, tables>>
      BY <2>6 DEF Find, FindAgain
    <3>2. ASSUME NEW i \in Found(r), Answer(r, 200, i) PROVE Ledger!Tell(r, i) /\ i \in Requests
      BY <2>4, <3>1, <3>2 DEF Found, Codes
    <3>3. CASE Answer(r, 500, None)
      <4>1. /\ [i \in Requests |-> LedgerState(i)]' = [i \in Requests |-> LedgerState(i)]
            /\ [i \in Requests |-> job[i] = "stored"]' = [i \in Requests |-> job[i] = "stored"]
        BY <3>1 DEF tables, LedgerState
      <4> QED BY <2>3, <3>1, <3>3, <4>1 DEF Codes
    <3>4. CASE Goto(r, "connect")
      BY <2>1, <3>1, <3>4
    <3> QED BY <2>6, <3>2, <3>3, <3>4 DEF Find, FindAgain
  <2>7. ASSUME NEW r \in Requests, Receipt(r) PROVE Ledger!Tell(r, r)
    <3>1. /\ pc[r] # "done" /\ row[r] \in {"stored", "deleted"} /\ UNCHANGED <<req, tables>>
          /\ \E code \in Codes : Answer(r, code, r)
      BY <2>7 DEF Receipt, StepAndRow, Codes
    <3> QED BY <2>4, <3>1
  <2>8. ASSUME NEW r \in Requests, Insert(r) PROVE Ledger!Refuse(r) \/ UNCHANGED Ledger!lvars
    <3>1. CASE UNCHANGED row /\ Goto(r, "findAgain")
      BY <2>1, <2>8, <3>1 DEF Insert, tables
    <3>2. CASE UNCHANGED row /\ Answer(r, 500, None)
      <4>1. /\ [i \in Requests |-> LedgerState(i)]' = [i \in Requests |-> LedgerState(i)]
            /\ [i \in Requests |-> job[i] = "stored"]' = [i \in Requests |-> job[i] = "stored"]
        BY <2>8, <3>2 DEF Insert, LedgerState
      <4> QED BY <2>3, <2>8, <3>2, <4>1 DEF Insert, Codes
    <3>3. CASE row' = [row EXCEPT ![r] = "open"] /\ UNCHANGED answer
      <4>1. row[r] = "none" /\ UNCHANGED <<req, job>>
        BY <2>8 DEF Insert, StepAndRow
      <4>2. \A i \in Requests : LedgerState(i)' = LedgerState(i) /\ Told(i)' = Told(i)
        BY <3>3, <4>1 DEF LedgerState, Told, Receipted, TypeOK
      <4> QED BY <4>1, <4>2 DEF Ledger!lvars
    <3> QED BY <2>8, <3>1, <3>2, <3>3 DEF Insert, Goto
  <2>9. ASSUME NEW r \in Requests, InsertJob(r) PROVE UNCHANGED Ledger!lvars
    <3>1. job[r] = "none" /\ UNCHANGED <<req, row, answer>> /\ job' = [job EXCEPT ![r] = "open"]
      BY <2>9 DEF InsertJob, Goto, StepAndRow
    <3>2. /\ \A i \in Requests : LedgerState(i)' = LedgerState(i) /\ Told(i)' = Told(i)
          /\ \A i \in Requests : job'[i] = "stored" <=> job[i] = "stored"
      BY <3>1 DEF LedgerState, Told, Receipted, TypeOK
    <3>3. [i \in Requests |-> job[i] = "stored"]' = [i \in Requests |-> job[i] = "stored"]
      BY <3>2, Zenon
    <3> QED BY <3>1, <3>2, <3>3 DEF Ledger!lvars
  <2>10. ASSUME NEW r \in Requests, Commit(r) PROVE Ledger!Store(r)
    <3>1. /\ row[r] = "open" /\ job[r] = (IF req[r].spam THEN "none" ELSE "open") /\ pc[r] # "done"
          /\ UNCHANGED <<req, answer>> /\ row' = [row EXCEPT ![r] = "stored"]
          /\ job' = [job EXCEPT ![r] = IF @ = "open" THEN "stored" ELSE @]
      BY <2>10 DEF Commit, Goto, StepAndRow
    <3>2. \A i \in Requests : Ledger!SameKey(i, r) => LedgerState(i) = "absent"
      BY <3>1 DEF KeysAreUnique, Live, Ledger!SameKey, SameKey, LedgerState, TypeOK, RowStates
    <3>3. \A i \in Requests : LedgerState(i) = "removed" => req[i].widget # req[r].widget
      BY <3>1 DEF DeletedWithWidget, NoOrphanRows, LedgerState
    <3>4. /\ \A i \in Requests : LedgerState(i)' = IF i = r THEN "stored" ELSE LedgerState(i)
          /\ \A i \in Requests : Told(i)' = Told(i)
          /\ LedgerState(r) = "absent"
      BY <3>1 DEF LedgerState, Told, Receipted, TypeOK
    <3>5. \A i \in Requests : (job'[i] = "stored") = (IF i = r THEN ~req[r].spam ELSE job[i] = "stored")
      BY <3>1, ContentType DEF TypeOK
    <3>6. [i \in Requests |-> job[i] = "stored"]' = [[i \in Requests |-> job[i] = "stored"] EXCEPT ![r] = ~req[r].spam]
      BY <3>5, Zenon
    <3>7. /\ [i \in Requests |-> LedgerState(i)]' = [[i \in Requests |-> LedgerState(i)] EXCEPT ![r] = "stored"]
          /\ UNCHANGED <<req, [i \in Requests |-> Told(i)]>>
          /\ [i \in Requests |-> LedgerState(i)][r] = "absent" /\ [i \in Requests |-> Told(i)][r] = None
      BY <2>2, <3>1, <3>4
    <3>8. /\ \A i \in Requests : Ledger!SameKey(i, r) => [j \in Requests |-> LedgerState(j)][i] = "absent"
          /\ \A i \in Requests : [j \in Requests |-> LedgerState(j)][i] = "removed" => req[i].widget # req[r].widget
      BY <3>2, <3>3
    <3> QED BY <3>6, <3>7, <3>8, Zenon DEF Ledger!Store
  <2>11. ASSUME NEW w \in Widgets, SetActive(w) PROVE UNCHANGED Ledger!lvars
    BY <2>11 DEF SetActive, Ledger!lvars, LedgerState, Told, Receipted
  <2>12. ASSUME NEW w \in Widgets, DeleteWidget(w) PROVE Ledger!Remove(w)
    <3> DEFINE its == {r \in Requests : [i \in Requests |-> LedgerState(i)][r] = "stored" /\ req[r].widget = w}
    <3>1. /\ UNCHANGED <<req, answer>>
          /\ \A r \in Requests : r \in its <=> row[r] = "stored" /\ req[r].widget = w
          /\ \A r \in Requests : row'[r] = IF r \in its THEN "deleted" ELSE row[r]
          /\ \A r \in Requests : job'[r] = IF job[r] = "stored" /\ req[r].widget = w THEN "deleted" ELSE job[r]
          /\ \A r \in Requests : job[r] = "stored" => row[r] = "stored"
      BY <2>12 DEF DeleteWidget, LedgerState, JobFollowsSubmission, TypeOK, RowStates
    <3> HIDE DEF its
    <3>2. \A r \in Requests : /\ LedgerState(r)' = IF r \in its THEN "removed" ELSE LedgerState(r)
                              /\ Told(r)' = Told(r)
                              /\ (job'[r] = "stored") <=> (job[r] = "stored" /\ r \notin its)
      BY <3>1 DEF LedgerState, Told, Receipted
    <3>3. [r \in Requests |-> job[r] = "stored"]'
             = [r \in Requests |-> [i \in Requests |-> job[i] = "stored"][r] /\ r \notin its]
      BY <3>2, Zenon
    <3>4. /\ [r \in Requests |-> LedgerState(r)]'
                = [r \in Requests |-> IF r \in its THEN "removed" ELSE [i \in Requests |-> LedgerState(i)][r]]
          /\ UNCHANGED <<req, [r \in Requests |-> Told(r)]>>
      BY <3>1, <3>2
    <3> QED BY <3>3, <3>4, Zenon DEF Ledger!Remove, its
  <2>13. ASSUME NEW r \in Requests, DbError(r) PROVE Ledger!Refuse(r)
    <3>1. /\ pc[r] # "done" /\ Answer(r, 500, None) /\ UNCHANGED req
          /\ \A i \in Requests : LedgerState(i)' = LedgerState(i)
          /\ \A i \in Requests : job'[i] = "stored" <=> job[i] = "stored"
      BY <2>13 DEF DbError, LedgerState, TypeOK, InTransaction, Reads
    <3>2. [i \in Requests |-> job[i] = "stored"]' = [i \in Requests |-> job[i] = "stored"]
      BY <3>1, Zenon
    <3>3. [i \in Requests |-> LedgerState(i)]' = [i \in Requests |-> LedgerState(i)]
      BY <3>1
    <3> QED BY <2>3, <3>1, <3>2, <3>3 DEF Codes
  <2>14. ASSUME Crash PROVE UNCHANGED Ledger!lvars
    <3>1. /\ \A i \in Requests : LedgerState(i)' = LedgerState(i) /\ Told(i)' = Told(i)
          /\ \A i \in Requests : job'[i] = "stored" <=> job[i] = "stored"
          /\ UNCHANGED req
      BY <2>14 DEF Crash, LedgerState, Told, Receipted, TypeOK
    <3>2. [i \in Requests |-> job[i] = "stored"]' = [i \in Requests |-> job[i] = "stored"]
      BY <3>1, Zenon
    <3> QED BY <3>1, <3>2 DEF Ledger!lvars
  <2>15. CASE UNCHANGED vars
    BY <2>15 DEF vars, Ledger!lvars, LedgerState, Told, Receipted
  <2> QED BY <2>5, <2>6, <2>7, <2>8, <2>9, <2>10, <2>11, <2>12, <2>13, <2>14, <2>15
          DEF Next, Submit, Ledger!LNext
<1> QED BY <1>1, <1>2, Invariant, PTL DEF Spec, Implements, Ledger!LSpec
=============================================================================
