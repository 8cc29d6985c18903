--------------------------- MODULE StartupProofs ---------------------------
(***************************************************************************)
(* Startup for any number of processes, files and failing statements: what *)
(* is recorded is built, who serves has its schema, and a start fails only *)
(* by an error of the database or in a race.                               *)
(***************************************************************************)
EXTENDS Startup, WellFoundedInduction, TLAPS

Steps == {"idle", "connect", "gave up", "look", "claim", "select", "file", "build", "record",
          "serving", "stopped", "raised", "killed"}

TypeOK == /\ up \in BOOLEAN
          /\ relation \in [Relations -> Processes \cup {Absent, Built}]
          /\ recorded \in SUBSET Range(Files)
          /\ step \in [Processes -> Steps]
          /\ applied \in [Processes -> SUBSET Range(Files)]
          /\ raced \in SUBSET Processes /\ errors \in SUBSET Processes

\* What a process found or wrote stays recorded.
AppliedIsRecorded == \A p \in Processes : applied[p] \subseteq recorded

\* It has a file in hand when it builds and records, and none left when it serves.
FileInHand == \A p \in Processes : /\ step[p] \in {"build", "record"} => Todo(p) # {}
                                   /\ step[p] = "serving" => Todo(p) = {}

\* Who met no other migrates alone, knows all that is recorded, and where it
\* found no ledger there is none.
AloneUnlessRaced ==
  \A p \in Migrating \ raced :
    /\ Migrating = {p}
    /\ step[p] \in {"file", "build", "record"} => applied[p] = recorded
    /\ step[p] = "claim" => relation[Ledger] # Built

IInv == /\ TypeOK
        /\ AppliedIsRecorded
        /\ FileInHand
        /\ RecordedMeansBuilt
        /\ AloneUnlessRaced
        /\ FailsOnlyInARace
-----------------------------------------------------------------------------
\* Induction, as far as these proofs need it: a set of numbers has a least one.
LEMMA LeastNumber ==
  ASSUME NEW S \in SUBSET Nat, S # {}
  PROVE  \E n \in S : \A m \in S : n <= m
<1> DEFINE R == OpToRel(<, Nat)
<1>1. IsWellFoundedOn(R, Nat)
  BY NatLessThanWellFounded
<1>2. \A x, y \in S : x > y => <<y, x>> \in R
  BY DEF OpToRel
<1> HIDE DEF R
<1>3. PICK x \in S : \A y \in S : ~ (<<y, x>> \in R)
  BY <1>1, WFMin
<1>4. \A y \in S : ~ (x > y)
  BY <1>2, <1>3
<1>5. \A y \in S : x <= y
  BY <1>4
<1> QED BY <1>5

\* sorted() and the loop's order: the next file is the first one that the
\* process has not applied.
LEMMA NextFileIsFirst ==
  ASSUME NEW p \in Processes, Todo(p) # {}
  PROVE  \E i \in 1..Known[p] : /\ NextFile(p) = Files[i] /\ i \in 1..Len(Files)
                                /\ Files[i] \in Range(Files) /\ Files[i] \notin applied[p]
                                /\ \A j \in 1..(i - 1) : Files[j] \in applied[p]
<1>1. Known[p] \in 0..Len(Files) /\ Len(Files) \in Nat /\ DOMAIN Files = 1..Len(Files)
  BY StartupAssumption
<1>2. PICK i \in Todo(p) : \A j \in Todo(p) : i <= j
  <2>1. Todo(p) \in SUBSET Nat
    BY <1>1 DEF Todo
  <2> QED BY <2>1, LeastNumber
<1>3. Todo(p) \in SUBSET Nat
  BY <1>1 DEF Todo
<1>4. Min(Todo(p)) \in Todo(p) /\ \A j \in Todo(p) : Min(Todo(p)) <= j
  BY <1>2 DEF Min
<1>5. Min(Todo(p)) = i
  BY <1>2, <1>3, <1>4
<1>6. i \in 1..Known[p] /\ Files[i] \notin applied[p]
  BY <1>2 DEF Todo
<1>7. \A j \in 1..(i - 1) : Files[j] \in applied[p]
  BY <1>1, <1>2, <1>6 DEF Todo
<1>8. Files[i] \in Range(Files) /\ i \in 1..Len(Files)
  BY <1>1, <1>6 DEF Range
<1> QED BY <1>5, <1>6, <1>7, <1>8 DEF NextFile
-----------------------------------------------------------------------------
LEMMA InitInv == Init => IInv
BY StartupAssumption
DEF Init, IInv, TypeOK, AppliedIsRecorded, FileInHand, RecordedMeansBuilt, AloneUnlessRaced,
    FailsOnlyInARace, Migrating, Relations, Steps, Range

\* A rollback takes nothing that is built.
LEMMA RollbackKeeps ==
  ASSUME TypeOK, NEW p \in Processes
  PROVE  /\ RolledBack(p) \in [Relations -> Processes \cup {Absent, Built}]
         /\ \A x \in Relations : RolledBack(p)[x] = Built <=> relation[x] = Built
BY StartupAssumption DEF TypeOK, RolledBack

\* A step of a process that ends up in no race and commits nothing: it goes on
\* to `next`, from where it is.
LEMMA MovesOn ==
  ASSUME IInv, NEW p \in Processes, NEW next \in Steps, Goto(p, next),
         \A x \in Relations : relation'[x] = Built <=> relation[x] = Built,
         relation' \in [Relations -> Processes \cup {Absent, Built}],
         UNCHANGED <<up, recorded, applied>>,
         raced' = raced, errors' \in SUBSET Processes, errors \subseteq errors',
         next \in {"claim", "select", "file", "build", "record"} => p \in Migrating /\ next # "file",
         next # "look",
         next \in {"build", "record"} => Todo(p) # {} /\ step[p] \in {"file", "build", "record"},
         next = "serving" => Todo(p) = {},
         next = "claim" => relation[Ledger] # Built,
         next = "raised" => p \in errors' \cup raced
  PROVE  IInv'
<1> USE DEF IInv, Goto
<1>0. step' \in [Processes -> Steps] /\ step'[p] = next /\ \A q \in Processes \ {p} : step'[q] = step[q]
  BY DEF TypeOK
<1>1. TypeOK'
  BY <1>0 DEF TypeOK
<1>2. AppliedIsRecorded'
  BY DEF AppliedIsRecorded
<1>3. FileInHand'
  BY <1>0 DEF FileInHand, Todo
<1>4. RecordedMeansBuilt'
  BY DEF RecordedMeansBuilt, Relations
<1>5. AloneUnlessRaced'
  <2>1. Migrating' \subseteq Migrating
    BY <1>0 DEF Migrating
  <2>2. ASSUME NEW q \in Migrating' \ raced' PROVE Migrating' = {q}
    BY <2>1, <2>2 DEF AloneUnlessRaced
  <2>3. ASSUME NEW q \in Migrating' \ raced', step'[q] \in {"file", "build", "record"}
        PROVE  applied'[q] = recorded'
    BY <1>0, <2>1, <2>3 DEF AloneUnlessRaced, Migrating
  <2>4. ASSUME NEW q \in Migrating' \ raced', step'[q] = "claim" PROVE relation'[Ledger] # Built
    BY <1>0, <2>1, <2>4 DEF AloneUnlessRaced, Migrating, Relations
  <2> QED BY <2>2, <2>3, <2>4 DEF AloneUnlessRaced
<1>6. FailsOnlyInARace'
  BY <1>0 DEF FailsOnlyInARace
<1> QED BY <1>1, <1>2, <1>3, <1>4, <1>5, <1>6

\* What a CREATE meets that found nothing before: a relation that is built by
\* then means a race.
LEMMA TakeInv ==
  ASSUME IInv, NEW p \in Processes, NEW x \in Relations, NEW next \in {"select", "record"},
         p \in Migrating, Take(p, x, next), UNCHANGED <<up, applied, raced, errors>>,
         next = "record" => step[p] = "build" /\ Todo(p) # {},
         p \notin raced => relation[x] # Built
  PROVE  IInv'
<1>1. CASE relation[x] = Absent /\ relation' = [relation EXCEPT ![x] = p] /\ Goto(p, next) /\ UNCHANGED recorded
  <2>1. relation' \in [Relations -> Processes \cup {Absent, Built}]
    BY <1>1 DEF IInv, TypeOK
  <2>2. \A y \in Relations : relation'[y] = Built <=> relation[y] = Built
    BY <1>1, StartupAssumption DEF IInv, TypeOK
  <2>3. next \in Steps /\ errors' \in SUBSET Processes
    BY DEF Steps, IInv, TypeOK
  <2> QED BY <1>1, <2>1, <2>2, <2>3, MovesOn
<1>2. CASE relation[x] = Built /\ Raise(p)
  <2>1. "raised" \in Steps /\ errors' \in SUBSET Processes
    BY DEF Steps, IInv, TypeOK
  <2> QED BY <1>2, <2>1, MovesOn, RollbackKeeps DEF Raise, IInv
<1> QED BY <1>1, <1>2 DEF Take
-----------------------------------------------------------------------------
\* Every step of a process, of the database and of who kills keeps the invariant.
LEMMA NextInv == IInv /\ [Next]_vars => IInv'
<1> SUFFICES ASSUME IInv, [Next]_vars PROVE IInv'
  OBVIOUS
<1> USE DEF IInv
<1>1. ASSUME DatabaseUp PROVE IInv'
  BY <1>1 DEF DatabaseUp, TypeOK, AppliedIsRecorded, FileInHand, Todo, RecordedMeansBuilt,
              AloneUnlessRaced, Migrating, FailsOnlyInARace
<1>2. ASSUME NEW p \in Processes, Start(p) PROVE IInv'
  BY <1>2, MovesOn DEF Start, Steps, TypeOK
<1>3. ASSUME NEW p \in Processes, Connect(p) PROVE IInv'
  <2>1. CASE ~up /\ Goto(p, "gave up") /\ UNCHANGED raced
    BY <1>3, <2>1, MovesOn DEF Connect, Steps, TypeOK
  <2>2. CASE Goto(p, "look") /\ raced' = IF Migrating = {} THEN raced ELSE raced \cup Migrating \cup {p}
    <3> USE <1>3, <2>2 DEF Connect, Goto
    <3>0. step'[p] = "look" /\ \A q \in Processes \ {p} : step'[q] = step[q]
      BY DEF TypeOK
    <3>1. TypeOK'
      BY DEF TypeOK, Steps, Migrating
    <3>2. AppliedIsRecorded' /\ RecordedMeansBuilt'
      BY DEF AppliedIsRecorded, RecordedMeansBuilt
    <3>3. FileInHand'
      BY <3>0 DEF FileInHand, Todo
    <3>4. AloneUnlessRaced'
      <4>1. Migrating' = Migrating \cup {p}
        BY <3>0 DEF Migrating
      <4>2. ASSUME NEW q \in Migrating' \ raced' PROVE Migrating = {} /\ q = p
        BY <4>1, <4>2
      <4> QED BY <3>0, <4>1, <4>2 DEF AloneUnlessRaced
    <3>5. FailsOnlyInARace'
      BY <3>0 DEF FailsOnlyInARace
    <3> QED BY <3>1, <3>2, <3>3, <3>4, <3>5
  <2> QED BY <1>3, <2>1, <2>2 DEF Connect
<1>4. ASSUME NEW p \in Processes, Look(p) PROVE IInv'
  <2>1. p \in Migrating
    BY <1>4 DEF Look, Migrating
  <2>2. CASE relation[Ledger] = Built
    BY <1>4, <2>1, <2>2, MovesOn DEF Look, Steps, TypeOK
  <2>3. CASE relation[Ledger] # Built
    BY <1>4, <2>1, <2>3, MovesOn DEF Look, Steps, TypeOK
  <2> QED BY <2>2, <2>3
<1>5. ASSUME NEW p \in Processes, Claim(p) PROVE IInv'
  <2>1. p \in Migrating /\ Ledger \in Relations
    BY <1>5 DEF Claim, Migrating, Relations
  <2>2. p \notin raced => relation[Ledger] # Built
    BY <1>5, <2>1 DEF Claim, AloneUnlessRaced
  <2> QED BY <1>5, <2>1, <2>2, TakeInv DEF Claim
<1>6. ASSUME NEW p \in Processes, Select(p) PROVE IInv'
  <2> USE <1>6 DEF Select, Goto
  <2>0. /\ step'[p] = "file" /\ \A q \in Processes \ {p} : step'[q] = step[q]
        /\ applied'[p] = recorded /\ \A q \in Processes \ {p} : applied'[q] = applied[q]
        /\ \A x \in Relations \ {Ledger} : relation'[x] = relation[x]
    BY DEF TypeOK
  <2>1. TypeOK'
    BY DEF TypeOK, Steps
  <2>2. AppliedIsRecorded'
    BY <2>0 DEF AppliedIsRecorded
  <2>3. FileInHand'
    BY <2>0 DEF FileInHand, Todo
  <2>4. RecordedMeansBuilt'
    BY <2>0, StartupAssumption DEF RecordedMeansBuilt, Relations
  <2>5. AloneUnlessRaced'
    <3>1. Migrating' = Migrating /\ p \in Migrating
      BY <2>0 DEF Migrating
    <3> QED BY <2>0, <3>1 DEF AloneUnlessRaced
  <2>6. FailsOnlyInARace'
    BY <2>0 DEF FailsOnlyInARace
  <2> QED BY <2>1, <2>2, <2>3, <2>4, <2>5, <2>6
<1>7. ASSUME NEW p \in Processes, File(p) PROVE IInv'
  <2>1. p \in Migrating /\ errors' \in SUBSET Processes
    BY <1>7 DEF File, Migrating, TypeOK
  <2>2. PICK next \in {"serving", "record", "build"} :
          Goto(p, next) /\ (next = "serving" <=> Todo(p) = {})
    BY <1>7 DEF File
  <2>3. next \in Steps /\ step[p] = "file" /\ UNCHANGED <<up, relation, recorded, applied, raced, errors>>
    BY <1>7 DEF File, Steps
  <2>4. relation' \in [Relations -> Processes \cup {Absent, Built}]
    BY <2>3 DEF TypeOK
  <2> QED BY <2>1, <2>2, <2>3, <2>4, MovesOn
<1>8. ASSUME NEW p \in Processes, Build(p) PROVE IInv'
  <2>1. p \in Migrating /\ Todo(p) # {}
    BY <1>8 DEF Build, Migrating, FileInHand
  <2>2. NextFile(p) \in Range(Files) /\ NextFile(p) \notin applied[p]
    BY <2>1, NextFileIsFirst
  <2>3. p \notin raced => relation[NextFile(p)] # Built
    BY <1>8, <2>1, <2>2 DEF Build, AloneUnlessRaced, RecordedMeansBuilt
  <2> QED BY <1>8, <2>1, <2>2, <2>3, TakeInv DEF Build, Relations
<1>9. ASSUME NEW p \in Processes, Record(p) PROVE IInv'
  <2>1. p \in Migrating /\ step[p] = "record" /\ Todo(p) # {}
    BY <1>9 DEF Record, Migrating, FileInHand
  <2>2. PICK i \in 1..Known[p] : /\ NextFile(p) = Files[i] /\ i \in 1..Len(Files)
                                 /\ Files[i] \in Range(Files) /\ Files[i] \notin applied[p]
                                 /\ \A j \in 1..(i - 1) : Files[j] \in applied[p]
    BY <2>1, NextFileIsFirst
  <2>3. CASE Files[i] \in recorded
    <3>1. p \in raced
      BY <2>1, <2>2, <2>3 DEF AloneUnlessRaced
    <3>2. Raise(p) /\ UNCHANGED <<up, applied, raced, errors>>
      BY <1>9, <2>2, <2>3 DEF Record
    <3>3. "raised" \in Steps /\ errors' \in SUBSET Processes
      BY <3>2 DEF Steps, TypeOK
    <3> QED BY <3>1, <3>2, <3>3, MovesOn, RollbackKeeps DEF Raise
  <2>4. CASE Files[i] \notin recorded
    <3>0. /\ recorded' = recorded \cup {Files[i]}
          /\ relation' = [relation EXCEPT ![Files[i]] = Built]
          /\ applied' = [applied EXCEPT ![p] = @ \cup {Files[i]}]
          /\ step' = [step EXCEPT ![p] = "file"]
          /\ UNCHANGED <<up, raced, errors>>
      BY <1>9, <2>2, <2>4 DEF Record, Goto
    <3>1. /\ step'[p] = "file" /\ \A q \in Processes \ {p} : step'[q] = step[q]
          /\ applied'[p] = applied[p] \cup {Files[i]}
          /\ \A q \in Processes \ {p} : applied'[q] = applied[q]
      BY <3>0 DEF TypeOK
    <3>2. TypeOK'
      BY <2>2, <3>0 DEF TypeOK, Steps, Relations
    <3>3. AppliedIsRecorded'
      BY <3>0, <3>1 DEF AppliedIsRecorded
    <3>4. FileInHand'
      BY <3>1 DEF FileInHand, Todo
    <3>5. RecordedMeansBuilt'
      <4>1. \A x \in Range(Files) : relation'[x] = Built <=> x = Files[i] \/ relation[x] = Built
        BY <2>2, <3>0 DEF TypeOK, Relations
      <4>2. recorded' = {x \in Range(Files) : relation'[x] = Built}
        BY <2>2, <3>0, <4>1 DEF RecordedMeansBuilt
      <4>3. ASSUME NEW j \in 1..Len(Files), Files[j] \in recorded', NEW k \in 1..j
            PROVE  Files[k] \in recorded'
        <5>1. CASE Files[j] \in recorded
          BY <3>0, <5>1 DEF RecordedMeansBuilt
        <5>2. CASE Files[j] \notin recorded
          <6>1. j = i
            BY <2>2, <3>0, <4>3, <5>2, StartupAssumption
          <6>2. k = i \/ k \in 1..(i - 1)
            BY <2>2, <6>1
          <6> QED BY <2>2, <3>0, <6>2 DEF AppliedIsRecorded
        <5> QED BY <5>1, <5>2
      <4> QED BY <4>2, <4>3 DEF RecordedMeansBuilt
    <3>6. AloneUnlessRaced'
      <4>1. Migrating' = Migrating
        BY <2>1, <3>1 DEF Migrating
      <4>2. ASSUME NEW q \in Migrating' \ raced'
            PROVE  /\ Migrating' = {q}
                   /\ step'[q] \in {"file", "build", "record"} => applied'[q] = recorded'
                   /\ step'[q] = "claim" => relation'[Ledger] # Built
        <5>1. q = p /\ applied[p] = recorded
          BY <2>1, <3>0, <4>1, <4>2 DEF AloneUnlessRaced
        <5> QED BY <3>0, <3>1, <4>1, <4>2, <5>1 DEF AloneUnlessRaced
      <4> QED BY <4>2 DEF AloneUnlessRaced
    <3>7. FailsOnlyInARace'
      BY <3>0, <3>1 DEF FailsOnlyInARace
    <3> QED BY <3>2, <3>3, <3>4, <3>5, <3>6, <3>7
  <2> QED BY <2>3, <2>4
<1>10. ASSUME NEW p \in Processes, DbError(p) PROVE IInv'
  <2>1. errors' \in SUBSET Processes /\ "raised" \in Steps
    BY <1>10 DEF DbError, Steps, TypeOK
  <2> QED BY <1>10, <2>1, MovesOn, RollbackKeeps DEF DbError, Raise
<1>11. ASSUME NEW p \in Processes, Stop(p) PROVE IInv'
  BY <1>11, MovesOn DEF Stop, Steps, TypeOK
<1>12. ASSUME NEW p \in Processes, Kill(p) PROVE IInv'
  BY <1>12, MovesOn, RollbackKeeps DEF Kill, Steps, TypeOK
<1>13. ASSUME UNCHANGED vars PROVE IInv'
  BY <1>13 DEF vars, TypeOK, AppliedIsRecorded, FileInHand, Todo, RecordedMeansBuilt,
               AloneUnlessRaced, Migrating, FailsOnlyInARace
<1> QED BY <1>1, <1>2, <1>3, <1>4, <1>5, <1>6, <1>7, <1>8, <1>9, <1>10, <1>11, <1>12, <1>13
        DEF Next, Run

LEMMA Invariance == Spec => []IInv
<1> QED BY InitInv, NextInv, PTL DEF Spec
-----------------------------------------------------------------------------
(* The theorems. *)

\* Every reachable state is well typed, however many processes start, fail and
\* are killed: in particular a transaction is that of a process or of nobody.
THEOREM TypeCorrect == Spec => []TypeOK
<1>1. IInv => TypeOK
  BY DEF IInv
<1> QED BY <1>1, Invariance, PTL

\* "Applied once and recorded", "nothing half done" (run_migrations): a file is
\* recorded exactly when what it builds is there, after all before it, for any
\* files and any number of processes that start, fail or are killed at once.
THEOREM RecordsAreTrue == Spec => []RecordedMeansBuilt
<1>1. IInv => RecordedMeansBuilt
  BY DEF IInv
<1> QED BY <1>1, Invariance, PTL

\* lifespan yields, and the seed goes on, with every table they know of.
THEOREM SchemasAreWhole == Spec => []ServesAWholeSchema
<1>1. IInv => ServesAWholeSchema
  <2> SUFFICES ASSUME IInv, NEW p \in Processes, step[p] = "serving", NEW i \in 1..Known[p]
               PROVE  relation[Files[i]] = Built
    BY DEF ServesAWholeSchema
  <2>1. Files[i] \in applied[p]
    BY DEF IInv, FileInHand, Todo
  <2> QED BY <2>1 DEF IInv, AppliedIsRecorded, RecordedMeansBuilt
<1> QED BY <1>1, Invariance, PTL

\* A start that raises met an error of the database or another that migrated at
\* the same time; whatever was killed before is no reason.
THEOREM FailuresAreExcused == Spec => []FailsOnlyInARace
<1>1. IInv => FailsOnlyInARace
  BY DEF IInv
<1> QED BY <1>1, Invariance, PTL
=============================================================================
