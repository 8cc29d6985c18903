------------------------------ MODULE Startup ------------------------------
(***************************************************************************)
(* How a process comes up: build_pool and run_migrations                   *)
(* (app/core/db.py), then the lifespan of the application (app/main.py) or *)
(* the work of the seed (scripts/seed.py, see Tenancy).  Several start on  *)
(* one database: the app and the seed, two copies of the app, an older and *)
(* a newer image with fewer and more files in migrations/.                 *)
(*                                                                         *)
(* A file, and what it builds, have one name here; so has the table        *)
(* schema_migrations.  "IF NOT EXISTS" looks at what is committed: a       *)
(* statement that found nothing waits for another transaction that builds  *)
(* the same, and raises if that one commits.                               *)
(***************************************************************************)
EXTENDS Naturals, Sequences, FiniteSetsExt

CONSTANTS Processes,   \* runs of the app or the seed, each a process of its own
          Files,       \* the names of migrations, in order
          Known,       \* per process: how many of them its image has
          Ledger,      \* the table schema_migrations
          MaxDbErrors, \* bound: statements that fail
          Absent, Built

Relations == {Ledger} \cup Range(Files)

ASSUME StartupAssumption ==
  /\ Files \in Seq(Range(Files)) /\ Known \in [Processes -> 0..Len(Files)]
  /\ \A i, j \in 1..Len(Files) : Files[i] = Files[j] => i = j
  /\ Ledger \notin Range(Files)
  /\ Absent \notin Processes /\ Built \notin Processes /\ Absent # Built /\ MaxDbErrors \in Nat

VARIABLES up,       \* Postgres accepts connections
          relation, \* each relation: absent, built, or by whom it is being built
          recorded, \* rows of schema_migrations
          step, applied, \* per process: its place, and its local of that name
          raced,    \* history: it migrated while another did
          errors    \* history: statements that failed, by process

vars == <<up, relation, recorded, step, applied, raced, errors>>

Init == /\ up \in BOOLEAN
        /\ relation = [x \in Relations |-> Absent]
        /\ recorded = {}
        /\ step = [p \in Processes |-> "idle"]
        /\ applied = [p \in Processes |-> {}]
        /\ raced = {} /\ errors = {}

Migrating == {p \in Processes : step[p] \in {"look", "claim", "select", "file", "build", "record"}}
Goto(p, next) == step' = [step EXCEPT ![p] = next]
\* The files it has and did not find, and the first of them.  Mutant: in the
\* directory's order.
Todo(p) == {i \in 1..Known[p] : Files[i] \notin applied[p]}
NextFileUnsorted(p) == Files[Max(Todo(p))]
NextFile(p) == Files[Min(Todo(p))]

\* The transaction of p ends without a commit.  Mutant: it stays open.
Kept(p) == relation
RolledBack(p) == [x \in Relations |-> IF relation[x] = p THEN Absent ELSE relation[x]]
Raise(p) == Goto(p, "raised") /\ relation' = RolledBack(p) /\ UNCHANGED recorded
-----------------------------------------------------------------------------
DatabaseUp == /\ ~up /\ up' = TRUE
              /\ UNCHANGED <<relation, recorded, step, applied, raced, errors>>

Start(p) == /\ step[p] = "idle"
            /\ Goto(p, "connect")
            /\ UNCHANGED <<up, relation, recorded, applied, raced, errors>>

\* build_pool asks again each second, and for wait_seconds only.
Connect(p) == /\ step[p] = "connect"
              /\ \/ /\ up /\ Goto(p, "look")
                    /\ raced' = IF Migrating = {} THEN raced ELSE raced \cup Migrating \cup {p}
                 \/ ~up /\ Goto(p, "gave up") /\ UNCHANGED raced
              /\ UNCHANGED <<up, relation, recorded, applied, errors>>

\* CREATE TABLE IF NOT EXISTS schema_migrations.  Mutant: without IF NOT EXISTS.
LookUnguarded(p) == /\ step[p] = "look"
                    /\ Goto(p, "claim")
                    /\ UNCHANGED <<up, relation, recorded, applied, raced, errors>>
Look(p) == /\ step[p] = "look"
           /\ Goto(p, IF relation[Ledger] = Built THEN "select" ELSE "claim")
           /\ UNCHANGED <<up, relation, recorded, applied, raced, errors>>

\* The rest of a CREATE that found nothing.
Take(p, x, next) == \/ /\ relation[x] = Absent
                       /\ relation' = [relation EXCEPT ![x] = p] /\ Goto(p, next)
                       /\ UNCHANGED recorded
                    \/ relation[x] = Built /\ Raise(p)

Claim(p) == /\ step[p] = "claim"
            /\ Take(p, Ledger, "select")
            /\ UNCHANGED <<up, applied, raced, errors>>

\* What is recorded is read, and the first transaction ends.
Select(p) == /\ step[p] = "select"
             /\ applied' = [applied EXCEPT ![p] = recorded]
             /\ relation' = [relation EXCEPT ![Ledger] = Built]
             /\ Goto(p, "file")
             /\ UNCHANGED <<up, recorded, raced, errors>>

\* The next file's first CREATE; with none left the worker is started and
\* requests are served, or the seed goes on.
File(p) == /\ step[p] = "file"
           /\ \/ Todo(p) = {} /\ Goto(p, "serving")
              \/ Todo(p) # {} /\ Goto(p, IF relation[NextFile(p)] = Built THEN "record" ELSE "build")
           /\ UNCHANGED <<up, relation, recorded, applied, raced, errors>>

Build(p) == /\ step[p] = "build"
            /\ Take(p, NextFile(p), "record")
            /\ UNCHANGED <<up, applied, raced, errors>>

\* The row of the file, whose name is the primary key, and the commit of both.
Record(p) == LET f == NextFile(p)
             IN /\ step[p] = "record"
                /\ IF f \in recorded
                     THEN Raise(p) /\ UNCHANGED applied
                     ELSE /\ recorded' = recorded \cup {f}
                          /\ relation' = [relation EXCEPT ![f] = Built]
                          /\ applied' = [applied EXCEPT ![p] = @ \cup {f}]
                          /\ Goto(p, "file")
                /\ UNCHANGED <<up, raced, errors>>

\* Mutant: a failed file is logged and passed over.
DbErrorLogged(p) == /\ step[p] \in {"build", "record"} /\ Cardinality(errors) < MaxDbErrors
                    /\ errors' = errors \cup {p}
                    /\ applied' = [applied EXCEPT ![p] = @ \cup {NextFile(p)}]
                    /\ Goto(p, "file") /\ relation' = RolledBack(p)
                    /\ UNCHANGED <<up, recorded, raced>>
DbError(p) == /\ p \in Migrating /\ Cardinality(errors) < MaxDbErrors
              /\ errors' = errors \cup {p}
              /\ Raise(p)
              /\ UNCHANGED <<up, applied, raced>>

\* worker.stop() and pool.close(), or the seed's end.
Stop(p) == /\ step[p] = "serving"
           /\ Goto(p, "stopped")
           /\ UNCHANGED <<up, relation, recorded, applied, raced, errors>>

Kill(p) == /\ p \in Migrating \cup {q \in Processes : step[q] \in {"connect", "serving"}}
           /\ Goto(p, "killed")
           /\ relation' = RolledBack(p)
           /\ UNCHANGED <<up, recorded, applied, raced, errors>>
-----------------------------------------------------------------------------
Run(p) == \/ Connect(p) \/ Look(p) \/ Claim(p) \/ Select(p) \/ File(p) \/ Build(p) \/ Record(p)
Next == \/ DatabaseUp
        \/ \E p \in Processes : Start(p) \/ Run(p) \/ DbError(p) \/ Stop(p) \/ Kill(p)

\* A process runs; nothing obliges anybody to start or to stop one.
Spec == Init /\ [][Next]_vars /\ \A p \in Processes : WF_vars(Run(p))
-----------------------------------------------------------------------------
(* Properties. *)

\* "Numbered SQL, applied once and recorded", and "a failing migration leaves
\* nothing half done": whoever is killed or fails, wherever, a file is recorded
\* if and only if what it builds is there, and never before the files it
\* builds upon.
RecordedMeansBuilt ==
  /\ recorded = {x \in Range(Files) : relation[x] = Built}
  /\ \A j \in 1..Len(Files) : Files[j] \in recorded => \A i \in 1..j : Files[i] \in recorded

\* Who serves has every table its code knows of, also when another process
\* built them at the same time, or one that knew fewer.
ServesAWholeSchema ==
  \A p \in Processes : step[p] = "serving" =>
    \A i \in 1..Known[p] : relation[Files[i]] = Built

\* With the database there, a start fails for two reasons only: an error of the
\* database, or another process that migrates at the same time.  One that was
\* killed anywhere before is not among them.
FailsOnlyInARace ==
  \A p \in Processes : step[p] = "raised" => p \in errors \cup raced

\* Who waits for another's transaction does not wait for ever: every start ends.
EveryStartEnds ==
  \A p \in Processes : step[p] = "connect" ~> step[p] \in {"serving", "stopped", "raised", "gave up", "killed"}
=============================================================================
