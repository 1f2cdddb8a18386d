------------------------- MODULE ReservedMigrations -------------------------
(***************************************************************************)
(* openReservedDatabase: how processes of several builds bring one         *)
(* database up to their schema when they start.                            *)
(*                                                                         *)
(* The database admits one writer at a time, and what a writer has not     *)
(* committed goes when its connection does.  A process whose start fails   *)
(* exits, and is started again.                                            *)
(*                                                                         *)
(* The start writes before its first transaction: it makes the table       *)
(* schema_migrations.  On Turso a BEGIN after such a write may report      *)
(* success and open nothing (store.ts, withTransaction); what follows it   *)
(* takes effect statement by statement, and COMMIT fails.                  *)
(***************************************************************************)
EXTENDS Integers, Sequences, FiniteSets, Functions

CONSTANTS Processes,
          Builds,     \* the migration files that are in the tree of a build
          Needs,      \* the migrations whose tables a migration alters
          None,
          MaxFaults,  \* bound on statements that fail, lost answers and crashes
          MaxDeploys  \* bound on changes of build

ASSUME MigrationsAssumption ==
    /\ \A b \in Builds : b \subseteq Nat \ {0} /\ IsFiniteSet(b)
    /\ \A b \in Builds : \A v \in b : Needs[v] \subseteq Nat \ {0}
    /\ None \notin Processes
    /\ MaxFaults \in Nat /\ MaxDeploys \in Nat

VARIABLES remote,   \* the URL names a hosted database
          applied,  \* schema_migrations
          changes,  \* the migrations carried out on the tables, in their order
          half,     \* those of which only some statements took effect
          writer,   \* the process whose transaction holds the write lock
          proc,
          faults, deploys

vars == <<remote, applied, changes, half, writer, proc, faults, deploys>>

\* found is what was applied when the process started.  spoiled: the next BEGIN
\* will open nothing.  open: the last one opened a transaction.
Stopped(files) == [pc |-> "down", files |-> files, read |-> {}, found |-> {},
                   spoiled |-> FALSE, open |-> FALSE]

Init ==
    /\ remote \in BOOLEAN
    /\ applied = {} /\ changes = <<>> /\ half = {}
    /\ writer = None
    /\ \E b \in [Processes -> Builds] : proc = [p \in Processes |-> Stopped(b[p])]
    /\ faults = 0 /\ deploys = 0

-----------------------------------------------------------------------------

Complete_Any(files) == TRUE

\* migrationsUnder: no number is missing below the last.
Complete(files) == files = 1..Cardinality(files)

Ahead_Never(versions, files) == FALSE

\* The database has a migration that is not in the build.
Ahead(versions, files) == versions \ files # {}

Missing_All(p) == proc[p].files

Missing(p) == proc[p].files \ proc[p].read

\* The next one, in the order of their numbers.
Version(p) == CHOOSE v \in Missing(p) : \A w \in Missing(p) : v <= w

Goto(p, pc) == proc' = [proc EXCEPT ![p].pc = pc]
Exit(p) == proc' = [proc EXCEPT ![p] = Stopped(@.files)]
Free(p) == IF writer = p THEN None ELSE writer

\* The handle is opened and schema_migrations made, if need be.  Whether a CREATE
\* that finds its table spoils a hosted connection is left open.
Start(p) ==
    /\ proc[p].pc = "down"
    /\ \E spoiled \in IF remote THEN BOOLEAN ELSE {FALSE} :
          proc' = [proc EXCEPT ![p].pc = "opened", ![p].found = applied,
                               ![p].spoiled = spoiled]
    /\ UNCHANGED <<remote, applied, changes, half, writer, faults, deploys>>

\* The files and the versions are read, once, and a tree with a hole or a
\* database ahead of it ends the start.
Read(p) ==
    /\ proc[p].pc = "opened"
    /\ \/ /\ Complete(proc[p].files) /\ ~Ahead(applied, proc[p].files)
          /\ proc' = [proc EXCEPT ![p].pc = "migrating", ![p].read = applied]
       \/ /\ ~Complete(proc[p].files) \/ Ahead(applied, proc[p].files)
          /\ Exit(p)
    /\ UNCHANGED <<remote, applied, changes, half, writer, faults, deploys>>

Begin(p) ==
    /\ proc[p].pc = "migrating" /\ Missing(p) # {}
    /\ proc' = [proc EXCEPT ![p].pc = "begun", ![p].open = ~proc[p].spoiled,
                            ![p].spoiled = FALSE]
    /\ UNCHANGED <<remote, applied, changes, half, writer, faults, deploys>>

\* The file's statements fail where another process has the write lock, on tables
\* that have some of the change already and on tables that are not there.
Fits(p) ==
    /\ writer = None
    /\ Version(p) \notin Range(changes) \cup half
    /\ Needs[Version(p)] \subseteq Range(changes)

\* In a transaction the first of them takes the lock.  Without one they stand as
\* soon as they have run.
Change(p) ==
    /\ proc[p].pc = "begun"
    /\ \/ /\ Fits(p) /\ proc[p].open
          /\ writer' = p /\ Goto(p, "changed")
          /\ UNCHANGED changes
       \/ /\ Fits(p) /\ ~proc[p].open
          /\ changes' = Append(changes, Version(p)) /\ Goto(p, "changed")
          /\ UNCHANGED writer
       \/ /\ ~Fits(p)
          /\ Goto(p, "failed")
          /\ UNCHANGED <<changes, writer>>
    /\ UNCHANGED <<remote, applied, half, faults, deploys>>

\* Without one, a statement that fails leaves those before it.
CutShort(p) ==
    /\ proc[p].pc = "begun" /\ Fits(p) /\ ~proc[p].open
    /\ faults < MaxFaults /\ faults' = faults + 1
    /\ half' = half \cup {Version(p)} /\ Goto(p, "failed")
    /\ UNCHANGED <<remote, applied, changes, writer, deploys>>

\* The version is the primary key of its row.  Without a transaction the row needs
\* the lock for itself.
Recordable(p) == Version(p) \notin applied /\ writer \in {None, p}

Record(p) ==
    /\ proc[p].pc = "changed"
    /\ Goto(p, IF Recordable(p) THEN "recorded" ELSE "failed")
    /\ applied' = IF Recordable(p) /\ ~proc[p].open THEN applied \cup {Version(p)}
                  ELSE applied
    /\ UNCHANGED <<remote, changes, half, writer, faults, deploys>>

\* Change and row become visible together.  Of an answer that is lost the process
\* only knows that COMMIT failed.
Commit(p) ==
    /\ proc[p].pc = "recorded" /\ proc[p].open
    /\ changes' = Append(changes, Version(p))
    /\ applied' = applied \cup {Version(p)}
    /\ writer' = None
    /\ \/ /\ proc' = [proc EXCEPT ![p].pc = "migrating", ![p].read = @ \cup {Version(p)}]
          /\ UNCHANGED faults
       \/ /\ faults < MaxFaults /\ faults' = faults + 1
          /\ Goto(p, "failed")
    /\ UNCHANGED <<remote, half, deploys>>

\* COMMIT finds no transaction.
NothingToCommit(p) ==
    /\ proc[p].pc = "recorded" /\ ~proc[p].open
    /\ Goto(p, "failed")
    /\ UNCHANGED <<remote, applied, changes, half, writer, faults, deploys>>

\* A migration that failed is rolled back and the start given up.
Rollback(p) ==
    /\ proc[p].pc = "failed"
    /\ writer' = Free(p) /\ Exit(p)
    /\ UNCHANGED <<remote, applied, changes, half, faults, deploys>>

Serve(p) ==
    /\ proc[p].pc = "migrating" /\ Missing(p) = {}
    /\ Goto(p, "up")
    /\ UNCHANGED <<remote, applied, changes, half, writer, faults, deploys>>

\* A statement fails: inside a migration it is caught.
Fault(p) ==
    /\ faults < MaxFaults /\ faults' = faults + 1
    /\ \/ proc[p].pc \in {"opened", "migrating"} /\ Exit(p)
       \/ proc[p].pc \in {"begun", "changed", "recorded"} /\ Goto(p, "failed")
    /\ UNCHANGED <<remote, applied, changes, half, writer, deploys>>

\* The process dies, and its connection with it.
Crash(p) ==
    /\ proc[p].pc # "down"
    /\ faults < MaxFaults /\ faults' = faults + 1
    /\ writer' = Free(p) /\ Exit(p)
    /\ UNCHANGED <<remote, applied, changes, half, deploys>>

\* Another build takes the place of the process.
Deploy(p, files) ==
    /\ proc[p].pc \in {"down", "up"} /\ files # proc[p].files
    /\ deploys < MaxDeploys /\ deploys' = deploys + 1
    /\ proc' = [proc EXCEPT ![p] = Stopped(files)]
    /\ UNCHANGED <<remote, applied, changes, half, writer, faults>>

Step(p) ==
    \/ Read(p) \/ Begin(p) \/ Change(p) \/ Record(p) \/ Commit(p) \/ NothingToCommit(p)
    \/ Rollback(p) \/ Serve(p)

Next ==
    \/ \E p \in Processes : Start(p) \/ Step(p) \/ CutShort(p) \/ Fault(p) \/ Crash(p)
    \/ \E p \in Processes, b \in Builds : Deploy(p, b)

Spec == Init /\ [][Next]_vars

\* Processes run, and what has exited is started again.
FairSpec == Spec /\ \A p \in Processes : WF_vars(Start(p)) /\ WF_vars(Step(p))

-----------------------------------------------------------------------------
(* Properties.                                                             *)

\* What was done to the tables, wholly or in part, and is not on record.
OffRecord == (Range(changes) \cup half) \ applied

\* Whoever raced whom and wherever a start was cut off, the migrations on record
\* were carried out, each once, in the order of their numbers and without a hole;
\* nothing is off the record in a local database, and in a hosted one nothing is
\* built on what is (openReservedDatabase, migrationsUnder).
SchemaIsOnRecord ==
    /\ applied \subseteq Range(changes)
    /\ \A i \in DOMAIN changes : changes[i] = i
    /\ \A v \in OffRecord : \A w \in Range(changes) \cup half : w <= v
    /\ ~remote => OffRecord = {}

\* A process that serves has every migration of its build, and met none that it
\* does not know: the schema was not ahead of it when it started.
ServesOnItsSchema ==
    \A p \in Processes : proc[p].pc = "up" =>
        /\ proc[p].files \subseteq Range(changes)
        /\ proc[p].found \subseteq proc[p].files

\* What one process left half done, or does at the same moment, keeps no other
\* from coming up: in the end each serves, but for a build with a hole, one the
\* database is ahead of, and a hosted database with a change off the record.
EveryProcessServes ==
    \A p \in Processes :
        []<>(\/ proc[p].pc = "up"
             \/ ~Complete(proc[p].files) \/ Ahead(applied, proc[p].files)
             \/ OffRecord # {})
=============================================================================
