------------------------------ MODULE Migrations ------------------------------
(***************************************************************************)
(* Changes of the schema when processes start: migrate and requireSchema   *)
(* of packages/database/src/migrations.ts, called by bootstrap and main.   *)
(* DDL commits at once, so a process that dies leaves a migration half     *)
(* done; processes of several releases start at the same time, crash and   *)
(* are started again.                                                      *)
(*                                                                         *)
(* Data.  A statement makes a table, a column, an index or a row unless    *)
(* one of that name exists (ENSURE), or removes an index if it exists      *)
(* (DROP).  A checksum stands for the statements of a migration, so the    *)
(* table schema_migrations is the sequence of the migrations applied.      *)
(***************************************************************************)
EXTENDS Naturals, Sequences, SequencesExt

CONSTANTS
    Names,        \* tables, columns and indexes
    Processes,
    Migrators,    \* those that migrate when they start (RUN_MIGRATIONS, or the job of a
                  \* release); the others only look whether the schema is theirs
    Deployments,  \* the release of each process, in any of several ways: a release is a
                  \* sequence of migrations, which are sequences of statements
    None,
    MaxCrashes    \* bound: deaths and errors of processes

Statements == [op : {"ENSURE", "DROP"}, name : Names, def : Nat]

ASSUME ProcessesAssumption == None \notin Processes \cup Nat /\ Migrators \subseteq Processes
ASSUME BoundAssumption == MaxCrashes \in Nat

VARIABLES
    releases,   \* the deployment: the release of each process
    schema,     \* the definition that each name has, or None
    applied,    \* table schema_migrations
    lock,       \* the advisory lock on migrations: the process that holds it
    processes,  \* what each process is doing: pc, version and statement
    crashes     \* deaths and errors so far

vars == <<releases, schema, applied, lock, processes, crashes>>

Off == [pc |-> "OFF", version |-> 0, statement |-> 0]

Empty == [n \in Names |-> None]

Init ==
    /\ releases \in Deployments
    /\ schema = Empty
    /\ applied = <<>>
    /\ lock = None
    /\ processes = [p \in Processes |-> Off]
    /\ crashes = 0

At(p, pc) == processes[p].pc = pc
Go(p, pc) == processes' = [processes EXCEPT ![p].pc = pc]

\* Each statement is restartable: it does nothing when its work is done already.
Applied(s, statement) ==
    [s EXCEPT ![statement.name] =
        CASE statement.op = "DROP" -> None
          [] statement.op = "ENSURE" /\ @ = None -> statement.def
          [] OTHER -> @]

Run(s, statements) == FoldLeft(Applied, s, statements)

\* What the migrations in a sequence make of an empty database.
Result(migrations) == FoldLeft(Run, Empty, migrations)

(******************************* deployments *******************************)

\* A migration makes each name once.  It may begin with the removal of a name, which it
\* makes anew, if it does, at its end: what versions 1 to 6 do, and what has to be so for a
\* migration that stopped half-way to be run from its start (migrations.ts:4-5).
Restartable(migration) ==
    /\ \A i \in 2..Len(migration) :
           /\ migration[i].op = "ENSURE"
           /\ migration[1].op = "DROP" /\ migration[i].name = migration[1].name =>
                  i = Len(migration)
    /\ \A i, j \in 1..Len(migration) :
           migration[i].op = "ENSURE" /\ migration[j].op = "ENSURE"
           /\ migration[i].name = migration[j].name => i = j

\* The migrations that a later release adds remain compatible with the processes of an
\* older one: they remove nothing that it makes (docs/DEPLOYMENT.md:137).
Compatible(d) ==
    \A p, q \in Processes : IsPrefix(d[p], d[q]) =>
        \A v \in (Len(d[p]) + 1)..Len(d[q]) : \A i \in 1..Len(d[q][v]) :
            d[q][v][i].op = "DROP" => Result(d[p])[d[q][v][i].name] = None

\* Where a migration was edited, which only one that is not applied may be
\* (migrations.ts:5), each form of it makes anew what the other may have left half done.
Rebuilt(d) ==
    \A p, q \in Processes : \A v \in 1..Len(d[p]) :
        /\ v <= Len(d[q]) /\ d[p][v] # d[q][v]
        /\ \A u \in 1..(v - 1) : d[p][u] = d[q][u]
        => \A i \in 1..Len(d[p][v]) :
               /\ Len(d[q][v]) > 0 /\ d[q][v][1].op = "DROP"
               /\ d[q][v][1].name = d[p][v][i].name

Deployable(d) ==
    /\ DOMAIN d = Processes
    /\ \A p \in Processes : /\ d[p] \in Seq(Seq(Statements)) /\ d[p] # <<>>
                            /\ \A v \in 1..Len(d[p]) : Restartable(d[p][v])

ASSUME DeploymentsAssumption == Deployments # {} /\ \A d \in Deployments : Deployable(d)
ASSUME CompatibleAssumption == \A d \in Deployments : Compatible(d)
ASSUME RebuiltAssumption == \A d \in Deployments : Rebuilt(d)

(******************************** starting *********************************)

Start(p) ==
    /\ At(p, "OFF")
    /\ Go(p, IF p \in Migrators THEN "LOCK" ELSE "CHECK")
    /\ UNCHANGED <<releases, schema, applied, lock, crashes>>

\* GET_LOCK(':migrations')
Obtains(p) == lock = None

Lock(p) ==
    /\ At(p, "LOCK") /\ Obtains(p)
    /\ lock' = p
    /\ processes' = [processes EXCEPT ![p] = [pc |-> "LOOK", version |-> 1, statement |-> 1]]
    /\ UNCHANGED <<releases, schema, applied, crashes>>

\* Mutant of Unlock: the lock outlives its connection.
StaysLocked(p) == UNCHANGED lock

\* RELEASE_LOCK, or the end of the connection.
Unlock(p) == lock' = IF lock = p THEN None ELSE lock

Version(p) == processes[p].version
Migration(p) == releases[p][Version(p)]

\* Mutant of Unedited: the checksum is not compared.
UneditedOrNot(p) == TRUE

\* The migration that was applied is the one that is written here.
Unedited(p) == applied[Version(p)] = Migration(p)

\* The row of a version is read: its migration is next, or has been applied as it is
\* written here, or as something else, which is an error.
Look(p) ==
    /\ At(p, "LOOK")
    /\ \/ /\ Version(p) > Len(releases[p])
          /\ Unlock(p)
          /\ processes' = [processes EXCEPT ![p] = [Off EXCEPT !.pc = "CHECK"]]
       \/ /\ Version(p) <= Len(releases[p])
          /\ Version(p) > Len(applied)
          /\ Go(p, "RUN") /\ UNCHANGED lock
       \/ /\ Version(p) <= Len(releases[p]) /\ Version(p) <= Len(applied)
          /\ Unedited(p)
          /\ processes' = [processes EXCEPT ![p].version = @ + 1] /\ UNCHANGED lock
       \/ /\ Version(p) <= Len(releases[p]) /\ Version(p) <= Len(applied)
          /\ ~Unedited(p)
          /\ Unlock(p)
          /\ processes' = [processes EXCEPT ![p] = [Off EXCEPT !.pc = "REFUSED"]]
    /\ UNCHANGED <<releases, schema, applied, crashes>>

\* One statement, which commits.
Execute(p) ==
    /\ At(p, "RUN") /\ processes[p].statement <= Len(Migration(p))
    /\ schema' = Applied(schema, Migration(p)[processes[p].statement])
    /\ processes' = [processes EXCEPT ![p].statement = @ + 1]
    /\ UNCHANGED <<releases, applied, lock, crashes>>

\* Mutant of Finished: the row is written before the last statement.
AlmostFinished(p) == processes[p].statement >= Len(Migration(p))

Finished(p) == processes[p].statement > Len(Migration(p))

\* INSERT INTO schema_migrations
RecordVersion(p) ==
    /\ At(p, "RUN") /\ Finished(p)
    /\ applied' = Append(applied, Migration(p))
    /\ processes' = [processes EXCEPT ![p] =
                        [pc |-> "LOOK", version |-> @.version + 1, statement |-> 1]]
    /\ UNCHANGED <<releases, schema, lock, crashes>>

\* requireSchema: the last version is the one this release ends with.
Expected(p) == Len(applied) = Len(releases[p])

Serve(p) ==
    /\ At(p, "CHECK") /\ Expected(p)
    /\ Go(p, "SERVE")
    /\ UNCHANGED <<releases, schema, applied, lock, crashes>>

\* Who waits for the schema may look again (bootstrap wait); who does not wait stops.
Refuse(p) ==
    /\ At(p, "CHECK") /\ ~Expected(p)
    /\ Go(p, "REFUSED")
    /\ UNCHANGED <<releases, schema, applied, lock, crashes>>

\* A process dies or fails, at any time, or does not get the lock in 30 s; its
\* connection is closed and gives the lock back.
Crash(p) ==
    /\ ~At(p, "OFF") /\ ~At(p, "REFUSED") /\ crashes < MaxCrashes
    /\ processes' = [processes EXCEPT ![p] = Off]
    /\ Unlock(p)
    /\ crashes' = crashes + 1
    /\ UNCHANGED <<releases, schema, applied>>

\* The orchestrator starts what has stopped.
Restart(p) ==
    /\ At(p, "REFUSED")
    /\ processes' = [processes EXCEPT ![p] = Off]
    /\ UNCHANGED <<releases, schema, applied, lock, crashes>>

Migrate(p) == Lock(p) \/ Look(p) \/ Execute(p) \/ RecordVersion(p)

Next ==
    \E p \in Processes :
        \/ Start(p) \/ Migrate(p) \/ Serve(p) \/ Refuse(p) \/ Crash(p) \/ Restart(p)

Spec == Init /\ [][Next]_vars

\* Processes run, the orchestrator starts them again, and who asks for the lock over and
\* over gets it once.
FairSpec ==
    /\ Spec
    /\ \A p \in Processes :
           /\ WF_vars(Start(p)) /\ WF_vars(Restart(p)) /\ WF_vars(Serve(p)) /\ WF_vars(Refuse(p))
           /\ WF_vars(Migrate(p)) /\ SF_vars(Lock(p))

-----------------------------------------------------------------------------
(******************************* properties ********************************)

\* A rolling update: an older release is the beginning of a later one.
Rolling ==
    \A p, q \in Processes : IsPrefix(releases[p], releases[q]) \/ IsPrefix(releases[q], releases[p])

\* The schema is what the recorded migrations make of an empty database, or what they and
\* the first statements of the next migration make: a process that died in the middle,
\* however often, leaves nothing that the next one does not pass over (migrations.ts:4-5,
\* 152-160).
SchemaIsAPrefix ==
    Rolling =>
    \/ schema = Result(applied)
    \/ \E p \in Processes :
           /\ Len(releases[p]) > Len(applied)
           /\ LET next == releases[p][Len(applied) + 1]
              IN \E k \in 1..Len(next) :
                     schema = Run(Result(applied), SubSeq(next, 1, k))

\* A process that serves finds everything its own release makes, also while processes of
\* a later one migrate, and so does a process that migrates on a history that is not its
\* own: who meets a migration that was edited after it had been applied stops
\* (migrations.ts:155-158, 168-171; docs/DEPLOYMENT.md:137).
SchemaIsServed ==
    \A p \in Processes :
        At(p, "SERVE") /\ (Rolling \/ p \in Migrators) =>
            LET made == Result(releases[p])
            IN \A n \in Names : made[n] # None => schema[n] = made[n]

\* Every process of the last release ends up serving, whoever else starts and dies, if
\* one of them migrates (migrations.ts:141-171).
OfLastRelease(p) == \A q \in Processes : Len(releases[q]) <= Len(releases[p])
LastReleaseServes ==
    Rolling => \A p \in Processes : OfLastRelease(p) => <>[]At(p, "SERVE")
=============================================================================
