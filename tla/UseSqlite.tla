----------------------------- MODULE UseSqlite -----------------------------
(***************************************************************************)
(* use_sqlite: runs of the program on one database file.  A run loads the  *)
(* file into memory, adds its person there and copies the memory back over *)
(* the file.  Runs may follow each other or overlap, calls of SQLite may   *)
(* fail, and a run may crash between any two of them.                      *)
(*                                                                         *)
(* A database's content is a set: the table "people" once it exists, and   *)
(* the person of each run that is stored in it.                            *)
(***************************************************************************)
EXTENDS Naturals, FiniteSets

CONSTANTS Runs,         \* runs of the program
          MaxFaults     \* bound: calls that fail and crashes, over all runs

ASSUME FaultsAssumption == MaxFaults \in Nat

People == "people"

\* A person is not taken for the table.
ASSUME RunsAssumption == People \notin Runs

VARIABLES
    disk,         \* content of database.db
    pc,           \* where each run's main stands
    memory,       \* content of its in-memory database
    handles,      \* its open connections: create, disk, memory
    stmt,         \* its prepared INSERT: see Statements
    backup,       \* its backups that are not finished: load, flush
    succeeded,    \* whether everything has succeeded; what main will return
    faults,
    \* What the properties look back on:
    met,          \* pairs of runs that overlapped
    misloaded     \* runs whose load failed, which open() does not tell

vars == <<disk, pc, memory, handles, stmt, backup, succeeded, faults, met, misloaded>>

\* failed: sqlite3_step has returned an error, which sqlite3_finalize will repeat;
\* dangling: finalized, but still held in stmt_; twice: finalized again.
Statements == {"none", "prepared", "failed", "dangling", "twice"}

Contents == {{}} \cup {c \cup {People} : c \in SUBSET Runs}

Running(r) == pc[r] \notin {"start", "exited", "crashed"}

TypeOK ==
    /\ disk \in Contents
    /\ memory \in [Runs -> Contents]
    /\ handles \in [Runs -> SUBSET {"create", "disk", "memory"}]
    /\ stmt \in [Runs -> Statements]
    /\ backup \in [Runs -> SUBSET {"load", "flush"}]
    /\ succeeded \in [Runs -> BOOLEAN]
    /\ faults \in 0 .. MaxFaults
    /\ \A r \in Runs :
          \* A statement in use lives on an open in-memory database with the table.
          stmt[r] \in {"prepared", "failed"} /\ Running(r) =>
              "memory" \in handles[r] /\ People \in memory[r]

Init ==
    /\ disk = {}
    /\ pc = [r \in Runs |-> "start"]
    /\ memory = [r \in Runs |-> {}]
    /\ handles = [r \in Runs |-> {}]
    /\ stmt = [r \in Runs |-> "none"]
    /\ backup = [r \in Runs |-> {}]
    /\ succeeded = [r \in Runs |-> TRUE]
    /\ faults = 0
    /\ met = {}
    /\ misloaded = {}

-----------------------------------------------------------------------------

\* Every call may return an error.
Succeeds == UNCHANGED faults
Fails == faults < MaxFaults /\ faults' = faults + 1

Goto(r, label) == pc' = [pc EXCEPT ![r] = label]
At(r, label) == pc[r] = label

\* sqlite3_close refuses only a connection with an unfinalized statement or one an
\* unfinished backup reads from.
Busy(r, handle) ==
    \/ handle = "memory" /\ (stmt[r] \in {"prepared", "failed"} \/ "flush" \in backup[r])
    \/ handle = "disk" /\ "load" \in backup[r]

Close(r, closed) ==
    handles' = [handles EXCEPT ![r] = @ \ {h \in closed : ~Busy(r, h)}]

\* return EXIT_FAILURE before the sql_database exists.
ExitEarly(r) ==
    /\ Goto(r, "exited")
    /\ succeeded' = [succeeded EXCEPT ![r] = FALSE]

\* return EXIT_FAILURE, through the destructor of the sql_database.
Fail(r) ==
    /\ Goto(r, "finalize")
    /\ succeeded' = [succeeded EXCEPT ![r] = FALSE]

-----------------------------------------------------------------------------
(* create_database *)

\* A connection that could not be opened is closed again.
OpenToCreate(r) ==
    /\ At(r, "start")
    /\ met' = met \cup {{r, q} : q \in {q \in Runs : Running(q)}}
    /\ \/ /\ Succeeds
          /\ handles' = [handles EXCEPT ![r] = @ \cup {"create"}]
          /\ Goto(r, "create_script")
          /\ UNCHANGED succeeded
       \/ /\ Fails
          /\ ExitEarly(r)
          /\ UNCHANGED handles
    /\ UNCHANGED <<disk, memory, stmt, backup, misloaded>>

\* CREATE TABLE IF NOT EXISTS, after which the connection is closed in any case.
ExecuteScript(r) ==
    /\ At(r, "create_script")
    /\ \/ /\ Succeeds
          /\ disk' = disk \cup {People}
          /\ Goto(r, "open_disk")
          /\ UNCHANGED succeeded
       \/ /\ Fails
          /\ ExitEarly(r)
          /\ UNCHANGED disk
    /\ Close(r, {"create"})
    /\ UNCHANGED <<memory, stmt, backup, met, misloaded>>

-----------------------------------------------------------------------------
(* sql_database::open *)

OpenDisk(r) ==
    /\ At(r, "open_disk")
    /\ \/ /\ Succeeds
          /\ handles' = [handles EXCEPT ![r] = @ \cup {"disk"}]
          /\ Goto(r, "open_memory")
          /\ UNCHANGED succeeded
       \/ /\ Fails
          /\ ExitEarly(r)
          /\ UNCHANGED handles
    /\ UNCHANGED <<disk, memory, stmt, backup, met, misloaded>>

OpenMemory(r) ==
    /\ At(r, "open_memory")
    /\ \/ /\ Succeeds
          /\ handles' = [handles EXCEPT ![r] = @ \cup {"memory"}]
          /\ Goto(r, "load_init")
          /\ UNCHANGED succeeded
       \/ /\ Fails
          /\ Close(r, {"disk"})
          /\ ExitEarly(r)
    /\ UNCHANGED <<disk, memory, stmt, backup, met, misloaded>>

\* load_into_memory_impl returns true when copy_content has failed, too: open goes on
\* with whatever has arrived in memory.
LoadFails(r) ==
    /\ Goto(r, "prepare")
    /\ misloaded' = misloaded \cup {r}

LoadInit(r) ==
    /\ At(r, "load_init")
    /\ \/ /\ Succeeds
          /\ backup' = [backup EXCEPT ![r] = @ \cup {"load"}]
          /\ Goto(r, "load_step")
          /\ UNCHANGED misloaded
       \/ /\ Fails
          /\ LoadFails(r)
          /\ UNCHANGED backup
    /\ UNCHANGED <<disk, memory, handles, stmt, succeeded, met>>

\* Variant: the databases are passed to copy_content the other way round.
LoadStepSwapped(r) ==
    /\ At(r, "load_step")
    /\ Succeeds
    /\ disk' = memory[r]
    /\ Goto(r, "load_finish")
    /\ UNCHANGED <<memory, handles, stmt, backup, succeeded, met, misloaded>>

\* A backup whose step fails is not finished.  It may have copied nothing, or some.
LoadStep(r) ==
    /\ At(r, "load_step")
    /\ \/ /\ Succeeds
          /\ memory' = [memory EXCEPT ![r] = disk]
          /\ Goto(r, "load_finish")
          /\ UNCHANGED misloaded
       \/ /\ Fails
          /\ \E part \in Contents :
                part \subseteq disk /\ memory' = [memory EXCEPT ![r] = part]
          /\ LoadFails(r)
    /\ UNCHANGED <<disk, handles, stmt, backup, succeeded, met>>

\* sqlite3_backup_finish releases the backup, whatever it returns.
LoadFinish(r) ==
    /\ At(r, "load_finish")
    /\ backup' = [backup EXCEPT ![r] = @ \ {"load"}]
    /\ \/ Succeeds /\ Goto(r, "prepare") /\ UNCHANGED misloaded
       \/ Fails /\ LoadFails(r)
    /\ UNCHANGED <<disk, memory, handles, stmt, succeeded, met>>

\* Variant: the result of preparing the statement is not looked at.
PrepareUnchecked(r) ==
    /\ At(r, "prepare")
    /\ Succeeds
    /\ stmt' = [stmt EXCEPT ![r] = "prepared"]
    /\ Goto(r, "bind")
    /\ UNCHANGED <<disk, memory, handles, succeeded, backup, met, misloaded>>

\* The INSERT cannot be prepared without the table.  Then both connections are closed.
Prepare(r) ==
    /\ At(r, "prepare")
    /\ \/ /\ Succeeds
          /\ People \in memory[r]
          /\ stmt' = [stmt EXCEPT ![r] = "prepared"]
          /\ Goto(r, "bind")
          /\ UNCHANGED <<handles, succeeded>>
       \/ /\ IF People \in memory[r] THEN Fails ELSE Succeeds
          /\ Close(r, {"disk", "memory"})
          /\ ExitEarly(r)
          /\ UNCHANGED stmt
    /\ UNCHANGED <<disk, memory, backup, met, misloaded>>

-----------------------------------------------------------------------------
(* write_person *)

\* Age and name, each with a call that may fail.
Bind(r) ==
    /\ At(r, "bind")
    /\ \/ Succeeds /\ Goto(r, "execute") /\ UNCHANGED succeeded
       \/ Fails /\ Fail(r)
    /\ UNCHANGED <<disk, memory, handles, stmt, backup, met, misloaded>>

\* sqlite3_step, and after it the reset, whose failure write ignores.
Execute(r) ==
    /\ At(r, "execute")
    /\ \/ /\ Succeeds
          /\ memory' = [memory EXCEPT ![r] = @ \cup {r}]
          /\ Goto(r, "flush_init")
          /\ UNCHANGED <<stmt, succeeded>>
       \/ /\ Fails
          /\ stmt' = [stmt EXCEPT ![r] = "failed"]
          /\ Fail(r)
          /\ UNCHANGED memory
    /\ UNCHANGED <<disk, handles, backup, met, misloaded>>

-----------------------------------------------------------------------------
(* flush_to_disk *)

FlushInit(r) ==
    /\ At(r, "flush_init")
    /\ \/ /\ Succeeds
          /\ Goto(r, "flush_step")
          /\ backup' = [backup EXCEPT ![r] = @ \cup {"flush"}]
          /\ UNCHANGED succeeded
       \/ /\ Fails
          /\ Fail(r)
          /\ UNCHANGED backup
    /\ UNCHANGED <<disk, memory, handles, stmt, met, misloaded>>

\* Variant: the databases are passed to copy_content the other way round.
FlushStepSwapped(r) ==
    /\ At(r, "flush_step")
    /\ Succeeds
    /\ memory' = [memory EXCEPT ![r] = disk]
    /\ Goto(r, "flush_finish")
    /\ UNCHANGED <<disk, handles, stmt, backup, succeeded, met, misloaded>>

\* The whole database is copied in one step and replaces the file's content, or
\* nothing does.
FlushStep(r) ==
    /\ At(r, "flush_step")
    /\ \/ Succeeds /\ disk' = memory[r] /\ Goto(r, "flush_finish") /\ UNCHANGED succeeded
       \/ Fails /\ Fail(r) /\ UNCHANGED disk
    /\ UNCHANGED <<memory, handles, stmt, backup, met, misloaded>>

FlushFinish(r) ==
    /\ At(r, "flush_finish")
    /\ backup' = [backup EXCEPT ![r] = @ \ {"flush"}]
    /\ \/ Succeeds /\ Goto(r, "cacheflush") /\ UNCHANGED succeeded
       \/ Fails /\ Fail(r)
    /\ UNCHANGED <<disk, memory, handles, stmt, met, misloaded>>

\* Nothing is left in the cache of a connection that has no transaction.
CacheFlush(r) ==
    /\ At(r, "cacheflush")
    /\ \/ Succeeds /\ Goto(r, "finalize") /\ UNCHANGED succeeded
       \/ Fails /\ Fail(r)
    /\ UNCHANGED <<disk, memory, handles, stmt, backup, met, misloaded>>

-----------------------------------------------------------------------------
(* ~sql_database *)

\* Variant: the destructor leaves the statement to its member's destructor.
FinalizeLater(r) ==
    /\ At(r, "finalize")
    /\ Goto(r, "close")
    /\ UNCHANGED <<disk, memory, handles, stmt, backup, succeeded, faults, met, misloaded>>

\* The error of a failed execution is taken for a failure to finalize: the statement
\* is gone, and stmt_ still points to it.
Finalize(r) ==
    /\ At(r, "finalize")
    /\ stmt' = [stmt EXCEPT ![r] = IF @ = "failed" THEN "dangling" ELSE "none"]
    /\ Goto(r, "close")
    /\ UNCHANGED <<disk, memory, handles, backup, succeeded, faults, met, misloaded>>

\* Both connections, then ~prepared_statement: its assertion destroys what stmt_
\* still points to.
CloseBoth(r) ==
    /\ At(r, "close")
    /\ Close(r, {"disk", "memory"})
    /\ stmt' = [stmt EXCEPT ![r] = IF @ = "dangling" THEN "twice" ELSE "none"]
    /\ Goto(r, "exited")
    /\ UNCHANGED <<disk, memory, backup, succeeded, faults, met, misloaded>>

\* What the run held is gone; the file stays as it is.
Crash(r) ==
    /\ Running(r)
    /\ Fails
    /\ Goto(r, "crashed")
    /\ handles' = [handles EXCEPT ![r] = {}]
    /\ succeeded' = [succeeded EXCEPT ![r] = FALSE]
    /\ UNCHANGED <<disk, memory, stmt, backup, met, misloaded>>

Step(r) ==
    \/ OpenToCreate(r) \/ ExecuteScript(r) \/ OpenDisk(r) \/ OpenMemory(r)
    \/ LoadInit(r) \/ LoadStep(r) \/ LoadFinish(r) \/ Prepare(r)
    \/ Bind(r) \/ Execute(r)
    \/ FlushInit(r) \/ FlushStep(r) \/ FlushFinish(r) \/ CacheFlush(r)
    \/ Finalize(r) \/ CloseBoth(r)

Next == \E r \in Runs : Step(r) \/ Crash(r)

Spec == Init /\ [][Next]_vars

-----------------------------------------------------------------------------
(* Properties *)

\* The person of a run that returned EXIT_SUCCESS is in the file and stays there,
\* unless the run overlapped with another, whose copy may replace its person, or some
\* load failed, when what was not loaded is overwritten.
PersonKept ==
    \A r \in Runs :
        pc[r] = "exited" /\ succeeded[r] =>
            r \in disk \/ misloaded # {} \/ \E q \in Runs : {r, q} \in met

\* The table is never lost again, whatever fails and however runs overlap: a memory without
\* the table is not copied over the file, as the INSERT cannot be prepared on it.  (A memory
\* that was loaded in part, table included, is.)
TableNeverLost == [][(People \in disk) => (People \in disk')]_vars

\* A run that ends by itself has closed its connections, unless one serves a backup it
\* has not finished, and has finalized its statement, once unless its execution failed.
EverythingReleased ==
    \A r \in Runs :
        pc[r] = "exited" =>
            /\ (handles[r] # {} => backup[r] # {})
            /\ stmt[r] = "none" \/ (stmt[r] = "twice" /\ ~succeeded[r] /\ r \notin memory[r])

-----------------------------------------------------------------------------
(* What holds between any two steps, and makes the properties inductive. *)

Opening == {"start", "create_script", "open_disk", "open_memory"}
Loading == {"load_init", "load_step", "load_finish", "prepare"}
Writing == {"bind", "execute", "flush_init", "flush_step", "flush_finish", "cacheflush"}
Flushed == {"flush_finish", "cacheflush", "finalize", "close", "exited"}
Labels == Opening \cup Loading \cup Writing
              \cup {"finalize", "close", "exited", "crashed"}

\* The connections and the statement a run has at each line.
Holds(r) ==
    /\ pc[r] \in Opening =>
          backup[r] = {} /\ handles[r] = (CASE pc[r] = "create_script" -> {"create"}
                                            [] pc[r] = "open_memory" -> {"disk"}
                                            [] OTHER -> {})
    /\ pc[r] \in Loading \cup Writing \cup {"finalize", "close"} =>
          handles[r] = {"disk", "memory"}
    /\ pc[r] \in Opening \cup Loading => stmt[r] = "none"
    /\ pc[r] \in Writing => stmt[r] = "prepared"
    /\ pc[r] = "finalize" => stmt[r] \in {"prepared", "failed"}
    /\ pc[r] = "close" => stmt[r] \in {"none", "dangling"}
    /\ pc[r] = "exited" /\ handles[r] # {} => backup[r] # {}
    /\ pc[r] = "exited" => stmt[r] \in {"none", "twice"}

\* A person nobody has written is nowhere; one that was is in its run's memory.
Unwritten(r) ==
    \/ pc[r] \in Opening \cup Loading \cup {"bind", "execute"}
    \/ stmt[r] \in {"failed", "dangling", "twice"}
Written(r) ==
    /\ Unwritten(r) => r \notin disk /\ \A q \in Runs : r \notin memory[q]
    /\ pc[r] \in {"flush_init", "flush_step", "flush_finish", "cacheflush"} => r \in memory[r]
    /\ stmt[r] \in {"failed", "dangling", "twice"} => ~succeeded[r]

\* Two runs at work have met.  As long as every load has succeeded, the person of a run
\* that met nobody is in the file from its flush on, and in every memory loaded since.
Alone(r) == \A q \in Runs : {r, q} \notin met
Secured(r) ==
    /\ \A q \in Runs : q # r /\ Running(r) /\ Running(q) => {r, q} \in met
    /\ pc[r] \in Flushed /\ succeeded[r] /\ misloaded = {} /\ Alone(r) =>
          /\ r \in disk
          /\ \A q \in Runs :
                pc[q] \in {"load_finish", "prepare"} \cup Writing => r \in memory[q]

IInv ==
    /\ TypeOK
    /\ pc \in [Runs -> Labels]
    /\ \A r \in Runs : Holds(r) /\ Written(r) /\ Secured(r)
=============================================================================
