------------------------------- MODULE Schema -------------------------------
(***************************************************************************)
(* How a table comes to be: Model::checkTable and SQLite::processTable for *)
(* one table, with the version row of SQLTable and the renaming and        *)
(* copying of an upgrade.  The statements go through the queue of module   *)
(* Database, here only what its order and its failures do to them: exce    *)
(* runs the whole queue, queueExce leaves it to a timer, a queue whose     *)
(* file does not open is thrown away, and a statement that does not        *)
(* prepare is skipped in silence.  The program may die between any two     *)
(* statements.                                                             *)
(***************************************************************************)
EXTENDS Naturals, Sequences

CONSTANTS Versions,      \* T::version() of the releases, 1..Versions
          MaxRows,       \* bound on the rows saved
          MaxCrashes,    \* bound on the deaths of the program
          MaxOpenFails   \* bound on the times the file does not open

ASSUME SchemaAssumption == {Versions, MaxRows, MaxCrashes, MaxOpenFails} \subseteq Nat

VARIABLES main,          \* the table on file: [cols, rows], cols = 0 for none
          temp,          \* TEMP_<table>, the same
          info,          \* the table SQLTable is there
          vers,          \* its rows for the table, in order
          queue,         \* statements waiting
          open,          \* checkQueue runs: "no", "yes", or "failed" to open
          pc,            \* where processTable is
          seen,          \* what getInfo has read: the version, 0 for a new row
          app,           \* the version the running program was built with
          rows,          \* rows saved so far
          crashes,       \* ends of the program so far
          deaths,        \* those of them in processTable or before its queue has run
          old,           \* those of them under an earlier release than this one
          opens          \* failed opens so far

disk == <<main, temp, info, vers>>
vars == <<disk, queue, open, pc, seen, app, rows, crashes, deaths, old, opens>>

NoTable == [cols |-> 0, rows |-> {}]
Stuck == pc = "stuck"

-----------------------------------------------------------------------------
(***************************************************************************)
(* The queue.                                                              *)
(***************************************************************************)

\* exce: the statements are queued and checkQueue begins.
Exce(stmts) == /\ queue' = queue \o stmts
               /\ \/ open' = "yes" /\ UNCHANGED opens
                  \/ opens < MaxOpenFails /\ open' = "failed" /\ opens' = opens + 1

QueueExce(stmts) == queue' = queue \o stmts /\ UNCHANGED <<open, opens>>

\* The callback of "SELECT * FROM TEMP_": it reads no row, and saves one new
\* object if its uninitialised changed is set, which locks the queue's mutex
\* a second time.
CopyCallback == pc' \in {pc, "stuck"}

\* SQLite::action on one statement.
Apply(s) ==
    CASE s.op = "createInfo" ->
           info' = TRUE /\ UNCHANGED <<main, temp, vers, pc, seen>>
      [] s.op = "getInfo" ->
           /\ seen' = IF info /\ vers # <<>> THEN vers[1] ELSE 0
           /\ UNCHANGED <<disk, pc>>
      [] s.op = "rename" ->
           /\ IF main # NoTable /\ temp = NoTable THEN temp' = main /\ main' = NoTable
              ELSE UNCHANGED <<main, temp>>
           /\ UNCHANGED <<info, vers, pc, seen>>
      [] s.op = "create" ->
           /\ main' = IF main = NoTable THEN [cols |-> s.v, rows |-> {}] ELSE main
           /\ UNCHANGED <<temp, info, vers, pc, seen>>
      [] s.op = "insertVer" ->
           /\ vers' = IF info THEN Append(vers, s.v) ELSE vers
           /\ UNCHANGED <<main, temp, info, pc, seen>>
      [] s.op = "updateVer" ->
           /\ vers' = [vers EXCEPT ![1] = s.v]
           /\ UNCHANGED <<main, temp, info, pc, seen>>
      [] s.op = "copy" ->
           /\ IF temp = NoTable THEN UNCHANGED pc ELSE CopyCallback
           /\ UNCHANGED <<disk, seen>>
      [] s.op = "drop" ->
           temp' = NoTable /\ UNCHANGED <<main, info, vers, pc, seen>>
      [] s.op = "insert" ->
           /\ main' = IF main.cols = s.v THEN [main EXCEPT !.rows = @ \cup {s.row}] ELSE main
           /\ UNCHANGED <<temp, info, vers, pc, seen>>

\* checkQueue, one statement a step; the last one closes the file.
Action == /\ open = "yes" /\ ~Stuck
          /\ queue # <<>>
          /\ Apply(Head(queue))
          /\ queue' = IF pc' = "stuck" THEN queue ELSE Tail(queue)
          /\ UNCHANGED <<open, app, rows, crashes, deaths, old, opens>>

\* checkQueue ends, or there was no file: the statements are deleted, and a
\* getInfo among them has found nothing.
End == /\ \/ open = "yes" /\ queue = <<>> /\ UNCHANGED seen
          \/ open = "failed" /\ seen' = IF pc = "ready" THEN seen ELSE 0
       /\ ~Stuck
       /\ open' = "no"
       /\ queue' = <<>>
       /\ UNCHANGED <<disk, pc, app, rows, crashes, deaths, old, opens>>

\* The timer of queueExce, when the main thread is idle.
Timer == /\ pc = "ready" /\ open = "no" /\ queue # <<>>
         /\ Exce(<<>>)
         /\ UNCHANGED <<disk, pc, seen, app, rows, crashes, deaths, old>>

-----------------------------------------------------------------------------
(***************************************************************************)
(* processTable.                                                           *)
(***************************************************************************)

Step(from, to) == pc = from /\ open = "no" /\ pc' = to
Frame == UNCHANGED <<disk, seen, app, rows, crashes, deaths, old>>

\* checkUpdate's getInfo; the first query of SQLTable creates it.
CheckUpdate == /\ Step("down", "checkUpdate")
               /\ Exce(<<[op |-> "createInfo"], [op |-> "getInfo"]>>)
               /\ Frame

\* Mutant: the table is created before the old one is moved out of the way.
UpgradeSwapped == <<[op |-> "create", v |-> app], [op |-> "rename"]>>

\* What processTable queues for a table of another version.
Upgrade == <<[op |-> "rename"], [op |-> "create", v |-> app]>>

\* processTable after checkUpdate: CREATE TABLE in any case; afterUpdate's
\* getInfo if the version is another.
ProcessTable ==
    \/ /\ seen = app
       /\ Step("checkUpdate", "ready")
       /\ QueueExce(<<[op |-> "create", v |-> app]>>)
       /\ Frame
    \/ /\ seen # app
       /\ Step("checkUpdate", "afterUpdate")
       /\ Exce(Upgrade \o <<[op |-> "getInfo"]>>)
       /\ Frame

\* Mutant: afterUpdate does not save the version.
SaveVersionNever ==
    /\ Step("afterUpdate", "version")
    /\ QueueExce(<<>>)
    /\ Frame

\* afterUpdate: the version row is inserted, or its update queued.
SaveVersion ==
    /\ Step("afterUpdate", "version")
    /\ IF seen = 0 THEN Exce(<<[op |-> "insertVer", v |-> app]>>)
       ELSE QueueExce(<<[op |-> "updateVer", v |-> app]>>)
    /\ Frame

\* afterUpdate: the copy and the drop are queued.
CopyRows == /\ Step("version", "ready")
            /\ QueueExce(<<[op |-> "copy"], [op |-> "drop"]>>)
            /\ Frame

\* The application saves a new row.
SaveRow == /\ rows < MaxRows
           /\ Step("ready", "ready")
           /\ rows' = rows + 1
           /\ Exce(<<[op |-> "insert", v |-> app, row |-> rows + 1]>>)
           /\ UNCHANGED <<disk, seen, app, crashes, deaths, old>>

\* The program dies, and the next one may be a later release.
Crash == /\ crashes < MaxCrashes
         /\ crashes' = crashes + 1
         /\ deaths' = IF pc = "ready" /\ queue = <<>> THEN deaths ELSE deaths + 1
         /\ app' \in app..Versions
         /\ old' = IF app' = app THEN old ELSE deaths'
         /\ pc' = "down" /\ open' = "no" /\ queue' = <<>> /\ seen' = 0
         /\ UNCHANGED <<disk, rows, opens>>

-----------------------------------------------------------------------------
Init == /\ main = NoTable /\ temp = NoTable /\ info = FALSE /\ vers = <<>>
        /\ queue = <<>> /\ open = "no" /\ pc = "down" /\ seen = 0
        /\ app = 1 /\ rows = 0 /\ crashes = 0 /\ deaths = 0 /\ old = 0 /\ opens = 0

Next == \/ Action \/ End \/ Timer
        \/ CheckUpdate \/ ProcessTable \/ SaveVersion \/ CopyRows
        \/ SaveRow \/ Crash

Spec == Init /\ [][Next]_vars

-----------------------------------------------------------------------------
(***************************************************************************)
(* Properties.                                                             *)
(***************************************************************************)

\* The file has always opened.
Opened == opens = 0

\* processTable: once its statements have run the table is there with the
\* columns the program writes, however often this release was cut short on
\* the way.  Not so if an earlier release was: the TEMP_ table it left is
\* dropped by nobody, and is in the way of the next release's rename.
ReadyIsUsable ==
    Opened /\ old = 0 /\ pc = "ready" /\ queue = <<>> /\ open = "no" => main.cols = app

\* A saved row is lost only by the upgrade to another release, whose copy
\* saves nothing: with one release, no death of the program makes checkUpdate
\* take a table with rows for an old one.
RowsKept == [][Opened /\ app = 1 /\ app' = 1
                 => main.rows \cup temp.rows \subseteq main'.rows \cup temp'.rows]_vars

\* afterUpdate saves an object from inside the queue: the main thread locks
\* up only when there was a table to rename, that is in a later release or
\* after a death between the CREATE TABLE and the version row.
StuckOnlyAfterDeath == Stuck => deaths > 0 \/ app > 1 \/ ~Opened

=============================================================================
