------------------------------ MODULE Database ------------------------------
(***************************************************************************)
(* The statement queue of gs::Database (utils/database/Model.cpp) over the *)
(* SQLite file (utils/database/SQLite.cpp).                                *)
(*                                                                         *)
(* Every statement goes through one queue.  exce() pushes and runs the     *)
(* whole queue before it returns (SELECT and INSERT, whose callbacks hand  *)
(* a result back); queueExce() pushes and leaves the queue to a zero-delay *)
(* timer of the Dart event loop (UPDATE and DELETE).  checkQueue() opens   *)
(* the file, runs the items in order and closes it.  All callers are on    *)
(* the main thread, so the mutex is never contended; what interleaves with *)
(* a flush is the death of the process, and what interleaves between two   *)
(* calls is the timers and the life cycle of the Flutter engine.           *)
(***************************************************************************)
EXTENDS Naturals, Sequences

CONSTANTS Content,      \* what a row of the table can hold
          NoRow,        \* the absence of a row
          MaxId,        \* the largest row id AUTOINCREMENT can give
          MaxQueue,     \* bound on the length of the queue
          MaxTimers,    \* bound on the timers outstanding at once
          OpenMayFail   \* whether sqlite3_open may fail

ASSUME DatabaseAssumption ==
    /\ NoRow \notin Content
    /\ MaxId \in Nat
    /\ MaxQueue \in Nat
    /\ MaxTimers \in Nat
    /\ OpenMayFail \in BOOLEAN

VARIABLES disk,         \* the SQLite file
          queue,        \* Database::queue
          done,         \* how many items of the queue checkQueue has run
          db,           \* SQLite::db is not NULL
          wait_action,  \* Database::wait_action
          timers,       \* zero-delay timers of onCheckAction outstanding
          pc,           \* where the main thread is
          reply,        \* what the callback of the last exce saw
          ahead         \* history: the database after each pending statement

vars == <<disk, queue, done, db, wait_action, timers, pc, reply, ahead>>

-----------------------------------------------------------------------------
(***************************************************************************)
(* The file and the statements.                                            *)
(***************************************************************************)

Ids == 1..MaxId

\* rows: the table; seq: the last row id handed out (sqlite_sequence).
File == [rows : [Ids -> Content \cup {NoRow}], seq : 0..MaxId]

Fresh == [rows |-> [i \in Ids |-> NoRow], seq |-> 0]

Statement == [op : {"select", "insert", "update", "delete"},
              id : 0..MaxId, row : Content \cup {NoRow}]

Select == [op |-> "select", id |-> 0, row |-> NoRow]
Insert(c) == [op |-> "insert", id |-> 0, row |-> c]
Update(i, c) == [op |-> "update", id |-> i, row |-> c]
Delete(i) == [op |-> "delete", id |-> i, row |-> NoRow]

\* Mutant: the table is created without AUTOINCREMENT, and an INSERT takes the
\* id after the largest one in use.
ApplyReusesIds(f, s) ==
    CASE s.op = "insert" /\ (MaxId = 0 \/ f.rows[MaxId] = NoRow) ->
            LET i == CHOOSE n \in 0..MaxId : /\ n # 0 => f.rows[n] # NoRow
                                             /\ \A m \in Ids : m > n => f.rows[m] = NoRow
            IN  IF i = MaxId THEN f
                ELSE [rows |-> [f.rows EXCEPT ![i + 1] = s.row],
                      seq |-> IF i + 1 > f.seq THEN i + 1 ELSE f.seq]
      [] s.op = "update" /\ s.id \in Ids /\ f.rows[s.id] # NoRow ->
            [f EXCEPT !.rows[s.id] = s.row]
      [] s.op = "delete" /\ s.id \in Ids ->
            [f EXCEPT !.rows[s.id] = NoRow]
      [] OTHER -> f

\* What a statement does to a table that processTable has created: an INSERT
\* gets the row id after the last one ever given out (AUTOINCREMENT) and fails
\* without one, an UPDATE or DELETE ... WHERE identifier = i touches nothing
\* when the row is gone.
Apply(f, s) ==
    CASE s.op = "insert" /\ f.seq < MaxId ->
            [rows |-> [f.rows EXCEPT ![f.seq + 1] = s.row], seq |-> f.seq + 1]
      [] s.op = "update" /\ s.id \in Ids /\ f.rows[s.id] # NoRow ->
            [f EXCEPT !.rows[s.id] = s.row]
      [] s.op = "delete" /\ s.id \in Ids ->
            [f EXCEPT !.rows[s.id] = NoRow]
      [] OTHER -> f

\* The statements whose callback reads a result off the cursor.
Answered == {"select", "insert"}

\* The database as the program has written it so far.
View == IF ahead = <<>> THEN disk ELSE ahead[Len(ahead)]

-----------------------------------------------------------------------------
Init == /\ disk = Fresh
        /\ queue = <<>>
        /\ done = 0
        /\ db = FALSE
        /\ wait_action = FALSE
        /\ timers = 0
        /\ pc = "idle"
        /\ reply = <<>>
        /\ ahead = <<>>

\* Mutant: a statement is put in front of the ones still queued.
PushFront(s) == /\ Len(queue) < MaxQueue
                /\ queue' = <<s>> \o queue
                /\ ahead' = Append(ahead, Apply(View, s))

\* queue.push_back(new QueueItem(...))
Push(s) == /\ Len(queue) < MaxQueue
           /\ queue' = Append(queue, s)
           /\ ahead' = Append(ahead, Apply(View, s))

\* Mutant: exce leaves its statement to the next round of the queue.
ExceDeferred(s) ==
    /\ pc = "idle"
    /\ Push(s)
    /\ timers < MaxTimers
    /\ wait_action' = TRUE
    /\ timers' = timers + 1
    /\ reply' = <<>>
    /\ UNCHANGED <<disk, done, db, pc>>

\* Database::exce up to its call of checkQueue.
Exce(s) ==
    /\ pc = "idle"
    /\ Push(s)
    /\ pc' = "exce"
    /\ reply' = <<>>
    /\ UNCHANGED <<disk, done, db, wait_action, timers>>

\* Database::onCheckAction: one timer per round of wait_action.
OnCheckAction ==
    IF wait_action
    THEN UNCHANGED <<wait_action, timers>>
    ELSE /\ timers < MaxTimers
         /\ wait_action' = TRUE
         /\ timers' = timers + 1

\* Database::queueExce
QueueExce(s) ==
    /\ pc = "idle"
    /\ Push(s)
    /\ OnCheckAction
    /\ UNCHANGED <<disk, done, db, pc, reply>>

\* Mutant: checkQueue does not lower wait_action.
CheckQueueKeepsWait ==
    /\ pc' = IF queue = <<>> THEN "idle" ELSE "flush"
    /\ db' = (queue # <<>>)
    /\ UNCHANGED <<disk, queue, done, wait_action, reply, ahead>>

\* The entry of Database::checkQueue: the wait is over and, if there is
\* something to run, SQLite::begin opens the file, or fails to and leaves db
\* NULL, after which every item is deleted without being run.
CheckQueue ==
    /\ wait_action' = FALSE
    /\ IF queue = <<>>
       THEN /\ pc' = "idle"
            /\ UNCHANGED <<db, ahead>>
       ELSE /\ pc' = "flush"
            /\ \/ db' = TRUE /\ ahead' = ahead
               \/ OpenMayFail /\ db' = FALSE /\ ahead' = <<>>
    /\ UNCHANGED <<disk, queue, done, reply>>

\* exce calls checkQueue.
ExceCheckQueue == /\ pc = "exce"
                  /\ CheckQueue
                  /\ UNCHANGED timers

\* A zero-delay timer is up and calls checkQueue (TimerInfo.timeup).
TimerUp == /\ pc = "idle"
           /\ timers > 0
           /\ timers' = timers - 1
           /\ CheckQueue

\* Mutant: the loop takes the newest item first.
ActionNewestFirst ==
    /\ pc = "flush"
    /\ done < Len(queue)
    /\ done' = done + 1
    /\ disk' = IF db THEN Apply(disk, queue[Len(queue) - done]) ELSE disk
    /\ ahead' = IF db THEN Tail(ahead) ELSE ahead
    /\ UNCHANGED <<queue, db, wait_action, timers, pc, reply>>

\* One turn of checkQueue's loop: SQLite::action on the next item.  Each
\* statement commits on its own, no transaction is open.
Action ==
    /\ pc = "flush"
    /\ done < Len(queue)
    /\ done' = done + 1
    /\ IF db
       THEN /\ disk' = Apply(disk, queue[done + 1])
            /\ reply' = IF queue[done + 1].op \in Answered
                        THEN <<disk'>> ELSE reply
            /\ ahead' = Tail(ahead)
       ELSE UNCHANGED <<disk, reply, ahead>>
    /\ UNCHANGED <<queue, db, wait_action, timers, pc>>

\* The end of checkQueue: queue.clear() and SQLite::end.
EndQueue ==
    /\ pc = "flush"
    /\ done = Len(queue)
    /\ queue' = <<>>
    /\ done' = 0
    /\ db' = FALSE
    /\ pc' = "idle"
    /\ UNCHANGED <<disk, wait_action, timers, reply, ahead>>

\* The engine detaches (Glib.destroy): Platform.clearPlatform cancels every
\* timer, nothing flushes the queue of the Database that stays behind.
Detach ==
    /\ pc = "idle"
    /\ timers' = 0
    /\ pc' = "down"
    /\ UNCHANGED <<disk, queue, done, db, wait_action, reply, ahead>>

\* The process dies, at any point; only the file is left.
Crash ==
    /\ pc # "down"
    /\ queue' = <<>>
    /\ done' = 0
    /\ db' = FALSE
    /\ wait_action' = FALSE
    /\ timers' = 0
    /\ pc' = "down"
    /\ reply' = <<>>
    /\ ahead' = <<>>
    /\ UNCHANGED disk

\* Mutant: the new Database starts with the old one's wait_action.
SetupKeepsWait ==
    /\ pc = "down"
    /\ queue' = <<>>
    /\ pc' = "idle"
    /\ ahead' = <<>>
    /\ UNCHANGED <<disk, done, db, wait_action, timers, reply>>

\* dart_postSetup: db::setup replaces the Database by a new one, and
\* ~Database deletes what was in the queue of the old one.
Setup ==
    /\ pc = "down"
    /\ queue' = <<>>
    /\ wait_action' = FALSE
    /\ pc' = "idle"
    /\ ahead' = <<>>
    /\ UNCHANGED <<disk, done, db, timers, reply>>

-----------------------------------------------------------------------------
\* The statements the models issue: SQLQuery::find and the INSERT of
\* SQLite::update go through exce, its UPDATE and SQLite::remove through
\* queueExce with the id of a row that was inserted at some time.
Call == \/ Exce(Select)
        \/ \E c \in Content : Exce(Insert(c))
        \/ \E i \in 1..disk.seq : \/ \E c \in Content : QueueExce(Update(i, c))
                                  \/ QueueExce(Delete(i))

MainThread == ExceCheckQueue \/ Action \/ EndQueue

Next == \/ Call
        \/ MainThread
        \/ TimerUp
        \/ Detach
        \/ Crash
        \/ Setup

\* The main thread runs on and the event loop fires timers that are up;
\* nothing is assumed of the callers, of the engine or of the process.
Fairness == WF_vars(MainThread) /\ WF_vars(TimerUp)

Spec == Init /\ [][Next]_vars /\ Fairness

-----------------------------------------------------------------------------
\* The values the variables take.
TypeOK ==
    /\ disk \in File
    /\ queue \in Seq(Statement)
    /\ done \in 0..Len(queue)
    /\ db \in BOOLEAN
    /\ wait_action \in BOOLEAN
    /\ timers \in 0..MaxTimers
    /\ pc \in {"idle", "exce", "flush", "down"}
    /\ reply \in Seq(File) /\ Len(reply) <= 1
    /\ ahead \in Seq(File)

\* A statement left in the queue between two calls has a timer that will run
\* it: wait_action is only up while a timer is outstanding, although exce
\* lowers it under timers that still are (Model.cpp:54-76).
PendingIsArmed ==
    /\ pc # "down" /\ wait_action => timers > 0
    /\ pc = "idle" /\ queue # <<>> => wait_action

\* Between two calls no item is half run and the file is closed; a statement
\* whose caller waits for a result is the last one of the queue, so that the
\* result shows everything queued before it (Model.cpp:40-68).
FlushDiscipline ==
    /\ pc # "flush" => done = 0 /\ ~db
    /\ \A i \in 1..Len(queue) :
           queue[i].op \in Answered => i = Len(queue) /\ pc \in {"exce", "flush"}

\* The statements still in the queue lead, one by one and in order, from the
\* file to the database the program believes in: a flush interrupted after
\* any item leaves a state the program went through (Model.cpp:54-68).
QueueLeadsToView ==
    /\ Len(ahead) = IF pc = "flush" /\ ~db THEN 0 ELSE Len(queue) - done
    /\ \A i \in 1..Len(ahead) :
           ahead[i] = Apply(IF i = 1 THEN disk ELSE ahead[i - 1], queue[done + i])

\* A row that is gone from the file stays gone: neither an UPDATE still in the
\* queue when its row was deleted (two objects of one row) nor a row id given
\* out a second time brings it back (SQLite.cpp:423-579).
DeletedStaysDeleted ==
    [][\A i \in 1..disk.seq : disk.rows[i] = NoRow => disk'.rows[i] = NoRow]_vars

\* The queue is the store of module Store: in the program's eyes statements
\* apply at once, an answer shows all of them, a failure forgets a suffix.
AsStore == INSTANCE Store WITH hist <- <<disk>> \o ahead

ImplementsStore == AsStore!Spec

\* What queueExce left in the queue is run, unless the engine goes away
\* first (Model.cpp:47-52, 70-76).
QueueDrains == queue # <<>> ~> queue = <<>> \/ pc = "down"

=============================================================================
