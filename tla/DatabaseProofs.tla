--------------------------- MODULE DatabaseProofs ---------------------------
(***************************************************************************)
(* Theorems about the statement queue of module Database, for any content, *)
(* any number of rows and any bound on the queue and the timers; and, on   *)
(* top of its invariant, theorems about the settings table of module       *)
(* KeyValue, for any keys and values.  Those about Database use nothing of *)
(* KeyValue, nor its assumption.                                           *)
(***************************************************************************)
EXTENDS KeyValue, SequenceTheorems, WellFoundedInduction, TLAPS

-----------------------------------------------------------------------------
(***************************************************************************)
(* The statements.                                                         *)
(***************************************************************************)

\* Running a statement on a database file gives a database file
\* (SQLite::action).
LEMMA ApplyType ==
    ASSUME NEW f \in File, NEW s \in Statement
    PROVE  Apply(f, s) \in File
<1> USE DatabaseAssumption DEF File, Statement, Ids
<1>1. CASE s.op = "insert" /\ f.seq < MaxId
    BY <1>1 DEF Apply
<1>2. CASE s.op = "update" /\ s.id \in Ids /\ f.rows[s.id] # NoRow
    BY <1>2 DEF Apply
<1>3. CASE s.op = "delete" /\ s.id \in Ids
    BY <1>3 DEF Apply
<1>4. CASE /\ ~(s.op = "insert" /\ f.seq < MaxId)
           /\ ~(s.op = "update" /\ s.id \in Ids /\ f.rows[s.id] # NoRow)
           /\ ~(s.op = "delete" /\ s.id \in Ids)
    <2>1. Apply(f, s) = f
        BY <1>4 DEF Apply
    <2> QED
        BY <2>1
<1> QED
    BY <1>1, <1>2, <1>3, <1>4

\* The statements the models issue are statements (SQLQuery::find,
\* SQLite::update, SQLite::remove).
LEMMA StatementType ==
    /\ Select \in Statement
    /\ \A c \in Content : Insert(c) \in Statement
    /\ \A i \in Ids, c \in Content : Update(i, c) \in Statement
    /\ \A i \in Ids : Delete(i) \in Statement
BY DatabaseAssumption DEF Select, Insert, Update, Delete, Statement, Ids

\* The file of a first installation is a database file.
LEMMA FreshType == Fresh \in File
BY DatabaseAssumption DEF Fresh, File, Ids

\* The empty queue and the empty history have the right types.
LEMMA Empties ==
    /\ <<>> \in Seq(Statement)
    /\ <<>> \in Seq(File)
    /\ Len(<<>>) = 0
    /\ 0 \in 0..Len(<<>>)
OBVIOUS

\* What the program believes to be in the database is a database file.
LEMMA ViewType ==
    ASSUME TypeOK
    PROVE  View \in File
<1>1. CASE ahead = <<>>
    BY <1>1 DEF TypeOK, View
<1>2. CASE ahead # <<>>
    <2>1. Len(ahead) \in 1..Len(ahead)
        BY <1>2, EmptySeq DEF TypeOK
    <2> QED
        BY <1>2, <2>1, ElementOfSeq DEF TypeOK, View
<1> QED
    BY <1>1, <1>2

-----------------------------------------------------------------------------
(***************************************************************************)
(* The steps, for any caller of the queue.                                 *)
(***************************************************************************)

\* A call that follows the convention of SQLQuery and SQLite: who wants an
\* answer calls exce.
AnyCall == \E s \in Statement : \/ Exce(s)
                                \/ QueueExce(s) /\ s.op \notin Answered

Step == AnyCall \/ MainThread \/ TimerUp \/ Detach \/ Crash \/ Setup

\* The calls of module Database follow it.
LEMMA NextIsStep ==
    ASSUME TypeOK, [Next]_vars
    PROVE  [Step]_vars
<1>1. \A i \in 1..disk.seq : i \in Ids
    BY DatabaseAssumption DEF TypeOK, File, Ids
<1>2. \A i, c : Update(i, c).op \notin Answered /\ Delete(i).op \notin Answered
    BY DEF Update, Delete, Answered
<1>3. CASE Call
    <2>1. AnyCall
        BY <1>1, <1>2, <1>3, StatementType, Zenon DEF Call, AnyCall
    <2> QED
        BY <2>1 DEF Step
<1> QED
    BY <1>3 DEF Next, Step

-----------------------------------------------------------------------------
(***************************************************************************)
(* Type correctness.                                                       *)
(***************************************************************************)

\* Pushing a statement keeps the types of the queue and of its history.
LEMMA PushType ==
    ASSUME TypeOK, NEW s \in Statement, Push(s)
    PROVE  /\ queue' \in Seq(Statement)
           /\ Len(queue') = Len(queue) + 1
           /\ ahead' \in Seq(File)
<1>1. Apply(View, s) \in File
    BY ViewType, ApplyType
<1> QED
    BY <1>1, AppendProperties DEF TypeOK, Push

\* Every step of the queue, its callers, its timers and its engine keeps the
\* types (Model.cpp:40-85).
LEMMA TypeStep ==
    ASSUME TypeOK, QueueLeadsToView, FlushDiscipline, [Step]_vars
    PROVE  TypeOK'
<1> USE DatabaseAssumption
<1>1. ASSUME NEW s \in Statement, Exce(s)
      PROVE  TypeOK'
    <2>1. queue' \in Seq(Statement) /\ Len(queue') = Len(queue) + 1
             /\ ahead' \in Seq(File)
        BY <1>1, PushType DEF Exce
    <2>2. Len(queue) \in Nat
        BY LenProperties DEF TypeOK
    <2>3. reply' \in Seq(File) /\ Len(reply') <= 1
        BY <1>1, EmptySeq DEF Exce
    <2> QED
        BY <1>1, <2>1, <2>2, <2>3 DEF Exce, TypeOK
<1>2. ASSUME NEW s \in Statement, QueueExce(s)
      PROVE  TypeOK'
    <2>1. queue' \in Seq(Statement) /\ Len(queue') = Len(queue) + 1
             /\ ahead' \in Seq(File)
        BY <1>2, PushType DEF QueueExce
    <2>2. Len(queue) \in Nat
        BY LenProperties DEF TypeOK
    <2>3. wait_action' \in BOOLEAN
        BY <1>2, Zenon DEF QueueExce, OnCheckAction, TypeOK
    <2>4. timers' \in 0..MaxTimers
        <3>1. CASE wait_action
            BY <1>2, <3>1 DEF QueueExce, OnCheckAction, TypeOK
        <3>2. CASE ~wait_action
            BY <1>2, <3>2 DEF QueueExce, OnCheckAction, TypeOK
        <3> QED
            BY <3>1, <3>2
    <2> QED
        BY <1>2, <2>1, <2>2, <2>3, <2>4 DEF QueueExce, TypeOK
<1>3. ASSUME CheckQueue, timers' \in 0..MaxTimers
      PROVE  TypeOK'
    <2>1. ahead' \in Seq(File) /\ db' \in BOOLEAN
            /\ pc' \in {"idle", "exce", "flush", "down"}
        BY <1>3, EmptySeq DEF CheckQueue, TypeOK
    <2> QED
        BY <1>3, <2>1 DEF CheckQueue, TypeOK
<1>4. CASE ExceCheckQueue
    BY <1>3, <1>4 DEF ExceCheckQueue, TypeOK
<1>5. CASE TimerUp
    BY <1>3, <1>5 DEF TimerUp, TypeOK
<1>6. CASE Action
    <2>1. Len(queue) \in Nat /\ done + 1 \in 1..Len(queue) /\ done' \in 0..Len(queue)
        BY <1>6, LenProperties DEF Action, TypeOK
    <2>2. CASE db
        <3>1. queue[done + 1] \in Statement
            BY <2>1, ElementOfSeq DEF TypeOK
        <3>2. disk' \in File
            BY <1>6, <2>2, <3>1, ApplyType DEF Action, TypeOK
        <3>3. <<disk'>> \in Seq(File) /\ Len(<<disk'>>) = 1
            BY <3>2
        <3>4. reply' \in Seq(File) /\ Len(reply') <= 1
            <4>1. CASE queue[done + 1].op \in Answered
                <5>1. reply' = <<disk'>>
                    BY <1>6, <2>2, <4>1, Zenon DEF Action
                <5> QED
                    BY <3>3, <5>1
            <4>2. CASE queue[done + 1].op \notin Answered
                BY <1>6, <2>2, <4>2 DEF Action, TypeOK
            <4> QED
                BY <4>1, <4>2
        <3>5. ahead' \in Seq(File)
            <4>1. Len(ahead) = Len(queue) - done
                BY <2>2 DEF QueueLeadsToView
            <4>2. Len(ahead) # 0
                BY <1>6, <2>1, <4>1 DEF Action, TypeOK
            <4>3. ahead # <<>>
                BY <4>2, Empties, Zenon
            <4> QED
                BY <1>6, <2>2, <4>3, HeadTailProperties DEF Action, TypeOK
        <3> QED
            BY <1>6, <2>1, <2>2, <3>2, <3>4, <3>5 DEF Action, TypeOK
    <2>3. CASE ~db
        BY <1>6, <2>1, <2>3 DEF Action, TypeOK
    <2> QED
        BY <2>2, <2>3
<1>7. CASE EndQueue
    BY <1>7, Empties DEF EndQueue, TypeOK
<1>8. CASE Detach
    BY <1>8 DEF Detach, TypeOK
<1>9. CASE Crash
    <2>1. queue' \in Seq(Statement) /\ done' \in 0..Len(queue')
        BY <1>9, Empties DEF Crash, TypeOK
    <2>2. ahead' \in Seq(File) /\ reply' \in Seq(File) /\ Len(reply') <= 1
        BY <1>9, Empties DEF Crash, TypeOK
    <2>3. db' \in BOOLEAN /\ wait_action' \in BOOLEAN
        BY <1>9 DEF Crash
    <2> QED
        BY <1>9, <2>1, <2>2, <2>3 DEF Crash, TypeOK
<1>10. CASE Setup
    <2>0. done = 0
        BY <1>10 DEF Setup, FlushDiscipline
    <2>1. queue' \in Seq(Statement) /\ done' \in 0..Len(queue')
        BY <1>10, <2>0, Empties DEF Setup, TypeOK
    <2>2. ahead' \in Seq(File) /\ reply' \in Seq(File) /\ Len(reply') <= 1
        BY <1>10, <2>0, Empties DEF Setup, TypeOK
    <2> QED
        BY <1>10, <2>1, <2>2 DEF Setup, TypeOK
<1>11. CASE AnyCall
    BY <1>1, <1>2, <1>11 DEF AnyCall
<1>12. CASE UNCHANGED vars
    BY <1>12 DEF vars, TypeOK
<1> QED
    BY <1>4, <1>5, <1>6, <1>7, <1>8, <1>9, <1>10, <1>11, <1>12
       DEF Step, MainThread

-----------------------------------------------------------------------------
(***************************************************************************)
(* Timers.                                                                 *)
(***************************************************************************)

\* No step leaves a statement in the queue of an idle main thread without a
\* timer (Model.cpp:47-76).
LEMMA ArmedStep ==
    ASSUME TypeOK, PendingIsArmed, FlushDiscipline, [Step]_vars
    PROVE  PendingIsArmed'
<1> USE DEF PendingIsArmed
<1>1. ASSUME NEW s, Exce(s)
      PROVE  PendingIsArmed'
    BY <1>1 DEF Exce
<1>2. ASSUME NEW s, QueueExce(s)
      PROVE  PendingIsArmed'
    <2>1. CASE wait_action
        BY <1>2, <2>1 DEF QueueExce, OnCheckAction
    <2>2. CASE ~wait_action
        BY <1>2, <2>2 DEF QueueExce, OnCheckAction, TypeOK
    <2> QED
        BY <2>1, <2>2
<1>3. ASSUME CheckQueue
      PROVE  PendingIsArmed'
    BY <1>3 DEF CheckQueue
<1>4. CASE Action
    BY <1>4 DEF Action
<1>5. CASE EndQueue
    BY <1>5 DEF EndQueue
<1>6. CASE Detach
    BY <1>6 DEF Detach
<1>7. CASE Crash
    BY <1>7 DEF Crash
<1>8. CASE Setup
    BY <1>8 DEF Setup
<1>9. CASE UNCHANGED vars
    BY <1>9 DEF vars
<1>10. CASE AnyCall
    BY <1>1, <1>2, <1>10, Zenon DEF AnyCall
<1> HIDE DEF PendingIsArmed
<1> QED
    BY <1>3, <1>4, <1>5, <1>6, <1>7, <1>8, <1>9, <1>10
       DEF Step, MainThread, ExceCheckQueue, TimerUp

-----------------------------------------------------------------------------
(***************************************************************************)
(* The order of the queue.                                                 *)
(***************************************************************************)

\* A statement somebody waits for stays the last of the queue
\* (Model.cpp:40-68).
LEMMA DisciplineStep ==
    ASSUME TypeOK, FlushDiscipline, [Step]_vars
    PROVE  FlushDiscipline'
<1> USE DEF FlushDiscipline
<1>1. ASSUME NEW s \in Statement, Exce(s)
      PROVE  FlushDiscipline'
    <2>1. /\ Len(queue') = Len(queue) + 1
          /\ \A i \in 1..Len(queue) : queue'[i] = queue[i]
        BY <1>1, AppendProperties DEF Exce, Push, TypeOK
    <2>2. Len(queue) \in Nat
        BY LenProperties DEF TypeOK
    <2> QED
        BY <1>1, <2>1, <2>2 DEF Exce
<1>2. ASSUME NEW s \in Statement, QueueExce(s), s.op \notin Answered
      PROVE  FlushDiscipline'
    <2>1. /\ Len(queue') = Len(queue) + 1
          /\ \A i \in 1..Len(queue) : queue'[i] = queue[i]
          /\ queue'[Len(queue) + 1] = s
        BY <1>2, AppendProperties DEF QueueExce, Push, TypeOK
    <2>2. Len(queue) \in Nat
        BY LenProperties DEF TypeOK
    <2> QED
        BY <1>2, <2>1, <2>2 DEF QueueExce
<1>3. ASSUME CheckQueue, pc \in {"idle", "exce"}
      PROVE  FlushDiscipline'
    <2>1. CASE queue = <<>>
        BY <1>3, <2>1, Empties DEF CheckQueue
    <2>2. CASE queue # <<>>
        BY <1>3, <2>2 DEF CheckQueue
    <2> QED
        BY <2>1, <2>2
<1>4. CASE Action
    BY <1>4 DEF Action
<1>5. CASE EndQueue
    BY <1>5, Empties DEF EndQueue
<1>6. CASE Detach
    BY <1>6 DEF Detach
<1>7. CASE Crash
    BY <1>7, Empties DEF Crash
<1>8. CASE Setup
    BY <1>8, Empties DEF Setup
<1>9. CASE AnyCall
    BY <1>1, <1>2, <1>9 DEF AnyCall
<1>10. CASE UNCHANGED vars
    BY <1>10 DEF vars
<1> QED
    BY <1>3, <1>4, <1>5, <1>6, <1>7, <1>8, <1>9, <1>10
       DEF Step, MainThread, ExceCheckQueue, TimerUp

\* The statement pushed last leads from the database the program believes in
\* to the next one (Model.cpp:40-52).
LEMMA PushLeads ==
    ASSUME TypeOK, QueueLeadsToView, FlushDiscipline, NEW s \in Statement,
           pc = "idle", Push(s), disk' = disk, done' = done,
           pc' \in {"idle", "exce"}
    PROVE  QueueLeadsToView'
<1>1. done = 0 /\ Len(ahead) = Len(queue) /\ Len(queue) \in Nat
    BY LenProperties DEF FlushDiscipline, QueueLeadsToView, TypeOK
<1>2. Apply(View, s) \in File
    BY ViewType, ApplyType
<1>3. /\ Len(queue') = Len(queue) + 1
      /\ \A i \in 1..Len(queue) : queue'[i] = queue[i]
      /\ queue'[Len(queue) + 1] = s
    BY AppendProperties DEF Push, TypeOK
<1>4. /\ Len(ahead') = Len(ahead) + 1
      /\ \A i \in 1..Len(ahead) : ahead'[i] = ahead[i]
      /\ ahead'[Len(ahead) + 1] = Apply(View, s)
    BY <1>2, AppendProperties DEF Push, TypeOK
<1>5. View = IF Len(ahead) = 0 THEN disk ELSE ahead[Len(ahead)]
    BY EmptySeq DEF View, TypeOK
<1>6. Len(ahead') = Len(queue') - done'
    BY <1>1, <1>3, <1>4
<1>7. ASSUME NEW i \in 1..Len(ahead')
      PROVE  ahead'[i] = Apply(IF i = 1 THEN disk' ELSE ahead'[i - 1],
                               queue'[done' + i])
    <2>1. CASE i <= Len(ahead)
        <3>1. i \in 1..Len(ahead) /\ (i # 1 => i - 1 \in 1..Len(ahead)) /\ done' + i = i
            BY <1>1, <1>4, <2>1
        <3>2. ahead[i] = Apply(IF i = 1 THEN disk ELSE ahead[i - 1], queue[i])
            BY <1>1, <3>1 DEF QueueLeadsToView
        <3> QED
            BY <1>1, <1>3, <1>4, <3>1, <3>2
    <2>2. CASE i = Len(ahead) + 1
        <3>1. done' + i = Len(queue) + 1
            BY <1>1, <2>2
        <3>2. CASE i = 1
            BY <1>1, <1>3, <1>4, <1>5, <2>2, <3>1, <3>2
        <3>3. CASE i # 1
            <4>1. Len(ahead) # 0 /\ i - 1 = Len(ahead) /\ Len(ahead) \in 1..Len(ahead)
                BY <1>1, <2>2, <3>3
            <4> QED
                BY <1>1, <1>3, <1>4, <1>5, <2>2, <3>1, <3>3, <4>1
        <3> QED
            BY <3>2, <3>3
    <2> QED
        BY <1>1, <1>4, <2>1, <2>2
<1> QED
    BY <1>6, <1>7 DEF QueueLeadsToView

\* Running the head of the queue takes the file to the first of the databases
\* ahead of it (Model.cpp:59-63).
LEMMA ActionLeads ==
    ASSUME TypeOK, QueueLeadsToView, Action, db
    PROVE  /\ ahead # <<>>
           /\ Len(ahead) = Len(queue) - done
           /\ disk' = ahead[1]
           /\ ahead' = Tail(ahead)
           /\ Len(ahead') = Len(ahead) - 1
           /\ \A i \in 1..Len(ahead') : ahead'[i] = ahead[i + 1]
<1>1. Len(ahead) = Len(queue) - done
    BY DEF QueueLeadsToView
<1>2. Len(ahead) \in Nat /\ Len(ahead) # 0 /\ 1 \in 1..Len(ahead)
    BY <1>1, LenProperties DEF Action, TypeOK
<1>3. ahead # <<>>
    BY <1>2, Empties, Zenon
<1>4. disk' = ahead[1]
    <2>1. ahead[1] = Apply(disk, queue[done + 1])
        BY <1>2 DEF QueueLeadsToView
    <2> QED
        BY <2>1 DEF Action
<1>5. ahead' = Tail(ahead)
    BY DEF Action
<1> QED
    BY <1>1, <1>3, <1>4, <1>5, HeadTailProperties DEF TypeOK

\* The queue goes on leading from the file to what the program believes.
LEMMA LeadsStep ==
    ASSUME TypeOK, QueueLeadsToView, FlushDiscipline, [Step]_vars
    PROVE  QueueLeadsToView'
<1>1. ASSUME NEW s \in Statement, Exce(s)
      PROVE  QueueLeadsToView'
    BY <1>1, PushLeads DEF Exce
<1>2. ASSUME NEW s \in Statement, QueueExce(s)
      PROVE  QueueLeadsToView'
    BY <1>2, PushLeads DEF QueueExce
<1>3. ASSUME ahead' = <<>>,
             \/ queue' = <<>> /\ done' = 0
             \/ pc' = "flush" /\ ~db'
      PROVE  QueueLeadsToView'
    <2>1. Len(ahead') = 0
        BY <1>3
    <2>2. Len(ahead') = IF pc' = "flush" /\ ~db' THEN 0 ELSE Len(queue') - done'
        BY <1>3, <2>1, Empties
    <2> QED
        BY <2>1, <2>2 DEF QueueLeadsToView
<1>4. ASSUME CheckQueue, pc \in {"idle", "exce"}
      PROVE  QueueLeadsToView'
    <2>1. CASE ahead' = <<>> /\ pc' = "flush" /\ ~db'
        BY <1>3, <2>1
    <2>2. CASE ahead' = ahead /\ (pc' # "flush" \/ db')
        BY <1>4, <2>2 DEF CheckQueue, QueueLeadsToView
    <2> QED
        BY <1>4, <2>1, <2>2 DEF CheckQueue
<1>5. CASE Action
    <2>1. CASE db
        <3>1. Len(ahead) \in Nat /\ Len(queue) \in Nat
            BY LenProperties DEF TypeOK
        <3>2. Len(ahead') = Len(queue') - done' /\ db' = db
            BY <1>5, <2>1, <3>1, ActionLeads DEF Action, TypeOK
        <3>3. ASSUME NEW i \in 1..Len(ahead')
              PROVE  ahead'[i] = Apply(IF i = 1 THEN disk' ELSE ahead'[i - 1],
                                       queue'[done' + i])
            <4>1. i + 1 \in 1..Len(ahead) /\ ahead'[i] = ahead[i + 1] /\ i + 1 # 1
                BY <1>5, <2>1, <3>1, ActionLeads
            <4>2. ahead[i + 1] = Apply(ahead[(i + 1) - 1], queue[done + (i + 1)])
                BY <4>1 DEF QueueLeadsToView
            <4>3. (i + 1) - 1 = i /\ done + (i + 1) = done' + i /\ queue' = queue
                BY <1>5 DEF Action, TypeOK
            <4>4. ahead[i] = IF i = 1 THEN disk' ELSE ahead'[i - 1]
                <5>1. CASE i = 1
                    BY <1>5, <2>1, <5>1, ActionLeads
                <5>2. CASE i # 1
                    <6>1. i - 1 \in 1..Len(ahead') /\ (i - 1) + 1 = i
                        BY <3>1, <5>2
                    <6> QED
                        BY <1>5, <2>1, <5>2, <6>1, ActionLeads
                <5> QED
                    BY <5>1, <5>2
            <4> QED
                BY <4>1, <4>2, <4>3, <4>4
        <3> QED
            BY <2>1, <3>2, <3>3 DEF QueueLeadsToView
    <2>2. CASE ~db
        BY <1>5, <2>2 DEF Action, QueueLeadsToView
    <2> QED
        BY <2>1, <2>2
<1>6. CASE EndQueue
    <2>1. Len(ahead) = 0
        BY <1>6, LenProperties DEF EndQueue, QueueLeadsToView, TypeOK
    <2>2. Len(queue') = 0 /\ done' = 0 /\ ahead' = ahead /\ pc' # "flush"
        BY <1>6 DEF EndQueue
    <2> QED
        BY <2>1, <2>2 DEF QueueLeadsToView
<1>7. CASE Detach
    BY <1>7 DEF Detach, QueueLeadsToView
<1>8. CASE Crash
    BY <1>3, <1>8 DEF Crash
<1>9. CASE Setup
    BY <1>3, <1>9 DEF Setup, FlushDiscipline
<1>10. CASE AnyCall
    BY <1>1, <1>2, <1>10 DEF AnyCall
<1>11. CASE UNCHANGED vars
    BY <1>11 DEF vars, QueueLeadsToView
<1> QED
    BY <1>4, <1>5, <1>6, <1>7, <1>8, <1>9, <1>10, <1>11
       DEF Step, MainThread, ExceCheckQueue, TimerUp

-----------------------------------------------------------------------------
(***************************************************************************)
(* The invariant.                                                          *)
(***************************************************************************)

\* The strengthening that is inductive.
IInv == TypeOK /\ PendingIsArmed /\ FlushDiscipline /\ QueueLeadsToView

\* It holds when the program starts.
LEMMA InitInv == Init => IInv
<1> SUFFICES ASSUME Init
             PROVE  IInv
    OBVIOUS
<1>1. TypeOK
    <2>1. disk \in File /\ queue \in Seq(Statement) /\ done \in 0..Len(queue)
        BY FreshType, Empties DEF Init
    <2>2. ahead \in Seq(File) /\ reply \in Seq(File) /\ Len(reply) <= 1
        BY Empties DEF Init
    <2>3. timers \in 0..MaxTimers /\ pc \in {"idle", "exce", "flush", "down"}
        BY DatabaseAssumption DEF Init
    <2>4. db \in BOOLEAN /\ wait_action \in BOOLEAN
        BY DEF Init
    <2> QED
        BY <2>1, <2>2, <2>3, <2>4 DEF TypeOK
<1>2. PendingIsArmed /\ FlushDiscipline
    BY Empties DEF Init, PendingIsArmed, FlushDiscipline
<1>3. QueueLeadsToView
    BY Empties DEF Init, QueueLeadsToView
<1> QED
    BY <1>1, <1>2, <1>3 DEF IInv

\* The inductive invariant holds of the statement queue (Model.cpp,
\* SQLite.cpp).
LEMMA Invariance == Spec => []IInv
<1>1. Init => IInv
    BY InitInv
<1>2. IInv /\ [Next]_vars => IInv'
    BY NextIsStep, TypeStep, ArmedStep, DisciplineStep, LeadsStep DEF IInv
<1> QED
    BY <1>1, <1>2, PTL DEF Spec

\* Type correctness of the statement queue (Model.cpp, SQLite.cpp).
THEOREM TypeCorrect == Spec => []TypeOK
BY Invariance, PTL DEF IInv

\* Whatever the calls, timers, failures and restarts, a statement left in the
\* queue of a running program has a timer that will run it (Model.cpp:47-76).
THEOREM PendingAlwaysArmed == Spec => []PendingIsArmed
BY Invariance, PTL DEF IInv

\* A flush that stops after any item leaves a database the program went
\* through, and no statement is ever run out of order (Model.cpp:54-68).
THEOREM QueueInOrder == Spec => []QueueLeadsToView
BY Invariance, PTL DEF IInv

\* A caller of exce gets an answer that shows everything queued before it, and
\* between two calls no item is half run and the file is closed
\* (Model.cpp:40-68).
THEOREM AnswersComeLast == Spec => []FlushDiscipline
BY Invariance, PTL DEF IInv

-----------------------------------------------------------------------------
(***************************************************************************)
(* What the program promises its callers.                                  *)
(***************************************************************************)

\* No statement brings a deleted row back (SQLite.cpp:423-579).
LEMMA ApplyKeepsDeleted ==
    ASSUME NEW f \in File, NEW s \in Statement, NEW i \in 1..f.seq,
           f.rows[i] = NoRow
    PROVE  Apply(f, s).rows[i] = NoRow
<1> USE DatabaseAssumption DEF File, Statement, Ids
<1>1. CASE s.op = "insert" /\ f.seq < MaxId
    BY <1>1 DEF Apply
<1>2. CASE s.op = "update" /\ s.id \in Ids /\ f.rows[s.id] # NoRow
    BY <1>2 DEF Apply
<1>3. CASE s.op = "delete" /\ s.id \in Ids
    BY <1>3 DEF Apply
<1>4. CASE /\ ~(s.op = "insert" /\ f.seq < MaxId)
           /\ ~(s.op = "update" /\ s.id \in Ids /\ f.rows[s.id] # NoRow)
           /\ ~(s.op = "delete" /\ s.id \in Ids)
    <2>1. Apply(f, s) = f
        BY <1>4 DEF Apply
    <2> QED
        BY <2>1
<1> QED
    BY <1>1, <1>2, <1>3, <1>4

\* A row gone from the file stays gone through updates still queued, row ids
\* handed out later, crashes and restarts (Model.cpp, SQLite.cpp).
THEOREM NoResurrection == Spec => DeletedStaysDeleted
<1>1. ASSUME TypeOK, [Next]_vars
      PROVE  \A i \in 1..disk.seq : disk.rows[i] = NoRow => disk'.rows[i] = NoRow
    <2>1. CASE Action /\ db
        <3>1. queue[done + 1] \in Statement
            <4>1. done + 1 \in 1..Len(queue)
                BY <1>1, <2>1, LenProperties DEF Action, TypeOK
            <4> QED
                BY <1>1, <4>1, ElementOfSeq DEF TypeOK
        <3> QED
            BY <1>1, <2>1, <3>1, ApplyKeepsDeleted DEF Action, TypeOK
    <2>2. CASE ~(Action /\ db)
        <3>1. disk' = disk
            BY <1>1, <2>2 DEF Next, Call, Exce, QueueExce, MainThread, ExceCheckQueue,
               CheckQueue, TimerUp, Action, EndQueue, Detach, Crash, Setup, vars
        <3> QED
            BY <3>1
    <2> QED
        BY <2>1, <2>2
<1>2. TypeOK /\ [Next]_vars
        => [\A i \in 1..disk.seq : disk.rows[i] = NoRow => disk'.rows[i] = NoRow]_vars
    BY <1>1
<1> QED
    BY <1>2, TypeCorrect, PTL DEF Spec, DeletedStaysDeleted

-----------------------------------------------------------------------------
(***************************************************************************)
(* The queue implements the store.                                         *)
(***************************************************************************)

\* The store's history, read off the file and the databases ahead of it.
H == <<disk>> \o ahead

\* The elements of that history.
LEMMA HistoryElements ==
    ASSUME TypeOK
    PROVE  /\ H \in Seq(File)
           /\ Len(H) = Len(ahead) + 1
           /\ H # <<>>
           /\ Head(H) = disk
           /\ H[Len(H)] = View
           /\ \A i \in 1..Len(ahead) : H[i + 1] = ahead[i]
<1>1. /\ <<disk>> \in Seq(File) /\ Len(<<disk>>) = 1 /\ <<disk>>[1] = disk
      /\ ahead \in Seq(File) /\ Len(ahead) \in Nat
    BY LenProperties DEF TypeOK
<1>2. /\ H \in Seq(File)
      /\ Len(H) = Len(ahead) + 1
      /\ \A i \in 1..Len(ahead) + 1 : H[i] = IF i <= 1 THEN disk ELSE ahead[i - 1]
    BY <1>1, ConcatProperties DEF H
<1>3. H[1] = disk /\ \A i \in 1..Len(ahead) : H[i + 1] = ahead[i]
    BY <1>1, <1>2
<1>4. H # <<>> /\ Head(H) = disk
    BY <1>1, <1>2, <1>3
<1>5. H[Len(H)] = View
    <2>1. CASE ahead = <<>>
        BY <1>2, <1>3, <2>1 DEF View
    <2>2. CASE ahead # <<>>
        <3>1. Len(ahead) \in 1..Len(ahead)
            BY <1>1, <2>2, EmptySeq
        <3> QED
            BY <1>2, <1>3, <2>2, <3>1 DEF View
    <2> QED
        BY <2>1, <2>2
<1> QED
    BY <1>2, <1>3, <1>4, <1>5

\* Pushing a statement is one step of the store's history.
LEMMA PushIssues ==
    ASSUME TypeOK, NEW s \in Statement, Push(s), disk' = disk,
           reply' \in {reply, <<>>}
    PROVE  AsStore!Issue
<1>1. Apply(View, s) \in File
    BY ViewType, ApplyType
<1>2. <<disk>> \in Seq(File) /\ <<Apply(View, s)>> \in Seq(File)
    BY <1>1 DEF TypeOK
<1>3. ahead' = ahead \o <<Apply(View, s)>>
    BY <1>1, AppendIsConcat DEF Push, TypeOK
<1>4. <<disk'>> \o ahead' = (<<disk>> \o ahead) \o <<Apply(View, s)>>
    BY <1>2, <1>3, ConcatAssociative DEF TypeOK
<1>5. (<<disk>> \o ahead) \o <<Apply(View, s)>> = Append(<<disk>> \o ahead, Apply(View, s))
    BY <1>1, AppendIsConcat, HistoryElements DEF H
<1> QED
    BY <1>1, <1>4, <1>5 DEF AsStore!Issue

\* Losing what was queued is the store's Forget.
LEMMA LossForgets ==
    ASSUME TypeOK, ahead' = <<>>, disk' = disk, reply' \in {reply, <<>>}
    PROVE  AsStore!Forget
<1>1. <<disk'>> \o ahead' = <<disk>>
    <2>1. <<disk>> \in Seq(File)
        BY DEF TypeOK
    <2> QED
        BY <2>1, ConcatEmptySeq
<1> QED
    BY <1>1, HistoryElements DEF H, AsStore!Forget

\* Running an item is a step of the store, the last one an answer
\* (Model.cpp:59-63, SQLite.cpp:224-261).
LEMMA ActionRefines ==
    ASSUME TypeOK, QueueLeadsToView, FlushDiscipline, Action, db, disk' \in File
    PROVE  AsStore!Execute \/ AsStore!Answer
<1>1. /\ H \in Seq(File) /\ H # <<>> /\ Len(H) = Len(ahead) + 1
      /\ H[2] = ahead[1] /\ Len(ahead) \in Nat /\ Len(ahead) # 0
    <2>1. Len(ahead) \in Nat /\ Len(ahead) # 0
        BY ActionLeads, EmptySeq, LenProperties DEF TypeOK
    <2> QED
        BY <2>1, HistoryElements
<1>2. H' = Tail(H)
    <2>1. Tail(H) \in Seq(File) /\ Len(Tail(H)) = Len(H) - 1
             /\ \A i \in 1..Len(Tail(H)) : Tail(H)[i] = H[i + 1]
        BY <1>1, HeadTailProperties
    <2>2. /\ <<disk'>> \in Seq(File) /\ Len(<<disk'>>) = 1 /\ <<disk'>>[1] = disk'
          /\ ahead' \in Seq(File) /\ Len(ahead') = Len(ahead) - 1
        <3>1. <<disk'>> \in Seq(File) /\ Len(<<disk'>>) = 1 /\ <<disk'>>[1] = disk'
            OBVIOUS
        <3>2. ahead' = Tail(ahead) /\ ahead # <<>> /\ ahead \in Seq(File)
            BY ActionLeads DEF TypeOK
        <3> QED
            BY <3>1, <3>2, HeadTailProperties
    <2>3. /\ H' \in Seq(File)
          /\ Len(H') = Len(ahead') + 1
          /\ \A i \in 1..Len(ahead') + 1 : H'[i] = IF i <= 1 THEN disk' ELSE ahead'[i - 1]
        BY <2>2, ConcatProperties DEF H
    <2>4. Len(H') = Len(Tail(H))
        BY <1>1, <2>1, <2>2, <2>3
    <2>5. ASSUME NEW i \in 1..Len(H')
          PROVE  H'[i] = Tail(H)[i]
        <3>1. Tail(H)[i] = ahead[i]
            <4>1. i \in 1..Len(ahead) /\ i \in 1..Len(Tail(H))
                BY <1>1, <2>1, <2>4
            <4> QED
                BY <2>1, <4>1, HistoryElements
        <3>2. CASE i = 1
            BY <1>1, <2>2, <2>3, <3>1, <3>2, ActionLeads
        <3>3. CASE i # 1
            <4>1. i - 1 \in 1..Len(ahead') /\ (i - 1) + 1 = i /\ ~(i <= 1)
                     /\ i \in 1..Len(ahead') + 1
                BY <1>1, <2>2, <2>3, <3>3
            <4> QED
                BY <2>3, <3>1, <4>1, ActionLeads
        <3> QED
            BY <3>2, <3>3
    <2> QED
        BY <2>1, <2>3, <2>4, <2>5, SeqEqual
<1>3. CASE queue[done + 1].op \notin Answered
    <2>1. reply' = reply
        BY <1>3 DEF Action
    <2>2. Len(H) > 1
        BY <1>1
    <2> QED
        BY <1>2, <2>1, <2>2 DEF AsStore!Execute, H
<1>4. CASE queue[done + 1].op \in Answered
    <2>1. done + 1 \in 1..Len(queue)
        BY LenProperties DEF Action, TypeOK
    <2>2. done + 1 = Len(queue)
        BY <1>4, <2>1 DEF FlushDiscipline
    <2>3. Len(ahead) = 1 /\ Len(H) = 2
        <3>1. Len(ahead) = Len(queue) - done
            BY ActionLeads
        <3> QED
            BY <1>1, <2>2, <3>1 DEF TypeOK
    <2>4. reply' = <<disk'>>
        BY <1>4 DEF Action
    <2>5. disk' = H[Len(H)]
        BY <1>1, <2>3, ActionLeads
    <2>6. H' = <<disk'>>
        <3>1. Len(ahead') = 0 /\ ahead' \in Seq(File)
            BY <2>3, ActionLeads, HeadTailProperties DEF TypeOK
        <3>2. ahead' = <<>>
            BY <3>1, EmptySeq
        <3>3. <<disk'>> \in Seq(File)
            OBVIOUS
        <3> QED
            BY <3>2, <3>3, ConcatEmptySeq DEF H
    <2> QED
        BY <2>3, <2>4, <2>5, <2>6 DEF AsStore!Answer, AsStore!Latest, H
<1> QED
    BY <1>3, <1>4

\* The statement queue implements the store: in the program's eyes every
\* statement applies at once, an answer shows all of them and finds them in
\* the file, and a crash, a detached engine or a file that does not open
\* forgets a suffix of them (Model.cpp:40-85, SQLite.cpp:118-272).
THEOREM Implementation == Spec => ImplementsStore
<1>1. Init => AsStore!Init
    <2> SUFFICES ASSUME Init
                 PROVE  AsStore!Init
        OBVIOUS
    <2>1. <<disk>> \in Seq(File)
        BY FreshType DEF Init
    <2>2. <<disk>> \o ahead = <<Fresh>>
        BY <2>1, ConcatEmptySeq DEF Init
    <2> QED
        BY <2>2 DEF Init, AsStore!Init
<1>2. ASSUME IInv, IInv', [Next]_vars
      PROVE  [AsStore!Next]_(AsStore!vars)
    <2> USE <1>2 DEF IInv
    <2>1. ASSUME NEW s \in Statement, Exce(s)
          PROVE  AsStore!Issue
        BY <2>1, PushIssues DEF Exce
    <2>2. ASSUME NEW s \in Statement, QueueExce(s)
          PROVE  AsStore!Issue
        BY <2>2, PushIssues DEF QueueExce
    <2>3. ASSUME disk' = disk, ahead' = ahead, reply' = reply
          PROVE  UNCHANGED AsStore!vars
        BY <2>3 DEF AsStore!vars
    <2>4. ASSUME CheckQueue
          PROVE  AsStore!Forget \/ UNCHANGED AsStore!vars
        BY <2>3, <2>4, LossForgets DEF CheckQueue
    <2>5. CASE Action
        <3>1. CASE db
            BY <2>5, <3>1, ActionRefines DEF AsStore!Next, TypeOK
        <3>2. CASE ~db
            BY <2>3, <2>5, <3>2 DEF Action
        <3> QED
            BY <3>1, <3>2
    <2>6. CASE EndQueue
        BY <2>3, <2>6 DEF EndQueue
    <2>7. CASE Detach
        BY <2>3, <2>7 DEF Detach
    <2>8. CASE Crash
        BY <2>8, LossForgets DEF Crash, AsStore!Next
    <2>9. CASE Setup
        BY <2>9, LossForgets DEF Setup, AsStore!Next
    <2>10. CASE Call
        <3>1. \A i \in 1..disk.seq : i \in Ids
            BY DatabaseAssumption DEF TypeOK, File, Ids
        <3> QED
            BY <2>1, <2>2, <2>10, <3>1, StatementType DEF Call, AsStore!Next
    <2>11. CASE UNCHANGED vars
        BY <2>3, <2>11 DEF vars
    <2> QED
        BY <1>2, <2>4, <2>5, <2>6, <2>7, <2>8, <2>9, <2>10, <2>11
           DEF Next, MainThread, ExceCheckQueue, TimerUp, AsStore!Next
<1> QED
    BY <1>1, <1>2, Invariance, PTL DEF Spec, ImplementsStore, AsStore!Spec

-----------------------------------------------------------------------------
(***************************************************************************)
(* The settings table: the invariant of module KeyValue.                   *)
(***************************************************************************)

\* A table has one row per key, except for the keys in m, and no row whose id
\* was not given out yet.
Sound(f, m) ==
    /\ \A i, j \in Ids :
          f.rows[i] # NoRow /\ f.rows[j] # NoRow /\ f.rows[i].key = f.rows[j].key
              => i = j \/ f.rows[i].key \in m
    /\ \A i \in Ids : i > f.seq => f.rows[i] = NoRow

\* The file and everything a crash may leave of what is queued are sound.
AllSound == /\ Sound(disk, missed)
            /\ \A i \in 1..Len(ahead) : Sound(ahead[i], missed)

\* The call on the stack sees, once it is answered, the file, and nothing is
\* queued behind its back.
CallSees ==
    call # NoCall =>
        /\ pc # "down"
        /\ pc = "exce" => reply = <<>>
        /\ pc = "flush" /\ reply # <<>> => done = Len(queue) /\ reply = <<disk>>
        /\ pc = "idle" => queue = <<>>
        /\ pc = "idle" /\ reply # <<>> => reply = <<disk>>

\* What the program expects is what it has written.
Believed == pc # "down" => \A k \in Keys : ValueIn(View, k) = expect[k] \/ k \in missed

KVTypeOK == /\ call \in {NoCall} \cup [op : {"get", "set", "insert"}, key : Keys, value : Values]
            /\ expect \in [Keys -> Values]
            /\ missed \subseteq Keys

KVInv == IInv /\ KVTypeOK /\ AllSound /\ CallSees /\ Believed

-----------------------------------------------------------------------------
(***************************************************************************)
(* The rows of a key.                                                      *)
(***************************************************************************)

\* A row that is there has a key and a value.
LEMMA RowType ==
    ASSUME NEW f \in File, NEW i \in Ids, f.rows[i] # NoRow
    PROVE  f.rows[i].key \in Keys /\ f.rows[i].value \in Values
BY KeyValueAssumption DEF File

\* res->get(0) is one of the rows found.
LEMMA FirstRowFound ==
    ASSUME NEW f, NEW k, RowsOf(f, k) # {}
    PROVE  FirstRow(f, k) \in RowsOf(f, k)
<1> DEFINE Less == OpToRel(<, Nat)
<1>0. Less = {ss \in Nat \X Nat : ss[1] < ss[2]}
    BY Zenon DEF OpToRel
<1>1. RowsOf(f, k) \subseteq Nat
    BY DatabaseAssumption DEF RowsOf, Ids
<1>2. IsWellFoundedOn(Less, Nat)
    BY NatLessThanWellFounded
<1> HIDE DEF Less
<1>3. PICK i \in RowsOf(f, k) : \A j \in RowsOf(f, k) : ~(<<j, i>> \in Less)
    BY <1>1, <1>2, WFMin
<1>4. \A j \in RowsOf(f, k) : i <= j
    <2> TAKE j \in RowsOf(f, k)
    <2>1. <<j, i>> \in Nat \X Nat /\ <<j, i>>[1] = j /\ <<j, i>>[2] = i
        BY <1>1
    <2>2. ~(<<j, i>>[1] < <<j, i>>[2])
        BY <1>0, <1>3, <2>1, Zenon
    <2> QED
        BY <1>1, <2>1, <2>2
<1> QED
    BY <1>4 DEF FirstRow

\* The value of a key that is a value.
LEMMA ValueType ==
    ASSUME NEW f \in File, NEW k
    PROVE  ValueIn(f, k) \in Values
BY FirstRowFound, RowType, KeyValueAssumption DEF ValueIn, RowsOf

\* In a sound table a key that was not missed has its value in its only row.
LEMMA OnlyRow ==
    ASSUME NEW f \in File, NEW m, Sound(f, m), NEW k, k \notin m, NEW i \in RowsOf(f, k)
    PROVE  FirstRow(f, k) = i /\ ValueIn(f, k) = f.rows[i].value
<1>1. FirstRow(f, k) \in RowsOf(f, k)
    BY FirstRowFound
<1>2. FirstRow(f, k) = i
    BY <1>1 DEF Sound, RowsOf
<1> QED
    BY <1>2 DEF ValueIn

\* Tables with the same rows for a key have the same value for it.
LEMMA SameRows ==
    ASSUME NEW f, NEW g, NEW k,
           RowsOf(g, k) = RowsOf(f, k),
           \A i \in RowsOf(f, k) : g.rows[i].value = f.rows[i].value
    PROVE  ValueIn(g, k) = ValueIn(f, k)
<1>1. FirstRow(g, k) = FirstRow(f, k)
    BY DEF FirstRow
<1>2. CASE RowsOf(f, k) = {}
    BY <1>2 DEF ValueIn
<1>3. CASE RowsOf(f, k) # {}
    BY <1>1, <1>3, FirstRowFound DEF ValueIn
<1> QED
    BY <1>2, <1>3

\* More missed keys never hurt.
LEMMA SoundMonotonic ==
    ASSUME NEW f, NEW m, NEW n, m \subseteq n, Sound(f, m)
    PROVE  Sound(f, n)
BY DEF Sound

-----------------------------------------------------------------------------
(***************************************************************************)
(* The statements of KeyValue.                                             *)
(***************************************************************************)

\* The query changes nothing.
LEMMA SelectKeeps ==
    ASSUME NEW f
    PROVE  Apply(f, Select) = f
BY DEF Apply, Select

\* set inserts a row for a key that has none, or that was missed.
LEMMA InsertSound ==
    ASSUME NEW f \in File, NEW m, Sound(f, m), NEW k \in Keys, NEW v \in Values,
           f.seq < MaxId, RowsOf(f, k) = {} \/ k \in m
    PROVE  LET g == Apply(f, Insert([key |-> k, value |-> v]))
           IN  /\ Sound(g, m)
               /\ k \notin m => ValueIn(g, k) = v
               /\ \A l \in Keys : l # k => ValueIn(g, l) = ValueIn(f, l)
<1> DEFINE row == [key |-> k, value |-> v]
           g == Apply(f, Insert(row))
           n == f.seq + 1
<1>1. row \in Content /\ row # NoRow /\ row.key = k /\ row.value = v
    BY DatabaseAssumption, KeyValueAssumption
<1>2. n \in Ids /\ f.rows \in [Ids -> Content \cup {NoRow}] /\ f.rows[n] = NoRow
    BY DatabaseAssumption DEF File, Ids, Sound
<1>3. g = [rows |-> [f.rows EXCEPT ![n] = row], seq |-> n]
    BY DEF Apply, Insert
<1> HIDE DEF row
<1>4. g.rows = [f.rows EXCEPT ![n] = row] /\ g.seq = n
    BY <1>3
<1>5. g.rows[n] = row /\ \A i \in Ids : i # n => g.rows[i] = f.rows[i]
    BY <1>2, <1>4
<1>6. g \in File
    BY <1>1, <1>2, <1>3 DEF File, Ids
<1> HIDE DEF g
<1>7. Sound(g, m)
    <2>1. ASSUME NEW i \in Ids, i > g.seq
          PROVE  g.rows[i] = NoRow
        BY <1>2, <1>4, <1>5, <2>1 DEF Sound, File, Ids
    <2>2. ASSUME NEW i \in Ids, NEW j \in Ids, g.rows[i] # NoRow, g.rows[j] # NoRow,
                 g.rows[i].key = g.rows[j].key, i # j
          PROVE  g.rows[i].key \in m
        <3> USE <2>2 DEF RowsOf
        <3>1. CASE i = n
            BY <1>1, <1>5, <3>1
        <3>2. CASE j = n
            BY <1>1, <1>5, <3>2
        <3>3. CASE i # n /\ j # n
            BY <1>5, <3>3 DEF Sound
        <3> QED
            BY <3>1, <3>2, <3>3
    <2> QED
        BY <2>1, <2>2 DEF Sound
<1>8. ASSUME k \notin m
      PROVE  ValueIn(g, k) = v
    <2>1. n \in RowsOf(g, k)
        BY <1>1, <1>2, <1>5 DEF RowsOf
    <2> QED
        BY <1>1, <1>5, <1>6, <1>7, <1>8, <2>1, OnlyRow
<1>9. ASSUME NEW l \in Keys, l # k
      PROVE  ValueIn(g, l) = ValueIn(f, l)
    <2>1. RowsOf(g, l) = RowsOf(f, l)
        BY <1>1, <1>2, <1>5, <1>9 DEF RowsOf
    <2>2. \A i \in RowsOf(f, l) : g.rows[i].value = f.rows[i].value
        BY <1>2, <1>5 DEF RowsOf
    <2> QED
        BY <2>1, <2>2, SameRows
<1> QED
    BY <1>7, <1>8, <1>9 DEF g, row

\* set updates a row of its key.
LEMMA UpdateSound ==
    ASSUME NEW f \in File, NEW m, Sound(f, m), NEW k \in Keys, NEW v \in Values,
           NEW n \in RowsOf(f, k)
    PROVE  LET g == Apply(f, Update(n, [key |-> k, value |-> v]))
           IN  /\ Sound(g, m)
               /\ k \notin m => ValueIn(g, k) = v
               /\ \A l \in Keys : l # k => ValueIn(g, l) = ValueIn(f, l)
<1> DEFINE row == [key |-> k, value |-> v]
           g == Apply(f, Update(n, row))
<1>1. row \in Content /\ row # NoRow /\ row.key = k /\ row.value = v
    BY DatabaseAssumption, KeyValueAssumption
<1>2. /\ n \in Ids /\ f.rows \in [Ids -> Content \cup {NoRow}]
      /\ f.rows[n] # NoRow /\ f.rows[n].key = k
    BY DEF File, RowsOf
<1>3. g = [f EXCEPT !.rows[n] = row]
    BY <1>2 DEF Apply, Update
<1> HIDE DEF row
<1>4. g.rows = [f.rows EXCEPT ![n] = row] /\ g.seq = f.seq
    BY <1>3 DEF File
<1>5. g.rows[n] = row /\ \A i \in Ids : i # n => g.rows[i] = f.rows[i]
    BY <1>2, <1>4
<1>6. g \in File
    BY <1>1, <1>2, <1>3 DEF File
<1> HIDE DEF g
<1>7. Sound(g, m)
    BY <1>1, <1>2, <1>4, <1>5 DEF Sound
<1>8. ASSUME k \notin m
      PROVE  ValueIn(g, k) = v
    <2>1. n \in RowsOf(g, k)
        BY <1>1, <1>2, <1>5 DEF RowsOf
    <2> QED
        BY <1>1, <1>5, <1>6, <1>7, <1>8, <2>1, OnlyRow
<1>9. ASSUME NEW l \in Keys, l # k
      PROVE  ValueIn(g, l) = ValueIn(f, l)
    <2>1. RowsOf(g, l) = RowsOf(f, l)
        BY <1>1, <1>2, <1>5, <1>9 DEF RowsOf
    <2>2. \A i \in RowsOf(f, l) : g.rows[i].value = f.rows[i].value
        BY <1>2, <1>5, <1>9 DEF RowsOf
    <2> QED
        BY <2>1, <2>2, SameRows
<1> QED
    BY <1>7, <1>8, <1>9 DEF g, row

-----------------------------------------------------------------------------
(***************************************************************************)
(* The queue seen from the settings table.                                 *)
(***************************************************************************)

\* What the program believes in is sound.
LEMMA ViewSound ==
    ASSUME TypeOK, AllSound
    PROVE  Sound(View, missed)
<1>1. CASE ahead = <<>>
    BY <1>1 DEF View, AllSound
<1>2. CASE ahead # <<>>
    <2>1. Len(ahead) \in 1..Len(ahead)
        BY <1>2, EmptySeq DEF TypeOK
    <2> QED
        BY <1>2, <2>1 DEF View, AllSound
<1> QED
    BY <1>1, <1>2

\* A statement that is pushed makes the next database the program believes
\* in, behind the ones that were there.
LEMMA PushView ==
    ASSUME TypeOK, NEW s \in Statement, Push(s), disk' = disk
    PROVE  /\ View' = Apply(View, s)
           /\ \A n : /\ \A i \in 1..Len(ahead) : Sound(ahead[i], n)
                    /\ Sound(Apply(View, s), n)
                    => \A i \in 1..Len(ahead') : Sound(ahead'[i], n)
<1>1. Apply(View, s) \in File
    BY ViewType, ApplyType
<1>2. /\ Len(ahead') = Len(ahead) + 1 /\ ahead' # <<>>
      /\ \A i \in 1..Len(ahead) : ahead'[i] = ahead[i]
      /\ ahead'[Len(ahead) + 1] = Apply(View, s)
    BY <1>1, AppendProperties DEF Push, TypeOK
<1>3. Len(ahead) \in Nat
    BY LenProperties DEF TypeOK
<1>4. View' = Apply(View, s)
    BY <1>2 DEF View
<1>5. \A i \in 1..Len(ahead') : i \in 1..Len(ahead) \/ i = Len(ahead) + 1
    BY <1>2, <1>3
<1> QED
    BY <1>2, <1>4, <1>5

\* Running an item leaves what the program believes in as it is.
LEMMA ActionView ==
    ASSUME TypeOK, QueueLeadsToView, AllSound, Action, missed' = missed
    PROVE  View' = View /\ AllSound'
<1>1. CASE ~db
    BY <1>1 DEF Action, View, AllSound
<1>2. CASE db
    <2>1. /\ ahead # <<>> /\ disk' = ahead[1] /\ Len(ahead') = Len(ahead) - 1
          /\ ahead' = Tail(ahead)
          /\ \A i \in 1..Len(ahead') : ahead'[i] = ahead[i + 1]
        BY <1>2, ActionLeads
    <2>2. Len(ahead) \in Nat /\ Len(ahead) # 0 /\ ahead' \in Seq(File)
        BY <2>1, EmptySeq, LenProperties, HeadTailProperties DEF TypeOK
    <2>3. AllSound'
        <3>1. 1 \in 1..Len(ahead) /\ \A i \in 1..Len(ahead') : i + 1 \in 1..Len(ahead)
            BY <2>1, <2>2
        <3> QED
            BY <2>1, <3>1 DEF AllSound
    <2>4. CASE Len(ahead) = 1
        <3>1. ahead' = <<>>
            BY <2>1, <2>2, <2>4, EmptySeq
        <3> QED
            BY <2>1, <2>3, <2>4, <3>1 DEF View
    <2>5. CASE Len(ahead) # 1
        <3>1. Len(ahead') \in 1..Len(ahead') /\ Len(ahead') + 1 = Len(ahead)
            BY <2>1, <2>2, <2>5
        <3>2. ahead' # <<>>
            BY <3>1, Empties
        <3> QED
            BY <2>1, <2>3, <3>1, <3>2 DEF View
    <2> QED
        BY <2>4, <2>5
<1> QED
    BY <1>1, <1>2

\* When a call goes on after its query, the file is all there is.
LEMMA CallView ==
    ASSUME KVInv, call # NoCall, pc = "idle"
    PROVE  /\ queue = <<>> /\ ahead = <<>> /\ View = disk
           /\ reply # <<>> => reply[1] = disk
<1>1. queue = <<>> /\ done = 0 /\ (reply # <<>> => reply = <<disk>>)
    BY DEF KVInv, CallSees, IInv, FlushDiscipline
<1>2. Len(ahead) = 0
    BY <1>1 DEF KVInv, IInv, QueueLeadsToView
<1>3. ahead = <<>>
    BY <1>2, EmptySeq DEF KVInv, IInv, TypeOK
<1> QED
    BY <1>1, <1>3 DEF View

\* The row a call found is a row of its key in the file.
LEMMA FoundIsRow ==
    ASSUME KVInv, call # NoCall, pc = "idle"
    PROVE  /\ Found # 0 => Found \in RowsOf(disk, call.key) /\ reply[1] = disk
           /\ Found = 0 => reply = <<>> \/ RowsOf(disk, call.key) = {}
<1>1. CASE reply = <<>>
    BY <1>1 DEF Found
<1>2. CASE reply # <<>>
    <2>1. reply[1] = disk
        BY <1>2, CallView
    <2>2. CASE RowsOf(disk, call.key) = {}
        BY <1>2, <2>1, <2>2 DEF Found
    <2>3. CASE RowsOf(disk, call.key) # {}
        <3>1. Found = FirstRow(disk, call.key) /\ Found \in RowsOf(disk, call.key)
            BY <1>2, <2>1, <2>3, FirstRowFound DEF Found
        <3>2. 0 \notin RowsOf(disk, call.key)
            BY DatabaseAssumption DEF RowsOf, Ids
        <3> QED
            BY <2>1, <3>1, <3>2
    <2> QED
        BY <2>2, <2>3
<1> QED
    BY <1>1, <1>2

\* What a caller expects after it has set a key.
LEMMA SetBelieved ==
    ASSUME KVTypeOK, NEW k \in Keys, NEW v,
           expect' = [expect EXCEPT ![k] = v], missed \subseteq missed',
           \A l \in Keys : ValueIn(View, l) = expect[l] \/ l \in missed,
           k \notin missed' => ValueIn(View', k) = v,
           \A l \in Keys : l # k => ValueIn(View', l) = ValueIn(View, l)
    PROVE  Believed'
<1>1. \A l \in Keys : ValueIn(View', l) = expect'[l] \/ l \in missed'
    BY DEF KVTypeOK
<1> QED
    BY <1>1 DEF Believed

\* KeyValue::set after its query.
LEMMA SetSaveStep ==
    ASSUME KVInv, SetSave
    PROVE  [Step]_vars /\ KVTypeOK' /\ AllSound' /\ CallSees' /\ Believed'
<1> DEFINE k == call.key
           v == call.value
           row == [key |-> k, value |-> v]
<1>1. /\ call # NoCall /\ k \in Keys /\ v \in Values /\ pc = "idle"
      /\ call \in [op : {"get", "set", "insert"}, key : Keys, value : Values]
    <2>1. call.op = "set" /\ pc = "idle"
        BY DEF SetSave, QueueExce, Exce
    <2>2. call # NoCall
        BY <2>1 DEF NoCall
    <2> QED
        BY <2>1, <2>2 DEF KVInv, KVTypeOK
<1>2. /\ queue = <<>> /\ ahead = <<>> /\ View = disk /\ (reply # <<>> => reply[1] = disk)
      /\ disk \in File /\ Sound(disk, missed)
    BY <1>1, CallView DEF KVInv, IInv, TypeOK, AllSound
<1>3. /\ expect' = [expect EXCEPT ![k] = v]
      /\ missed' = IF reply = <<>> THEN missed \cup {k} ELSE missed
      /\ missed \subseteq missed' /\ missed' \subseteq Keys
      /\ Sound(disk, missed')
    <2>1. /\ expect' = [expect EXCEPT ![k] = v]
          /\ missed' = IF reply = <<>> THEN missed \cup {k} ELSE missed
        BY DEF SetSave
    <2>2. missed \subseteq missed' /\ missed' \subseteq Keys
        BY <1>1, <2>1 DEF KVInv, KVTypeOK
    <2> QED
        BY <1>2, <2>1, <2>2, SoundMonotonic
<1>4. expect' \in [Keys -> Values]
    BY <1>1, <1>3 DEF KVInv, KVTypeOK
<1>5. \A l \in Keys : ValueIn(View, l) = expect[l] \/ l \in missed
    BY <1>1 DEF KVInv, Believed
<1>6. row \in Content
    BY <1>1, KeyValueAssumption
<1> HIDE DEF k, v, row
<1>7. CASE /\ Found # 0
           /\ QueueExce(Update(Found, row))
           /\ call' = NoCall
    <2>1. Found \in RowsOf(disk, k) /\ reply # <<>>
        BY <1>1, <1>7, FoundIsRow DEF k, Found
    <2>2. Found \in Ids /\ Update(Found, row) \in Statement /\ missed' = missed
        BY <1>3, <1>6, <2>1, StatementType DEF RowsOf
    <2>3. Push(Update(Found, row)) /\ disk' = disk
        BY <1>7 DEF QueueExce
    <2>4. /\ Sound(Apply(disk, Update(Found, row)), missed)
          /\ k \notin missed => ValueIn(Apply(disk, Update(Found, row)), k) = v
          /\ \A l \in Keys : l # k =>
                ValueIn(Apply(disk, Update(Found, row)), l) = ValueIn(disk, l)
        BY <1>1, <1>2, <2>1, UpdateSound DEF row
    <2>5. View' = Apply(disk, Update(Found, row))
        BY <1>2, <2>2, <2>3, PushView DEF KVInv, IInv
    <2>6. AllSound'
        BY <1>2, <2>2, <2>3, <2>4, PushView DEF KVInv, IInv, AllSound
    <2>7. Believed'
        BY <1>1, <1>2, <1>3, <1>5, <2>2, <2>4, <2>5, SetBelieved DEF KVInv
    <2>8. Step
        <3>1. Update(Found, row).op \notin Answered
            BY DEF Update, Answered
        <3> QED
            BY <1>7, <2>2, <3>1 DEF Step, AnyCall
    <2> QED
        BY <1>3, <1>4, <1>7, <2>6, <2>7, <2>8 DEF KVTypeOK, CallSees
<1>8. CASE /\ Found # 0
           /\ reply[1].rows[Found].value = v
           /\ call' = NoCall
           /\ UNCHANGED vars
    <2>1. Found \in RowsOf(disk, k) /\ reply[1] = disk /\ reply # <<>>
        BY <1>1, <1>8, FoundIsRow DEF k, Found
    <2>2. missed' = missed /\ UNCHANGED <<disk, ahead, View>>
        BY <1>3, <1>8, <2>1 DEF vars, View
    <2>3. k \notin missed' => ValueIn(View', k) = v
        BY <1>2, <1>8, <2>1, <2>2, OnlyRow
    <2>4. Believed'
        BY <1>1, <1>3, <1>5, <2>2, <2>3, SetBelieved DEF KVInv
    <2>5. AllSound'
        BY <2>2 DEF KVInv, AllSound
    <2> QED
        BY <1>3, <1>4, <1>8, <2>4, <2>5 DEF KVTypeOK, CallSees
<1>9. CASE /\ Found = 0
           /\ View.seq < MaxId
           /\ Exce(Insert(row))
           /\ call' = [call EXCEPT !.op = "insert"]
    <2>1. RowsOf(disk, k) = {} \/ k \in missed'
        BY <1>1, <1>3, <1>9, FoundIsRow DEF k
    <2>2. Insert(row) \in Statement
        BY <1>6, StatementType
    <2>3. Push(Insert(row)) /\ disk' = disk /\ pc' = "exce" /\ reply' = <<>>
        BY <1>9 DEF Exce
    <2>4. /\ Sound(Apply(disk, Insert(row)), missed')
          /\ k \notin missed' => ValueIn(Apply(disk, Insert(row)), k) = v
          /\ \A l \in Keys : l # k => ValueIn(Apply(disk, Insert(row)), l) = ValueIn(disk, l)
        BY <1>1, <1>2, <1>3, <1>9, <2>1, InsertSound DEF row
    <2>5. View' = Apply(disk, Insert(row))
        BY <1>2, <2>2, <2>3, PushView DEF KVInv, IInv
    <2>6. AllSound'
        <3>1. \A i \in 1..Len(ahead) : Sound(ahead[i], missed')
            BY <1>2, Empties
        <3>2. \A i \in 1..Len(ahead') : Sound(ahead'[i], missed')
            BY <1>2, <2>2, <2>3, <2>4, <3>1, PushView DEF KVInv, IInv
        <3> QED
            BY <1>3, <2>3, <3>2 DEF AllSound
    <2>7. Believed'
        BY <1>1, <1>2, <1>3, <1>5, <2>4, <2>5, SetBelieved DEF KVInv
    <2>8. Step
        BY <1>9, <2>2 DEF Step, AnyCall
    <2>9. KVTypeOK'
        BY <1>1, <1>3, <1>4, <1>9 DEF KVTypeOK
    <2> QED
        BY <2>3, <2>6, <2>7, <2>8, <2>9 DEF CallSees
<1> QED
    BY <1>1, <1>7, <1>8, <1>9 DEF SetSave, k, v, row

\* KeyValue::get and set up to their query.
LEMMA QueryStep ==
    ASSUME KVInv, call = NoCall, Exce(Select),
           call' \in [op : {"get", "set", "insert"}, key : Keys, value : Values],
           UNCHANGED <<expect, missed>>
    PROVE  [Step]_vars /\ KVTypeOK' /\ AllSound' /\ CallSees' /\ Believed'
<1>1. Push(Select) /\ disk' = disk /\ pc = "idle" /\ pc' = "exce" /\ reply' = <<>>
    BY DEF Exce
<1>2. Select \in Statement
    BY StatementType
<1>3. View' = View /\ Apply(View, Select) = View
    BY <1>1, <1>2, PushView, SelectKeeps DEF KVInv, IInv
<1>4. AllSound'
    BY <1>1, <1>2, <1>3, PushView, ViewSound DEF KVInv, IInv, AllSound
<1>5. Believed'
    BY <1>1, <1>3 DEF KVInv, Believed
<1>6. Step
    BY <1>2 DEF Step, AnyCall
<1> QED
    BY <1>1, <1>4, <1>5, <1>6 DEF KVInv, KVTypeOK, CallSees

\* What a check of the queue leaves: with the file open nothing has changed,
\* and without it the program falls back on the file.
LEMMA CheckStep ==
    ASSUME KVInv, CheckQueue, Expect, pc \in {"idle", "exce"}, UNCHANGED <<call, missed>>,
           pc = "idle" => call = NoCall
    PROVE  KVTypeOK' /\ AllSound' /\ CallSees' /\ Believed'
<1>1. /\ disk' = disk /\ queue' = queue /\ done' = done /\ reply' = reply
      /\ pc' \in {"idle", "flush"} /\ (pc' = "idle" => queue = <<>>)
    BY DEF CheckQueue
<1>2. /\ disk \in File
      /\ \A k \in Keys : ValueIn(disk, k) \in Values
    BY ValueType DEF KVInv, IInv, TypeOK
<1>3. CallSees'
    <2> SUFFICES ASSUME call' # NoCall
                 PROVE  CallSees'
        BY DEF CallSees
    <2>1. pc = "exce" /\ reply = <<>>
        BY DEF KVInv, CallSees
    <2> QED
        BY <1>1, <2>1 DEF CallSees
<1>4. CASE pc' = "flush" /\ ~db'
    <2>1. expect' = [k \in Keys |-> ValueIn(disk, k)] /\ ahead' = <<>>
        BY <1>4 DEF Expect, CheckQueue
    <2>2. View' = disk
        BY <1>1, <2>1 DEF View
    <2>3. AllSound'
        BY <1>1, <2>1, Empties DEF KVInv, AllSound
    <2>4. Believed'
        BY <2>1, <2>2 DEF Believed
    <2> QED
        BY <1>2, <1>3, <2>1, <2>3, <2>4 DEF KVInv, KVTypeOK
<1>5. CASE ~(pc' = "flush" /\ ~db')
    <2>1. expect' = expect /\ ahead' = ahead
        BY <1>5 DEF Expect, CheckQueue
    <2> QED
        BY <1>1, <1>3, <2>1 DEF KVInv, KVTypeOK, AllSound, Believed, View
<1> QED
    BY <1>4, <1>5

\* The inductive invariant of the settings table over the statement queue.
LEMMA KVInvariance == KVSpec => []KVInv
<1>1. KVInit => KVInv
    <2> SUFFICES ASSUME KVInit
                 PROVE  KVInv
        OBVIOUS
    <2>1. IInv
        BY InitInv DEF KVInit
    <2>2. disk = Fresh /\ ahead = <<>> /\ View = Fresh
        BY DEF KVInit, Init, View
    <2>3. \A i \in Ids : Fresh.rows[i] = NoRow
        BY DEF Fresh
    <2>4. Sound(Fresh, missed) /\ \A k \in Keys : ValueIn(Fresh, k) = Empty
        BY <2>3 DEF Sound, ValueIn, RowsOf
    <2>5. AllSound
        BY <2>2, <2>4, Empties DEF AllSound
    <2>6. Believed
        BY <2>2, <2>4 DEF Believed, KVInit
    <2> QED
        BY <2>1, <2>5, <2>6, KeyValueAssumption DEF KVInv, KVInit, KVTypeOK, CallSees
<1>2. ASSUME KVInv, [KVNext]_kvVars
      PROVE  KVInv'
    <2> USE <1>2
    <2> SUFFICES [Step]_vars /\ KVTypeOK' /\ AllSound' /\ CallSees' /\ Believed'
        BY TypeStep, ArmedStep, DisciplineStep, LeadsStep DEF KVInv, IInv
    <2>1. ASSUME NEW k \in Keys, Get(k)
          PROVE  [Step]_vars /\ KVTypeOK' /\ AllSound' /\ CallSees' /\ Believed'
        BY <2>1, QueryStep, KeyValueAssumption DEF Get, InCall
    <2>2. ASSUME NEW k \in Keys, NEW v \in Values, Set(k, v)
          PROVE  [Step]_vars /\ KVTypeOK' /\ AllSound' /\ CallSees' /\ Believed'
        BY <2>2, QueryStep DEF Set, InCall
    <2>3. CASE GetReturn \/ InsertReturn
        <3>1. UNCHANGED vars /\ UNCHANGED <<expect, missed>> /\ call' = NoCall
            BY <2>3 DEF GetReturn, InsertReturn
        <3>2. UNCHANGED <<disk, ahead, pc, View>>
            BY <3>1 DEF vars, View
        <3> QED
            BY <3>1, <3>2 DEF KVInv, KVTypeOK, AllSound, CallSees, Believed
    <2>4. CASE SetSave
        BY <2>4, SetSaveStep
    <2>5. CASE KVMainThread
        <3>1. MainThread /\ Expect /\ UNCHANGED <<call, missed>>
            BY <2>5 DEF KVMainThread
        <3>2. CASE ExceCheckQueue
            BY <3>1, <3>2, CheckStep DEF ExceCheckQueue, Step
        <3>3. CASE Action
            <4>1. View' = View /\ AllSound' /\ pc = "flush" /\ pc' = "flush" /\ expect' = expect
                BY <3>1, <3>3, ActionView DEF KVInv, IInv, Action, Expect
            <4>2. CallSees'
                <5> SUFFICES ASSUME call' # NoCall, reply' # <<>>
                             PROVE  done' = Len(queue') /\ reply' = <<disk'>>
                    BY <4>1 DEF CallSees
                <5>1. reply = <<>>
                    BY <3>1, <3>3, <4>1 DEF KVInv, CallSees, Action, IInv, TypeOK
                <5>2. db /\ queue[done + 1].op \in Answered /\ reply' = <<disk'>>
                    BY <3>3, <5>1 DEF Action
                <5>3. done + 1 \in 1..Len(queue) /\ done' = done + 1 /\ queue' = queue
                    BY <3>3, LenProperties DEF Action, KVInv, IInv, TypeOK
                <5> QED
                    BY <5>2, <5>3 DEF KVInv, IInv, FlushDiscipline
            <4> QED
                BY <3>1, <3>3, <4>1, <4>2 DEF KVInv, KVTypeOK, Believed, Step, MainThread
        <3>4. CASE EndQueue
            <4>1. /\ UNCHANGED <<disk, ahead, reply, View>> /\ pc = "flush" /\ pc' = "idle"
                  /\ queue' = <<>> /\ expect' = expect
                BY <3>1, <3>4 DEF EndQueue, View, Expect
            <4> QED
                BY <3>1, <3>4, <4>1
                   DEF KVInv, KVTypeOK, AllSound, CallSees, Believed, Step, MainThread
        <3> QED
            BY <3>1, <3>2, <3>3, <3>4 DEF MainThread
    <2>6. CASE KVTimerUp
        BY <2>6, CheckStep DEF KVTimerUp, TimerUp, Step
    <2>7. CASE KVDetach
        <3>1. /\ call = NoCall /\ Detach /\ UNCHANGED <<call, expect, missed>>
              /\ disk' = disk /\ ahead' = ahead /\ pc' = "down"
            BY <2>7 DEF KVDetach, Detach
        <3> QED
            BY <3>1 DEF KVInv, KVTypeOK, AllSound, CallSees, Believed, Step
    <2>8. CASE KVCrash
        <3>1. /\ Crash /\ call' = NoCall /\ UNCHANGED <<expect, missed>>
              /\ disk' = disk /\ ahead' = <<>> /\ pc' = "down"
            BY <2>8 DEF KVCrash, Crash
        <3> QED
            BY <3>1, Empties DEF KVInv, KVTypeOK, AllSound, CallSees, Believed, Step
    <2>9. CASE KVSetup
        <3>1. /\ Setup /\ UNCHANGED <<call, missed>> /\ disk' = disk /\ ahead' = <<>>
              /\ expect' = [k \in Keys |-> ValueIn(disk, k)] /\ pc = "down"
            BY <2>9 DEF KVSetup, Setup
        <3>2. call = NoCall /\ View' = disk
            BY <3>1 DEF KVInv, CallSees, View
        <3>3. expect' \in [Keys -> Values]
            BY <3>1, ValueType DEF KVInv, IInv, TypeOK
        <3> QED
            BY <3>1, <3>2, <3>3, Empties DEF KVInv, KVTypeOK, AllSound, CallSees, Believed, Step
    <2>10. CASE UNCHANGED kvVars
        <3>1. UNCHANGED vars /\ UNCHANGED <<call, expect, missed>>
            BY <2>10 DEF kvVars
        <3>2. UNCHANGED <<disk, queue, done, ahead, pc, reply, View>>
            BY <3>1 DEF vars, View
        <3> QED
            BY <3>1, <3>2 DEF KVInv, KVTypeOK, AllSound, CallSees, Believed
    <2> QED
        BY <2>1, <2>2, <2>3, <2>4, <2>5, <2>6, <2>7, <2>8, <2>9, <2>10
           DEF KVNext, KVCalls, KVReturns
<1> QED
    BY <1>1, <1>2, PTL DEF KVSpec

\* KeyValue::set never gives a key a second row, in the file or in anything a
\* crash may leave, but for a set whose query found the file closed.
THEOREM KeysStayUnique == KVSpec => []OneRowPerKey
<1>1. KVInv => OneRowPerKey
    BY DEF KVInv, AllSound, Sound, OneRowPerKey
<1> QED
    BY <1>1, KVInvariance, PTL

\* KeyValue::get returns the last value set, however much of it is queued.
THEOREM GetsReadSets == KVSpec => []GetReturnsLastSet
<1>1. ASSUME KVInv, call.op = "get", pc = "idle", reply # <<>>, call.key \notin missed
      PROVE  Got = expect[call.key]
    <2>1. call # NoCall
        BY <1>1 DEF NoCall
    <2>2. call.key \in Keys /\ reply[1] = disk /\ View = disk
        BY <1>1, <2>1, CallView DEF KVInv, KVTypeOK
    <2>3. ValueIn(disk, call.key) = expect[call.key]
        BY <1>1, <2>2 DEF KVInv, Believed
    <2>4. CASE Found = 0
        BY <1>1, <2>1, <2>3, <2>4, FoundIsRow DEF Got, ValueIn
    <2>5. CASE Found # 0
        BY <1>1, <2>1, <2>2, <2>3, <2>5, FoundIsRow, OnlyRow
           DEF Got, KVInv, AllSound, IInv, TypeOK
    <2> QED
        BY <2>4, <2>5
<1>2. KVInv => GetReturnsLastSet
    BY <1>1 DEF GetReturnsLastSet
<1> QED
    BY <1>2, KVInvariance, PTL

=============================================================================
