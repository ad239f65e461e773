---------------------------- MODULE SchemaProofs ----------------------------
(***************************************************************************)
(* What a start of the program finds and leaves: the properties of module  *)
(* Schema for any number of releases, rows and deaths.  The invariant says *)
(* where processTable is by the statements still waiting, and what each    *)
(* such place knows of the table, its TEMP_ copy and the version row.      *)
(***************************************************************************)
EXTENDS Schema, SequenceTheorems, TLAPS

-----------------------------------------------------------------------------
(***************************************************************************)
(* The inductive invariant.                                                *)
(***************************************************************************)

\* The statements of processTable and of SaveRow.
CreateInfo == [op |-> "createInfo"]
GetInfo == [op |-> "getInfo"]
Rename == [op |-> "rename"]
Create == [op |-> "create", v |-> app]
InsertVer == [op |-> "insertVer", v |-> app]
UpdateVer == [op |-> "updateVer", v |-> app]
Copy == [op |-> "copy"]
Drop == [op |-> "drop"]
Insert == [op |-> "insert", v |-> app, row |-> rows]

Table == [cols : Nat, rows : SUBSET Nat]

\* The version on file, as getInfo reads it.
Ver == IF vers = <<>> THEN 0 ELSE vers[1]

Types ==
    /\ main \in Table /\ temp \in Table
    /\ main.cols = 0 => main = NoTable
    /\ rows \in Nat /\ deaths \in Nat /\ old \in Nat
    /\ app \in Nat /\ app > 0

\* The version row is that of a release that has run, and there is one at most.
VersOK ==
    /\ vers = <<>> \/ \E w \in 1..app : vers = <<w>>
    /\ vers # <<>> => info

\* No upgrade to this release is half done, or it is and nothing of the old
\* table is in the way.
Half == old = 0 => main = NoTable \/ main.cols = app
Made == old = 0 => main.cols = app
DiskOK ==
    /\ Half \/ temp = NoTable
    /\ Ver = app => Made
    /\ deaths = 0 => old = 0
    /\ deaths = 0 /\ app = 1 => temp = NoTable

\* Between upgrades: a TEMP_ table, or a table with no version row, is what a
\* death has left.
Rest ==
    /\ deaths = 0 => temp = NoTable
    /\ deaths = 0 /\ app = 1 /\ Ver # app => main = NoTable

\* The first release has rows only in a table whose version is saved.
RowsOK ==
    app = 1 => temp.rows = {} /\ (main.rows # {} => Ver = app)

\* Where processTable is.
Down == pc = "down" /\ queue = <<>> /\ open = "no" /\ Rest
Checking ==
    /\ pc = "checkUpdate" /\ Rest
    /\ \/ queue = <<CreateInfo, GetInfo>> /\ open = "yes"
       \/ queue = <<GetInfo>> /\ open = "yes" /\ info
       \/ queue = <<>> /\ open \in {"no", "yes"} /\ info /\ seen = Ver
Upgrading ==
    /\ pc = "afterUpdate" /\ info /\ Ver # app
    /\ \/ queue = <<Rename, Create, GetInfo>> /\ open = "yes" /\ Rest
       \/ queue = <<Create, GetInfo>> /\ open = "yes" /\ Half
       \/ queue = <<GetInfo>> /\ open = "yes" /\ Made
       \/ queue = <<>> /\ open \in {"no", "yes"} /\ Made /\ seen = Ver
Saving ==
    /\ pc = "version" /\ info /\ Made
    /\ \/ queue = <<InsertVer>> /\ open = "yes" /\ vers = <<>>
       \/ queue = <<UpdateVer>> /\ open = "no" /\ vers # <<>> /\ Ver # app
       \/ queue = <<>> /\ open \in {"no", "yes"} /\ Ver = app

\* The queue is q, or q and then the row that is being saved.
Waits(q, qi) == \/ queue = q /\ open \in {"no", "yes"}
                \/ queue = qi /\ open = "yes"
Ready ==
    /\ pc = "ready"
    /\ \/ /\ Waits(<<Create>>, <<Create, Insert>>)
          /\ Ver = app /\ Rest
       \/ /\ Waits(<<UpdateVer, Copy, Drop>>, <<UpdateVer, Copy, Drop, Insert>>)
          /\ vers # <<>> /\ Ver # app /\ Made
       \/ /\ Waits(<<Copy, Drop>>, <<Copy, Drop, Insert>>)
          /\ Ver = app
       \/ /\ Waits(<<Drop>>, <<Drop, Insert>>) /\ open = "yes"
          /\ Ver = app
       \/ /\ Waits(<<>>, <<Insert>>)
          /\ Ver = app /\ Rest
Locked == Stuck /\ temp # NoTable /\ open = "yes"

Stage == Down \/ Checking \/ Upgrading \/ Saving \/ Ready \/ Locked

Good == Types /\ VersOK /\ DiskOK /\ RowsOK /\ Stage
IInv == opens \in Nat /\ (Opened => Good)

-----------------------------------------------------------------------------
(***************************************************************************)
(* Short sequences.                                                        *)
(***************************************************************************)

\* Taking the next statement off a queue of up to four.
LEMMA HeadTail ==
    ASSUME NEW a, NEW b, NEW c, NEW d
    PROVE  /\ Head(<<a>>) = a /\ Tail(<<a>>) = <<>>
           /\ Head(<<a, b>>) = a /\ Tail(<<a, b>>) = <<b>>
           /\ Head(<<a, b, c>>) = a /\ Tail(<<a, b, c>>) = <<b, c>>
           /\ Head(<<a, b, c, d>>) = a /\ Tail(<<a, b, c, d>>) = <<b, c, d>>
OBVIOUS

\* A sequence is the concatenation of two when it has their elements.
LEMMA Joined ==
    ASSUME NEW S, NEW s \in Seq(S), NEW t \in Seq(S), NEW u \in Seq(S),
           Len(u) = Len(s) + Len(t),
           \A i \in 1..Len(u) : u[i] = IF i <= Len(s) THEN s[i] ELSE t[i - Len(s)]
    PROVE  s \o t = u
<1>1. /\ s \o t \in Seq(S)
      /\ Len(s \o t) = Len(u)
      /\ \A i \in 1..Len(u) : (s \o t)[i] = u[i]
  BY ConcatProperties
<1>. QED
  BY <1>1, SeqEqual

\* Queueing statements behind what waits already.
LEMMA Concat ==
    ASSUME NEW a, NEW b, NEW c
    PROVE  /\ <<>> \o <<>> = <<>>
           /\ <<>> \o <<a>> = <<a>>
           /\ <<>> \o <<a, b>> = <<a, b>>
           /\ <<>> \o <<a, b, c>> = <<a, b, c>>
           /\ <<a>> \o <<>> = <<a>>
           /\ <<a, b>> \o <<>> = <<a, b>>
           /\ <<a, b, c>> \o <<>> = <<a, b, c>>
           /\ <<a>> \o <<b>> = <<a, b>>
           /\ <<a, b>> \o <<c>> = <<a, b, c>>
           /\ <<a>> \o <<b, c>> = <<a, b, c>>
<1>1. <<>> \o <<>> = <<>>
  OBVIOUS
<1>2. <<>> \o <<a>> = <<a>>
  OBVIOUS
<1>3. <<>> \o <<a, b>> = <<a, b>>
  OBVIOUS
<1>4. <<>> \o <<a, b, c>> = <<a, b, c>>
  OBVIOUS
<1>5. <<a>> \o <<>> = <<a>>
  OBVIOUS
<1>6. <<a, b>> \o <<>> = <<a, b>>
  OBVIOUS
<1>7. <<a, b, c>> \o <<>> = <<a, b, c>>
  OBVIOUS
<1>8. <<a>> \o <<b>> = <<a, b>>
  <2>1. /\ <<a>> \in Seq({a, b, c}) /\ <<b>> \in Seq({a, b, c})
        /\ <<a, b>> \in Seq({a, b, c})
    OBVIOUS
  <2>2. Len(<<a, b>>) = Len(<<a>>) + Len(<<b>>)
    OBVIOUS
  <2>3. \A i \in 1..Len(<<a, b>>) :
            <<a, b>>[i] = IF i <= Len(<<a>>) THEN <<a>>[i] ELSE <<b>>[i - Len(<<a>>)]
    OBVIOUS
  <2>. QED
    BY <2>1, <2>2, <2>3, Joined
<1>9. <<a, b>> \o <<c>> = <<a, b, c>>
  <2>1. /\ <<a, b>> \in Seq({a, b, c}) /\ <<c>> \in Seq({a, b, c})
        /\ <<a, b, c>> \in Seq({a, b, c})
    OBVIOUS
  <2>2. Len(<<a, b, c>>) = Len(<<a, b>>) + Len(<<c>>)
    OBVIOUS
  <2>3. \A i \in 1..Len(<<a, b, c>>) :
            <<a, b, c>>[i] = IF i <= Len(<<a, b>>) THEN <<a, b>>[i] ELSE <<c>>[i - Len(<<a, b>>)]
    OBVIOUS
  <2>. QED
    BY <2>1, <2>2, <2>3, Joined
<1>10. <<a>> \o <<b, c>> = <<a, b, c>>
  <2>1. /\ <<a>> \in Seq({a, b, c}) /\ <<b, c>> \in Seq({a, b, c})
        /\ <<a, b, c>> \in Seq({a, b, c})
    OBVIOUS
  <2>2. Len(<<a, b, c>>) = Len(<<a>>) + Len(<<b, c>>)
    OBVIOUS
  <2>3. \A i \in 1..Len(<<a, b, c>>) :
            <<a, b, c>>[i] = IF i <= Len(<<a>>) THEN <<a>>[i] ELSE <<b, c>>[i - Len(<<a>>)]
    OBVIOUS
  <2>. QED
    BY <2>1, <2>2, <2>3, Joined
<1>. QED
  BY <1>1, <1>2, <1>3, <1>4, <1>5, <1>6, <1>7, <1>8, <1>9, <1>10

\* The longest queue there is.
LEMMA ConcatFour ==
    ASSUME NEW a, NEW b, NEW c, NEW d
    PROVE  <<a, b, c>> \o <<d>> = <<a, b, c, d>>
<1>1. /\ <<a, b, c>> \in Seq({a, b, c, d}) /\ <<d>> \in Seq({a, b, c, d})
      /\ <<a, b, c, d>> \in Seq({a, b, c, d})
  OBVIOUS
<1>2. Len(<<a, b, c, d>>) = Len(<<a, b, c>>) + Len(<<d>>)
  OBVIOUS
<1>3. \A i \in 1..Len(<<a, b, c, d>>) :
          <<a, b, c, d>>[i] = IF i <= Len(<<a, b, c>>) THEN <<a, b, c>>[i] ELSE <<d>>[i - Len(<<a, b, c>>)]
  OBVIOUS
<1>. QED
  BY <1>1, <1>2, <1>3, Joined

\* A queue that holds a statement is not empty.
LEMMA NotEmpty ==
    ASSUME NEW a, NEW b, NEW c, NEW d
    PROVE  /\ <<a>> # <<>> /\ <<a, b>> # <<>>
           /\ <<a, b, c>> # <<>> /\ <<a, b, c, d>> # <<>>
OBVIOUS

-----------------------------------------------------------------------------
(***************************************************************************)
(* What each statement does (SQLite::action).                              *)
(***************************************************************************)

LEMMA ApplyCreateInfo ==
    ASSUME Apply(CreateInfo)
    PROVE  info' = TRUE /\ UNCHANGED <<main, temp, vers, pc, seen>>
BY DEF Apply, CreateInfo

LEMMA ApplyGetInfo ==
    ASSUME Apply(GetInfo), info
    PROVE  /\ seen' = Ver
           /\ UNCHANGED <<main, temp, info, vers, pc>>
BY DEF Apply, GetInfo, Ver, disk

LEMMA ApplyRename ==
    ASSUME Apply(Rename)
    PROVE  /\ \/ main # NoTable /\ temp = NoTable /\ temp' = main /\ main' = NoTable
              \/ ~(main # NoTable /\ temp = NoTable) /\ UNCHANGED <<main, temp>>
           /\ UNCHANGED <<info, vers, pc, seen>>
BY DEF Apply, Rename

LEMMA ApplyCreate ==
    ASSUME Apply(Create)
    PROVE  /\ \/ main = NoTable /\ main' = [cols |-> app, rows |-> {}]
              \/ main # NoTable /\ main' = main
           /\ UNCHANGED <<temp, info, vers, pc, seen>>
BY DEF Apply, Create

LEMMA ApplyInsertVer ==
    ASSUME Apply(InsertVer), info, vers = <<>>
    PROVE  vers' = <<app>> /\ UNCHANGED <<main, temp, info, pc, seen>>
BY DEF Apply, InsertVer

LEMMA ApplyUpdateVer ==
    ASSUME Apply(UpdateVer), NEW w, vers = <<w>>
    PROVE  vers' = <<app>> /\ UNCHANGED <<main, temp, info, pc, seen>>
BY DEF Apply, UpdateVer

LEMMA ApplyCopy ==
    ASSUME Apply(Copy)
    PROVE  /\ pc' = pc \/ (pc' = "stuck" /\ temp # NoTable)
           /\ UNCHANGED <<main, temp, info, vers, seen>>
BY DEF Apply, Copy, CopyCallback, disk

LEMMA ApplyDrop ==
    ASSUME Apply(Drop)
    PROVE  temp' = NoTable /\ UNCHANGED <<main, info, vers, pc, seen>>
BY DEF Apply, Drop

LEMMA ApplyInsert ==
    ASSUME Apply(Insert)
    PROVE  /\ \/ main.cols = app /\ main' = [main EXCEPT !.rows = @ \cup {rows}]
              \/ main.cols # app /\ main' = main
           /\ UNCHANGED <<temp, info, vers, pc, seen>>
BY DEF Apply, Insert

-----------------------------------------------------------------------------
(***************************************************************************)
(* Every step keeps the invariant.                                         *)
(***************************************************************************)

\* checkQueue runs the next statement of what processTable has queued.
LEMMA ActionKeeps ==
    ASSUME Good, Opened, Action
    PROVE  Good'
<1>. USE DEF Good
<1>1. /\ UNCHANGED <<open, app, rows, deaths, old>>
      /\ open = "yes" /\ ~Stuck /\ queue # <<>>
      /\ queue' = IF pc' = "stuck" THEN queue ELSE Tail(queue)
      /\ Apply(Head(queue))
  BY DEF Action
<1>2. /\ CreateInfo' = CreateInfo /\ GetInfo' = GetInfo /\ Rename' = Rename
      /\ Create' = Create /\ InsertVer' = InsertVer /\ UpdateVer' = UpdateVer
      /\ Copy' = Copy /\ Drop' = Drop /\ Insert' = Insert
  BY <1>1 DEF CreateInfo, GetInfo, Rename, Create, InsertVer, UpdateVer, Copy, Drop, Insert
<1>3. CASE Checking
  <2>1. CASE queue = <<CreateInfo, GetInfo>>
    <3>1. Apply(CreateInfo) /\ queue' = <<GetInfo>>
      BY <1>1, <1>3, <2>1, HeadTail, ApplyCreateInfo DEF Checking
    <3>2. info' = TRUE /\ UNCHANGED <<main, temp, vers, pc, seen>>
      BY <3>1, ApplyCreateInfo
    <3>. QED
      BY <1>1, <1>2, <1>3, <3>1, <3>2
         DEF Types, VersOK, DiskOK, RowsOK, Stage, Checking, Rest, Half, Made, Ver
  <2>2. CASE queue = <<GetInfo>>
    <3>1. Apply(GetInfo) /\ info
      BY <1>1, <1>3, <2>2, HeadTail, NotEmpty DEF Checking
    <3>2. /\ seen' = Ver
          /\ UNCHANGED <<main, temp, info, vers, pc>>
      BY <3>1, ApplyGetInfo
    <3>3. queue' = <<>> /\ Ver' = Ver
      BY <1>1, <1>3, <2>2, <3>2, HeadTail DEF Checking, Ver
    <3>. QED
      BY <1>1, <1>2, <1>3, <3>1, <3>2, <3>3
         DEF Types, VersOK, DiskOK, RowsOK, Stage, Checking, Rest, Half, Made
  <2>. QED
    BY <1>1, <1>3, <2>1, <2>2 DEF Checking
<1>4. CASE Upgrading
  <2>1. CASE queue = <<Rename, Create, GetInfo>>
    <3>1. Apply(Rename) /\ Rest
      BY <1>1, <1>4, <2>1, HeadTail, NotEmpty DEF Upgrading
    <3>2. /\ \/ main # NoTable /\ temp = NoTable /\ temp' = main /\ main' = NoTable
             \/ ~(main # NoTable /\ temp = NoTable) /\ UNCHANGED <<main, temp>>
          /\ UNCHANGED <<info, vers, pc, seen>>
      BY <3>1, ApplyRename
    <3>3. queue' = <<Create, GetInfo>> /\ Ver' = Ver /\ Ver # app
      BY <1>1, <1>4, <2>1, <3>2, HeadTail DEF Upgrading, Ver
    <3>4. Half' /\ DiskOK'
      BY <1>1, <3>1, <3>2, <3>3 DEF Half, DiskOK, Rest, Made, Types, NoTable
    <3>5. RowsOK' /\ Types' /\ VersOK'
      BY <1>1, <3>2, <3>3 DEF RowsOK, Types, VersOK, NoTable, Table
    <3>. QED
      BY <1>1, <1>2, <1>4, <3>2, <3>3, <3>4, <3>5 DEF Stage, Upgrading
  <2>2. CASE queue = <<Create, GetInfo>>
    <3>1. Apply(Create) /\ Half
      BY <1>1, <1>4, <2>2, HeadTail, NotEmpty DEF Upgrading
    <3>2. /\ \/ main = NoTable /\ main' = [cols |-> app, rows |-> {}]
             \/ main # NoTable /\ main' = main
          /\ UNCHANGED <<temp, info, vers, pc, seen>>
      BY <3>1, ApplyCreate
    <3>3. queue' = <<GetInfo>> /\ Ver' = Ver /\ Ver # app
      BY <1>1, <1>4, <2>2, <3>2, HeadTail DEF Upgrading, Ver
    <3>4. Half' /\ Made' /\ DiskOK'
      BY <1>1, <3>1, <3>2, <3>3 DEF Half, DiskOK, Made, Types, NoTable
    <3>5. RowsOK' /\ Types' /\ VersOK'
      BY <1>1, <3>2, <3>3 DEF RowsOK, Types, VersOK, NoTable, Table
    <3>. QED
      BY <1>1, <1>2, <1>4, <3>2, <3>3, <3>4, <3>5 DEF Stage, Upgrading
  <2>3. CASE queue = <<GetInfo>>
    <3>1. Apply(GetInfo) /\ info /\ Made
      BY <1>1, <1>4, <2>3, HeadTail, NotEmpty DEF Upgrading
    <3>2. /\ seen' = Ver
          /\ UNCHANGED <<main, temp, info, vers, pc>>
      BY <3>1, ApplyGetInfo
    <3>3. queue' = <<>> /\ Ver' = Ver /\ Made'
      BY <1>1, <1>4, <2>3, <3>1, <3>2, HeadTail DEF Upgrading, Ver, Made
    <3>. QED
      BY <1>1, <1>2, <1>4, <3>1, <3>2, <3>3
         DEF Types, VersOK, DiskOK, RowsOK, Stage, Upgrading, Half
  <2>. QED
    BY <1>1, <1>4, <2>1, <2>2, <2>3 DEF Upgrading
<1>5. CASE Saving
  <2>1. queue = <<InsertVer>> /\ vers = <<>> /\ info /\ Made /\ pc = "version"
    BY <1>1, <1>5 DEF Saving
  <2>2. Apply(InsertVer)
    BY <1>1, <2>1, HeadTail
  <2>3. vers' = <<app>> /\ UNCHANGED <<main, temp, info, pc, seen>>
    BY <2>1, <2>2, ApplyInsertVer
  <2>4. queue' = <<>> /\ Ver' = app' /\ Made'
    BY <1>1, <2>1, <2>3, HeadTail, NotEmpty DEF Ver, Made
  <2>5. VersOK'
    BY <1>1, <2>1, <2>3 DEF VersOK, Types
  <2>. QED
    BY <1>1, <2>1, <2>3, <2>4, <2>5
       DEF Types, DiskOK, RowsOK, Stage, Saving, Half
<1>6. CASE Ready
  <2>0. pc = "ready"
    BY <1>6 DEF Ready
  <2>1. CASE /\ queue = <<Create>> \/ queue = <<Create, Insert>>
             /\ Ver = app /\ Rest
    <3>1. Apply(Create)
      BY <1>1, <2>1, HeadTail
    <3>2. /\ \/ main = NoTable /\ main' = [cols |-> app, rows |-> {}]
             \/ main # NoTable /\ main' = main
          /\ UNCHANGED <<temp, info, vers, pc, seen>>
      BY <3>1, ApplyCreate
    <3>3. /\ queue' = <<>> \/ queue' = <<Insert>>
          /\ pc' = "ready" /\ Ver' = Ver
      <4>1. pc' = "ready" /\ Ver' = Ver /\ queue' = Tail(queue)
        BY <1>1, <2>0, <3>2 DEF Ver
      <4>2. Tail(<<Create>>) = <<>> /\ Tail(<<Create, Insert>>) = <<Insert>>
        BY HeadTail
      <4>. QED
        BY <2>1, <4>1, <4>2
    <3>4. DiskOK' /\ Rest'
      BY <1>1, <2>1, <3>2, <3>3 DEF Half, DiskOK, Made, Types, NoTable, Rest
    <3>5. RowsOK' /\ Types' /\ VersOK'
      BY <1>1, <2>1, <3>2, <3>3 DEF RowsOK, Types, VersOK, NoTable, Table
    <3>. QED
      BY <1>1, <1>2, <2>1, <3>3, <3>4, <3>5 DEF Stage, Ready, Waits
  <2>2. CASE /\ queue = <<UpdateVer, Copy, Drop>> \/ queue = <<UpdateVer, Copy, Drop, Insert>>
             /\ vers # <<>> /\ Made
    <3>1. Apply(UpdateVer)
      BY <1>1, <2>2, HeadTail
    <3>2. PICK w \in 1..app : vers = <<w>>
      BY <2>2 DEF VersOK
    <3>3. vers' = <<app>> /\ UNCHANGED <<main, temp, info, pc, seen>>
      BY <3>1, <3>2, ApplyUpdateVer
    <3>4. /\ queue' = <<Copy, Drop>> \/ queue' = <<Copy, Drop, Insert>>
          /\ pc' = "ready" /\ Ver' = app' /\ Made'
      <4>1. pc' = "ready" /\ Ver' = app' /\ Made' /\ queue' = Tail(queue)
        BY <1>1, <2>0, <2>2, <3>3, NotEmpty DEF Ver, Made
      <4>2. /\ Tail(<<UpdateVer, Copy, Drop>>) = <<Copy, Drop>>
            /\ Tail(<<UpdateVer, Copy, Drop, Insert>>) = <<Copy, Drop, Insert>>
        BY HeadTail
      <4>. QED
        BY <2>2, <4>1, <4>2
    <3>5. VersOK'
      BY <1>1, <2>2, <3>3 DEF VersOK, Types
    <3>. QED
      BY <1>1, <1>2, <3>3, <3>4, <3>5
         DEF Types, DiskOK, RowsOK, Stage, Ready, Waits, Half
  <2>3. CASE /\ queue = <<Copy, Drop>> \/ queue = <<Copy, Drop, Insert>>
             /\ Ver = app
    <3>1. Apply(Copy)
      BY <1>1, <2>3, HeadTail
    <3>2. /\ pc' = pc \/ (pc' = "stuck" /\ temp # NoTable)
          /\ UNCHANGED <<main, temp, info, vers, seen>>
      BY <3>1, ApplyCopy
    <3>3. Ver' = Ver
      BY <3>2 DEF Ver
    <3>4. Types' /\ VersOK' /\ DiskOK' /\ RowsOK'
      BY <1>1, <3>2, <3>3 DEF Types, VersOK, DiskOK, RowsOK, Half, Made
    <3>5. CASE pc' = pc
      <4>1. /\ queue' = <<Drop>> \/ queue' = <<Drop, Insert>>
            /\ pc' = "ready"
        <5>1. queue' = Tail(queue)
          BY <1>1, <2>0, <3>5
        <5>2. Tail(<<Copy, Drop>>) = <<Drop>> /\ Tail(<<Copy, Drop, Insert>>) = <<Drop, Insert>>
          BY HeadTail
        <5>. QED
          BY <2>0, <2>3, <3>5, <5>1, <5>2
      <4>. QED
        BY <1>1, <1>2, <2>3, <3>3, <3>4, <4>1 DEF Stage, Ready, Waits
    <3>6. CASE pc' = "stuck" /\ temp # NoTable
      BY <1>1, <3>2, <3>4, <3>6 DEF Stage, Locked, Stuck
    <3>. QED
      BY <3>2, <3>5, <3>6
  <2>4. CASE /\ queue = <<Drop>> \/ queue = <<Drop, Insert>>
             /\ Ver = app
    <3>1. Apply(Drop)
      BY <1>1, <2>4, HeadTail
    <3>2. temp' = NoTable /\ UNCHANGED <<main, info, vers, pc, seen>>
      BY <3>1, ApplyDrop
    <3>3. /\ queue' = <<>> \/ queue' = <<Insert>>
          /\ pc' = "ready" /\ Ver' = Ver
      <4>1. pc' = "ready" /\ Ver' = Ver /\ queue' = Tail(queue)
        BY <1>1, <2>0, <3>2 DEF Ver
      <4>2. Tail(<<Drop>>) = <<>> /\ Tail(<<Drop, Insert>>) = <<Insert>>
        BY HeadTail
      <4>. QED
        BY <2>4, <4>1, <4>2
    <3>4. DiskOK' /\ Rest'
      BY <1>1, <2>4, <3>2, <3>3 DEF Half, DiskOK, Made, Rest
    <3>5. RowsOK' /\ Types' /\ VersOK'
      BY <1>1, <2>4, <3>2, <3>3 DEF RowsOK, Types, VersOK, NoTable, Table
    <3>. QED
      BY <1>1, <1>2, <2>4, <3>3, <3>4, <3>5 DEF Stage, Ready, Waits
  <2>5. CASE queue = <<Insert>> /\ Ver = app /\ Rest
    <3>1. Apply(Insert)
      BY <1>1, <2>5, HeadTail
    <3>2. /\ \/ main.cols = app /\ main' = [main EXCEPT !.rows = @ \cup {rows}]
             \/ main.cols # app /\ main' = main
          /\ UNCHANGED <<temp, info, vers, pc, seen>>
      BY <3>1, ApplyInsert
    <3>3. queue' = <<>> /\ pc' = "ready" /\ Ver' = Ver
      BY <1>1, <2>0, <2>5, <3>2, HeadTail DEF Ver
    <3>4. /\ main' \in Table /\ main'.cols = main.cols
          /\ main' = main \/ main.cols = app
      BY <3>2 DEF Types, Table
    <3>5. DiskOK' /\ Rest'
      BY <1>1, <2>5, <3>2, <3>3, <3>4 DEF Half, DiskOK, Made, Types, Rest
    <3>6. RowsOK' /\ Types' /\ VersOK'
      BY <1>1, <2>5, <3>2, <3>3, <3>4 DEF RowsOK, Types, VersOK
    <3>. QED
      BY <1>1, <1>2, <2>5, <3>3, <3>5, <3>6 DEF Stage, Ready, Waits
  <2>. QED
    BY <1>1, <1>6, <2>1, <2>2, <2>3, <2>4, <2>5 DEF Ready, Waits
<1>. QED
  BY <1>1, <1>3, <1>4, <1>5, <1>6 DEF Stage, Down, Locked

\* While the file opens, exce opens it.
LEMMA ExceOpens ==
    ASSUME opens \in Nat, NEW stmts, Exce(stmts)
    PROVE  /\ opens' \in Nat
           /\ Opened' => Opened /\ open' = "yes" /\ queue' = queue \o stmts
BY DEF Exce, Opened

\* The end of checkQueue closes the file over an empty queue.
LEMMA EndKeeps ==
    ASSUME Good, Opened, End
    PROVE  Good'
<1>1. open = "yes" /\ queue = <<>> /\ UNCHANGED seen
  <2>1. Opened => open # "failed"
    BY DEF Good, Stage, Down, Checking, Upgrading, Saving, Ready, Waits, Locked, Opened
  <2>. QED
    BY <2>1 DEF End
<1>2. open' = "no" /\ queue' = <<>> /\ ~Stuck
  BY DEF End
<1>3. UNCHANGED <<main, temp, info, vers, pc, app, rows, deaths, old>>
  BY DEF End, disk
<1>4. Ver' = Ver /\ Rest' = Rest /\ Half' = Half /\ Made' = Made
  BY <1>3 DEF Ver, Rest, Half, Made
<1>5. Types' /\ VersOK' /\ DiskOK' /\ RowsOK'
  BY <1>3, <1>4 DEF Good, Types, VersOK, DiskOK, RowsOK
<1>6. Stage'
  <2>1. CASE Checking
    BY <1>1, <1>2, <1>3, <1>4, <2>1, NotEmpty DEF Stage, Checking
  <2>2. CASE Upgrading
    BY <1>1, <1>2, <1>3, <1>4, <2>2, NotEmpty DEF Stage, Upgrading
  <2>3. CASE Saving
    BY <1>1, <1>2, <1>3, <1>4, <2>3, NotEmpty DEF Stage, Saving
  <2>4. CASE Ready
    <3>1. Ver = app /\ Rest /\ pc = "ready"
      BY <1>1, <2>4, NotEmpty DEF Ready, Waits
    <3>. QED
      BY <1>2, <1>3, <1>4, <3>1 DEF Stage, Ready, Waits
  <2>. QED
    BY <1>1, <1>2, <2>1, <2>2, <2>3, <2>4 DEF Good, Stage, Down, Locked
<1>. QED
  BY <1>5, <1>6 DEF Good

\* The timer of queueExce opens the file for what waits.
LEMMA TimerKeeps ==
    ASSUME Good, Opened, open' = "yes", queue' = queue \o <<>>, Timer
    PROVE  Good'
<1>1. UNCHANGED <<main, temp, info, vers, pc, seen, app, rows, deaths, old>>
  BY DEF Timer, disk
<1>2. pc = "ready" /\ open = "no" /\ queue # <<>>
  BY DEF Timer
<1>3. Ver' = Ver /\ Rest' = Rest /\ Made' = Made
  BY <1>1 DEF Ver, Rest, Made
<1>4. /\ Create' = Create /\ UpdateVer' = UpdateVer
      /\ Copy' = Copy /\ Drop' = Drop /\ Insert' = Insert
  BY <1>1 DEF Create, UpdateVer, Copy, Drop, Insert
<1>5. Types' /\ VersOK' /\ DiskOK' /\ RowsOK'
  BY <1>1, <1>3 DEF Good, Types, VersOK, DiskOK, RowsOK, Half, Made
<1>6. Ready
  BY <1>2 DEF Good, Stage, Down, Checking, Upgrading, Saving, Locked, Stuck
<1>7. CASE queue = <<Create>> /\ Ver = app /\ Rest
  <2>1. queue' = <<Create>>
    BY <1>7, Concat
  <2>. QED
    BY <1>1, <1>2, <1>3, <1>4, <1>5, <1>7, <2>1 DEF Good, Stage, Ready, Waits
<1>8. CASE queue = <<UpdateVer, Copy, Drop>> /\ vers # <<>> /\ Ver # app /\ Made
  <2>1. queue' = <<UpdateVer, Copy, Drop>>
    BY <1>8, Concat
  <2>. QED
    BY <1>1, <1>2, <1>3, <1>4, <1>5, <1>8, <2>1 DEF Good, Stage, Ready, Waits
<1>9. CASE queue = <<Copy, Drop>> /\ Ver = app
  <2>1. queue' = <<Copy, Drop>>
    BY <1>9, Concat
  <2>. QED
    BY <1>1, <1>2, <1>3, <1>4, <1>5, <1>9, <2>1 DEF Good, Stage, Ready, Waits
<1>. QED
  BY <1>2, <1>6, <1>7, <1>8, <1>9 DEF Ready, Waits

\* checkUpdate asks for the version.
LEMMA CheckUpdateKeeps ==
    ASSUME Good, Opened, open' = "yes", CheckUpdate,
           queue' = queue \o <<CreateInfo, GetInfo>>
    PROVE  Good'
<1>1. /\ UNCHANGED <<main, temp, info, vers, seen, app, rows, deaths, old>>
      /\ pc = "down" /\ pc' = "checkUpdate"
  BY DEF CheckUpdate, Frame, Step, disk
<1>2. queue = <<>> /\ Rest
  BY <1>1 DEF Good, Stage, Down, Checking, Upgrading, Saving, Ready, Locked, Stuck
<1>3. queue' = <<CreateInfo, GetInfo>>
  BY <1>2, Concat
<1>4. Ver' = Ver /\ Rest' = Rest /\ CreateInfo' = CreateInfo /\ GetInfo' = GetInfo
  BY <1>1 DEF Ver, Rest, CreateInfo, GetInfo
<1>5. Types' /\ VersOK' /\ DiskOK' /\ RowsOK'
  BY <1>1, <1>4 DEF Good, Types, VersOK, DiskOK, RowsOK, Half, Made
<1>. QED
  BY <1>1, <1>2, <1>3, <1>4, <1>5 DEF Good, Stage, Checking

\* processTable of a table of the same version: CREATE TABLE waits for the
\* timer.
LEMMA SameVersionKeeps ==
    ASSUME Good, Opened, seen = app, Step("checkUpdate", "ready"),
           QueueExce(<<Create>>), Frame
    PROVE  Good'
<1>1. /\ UNCHANGED <<main, temp, info, vers, seen, app, rows, deaths, old>>
      /\ pc = "checkUpdate" /\ open = "no" /\ pc' = "ready" /\ open' = open
      /\ queue' = queue \o <<Create>>
  BY DEF QueueExce, Frame, Step, disk
<1>2. queue = <<>> /\ Rest /\ Ver = app
  BY <1>1 DEF Good, Stage, Down, Checking, Upgrading, Saving, Ready, Locked, Stuck
<1>3. queue' = <<Create>>
  BY <1>1, <1>2, Concat
<1>4. Ver' = Ver /\ Rest' = Rest /\ Create' = Create
  BY <1>1 DEF Ver, Rest, Create
<1>5. Types' /\ VersOK' /\ DiskOK' /\ RowsOK'
  BY <1>1, <1>4 DEF Good, Types, VersOK, DiskOK, RowsOK, Half, Made
<1>. QED
  BY <1>1, <1>2, <1>3, <1>4, <1>5 DEF Good, Stage, Ready, Waits

\* processTable of a table of another version, or of none.
LEMMA OtherVersionKeeps ==
    ASSUME Good, Opened, seen # app, Step("checkUpdate", "afterUpdate"),
           open' = "yes", queue' = queue \o (Upgrade \o <<GetInfo>>), Frame
    PROVE  Good'
<1>1. /\ UNCHANGED <<main, temp, info, vers, seen, app, rows, deaths, old>>
      /\ pc = "checkUpdate" /\ open = "no" /\ pc' = "afterUpdate"
  BY DEF Frame, Step, disk
<1>2. queue = <<>> /\ Rest /\ Ver # app /\ info
  BY <1>1 DEF Good, Stage, Down, Checking, Upgrading, Saving, Ready, Locked, Stuck
<1>3. queue' = <<Rename, Create, GetInfo>>
  <2>1. Upgrade = <<Rename, Create>>
    BY DEF Upgrade, Rename, Create
  <2>2. Upgrade \o <<GetInfo>> = <<Rename, Create, GetInfo>>
    BY <2>1, Concat
  <2>. QED
    BY <1>2, <2>2, Concat
<1>4. /\ Ver' = Ver /\ Rest' = Rest
      /\ Create' = Create /\ Rename' = Rename /\ GetInfo' = GetInfo
  BY <1>1 DEF Ver, Rest, Create, Rename, GetInfo
<1>5. Types' /\ VersOK' /\ DiskOK' /\ RowsOK'
  BY <1>1, <1>4 DEF Good, Types, VersOK, DiskOK, RowsOK, Half, Made
<1>. QED
  BY <1>1, <1>2, <1>3, <1>4, <1>5 DEF Good, Stage, Upgrading

\* afterUpdate inserts the first version row.
LEMMA InsertVersionKeeps ==
    ASSUME Good, Opened, Step("afterUpdate", "version"), seen = 0,
           open' = "yes", queue' = queue \o <<InsertVer>>, Frame
    PROVE  Good'
<1>1. /\ UNCHANGED <<main, temp, info, vers, seen, app, rows, deaths, old>>
      /\ pc = "afterUpdate" /\ open = "no" /\ pc' = "version"
  BY DEF Frame, Step, disk
<1>2. queue = <<>> /\ Made /\ Ver = 0 /\ info
  BY <1>1 DEF Good, Stage, Down, Checking, Upgrading, Saving, Ready, Locked, Stuck
<1>3. queue' = <<InsertVer>>
  BY <1>2, Concat
<1>4. /\ Ver' = Ver /\ Made' = Made /\ InsertVer' = InsertVer
  BY <1>1 DEF Ver, Made, InsertVer
<1>5. vers' = <<>>
  BY <1>1, <1>2 DEF Ver, Good, VersOK
<1>6. Types' /\ VersOK' /\ DiskOK' /\ RowsOK'
  BY <1>1, <1>4 DEF Good, Types, VersOK, DiskOK, RowsOK, Half
<1>. QED
  BY <1>1, <1>2, <1>3, <1>4, <1>5, <1>6 DEF Good, Stage, Saving

\* afterUpdate leaves the update of the version row in the queue.
LEMMA UpdateVersionKeeps ==
    ASSUME Good, Opened, Step("afterUpdate", "version"), seen # 0,
           QueueExce(<<UpdateVer>>), Frame
    PROVE  Good'
<1>1. /\ UNCHANGED <<main, temp, info, vers, seen, app, rows, deaths, old>>
      /\ pc = "afterUpdate" /\ open = "no" /\ pc' = "version" /\ open' = open
      /\ queue' = queue \o <<UpdateVer>>
  BY DEF QueueExce, Frame, Step, disk
<1>2. queue = <<>> /\ Made /\ Ver # 0 /\ Ver # app /\ info
  BY <1>1 DEF Good, Stage, Down, Checking, Upgrading, Saving, Ready, Locked, Stuck
<1>3. queue' = <<UpdateVer>>
  BY <1>1, <1>2, Concat
<1>4. /\ Ver' = Ver /\ Made' = Made /\ UpdateVer' = UpdateVer
  BY <1>1 DEF Ver, Made, UpdateVer
<1>5. vers' # <<>>
  BY <1>1, <1>2 DEF Ver
<1>6. Types' /\ VersOK' /\ DiskOK' /\ RowsOK'
  BY <1>1, <1>4 DEF Good, Types, VersOK, DiskOK, RowsOK, Half
<1>. QED
  BY <1>1, <1>2, <1>3, <1>4, <1>5, <1>6 DEF Good, Stage, Saving

\* afterUpdate queues the copy and the drop behind the version row.
LEMMA CopyRowsKeeps ==
    ASSUME Good, Opened, CopyRows
    PROVE  Good'
<1>1. /\ UNCHANGED <<main, temp, info, vers, seen, app, rows, deaths, old>>
      /\ pc = "version" /\ open = "no" /\ pc' = "ready" /\ open' = open
      /\ queue' = queue \o <<Copy, Drop>>
  BY DEF CopyRows, QueueExce, Frame, Step, disk, Copy, Drop
<1>2. Saving
  BY <1>1 DEF Good, Stage, Down, Checking, Upgrading, Ready, Locked, Stuck
<1>3. /\ Ver' = Ver /\ Made' = Made
      /\ UpdateVer' = UpdateVer /\ Copy' = Copy /\ Drop' = Drop
  BY <1>1 DEF Ver, Made, UpdateVer, Copy, Drop
<1>4. Types' /\ VersOK' /\ DiskOK' /\ RowsOK'
  BY <1>1, <1>3 DEF Good, Types, VersOK, DiskOK, RowsOK, Half
<1>5. CASE queue = <<UpdateVer>> /\ vers # <<>> /\ Ver # app
  <2>1. queue' = <<UpdateVer, Copy, Drop>>
    BY <1>1, <1>5, Concat
  <2>. QED
    BY <1>1, <1>2, <1>3, <1>4, <1>5, <2>1 DEF Good, Stage, Saving, Ready, Waits
<1>6. CASE queue = <<>> /\ Ver = app
  <2>1. queue' = <<Copy, Drop>>
    BY <1>1, <1>6, Concat
  <2>. QED
    BY <1>1, <1>3, <1>4, <1>6, <2>1 DEF Good, Stage, Ready, Waits
<1>. QED
  BY <1>1, <1>2, <1>5, <1>6 DEF Saving

\* A new row is queued behind what waits, and the whole queue runs.
LEMMA SaveRowKeeps ==
    ASSUME Good, Opened, SaveRow, open' = "yes",
           queue' = queue \o <<[op |-> "insert", v |-> app, row |-> rows + 1]>>
    PROVE  Good'
<1>1. /\ UNCHANGED <<main, temp, info, vers, seen, app, deaths, old>>
      /\ pc = "ready" /\ open = "no" /\ pc' = "ready" /\ rows' = rows + 1
  BY DEF SaveRow, Step, disk
<1>2. Insert' = [op |-> "insert", v |-> app, row |-> rows + 1]
  BY <1>1 DEF Insert
<1>3. queue' = queue \o <<Insert'>>
  BY <1>2
<1>4. /\ Ver' = Ver /\ Made' = Made /\ Rest' = Rest /\ Create' = Create
      /\ UpdateVer' = UpdateVer /\ Copy' = Copy /\ Drop' = Drop
  BY <1>1 DEF Ver, Made, Rest, Create, UpdateVer, Copy, Drop
<1>5. Types' /\ VersOK' /\ DiskOK' /\ RowsOK'
  BY <1>1, <1>4 DEF Good, Types, VersOK, DiskOK, RowsOK, Half
<1>6. Ready
  BY <1>1 DEF Good, Stage, Down, Checking, Upgrading, Saving, Locked, Stuck
<1>7. CASE queue = <<Create>> /\ Ver = app /\ Rest
  <2>1. queue' = <<Create, Insert'>>
    BY <1>3, <1>7, Concat
  <2>. QED
    BY <1>1, <1>4, <1>5, <1>7, <2>1 DEF Good, Stage, Ready, Waits
<1>8. CASE queue = <<UpdateVer, Copy, Drop>> /\ vers # <<>> /\ Ver # app /\ Made
  <2>1. queue' = <<UpdateVer, Copy, Drop, Insert'>>
    <3>1. <<UpdateVer, Copy, Drop>> \o <<Insert'>> = <<UpdateVer, Copy, Drop, Insert'>>
      BY ConcatFour, Zenon
    <3>. QED
      BY <1>3, <1>8, <3>1
  <2>. QED
    BY <1>1, <1>4, <1>5, <1>8, <2>1 DEF Good, Stage, Ready, Waits
<1>9. CASE queue = <<Copy, Drop>> /\ Ver = app
  <2>1. queue' = <<Copy, Drop, Insert'>>
    BY <1>3, <1>9, Concat
  <2>. QED
    BY <1>1, <1>4, <1>5, <1>9, <2>1 DEF Good, Stage, Ready, Waits
<1>10. CASE queue = <<>> /\ Ver = app /\ Rest
  <2>1. queue' = <<Insert'>>
    BY <1>3, <1>10, Concat
  <2>. QED
    BY <1>1, <1>4, <1>5, <1>10, <2>1 DEF Good, Stage, Ready, Waits
<1>. QED
  BY <1>1, <1>6, <1>7, <1>8, <1>9, <1>10 DEF Ready, Waits

\* A death, and the start of the same release or of a later one.
LEMMA CrashKeeps ==
    ASSUME Good, Opened, Crash
    PROVE  Good'
<1>1. /\ UNCHANGED <<main, temp, info, vers, rows>>
      /\ pc' = "down" /\ open' = "no" /\ queue' = <<>> /\ seen' = 0
      /\ app' \in app..Versions
      /\ deaths' = IF pc = "ready" /\ queue = <<>> THEN deaths ELSE deaths + 1
      /\ old' = IF app' = app THEN old ELSE deaths'
  BY DEF Crash, disk
<1>2. Types'
  BY <1>1, SchemaAssumption DEF Good, Types
<1>3. Ver' = Ver /\ Ver \in 0..app /\ app' \in Nat /\ app <= app'
  BY <1>1, <1>2 DEF Good, Ver, VersOK, Types
<1>4. VersOK'
  BY <1>1, <1>3 DEF Good, VersOK, Types
<1>5. deaths' = 0 => deaths = 0 /\ pc = "ready" /\ queue = <<>>
  BY <1>1 DEF Good, Types
<1>6. deaths' = 0 => Rest /\ Ver = app
  BY <1>5, NotEmpty
     DEF Good, Stage, Down, Checking, Upgrading, Saving, Ready, Waits, Locked, Stuck
<1>7. Rest'
  BY <1>1, <1>3, <1>5, <1>6 DEF Rest, Good, Types
<1>8. DiskOK'
  <2>1. old' = 0 => (old = 0 /\ app' = app) \/ temp = NoTable
    BY <1>1, <1>5, <1>6 DEF Rest
  <2>2. Half' \/ temp' = NoTable
    BY <1>1, <2>1 DEF Good, DiskOK, Half
  <2>3. Ver' = app' => app' = app
    BY <1>3 DEF Good, Types
  <2>4. Ver' = app' => Made'
    BY <1>1, <1>3, <2>3 DEF Good, DiskOK, Made
  <2>5. deaths' = 0 => old' = 0
    BY <1>1, <1>5 DEF Good, DiskOK
  <2>. QED
    BY <1>1, <1>5, <1>7, <2>2, <2>4, <2>5 DEF DiskOK, Rest
<1>9. RowsOK'
  BY <1>1, <1>3 DEF Good, RowsOK, Types
<1>. QED
  BY <1>1, <1>2, <1>4, <1>7, <1>8, <1>9 DEF Good, Stage, Down

\* The invariant holds at the first start of the first release.
LEMMA InitGood ==
    ASSUME Init
    PROVE  IInv
BY DEF Init, IInv, Good, Types, Table, NoTable, VersOK, DiskOK, RowsOK, Half, Made, Ver,
       Rest, Stage, Down

\* Every step of the program keeps it.
LEMMA NextKeeps ==
    ASSUME IInv, Next
    PROVE  IInv'
<1>1. CASE Action
  BY <1>1, ActionKeeps DEF IInv, Action, Opened
<1>2. CASE End
  BY <1>2, EndKeeps DEF IInv, End, Opened
<1>3. CASE Timer
  <2>1. Exce(<<>>)
    BY <1>3 DEF Timer
  <2>. QED
    BY <1>3, <2>1, ExceOpens, TimerKeeps DEF IInv
<1>4. CASE CheckUpdate
  <2>1. Exce(<<CreateInfo, GetInfo>>)
    BY <1>4 DEF CheckUpdate, CreateInfo, GetInfo
  <2>. QED
    BY <1>4, <2>1, ExceOpens, CheckUpdateKeeps DEF IInv
<1>5. CASE ProcessTable
  <2>1. CASE seen = app /\ Step("checkUpdate", "ready") /\ QueueExce(<<Create>>) /\ Frame
    <3>1. opens' = opens
      BY <2>1 DEF QueueExce
    <3>. QED
      BY <2>1, <3>1, SameVersionKeeps DEF IInv, Opened
  <2>2. CASE /\ seen # app /\ Step("checkUpdate", "afterUpdate")
             /\ Exce(Upgrade \o <<GetInfo>>) /\ Frame
    BY <2>2, ExceOpens, OtherVersionKeeps DEF IInv
  <2>. QED
    BY <1>5, <2>1, <2>2 DEF ProcessTable, Create, GetInfo
<1>6. CASE SaveVersion
  <2>0. Step("afterUpdate", "version") /\ Frame
    BY <1>6 DEF SaveVersion
  <2>1. CASE seen = 0 /\ Exce(<<InsertVer>>)
    BY <2>0, <2>1, ExceOpens, InsertVersionKeeps DEF IInv
  <2>2. CASE seen # 0 /\ QueueExce(<<UpdateVer>>)
    <3>1. opens' = opens
      BY <2>2 DEF QueueExce
    <3>. QED
      BY <2>0, <2>2, <3>1, UpdateVersionKeeps DEF IInv, Opened
  <2>. QED
    BY <1>6, <2>1, <2>2 DEF SaveVersion, InsertVer, UpdateVer
<1>7. CASE CopyRows
  <2>1. opens' = opens
    BY <1>7 DEF CopyRows, QueueExce
  <2>. QED
    BY <1>7, <2>1, CopyRowsKeeps DEF IInv, Opened
<1>8. CASE SaveRow
  <2>1. Exce(<<[op |-> "insert", v |-> app, row |-> rows + 1]>>)
    BY <1>8 DEF SaveRow
  <2>. QED
    BY <1>8, <2>1, ExceOpens, SaveRowKeeps DEF IInv
<1>9. CASE Crash
  <2>1. opens' = opens
    BY <1>9 DEF Crash
  <2>. QED
    BY <1>9, <2>1, CrashKeeps DEF IInv, Opened
<1>. QED
  BY <1>1, <1>2, <1>3, <1>4, <1>5, <1>6, <1>7, <1>8, <1>9 DEF Next

\* So does a step that changes nothing.
LEMMA StutterKeeps ==
    ASSUME IInv, UNCHANGED vars
    PROVE  IInv'
BY DEF vars, disk, IInv, Opened, Good, Types, VersOK, DiskOK, RowsOK, Half, Made, Ver, Rest,
       Stage, Down, Checking, Upgrading, Saving, Ready, Waits, Locked, Stuck,
       CreateInfo, GetInfo, Rename, Create, InsertVer, UpdateVer, Copy, Drop, Insert

-----------------------------------------------------------------------------
(***************************************************************************)
(* The theorems.                                                           *)
(***************************************************************************)

\* Model::checkTable: as long as the file opens, the statements waiting, the
\* table, its TEMP_ copy and the version row fit one of the places of
\* processTable.
THEOREM Invariance == Spec => []IInv
<1>1. Init => IInv
  BY InitGood
<1>2. IInv /\ [Next]_vars => IInv'
  BY NextKeeps, StutterKeeps
<1>. QED
  BY <1>1, <1>2, PTL DEF Spec

\* processTable leaves a table with the columns the program writes, however
\* often this release was cut short before.
THEOREM TableIsUsable == Spec => []ReadyIsUsable
<1>1. IInv => ReadyIsUsable
  BY NotEmpty DEF IInv, Good, DiskOK, Made, ReadyIsUsable,
     Stage, Down, Checking, Upgrading, Saving, Ready, Waits, Locked, Stuck
<1>. QED
  BY <1>1, Invariance, PTL

\* The save from inside the copy locks the main thread up only after a death
\* or in a later release.
THEOREM StuckNeedsDeath == Spec => []StuckOnlyAfterDeath
<1>1. IInv => StuckOnlyAfterDeath
  BY DEF IInv, Good, Types, DiskOK, StuckOnlyAfterDeath,
     Stage, Down, Checking, Upgrading, Saving, Ready, Locked, Stuck
<1>. QED
  BY <1>1, Invariance, PTL

\* What checkQueue runs is one of the nine statements.
LEMMA NineStatements ==
    ASSUME Good, Action
    PROVE  Head(queue) \in {CreateInfo, GetInfo, Rename, Create, InsertVer, UpdateVer,
                            Copy, Drop, Insert}
<1>1. open = "yes" /\ ~Stuck /\ queue # <<>>
  BY DEF Action
<1>2. CASE Checking
  BY <1>1, <1>2, HeadTail DEF Checking
<1>3. CASE Upgrading
  BY <1>1, <1>3, HeadTail DEF Upgrading
<1>4. CASE Saving
  BY <1>1, <1>4, HeadTail DEF Saving
<1>5. CASE Ready
  BY <1>1, <1>5, HeadTail DEF Ready, Waits
<1>. QED
  BY <1>1, <1>2, <1>3, <1>4, <1>5 DEF Good, Stage, Down, Locked

\* In the first release no statement loses a row: TEMP_ has none to drop.
LEMMA ActionKeepsRows ==
    ASSUME Good, Action, app = 1
    PROVE  main.rows \cup temp.rows \subseteq main'.rows \cup temp'.rows
<1>1. Apply(Head(queue))
  BY DEF Action
<1>2. temp.rows = {} /\ main \in Table
  BY DEF Good, RowsOK, Types
<1>3. CASE Head(queue) = CreateInfo
  BY <1>1, <1>3, ApplyCreateInfo
<1>4. CASE Head(queue) = GetInfo
  <2>1. Apply(GetInfo)
    BY <1>1, <1>4
  <2>2. UNCHANGED <<main, temp>>
    BY <2>1 DEF Apply, GetInfo, disk
  <2>. QED
    BY <2>2
<1>5. CASE Head(queue) = Rename
  BY <1>1, <1>2, <1>5, ApplyRename
<1>6. CASE Head(queue) = Create
  BY <1>1, <1>2, <1>6, ApplyCreate DEF NoTable
<1>7. CASE Head(queue) = InsertVer
  <2>1. Apply(InsertVer)
    BY <1>1, <1>7
  <2>2. UNCHANGED <<main, temp>>
    BY <2>1 DEF Apply, InsertVer
  <2>. QED
    BY <2>2
<1>8. CASE Head(queue) = Copy
  BY <1>1, <1>8, ApplyCopy
<1>9. CASE Head(queue) = Drop
  BY <1>1, <1>2, <1>9, ApplyDrop
<1>10. CASE Head(queue) = Insert
  <2>1. /\ \/ main' = [main EXCEPT !.rows = @ \cup {rows}]
           \/ main' = main
        /\ temp' = temp
    BY <1>1, <1>10, ApplyInsert
  <2>2. main.rows \subseteq main'.rows
    BY <1>2, <2>1 DEF Table
  <2>. QED
    BY <2>1, <2>2
<1>11. CASE Head(queue) = UpdateVer
  <2>1. Apply(UpdateVer)
    BY <1>1, <1>11
  <2>2. UNCHANGED <<main, temp>>
    BY <2>1 DEF Apply, UpdateVer
  <2>. QED
    BY <2>2
<1>. QED
  BY <1>3, <1>4, <1>5, <1>6, <1>7, <1>8, <1>9, <1>10, <1>11,
     NineStatements

\* A row the first release has saved stays on file, whatever deaths come
\* between the statements of its starts.
THEOREM RowsStay == Spec => RowsKept
<1>. DEFINE Kept == Opened /\ app = 1 /\ app' = 1
                      => main.rows \cup temp.rows \subseteq main'.rows \cup temp'.rows
<1>1. ASSUME IInv, [Next]_vars
      PROVE  Kept
  <2>1. CASE Action
    BY <1>1, <2>1, ActionKeepsRows DEF IInv
  <2>2. CASE UNCHANGED disk
    BY <2>2 DEF disk
  <2>3. Action \/ UNCHANGED disk
    BY <1>1 DEF Next, End, Timer, CheckUpdate, ProcessTable, SaveVersion, CopyRows, SaveRow,
       Crash, Frame, vars
  <2>. QED
    BY <2>1, <2>2, <2>3
<1>2. IInv /\ [Next]_vars => [Kept]_vars
  BY <1>1
<1>. QED
  BY <1>2, Invariance, PTL DEF Spec, RowsKept

=============================================================================
