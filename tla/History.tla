------------------------------ MODULE History ------------------------------
(***************************************************************************)
(* The history of visited games: HistoryManager (utils/history_manager.    *)
(* dart), which keeps a list in memory, and the two tables behind it,      *)
(* CollectionData and BookData, written by DataItem::saveToCollection      *)
(* (main/DataItem.cpp) and by HistoryItem.update.                          *)
(*                                                                         *)
(* The tables are the store that module Database is proved to implement.   *)
(* A query or an INSERT runs at once, behind everything that is queued; an *)
(* UPDATE or a DELETE is queued.  When the file does not open, the queue   *)
(* is forgotten with the statement at its end, and the caller is not told: *)
(* a query has no results, a new object stays without an id.  call tells   *)
(* how far insert has come, for it is between its statements that the file *)
(* may not open and the process may die.                                   *)
(***************************************************************************)
EXTENDS Naturals, Sequences, FiniteSets, SequencesExt

CONSTANTS Projects,     \* the installed projects
          Links,        \* links of games, which projects may share
          NotLoaded,    \* null, for the list
          NoItem,       \* null, for the item of an entry
          ITEM_COUNT,   \* HistoryManager.ITEM_COUNT
          Second,       \* how many ticks of the clock make a second
          MaxVisits,    \* bound on the calls of insert
          MaxCrashes,   \* bound on the deaths of the process
          MaxFailed     \* bound on the times the file does not open

ASSUME HistoryAssumption ==
    /\ NoItem \notin [project : Projects, link : Links]
    /\ ITEM_COUNT \in Nat \ {0}
    /\ Second \in Nat \ {0}
    /\ MaxVisits \in Nat
    /\ MaxCrashes \in Nat
    /\ MaxFailed \in Nat

VARIABLES hist,         \* the tables: the file and what is ahead of it
          items,        \* HistoryManager._items, NotLoaded for null
          call,         \* insert, under way
          visits,       \* calls of insert so far, which is also the clock
          crashes,      \* deaths so far
          failed,       \* how often the file has not opened so far
          out           \* history: it has not, for this list

vars == <<hist, items, call, visits, crashes, failed, out>>

DataItem == [project : Projects, link : Links]

\* A row of CollectionData, or an entry of the list, without a row while its
\* id is 0.  target is whether targetID is the id of the item's book; date is
\* the "time" in the data, 0 before update has written one.  blind is history:
\* the row was written when the file had not opened for the list.
Row == [id : Nat, item : DataItem \cup {NoItem}, date : Nat, target : BOOLEAN,
        blind : BOOLEAN]

Tables == [cols : SUBSET Row, books : SUBSET DataItem, seq : Nat]

Empty == [cols |-> {}, books |-> {}, seq |-> 0]

Db == INSTANCE Store WITH File <- Tables, Fresh <- Empty, reply <- <<>>

Idle == [step |-> "idle", item |-> NoItem, target |-> FALSE]

Step(name, d, target) == [step |-> name, item |-> d, target |-> target]

-----------------------------------------------------------------------------
(***************************************************************************)
(* The writes, each from the tables before it to the tables after it.      *)
(***************************************************************************)

WithBook(t, d) == [t EXCEPT !.books = @ \cup {d}]

\* A CollectionData without an id is given one by its INSERT.
Numbered(t, e) == [e EXCEPT !.id = t.seq + 1]

WithRow(t, e) == [t EXCEPT !.cols = @ \cup {Numbered(t, e)}, !.seq = @ + 1]

WithDate(t, id, date) ==
    [t EXCEPT !.cols = {IF r.id = id THEN [r EXCEPT !.date = date] ELSE r : r \in @}]

\* The tables after deleting the rows of each entry of s, one after the other.
Removals(t, s) ==
    [n \in 1..Len(s) |->
        [t EXCEPT !.cols = {r \in @ : \A m \in 1..n : r.id # s[m].id}]]

-----------------------------------------------------------------------------
\* The statement ran, after all that was queued, and left table t.
Opened(t) == /\ hist' = <<t>>
             /\ UNCHANGED <<failed, out>>

\* The file did not open: what was queued is gone, and the statement with it.
NotOpened == /\ failed < MaxFailed
             /\ failed' = failed + 1
             /\ out' = TRUE
             /\ Db!Forget

Init == /\ hist = <<Empty>>
        /\ items = NotLoaded
        /\ call = Idle
        /\ visits = 0
        /\ crashes = 0
        /\ failed = 0
        /\ out = FALSE

\* The orders that the getter may bring the rows into: the comparison drops
\* fractions of a second, and a sort that puts what equals its pivot together
\* may leave a row right before one that is newer by less than two.
Sorted(rows) == {s \in SetToSeqs(rows) :
                    \A i \in 1..(Len(s) - 1) : s[i + 1].date < s[i].date + 2 * Second}

\* HistoryItem: the entry for a row, without an item if the row has no book or
\* the query for the book, of those in lost, is not answered.
HistoryItem(r, lost) ==
    [r EXCEPT !.item = IF r.target /\ r.id \notin lost THEN r.item ELSE NoItem]

\* The getter items, called first by the history page, insert or clear:
\* CollectionData.all, an entry for each row, sorted.
Load ==
    /\ call = Idle
    /\ items = NotLoaded
    /\ \/ \E s \in Sorted(Db!Latest.cols) :
             /\ Opened(Db!Latest)
             /\ items' = [i \in DOMAIN s |-> HistoryItem(s[i], {})]
       \/ \E s \in Sorted(Db!Latest.cols), lost \in (SUBSET {r.id : r \in Db!Latest.cols}) \ {{}} :
             /\ failed < MaxFailed
             /\ failed' = failed + 1
             /\ out' = TRUE
             /\ hist' = <<Db!Latest>>
             /\ items' = [i \in DOMAIN s |-> HistoryItem(s[i], lost)]
       \/ /\ NotOpened
          /\ items' = <<>>
    /\ UNCHANGED <<call, visits, crashes>>

\* What stays of the list behind a new entry.
Kept == IF Len(items) < ITEM_COUNT THEN items ELSE SubSeq(items, 1, ITEM_COUNT - 1)

\* Mutant: what is dropped from the list keeps its row.
InFrontKeepsRows(e, t) == /\ items' = <<e>> \o Kept
                          /\ hist' = <<t>>
                          /\ call' = Step("update", NoItem, FALSE)

\* The entry is put in front, and what is too much is removed from the end,
\* row and all.
InFront(e, t) ==
    /\ items' = <<e>> \o Kept
    /\ hist' = <<t>> \o Removals(t, Reverse(SubSeq(items, ITEM_COUNT, Len(items))))
    /\ call' = Step("update", NoItem, FALSE)

\* insert for a link that is in the list, in whatever project: the last entry
\* with the link is moved to the front.
Again(i) == /\ items' = <<items[i]>> \o RemoveAt(items, i)
            /\ call' = Step("update", NoItem, FALSE)
            /\ UNCHANGED <<hist, failed, out>>

\* CollectionData::find of saveToCollection, for a link that is not in the list.
Find(d) ==
    \/ \E r \in Db!Latest.cols : /\ r.item = d
                                 /\ InFront(r, Db!Latest)
                                 /\ UNCHANGED <<failed, out>>
    \/ /\ \A r \in Db!Latest.cols : r.item # d
       /\ Opened(Db!Latest)
       /\ call' = Step("book", d, FALSE)
       /\ UNCHANGED items
    \/ /\ NotOpened
       /\ call' = Step("book", d, FALSE)
       /\ UNCHANGED items

\* Mutant: entries are told apart by project and link.
InsertByItem(d) ==
    /\ call = Idle
    /\ items # NotLoaded
    /\ visits < MaxVisits
    /\ visits' = visits + 1
    /\ \A i \in DOMAIN items : items[i].item # NoItem
    /\ LET i == SelectLastInSeq(items, LAMBDA it : it.item = d)
       IN  IF i = 0 THEN Find(d) ELSE Again(i)
    /\ UNCHANGED crashes

\* HistoryManager.insert; it throws at the first entry that has no item.
Insert(d) ==
    /\ call = Idle
    /\ items # NotLoaded
    /\ visits < MaxVisits
    /\ visits' = visits + 1
    /\ \A i \in DOMAIN items : items[i].item # NoItem
    /\ LET i == SelectLastInSeq(items, LAMBDA it : it.item.link = d.link)
       IN  IF i = 0 THEN Find(d) ELSE Again(i)
    /\ UNCHANGED crashes

\* Mutant: the book is left for its next save.
SaveBookLater ==
    /\ call.step = "book"
    /\ Opened(Db!Latest)
    /\ call' = Step("row", call.item, FALSE)
    /\ UNCHANGED <<items, visits, crashes>>

\* saveData and save of the book, if it is new.
SaveBook ==
    /\ call.step = "book"
    /\ \/ /\ Opened(WithBook(Db!Latest, call.item))
          /\ call' = Step("row", call.item, TRUE)
       \/ /\ NotOpened
          /\ call' = Step("row", call.item, FALSE)
    /\ UNCHANGED <<items, visits, crashes>>

\* save of the new CollectionData, whose entry is put in front in any case.
SaveRow ==
    /\ call.step = "row"
    /\ LET e == [id |-> 0, item |-> call.item, date |-> 0, target |-> call.target,
                 blind |-> out]
       IN  \/ /\ InFront(Numbered(Db!Latest, e), WithRow(Db!Latest, e))
              /\ UNCHANGED <<failed, out>>
           \/ /\ failed < MaxFailed
              /\ failed' = failed + 1
              /\ out' = TRUE
              /\ InFront([e EXCEPT !.blind = TRUE], Db!Latest)
    /\ UNCHANGED <<visits, crashes>>

\* HistoryItem.update gives the entry in front its date and saves it, which is
\* an INSERT again if it has no row yet.
Update ==
    /\ call.step = "update"
    /\ LET e == [items[1] EXCEPT !.date = visits]
       IN  \/ /\ e.id # 0
              /\ items' = [items EXCEPT ![1] = e]
              /\ hist' = Append(hist, WithDate(Db!Latest, e.id, visits))
              /\ UNCHANGED <<failed, out>>
           \/ /\ e.id = 0
              /\ items' = [items EXCEPT ![1] = Numbered(Db!Latest, e)]
              /\ Opened(WithRow(Db!Latest, e))
           \/ /\ e.id = 0
              /\ items' = [items EXCEPT ![1] = e]
              /\ NotOpened
    /\ call' = Idle
    /\ UNCHANGED <<visits, crashes>>

\* HistoryManager.clear
Clear ==
    /\ call = Idle
    /\ items # NotLoaded
    /\ items' = <<>>
    /\ hist' = hist \o Removals(Db!Latest, items)
    /\ UNCHANGED <<call, visits, crashes, failed, out>>

\* checkQueue, from its timer or for the next query: the file catches up.
Execute == /\ Db!Execute
           /\ UNCHANGED <<items, call, visits, crashes, failed, out>>

\* checkQueue from its timer, when the file does not open: what is queued is
\* forgotten, and the list stays as it is.
Unopened == /\ call = Idle
            /\ Len(hist) > 1
            /\ NotOpened
            /\ UNCHANGED <<items, call, visits, crashes>>

\* The process dies, in the middle of an operation or after it.
Crash == /\ crashes < MaxCrashes
         /\ crashes' = crashes + 1
         /\ items' = NotLoaded
         /\ call' = Idle
         /\ out' = FALSE
         /\ Db!Forget
         /\ UNCHANGED <<visits, failed>>

Next == \/ Load
        \/ \E d \in DataItem : Insert(d)
        \/ SaveBook \/ SaveRow \/ Update
        \/ Clear \/ Execute \/ Unopened \/ Crash

Spec == Init /\ [][Next]_vars

-----------------------------------------------------------------------------
\* The values the variables take.
TypeOK ==
    /\ hist \in Seq(Tables) /\ hist # <<>>
    /\ items = NotLoaded \/ items \in Seq(Row)
    /\ call \in [step : {"idle", "book", "row", "update"}, item : DataItem \cup {NoItem},
                 target : BOOLEAN]
    /\ visits \in 0..MaxVisits
    /\ crashes \in 0..MaxCrashes
    /\ failed \in 0..MaxFailed
    /\ out \in BOOLEAN

\* The entry is for the row, whose item it may have been unable to find.
EntryOf(e, r) == e.id = r.id /\ e.item \in {r.item, NoItem}

\* Every entry of the list that has an id has its row, in the file and in every
\* state a crash may leave it in; and the list and the table, as the program
\* has written it, are the same entries with the same dates, through evictions,
\* clears, repeated visits and restarts.  Only when the file has not opened for
\* this list, or for a statement since, may the table have rows or dates that
\* the list does not show (history_manager.dart:68-116, SQLite.cpp:213-218).
ListIsTable ==
    items # NotLoaded =>
        /\ \A i \in DOMAIN items : items[i].id # 0 =>
              \A n \in DOMAIN hist : \E r \in hist[n].cols : EntryOf(items[i], r)
        /\ ~out =>
              /\ Len(items) = Cardinality(Db!Latest.cols)
              /\ \A r \in Db!Latest.cols : \E i \in DOMAIN items :
                    EntryOf(items[i], r) /\ items[i].date = r.date

\* In the file, and in every state a crash may leave it in, a row points to a
\* book that is there: an entry without one has no item, and insert would
\* stop at its link.  Only a file that does not open for the book and opens
\* for the row leaves one that points nowhere (DataItem.cpp:134-157,
\* history_manager.dart:95-96).
TargetsExist ==
    \A n \in DOMAIN hist : \A r \in hist[n].cols :
        IF r.target THEN r.item \in hist[n].books ELSE r.blind

\* How many rows crashes and files that did not open account for: a removal
\* lost, or a list that was started anew.
Surplus == crashes + failed * (ITEM_COUNT + 1)

\* In any state a crash may leave, a link is in the history a second time only
\* by a row written when the file had not opened for the list; and the table
\* outgrows ITEM_COUNT by the row being inserted and what crashes and files
\* that did not open account for, no more (history_manager.dart:92-108).
OneRowPerLink ==
    \A n \in DOMAIN hist :
        /\ \A r, q \in hist[n].cols : r.item.link = q.item.link /\ r.id < q.id => q.blind
        /\ Cardinality(hist[n].cols) <= ITEM_COUNT + 1 + Surplus
=============================================================================
