------------------------------ MODULE KeyValue ------------------------------
(***************************************************************************)
(* The settings table (models/KeyValue.cpp) as a client of the statement   *)
(* queue: get and set on the main thread, each made of one or two trips    *)
(* through Database::exce with the timers, the engine's life cycle and the *)
(* death of the process around them.                                       *)
(***************************************************************************)
EXTENDS Database

CONSTANTS Keys,         \* the keys the program uses
          Values,       \* the values it stores
          Empty         \* std::string(), what get returns for a missing key

ASSUME KeyValueAssumption == /\ Content = [key : Keys, value : Values]
                             /\ Empty \in Values

VARIABLES call,         \* the KeyValue call on the main thread's stack
          expect,       \* history: what get should return for each key
          missed        \* history: keys set although their query was not answered

kvVars == <<vars, call, expect, missed>>

NoCall == [op |-> "none"]
InCall(o, k, v) == [op |-> o, key |-> k, value |-> v]

\* The rows of f that query()->equal("key", k) returns.
RowsOf(f, k) == {i \in Ids : f.rows[i] # NoRow /\ f.rows[i].key = k}

\* res->get(0): without ORDER BY the rows come in the order of their ids.
FirstRow(f, k) == CHOOSE i \in RowsOf(f, k) : \A j \in RowsOf(f, k) : i <= j

\* The value get finds in the database f.
ValueIn(f, k) == IF RowsOf(f, k) = {} THEN Empty ELSE f.rows[FirstRow(f, k)].value

\* The row the query of the current call found, 0 for none: an unanswered
\* query, whose file did not open, leaves the results empty.
Found == IF reply = <<>> \/ RowsOf(reply[1], call.key) = {}
         THEN 0 ELSE FirstRow(reply[1], call.key)

KVInit == /\ Init
          /\ call = NoCall
          /\ expect = [k \in Keys |-> Empty]
          /\ missed = {}

-----------------------------------------------------------------------------
\* KeyValue::get up to its query.
Get(k) == /\ call = NoCall
          /\ Exce(Select)
          /\ call' = InCall("get", k, Empty)
          /\ UNCHANGED <<expect, missed>>

\* The rest of get, which hands Got to its caller.
GetReturn ==
    /\ call.op = "get"
    /\ pc = "idle"
    /\ call' = NoCall
    /\ UNCHANGED <<vars, expect, missed>>

\* The value the get that is returning hands to its caller.
Got == IF Found = 0 THEN Empty ELSE reply[1].rows[Found].value

\* KeyValue::set up to its query; the bound leaves room for the timer that
\* its UPDATE may need.
Set(k, v) == /\ call = NoCall
             /\ timers < MaxTimers
             /\ Exce(Select)
             /\ call' = InCall("set", k, v)
             /\ UNCHANGED <<expect, missed>>

\* Mutant: set never looks for the row that is there.
SetSaveInserts ==
    /\ call.op = "set"
    /\ expect' = [expect EXCEPT ![call.key] = call.value]
    /\ missed' = IF reply = <<>> THEN missed \cup {call.key} ELSE missed
    /\ View.seq < MaxId
    /\ Exce(Insert([key |-> call.key, value |-> call.value]))
    /\ call' = [call EXCEPT !.op = "insert"]

\* Mutant: set changes the object it found and forgets save().
SetSaveForgets ==
    /\ call.op = "set"
    /\ pc = "idle"
    /\ expect' = [expect EXCEPT ![call.key] = call.value]
    /\ missed' = IF reply = <<>> THEN missed \cup {call.key} ELSE missed
    /\ IF Found = 0
       THEN /\ View.seq < MaxId
            /\ Exce(Insert([key |-> call.key, value |-> call.value]))
            /\ call' = [call EXCEPT !.op = "insert"]
       ELSE /\ call' = NoCall
            /\ UNCHANGED vars

\* The rest of set: an existing row is updated through the queue, if the
\* setter found the value changed; otherwise a new row is inserted at once.  The
\* bound MaxId stands for the ids SQLite never runs out of.
SetSave ==
    /\ call.op = "set"
    /\ expect' = [expect EXCEPT ![call.key] = call.value]
    /\ missed' = IF reply = <<>> THEN missed \cup {call.key} ELSE missed
    /\ \/ /\ Found # 0
          /\ reply[1].rows[Found].value # call.value
          /\ QueueExce(Update(Found, [key |-> call.key, value |-> call.value]))
          /\ call' = NoCall
       \/ /\ Found # 0
          /\ reply[1].rows[Found].value = call.value
          /\ pc = "idle"
          /\ call' = NoCall
          /\ UNCHANGED vars
       \/ /\ Found = 0
          /\ View.seq < MaxId
          /\ Exce(Insert([key |-> call.key, value |-> call.value]))
          /\ call' = [call EXCEPT !.op = "insert"]

\* save() returns once the INSERT has been through checkQueue.
InsertReturn == /\ call.op = "insert"
                /\ pc = "idle"
                /\ call' = NoCall
                /\ UNCHANGED <<vars, expect, missed>>

\* History: a round of checkQueue whose file does not open throws away what is
\* queued, and the program can only expect what the file holds.
Expect == expect' = IF pc # "flush" /\ pc' = "flush" /\ ~db'
                    THEN [k \in Keys |-> ValueIn(disk, k)] ELSE expect

\* checkQueue under a call of KeyValue or under a timer.
KVMainThread == /\ MainThread
                /\ Expect
                /\ UNCHANGED <<call, missed>>

\* The event loop fires a timer or detaches the engine when no call runs.
KVTimerUp == /\ call = NoCall
             /\ TimerUp
             /\ Expect
             /\ UNCHANGED <<call, missed>>

KVDetach == /\ call = NoCall
            /\ Detach
            /\ UNCHANGED <<call, expect, missed>>

KVCrash == Crash /\ call' = NoCall /\ UNCHANGED <<expect, missed>>

\* After a restart the program can only expect what the file holds.
KVSetup == /\ Setup
           /\ expect' = [k \in Keys |-> ValueIn(disk, k)]
           /\ UNCHANGED <<call, missed>>

KVCalls == \/ \E k \in Keys : Get(k)
           \/ \E k \in Keys, v \in Values : Set(k, v)

KVReturns == GetReturn \/ SetSave \/ InsertReturn

KVNext == KVCalls \/ KVReturns \/ KVMainThread \/ KVTimerUp
            \/ KVDetach \/ KVCrash \/ KVSetup

KVSpec == KVInit /\ [][KVNext]_kvVars

-----------------------------------------------------------------------------
\* set never makes a second row for a key, in the file or in any database a
\* crash may leave: its query runs everything still queued first.  The one
\* exception is a set whose query found the file closed and whose INSERT found
\* it open: it takes the key for new (KeyValue.cpp:21-33).
OneRowPerKey ==
    \A f \in {disk} \cup {ahead[i] : i \in 1..Len(ahead)} :
        \A i, j \in Ids :
            f.rows[i] # NoRow /\ f.rows[j] # NoRow /\ f.rows[i].key = f.rows[j].key
                => i = j \/ f.rows[i].key \in missed

\* A get whose query is answered returns the last value set for its key since
\* the file was last all there was (a restart, or a file that did not open),
\* however much of it is still in the queue; only a key that got its second row
\* as above may show the older one (KeyValue.cpp:10-19).
GetReturnsLastSet ==
    call.op = "get" /\ pc = "idle" /\ reply # <<>>
      => Got = expect[call.key] \/ call.key \in missed
=============================================================================
