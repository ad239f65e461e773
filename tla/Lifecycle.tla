----------------------------- MODULE Lifecycle ------------------------------
(***************************************************************************)
(* The life of the Dart objects that stand for C++ ones (AutoRelease and   *)
(* Base of plugins/glib/lib/core/core.dart): retain counts, the pool of    *)
(* objects without a holder, and the sweep of it 20 ms after a release.    *)
(* An object may own others through a field (a Context its callbacks, a    *)
(* GitAction its two), which its destroy releases in the middle of a       *)
(* sweep.  A C++ object that is handed to Dart gets the wrapper it has, or *)
(* a new one that is in the pool from the start.                           *)
(*                                                                         *)
(* Callers are taken to be balanced: they release what they hold, and they *)
(* control an object in the turn in which they got it.                     *)
(***************************************************************************)
EXTENDS Naturals, FiniteSets

CONSTANTS Objects,      \* wrappers, each used for one life
          Natives,      \* C++ objects that live throughout
          None,         \* no object
          MaxHold       \* bound on the holds of one object

ASSUME LifecycleAssumption == None \notin Objects /\ MaxHold \in Nat \ {0}

VARIABLES st,           \* "unused", "live" or "destroyed"
          count,        \* _retainCount
          hold,         \* how many of it are held by callers
          field,        \* the object that each object owns, or None
          db,           \* the wrapper of each C++ object (_objectDB, findScript)
          pool,         \* _cachePool
          timer,        \* the variable timer is not null
          armed,        \* the timer it names will fire
          sweeping,     \* _timeUp runs
          sweep         \* what is left of its copyList

vars == <<st, count, hold, field, db, pool, timer, armed, sweeping, sweep>>

Live == {o \in Objects : st[o] = "live"}
Unused == {o \in Objects : st[o] = "unused"}
Idle == ~sweeping       \* a turn of the event loop other than the sweep

-----------------------------------------------------------------------------
\* release of o, with the counts c: into the pool at 0; the timer is started
\* if there is none.
Released(o, c) == /\ pool' = IF c[o] = 1 THEN pool \cup {o} ELSE pool
                  /\ count' = [c EXCEPT ![o] = @ - 1]
                  /\ timer' = TRUE
                  /\ armed' = (armed \/ ~timer)

\* Base.allocate for a caller that holds it.
Allocate(o) == /\ Idle
               /\ o \in Unused
               /\ st' = [st EXCEPT ![o] = "live"]
               /\ count' = [count EXCEPT ![o] = 1]
               /\ hold' = [hold EXCEPT ![o] = 1]
               /\ UNCHANGED <<field, db, pool, timer, armed, sweeping, sweep>>

\* Mutant: control leaves the object in the pool.
ControlledInPool(o) == count' = [count EXCEPT ![o] = @ + 1] /\ UNCHANGED pool

\* control.
Controlled(o) == count' = [count EXCEPT ![o] = @ + 1] /\ pool' = pool \ {o}

\* dart_toDart finds the wrapper; the caller controls it.
Find(n) == LET o == db[n] IN
           /\ Idle
           /\ o # None
           /\ hold[o] < MaxHold
           /\ Controlled(o)
           /\ hold' = [hold EXCEPT ![o] = @ + 1]
           /\ UNCHANGED <<st, field, db, timer, armed, sweeping, sweep>>

\* _createNativeTarget: a new wrapper is released at once.
Wrap(n, o) == /\ Idle
              /\ db[n] = None
              /\ o \in Unused
              /\ st' = [st EXCEPT ![o] = "live"]
              /\ db' = [db EXCEPT ![n] = o]
              /\ Released(o, [count EXCEPT ![o] = 1])
              /\ UNCHANGED <<hold, field, sweeping, sweep>>

\* release by a caller.
Release(o) == /\ Idle
              /\ o \in Live
              /\ hold[o] > 0
              /\ hold' = [hold EXCEPT ![o] = @ - 1]
              /\ Released(o, count)
              /\ UNCHANGED <<st, field, db, sweeping, sweep>>

\* setOnComplete and its like: the old callback is released, a new one
\* allocated.  A caller that holds o calls it.
SetCallback(o, c) ==
    /\ Idle
    /\ hold[o] > 0
    /\ c \in Unused /\ field[c] = None /\ o # c
    /\ \A p \in Objects : field[p] # o            \* callbacks own nothing
    /\ st' = [st EXCEPT ![c] = "live"]
    /\ field' = [field EXCEPT ![o] = c]
    /\ LET cs == [count EXCEPT ![c] = 1] IN
       IF field[o] = None THEN count' = cs /\ UNCHANGED <<pool, timer, armed>>
       ELSE Released(field[o], cs)
    /\ UNCHANGED <<hold, db, sweeping, sweep>>

-----------------------------------------------------------------------------
\* _timeUp: the timer is cancelled, the pool copied and emptied.
TimeUp == /\ Idle
          /\ armed
          /\ armed' = FALSE
          /\ sweep' = pool
          /\ pool' = {}
          /\ sweeping' = TRUE
          /\ UNCHANGED <<st, count, hold, field, db, timer>>

\* Base.destroy: freeObject and _objectDB.remove.  Request overrides it without
\* calling it, and its entry stays in _objectDB; nothing looks a Request up there.
Forget(o) == [n \in Natives |-> IF db[n] = o THEN None ELSE db[n]]

\* destroy of one object: what it owns is released, and then it is freed.
\* A release of an object that has no count throws: the sweep ends there,
\* with the timer still set.
Destroy(o) ==
    /\ o \in sweep
    /\ IF field[o] # None /\ count[field[o]] = 0
       THEN /\ sweep' = {}
            /\ sweeping' = FALSE
            /\ UNCHANGED <<st, db, count, pool, timer, armed>>
       ELSE /\ sweep' = sweep \ {o}
            /\ st' = [st EXCEPT ![o] = "destroyed"]
            /\ db' = Forget(o)
            /\ IF field[o] = None THEN UNCHANGED <<count, pool, timer, armed>>
               ELSE Released(field[o], count)
            /\ UNCHANGED sweeping
    /\ UNCHANGED <<hold, field>>

\* Mutant: the timer's variable is left set.
SweepEndTimerKept == timer

\* What the sweep leaves in the variable timer.
SweepEndTimer == FALSE

\* _timeUp returns.
SweepEnd == /\ sweeping /\ sweep = {}
            /\ sweeping' = FALSE
            /\ timer' = SweepEndTimer
            /\ UNCHANGED <<st, count, hold, field, db, pool, armed, sweep>>

-----------------------------------------------------------------------------
Init == /\ st = [o \in Objects |-> "unused"]
        /\ count = [o \in Objects |-> 0] /\ hold = [o \in Objects |-> 0]
        /\ field = [o \in Objects |-> None]
        /\ db = [n \in Natives |-> None]
        /\ pool = {} /\ timer = FALSE /\ armed = FALSE
        /\ sweeping = FALSE /\ sweep = {}

Next == \/ \E o \in Objects : Allocate(o) \/ Release(o) \/ Destroy(o)
        \/ \E n \in Natives : Find(n) \/ \E o \in Objects : Wrap(n, o)
        \/ \E o, c \in Objects : SetCallback(o, c)
        \/ TimeUp \/ SweepEnd

\* The event loop runs timers, and a sweep to its end.  Nobody need release
\* anything.
Spec == Init /\ [][Next]_vars
             /\ WF_vars(TimeUp) /\ WF_vars(SweepEnd) /\ WF_vars(\E o \in Objects : Destroy(o))

-----------------------------------------------------------------------------
(***************************************************************************)
(* Properties.                                                             *)
(***************************************************************************)

\* The values the variables take.
TypeOK == /\ st \in [Objects -> {"unused", "live", "destroyed"}]
          /\ count \in [Objects -> 0..(MaxHold + 1)] /\ hold \in [Objects -> 0..MaxHold]
          /\ field \in [Objects -> Objects \cup {None}]
          /\ db \in [Natives -> Objects \cup {None}]
          /\ pool \subseteq Objects /\ sweep \subseteq Objects
          /\ timer \in BOOLEAN /\ armed \in BOOLEAN /\ sweeping \in BOOLEAN

\* AutoRelease and Base.destroy: an object that somebody holds, or that an
\* object which is still there owns, is not destroyed, and no sweep has it on
\* its list; and a wrapper that native code finds is not destroyed.
HeldIsAlive == /\ \A o \in Objects : hold[o] > 0 => o \in Live /\ o \notin sweep
               /\ \A o \in Live : field[o] # None => field[o] \in Live
               /\ \A n \in Natives : db[n] # None => db[n] \in Live

\* Objects whose owner is destroyed: what a sweep has released.
Orphans == {field[o] : o \in {p \in Objects : st[p] = "destroyed"}} \ {None}

\* What is released outside a sweep and not taken up again is destroyed.
Collected == \A o \in Objects : (o \in pool /\ o \notin Orphans)
                                    ~> (st[o] = "destroyed" \/ hold[o] > 0)

=============================================================================
