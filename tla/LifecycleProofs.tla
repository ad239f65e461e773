-------------------------- MODULE LifecycleProofs ---------------------------
(***************************************************************************)
(* Theorems about the retain counts of module Lifecycle, for any objects   *)
(* on both sides and any bound on the holds; and about one of the objects  *)
(* it collects, the HTTP request of module Request.                        *)
(***************************************************************************)
EXTENDS Lifecycle, Request, TLAPS

\* Some object that is there owns o.
Owned(o) == \E p \in Objects : st[p] = "live" /\ field[p] = o

\* The count of an object is what its callers and its owner hold.
Counted == \A o \in Objects : count[o] = hold[o] + IF Owned(o) THEN 1 ELSE 0

\* An object that is not there has no count.
GoneHasNone == \A o \in Objects : st[o] # "live" => count[o] = 0

\* An object has one owner for its whole life, and is in use from then on.
OneOwner == \A p \in Objects : field[p] # None =>
                /\ st[p] # "unused" /\ st[field[p]] # "unused"
                /\ \A q \in Objects : field[q] = field[p] => q = p

\* What is in the pool or on the list of a sweep is there and has no count.
Collectable ==
    /\ \A o \in pool \cup sweep : st[o] = "live" /\ count[o] = 0
    /\ pool \cap sweep = {}
    /\ ~sweeping => sweep = {}

\* A C++ object does not lead to a wrapper that is gone.
Registered == \A n \in Natives : db[n] # None => st[db[n]] = "live"

IInv == TypeOK /\ Counted /\ GoneHasNone /\ OneOwner /\ Collectable /\ Registered

Counts == [Objects -> 0..(MaxHold + 1)]

-----------------------------------------------------------------------------
(***************************************************************************)
(* The operations.                                                         *)
(***************************************************************************)

\* release: one count less, and into the pool with the last one.
LEMMA ReleasedEffect ==
    ASSUME TypeOK, NEW c \in Counts, NEW o \in Objects, 0 < c[o], Released(o, c)
    PROVE  /\ count' \in Counts
           /\ count'[o] = c[o] - 1 /\ \A x \in Objects : x # o => count'[x] = c[x]
           /\ pool' = IF c[o] = 1 THEN pool \cup {o} ELSE pool
           /\ timer' \in BOOLEAN /\ armed' \in BOOLEAN
<1>1. /\ count' \in Counts
      /\ count'[o] = c[o] - 1 /\ \A x \in Objects : x # o => count'[x] = c[x]
    BY LifecycleAssumption DEF Released, Counts
<1>2. timer' \in BOOLEAN /\ armed' \in BOOLEAN
    BY Zenon DEF Released
<1> QED
    BY <1>1, <1>2 DEF Released

\* Base.allocate.
LEMMA AllocateStep ==
    ASSUME IInv, NEW o \in Objects, Allocate(o)
    PROVE  IInv'
<1> USE LifecycleAssumption DEF Allocate, Unused
<1>1. TypeOK'
    BY DEF IInv, TypeOK
<1>2. /\ st[o] = "unused" /\ count[o] = 0 /\ field[o] = None
      /\ \A p \in Objects : field[p] # o
    BY DEF IInv, GoneHasNone, OneOwner, TypeOK
<1>3. \A x \in Objects : Owned(x)' <=> Owned(x)
    BY <1>2 DEF IInv, TypeOK, Owned
<1>4. ~Owned(o)
    BY <1>2 DEF Owned
<1>5. Counted'
    BY <1>3, <1>4 DEF IInv, TypeOK, Counted
<1>6. GoneHasNone' /\ OneOwner' /\ Registered'
    BY <1>2 DEF IInv, TypeOK, GoneHasNone, OneOwner, Registered
<1>7. Collectable'
    BY <1>2 DEF IInv, TypeOK, Collectable
<1> QED
    BY <1>1, <1>5, <1>6, <1>7 DEF IInv

\* dart_toDart finds the wrapper of a C++ object and control takes it.
LEMMA FindStep ==
    ASSUME IInv, NEW n \in Natives, Find(n)
    PROVE  IInv'
<1> DEFINE o == db[n]
<1> USE LifecycleAssumption
<1>1. /\ o \in Objects /\ st[o] = "live" /\ hold[o] < MaxHold /\ ~sweeping
      /\ count' = [count EXCEPT ![o] = @ + 1] /\ pool' = pool \ {o}
      /\ hold' = [hold EXCEPT ![o] = @ + 1]
      /\ UNCHANGED <<st, field, db, timer, armed, sweeping, sweep>>
    BY DEF IInv, TypeOK, Registered, Find, Controlled, Idle
<1> HIDE DEF o
<1>2. count[o] <= MaxHold
    BY <1>1 DEF IInv, TypeOK, Counted
<1>3. TypeOK'
    BY <1>1, <1>2 DEF IInv, TypeOK
<1>4. \A x \in Objects : Owned(x)' <=> Owned(x)
    BY <1>1 DEF Owned
<1>5. Counted'
    BY <1>1, <1>4 DEF IInv, TypeOK, Counted
<1>6. GoneHasNone' /\ OneOwner' /\ Registered'
    BY <1>1 DEF IInv, TypeOK, GoneHasNone, OneOwner, Registered
<1>7. Collectable'
    BY <1>1 DEF IInv, TypeOK, Collectable
<1> QED
    BY <1>3, <1>5, <1>6, <1>7 DEF IInv

\* _createNativeTarget: a new wrapper goes straight into the pool.
LEMMA WrapStep ==
    ASSUME IInv, NEW n \in Natives, NEW o \in Objects, Wrap(n, o)
    PROVE  IInv'
<1> USE LifecycleAssumption
<1>1. /\ st[o] = "unused" /\ count[o] = 0 /\ field[o] = None
      /\ \A p \in Objects : field[p] # o
    BY DEF IInv, GoneHasNone, OneOwner, TypeOK, Wrap, Unused
<1>2. /\ st' = [st EXCEPT ![o] = "live"] /\ db' = [db EXCEPT ![n] = o]
      /\ UNCHANGED <<hold, field, sweeping, sweep>>
    BY DEF Wrap
<1>3. /\ count' = count /\ pool' = pool \cup {o}
      /\ timer' \in BOOLEAN /\ armed' \in BOOLEAN
    <2> DEFINE c == [count EXCEPT ![o] = 1]
    <2>1. c \in Counts /\ c[o] = 1 /\ \A x \in Objects : x # o => c[x] = count[x]
        BY DEF IInv, TypeOK, Counts
    <2>2. Released(o, c)
        BY DEF Wrap
    <2> HIDE DEF c
    <2>3. /\ count' \in Counts
          /\ count'[o] = 0 /\ \A x \in Objects : x # o => count'[x] = c[x]
          /\ pool' = pool \cup {o} /\ timer' \in BOOLEAN /\ armed' \in BOOLEAN
        BY <2>1, <2>2, ReleasedEffect DEF IInv
    <2>4. \A x \in Objects : count'[x] = count[x]
        BY <1>1, <2>1, <2>3
    <2> QED
        BY <2>3, <2>4 DEF IInv, TypeOK, Counts
<1>4. TypeOK'
    BY <1>2, <1>3 DEF IInv, TypeOK
<1>5. \A x \in Objects : Owned(x)' <=> Owned(x)
    BY <1>1, <1>2 DEF IInv, TypeOK, Owned
<1>6. Counted'
    BY <1>2, <1>3, <1>5 DEF IInv, TypeOK, Counted
<1>7. GoneHasNone' /\ OneOwner' /\ Registered'
    BY <1>1, <1>2, <1>3 DEF IInv, TypeOK, GoneHasNone, OneOwner, Registered
<1>8. Collectable'
    BY <1>1, <1>2, <1>3 DEF IInv, TypeOK, Collectable
<1> QED
    BY <1>4, <1>6, <1>7, <1>8 DEF IInv

\* release by a caller that holds the object.
LEMMA ReleaseStep ==
    ASSUME IInv, NEW o \in Objects, Release(o)
    PROVE  IInv'
<1> USE LifecycleAssumption
<1>1. /\ st[o] = "live" /\ hold[o] > 0 /\ ~sweeping
      /\ hold' = [hold EXCEPT ![o] = @ - 1]
      /\ UNCHANGED <<st, field, db, sweeping, sweep>>
    BY DEF Release, Live, Idle
<1>2. count \in Counts /\ 0 < count[o]
    BY <1>1 DEF IInv, TypeOK, Counts, Counted
<1>3. /\ count' \in Counts
      /\ count'[o] = count[o] - 1 /\ \A x \in Objects : x # o => count'[x] = count[x]
      /\ pool' = IF count[o] = 1 THEN pool \cup {o} ELSE pool
      /\ timer' \in BOOLEAN /\ armed' \in BOOLEAN
    BY <1>2, ReleasedEffect DEF IInv, Release
<1>4. TypeOK'
    <2>1. hold' \in [Objects -> 0..MaxHold]
        BY <1>1 DEF IInv, TypeOK
    <2>2. pool' \subseteq Objects
        BY <1>3 DEF IInv, TypeOK
    <2> QED
        BY <1>1, <1>3, <2>1, <2>2 DEF IInv, TypeOK, Counts
<1>5. \A x \in Objects : Owned(x)' <=> Owned(x)
    BY <1>1 DEF Owned
<1>6. Counted'
    BY <1>1, <1>2, <1>3, <1>5 DEF IInv, TypeOK, Counted, Counts
<1>7. GoneHasNone' /\ OneOwner' /\ Registered'
    BY <1>1, <1>3 DEF IInv, TypeOK, GoneHasNone, OneOwner, Registered
<1>8. Collectable'
    BY <1>1, <1>2, <1>3 DEF IInv, TypeOK, Collectable, Counts
<1> QED
    BY <1>4, <1>6, <1>7, <1>8 DEF IInv

\* setOnComplete and its like: the new callback has one owner from the start,
\* and the old one loses its owner with the count it stood for.
LEMMA SetCallbackStep ==
    ASSUME IInv, NEW o \in Objects, NEW c \in Objects, SetCallback(o, c)
    PROVE  IInv'
<1> USE LifecycleAssumption
<1> DEFINE cs == [count EXCEPT ![c] = 1]
           f == field[o]
<1>1. /\ ~sweeping /\ hold[o] > 0 /\ st[c] = "unused" /\ field[c] = None /\ o # c
      /\ \A p \in Objects : field[p] # o
      /\ st' = [st EXCEPT ![c] = "live"] /\ field' = [field EXCEPT ![o] = c]
      /\ UNCHANGED <<hold, db, sweeping, sweep>>
    BY DEF SetCallback, Unused, Idle
<1>2. /\ st[o] = "live" /\ count[c] = 0 /\ hold[c] = 0
      /\ \A p \in Objects : field[p] # c
    <2>1. count[c] = 0 /\ \A p \in Objects : field[p] # c
        BY <1>1 DEF IInv, GoneHasNone, OneOwner, TypeOK
    <2>2. count[o] > 0
        BY <1>1 DEF IInv, Counted, TypeOK
    <2> QED
        BY <2>1, <2>2 DEF IInv, Counted, GoneHasNone, TypeOK
<1>3. cs \in Counts /\ cs[c] = 1 /\ \A x \in Objects : x # c => cs[x] = count[x]
    BY DEF IInv, TypeOK, Counts
<1> HIDE DEF cs
<1>4. Owned(c)' /\ \A x \in Objects : x # c => (Owned(x)' <=> Owned(x) /\ x # f)
    <2>1. Owned(c)'
        BY <1>1, <1>2 DEF Owned, IInv, TypeOK
    <2>2. ASSUME NEW x \in Objects, x # c
          PROVE  Owned(x)' <=> Owned(x) /\ x # f
        <3>1. ASSUME NEW p \in Objects, st'[p] = "live", field'[p] = x
              PROVE  st[p] = "live" /\ field[p] = x /\ x # f
            <4>1. p # o /\ p # c
                BY <1>1, <2>2, <3>1 DEF IInv, TypeOK
            <4> QED
                BY <1>1, <3>1, <4>1 DEF IInv, TypeOK, OneOwner
        <3>2. ASSUME NEW p \in Objects, st[p] = "live", field[p] = x, x # f
              PROVE  st'[p] = "live" /\ field'[p] = x
            BY <1>1, <3>2 DEF IInv, TypeOK
        <3> QED
            BY <3>1, <3>2 DEF Owned
    <2> QED
        BY <2>1, <2>2
<1>5. OneOwner'
    BY <1>1, <1>2 DEF IInv, TypeOK, OneOwner
<1>6. Registered'
    BY <1>1 DEF IInv, TypeOK, Registered
<1>7. CASE f = None
    <2>1. count' = cs /\ UNCHANGED <<pool, timer, armed>>
        BY <1>7 DEF SetCallback, cs
    <2>2. TypeOK'
        BY <1>1, <1>3, <2>1 DEF IInv, TypeOK, Counts
    <2>3. Counted'
        BY <1>1, <1>2, <1>3, <1>4, <1>7, <2>1 DEF IInv, TypeOK, Counted
    <2>4. GoneHasNone'
        BY <1>1, <1>3, <2>1 DEF IInv, TypeOK, GoneHasNone
    <2>5. Collectable'
        BY <1>1, <1>3, <2>1 DEF IInv, TypeOK, Collectable
    <2> QED
        BY <1>5, <1>6, <2>2, <2>3, <2>4, <2>5 DEF IInv
<1>8. CASE f # None
    <2>1. f \in Objects /\ f # c /\ f # o /\ Owned(f)
        BY <1>1, <1>2, <1>8 DEF IInv, TypeOK, Owned
    <2>2. 0 < cs[f] /\ Released(f, cs)
        BY <1>3, <1>8, <2>1 DEF SetCallback, cs, IInv, Counted, TypeOK
    <2>3. /\ count' \in Counts
          /\ count'[f] = cs[f] - 1 /\ \A x \in Objects : x # f => count'[x] = cs[x]
          /\ pool' = IF cs[f] = 1 THEN pool \cup {f} ELSE pool
          /\ timer' \in BOOLEAN /\ armed' \in BOOLEAN
        BY <1>3, <2>1, <2>2, ReleasedEffect DEF IInv
    <2>4. TypeOK'
        BY <1>1, <2>1, <2>3 DEF IInv, TypeOK, Counts
    <2>5. Counted'
        <3>1. ASSUME NEW x \in Objects, x = f
              PROVE  count'[x] = hold[x] /\ ~Owned(x)'
            <4>1. cs[f] = hold[f] + 1 /\ hold[f] \in Nat
                BY <1>3, <2>1 DEF IInv, TypeOK, Counted
            <4>2. count'[x] = hold[x]
                BY <2>3, <3>1, <4>1
            <4>3. ~Owned(x)'
                BY <1>4, <2>1, <3>1
            <4> QED
                BY <4>2, <4>3
        <3>2. count'[c] = 1
            BY <1>3, <2>1, <2>3
        <3>3. \A x \in Objects : x # f /\ x # c => count'[x] = count[x] /\ (Owned(x)' <=> Owned(x))
            BY <1>3, <1>4, <2>3
        <3> QED
            BY <1>1, <1>2, <1>4, <3>1, <3>2, <3>3 DEF IInv, TypeOK, Counted
    <2>6. st[f] = "live"
        BY <2>1, <2>2, <1>3 DEF IInv, GoneHasNone
    <2>7. GoneHasNone'
        BY <1>1, <1>3, <2>3, <2>6 DEF IInv, TypeOK, GoneHasNone
    <2>8. Collectable'
        BY <1>1, <1>3, <2>1, <2>2, <2>3, <2>6 DEF IInv, TypeOK, Collectable, Counts
    <2> QED
        BY <1>5, <1>6, <2>4, <2>5, <2>7, <2>8 DEF IInv
<1> QED
    BY <1>7, <1>8

\* Base.destroy in a sweep: what the object owns is released, nobody else
\* owns it, and the object leaves both lists.  What is owned has a count, so
\* that the release never throws.
LEMMA DestroyStep ==
    ASSUME IInv, NEW o \in Objects, Destroy(o)
    PROVE  IInv'
<1> USE LifecycleAssumption
<1> DEFINE f == field[o]
<1>1. o \in sweep /\ st[o] = "live" /\ count[o] = 0 /\ o \notin pool /\ sweeping
    BY DEF Destroy, IInv, Collectable, TypeOK
<1>2. f # None => f \in Objects /\ Owned(f) /\ 0 < count[f] /\ st[f] = "live" /\ f # o
    <2> SUFFICES ASSUME f # None
                 PROVE  f \in Objects /\ Owned(f) /\ 0 < count[f] /\ st[f] = "live" /\ f # o
        OBVIOUS
    <2>1. f \in Objects /\ Owned(f)
        BY <1>1 DEF IInv, TypeOK, Owned
    <2>2. 0 < count[f]
        BY <2>1 DEF IInv, TypeOK, Counted
    <2> QED
        BY <1>1, <2>1, <2>2 DEF IInv, GoneHasNone
<1>3. /\ sweep' = sweep \ {o} /\ st' = [st EXCEPT ![o] = "destroyed"] /\ db' = Forget(o)
      /\ UNCHANGED <<hold, field, sweeping>>
    BY <1>2 DEF Destroy
<1>4. hold[o] = 0 /\ ~Owned(o)
    BY <1>1 DEF IInv, TypeOK, Counted
<1>5. \A x \in Objects : Owned(x)' <=> Owned(x) /\ x # f
    <2> TAKE x \in Objects
    <2>1. ASSUME NEW p \in Objects, st'[p] = "live", field'[p] = x
          PROVE  st[p] = "live" /\ field[p] = x /\ x # f
        <3>1. p # o
            BY <1>3, <2>1 DEF IInv, TypeOK
        <3> QED
            BY <1>3, <2>1, <3>1 DEF IInv, TypeOK, OneOwner
    <2>2. ASSUME NEW p \in Objects, st[p] = "live", field[p] = x, x # f
          PROVE  st'[p] = "live" /\ field'[p] = x
        BY <1>3, <2>2 DEF IInv, TypeOK
    <2> QED
        BY <2>1, <2>2 DEF Owned
<1>6. OneOwner'
    BY <1>3 DEF IInv, TypeOK, OneOwner
<1>7. Registered' /\ db' \in [Natives -> Objects \cup {None}]
    BY <1>3 DEF IInv, TypeOK, Registered, Forget
<1>8. /\ count' \in Counts
      /\ \A x \in Objects : count'[x] = IF x = f THEN count[x] - 1 ELSE count[x]
      /\ pool' = IF f # None /\ count[f] = 1 THEN pool \cup {f} ELSE pool
      /\ timer' \in BOOLEAN /\ armed' \in BOOLEAN
    <2>1. CASE f = None
        <3>1. UNCHANGED <<count, pool, timer, armed>>
            BY <2>1 DEF Destroy
        <3> QED
            BY <2>1, <3>1 DEF IInv, TypeOK, Counts
    <2>2. CASE f # None
        <3>1. Released(f, count) /\ count \in Counts
            BY <1>2, <2>2 DEF Destroy, IInv, TypeOK, Counts
        <3> QED
            BY <1>2, <2>2, <3>1, ReleasedEffect DEF IInv
    <2> QED
        BY <2>1, <2>2
<1>9. TypeOK'
    BY <1>2, <1>3, <1>7, <1>8 DEF IInv, TypeOK, Counts
<1>10. Counted'
    <2>1. ASSUME NEW x \in Objects, x = f
          PROVE  count'[x] = hold'[x] + IF Owned(x)' THEN 1 ELSE 0
        <3>1. x # None
            BY LifecycleAssumption
        <3>2. count[x] = hold[x] + 1 /\ hold[x] \in Nat
            BY <1>2, <2>1, <3>1 DEF IInv, TypeOK, Counted
        <3>3. ~Owned(x)'
            BY <1>5, <2>1
        <3> QED
            <4>1. count'[x] = count[x] - 1 /\ hold'[x] = hold[x]
                BY <1>3, <1>8, <2>1
            <4> QED
                BY <3>2, <3>3, <4>1
    <2>2. ASSUME NEW x \in Objects, x # f
          PROVE  count'[x] = hold'[x] + IF Owned(x)' THEN 1 ELSE 0
        BY <1>3, <1>5, <1>8, <2>2 DEF IInv, TypeOK, Counted
    <2> QED
        BY <2>1, <2>2 DEF Counted
<1>11. GoneHasNone'
    BY <1>1, <1>2, <1>3, <1>8 DEF IInv, TypeOK, GoneHasNone
<1>12. Collectable'
    BY <1>1, <1>2, <1>3, <1>8 DEF IInv, TypeOK, Collectable
<1> QED
    BY <1>6, <1>7, <1>9, <1>10, <1>11, <1>12 DEF IInv

\* _timeUp starts: the pool becomes the list of the sweep.
LEMMA TimeUpStep ==
    ASSUME IInv, TimeUp
    PROVE  IInv'
<1>1. /\ ~sweeping /\ sweep' = pool /\ pool' = {} /\ sweeping' = TRUE /\ armed' = FALSE
      /\ UNCHANGED <<st, count, hold, field, db, timer>>
    BY DEF TimeUp, Idle
<1>2. TypeOK'
    BY <1>1 DEF IInv, TypeOK
<1>3. Counted' /\ GoneHasNone' /\ OneOwner' /\ Registered'
    BY <1>1 DEF IInv, Counted, Owned, GoneHasNone, OneOwner, Registered
<1>4. Collectable'
    BY <1>1 DEF IInv, Collectable
<1> QED
    BY <1>2, <1>3, <1>4 DEF IInv

\* _timeUp returns.
LEMMA SweepEndStep ==
    ASSUME IInv, SweepEnd
    PROVE  IInv'
<1>1. /\ sweep = {} /\ sweeping' = FALSE /\ timer' = FALSE
      /\ UNCHANGED <<st, count, hold, field, db, pool, armed, sweep>>
    BY DEF SweepEnd, SweepEndTimer
<1>2. TypeOK'
    BY <1>1 DEF IInv, TypeOK
<1>3. Counted' /\ GoneHasNone' /\ OneOwner' /\ Registered'
    BY <1>1 DEF IInv, Counted, Owned, GoneHasNone, OneOwner, Registered
<1>4. Collectable'
    BY <1>1 DEF IInv, Collectable
<1> QED
    BY <1>2, <1>3, <1>4 DEF IInv

-----------------------------------------------------------------------------
(***************************************************************************)
(* Theorems.                                                               *)
(***************************************************************************)

\* The retain counts, the pool and the sweep of AutoRelease stay consistent
\* with who holds and who owns what.
THEOREM Invariance == Spec => []IInv
<1>1. Init => IInv
    <2> SUFFICES ASSUME Init PROVE IInv
        OBVIOUS
    <2>1. TypeOK
        <3>1. timer \in BOOLEAN /\ armed \in BOOLEAN /\ sweeping \in BOOLEAN
            BY Zenon DEF Init
        <3>2. /\ st \in [Objects -> {"unused", "live", "destroyed"}]
              /\ field \in [Objects -> Objects \cup {None}]
              /\ db \in [Natives -> Objects \cup {None}]
              /\ pool \subseteq Objects /\ sweep \subseteq Objects
            BY DEF Init
        <3>3. count \in [Objects -> 0..(MaxHold + 1)] /\ hold \in [Objects -> 0..MaxHold]
            BY LifecycleAssumption DEF Init
        <3> QED
            BY <3>1, <3>2, <3>3 DEF TypeOK
    <2>2. Counted
        BY DEF Init, Counted, Owned
    <2>3. GoneHasNone /\ OneOwner /\ Collectable /\ Registered
        BY DEF Init, GoneHasNone, OneOwner, Collectable, Registered
    <2> QED
        BY <2>1, <2>2, <2>3 DEF IInv
<1>2. IInv /\ [Next]_vars => IInv'
    <2> SUFFICES ASSUME IInv, [Next]_vars PROVE IInv'
        OBVIOUS
    <2>1. ASSUME NEW o \in Objects, Allocate(o) PROVE IInv'
        BY <2>1, AllocateStep
    <2>2. ASSUME NEW o \in Objects, Release(o) PROVE IInv'
        BY <2>2, ReleaseStep
    <2>3. ASSUME NEW o \in Objects, Destroy(o) PROVE IInv'
        BY <2>3, DestroyStep
    <2>4. ASSUME NEW n \in Natives, Find(n) PROVE IInv'
        BY <2>4, FindStep
    <2>5. ASSUME NEW n \in Natives, NEW o \in Objects, Wrap(n, o) PROVE IInv'
        BY <2>5, WrapStep
    <2>6. ASSUME NEW o \in Objects, NEW c \in Objects, SetCallback(o, c) PROVE IInv'
        BY <2>6, SetCallbackStep
    <2>7. CASE TimeUp
        BY <2>7, TimeUpStep
    <2>8. CASE SweepEnd
        BY <2>8, SweepEndStep
    <2>9. CASE UNCHANGED vars
        BY <2>9 DEF vars, IInv, TypeOK, Counted, Owned, GoneHasNone, OneOwner,
                    Collectable, Registered
    <2> QED
        BY <2>1, <2>2, <2>3, <2>4, <2>5, <2>6, <2>7, <2>8, <2>9 DEF Next
<1> QED
    BY <1>1, <1>2, PTL DEF Spec

\* The variables of AutoRelease and Base keep their types; no count exceeds
\* the holds and the one owner an object can have.
THEOREM TypeCorrect == Spec => []TypeOK
<1>1. IInv => TypeOK
    BY DEF IInv
<1> QED
    BY <1>1, Invariance, PTL

\* AutoRelease, Base.destroy and dart_toDart: what a caller holds, what an
\* object that is there owns and what native code finds is never destroyed.
THEOREM HeldStaysAlive == Spec => []HeldIsAlive
<1>1. IInv => HeldIsAlive
    <2> SUFFICES ASSUME IInv PROVE HeldIsAlive
        OBVIOUS
    <2>1. ASSUME NEW o \in Objects, 0 < count[o] PROVE st[o] = "live" /\ o \notin sweep
        BY <2>1 DEF IInv, TypeOK, GoneHasNone, Collectable
    <2>2. ASSUME NEW o \in Objects, hold[o] > 0 PROVE 0 < count[o]
        BY <2>2 DEF IInv, TypeOK, Counted
    <2>3. ASSUME NEW o \in Objects, st[o] = "live", field[o] # None
          PROVE  field[o] \in Objects /\ 0 < count[field[o]]
        <3>1. field[o] \in Objects /\ Owned(field[o])
            BY <2>3 DEF IInv, TypeOK, Owned
        <3> QED
            BY <3>1 DEF IInv, TypeOK, Counted
    <2>4. \A n \in Natives : db[n] # None => db[n] \in Live
        BY DEF IInv, TypeOK, Registered, Live
    <2>5. \A o \in Objects : hold[o] > 0 => o \in Live /\ o \notin sweep
        BY <2>1, <2>2 DEF Live
    <2>6. \A o \in Live : field[o] # None => field[o] \in Live
        BY <2>1, <2>3 DEF Live
    <2> QED
        BY <2>4, <2>5, <2>6 DEF HeldIsAlive
<1> QED
    BY <1>1, Invariance, PTL

\* Base.destroy never releases an object that has no count, the case in
\* which AutoRelease.release throws and the sweep is lost.
THEOREM SweepNeverThrows ==
    Spec => [](\A o \in sweep : field[o] # None => count[field[o]] # 0)
<1>1. IInv => \A o \in sweep : field[o] # None => count[field[o]] # 0
    <2> SUFFICES ASSUME IInv, NEW o \in sweep, field[o] # None
                 PROVE  count[field[o]] # 0
        OBVIOUS
    <2>1. o \in Objects /\ st[o] = "live"
        BY DEF IInv, TypeOK, Collectable
    <2>2. field[o] \in Objects /\ Owned(field[o])
        BY <2>1 DEF IInv, TypeOK, Owned
    <2> QED
        BY <2>2 DEF IInv, TypeOK, Counted
<1> QED
    BY <1>1, Invariance, PTL

-----------------------------------------------------------------------------
(***************************************************************************)
(* HTTP requests: module Request.                                          *)
(***************************************************************************)

\* onComplete is not invoked before start ends, and freeCallbacks has left
\* nothing but onResponse in a request that was cancelled or, once started,
\* destroyed.
Quiet ==
    /\ pc # "over" => heard = 0
    /\ canceled \/ (object = "destroyed" /\ pc # "new") => cb \cap {"progress", "complete"} = {}

\* What a callback that is invoked may count on.
Disciplined ==
    calls' # "none" => /\ ~canceled
                       /\ object = "destroyed" => calls' = "response"
                       /\ calls' = "complete" => heard' = 1 /\ (error' \/ body' = Parts)

\* cancel frees the callbacks.
LEMMA CancelledFrees ==
    ASSUME NEW s, Cancelled(s)
    PROVE  cb' \subseteq cb /\ cb' \cap {"progress", "complete"} = {}
BY DEF Cancelled, FreeCallbacks

\* A callback of freeCallbacks that is invoked is invoked for a request that
\* is neither cancelled nor destroyed; it may cancel, and sets nothing.
LEMMA InvokeQuiet ==
    ASSUME Quiet, pc # "new", NEW k \in {"progress", "complete"}, NEW s, Invoke(k, s)
    PROVE  /\ calls' # "none" => calls' = k /\ k \in cb /\ ~canceled /\ object # "destroyed"
           /\ cb' \subseteq cb
           /\ (canceled' /\ ~canceled) => cb' \cap {"progress", "complete"} = {}
<1>1. calls' = IF k \in cb THEN k ELSE "none"
  BY DEF Invoke
<1>2. CASE UNCHANGED <<cb, canceled>>
  BY <1>1, <1>2 DEF Quiet
<1>3. CASE Cancelled(s)
  BY <1>1, <1>3, CancelledFrees DEF Quiet
<1>. QED
  BY <1>2, <1>3 DEF Invoke

\* The end of start with a body: onComplete, if it is set, for the first time.
LEMMA FinishQuiet ==
    ASSUME Quiet, pc \in {"body", "cache"}, NEW b, Finish(b), ~canceled => b = Parts
    PROVE  Quiet' /\ Disciplined
<1>1. /\ pc' = "over" /\ body' = b /\ Invoke("complete", sub)
      /\ heard' = heard + (IF "complete" \in cb THEN 1 ELSE 0)
      /\ object' = object
  BY DEF Finish
<1>2. heard = 0
  BY DEF Quiet
<1>3. /\ calls' # "none" => /\ calls' = "complete" /\ "complete" \in cb
                            /\ ~canceled /\ object # "destroyed"
      /\ cb' \subseteq cb
      /\ (canceled' /\ ~canceled) => cb' \cap {"progress", "complete"} = {}
  BY <1>1, InvokeQuiet
<1>. QED
  BY <1>1, <1>2, <1>3 DEF Quiet, Disciplined

\* catch: onComplete for the first time, with an error.
LEMMA CatchQuiet ==
    ASSUME Quiet, pc \in {"dio", "cache", "body"}, Catch
    PROVE  Quiet' /\ Disciplined
<1>1. /\ pc' = "over" /\ error' = TRUE /\ Cancelled(sub) /\ object' = object
      /\ heard' = heard + (IF "complete" \in cb THEN 1 ELSE 0)
      /\ calls' = IF "complete" \in cb THEN "complete" ELSE "none"
  BY DEF Catch
<1>2. heard = 0
  BY DEF Quiet
<1>3. cb' \cap {"progress", "complete"} = {}
  BY <1>1, CancelledFrees
<1>. QED
  BY <1>1, <1>2, <1>3 DEF Quiet, Disciplined

\* Every step of start and of its callers.
LEMMA RequestStep ==
    ASSUME Quiet, RequestNext
    PROVE  Quiet' /\ Disciplined
<1>1. CASE \E k \in Callbacks : SetOn(k)
  BY <1>1 DEF SetOn, Quiet, Disciplined
<1>2. CASE \E p \in {"dio", "cache"} : Start(p)
  BY <1>2 DEF Start, Quiet, Disciplined
<1>3. CASE Cancel
  BY <1>3, CancelledFrees DEF Cancel, Quiet, Disciplined
<1>4. CASE OnAnswer
  BY <1>4 DEF OnAnswer, FreeCallbacks, Quiet, Disciplined
<1>5. CASE OnPart \/ OnCacheProgress
  <2>1. /\ Invoke("progress", sub) /\ pc \in {"body", "cache"}
        /\ UNCHANGED <<pc, object, heard>>
    BY <1>5 DEF OnPart, OnCacheProgress
  <2>2. /\ calls' # "none" => /\ calls' = "progress" /\ "progress" \in cb
                              /\ ~canceled /\ object # "destroyed"
        /\ cb' \subseteq cb
        /\ (canceled' /\ ~canceled) => cb' \cap {"progress", "complete"} = {}
    BY <2>1, InvokeQuiet
  <2>. QED
    BY <2>1, <2>2 DEF Quiet, Disciplined
<1>6. CASE OnBody
  BY <1>6, FinishQuiet DEF OnBody
<1>7. CASE OnError
  BY <1>7, CatchQuiet DEF OnError
<1>8. CASE OnTimeout
  <2>1. CASE canceled /\ Finish(got)
    BY <1>8, <2>1, FinishQuiet DEF OnTimeout
  <2>2. CASE Catch
    BY <1>8, <2>2, CatchQuiet DEF OnTimeout
  <2>. QED
    BY <1>8, <2>1, <2>2 DEF OnTimeout
<1>9. CASE ReleaseRequest
  BY <1>9 DEF ReleaseRequest, Quiet, Disciplined
<1>10. CASE DestroyRequest
  BY <1>10 DEF DestroyRequest, FreeCallbacks, Quiet, Disciplined
<1>. QED
  BY <1>1, <1>2, <1>3, <1>4, <1>5, <1>6, <1>7, <1>8, <1>9, <1>10 DEF RequestNext, Answers

\* Request.start, cancel and destroy: onComplete at most once, with a whole
\* body or an error; silence after a cancel; only onResponse after destroy.
THEOREM CallbacksAreDisciplined == RequestSpec => CallbackDiscipline
<1>1. RequestInit => Quiet
  BY DEF RequestInit, Quiet
<1>2. Quiet /\ [RequestNext]_requestVars => Quiet' /\ [Disciplined]_requestVars
  <2>1. CASE RequestNext
    BY <2>1, RequestStep
  <2>2. CASE UNCHANGED requestVars
    BY <2>2 DEF requestVars, Quiet
  <2>. QED
    BY <2>1, <2>2
<1>. QED
  BY <1>1, <1>2, PTL DEF RequestSpec, CallbackDiscipline, Disciplined

=============================================================================
