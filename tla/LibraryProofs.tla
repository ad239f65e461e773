--------------------------- MODULE LibraryProofs ----------------------------
(***************************************************************************)
(* Theorems about what the pages of the libraries do: the update button of *)
(* module Update, for any number of pushes, presses, rebuilt cells and     *)
(* deaths; the installs of module Playlist, for any ROMs and any number of *)
(* installs and deaths; and the list of module Libraries, for any          *)
(* comments, pages and requests.                                           *)
(***************************************************************************)
EXTENDS Update, Playlist, Libraries, SequenceTheorems, NaturalsInduction, WellFoundedInduction, TLAPS

Ops == {"none", "fetch", "fetched", "lookup", "tree", "ref", "checkedOut", "done"}

\* The values the variables take.
TypeOK ==
    /\ upstream \in Nat /\ tracking \in Nat /\ fetchHead \in Nat /\ work \in Nat /\ local \in Nat
    /\ cell \in Nat /\ crashes \in Nat
    /\ job \in [Updates -> [op : Ops, target : Nat, old : Nat, err : BOOLEAN]]
    /\ of \in [Updates -> Nat]
    /\ want \in [Updates -> Nat]
    /\ spin \in BOOLEAN

\* Commits reach the repository from upstream through the tracking branch:
\* tree and branch are never beyond it, and a commit once fetched stays.
InOrder ==
    /\ 0 < tracking /\ tracking <= upstream
    /\ work <= tracking
    /\ local <= tracking
    /\ fetchHead \in {0, tracking}
    /\ \A u \in Updates : /\ job[u].target <= tracking
                          /\ want[u] <= upstream
                          /\ job[u].op # "none" => 0 < want[u]

\* The spinner on the screen turns exactly for the one update of its cell,
\* and cells are numbered upwards.
Cells ==
    /\ OneUpdatePerCell
    /\ \A u \in Updates : of[u] <= cell
    /\ \A u \in Updates : Busy(u) /\ of[u] = cell => spin

\* How far an update that runs alone has come.
Progress ==
    /\ local <= work
    /\ \A u \in Updates :
          LET j == job[u]
          IN  /\ j.op = "fetched" /\ ~j.err => want[u] <= fetchHead
              /\ j.op = "lookup" => want[u] <= tracking
              /\ j.op \in {"tree", "ref"} => local <= j.target /\ want[u] <= j.target
              /\ j.op = "ref" => work = j.target
              /\ j.op = "checkedOut" /\ ~j.err => local = work /\ want[u] <= local

IInv == TypeOK /\ InOrder /\ Cells /\ (TwoCells \/ Progress)

-----------------------------------------------------------------------------
(***************************************************************************)
(* The steps.                                                              *)
(***************************************************************************)

\* Every step keeps the types.
LEMMA TypeStep ==
    ASSUME TypeOK, [Next]_vars
    PROVE  TypeOK'
<1> USE DEF TypeOK, Ops
<1>1. CASE Push
    BY <1>1 DEF Push, repo
<1>2. CASE Rebuild
    <2>1. cell' \in Nat /\ UNCHANGED <<upstream, repo, job, of, want, crashes>>
        BY <1>2 DEF Rebuild
    <2>2. spin' \in BOOLEAN
        BY <1>2, Zenon DEF Rebuild
    <2> QED
        BY <2>1, <2>2 DEF repo
<1>3. CASE Crash
    <2>1. crashes' = crashes + 1 /\ UNCHANGED <<upstream, repo, cell, of, want>>
        BY <1>3, Zenon DEF Crash
    <2>2. spin' \in BOOLEAN
        BY <1>3, Zenon DEF Crash
    <2>3. job' \in [Updates -> [op : Ops, target : Nat, old : Nat, err : BOOLEAN]]
        BY <1>3 DEF Crash
    <2> QED
        BY <2>1, <2>2, <2>3 DEF repo
<1>4. ASSUME NEW u \in Updates, Press(u)
      PROVE  TypeOK'
    BY <1>4 DEF Press, SetOp, repo
<1>5. ASSUME NEW u \in Updates, Fetch(u)
      PROVE  TypeOK'
    BY <1>5 DEF Fetch, SetOp
<1>6. ASSUME NEW u \in Updates, OnFetched(u)
      PROVE  TypeOK'
    <2>1. spin' \in BOOLEAN
        BY <1>6, Zenon DEF OnFetched, StopAnimation
    <2>2. job' \in [Updates -> [op : Ops, target : Nat, old : Nat, err : BOOLEAN]]
        BY <1>6 DEF OnFetched, SetOp
    <2> QED
        BY <1>6, <2>1, <2>2 DEF OnFetched, repo
<1>7. ASSUME NEW u \in Updates, Lookup(u)
      PROVE  TypeOK'
    <2>1. job' \in [Updates -> [op : Ops, target : Nat, old : Nat, err : BOOLEAN]]
        BY <1>7 DEF Lookup
    <2> QED
        BY <1>7, <2>1 DEF Lookup, repo
<1>8. ASSUME NEW u \in Updates, Checkout(u)
      PROVE  TypeOK'
    BY <1>8 DEF Checkout, FastForward, GiveUp, SetOp
<1>9. ASSUME NEW u \in Updates, OnCheckedOut(u)
      PROVE  TypeOK'
    BY <1>9 DEF OnCheckedOut, SetOp, StopAnimation, repo
<1>10. CASE UNCHANGED vars
    BY <1>10 DEF vars, repo
<1> QED
    BY <1>1, <1>2, <1>3, <1>4, <1>5, <1>6, <1>7, <1>8, <1>9, <1>10 DEF Next, Work

\* Nothing reaches the repository that upstream does not have.
LEMMA OrderStep ==
    ASSUME TypeOK, InOrder, [Next]_vars
    PROVE  InOrder'
<1> USE DEF TypeOK, InOrder
<1>1. CASE Push
    BY <1>1 DEF Push, repo
<1>2. CASE Rebuild
    BY <1>2 DEF Rebuild, repo
<1>3. CASE Crash
    <2>1. /\ upstream' = upstream /\ tracking' = tracking /\ fetchHead' = fetchHead
          /\ work' = work /\ local' = local /\ want' = want
        BY <1>3, Zenon DEF Crash, repo
    <2> QED
        BY <1>3, <2>1 DEF Crash, Busy
<1>4. ASSUME NEW u \in Updates, Press(u)
      PROVE  InOrder'
    BY <1>4 DEF Press, SetOp, repo
<1>5. ASSUME NEW u \in Updates, Fetch(u)
      PROVE  InOrder'
    BY <1>5 DEF Fetch, SetOp
<1>6. ASSUME NEW u \in Updates, OnFetched(u)
      PROVE  InOrder'
    BY <1>6 DEF OnFetched, SetOp, StopAnimation, repo
<1>7. ASSUME NEW u \in Updates, Lookup(u)
      PROVE  InOrder'
    BY <1>7 DEF Lookup, repo
<1>8. ASSUME NEW u \in Updates, Checkout(u)
      PROVE  InOrder'
    BY <1>8 DEF Checkout, FastForward, GiveUp, SetOp
<1>9. ASSUME NEW u \in Updates, OnCheckedOut(u)
      PROVE  InOrder'
    BY <1>9 DEF OnCheckedOut, SetOp, StopAnimation, repo
<1>10. CASE UNCHANGED vars
    BY <1>10 DEF vars, repo
<1> QED
    BY <1>1, <1>2, <1>3, <1>4, <1>5, <1>6, <1>7, <1>8, <1>9, <1>10 DEF Next, Work

\* An update that another cell asked for is not forgotten.
LEMMA TwoCellsStay ==
    ASSUME TypeOK, TwoCells, [Next]_vars
    PROVE  TwoCells'
<1>1. \A u \in Updates : job[u].op # "none" => job'[u].op # "none" /\ of'[u] = of[u]
    <2> USE DEF TypeOK
    <2>1. CASE Push \/ Rebuild \/ UNCHANGED vars
        BY <2>1 DEF Push, Rebuild, vars
    <2>2. CASE Crash
        BY <2>2 DEF Crash, Busy
    <2>3. ASSUME NEW u \in Updates, Press(u) \/ Work(u)
          PROVE  \A v \in Updates : job[v].op # "none" => job'[v].op # "none" /\ of'[v] = of[v]
        BY <2>3 DEF Press, Work, Fetch, OnFetched, Lookup, Checkout, FastForward, GiveUp,
                    OnCheckedOut, SetOp
    <2> QED
        BY <2>1, <2>2, <2>3 DEF Next
<1> QED
    BY <1>1 DEF TwoCells

\* A press and the work of an update leave the other updates alone.
LEMMA OthersStay ==
    ASSUME TypeOK, NEW u \in Updates, Press(u) \/ Work(u)
    PROVE  \A v \in Updates : v # u => job'[v] = job[v]
BY DEF TypeOK, Press, Work, Fetch, OnFetched, Lookup, Checkout, FastForward, GiveUp,
       OnCheckedOut, SetOp

\* One update per cell: a press finds no update of its cell under way, and
\* the spinner stops with the update it turns for.
LEMMA CellsStep ==
    ASSUME TypeOK, Cells, [Next]_vars
    PROVE  Cells'
<1> USE DEF TypeOK, Cells, OneUpdatePerCell, Busy
<1>1. CASE Push
    BY <1>1 DEF Push
<1>2. CASE Rebuild
    BY <1>2 DEF Rebuild
<1>3. CASE Crash
    <2>1. \A u \in Updates : ~Busy(u)' /\ of'[u] = of[u]
        BY <1>3 DEF Crash
    <2>2. ~spin' /\ cell' = cell
        BY <1>3, Zenon DEF Crash
    <2> QED
        BY <2>1, <2>2
<1>4. ASSUME NEW u \in Updates, Press(u)
      PROVE  Cells'
    BY <1>4 DEF Press, SetOp
<1>5. ASSUME NEW u \in Updates, Fetch(u) \/ Lookup(u) \/ Checkout(u)
      PROVE  Cells'
    <2>1. UNCHANGED <<cell, of, spin>>
        BY <1>5 DEF Fetch, Lookup, Checkout
    <2>2. \A v \in Updates : Busy(v)' <=> Busy(v)
        BY <1>5 DEF Fetch, Lookup, Checkout, FastForward, GiveUp, SetOp
    <2> QED
        BY <2>1, <2>2
<1>6. ASSUME NEW u \in Updates, OnFetched(u) \/ OnCheckedOut(u)
      PROVE  Cells'
    <2>1. UNCHANGED <<cell, of>> /\ Busy(u)
        BY <1>6 DEF OnFetched, OnCheckedOut
    <2>2. \A v \in Updates : v # u => (Busy(v)' <=> Busy(v))
        BY <1>6, OthersStay DEF Work
    <2>3. CASE Busy(u)' /\ UNCHANGED spin
        BY <2>1, <2>2, <2>3
    <2>4. CASE ~Busy(u)' /\ StopAnimation(u)
        BY <2>1, <2>2, <2>4 DEF StopAnimation
    <2> QED
        BY <1>6, <2>3, <2>4 DEF OnFetched, OnCheckedOut, SetOp
<1>7. CASE UNCHANGED vars
    BY <1>7 DEF vars
<1> QED
    BY <1>1, <1>2, <1>3, <1>4, <1>5, <1>6, <1>7 DEF Next, Work

\* While all updates were asked for in one cell, at most one is under way.
LEMMA RunsAlone ==
    ASSUME Cells, ~TwoCells,
           NEW u \in Updates, Busy(u),
           NEW v \in Updates, v # u
    PROVE  ~Busy(v)
BY DEF Cells, OneUpdatePerCell, TwoCells, Busy

\* An update that runs alone keeps its promises step by step: what it has
\* fetched, looked up, checked out and set is as new as it was asked for.
LEMMA ProgressStep ==
    ASSUME IInv, Progress, ~TwoCells, [Next]_vars
    PROVE  Progress'
<1> USE DEF IInv, TypeOK, InOrder, Progress
<1>1. CASE Push
    BY <1>1 DEF Push, repo
<1>2. CASE Rebuild
    BY <1>2 DEF Rebuild, repo
<1>3. CASE Crash
    <2>1. /\ upstream' = upstream /\ tracking' = tracking /\ fetchHead' = fetchHead
          /\ work' = work /\ local' = local /\ want' = want
        BY <1>3, Zenon DEF Crash, repo
    <2> QED
        BY <1>3, <2>1 DEF Crash, Busy
<1>4. ASSUME NEW u \in Updates, Press(u)
      PROVE  Progress'
    BY <1>4 DEF Press, SetOp, repo
<1>5. ASSUME NEW u \in Updates, Fetch(u)
      PROVE  Progress'
    <2>1. UNCHANGED <<upstream, work, local, want>>
        BY <1>5 DEF Fetch
    <2>2. CASE tracking' = upstream /\ fetchHead' = upstream /\ SetOp(u, "fetched")
        BY <2>1, <2>2 DEF SetOp
    <2>3. CASE /\ job' = [job EXCEPT ![u].op = "fetched", ![u].err = TRUE]
               /\ UNCHANGED <<tracking, fetchHead>>
        BY <2>1, <2>3
    <2> QED
        BY <1>5, <2>2, <2>3 DEF Fetch
<1>6. ASSUME NEW u \in Updates, OnFetched(u)
      PROVE  Progress'
    BY <1>6 DEF OnFetched, SetOp, repo
<1>7. ASSUME NEW u \in Updates, Lookup(u)
      PROVE  Progress'
    BY <1>7 DEF Lookup, repo
<1>8. ASSUME NEW u \in Updates, Checkout(u)
      PROVE  Progress'
    <2>1. \A v \in Updates : v # u => ~Busy(v) /\ job'[v] = job[v]
        BY <1>8, RunsAlone, OthersStay DEF Checkout, FastForward, Busy, Work
    <2> QED
        BY <1>8, <2>1 DEF Checkout, FastForward, GiveUp, SetOp, Busy
<1>9. ASSUME NEW u \in Updates, OnCheckedOut(u)
      PROVE  Progress'
    BY <1>9 DEF OnCheckedOut, SetOp, repo
<1>10. CASE UNCHANGED vars
    BY <1>10 DEF vars, repo
<1> QED
    BY <1>1, <1>2, <1>3, <1>4, <1>5, <1>6, <1>7, <1>8, <1>9, <1>10 DEF Next, Work

-----------------------------------------------------------------------------
\* The inductive invariant.
THEOREM Invariance == Spec => []IInv
<1>1. Init => IInv
    <2> USE DEF Init, Idle
    <2>1. Init => TypeOK
        <3>1. Init => spin \in BOOLEAN
            BY Zenon
        <3> QED
            BY <3>1 DEF TypeOK, Ops
    <2>2. Init => InOrder
        BY DEF InOrder
    <2>3. Init => Cells
        BY DEF Cells, OneUpdatePerCell, Busy
    <2>4. Init => Progress
        BY DEF Progress
    <2> QED
        BY <2>1, <2>2, <2>3, <2>4 DEF IInv
<1>2. IInv /\ [Next]_vars => IInv'
    BY TypeStep, OrderStep, CellsStep, TwoCellsStay, ProgressStep DEF IInv
<1> QED
    BY <1>1, <1>2, PTL DEF Spec

\* perform_fastforward (GitRepository.cpp): the branch is never ahead of the
\* tree that is checked out, wherever a death or an error falls, unless two
\* cells have had updates under way.
THEOREM BranchBehindTree == Spec => []RefNotAhead
<1>1. IInv => RefNotAhead
    BY DEF IInv, Progress, RefNotAhead
<1> QED
    BY <1>1, Invariance, PTL

\* libraries.dart: one update of a repository per cell, and a spinner that
\* turns only for it.
THEOREM OnePerCell == Spec => []OneUpdatePerCell
<1>1. IInv => OneUpdatePerCell
    BY DEF IInv, Cells
<1> QED
    BY <1>1, Invariance, PTL

\* The update button repairs: an update that ends without an error leaves
\* tree and branch on one commit, no older than upstream was at the press.
THEOREM UpdatesAreFresh == Spec => UpdateIsFresh
<1>1. ASSUME IInv, [Next]_vars,
             NEW u \in Updates, Busy(u), ~Busy(u)', ~job'[u].err, ~TwoCells
      PROVE  local' = work' /\ want[u] <= local'
    <2> USE <1>1 DEF IInv, TypeOK, InOrder, Progress, Busy
    <2>1. CASE Push \/ Rebuild \/ UNCHANGED vars
        BY <2>1 DEF Push, Rebuild, vars
    <2>2. CASE Crash
        BY <2>2 DEF Crash
    <2>3. ASSUME NEW v \in Updates, Press(v) \/ Work(v)
          PROVE  local' = work' /\ want[u] <= local'
        <3>1. v = u
            BY <2>3, OthersStay
        <3>2. CASE OnFetched(u)
            BY <3>2 DEF OnFetched, HighID, SetOp, repo
        <3>3. CASE OnCheckedOut(u)
            BY <3>3 DEF OnCheckedOut, SetOp, repo
        <3>4. CASE Press(u) \/ Fetch(u) \/ Lookup(u) \/ Checkout(u)
            BY <3>4 DEF Press, Fetch, Lookup, Checkout, FastForward, GiveUp, SetOp
        <3> QED
            BY <2>3, <3>1, <3>2, <3>3, <3>4 DEF Work
    <2> QED
        BY <2>1, <2>2, <2>3 DEF Next
<1>2. IInv /\ IInv' /\ [Next]_vars
        => [\A u \in Updates : Busy(u) /\ ~Busy(u)' /\ ~job'[u].err
              => \/ local' = work' /\ local' >= want[u]
                 \/ TwoCells]_vars
    BY <1>1 DEF IInv, TypeOK
<1> QED
    BY <1>2, Invariance, PTL DEF Spec, UpdateIsFresh

-----------------------------------------------------------------------------
(***************************************************************************)
(* Loops over a list: recursive functions of the models.                   *)
(***************************************************************************)

\* A set of numbers that is not empty has a least one.
LEMMA Least ==
    ASSUME NEW S \in SUBSET Nat, S # {}
    PROVE  \E x \in S : \A y \in S : x <= y
<1>. DEFINE Less == OpToRel(<, Nat)
<1>1. IsWellFoundedOn(Less, Nat)
  BY NatLessThanWellFounded, Zenon
<1>2. Less = {ss \in Nat \X Nat : ss[1] < ss[2]}
  BY Zenon DEF OpToRel
<1>. HIDE DEF Less
<1>3. PICK x \in S : \A y \in S : ~(<<y, x>> \in Less)
  BY <1>1, WFMin
<1>4. ASSUME NEW y \in S
      PROVE  x <= y
  <2>1. <<y, x>> \in Nat \X Nat /\ <<y, x>>[1] = y /\ <<y, x>>[2] = x
    OBVIOUS
  <2>2. ~(<<y, x>>[1] < <<y, x>>[2])
    BY <1>2, <1>3, <2>1, Zenon
  <2>. QED
    BY <2>1, <2>2
<1>. QED
  BY <1>4

\* What holds at 0 and goes on from each number to the next, up to n, holds
\* up to n: S are the numbers it holds of.
LEMMA CountUp ==
    ASSUME NEW n \in Nat, NEW S, 0 \in S,
           \A i \in 1..n : i - 1 \in S => i \in S
    PROVE  0..n \subseteq S
<1>. DEFINE Bad == {i \in 0..n : i \notin S}
<1>1. SUFFICES ASSUME Bad # {}
               PROVE  FALSE
  OBVIOUS
<1>2. PICK m \in Bad : \A y \in Bad : m <= y
  <2>1. Bad \in SUBSET Nat
    OBVIOUS
  <2>. QED
    BY <1>1, <2>1, Least
<1>3. m \in 1..n /\ m - 1 \in 0..n /\ m - 1 \notin Bad
  BY <1>2
<1>. QED
  BY <1>2, <1>3

\* f are the values of a loop that starts with b and makes each value from the
\* one before by g.
Runs(f, n, b, g) == f[0] = b /\ \A i \in 1..n : f[i] = g[i][f[i - 1]]

\* A loop that starts with b and makes each value from the one before has
\* values: they are what a recursive function of the models stands for.
LEMMA LoopExists ==
    ASSUME NEW n \in Nat, NEW V, NEW b \in V, NEW g \in [1..n -> [V -> V]]
    PROVE  \E f \in [0..n -> V] : Runs(f, n, b, g)
<1>. DEFINE S == {m \in 0..n : \E f \in [0..m -> V] : Runs(f, m, b, g)}
<1>1. 0 \in S
  <2>1. [i \in 0..0 |-> b] \in [0..0 -> V] /\ Runs([i \in 0..0 |-> b], 0, b, g)
    BY DEF Runs
  <2>2. 0 \in 0..n
    OBVIOUS
  <2>. QED
    BY <2>1, <2>2, Zenon
<1>2. ASSUME NEW m \in 1..n, m - 1 \in S
      PROVE  m \in S
  <2>1. PICK f \in [0..(m - 1) -> V] : Runs(f, m - 1, b, g)
    BY <1>2
  <2>. DEFINE h == [i \in 0..m |-> IF i = m THEN g[m][f[m - 1]] ELSE f[i]]
  <2>2. h \in [0..m -> V]
    OBVIOUS
  <2>3. Runs(h, m, b, g)
    <3>1. h[0] = b
      BY <2>1 DEF Runs
    <3>2. ASSUME NEW i \in 1..m
          PROVE  h[i] = g[i][h[i - 1]]
      <4>1. CASE i = m
        BY <4>1
      <4>2. CASE i # m
        <5>1. i \in 1..(m - 1) /\ i - 1 \in 0..(m - 1)
          BY <4>2
        <5>. QED
          BY <2>1, <4>2, <5>1 DEF Runs
      <4>. QED
        BY <4>1, <4>2
    <3>. QED
      BY <3>1, <3>2 DEF Runs
  <2>4. m \in 0..n
    OBVIOUS
  <2>. HIDE DEF h
  <2>. QED
    BY <2>2, <2>3, <2>4
<1>3. n \in S
  <2>. HIDE DEF S
  <2>1. \A m \in 1..n : m - 1 \in S => m \in S
    BY <1>2
  <2>2. 0..n \subseteq S
    BY <1>1, <2>1, CountUp
  <2>. QED
    BY <2>2
<1>. QED
  BY <1>3

-----------------------------------------------------------------------------
(***************************************************************************)
(* Installing ROMs: module Playlist.                                       *)
(***************************************************************************)

\* The loop of removeWhere.
Filters(f, r, items) ==
    /\ f[0] = <<>>
    /\ \A n \in 1..Len(items) :
          f[n] = IF items[n] = r THEN f[n - 1] ELSE Append(f[n - 1], items[n])

\* RemoveWhere is the last value of that loop.
LEMMA RemoveWhereRuns ==
    ASSUME NEW S, NEW items \in Seq(S), NEW r
    PROVE  \E f \in [0..Len(items) -> Seq(S)] :
               Filters(f, r, items) /\ RemoveWhere(r, items) = f[Len(items)]
<1>. DEFINE N == Len(items)
            Body(h, n) == IF n = 0 THEN <<>>
                          ELSE IF items[n] = r THEN h[n - 1] ELSE Append(h[n - 1], items[n])
            F == CHOOSE h : h = [n \in 0..N |-> Body(h, n)]
<1>1. N \in Nat /\ \A n \in 1..N : items[n] \in S
  OBVIOUS
<1>2. \E h : h = [n \in 0..N |-> Body(h, n)]
  <2>. DEFINE g == [n \in 1..N |-> [t \in Seq(S) |->
                       IF items[n] = r THEN t ELSE Append(t, items[n])]]
  <2>1. g \in [1..N -> [Seq(S) -> Seq(S)]]
    BY <1>1
  <2>2. <<>> \in Seq(S)
    OBVIOUS
  <2>3. PICK f \in [0..N -> Seq(S)] : Runs(f, N, <<>>, g)
    <3>. HIDE DEF g, N
    <3>. QED
      BY <1>1, <2>1, <2>2, LoopExists
  <2>4. ASSUME NEW n \in 0..N
        PROVE  f[n] = Body(f, n)
    <3>1. CASE n = 0
      BY <2>3, <3>1 DEF Runs
    <3>2. CASE n # 0
      <4>1. n \in 1..N /\ f[n - 1] \in Seq(S)
        BY <1>1, <3>2
      <4>2. f[n] = g[n][f[n - 1]]
        BY <2>3, <4>1 DEF Runs
      <4>. QED
        BY <3>2, <4>1, <4>2
    <3>. QED
      BY <3>1, <3>2
  <2>5. f = [n \in 0..N |-> Body(f, n)]
    <3>. HIDE DEF Body, N
    <3>. QED
      BY <2>4
  <2>. QED
    BY <2>5, Zenon
<1>3. F = [n \in 0..N |-> Body(F, n)]
  <2>. HIDE DEF Body, N
  <2>. QED
    BY <1>2, Zenon
<1>4. RemoveWhere(r, items) = F[N]
  BY Zenon DEF RemoveWhere
<1>. HIDE DEF F
<1>5. \A n \in 0..N : F[n] = Body(F, n)
  <2>. HIDE DEF Body, N
  <2>. QED
    BY <1>3
<1>6. Filters(F, r, items)
  BY <1>1, <1>5 DEF Filters
<1>7. \A n \in 0..N : F[n] \in Seq(S)
  <2>. DEFINE T == {n \in 0..N : F[n] \in Seq(S)}
  <2>1. 0 \in T
    <3>1. 0 \in 0..N /\ F[0] = <<>> /\ <<>> \in Seq(S)
      BY <1>1, <1>6 DEF Filters
    <3>. QED
      BY <3>1, Zenon
  <2>2. ASSUME NEW n \in 1..N, n - 1 \in T
        PROVE  n \in T
    <3>1. F[n] = IF items[n] = r THEN F[n - 1] ELSE Append(F[n - 1], items[n])
      BY <1>6 DEF Filters
    <3>2. n \in 0..N /\ F[n - 1] \in Seq(S) /\ items[n] \in S
      BY <1>1, <2>2
    <3>3. F[n] \in Seq(S)
      BY <3>1, <3>2
    <3>. QED
      BY <3>2, <3>3
  <2>3. 0..N \subseteq T
    <3>. HIDE DEF T, N
    <3>1. \A n \in 1..N : n - 1 \in T => n \in T
      BY <2>2
    <3>. QED
      BY <1>1, <2>1, <3>1, CountUp
  <2>. QED
    BY <2>3
<1>8. F \in [0..N -> Seq(S)]
  <2>. HIDE DEF Body, N
  <2>. QED
    BY <1>3, <1>7
<1>. QED
  BY <1>4, <1>6, <1>8

\* No entry twice.
Distinct(t) == \A i, k \in DOMAIN t : t[i] = t[k] => i = k

\* t has only entries of the first n items, and not r.
From(t, n, r, items) ==
    \A k \in DOMAIN t : t[k] # r /\ \E j \in 1..n : t[k] = items[j]

\* removeWhere of a list without doubles leaves one, without r.
LEMMA RemoveWhereDistinct ==
    ASSUME NEW S, NEW items \in Seq(S), Distinct(items), NEW r
    PROVE  /\ RemoveWhere(r, items) \in Seq(S)
           /\ Distinct(RemoveWhere(r, items))
           /\ \A k \in DOMAIN RemoveWhere(r, items) : RemoveWhere(r, items)[k] # r
<1>1. PICK f \in [0..Len(items) -> Seq(S)] :
          Filters(f, r, items) /\ RemoveWhere(r, items) = f[Len(items)]
  BY RemoveWhereRuns
<1>2. PICK N \in Nat : N = Len(items)
  OBVIOUS
<1>. DEFINE T == {n \in 0..N : Distinct(f[n]) /\ From(f[n], n, r, items)}
<1>3. 0 \in T
  <2>1. 0 \in 0..N /\ f[0] = <<>>
    BY <1>1, <1>2 DEF Filters
  <2>2. Distinct(f[0]) /\ From(f[0], 0, r, items)
    BY <2>1 DEF Distinct, From
  <2>. QED
    BY <2>1, <2>2
<1>4. ASSUME NEW n \in 1..N, n - 1 \in T
      PROVE  n \in T
  <2>1. PICK t \in Seq(S) : t = f[n - 1]
    BY <1>1, <1>2
  <2>2. /\ f[n] = IF items[n] = r THEN t ELSE Append(t, items[n])
        /\ n \in 0..N /\ items[n] \in S
        /\ Distinct(t) /\ From(t, n - 1, r, items)
    BY <1>1, <1>2, <1>4, <2>1 DEF Filters
  <2>3. CASE items[n] = r
    <3>1. From(t, n, r, items)
      BY <2>2 DEF From
    <3>. QED
      BY <2>2, <2>3, <3>1
  <2>4. CASE items[n] # r
    <3>1. PICK u \in Seq(S) : u = Append(t, items[n])
      BY <2>2, AppendProperties
    <3>2. /\ Len(u) = Len(t) + 1 /\ u[Len(t) + 1] = items[n]
          /\ \A k \in 1..Len(t) : u[k] = t[k]
          /\ DOMAIN u = 1..(Len(t) + 1) /\ DOMAIN t = 1..Len(t) /\ Len(t) \in Nat
      BY <2>2, <3>1
    <3>3. \A k \in 1..Len(t) : t[k] # items[n]
      <4>1. SUFFICES ASSUME NEW k \in 1..Len(t)
                     PROVE  t[k] # items[n]
        OBVIOUS
      <4>2. PICK j \in 1..(n - 1) : t[k] = items[j]
        BY <2>2, <3>2 DEF From
      <4>3. j \in DOMAIN items /\ n \in DOMAIN items /\ j # n
        BY <1>2
      <4>. QED
        BY <4>2, <4>3 DEF Distinct
    <3>4. Distinct(u)
      <4>1. SUFFICES ASSUME NEW i \in 1..(Len(t) + 1), NEW k \in 1..(Len(t) + 1), u[i] = u[k]
                     PROVE  i = k
        BY <3>2 DEF Distinct
      <4>2. CASE i \in 1..Len(t) /\ k \in 1..Len(t)
        BY <2>2, <3>2, <4>1, <4>2 DEF Distinct
      <4>3. CASE i = Len(t) + 1 /\ k \in 1..Len(t)
        BY <3>2, <3>3, <4>1, <4>3
      <4>4. CASE k = Len(t) + 1 /\ i \in 1..Len(t)
        BY <3>2, <3>3, <4>1, <4>4
      <4>. QED
        BY <3>2, <4>2, <4>3, <4>4
    <3>5. From(u, n, r, items)
      <4>1. SUFFICES ASSUME NEW k \in 1..(Len(t) + 1)
                     PROVE  u[k] # r /\ \E j \in 1..n : u[k] = items[j]
        BY <3>2 DEF From
      <4>2. CASE k \in 1..Len(t)
        <5>1. t[k] # r /\ \E j \in 1..(n - 1) : t[k] = items[j]
          BY <2>2, <3>2, <4>2 DEF From
        <5>. QED
          BY <3>2, <4>2, <5>1
      <4>3. CASE k = Len(t) + 1
        <5>1. n \in 1..n
          OBVIOUS
        <5>. QED
          BY <2>4, <3>2, <4>3, <5>1
      <4>. QED
        BY <3>2, <4>2, <4>3
    <3>. QED
      BY <2>2, <2>4, <3>1, <3>4, <3>5
  <2>. QED
    BY <2>3, <2>4
<1>5. N \in T
  <2>. HIDE DEF T
  <2>1. \A n \in 1..N : n - 1 \in T => n \in T
    BY <1>4
  <2>2. 0..N \subseteq T
    BY <1>3, <2>1, CountUp
  <2>. QED
    BY <2>2
<1>. QED
  BY <1>1, <1>2, <1>5 DEF From

\* removeWhere and insert put a ROM in front, once.
LEMMA WithEntryDistinct ==
    ASSUME NEW S, NEW items \in Seq(S), Distinct(items), NEW r \in S
    PROVE  WithEntry(r, items) \in Seq(S) /\ Distinct(WithEntry(r, items))
<1>1. PICK t \in Seq(S) : t = RemoveWhere(r, items)
  BY RemoveWhereDistinct
<1>2. Distinct(t) /\ \A k \in DOMAIN t : t[k] # r
  BY <1>1, RemoveWhereDistinct
<1>3. PICK u : u = WithEntry(r, items)
  OBVIOUS
<1>4. u = <<r>> \o t
  BY <1>1, <1>3 DEF WithEntry
<1>5. <<r>> \in Seq(S) /\ Len(<<r>>) = 1 /\ <<r>>[1] = r
  OBVIOUS
<1>6. /\ u \in Seq(S) /\ Len(u) = Len(t) + 1
      /\ \A i \in 1..(Len(t) + 1) : u[i] = IF i <= 1 THEN <<r>>[i] ELSE t[i - 1]
  BY <1>4, <1>5, ConcatProperties
<1>7. Distinct(u)
  <2>1. DOMAIN u = 1..(Len(t) + 1) /\ DOMAIN t = 1..Len(t) /\ Len(t) \in Nat
    BY <1>6
  <2>2. SUFFICES ASSUME NEW i \in 1..(Len(t) + 1), NEW k \in 1..(Len(t) + 1), u[i] = u[k]
                 PROVE  i = k
    BY <2>1 DEF Distinct
  <2>3. CASE i = 1 /\ k # 1
    BY <1>2, <1>5, <1>6, <2>1, <2>2, <2>3
  <2>4. CASE i # 1 /\ k = 1
    <3>1. u[i] = t[i - 1] /\ i - 1 \in DOMAIN t /\ u[k] = r
      BY <1>5, <1>6, <2>1, <2>4
    <3>. QED
      BY <1>2, <2>2, <3>1
  <2>5. CASE i # 1 /\ k # 1
    <3>1. i - 1 \in DOMAIN t /\ k - 1 \in DOMAIN t /\ t[i - 1] = t[k - 1]
      BY <1>6, <2>1, <2>2, <2>5
    <3>. QED
      BY <1>2, <2>5, <3>1 DEF Distinct
  <2>. QED
    BY <2>3, <2>4, <2>5
<1>. QED
  BY <1>3, <1>6, <1>7

\* The values the variables take; a ROM is chosen when an install is asked for.
Places == {"none", "read", "crc", "open", "write", "titles", "boxarts", "snaps",
           "ok", "failed", "dead"}
Job == [pc : Places, rom : Roms \cup {CHOOSE r \in Roms : TRUE}, items : Seq(Roms), ver : Nat]
ListTypes ==
    /\ file \in [st : {"absent", "empty", "torn", "whole"}, items : Seq(Roms)]
    /\ jobs \in [Installs -> Job]
    /\ \A j \in Installs : jobs[j].pc # "none" => jobs[j].rom \in Roms
    /\ thumbs \in [Roms -> SUBSET Kinds]
    /\ ver \in Nat

\* Neither the file nor a list in hand has a ROM twice.
Singles == Distinct(file.items) /\ \A j \in Installs : Distinct(jobs[j].items)

\* An install has the thumbnails it is past.
Shown(x) ==
    /\ x.pc = "boxarts" => "titles" \in thumbs[x.rom]
    /\ x.pc = "snaps" => {"titles", "boxarts"} \subseteq thumbs[x.rom]
    /\ x.pc = "ok" => thumbs[x.rom] = Kinds

\* An install that has read the list as it is now has what it needs in hand,
\* and has emptied the file if it is about to write.
Current(x) ==
    /\ x.ver <= ver
    /\ x.ver = ver => /\ x.pc = "crc" => x.items = expected
                      /\ x.pc \in {"open", "write"} => x.items = WithEntry(x.rom, expected)
                      /\ x.pc = "write" => file.st = "empty"

\* Up to the first stale or spoilt write, a file that is not about to be
\* written is the list that installs one by one would have made.
Serial ==
    \/ stale \/ spoilt
    \/ /\ file.st # "torn"
       /\ file.st = "empty" => Writing # {}
       /\ file.st # "empty" => file.items = expected
       /\ \A j \in Installs : Current(jobs[j])

ListInv == /\ ListTypes /\ Singles /\ Serial
           /\ \A j \in Installs : Shown(jobs[j])

\* Install j goes on at p with the list its and the version v; the others stay.
Moves(j, p, its, v) ==
    /\ jobs' \in [Installs -> Job]
    /\ jobs'[j].pc = p /\ jobs'[j].rom = jobs[j].rom
    /\ jobs'[j].items = its /\ jobs'[j].ver = v
    /\ \A k \in Installs : k # j => jobs'[k] = jobs[k]

LEMMA GoMoves ==
    ASSUME ListTypes, NEW j \in Installs, NEW p \in Places, Go(j, p)
    PROVE  Moves(j, p, <<>>, 0)
<1>1. jobs' = [jobs EXCEPT ![j] = [pc |-> p, rom |-> jobs[j].rom, items |-> <<>>, ver |-> 0]]
  BY DEF Go, JobAt
<1>2. /\ [pc |-> p, rom |-> jobs[j].rom, items |-> <<>>, ver |-> 0] \in Job
      /\ jobs \in [Installs -> Job]
  BY DEF ListTypes, Job
<1>. QED
  BY <1>1, <1>2 DEF Moves

\* The types of the installs after a move.
LEMMA MovesTypes ==
    ASSUME ListTypes, NEW j \in Installs, NEW p, NEW its, NEW v, Moves(j, p, its, v),
           jobs[j].pc # "none"
    PROVE  \A k \in Installs : jobs'[k].pc # "none" => jobs'[k].rom \in Roms
BY DEF ListTypes, Moves

\* A move to another list keeps the lists without doubles.
LEMMA MovesSingles ==
    ASSUME Singles, NEW j \in Installs, NEW p, NEW its, NEW v, Moves(j, p, its, v),
           Distinct(its), Distinct(file'.items)
    PROVE  Singles'
<1>1. ASSUME NEW k \in Installs
      PROVE  Distinct(jobs'[k].items)
  <2>1. CASE k = j
    <3>1. jobs'[k].items = its
      BY <2>1 DEF Moves
    <3>. QED
      BY <3>1
  <2>2. CASE k # j
    <3>1. jobs'[k] = jobs[k]
      BY <2>2 DEF Moves
    <3>. QED
      BY <3>1 DEF Singles
  <2>. QED
    BY <2>1, <2>2
<1>2. Installs' = Installs
  BY DEF Installs
<1>. QED
  BY <1>1, <1>2 DEF Singles

\* A move that changes no thumbnail and ends none.
LEMMA MovesShown ==
    ASSUME \A k \in Installs : Shown(jobs[k]),
           NEW j \in Installs, NEW p, NEW its, NEW v, Moves(j, p, its, v),
           p \notin {"boxarts", "snaps", "ok"}, thumbs' = thumbs
    PROVE  \A k \in Installs : Shown(jobs[k])'
BY DEF Moves, Shown, Kinds

\* The empty list.
LEMMA EmptyDistinct == <<>> \in Seq(Roms) /\ Distinct(<<>>)
BY DEF Distinct

\* A move that leaves the playlist as it is keeps Serial if it ends no write
\* and what is in hand is current.
LEMMA MovesSerial ==
    ASSUME ListTypes, Serial, NEW j \in Installs, NEW p, NEW its, NEW v, Moves(j, p, its, v),
           UNCHANGED <<file, ver, expected, stale, spoilt>>,
           jobs[j].pc # "write",
           stale \/ spoilt \/ (Current(jobs[j]) /\ file.st # "torn" => Current(jobs[j])')
    PROVE  Serial'
<1>1. CASE stale \/ spoilt
  BY <1>1 DEF Serial
<1>2. CASE ~(stale \/ spoilt)
  <2>1. ASSUME NEW k \in Installs
        PROVE  Current(jobs[k])'
    <3>1. CASE k = j
      BY <1>2, <3>1 DEF Serial
    <3>2. CASE k # j
      <4>1. jobs'[k] = jobs[k]
        BY <3>2 DEF Moves
      <4>. QED
        BY <1>2, <4>1 DEF Serial, Current
    <3>. QED
      BY <3>1, <3>2
  <2>2. Writing # {} => Writing' # {}
    <3>1. SUFFICES ASSUME NEW k \in Writing
                   PROVE  k \in Writing'
      OBVIOUS
    <3>2. k \in Installs /\ jobs[k].pc = "write" /\ k # j
      BY <3>1 DEF Writing
    <3>. QED
      BY <3>2 DEF Writing, Moves, Installs
  <2>3. Installs' = Installs
    BY DEF Installs
  <2>. QED
    BY <1>2, <2>1, <2>2, <2>3 DEF Serial
<1>. QED
  BY <1>1, <1>2

\* The invariant after a step, from its parts.
LEMMA ListInvParts ==
    ASSUME ListTypes', Singles', Serial', \A k \in Installs : Shown(jobs[k])'
    PROVE  ListInv'
<1>1. Installs' = Installs
  BY DEF Installs
<1>. QED
  BY <1>1 DEF ListInv

\* The types, when file and thumbnails keep theirs.
LEMMA TypesParts ==
    ASSUME file' \in [st : {"absent", "empty", "torn", "whole"}, items : Seq(Roms)],
           jobs' \in [Installs -> Job],
           \A j \in Installs : jobs'[j].pc # "none" => jobs'[j].rom \in Roms,
           thumbs' \in [Roms -> SUBSET Kinds],
           ver' \in Nat
    PROVE  ListTypes'
BY DEF ListTypes, Installs, Job, Kinds

\* A caller asks for an install.
LEMMA InstallKeeps ==
    ASSUME ListInv, NEW j \in Installs, NEW r \in Roms, Install(j, r)
    PROVE  ListInv'
<1>1. /\ jobs' = [jobs EXCEPT ![j] = [pc |-> "read", rom |-> r, items |-> <<>>, ver |-> 0]]
      /\ jobs[j].pc = "none"
      /\ UNCHANGED <<file, thumbs, ver, expected, stale, spoilt>>
  BY DEF Install, JobAt, ghosts
<1>2. [pc |-> "read", rom |-> r, items |-> <<>>, ver |-> 0] \in Job /\ jobs \in [Installs -> Job]
  BY DEF ListInv, ListTypes, Job, Places
<1>3. /\ jobs' \in [Installs -> Job]
      /\ jobs'[j].pc = "read" /\ jobs'[j].rom = r /\ jobs'[j].items = <<>> /\ jobs'[j].ver = 0
      /\ \A k \in Installs : k # j => jobs'[k] = jobs[k]
  BY <1>1, <1>2
<1>4. ListTypes'
  <2>1. \A k \in Installs : jobs'[k].pc # "none" => jobs'[k].rom \in Roms
    BY <1>3 DEF ListInv, ListTypes
  <2>. QED
    BY <1>1, <1>3, <2>1, TypesParts DEF ListInv, ListTypes
<1>5. Singles'
  <2>1. ASSUME NEW k \in Installs
        PROVE  Distinct(jobs'[k].items)
    <3>1. CASE k = j
      BY <1>3, <3>1, EmptyDistinct
    <3>2. CASE k # j
      BY <1>3, <3>2 DEF ListInv, Singles
    <3>. QED
      BY <3>1, <3>2
  <2>2. Distinct(file'.items)
    BY <1>1 DEF ListInv, Singles
  <2>. QED
    BY <2>1, <2>2 DEF Singles, Installs
<1>6. \A k \in Installs : Shown(jobs[k])'
  BY <1>1, <1>3 DEF ListInv, Shown, Kinds
<1>7. Serial'
  <2>1. CASE stale \/ spoilt
    BY <1>1, <2>1 DEF Serial
  <2>2. CASE ~(stale \/ spoilt)
    <3>1. ASSUME NEW k \in Installs
          PROVE  Current(jobs[k])'
      <4>1. CASE k = j
        BY <1>1, <1>3, <4>1 DEF ListInv, ListTypes, Current
      <4>2. CASE k # j
        BY <1>1, <1>3, <2>2, <4>2 DEF ListInv, Serial, Current
      <4>. QED
        BY <4>1, <4>2
    <3>2. Writing # {} => Writing' # {}
      <4>1. SUFFICES ASSUME NEW k \in Writing
                     PROVE  k \in Writing'
        OBVIOUS
      <4>2. k \in Installs /\ jobs[k].pc = "write" /\ k # j
        BY <1>1, <4>1 DEF Writing
      <4>. QED
        BY <1>3, <4>2 DEF Writing, Installs
    <3>3. Installs' = Installs
      BY DEF Installs
    <3>. QED
      BY <1>1, <2>2, <3>1, <3>2, <3>3 DEF ListInv, Serial
  <2>. QED
    BY <2>1, <2>2
<1>. QED
  BY <1>4, <1>5, <1>6, <1>7, ListInvParts

\* A step of install j that leaves file and thumbnails alone: it fails, or
\* reads, or puts its list together.
LEMMA QuietMove ==
    ASSUME ListInv, NEW j \in Installs, NEW p, NEW its, NEW v, Moves(j, p, its, v),
           p \notin {"boxarts", "snaps", "ok"}, jobs[j].pc \notin {"none", "write"},
           UNCHANGED <<file, thumbs, ver, expected, stale, spoilt>>,
           Distinct(its),
           stale \/ spoilt \/ (Current(jobs[j]) /\ file.st # "torn" => Current(jobs[j])')
    PROVE  ListInv'
<1>1. ListTypes'
  <2>1. \A k \in Installs : jobs'[k].pc # "none" => jobs'[k].rom \in Roms
    BY MovesTypes DEF ListInv
  <2>. QED
    BY <2>1, TypesParts DEF ListInv, ListTypes, Moves
<1>2. Singles'
  <2>1. Distinct(file'.items)
    BY DEF ListInv, Singles
  <2>. QED
    BY <2>1, MovesSingles DEF ListInv
<1>3. \A k \in Installs : Shown(jobs[k])'
  BY MovesShown DEF ListInv
<1>4. Serial'
  BY MovesSerial DEF ListInv
<1>. QED
  BY <1>1, <1>2, <1>3, <1>4, ListInvParts

\* An exception before anything was written.
LEMMA FailKeeps ==
    ASSUME ListInv, NEW j \in Installs, Go(j, "failed"), jobs[j].pc \notin {"none", "write"},
           UNCHANGED <<file, thumbs, ver, expected, stale, spoilt>>
    PROVE  ListInv'
<1>1. Moves(j, "failed", <<>>, 0)
  BY GoMoves DEF ListInv, Places
<1>2. Current(jobs[j])'
  BY <1>1 DEF Moves, Current, ListInv, ListTypes
<1>. QED
  BY <1>1, <1>2, EmptyDistinct, QuietMove

\* The playlist is read.
LEMMA ReadKeeps ==
    ASSUME ListInv, NEW j \in Installs, Read(j)
    PROVE  ListInv'
<1>1. jobs[j].pc = "read" /\ UNCHANGED <<file, thumbs, ver, expected, stale, spoilt>>
  BY DEF Read, ghosts
<1>2. CASE file.st \in {"absent", "whole"}
  <2>1. jobs' = [jobs EXCEPT ![j].pc = "crc", ![j].items = file.items, ![j].ver = ver]
    BY <1>2 DEF Read
  <2>2. jobs \in [Installs -> Job] /\ file.items \in Seq(Roms) /\ ver \in Nat
    BY DEF ListInv, ListTypes
  <2>3. Moves(j, "crc", file.items, ver)
    BY <2>1, <2>2 DEF Moves, Job, Places
  <2>4. Distinct(file.items)
    BY DEF ListInv, Singles
  <2>5. stale \/ spoilt \/ file.items = expected
    BY <1>2 DEF ListInv, Serial
  <2>6. stale \/ spoilt \/ Current(jobs[j])'
    BY <1>1, <2>2, <2>3, <2>5 DEF Moves, Current
  <2>. QED
    BY <1>1, <2>3, <2>4, <2>6, QuietMove
<1>3. CASE Go(j, "failed")
  BY <1>1, <1>3, FailKeeps
<1>. QED
  BY <1>2, <1>3 DEF Read

\* The CRC is taken and the list put together.
LEMMA CrcKeeps ==
    ASSUME ListInv, NEW j \in Installs, Crc(j)
    PROVE  ListInv'
<1>1. jobs[j].pc = "crc" /\ UNCHANGED <<file, thumbs, ver, expected, stale, spoilt>>
  BY DEF Crc, ghosts
<1>2. CASE jobs' = [jobs EXCEPT ![j].pc = "open",
                                ![j].items = WithEntry(jobs[j].rom, jobs[j].items)]
  <2>1. jobs \in [Installs -> Job] /\ jobs[j].items \in Seq(Roms) /\ jobs[j].rom \in Roms
    BY <1>1 DEF ListInv, ListTypes, Job
  <2>2. PICK its : its = WithEntry(jobs[j].rom, jobs[j].items)
    OBVIOUS
  <2>3. its \in Seq(Roms) /\ Distinct(its)
    BY <2>1, <2>2, WithEntryDistinct DEF ListInv, Singles
  <2>4. Moves(j, "open", its, jobs[j].ver)
    BY <1>2, <2>1, <2>2, <2>3 DEF Moves, Job, Places
  <2>5. Current(jobs[j]) => Current(jobs[j])'
    BY <1>1, <2>2, <2>4 DEF Moves, Current
  <2>. QED
    BY <1>1, <2>3, <2>4, <2>5, QuietMove
<1>3. CASE Go(j, "failed")
  BY <1>1, <1>3, FailKeeps
<1>. QED
  BY <1>2, <1>3 DEF Crc

\* writeAsString empties the file.
LEMMA OpenKeeps ==
    ASSUME ListInv, NEW j \in Installs, OpenFile(j)
    PROVE  ListInv'
<1>1. /\ jobs[j].pc = "open" /\ file' = [st |-> "empty", items |-> <<>>]
      /\ jobs' = [jobs EXCEPT ![j].pc = "write"]
      /\ UNCHANGED <<thumbs, ver, expected, stale, spoilt>>
  BY DEF OpenFile, ghosts
<1>2. jobs \in [Installs -> Job]
  BY DEF ListInv, ListTypes
<1>3. Moves(j, "write", jobs[j].items, jobs[j].ver)
  BY <1>1, <1>2 DEF Moves, Job, Places
<1>4. ListTypes'
  <2>1. \A k \in Installs : jobs'[k].pc # "none" => jobs'[k].rom \in Roms
    BY <1>1, <1>3, MovesTypes DEF ListInv
  <2>2. file' \in [st : {"absent", "empty", "torn", "whole"}, items : Seq(Roms)]
    BY <1>1, EmptyDistinct
  <2>. QED
    BY <1>1, <1>3, <2>1, <2>2, TypesParts DEF ListInv, ListTypes, Moves
<1>5. Singles'
  <2>1. Distinct(file'.items) /\ Distinct(jobs[j].items)
    BY <1>1, EmptyDistinct DEF ListInv, Singles
  <2>. QED
    BY <1>3, <2>1, MovesSingles DEF ListInv
<1>6. \A k \in Installs : Shown(jobs[k])'
  BY <1>1, <1>3, MovesShown DEF ListInv
<1>7. Serial'
  <2>1. CASE stale \/ spoilt
    BY <1>1, <2>1 DEF Serial
  <2>2. CASE ~(stale \/ spoilt)
    <3>1. ASSUME NEW k \in Installs
          PROVE  Current(jobs[k])'
      <4>0. Current(jobs[k])
        BY <2>2 DEF ListInv, Serial
      <4>1. CASE k = j
        BY <1>1, <1>3, <4>0, <4>1 DEF Current, Moves
      <4>2. CASE k # j
        BY <1>1, <1>3, <4>0, <4>2 DEF Current, Moves
      <4>. QED
        BY <4>1, <4>2
    <3>2. j \in Writing'
      BY <1>3 DEF Moves, Writing, Installs
    <3>3. Installs' = Installs
      BY DEF Installs
    <3>. QED
      BY <1>1, <3>1, <3>2, <3>3 DEF Serial
  <2>. QED
    BY <2>1, <2>2
<1>. QED
  BY <1>4, <1>5, <1>6, <1>7, ListInvParts

\* A step that writes the file, or fails to, and goes on without a list.
LEMMA FileStep ==
    ASSUME ListInv, NEW j \in Installs, NEW p \in Places, Go(j, p), jobs[j].pc = "write",
           p \notin {"boxarts", "snaps", "ok"},
           file' \in [st : {"absent", "empty", "torn", "whole"}, items : Seq(Roms)],
           Distinct(file'.items), thumbs' = thumbs, ver' \in Nat, Serial'
    PROVE  ListInv'
<1>1. Moves(j, p, <<>>, 0)
  BY GoMoves DEF ListInv
<1>2. ListTypes'
  <2>1. \A k \in Installs : jobs'[k].pc # "none" => jobs'[k].rom \in Roms
    BY <1>1, MovesTypes DEF ListInv
  <2>. QED
    BY <1>1, <2>1, TypesParts DEF ListInv, ListTypes, Moves
<1>3. Singles'
  BY <1>1, EmptyDistinct, MovesSingles DEF ListInv
<1>4. \A k \in Installs : Shown(jobs[k])'
  BY <1>1, MovesShown DEF ListInv
<1>. QED
  BY <1>2, <1>3, <1>4, ListInvParts

\* writeAsString writes the list.
LEMMA WriteKeeps ==
    ASSUME ListInv, NEW j \in Installs, Write(j)
    PROVE  ListInv'
<1>1. /\ jobs[j].pc = "write" /\ Go(j, "titles") /\ ver' = ver + 1
      /\ stale' = (stale \/ jobs[j].ver # ver)
      /\ UNCHANGED <<thumbs, spoilt>>
  BY DEF Write
<1>2. expected' = WithEntry(jobs[j].rom, expected)
  BY DEF Write, WithEntry
<1>3. \/ file' = [st |-> "whole", items |-> jobs[j].items]
      \/ file.st # "empty" /\ file' = [st |-> "torn", items |-> <<>>]
  BY DEF Write
<1>4. jobs[j].items \in Seq(Roms) /\ Distinct(jobs[j].items) /\ ver \in Nat
  BY DEF ListInv, ListTypes, Singles, Job
<1>5. /\ file' \in [st : {"absent", "empty", "torn", "whole"}, items : Seq(Roms)]
      /\ Distinct(file'.items)
  <2>1. CASE file' = [st |-> "whole", items |-> jobs[j].items]
    BY <1>4, <2>1
  <2>2. CASE file' = [st |-> "torn", items |-> <<>>]
    BY <2>2, EmptyDistinct
  <2>. QED
    BY <1>3, <2>1, <2>2
<1>6. Moves(j, "titles", <<>>, 0)
  BY <1>1, GoMoves DEF ListInv, Places
<1>7. Serial'
  <2>1. CASE stale' \/ spoilt'
    BY <2>1 DEF Serial
  <2>2. CASE ~(stale' \/ spoilt')
    <3>1. ~stale /\ ~spoilt /\ jobs[j].ver = ver
      BY <1>1, <2>2
    <3>2. \A k \in Installs : Current(jobs[k])
      BY <3>1 DEF ListInv, Serial
    <3>3. file.st = "empty" /\ jobs[j].items = WithEntry(jobs[j].rom, expected)
      BY <1>1, <3>1, <3>2 DEF Current
    <3>4. file'.st = "whole" /\ file'.items = expected'
      BY <1>2, <1>3, <3>3
    <3>5. ASSUME NEW k \in Installs
          PROVE  Current(jobs[k])'
      <4>1. CASE k = j
        BY <1>1, <1>4, <1>6, <4>1 DEF Current, Moves
      <4>2. CASE k # j
        <5>1. jobs'[k].ver <= ver /\ jobs'[k].ver \in Nat
          BY <1>6, <3>2, <4>2 DEF Current, Moves, Job
        <5>. QED
          BY <1>1, <1>4, <5>1 DEF Current
      <4>. QED
        BY <4>1, <4>2
    <3>6. Installs' = Installs
      BY DEF Installs
    <3>. QED
      BY <3>4, <3>5, <3>6 DEF Serial
  <2>. QED
    BY <2>1, <2>2
<1>8. "titles" \in Places /\ ver' \in Nat
  BY <1>1, <1>4 DEF Places
<1>. QED
  BY <1>1, <1>5, <1>7, <1>8, FileStep

\* writeAsString throws.
LEMMA WriteFailsKeeps ==
    ASSUME ListInv, NEW j \in Installs, WriteFails(j)
    PROVE  ListInv'
<1>1. /\ jobs[j].pc = "write" /\ Go(j, "failed") /\ spoilt' = TRUE
      /\ file' \in {file, [st |-> "torn", items |-> <<>>]}
      /\ UNCHANGED <<thumbs, ver>>
  BY DEF WriteFails
<1>2. /\ file' \in [st : {"absent", "empty", "torn", "whole"}, items : Seq(Roms)]
      /\ Distinct(file'.items)
  <2>1. CASE file' = file
    BY <2>1 DEF ListInv, ListTypes, Singles
  <2>2. CASE file' = [st |-> "torn", items |-> <<>>]
    BY <2>2, EmptyDistinct
  <2>. QED
    BY <1>1, <2>1, <2>2
<1>3. Serial'
  BY <1>1 DEF Serial
<1>4. "failed" \in Places /\ ver' \in Nat
  BY <1>1 DEF Places, ListInv, ListTypes
<1>. QED
  BY <1>1, <1>2, <1>3, <1>4, FileStep

\* A thumbnail is written, or its image is not to be had.
LEMMA ThumbKeeps ==
    ASSUME ListInv, NEW j \in Installs, Thumb(j)
    PROVE  ListInv'
<1>1. /\ jobs[j].pc \in {"titles", "boxarts", "snaps"}
      /\ UNCHANGED <<file, ver, expected, stale, spoilt>>
  BY DEF Thumb, Kinds, ghosts
<1>2. CASE Go(j, "failed") /\ thumbs' = thumbs
  BY <1>1, <1>2, FailKeeps
<1>3. CASE /\ thumbs' = [thumbs EXCEPT ![jobs[j].rom] = @ \cup {jobs[j].pc}]
           /\ Go(j, After(jobs[j].pc))
  <2>1. PICK p : p = After(jobs[j].pc)
    OBVIOUS
  <2>2. \/ jobs[j].pc = "titles" /\ p = "boxarts"
        \/ jobs[j].pc = "boxarts" /\ p = "snaps"
        \/ jobs[j].pc = "snaps" /\ p = "ok"
    BY <1>1, <2>1 DEF After
  <2>3. Moves(j, p, <<>>, 0)
    <3>1. p \in Places
      BY <2>2 DEF Places
    <3>. QED
      BY <1>3, <2>1, <3>1, GoMoves DEF ListInv
  <2>4. jobs[j].rom \in Roms /\ thumbs \in [Roms -> SUBSET Kinds]
    BY <1>1 DEF ListInv, ListTypes
  <2>5. /\ thumbs' \in [Roms -> SUBSET Kinds]
        /\ thumbs'[jobs[j].rom] = thumbs[jobs[j].rom] \cup {jobs[j].pc}
        /\ \A r \in Roms : thumbs[r] \subseteq thumbs'[r]
    BY <1>1, <1>3, <2>4 DEF Kinds
  <2>6. ListTypes'
    <3>1. \A k \in Installs : jobs'[k].pc # "none" => jobs'[k].rom \in Roms
      BY <1>1, <2>3, MovesTypes DEF ListInv
    <3>. QED
      BY <1>1, <2>3, <2>5, <3>1, TypesParts DEF ListInv, ListTypes, Moves
  <2>7. Singles'
    BY <1>1, <2>3, EmptyDistinct, MovesSingles DEF ListInv, Singles
  <2>8. Serial'
    <3>1. Current(jobs[j])'
      BY <1>1, <2>2, <2>3 DEF Moves, Current, ListInv, ListTypes
    <3>. QED
      BY <1>1, <2>3, <3>1, MovesSerial DEF ListInv
  <2>9. ASSUME NEW k \in Installs
        PROVE  Shown(jobs[k])'
    <3>0. Shown(jobs[k]) /\ Shown(jobs[j])
      BY DEF ListInv
    <3>1. CASE k = j
      <4>1. jobs'[k].pc = p /\ jobs'[k].rom = jobs[j].rom
        BY <2>3, <3>1 DEF Moves
      <4>2. thumbs'[jobs[j].rom] \subseteq Kinds
        BY <2>4, <2>5
      <4>3. CASE jobs[j].pc = "titles" /\ p = "boxarts"
        BY <2>5, <4>1, <4>3 DEF Shown
      <4>4. CASE jobs[j].pc = "boxarts" /\ p = "snaps"
        BY <2>5, <3>0, <4>1, <4>4 DEF Shown
      <4>5. CASE jobs[j].pc = "snaps" /\ p = "ok"
        BY <2>5, <3>0, <4>1, <4>2, <4>5 DEF Shown, Kinds
      <4>. QED
        BY <2>2, <4>3, <4>4, <4>5
    <3>2. CASE k # j
      <4>1. jobs'[k] = jobs[k]
        BY <2>3, <3>2 DEF Moves
      <4>2. jobs[k].pc # "none" => /\ thumbs[jobs[k].rom] \subseteq thumbs'[jobs[k].rom]
                                   /\ thumbs'[jobs[k].rom] \subseteq Kinds
        BY <2>5 DEF ListInv, ListTypes
      <4>. QED
        BY <3>0, <4>1, <4>2 DEF Shown, Kinds
    <3>. QED
      BY <3>1, <3>2
  <2>. QED
    BY <2>6, <2>7, <2>8, <2>9, ListInvParts
<1>. QED
  BY <1>2, <1>3 DEF Thumb

\* A death ends the installs that run.
LEMMA DeathKeeps ==
    ASSUME ListInv, Death
    PROVE  ListInv'
<1>1. /\ jobs' = [j \in Installs |-> IF Running(j) THEN JobAt("dead", jobs[j].rom)
                                        ELSE jobs[j]]
      /\ spoilt' = (spoilt \/ Writing # {})
      /\ UNCHANGED <<file, thumbs, ver, expected, stale>>
  BY DEF Death
<1>2. ASSUME NEW j \in Installs
      PROVE  \/ jobs'[j] = jobs[j]
             \/ /\ jobs[j].pc # "none" /\ jobs'[j].pc = "dead" /\ jobs'[j].rom = jobs[j].rom
                /\ jobs'[j].items = <<>> /\ jobs'[j].ver = 0 /\ jobs'[j] \in Job
  BY <1>1 DEF Running, Over, JobAt, ListInv, ListTypes, Job, Places
<1>3. jobs' \in [Installs -> Job]
  <2>1. \A j \in Installs : jobs'[j] \in Job
    BY <1>2 DEF ListInv, ListTypes
  <2>. QED
    BY <1>1, <2>1
<1>4. ListTypes'
  <2>1. \A k \in Installs : jobs'[k].pc # "none" => jobs'[k].rom \in Roms
    BY <1>2 DEF ListInv, ListTypes
  <2>. QED
    BY <1>1, <1>3, <2>1, TypesParts DEF ListInv, ListTypes
<1>5. Singles'
  <2>1. \A k \in Installs : Distinct(jobs'[k].items)
    BY <1>2, EmptyDistinct DEF ListInv, Singles
  <2>. QED
    BY <1>1, <2>1 DEF Singles, Installs, ListInv
<1>6. \A k \in Installs : Shown(jobs[k])'
  BY <1>1, <1>2 DEF ListInv, Shown, Kinds
<1>7. Serial'
  <2>1. CASE stale' \/ spoilt'
    BY <2>1 DEF Serial
  <2>2. CASE ~(stale' \/ spoilt')
    <3>1. ~stale /\ ~spoilt /\ Writing = {}
      BY <1>1, <2>2
    <3>2. ASSUME NEW k \in Installs
          PROVE  Current(jobs[k])'
      <4>1. Current(jobs[k])
        BY <3>1 DEF ListInv, Serial
      <4>2. CASE jobs'[k] = jobs[k]
        BY <1>1, <4>1, <4>2 DEF Current
      <4>3. CASE jobs'[k].pc = "dead" /\ jobs'[k].ver = 0
        BY <1>1, <4>3 DEF Current, ListInv, ListTypes
      <4>. QED
        BY <1>2, <4>2, <4>3
    <3>3. Installs' = Installs
      BY DEF Installs
    <3>. QED
      BY <1>1, <3>1, <3>2, <3>3 DEF ListInv, Serial
  <2>. QED
    BY <2>1, <2>2
<1>. QED
  BY <1>4, <1>5, <1>6, <1>7, ListInvParts

\* The invariant holds before the first install.
LEMMA ListInit ==
    ASSUME PlaylistInit
    PROVE  ListInv
<1>1. /\ file = [st |-> "absent", items |-> <<>>]
      /\ jobs = [j \in Installs |-> JobAt("none", CHOOSE r \in Roms : TRUE)]
      /\ thumbs = [r \in Roms |-> {}]
      /\ ver = 0 /\ expected = <<>>
  BY DEF PlaylistInit
<1>2. ASSUME NEW j \in Installs
      PROVE  /\ jobs[j].pc = "none" /\ jobs[j].items = <<>> /\ jobs[j].ver = 0
             /\ jobs[j] \in Job
  BY <1>1 DEF JobAt, Job, Places
<1>3. jobs \in [Installs -> Job]
  BY <1>1, <1>2
<1>4. ListTypes
  <2>1. file \in [st : {"absent", "empty", "torn", "whole"}, items : Seq(Roms)]
    BY <1>1, EmptyDistinct
  <2>2. thumbs \in [Roms -> SUBSET Kinds] /\ ver \in Nat
    BY <1>1
  <2>. QED
    BY <1>2, <1>3, <2>1, <2>2 DEF ListTypes
<1>5. Singles
  BY <1>1, <1>2, EmptyDistinct DEF Singles
<1>6. Serial
  BY <1>1, <1>2 DEF Serial, Current
<1>. QED
  BY <1>2, <1>4, <1>5, <1>6 DEF ListInv, Shown

\* Every step of the installs keeps it.
LEMMA ListNext ==
    ASSUME ListInv, [PlaylistNext]_playlistVars
    PROVE  ListInv'
<1>1. CASE \E j \in Installs, r \in Roms : Install(j, r)
  BY <1>1, InstallKeeps
<1>2. CASE \E j \in Installs : Step(j)
  BY <1>2, ReadKeeps, CrcKeeps, OpenKeeps, WriteKeeps, WriteFailsKeeps, ThumbKeeps DEF Step
<1>3. CASE Death
  BY <1>3, DeathKeeps
<1>4. CASE UNCHANGED playlistVars
  <2>1. UNCHANGED <<file, jobs, thumbs, ver, expected, stale, spoilt>>
    BY <1>4 DEF playlistVars, ghosts
  <2>. QED
    BY <2>1 DEF ListInv, ListTypes, Singles, Serial, Current, Shown, Writing, Installs, Kinds
<1>. QED
  BY <1>1, <1>2, <1>3, <1>4 DEF PlaylistNext

\* RetroArchConfig.install: no ROM is in the playlist twice, however installs
\* interleave and wherever the program dies.
THEOREM RomsStaySingle == PlaylistSpec => []OneEntryPerRom
<1>1. PlaylistInit => ListInv
  BY ListInit
<1>2. ListInv /\ [PlaylistNext]_playlistVars => ListInv'
  BY ListNext
<1>3. ListInv => OneEntryPerRom
  BY DEF ListInv, Singles, Distinct, OneEntryPerRom
<1>. QED
  BY <1>1, <1>2, <1>3, PTL DEF PlaylistSpec

\* RetroArchConfig.install: an entry is lost, or the file left unreadable,
\* only by a stale or a spoilt write, and who has ended has his thumbnails.
THEOREM SerialInstallsAreExact == PlaylistSpec => []SerialIsExact
<1>1. PlaylistInit => ListInv
  BY ListInit
<1>2. ListInv /\ [PlaylistNext]_playlistVars => ListInv'
  BY ListNext
<1>3. ListInv => SerialIsExact
  BY DEF ListInv, ListTypes, Serial, Shown, SerialIsExact
<1>. QED
  BY <1>1, <1>2, <1>3, PTL DEF PlaylistSpec

-----------------------------------------------------------------------------
(***************************************************************************)
(* The list of libraries: module Libraries.                                *)
(***************************************************************************)

LibraryRow == [url : Urls, signed : BOOLEAN]

\* The libraries with a token, and that none has two rows.
Signed(rs) == {rs[i].url : i \in {k \in DOMAIN rs : rs[k].signed}}
OneRow(rs) == \A i, j \in DOMAIN rs : rs[i].url = rs[j].url => i = j

LEMMA SignedMeans ==
    ASSUME NEW rs, NEW x
    PROVE  x \in Signed(rs) <=> \E i \in DOMAIN rs : rs[i].signed /\ rs[i].url = x
BY DEF Signed

\* A row added at the end.
LEMMA AddedRow ==
    ASSUME NEW rs \in Seq(LibraryRow), NEW x \in LibraryRow,
           OneRow(rs), \A i \in DOMAIN rs : rs[i].url # x.url
    PROVE  /\ Append(rs, x) \in Seq(LibraryRow) /\ OneRow(Append(rs, x))
           /\ Signed(Append(rs, x)) = Signed(rs) \cup (IF x.signed THEN {x.url} ELSE {})
<1>1. PICK u \in Seq(LibraryRow) : u = Append(rs, x)
  BY AppendProperties
<1>2. /\ DOMAIN u = 1..(Len(rs) + 1) /\ DOMAIN rs = 1..Len(rs) /\ Len(rs) \in Nat
      /\ u[Len(rs) + 1] = x /\ \A i \in 1..Len(rs) : u[i] = rs[i]
  BY <1>1, AppendProperties
<1>3. OneRow(u)
  <2>1. SUFFICES ASSUME NEW i \in 1..(Len(rs) + 1), NEW j \in 1..(Len(rs) + 1),
                        u[i].url = u[j].url
                 PROVE  i = j
    BY <1>2 DEF OneRow
  <2>2. CASE i \in 1..Len(rs) /\ j \in 1..Len(rs)
    BY <1>2, <2>1, <2>2 DEF OneRow
  <2>3. CASE i = Len(rs) + 1 /\ j \in 1..Len(rs)
    BY <1>2, <2>1, <2>3
  <2>4. CASE j = Len(rs) + 1 /\ i \in 1..Len(rs)
    BY <1>2, <2>1, <2>4
  <2>. QED
    BY <1>2, <2>2, <2>3, <2>4
<1>4. ASSUME NEW y
      PROVE  y \in Signed(u) <=> y \in Signed(rs) \/ (x.signed /\ y = x.url)
  <2>1. ASSUME y \in Signed(u)
        PROVE  y \in Signed(rs) \/ (x.signed /\ y = x.url)
    <3>1. PICK i \in DOMAIN u : u[i].signed /\ u[i].url = y
      BY <2>1, SignedMeans
    <3>2. CASE i \in 1..Len(rs)
      BY <1>2, <3>1, <3>2, SignedMeans
    <3>3. CASE i = Len(rs) + 1
      BY <1>2, <3>1, <3>3
    <3>. QED
      BY <1>2, <3>2, <3>3
  <2>2. ASSUME y \in Signed(rs)
        PROVE  y \in Signed(u)
    <3>1. PICK i \in DOMAIN rs : rs[i].signed /\ rs[i].url = y
      BY <2>2, SignedMeans
    <3>2. i \in DOMAIN u /\ u[i] = rs[i]
      BY <1>2, <3>1
    <3>. QED
      BY <3>1, <3>2, SignedMeans
  <2>3. ASSUME x.signed, y = x.url
        PROVE  y \in Signed(u)
    <3>1. Len(rs) + 1 \in DOMAIN u /\ u[Len(rs) + 1] = x
      BY <1>2
    <3>. QED
      BY <2>3, <3>1, SignedMeans
  <2>. QED
    BY <2>1, <2>2, <2>3
<1>. QED
  BY <1>1, <1>3, <1>4

\* A row that is there gets its token.
LEMMA SignedRow ==
    ASSUME NEW rs \in Seq(LibraryRow), NEW x \in Urls, OneRow(rs),
           \E i \in DOMAIN rs : rs[i].url = x,
           NEW u, u = [i \in DOMAIN rs |-> IF rs[i].url = x THEN [rs[i] EXCEPT !.signed = TRUE]
                                           ELSE rs[i]]
    PROVE  u \in Seq(LibraryRow) /\ OneRow(u) /\ Signed(u) = Signed(rs) \cup {x}
<1>1. DOMAIN rs = 1..Len(rs) /\ Len(rs) \in Nat /\ \A i \in DOMAIN rs : rs[i] \in LibraryRow
  OBVIOUS
<1>2. ASSUME NEW i \in DOMAIN rs
      PROVE  /\ u[i] \in LibraryRow /\ u[i].url = rs[i].url
             /\ u[i].signed <=> (rs[i].signed \/ rs[i].url = x)
  <2>1. CASE rs[i].url = x
    BY <1>1, <2>1 DEF LibraryRow
  <2>2. CASE rs[i].url # x
    BY <1>1, <2>2 DEF LibraryRow
  <2>. QED
    BY <2>1, <2>2
<1>3. DOMAIN u = DOMAIN rs
  OBVIOUS
<1>4. u \in Seq(LibraryRow)
  <2>1. u \in [1..Len(rs) -> LibraryRow]
    BY <1>1, <1>2
  <2>. QED
    BY <1>1, <2>1
<1>5. OneRow(u)
  BY <1>2, <1>3 DEF OneRow
<1>6. ASSUME NEW y
      PROVE  y \in Signed(u) <=> y \in Signed(rs) \/ y = x
  <2>1. y \in Signed(u) <=> \E i \in DOMAIN rs : u[i].signed /\ u[i].url = y
    BY <1>3, SignedMeans
  <2>2. y \in Signed(rs) <=> \E i \in DOMAIN rs : rs[i].signed /\ rs[i].url = y
    BY SignedMeans
  <2>. QED
    BY <1>2, <2>1, <2>2
<1>. QED
  BY <1>4, <1>5, <1>6

\* parseLibrary of an accepted comment.
LEMMA AcceptedRow ==
    ASSUME UrlOf \in Seq(Urls), NEW rs \in Seq(LibraryRow), OneRow(rs), NEW c \in 1..Total
    PROVE  /\ Accepted(rs, c) \in Seq(LibraryRow) /\ OneRow(Accepted(rs, c))
           /\ Signed(Accepted(rs, c))
                = Signed(rs) \cup (IF c \in Ignored THEN {} ELSE {UrlOf[c]})
<1>1. UrlOf[c] \in Urls
  BY DEF Total
<1>2. PICK x \in Urls : x = UrlOf[c]
  BY <1>1
<1>3. CASE c \in Ignored
  BY <1>3 DEF Accepted
<1>4. CASE c \notin Ignored /\ \E i \in DOMAIN rs : rs[i].url = x
  <2>1. PICK u : u = [i \in DOMAIN rs |-> IF rs[i].url = x THEN [rs[i] EXCEPT !.signed = TRUE]
                                           ELSE rs[i]]
    OBVIOUS
  <2>2. Accepted(rs, c) = u
    BY <1>2, <1>4, <2>1 DEF Accepted
  <2>3. u \in Seq(LibraryRow) /\ OneRow(u) /\ Signed(u) = Signed(rs) \cup {x}
    BY <1>4, <2>1, SignedRow
  <2>. QED
    BY <1>2, <1>4, <2>2, <2>3
<1>5. CASE c \notin Ignored /\ ~(\E i \in DOMAIN rs : rs[i].url = x)
  <2>1. PICK y \in LibraryRow : y = [url |-> x, signed |-> TRUE]
    BY DEF LibraryRow
  <2>2. Accepted(rs, c) = Append(rs, y)
    BY <1>2, <1>5, <2>1 DEF Accepted
  <2>3. y.signed /\ y.url = x
    BY <2>1
  <2>4. /\ Append(rs, y) \in Seq(LibraryRow) /\ OneRow(Append(rs, y))
        /\ Signed(Append(rs, y)) = Signed(rs) \cup (IF y.signed THEN {y.url} ELSE {})
    BY <1>5, <2>3, AddedRow
  <2>. QED
    BY <1>2, <1>5, <2>2, <2>3, <2>4
<1>. QED
  BY <1>3, <1>4, <1>5

\* The loop of requestPage over the comments of a page.
Parses(f, rs, cs) ==
    /\ f[0] = rs
    /\ \A c \in 1..Total :
          f[c] = IF c \in cs THEN Accepted(f[c - 1], c) ELSE f[c - 1]

\* Parsed is the last value of that loop.
LEMMA ParsedRuns ==
    ASSUME UrlOf \in Seq(Urls), NEW rs \in Seq(LibraryRow), OneRow(rs), NEW cs
    PROVE  \E f : Parses(f, rs, cs) /\ Parsed(rs, cs) = f[Total]
<1>. DEFINE Body(h, c) == IF c = 0 THEN rs
                          ELSE IF c \in cs THEN Accepted(h[c - 1], c) ELSE h[c - 1]
            F == CHOOSE h : h = [c \in 0..Total |-> Body(h, c)]
<1>1. Total \in Nat
  BY DEF Total
<1>2. \E h : h = [c \in 0..Total |-> Body(h, c)]
  <2>1. PICK N \in Nat : N = Total
    BY <1>1
  <2>2. PICK V : V = {x \in Seq(LibraryRow) : OneRow(x)}
    OBVIOUS
  <2>. DEFINE g == [c \in 1..N |-> [t \in V |-> IF c \in cs THEN Accepted(t, c) ELSE t]]
  <2>3. rs \in V
    BY <2>2
  <2>4. g \in [1..N -> [V -> V]]
    <3>1. ASSUME NEW c \in 1..N, NEW t \in V
          PROVE  (IF c \in cs THEN Accepted(t, c) ELSE t) \in V
      <4>1. t \in Seq(LibraryRow) /\ OneRow(t)
        BY <2>2
      <4>2. Accepted(t, c) \in Seq(LibraryRow) /\ OneRow(Accepted(t, c))
        BY <2>1, <4>1, AcceptedRow
      <4>. QED
        BY <2>2, <4>2
    <3>. QED
      BY <3>1
  <2>5. PICK f \in [0..N -> V] : Runs(f, N, rs, g)
    <3>. HIDE DEF g
    <3>. QED
      BY <2>3, <2>4, LoopExists
  <2>6. ASSUME NEW c \in 0..N
        PROVE  f[c] = Body(f, c)
    <3>1. CASE c = 0
      BY <2>5, <3>1 DEF Runs
    <3>2. CASE c # 0
      <4>1. c \in 1..N /\ f[c - 1] \in V
        BY <3>2
      <4>2. f[c] = g[c][f[c - 1]]
        BY <2>5, <4>1 DEF Runs
      <4>. QED
        BY <3>2, <4>1, <4>2
    <3>. QED
      BY <3>1, <3>2
  <2>7. f = [c \in 0..Total |-> Body(f, c)]
    <3>. HIDE DEF Body
    <3>. QED
      BY <2>1, <2>6
  <2>. QED
    BY <2>7, Zenon
<1>3. F = [c \in 0..Total |-> Body(F, c)]
  <2>. HIDE DEF Body
  <2>. QED
    BY <1>2, Zenon
<1>4. Parsed(rs, cs) = F[Total]
  BY Zenon DEF Parsed
<1>. HIDE DEF F
<1>5. \A c \in 0..Total : F[c] = Body(F, c)
  <2>. HIDE DEF Body
  <2>. QED
    BY <1>3
<1>6. Parses(F, rs, cs)
  BY <1>1, <1>5 DEF Parses
<1>. QED
  BY <1>4, <1>6

\* A page of accepted comments: each library once, and a token for exactly the
\* libraries that had one or are in an accepted comment without the flag.
LEMMA ParsedRows ==
    ASSUME UrlOf \in Seq(Urls), NEW rs \in Seq(LibraryRow), OneRow(rs), NEW cs \in SUBSET (1..Total)
    PROVE  /\ Parsed(rs, cs) \in Seq(LibraryRow) /\ OneRow(Parsed(rs, cs))
           /\ Signed(Parsed(rs, cs)) = Signed(rs) \cup {UrlOf[c] : c \in cs \ Ignored}
<1>1. PICK f : Parses(f, rs, cs) /\ Parsed(rs, cs) = f[Total]
  BY ParsedRuns
<1>2. PICK N \in Nat : N = Total
  BY DEF Total
<1>. DEFINE Upto(n) == {UrlOf[c] : c \in {d \in cs \ Ignored : d <= n}}
            Fits(n) == /\ f[n] \in Seq(LibraryRow) /\ OneRow(f[n])
                       /\ Signed(f[n]) = Signed(rs) \cup Upto(n)
            T == {n \in 0..N : Fits(n)}
<1>3. 0 \in T
  <2>1. f[0] = rs /\ 0 \in 0..N
    BY <1>1 DEF Parses
  <2>2. Upto(0) = {}
    BY <1>2
  <2>. QED
    BY <2>1, <2>2
<1>4. ASSUME NEW n \in 1..N, n - 1 \in T
      PROVE  n \in T
  <2>1. PICK t \in Seq(LibraryRow) : t = f[n - 1]
    BY <1>4
  <2>2. OneRow(t) /\ Signed(t) = Signed(rs) \cup Upto(n - 1)
    BY <1>4, <2>1
  <2>3. f[n] = IF n \in cs THEN Accepted(t, n) ELSE t
    BY <1>1, <1>2, <2>1 DEF Parses
  <2>4. n \in 0..N /\ n <= n
    OBVIOUS
  <2>5. CASE n \in cs /\ n \notin Ignored
    <3>1. Upto(n) = Upto(n - 1) \cup {UrlOf[n]}
      <4>1. \A d \in cs \ Ignored : d <= n <=> d <= n - 1 \/ d = n
        BY <1>2
      <4>. QED
        BY <2>4, <2>5, <4>1, Zenon
    <3>2. /\ Accepted(t, n) \in Seq(LibraryRow) /\ OneRow(Accepted(t, n))
          /\ Signed(Accepted(t, n)) = Signed(t) \cup {UrlOf[n]}
      BY <1>2, <2>2, <2>5, AcceptedRow
    <3>3. f[n] = Accepted(t, n)
      BY <2>3, <2>5
    <3>. HIDE DEF Upto
    <3>4. Signed(f[n]) = Signed(rs) \cup Upto(n)
      BY <2>2, <3>1, <3>2, <3>3
    <3>. QED
      BY <2>4, <3>2, <3>3, <3>4
  <2>6. CASE n \notin cs \/ n \in Ignored
    <3>1. Upto(n) = Upto(n - 1)
      <4>1. \A d \in cs \ Ignored : d <= n <=> d <= n - 1
        BY <1>2, <2>6
      <4>. QED
        BY <4>1, Zenon
    <3>2. CASE n \in cs
      <4>1. /\ Accepted(t, n) \in Seq(LibraryRow) /\ OneRow(Accepted(t, n))
            /\ Signed(Accepted(t, n)) = Signed(t)
        BY <1>2, <2>2, <2>6, <3>2, AcceptedRow
      <4>. HIDE DEF Upto
      <4>. QED
        BY <2>2, <2>3, <2>4, <3>1, <3>2, <4>1
    <3>3. CASE n \notin cs
      <4>. HIDE DEF Upto
      <4>. QED
        BY <2>2, <2>3, <2>4, <3>1, <3>3
    <3>. QED
      BY <3>2, <3>3
  <2>. QED
    BY <2>5, <2>6
<1>5. N \in T
  <2>. HIDE DEF T
  <2>1. \A n \in 1..N : n - 1 \in T => n \in T
    BY <1>4
  <2>2. 0..N \subseteq T
    BY <1>3, <2>1, CountUp
  <2>. QED
    BY <2>2
<1>6. Upto(N) = {UrlOf[c] : c \in cs \ Ignored}
  BY <1>2
<1>. HIDE DEF Upto
<1>. QED
  BY <1>1, <1>2, <1>5, <1>6

\* The values the variables take.
Requests == [kind : {"reload", "more"}, page : Nat, since : Nat]
LibraryTypes ==
    /\ posted \in 0..Total /\ token \in Nat /\ reach \in Nat /\ pageIndex \in Nat
    /\ reqs \in Seq(Requests) /\ rows \in Seq(LibraryRow)

\* The token of the context is one that was reached, and what is signed is
\* what the comments up to there say.
ChainInv ==
    /\ LibraryTypes
    /\ token <= reach
    /\ OneRow(rows)
    /\ Signed(rows) = {UrlOf[c] : c \in 1..reach \ Ignored}

\* isMatch along a page accepts an unbroken run from the token on.
LEMMA MatchedRun ==
    ASSUME LibraryTypes, PerPage \in Nat, UrlOf \in Seq(Urls), NEW p \in Nat, NEW n \in 0..posted,
           NEW m, m = Matched(PageOf(p, n)), m # {},
           NEW t, t = CHOOSE c \in m : \A d \in m : d <= c
    PROVE  t \in token..Total /\ m = (token + 1)..t
<1>1. Total \in Nat /\ posted \in 0..Total /\ token \in Nat
  BY DEF LibraryTypes, Total
<1>2. PICK q \in Nat : q = NotBefore(p, 1) /\ q > 0
  BY DEF NotBefore
<1>3. PICK a \in Int : a = (q - 1) * PerPage
  BY <1>2
<1>4. PICK b \in Int : b = q * PerPage
  BY <1>2
<1>5. PageOf(p, n) = {c \in 1..n : a < c /\ c <= b}
  BY <1>2, <1>3, <1>4 DEF PageOf
<1>6. /\ token + 1 \in 1..n /\ a < token + 1
      /\ m = {c \in 1..n : a < c /\ c <= b /\ c > token}
  BY <1>1, <1>5 DEF Matched
<1>7. \E c \in m : \A d \in m : d <= c
  <2>. DEFINE S == {x \in 0..n : n - x \in m}
  <2>1. S \in SUBSET Nat
    OBVIOUS
  <2>2. S # {}
    <3>1. PICK c \in m : TRUE
      OBVIOUS
    <3>2. n - c \in 0..n /\ n - (n - c) = c
      BY <1>6
    <3>. QED
      BY <3>1, <3>2
  <2>3. PICK x \in S : \A y \in S : x <= y
    <3>. HIDE DEF S
    <3>. QED
      BY <2>1, <2>2, Least
  <2>4. ASSUME NEW d \in m
        PROVE  d <= n - x
    <3>1. d \in 1..n /\ n - d \in 0..n /\ n - (n - d) = d
      BY <1>6
    <3>2. n - d \in S
      BY <3>1
    <3>3. x <= n - d
      BY <2>3, <3>2
    <3>. QED
      BY <2>3, <3>1, <3>3
  <2>. QED
    BY <2>3, <2>4
<1>8. t \in m /\ \A d \in m : d <= t
  BY <1>7, Zenon
<1>9. t \in 1..n /\ t > token /\ t <= b
  BY <1>6, <1>8
<1>10. ASSUME NEW c
       PROVE  c \in m <=> c \in (token + 1)..t
  <2>1. ASSUME c \in m
        PROVE  c \in (token + 1)..t
    BY <1>1, <1>6, <1>8, <1>9, <2>1
  <2>2. ASSUME c \in (token + 1)..t
        PROVE  c \in m
    <3>1. c \in 1..n /\ a < c /\ c <= b /\ c > token
      BY <1>1, <1>6, <1>9, <2>2
    <3>. QED
      BY <1>6, <3>1
  <2>. QED
    BY <2>1, <2>2
<1>11. t \in token..Total
  BY <1>1, <1>9
<1>12. m = (token + 1)..t
  BY <1>10, Zenon
<1>. QED
  BY <1>11, <1>12

\* A request leaves the list.
LEMMA Removed ==
    ASSUME NEW S, NEW s \in Seq(S), NEW k \in DOMAIN s
    PROVE  /\ RemoveAt(s, k) \in Seq(S) /\ Len(RemoveAt(s, k)) = Len(s) - 1
           /\ \A i \in 1..(Len(s) - 1) : RemoveAt(s, k)[i] = IF i < k THEN s[i] ELSE s[i + 1]
<1>1. k \in 1..Len(s) /\ Len(s) \in Nat /\ \A i \in 1..Len(s) : s[i] \in S
  OBVIOUS
<1>2. PICK a : a = SubSeq(s, 1, k - 1)
  OBVIOUS
<1>3. PICK b : b = SubSeq(s, k + 1, Len(s))
  OBVIOUS
<1>4. a \in Seq(S) /\ Len(a) = k - 1 /\ \A i \in 1..(k - 1) : a[i] = s[i]
  BY <1>1, <1>2
<1>5. b \in Seq(S) /\ Len(b) = Len(s) - k /\ \A i \in 1..(Len(s) - k) : b[i] = s[k + i]
  <2>1. \A i \in (k + 1)..Len(s) : s[i] \in S
    BY <1>1
  <2>2. k + 1 \in Int /\ Len(s) \in Int
    BY <1>1
  <2>3. /\ b \in Seq(S) /\ Len(b) = IF k + 1 <= Len(s) THEN Len(s) - (k + 1) + 1 ELSE 0
        /\ \A i \in 1..(Len(s) - (k + 1) + 1) : b[i] = s[k + 1 + i - 1]
    BY <1>3, <2>1, <2>2, SubSeqProperties
  <2>. QED
    BY <1>1, <2>3
<1>6. PICK c : c = RemoveAt(s, k)
  OBVIOUS
<1>7. c = a \o b
  BY <1>2, <1>3, <1>6 DEF RemoveAt
<1>8. /\ c \in Seq(S) /\ Len(c) = Len(a) + Len(b)
      /\ \A i \in 1..(Len(a) + Len(b)) : c[i] = IF i <= Len(a) THEN a[i] ELSE b[i - Len(a)]
  BY <1>4, <1>5, <1>7, ConcatProperties
<1>9. Len(a) + Len(b) = Len(s) - 1
  BY <1>1, <1>4, <1>5
<1>10. ASSUME NEW i \in 1..(Len(s) - 1)
       PROVE  c[i] = IF i < k THEN s[i] ELSE s[i + 1]
  <2>1. CASE i < k
    BY <1>1, <1>4, <1>8, <1>9, <2>1
  <2>2. CASE ~(i < k)
    <3>1. c[i] = b[i - (k - 1)]
      BY <1>1, <1>4, <1>8, <1>9, <2>2
    <3>2. i - (k - 1) \in 1..(Len(s) - k) /\ k + (i - (k - 1)) = i + 1
      BY <1>1, <2>2
    <3>. QED
      BY <1>5, <2>2, <3>1, <3>2
  <2>. QED
    BY <2>1, <2>2
<1>. QED
  BY <1>6, <1>8, <1>9, <1>10

\* A request that is made: reload asks for page 0, loadMore for the next one.
LEMMA AskedStays ==
    ASSUME UrlOf \in Seq(Urls), ChainInv, NEW k \in {"reload", "more"}, NEW p \in Nat, Ask(k, p),
           UNCHANGED <<posted, rows, token, pageIndex, reach>>
    PROVE  ChainInv'
<1>1. PICK r \in Requests : r = [kind |-> k, page |-> p, since |-> posted]
  <2>1. posted \in Nat
    BY DEF ChainInv, LibraryTypes, Total
  <2>2. [kind |-> k, page |-> p, since |-> posted] \in Requests
    BY <2>1 DEF Requests
  <2>. QED
    BY <2>2
<1>2. reqs' = Append(reqs, r)
  BY <1>1 DEF Ask
<1>3. reqs' \in Seq(Requests)
  BY <1>2, AppendProperties DEF ChainInv, LibraryTypes
<1>. QED
  BY <1>3 DEF ChainInv, LibraryTypes

\* initState and dispose: a context without a token, and at most one request.
LEMMA OpenedStays ==
    ASSUME UrlOf \in Seq(Urls), ChainInv, Dispose \/ \E recent \in BOOLEAN : Open(recent)
    PROVE  ChainInv'
<1>1. PICK r \in Requests : r = [kind |-> "reload", page |-> 0, since |-> posted]
  <2>1. posted \in Nat
    BY DEF ChainInv, LibraryTypes, Total
  <2>2. [kind |-> "reload", page |-> 0, since |-> posted] \in Requests
    BY <2>1 DEF Requests
  <2>. QED
    BY <2>2
<1>2. reqs' = <<>> \/ reqs' = <<r>>
  BY <1>1 DEF Dispose, Open
<1>3. reqs' \in Seq(Requests)
  <2>1. <<>> \in Seq(Requests) /\ <<r>> \in Seq(Requests)
    OBVIOUS
  <2>. QED
    BY <1>2, <2>1, Zenon
<1>4. token' = 0 /\ pageIndex' = 0 /\ UNCHANGED <<posted, rows, reach>>
  BY DEF Dispose, Open
<1>. QED
  BY <1>3, <1>4 DEF ChainInv, LibraryTypes

\* requestPage and what follows it: a page that does not follow on the token
\* changes no library, and one that does takes the run of accepted comments on
\* from where the token is, which is never beyond its end.
LEMMA AnsweredStays ==
    ASSUME UrlOf \in Seq(Urls), PerPage \in Nat, ChainInv,
           NEW i \in DOMAIN reqs, NEW n \in 0..posted, Answer(i, n)
    PROVE  ChainInv'
<1>1. PICK p \in Nat : p = reqs[i].page
  <2>1. reqs[i] \in Requests
    BY DEF ChainInv, LibraryTypes
  <2>. QED
    BY <2>1 DEF Requests
<1>. DEFINE m == Matched(PageOf(reqs[i].page, n))
            t == IF m = {} THEN token ELSE CHOOSE c \in m : \A d \in m : d <= c
<1>2. m = Matched(PageOf(p, n))
  BY <1>1
<1>3. pageIndex' = reqs[i].page
  BY DEF Answer
<1>4. /\ rows' = Parsed(rows, m) /\ token' = t /\ reach' = NotBefore(reach, t)
      /\ pageIndex' = p /\ reqs' = RemoveAt(reqs, i) /\ posted' = posted
  BY <1>1, <1>3, Zenon DEF Answer
<1>. HIDE DEF m, t
<1>5. reqs' \in Seq(Requests)
  BY <1>4, Removed DEF ChainInv, LibraryTypes
<1>6. /\ Total \in Nat /\ posted \in 0..Total /\ token \in Nat /\ reach \in Nat
      /\ token <= reach /\ rows \in Seq(LibraryRow) /\ OneRow(rows)
      /\ Signed(rows) = {UrlOf[c] : c \in 1..reach \ Ignored}
  BY DEF ChainInv, LibraryTypes, Total
<1>7. m \in SUBSET (1..Total)
  <2>1. m \subseteq PageOf(p, n)
    BY <1>2 DEF Matched
  <2>2. PageOf(p, n) \subseteq 1..n
    BY Zenon DEF PageOf
  <2>. QED
    BY <1>6, <2>1, <2>2
<1>8. /\ rows' \in Seq(LibraryRow) /\ OneRow(rows')
      /\ Signed(rows') = Signed(rows) \cup {UrlOf[c] : c \in m \ Ignored}
  BY <1>4, <1>6, <1>7, ParsedRows
<1>9. /\ t \in Nat /\ NotBefore(reach, t) \in Nat /\ t <= NotBefore(reach, t)
      /\ 1..NotBefore(reach, t) = (1..reach) \cup m
  <2>1. CASE m = {}
    <3>1. t = token /\ NotBefore(reach, t) = reach
      BY <1>6, <2>1 DEF NotBefore, t
    <3>. QED
      BY <1>6, <2>1, <3>1
  <2>2. CASE m # {}
    <3>1. t = CHOOSE c \in m : \A d \in m : d <= c
      BY <2>2, Zenon DEF t
    <3>2. t \in token..Total /\ m = (token + 1)..t
      BY <1>2, <2>2, <3>1, MatchedRun DEF ChainInv
    <3>3. t \in Nat
      BY <1>6, <3>2
    <3>. QED
      BY <1>6, <3>2, <3>3 DEF NotBefore
  <2>. QED
    BY <2>1, <2>2
<1>10. Signed(rows') = {UrlOf[c] : c \in 1..reach' \ Ignored}
  <2>1. PICK z : z = reach'
    OBVIOUS
  <2>2. 1..z = (1..reach) \cup m
    BY <1>4, <1>9, <2>1
  <2>3. {UrlOf[c] : c \in 1..z \ Ignored}
          = {UrlOf[c] : c \in 1..reach \ Ignored} \cup {UrlOf[c] : c \in m \ Ignored}
    BY <2>2, Zenon
  <2>. QED
    BY <1>6, <1>8, <2>1, <2>3, Zenon
<1>. QED
  BY <1>1, <1>4, <1>5, <1>6, <1>8, <1>9, <1>10 DEF ChainInv, LibraryTypes

\* A request that fails changes no library.
LEMMA FailedStays ==
    ASSUME ChainInv, NEW i \in DOMAIN reqs, Fail(i)
    PROVE  ChainInv'
<1>1. reqs' \in Seq(Requests)
  BY Removed DEF ChainInv, LibraryTypes, Fail
<1>. QED
  BY <1>1 DEF ChainInv, LibraryTypes, Fail

\* insertLibrary: a row without a token, unless the library is there.
LEMMA InsertedStays ==
    ASSUME ChainInv, NEW x \in Urls, InsertLibrary(x)
    PROVE  ChainInv'
<1>1. UNCHANGED <<posted, token, pageIndex, reqs, reach>>
  BY DEF InsertLibrary
<1>2. rows \in Seq(LibraryRow) /\ OneRow(rows)
  BY DEF ChainInv, LibraryTypes
<1>3. rows' \in Seq(LibraryRow) /\ OneRow(rows') /\ Signed(rows') = Signed(rows)
  <2>1. CASE \E i \in DOMAIN rows : rows[i].url = x
    BY <1>2, <2>1 DEF InsertLibrary
  <2>2. CASE ~(\E i \in DOMAIN rows : rows[i].url = x)
    <3>1. PICK y \in LibraryRow : y = [url |-> x, signed |-> FALSE]
      BY DEF LibraryRow
    <3>2. rows' = Append(rows, y)
      BY <2>2, <3>1 DEF InsertLibrary
    <3>3. ~y.signed /\ y.url = x
      BY <3>1
    <3>4. /\ Append(rows, y) \in Seq(LibraryRow) /\ OneRow(Append(rows, y))
          /\ Signed(Append(rows, y)) = Signed(rows) \cup (IF y.signed THEN {y.url} ELSE {})
      BY <1>2, <2>2, <3>3, AddedRow
    <3>. QED
      BY <3>2, <3>3, <3>4
  <2>. QED
    BY <2>1, <2>2
<1>. QED
  BY <1>1, <1>3 DEF ChainInv, LibraryTypes

\* A row without a token goes: the rest keep their order, and their tokens.
LEMMA DroppedRow ==
    ASSUME NEW rs \in Seq(LibraryRow), OneRow(rs), NEW k \in DOMAIN rs, ~rs[k].signed,
           NEW u, u = RemoveAt(rs, k)
    PROVE  u \in Seq(LibraryRow) /\ OneRow(u) /\ Signed(u) = Signed(rs)
<1>1. k \in 1..Len(rs) /\ Len(rs) \in Nat /\ DOMAIN rs = 1..Len(rs)
  OBVIOUS
<1>2. /\ u \in Seq(LibraryRow) /\ Len(u) = Len(rs) - 1
      /\ \A i \in 1..(Len(rs) - 1) : u[i] = IF i < k THEN rs[i] ELSE rs[i + 1]
  BY Removed
<1>3. DOMAIN u = 1..(Len(rs) - 1)
  BY <1>2
<1>. DEFINE Was(i) == IF i < k THEN i ELSE i + 1
<1>4. \A i \in DOMAIN u : Was(i) \in DOMAIN rs /\ Was(i) # k /\ u[i] = rs[Was(i)]
  BY <1>1, <1>2, <1>3
<1>5. \A i, j \in DOMAIN u : Was(i) = Was(j) => i = j
  BY <1>1, <1>3
<1>6. \A j \in DOMAIN rs : j # k => \E i \in DOMAIN u : Was(i) = j
  <2>1. ASSUME NEW j \in DOMAIN rs, j # k
        PROVE  \E i \in DOMAIN u : Was(i) = j
    <3>1. CASE j < k
      <4>1. j \in DOMAIN u /\ Was(j) = j
        BY <1>1, <1>3, <3>1
      <4>. QED
        BY <4>1
    <3>2. CASE j > k
      <4>1. j - 1 \in DOMAIN u /\ Was(j - 1) = j
        BY <1>1, <1>3, <3>2
      <4>. QED
        BY <4>1
    <3>. QED
      BY <1>1, <2>1, <3>1, <3>2
  <2>. QED
    BY <2>1
<1>. HIDE DEF Was
<1>7. OneRow(u)
  <2>1. ASSUME NEW i \in DOMAIN u, NEW j \in DOMAIN u, u[i].url = u[j].url
        PROVE  i = j
    <3>1. rs[Was(i)].url = rs[Was(j)].url
      BY <1>4, <2>1
    <3>2. Was(i) = Was(j)
      BY <1>4, <3>1 DEF OneRow
    <3>. QED
      BY <1>5, <3>2
  <2>. QED
    BY <2>1 DEF OneRow
<1>8. ASSUME NEW y
      PROVE  y \in Signed(u) <=> y \in Signed(rs)
  <2>1. ASSUME y \in Signed(u)
        PROVE  y \in Signed(rs)
    <3>1. PICK i \in DOMAIN u : u[i].signed /\ u[i].url = y
      BY <2>1, SignedMeans
    <3>2. Was(i) \in DOMAIN rs /\ u[i] = rs[Was(i)]
      BY <1>4
    <3>. QED
      BY <3>1, <3>2, SignedMeans
  <2>2. ASSUME y \in Signed(rs)
        PROVE  y \in Signed(u)
    <3>1. PICK j \in DOMAIN rs : rs[j].signed /\ rs[j].url = y
      BY <2>2, SignedMeans
    <3>2. PICK i \in DOMAIN u : Was(i) = j
      BY <1>6, <3>1
    <3>3. u[i] = rs[j]
      BY <1>4, <3>2
    <3>. QED
      BY <3>1, <3>2, <3>3, SignedMeans
  <2>. QED
    BY <2>1, <2>2
<1>9. Signed(u) = Signed(rs)
  BY <1>8, Zenon
<1>. QED
  BY <1>2, <1>7, <1>9

\* removeLibrary.
LEMMA DismissedStays ==
    ASSUME ChainInv, NEW k \in DOMAIN rows, RemoveLibrary(k)
    PROVE  ChainInv'
<1>1. /\ rows \in Seq(LibraryRow) /\ OneRow(rows) /\ ~rows[k].signed
      /\ rows' = RemoveAt(rows, k) /\ UNCHANGED <<posted, token, pageIndex, reqs, reach>>
  BY DEF ChainInv, LibraryTypes, RemoveLibrary
<1>2. rows' \in Seq(LibraryRow) /\ OneRow(rows') /\ Signed(rows') = Signed(rows)
  BY <1>1, DroppedRow
<1>. QED
  BY <1>1, <1>2 DEF ChainInv, LibraryTypes

LEMMA ChainInit ==
    ASSUME UrlOf \in Seq(Urls), LibrariesInit
    PROVE  ChainInv
<1>1. LibraryTypes /\ token <= reach
  BY DEF LibrariesInit, LibraryTypes
<1>2. DOMAIN rows = {} /\ 1..reach = {}
  BY DEF LibrariesInit
<1>3. OneRow(rows) /\ Signed(rows) = {} /\ {UrlOf[c] : c \in 1..reach \ Ignored} = {}
  BY <1>2 DEF OneRow, Signed
<1>. QED
  BY <1>1, <1>3 DEF ChainInv

LEMMA ChainNext ==
    ASSUME UrlOf \in Seq(Urls), PerPage \in Nat, ChainInv, [LibrariesNext]_librariesVars
    PROVE  ChainInv'
<1>1. CASE Post
  <2>1. posted' \in 0..Total /\ UNCHANGED <<rows, token, pageIndex, reqs, reach>>
    BY <1>1 DEF Post, ChainInv, LibraryTypes, Total
  <2>. QED
    BY <2>1 DEF ChainInv, LibraryTypes
<1>2. CASE Dispose \/ \E recent \in BOOLEAN : Open(recent)
  BY <1>2, OpenedStays
<1>3. CASE Refresh
  <2>1. Ask("reload", 0) /\ UNCHANGED <<posted, rows, token, pageIndex, reach>>
    BY <1>3 DEF Refresh
  <2>. QED
    BY <2>1, AskedStays
<1>4. CASE LoadMore
  <2>1. Ask("more", pageIndex + 1) /\ UNCHANGED <<posted, rows, token, pageIndex, reach>>
    BY <1>4 DEF LoadMore
  <2>2. PICK p \in Nat : p = pageIndex + 1
    BY DEF ChainInv, LibraryTypes
  <2>. QED
    BY <2>1, <2>2, AskedStays
<1>5. CASE Answers
  BY <1>5, AnsweredStays, FailedStays DEF Answers
<1>6. CASE \E x \in Urls : InsertLibrary(x)
  BY <1>6, InsertedStays
<1>7. CASE \E i \in DOMAIN rows : RemoveLibrary(i)
  BY <1>7, DismissedStays
<1>8. CASE UNCHANGED librariesVars
  <2>1. UNCHANGED <<posted, rows, token, pageIndex, reqs, reach>>
    BY <1>8 DEF librariesVars
  <2>. QED
    BY <2>1 DEF ChainInv, LibraryTypes
<1>. QED
  BY <1>1, <1>2, <1>3, <1>4, <1>5, <1>6, <1>7, <1>8 DEF LibrariesNext

\* parseLibrary: whatever the comments and the size of a page, and in whatever
\* order pages are answered, the libraries with a token are those of an unbroken
\* run of comments from the first one, and each has one row.
THEOREM AcceptedStaysChain == LibrariesSpec => []AcceptedIsChain
<1>. USE LibrariesAssumption
<1>1. LibrariesInit => ChainInv
  BY ChainInit
<1>2. ChainInv /\ [LibrariesNext]_librariesVars => ChainInv'
  BY ChainNext
<1>3. ChainInv => AcceptedIsChain
  BY DEF ChainInv, OneRow, Signed, AcceptedIsChain
<1>. QED
  BY <1>1, <1>2, <1>3, PTL DEF LibrariesSpec

=============================================================================
