------------------------------- MODULE Update -------------------------------
(***************************************************************************)
(* The update button of an installed library (libraries.dart) over one     *)
(* repository: GitRepository::fetch, then, if the fetched head is not the  *)
(* local one, GitRepository::checkout, each in a thread of its own, with   *)
(* the completions handled on the main thread.  Commits are numbered.      *)
(*                                                                         *)
(* A cell that is scrolled away is disposed and comes back with a spinner  *)
(* that does not turn, whatever its old self had under way.  The program   *)
(* may die at any time; the repository stays as it is on disk.             *)
(***************************************************************************)
EXTENDS Naturals, FiniteSets

CONSTANTS MaxCommits,   \* bound on the commits pushed upstream
          MaxPresses,   \* bound on the updates asked for
          MaxRebuilds,  \* bound on the cells disposed and built again
          MaxCrashes    \* bound on the deaths of the program

ASSUME UpdateAssumption ==
    {MaxCommits, MaxPresses, MaxRebuilds, MaxCrashes} \subseteq Nat

VARIABLES upstream,     \* the remote's newest commit
          tracking,     \* refs/remotes/origin/<branch>
          fetchHead,    \* FETCH_HEAD, 0 before the first fetch
          work,         \* the commit checked out in the working directory
          local,        \* refs/heads/<branch>
          job,          \* the git work of each update: [op, target, old, err]
          cell,         \* the number of the cell on the screen
          of,           \* the cell each update was asked in
          spin,         \* the spinner of the cell on the screen turns
          want,         \* upstream when each update was asked for
          crashes       \* deaths so far

repo == <<tracking, fetchHead, work, local>>
vars == <<upstream, repo, job, cell, of, spin, want, crashes>>

Updates == 1..MaxPresses
Idle == [op |-> "none", target |-> 0, old |-> 0, err |-> FALSE]
Busy(u) == job[u].op \notin {"none", "done"}

SetOp(u, op) == job' = [job EXCEPT ![u].op = op]

-----------------------------------------------------------------------------
\* Somebody pushes (external).
Push == /\ upstream < MaxCommits
        /\ upstream' = upstream + 1
        /\ UNCHANGED <<repo, job, cell, of, spin, want, crashes>>

\* Mutant: the button does not look at the spinner.
PressUnguarded(u) == /\ job[u].op = "none"
                     /\ \A v \in Updates : v < u => job[v].op # "none"
                     /\ spin' = TRUE
                     /\ SetOp(u, "fetch")
                     /\ of' = [of EXCEPT ![u] = cell]
                     /\ want' = [want EXCEPT ![u] = upstream]
                     /\ UNCHANGED <<upstream, repo, cell, crashes>>

\* onPressed: nothing happens while the spinner turns.
Press(u) == /\ ~spin
            /\ job[u].op = "none"
            /\ \A v \in Updates : v < u => job[v].op # "none"
            /\ spin' = TRUE
            /\ SetOp(u, "fetch")
            /\ of' = [of EXCEPT ![u] = cell]
            /\ want' = [want EXCEPT ![u] = upstream]
            /\ UNCHANGED <<upstream, repo, cell, crashes>>

\* The thread of fetch: git_remote_fetch, or its failure.
Fetch(u) == /\ job[u].op = "fetch"
            /\ \/ /\ tracking' = upstream
                  /\ fetchHead' = upstream
                  /\ SetOp(u, "fetched")
               \/ /\ job' = [job EXCEPT ![u].op = "fetched", ![u].err = TRUE]
                  /\ UNCHANGED <<tracking, fetchHead>>
            /\ UNCHANGED <<upstream, work, local, cell, of, spin, want, crashes>>

\* Mutant: what FETCH_HEAD says is dropped.
HighIDDropped == local

\* GitRepository::highID.
HighID == IF fetchHead = 0 THEN local ELSE fetchHead

\* stopAnimation reaches the spinner of the update's own cell, if it is there.
StopAnimation(u) == spin' = (spin /\ of[u] # cell)

\* The completion of fetch on the main thread.
OnFetched(u) ==
    /\ job[u].op = "fetched"
    /\ IF ~job[u].err /\ local # HighID
       THEN SetOp(u, "lookup") /\ UNCHANGED spin
       ELSE SetOp(u, "done") /\ StopAnimation(u)
    /\ UNCHANGED <<upstream, repo, cell, of, want, crashes>>

\* perform_fastforward: look up the local branch and the remote's.
Lookup(u) == /\ job[u].op = "lookup"
             /\ job' = [job EXCEPT ![u].op = "tree", ![u].target = tracking, ![u].old = local]
             /\ UNCHANGED <<upstream, repo, cell, of, spin, want, crashes>>

GiveUp(u) == /\ job' = [job EXCEPT ![u].op = "checkedOut", ![u].err = TRUE]
             /\ UNCHANGED <<work, local>>

\* Mutant: the branch is moved before the tree is checked out.
FastForwardSwapped(u) ==
    \/ /\ job[u].op = "tree"
       /\ \/ local' = job[u].target /\ SetOp(u, "ref") /\ UNCHANGED work
          \/ GiveUp(u)
    \/ /\ job[u].op = "ref"
       /\ \/ work' = job[u].target /\ SetOp(u, "checkedOut") /\ UNCHANGED local
          \/ GiveUp(u)

\* perform_fastforward: git_checkout_tree, then git_reference_set_target,
\* which refuses when the branch has moved since the lookup (external).
FastForward(u) ==
    \/ /\ job[u].op = "tree"
       /\ \/ work' = job[u].target /\ SetOp(u, "ref") /\ UNCHANGED local
          \/ GiveUp(u)
    \/ /\ job[u].op = "ref"
       /\ \/ /\ local = job[u].old
             /\ local' = job[u].target
             /\ SetOp(u, "checkedOut")
             /\ UNCHANGED work
          \/ GiveUp(u)

\* The thread of checkout.
Checkout(u) == /\ FastForward(u)
               /\ UNCHANGED <<upstream, tracking, fetchHead, cell, of, spin, want, crashes>>

\* The completion of checkout on the main thread, with or without an error.
OnCheckedOut(u) == /\ job[u].op = "checkedOut"
                   /\ SetOp(u, "done")
                   /\ StopAnimation(u)
                   /\ UNCHANGED <<upstream, repo, cell, of, want, crashes>>

\* The cell leaves the screen and comes back.
Rebuild == /\ cell < MaxRebuilds
           /\ cell' = cell + 1
           /\ spin' = FALSE
           /\ UNCHANGED <<upstream, repo, job, of, want, crashes>>

\* The program dies, with the threads in it.
Crash == /\ crashes < MaxCrashes
         /\ crashes' = crashes + 1
         /\ job' = [u \in Updates |-> IF Busy(u) THEN [job[u] EXCEPT !.op = "done", !.err = TRUE]
                                      ELSE job[u]]
         /\ spin' = FALSE
         /\ UNCHANGED <<upstream, repo, cell, of, want>>

-----------------------------------------------------------------------------
\* An installed library: the clone has left everything at commit 1.
Init == /\ upstream = 1 /\ tracking = 1 /\ fetchHead = 0 /\ work = 1 /\ local = 1
        /\ job = [u \in Updates |-> Idle]
        /\ cell = 0 /\ spin = FALSE
        /\ of = [u \in Updates |-> 0] /\ want = [u \in Updates |-> 0]
        /\ crashes = 0

Work(u) == Fetch(u) \/ OnFetched(u) \/ Lookup(u) \/ Checkout(u) \/ OnCheckedOut(u)

Next == Push \/ Rebuild \/ Crash \/ \E u \in Updates : Press(u) \/ Work(u)

Spec == Init /\ [][Next]_vars

-----------------------------------------------------------------------------
\* Updates were asked for in two cells, so that they may have run together.
TwoCells == \E u, v \in Updates : /\ job[u].op # "none" /\ job[v].op # "none"
                                  /\ of[u] # of[v]

\* perform_fastforward: the branch is never ahead of the working directory,
\* also after a death between the two: what the cell shows as the version
\* has been checked out.  It rests on one update at a time: without it a
\* slow checkout can put an older tree below a newer branch.
RefNotAhead == local <= work \/ TwoCells

\* The update button repairs: when the spinner stops after an update without
\* an error, tree and branch agree on a commit no older than upstream was
\* when the button was pressed, whatever an earlier death had left.
UpdateIsFresh ==
    [][\A u \in Updates : Busy(u) /\ ~Busy(u)' /\ ~job'[u].err
          => \/ local' = work' /\ local' >= want[u]
             \/ TwoCells]_vars

\* libraries.dart: two updates of one repository run together only when the
\* cell of one has been disposed, and the spinner on the screen, which keeps
\* the second away, turns only for an update of this cell.
OneUpdatePerCell ==
    /\ \A u, v \in Updates : u # v /\ Busy(u) /\ Busy(v) => of[u] # of[v]
    /\ spin => \E u \in Updates : Busy(u) /\ of[u] = cell
=============================================================================
