---------------------------- MODULE CloneProofs -----------------------------
(***************************************************************************)
(* Theorems about the clones of module Clone, for any number of workers,   *)
(* dialogs, callbacks and crashes.                                         *)
(***************************************************************************)
EXTENDS Clone, SequenceTheorems, TLAPS

\* The routes that Navigator.pop would close.
Open == Shown \cup {"requested"}

\* The completion of w is in the list and has not been run.
Waiting(w) == \E i \in 1..Len(callbacks) :
                 i > running /\ callbacks[i].w = w /\ callbacks[i].end

\* The worker has posted its completion.
Posted(w) == pc[w] = "done" \/ (pc[w] = "ending" /\ posting[w] = "signal")

\* The completion of w is still to come.
Pending(w) == Waiting(w) \/ (pc[w] # "unused" /\ ~Posted(w))

\* Some dialog was left with its cancel or its back button.
Left == \E d \in Dialogs : result[d] \in {"Failed", "null"}

\* Workers are started one after the other, and post from three places.
Workflow == /\ \A v, w \in Workers : v < w /\ pc[v] = "unused" => pc[w] = "unused"
            /\ \A w \in Workers : posting[w] # "no" => pc[w] \in {"fetch", "checkout", "ending"}

\* A worker posts one completion, at its end.
Completions ==
    \A i \in 1..Len(callbacks) : callbacks[i].end =>
        /\ Posted(callbacks[i].w)
        /\ \A j \in 1..Len(callbacks) : callbacks[j].end /\ callbacks[j].w = callbacks[i].w => j = i

\* A callback has a signal on its way.
Signalled == callbacks # <<>> => \/ running >= 0
                                 \/ signals > 0
                                 \/ \E w \in Workers : posting[w] = "signal"

\* What an item holds is its own action, alive and still to be heard of.
Holds == \A d \in Dialogs : act[d] # 0 =>
            /\ held[act[d]] /\ owner[act[d]] = d /\ pc[act[d]] # "unused" /\ Pending(act[d])
            /\ dlg[d] \notin {"unused", "failed"}

\* One route is open at a time, and has no result yet.
Routes == /\ \A d, e \in Dialogs : dlg[d] \in Open /\ dlg[e] \in Open => d = e
          /\ \A d \in Dialogs : dlg[d] \in Open \cup {"unused"} => result[d] = "none"

\* A worker has a dialog, and one that was closed has a result.
Owners == \A w \in Workers : Alive(w) \/ Waiting(w) =>
             /\ dlg[owner[w]] # "unused" /\ (kind = "library" => dlg[owner[w]] # "requested")
             /\ Alive(w) /\ dlg[owner[w]] \notin Open => result[owner[w]] # "none"

\* The worker of an open dialog is the one its item holds.
Current == \A w \in Workers : Pending(w) /\ dlg[owner[w]] \in Open => act[owner[w]] = w

\* An item that holds an action behind a closed dialog was left by somebody.
Behind == /\ PageKept
          /\ \A d \in Dialogs : dlg[d] = "closing" /\ act[d] # 0 => \E e \in Dialogs : result[e] = "null"

\* The directory is as w made it up to here.
AsFarAs(w) == /\ pc[w] = "clone" => tree = NoTree
              /\ pc[w] \in {"fetch", "checkout"} => tree = [st |-> "partial", by |-> w]
              /\ pc[w] = "fastforward" => tree = [st |-> "whole", by |-> w] /\ opened
              /\ pc[w] \in {"ending", "done"} /\ ~err[w] => tree.st = "whole" /\ opened

\* As long as no dialog is left, the worker that is still to come back is that
\* of the open dialog, and the directory is as far as that worker is.
Undisturbed ==
    ~Left => /\ tree.st # "mixed"
             /\ \A w \in Workers : Pending(w) => dlg[owner[w]] \in Open /\ AsFarAs(w)

\* fetchEnv's dialog cannot be left.
EnvIsNotLeft == kind = "env" => ~Left

IInv == /\ TypeOK /\ Workflow /\ Completions /\ Signalled /\ Holds /\ Routes /\ Owners
        /\ Current /\ OverlapOnlyAfterLeaving /\ Behind /\ Undisturbed /\ EnvIsNotLeft
        /\ FrameworkIsWhole

-----------------------------------------------------------------------------
(***************************************************************************)
(* Steps that leave the dialogs alone.                                     *)
(***************************************************************************)

\* The entries of the list are those of workers.
LEMMA EntryTypes ==
    ASSUME TypeOK
    PROVE  /\ Len(callbacks) \in Nat /\ DOMAIN callbacks = 1..Len(callbacks)
           /\ \A i \in 1..Len(callbacks) :
                 callbacks[i].w \in Workers /\ callbacks[i].end \in BOOLEAN
<1>1. callbacks \in Seq([w : Workers, end : BOOLEAN])
    BY Zenon DEF TypeOK
<1>2. \A i \in 1..Len(callbacks) : callbacks[i] \in [w : Workers, end : BOOLEAN]
    BY <1>1, ElementOfSeq, Zenon
<1>3. Len(callbacks) \in Nat /\ DOMAIN callbacks = 1..Len(callbacks)
    BY <1>1, LenProperties, Zenon
<1> QED
    BY <1>2, <1>3, Zenon

\* What the dialogs and their items rely on survives any step that shows them
\* nothing: no worker comes to life, no completion that an item waits for is
\* lost.
LEMMA UiQuiet ==
    ASSUME IInv, UNCHANGED <<kind, owner, ui>>,
           \A v \in Workers :
              /\ pc'[v] = "unused" <=> pc[v] = "unused"
              /\ Alive(v)' => Alive(v) /\ (pc[v] = "ending" => pc'[v] = "ending")
              /\ Pending(v)' => Pending(v)
              /\ Waiting(v)' => Waiting(v) \/ Alive(v)
              /\ act[owner[v]] = v => held'[v] /\ (Pending(v) => Pending(v)')
    PROVE  /\ Holds' /\ Routes' /\ Owners' /\ Current' /\ OverlapOnlyAfterLeaving'
           /\ Behind' /\ EnvIsNotLeft'
<1>1. /\ kind' = kind /\ owner' = owner /\ dlg' = dlg /\ act' = act /\ result' = result /\ page' = page
    BY DEF ui
<1>2. \A d \in Dialogs : act[d] # 0 => act[d] \in Workers
    BY CloneAssumption DEF IInv, TypeOK, Workers, Dialogs
<1>3. Holds'
    BY <1>1, <1>2 DEF IInv, Holds
<1>4. Routes' /\ Behind' /\ EnvIsNotLeft'
    BY <1>1 DEF IInv, Routes, Behind, PageKept, EnvIsNotLeft, Left
<1>5. Owners'
    BY <1>1 DEF IInv, Owners
<1>6. Current'
    BY <1>1 DEF IInv, Current
<1>7. OverlapOnlyAfterLeaving'
    BY <1>1 DEF IInv, OverlapOnlyAfterLeaving
<1> QED
    BY <1>3, <1>4, <1>5, <1>6, <1>7

\* The directory is as far as before if it is left alone and no worker but one
\* that has posted its completion moves.
LEMMA DiskQuiet ==
    ASSUME IInv, UNCHANGED <<kind, owner, ui, disk, err, crashes>>,
           \A v \in Workers : Pending(v)' => /\ Pending(v)
                                             /\ \/ pc'[v] = pc[v]
                                                \/ pc[v] = "ending" /\ pc'[v] = "done"
    PROVE  Undisturbed' /\ FrameworkIsWhole'
<1>1. /\ kind' = kind /\ owner' = owner /\ dlg' = dlg /\ result' = result /\ tree' = tree
      /\ opened' = opened /\ err' = err /\ crashes' = crashes
    BY DEF ui, disk
<1>2. Left' <=> Left
    BY <1>1 DEF Left
<1>3. Undisturbed'
    BY <1>1, <1>2 DEF IInv, Undisturbed, AsFarAs
<1>4. FrameworkIsWhole'
    BY <1>1 DEF IInv, FrameworkIsWhole
<1> QED
    BY <1>3, <1>4

\* The action that an item holds is not destroyed.
LEMMA HeldActions ==
    ASSUME IInv
    PROVE  \A v \in Workers : act[owner[v]] = v => held[v]
<1> TAKE v \in Workers
<1>1. v # 0 /\ owner[v] \in Dialogs
    BY CloneAssumption DEF Workers, IInv, TypeOK
<1> QED
    BY <1>1 DEF IInv, Holds

\* As long as no dialog is left, one worker at most is still to come back.
LEMMA OnlyOne ==
    ASSUME IInv, ~Left, NEW v \in Workers, Pending(v), NEW w \in Workers, Pending(w)
    PROVE  v = w
<1>1. owner[v] \in Dialogs /\ owner[w] \in Dialogs
    BY DEF IInv, TypeOK
<1>2. dlg[owner[v]] \in Open /\ dlg[owner[w]] \in Open
    BY DEF IInv, Undisturbed
<1>3. owner[v] = owner[w]
    BY <1>1, <1>2 DEF IInv, Routes
<1> QED
    BY <1>2, <1>3 DEF IInv, Current

\* Where a worker is in cloneFromRemote, before it ends.
AtWork == {"remove", "clone", "fetch", "checkout", "fastforward"}

\* A worker goes on in cloneFromRemote.
Works(w, x) == /\ pc[w] \in AtWork /\ posting[w] = "no"
               /\ x \in (AtWork \ {"remove"}) \cup {"ending"}
               /\ pc' = [pc EXCEPT ![w] = x]
               /\ UNCHANGED <<kind, isCancel, posting, held, owner, platform, ui, crashes>>

\* Such a step shows nothing to anybody.
LEMMA WorksQuietly ==
    ASSUME IInv, NEW w \in Workers, NEW x, Works(w, x)
    PROVE  /\ Workflow' /\ Completions' /\ Signalled' /\ Holds' /\ Routes' /\ Owners'
           /\ Current' /\ OverlapOnlyAfterLeaving' /\ Behind' /\ EnvIsNotLeft'
           /\ Pending(w) /\ \A v \in Workers : Pending(v)' <=> Pending(v)
<1>1. /\ pc[w] \in AtWork /\ posting[w] = "no" /\ DOMAIN pc = Workers
      /\ x \in (AtWork \ {"remove"}) \cup {"ending"} /\ pc' = [pc EXCEPT ![w] = x]
    BY DEF Works, IInv, TypeOK
<1>2. /\ kind' = kind /\ posting' = posting /\ held' = held /\ owner' = owner
      /\ callbacks' = callbacks /\ signals' = signals /\ running' = running /\ ui' = ui
    BY DEF Works, platform
<1>3. ASSUME NEW v \in Workers
      PROVE  /\ pc'[v] = "unused" <=> pc[v] = "unused"
             /\ Posted(v)' <=> Posted(v)
             /\ Alive(v)' <=> Alive(v)
             /\ Waiting(v)' <=> Waiting(v)
             /\ Alive(v)' => (pc[v] = "ending" => pc'[v] = "ending")
    BY <1>1, <1>2 DEF AtWork, Posted, Alive, Waiting
<1>4. \A v \in Workers : Pending(v)' <=> Pending(v)
    BY <1>3 DEF Pending
<1>5. Pending(w)
    BY <1>1 DEF Pending, Posted, AtWork
<1>6. Workflow'
    BY <1>1, <1>2, <1>3 DEF IInv, Workflow, AtWork
<1>7. Completions' /\ Signalled'
    <2>1. \A i \in 1..Len(callbacks) : callbacks[i].w \in Workers
        BY EntryTypes DEF IInv
    <2> QED
        BY <1>2, <1>3, <2>1 DEF IInv, Completions, Signalled
<1>8. \A v \in Workers : act[owner[v]] = v => held'[v]
    BY <1>2, HeldActions
<1>9. /\ Holds' /\ Routes' /\ Owners' /\ Current' /\ OverlapOnlyAfterLeaving'
      /\ Behind' /\ EnvIsNotLeft'
    BY <1>2, <1>3, <1>4, <1>8, UiQuiet
<1> QED
    BY <1>4, <1>5, <1>6, <1>7, <1>9

-----------------------------------------------------------------------------
(***************************************************************************)
(* The worker.                                                             *)
(***************************************************************************)

\* As long as no dialog is left the worker that goes on is the only one in the
\* directory, so that it is enough to look at what this worker does there.
LEMMA WorksStep ==
    ASSUME IInv, NEW w \in Workers, NEW x, Works(w, x), TypeOK',
           ~Left /\ tree.st # "mixed" /\ AsFarAs(w) => tree'.st # "mixed" /\ AsFarAs(w)'
    PROVE  IInv'
<1>1. /\ Workflow' /\ Completions' /\ Signalled' /\ Holds' /\ Routes' /\ Owners'
      /\ Current' /\ OverlapOnlyAfterLeaving' /\ Behind' /\ EnvIsNotLeft'
      /\ Pending(w) /\ \A v \in Workers : Pending(v)' <=> Pending(v)
    BY WorksQuietly
<1>2. /\ kind' = kind /\ owner' = owner /\ dlg' = dlg /\ result' = result /\ crashes' = crashes
    BY DEF Works, ui
<1>3. Left' <=> Left
    BY <1>2 DEF Left
<1>4. Undisturbed'
    <2> SUFFICES ASSUME ~Left
                 PROVE  /\ tree'.st # "mixed"
                        /\ \A v \in Workers : Pending(v)' => dlg'[owner'[v]] \in Open /\ AsFarAs(v)'
        BY <1>3 DEF Undisturbed
    <2>1. tree'.st # "mixed" /\ AsFarAs(w)' /\ dlg[owner[w]] \in Open
        BY <1>1 DEF IInv, Undisturbed
    <2>2. \A v \in Workers : Pending(v)' => v = w
        BY <1>1, OnlyOne
    <2> QED
        BY <1>2, <2>1, <2>2
<1>5. FrameworkIsWhole'
    <2>1. kind = "env" => dlg[owner[w]] \in Open /\ owner[w] \in Dialogs
        BY <1>1 DEF IInv, EnvIsNotLeft, Undisturbed, TypeOK
    <2> QED
        BY <1>2, <2>1 DEF FrameworkIsWhole, Open, Shown
<1> QED
    BY <1>1, <1>4, <1>5 DEF IInv

\* What Works leaves alone keeps its type.
LEMMA WorksTypes ==
    ASSUME TypeOK, NEW w \in Workers, NEW x, Works(w, x),
           tree' \in [st : {"none", "partial", "whole", "mixed"}, by : 0..MaxClones],
           opened' \in BOOLEAN, err' \in [Workers -> BOOLEAN]
    PROVE  TypeOK'
<1>1. pc' \in [Workers -> {"unused", "remove", "clone", "fetch", "checkout",
                           "fastforward", "ending", "done"}]
    BY DEF TypeOK, Works, AtWork
<1>2. /\ kind' = kind /\ isCancel' = isCancel /\ posting' = posting /\ held' = held
      /\ owner' = owner /\ callbacks' = callbacks /\ signals' = signals /\ running' = running
      /\ dlg' = dlg /\ act' = act /\ result' = result /\ page' = page /\ crashes' = crashes
    BY Zenon DEF Works, platform, ui
<1> QED
    BY <1>1, <1>2, Zenon DEF TypeOK

\* git_clone fails and removes what it made.
LEMMA CloneFailsStep ==
    ASSUME IInv, NEW w \in Workers, pc[w] \in {"fetch", "checkout"}, posting[w] = "no",
           CloneFails(w), UNCHANGED kind
    PROVE  IInv'
<1>1. Works(w, "ending")
    BY DEF CloneFails, Ends, Works, AtWork
<1>2. err' = [err EXCEPT ![w] = TRUE] /\ opened' = opened
      /\ tree' = IF tree.by = w THEN NoTree ELSE Touch(w, "mixed")
    BY DEF CloneFails, Ends
<1>3. err' \in [Workers -> BOOLEAN] /\ err'[w] = TRUE /\ opened' \in BOOLEAN
    BY <1>2 DEF IInv, TypeOK
<1>4. tree' \in [st : {"none", "partial", "whole", "mixed"}, by : 0..MaxClones]
    BY <1>2, CloneAssumption DEF IInv, TypeOK, Touch, NoTree
<1>5. TypeOK'
    BY <1>1, <1>3, <1>4, WorksTypes DEF IInv
<1>6. pc'[w] = "ending"
    BY <1>1 DEF Works, IInv, TypeOK
<1>7. AsFarAs(w) => tree'.st # "mixed" /\ AsFarAs(w)'
    BY <1>2, <1>3, <1>6 DEF AsFarAs, NoTree
<1> QED
    BY <1>1, <1>5, <1>7, WorksStep

\* removeFile.
LEMMA RemoveFileStep ==
    ASSUME IInv, NEW w \in Workers, RemoveFile(w), UNCHANGED kind
    PROVE  IInv'
<1>1. posting[w] = "no"
    BY DEF IInv, Workflow, RemoveFile
<1>2. Works(w, "clone") /\ tree' = NoTree /\ opened' = opened /\ err' = err
    BY <1>1 DEF RemoveFile, Works, AtWork
<1>3. tree' \in [st : {"none", "partial", "whole", "mixed"}, by : 0..MaxClones]
    BY <1>2, CloneAssumption DEF NoTree
<1>4. TypeOK'
    BY <1>2, <1>3, WorksTypes DEF IInv, TypeOK
<1>5. pc'[w] = "clone"
    BY <1>2 DEF Works, IInv, TypeOK
<1>6. tree'.st # "mixed" /\ AsFarAs(w)'
    BY <1>2, <1>5 DEF AsFarAs, NoTree
<1> QED
    BY <1>2, <1>4, <1>6, WorksStep

\* git_clone begins, or refuses the directory.
LEMMA GitCloneStep ==
    ASSUME IInv, NEW w \in Workers, GitClone(w), UNCHANGED kind
    PROVE  IInv'
<1>1. posting[w] = "no" /\ pc[w] = "clone" /\ w \in 0..MaxClones /\ opened' = opened
    BY CloneAssumption DEF IInv, Workflow, GitClone, Workers
<1>2. CASE tree = NoTree
    <2>1. Works(w, "fetch") /\ tree' = [st |-> "partial", by |-> w] /\ err' = err
        BY <1>1, <1>2 DEF GitClone, Works, AtWork
    <2>2. tree' \in [st : {"none", "partial", "whole", "mixed"}, by : 0..MaxClones]
        BY <1>1, <2>1
    <2>3. TypeOK'
        BY <1>1, <2>1, <2>2, WorksTypes DEF IInv, TypeOK
    <2>4. pc'[w] = "fetch"
        BY <2>1 DEF Works, IInv, TypeOK
    <2>5. tree'.st # "mixed" /\ AsFarAs(w)'
        BY <2>1, <2>4 DEF AsFarAs
    <2> QED
        BY <2>1, <2>3, <2>5, WorksStep
<1>3. CASE tree # NoTree
    <2>1. Works(w, "ending") /\ tree' = tree /\ err' = [err EXCEPT ![w] = TRUE]
        BY <1>1, <1>3 DEF GitClone, Works, AtWork, Ends
    <2>2. err' \in [Workers -> BOOLEAN] /\ err'[w] = TRUE
        BY <2>1 DEF IInv, TypeOK
    <2>3. TypeOK'
        BY <1>1, <2>1, <2>2, WorksTypes DEF IInv, TypeOK
    <2>4. pc'[w] = "ending"
        BY <2>1 DEF Works, IInv, TypeOK
    <2>5. tree.st # "mixed" => tree'.st # "mixed" /\ AsFarAs(w)'
        BY <2>1, <2>2, <2>4 DEF AsFarAs
    <2> QED
        BY <2>1, <2>3, <2>5, WorksStep
<1> QED
    BY <1>2, <1>3

\* The transfer is over.
LEMMA FetchedStep ==
    ASSUME IInv, NEW w \in Workers, Fetched(w), UNCHANGED kind
    PROVE  IInv'
<1>1. /\ Works(w, "checkout") /\ pc[w] = "fetch" /\ tree' = Touch(w, "partial")
      /\ opened' = opened /\ err' = err
    BY DEF Fetched, Works, AtWork
<1>2. tree' \in [st : {"none", "partial", "whole", "mixed"}, by : 0..MaxClones]
    BY <1>1 DEF IInv, TypeOK, Touch
<1>3. TypeOK'
    BY <1>1, <1>2, WorksTypes DEF IInv, TypeOK
<1>4. pc'[w] = "checkout"
    BY <1>1 DEF Works, IInv, TypeOK
<1>5. AsFarAs(w) => tree'.st # "mixed" /\ AsFarAs(w)'
    BY <1>1, <1>4 DEF AsFarAs, Touch
<1> QED
    BY <1>1, <1>3, <1>5, WorksStep

\* git_clone returns the repository.
LEMMA CheckedOutStep ==
    ASSUME IInv, NEW w \in Workers, CheckedOut(w), UNCHANGED kind
    PROVE  IInv'
<1>1. /\ Works(w, "fastforward") /\ pc[w] = "checkout" /\ tree' = Touch(w, "whole")
      /\ opened' = TRUE /\ err' = err
    BY DEF CheckedOut, Works, AtWork
<1>2. tree' \in [st : {"none", "partial", "whole", "mixed"}, by : 0..MaxClones]
    BY <1>1 DEF IInv, TypeOK, Touch
<1>3. TypeOK'
    <2>1. opened' \in BOOLEAN
        BY <1>1
    <2> QED
        BY <1>1, <1>2, <2>1, WorksTypes DEF IInv, TypeOK
<1>4. pc'[w] = "fastforward"
    BY <1>1 DEF Works, IInv, TypeOK
<1>5. AsFarAs(w) => tree'.st # "mixed" /\ AsFarAs(w)'
    BY <1>1, <1>4 DEF AsFarAs, Touch
<1> QED
    BY <1>1, <1>3, <1>5, WorksStep

\* perform_fastforward.
LEMMA FastForwardStep ==
    ASSUME IInv, NEW w \in Workers, FastForward(w), UNCHANGED kind
    PROVE  IInv'
<1>1. pc[w] = "fastforward" /\ posting[w] = "no"
    BY DEF IInv, Workflow, FastForward
<1>2. PICK e \in BOOLEAN : Ends(w, e)
    BY DEF FastForward
<1>3. /\ Works(w, "ending") /\ tree' = tree /\ opened' = opened
      /\ err' = [err EXCEPT ![w] = e]
    BY <1>1, <1>2 DEF FastForward, Works, AtWork, Ends, disk
<1>4. err' \in [Workers -> BOOLEAN]
    BY <1>3 DEF IInv, TypeOK
<1>5. TypeOK'
    BY <1>3, <1>4, WorksTypes DEF IInv, TypeOK
<1>6. pc'[w] = "ending"
    BY <1>3 DEF Works, IInv, TypeOK
<1>7. AsFarAs(w) => AsFarAs(w)'
    BY <1>1, <1>3, <1>6 DEF AsFarAs
<1> QED
    BY <1>3, <1>5, <1>7, WorksStep

\* A worker is about to post a progress report or its completion.
LEMMA PushStep ==
    ASSUME IInv, NEW w \in Workers, posting[w] = "no", pc[w] \in {"fetch", "checkout", "ending"},
           posting' = [posting EXCEPT ![w] = "push"],
           UNCHANGED <<kind, pc, isCancel, err, held, owner, platform, ui, disk, crashes>>
    PROVE  IInv'
<1>1. /\ kind' = kind /\ pc' = pc /\ isCancel' = isCancel /\ err' = err /\ held' = held
      /\ owner' = owner /\ callbacks' = callbacks /\ signals' = signals /\ running' = running
      /\ dlg' = dlg /\ act' = act /\ result' = result /\ page' = page /\ tree' = tree
      /\ opened' = opened /\ crashes' = crashes
    BY Zenon DEF platform, ui, disk
<1>2. TypeOK'
    <2>1. posting' \in [Workers -> {"no", "push", "signal"}]
        BY DEF IInv, TypeOK
    <2> QED
        BY <1>1, <2>1, Zenon DEF IInv, TypeOK
<1>3. \A v \in Workers : /\ Posted(v)' <=> Posted(v)
                         /\ posting'[v] = "signal" <=> posting[v] = "signal"
    BY <1>1 DEF IInv, TypeOK, Posted
<1>4. \A v \in Workers : (Alive(v)' <=> Alive(v)) /\ (Waiting(v)' <=> Waiting(v))
    BY <1>1 DEF Alive, Waiting
<1>5. \A v \in Workers : Pending(v)' <=> Pending(v)
    BY <1>1, <1>3, <1>4 DEF Pending
<1>6. Workflow'
    BY <1>1 DEF IInv, TypeOK, Workflow
<1>7. Completions' /\ Signalled'
    <2>1. \A i \in 1..Len(callbacks) : callbacks[i].w \in Workers
        BY EntryTypes DEF IInv
    <2> QED
        BY <1>1, <1>3, <2>1 DEF IInv, Completions, Signalled
<1>8. \A v \in Workers : act[owner[v]] = v => held'[v]
    BY <1>1, HeldActions
<1>9. /\ Holds' /\ Routes' /\ Owners' /\ Current' /\ OverlapOnlyAfterLeaving'
      /\ Behind' /\ EnvIsNotLeft'
    BY <1>1, <1>4, <1>5, <1>8, UiQuiet
<1>10. Undisturbed' /\ FrameworkIsWhole'
    BY <1>1, <1>5, DiskQuiet
<1> QED
    BY <1>2, <1>6, <1>7, <1>9, <1>10 DEF IInv

\* fetch_progress and checkout_progress.
LEMMA ProgressStep ==
    ASSUME IInv, NEW w \in Workers, Progress(w), UNCHANGED kind
    PROVE  IInv'
<1>1. CASE pc[w] = "fetch" /\ Cancelled(w) /\ CloneFails(w)
    BY <1>1, CloneFailsStep DEF Progress
<1>2. CASE /\ posting' = [posting EXCEPT ![w] = "push"]
           /\ UNCHANGED <<pc, isCancel, err, held, owner, platform, ui, disk, crashes>>
    <2>1. posting[w] = "no" /\ pc[w] \in {"fetch", "checkout", "ending"}
        BY DEF Progress
    <2> QED
        BY <1>2, <2>1, PushStep
<1> QED
    BY <1>1, <1>2 DEF Progress

\* GitTask::main after func: a worker whose action is gone ends without a word,
\* and no item holds it.
LEMMA FinishStep ==
    ASSUME IInv, NEW w \in Workers, Finish(w), UNCHANGED kind
    PROVE  IInv'
<1>1. pc[w] = "ending" /\ posting[w] = "no"
    BY DEF Finish
<1>2. CASE ActionAlive(w)
    <2>1. /\ posting' = [posting EXCEPT ![w] = "push"]
          /\ UNCHANGED <<kind, pc, isCancel, err, held, owner, platform, ui, disk, crashes>>
        BY <1>2 DEF Finish
    <2> QED
        BY <1>1, <2>1, PushStep
<1>3. CASE ~ActionAlive(w)
    <2>1. /\ kind' = kind /\ pc' = [pc EXCEPT ![w] = "done"] /\ posting' = posting
          /\ isCancel' = isCancel /\ err' = err /\ held' = held
          /\ owner' = owner /\ callbacks' = callbacks /\ signals' = signals /\ running' = running
          /\ dlg' = dlg /\ act' = act /\ result' = result /\ page' = page /\ tree' = tree
          /\ opened' = opened /\ crashes' = crashes
        BY <1>3 DEF Finish, platform, ui, disk
    <2>2. TypeOK'
        <3>1. pc' \in [Workers -> {"unused", "remove", "clone", "fetch", "checkout",
                                   "fastforward", "ending", "done"}]
            BY <2>1 DEF IInv, TypeOK
        <3> QED
            BY <2>1, <3>1, Zenon DEF IInv, TypeOK
    <2>3. ~held[w] /\ \A i \in 1..Len(callbacks) : callbacks[i].w # w
        BY <1>3, EntryTypes DEF ActionAlive, IInv
    <2>4. \A v \in Workers : v # w => /\ pc'[v] = pc[v] /\ (Posted(v)' <=> Posted(v))
        BY <2>1 DEF IInv, TypeOK, Posted
    <2>5. pc'[w] = "done" /\ Posted(w)'
        BY <2>1 DEF IInv, TypeOK, Posted
    <2>6. \A v \in Workers : /\ Alive(v)' <=> Alive(v) /\ v # w
                             /\ Waiting(v)' <=> Waiting(v)
        BY <1>1, <2>1, <2>4, <2>5 DEF Alive, Waiting
    <2>7. \A v \in Workers : Pending(v)' <=> Pending(v) /\ v # w
        BY <2>1, <2>3, <2>4, <2>5, <2>6 DEF Pending, Waiting
    <2>8. Workflow'
        BY <1>1, <2>1, <2>4, <2>5 DEF IInv, Workflow
    <2>9. Completions' /\ Signalled'
        <3>1. \A i \in 1..Len(callbacks) : callbacks[i].w \in Workers
            BY EntryTypes DEF IInv
        <3> QED
            BY <2>1, <2>4, <2>5, <3>1 DEF IInv, Completions, Signalled
    <2>10. \A v \in Workers : act[owner[v]] = v => held'[v] /\ v # w
        BY <2>1, <2>3, HeldActions
    <2>11. /\ Holds' /\ Routes' /\ Owners' /\ Current' /\ OverlapOnlyAfterLeaving'
           /\ Behind' /\ EnvIsNotLeft'
        <3>1. \A v \in Workers : pc'[v] = "unused" <=> pc[v] = "unused"
            BY <1>1, <2>4, <2>5
        <3> QED
            BY <2>1, <2>4, <2>6, <2>7, <2>10, <3>1, UiQuiet DEF ui
    <2>12. Undisturbed' /\ FrameworkIsWhole'
        BY <2>1, <2>4, <2>7, DiskQuiet DEF ui, disk
    <2> QED
        BY <2>2, <2>8, <2>9, <2>11, <2>12 DEF IInv
<1> QED
    BY <1>2, <1>3

\* AutoRelease's sweep takes no action that an item holds.
LEMMA SweepStep ==
    ASSUME IInv, NEW w \in Workers, Sweep(w), UNCHANGED kind
    PROVE  IInv'
<1>1. /\ kind' = kind /\ pc' = pc /\ isCancel' = isCancel /\ err' = err /\ posting' = posting
      /\ owner' = owner /\ callbacks' = callbacks /\ signals' = signals /\ running' = running
      /\ dlg' = dlg /\ act' = act /\ result' = result /\ page' = page /\ tree' = tree
      /\ opened' = opened /\ crashes' = crashes
      /\ act[owner[w]] # w /\ held' = [held EXCEPT ![w] = FALSE]
    BY Zenon DEF Sweep, worker, platform, ui, disk
<1>2. TypeOK'
    <2>1. held' \in [Workers -> BOOLEAN]
        BY <1>1 DEF IInv, TypeOK
    <2> QED
        BY <1>1, <2>1, Zenon DEF IInv, TypeOK
<1>3. \A v \in Workers : /\ Posted(v)' <=> Posted(v)
                         /\ Alive(v)' <=> Alive(v)
                         /\ Waiting(v)' <=> Waiting(v)
                         /\ Pending(v)' <=> Pending(v)
    BY <1>1 DEF Posted, Alive, Waiting, Pending
<1>4. Workflow' /\ Completions' /\ Signalled'
    BY <1>1 DEF IInv, Workflow, Completions, Signalled, Posted
<1>5. \A v \in Workers : act[owner[v]] = v => held'[v]
    <2>1. \A v \in Workers : v # w => held'[v] = held[v]
        BY <1>1 DEF IInv, TypeOK
    <2> QED
        BY <1>1, <2>1, HeldActions
<1>6. /\ Holds' /\ Routes' /\ Owners' /\ Current' /\ OverlapOnlyAfterLeaving'
      /\ Behind' /\ EnvIsNotLeft'
    BY <1>1, <1>3, <1>5, UiQuiet DEF ui
<1>7. Undisturbed' /\ FrameworkIsWhole'
    BY <1>1, <1>3, DiskQuiet DEF ui, disk
<1> QED
    BY <1>2, <1>4, <1>6, <1>7 DEF IInv

\* doOnMainThread, first half: the callback is in the list before its signal is
\* sent, and while no onSignal runs.
LEMMA AppendStep ==
    ASSUME IInv, NEW w \in Workers, posting[w] = "push", running = -1,
           DoOnMainThread(w), UNCHANGED kind
    PROVE  IInv'
<1> DEFINE n == Len(callbacks)
<1>1. /\ kind' = kind /\ pc' = pc /\ isCancel' = isCancel /\ err' = err /\ held' = held
      /\ owner' = owner /\ signals' = signals /\ running' = running
      /\ dlg' = dlg /\ act' = act /\ result' = result /\ page' = page /\ tree' = tree
      /\ opened' = opened /\ crashes' = crashes
      /\ posting' = [posting EXCEPT ![w] = "signal"]
      /\ callbacks' = Append(callbacks, Entry(w))
    BY DEF DoOnMainThread, ui, disk
<1>2. /\ callbacks' \in Seq([w : Workers, end : BOOLEAN]) /\ Len(callbacks') = n + 1 /\ n \in Nat
      /\ \A i \in 1..n : callbacks'[i] = callbacks[i]
      /\ callbacks'[n + 1] = Entry(w)
    <2>1. callbacks \in Seq([w : Workers, end : BOOLEAN])
        BY Zenon DEF IInv, TypeOK
    <2>2. Entry(w) \in [w : Workers, end : BOOLEAN]
        BY DEF Entry
    <2> HIDE DEF n
    <2>3. /\ Append(callbacks, Entry(w)) \in Seq([w : Workers, end : BOOLEAN])
          /\ Len(Append(callbacks, Entry(w))) = Len(callbacks) + 1
          /\ \A i \in 1..Len(callbacks) : Append(callbacks, Entry(w))[i] = callbacks[i]
          /\ Append(callbacks, Entry(w))[Len(callbacks) + 1] = Entry(w)
        BY <2>1, <2>2, AppendProperties
    <2> QED
        BY <1>1, <2>1, <2>3, LenProperties DEF n
<1>3. Entry(w).w = w /\ (Entry(w).end <=> pc[w] = "ending")
    BY DEF Entry
<1>4. \A i \in 1..n : callbacks[i].w \in Workers
    BY EntryTypes DEF IInv
<1> HIDE DEF n
<1>5. TypeOK'
    <2>1. posting' \in [Workers -> {"no", "push", "signal"}]
        BY <1>1 DEF IInv, TypeOK
    <2>2. running' \in -1..Len(callbacks')
        BY <1>1, <1>2
    <2> QED
        BY <1>1, <1>2, <2>1, <2>2, Zenon DEF IInv, TypeOK
<1>6. pc[w] \in {"fetch", "checkout", "ending"} /\ ~Posted(w)
    BY DEF IInv, Workflow, Posted
<1>7. \A v \in Workers : Posted(v)' <=> Posted(v) \/ (v = w /\ pc[w] = "ending")
    BY <1>1, <1>6 DEF IInv, TypeOK, Posted
<1>8. \A v \in Workers : Waiting(v)' <=> Waiting(v) \/ (v = w /\ pc[w] = "ending")
    <2> TAKE v \in Workers
    <2>1. ASSUME Waiting(v)' PROVE Waiting(v) \/ (v = w /\ pc[w] = "ending")
        <3>1. PICK i \in 1..(n + 1) : i > running /\ callbacks'[i].w = v /\ callbacks'[i].end
            BY <1>1, <1>2, <2>1 DEF Waiting
        <3>2. CASE i \in 1..n
            BY <1>2, <3>1, <3>2 DEF Waiting, n
        <3>3. CASE i = n + 1
            BY <1>2, <1>3, <3>1, <3>3
        <3> QED
            BY <1>2, <3>2, <3>3
    <2>2. ASSUME Waiting(v) PROVE Waiting(v)'
        <3>1. PICK i \in 1..n : i > running /\ callbacks[i].w = v /\ callbacks[i].end
            BY <2>2 DEF Waiting, n
        <3>2. i \in 1..Len(callbacks')
            BY <1>2
        <3> QED
            BY <1>1, <1>2, <3>1, <3>2 DEF Waiting
    <2>3. ASSUME v = w, pc[w] = "ending" PROVE Waiting(v)'
        <3>1. n + 1 \in 1..Len(callbacks') /\ n + 1 > running'
            BY <1>1, <1>2
        <3>2. callbacks'[n + 1].w = v /\ callbacks'[n + 1].end
            BY <1>2, <1>3, <2>3
        <3> HIDE DEF n
        <3> QED
            BY <3>1, <3>2 DEF Waiting
    <2> QED
        BY <2>1, <2>2, <2>3
<1>9. \A v \in Workers : (Alive(v)' <=> Alive(v)) /\ (Pending(v)' <=> Pending(v))
    BY <1>1, <1>6, <1>7, <1>8 DEF Alive, Pending
<1>10. Workflow'
    BY <1>1, <1>6 DEF IInv, TypeOK, Workflow
<1>11. Completions'
    <2>1. \A i \in 1..n : callbacks[i].end => callbacks[i].w # w
        BY <1>6 DEF IInv, Completions, n
    <2>2. ASSUME NEW i \in 1..(n + 1), callbacks'[i].end
          PROVE  /\ Posted(callbacks[i].w)'
                 /\ \A j \in 1..(n + 1) :
                       callbacks'[j].end /\ callbacks'[j].w = callbacks'[i].w => j = i
        <3>1. CASE i \in 1..n
            <4>1. callbacks'[i] = callbacks[i] /\ callbacks[i].end /\ callbacks[i].w # w
                BY <1>2, <2>1, <2>2, <3>1
            <4>2. Posted(callbacks[i].w)'
                <5>1. Posted(callbacks[i].w) /\ callbacks[i].w \in Workers
                    BY <1>4, <3>1, <4>1 DEF IInv, Completions, n
                <5>2. ASSUME NEW v \in Workers, Posted(v) PROVE Posted(v)'
                    BY <1>7, <5>2
                <5>3. callbacks'[i].w = callbacks[i].w
                    BY <4>1
                <5> QED
                    BY <5>1, <5>2, <5>3 DEF Posted
            <4>3. ASSUME NEW j \in 1..(n + 1), callbacks'[j].end, callbacks'[j].w = callbacks[i].w
                  PROVE  j = i
                <5>1. j # n + 1
                    BY <1>2, <1>3, <4>1, <4>3
                <5>2. j \in 1..n /\ callbacks'[j] = callbacks[j]
                    BY <1>2, <5>1
                <5> QED
                    BY <3>1, <4>1, <4>3, <5>2 DEF IInv, Completions, n
            <4> QED
                BY <4>1, <4>2, <4>3
        <3>2. CASE i = n + 1
            <4>1. callbacks'[i].w = w /\ pc[w] = "ending"
                BY <1>2, <1>3, <2>2, <3>2
            <4>2. Posted(w)'
                BY <1>7, <4>1
            <4>3. \A j \in 1..n : callbacks'[j].end => callbacks'[j].w # w
                BY <1>2, <2>1
            <4>4. Posted(callbacks[i].w)'
                BY <4>1, <4>2 DEF Posted
            <4> QED
                BY <1>2, <3>2, <4>1, <4>3, <4>4
        <3> QED
            BY <1>2, <3>1, <3>2
    <2> QED
        BY <1>2, <2>2, Zenon DEF Completions
<1>12. Signalled'
    <2>1. posting'[w] = "signal"
        BY <1>1 DEF IInv, TypeOK
    <2> QED
        BY <2>1 DEF Signalled
<1>13. /\ Holds' /\ Routes' /\ Owners' /\ Current' /\ OverlapOnlyAfterLeaving'
       /\ Behind' /\ EnvIsNotLeft'
    <2>1. \A v \in Workers : Waiting(v)' => Waiting(v) \/ Alive(v)
        BY <1>6, <1>8 DEF Alive
    <2> QED
        BY <1>1, <1>9, <2>1, HeldActions, UiQuiet DEF ui
<1>14. Undisturbed' /\ FrameworkIsWhole'
    BY <1>1, <1>9, DiskQuiet DEF ui, disk
<1> QED
    BY <1>5, <1>10, <1>11, <1>12, <1>13, <1>14 DEF IInv

\* doOnMainThread, second half: the signal is sent; with a completion the worker
\* is at its end.
LEMMA SendStep ==
    ASSUME IInv, NEW w \in Workers, posting[w] = "signal", DoOnMainThread(w), UNCHANGED kind
    PROVE  IInv'
<1>1. /\ kind' = kind /\ isCancel' = isCancel /\ err' = err /\ held' = held
      /\ owner' = owner /\ running' = running /\ callbacks' = callbacks
      /\ dlg' = dlg /\ act' = act /\ result' = result /\ page' = page /\ tree' = tree
      /\ opened' = opened /\ crashes' = crashes
      /\ posting' = [posting EXCEPT ![w] = "no"]
      /\ pc' = [pc EXCEPT ![w] = AfterPost(w)] /\ signals' = signals + 1
    BY DEF DoOnMainThread, ui, disk
<1>2. pc[w] \in {"fetch", "checkout", "ending"}
    BY DEF IInv, Workflow
<1>3. TypeOK'
    <2>1. /\ posting' \in [Workers -> {"no", "push", "signal"}] /\ signals' \in Nat
          /\ pc' \in [Workers -> {"unused", "remove", "clone", "fetch", "checkout",
                                  "fastforward", "ending", "done"}]
        BY <1>1, <1>2 DEF IInv, TypeOK, AfterPost
    <2> QED
        BY <1>1, <2>1, Zenon DEF IInv, TypeOK
<1>4. ASSUME NEW v \in Workers
      PROVE  /\ Posted(v)' <=> Posted(v)
             /\ Waiting(v)' <=> Waiting(v)
             /\ pc'[v] = "unused" <=> pc[v] = "unused"
             /\ \/ pc'[v] = pc[v]
                \/ v = w /\ pc[v] = "ending" /\ pc'[v] = "done"
    BY <1>1, <1>2 DEF IInv, TypeOK, Posted, Waiting, AfterPost
<1>5. \A v \in Workers : (Alive(v)' => Alive(v)) /\ (Pending(v)' <=> Pending(v))
    BY <1>4 DEF Alive, Pending
<1>6. Workflow'
    <2>1. \A v \in Workers : posting'[v] # "no" => posting'[v] = posting[v] /\ v # w
        BY <1>1 DEF IInv, TypeOK
    <2> QED
        BY <1>4, <2>1 DEF IInv, Workflow
<1>7. Completions'
    <2>1. \A i \in 1..Len(callbacks) : callbacks[i].w \in Workers
        BY EntryTypes DEF IInv
    <2> QED
        BY <1>1, <1>4, <2>1 DEF IInv, Completions
<1>8. Signalled'
    BY <1>1 DEF IInv, TypeOK, Signalled
<1>9. /\ Holds' /\ Routes' /\ Owners' /\ Current' /\ OverlapOnlyAfterLeaving'
      /\ Behind' /\ EnvIsNotLeft'
    <2>1. \A v \in Workers : Alive(v)' => (pc[v] = "ending" => pc'[v] = "ending")
        BY <1>4 DEF Alive
    <2> QED
        BY <1>1, <1>4, <1>5, <2>1, HeldActions, UiQuiet DEF ui
<1>10. Undisturbed' /\ FrameworkIsWhole'
    BY <1>1, <1>4, <1>5, DiskQuiet DEF ui, disk
<1> QED
    BY <1>3, <1>6, <1>7, <1>8, <1>9, <1>10 DEF IInv

-----------------------------------------------------------------------------
(***************************************************************************)
(* onSignal.                                                               *)
(***************************************************************************)

\* The list is locked.
LEMMA SignalBegins ==
    ASSUME IInv, running = -1, running' = 0, signals > 0, signals' = signals - 1,
           UNCHANGED <<kind, worker, held, owner, callbacks, ui, disk, crashes>>
    PROVE  IInv'
<1>1. /\ kind' = kind /\ pc' = pc /\ isCancel' = isCancel /\ err' = err /\ posting' = posting
      /\ held' = held /\ owner' = owner /\ callbacks' = callbacks
      /\ dlg' = dlg /\ act' = act /\ result' = result /\ page' = page /\ tree' = tree
      /\ opened' = opened /\ crashes' = crashes
    BY Zenon DEF worker, ui, disk
<1>2. Len(callbacks) \in Nat /\ signals \in Nat
    BY EntryTypes DEF IInv, TypeOK
<1>3. TypeOK'
    <2>1. running' \in -1..Len(callbacks') /\ signals' \in Nat
        BY <1>1, <1>2
    <2> QED
        BY <1>1, <2>1, Zenon DEF IInv, TypeOK
<1>4. ASSUME NEW v \in Workers
      PROVE  /\ Posted(v)' <=> Posted(v)
             /\ Waiting(v)' <=> Waiting(v)
             /\ Alive(v)' <=> Alive(v)
             /\ Pending(v)' <=> Pending(v)
    <2>1. /\ Posted(v)' <=> Posted(v)
          /\ Alive(v)' <=> Alive(v)
        BY <1>1 DEF Posted, Alive
    <2>2. Waiting(v)' <=> Waiting(v)
        <3>1. \A i \in 1..Len(callbacks) : i > -1 /\ i > 0
            BY <1>2
        <3> QED
            BY <1>1, <3>1 DEF Waiting
    <2> QED
        BY <1>1, <2>1, <2>2 DEF Pending
<1>5. Workflow' /\ Completions' /\ Signalled'
    BY <1>1 DEF IInv, Workflow, Completions, Signalled, Posted
<1>6. /\ Holds' /\ Routes' /\ Owners' /\ Current' /\ OverlapOnlyAfterLeaving'
      /\ Behind' /\ EnvIsNotLeft'
    BY <1>1, <1>4, HeldActions, UiQuiet
<1>7. Undisturbed' /\ FrameworkIsWhole'
    BY <1>1, <1>4, DiskQuiet DEF ui, disk
<1> QED
    BY <1>3, <1>5, <1>6, <1>7 DEF IInv

\* All callbacks have run and the list is cleared.
LEMMA SignalEnds ==
    ASSUME IInv, running = Len(callbacks), running' = -1, callbacks' = <<>>,
           UNCHANGED <<kind, worker, held, owner, signals, ui, disk, crashes>>
    PROVE  IInv'
<1>1. /\ kind' = kind /\ pc' = pc /\ isCancel' = isCancel /\ err' = err /\ posting' = posting
      /\ held' = held /\ owner' = owner /\ signals' = signals
      /\ dlg' = dlg /\ act' = act /\ result' = result /\ page' = page /\ tree' = tree
      /\ opened' = opened /\ crashes' = crashes
    BY Zenon DEF worker, ui, disk
<1>2. Len(callbacks) \in Nat /\ Len(callbacks') = 0
    BY EntryTypes DEF IInv
<1>3. TypeOK'
    <2>1. running' \in -1..Len(callbacks') /\ callbacks' \in Seq([w : Workers, end : BOOLEAN])
        BY <1>2
    <2> QED
        BY <1>1, <2>1, Zenon DEF IInv, TypeOK
<1>4. ASSUME NEW v \in Workers
      PROVE  /\ Posted(v)' <=> Posted(v)
             /\ Waiting(v)' <=> Waiting(v)
             /\ Alive(v)' <=> Alive(v)
             /\ Pending(v)' <=> Pending(v)
    <2>1. /\ Posted(v)' <=> Posted(v)
          /\ Alive(v)' <=> Alive(v)
        BY <1>1 DEF Posted, Alive
    <2>2. Waiting(v)' <=> Waiting(v)
        BY <1>2 DEF Waiting
    <2> QED
        BY <1>1, <2>1, <2>2 DEF Pending
<1>5. Workflow'
    BY <1>1 DEF IInv, Workflow
<1>6. Completions' /\ Signalled'
    BY <1>2 DEF Completions, Signalled
<1>7. /\ Holds' /\ Routes' /\ Owners' /\ Current' /\ OverlapOnlyAfterLeaving'
      /\ Behind' /\ EnvIsNotLeft'
    BY <1>1, <1>4, HeldActions, UiQuiet
<1>8. Undisturbed' /\ FrameworkIsWhole'
    BY <1>1, <1>4, DiskQuiet DEF ui, disk
<1> QED
    BY <1>3, <1>5, <1>6, <1>7, <1>8 DEF IInv

\* One callback runs, and whatever it shows its dialog.
Runs == /\ running >= 0 /\ running < Len(callbacks)
        /\ running' = running + 1
        /\ UNCHANGED <<kind, worker, held, owner, callbacks, signals, disk, crashes>>

\* The worker of the callback has no completion to come any more, if this was
\* one; nothing changes for the others.
LEMMA RunsEffect ==
    ASSUME IInv, Runs, NEW c, c = callbacks[running + 1]
    PROVE  /\ c.w \in Workers /\ c.end \in BOOLEAN
           /\ running' \in -1..Len(callbacks')
           /\ Workflow' /\ Completions' /\ Signalled'
           /\ \A v \in Workers :
                 /\ Alive(v)' <=> Alive(v)
                 /\ ~c.end \/ v # c.w => (Waiting(v)' <=> Waiting(v)) /\ (Pending(v)' <=> Pending(v))
           /\ c.end => /\ ~Waiting(c.w)' /\ ~Pending(c.w)'
                       /\ Pending(c.w) /\ pc[c.w] \in {"ending", "done"}
<1> DEFINE k == running + 1
           n == Len(callbacks)
<1>1. /\ kind' = kind /\ pc' = pc /\ posting' = posting /\ callbacks' = callbacks
      /\ signals' = signals /\ running' = k
    BY DEF Runs, worker
<1>2. n \in Nat /\ running \in Int /\ k \in 1..n /\ running >= 0
    BY EntryTypes DEF IInv, TypeOK, Runs
<1>3. c.w \in Workers /\ c.end \in BOOLEAN
    BY <1>2, EntryTypes DEF IInv
<1>4. running' \in -1..Len(callbacks')
    BY <1>1, <1>2
<1>5. Workflow' /\ Completions'
    BY <1>1 DEF IInv, Workflow, Completions, Posted
<1>6. Signalled'
    BY <1>1, <1>2 DEF Signalled
<1>7. \A i \in 1..n : (i > k <=> i > running /\ i # k) /\ k > running /\ ~(k > k)
    BY <1>2
<1>8. ASSUME NEW v \in Workers
      PROVE  /\ Alive(v)' <=> Alive(v)
             /\ Posted(v)' <=> Posted(v)
             /\ ~c.end \/ v # c.w => (Waiting(v)' <=> Waiting(v)) /\ (Pending(v)' <=> Pending(v))
    <2>1. /\ Alive(v)' <=> Alive(v)
          /\ Posted(v)' <=> Posted(v)
        BY <1>1 DEF Alive, Posted
    <2>2. ASSUME ~c.end \/ v # c.w
          PROVE  (Waiting(v)' <=> Waiting(v)) /\ (Pending(v)' <=> Pending(v))
        <3>1. Waiting(v)' <=> Waiting(v)
            <4>1. c = callbacks[k]
                OBVIOUS
            <4> HIDE DEF k, n
            <4> QED
                BY <1>1, <1>7, <2>2, <4>1 DEF Waiting, n
        <3> QED
            BY <1>1, <2>1, <3>1 DEF Pending
    <2> QED
        BY <2>1, <2>2
<1>9. ASSUME c.end
      PROVE  /\ ~Waiting(c.w)' /\ ~Pending(c.w)'
             /\ Pending(c.w) /\ pc[c.w] \in {"ending", "done"}
    <2>1. Posted(c.w) /\ \A j \in 1..n : callbacks[j].end /\ callbacks[j].w = c.w => j = k
        BY <1>2, <1>9 DEF IInv, Completions
    <2>2. Waiting(c.w)
        BY <1>2, <1>7, <1>9 DEF Waiting
    <2>3. ~Waiting(c.w)'
        <3> HIDE DEF k
        <3> QED
            BY <1>1, <1>2, <1>7, <2>1 DEF Waiting
    <2>4. Posted(c.w)'
        BY <1>3, <1>8, <2>1
    <2> QED
        BY <2>1, <2>2, <2>3, <2>4 DEF Pending, Posted
<1> QED
    BY <1>3, <1>4, <1>5, <1>6, <1>8, <1>9

-----------------------------------------------------------------------------
(***************************************************************************)
(* Steps that change the dialogs and start no worker.                      *)
(***************************************************************************)

\* What becomes of the dialogs: some lose their action, one is shown or has
\* failed, some are closed, and one of those leaves the screen.
Turns(d) == \/ dlg'[d] = dlg[d] /\ result'[d] = result[d]
            \/ /\ dlg[d] \in Open /\ dlg'[d] \in Shown /\ result'[d] = result[d]
               /\ dlg'[d] = "failed" => act'[d] = 0
            \/ dlg[d] \in Open /\ dlg'[d] = "closing" /\ result'[d] \in {"Success", "Failed", "null"}
            \/ dlg[d] = "closing" /\ dlg'[d] = "gone" /\ result'[d] = result[d]

\* No dialog is taken for another one, and no worker loses its own.
LEMMA DialogsTurn ==
    ASSUME IInv, UNCHANGED <<kind, owner, held, pc>>,
           \A v \in Workers : /\ Waiting(v)' => Waiting(v)
                              /\ Pending(v)' => Pending(v),
           \A d \in Dialogs : /\ Turns(d)
                              /\ act'[d] = act[d] \/ act'[d] = 0
                              /\ act'[d] # 0 => \A v \in Workers : v = act[d] => Pending(v)',
           \A v \in Workers : Pending(v)' /\ dlg'[owner[v]] \in Open => act'[owner[v]] = v
    PROVE  Holds' /\ Routes' /\ Owners' /\ Current' /\ OverlapOnlyAfterLeaving'
<1>1. kind' = kind /\ owner' = owner /\ held' = held /\ pc' = pc
    OBVIOUS
<1>2. \A d \in Dialogs : act[d] # 0 => act[d] \in Workers
    BY CloneAssumption DEF IInv, TypeOK, Workers, Dialogs
<1>3. \A v \in Workers : (Alive(v)' <=> Alive(v)) /\ owner[v] \in Dialogs
    BY <1>1 DEF Alive, IInv, TypeOK
<1>4. Holds'
    <2> SUFFICES ASSUME NEW d \in Dialogs, act'[d] # 0
                 PROVE  /\ held'[act'[d]] /\ owner'[act'[d]] = d /\ pc'[act'[d]] # "unused"
                        /\ Pending(act[d])' /\ dlg'[d] \notin {"unused", "failed"}
        BY DEF Holds
    <2>1. act'[d] = act[d] /\ act[d] \in Workers
        BY <1>2
    <2>2. \A v \in Workers : v = act'[d] => Pending(v)'
        BY <2>1
    <2>3. Pending(act[d])'
        BY <2>1, <2>2 DEF Pending, Waiting, Posted
    <2>4. dlg'[d] \notin {"unused", "failed"}
        BY <2>1 DEF Turns, IInv, Holds, Open, Shown
    <2> QED
        BY <1>1, <2>1, <2>3, <2>4 DEF IInv, Holds
<1>5. \A d \in Dialogs : /\ dlg'[d] \in Open => dlg[d] \in Open /\ result'[d] = result[d]
                         /\ dlg'[d] = "unused" <=> dlg[d] = "unused"
                         /\ dlg'[d] = "unused" => result'[d] = result[d]
                         /\ dlg'[d] = "requested" => dlg[d] = "requested"
                         /\ dlg'[d] \notin Open => \/ dlg[d] \notin Open /\ result'[d] = result[d]
                                                   \/ result'[d] \in {"Success", "Failed", "null"}
                         /\ result[d] # "none" /\ dlg[d] \notin Open => result'[d] = result[d]
                         /\ result'[d] = result[d] \/ result'[d] \in {"Success", "Failed", "null"}
    BY DEF Turns, Open, Shown
<1>6. Routes'
    BY <1>5 DEF IInv, Routes
<1>7. Owners'
    BY <1>1, <1>3, <1>5 DEF IInv, Owners
<1>8. Current'
    BY <1>1 DEF Current
<1>9. OverlapOnlyAfterLeaving'
    BY <1>1, <1>3, <1>5 DEF IInv, OverlapOnlyAfterLeaving
<1> QED
    BY <1>4, <1>6, <1>7, <1>8, <1>9

\* When none of them is closed, nothing changes for the directory.
LEMMA NoneClosed ==
    ASSUME IInv, UNCHANGED <<kind, owner, pc, err, result, disk, crashes>>, PageKept',
           \A v \in Workers : Pending(v)' => Pending(v),
           \A d \in Dialogs : /\ dlg'[d] \in Open <=> dlg[d] \in Open
                              /\ dlg'[d] \in Shown \cup {"requested", "unused", "closing", "gone"}
                              /\ dlg'[d] = "closing" => dlg[d] = "closing"
                              /\ act'[d] = act[d] \/ act'[d] = 0
    PROVE  Behind' /\ Undisturbed' /\ EnvIsNotLeft' /\ FrameworkIsWhole'
<1>1. /\ kind' = kind /\ owner' = owner /\ pc' = pc /\ err' = err /\ result' = result
      /\ tree' = tree /\ opened' = opened /\ crashes' = crashes
    BY DEF disk
<1>2. Left' <=> Left
    BY <1>1 DEF Left
<1>3. Behind'
    BY <1>1 DEF IInv, Behind
<1>4. Undisturbed'
    <2>1. \A v \in Workers : owner[v] \in Dialogs
        BY DEF IInv, TypeOK
    <2> QED
        BY <1>1, <1>2, <2>1 DEF IInv, Undisturbed, AsFarAs
<1>5. EnvIsNotLeft'
    BY <1>1, <1>2 DEF IInv, EnvIsNotLeft
<1>6. FrameworkIsWhole'
    <2>1. \A d \in Dialogs : dlg[d] \in Shown \cup {"requested", "unused", "closing", "gone"}
        BY DEF IInv, TypeOK
    <2>2. \A d \in Dialogs : dlg'[d] \in {"unused", "closing", "gone"}
                                => dlg[d] \in {"unused", "closing", "gone"}
        BY <2>1 DEF Open, Shown
    <2> QED
        BY <1>1, <2>2 DEF IInv, FrameworkIsWhole
<1> QED
    BY <1>3, <1>4, <1>5, <1>6

\* Navigator.pop with one open dialog below: this one is closed with the result
\* it is given.
LEMMA PopCloses ==
    ASSUME IInv, NEW e \in Dialogs, dlg[e] \in Open, NEW r, Pop(r)
    PROVE  /\ dlg' = [dlg EXCEPT ![e] = "closing"]
           /\ result' = [result EXCEPT ![e] = r]
           /\ page' = page /\ result[e] = "none"
           /\ \A d \in Dialogs : d # e => dlg[d] \notin Open
<1>1. /\ dlg \in [Dialogs -> Shown \cup {"unused", "requested", "closing", "gone"}]
      /\ result \in [Dialogs -> {"none", "Success", "Failed", "null"}]
    BY DEF IInv, TypeOK
<1>2. /\ result[e] = "none"
      /\ \A d \in Dialogs : d # e => dlg[d] \notin Open
    BY DEF IInv, Routes
<1>3. {d \in Dialogs : dlg[d] \in Shown \cup {"requested"}} = {e}
    BY <1>2 DEF Open
<1>4. /\ dlg' = [d \in Dialogs |-> IF d \in {e} THEN "closing" ELSE dlg[d]]
      /\ result' = [d \in Dialogs |-> IF d \in {e} THEN r ELSE result[d]]
      /\ page' = page
    BY <1>3 DEF Pop
<1> QED
    BY <1>1, <1>2, <1>4

-----------------------------------------------------------------------------
(***************************************************************************)
(* A callback.                                                             *)
(***************************************************************************)

\* What Runs leaves alone keeps its type.
LEMMA RunTypes ==
    ASSUME IInv, Runs,
           dlg' \in [Dialogs -> Shown \cup {"unused", "requested", "closing", "gone"}],
           act' \in [Dialogs -> 0..MaxClones],
           result' \in [Dialogs -> {"none", "Success", "Failed", "null"}],
           page' \in BOOLEAN
    PROVE  TypeOK'
<1>1. /\ kind' = kind /\ pc' = pc /\ isCancel' = isCancel /\ err' = err /\ posting' = posting
      /\ held' = held /\ owner' = owner /\ callbacks' = callbacks /\ signals' = signals
      /\ tree' = tree /\ opened' = opened /\ crashes' = crashes
    BY Zenon DEF Runs, worker, disk
<1>2. running' \in -1..Len(callbacks')
    BY RunsEffect
<1> QED
    BY <1>1, <1>2, Zenon DEF IInv, TypeOK

\* A progress report, or the completion of a worker whose item was cancelled.
LEMMA RunQuietly ==
    ASSUME IInv, Runs, NEW c, c = callbacks[running + 1], UNCHANGED ui,
           c.end => act[owner[c.w]] = 0
    PROVE  IInv'
<1>1. /\ kind' = kind /\ pc' = pc /\ held' = held /\ owner' = owner /\ err' = err
      /\ dlg' = dlg /\ act' = act /\ result' = result /\ page' = page
      /\ tree' = tree /\ opened' = opened /\ crashes' = crashes
    BY Zenon DEF Runs, worker, ui, disk
<1>2. TypeOK'
    BY <1>1, RunTypes DEF IInv, TypeOK
<1>3. /\ c.w \in Workers /\ c.end \in BOOLEAN
      /\ Workflow' /\ Completions' /\ Signalled'
      /\ \A v \in Workers :
            /\ Alive(v)' <=> Alive(v)
            /\ ~c.end \/ v # c.w => (Waiting(v)' <=> Waiting(v)) /\ (Pending(v)' <=> Pending(v))
      /\ c.end => /\ ~Waiting(c.w)' /\ ~Pending(c.w)'
    BY RunsEffect
<1>4. \A v \in Workers : v # 0
    BY CloneAssumption DEF Workers
<1>5. \A v \in Workers : /\ Pending(v)' => Pending(v)
                         /\ Waiting(v)' => Waiting(v)
                         /\ act[owner[v]] = v => (Pending(v) => Pending(v)')
    BY <1>3, <1>4
<1>6. /\ Holds' /\ Routes' /\ Owners' /\ Current' /\ OverlapOnlyAfterLeaving'
      /\ Behind' /\ EnvIsNotLeft'
    BY <1>1, <1>3, <1>5, HeldActions, UiQuiet DEF ui
<1>7. Undisturbed' /\ FrameworkIsWhole'
    BY <1>1, <1>5, DiskQuiet DEF ui, disk
<1> QED
    BY <1>2, <1>3, <1>6, <1>7 DEF IInv

\* The callback c completes the clone of dialog d, whose item lets its action go.
Completes(c, d) == /\ Runs
                   /\ c = callbacks[running + 1] /\ c.end /\ d = owner[c.w]
                   /\ act' = [act EXCEPT ![d] = 0]

\* The completion that comes to an open dialog is that of the worker its item
\* holds: once it has run, no worker of this dialog is still to come back.
LEMMA CompletionComes ==
    ASSUME IInv, NEW c, NEW d, Completes(c, d)
    PROVE  /\ d \in Dialogs
           /\ act' \in [Dialogs -> 0..MaxClones] /\ act'[d] = 0
           /\ dlg[d] \in Open => act[d] = c.w
           /\ \A v \in Workers : /\ Waiting(v)' => Waiting(v)
                                 /\ Pending(v)' => Pending(v) /\ v # c.w
           /\ \A e \in Dialogs : /\ act'[e] = act[e] \/ act'[e] = 0
                                 /\ act'[e] # 0 => \A v \in Workers : v = act[e] => Pending(v)'
           /\ \A v \in Workers : Pending(v)' /\ dlg[owner[v]] \in Open => act'[owner[v]] = v
<1> USE DEF Completes
<1>1. /\ c.w \in Workers
      /\ \A v \in Workers :
            v # c.w => (Waiting(v)' <=> Waiting(v)) /\ (Pending(v)' <=> Pending(v))
      /\ ~Waiting(c.w)' /\ ~Pending(c.w)' /\ Pending(c.w)
    BY RunsEffect DEF Completes
<1>2. d \in Dialogs /\ \A v \in Workers : owner[v] \in Dialogs
    BY <1>1 DEF IInv, TypeOK
<1>3. /\ act' \in [Dialogs -> 0..MaxClones] /\ act'[d] = 0
      /\ \A e \in Dialogs : act'[e] = IF e = d THEN 0 ELSE act[e]
    BY <1>2, CloneAssumption DEF IInv, TypeOK
<1>4. dlg[d] \in Open => act[d] = c.w
    BY <1>1 DEF IInv, Current
<1>5. ASSUME NEW e \in Dialogs, act'[e] # 0, NEW v \in Workers, v = act[e]
      PROVE  Pending(v)'
    <2>1. e # d /\ act[e] # 0
        BY <1>3, <1>5
    <2>2. owner[v] = e /\ Pending(v)
        BY <1>5, <2>1 DEF IInv, Holds
    <2> QED
        BY <1>1, <2>1, <2>2
<1>6. ASSUME NEW v \in Workers, Pending(v)', dlg[owner[v]] \in Open
      PROVE  act'[owner[v]] = v
    <2>1. v # c.w /\ Pending(v)
        BY <1>1, <1>6
    <2>2. act[owner[v]] = v
        BY <1>6, <2>1 DEF IInv, Current
    <2> QED
        BY <1>2, <1>3, <1>4, <1>6, <2>1, <2>2
<1> QED
    BY <1>1, <1>2, <1>3, <1>4, <1>5, <1>6

\* A completion that closes no dialog: the clone has failed, or the dialog is not
\* there, or is closing and the page below it goes.
LEMMA RunStays ==
    ASSUME IInv, NEW c, NEW d, Completes(c, d),
           \/ dlg' = dlg
           \/ dlg[d] \in Shown /\ dlg' = [dlg EXCEPT ![d] = "failed"],
           result' = result, PageKept', page' \in BOOLEAN
    PROVE  IInv'
<1>1. /\ kind' = kind /\ pc' = pc /\ held' = held /\ owner' = owner /\ err' = err
      /\ tree' = tree /\ opened' = opened /\ crashes' = crashes
    BY Zenon DEF Completes, Runs, worker, disk
<1>2. /\ d \in Dialogs
      /\ act' \in [Dialogs -> 0..MaxClones] /\ act'[d] = 0
      /\ \A v \in Workers : /\ Waiting(v)' => Waiting(v)
                            /\ Pending(v)' => Pending(v) /\ v # c.w
      /\ \A e \in Dialogs : /\ act'[e] = act[e] \/ act'[e] = 0
                            /\ act'[e] # 0 => \A v \in Workers : v = act[e] => Pending(v)'
      /\ \A v \in Workers : Pending(v)' /\ dlg[owner[v]] \in Open => act'[owner[v]] = v
    BY CompletionComes
<1>3. dlg \in [Dialogs -> Shown \cup {"unused", "requested", "closing", "gone"}]
    BY DEF IInv, TypeOK
<1>4. /\ dlg' \in [Dialogs -> Shown \cup {"unused", "requested", "closing", "gone"}]
      /\ \A e \in Dialogs : \/ dlg'[e] = dlg[e]
                            \/ e = d /\ dlg[e] \in Shown /\ dlg'[e] = "failed"
    BY <1>3 DEF Shown
<1>5. TypeOK'
    BY <1>2, <1>4, RunTypes DEF Completes, IInv, TypeOK
<1>6. Workflow' /\ Completions' /\ Signalled'
    BY RunsEffect DEF Completes
<1>7. Holds' /\ Routes' /\ Owners' /\ Current' /\ OverlapOnlyAfterLeaving'
    <2>1. \A e \in Dialogs : Turns(e)
        BY <1>2, <1>4 DEF Turns, Open, Shown
    <2>2. \A v \in Workers : dlg'[owner[v]] \in Open => dlg[owner[v]] \in Open
        BY <1>4 DEF IInv, TypeOK, Open
    <2> QED
        BY <1>1, <1>2, <2>1, <2>2, DialogsTurn
<1>8. Behind' /\ Undisturbed' /\ EnvIsNotLeft' /\ FrameworkIsWhole'
    <2>1. \A e \in Dialogs : /\ dlg'[e] \in Open <=> dlg[e] \in Open
                             /\ dlg'[e] \in Shown \cup {"requested", "unused", "closing", "gone"}
                             /\ dlg'[e] = "closing" => dlg[e] = "closing"
        BY <1>4 DEF Open, Shown
    <2> QED
        BY <1>1, <1>2, <2>1, NoneClosed DEF disk
<1> QED
    BY <1>5, <1>6, <1>7, <1>8 DEF IInv

\* A clone without an error that nobody has left in between has made a whole
\* directory.
LEMMA WholeUnlessLeft ==
    ASSUME IInv, ~Left, Runs, NEW c, c = callbacks[running + 1], c.end,
           act[owner[c.w]] # 0, ~err[act[owner[c.w]]]
    PROVE  tree.st = "whole" /\ opened /\ dlg[owner[c.w]] \in Open
<1>1. c.w \in Workers /\ Pending(c.w) /\ pc[c.w] \in {"ending", "done"}
    BY RunsEffect
<1>2. dlg[owner[c.w]] \in Open /\ AsFarAs(c.w)
    BY <1>1 DEF IInv, Undisturbed
<1>3. act[owner[c.w]] = c.w
    BY <1>1, <1>2 DEF IInv, Current
<1> QED
    BY <1>1, <1>2, <1>3 DEF AsFarAs

\* A completion that closes a dialog.
LEMMA RunCloses ==
    ASSUME IInv, NEW c, NEW d, Completes(c, d), act[d] # 0, ~err[act[d]],
           dlg[d] \notin {"requested", "gone"}, NEW e \in Dialogs, dlg[e] \in Open, Pop("Success")
    PROVE  IInv'
<1>1. /\ kind' = kind /\ pc' = pc /\ held' = held /\ owner' = owner /\ err' = err
      /\ tree' = tree /\ opened' = opened /\ crashes' = crashes
    BY Zenon DEF Completes, Runs, worker, disk
<1>2. /\ d \in Dialogs
      /\ act' \in [Dialogs -> 0..MaxClones] /\ act'[d] = 0
      /\ \A v \in Workers : /\ Waiting(v)' => Waiting(v)
                            /\ Pending(v)' => Pending(v) /\ v # c.w
      /\ \A f \in Dialogs : /\ act'[f] = act[f] \/ act'[f] = 0
                            /\ act'[f] # 0 => \A v \in Workers : v = act[f] => Pending(v)'
      /\ \A v \in Workers : Pending(v)' /\ dlg[owner[v]] \in Open => act'[owner[v]] = v
    BY CompletionComes
<1>3. /\ dlg' = [dlg EXCEPT ![e] = "closing"]
      /\ result' = [result EXCEPT ![e] = "Success"]
      /\ page' = page /\ result[e] = "none"
      /\ \A f \in Dialogs : f # e => dlg[f] \notin Open
    BY PopCloses
<1>4. /\ dlg \in [Dialogs -> Shown \cup {"unused", "requested", "closing", "gone"}]
      /\ result \in [Dialogs -> {"none", "Success", "Failed", "null"}]
    BY DEF IInv, TypeOK
<1>5. /\ dlg' \in [Dialogs -> Shown \cup {"unused", "requested", "closing", "gone"}]
      /\ result' \in [Dialogs -> {"none", "Success", "Failed", "null"}]
      /\ dlg'[e] = "closing" /\ result'[e] = "Success"
      /\ \A f \in Dialogs : f # e => dlg'[f] = dlg[f] /\ result'[f] = result[f]
    BY <1>3, <1>4
<1>6. TypeOK'
    BY <1>2, <1>3, <1>5, RunTypes DEF Completes, IInv, TypeOK
<1>7. Workflow' /\ Completions' /\ Signalled'
    BY RunsEffect DEF Completes
<1>8. Holds' /\ Routes' /\ Owners' /\ Current' /\ OverlapOnlyAfterLeaving'
    <2>1. \A f \in Dialogs : Turns(f)
        BY <1>5 DEF Turns
    <2>2. \A v \in Workers : dlg'[owner[v]] \in Open => dlg[owner[v]] \in Open
        BY <1>5 DEF IInv, TypeOK
    <2> QED
        BY <1>1, <1>2, <2>1, <2>2, DialogsTurn
<1>9. \A f \in Dialogs : /\ result'[f] \in {"Failed", "null"} <=> result[f] \in {"Failed", "null"}
                         /\ result'[f] = "null" <=> result[f] = "null"
    BY <1>3, <1>5
<1>10. Left' <=> Left
    BY <1>9 DEF Left
<1>11. EnvIsNotLeft'
    BY <1>1, <1>10 DEF IInv, EnvIsNotLeft
<1>12. Behind'
    <2>1. PageKept'
        BY <1>3, <1>9 DEF IInv, Behind, PageKept
    <2>2. ASSUME NEW f \in Dialogs, dlg'[f] = "closing", act'[f] # 0
          PROVE  \E g \in Dialogs : result[g] = "null"
        <3>1. f # d /\ act[f] # 0
            BY <1>2, <2>2
        <3>2. CASE f = e
            <4>1. dlg[d] = "closing"
                BY <1>2, <1>3, <1>4, <3>1, <3>2 DEF IInv, Holds, Open
            <4> QED
                BY <1>2, <4>1 DEF IInv, Behind
        <3>3. CASE f # e
            BY <1>5, <2>2, <3>1, <3>3 DEF IInv, Behind
        <3> QED
            BY <3>2, <3>3
    <2> QED
        BY <1>9, <2>1, <2>2 DEF Behind
<1>13. Undisturbed'
    <2> SUFFICES ASSUME ~Left
                 PROVE  tree'.st # "mixed" /\ \A v \in Workers : ~Pending(v)'
        BY <1>10 DEF Undisturbed
    <2>1. c.w \in Workers /\ Pending(c.w)
        BY RunsEffect DEF Completes
    <2>2. \A v \in Workers : Pending(v) => v = c.w
        BY <2>1, OnlyOne
    <2> QED
        BY <1>1, <1>2, <2>2 DEF IInv, Undisturbed
<1>14. FrameworkIsWhole'
    <2>1. kind = "env" => tree.st = "whole"
        BY WholeUnlessLeft DEF Completes, IInv, EnvIsNotLeft
    <2> QED
        BY <1>1, <2>1 DEF FrameworkIsWhole
<1> QED
    BY <1>6, <1>7, <1>8, <1>11, <1>12, <1>13, <1>14 DEF IInv

\* Any callback.
LEMMA RunStep ==
    ASSUME IInv, Runs, NEW c, c = callbacks[running + 1],
           IF c.end THEN OnComplete(owner[c.w]) ELSE UNCHANGED ui
    PROVE  IInv'
<1> DEFINE d == owner[c.w]
<1>1. CASE ~c.end \/ act[d] = 0
    <2>1. UNCHANGED ui
        BY <1>1 DEF OnComplete
    <2>2. c.end => act[owner[c.w]] = 0
        BY <1>1
    <2> QED
        BY <2>1, <2>2, RunQuietly
<1>2. CASE c.end /\ act[d] # 0
    <2>0. c.w \in Workers /\ d \in Dialogs
        <3>1. c.w \in Workers
            BY RunsEffect
        <3> QED
            BY <3>1 DEF IInv, TypeOK
    <2>1. CASE err[act[d]]
        <3>1. /\ act' = [act EXCEPT ![d] = 0] /\ result' = result /\ page' = page
              /\ dlg' = [dlg EXCEPT ![d] = IF @ \in Shown THEN "failed" ELSE @]
            BY <1>2, <2>1 DEF OnComplete, ItemFail
        <3>2. \/ dlg' = dlg
              \/ dlg[d] \in Shown /\ dlg' = [dlg EXCEPT ![d] = "failed"]
            BY <2>0, <3>1 DEF IInv, TypeOK
        <3>3. PageKept' /\ page' \in BOOLEAN
            BY <3>1 DEF IInv, TypeOK, Behind, PageKept
        <3>4. Completes(c, d)
            BY <1>2, <3>1 DEF Completes
        <3> HIDE DEF d
        <3> QED
            BY <3>1, <3>2, <3>3, <3>4, RunStays
    <2>2. CASE ~err[act[d]]
        <3>1. ItemComplete(d) /\ act' = [act EXCEPT ![d] = 0]
            BY <1>2, <2>2 DEF OnComplete, ItemComplete
        <3>2. Completes(c, d)
            BY <1>2, <3>1 DEF Completes
        <3>3. CASE dlg[d] \in {"requested", "gone"}
            <4>1. dlg' = dlg /\ result' = result /\ page' = page
                BY <3>1, <3>3 DEF ItemComplete
            <4>2. PageKept' /\ page' \in BOOLEAN
                BY <4>1 DEF IInv, TypeOK, Behind, PageKept
            <4> HIDE DEF d
            <4> QED
                BY <3>2, <4>1, <4>2, RunStays
        <3>4. CASE dlg[d] \notin {"requested", "gone"} /\ \E e \in Dialogs : dlg[e] \in Open
            <4>1. Pop("Success")
                BY <3>1, <3>4 DEF ItemComplete
            <4> HIDE DEF d
            <4> QED
                BY <1>2, <2>2, <3>2, <3>4, <4>1, RunCloses
        <3>5. CASE dlg[d] \notin {"requested", "gone"} /\ ~\E e \in Dialogs : dlg[e] \in Open
            <4>1. {e \in Dialogs : dlg[e] \in Shown \cup {"requested"}} = {}
                BY <3>5 DEF Open
            <4>2. dlg' = dlg /\ result' = result /\ page' = FALSE
                BY <3>1, <3>5, <4>1 DEF ItemComplete, Pop
            <4>3. dlg[d] = "closing"
                BY <1>2, <2>0, <3>5 DEF IInv, TypeOK, Holds, Open
            <4>4. \E e \in Dialogs : result[e] = "null"
                BY <1>2, <2>0, <4>3 DEF IInv, Behind
            <4>5. PageKept' /\ page' \in BOOLEAN
                BY <4>2, <4>4 DEF PageKept
            <4> HIDE DEF d
            <4> QED
                BY <3>2, <4>2, <4>5, RunStays
        <3> QED
            BY <3>3, <3>4, <3>5
    <2> QED
        BY <2>1, <2>2
<1> QED
    BY <1>1, <1>2

\* Platform::onSignal.
LEMMA SignalStep ==
    ASSUME IInv, Signal, UNCHANGED kind
    PROVE  IInv'
<1>1. UNCHANGED <<kind, worker, held, owner, disk, crashes>>
    BY DEF Signal
<1>2. CASE /\ running = -1 /\ signals > 0 /\ signals' = signals - 1 /\ running' = 0
           /\ UNCHANGED <<callbacks, ui>>
    BY <1>1, <1>2, SignalBegins
<1>3. CASE /\ running >= 0 /\ running < Len(callbacks)
           /\ running' = running + 1
           /\ IF callbacks[running + 1].end THEN OnComplete(owner[callbacks[running + 1].w])
              ELSE UNCHANGED ui
           /\ UNCHANGED <<callbacks, signals>>
    <2>1. Runs
        BY <1>1, <1>3 DEF Runs
    <2> QED
        BY <1>3, <2>1, RunStep
<1>4. CASE /\ running >= 0 /\ running = Len(callbacks) /\ running' = -1 /\ callbacks' = <<>>
           /\ UNCHANGED <<signals, ui>>
    BY <1>1, <1>4, SignalEnds
<1> QED
    BY <1>2, <1>3, <1>4 DEF Signal, OnSignal

-----------------------------------------------------------------------------
(***************************************************************************)
(* The user.                                                               *)
(***************************************************************************)

\* The user's steps, and the frames, leave the workers where they are and the
\* list alone.
Touches == UNCHANGED <<kind, pc, err, posting, held, owner, platform, disk, crashes>>

\* What onCancel, onWillPop and the frames leave alone keeps its type and its place.
LEMMA TouchTypes ==
    ASSUME IInv, Touches, isCancel' \in [Workers -> BOOLEAN],
           dlg' \in [Dialogs -> Shown \cup {"unused", "requested", "closing", "gone"}],
           act' \in [Dialogs -> 0..MaxClones],
           result' \in [Dialogs -> {"none", "Success", "Failed", "null"}],
           page' \in BOOLEAN
    PROVE  /\ TypeOK' /\ Workflow' /\ Completions' /\ Signalled'
           /\ \A v \in Workers : /\ Alive(v)' <=> Alive(v)
                                 /\ Waiting(v)' <=> Waiting(v)
                                 /\ Pending(v)' <=> Pending(v)
<1>1. /\ kind' = kind /\ pc' = pc /\ err' = err /\ posting' = posting
      /\ held' = held /\ owner' = owner /\ callbacks' = callbacks /\ signals' = signals
      /\ running' = running /\ tree' = tree /\ opened' = opened /\ crashes' = crashes
    BY Zenon DEF Touches, platform, disk
<1>2. TypeOK'
    BY <1>1, Zenon DEF IInv, TypeOK
<1>3. Workflow' /\ Completions' /\ Signalled'
    BY <1>1 DEF IInv, Workflow, Completions, Signalled, Posted
<1>4. \A v \in Workers : /\ Alive(v)' <=> Alive(v)
                         /\ Waiting(v)' <=> Waiting(v)
                         /\ Posted(v)' <=> Posted(v)
                         /\ Pending(v)' <=> Pending(v)
    BY <1>1 DEF Alive, Waiting, Posted, Pending
<1> QED
    BY <1>2, <1>3, <1>4

\* A dialog is left with its cancel or its back button.
LEMMA LeaveStep ==
    ASSUME IInv, Touches, Cancelable, isCancel' \in [Workers -> BOOLEAN],
           NEW d \in Dialogs, dlg[d] \in Shown, NEW r, Pop(r),
           \/ r = "Failed" /\ act' = [act EXCEPT ![d] = 0]
           \/ r = "null" /\ act' = act
    PROVE  IInv'
<1>1. /\ kind' = kind /\ pc' = pc /\ held' = held /\ owner' = owner /\ kind = "library"
    BY DEF Touches, Cancelable
<1>2. dlg[d] \in Open /\ r \in {"Failed", "null"}
    BY DEF Open
<1>3. /\ dlg' = [dlg EXCEPT ![d] = "closing"]
      /\ result' = [result EXCEPT ![d] = r]
      /\ page' = page /\ result[d] = "none"
    BY <1>2, PopCloses
<1>4. /\ dlg \in [Dialogs -> Shown \cup {"unused", "requested", "closing", "gone"}]
      /\ result \in [Dialogs -> {"none", "Success", "Failed", "null"}]
      /\ act \in [Dialogs -> 0..MaxClones] /\ MaxClones \in Nat
    BY CloneAssumption DEF IInv, TypeOK
<1>5. /\ dlg' \in [Dialogs -> Shown \cup {"unused", "requested", "closing", "gone"}]
      /\ result' \in [Dialogs -> {"none", "Success", "Failed", "null"}]
      /\ act' \in [Dialogs -> 0..MaxClones]
      /\ dlg'[d] = "closing" /\ result'[d] = r /\ (act'[d] # 0 => r = "null")
      /\ \A f \in Dialogs : f # d => dlg'[f] = dlg[f] /\ result'[f] = result[f] /\ act'[f] = act[f]
      /\ \A f \in Dialogs : act'[f] = act[f] \/ act'[f] = 0
    BY <1>2, <1>3, <1>4
<1>6. /\ TypeOK' /\ Workflow' /\ Completions' /\ Signalled'
      /\ \A v \in Workers : /\ Alive(v)' <=> Alive(v)
                            /\ Waiting(v)' <=> Waiting(v)
                            /\ Pending(v)' <=> Pending(v)
    <2>1. page' \in BOOLEAN
        BY <1>3 DEF IInv, TypeOK
    <2> QED
        BY <1>5, <2>1, TouchTypes
<1>7. Holds' /\ Routes' /\ Owners' /\ Current' /\ OverlapOnlyAfterLeaving'
    <2>1. \A f \in Dialogs : Turns(f)
        BY <1>2, <1>5 DEF Turns
    <2>2. ASSUME NEW f \in Dialogs, act'[f] # 0, NEW v \in Workers, v = act[f]
          PROVE  Pending(v)'
        BY <1>5, <1>6, <2>2 DEF IInv, Holds
    <2>3. ASSUME NEW v \in Workers, Pending(v)', dlg'[owner[v]] \in Open
          PROVE  act'[owner[v]] = v
        <3>1. owner[v] \in Dialogs /\ owner[v] # d
            BY <1>5, <2>3 DEF IInv, TypeOK, Open, Shown
        <3> QED
            BY <1>5, <1>6, <2>3, <3>1 DEF IInv, Current
    <2> QED
        BY <1>1, <1>5, <1>6, <2>1, <2>2, <2>3, DialogsTurn
<1>8. Left'
    BY <1>2, <1>5 DEF Left
<1>9. Undisturbed' /\ EnvIsNotLeft' /\ FrameworkIsWhole'
    BY <1>1, <1>8 DEF Undisturbed, EnvIsNotLeft, FrameworkIsWhole
<1>10. Behind'
    <2>1. \A f \in Dialogs : result[f] = "null" => result'[f] = "null"
        BY <1>3, <1>5
    <2> QED
        BY <1>3, <1>5, <2>1 DEF IInv, Behind, PageKept
<1> QED
    BY <1>6, <1>7, <1>9, <1>10 DEF IInv

\* onCancel, and the back button.
LEMMA CancelAndBackStep ==
    ASSUME IInv, NEW d \in Dialogs, Cancel(d) \/ Back(d), UNCHANGED kind
    PROVE  IInv'
<1>1. CASE Cancel(d)
    <2>1. Touches
        BY <1>1, Zenon DEF Cancel, Touches
    <2>2. isCancel' \in [Workers -> BOOLEAN]
        BY <1>1 DEF Cancel, ItemCancel
    <2> QED
        BY <1>1, <2>1, <2>2, LeaveStep DEF Cancel, ItemCancel
<1>2. CASE Back(d)
    <2>1. Touches /\ isCancel' = isCancel
        BY <1>2, Zenon DEF Back, Touches, worker
    <2> QED
        BY <1>2, <2>1, LeaveStep DEF Back, WillPop, IInv, TypeOK
<1> QED
    BY <1>1, <1>2

\* A frame: the dialog of fetchEnv is shown, or a closed one leaves the screen.
LEMMA FrameStep ==
    ASSUME IInv, Touches, UNCHANGED <<isCancel, act, result, page>>,
           NEW d \in Dialogs, NEW x, dlg' = [dlg EXCEPT ![d] = x],
           \/ dlg[d] = "requested" /\ x = "progress"
           \/ dlg[d] = "closing" /\ x = "gone"
    PROVE  IInv'
<1>1. /\ kind' = kind /\ pc' = pc /\ held' = held /\ owner' = owner /\ err' = err
      /\ tree' = tree /\ opened' = opened /\ crashes' = crashes
      /\ isCancel' = isCancel /\ act' = act /\ result' = result /\ page' = page
    BY Zenon DEF Touches, disk
<1>2. dlg \in [Dialogs -> Shown \cup {"unused", "requested", "closing", "gone"}]
    BY DEF IInv, TypeOK
<1>3. /\ dlg' \in [Dialogs -> Shown \cup {"unused", "requested", "closing", "gone"}]
      /\ dlg'[d] = x
      /\ \A f \in Dialogs : f # d => dlg'[f] = dlg[f]
    BY <1>2 DEF Shown
<1>4. /\ TypeOK' /\ Workflow' /\ Completions' /\ Signalled'
      /\ \A v \in Workers : /\ Alive(v)' <=> Alive(v)
                            /\ Waiting(v)' <=> Waiting(v)
                            /\ Pending(v)' <=> Pending(v)
    BY <1>1, <1>3, TouchTypes DEF IInv, TypeOK
<1>5. \A f \in Dialogs : /\ dlg'[f] \in Open <=> dlg[f] \in Open
                         /\ dlg'[f] \in Shown \cup {"requested", "unused", "closing", "gone"}
                         /\ dlg'[f] = "closing" => dlg[f] = "closing"
    BY <1>3 DEF Open, Shown
<1>6. Holds' /\ Routes' /\ Owners' /\ Current' /\ OverlapOnlyAfterLeaving'
    <2>1. \A f \in Dialogs : Turns(f)
        BY <1>1, <1>3 DEF Turns, Open, Shown
    <2>2. ASSUME NEW f \in Dialogs, act'[f] # 0, NEW v \in Workers, v = act[f]
          PROVE  Pending(v)'
        BY <1>1, <1>4, <2>2 DEF IInv, Holds
    <2>3. ASSUME NEW v \in Workers, Pending(v)', dlg'[owner[v]] \in Open
          PROVE  act'[owner[v]] = v
        <3>1. owner[v] \in Dialogs
            BY DEF IInv, TypeOK
        <3> QED
            BY <1>1, <1>4, <1>5, <2>3, <3>1 DEF IInv, Current
    <2> QED
        BY <1>1, <1>4, <2>1, <2>2, <2>3, DialogsTurn
<1>7. Behind' /\ Undisturbed' /\ EnvIsNotLeft' /\ FrameworkIsWhole'
    <2>1. PageKept'
        BY <1>1 DEF IInv, Behind, PageKept
    <2> QED
        BY <1>1, <1>4, <1>5, <2>1, NoneClosed DEF disk
<1> QED
    BY <1>4, <1>6, <1>7 DEF IInv

\* install has called showDialog; its clone starts with the first frame.
LEMMA InstallRequested ==
    ASSUME IInv, Touches, UNCHANGED <<isCancel, act, result, page>>, kind = "library",
           NEW d \in Dialogs, dlg[d] = "unused", dlg' = [dlg EXCEPT ![d] = "requested"],
           \A e \in Dialogs : dlg[e] \notin Open
    PROVE  IInv'
<1>1. /\ kind' = kind /\ pc' = pc /\ held' = held /\ owner' = owner /\ err' = err
      /\ tree' = tree /\ opened' = opened /\ crashes' = crashes
      /\ isCancel' = isCancel /\ act' = act /\ result' = result /\ page' = page
    BY Zenon DEF Touches, disk
<1>2. dlg \in [Dialogs -> Shown \cup {"unused", "requested", "closing", "gone"}]
    BY DEF IInv, TypeOK
<1>3. /\ dlg' \in [Dialogs -> Shown \cup {"unused", "requested", "closing", "gone"}]
      /\ dlg'[d] = "requested"
      /\ \A f \in Dialogs : f # d => dlg'[f] = dlg[f]
    BY <1>2 DEF Shown
<1>4. /\ TypeOK' /\ Workflow' /\ Completions' /\ Signalled'
      /\ \A v \in Workers : /\ Alive(v)' <=> Alive(v)
                            /\ Waiting(v)' <=> Waiting(v)
                            /\ Pending(v)' <=> Pending(v)
    BY <1>1, <1>3, TouchTypes DEF IInv, TypeOK
<1>5. \A v \in Workers : owner[v] \in Dialogs /\ (Alive(v) \/ Waiting(v) => owner[v] # d)
    BY DEF IInv, TypeOK, Owners
<1>6. \A v \in Workers : Pending(v) => Alive(v) \/ Waiting(v)
    BY DEF Pending, Alive, Posted
<1>7. act[d] = 0 /\ result[d] = "none"
    BY DEF IInv, Holds, Routes
<1>8. Holds'
    <2> SUFFICES ASSUME NEW f \in Dialogs, act'[f] # 0
                 PROVE  /\ held'[act'[f]] /\ owner'[act'[f]] = f /\ pc'[act'[f]] # "unused"
                        /\ Pending(act[f])' /\ dlg'[f] \notin {"unused", "failed"}
        BY DEF Holds
    <2>1. act'[f] = act[f] /\ act[f] \in Workers /\ f # d
        BY <1>1, <1>7, CloneAssumption DEF IInv, TypeOK, Workers
    <2>2. \A v \in Workers : v = act'[f] => Pending(v)'
        BY <1>4, <2>1 DEF IInv, Holds
    <2>3. Pending(act[f])'
        BY <2>1, <2>2 DEF Pending, Waiting, Posted
    <2> QED
        BY <1>1, <1>3, <2>1, <2>3 DEF IInv, Holds
<1>9. Routes' /\ Current'
    <2>1. \A f \in Dialogs : dlg'[f] \in Open => f = d
        BY <1>3
    <2>2. Routes'
        BY <1>1, <1>3, <1>7, <2>1 DEF IInv, Routes
    <2> QED
        BY <1>1, <1>4, <1>5, <1>6, <2>1, <2>2 DEF Current
<1>10. Owners' /\ OverlapOnlyAfterLeaving'
    BY <1>1, <1>3, <1>4, <1>5 DEF IInv, Owners, OverlapOnlyAfterLeaving
<1>11. Behind' /\ EnvIsNotLeft' /\ FrameworkIsWhole'
    BY <1>1, <1>3 DEF IInv, Behind, PageKept, EnvIsNotLeft, FrameworkIsWhole
<1>12. Undisturbed'
    <2>1. Left' <=> Left
        BY <1>1 DEF Left
    <2>2. ~Left => \A v \in Workers : ~Pending(v)
        BY <1>5 DEF IInv, Undisturbed
    <2> QED
        BY <1>1, <1>4, <2>1, <2>2 DEF IInv, Undisturbed
<1> QED
    BY <1>4, <1>8, <1>9, <1>10, <1>11, <1>12 DEF IInv

\* GitItem.start, from wherever it is called: no other dialog is open, and of
\* the workers of this one none is still to come back.
Starts(w, d, x) ==
    /\ pc[w] = "unused" /\ \A v \in Workers : v < w => pc[v] # "unused"
    /\ \E garbage \in Garbage : StartTask(w, d, garbage)
    /\ dlg' = [dlg EXCEPT ![d] = x]
    /\ result[d] = "none" /\ x \in {"requested", "progress"} /\ (kind = "library" => x = "progress")
    /\ \A e \in Dialogs : e # d => dlg[e] \notin Open
    /\ \A v \in Workers : /\ Pending(v) => owner[v] # d
                          /\ Alive(v) /\ owner[v] = d => pc[v] = "ending"
    /\ UNCHANGED <<kind, err, posting, platform, result, page, disk, crashes>>

\* The new worker is the one of the open dialog; older ones that are still at
\* work were left.
LEMMA StartsStep ==
    ASSUME IInv, NEW w \in Workers, NEW d \in Dialogs, NEW x, Starts(w, d, x)
    PROVE  IInv'
<1>1. /\ kind' = kind /\ err' = err /\ posting' = posting /\ callbacks' = callbacks
      /\ signals' = signals /\ running' = running /\ result' = result /\ page' = page
      /\ tree' = tree /\ opened' = opened /\ crashes' = crashes
    BY Zenon DEF Starts, platform, disk
<1>2. PICK garbage \in Garbage : StartTask(w, d, garbage)
    BY DEF Starts
<1>3. /\ pc' = [pc EXCEPT ![w] = "remove"] /\ isCancel' = [isCancel EXCEPT ![w] = garbage]
      /\ held' = [held EXCEPT ![w] = TRUE] /\ owner' = [owner EXCEPT ![w] = d]
      /\ act' = [act EXCEPT ![d] = w] /\ dlg' = [dlg EXCEPT ![d] = x]
    BY <1>2 DEF StartTask, Starts
<1>4. /\ pc[w] = "unused" /\ \A v \in Workers : v < w => pc[v] # "unused"
      /\ result[d] = "none" /\ x \in {"requested", "progress"} /\ (kind = "library" => x = "progress")
      /\ \A e \in Dialogs : e # d => dlg[e] \notin Open
      /\ \A v \in Workers : /\ Pending(v) => owner[v] # d
                            /\ Alive(v) /\ owner[v] = d => pc[v] = "ending"
    BY DEF Starts
<1>5. garbage \in BOOLEAN /\ w \in 1..MaxClones /\ MaxClones \in Nat
    BY CloneAssumption DEF Workers
<1>6. TypeOK'
    <2>1. pc' \in [Workers -> {"unused", "remove", "clone", "fetch", "checkout",
                               "fastforward", "ending", "done"}]
        BY <1>3 DEF IInv, TypeOK
    <2>2. isCancel' \in [Workers -> BOOLEAN] /\ held' \in [Workers -> BOOLEAN]
        BY <1>3, <1>5 DEF IInv, TypeOK
    <2>3. owner' \in [Workers -> Dialogs] /\ act' \in [Dialogs -> 0..MaxClones]
        BY <1>3, <1>5 DEF IInv, TypeOK
    <2>4. dlg' \in [Dialogs -> Shown \cup {"unused", "requested", "closing", "gone"}]
        BY <1>3, <1>4 DEF IInv, TypeOK, Shown
    <2> QED
        BY <1>1, <2>1, <2>2, <2>3, <2>4, Zenon DEF IInv, TypeOK
<1>7. /\ pc'[w] = "remove" /\ held'[w] /\ owner'[w] = d /\ act'[d] = w /\ dlg'[d] = x
      /\ \A v \in Workers : v # w => pc'[v] = pc[v] /\ held'[v] = held[v] /\ owner'[v] = owner[v]
      /\ \A e \in Dialogs : e # d => act'[e] = act[e] /\ dlg'[e] = dlg[e]
    BY <1>3 DEF IInv, TypeOK
<1>8. \A v \in Workers : /\ Posted(v)' <=> Posted(v)
                         /\ Waiting(v)' <=> Waiting(v)
                         /\ Alive(v)' <=> Alive(v) \/ v = w
    BY <1>1, <1>4, <1>7 DEF Posted, Waiting, Alive
<1>9. \A v \in Workers : Pending(v)' <=> Pending(v) \/ v = w
    BY <1>4, <1>7, <1>8 DEF Pending, Posted
<1>10. \A v \in Workers : owner[v] \in Dialogs
    BY DEF IInv, TypeOK
<1>11. Workflow'
    <2>1. \A v, u \in Workers : v < u /\ pc'[v] = "unused" => pc'[u] = "unused"
        <3> SUFFICES ASSUME NEW v \in Workers, NEW u \in Workers, v < u, pc'[v] = "unused"
                     PROVE  pc'[u] = "unused"
            OBVIOUS
        <3>1. v # w /\ pc[v] = "unused" /\ ~(v < w)
            BY <1>4, <1>7
        <3>2. u # w
            BY <3>1
        <3> QED
            BY <1>7, <3>1, <3>2 DEF IInv, Workflow
    <2>2. \A v \in Workers : posting'[v] # "no" => pc'[v] \in {"fetch", "checkout", "ending"}
        BY <1>1, <1>4, <1>7 DEF IInv, Workflow
    <2> QED
        BY <2>1, <2>2 DEF Workflow
<1>12. Completions' /\ Signalled'
    <2>1. \A i \in 1..Len(callbacks) : callbacks[i].w \in Workers
        BY EntryTypes DEF IInv
    <2> QED
        BY <1>1, <1>8, <2>1 DEF IInv, Completions, Signalled
<1>13. \A e \in Dialogs : dlg'[e] \in Open <=> e = d
    BY <1>4, <1>7 DEF Open, Shown
<1>14. Holds'
    <2> SUFFICES ASSUME NEW e \in Dialogs, act'[e] # 0
                 PROVE  /\ held'[act'[e]] /\ owner'[act'[e]] = e /\ pc'[act'[e]] # "unused"
                        /\ Pending(act[e])' /\ dlg'[e] \notin {"unused", "failed"}
        BY DEF Holds
    <2>1. CASE e = d
        <3>1. \A v \in Workers : v = act'[d] => Pending(v)'
            BY <1>7, <1>9
        <3>2. Pending(act[d])'
            BY <1>7, <3>1 DEF Pending, Waiting, Posted
        <3> QED
            BY <1>4, <1>7, <2>1, <3>2
    <2>2. CASE e # d
        <3>1. act'[e] = act[e] /\ act[e] \in Workers
            BY <1>7, <2>2, CloneAssumption DEF IInv, TypeOK, Workers
        <3>2. act[e] # w
            BY <1>4, <3>1 DEF IInv, Holds
        <3>3. \A v \in Workers : v = act'[e] => Pending(v)'
            BY <1>9, <3>1 DEF IInv, Holds
        <3>4. Pending(act[e])'
            BY <3>1, <3>3 DEF Pending, Waiting, Posted
        <3> QED
            BY <1>7, <2>2, <3>1, <3>2, <3>4 DEF IInv, Holds
    <2> QED
        BY <2>1, <2>2
<1>15. Routes'
    <2>1. \A e \in Dialogs : dlg'[e] = "unused" => result[e] = "none"
        BY <1>4, <1>7 DEF IInv, Routes
    <2> QED
        BY <1>1, <1>4, <1>13, <2>1 DEF Routes
<1>16. Owners'
    <2> SUFFICES ASSUME NEW v \in Workers, Alive(v)' \/ Waiting(v)'
                 PROVE  /\ dlg'[owner'[v]] # "unused"
                        /\ kind' = "library" => dlg'[owner'[v]] # "requested"
                        /\ Alive(v)' /\ dlg'[owner'[v]] \notin Open => result'[owner'[v]] # "none"
        BY DEF Owners
    <2>1. CASE owner'[v] = d
        BY <1>1, <1>4, <1>7, <1>13, <2>1
    <2>2. CASE owner'[v] # d
        <3>1. v # w /\ owner'[v] = owner[v] /\ owner[v] # d
            BY <1>7, <2>2
        <3> QED
            BY <1>1, <1>7, <1>8, <1>10, <3>1 DEF IInv, Owners
    <2> QED
        BY <2>1, <2>2
<1>17. Current'
    BY <1>4, <1>7, <1>9, <1>10, <1>13 DEF Current
<1>18. OverlapOnlyAfterLeaving'
    <2> SUFFICES ASSUME NEW v \in Workers, NEW u \in Workers, v < u, Alive(v)', Alive(u)',
                        pc'[v] # "ending"
                 PROVE  /\ result'[owner'[v]] \in {"Failed", "null", "Success"}
                        /\ owner'[v] # owner'[u]
        BY DEF OverlapOnlyAfterLeaving
    <2>1. v # w
        BY <1>4, <1>8 DEF IInv, Workflow, Alive
    <2>2. Alive(v) /\ pc[v] # "ending" /\ owner'[v] = owner[v]
        BY <1>7, <1>8, <2>1
    <2>3. CASE u = w
        <3>1. owner[v] # d /\ dlg[owner[v]] \notin Open
            BY <1>4, <1>10, <2>2
        <3>2. result[owner[v]] # "none"
            BY <2>2, <3>1 DEF IInv, Owners
        <3>3. result[owner[v]] \in {"Failed", "null", "Success"}
            BY <1>10, <3>2 DEF IInv, TypeOK
        <3> QED
            BY <1>1, <1>7, <2>2, <2>3, <3>1, <3>3
    <2>4. CASE u # w
        <3>1. Alive(u) /\ owner'[u] = owner[u]
            BY <1>7, <1>8, <2>4
        <3> QED
            BY <1>1, <2>2, <3>1 DEF IInv, OverlapOnlyAfterLeaving
    <2> QED
        BY <2>3, <2>4
<1>19. Behind' /\ EnvIsNotLeft'
    BY <1>1, <1>4, <1>7 DEF IInv, Behind, PageKept, EnvIsNotLeft, Left
<1>20. Undisturbed'
    <2>1. Left' <=> Left
        BY <1>1 DEF Left
    <2>2. ~Left => \A v \in Workers : ~Pending(v)
        BY <1>4, <1>10 DEF IInv, Undisturbed
    <2>3. AsFarAs(w)'
        BY <1>7 DEF AsFarAs
    <2> QED
        BY <1>1, <1>7, <1>9, <1>13, <2>1, <2>2, <2>3 DEF IInv, Undisturbed
<1>21. FrameworkIsWhole'
    BY <1>4, <1>7 DEF FrameworkIsWhole
<1> QED
    BY <1>6, <1>11, <1>12, <1>14, <1>15, <1>16, <1>17, <1>18, <1>19, <1>20, <1>21 DEF IInv

\* showDialog, the first frame and onRetry.
LEMMA ShowStep ==
    ASSUME IInv, NEW d \in Dialogs, Request(d) \/ Build(d) \/ Retry(d), UNCHANGED kind
    PROVE  IInv'
<1>1. \A v \in Workers : Pending(v) => Alive(v) \/ Waiting(v)
    BY DEF Pending, Alive, Posted
<1>2. \A v \in Workers : Alive(v) /\ ~Pending(v) => pc[v] = "ending"
    BY DEF Pending, Alive, Posted
<1>3. CASE Request(d)
    <2>1. /\ dlg[d] = "unused" /\ dlg' = [dlg EXCEPT ![d] = "requested"]
          /\ \A e \in Dialogs : dlg[e] \notin Open
          /\ UNCHANGED <<err, posting, platform, result, page, disk, crashes>>
        BY <1>3 DEF Request, Open
    <2>2. result[d] = "none" /\ \A v \in Workers : Alive(v) \/ Waiting(v) => owner[v] # d
        BY <2>1 DEF IInv, Routes, Owners
    <2>3. CASE kind = "env"
        <3>1. PICK w \in Workers, garbage \in Garbage :
                      /\ pc[w] = "unused"
                      /\ \A v \in Workers : v < w => pc[v] # "unused"
                      /\ StartTask(w, d, garbage)
            BY <1>3, <2>3 DEF Request, StartItem
        <3>2. Starts(w, d, "requested")
            BY <1>1, <2>1, <2>2, <2>3, <3>1 DEF Starts
        <3> QED
            BY <3>2, StartsStep
    <2>4. CASE kind # "env"
        <3>1. kind = "library" /\ Touches /\ UNCHANGED <<isCancel, act, result, page>>
            BY <1>3, <2>4, CloneAssumption DEF Request, Touches, IInv, TypeOK
        <3> QED
            BY <2>1, <3>1, InstallRequested
    <2> QED
        BY <2>3, <2>4
<1>4. CASE Build(d)
    <2>1. /\ dlg[d] = "requested" /\ dlg' = [dlg EXCEPT ![d] = "progress"]
          /\ UNCHANGED <<err, posting, platform, result, page, disk, crashes>>
        BY <1>4 DEF Build
    <2>2. /\ dlg[d] \in Open /\ result[d] = "none"
          /\ \A e \in Dialogs : e # d => dlg[e] \notin Open
        BY <2>1 DEF IInv, Routes, Open
    <2>3. CASE kind = "library"
        <3>1. PICK w \in Workers, garbage \in Garbage :
                      /\ pc[w] = "unused"
                      /\ \A v \in Workers : v < w => pc[v] # "unused"
                      /\ StartTask(w, d, garbage)
            BY <1>4, <2>3 DEF Build, StartItem
        <3>2. \A v \in Workers : Alive(v) \/ Waiting(v) => owner[v] # d
            BY <2>1, <2>3 DEF IInv, Owners
        <3>3. Starts(w, d, "progress")
            BY <1>1, <2>1, <2>2, <3>1, <3>2 DEF Starts
        <3> QED
            BY <3>3, StartsStep
    <2>4. CASE kind # "library"
        <3>1. Touches /\ UNCHANGED <<isCancel, act, result, page>>
            BY <1>4, <2>4 DEF Build, Touches
        <3> QED
            BY <2>1, <3>1, FrameStep
    <2> QED
        BY <2>3, <2>4
<1>5. CASE Retry(d)
    <2>1. /\ dlg[d] = "failed" /\ dlg' = [dlg EXCEPT ![d] = "progress"]
          /\ UNCHANGED <<err, posting, platform, result, page, disk, crashes>>
        BY <1>5 DEF Retry, RetryButton
    <2>2. /\ dlg[d] \in Open /\ result[d] = "none"
          /\ \A e \in Dialogs : e # d => dlg[e] \notin Open
        BY <2>1 DEF IInv, Routes, Open, Shown
    <2>3. \A v \in Workers : Pending(v) => owner[v] # d
        <3>1. act[d] = 0
            BY <2>1 DEF IInv, Holds
        <3>2. \A v \in Workers : v # 0
            BY CloneAssumption DEF Workers
        <3> QED
            BY <2>2, <3>1, <3>2 DEF IInv, Current
    <2>4. PICK w \in Workers, garbage \in Garbage :
                  /\ pc[w] = "unused"
                  /\ \A v \in Workers : v < w => pc[v] # "unused"
                  /\ StartTask(w, d, garbage)
        BY <1>5 DEF Retry, StartItem
    <2>5. Starts(w, d, "progress")
        BY <1>2, <2>1, <2>2, <2>3, <2>4 DEF Starts
    <2> QED
        BY <2>5, StartsStep
<1> QED
    BY <1>3, <1>4, <1>5

\* The route of a closed dialog leaves the screen.
LEMMA UnmountStep ==
    ASSUME IInv, NEW d \in Dialogs, Unmount(d), UNCHANGED kind
    PROVE  IInv'
<1>1. Touches /\ UNCHANGED <<isCancel, act, result, page>>
    BY Zenon DEF Unmount, Touches, worker
<1>2. dlg[d] = "closing" /\ dlg' = [dlg EXCEPT ![d] = "gone"]
    BY DEF Unmount
<1> QED
    BY <1>1, <1>2, FrameStep

-----------------------------------------------------------------------------
(***************************************************************************)
(* The program.                                                            *)
(***************************************************************************)

\* The program dies and comes up again: nothing of the workers and the dialogs is
\* left, and the directory is taken as it was found.
LEMMA CrashStep ==
    ASSUME IInv, Crash, UNCHANGED kind
    PROVE  IInv'
<1>1. /\ kind' = kind /\ isCancel' = isCancel /\ err' = err /\ owner' = owner
      /\ result' = result /\ tree' = tree /\ page' = TRUE /\ crashes' = crashes + 1
      /\ callbacks' = <<>> /\ signals' = 0 /\ running' = -1
    BY DEF Crash
<1>2. /\ pc' = [w \in Workers |-> IF pc[w] = "unused" THEN "unused" ELSE "done"]
      /\ posting' = [w \in Workers |-> "no"]
      /\ held' = [w \in Workers |-> FALSE]
      /\ dlg' = [d \in Dialogs |-> IF dlg[d] = "unused" THEN "unused" ELSE "gone"]
      /\ act' = [d \in Dialogs |-> 0]
    BY DEF Crash
<1>3. /\ opened' \in BOOLEAN
      /\ tree.st = "none" => opened' = FALSE
    BY DEF Crash
<1>4. MaxClones \in Nat /\ Len(callbacks') = 0
    BY <1>1, CloneAssumption
<1>5. TypeOK'
    <2>1. crashes' \in 0..MaxCrashes[kind]
        BY <1>1, CloneAssumption DEF Crash, IInv, TypeOK
    <2>2. /\ pc' \in [Workers -> {"unused", "remove", "clone", "fetch", "checkout",
                                  "fastforward", "ending", "done"}]
          /\ posting' \in [Workers -> {"no", "push", "signal"}] /\ held' \in [Workers -> BOOLEAN]
        BY <1>2
    <2>3. /\ dlg' \in [Dialogs -> Shown \cup {"unused", "requested", "closing", "gone"}]
          /\ act' \in [Dialogs -> 0..MaxClones] /\ page' \in BOOLEAN
        BY <1>1, <1>2, <1>4
    <2>4. /\ callbacks' \in Seq([w : Workers, end : BOOLEAN])
          /\ signals' \in Nat /\ running' \in -1..Len(callbacks')
        BY <1>1, <1>4
    <2> QED
        BY <1>1, <1>3, <2>1, <2>2, <2>3, <2>4, Zenon DEF IInv, TypeOK
<1>6. \A v \in Workers : /\ pc'[v] \in {"unused", "done"} /\ posting'[v] = "no"
                         /\ pc'[v] = "unused" <=> pc[v] = "unused"
    BY <1>2
<1>7. \A v \in Workers : ~Alive(v)' /\ ~Waiting(v)' /\ ~Pending(v)'
    BY <1>4, <1>6 DEF Alive, Waiting, Pending, Posted
<1>8. \A d \in Dialogs : /\ act'[d] = 0 /\ dlg'[d] \in {"unused", "gone"}
                         /\ dlg'[d] = "unused" => dlg[d] = "unused"
    BY <1>2
<1>9. Workflow'
    BY <1>6 DEF IInv, Workflow
<1>10. Completions' /\ Signalled'
    BY <1>1, <1>4 DEF Completions, Signalled
<1>11. Holds' /\ Owners' /\ Current' /\ OverlapOnlyAfterLeaving'
    BY <1>7, <1>8 DEF Holds, Owners, Current, OverlapOnlyAfterLeaving
<1>12. Routes' /\ Behind'
    BY <1>1, <1>8 DEF IInv, Routes, Behind, PageKept, Open, Shown
<1>13. Left' <=> Left
    BY <1>1 DEF Left
<1>14. Undisturbed' /\ EnvIsNotLeft'
    BY <1>1, <1>7, <1>13 DEF IInv, Undisturbed, EnvIsNotLeft
<1>15. FrameworkIsWhole'
    <2>1. crashes \in Nat /\ tree.st \in {"none", "partial", "whole", "mixed"}
        BY CloneAssumption DEF IInv, TypeOK
    <2>2. kind = "env" => tree.st # "mixed"
        BY DEF IInv, EnvIsNotLeft, Undisturbed
    <2> QED
        BY <1>1, <1>3, <2>1, <2>2 DEF FrameworkIsWhole
<1> QED
    BY <1>5, <1>9, <1>10, <1>11, <1>12, <1>14, <1>15 DEF IInv

\* Nothing has been cloned.
LEMMA InitInv ==
    ASSUME Init
    PROVE  IInv
<1>1. MaxClones \in Nat /\ 1 \in Dialogs /\ MaxCrashes[kind] \in Nat /\ Len(<<>>) = 0
    BY CloneAssumption DEF Init, Dialogs
<1>2. TypeOK
    <2>1. /\ kind \in Kinds /\ signals \in Nat /\ callbacks \in Seq([w : Workers, end : BOOLEAN])
          /\ running \in -1..Len(callbacks) /\ crashes \in 0..MaxCrashes[kind]
          /\ tree \in [st : {"none", "partial", "whole", "mixed"}, by : 0..MaxClones]
        BY <1>1 DEF Init, NoTree
    <2>2. /\ pc \in [Workers -> {"unused", "remove", "clone", "fetch", "checkout",
                                 "fastforward", "ending", "done"}]
          /\ posting \in [Workers -> {"no", "push", "signal"}]
          /\ owner \in [Workers -> Dialogs] /\ act \in [Dialogs -> 0..MaxClones]
          /\ dlg \in [Dialogs -> Shown \cup {"unused", "requested", "closing", "gone"}]
          /\ result \in [Dialogs -> {"none", "Success", "Failed", "null"}]
        BY <1>1 DEF Init
    <2>3. /\ isCancel \in [Workers -> BOOLEAN] /\ err \in [Workers -> BOOLEAN]
          /\ held \in [Workers -> BOOLEAN] /\ page \in BOOLEAN /\ opened \in BOOLEAN
        BY DEF Init
    <2> QED
        BY <2>1, <2>2, <2>3, Zenon DEF TypeOK
<1>3. \A v \in Workers : ~Alive(v) /\ ~Waiting(v) /\ ~Pending(v)
    BY <1>1 DEF Init, Alive, Waiting, Pending
<1>4. ~Left
    BY DEF Init, Left
<1>5. Workflow /\ Completions /\ Signalled
    BY <1>1 DEF Init, Workflow, Completions, Signalled
<1>6. Holds /\ Owners /\ Current /\ OverlapOnlyAfterLeaving
    BY <1>3 DEF Init, Holds, Owners, Current, OverlapOnlyAfterLeaving
<1>7. Routes /\ Behind
    BY DEF Init, Routes, Behind, PageKept, Open, Shown
<1>8. Undisturbed /\ EnvIsNotLeft /\ FrameworkIsWhole
    BY <1>3, <1>4 DEF Init, Undisturbed, EnvIsNotLeft, FrameworkIsWhole, NoTree
<1> QED
    BY <1>2, <1>5, <1>6, <1>7, <1>8 DEF IInv

\* Every step of Next.
LEMMA NextInv ==
    ASSUME IInv, Next
    PROVE  IInv'
<1>1. UNCHANGED kind
    BY DEF Next
<1>2. ASSUME NEW w \in Workers, WorkerStep(w) \/ TransferEnds(w) \/ Progress(w) \/ Sweep(w)
      PROVE  IInv'
    <2>1. CASE DoOnMainThread(w)
        BY <1>1, <2>1, AppendStep, SendStep DEF DoOnMainThread
    <2>2. CASE GitFails(w)
        BY <1>1, <2>2, CloneFailsStep DEF GitFails
    <2> QED
        BY <1>1, <1>2, <2>1, <2>2, RemoveFileStep, GitCloneStep, FastForwardStep, FinishStep,
           FetchedStep, CheckedOutStep, ProgressStep, SweepStep DEF WorkerStep, TransferEnds
<1>3. ASSUME NEW d \in Dialogs,
             Request(d) \/ Build(d) \/ Cancel(d) \/ Back(d) \/ Retry(d) \/ Unmount(d)
      PROVE  IInv'
    BY <1>1, <1>3, ShowStep, CancelAndBackStep, UnmountStep
<1> QED
    BY <1>1, <1>2, <1>3, SignalStep, CrashStep DEF Next

\* Nothing changes.
LEMMA StutterInv ==
    ASSUME IInv, UNCHANGED vars
    PROVE  IInv'
<1>1. /\ kind' = kind /\ pc' = pc /\ isCancel' = isCancel /\ err' = err /\ posting' = posting
      /\ held' = held /\ owner' = owner /\ callbacks' = callbacks /\ signals' = signals
      /\ running' = running /\ dlg' = dlg /\ act' = act /\ result' = result /\ page' = page
      /\ tree' = tree /\ opened' = opened /\ crashes' = crashes
    BY Zenon DEF vars, worker, platform, ui, disk
<1>2. TypeOK'
    BY <1>1, Zenon DEF IInv, TypeOK
<1>3. \A v \in Workers : /\ Posted(v)' <=> Posted(v)
                         /\ Alive(v)' <=> Alive(v)
                         /\ Waiting(v)' <=> Waiting(v)
                         /\ Pending(v)' <=> Pending(v)
    BY <1>1 DEF Posted, Alive, Waiting, Pending
<1>4. Workflow' /\ Completions' /\ Signalled'
    BY <1>1 DEF IInv, Workflow, Completions, Signalled, Posted
<1>5. /\ Holds' /\ Routes' /\ Owners' /\ Current' /\ OverlapOnlyAfterLeaving'
      /\ Behind' /\ EnvIsNotLeft'
    BY <1>1, <1>3, HeldActions, UiQuiet DEF ui
<1>6. Undisturbed' /\ FrameworkIsWhole'
    BY <1>1, <1>3, DiskQuiet DEF ui, disk
<1> QED
    BY <1>2, <1>4, <1>5, <1>6 DEF IInv

\* The inductive invariant of the clones holds in every reachable state.
THEOREM Invariance == Spec => []IInv
<1>1. IInv /\ [Next]_vars => IInv'
    BY NextInv, StutterInv
<1> QED
    BY <1>1, InitInv, PTL DEF Spec

\* Every variable of the clones keeps its type.
THEOREM TypeCorrect == Spec => []TypeOK
<1>1. IInv => TypeOK
    BY DEF IInv
<1> QED
    BY <1>1, Invariance, PTL

\* No callback is left in Platform's list without a signal, and an item that holds
\* an action will hear from it, however the workers, the signals and the user
\* interleave.
THEOREM CallbacksArrive == Spec => []NoCallbackLost
<1>1. IInv => NoCallbackLost
    <2> SUFFICES ASSUME IInv, NEW d \in Dialogs, act[d] # 0, ~Alive(act[d])
                 PROVE  \E i \in DOMAIN callbacks :
                           i > running /\ callbacks[i] = [w |-> act[d], end |-> TRUE]
        BY DEF NoCallbackLost, IInv, Signalled
    <2>1. Waiting(act[d])
        BY DEF IInv, Holds, Pending, Alive, Posted
    <2>2. PICK i \in 1..Len(callbacks) :
                  i > running /\ callbacks[i].w = act[d] /\ callbacks[i].end
        BY <2>1 DEF Waiting
    <2>3. callbacks[i] \in [w : Workers, end : BOOLEAN]
        BY ElementOfSeq, Zenon DEF IInv, TypeOK
    <2>4. callbacks[i] = [w |-> act[d], end |-> TRUE]
        BY <2>2, <2>3
    <2>5. i \in DOMAIN callbacks
        BY EntryTypes DEF IInv
    <2> QED
        BY <2>2, <2>4, <2>5
<1> QED
    BY <1>1, Invariance, PTL

\* Two workers meet in the directory only when the dialog of the earlier one was
\* closed before that worker had ended, for any number of clones and dialogs.
THEOREM OverlapNeedsLeaving == Spec => []OverlapOnlyAfterLeaving
<1>1. IInv => OverlapOnlyAfterLeaving
    BY DEF IInv
<1> QED
    BY <1>1, Invariance, PTL

\* A completion pops the page below the dialogs only after the back button.
THEOREM PageStays == Spec => []PageKept
<1>1. IInv => PageKept
    BY DEF IInv, Behind
<1> QED
    BY <1>1, Invariance, PTL

\* When fetchEnv lets the start-up go on with an open repository, the framework
\* is whole, or the program died over its clone.
THEOREM StartsOnWholeFramework == Spec => []FrameworkIsWhole
<1>1. IInv => FrameworkIsWhole
    BY DEF IInv
<1> QED
    BY <1>1, Invariance, PTL

\* Only the completion of a clone closes a dialog with Success, and then the
\* directory is whole or some dialog was left before.
LEMMA OnlyCompletions ==
    ASSUME IInv, Next, NEW d \in Dialogs, result[d] = "none", result'[d] = "Success"
    PROVE  Left \/ tree.st = "whole"
<1>1. result' # result
    OBVIOUS
<1>2. ASSUME NEW w \in Workers, WorkerStep(w) \/ TransferEnds(w) \/ Progress(w) \/ Sweep(w)
      PROVE  FALSE
    BY <1>1, <1>2 DEF WorkerStep, TransferEnds, RemoveFile, GitClone, FastForward, Finish,
          DoOnMainThread, Fetched, CheckedOut, GitFails, Progress, CloneFails, Sweep, ui
<1>3. ASSUME NEW e \in Dialogs,
             Request(e) \/ Build(e) \/ Cancel(e) \/ Back(e) \/ Retry(e) \/ Unmount(e)
      PROVE  FALSE
    <2>1. CASE Request(e) \/ Build(e) \/ Retry(e) \/ Unmount(e)
        BY <1>1, <2>1 DEF Request, Build, Retry, Unmount
    <2>2. ASSUME NEW r, Pop(r), r # "Success", dlg[e] \in Shown
          PROVE  FALSE
        <3>1. result' = [result EXCEPT ![e] = r]
            BY <2>2, PopCloses DEF Open
        <3> QED
            BY <2>2, <3>1 DEF IInv, TypeOK
    <2> QED
        BY <1>3, <2>1, <2>2 DEF Cancel, Back, WillPop
<1>4. CASE Crash
    BY <1>1, <1>4 DEF Crash
<1>5. CASE Signal
    <2>1. CASE UNCHANGED ui
        BY <1>1, <2>1 DEF ui
    <2>2. CASE ~UNCHANGED ui
        <3> DEFINE c == callbacks[running + 1]
        <3>1. /\ running >= 0 /\ running < Len(callbacks) /\ running' = running + 1
              /\ c.end /\ OnComplete(owner[c.w])
              /\ UNCHANGED <<callbacks, signals>>
            BY <1>5, <2>2 DEF Signal, OnSignal
        <3>2. Runs
            BY <1>5, <3>1 DEF Runs, Signal, Next
        <3>3. act[owner[c.w]] # 0 /\ ~err[act[owner[c.w]]]
            BY <1>1, <2>2, <3>1 DEF OnComplete, ItemFail
        <3> QED
            BY <3>1, <3>2, <3>3, WholeUnlessLeft
    <2> QED
        BY <2>1, <2>2
<1> QED
    BY <1>2, <1>3, <1>4, <1>5 DEF Next

\* A dialog is closed with Success over a whole directory, unless some dialog was
\* left before.
THEOREM SuccessOverWhole == Spec => SuccessIsWhole
<1> DEFINE Closed == \A d \in Dialogs : result[d] = "none" /\ result'[d] = "Success"
                        => tree.st = "whole" \/ \E e \in Dialogs : result[e] \in {"Failed", "null"}
<1>1. IInv /\ [Next]_vars => [Closed]_vars
    <2> SUFFICES ASSUME IInv, Next PROVE Closed
        OBVIOUS
    <2> QED
        BY OnlyCompletions DEF Left
<1>2. Spec => [][Closed]_vars
    BY <1>1, Invariance, PTL DEF Spec
<1> QED
    BY <1>2 DEF SuccessIsWhole
=============================================================================
