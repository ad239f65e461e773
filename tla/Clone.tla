------------------------------- MODULE Clone --------------------------------
(***************************************************************************)
(* Cloning a repository into its directory: GitRepository::cloneFromRemote *)
(* and its GitTask thread, the callback list of Platform through which a   *)
(* worker reaches the main thread, and the GitItem and ProgressDialog that *)
(* follow the clone on the Dart side.                                      *)
(*                                                                         *)
(* Two callers are modelled, by kind.  "env" is fetchEnv of main.dart: the *)
(* clone starts before its dialog is built and cannot be cancelled.        *)
(* "library" is install of libraries.dart: the clone starts when the       *)
(* dialog is built and can be cancelled.  Both clone into one directory.   *)
(*                                                                         *)
(* Everything on the Dart side, and the callbacks, run on the main thread, *)
(* one event at a time; the workers run beside it.                         *)
(***************************************************************************)
EXTENDS Integers, Sequences, FiniteSets

CONSTANTS Kinds,        \* the callers, of "env" and "library"
          MaxClones,    \* bound on the workers started
          MaxDialogs,   \* bound on the dialogs shown
          MaxQueue,     \* bound on the callbacks and signals waiting, for
                        \* progress reports
          MaxCrashes,   \* bound on the deaths of the program, for each caller
          Garbage       \* what the uninitialised is_cancel may hold

ASSUME CloneAssumption == /\ Kinds \subseteq {"env", "library"}
                          /\ MaxClones \in Nat /\ MaxDialogs \in Nat \ {0} /\ MaxQueue \in Nat
                          /\ MaxCrashes \in [Kinds -> Nat]
                          /\ Garbage \subseteq BOOLEAN /\ Garbage # {}

VARIABLES kind,         \* the caller
          pc,           \* where each worker is in GitTask::main
          isCancel,     \* GitTask::is_cancel
          err,          \* GitAction::error is set
          posting,      \* where each worker is in Platform::doOnMainThread
          held,         \* the Dart GitAction of the worker is not destroyed
          owner,        \* the dialog whose GitItem started the worker
          callbacks,    \* Platform::callbacks
          signals,      \* signals sent and not yet handled
          running,      \* callbacks run by the onSignal under way, -1 if none
          dlg,          \* each dialog: its route and the status it shows
          act,          \* GitItem.action of each dialog, 0 for null
          result,       \* what showDialog's future has been completed with
          page,         \* the page below the dialog is still there
          tree,         \* the directory: [st, by], by the worker that made it
          opened,       \* GitRepository::repo is not null
          crashes       \* deaths so far

worker == <<pc, isCancel, err, posting>>
platform == <<callbacks, signals, running>>
ui == <<dlg, act, result, page>>
disk == <<tree, opened>>
vars == <<kind, worker, held, owner, platform, ui, disk, crashes>>

Workers == 1..MaxClones
Dialogs == 1..MaxDialogs
Cancelable == kind = "library"

Alive(w) == pc[w] \notin {"unused", "done"}
Shown == {"progress", "failed"}       \* built, and its route on top
NoTree == [st |-> "none", by |-> 0]

\* The native GitAction lives while Dart, a waiting callback or the worker
\* posting one refers to it.
ActionAlive(w) == \/ held[w]
                  \/ posting[w] # "no"
                  \/ \E i \in DOMAIN callbacks : callbacks[i].w = w

-----------------------------------------------------------------------------
(***************************************************************************)
(* The worker.                                                             *)
(***************************************************************************)

\* new GitTask: the constructor leaves is_cancel as the memory was.
StartTask(w, d, garbage) ==
    /\ pc' = [pc EXCEPT ![w] = "remove"]
    /\ isCancel' = [isCancel EXCEPT ![w] = garbage]
    /\ held' = [held EXCEPT ![w] = TRUE]
    /\ owner' = [owner EXCEPT ![w] = d]
    /\ act' = [act EXCEPT ![d] = w]

\* What a worker does to a directory that another one made since leaves
\* neither's content.
Touch(w, st) == IF tree.by = w THEN [tree EXCEPT !.st = st]
                ELSE [st |-> "mixed", by |-> tree.by]

\* The func has returned, with git's error message or without.
Ends(w, e) == /\ pc' = [pc EXCEPT ![w] = "ending"]
              /\ err' = [err EXCEPT ![w] = e]

\* git_clone removes what it made when it fails (external).
CloneFails(w) == /\ Ends(w, TRUE)
                 /\ tree' = IF tree.by = w THEN NoTree ELSE Touch(w, "mixed")
                 /\ UNCHANGED <<isCancel, posting, held, owner, platform, ui, opened, crashes>>

\* cloneFromRemote: removeFile if the path is there.
RemoveFile(w) == /\ pc[w] = "remove"
                 /\ pc' = [pc EXCEPT ![w] = "clone"]
                 /\ tree' = NoTree
                 /\ UNCHANGED <<isCancel, err, posting, held, owner, platform, ui, opened, crashes>>

\* git_clone refuses a directory that is not empty (external).
GitClone(w) ==
    /\ pc[w] = "clone"
    /\ \/ /\ tree = NoTree
          /\ pc' = [pc EXCEPT ![w] = "fetch"]
          /\ tree' = [st |-> "partial", by |-> w]
          /\ UNCHANGED err
       \/ /\ tree # NoTree
          /\ Ends(w, TRUE)
          /\ UNCHANGED tree
    /\ UNCHANGED <<isCancel, posting, held, owner, platform, ui, opened, crashes>>

\* ~GitAction cancels the task too.
Cancelled(w) == isCancel[w] \/ ~ActionAlive(w)

\* fetch_progress and checkout_progress: only the first looks at is_cancel.
Progress(w) ==
    /\ pc[w] \in {"fetch", "checkout"}
    /\ posting[w] = "no"
    /\ \/ /\ pc[w] = "fetch" /\ Cancelled(w)
          /\ CloneFails(w)
       \/ /\ pc[w] = "checkout" \/ ~Cancelled(w)
          /\ ActionAlive(w)
          /\ Len(callbacks) + signals < MaxQueue
          /\ posting' = [posting EXCEPT ![w] = "push"]
          /\ UNCHANGED <<pc, isCancel, err, held, owner, platform, ui, disk, crashes>>

\* The transfer is over; a transfer without a progress report sees no cancel.
Fetched(w) == /\ pc[w] = "fetch"
              /\ posting[w] = "no"
              /\ pc' = [pc EXCEPT ![w] = "checkout"]
              /\ tree' = Touch(w, "partial")
              /\ UNCHANGED <<isCancel, err, posting, held, owner, platform, ui, opened, crashes>>

\* The network, or the disk, fails.
GitFails(w) == /\ pc[w] \in {"fetch", "checkout"}
               /\ posting[w] = "no"
               /\ CloneFails(w)

\* git_clone returns the repository.
CheckedOut(w) == /\ pc[w] = "checkout"
                 /\ posting[w] = "no"
                 /\ pc' = [pc EXCEPT ![w] = "fastforward"]
                 /\ tree' = Touch(w, "whole")
                 /\ opened' = TRUE
                 /\ UNCHANGED <<isCancel, err, posting, held, owner, platform, ui, crashes>>

\* perform_fastforward, with CheckError around it.
FastForward(w) == /\ pc[w] = "fastforward"
                  /\ \E e \in BOOLEAN : Ends(w, e)
                  /\ UNCHANGED <<isCancel, posting, held, owner, platform, ui, disk, crashes>>

\* GitTask::main after func: the completion is posted if the action is there.
Finish(w) == /\ pc[w] = "ending"
             /\ posting[w] = "no"
             /\ IF ActionAlive(w) THEN posting' = [posting EXCEPT ![w] = "push"] /\ UNCHANGED pc
                ELSE pc' = [pc EXCEPT ![w] = "done"] /\ UNCHANGED posting
             /\ UNCHANGED <<isCancel, err, held, owner, platform, ui, disk, crashes>>

Entry(w) == [w |-> w, end |-> pc[w] = "ending"]

AfterPost(w) == IF pc[w] = "ending" THEN "done" ELSE pc[w]

\* Mutant: doOnMainThread sends its signal before it has the callback in place.
DoOnMainThreadSwapped(w) ==
    /\ \/ /\ posting[w] = "push"
          /\ signals' = signals + 1
          /\ posting' = [posting EXCEPT ![w] = "signal"]
          /\ UNCHANGED <<pc, callbacks>>
       \/ /\ posting[w] = "signal"
          /\ running = -1
          /\ callbacks' = Append(callbacks, Entry(w))
          /\ posting' = [posting EXCEPT ![w] = "no"]
          /\ pc' = [pc EXCEPT ![w] = AfterPost(w)]
          /\ UNCHANGED signals
    /\ UNCHANGED <<isCancel, err, held, owner, running, ui, disk, crashes>>

\* Platform::doOnMainThread: the mutex is free unless onSignal runs.
DoOnMainThread(w) ==
    /\ \/ /\ posting[w] = "push"
          /\ running = -1
          /\ callbacks' = Append(callbacks, Entry(w))
          /\ posting' = [posting EXCEPT ![w] = "signal"]
          /\ UNCHANGED <<pc, signals>>
       \/ /\ posting[w] = "signal"
          /\ signals' = signals + 1
          /\ posting' = [posting EXCEPT ![w] = "no"]
          /\ pc' = [pc EXCEPT ![w] = AfterPost(w)]
          /\ UNCHANGED callbacks
    /\ UNCHANGED <<isCancel, err, held, owner, running, ui, disk, crashes>>

-----------------------------------------------------------------------------
(***************************************************************************)
(* The main thread.                                                        *)
(***************************************************************************)

\* Navigator.pop takes the topmost route that is not closing already.
Pop(r) == LET open == {d \in Dialogs : dlg[d] \in Shown \cup {"requested"}}
          IN  IF open = {} THEN page' = FALSE /\ UNCHANGED <<dlg, result>>
              ELSE /\ dlg' = [d \in Dialogs |-> IF d \in open THEN "closing" ELSE dlg[d]]
                   /\ result' = [d \in Dialogs |-> IF d \in open THEN r ELSE result[d]]
                   /\ UNCHANGED page

\* ProgressItem.complete and the dialog's onComplete.  Without a dialog
\* there is only a warning; with an unmounted one Navigator.of throws.
ItemComplete(d) ==
    /\ act' = [act EXCEPT ![d] = 0]
    /\ IF dlg[d] \in {"requested", "gone"} THEN UNCHANGED <<dlg, result, page>>
       ELSE Pop("Success")

\* ProgressItem.fail and the dialog's onFail.
ItemFail(d) == /\ act' = [act EXCEPT ![d] = 0]
               /\ dlg' = [dlg EXCEPT ![d] = IF @ \in Shown THEN "failed" ELSE @]
               /\ UNCHANGED <<result, page>>

\* Mutant: onComplete does not ask for the error.
OnCompleteUnchecked(d) == IF act[d] = 0 THEN UNCHANGED ui ELSE ItemComplete(d)

\* GitItem.start's onComplete; after a cancel action is null and the call of
\* hasError throws, which FunctionCallback swallows.
OnComplete(d) == IF act[d] = 0 THEN UNCHANGED ui
                 ELSE IF err[act[d]] THEN ItemFail(d) ELSE ItemComplete(d)

\* Platform::onSignal: lock, run each callback, clear the list, unlock.
OnSignal ==
    \/ /\ running = -1 /\ signals > 0
       /\ signals' = signals - 1
       /\ running' = 0
       /\ UNCHANGED <<callbacks, ui>>
    \/ /\ running >= 0 /\ running < Len(callbacks)
       /\ running' = running + 1
       /\ IF callbacks[running + 1].end THEN OnComplete(owner[callbacks[running + 1].w])
          ELSE UNCHANGED ui
       /\ UNCHANGED <<callbacks, signals>>
    \/ /\ running >= 0 /\ running = Len(callbacks)
       /\ running' = -1
       /\ callbacks' = <<>>
       /\ UNCHANGED <<signals, ui>>

Signal == OnSignal /\ UNCHANGED <<worker, held, owner, disk, crashes>>

\* GitItem.start for dialog d.
StartItem(d) == \E w \in Workers, garbage \in Garbage :
                   /\ pc[w] = "unused"
                   /\ \A v \in Workers : v < w => pc[v] # "unused"
                   /\ StartTask(w, d, garbage)

\* showDialog: fetchEnv, unless the repository is there; or install.
Request(d) ==
    /\ running = -1
    /\ page
    /\ dlg[d] = "unused"
    /\ \A e \in Dialogs : /\ dlg[e] \notin Shown \cup {"requested"}
                          /\ e < d => dlg[e] # "unused"
    /\ dlg' = [dlg EXCEPT ![d] = "requested"]
    /\ IF kind = "env" THEN ~opened /\ StartItem(d)
       ELSE UNCHANGED <<pc, isCancel, held, owner, act>>
    /\ UNCHANGED <<err, posting, platform, result, page, disk, crashes>>

\* The first frame: the builder, and the dialog's state, which sets the
\* item's callbacks.
Build(d) == /\ running = -1
            /\ dlg[d] = "requested"
            /\ dlg' = [dlg EXCEPT ![d] = "progress"]
            /\ IF kind = "library" THEN StartItem(d)
               ELSE UNCHANGED <<pc, isCancel, held, owner, act>>
            /\ UNCHANGED <<err, posting, platform, result, page, disk, crashes>>

\* Mutant: cancel forgets to set GitItem.action to null.
ItemCancelKept(d) == /\ act[d] # 0 => isCancel' = [isCancel EXCEPT ![act[d]] = TRUE]
                     /\ act[d] = 0 => UNCHANGED isCancel
                     /\ UNCHANGED act

\* GitItem.cancel.
ItemCancel(d) == /\ isCancel' = [w \in Workers |-> isCancel[w] \/ w = act[d]]
                 /\ act' = [act EXCEPT ![d] = 0]

\* onCancel: the button is there for a cancelable item only.
Cancel(d) == /\ running = -1
             /\ Cancelable
             /\ dlg[d] \in Shown
             /\ ItemCancel(d)
             /\ Pop("Failed")
             /\ UNCHANGED <<pc, err, posting, held, owner, platform, disk, crashes>>

\* Mutant: onWillPop lets every dialog go.
WillPopAlways(d) == dlg[d] \in Shown

\* onWillPop: whether the back button closes the dialog.
WillPop(d) == dlg[d] \in Shown /\ Cancelable

\* The back button pops the dialog and leaves its item alone.
Back(d) == /\ running = -1
           /\ WillPop(d)
           /\ Pop("null")
           /\ UNCHANGED <<worker, held, owner, act, platform, disk, crashes>>

\* Mutant: the retry button does not wait for the failure.
RetryButtonAlways(d) == dlg[d] \in Shown

\* bottomButtons: the retry button.
RetryButton(d) == dlg[d] = "failed"

\* onRetry.
Retry(d) == /\ running = -1
            /\ RetryButton(d)
            /\ StartItem(d)
            /\ dlg' = [dlg EXCEPT ![d] = "progress"]
            /\ UNCHANGED <<err, posting, platform, result, page, disk, crashes>>

\* The route has left the screen.
Unmount(d) == /\ running = -1
              /\ dlg[d] = "closing"
              /\ dlg' = [dlg EXCEPT ![d] = "gone"]
              /\ UNCHANGED <<worker, held, owner, platform, act, result, page, disk, crashes>>

\* AutoRelease's sweep destroys an action that its item has released.
Sweep(w) == /\ running = -1
            /\ held[w]
            /\ act[owner[w]] # w
            /\ held' = [held EXCEPT ![w] = FALSE]
            /\ UNCHANGED <<worker, owner, platform, ui, disk, crashes>>

\* The program dies and comes up again; git_repository_open may accept a
\* directory that a clone was writing.
Crash ==
    /\ crashes < MaxCrashes[kind]
    /\ crashes' = crashes + 1
    /\ pc' = [w \in Workers |-> IF pc[w] = "unused" THEN "unused" ELSE "done"]
    /\ posting' = [w \in Workers |-> "no"]
    /\ held' = [w \in Workers |-> FALSE]
    /\ callbacks' = <<>> /\ signals' = 0 /\ running' = -1
    /\ dlg' = [d \in Dialogs |-> IF dlg[d] = "unused" THEN "unused" ELSE "gone"]
    /\ act' = [d \in Dialogs |-> 0]
    /\ page' = TRUE
    /\ opened' \in (CASE tree.st = "none" -> {FALSE}
                      [] tree.st = "whole" -> {TRUE}
                      [] OTHER -> BOOLEAN)
    /\ UNCHANGED <<isCancel, err, owner, result, tree>>

-----------------------------------------------------------------------------
Init == /\ kind \in Kinds
        /\ pc = [w \in Workers |-> "unused"]
        /\ isCancel = [w \in Workers |-> FALSE]
        /\ err = [w \in Workers |-> FALSE]
        /\ posting = [w \in Workers |-> "no"]
        /\ held = [w \in Workers |-> FALSE]
        /\ owner = [w \in Workers |-> 1]
        /\ callbacks = <<>> /\ signals = 0 /\ running = -1
        /\ dlg = [d \in Dialogs |-> "unused"]
        /\ act = [d \in Dialogs |-> 0]
        /\ result = [d \in Dialogs |-> "none"]
        /\ page = TRUE
        /\ tree = NoTree
        /\ opened = FALSE
        /\ crashes = 0

TransferEnds(w) == Fetched(w) \/ CheckedOut(w) \/ GitFails(w)

WorkerStep(w) == RemoveFile(w) \/ GitClone(w) \/ FastForward(w) \/ Finish(w) \/ DoOnMainThread(w)

Next == /\ \/ \E w \in Workers : WorkerStep(w) \/ TransferEnds(w) \/ Progress(w) \/ Sweep(w)
           \/ \E d \in Dialogs : \/ Request(d) \/ Build(d) \/ Cancel(d) \/ Back(d)
                                 \/ Retry(d) \/ Unmount(d)
           \/ Signal
           \/ Crash
        /\ UNCHANGED kind

Spec == Init /\ [][Next]_vars

-----------------------------------------------------------------------------
(***************************************************************************)
(* Properties.                                                             *)
(***************************************************************************)

\* The values the variables take.
TypeOK ==
    /\ kind \in Kinds
    /\ pc \in [Workers -> {"unused", "remove", "clone", "fetch", "checkout",
                           "fastforward", "ending", "done"}]
    /\ isCancel \in [Workers -> BOOLEAN] /\ err \in [Workers -> BOOLEAN]
    /\ posting \in [Workers -> {"no", "push", "signal"}]
    /\ held \in [Workers -> BOOLEAN] /\ owner \in [Workers -> Dialogs]
    /\ callbacks \in Seq([w : Workers, end : BOOLEAN])
    /\ signals \in Nat /\ running \in -1..Len(callbacks)
    /\ dlg \in [Dialogs -> Shown \cup {"unused", "requested", "closing", "gone"}]
    /\ act \in [Dialogs -> 0..MaxClones]
    /\ result \in [Dialogs -> {"none", "Success", "Failed", "null"}]
    /\ page \in BOOLEAN /\ opened \in BOOLEAN /\ crashes \in 0..MaxCrashes[kind]
    /\ tree \in [st : {"none", "partial", "whole", "mixed"}, by : 0..MaxClones]

\* Platform.h, GitItem and GitTask: a callback in the list always has a signal
\* on its way, or the onSignal that will run it: none is left behind by the
\* clear() of a signal that came too early.  And an item that holds an action
\* will hear from it: its worker is at work, or its completion is in the list
\* and has not been run.
NoCallbackLost ==
    /\ callbacks # <<>> => \/ running >= 0
                           \/ signals > 0
                           \/ \E w \in Workers : posting[w] = "signal"
    /\ \A d \in Dialogs : act[d] # 0 =>
          \/ Alive(act[d])
          \/ \E i \in DOMAIN callbacks :
                i > running /\ callbacks[i] = [w |-> act[d], end |-> TRUE]

\* libraries.dart and progress_dialog.dart: two workers meet in the directory
\* only when the dialog of the earlier one was left before it had ended.
OverlapOnlyAfterLeaving ==
    \A v, w \in Workers :
        v < w /\ Alive(v) /\ Alive(w) /\ pc[v] # "ending"
            => result[owner[v]] \in {"Failed", "null", "Success"} /\ owner[v] # owner[w]

\* progress_dialog.dart: a completion pops the page below the dialog only
\* when the back button has closed the dialog under it.
PageKept == page \/ \E d \in Dialogs : result[d] = "null"

\* main.dart fetchEnv: when no dialog stands in the way of the start-up and
\* the repository is open, the framework is whole, unless the program died
\* over its clone: then the part that is there is taken for the whole.
FrameworkIsWhole ==
    kind = "env" /\ opened /\ (\A d \in Dialogs : dlg[d] \in {"unused", "closing", "gone"})
        => tree.st = "whole" \/ (crashes > 0 /\ tree.st = "partial")

\* A dialog is closed with Success over a whole directory, unless some dialog
\* was left before, whose worker may still be writing.
SuccessIsWhole ==
    [][\A d \in Dialogs : result[d] = "none" /\ result'[d] = "Success"
          => tree.st = "whole" \/ \E e \in Dialogs : result[e] \in {"Failed", "null"}]_vars
=============================================================================
