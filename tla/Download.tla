------------------------------ MODULE Download ------------------------------
(***************************************************************************)
(* One ROM's DownloadItem (lib/utils/download_manager.dart), the           *)
(* downloader_manager plugin between Dart and Android, and the Android     *)
(* DownloadManager service as the plugin uses it.                          *)
(*                                                                         *)
(* The item learns what became of its download along two paths: a five     *)
(* second poll of the service's row, answered over the method channel, and *)
(* the service's broadcast, turned into a "complete" call over the same    *)
(* channel, after which the item looks for the file.  Both directions of   *)
(* the channel are FIFO.  The program may die at any time; the service,    *)
(* its rows and the file outlive it.                                       *)
(***************************************************************************)
EXTENDS Naturals, Sequences, FiniteSets

CONSTANTS MaxStarts,    \* bound on the downloads enqueued
          MaxPolls,     \* bound on the polls in flight: 1 says that a poll is
                        \* answered within the five seconds to the next
          MaxCrashes,   \* bound on the deaths of the program
          Faults        \* what the service may do to a download, of AllFaults

AllFaults == {"fail", "remove", "reject"}

ASSUME DownloadAssumption == /\ MaxStarts \in Nat
                             /\ MaxPolls \in Nat
                             /\ MaxCrashes \in Nat
                             /\ Faults \subseteq AllFaults

VARIABLES row,          \* the service's rows, one per download enqueued
          file,         \* whether the ROM file exists
          broadcast,    \* completed downloads whose broadcast is under way
          outbox,       \* method calls from Dart to the plugin
          inbox,        \* answers and calls from the plugin to Dart
          status,       \* DownloadItem._status, or where the start-up is
          timer,        \* DownloadItem._timer is set
          cur,          \* the id of DownloadItem._downloader, 0 before it is known
          enqueues,     \* enqueue calls not answered yet
          callbacks,    \* ids whose onComplete is in DownloaderManager._callbacks
          checks,       \* calls of _checkStatus waiting for file.exists()
          crashes,      \* deaths so far
          mistaken      \* history: the row of another download was reported gone

service == <<row, file, broadcast>>
item == <<status, timer, cur, enqueues, callbacks, checks>>
vars == <<service, outbox, inbox, item, crashes, mistaken>>

Downloads == 1..MaxStarts

Polls == Cardinality({i \in DOMAIN outbox : outbox[i].m = "state"})
           + Cardinality({i \in DOMAIN inbox : inbox[i].m = "state"})

-----------------------------------------------------------------------------
(***************************************************************************)
(* The Android service (external) and the plugin's Java side.              *)
(***************************************************************************)

\* The status the plugin reports for a row: everything that is there and
\* not STATUS_SUCCESSFUL counts as downloading, a failed row too.
Reported(r) == CASE r = "successful" -> "Complete"
                 [] r \in {"running", "failed"} -> "Downloading"
                 [] OTHER -> "None"

\* MethodCallHandler: the rows of this ROM's file for "setup".
OnSetup == /\ inbox' = Append(inbox, [m |-> "setup",
                          rows |-> [d \in {x \in Downloads : Reported(row[x]) # "None"}
                                       |-> Reported(row[d])]])
           /\ UNCHANGED <<service>>

\* MethodCallHandler: "enqueue" adds a row and returns its id.
OnEnqueue ==
    LET d == CHOOSE x \in Downloads : row[x] = "unused"
                        /\ \A y \in Downloads : row[y] = "unused" => x <= y
    IN  /\ row' = [row EXCEPT ![d] = "running"]
        /\ inbox' = Append(inbox, [m |-> "enqueued", id |-> d])
        /\ UNCHANGED <<file, broadcast>>

\* MethodCallHandler: Request or enqueue throws, at an address that is not of
\* http or with the service disabled, and the channel answers with an error.
OnReject == /\ "reject" \in Faults
            /\ inbox' = Append(inbox, [m |-> "rejected"])
            /\ UNCHANGED service

\* MethodCallHandler: "state" queries one row.
OnState(d) == /\ inbox' = Append(inbox, [m |-> "state", id |-> d, st |-> Reported(row[d])])
              /\ UNCHANGED service

OnMethodCall ==
    /\ outbox # <<>>
    /\ outbox' = Tail(outbox)
    /\ \/ Head(outbox).m = "setup" /\ OnSetup
       \/ Head(outbox).m = "enqueue" /\ (OnEnqueue \/ OnReject)
       \/ Head(outbox).m = "state" /\ OnState(Head(outbox).id)
    /\ UNCHANGED <<item, crashes, mistaken>>

\* The service writes to the destination while it downloads.
WriteFile(d) == /\ row[d] = "running"
                /\ ~file
                /\ file' = TRUE
                /\ UNCHANGED <<row, broadcast, outbox, inbox, item, crashes, mistaken>>

Succeed(d) == /\ row[d] = "running"
              /\ row' = [row EXCEPT ![d] = "successful"]
              /\ file' = TRUE
              /\ broadcast' = broadcast \cup {d}
              /\ UNCHANGED <<outbox, inbox, item, crashes, mistaken>>

Fail(d) == /\ "fail" \in Faults
           /\ row[d] = "running"
           /\ row' = [row EXCEPT ![d] = "failed"]
           /\ file' = FALSE
           /\ broadcast' = broadcast \cup {d}
           /\ UNCHANGED <<outbox, inbox, item, crashes, mistaken>>

\* The user drops the download from the system's list.
Remove(d) == /\ "remove" \in Faults
             /\ row[d] = "running"
             /\ row' = [row EXCEPT ![d] = "removed"]
             /\ file' = FALSE
             /\ UNCHANGED <<broadcast, outbox, inbox, item, crashes, mistaken>>

\* BroadcastReceiver.onReceive, while the program is there to receive.
OnReceive(d) ==
    /\ d \in broadcast
    /\ broadcast' = broadcast \ {d}
    /\ inbox' = IF status = "dead" THEN inbox
                ELSE Append(inbox, [m |-> "complete", id |-> d])
    /\ UNCHANGED <<row, file, outbox, item, crashes, mistaken>>

-----------------------------------------------------------------------------
(***************************************************************************)
(* DownloadManager, DownloadItem and the plugin's Dart side.               *)
(***************************************************************************)

\* main.dart: _setup awaits DownloadManager().setup().
Boot == /\ status = "dead"
        /\ status' = "booting"
        /\ outbox' = <<[m |-> "setup"]>>
        /\ UNCHANGED <<service, inbox, timer, cur, enqueues, callbacks, checks, crashes, mistaken>>

\* Mutant: setup does not put the service's rows into _downloads.
SetupItemsIgnored(rows) == status' = "unopened" /\ UNCHANGED <<timer, cur, callbacks>>

\* Mutant: an item brought back by setup is shown and not watched.
SetupItemsUnwatched(rows) ==
    IF DOMAIN rows = {}
    THEN status' = "unopened" /\ UNCHANGED <<timer, cur, callbacks>>
    ELSE \E d \in DOMAIN rows : /\ cur' = d
                                /\ status' = rows[d]
                                /\ UNCHANGED <<timer, callbacks>>

\* DownloadManager.setup: of several rows for one file the last one in the
\* cursor's order is left in _downloads; DownloadItem._setup.
SetupItems(rows) ==
    IF DOMAIN rows = {}
    THEN status' = "unopened" /\ UNCHANGED <<timer, cur, callbacks>>
    ELSE \E d \in DOMAIN rows :
            /\ cur' = d
            /\ status' = rows[d]
            /\ timer' = (rows[d] = "Downloading")
            /\ callbacks' = IF rows[d] = "Downloading" THEN {d} ELSE {}

\* DownloadManager[key] for a key setup did not bring back: DownloadItem._
\* Without its file the item is complete all the same, and "Adopted" here, if
\* the directory has a file of the same base name and another extension.
Open == /\ status = "unopened"
        /\ status' \in IF file THEN {"Complete"} ELSE {"None", "Adopted"}
        /\ UNCHANGED <<service, outbox, inbox, timer, cur, enqueues, callbacks,
                       checks, crashes, mistaken>>

\* Mutant: start does not mind a download that is under way.
StartAgain ==
    /\ status \in {"None", "Downloading"}
    /\ Cardinality({d \in Downloads : row[d] # "unused"}) + enqueues < MaxStarts
    /\ outbox' = Append(outbox, [m |-> "enqueue"])
    /\ enqueues' = enqueues + 1
    /\ cur' = 0
    /\ status' = "Downloading"
    /\ timer' = TRUE
    /\ UNCHANGED <<service, inbox, callbacks, checks, crashes, mistaken>>

\* DownloadItem.start and _processDownloader.
Start == /\ status = "None"
         /\ Cardinality({d \in Downloads : row[d] # "unused"}) + enqueues < MaxStarts
         /\ outbox' = Append(outbox, [m |-> "enqueue"])
         /\ enqueues' = enqueues + 1
         /\ cur' = 0
         /\ status' = "Downloading"
         /\ timer' = TRUE
         /\ UNCHANGED <<service, inbox, callbacks, checks, crashes, mistaken>>

\* The periodic timer ticks: _downloader.state(), which awaits the id.
Tick == /\ timer
        /\ cur # 0
        /\ Polls < MaxPolls
        /\ outbox' = Append(outbox, [m |-> "state", id |-> cur])
        /\ UNCHANGED <<service, inbox, item, crashes, mistaken>>

\* The answer to enqueue: the id is known and the callbacks are registered.
Enqueued(d) == /\ enqueues' = enqueues - 1
               /\ cur' = IF enqueues = 1 THEN d ELSE 0
               /\ callbacks' = callbacks \cup {d}
               /\ UNCHANGED <<status, timer, checks>>

\* The error from enqueue: Downloader.start ends at its await, and _ready never
\* completes.
Rejected == /\ enqueues' = enqueues - 1
            /\ UNCHANGED <<status, timer, cur, callbacks, checks>>

\* Mutant: a row that is gone is taken for one that still downloads.
PolledIgnoresNone(st) == /\ status' = IF st = "Complete" THEN st ELSE status
                         /\ timer' = (timer /\ st # "Complete")
                         /\ UNCHANGED <<cur, enqueues, callbacks, checks>>

\* The rest of the timer's callback, whichever download it asked about.
Polled(st) == /\ status' = st
              /\ timer' = (timer /\ st = "Downloading")
              /\ UNCHANGED <<cur, enqueues, callbacks, checks>>

\* Mutant: _checkStatus leaves the timer running.
CompletedKeepsTimer(d) ==
    IF d \in callbacks
    THEN checks' = checks + 1 /\ UNCHANGED <<status, timer, cur, enqueues, callbacks>>
    ELSE UNCHANGED item

\* _methodHandler and _checkStatus up to its await.
Completed(d) == IF d \in callbacks
                THEN /\ timer' = FALSE
                     /\ checks' = checks + 1
                     /\ UNCHANGED <<status, cur, enqueues, callbacks>>
                ELSE UNCHANGED item

Receive ==
    /\ inbox # <<>>
    /\ inbox' = Tail(inbox)
    /\ LET msg == Head(inbox)
       IN  \/ msg.m = "setup" /\ SetupItems(msg.rows) /\ UNCHANGED <<enqueues, checks>>
           \/ msg.m = "enqueued" /\ Enqueued(msg.id)
           \/ msg.m = "rejected" /\ Rejected
           \/ msg.m = "state" /\ Polled(msg.st)
           \/ msg.m = "complete" /\ Completed(msg.id)
    /\ mistaken' = (mistaken \/ (/\ Head(inbox).m = "state" /\ Head(inbox).st = "None"
                                /\ Head(inbox).id # cur))
    /\ UNCHANGED <<service, outbox, crashes>>

\* The rest of _checkStatus.
CheckStatus == /\ checks > 0
               /\ checks' = checks - 1
               /\ status' = IF file THEN "Complete" ELSE "None"
               /\ UNCHANGED <<service, outbox, inbox, timer, cur, enqueues,
                              callbacks, crashes, mistaken>>

Crash == /\ status # "dead"
         /\ crashes < MaxCrashes
         /\ crashes' = crashes + 1
         /\ status' = "dead"
         /\ timer' = FALSE
         /\ cur' = 0
         /\ enqueues' = 0
         /\ callbacks' = {}
         /\ checks' = 0
         /\ outbox' = <<>>
         /\ inbox' = <<>>
         /\ UNCHANGED <<service, mistaken>>

-----------------------------------------------------------------------------
Init == /\ row = [d \in Downloads |-> "unused"]
        /\ file = FALSE
        /\ broadcast = {}
        /\ outbox = <<>>
        /\ inbox = <<>>
        /\ status = "dead"
        /\ timer = FALSE
        /\ cur = 0
        /\ enqueues = 0
        /\ callbacks = {}
        /\ checks = 0
        /\ crashes = 0
        /\ mistaken = FALSE

Service == \E d \in Downloads : WriteFile(d) \/ Succeed(d) \/ Fail(d) \/ Remove(d)

Next == \/ Boot \/ Open \/ Start \/ Tick \/ OnMethodCall \/ Receive \/ CheckStatus
        \/ Service
        \/ \E d \in Downloads : OnReceive(d)
        \/ Crash

\* The channel, the event loop and the broadcasts keep moving, a periodic
\* timer keeps ticking, and the program is started again; a download ends
\* one way or another.  The user need not do anything.
Fairness == /\ WF_vars(OnMethodCall)
            /\ WF_vars(Receive)
            /\ WF_vars(CheckStatus)
            /\ WF_vars(Tick)
            /\ WF_vars(Boot)
            /\ \A d \in Downloads : WF_vars(OnReceive(d)) /\ WF_vars(Succeed(d) \/ Fail(d) \/ Remove(d))

Spec == Init /\ [][Next]_vars /\ Fairness

-----------------------------------------------------------------------------
Status == {"dead", "booting", "unopened", "None", "Downloading", "Complete", "Adopted"}

\* The values the variables take.
TypeOK ==
    /\ row \in [Downloads -> {"unused", "running", "successful", "failed", "removed"}]
    /\ file \in BOOLEAN
    /\ broadcast \subseteq Downloads
    /\ status \in Status
    /\ timer \in BOOLEAN
    /\ cur \in 0..MaxStarts
    /\ enqueues \in 0..MaxStarts
    /\ callbacks \subseteq Downloads
    /\ checks \in 0..MaxStarts
    /\ crashes \in 0..MaxCrashes
    /\ Len(outbox) <= 1 + MaxPolls + MaxStarts
    /\ Len(inbox) <= 1 + MaxPolls + 2 * MaxStarts

\* Two downloads never write the same file at once: start is only open while
\* the previous download is known to be over.  The one way around it is a poll
\* about a download the user removed that is answered after the item was
\* started again: it takes the new download for gone, and start is open
\* (download_manager.dart:97-125).
OneWriter ==
    mistaken \/ Cardinality({d \in Downloads : row[d] = "running"}) <= 1

\* "Complete" is only shown for a whole file: no download into it is still
\* running, so that RetroArchConfig.install does not read a partial ROM, but
\* for the second writer that a mistaken answer lets in.  Nothing is said of an
\* adopted file, which is not the item's own (download_manager.dart:37-56,
\* 150-153).
CompleteIsWhole ==
    mistaken \/ (status = "Complete" => file /\ \A d \in Downloads : row[d] # "running")

\* The timer follows the status.  start never replaces a periodic timer that
\* is still running, which nothing could cancel any more.  An item that shows
\* "Downloading" is polled, or about to be told, unless its download failed: a
\* poll answered between the failure and _checkStatus can leave "Downloading"
\* on the screen for good.  Short of the second writer above no other order of
\* events can (download_manager.dart:118-153).
TimerFollowsStatus ==
    mistaken \/
    /\ status = "None" => ~timer
    /\ status = "Downloading" /\ ~timer /\ checks = 0
         => \/ \E i \in DOMAIN inbox : inbox[i].m \in {"state", "complete"}
            \/ \E i \in DOMAIN outbox : outbox[i].m = "state"
            \/ \E d \in Downloads : row[d] = "failed"

\* A download the service has taken on is shown as complete unless it fails or
\* is removed, across lost broadcasts, late answers and restarts
\* (download_manager.dart:118-153, 180-186).
Finishes ==
    status = "Downloading" /\ cur # 0
      ~> status = "Complete" \/ \E d \in Downloads : row[d] \in {"failed", "removed"}

\* The service has refused the download, and the item will not hear of it.
Refused == cur = 0 /\ enqueues = 0

\* No download stays on the screen as downloading for ever, one the user has
\* removed neither: the poll finds its row gone.  Only a failed one may, for the
\* plugin reports its row as downloading, one that the service refused, for its
\* polls wait for an id that never comes, or one started beside another after a
\* mistaken answer (download_manager.dart:121-125, downloader_manager.dart:38-43).
Settles ==
    status = "Downloading"
      ~> \/ status # "Downloading" \/ mistaken \/ Refused
         \/ \E d \in Downloads : row[d] = "failed"
=============================================================================
