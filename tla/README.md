# Verification of retroconfig

retroconfig is a Flutter application for browsing, downloading and installing
ROMs for RetroArch. Its logic is split between Dart (`src/lib`), a native
plugin `glib` (`src/plugins/glib`, C++ with a reflection layer that Dart, Ruby
and JavaScript scripts call into) and a small download plugin
(`src/plugins/downloader_manager`). This directory holds TLA+ models of the
parts of it that keep state and meet failure or concurrency, TLC
configurations that check them on small instances, and TLAPS proofs of all
their safety properties, for every value of their constants.

    tlc -config MCDatabase.cfg MCDatabase     # one run
    tlapm DatabaseProofs.tla                  # the proofs about one module

`PROJECT.json` lists the runs, the source lines each definition stands for, the
mutants that show each property can fail, the hazards and the theorems.

## 1. Inventory

Paths are below `src/`; `glib/` is `plugins/glib/src/application/`.

| Component | State | Operations | Talks to |
|---|---|---|---|
| Statement queue (`glib/utils/database/Model.*`, `SQLite.*`, `DBMaker.cpp`) | `queue`, `wait_action`, `db`, the SQLite file with its version rows | `exce`, `queueExce`, `checkQueue`, `onCheckAction`, `update`, `remove`, `find`, `setup`, table creation and migration | zero-delay timers of the Dart side (`plugins/glib/lib/utils/platform.dart`) |
| Settings table (`glib/models/KeyValue.cpp`) | rows (key, value) | `get`, `set` | the queue |
| Context and Collection (`glib/main/Context.cpp`, `Collection.cpp`, `lib/pages/index.dart`, `lib/widgets/collection_view.dart`, `better_refresh_indicator.dart`, the project's `index.js`) | `first_enter`, `loading`, `data`, the script's `page`, the view's indicator, cached list and its time | `enterView`, `exitView`, `reload`, `loadMore`, `setData`, `appendData`, `save`, `load` | scripts (asynchronous fetches), KeyValue, the view through notifications |
| Visit history (`lib/utils/history_manager.dart`, `glib/main/DataItem.cpp`, `models/CollectionData.*`, `BookData.*`) | list in memory, two tables | `items`, `insert`, `update`, `clear`, `saveToCollection` | the queue |
| ROM downloads (`lib/utils/download_manager.dart`, `plugins/downloader_manager`) | `_status`, `_timer`, `_downloader`, `_callbacks`; rows of the Android service; the file | `setup`, `start`, poll, `_checkStatus` | method channel, Android DownloadManager, broadcasts |
| Git repositories and progress dialog (`glib/utils/GitRepository.cpp`, `Platform.h`, `lib/utils/progress_items.dart`, `lib/widgets/progress_dialog.dart`, `lib/main.dart`) | worker threads, `is_cancel`, `error`, the main-thread callback list, the dialog's status, the working tree and its branch | clone, fetch, checkout, cancel, retry | libgit2, the main thread's signal |
| Library list (`glib/main/LibraryContext.cpp`, `lib/pages/libraries.dart`) | libraries, `token`, `pageIndex` | reload, loadMore, parse, insert, remove, install, update | GitHub, git, the queue |
| RetroArch playlists (`lib/utils/retroarch_config.dart`) | playlist files, thumbnails | install | file system |
| Object life cycle (`plugins/glib/lib/core/core.dart`) | retain counts, the pool, its timer | control, release, sweep, destroy | every native object |
| Requests (`plugins/glib/lib/utils/request.dart`) | callbacks, `_canceled`, the subscription, the timeout | start, cancel, destroy | dio, the file cache |
| Block downloader (`lib/utils/multi_downloader.dart`) | `_queue`, `_downloading`, block files | start, stop | HTTP; never instantiated |
| Search (`lib/pages/search.dart`, `glib/models/SearchData.cpp`), projects and settings (`glib/main/Project.cpp`, `Settings.cpp`) | search keys, one settings map per project | insert, get, set, save | the queue, contexts |

What is hard, component by component:

* **Statement queue.** UPDATE and DELETE are deferred to a timer, SELECT and
  INSERT flush; the process may die between any two statements, the engine may
  go and cancel the timers, the file may not open. Correct means: statements
  take effect in order; what is lost is a suffix; answers show everything
  issued before; a queued statement is always armed and eventually run; a
  deleted row never comes back.
* **Migration.** A new release renames a table, creates it anew, saves the new
  version and copies, in several trips through the queue. Correct means a table
  with the columns the program writes, and no row lost.
* **KeyValue.** `set` is a read followed by a write. Correct means one row per
  key and reading one's own writes.
* **Context.** Fetches are asynchronous and take longer than views live.
  Correct means one fetch at a time, pages in order, an indicator that agrees
  with `loading`, and a cache that agrees with the screen and is never vouched
  for by a time of its own future.
* **History.** One visit is up to five writes in two tables. Correct means the
  list and the table agree, no link twice, a bounded table, and no row without
  its book, whatever prefix of the writes survives.
* **Downloads.** Two channels report the same outcome (poll and broadcast), one
  of them behind an `await`, and the service outlives the program. Correct
  means one writer per file, "Complete" only for a whole file, no leaked timer,
  and every download eventually settles.
* **Git.** A worker thread reports through a list of callbacks and a signal; its
  dialog can be cancelled, dismissed or retried at any moment, and the process
  may die over a half-made directory. Correct means that the end of a clone
  always reaches its item, that only whole directories are called installed,
  that two workers do not meet in one directory, and that the branch of an
  updated library never runs ahead of its tree.
* **Library list.** `reload` and `loadMore` share a token and a page number and
  do not exclude each other. Correct means that only an unbroken chain of
  signed comments is accepted, and that scrolling reaches its end.
* **Playlists.** Two installs of one system read, wait and write back the same
  file. Correct means no ROM twice and no entry lost.
* **Object life cycle.** A sweep runs destructors that release into the pool
  being swept. Correct means that nothing held is freed and nothing released is
  kept.
* **Requests.** An error, a timeout, a cancel and the last part of a body may
  all end one request. Correct means one `onComplete`, with a whole body or an
  error, and silence after a cancel.

The full list of hazards, each at its line, is in `PROJECT.json`.

## 2. The modules

    Store  <---(implements)--- Database <--(extends)-- KeyValue <-- DatabaseProofs
      ^
      +--(instance)-- Context  <-- ContextProofs
      +--(instance)-- History  <-- HistoryProofs

    Schema    <-- SchemaProofs
    Download  <-- DownloadProofs
    Clone     <-- CloneProofs
    Update, Playlist, Libraries <-- LibraryProofs
    Lifecycle, Request          <-- LifecycleProofs

An arrow `X <-- XProofs` is EXTENDS: the proof module holds the theorems, the
inductive invariants they rest on and the lemmas, and changes nothing in the
model. Where one proof module covers several models they keep apart by name:
`Spec` is Update's, `PlaylistSpec` Playlist's and so on.

* **Store** is the abstract specification of the statement queue as its callers
  see it: `hist[1]` is the file, the last element the database as the program
  has written it, the elements between them what a crash may leave. `Issue`,
  `Execute`, `Answer`, `Forget`.
* **Database** models `gs::Database` and `SQLite`. `queue`, `wait_action` and
  `db` are the C++ fields; `done` is the loop position of `checkQueue`;
  `timers` counts the zero-delay timers outstanding; `pc` says where the main
  thread is (`idle`, in `exce`, in the `flush` loop, or `down`). `ahead` and
  `reply` are history variables. One action per step of the code that a crash
  can separate: `Exce`, `QueueExce`, `ExceCheckQueue`/`TimerUp` (the entry of
  `checkQueue`, with `begin` possibly failing), `Action` (one item), `EndQueue`;
  `Detach`, `Crash` and `Setup` are the life cycle. All callers run on the main
  thread, so the mutex never blocks and has no variable.
* **KeyValue** extends Database with the two operations of the settings table;
  `call` is the operation on the stack, between whose trips through the queue
  nothing but `checkQueue` and a crash can come. `expect` is history: what a
  caller may expect for each key, which falls back to the file when the queue is
  lost. `missed` is history too: the keys that were set while their own query
  went unanswered.
* **Schema** is `SQLite::processTable` for one table through several releases:
  `main` and `temp` are the table and its `TEMP_` copy, `vers` the rows of
  SQLTable, `queue` the statements waiting. The queue appears as Database lets
  its callers see it, with the one thing added that Database leaves out: a
  statement that does not prepare (a table that is missing, or there already)
  is skipped in silence. The callback of the copy saves from inside
  `checkQueue`, which holds the mutex: if the uninitialised `changed` of the
  new object is set, the main thread is stuck. `deaths` and `old` are history:
  the deaths inside a start, and those of them under an earlier release.
* **Context** is one category tab. `requests` are the script's fetches,
  `view` the life of the tab's widget, `spinner` the refresh indicator. A list
  is abstracted to its sequence of page numbers. The settings table is the
  instance `Db` of Store, as `KeyValue::get` reads it: the first row of a key.
  `Save` is two calls of `KeyValueSet`, the list and then its time, each a query
  that runs what is queued and an UPDATE or INSERT, at either of which the file
  may not open. A query that is not answered then makes the key look new, and
  the INSERT makes its first row or a second one that `get` never reads. Load
  (`Loads`, `Ages`) is not told either, and `Unopened` is the same failure in
  the timer's flush. `restored`, `unsaved`, and `at` and `torn` in the table,
  are history. The forced update of `enterView` (`$UPDATE`) is left out: only a
  context of type Setting raises it (`Context.cpp:477`) and no page opens one.
* **History** is HistoryManager over the two tables, again through Store. A visit
  is `Insert`, then, for a link that is not in the list, `SaveBook` and
  `SaveRow`, then `Update`: one action per statement that runs at once, with
  `call` saying which comes next. UPDATEs and DELETEs append to the pending
  writes. Before each statement the process may die, which keeps any prefix of
  the writes, and at each the file may not open (`NotOpened`): the queue is
  gone, a query has no results, a new object keeps the id -1 (0 here). An entry
  without a row is inserted again by `Update`, one without an item stops
  `insert`. `out` and `blind` are history: the file has not opened for this
  list, and the row was written then. The sort by whole seconds is modelled by
  what it guarantees, which is why `Sorted` is a set of sequences.
* **Download** is one ROM's item, both ends of the method channel as FIFO
  queues (`outbox`, `inbox`), the Android service's rows (external, from how
  the plugin uses it) and the file. `checks` counts calls of `_checkStatus`
  that wait in `file.exists()`. Of several rows for one file the code builds an
  item each and keeps the last in the map; the others act on items nobody
  sees, so `SetupItems` picks one. `enqueue` may throw (`OnReject`), whereupon the
  item waits for an id that never comes. A file of the same base name and
  another extension makes a new item complete, which the model calls "Adopted":
  the file is not the item's, and nothing is said of it. `mistaken` is history:
  a poll has reported the row of another download as gone.
* **Clone** is `cloneFromRemote` on its worker thread, `Platform::doOnMainThread`
  and `onSignal` with their mutex (`running` is the loop of `onSignal`, during
  which no worker can push), GitItem (`act`) and ProgressDialog (`dlg`,
  `result`). `kind` is the caller: the framework at start-up, whose clone
  starts before its dialog is built and cannot be cancelled, or the install of
  a library. `is_cancel` starts with what the memory held (`Garbage`). libgit2
  is external: a clone that fails removes what it made, and two workers in one
  directory leave a `mixed` tree.
* **Update** is the update button of an installed library: `fetch`, `highID`
  and `checkout` with `perform_fastforward`, which checks the tree out (`work`)
  and then moves the branch (`local`). `cell` counts how often the library's
  cell was built: a new cell has a new spinner, which is all that keeps a second
  update away.
* **Libraries** is the library page with LibraryContext. `posted` comments are on
  GitHub, `PageOf` is the page a request sees, `Matched` the comments of it that
  follow on `token`, `Parsed` what parsing them in order makes of the rows. Requests are answered in any order, each with the pages as
  they were at some moment since it was sent. `reach` and `clean` are history:
  how far the chain was ever accepted, and that the list was reloaded with no
  other request under way and nothing posted since.
* **Playlist** is `RetroArchConfig.install` for one playlist file: `Read`, `Crc`,
  `OpenFile` (which truncates), `Write`, three thumbnails, one action per await.
  `stale` and `spoilt` are history: an install wrote over a list newer than the
  one it had read, or a write was cut off; `expected` is the list that installs
  one after the other would have made.
* **Lifecycle** is AutoRelease and Base: `count`, `pool`, `timer` (the variable)
  and `armed` (the timer it names will fire), the sweep one `Destroy` at a time,
  `db` the wrapper that C++ code finds, `field` the callback an object owns and
  releases from its `destroy`.
* **Request** is one `Request.start` through dio or the cache, the callbacks it
  invokes (`calls`), cancel and destroy at any await and from inside a
  callback, the parts of the body and the 30 second timeout.

Definitions with a comment "Mutant:" before them are the plausible
bugs each property is tested against; no specification uses them.

## 3. The runs

| Run | Bounds | States | What it shows |
|---|---|---|---|
| `database` | 2 contents, 2 row ids, queue of 3, 2 timers, open may fail | 254,347 | `PendingIsArmed`, `FlushDiscipline`, `QueueLeadsToView`, `DeletedStaysDeleted`, the refinement `ImplementsStore`, the liveness `QueueDrains` |
| `key_value` | 2 keys, 3 values, 3 rows, queue of 3, open may fail | 268,864 | `OneRowPerKey`, `GetReturnsLastSet` |
| `schema` | 3 releases, 2 rows, 4 ends of the program, 1 failed open | 178,055 | `ReadyIsUsable`, `StuckOnlyAfterDeath`, the action property `RowsKept` |
| `context` | pages 0..2, lists of 3, clock to 4, expiry 1, any number of failed opens | 247,157 | `LoadingIsRequest`, `PagesInOrder`, `ShownIsSaved`, `TimeNotAhead`, liveness `LoadingEnds` |
| `history` | 2 projects, 4 links, 2 entries kept, 4 visits, 1 crash, 2 failed opens, symmetry of projects and of links | 777,711 | `ListIsTable`, `TargetsExist`, `OneRowPerLink` |
| `download` | 3 downloads, 2 polls in flight, 1 crash, failures, removals and refusals | 14,038 | `CompleteIsWhole`, `OneWriter`, `TimerFollowsStatus`, liveness `Finishes` and `Settles` |
| `clone` | both callers, 2 workers, 2 dialogs, 1 progress report waiting, 1 crash over the framework's clone | 3,327,987 | `FrameworkIsWhole`, `NoCallbackLost`, `OverlapOnlyAfterLeaving`, `PageKept`, the action property `SuccessIsWhole` |
| `update` | 3 commits, 3 presses, 1 rebuilt cell, 1 crash | 90,158 | `RefNotAhead`, `OneUpdatePerCell`, the action property `UpdateIsFresh` |
| `libraries` | 5 comments, 2 per page, 2 requests, 1 failure, 1 library by hand, 2 openings | 437,649 | `AcceptedIsChain`, liveness `ScrollingReachesAll` |
| `playlist` | 2 ROMs, 3 installs, 1 crash | 178,540 | `OneEntryPerRom`, `SerialIsExact` |
| `lifecycle` | 4 wrappers, 1 C++ object, 2 holds each | 9,232 | `HeldIsAlive`, liveness `Collected` |
| `request` | a body of 3 parts | 539 | the action property `CallbackDiscipline`, liveness `Answered` |

Why the bounds are enough. In `database` two ids let an id be reused if the code
allowed it, three queue entries let an item be lost or reordered in the middle,
and two timers are what it takes for `exce` to lower `wait_action` under an
outstanding timer and a second one to be started. In `key_value` the third row
is the second row of a key. In `schema` an upgrade can be cut short and the
next start cut short again, and the third release finds what an upgrade to the
second has left. In `history` two kept entries and four links make
evictions happen at every visit after the second and let a table that is not
trimmed outgrow its bound, the two projects share links, and two failed opens
are one that loses the list's rows from sight and one that loses a write after
it; the model does not tell projects, or links, apart, so their permutations
are a symmetry of it and of its invariants. In `context` the clock passes the expiry time twice and the list is
longer than one page. In `download` a second start needs a second row, a third
row lets the choice among several rows of `setup` matter, and two polls in
flight are a poll answered later than the next one is asked. In `clone` two
workers are a retry, or a second install beside one that was left. In `update`
a second press can overtake the first and a third repair it. In `libraries`
three pages are what it takes to leave one out in the middle, and the third
comment is about the library of the first. In `playlist` two installs overlap and
a third finds what they left. In `lifecycle` an object, its callback, a wrapper
and one more of each fit. No run but `history` uses symmetry.

`CHECK_DEADLOCK FALSE` stands in all runs but `database`, `key_value`,
`context` and `history`: the others come to rest when their downloads, presses
or objects are used up.

**How far the code goes.** Several properties say exactly when the code departs
from the ideal, in a disjunct of their own:

* `OneRowPerKey`, `GetReturnsLastSet`: if the file fails to open for the SELECT
  of `set` and opens for its INSERT, the key is taken for new and gets a second
  row. In no other way does a key get two.
* `ShownIsSaved`, `TimeNotAhead`: the same failure in Context. A list whose
  UPDATE was queued when the file did not open is on the screen and not on
  file, until the next save. A save whose list is lost and whose time is
  written renews the time of the old list; a death alone never does.
* `PagesInOrder`: only behind restored pages may a page come a second time, for
  the script starts to count anew.
* `ListIsTable`, `TargetsExist`, `OneRowPerLink`: the same failure in History. A
  lost DELETE or UPDATE leaves a row or a date that the list does not show; a
  book that is not written before its row leaves a row that points nowhere; an
  unanswered query for the list or for the row gives a link a second row and
  lets the table grow by another `ITEM_COUNT + 1`. As long as the file opens,
  deaths do none of it, except to leave a row too many.
* `OneWriter`, `CompleteIsWhole`, `TimerFollowsStatus`, `Settles`: a poll about a
  download the user removed, answered after the item was started again, reports
  "None" and opens `start` while the new download runs. `TimerFollowsStatus`
  adds that after a *failed* download a poll answered between the failure and
  the end of `_checkStatus` may leave "Downloading" on the screen with no timer,
  and `Settles` that a download the service refused (`enqueue` threw) stays
  "Downloading" until the program is started again.
* `ReadyIsUsable`, `StuckOnlyAfterDeath`, `RowsKept`: a release always finishes
  its own upgrade, however often it is cut short. But one cut short after the
  version row was saved leaves its `TEMP_` table, which no later start of that
  release drops: the rename of the next release then fails, its CREATE TABLE
  finds the old table, and the program goes on with columns it does not write.
  One death is enough, as is a file that does not open during an upgrade. The
  copy of an upgrade saves no row, and may lock the main thread up.
* `OverlapOnlyAfterLeaving`, `SuccessIsWhole`, `PageKept`: the back button closes
  a cancelable dialog without cancelling its clone. A second install then meets
  the first in the directory, and the late completion of the first pops what is
  on top by then. `FrameworkIsWhole`: a death over the first clone of the
  framework can leave a part that the next start takes for the whole.
* `RefNotAhead`, `UpdateIsFresh`: a cell that was scrolled away and built again
  forgets its running update; a second one may then put an older tree below a
  newer branch. The next update repairs it.
* `ScrollingReachesAll`: a page that overtakes a reload, or a comment posted
  between two pages, leaves a page out until the next reload.
* `SerialIsExact`: overlapping installs lose an entry; a death in the write
  leaves a file on which every later install throws. Not a property but worth
  knowing: `install` makes the thumbnails after it has written the playlist,
  and its caller shows "Write configure file failed!"
  (`lib/localizations/en.dart:24`) when only an image could not be loaded.
* `CallbackDiscipline`: `destroy` does not free `onResponse`, which may still be
  invoked after it.

**Fairness.** Database: weak fairness of the main thread's own steps and of a
timer that is up, which is what an event loop gives; none of callers, crash or
life cycle. Context: a fetch ends (the scripts end every promise with `then` or
`catch`, and Request gives the body of a response 30 seconds; a server that
accepts a connection and never answers is outside this assumption). Download: the method channel, the
receiver, pending futures and the periodic timer move on, the service finishes
a download one way or another, and the program is started again after a crash;
the user need do nothing. Libraries: requests are answered or fail;
`ScrollingReachesAll` carries in its own antecedent that the user keeps
scrolling. Lifecycle: timers fire and a sweep runs to its end. Request: dio or
the cache answers or fails, the timeout of the body fires, and the pool's sweep
destroys what was released; parts of the body need not come. The other
modules have no liveness property and no fairness.

## 4. The proofs

Every theorem holds for all values of the constants that satisfy the assumption
of its module, which TLC evaluates in the module's run. The bounds are among
the constants: what a run shows for 3 downloads or 2 workers the theorem says
for any number. The assumptions ask for natural numbers, for one entry kept and
one tick in a second (`ITEM_COUNT`, `Second` at least 1), for one hold and one
dialog (`MaxHold`, `MaxDialogs` at least 1), and for a clock that can start at
`EXPIRE_TIME + 1`, as a real one is far beyond.
The theorem about Libraries needs only that each comment has a URL and that
`PerPage` is a natural number; those about Playlist and Request need nothing.

All proofs have one shape. An inductive invariant is found (`IInv` in most
modules; TLC checked each on small instances before it was proved), every action
gets a lemma that it keeps it, a theorem or lemma combines them, and the
properties follow from it in a few steps.

| Module | Theorems (property) |
|---|---|
| `DatabaseProofs` | `TypeCorrect`, `PendingAlwaysArmed` (`PendingIsArmed`), `QueueInOrder` (`QueueLeadsToView`), `AnswersComeLast` (`FlushDiscipline`), `NoResurrection` (`DeletedStaysDeleted`), `Implementation` (`ImplementsStore`); for KeyValue `KeysStayUnique` (`OneRowPerKey`), `GetsReadSets` (`GetReturnsLastSet`) |
| `SchemaProofs` | `TableIsUsable` (`ReadyIsUsable`), `StuckNeedsDeath` (`StuckOnlyAfterDeath`), `RowsStay` (`RowsKept`) |
| `ContextProofs` | `TypeCorrect`, `OneFetchAtATime` (`LoadingIsRequest`), `PagesStayInOrder` (`PagesInOrder`), `ShownComesBack` (`ShownIsSaved`), `TimeFollowsList` (`TimeNotAhead`) |
| `HistoryProofs` | `TypeCorrect`, `ListFollowsTable` (`ListIsTable`), `TargetsStay` (`TargetsExist`), `LinksStayUnique` (`OneRowPerLink`) |
| `DownloadProofs` | `OneAtATime` (`OneWriter`), `CompleteShowsWhole` (`CompleteIsWhole`), `TimerFollows` (`TimerFollowsStatus`) |
| `CloneProofs` | `TypeCorrect`, `CallbacksArrive` (`NoCallbackLost`), `OverlapNeedsLeaving` (`OverlapOnlyAfterLeaving`), `PageStays` (`PageKept`), `StartsOnWholeFramework` (`FrameworkIsWhole`), `SuccessOverWhole` (`SuccessIsWhole`) |
| `LibraryProofs` | for Update `BranchBehindTree` (`RefNotAhead`), `OnePerCell` (`OneUpdatePerCell`), `UpdatesAreFresh` (`UpdateIsFresh`); for Playlist `RomsStaySingle` (`OneEntryPerRom`), `SerialInstallsAreExact` (`SerialIsExact`); for Libraries `AcceptedStaysChain` (`AcceptedIsChain`) |
| `LifecycleProofs` | `TypeCorrect`, `HeldStaysAlive` (`HeldIsAlive`), `SweepNeverThrows`; for Request `CallbacksAreDisciplined` (`CallbackDiscipline`) |

**Database.** `IInv` is the conjunction of the type invariant and the three
invariants of the run. None is inductive alone. `PendingIsArmed` needs
`FlushDiscipline`: that an idle queue holds no half-run round is what makes the
timer's promise cover all of it. `QueueLeadsToView`, which says that the pending
statements lead step by step from the file to the database the program believes
in, needs to know that `done` is 0 outside a flush for a push to extend the
chain, and the type of `queue` needs it in turn, because `Action` reads
`queue[done + 1]`. `Implementation` is `Spec => AsStore!Spec` under the
refinement mapping `hist <- <<disk>> \o ahead`, with one case per action: `Exce`
and `QueueExce` are `Issue`, `Action` is `Execute` or, for the last, answered
statement, `Answer`; a failed open, `Crash` and `Setup` are `Forget`; the rest
stutters. Context and History are written on top of Store and lean on it.

**KeyValue.** On top of Database's invariant: not only the file but every
database a crash may leave (`AllSound`) has one row per key outside `missed` and
no row above the counter, which is what an INSERT needs to find its id free;
while a call is on the stack nothing is queued behind it, so that its answered
SELECT has seen the file the next statement will change (`CallSees`); and the
view agrees with `expect` (`Believed`). That the first row found is a row of the
key is shown through a least element of the set of its rows (`FirstRowFound`).

**Schema.** Until the file fails to open, `Stage` tells where `processTable` is
by exactly which statements wait, and what each place knows: that the version
read is the one on file, that between the rename and the save the version on
file is still another, that the table is there once the CREATE TABLE has run.
`DiskOK` is what every death must leave: a version row of this release vouches
for a table with its columns (`Made`), and either the table is that of this
release or missing, or no `TEMP_` table is in the way of a rename. It is this
conjunct that fails across releases, and what the proof attempt found: the run
with two releases could not show it. `RowsOK` gives `RowsKept`: the first release has rows
only under a saved version row, so that no restart takes them for old.

**Context.** `LoadingIsRequest` needs nothing but types. The list needs `Asked`
(a fetch under way asks for page 0 or for the one after the script's own), and
`Untouched` (a tab that was never entered has nothing on the screen), because
`enterView` replaces the list only then. `TimeNotAhead` needs `Honesty`: also no
list is of the future, in the table as written and in what a crash or a failed
open leaves of it. The core is what one `KeyValueSet` can make of a call's
table, file and memory of a failed open, shown once and used twice by `Save`,
for the list and for the time: the time is set to the present, and the list it
vouches for was set in the same call unless the file did not open within it.

**History.** Every database between the file and the latest (`Stored`, `Good`)
tells its rows apart by id, takes ids from its counter, and has a second row of
a link, or a row without its book, only if that row is blind. The list
(`Listed`) has each id once; an entry with an id has its row in all of these
databases, because a DELETE is queued only when its entry leaves the list; and
until the file has failed to open it mirrors the latest. The size is the
delicate part: the rows the list does not show number at most `Surplus`, so that
evicting by the list bounds the table. A crash can leave one row more than the
code keeps, which the next start loads as it is; a file that does not open can
hide a whole list, from which a new one starts, or lose the removals of a visit.
`Searching` ties a visit under way to the list and to the book it has written.

**Download.** `IInv` is `mistaken \/ Sane`: up to the first mistaken answer the
item, the messages on both queues and the service's rows agree. A download is
`Busy` while its row runs or has succeeded, or the news of its end is on its
way; at most one is (`OneBusy`), which gives `OneWriter`. To keep that, `start`
must be open only when none is (`StatusOK`), so every message that can lead to
"None" must be true when it is *read*, not only when it is sent: `GotOK` ties
each answer to the row as it is now, `Follows` says that news of a download
never comes after that of its end (but for a failed one), and `CurrentOK` that
a broadcast that finds a callback is about the current download. `Watched`
covers the timer while nothing has failed. An enqueue has one reply, its id or
an error, and no download is busy when the error is read. Calls are counted
through `Outstanding` and `CalledOnce`. Only `Receive` can break `Sane`, and only by
reading "None" about another download, which is `mistaken`.

**Clone.** A completion is posted once (`Completions`), has a signal on its way
(`Signalled`), and is what the item that holds the action waits for (`Holds`),
which gives `NoCallbackLost`. `Routes`, `Owners` and `Current` tie workers to
dialogs: one route is open, a worker that is still to come back and whose dialog
is open is the one its item holds. As long as no dialog was left (`Undisturbed`)
the worker is the open dialog's and the directory is exactly as far as it is,
which `OverlapOnlyAfterLeaving`, `FrameworkIsWhole` and `SuccessIsWhole` follow
from; `EnvIsNotLeft` because the framework's dialog cannot be cancelled.

**Update.** `InOrder`: tree, branch and targets never run ahead of the tracking
branch. `Cells`: the spinner turns exactly for the update of the cell on the
screen. `Progress`, unless updates were started from two cells: how far a lone
update has come, with the commit it was pressed for below each of its targets.

**Playlist.** `Distinct` lists stay distinct under `removeWhere` and the insertion
in front; every list an install has in hand is distinct too (`Singles`). `Serial`,
up to the first stale or spoilt write: the file is the expected list unless it
is about to be written, and an install whose version is the current one has
the list it needs in hand. `Shown` are the thumbnails an install is past.

**Libraries.** `ChainInv`: the token never is beyond `reach`, and the libraries with a
token are those of the comments up to `reach`. `MatchedRun` is the core: what
`isMatch` accepts of any page is the run of comments from the token on to some
comment, so that a page taken twice, or after a context that had come further,
repeats accepted comments and never skips one. `ParsedRows` says what parsing
such a page makes of the rows.

What `RemoveWhere` and `Parsed` return is proved for every input although both
are recursive: that the loop has a value at every index (`LoopExists`), and that
a property kept by one step holds at its end (`CountUp`), are shown by a least
counterexample.

**Lifecycle.** `Counted` (a count is the holds plus one for a live owner) with
`OneOwner` gives that a count of 0 means nobody refers to it, `Collectable` that
the pool and the sweep hold live objects of count 0, and `Registered` that C++
never finds a destroyed wrapper.

**Request.** `Quiet`: before `start` is over nobody has heard `onComplete`, and a
request that was cancelled, or destroyed after its start, has no callback left
but `onResponse`. Each step that invokes one is then `Disciplined`.

**Only model-checked.** The liveness properties `QueueDrains`, `Finishes`,
`Settles`, `LoadingEnds`, `Collected`, `Answered` and `ScrollingReachesAll`:
fairness is outside the prover's reach. Download has no theorem of its
`TypeOK`: `Types`, a part of `Sane`, gives the types up to the first mistaken
answer, but that the queues stay within their lengths is a count over both.

## 5. What could come next

The modules are what the plan of the model foresaw, and every safety property of
the runs has its theorem. A further step would be contexts of type Search and
Data, over the same collection and loading flag as module Context.

## 6. Not modelled

* **Block downloader** (`multi_downloader.dart`): nothing instantiates the class
  at this commit; the Android service downloads.
* **Search and settings**: `SearchData::insert` has the shape of `KeyValue::set`,
  a search is a fetch under the loading flag of Context, and the settings of a
  project are one row of KeyValue. Contexts of type Data and Setting differ from
  the one modelled in what they save.
* **The web view** (`browser.dart`): nobody sets `Browser.globalKey`, and without
  it `start` does nothing.
* **The transports and engines** (libgit2, dio, WebView, QuickJS, mruby, V8), the
  gcore reflection layer and its own reference counts, parsers and encoders
  (YAML, gumbo, JSON, iconv), widget layout and generated code, localisation, the
  iOS shell, vendored plugins and examples. They either keep no protocol state
  or are not this program's own code; they are also almost all of the
  repository's lines.
* SQLite itself is modelled by the effect of one statement. In Database and
  KeyValue no statement fails; in Schema one that does not prepare is skipped,
  as the code ignores the results of `sqlite3_prepare_v2` and `sqlite3_step`. The
  file that does not open is in Database, KeyValue, Schema, Context and History;
  Libraries takes the rows of GitLibrary to be written.
