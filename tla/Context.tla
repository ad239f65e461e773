------------------------------ MODULE Context ------------------------------
(***************************************************************************)
(* One category tab of a project: its Context (main/Context.cpp) of type   *)
(* Project, the Collection it drives (main/Collection.cpp), the script     *)
(* behind the collection, the CollectionView that shows it with its        *)
(* refresh indicator, and the cached list in the settings table.           *)
(*                                                                         *)
(* The settings table is the store that module Database is proved to       *)
(* implement.  A crash forgets the writes that have not reached the file,  *)
(* and so does a file that does not open, while the program runs on: a     *)
(* query it met is taken for one without results.  hist is the table as    *)
(* KeyValue::get reads it, the first row of each key, before and after the *)
(* last write.  A list is its sequence of page numbers.                    *)
(***************************************************************************)
EXTENDS Naturals, Sequences, SequencesExt

CONSTANTS MaxPage,      \* bound on the page numbers the script asks for
          MaxLength,    \* bound on the pages in the list
          MaxTime,      \* bound on the clock
          EXPIRE_TIME   \* how long a cached list is good for

ASSUME ContextAssumption ==
    /\ MaxPage \in Nat
    /\ MaxLength \in Nat
    /\ MaxTime \in Nat /\ EXPIRE_TIME < MaxTime   \* the clock starts at EXPIRE_TIME + 1
    /\ EXPIRE_TIME \in Nat

VARIABLES hist,         \* the settings table: the file and what is ahead of it
          now,          \* currentTime()
          view,         \* "none": no context; "hidden", "mounted": its view
          first_enter,  \* Context::first_enter
          loading,      \* Collection::loading
          requests,     \* the script's fetches under way
          data,         \* Collection::data
          page,         \* this.page of the script
          restored,     \* history: how many pages of the data came from the cache
          unsaved,      \* history: the file did not open for or after the last save
          spinner       \* BetterRefreshIndicatorController.loading

context == <<first_enter, loading, requests, data, page, restored, unsaved>>
vars == <<hist, now, view, context, spinner>>

Lists == UNION {[1..n -> 0..MaxPage] : n \in 0..MaxLength}

\* list and time are the two keys Context::save sets; at and torn are history:
\* when the list was written, and whether the file failed to open within the
\* save that wrote the time.
Saved == [list : Lists, time : 0..MaxTime, at : 0..MaxTime, torn : BOOLEAN]

\* What get returns for a key that has no row.
NothingSaved == [list |-> <<>>, time |-> 0, at |-> 0, torn |-> FALSE]

Db == INSTANCE Store WITH File <- Saved, Fresh <- NothingSaved, reply <- <<>>

HasRow(s, key) == s[key] # NothingSaved[key]

\* The table s with another value in the first row of the key.
Put(s, key, value, opened) ==
    IF key = "list" THEN [s EXCEPT !.list = value, !.at = now]
    ELSE [s EXCEPT !.time = value, !.torn = ~opened]

\* What KeyValue::set can make of the table that call left.  Its query runs
\* what is queued and the row it finds is updated through the queue; without
\* one an INSERT runs at once, if the file opens again.  A file that does not
\* open for the query forgets what is queued, and the key is taken for new:
\* the INSERT then makes its first row, or a second one that get never reads.
\* hist keeps the table before the write for a crash inside the call.
KeyValueSet(call, key, value) ==
    LET all == Last(call.hist)
        put(t, opened) == Put(t, key, value, opened)
    IN  {[hist |-> <<all, put(all, call.opened)>>,
          file |-> IF HasRow(all, key) THEN all ELSE put(all, call.opened),
          opened |-> call.opened]}
          \cup {[hist |-> <<t>>, file |-> t, opened |-> FALSE] :
                    t \in {call.file} \cup {x \in {all} : ~HasRow(x, key)}}
          \cup {[hist |-> <<t, put(t, FALSE)>>, file |-> put(t, FALSE), opened |-> FALSE] :
                    t \in {x \in {call.file} : ~HasRow(x, key)}}

Before(h) == [hist |-> h, file |-> Head(h), opened |-> TRUE]

\* Mutant: the time is set before the list.
SaveTimeFirst(h, d) ==
    IF d = <<>> THEN hist' = h /\ unsaved' = FALSE
    ELSE \E timed \in KeyValueSet(Before(h), "time", now) :
         \E listed \in KeyValueSet(timed, "list", d) :
             hist' = listed.hist /\ unsaved' = ~listed.opened

\* Context::save behind the dataChanged notification (setupTarget), for the
\* table h: first the list, then its time, unless there is nothing to save.
Save(h, d) ==
    IF d = <<>> THEN hist' = h /\ unsaved' = FALSE
    ELSE \E listed \in KeyValueSet(Before(h), "list", d) :
         \E timed \in KeyValueSet(listed, "time", now) :
             hist' = timed.hist /\ unsaved' = ~timed.opened

\* Context::load: the cached list, with the table the query for it leaves, and
\* the ages the list may be taken to have: of a query that is not answered
\* nothing is known.
Loads == {[hist |-> <<Last(hist)>>, list |-> Last(hist).list],
          [hist |-> <<Head(hist)>>, list |-> <<>>]}
Ages(h) == {now - Last(h).time, now}

\* No notification reaches a view that is gone: dispose clears the callbacks.
Notify(isLoading) == spinner' = (view' = "mounted" /\ isLoading)

-----------------------------------------------------------------------------
Init == /\ hist = <<NothingSaved>>
        /\ now = EXPIRE_TIME + 1
        /\ view = "none"
        /\ first_enter = TRUE
        /\ loading = FALSE
        /\ requests = <<>>
        /\ data = <<>>
        /\ page = 0
        /\ restored = 0
        /\ unsaved = FALSE
        /\ spinner = FALSE

\* What creating, releasing or losing a context leaves in its place.
FreshContext == /\ first_enter' = TRUE
                /\ loading' = FALSE
                /\ requests' = <<>>
                /\ data' = <<>>
                /\ page' = 0
                /\ restored' = 0
                /\ unsaved' = FALSE
                /\ spinner' = FALSE

\* IndexState.initState: Project::createIndexContext.
Create == /\ view = "none"
          /\ view' = "hidden"
          /\ FreshContext
          /\ UNCHANGED <<hist, now>>

\* IndexState.dispose: the context is released with its script.
Release == /\ view = "hidden"
           /\ view' = "none"
           /\ FreshContext
           /\ UNCHANGED <<hist, now>>

\* Collection::reload, when the collection is not loading.
StartReload == /\ requests' = Append(requests, [kind |-> "reload", page |-> 0])
               /\ loading' = TRUE
               /\ Notify(TRUE)

\* CollectionViewState.initState and Context::enterView: a context entered
\* for the first time shows the cached list, which saves it again, and
\* reloads when the list is missing or was too old.  forceUpdate is FALSE: only
\* a Setting context raises $UPDATE, and no page of the application opens one.
EnterView ==
    /\ view = "hidden"
    /\ view' = "mounted"
    /\ first_enter' = FALSE
    /\ IF first_enter
       THEN \E cached \in Loads : \E age \in Ages(cached.hist) :
            /\ data' = cached.list
            /\ restored' = Len(cached.list)
            /\ Save(cached.hist, cached.list)
            /\ IF age > EXPIRE_TIME \/ cached.list = <<>>
               THEN StartReload
               ELSE UNCHANGED <<requests, loading, spinner>>
       ELSE UNCHANGED <<hist, data, restored, unsaved, requests, loading, spinner>>
    /\ UNCHANGED <<now, page>>

\* CollectionViewState.dispose: the tab is out of sight, the context stays.
ExitView == /\ view = "mounted"
            /\ view' = "hidden"
            /\ spinner' = FALSE
            /\ UNCHANGED <<hist, now, context>>

\* Mutant: a refresh does not look at Collection::loading.
RefreshUnguarded ==
    /\ view = "mounted"
    /\ ~spinner
    /\ Len(requests) < 2
    /\ UNCHANGED view
    /\ StartReload
    /\ UNCHANGED <<hist, now, first_enter, data, page, restored, unsaved>>

\* The user pulls the list down: BetterRefreshIndicatorController._onRefresh,
\* Context::reload and Collection::reload.
Refresh == /\ view = "mounted"
           /\ ~spinner
           /\ ~loading
           /\ UNCHANGED view
           /\ StartReload
           /\ UNCHANGED <<hist, now, first_enter, data, page, restored, unsaved>>

\* Mutant: loadMore does not look at Collection::loading.
LoadMoreUnguarded ==
    /\ view = "mounted"
    /\ page < MaxPage
    /\ Len(requests) < 2
    /\ UNCHANGED view
    /\ requests' = Append(requests, [kind |-> "more", page |-> page + 1])
    /\ loading' = TRUE
    /\ Notify(TRUE)
    /\ UNCHANGED <<hist, now, first_enter, data, page, restored, unsaved>>

\* The list is scrolled to its end: Context::loadMore, Collection::loadMore
\* and loadMore of the script, for a category that has pages.
LoadMore == /\ view = "mounted"
            /\ ~loading
            /\ page < MaxPage
            /\ UNCHANGED view
            /\ requests' = Append(requests, [kind |-> "more", page |-> page + 1])
            /\ loading' = TRUE
            /\ Notify(TRUE)
            /\ UNCHANGED <<hist, now, first_enter, data, page, restored, unsaved>>

\* The callback of Collection::reload and Collection::loadMore.
Loaded(i) == /\ requests' = RemoveAt(requests, i)
             /\ loading' = FALSE
             /\ UNCHANGED view
             /\ Notify(FALSE)
             /\ UNCHANGED <<now, first_enter>>

\* Mutant: what appendData adds is not saved.
FetchedAppendUnsaved(i, found) ==
    LET r == requests[i]
    IN  /\ page' = r.page
        /\ restored' = IF r.kind = "reload" THEN 0 ELSE restored
        /\ data' = (IF r.kind = "reload" THEN <<>> ELSE data)
                     \o (IF found THEN <<r.page>> ELSE <<>>)
        /\ Len(data') <= MaxLength
        /\ IF r.kind = "reload" THEN Save(hist, data') ELSE UNCHANGED <<hist, unsaved>>
        /\ Loaded(i)

\* A fetch of the script succeeds, with items or without any: setData or
\* appendData, each of which notifies and so saves, then the callback.
Fetched(i, found) ==
    LET r == requests[i]
    IN  /\ page' = r.page
        /\ restored' = IF r.kind = "reload" THEN 0 ELSE restored
        /\ data' = (IF r.kind = "reload" THEN <<>> ELSE data)
                     \o (IF found THEN <<r.page>> ELSE <<>>)
        /\ Len(data') <= MaxLength
        /\ Save(hist, data')
        /\ Loaded(i)

\* Mutant: the callback only lowers loading when there was no error.
FailedKeepsLoading(i) == /\ requests' = RemoveAt(requests, i)
                         /\ UNCHANGED <<hist, now, view, first_enter, loading,
                                        data, page, restored, unsaved, spinner>>

\* A fetch fails: the callback gets the error.
Failed(i) == /\ Loaded(i)
             /\ UNCHANGED <<hist, data, page, restored, unsaved>>

Complete == \E i \in DOMAIN requests : \/ \E found \in BOOLEAN : Fetched(i, found)
                                       \/ Failed(i)

\* checkQueue, from its timer or for another caller: the file catches up.
Execute == /\ Db!Execute
           /\ UNCHANGED <<now, view, context, spinner>>

\* checkQueue, when the file does not open: what is queued is forgotten, and
\* nobody is told.
Unopened == /\ Len(hist) > 1
            /\ Db!Forget
            /\ unsaved' = TRUE
            /\ UNCHANGED <<now, view, first_enter, loading, requests, data, page,
                           restored, spinner>>

\* Time passes.
Tick == /\ now < MaxTime
        /\ now' = now + 1
        /\ UNCHANGED <<hist, view, context, spinner>>

\* The process dies; the writes that have not reached the file are lost.
Crash == /\ view # "none"
         /\ view' = "none"
         /\ Db!Forget
         /\ FreshContext
         /\ UNCHANGED now

Next == \/ Create \/ Release \/ EnterView \/ ExitView
        \/ Refresh \/ LoadMore \/ Complete
        \/ Execute \/ Unopened \/ Tick \/ Crash

\* The scripts end every fetch with then or catch.
Fairness == WF_vars(Complete)

Spec == Init /\ [][Next]_vars /\ Fairness

-----------------------------------------------------------------------------
\* The values the variables take.
TypeOK ==
    /\ hist \in Seq(Saved) /\ Len(hist) \in 1..2
    /\ now \in 0..MaxTime
    /\ view \in {"none", "hidden", "mounted"}
    /\ first_enter \in BOOLEAN
    /\ loading \in BOOLEAN
    /\ requests \in Seq([kind : {"reload", "more"}, page : 0..MaxPage])
    /\ data \in Lists
    /\ page \in 0..MaxPage
    /\ restored \in 0..MaxLength
    /\ unsaved \in BOOLEAN
    /\ spinner \in BOOLEAN

\* Collection::loading is up exactly while the script has a fetch under way,
\* and there is never a second one: neither does an error leave the list
\* without a way to reload nor can two answers overwrite each other.  The
\* refresh indicator of the view on the screen only turns meanwhile, across
\* views that come and go during a fetch (Collection.cpp:20-62,
\* collection_view.dart:123-166, better_refresh_indicator.dart:15-39).
LoadingIsRequest ==
    /\ Len(requests) = IF loading THEN 1 ELSE 0
    /\ spinner => view = "mounted" /\ loading

\* What this context has fetched is in order: behind the pages restored from
\* the cache, of which a reload leaves none, page numbers increase up to the
\* script's, whatever fails, is refreshed or scrolled in between.  A page can
\* be in the list twice only where a restored list goes on with the script's
\* counter at 0 (Collection.cpp:43-62, 75-91; index.js page counter).
PagesInOrder ==
    /\ \A i, j \in (restored + 1)..Len(data) : i < j => data[i] < data[j]
    /\ \A i \in (restored + 1)..Len(data) : data[i] <= page

\* The list on the screen is the one a restart would bring back, once the
\* queue is written.  Only a file that did not open for its save, or between
\* the save and the queue's flush, leaves an older one, until the next save
\* (Context.cpp:237-258, 327-343; SQLite.cpp:213-218).
ShownIsSaved == data # <<>> /\ ~unsaved => Db!Latest.list = data

\* In the file, and in every state that a crash or a file that does not open
\* may leave it in, the saved time never vouches for a list written before
\* it: save sets the list first.  The one exception is a save within which
\* the file did not open and opened again for the time: it renews the time of
\* the old list (Context.cpp:237-245, KeyValue.cpp:21-33).
TimeNotAhead == \A i \in DOMAIN hist : hist[i].time <= hist[i].at \/ hist[i].torn

\* Every fetch comes to an end for the collection (Collection.cpp:23-34,
\* 46-55).
LoadingEnds == loading ~> ~loading
=============================================================================
