--------------------------- MODULE ContextProofs ----------------------------
(***************************************************************************)
(* Theorems about one category tab of module Context, for any number of    *)
(* pages and any clock, wherever the file does not open.                   *)
(***************************************************************************)
EXTENDS Context, SequenceTheorems, TLAPS

\* A reload asks for the first page, loadMore for the one after the script's.
Asked == \A i \in DOMAIN requests :
            requests[i].page = IF requests[i].kind = "reload" THEN 0 ELSE page + 1

\* A context that was never entered is not on the screen and has asked for
\* nothing.
Untouched == first_enter => view # "mounted" /\ requests = <<>>

\* A table whose list was not written in the future and whose time does not
\* vouch for an older list, unless a save was torn.
Honest(t) == t \in Saved /\ t.at <= now /\ (t.time <= t.at \/ t.torn)

Honesty == \A i \in DOMAIN hist : Honest(hist[i])

\* What the list on the screen rests on.
Content == Asked /\ Untouched /\ PagesInOrder /\ ShownIsSaved

IInv == TypeOK /\ LoadingIsRequest /\ Content /\ Honesty

-----------------------------------------------------------------------------
(***************************************************************************)
(* The operators.                                                          *)
(***************************************************************************)

\* The lists are the short sequences of pages.
LEMMA ListsAreSequences ==
    Lists = {s \in Seq(0..MaxPage) : Len(s) <= MaxLength}
<1> USE ContextAssumption DEF Lists
<1>1. ASSUME NEW s \in Lists
      PROVE  s \in Seq(0..MaxPage) /\ Len(s) <= MaxLength
    <2>1. PICK n \in 0..MaxLength : s \in [1..n -> 0..MaxPage]
        OBVIOUS
    <2> QED
        BY <2>1
<1>2. ASSUME NEW s \in Seq(0..MaxPage), Len(s) <= MaxLength
      PROVE  s \in Lists
    <2>1. s \in [1..Len(s) -> 0..MaxPage] /\ Len(s) \in 0..MaxLength
        BY <1>2, LenProperties
    <2> QED
        BY <2>1
<1> QED
    BY <1>1, <1>2

\* The table is one or two honest ones, the last of which the program sees.
LEMMA TableEnds ==
    ASSUME TypeOK, Honesty
    PROVE  /\ hist # <<>> /\ DOMAIN hist = 1..Len(hist) /\ Len(hist) \in DOMAIN hist
           /\ Head(hist) = hist[1] /\ Last(hist) = hist[Len(hist)]
           /\ Honest(Head(hist)) /\ Honest(Last(hist)) /\ Db!Latest = Last(hist)
<1>1. hist \in Seq(Saved) /\ Len(hist) \in 1..2
    BY DEF TypeOK
<1>2. DOMAIN hist = 1..Len(hist)
    BY <1>1, LenProperties
<1>3. hist # <<>>
    BY <1>1, EmptySeq
<1>4. 1 \in DOMAIN hist /\ Len(hist) \in DOMAIN hist
    BY <1>1, <1>2
<1>5. Head(hist) = hist[1]
    BY <1>1, <1>3, HeadTailProperties
<1>6. Last(hist) = hist[Len(hist)]
    BY DEF Last
<1> QED
    BY <1>2, <1>3, <1>4, <1>5, <1>6 DEF Honesty, Db!Latest

\* A request that is alone leaves nothing behind.
LEMMA RemoveOnly ==
    ASSUME NEW S, NEW s \in Seq(S), Len(s) = 1, NEW i \in DOMAIN s
    PROVE  RemoveAt(s, i) = <<>>
<1>1. i = 1
    BY LenProperties
<1>2. SubSeq(s, 1, 0) = <<>> /\ SubSeq(s, 2, 1) = <<>>
    BY SubSeqEmpty
<1>3. <<>> \o <<>> = <<>>
    OBVIOUS
<1> QED
    BY <1>1, <1>2, <1>3 DEF RemoveAt

\* One table, or two, and the ends of them.
LEMMA Pairs ==
    ASSUME NEW a \in Saved, NEW b \in Saved
    PROVE  /\ <<a>> \in Seq(Saved) /\ Len(<<a>>) = 1 /\ <<a>>[1] = a
           /\ Head(<<a>>) = a /\ Last(<<a>>) = a
           /\ <<a, b>> \in Seq(Saved) /\ Len(<<a, b>>) = 2
           /\ <<a, b>>[1] = a /\ <<a, b>>[2] = b
           /\ Head(<<a, b>>) = a /\ Last(<<a, b>>) = b
<1>1. \A s : Last(s) = s[Len(s)]
    BY DEF Last
<1>2. <<a>> \in Seq(Saved) /\ Len(<<a>>) = 1 /\ <<a>>[1] = a /\ Head(<<a>>) = a
    OBVIOUS
<1>3. /\ <<a, b>> \in Seq(Saved) /\ Len(<<a, b>>) = 2
      /\ <<a, b>>[1] = a /\ <<a, b>>[2] = b /\ Head(<<a, b>>) = a
    OBVIOUS
<1>4. Last(<<a>>) = a
    BY <1>1, <1>2
<1>5. Last(<<a, b>>) = b
    BY <1>1, <1>3
<1> QED
    BY <1>2, <1>3, <1>4, <1>5

\* The three things KeyValue::set can do: write, nothing, or write to the file
\* as it was.
LEMMA SetCases ==
    ASSUME NEW call, NEW key, NEW value, NEW o \in KeyValueSet(call, key, value)
    PROVE  \/ /\ o.hist = <<Last(call.hist), Put(Last(call.hist), key, value, call.opened)>>
              /\ o.file \in {Last(call.hist), Put(Last(call.hist), key, value, call.opened)}
              /\ o.opened = call.opened
           \/ /\ o.hist = <<o.file>> /\ o.file \in {call.file, Last(call.hist)}
              /\ o.opened = FALSE
           \/ /\ o.hist = <<call.file, Put(call.file, key, value, FALSE)>>
              /\ o.file = Put(call.file, key, value, FALSE)
              /\ o.opened = FALSE
<1> DEFINE all == Last(call.hist)
           p == Put(all, key, value, call.opened)
           q == Put(call.file, key, value, FALSE)
<1>1. \/ o = [hist |-> <<all, p>>, file |-> IF HasRow(all, key) THEN all ELSE p,
              opened |-> call.opened]
      \/ \E t \in {call.file, all} : o = [hist |-> <<t>>, file |-> t, opened |-> FALSE]
      \/ o = [hist |-> <<call.file, q>>, file |-> q, opened |-> FALSE]
    BY Zenon DEF KeyValueSet
<1> HIDE DEF all, p, q
<1>2. CASE o = [hist |-> <<all, p>>, file |-> IF HasRow(all, key) THEN all ELSE p,
                opened |-> call.opened]
    BY <1>2 DEF all, p
<1>3. CASE \E t \in {call.file, all} : o = [hist |-> <<t>>, file |-> t, opened |-> FALSE]
    <2>1. PICK t \in {call.file, all} : o = [hist |-> <<t>>, file |-> t, opened |-> FALSE]
        BY <1>3
    <2>2. o.hist = <<t>> /\ o.file = t /\ o.opened = FALSE
        BY <2>1
    <2> QED
        BY <2>1, <2>2 DEF all
<1>4. CASE o = [hist |-> <<call.file, q>>, file |-> q, opened |-> FALSE]
    BY <1>4 DEF q
<1> QED
    BY <1>1, <1>2, <1>3, <1>4

\* What a list that is written makes of an honest table.
LEMMA PutList ==
    ASSUME TypeOK, NEW t, Honest(t), NEW d \in Lists, NEW b
    PROVE  /\ Honest(Put(t, "list", d, b))
           /\ Put(t, "list", d, b).list = d /\ Put(t, "list", d, b).at = now
<1>1. t \in Saved /\ now \in 0..MaxTime
    BY DEF Honest, TypeOK
<1> DEFINE p == Put(t, "list", d, b)
<1>2. p = [t EXCEPT !.list = d, !.at = now]
    BY DEF Put
<1>3. /\ p \in Saved /\ p.list = d /\ p.at = now
      /\ p.time = t.time /\ p.torn = t.torn
    BY <1>1, <1>2 DEF Saved
<1>4. t.time <= now \/ t.torn
    BY <1>1, ContextAssumption DEF Honest, Saved
<1> HIDE DEF p
<1>5. Honest(p)
    BY <1>1, <1>3, <1>4, ContextAssumption DEF Honest
<1> QED
    BY <1>3, <1>5 DEF p

\* What a time that is written makes of it: it is honest about a list written
\* now, and torn otherwise.
LEMMA PutTime ==
    ASSUME TypeOK, NEW t, Honest(t), NEW b \in BOOLEAN, b => t.at = now
    PROVE  /\ Honest(Put(t, "time", now, b))
           /\ Put(t, "time", now, b).list = t.list
<1>1. t \in Saved /\ now \in 0..MaxTime
    BY DEF Honest, TypeOK
<1>2. /\ Put(t, "time", now, b) \in Saved
      /\ Put(t, "time", now, b).list = t.list /\ Put(t, "time", now, b).at = t.at
      /\ Put(t, "time", now, b).time = now /\ Put(t, "time", now, b).torn = ~b
    BY <1>1 DEF Put, Saved
<1> QED
    BY <1>1, <1>2, ContextAssumption DEF Honest, Saved

\* Context::save: every table it passes is honest, and when the file opened
\* throughout the program sees the new list.
LEMMA SaveEffect ==
    ASSUME TypeOK, NEW h, Honest(Head(h)), Honest(Last(h)), h \in Seq(Saved),
           Len(h) \in 1..2, \A i \in 1..Len(h) : Honest(h[i]),
           NEW d \in Lists, Save(h, d), UNCHANGED now
    PROVE  /\ hist' \in Seq(Saved) /\ Len(hist') \in 1..2 /\ unsaved' \in BOOLEAN
           /\ Honesty'
           /\ d # <<>> /\ ~unsaved' => Db!Latest'.list = d
<1>1. CASE d = <<>>
    <2>1. hist' = h /\ unsaved' = FALSE
        BY <1>1 DEF Save
    <2>2. DOMAIN hist' = 1..Len(h)
        BY <2>1, LenProperties
    <2>3. Honesty'
        BY <2>1, <2>2 DEF Honesty, Honest
    <2>4. unsaved' \in BOOLEAN
        BY <2>1, Zenon
    <2> QED
        BY <1>1, <2>1, <2>3, <2>4
<1>2. CASE d # <<>>
    <2>1. PICK listed \in KeyValueSet(Before(h), "list", d) :
            \E timed \in KeyValueSet(listed, "time", now) :
                hist' = timed.hist /\ unsaved' = ~timed.opened
        BY <1>2 DEF Save
    <2>2. PICK timed \in KeyValueSet(listed, "time", now) :
                hist' = timed.hist /\ unsaved' = ~timed.opened
        BY <2>1
    <2>3. Before(h).hist = h /\ Before(h).file = Head(h) /\ Before(h).opened = TRUE
        BY DEF Before
    <2> DEFINE x == Last(h)
               f == Head(h)
    <2>4. Honest(x) /\ Honest(f)
        OBVIOUS
    <2> HIDE DEF x, f
    <2>5. /\ listed.opened \in BOOLEAN /\ Honest(listed.file) /\ Honest(Last(listed.hist))
          /\ listed.opened => Last(listed.hist).list = d /\ Last(listed.hist).at = now
        <3> DEFINE p == Put(x, "list", d, TRUE)
                   q == Put(f, "list", d, FALSE)
        <3>1. Honest(p) /\ Honest(q) /\ p.list = d /\ p.at = now
            BY <2>4, PutList
        <3>2. \/ listed.hist = <<x, p>> /\ listed.file \in {x, p} /\ listed.opened = TRUE
              \/ listed.hist = <<listed.file>> /\ listed.file \in {f, x} /\ listed.opened = FALSE
              \/ listed.hist = <<f, q>> /\ listed.file = q /\ listed.opened = FALSE
            <4> DEFINE c == Before(h)
            <4>1. \/ /\ listed.hist = <<Last(c.hist), Put(Last(c.hist), "list", d, c.opened)>>
                     /\ listed.file \in {Last(c.hist), Put(Last(c.hist), "list", d, c.opened)}
                     /\ listed.opened = c.opened
                  \/ /\ listed.hist = <<listed.file>> /\ listed.file \in {c.file, Last(c.hist)}
                     /\ listed.opened = FALSE
                  \/ /\ listed.hist = <<c.file, Put(c.file, "list", d, FALSE)>>
                     /\ listed.file = Put(c.file, "list", d, FALSE)
                     /\ listed.opened = FALSE
                BY SetCases, Zenon
            <4>2. c.hist = h /\ c.file = f /\ c.opened = TRUE /\ Last(h) = x
                BY <2>3 DEF f, x
            <4> HIDE DEF c
            <4> QED
                BY <4>1, <4>2, Zenon
        <3> HIDE DEF p, q
        <3>3. \A a : Honest(a) => a \in Saved
            BY DEF Honest
        <3>4. CASE listed.hist = <<x, p>> /\ listed.file \in {x, p} /\ listed.opened = TRUE
            <4>1. Last(<<x, p>>) = p
                BY <2>4, <3>1, <3>3, Pairs, Zenon
            <4> QED
                BY <2>4, <3>1, <3>4, <4>1
        <3>5. CASE listed.hist = <<listed.file>> /\ listed.file \in {f, x} /\ listed.opened = FALSE
            <4>1. Last(<<f>>) = f /\ Last(<<x>>) = x
                BY <2>4, <3>3, Pairs, Zenon
            <4> QED
                BY <2>4, <3>5, <4>1
        <3>6. CASE listed.hist = <<f, q>> /\ listed.file = q /\ listed.opened = FALSE
            <4>1. Last(<<f, q>>) = q
                BY <2>4, <3>1, <3>3, Pairs, Zenon
            <4> QED
                BY <2>4, <3>1, <3>6, <4>1
        <3> QED
            BY <3>2, <3>4, <3>5, <3>6
    <2> DEFINE y == Last(listed.hist)
               g == listed.file
               p == Put(y, "time", now, listed.opened)
               q == Put(g, "time", now, FALSE)
    <2>6. /\ Honest(p) /\ Honest(q) /\ p.list = y.list
          /\ Honest(y) /\ Honest(g)
        BY <2>5, PutTime
    <2>7. \/ timed.hist = <<y, p>> /\ timed.opened = listed.opened
          \/ timed.hist = <<timed.file>> /\ timed.file \in {g, y} /\ timed.opened = FALSE
          \/ timed.hist = <<g, q>> /\ timed.opened = FALSE
        BY SetCases, Zenon
    <2>8. listed.opened => y.list = d
        BY <2>5
    <2> HIDE DEF y, g, p, q
    <2>9. \A a : Honest(a) => a \in Saved /\ Honest(a)'
        BY DEF Honest
    <2>10. /\ timed.hist \in Seq(Saved) /\ Len(timed.hist) \in 1..2
           /\ \A i \in 1..Len(timed.hist) : Honest(timed.hist[i])
           /\ timed.opened \in BOOLEAN
           /\ timed.opened => timed.hist[Len(timed.hist)].list = d
        <3>1. CASE timed.hist = <<y, p>> /\ timed.opened = listed.opened
            <4>1. /\ <<y, p>> \in Seq(Saved) /\ Len(<<y, p>>) = 2
                  /\ <<y, p>>[1] = y /\ <<y, p>>[2] = p
                BY <2>6, <2>9, Pairs, Zenon
            <4> QED
                BY <2>5, <2>6, <2>8, <3>1, <4>1
        <3>2. CASE timed.hist = <<timed.file>> /\ timed.file \in {g, y} /\ timed.opened = FALSE
            <4>1. /\ <<g>> \in Seq(Saved) /\ Len(<<g>>) = 1 /\ <<g>>[1] = g
                  /\ <<y>> \in Seq(Saved) /\ Len(<<y>>) = 1 /\ <<y>>[1] = y
                BY <2>6, <2>9, Pairs, Zenon
            <4> QED
                <5>1. timed.opened \in BOOLEAN /\ ~timed.opened
                    BY <3>2, Zenon
                <5>2. /\ timed.hist \in Seq(Saved) /\ Len(timed.hist) \in 1..2
                      /\ \A i \in 1..Len(timed.hist) : Honest(timed.hist[i])
                    BY <2>6, <3>2, <4>1
                <5> QED
                    BY <5>1, <5>2, Zenon
        <3>3. CASE timed.hist = <<g, q>> /\ timed.opened = FALSE
            <4>1. /\ <<g, q>> \in Seq(Saved) /\ Len(<<g, q>>) = 2
                  /\ <<g, q>>[1] = g /\ <<g, q>>[2] = q
                BY <2>6, <2>9, Pairs, Zenon
            <4> QED
                <5>1. timed.opened \in BOOLEAN /\ ~timed.opened
                    BY <3>3, Zenon
                <5>2. /\ timed.hist \in Seq(Saved) /\ Len(timed.hist) \in 1..2
                      /\ \A i \in 1..Len(timed.hist) : Honest(timed.hist[i])
                    BY <2>6, <3>3, <4>1
                <5> QED
                    BY <5>1, <5>2, Zenon
        <3> QED
            BY <2>7, <3>1, <3>2, <3>3
    <2>11. unsaved' \in BOOLEAN /\ (~unsaved' => timed.opened)
        BY <2>2, <2>10, Zenon
    <2>12. DOMAIN hist' = 1..Len(timed.hist) /\ hist' = timed.hist
        BY <2>2, <2>10, LenProperties
    <2>13. Honesty'
        BY <2>9, <2>10, <2>12 DEF Honesty, Honest
    <2> QED
        BY <2>10, <2>11, <2>12, <2>13 DEF Db!Latest
<1> QED
    BY <1>1, <1>2

-----------------------------------------------------------------------------
(***************************************************************************)
(* The steps.                                                              *)
(***************************************************************************)

\* A context that is created, released or lost has nothing to show.
LEMMA FreshStep ==
    ASSUME FreshContext, view' # "mounted"
    PROVE  /\ LoadingIsRequest' /\ Content'
           /\ first_enter' \in BOOLEAN /\ loading' \in BOOLEAN /\ unsaved' \in BOOLEAN
           /\ spinner' \in BOOLEAN /\ restored' \in 0..MaxLength
           /\ requests' \in Seq([kind : {"reload", "more"}, page : 0..MaxPage])
           /\ data' \in Lists /\ page' \in 0..MaxPage
<1> USE ContextAssumption DEF FreshContext
<1>1. <<>> \in Lists
    BY ListsAreSequences
<1>2. /\ first_enter' \in BOOLEAN /\ loading' \in BOOLEAN /\ unsaved' \in BOOLEAN
      /\ spinner' \in BOOLEAN
    BY Zenon
<1>3. LoadingIsRequest'
    BY DEF LoadingIsRequest
<1>4. Content'
    BY DEF Content, Asked, Untouched, PagesInOrder, ShownIsSaved
<1> QED
    BY <1>1, <1>2, <1>3, <1>4

\* Collection::reload of a collection that is not loading.
LEMMA ReloadStep ==
    ASSUME TypeOK, LoadingIsRequest, ~loading, StartReload, view' = "mounted"
    PROVE  /\ LoadingIsRequest' /\ loading' \in BOOLEAN /\ spinner' \in BOOLEAN
           /\ requests' = <<[kind |-> "reload", page |-> 0]>>
<1>1. requests = <<>>
    BY EmptySeq DEF TypeOK, LoadingIsRequest
<1>2. requests' = <<[kind |-> "reload", page |-> 0]>>
    BY <1>1 DEF StartReload
<1>3. loading' /\ loading' \in BOOLEAN /\ spinner' \in BOOLEAN
    BY Zenon DEF StartReload, Notify
<1>4. Len(requests') = 1
    BY <1>2
<1> QED
    BY <1>2, <1>3, <1>4 DEF LoadingIsRequest

\* The callback of Collection::reload and Collection::loadMore: the one
\* request is gone, loading is lowered and the indicator stops.
LEMMA LoadedStep ==
    ASSUME TypeOK, LoadingIsRequest, NEW i \in DOMAIN requests, Loaded(i)
    PROVE  /\ requests' = <<>> /\ ~loading' /\ ~spinner'
           /\ loading' \in BOOLEAN /\ spinner' \in BOOLEAN
           /\ LoadingIsRequest'
           /\ loading /\ Len(requests) = 1 /\ i = 1
           /\ UNCHANGED <<now, view, first_enter>>
<1>1. Len(requests) = 1 /\ loading
    BY LenProperties DEF TypeOK, LoadingIsRequest
<1>2. requests' = <<>> /\ i = 1
    BY <1>1, RemoveOnly, LenProperties DEF Loaded, TypeOK
<1>3. ~loading' /\ ~spinner' /\ loading' \in BOOLEAN /\ spinner' \in BOOLEAN
    BY Zenon DEF Loaded, Notify
<1>4. Len(requests') = 0
    BY <1>2
<1> QED
    BY <1>1, <1>2, <1>3, <1>4 DEF Loaded, LoadingIsRequest

\* The pages that a fetch brings come after the ones that are there, or
\* replace them.
LEMMA FetchedStep ==
    ASSUME IInv, NEW i \in DOMAIN requests, NEW found \in BOOLEAN, Fetched(i, found)
    PROVE  IInv'
<1> DEFINE r == requests[i]
           old == IF r.kind = "reload" THEN <<>> ELSE data
           new == IF found THEN <<r.page>> ELSE <<>>
<1> USE ContextAssumption
<1>1. /\ requests' = <<>> /\ LoadingIsRequest'
      /\ loading' \in BOOLEAN /\ spinner' \in BOOLEAN
      /\ UNCHANGED <<now, view, first_enter>>
      /\ requests # <<>>
    BY LoadedStep DEF Fetched, IInv
<1>2. /\ r.kind \in {"reload", "more"} /\ r.page \in 0..MaxPage
      /\ r.page = IF r.kind = "reload" THEN 0 ELSE page + 1
    <2>1. r \in [kind : {"reload", "more"}, page : 0..MaxPage]
        BY ElementOfSeq, LenProperties DEF IInv, TypeOK
    <2>2. Asked
        BY DEF IInv, Content
    <2> QED
        BY <2>1, <2>2 DEF Asked
<1>3. /\ page' = r.page /\ restored' = (IF r.kind = "reload" THEN 0 ELSE restored)
      /\ data' = old \o new
      /\ Len(data') <= MaxLength /\ Save(hist, data')
    BY DEF Fetched
<1>4. data \in Seq(0..MaxPage)
    BY ListsAreSequences DEF IInv, TypeOK
<1>5. old \in Seq(0..MaxPage) /\ new \in Seq(0..MaxPage)
    <2> HIDE DEF r
    <2>1. <<r.page>> \in Seq(0..MaxPage) /\ <<>> \in Seq(0..MaxPage)
        BY <1>2
    <2> QED
        BY <1>4, <2>1
<1>6. /\ data' \in Seq(0..MaxPage) /\ Len(data') = Len(old) + Len(new)
      /\ \A k \in 1..(Len(old) + Len(new)) :
            data'[k] = IF k <= Len(old) THEN old[k] ELSE new[k - Len(old)]
    <2> HIDE DEF old, new
    <2> QED
        BY <1>3, <1>5, ConcatProperties
<1>7. data' \in Lists
    BY <1>3, <1>6, ListsAreSequences
<1>8. /\ hist' \in Seq(Saved) /\ Len(hist') \in 1..2 /\ unsaved' \in BOOLEAN
      /\ Honesty'
      /\ data' # <<>> /\ ~unsaved' => Db!Latest'.list = data'
    <2>1. /\ TypeOK /\ Honesty /\ hist \in Seq(Saved) /\ Len(hist) \in 1..2
          /\ DOMAIN hist = 1..Len(hist) /\ Honest(Head(hist)) /\ Honest(Last(hist))
        BY TableEnds DEF IInv, TypeOK
    <2>2. \A k \in 1..Len(hist) : Honest(hist[k])
        BY <2>1 DEF Honesty
    <2> QED
        BY <1>1, <1>3, <1>7, <2>1, <2>2, SaveEffect
<1>9. restored' \in 0..MaxLength
    BY <1>2, <1>3 DEF IInv, TypeOK
<1>10. TypeOK'
    BY <1>1, <1>2, <1>3, <1>7, <1>8, <1>9 DEF IInv, TypeOK
<1>11. PagesInOrder'
    <2> DEFINE R == restored'
    <2> SUFFICES /\ \A k, l \in (R + 1)..Len(data') : k < l => data'[k] < data'[l]
                 /\ \A k \in (R + 1)..Len(data') : data'[k] <= page'
        BY DEF PagesInOrder
    <2>0. Len(old) \in Nat /\ Len(new) \in 0..1
        BY <1>5, LenProperties
    <2>1. /\ Len(new) = 1 => new[1] = r.page
          /\ DOMAIN old = 1..Len(old) /\ DOMAIN data' = 1..(Len(old) + Len(new))
        BY <1>5, <1>6, LenProperties
    <2>2. /\ \A k \in (R + 1)..Len(old) : old[k] \in Nat /\ old[k] < r.page
          /\ \A k, l \in (R + 1)..Len(old) : k < l => old[k] < old[l]
        <3>1. CASE r.kind = "reload"
            <4>1. Len(old) = 0 /\ R = 0
                BY <1>3, <3>1
            <4> HIDE DEF R, old, r
            <4> QED
                BY <4>1
        <3>2. CASE r.kind = "more"
            <4>1. R = restored /\ old = data /\ r.page = page + 1 /\ page \in Nat /\ R \in Nat
                BY <1>2, <1>3, <3>2 DEF IInv, TypeOK
            <4>2. \A k \in (R + 1)..Len(data) : data[k] \in Nat
                BY <1>4, <4>1, LenProperties, ElementOfSeq
            <4> HIDE DEF R, old, r
            <4> QED
                BY <4>1, <4>2 DEF IInv, Content, PagesInOrder
        <3> QED
            BY <1>2, <3>1, <3>2
    <2>3. \A k \in 1..(Len(old) + Len(new)) :
                \/ k \in DOMAIN old /\ data'[k] = old[k]
                \/ k = Len(old) + 1 /\ data'[k] = r.page
        <3> HIDE DEF r, old, new
        <3> TAKE k \in 1..(Len(old) + Len(new))
        <3>1. CASE k <= Len(old)
            BY <1>6, <2>1, <3>1
        <3>2. CASE k > Len(old)
            <4>1. ASSUME NEW m \in Nat, NEW n \in 0..1, k \in 1..(m + n), k > m
                  PROVE  k = m + 1 /\ k - m = 1 /\ n = 1
                BY <4>1
            <4>2. k = Len(old) + 1 /\ k - Len(old) = 1 /\ Len(new) = 1
                BY <2>0, <3>2, <4>1, Zenon
            <4> QED
                BY <1>6, <2>1, <3>2, <4>2
        <3> QED
            BY <2>0, <3>1, <3>2
    <2>4. R \in Nat /\ Len(data') = Len(old) + Len(new)
        BY <1>6, <1>9
    <2> HIDE DEF r, old, new, R
    <2>5. \A k \in (R + 1)..Len(data') : \/ k \in (R + 1)..Len(old) /\ data'[k] = old[k]
                                         \/ k = Len(old) + 1 /\ data'[k] = r.page
        <3> TAKE k \in (R + 1)..Len(data')
        <3>1. k \in Nat /\ k >= R + 1 /\ k \in 1..(Len(old) + Len(new))
            BY <2>0, <2>4
        <3>2. CASE k \in DOMAIN old /\ data'[k] = old[k]
            <4>1. k \in 1..Len(old)
                BY <2>1, <3>2
            <4> QED
                <5>1. ASSUME NEW m \in Nat, NEW n \in Nat, k \in Nat, k >= m + 1, k \in 1..n
                      PROVE  k \in (m + 1)..n
                    BY <5>1
                <5>2. k \in (R + 1)..Len(old)
                    BY <2>0, <2>4, <3>1, <4>1, <5>1, Zenon
                <5> QED
                    BY <3>2, <5>2
        <3>3. CASE k = Len(old) + 1 /\ data'[k] = r.page
            BY <3>3
        <3> QED
            BY <2>3, <3>1, <3>2, <3>3
    <2> QED
        BY <1>2, <1>3, <2>0, <2>2, <2>4, <2>5
<1>12. Content'
    BY <1>1, <1>8, <1>11 DEF Content, Asked, Untouched, ShownIsSaved, IInv
<1> QED
    BY <1>1, <1>8, <1>10, <1>12 DEF IInv

\* Context::enterView: the cached list is shown and saved again, and a first
\* reload finds a collection that is not loading.
LEMMA EnterStep ==
    ASSUME IInv, EnterView
    PROVE  IInv'
<1> USE ContextAssumption
<1>1. /\ view = "hidden" /\ view' = "mounted" /\ ~first_enter' /\ first_enter' \in BOOLEAN
      /\ UNCHANGED <<now, page>>
    BY Zenon DEF EnterView
<1>2. ~spinner
    BY <1>1 DEF IInv, LoadingIsRequest
<1>3. CASE first_enter
    <2>1. requests = <<>> /\ ~loading
        BY <1>3 DEF IInv, Content, Untouched, LoadingIsRequest
    <2>2. PICK cached \in Loads :
            /\ data' = cached.list /\ restored' = Len(cached.list)
            /\ Save(cached.hist, cached.list)
            /\ StartReload \/ UNCHANGED <<requests, loading, spinner>>
        BY <1>3 DEF EnterView
    <2>3. /\ cached.hist \in {<<Last(hist)>>, <<Head(hist)>>}
          /\ cached.list \in {Last(hist).list, <<>>}
        BY DEF Loads
    <2>4. /\ data' \in Lists /\ restored' \in 0..MaxLength
          /\ hist' \in Seq(Saved) /\ Len(hist') \in 1..2 /\ unsaved' \in BOOLEAN
          /\ Honesty'
          /\ data' # <<>> /\ ~unsaved' => Db!Latest'.list = data'
        <3>1. Honest(Last(hist)) /\ Honest(Head(hist)) /\ TypeOK
            BY TableEnds DEF IInv
        <3>2. PICK t : t \in {Last(hist), Head(hist)} /\ cached.hist = <<t>>
            BY <2>3
        <3>3. Honest(t) /\ t \in Saved
            BY <3>1, <3>2 DEF Honest
        <3>4. /\ cached.hist \in Seq(Saved) /\ Len(cached.hist) = 1 /\ cached.hist[1] = t
              /\ Head(cached.hist) = t /\ Last(cached.hist) = t
            BY <3>2, <3>3, Pairs
        <3>5. cached.list \in Lists
            <4>1. <<>> \in Lists
                BY ListsAreSequences
            <4> QED
                BY <2>3, <3>1, <4>1 DEF Honest, Saved
        <3>6. Len(cached.list) \in 0..MaxLength
            BY <3>5, ListsAreSequences, LenProperties
        <3>7. \A i \in 1..Len(cached.hist) : Honest(cached.hist[i])
            BY <3>3, <3>4
        <3> QED
            BY <1>1, <2>2, <3>1, <3>3, <3>4, <3>5, <3>6, <3>7, SaveEffect
    <2>5. /\ LoadingIsRequest' /\ loading' \in BOOLEAN /\ spinner' \in BOOLEAN
          /\ requests' \in {<<>>, <<[kind |-> "reload", page |-> 0]>>}
        <3>1. CASE StartReload
            BY <1>1, <2>1, <3>1, ReloadStep DEF IInv
        <3>2. CASE UNCHANGED <<requests, loading, spinner>>
            BY <1>1, <1>2, <2>1, <3>2 DEF IInv, TypeOK, LoadingIsRequest
        <3> QED
            BY <2>2, <3>1, <3>2
    <2>6. /\ requests' \in Seq([kind : {"reload", "more"}, page : 0..MaxPage])
          /\ Asked'
        <3>1. CASE requests' = <<>>
            BY <3>1 DEF Asked
        <3>2. CASE requests' = <<[kind |-> "reload", page |-> 0]>>
            BY <3>2 DEF Asked
        <3> QED
            BY <2>5, <3>1, <3>2
    <2>7. TypeOK'
        BY <1>1, <2>4, <2>5, <2>6 DEF IInv, TypeOK
    <2>8. Content'
        <3>1. restored' = Len(data') /\ Len(data') \in Nat
            BY <2>2, <2>4
        <3>2. PagesInOrder'
            BY <3>1 DEF PagesInOrder
        <3> QED
            BY <1>1, <2>4, <2>6, <3>2 DEF Content, Untouched, ShownIsSaved
    <2> QED
        BY <2>4, <2>5, <2>7, <2>8 DEF IInv
<1>4. CASE ~first_enter
    <2>1. UNCHANGED <<hist, data, restored, unsaved, requests, loading, spinner>>
        BY <1>4 DEF EnterView
    <2>2. TypeOK'
        BY <1>1, <2>1 DEF IInv, TypeOK
    <2>3. Content'
        BY <1>1, <2>1 DEF IInv, Content, Asked, Untouched, PagesInOrder, ShownIsSaved, Db!Latest
    <2> QED
        BY <1>1, <1>2, <2>1, <2>2, <2>3 DEF IInv, LoadingIsRequest, Honesty, Honest
<1> QED
    BY <1>3, <1>4

\* Collection::reload and loadMore from a view whose collection is idle.
LEMMA AskStep ==
    ASSUME IInv, Refresh \/ LoadMore
    PROVE  IInv'
<1> USE ContextAssumption
<1>1. /\ view = "mounted" /\ view' = view /\ ~loading
      /\ UNCHANGED <<hist, now, first_enter, data, page, restored, unsaved>>
    BY DEF Refresh, LoadMore
<1>2. requests = <<>>
    BY <1>1, EmptySeq DEF IInv, TypeOK, LoadingIsRequest
<1>3. /\ LoadingIsRequest' /\ loading' \in BOOLEAN /\ spinner' \in BOOLEAN
      /\ requests' \in Seq([kind : {"reload", "more"}, page : 0..MaxPage])
      /\ Asked'
    <2>1. CASE Refresh
        <3>1. StartReload
            BY <2>1 DEF Refresh
        <3>2. /\ LoadingIsRequest' /\ loading' \in BOOLEAN /\ spinner' \in BOOLEAN
              /\ requests' = <<[kind |-> "reload", page |-> 0]>>
            BY <1>1, <3>1, ReloadStep DEF IInv
        <3> QED
            BY <3>2 DEF Asked
    <2>2. CASE LoadMore
        <3>1. requests' = <<[kind |-> "more", page |-> page + 1]>>
            BY <1>2, <2>2 DEF LoadMore
        <3>2. page + 1 \in 0..MaxPage
            BY <2>2 DEF LoadMore, IInv, TypeOK
        <3>3. loading' /\ loading' \in BOOLEAN /\ spinner' \in BOOLEAN
            BY <2>2, Zenon DEF LoadMore, Notify
        <3>4. Len(requests') = 1
            BY <3>1
        <3>5. LoadingIsRequest'
            BY <1>1, <3>3, <3>4 DEF LoadingIsRequest
        <3> QED
            BY <1>1, <3>1, <3>2, <3>3, <3>5 DEF Asked
    <2> QED
        BY <2>1, <2>2
<1>4. TypeOK'
    BY <1>1, <1>3 DEF IInv, TypeOK
<1>5. Content'
    <2>1. ~first_enter
        BY <1>1 DEF IInv, Content, Untouched
    <2> QED
        BY <1>1, <1>3, <2>1 DEF IInv, Content, Untouched, PagesInOrder, ShownIsSaved, Db!Latest
<1> QED
    BY <1>1, <1>3, <1>4, <1>5 DEF IInv, Honesty, Honest

\* The file catches up, or what is queued is forgotten: every file was in the
\* history, and its last element stays the last unless the rest is lost.
LEMMA FileStep ==
    ASSUME TypeOK, Honesty, Db!Execute \/ Db!Forget, UNCHANGED now
    PROVE  /\ hist' \in Seq(Saved) /\ Len(hist') \in 1..2
           /\ Honesty'
           /\ Db!Execute => Db!Latest' = Db!Latest
<1>1. /\ hist \in Seq(Saved) /\ hist # <<>> /\ Len(hist) \in 1..2
      /\ DOMAIN hist = 1..Len(hist) /\ Head(hist) = hist[1]
    BY TableEnds DEF TypeOK
<1>2. \A a : Honest(a) => a \in Saved /\ Honest(a)'
    BY DEF Honest
<1>3. ASSUME Db!Execute
      PROVE  /\ hist' \in Seq(Saved) /\ Len(hist') \in 1..2 /\ Honesty'
             /\ Db!Latest' = Db!Latest
    <2>1. hist' = Tail(hist) /\ Len(hist) > 1
        BY <1>3 DEF Db!Execute
    <2>2. /\ hist' \in Seq(Saved) /\ Len(hist') = Len(hist) - 1
          /\ \A i \in 1..Len(hist') : hist'[i] = hist[i + 1]
        BY <1>1, <2>1, HeadTailProperties
    <2>3. DOMAIN hist' = 1..Len(hist') /\ \A i \in DOMAIN hist' : i + 1 \in DOMAIN hist
        BY <1>1, <2>2, LenProperties
    <2>4. Honesty'
        BY <1>2, <2>2, <2>3 DEF Honesty, Honest
    <2>5. Db!Latest' = Db!Latest
        BY <1>1, <2>1, <2>2 DEF Db!Latest
    <2> QED
        BY <1>1, <2>1, <2>2, <2>4, <2>5
<1>4. ASSUME Db!Forget
      PROVE  hist' \in Seq(Saved) /\ Len(hist') \in 1..2 /\ Honesty'
    <2>1. hist' = <<Head(hist)>> /\ Honest(hist[1]) /\ hist[1] \in Saved
        BY <1>1, <1>2, <1>4 DEF Db!Forget, Honesty
    <2>2. hist' \in Seq(Saved) /\ Len(hist') = 1 /\ hist'[1] = hist[1] /\ DOMAIN hist' = 1..1
        BY <1>1, <2>1
    <2>3. Honesty'
        BY <1>2, <2>1, <2>2 DEF Honesty, Honest
    <2> QED
        BY <2>2, <2>3
<1> QED
    BY <1>3, <1>4

-----------------------------------------------------------------------------
\* The inductive invariant.
THEOREM Invariance == Spec => []IInv
<1> USE ContextAssumption
<1>1. Init => IInv
    <2> SUFFICES ASSUME Init
                 PROVE  IInv
        OBVIOUS
    <2>1. <<>> \in Lists
        BY ListsAreSequences
    <2>2. NothingSaved \in Saved
        BY <2>1 DEF NothingSaved, Saved
    <2>3. hist \in Seq(Saved) /\ Len(hist) = 1 /\ hist[1] = NothingSaved /\ DOMAIN hist = 1..1
        BY <2>2 DEF Init
    <2>4. first_enter \in BOOLEAN /\ loading \in BOOLEAN /\ unsaved \in BOOLEAN /\ spinner \in BOOLEAN
        BY Zenon DEF Init
    <2>5. TypeOK
        BY <2>1, <2>3, <2>4 DEF Init, TypeOK
    <2>6. Honesty
        <3>1. now \in Nat /\ NothingSaved.at = 0 /\ NothingSaved.time = 0
            BY DEF Init, NothingSaved
        <3>2. Honest(NothingSaved)
            BY <2>2, <3>1 DEF Honest
        <3> QED
            BY <2>3, <3>2 DEF Honesty
    <2>7. LoadingIsRequest
        BY DEF Init, LoadingIsRequest
    <2>8. Content
        BY DEF Init, Content, Asked, Untouched, PagesInOrder, ShownIsSaved
    <2> QED
        BY <2>5, <2>6, <2>7, <2>8 DEF IInv
<1>2. ASSUME IInv, [Next]_vars
      PROVE  IInv'
    <2> USE <1>2
    <2>1. ASSUME Create \/ Release
          PROVE  IInv'
        <3>1. FreshContext /\ view' \in {"none", "hidden"} /\ UNCHANGED <<hist, now>>
            BY <2>1 DEF Create, Release
        <3> QED
            BY <3>1, FreshStep DEF IInv, TypeOK, Honesty, Honest
    <2>2. CASE EnterView
        BY <2>2, EnterStep
    <2>3. CASE ExitView
        <3>1. spinner' = FALSE /\ spinner' \in BOOLEAN
            BY <2>3, Zenon DEF ExitView
        <3>2. view' = "hidden" /\ UNCHANGED <<hist, now, first_enter, loading, requests, data, page, restored, unsaved>>
            BY <2>3 DEF ExitView, context
        <3>3. TypeOK'
            BY <3>1, <3>2 DEF IInv, TypeOK
        <3>4. Content'
            BY <3>2 DEF IInv, Content, Asked, Untouched, PagesInOrder, ShownIsSaved, Db!Latest
        <3> QED
            BY <3>1, <3>2, <3>3, <3>4 DEF IInv, LoadingIsRequest, Honesty, Honest
    <2>4. CASE Refresh \/ LoadMore
        BY <2>4, AskStep
    <2>5. ASSUME NEW i \in DOMAIN requests, NEW found \in BOOLEAN, Fetched(i, found)
          PROVE  IInv'
        BY <2>5, FetchedStep
    <2>6. ASSUME NEW i \in DOMAIN requests, Failed(i)
          PROVE  IInv'
        <3>1. /\ requests' = <<>> /\ LoadingIsRequest' /\ requests # <<>>
              /\ loading' \in BOOLEAN /\ spinner' \in BOOLEAN
              /\ UNCHANGED <<hist, now, view, first_enter, data, page, restored, unsaved>>
            BY <2>6, LoadedStep DEF Failed, IInv
        <3>2. TypeOK'
            BY <3>1 DEF IInv, TypeOK
        <3>3. Content'
            BY <3>1 DEF IInv, Content, Asked, Untouched, PagesInOrder, ShownIsSaved, Db!Latest
        <3> QED
            BY <3>1, <3>2, <3>3 DEF IInv, Honesty, Honest
    <2>7. CASE Execute
        <3>1. Db!Execute /\ UNCHANGED <<now, view, first_enter, loading, requests, data, page, restored, unsaved, spinner>>
            BY <2>7 DEF Execute, context
        <3>2. /\ hist' \in Seq(Saved) /\ Len(hist') \in 1..2
              /\ Honesty' /\ Db!Latest' = Db!Latest
            BY <3>1, FileStep DEF IInv
        <3>3. TypeOK'
            BY <3>1, <3>2 DEF IInv, TypeOK
        <3>4. Content'
            BY <3>1, <3>2 DEF IInv, Content, Asked, Untouched, PagesInOrder, ShownIsSaved
        <3> QED
            BY <3>1, <3>2, <3>3, <3>4 DEF IInv, LoadingIsRequest
    <2>8. CASE Tick
        <3>1. /\ now' = now + 1 /\ now < MaxTime
              /\ UNCHANGED <<hist, view, first_enter, loading, requests, data, page, restored, unsaved, spinner>>
            BY <2>8 DEF Tick, context
        <3>2. TypeOK'
            BY <3>1 DEF IInv, TypeOK
        <3>3. Content'
            BY <3>1 DEF IInv, Content, Asked, Untouched, PagesInOrder, ShownIsSaved, Db!Latest
        <3>4. Honesty'
            BY <3>1 DEF IInv, Honesty, Honest, TypeOK, Saved
        <3> QED
            BY <3>1, <3>2, <3>3, <3>4 DEF IInv, LoadingIsRequest
    <2>9. CASE Crash
        <3>1. Db!Forget /\ FreshContext /\ view' = "none" /\ UNCHANGED now
            BY <2>9 DEF Crash
        <3> QED
            BY <3>1, FreshStep, FileStep DEF IInv, TypeOK
    <2>11. CASE Unopened
        <3>1. /\ Db!Forget /\ unsaved' = TRUE
              /\ UNCHANGED <<now, view, first_enter, loading, requests, data, page, restored, spinner>>
            BY <2>11 DEF Unopened
        <3>2. hist' \in Seq(Saved) /\ Len(hist') \in 1..2 /\ Honesty'
            BY <3>1, FileStep DEF IInv
        <3>3. unsaved' \in BOOLEAN
            BY <3>1, Zenon
        <3>4. TypeOK'
            BY <3>1, <3>2, <3>3 DEF IInv, TypeOK
        <3>5. Content'
            BY <3>1 DEF IInv, Content, Asked, Untouched, PagesInOrder, ShownIsSaved
        <3> QED
            BY <3>1, <3>2, <3>4, <3>5 DEF IInv, LoadingIsRequest
    <2>10. CASE UNCHANGED vars
        <3>1. UNCHANGED <<hist, now, view, first_enter, loading, requests, data, page, restored, unsaved, spinner>>
            BY <2>10 DEF vars, context
        <3> QED
            BY <3>1 DEF IInv, TypeOK, LoadingIsRequest, Content, Asked, Untouched, PagesInOrder,
                        ShownIsSaved, Db!Latest, Honesty, Honest
    <2> QED
        BY <2>1, <2>2, <2>3, <2>4, <2>5, <2>6, <2>7, <2>8, <2>9, <2>10, <2>11 DEF Next, Complete
<1> QED
    BY <1>1, <1>2, PTL DEF Spec

\* The variables keep their types.
THEOREM TypeCorrect == Spec => []TypeOK
BY Invariance, PTL DEF IInv

\* Collection::loading is up exactly while one fetch is under way, and the
\* indicator turns only meanwhile (Collection.cpp, collection_view.dart).
THEOREM OneFetchAtATime == Spec => []LoadingIsRequest
BY Invariance, PTL DEF IInv

\* Behind the pages restored from the cache, of which a reload leaves none, the
\* numbers of the fetched pages increase up to the script's (Collection.cpp,
\* the script's page counter).
THEOREM PagesStayInOrder == Spec => []PagesInOrder
BY Invariance, PTL DEF IInv, Content

\* What the view shows is what a restart brings back once the queue is
\* written, unless the file did not open for its save or since
\* (Context::save behind every change of the data).
THEOREM ShownComesBack == Spec => []ShownIsSaved
BY Invariance, PTL DEF IInv, Content

\* Context::save: no file that a crash or a failed open can leave has a time
\* newer than the list beside it, but for a save the file did not open within.
THEOREM TimeFollowsList == Spec => []TimeNotAhead
<1>1. IInv => TimeNotAhead
    BY DEF IInv, Honesty, Honest, TimeNotAhead
<1> QED
    BY <1>1, Invariance, PTL

=============================================================================
