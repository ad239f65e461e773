--------------------------- MODULE HistoryProofs ----------------------------
(***************************************************************************)
(* Theorems about the history of module History, for any projects, links,  *)
(* length of the list and number of visits, crashes and files that do not  *)
(* open.                                                                   *)
(***************************************************************************)
EXTENDS History, FiniteSetTheorems, SequenceTheorems, WellFoundedInduction, TLAPS

Latest == hist[Len(hist)]

\* The ids of the rows of a table, and of the entries of a list.
Ids(t) == {r.id : r \in t.cols}
Names(s) == {s[i].id : i \in 1..Len(s)}

\* A row is numbered by the counter, and points to a book or is blind.
RowGood(r, t) == /\ r.id \in 1..t.seq
                 /\ r.item \in DataItem
                 /\ IF r.target THEN r.item \in t.books ELSE r.blind

\* Two rows have two ids, and the later one of a link is blind.
Apart(r, q) == /\ r.id = q.id => r = q
               /\ r.item.link = q.item.link /\ r.id < q.id => q.blind

Good(t) == /\ t \in Tables
           /\ \A r \in t.cols : RowGood(r, t)
           /\ \A r, q \in t.cols : Apart(r, q)

\* An entry with an id has its row; one without is blind, and has what its
\* INSERT needs.
Backed(e, t) ==
    /\ e.id # 0 => \E r \in t.cols : EntryOf(e, r)
    /\ e.id = 0 => /\ e.blind /\ e.item \in DataItem
                   /\ e.target => e.item \in t.books

Distinct(s) == \A i, j \in 1..Len(s) : s[i].id = s[j].id /\ s[i].id # 0 => i = j

Numbers(s) == \A i \in 1..Len(s) : s[i].id # 0

\* The list shows the row as it is.
Shows(s, r) == \E i \in 1..Len(s) : EntryOf(s[i], r) /\ s[i].date = r.date

Mirror(s, t) == Numbers(s) /\ \A r \in t.cols : Shows(s, r)

\* What the tables in h hold, and how many rows, for a surplus of g.
Stored(h, g) == /\ h \in Seq(Tables) /\ h # <<>>
                /\ \A n \in 1..Len(h) : /\ Good(h[n])
                                        /\ Cardinality(Ids(h[n])) <= ITEM_COUNT + 1 + g
                /\ Cardinality(Ids(h[Len(h)])) <= ITEM_COUNT + g

\* How the list s goes with the tables in h.  Rows the list does not show are
\* part of the surplus.
Listed(s, h, g, o) ==
    /\ s \in Seq(Row)
    /\ Distinct(s)
    /\ \A i \in 1..Len(s), n \in 1..Len(h) : Backed(s[i], h[n])
    /\ o \/ Mirror(s, h[Len(h)])
    /\ Cardinality(Ids(h[Len(h)]) \ Names(s)) <= g
    /\ Len(s) <= ITEM_COUNT \/ Numbers(s)

Typed == /\ call \in [step : {"idle", "book", "row", "update"}, item : DataItem \cup {NoItem},
                      target : BOOLEAN]
         /\ visits \in 0..MaxVisits
         /\ crashes \in 0..MaxCrashes
         /\ failed \in 0..MaxFailed
         /\ out \in BOOLEAN

\* While saveToCollection runs, the link is not in the list, and the row that
\* is to be written has a book or is blind.
Searching == call.step \in {"book", "row"} =>
    /\ call.item \in DataItem
    /\ \A i \in 1..Len(items) : items[i].item \in DataItem /\ items[i].item.link # call.item.link
    /\ call.step = "row" =>
          IF call.target THEN \A n \in 1..Len(hist) : call.item \in hist[n].books ELSE out

Updating == call.step = "update" => items # <<>>

IInv == /\ Typed
        /\ Stored(hist, Surplus)
        /\ items # NotLoaded \/ call.step # "idle" => Listed(items, hist, Surplus, out)
        /\ Searching /\ Updating

-----------------------------------------------------------------------------
(***************************************************************************)
(* Sequences.                                                              *)
(***************************************************************************)

\* One element.
LEMMA One ==
    ASSUME NEW S, NEW x \in S
    PROVE  <<x>> \in Seq(S) /\ <<x>> # <<>> /\ Len(<<x>>) = 1 /\ <<x>>[1] = x
OBVIOUS

\* insert at 0: the list with f in front.
LEMMA FrontSeq ==
    ASSUME NEW f \in Row, NEW s \in Seq(Row)
    PROVE  /\ <<f>> \o s \in Seq(Row) /\ Len(<<f>> \o s) = Len(s) + 1
           /\ (<<f>> \o s)[1] = f
           /\ \A i \in 1..Len(s) : (<<f>> \o s)[i + 1] = s[i]
           /\ Len(s) \in Nat
<1>1. <<f>> \in Seq(Row) /\ Len(<<f>>) = 1 /\ <<f>>[1] = f /\ Len(s) \in Nat
    BY LenProperties
<1>2. /\ <<f>> \o s \in Seq(Row) /\ Len(<<f>> \o s) = 1 + Len(s)
      /\ \A i \in 1..(1 + Len(s)) : (<<f>> \o s)[i] = IF i <= 1 THEN <<f>>[i] ELSE s[i - 1]
    BY <1>1, ConcatProperties
<1> QED
    BY <1>1, <1>2

\* Where the entry at i of a list comes from, whose entry k was moved to front.
From(i, k) == IF i = 1 THEN k ELSE IF i <= k THEN i - 1 ELSE i

\* remove and insert at 0: the entries stay, in another order.
LEMMA MovedSeq ==
    ASSUME NEW s \in Seq(Row), NEW k \in 1..Len(s)
    PROVE  LET c == <<s[k]>> \o RemoveAt(s, k)
           IN  /\ c \in Seq(Row) /\ Len(c) = Len(s)
               /\ \A i \in 1..Len(s) : From(i, k) \in 1..Len(s) /\ c[i] = s[From(i, k)]
<1> DEFINE a == SubSeq(s, 1, k - 1)
           b == SubSeq(s, k + 1, Len(s))
           e == RemoveAt(s, k)
           c == <<s[k]>> \o e
<1>1. Len(s) \in Nat /\ (\A i \in 1..Len(s) : s[i] \in Row) /\ k \in Nat
    BY LenProperties, ElementOfSeq
<1>2. /\ a \in Seq(Row) /\ Len(a) = k - 1
      /\ \A i \in 1..(k - 1) : a[i] = s[i]
    <2>1. /\ a \in Seq(Row) /\ Len(a) = IF 1 <= k - 1 THEN k - 1 - 1 + 1 ELSE 0
          /\ \A i \in 1..(k - 1 - 1 + 1) : a[i] = s[1 + i - 1]
        <3>1. \A i \in 1..(k - 1) : s[i] \in Row
            BY <1>1
        <3>2. k - 1 \in Int
            BY <1>1
        <3> QED
            BY <3>1, <3>2, SubSeqProperties
    <2> QED
        BY <1>1, <2>1
<1>3. /\ b \in Seq(Row) /\ Len(b) = Len(s) - k
      /\ \A i \in 1..(Len(s) - k) : b[i] = s[k + i]
    <2>1. /\ b \in Seq(Row) /\ Len(b) = IF k + 1 <= Len(s) THEN Len(s) - (k + 1) + 1 ELSE 0
          /\ \A i \in 1..(Len(s) - (k + 1) + 1) : b[i] = s[k + 1 + i - 1]
        <3>1. \A i \in (k + 1)..Len(s) : s[i] \in Row
            BY <1>1
        <3>2. k + 1 \in Int /\ Len(s) \in Int
            BY <1>1
        <3> QED
            BY <3>1, <3>2, SubSeqProperties
    <2> QED
        BY <1>1, <2>1
<1>4. /\ e \in Seq(Row) /\ Len(e) = Len(s) - 1
      /\ \A i \in 1..(Len(s) - 1) : e[i] = IF i < k THEN s[i] ELSE s[i + 1]
    <2> HIDE DEF a, b
    <2>1. /\ e \in Seq(Row) /\ Len(e) = Len(a) + Len(b)
          /\ \A i \in 1..(Len(a) + Len(b)) : e[i] = IF i <= Len(a) THEN a[i] ELSE b[i - Len(a)]
        BY <1>2, <1>3, ConcatProperties DEF RemoveAt, a, b
    <2>2. Len(a) + Len(b) = Len(s) - 1
        BY <1>1, <1>2, <1>3
    <2> HIDE DEF e
    <2>3. ASSUME NEW i \in 1..(Len(s) - 1)
          PROVE  e[i] = IF i < k THEN s[i] ELSE s[i + 1]
        <3>1. CASE i < k
            BY <1>1, <1>2, <2>1, <2>2, <3>1
        <3>2. CASE ~(i < k)
            <4>1. e[i] = b[i - (k - 1)]
                BY <1>1, <1>2, <2>1, <2>2, <3>2
            <4>2. i - (k - 1) \in 1..(Len(s) - k) /\ k + (i - (k - 1)) = i + 1
                BY <1>1, <3>2
            <4> QED
                BY <1>3, <3>2, <4>1, <4>2
        <3> QED
            BY <3>1, <3>2
    <2> QED
        BY <2>1, <2>2, <2>3
<1> HIDE DEF a, b, e
<1>5. /\ c \in Seq(Row) /\ Len(c) = Len(s) /\ c[1] = s[k]
      /\ \A i \in 1..(Len(s) - 1) : c[i + 1] = e[i]
    <2>1. s[k] \in Row
        BY <1>1
    <2> QED
        BY <1>1, <1>4, <2>1, FrontSeq
<1> HIDE DEF c
<1>6. ASSUME NEW i \in 1..Len(s)
      PROVE  From(i, k) \in 1..Len(s) /\ c[i] = s[From(i, k)]
    <2>1. CASE i = 1
        BY <1>5, <2>1 DEF From
    <2>2. CASE i # 1
        <3>1. i - 1 \in 1..(Len(s) - 1) /\ (i - 1) + 1 = i
            BY <1>1, <2>2
        <3>2. c[i] = e[i - 1]
            BY <1>5, <3>1
        <3>3. c[i] = IF i - 1 < k THEN s[i - 1] ELSE s[(i - 1) + 1]
            BY <1>4, <3>1, <3>2
        <3>4. CASE i <= k
            BY <1>1, <2>2, <3>3, <3>4 DEF From
        <3>5. CASE ~(i <= k)
            BY <1>1, <2>2, <3>1, <3>3, <3>5 DEF From
        <3> QED
            BY <3>4, <3>5
    <2> QED
        BY <2>1, <2>2
<1> QED
    BY <1>5, <1>6 DEF c, e

\* From is a permutation.
LEMMA FromPermutes ==
    ASSUME NEW n \in Nat, NEW k \in 1..n
    PROVE  /\ \A i, j \in 1..n : From(i, k) = From(j, k) => i = j
           /\ \A j \in 1..n : \E i \in 1..n : From(i, k) = j
<1>1. \A i, j \in 1..n : From(i, k) = From(j, k) => i = j
    BY DEF From
<1>2. ASSUME NEW j \in 1..n
      PROVE  \E i \in 1..n : From(i, k) = j
    <2> DEFINE i == IF j = k THEN 1 ELSE IF j < k THEN j + 1 ELSE j
    <2>1. i \in 1..n /\ From(i, k) = j
        BY DEF From
    <2> QED
        BY <2>1
<1> QED
    BY <1>1, <1>2

\* What is dropped from the list, last first.
Dropped(s) == Reverse(SubSeq(s, ITEM_COUNT, Len(s)))

\* removeLast until the list has room: a short prefix stays, and what is
\* dropped is the rest.
LEMMA KeptSeq ==
    ASSUME items \in Seq(Row)
    PROVE  LET D == Dropped(items)
           IN  /\ Kept \in Seq(Row) /\ Len(Kept) < ITEM_COUNT /\ Len(Kept) <= Len(items)
               /\ Len(Kept) \in Nat /\ Len(items) \in Nat
               /\ \A i \in 1..Len(Kept) : Kept[i] = items[i]
               /\ D \in Seq(Row)
               /\ \A m \in 1..Len(D) : \E i \in 1..Len(items) : i > Len(Kept) /\ D[m] = items[i]
               /\ \A i \in 1..Len(items) : i > Len(Kept) => \E m \in 1..Len(D) : D[m] = items[i]
<1> DEFINE s == items
           n == Len(s)
           b == SubSeq(s, ITEM_COUNT, n)
           D == Reverse(b)
           a == Kept
<1>1. s \in Seq(Row) /\ n \in Nat /\ \A i \in 1..n : s[i] \in Row
    BY LenProperties, ElementOfSeq
<1>2. ITEM_COUNT \in Nat /\ ITEM_COUNT >= 1
    BY HistoryAssumption
<1> HIDE DEF n
<1>3. CASE n < ITEM_COUNT
    <2>1. b = <<>>
        BY <1>1, <1>2, <1>3, SubSeqEmpty
    <2>2. Len(b) = 0 /\ Len(D) = 0 /\ D \in Seq(Row)
        <3>1. Len(b) = 0
            BY <2>1
        <3> HIDE DEF b
        <3>2. D = [i \in 1..0 |-> b[(0 - i) + 1]]
            BY <3>1 DEF Reverse
        <3>3. D \in [1..0 -> Row]
            BY <3>2
        <3>4. D \in Seq(Row)
            BY <3>3, SeqDef
        <3> QED
            BY <3>1, <3>2, <3>4, LenProperties
    <2>3. a = s
        BY <1>3 DEF Kept, n
    <2>4. Dropped(items) = D
        BY DEF Dropped, n
    <2> HIDE DEF D, a
    <2> QED
        BY <1>1, <1>3, <2>2, <2>3, <2>4 DEF a, n
<1>4. CASE n >= ITEM_COUNT
    <2> DEFINE l == n - ITEM_COUNT + 1
    <2>1. /\ b \in Seq(Row) /\ Len(b) = l /\ l \in Nat
          /\ \A i \in 1..l : b[i] = s[ITEM_COUNT + i - 1]
        <3>1. \A i \in ITEM_COUNT..n : s[i] \in Row
            BY <1>1, <1>2
        <3>2. /\ b \in Seq(Row) /\ Len(b) = IF ITEM_COUNT <= n THEN l ELSE 0
              /\ \A i \in 1..l : b[i] = s[ITEM_COUNT + i - 1]
            BY <1>1, <1>2, <3>1, SubSeqProperties
        <3> QED
            BY <1>1, <1>2, <1>4, <3>2
    <2> HIDE DEF b
    <2>2. /\ D \in Seq(Row) /\ Len(D) = l
          /\ \A i \in 1..l : D[i] = s[n + 1 - i]
        <3>1. D = [i \in 1..l |-> b[(l - i) + 1]]
            BY <2>1 DEF Reverse
        <3>2. \A i \in 1..l : b[(l - i) + 1] = s[n + 1 - i] /\ s[n + 1 - i] \in Row
            <4> TAKE i \in 1..l
            <4>1. (l - i) + 1 \in 1..l /\ ITEM_COUNT + ((l - i) + 1) - 1 = n + 1 - i
                BY <1>1, <1>2, <1>4
            <4>2. n + 1 - i \in 1..n
                BY <1>1, <1>2, <1>4
            <4> HIDE DEF l
            <4> QED
                BY <1>1, <2>1, <4>1, <4>2
        <3> HIDE DEF l, D
        <3>3. D \in [1..l -> Row]
            BY <3>1, <3>2
        <3>4. D \in Seq(Row)
            BY <2>1, <3>3, SeqDef
        <3>5. Len(D) = l
            BY <2>1, <3>1, <3>4, LenProperties
        <3> QED
            BY <3>1, <3>2, <3>4, <3>5
    <2>4. Dropped(items) = D
        BY DEF Dropped, n, b
    <2> HIDE DEF D
    <2>3. /\ a \in Seq(Row) /\ Len(a) = ITEM_COUNT - 1
          /\ \A i \in 1..(ITEM_COUNT - 1) : a[i] = s[i]
        <3>1. a = SubSeq(s, 1, ITEM_COUNT - 1)
            BY <1>1, <1>2, <1>4 DEF Kept, n
        <3>2. \A i \in 1..(ITEM_COUNT - 1) : s[i] \in Row
            BY <1>1, <1>2, <1>4
        <3>3. /\ a \in Seq(Row)
              /\ Len(a) = IF 1 <= ITEM_COUNT - 1 THEN ITEM_COUNT - 1 - 1 + 1 ELSE 0
              /\ \A i \in 1..(ITEM_COUNT - 1 - 1 + 1) : a[i] = s[1 + i - 1]
            BY <1>2, <3>1, <3>2, SubSeqProperties
        <3> HIDE DEF a
        <3> QED
            BY <1>2, <3>3
    <2>5. ASSUME NEW m \in 1..Len(D)
          PROVE  \E i \in 1..n : i > Len(a) /\ D[m] = s[i]
        <3> DEFINE i == n + 1 - m
        <3>1. i \in 1..n /\ i > Len(a) /\ D[m] = s[i]
            <4> HIDE DEF a
            <4> QED
                BY <1>1, <1>2, <1>4, <2>2, <2>3
        <3> QED
            BY <3>1
    <2>6. ASSUME NEW i \in 1..n, i > Len(a)
          PROVE  \E m \in 1..Len(D) : D[m] = s[i]
        <3> HIDE DEF a
        <3> DEFINE m == n + 1 - i
        <3>1. m \in 1..l /\ n + 1 - m = i
            BY <1>1, <1>2, <1>4, <2>3, <2>6
        <3> HIDE DEF m, l
        <3>2. m \in 1..Len(D) /\ D[m] = s[i]
            BY <2>2, <3>1
        <3> QED
            BY <3>2
    <2> HIDE DEF a
    <2>7. Len(a) < ITEM_COUNT /\ Len(a) <= n /\ Len(a) \in Nat
        BY <1>1, <1>2, <1>4, <2>3
    <2>8. \A i \in 1..Len(a) : a[i] = s[i]
        BY <1>2, <2>3
    <2> QED
        BY <1>1, <2>2, <2>3, <2>4, <2>5, <2>6, <2>7, <2>8 DEF a, n
<1> QED
    BY <1>1, <1>2, <1>3, <1>4

\* A list has no more names than entries.
LEMMA NamesCount ==
    ASSUME NEW s \in Seq(Row)
    PROVE  IsFiniteSet(Names(s)) /\ Cardinality(Names(s)) <= Len(s) /\ Len(s) \in Nat
<1>1. Len(s) \in Nat
    BY LenProperties
<1> DEFINE f == [i \in 1..Len(s) |-> s[i].id]
<1>2. f \in Surjection(1..Len(s), Names(s))
    BY DEF Names, Surjection
<1>3. IsFiniteSet(1..Len(s)) /\ Cardinality(1..Len(s)) = Len(s)
    BY <1>1, FS_Interval
<1> HIDE DEF f
<1> QED
    BY <1>1, <1>2, <1>3, FS_Surjection

-----------------------------------------------------------------------------
(***************************************************************************)
(* The writes.                                                             *)
(***************************************************************************)

\* The ids of a table come from its counter.
LEMMA IdsFinite ==
    ASSUME NEW t, Good(t)
    PROVE  /\ t.seq \in Nat /\ Ids(t) \subseteq 1..t.seq
           /\ IsFiniteSet(Ids(t)) /\ Cardinality(Ids(t)) \in Nat
<1>1. t.seq \in Nat
    BY DEF Good, Tables
<1>2. Ids(t) \subseteq 1..t.seq
    BY DEF Good, RowGood, Ids
<1>3. IsFiniteSet(1..t.seq)
    BY <1>1, FS_Interval
<1>4. IsFiniteSet(Ids(t))
    BY <1>2, <1>3, FS_Subset
<1> QED
    BY <1>1, <1>2, <1>4, FS_CardinalityType

\* Rows and their ids are as many.
LEMMA RowsCount ==
    ASSUME NEW t, Good(t)
    PROVE  IsFiniteSet(t.cols) /\ Cardinality(t.cols) = Cardinality(Ids(t))
<1> DEFINE f == [r \in t.cols |-> r.id]
<1>1. f \in [t.cols -> Ids(t)] /\ \A r, q \in t.cols : f[r] = f[q] => r = q
    BY DEF Ids, Good, Apart
<1>2. \A x \in Ids(t) : \E r \in t.cols : f[r] = x
    BY DEF Ids
<1> HIDE DEF f
<1>3. f \in Injection(t.cols, Ids(t)) /\ f \in Surjection(t.cols, Ids(t))
    BY <1>1, <1>2 DEF Injection, IsInjective, Surjection
<1> QED
    BY <1>3, IdsFinite, FS_Injection

\* The tables t after deleting the rows of the first n entries of s.
Cut(t, s, n) == [t EXCEPT !.cols = {r \in @ : \A m \in 1..n : r.id # s[m].id}]

\* A DELETE, or several.
LEMMA CutGood ==
    ASSUME NEW t, Good(t), NEW s, NEW n
    PROVE  /\ Good(Cut(t, s, n))
           /\ Cut(t, s, n).cols = {r \in t.cols : \A m \in 1..n : r.id # s[m].id}
           /\ Cut(t, s, n).books = t.books
           /\ Ids(Cut(t, s, n)) = {x \in Ids(t) : \A m \in 1..n : x # s[m].id}
<1> DEFINE c == Cut(t, s, n)
           R == {r \in t.cols : \A m \in 1..n : r.id # s[m].id}
<1>1. t \in Tables
    BY DEF Good
<1>2. c.cols = R /\ c.books = t.books /\ c.seq = t.seq /\ c \in Tables
    BY <1>1 DEF Cut, Tables
<1>3. R \subseteq t.cols
    OBVIOUS
<1>4. Ids(c) = {x \in Ids(t) : \A m \in 1..n : x # s[m].id}
    <2> HIDE DEF c
    <2>1. ASSUME NEW x \in Ids(c) PROVE x \in Ids(t) /\ \A m \in 1..n : x # s[m].id
        <3>1. PICK r \in c.cols : x = r.id
            BY DEF Ids
        <3> QED
            BY <1>2, <3>1 DEF Ids
    <2>2. ASSUME NEW x \in Ids(t), \A m \in 1..n : x # s[m].id PROVE x \in Ids(c)
        <3>1. PICK r \in t.cols : x = r.id
            BY DEF Ids
        <3>2. r \in c.cols
            BY <1>2, <2>2, <3>1
        <3> QED
            BY <3>1, <3>2 DEF Ids
    <2> QED
        BY <2>1, <2>2
<1> HIDE DEF c
<1>5. Good(c)
    <2> HIDE DEF R
    <2> QED
        BY <1>2, <1>3 DEF Good, RowGood
<1> QED
    BY <1>2, <1>4, <1>5 DEF c

\* A DELETE leaves the entries their rows whose ids it does not name.
LEMMA CutBacked ==
    ASSUME NEW t, Good(t), NEW s, NEW n, NEW e, Backed(e, t),
           e.id # 0 => \A m \in 1..n : e.id # s[m].id
    PROVE  Backed(e, Cut(t, s, n))
<1>1. /\ Cut(t, s, n).cols = {r \in t.cols : \A m \in 1..n : r.id # s[m].id}
      /\ Cut(t, s, n).books = t.books
    BY CutGood
<1> QED
    BY <1>1, Zenon DEF Backed, EntryOf

\* The INSERT of a book.
LEMMA BookGood ==
    ASSUME NEW t, Good(t), NEW d \in DataItem
    PROVE  /\ Good(WithBook(t, d)) /\ Ids(WithBook(t, d)) = Ids(t)
           /\ WithBook(t, d).cols = t.cols
           /\ WithBook(t, d).books = t.books \cup {d}
           /\ \A e : Backed(e, t) => Backed(e, WithBook(t, d))
<1> DEFINE c == WithBook(t, d)
<1>1. t \in Tables
    BY DEF Good
<1>2. c.cols = t.cols /\ c.books = t.books \cup {d} /\ c.seq = t.seq /\ c \in Tables
    BY <1>1 DEF WithBook, Tables
<1> HIDE DEF c
<1>3. Good(c)
    BY <1>2 DEF Good, RowGood
<1>4. \A e : Backed(e, t) => Backed(e, c)
    BY <1>2 DEF Backed
<1> QED
    BY <1>2, <1>3, <1>4 DEF Ids, c

\* The INSERT of a row, which is blind unless the link is new.
LEMMA RowInserted ==
    ASSUME NEW t, Good(t), NEW e \in Row, e.item \in DataItem,
           IF e.target THEN e.item \in t.books ELSE e.blind,
           e.blind \/ \A r \in t.cols : r.item.link # e.item.link
    PROVE  LET f == Numbered(t, e)
           IN  /\ f \in Row /\ f.id = t.seq + 1 /\ f.item = e.item /\ f.date = e.date
               /\ f.target = e.target /\ f.blind = e.blind
               /\ t.seq + 1 \notin Ids(t) /\ t.seq + 1 # 0
               /\ Good(WithRow(t, e))
               /\ Ids(WithRow(t, e)) = Ids(t) \cup {t.seq + 1}
               /\ WithRow(t, e).cols = t.cols \cup {f}
               /\ WithRow(t, e).books = t.books
               /\ \A x : Backed(x, t) => Backed(x, WithRow(t, e))
               /\ Backed(f, WithRow(t, e))
<1> DEFINE f == Numbered(t, e)
           c == WithRow(t, e)
<1>1. t \in Tables /\ t.seq \in Nat /\ Ids(t) \subseteq 1..t.seq
    BY IdsFinite DEF Good
<1>2. /\ f \in Row /\ f.id = t.seq + 1 /\ f.item = e.item /\ f.date = e.date
      /\ f.target = e.target /\ f.blind = e.blind
    BY <1>1 DEF Numbered, Row
<1> HIDE DEF f
<1>3. /\ c.cols = t.cols \cup {f} /\ c.books = t.books /\ c.seq = t.seq + 1 /\ c \in Tables
    <2>1. c = [t EXCEPT !.cols = t.cols \cup {f}, !.seq = t.seq + 1]
        BY <1>1 DEF WithRow, Tables, f
    <2>2. t.cols \cup {f} \in SUBSET Row /\ t.seq + 1 \in Nat
        BY <1>1, <1>2 DEF Tables
    <2> HIDE DEF c
    <2> QED
        BY <1>1, <2>1, <2>2 DEF Tables
<1> HIDE DEF c
<1>4. t.seq + 1 \notin Ids(t) /\ t.seq + 1 # 0
    BY <1>1
<1>5. Ids(c) = Ids(t) \cup {t.seq + 1}
    BY <1>2, <1>3, Zenon DEF Ids
<1>6. \A r \in c.cols : RowGood(r, c)
    <2> TAKE r \in c.cols
    <2>1. CASE r \in t.cols
        <3>1. RowGood(r, t)
            BY <2>1 DEF Good
        <3> QED
            BY <1>1, <1>3, <3>1 DEF RowGood
    <2>2. CASE r = f
        BY <1>1, <1>2, <1>3, <2>2 DEF RowGood
    <2> QED
        BY <1>3, <2>1, <2>2
<1>7. \A r, q \in c.cols : Apart(r, q)
    <2> TAKE r, q \in c.cols
    <2>1. \A x \in t.cols : x.id \in 1..t.seq
        BY DEF Good, RowGood
    <2>2. CASE r \in t.cols /\ q \in t.cols
        BY <2>2 DEF Good
    <2>3. CASE r \in t.cols /\ q = f
        <3>1. r.id # q.id
            BY <1>1, <1>2, <2>1, <2>3
        <3>2. q.blind \/ r.item.link # q.item.link
            BY <1>2, <2>3
        <3> QED
            BY <3>1, <3>2 DEF Apart
    <2>4. CASE r = f /\ q \in t.cols
        <3>1. r.id # q.id /\ ~(r.id < q.id)
            BY <1>1, <1>2, <2>1, <2>4
        <3> QED
            BY <3>1 DEF Apart
    <2>5. CASE r = f /\ q = f
        <3>1. r = q /\ ~(r.id < q.id)
            BY <1>1, <1>2, <2>5
        <3> QED
            BY <3>1 DEF Apart
    <2> QED
        BY <1>3, <2>2, <2>3, <2>4, <2>5
<1>8. Good(c)
    BY <1>3, <1>6, <1>7 DEF Good
<1>9. \A x : Backed(x, t) => Backed(x, c)
    BY <1>3, Zenon DEF Backed
<1>10. Backed(f, c)
    <2>1. f \in c.cols /\ EntryOf(f, f) /\ f.id # 0
        BY <1>1, <1>2, <1>3 DEF EntryOf
    <2> QED
        BY <2>1, Zenon DEF Backed
<1> QED
    BY <1>2, <1>3, <1>4, <1>5, <1>8, <1>9, <1>10 DEF c, f

\* The row r with another date, if it is the one.
Dated(r, id, w) == IF r.id = id THEN [r EXCEPT !.date = w] ELSE r

\* An UPDATE.
LEMMA DateGood ==
    ASSUME NEW t, Good(t), NEW id, NEW w \in Nat
    PROVE  /\ Good(WithDate(t, id, w)) /\ Ids(WithDate(t, id, w)) = Ids(t)
           /\ WithDate(t, id, w).cols = {Dated(r, id, w) : r \in t.cols}
           /\ WithDate(t, id, w).books = t.books
           /\ \A r \in t.cols : /\ Dated(r, id, w).id = r.id /\ Dated(r, id, w).item = r.item
                                /\ Dated(r, id, w).date = IF r.id = id THEN w ELSE r.date
           /\ \A e : Backed(e, t) => Backed(e, WithDate(t, id, w))
<1> DEFINE c == WithDate(t, id, w)
           D(r) == Dated(r, id, w)
<1>1. t \in Tables
    BY DEF Good
<1>2. ASSUME NEW r \in t.cols
      PROVE  /\ D(r) \in Row /\ D(r).id = r.id /\ D(r).item = r.item
             /\ D(r).target = r.target /\ D(r).blind = r.blind
             /\ D(r).date = IF r.id = id THEN w ELSE r.date
    <2>1. r \in Row
        BY <1>1 DEF Tables
    <2>2. CASE r.id = id
        BY <2>1, <2>2 DEF Row, Dated
    <2>3. CASE r.id # id
        BY <2>1, <2>3 DEF Row, Dated
    <2> QED
        BY <2>2, <2>3
<1>3. c.cols = {D(r) : r \in t.cols}
    BY <1>1 DEF WithDate, Dated, Tables
<1>4. c.books = t.books /\ c.seq = t.seq /\ c \in Tables
    <2>1. {D(r) : r \in t.cols} \in SUBSET Row
        BY <1>2
    <2>2. c = [t EXCEPT !.cols = {D(r) : r \in t.cols}]
        BY <1>1 DEF WithDate, Dated, Tables
    <2> HIDE DEF D, c
    <2> QED
        BY <1>1, <2>1, <2>2 DEF Tables
<1> HIDE DEF c, D
<1>5. Ids(c) = Ids(t)
    <2>1. \A x \in Ids(c) : x \in Ids(t)
        <3> TAKE x \in Ids(c)
        <3>1. PICK q \in c.cols : x = q.id
            BY DEF Ids
        <3>2. PICK r \in t.cols : q = D(r)
            BY <1>3
        <3> QED
            BY <1>2, <3>1, <3>2 DEF Ids
    <2>2. \A x \in Ids(t) : x \in Ids(c)
        <3> TAKE x \in Ids(t)
        <3>1. PICK r \in t.cols : x = r.id
            BY DEF Ids
        <3>2. D(r) \in c.cols /\ x = D(r).id
            BY <1>2, <1>3, <3>1
        <3> QED
            BY <3>2 DEF Ids
    <2> QED
        BY <2>1, <2>2
<1>6. \A r \in c.cols : RowGood(r, c)
    <2> TAKE r \in c.cols
    <2>1. PICK x \in t.cols : r = D(x)
        BY <1>3
    <2>2. RowGood(x, t)
        BY DEF Good
    <2> QED
        BY <1>2, <1>4, <2>1, <2>2 DEF RowGood
<1>7. \A r, q \in c.cols : Apart(r, q)
    <2> TAKE r, q \in c.cols
    <2>1. PICK x \in t.cols, y \in t.cols : r = D(x) /\ q = D(y)
        BY <1>3
    <2>2. Apart(x, y)
        BY DEF Good
    <2> QED
        BY <1>2, <2>1, <2>2 DEF Apart
<1>8. Good(c)
    BY <1>4, <1>6, <1>7 DEF Good
<1>9. ASSUME NEW e, Backed(e, t)
      PROVE  Backed(e, c)
    <2>1. CASE e.id = 0
        BY <1>4, <1>9, <2>1 DEF Backed
    <2>2. CASE e.id # 0
        <3>1. PICK r \in t.cols : EntryOf(e, r)
            BY <1>9, <2>2 DEF Backed
        <3>2. D(r) \in c.cols /\ EntryOf(e, D(r))
            BY <1>2, <1>3, <3>1 DEF EntryOf
        <3> QED
            BY <2>2, <3>2 DEF Backed
    <2> QED
        BY <2>1, <2>2
<1> QED
    BY <1>2, <1>3, <1>4, <1>5, <1>8, <1>9 DEF c, D

\* A run of DELETEs behind the tables in h.
LEMMA QueueCuts ==
    ASSUME NEW h \in Seq(Tables), h # <<>>, NEW s \in Seq(Row)
    PROVE  LET t == h[Len(h)]
               k == h \o Removals(t, s)
           IN  /\ k \in Seq(Tables) /\ k # <<>> /\ Len(k) = Len(h) + Len(s)
               /\ \A n \in 1..Len(k) :
                     \/ n \in 1..Len(h) /\ k[n] = h[n]
                     \/ \E m \in 1..Len(s) : k[n] = Cut(t, s, m)
               /\ k[Len(k)] = Cut(t, s, Len(s))
<1> DEFINE t == h[Len(h)]
           r == Removals(t, s)
           k == h \o r
<1>1. Len(h) \in Nat /\ Len(h) > 0 /\ Len(s) \in Nat /\ t \in Tables
    <2>1. Len(h) \in Nat /\ Len(h) # 0 /\ Len(s) \in Nat
        BY LenProperties, EmptySeq
    <2> QED
        BY <2>1, LenProperties, ElementOfSeq
<1>2. r = [n \in 1..Len(s) |-> Cut(t, s, n)]
    BY DEF Removals, Cut
<1>3. \A n \in 1..Len(s) : Cut(t, s, n) \in Tables
    BY <1>1 DEF Cut, Tables
<1> HIDE DEF t, r
<1>4. r \in Seq(Tables) /\ Len(r) = Len(s)
    <2>1. r \in [1..Len(s) -> Tables]
        BY <1>2, <1>3
    <2>2. r \in Seq(Tables)
        BY <1>1, <2>1, SeqDef
    <2> QED
        BY <1>1, <2>1, <2>2, LenProperties
<1>5. /\ k \in Seq(Tables) /\ Len(k) = Len(h) + Len(s)
      /\ \A n \in 1..(Len(h) + Len(s)) : k[n] = IF n <= Len(h) THEN h[n] ELSE r[n - Len(h)]
    <2>1. /\ k \in Seq(Tables) /\ Len(k) = Len(h) + Len(r)
          /\ \A n \in 1..(Len(h) + Len(r)) : k[n] = IF n <= Len(h) THEN h[n] ELSE r[n - Len(h)]
        BY <1>4, ConcatProperties
    <2> HIDE DEF k
    <2> QED
        BY <1>4, <2>1
<1> HIDE DEF k
<1>6. k # <<>>
    BY <1>1, <1>5, EmptySeq
<1>7. ASSUME NEW n \in 1..Len(k)
      PROVE  \/ n \in 1..Len(h) /\ k[n] = h[n]
             \/ \E m \in 1..Len(s) : k[n] = Cut(t, s, m)
    <2>1. CASE n <= Len(h)
        BY <1>1, <1>5, <2>1
    <2>2. CASE ~(n <= Len(h))
        <3>1. n - Len(h) \in 1..Len(s)
            BY <1>1, <1>5, <2>2
        <3>2. k[n] = r[n - Len(h)]
            BY <1>5, <2>2
        <3> QED
            BY <1>2, <3>1, <3>2
    <2> QED
        BY <2>1, <2>2
<1>8. k[Len(k)] = Cut(t, s, Len(s))
    <2>1. CASE Len(s) = 0
        <3>1. k[Len(k)] = t
            BY <1>1, <1>5, <2>1 DEF t
        <3>2. Cut(t, s, 0) = t
            BY <1>1 DEF Cut, Tables
        <3> QED
            BY <2>1, <3>1, <3>2
    <2>2. CASE Len(s) # 0
        <3>1. Len(k) \in 1..(Len(h) + Len(s)) /\ ~(Len(k) <= Len(h)) /\ Len(k) - Len(h) = Len(s)
              /\ Len(s) \in 1..Len(s)
            BY <1>1, <1>5, <2>2
        <3>2. k[Len(k)] = r[Len(s)]
            BY <1>5, <3>1
        <3> QED
            BY <1>2, <3>1, <3>2
    <2> QED
        BY <2>1, <2>2
<1> QED
    BY <1>5, <1>6, <1>7, <1>8 DEF k, r, t

-----------------------------------------------------------------------------
(***************************************************************************)
(* The file and the list.                                                  *)
(***************************************************************************)

\* The surplus counts a crash once and a file that did not open as a list.
LEMMA SurplusGrows ==
    ASSUME Typed
    PROVE  /\ Surplus \in Nat /\ ITEM_COUNT \in Nat /\ ITEM_COUNT >= 1
           /\ failed' = failed + 1 /\ crashes' = crashes => Surplus' = Surplus + (ITEM_COUNT + 1)
           /\ failed' = failed /\ crashes' = crashes + 1 => Surplus' = Surplus + 1
           /\ failed' = failed /\ crashes' = crashes => Surplus' = Surplus
<1>1. ITEM_COUNT \in Nat /\ ITEM_COUNT >= 1 /\ failed \in Nat /\ crashes \in Nat
    BY HistoryAssumption DEF Typed
<1> DEFINE k == ITEM_COUNT + 1
<1>2. k \in Nat
    BY <1>1
<1>3. ASSUME NEW f \in Nat, NEW a \in Nat
      PROVE  f * a \in Nat /\ (f + 1) * a = f * a + a
    BY <1>3
<1>4. failed * k \in Nat /\ (failed + 1) * k = failed * k + k
    BY <1>1, <1>2, <1>3
<1>5. Surplus = crashes + failed * k /\ Surplus' = crashes' + failed' * k
    BY DEF Surplus
<1> DEFINE p == failed * k
           q == (failed + 1) * k
<1>6. p \in Nat /\ q = p + k
    BY <1>4
<1>7. Surplus = crashes + p /\ (failed' = failed + 1 => Surplus' = crashes' + q)
      /\ (failed' = failed => Surplus' = crashes' + p)
    BY <1>5
<1> HIDE DEF p, q
<1> QED
    BY <1>1, <1>6, <1>7

\* The ids a list does not show are finitely many.
LEMMA HiddenFinite ==
    ASSUME NEW t, Good(t), NEW s
    PROVE  /\ IsFiniteSet(Ids(t) \ Names(s)) /\ Cardinality(Ids(t) \ Names(s)) \in Nat
           /\ Cardinality(Ids(t) \ Names(s)) <= Cardinality(Ids(t))
<1>1. IsFiniteSet(Ids(t)) /\ Ids(t) \ Names(s) \in SUBSET Ids(t)
    BY IdsFinite
<1> QED
    BY <1>1, FS_Subset, FS_CardinalityType

\* The tables in h are sequences with a first and a last one.
LEMMA StoredEnds ==
    ASSUME NEW h, NEW g, Stored(h, g)
    PROVE  /\ Len(h) \in Nat /\ Len(h) >= 1 /\ 1 \in 1..Len(h) /\ Len(h) \in 1..Len(h)
           /\ Head(h) = h[1] /\ DOMAIN h = 1..Len(h)
           /\ \A n \in 1..Len(h) : Good(h[n]) /\ h[n] \in Tables
<1>1. Len(h) \in Nat /\ Len(h) # 0 /\ DOMAIN h = 1..Len(h)
    BY LenProperties, EmptySeq DEF Stored
<1>2. Head(h) = h[1]
    BY HeadTailProperties DEF Stored
<1> QED
    BY <1>1, <1>2 DEF Stored, Good

\* A larger surplus.
LEMMA Wider ==
    ASSUME NEW h, NEW g \in Nat, Stored(h, g), NEW k \in Nat, g <= k
    PROVE  /\ Stored(h, k)
           /\ \A s, o : Listed(s, h, g, o) => Listed(s, h, k, o) /\ Listed(s, h, k, TRUE)
<1>1. ITEM_COUNT \in Nat
    BY HistoryAssumption
<1>2. /\ Len(h) \in 1..Len(h)
      /\ \A n \in 1..Len(h) : Good(h[n]) /\ Cardinality(Ids(h[n])) \in Nat
    BY StoredEnds, IdsFinite
<1>3. Stored(h, k)
    BY <1>1, <1>2 DEF Stored
<1>4. ASSUME NEW s, NEW o, Listed(s, h, g, o)
      PROVE  Listed(s, h, k, o) /\ Listed(s, h, k, TRUE)
    <2>1. Cardinality(Ids(h[Len(h)]) \ Names(s)) \in Nat
        BY <1>2, HiddenFinite
    <2> QED
        BY <1>4, <2>1 DEF Listed
<1> QED
    BY <1>3, <1>4

\* What is queued is forgotten.
LEMMA Forgotten ==
    ASSUME NEW h, NEW g \in Nat, Stored(h, g)
    PROVE  /\ Stored(<<h[1]>>, g + 1) /\ Stored(<<h[1]>>, g + (ITEM_COUNT + 1))
           /\ \A s, o : Listed(s, h, g, o) => Listed(s, <<h[1]>>, g + (ITEM_COUNT + 1), TRUE)
<1> DEFINE f == h[1]
<1>1. ITEM_COUNT \in Nat
    BY HistoryAssumption
<1>2. /\ 1 \in 1..Len(h) /\ Good(f) /\ f \in Tables
      /\ Cardinality(Ids(f)) \in Nat /\ Cardinality(Ids(f)) <= ITEM_COUNT + 1 + g
    BY StoredEnds, IdsFinite DEF Stored
<1>3. <<f>> \in Seq(Tables) /\ <<f>> # <<>> /\ Len(<<f>>) = 1 /\ <<f>>[1] = f
    BY <1>2, One, Zenon
<1> HIDE DEF f
<1>4. Stored(<<f>>, g + 1)
    BY <1>1, <1>2, <1>3 DEF Stored
<1>5. Stored(<<f>>, g + (ITEM_COUNT + 1))
    <2>1. g + 1 \in Nat /\ g + (ITEM_COUNT + 1) \in Nat /\ g + 1 <= g + (ITEM_COUNT + 1)
        BY <1>1
    <2> QED
        BY <1>4, <2>1, Wider, Zenon
<1>6. ASSUME NEW s, NEW o, Listed(s, h, g, o)
      PROVE  Listed(s, <<f>>, g + (ITEM_COUNT + 1), TRUE)
    <2>1. /\ Cardinality(Ids(f) \ Names(s)) \in Nat
          /\ Cardinality(Ids(f) \ Names(s)) <= Cardinality(Ids(f))
        BY <1>2, HiddenFinite
    <2>2. Cardinality(Ids(f) \ Names(s)) <= g + (ITEM_COUNT + 1)
        BY <1>1, <1>2, <2>1
    <2>3. \A i \in 1..Len(s) : Backed(s[i], f)
        BY <1>2, <1>6 DEF Listed, f
    <2>4. \A i \in 1..Len(s), n \in 1..Len(<<f>>) : Backed(s[i], <<f>>[n])
        BY <1>3, <2>3
    <2>5. <<f>>[Len(<<f>>)] = f
        BY <1>3
    <2> QED
        BY <1>6, <2>2, <2>4, <2>5 DEF Listed
<1> QED
    BY <1>4, <1>5, <1>6 DEF f

\* Everything queued is written.
LEMMA Flushed ==
    ASSUME NEW h, NEW g \in Nat, Stored(h, g)
    PROVE  /\ Stored(<<h[Len(h)]>>, g)
           /\ \A s, o : Listed(s, h, g, o) => Listed(s, <<h[Len(h)]>>, g, o)
<1> DEFINE f == h[Len(h)]
<1>1. ITEM_COUNT \in Nat
    BY HistoryAssumption
<1>2. /\ Len(h) \in 1..Len(h) /\ Good(f) /\ f \in Tables
      /\ Cardinality(Ids(f)) \in Nat /\ Cardinality(Ids(f)) <= ITEM_COUNT + g
    BY StoredEnds, IdsFinite DEF Stored
<1>3. /\ <<f>> \in Seq(Tables) /\ <<f>> # <<>> /\ Len(<<f>>) = 1 /\ <<f>>[1] = f
      /\ <<f>>[Len(<<f>>)] = f
    BY <1>2, One, Zenon
<1> HIDE DEF f
<1>4. Stored(<<f>>, g)
    BY <1>1, <1>2, <1>3 DEF Stored
<1>5. ASSUME NEW s, NEW o, Listed(s, h, g, o)
      PROVE  Listed(s, <<f>>, g, o)
    <2>1. \A i \in 1..Len(s) : Backed(s[i], f)
        BY <1>2, <1>5 DEF Listed, f
    <2>2. \A i \in 1..Len(s), n \in 1..Len(<<f>>) : Backed(s[i], <<f>>[n])
        BY <1>3, <2>1
    <2>3. o \/ Mirror(s, f)
        BY <1>5 DEF Listed, f
    <2>4. Cardinality(Ids(f) \ Names(s)) <= g
        BY <1>5 DEF Listed, f
    <2> QED
        BY <1>3, <1>5, <2>2, <2>3, <2>4 DEF Listed
<1> QED
    BY <1>4, <1>5 DEF f

\* The first statement queued is written.
LEMMA Executed ==
    ASSUME NEW h, NEW g \in Nat, Stored(h, g), Len(h) > 1
    PROVE  /\ Stored(Tail(h), g)
           /\ \A s, o : Listed(s, h, g, o) => Listed(s, Tail(h), g, o)
           /\ \A n \in 1..Len(Tail(h)) : n + 1 \in 1..Len(h) /\ Tail(h)[n] = h[n + 1]
<1> DEFINE f == Tail(h)
<1>1. /\ f \in Seq(Tables) /\ Len(f) = Len(h) - 1 /\ Len(h) \in Nat
      /\ \A n \in 1..Len(f) : f[n] = h[n + 1]
    BY StoredEnds, HeadTailProperties DEF Stored
<1> HIDE DEF f
<1>2. /\ Len(f) \in 1..Len(f) /\ Len(f) \in Nat /\ Len(f) + 1 = Len(h) /\ f[Len(f)] = h[Len(h)]
      /\ \A n \in 1..Len(f) : n + 1 \in 1..Len(h)
    BY <1>1
<1>3. f # <<>>
    BY <1>1, <1>2, EmptySeq
<1>4. Stored(f, g)
    BY <1>1, <1>2, <1>3 DEF Stored
<1>5. ASSUME NEW s, NEW o, Listed(s, h, g, o)
      PROVE  Listed(s, f, g, o)
    <2>1. \A i \in 1..Len(s), n \in 1..Len(f) : Backed(s[i], f[n])
        BY <1>1, <1>2, <1>5 DEF Listed
    <2> QED
        BY <1>2, <1>5, <2>1 DEF Listed
<1> QED
    BY <1>1, <1>2, <1>4, <1>5 DEF f

\* The order of the list does not matter.
LEMMA MovedListed ==
    ASSUME NEW s, NEW h, NEW g, NEW o, Listed(s, h, g, o), NEW k \in 1..Len(s)
    PROVE  LET c == <<s[k]>> \o RemoveAt(s, k)
           IN  Listed(c, h, g, o) /\ c # <<>>
<1> DEFINE c == <<s[k]>> \o RemoveAt(s, k)
<1>1. /\ s \in Seq(Row) /\ c \in Seq(Row) /\ Len(c) = Len(s) /\ Len(s) \in Nat
      /\ \A i \in 1..Len(s) : From(i, k) \in 1..Len(s) /\ c[i] = s[From(i, k)]
    BY MovedSeq, LenProperties DEF Listed
<1>2. /\ \A i, j \in 1..Len(s) : From(i, k) = From(j, k) => i = j
      /\ \A j \in 1..Len(s) : \E i \in 1..Len(s) : From(i, k) = j
    BY <1>1, FromPermutes
<1> HIDE DEF c
<1>3. c # <<>>
    BY <1>1, EmptySeq
<1>4. \A j \in 1..Len(s) : \E i \in 1..Len(c) : c[i] = s[j]
    <2> TAKE j \in 1..Len(s)
    <2>1. PICK i \in 1..Len(s) : From(i, k) = j
        BY <1>2
    <2> QED
        BY <1>1, <2>1
<1>5. \A i \in 1..Len(c) : \E j \in 1..Len(s) : c[i] = s[j]
    BY <1>1
<1>6. Names(c) = Names(s)
    <2>1. \A x \in Names(c) : x \in Names(s)
        BY <1>5 DEF Names
    <2>2. \A x \in Names(s) : x \in Names(c)
        BY <1>4 DEF Names
    <2> QED
        BY <2>1, <2>2
<1>7. Distinct(c)
    <2> SUFFICES ASSUME NEW i \in 1..Len(c), NEW j \in 1..Len(c), c[i].id = c[j].id, c[i].id # 0
                 PROVE  i = j
        BY DEF Distinct
    <2>1. /\ i \in 1..Len(s) /\ j \in 1..Len(s)
          /\ From(i, k) \in 1..Len(s) /\ From(j, k) \in 1..Len(s)
          /\ s[From(i, k)].id = s[From(j, k)].id /\ s[From(i, k)].id # 0
        BY <1>1
    <2>2. From(i, k) = From(j, k)
        BY <2>1 DEF Listed, Distinct
    <2> QED
        BY <1>2, <2>1, <2>2
<1>8. Numbers(s) => Numbers(c)
    BY <1>5 DEF Numbers
<1>9. ASSUME NEW r, Shows(s, r) PROVE Shows(c, r)
    <2>1. PICK j \in 1..Len(s) : EntryOf(s[j], r) /\ s[j].date = r.date
        BY <1>9 DEF Shows
    <2>2. PICK i \in 1..Len(c) : c[i] = s[j]
        BY <1>4
    <2> QED
        BY <2>1, <2>2 DEF Shows
<1>10. o \/ Mirror(c, h[Len(h)])
    BY <1>8, <1>9 DEF Listed, Mirror
<1>11. \A i \in 1..Len(c), n \in 1..Len(h) : Backed(c[i], h[n])
    BY <1>5 DEF Listed
<1>12. Len(c) <= ITEM_COUNT \/ Numbers(c)
    BY <1>1, <1>8 DEF Listed
<1>13. Listed(c, h, g, o)
    BY <1>1, <1>6, <1>7, <1>10, <1>11, <1>12 DEF Listed
<1> QED
    BY <1>3, <1>13 DEF c

\* insert at 0 and removeLast with remove: the entry is in front of a short
\* list, and what is dropped takes its row along.
LEMMA InFrontStep ==
    ASSUME NEW g \in Nat, NEW t, Good(t), Cardinality(Ids(t)) <= ITEM_COUNT + 1 + g,
           items \in Seq(Row), Distinct(items), \A i \in 1..Len(items) : Backed(items[i], t),
           NEW e \in Row, Backed(e, t),
           e.id # 0 => \A i \in 1..Len(items) : items[i].id # e.id,
           Cardinality(Ids(t) \ (Names(items) \cup {e.id})) <= g,
           NEW o,
           o \/ /\ e.id # 0 /\ Numbers(items)
                /\ \A r \in t.cols : Shows(items, r) \/ (EntryOf(e, r) /\ e.date = r.date),
           InFront(e, t)
    PROVE  /\ Stored(hist', g) /\ Listed(items', hist', g, o) /\ items' # <<>>
           /\ call' = Step("update", NoItem, FALSE)
<1> DEFINE D == Dropped(items)
           a == Kept
           c == <<e>> \o a
           h == <<t>> \o Removals(t, D)
           l == Cut(t, D, Len(D))
<1>1. items' = c /\ hist' = h /\ call' = Step("update", NoItem, FALSE)
    BY DEF InFront, Dropped
<1>2. ITEM_COUNT \in Nat /\ ITEM_COUNT >= 1
    BY HistoryAssumption
<1>3. /\ a \in Seq(Row) /\ Len(a) < ITEM_COUNT /\ Len(a) <= Len(items)
      /\ Len(a) \in Nat /\ Len(items) \in Nat
      /\ \A i \in 1..Len(a) : a[i] = items[i]
      /\ D \in Seq(Row)
      /\ \A m \in 1..Len(D) : \E i \in 1..Len(items) : i > Len(a) /\ D[m] = items[i]
      /\ \A i \in 1..Len(items) : i > Len(a) => \E m \in 1..Len(D) : D[m] = items[i]
    BY KeptSeq
<1> HIDE DEF D, a
<1>4. /\ c \in Seq(Row) /\ Len(c) = Len(a) + 1 /\ c[1] = e
      /\ \A i \in 1..Len(a) : c[i + 1] = a[i]
    BY <1>3, FrontSeq
<1>5. <<t>> \in Seq(Tables) /\ <<t>> # <<>> /\ Len(<<t>>) = 1 /\ <<t>>[1] = t
    <2>1. t \in Tables
        BY DEF Good
    <2> QED
        BY <2>1, One, Zenon
<1>6. /\ h \in Seq(Tables) /\ h # <<>> /\ Len(h) \in Nat /\ Len(h) \in 1..Len(h)
      /\ \A n \in 1..Len(h) : h[n] = t \/ \E m \in 1..Len(D) : h[n] = Cut(t, D, m)
      /\ h[Len(h)] = l
    <2> DEFINE u == <<t>>
    <2>1. u[Len(u)] = t
        BY <1>5
    <2> HIDE DEF u
    <2>2. LET v == u[Len(u)]
              k == u \o Removals(v, D)
          IN  /\ k \in Seq(Tables) /\ k # <<>> /\ Len(k) = Len(u) + Len(D)
              /\ \A n \in 1..Len(k) :
                    \/ n \in 1..Len(u) /\ k[n] = u[n]
                    \/ \E m \in 1..Len(D) : k[n] = Cut(v, D, m)
              /\ k[Len(k)] = Cut(v, D, Len(D))
        BY <1>3, <1>5, QueueCuts DEF u
    <2> DEFINE k == u \o Removals(t, D)
    <2>3. /\ k \in Seq(Tables) /\ k # <<>> /\ Len(k) = Len(u) + Len(D)
          /\ \A n \in 1..Len(k) :
                \/ n \in 1..Len(u) /\ k[n] = u[n]
                \/ \E m \in 1..Len(D) : k[n] = Cut(t, D, m)
          /\ k[Len(k)] = Cut(t, D, Len(D))
        BY <2>1, <2>2
    <2>4. Len(D) \in Nat /\ Len(u) = 1 /\ u[1] = t
        BY <1>3, <1>5, LenProperties DEF u
    <2>5. h = k
        BY DEF u
    <2> HIDE DEF k
    <2>6. Len(k) \in Nat /\ Len(k) \in 1..Len(k) /\ \A n \in 1..Len(u) : u[n] = t
        BY <2>3, <2>4
    <2> HIDE DEF h
    <2> QED
        BY <2>3, <2>5, <2>6
<1> HIDE DEF c, h, l
\* The tables.
<1>7. ASSUME NEW m
      PROVE  /\ Good(Cut(t, D, m))
             /\ Cardinality(Ids(Cut(t, D, m))) <= Cardinality(Ids(t))
    <2>1. Good(Cut(t, D, m)) /\ Ids(Cut(t, D, m)) \in SUBSET Ids(t)
        BY CutGood
    <2> QED
        BY <2>1, IdsFinite, FS_Subset
<1>8. \A n \in 1..Len(h) : /\ Good(h[n])
                           /\ Cardinality(Ids(h[n])) <= ITEM_COUNT + 1 + g
    <2> TAKE n \in 1..Len(h)
    <2>1. Good(h[n]) /\ Cardinality(Ids(h[n])) <= Cardinality(Ids(t))
        <3>1. Cardinality(Ids(t)) <= Cardinality(Ids(t))
            BY IdsFinite
        <3> QED
            BY <1>6, <1>7, <3>1
    <2>2. Cardinality(Ids(h[n])) \in Nat /\ Cardinality(Ids(t)) \in Nat
        BY <2>1, IdsFinite
    <2> QED
        BY <1>2, <2>1, <2>2
\* The list.
<1>9. ASSUME NEW i \in 1..Len(c)
      PROVE  \/ i = 1 /\ c[i] = e
             \/ i - 1 \in 1..Len(a) /\ i - 1 \in 1..Len(items) /\ c[i] = items[i - 1]
    <2>1. CASE i = 1
        BY <1>4, <2>1
    <2>2. CASE i # 1
        <3>1. i - 1 \in 1..Len(a) /\ i - 1 \in 1..Len(items) /\ (i - 1) + 1 = i
            BY <1>3, <1>4, <2>2
        <3>2. c[i] = a[i - 1] /\ a[i - 1] = items[i - 1]
            BY <1>3, <1>4, <3>1
        <3> QED
            BY <3>1, <3>2
    <2> QED
        BY <2>1, <2>2
<1>10. Distinct(c)
    <2> SUFFICES ASSUME NEW i \in 1..Len(c), NEW j \in 1..Len(c), c[i].id = c[j].id, c[i].id # 0
                 PROVE  i = j
        BY DEF Distinct
    <2>1. CASE i = 1 /\ j = 1
        BY <2>1
    <2>2. CASE i = 1 /\ j # 1
        <3>1. c[i] = e /\ j - 1 \in 1..Len(items) /\ c[j] = items[j - 1]
            BY <1>4, <1>9, <2>2
        <3> QED
            BY <3>1
    <2>3. CASE i # 1 /\ j = 1
        <3>1. c[j] = e /\ i - 1 \in 1..Len(items) /\ c[i] = items[i - 1]
            BY <1>4, <1>9, <2>3
        <3> QED
            BY <3>1
    <2>4. CASE i # 1 /\ j # 1
        <3>1. /\ j - 1 \in 1..Len(items) /\ c[j] = items[j - 1]
              /\ i - 1 \in 1..Len(items) /\ c[i] = items[i - 1]
            BY <1>9, <2>4
        <3>2. i - 1 = j - 1
            BY <3>1 DEF Distinct
        <3> QED
            BY <1>3, <1>4, <3>2
    <2> QED
        BY <2>1, <2>2, <2>3, <2>4
\* No entry of the list is among what is dropped.
<1>11. ASSUME NEW i \in 1..Len(c), c[i].id # 0, NEW m \in 1..Len(D)
       PROVE  c[i].id # D[m].id
    <2>1. PICK j \in 1..Len(items) : j > Len(a) /\ D[m] = items[j]
        BY <1>3
    <2>2. CASE i = 1 /\ c[i] = e
        BY <1>11, <2>1, <2>2
    <2>3. CASE i - 1 \in 1..Len(a) /\ i - 1 \in 1..Len(items) /\ c[i] = items[i - 1]
        <3>1. i - 1 # j
            BY <1>3, <2>1, <2>3
        <3> QED
            BY <1>11, <2>1, <2>3, <3>1 DEF Distinct
    <2> QED
        BY <1>9, <2>2, <2>3
<1>12. \A i \in 1..Len(c) : Backed(c[i], t)
    BY <1>9
<1>13. \A i \in 1..Len(c), n \in 1..Len(h) : Backed(c[i], h[n])
    <2> TAKE i \in 1..Len(c), n \in 1..Len(h)
    <2>1. CASE h[n] = t
        BY <1>12, <2>1
    <2>2. CASE \E m \in 1..Len(D) : h[n] = Cut(t, D, m)
        <3>1. PICK m \in 1..Len(D) : h[n] = Cut(t, D, m)
            BY <2>2
        <3>2. \A x \in 1..m : x \in 1..Len(D)
            BY <1>3, LenProperties
        <3>3. c[i].id # 0 => \A x \in 1..m : c[i].id # D[x].id
            BY <1>11, <3>2
        <3> QED
            BY <1>12, <3>1, <3>3, CutBacked
    <2> QED
        BY <1>6, <2>1, <2>2
\* What the list does not show is what it did not show before.
<1>14. /\ Good(l) /\ l.cols = {r \in t.cols : \A m \in 1..Len(D) : r.id # D[m].id}
       /\ Ids(l) = {x \in Ids(t) : \A m \in 1..Len(D) : x # D[m].id}
    BY CutGood DEF l
<1>15. ASSUME NEW x, \A m \in 1..Len(D) : x # D[m].id, NEW j \in 1..Len(items), items[j].id = x
       PROVE  \E i \in 1..Len(c) : c[i] = items[j]
    <2>1. ~(j > Len(a))
        BY <1>3, <1>15
    <2>2. j \in 1..Len(a) /\ j + 1 \in 1..Len(c)
        BY <1>3, <1>4, <2>1
    <2>3. c[j + 1] = items[j]
        BY <1>3, <1>4, <2>2
    <2> QED
        BY <2>2, <2>3
<1>16. Ids(l) \ Names(c) \subseteq Ids(t) \ (Names(items) \cup {e.id})
    <2> SUFFICES ASSUME NEW x \in Ids(l) \ Names(c)
                 PROVE  x \in Ids(t) /\ x \notin Names(items) /\ x # e.id
        OBVIOUS
    <2>1. x \in Ids(t) /\ \A m \in 1..Len(D) : x # D[m].id
        BY <1>14
    <2>2. x # e.id
        BY <1>4, <1>3 DEF Names
    <2>3. ASSUME x \in Names(items) PROVE FALSE
        <3>1. PICK j \in 1..Len(items) : items[j].id = x
            BY <2>3 DEF Names
        <3>2. PICK i \in 1..Len(c) : c[i] = items[j]
            BY <1>15, <2>1, <3>1
        <3> QED
            BY <3>1, <3>2 DEF Names
    <2> QED
        BY <2>1, <2>2, <2>3
<1>17. IsFiniteSet(Ids(l) \ Names(c)) /\ Cardinality(Ids(l) \ Names(c)) <= g
    <2> DEFINE A == Ids(l) \ Names(c)
               B == Ids(t) \ (Names(items) \cup {e.id})
    <2>1. IsFiniteSet(B) /\ A \in SUBSET B
        <3>1. B \in SUBSET Ids(t) /\ IsFiniteSet(Ids(t))
            BY IdsFinite
        <3> QED
            BY <1>16, <3>1, FS_Subset
    <2> HIDE DEF A, B
    <2>2. IsFiniteSet(A) /\ Cardinality(A) <= Cardinality(B) /\ Cardinality(A) \in Nat
          /\ Cardinality(B) \in Nat
        BY <2>1, FS_Subset, FS_CardinalityType
    <2>3. Cardinality(B) <= g
        BY DEF B
    <2>4. Cardinality(A) <= g
        BY <2>2, <2>3
    <2> QED
        BY <2>2, <2>4 DEF A
<1>18. Cardinality(Ids(l)) <= ITEM_COUNT + g
    <2> DEFINE A == Ids(l) \ Names(c)
               B == Names(c)
    <2>1. IsFiniteSet(B) /\ Cardinality(B) <= Len(c)
        BY <1>4, NamesCount
    <2>2. IsFiniteSet(A) /\ Cardinality(A) <= g
        BY <1>17
    <2>3. Ids(l) \in SUBSET (A \cup B)
        OBVIOUS
    <2> HIDE DEF A, B
    <2>4. IsFiniteSet(A \cup B) /\ Cardinality(A \cup B) = Cardinality(A) + Cardinality(B) - Cardinality(A \cap B)
        BY <2>1, <2>2, FS_Union
    <2>5. Cardinality(A) \in Nat /\ Cardinality(B) \in Nat /\ Cardinality(A \cap B) \in Nat
        BY <2>1, <2>2, FS_Intersection, FS_CardinalityType
    <2>6. Cardinality(Ids(l)) <= Cardinality(A \cup B) /\ Cardinality(Ids(l)) \in Nat
        BY <2>3, <2>4, FS_Subset, FS_CardinalityType
    <2>7. Len(c) <= ITEM_COUNT /\ Len(c) \in Nat
        BY <1>2, <1>3, <1>4
    <2> QED
        BY <1>2, <2>1, <2>2, <2>4, <2>5, <2>6, <2>7
<1>19. o \/ Mirror(c, l)
    <2> SUFFICES ASSUME ~o PROVE Mirror(c, l)
        OBVIOUS
    <2>1. Numbers(c)
        BY <1>9 DEF Numbers
    <2>2. ASSUME NEW r \in l.cols PROVE Shows(c, r)
        <3>1. r \in t.cols /\ \A m \in 1..Len(D) : r.id # D[m].id
            BY <1>14
        <3>2. CASE Shows(items, r)
            <4>1. PICK j \in 1..Len(items) : EntryOf(items[j], r) /\ items[j].date = r.date
                BY <3>2 DEF Shows
            <4>2. items[j].id = r.id
                BY <4>1 DEF EntryOf
            <4>3. PICK i \in 1..Len(c) : c[i] = items[j]
                BY <1>15, <3>1, <4>2
            <4> QED
                BY <4>1, <4>3 DEF Shows
        <3>3. CASE EntryOf(e, r) /\ e.date = r.date
            <4>1. 1 \in 1..Len(c) /\ c[1] = e
                BY <1>3, <1>4
            <4> QED
                BY <3>3, <4>1 DEF Shows
        <3> QED
            BY <3>1, <3>2, <3>3
    <2> QED
        BY <2>1, <2>2 DEF Mirror
<1>20. Stored(h, g)
    BY <1>6, <1>8, <1>18 DEF Stored
<1>21. Listed(c, h, g, o)
    <2>1. Len(c) <= ITEM_COUNT
        BY <1>2, <1>3, <1>4
    <2>2. Cardinality(Ids(h[Len(h)]) \ Names(c)) <= g /\ (o \/ Mirror(c, h[Len(h)]))
        BY <1>6, <1>17, <1>19
    <2> QED
        BY <1>4, <1>10, <1>13, <2>1, <2>2 DEF Listed
<1>22. c # <<>>
    BY <1>3, <1>4, EmptySeq
<1> QED
    BY <1>1, <1>20, <1>21, <1>22

\* The list with e for its first entry.
LEMMA FirstReplaced ==
    ASSUME NEW s \in Seq(Row), s # <<>>, NEW e \in Row
    PROVE  LET c == [s EXCEPT ![1] = e]
           IN  /\ c \in Seq(Row) /\ c # <<>> /\ Len(c) = Len(s) /\ Len(s) \in Nat /\ Len(s) >= 1
               /\ c[1] = e /\ \A i \in 1..Len(s) : i # 1 => c[i] = s[i]
<1> DEFINE c == [s EXCEPT ![1] = e]
<1>1. Len(s) \in Nat /\ Len(s) # 0 /\ DOMAIN s = 1..Len(s)
    BY LenProperties, EmptySeq
<1>2. c \in Seq(Row) /\ Len(c) = Len(s)
    BY ExceptSeq, <1>1
<1>3. c[1] = e /\ \A i \in 1..Len(s) : i # 1 => c[i] = s[i]
    BY <1>1
<1> HIDE DEF c
<1>4. c # <<>>
    BY <1>1, <1>2, EmptySeq
<1> QED
    BY <1>1, <1>2, <1>3, <1>4 DEF c

\* update of an entry that has a row: the UPDATE is queued.
LEMMA DatedListed ==
    ASSUME NEW h, NEW g \in Nat, Stored(h, g), NEW s, NEW o, Listed(s, h, g, o),
           s # <<>>, s[1].id # 0, NEW w \in Nat
    PROVE  LET e == [s[1] EXCEPT !.date = w]
               k == Append(h, WithDate(h[Len(h)], e.id, w))
           IN  Stored(k, g) /\ Listed([s EXCEPT ![1] = e], k, g, o)
<1> DEFINE f == s[1]
           e == [f EXCEPT !.date = w]
           c == [s EXCEPT ![1] = e]
           t == h[Len(h)]
           d == WithDate(t, e.id, w)
           k == Append(h, d)
<1>1. s \in Seq(Row) /\ Len(s) \in Nat /\ 1 \in 1..Len(s) /\ f \in Row
    <2>1. s \in Seq(Row) /\ Len(s) \in Nat /\ Len(s) # 0
        BY LenProperties, EmptySeq DEF Listed
    <2>2. 1 \in 1..Len(s)
        BY <2>1
    <2> QED
        BY <2>1, <2>2, ElementOfSeq
<1>2. e \in Row /\ e.id = f.id /\ e.item = f.item /\ e.date = w /\ e.target = f.target /\ e.blind = f.blind
    BY <1>1 DEF Row
<1> HIDE DEF e
<1>3. /\ c \in Seq(Row) /\ Len(c) = Len(s) /\ c[1] = e
      /\ \A i \in 1..Len(s) : i # 1 => c[i] = s[i]
    BY <1>1, <1>2, FirstReplaced
<1> HIDE DEF c
<1>4. /\ Len(h) \in Nat /\ Len(h) \in 1..Len(h) /\ h \in Seq(Tables) /\ Good(t)
      /\ \A n \in 1..Len(h) : Good(h[n])
    BY StoredEnds DEF Stored
<1> HIDE DEF t
<1>5. /\ Good(d) /\ Ids(d) = Ids(t) /\ d \in Tables
      /\ d.cols = {Dated(r, e.id, w) : r \in t.cols}
      /\ \A r \in t.cols : /\ Dated(r, e.id, w).id = r.id /\ Dated(r, e.id, w).item = r.item
                           /\ Dated(r, e.id, w).date = IF r.id = e.id THEN w ELSE r.date
      /\ \A x : Backed(x, t) => Backed(x, d)
    BY <1>4, DateGood DEF Good
<1> HIDE DEF d
<1>6. /\ k \in Seq(Tables) /\ Len(k) = Len(h) + 1 /\ k[Len(h) + 1] = d
      /\ \A n \in 1..Len(h) : k[n] = h[n]
    BY <1>4, <1>5, AppendProperties
<1> HIDE DEF k
<1>7. /\ k # <<>> /\ k[Len(k)] = d
      /\ \A n \in 1..Len(k) : (n \in 1..Len(h) /\ k[n] = h[n]) \/ k[n] = d
    <2>1. k # <<>> /\ k[Len(k)] = d
        BY <1>4, <1>6, EmptySeq
    <2>2. ASSUME NEW n \in 1..Len(k)
          PROVE  (n \in 1..Len(h) /\ k[n] = h[n]) \/ k[n] = d
        BY <1>4, <1>6
    <2> QED
        BY <2>1, <2>2
<1>8. Cardinality(Ids(t)) <= ITEM_COUNT + g /\ Cardinality(Ids(t)) \in Nat
    BY <1>4, IdsFinite DEF Stored, t
<1>9. Cardinality(Ids(d)) <= ITEM_COUNT + 1 + g /\ Cardinality(Ids(d)) <= ITEM_COUNT + g
    BY <1>5, <1>8, HistoryAssumption
<1>10. Stored(k, g)
    <2>1. \A n \in 1..Len(k) : Good(k[n]) /\ Cardinality(Ids(k[n])) <= ITEM_COUNT + 1 + g
        BY <1>5, <1>7, <1>9 DEF Stored
    <2> QED
        BY <1>6, <1>7, <1>9, <2>1 DEF Stored
<1>11. \A i \in 1..Len(c) : c[i].id = s[i].id /\ c[i].item = s[i].item
            /\ c[i].target = s[i].target /\ c[i].blind = s[i].blind
    BY <1>2, <1>3
<1>12. Distinct(c) /\ Names(c) = Names(s) /\ (Numbers(s) => Numbers(c))
    <2>1. Distinct(c)
        BY <1>3, <1>11 DEF Listed, Distinct
    <2>2. Names(c) = Names(s)
        BY <1>3, <1>11 DEF Names
    <2> QED
        BY <1>3, <1>11, <2>1, <2>2 DEF Numbers
<1>13. \A i \in 1..Len(c), n \in 1..Len(k) : Backed(c[i], k[n])
    <2> TAKE i \in 1..Len(c), n \in 1..Len(k)
    <2>1. \A m \in 1..Len(h) : Backed(s[i], h[m])
        BY <1>3 DEF Listed
    <2>2. Backed(s[i], k[n])
        BY <1>4, <1>5, <1>7, <2>1 DEF t
    <2> QED
        BY <1>11, <2>2 DEF Backed, EntryOf
<1>14. o \/ Mirror(c, d)
    <2> SUFFICES ASSUME ~o PROVE Mirror(c, d)
        OBVIOUS
    <2>1. Numbers(s) /\ \A r \in t.cols : Shows(s, r)
        BY DEF Listed, Mirror, t
    <2>2. ASSUME NEW q \in d.cols PROVE Shows(c, q)
        <3>1. PICK r \in t.cols : q = Dated(r, e.id, w)
            BY <1>5
        <3>2. q.id = r.id /\ q.item = r.item /\ q.date = IF r.id = e.id THEN w ELSE r.date
            BY <1>5, <3>1
        <3>3. CASE r.id = e.id
            <4>1. Backed(f, t)
                BY <1>1, <1>4 DEF Listed, t
            <4>2. PICK x \in t.cols : EntryOf(f, x)
                BY <4>1 DEF Backed
            <4>3. x = r
                <5>1. x.id = r.id
                    BY <1>2, <3>3, <4>2 DEF EntryOf
                <5> QED
                    BY <1>4, <5>1 DEF Good, Apart
            <4>4. EntryOf(c[1], q) /\ c[1].date = q.date /\ 1 \in 1..Len(c)
                BY <1>1, <1>2, <1>3, <3>2, <3>3, <4>2, <4>3 DEF EntryOf
            <4> QED
                BY <4>4 DEF Shows
        <3>4. CASE r.id # e.id
            <4>1. PICK i \in 1..Len(s) : EntryOf(s[i], r) /\ s[i].date = r.date
                BY <2>1 DEF Shows
            <4>2. i # 1
                BY <1>2, <3>4, <4>1 DEF EntryOf
            <4>3. EntryOf(c[i], q) /\ c[i].date = q.date /\ i \in 1..Len(c)
                BY <1>3, <3>2, <3>4, <4>1, <4>2 DEF EntryOf
            <4> QED
                BY <4>3 DEF Shows
        <3> QED
            BY <3>3, <3>4
    <2> QED
        BY <1>12, <2>1, <2>2 DEF Mirror
<1>15. Cardinality(Ids(d) \ Names(c)) <= g
    BY <1>5, <1>12 DEF Listed, t
<1>16. Len(c) <= ITEM_COUNT \/ Numbers(c)
    BY <1>3, <1>12 DEF Listed
<1>17. Listed(c, k, g, o)
    BY <1>3, <1>7, <1>12, <1>13, <1>14, <1>15, <1>16 DEF Listed
<1> QED
    BY <1>10, <1>17 DEF c, k, d, t, e

\* update of an entry that has no row: the file has not opened for the list,
\* and its INSERT runs, or the file does not open again.
LEMMA InsertedListed ==
    ASSUME NEW h, NEW g \in Nat, Stored(h, g), NEW s, NEW o, Listed(s, h, g, o),
           s # <<>>, s[1].id = 0, NEW w \in Nat
    PROVE  LET e == [s[1] EXCEPT !.date = w]
               t == h[Len(h)]
           IN  /\ o
               /\ Stored(<<WithRow(t, e)>>, g)
               /\ Listed([s EXCEPT ![1] = Numbered(t, e)], <<WithRow(t, e)>>, g, TRUE)
               /\ Listed([s EXCEPT ![1] = e], h, g, TRUE)
<1> DEFINE f == s[1]
           e == [f EXCEPT !.date = w]
           t == h[Len(h)]
           b == Numbered(t, e)
           u == WithRow(t, e)
           c == [s EXCEPT ![1] = b]
           x == [s EXCEPT ![1] = e]
<1>1. s \in Seq(Row) /\ Len(s) \in Nat /\ 1 \in 1..Len(s) /\ f \in Row
    <2>1. s \in Seq(Row) /\ Len(s) \in Nat /\ Len(s) # 0
        BY LenProperties, EmptySeq DEF Listed
    <2>2. 1 \in 1..Len(s)
        BY <2>1
    <2> QED
        BY <2>1, <2>2, ElementOfSeq
<1>2. e \in Row /\ e.id = f.id /\ e.item = f.item /\ e.date = w /\ e.target = f.target /\ e.blind = f.blind
    BY <1>1 DEF Row
<1> HIDE DEF e
<1>3. ~Numbers(s)
    BY <1>1 DEF Numbers
<1>4. o /\ Len(s) <= ITEM_COUNT
    BY <1>3 DEF Listed, Mirror
<1>5. Len(h) \in 1..Len(h) /\ Good(t) /\ Backed(f, t)
    BY <1>1, StoredEnds DEF Listed
<1>6. e.blind /\ e.item \in DataItem /\ (e.target => e.item \in t.books)
    BY <1>2, <1>5 DEF Backed
<1>7. \A i \in 1..Len(s) : Backed(s[i], t)
    BY <1>5 DEF Listed
<1>8. /\ b \in Row /\ b.id = t.seq + 1 /\ b.id # 0 /\ b.id \notin Ids(t)
      /\ Good(u) /\ Ids(u) = Ids(t) \cup {b.id} /\ u \in Tables
      /\ \A y : Backed(y, t) => Backed(y, u)
      /\ Backed(b, u)
    BY <1>2, <1>5, <1>6, RowInserted DEF Good
<1>8a. Cardinality(Ids(t) \ Names(s)) <= g
    BY DEF Listed
<1> HIDE DEF t, b, u
<1>9. /\ c \in Seq(Row) /\ Len(c) = Len(s) /\ c[1] = b
      /\ \A i \in 1..Len(s) : i # 1 => c[i] = s[i]
    BY <1>1, <1>8, FirstReplaced
<1>10. /\ x \in Seq(Row) /\ Len(x) = Len(s) /\ x[1] = e
       /\ \A i \in 1..Len(s) : i # 1 => x[i] = s[i]
    BY <1>1, <1>2, FirstReplaced
<1> HIDE DEF c, x
\* The file did not open.
<1>11. Listed(x, h, g, TRUE)
    <2>1. \A i \in 1..Len(x) : x[i].id = s[i].id /\ x[i].item = s[i].item
            /\ x[i].target = s[i].target /\ x[i].blind = s[i].blind
        BY <1>2, <1>10
    <2>2. Distinct(x)
        BY <1>10, <2>1 DEF Listed, Distinct
    <2>3. Names(x) = Names(s)
        BY <1>10, <2>1 DEF Names
    <2>4. \A i \in 1..Len(x), n \in 1..Len(h) : Backed(x[i], h[n])
        <3> TAKE i \in 1..Len(x), n \in 1..Len(h)
        <3>1. Backed(s[i], h[n])
            BY <1>10 DEF Listed
        <3> QED
            BY <2>1, <3>1 DEF Backed, EntryOf
    <2>5. Cardinality(Ids(h[Len(h)]) \ Names(x)) <= g
        BY <2>3 DEF Listed
    <2> QED
        BY <1>4, <1>10, <2>2, <2>4, <2>5 DEF Listed
\* It did.
<1>12. /\ <<u>> \in Seq(Tables) /\ <<u>> # <<>> /\ Len(<<u>>) = 1 /\ <<u>>[1] = u
    BY <1>8, One, Zenon
<1>13. ASSUME NEW i \in 1..Len(s), i # 1
       PROVE  s[i].id # b.id
    <2>1. Backed(s[i], t)
        BY <1>7
    <2>2. CASE s[i].id = 0
        BY <1>8, <2>2
    <2>3. CASE s[i].id # 0
        <3>1. PICK r \in t.cols : EntryOf(s[i], r)
            BY <2>1, <2>3 DEF Backed
        <3>2. s[i].id \in Ids(t)
            BY <3>1 DEF EntryOf, Ids
        <3> QED
            BY <1>8, <3>2
    <2> QED
        BY <2>2, <2>3
<1>14. Distinct(c)
    <2> SUFFICES ASSUME NEW i \in 1..Len(c), NEW j \in 1..Len(c), c[i].id = c[j].id, c[i].id # 0
                 PROVE  i = j
        BY DEF Distinct
    <2>1. CASE i # 1 /\ j # 1
        BY <1>9, <2>1 DEF Listed, Distinct
    <2>2. CASE i = 1 /\ j # 1
        BY <1>9, <1>13, <2>2
    <2>3. CASE i # 1 /\ j = 1
        BY <1>9, <1>13, <2>3
    <2> QED
        BY <2>1, <2>2, <2>3
<1>15. \A i \in 1..Len(c) : Backed(c[i], u)
    <2> TAKE i \in 1..Len(c)
    <2>1. CASE i = 1
        BY <1>8, <1>9, <2>1
    <2>2. CASE i # 1
        <3>1. c[i] = s[i] /\ Backed(s[i], t)
            BY <1>7, <1>9, <2>2
        <3> QED
            BY <1>8, <3>1
    <2> QED
        BY <2>1, <2>2
<1>16. \A i \in 1..Len(c), n \in 1..Len(<<u>>) : Backed(c[i], <<u>>[n])
    BY <1>12, <1>15
<1>17. Ids(u) \ Names(c) \subseteq Ids(t) \ Names(s)
    <2> SUFFICES ASSUME NEW y \in Ids(u) \ Names(c)
                 PROVE  y \in Ids(t) /\ y \notin Names(s)
        OBVIOUS
    <2>1. b.id \in Names(c)
        BY <1>1, <1>9 DEF Names
    <2>2. y \in Ids(t)
        BY <1>8, <2>1
    <2>3. y # 0
        BY <1>5, <2>2, IdsFinite DEF t
    <2>4. ASSUME y \in Names(s) PROVE FALSE
        <3>1. PICK i \in 1..Len(s) : s[i].id = y
            BY <2>4 DEF Names
        <3>2. i # 1
            BY <2>3, <3>1
        <3>3. c[i].id = y /\ i \in 1..Len(c)
            BY <1>9, <3>1, <3>2
        <3> QED
            BY <3>3 DEF Names
    <2> QED
        BY <2>2, <2>4
<1>18. Good(t)
    BY <1>5 DEF t
<1>19. IsFiniteSet(Ids(u) \ Names(c)) /\ Cardinality(Ids(u) \ Names(c)) <= g
    <2> DEFINE A == Ids(u) \ Names(c)
               B == Ids(t) \ Names(s)
    <2>1. IsFiniteSet(B) /\ Cardinality(B) \in Nat /\ Cardinality(B) <= g /\ A \in SUBSET B
        BY <1>8a, <1>17, <1>18, HiddenFinite
    <2> HIDE DEF A, B
    <2>2. IsFiniteSet(A) /\ Cardinality(A) <= Cardinality(B) /\ Cardinality(A) \in Nat
        BY <2>1, FS_Subset, FS_CardinalityType
    <2>3. Cardinality(A) <= g
        BY <2>1, <2>2
    <2> QED
        BY <2>2, <2>3 DEF A
<1>20. Cardinality(Ids(u)) <= ITEM_COUNT + g /\ Cardinality(Ids(u)) \in Nat
    <2> DEFINE A == Ids(u) \ Names(c)
               B == Names(c)
    <2>1. IsFiniteSet(B) /\ Cardinality(B) <= Len(c)
        BY <1>9, NamesCount
    <2>2. IsFiniteSet(A) /\ Cardinality(A) <= g
        BY <1>19
    <2>3. Ids(u) \in SUBSET (A \cup B)
        OBVIOUS
    <2> HIDE DEF A, B
    <2>4. IsFiniteSet(A \cup B) /\ Cardinality(A \cup B) = Cardinality(A) + Cardinality(B) - Cardinality(A \cap B)
        BY <2>1, <2>2, FS_Union
    <2>5. Cardinality(A) \in Nat /\ Cardinality(B) \in Nat /\ Cardinality(A \cap B) \in Nat
        BY <2>1, <2>2, FS_Intersection, FS_CardinalityType
    <2>6. Cardinality(Ids(u)) <= Cardinality(A \cup B) /\ Cardinality(Ids(u)) \in Nat
        BY <2>3, <2>4, FS_Subset, FS_CardinalityType
    <2>7. Len(c) <= ITEM_COUNT /\ Len(c) \in Nat /\ ITEM_COUNT \in Nat
        BY <1>1, <1>4, <1>9, HistoryAssumption
    <2> QED
        BY <2>1, <2>2, <2>4, <2>5, <2>6, <2>7
<1>21. Stored(<<u>>, g)
    <2>1. Cardinality(Ids(u)) <= ITEM_COUNT + 1 + g
        BY <1>20, HistoryAssumption
    <2> QED
        <3>1. <<u>>[Len(<<u>>)] = u /\ \A n \in 1..Len(<<u>>) : <<u>>[n] = u
            BY <1>12
        <3> HIDE DEF u
        <3> QED
            BY <1>8, <1>12, <1>20, <2>1, <3>1 DEF Stored
<1>22. Listed(c, <<u>>, g, TRUE)
    BY <1>4, <1>9, <1>12, <1>14, <1>16, <1>19 DEF Listed
<1> QED
    BY <1>4, <1>11, <1>21, <1>22 DEF c, x, u, b, t, e

\* clear: every row the list shows is removed.
LEMMA ClearedListed ==
    ASSUME NEW h, NEW g \in Nat, Stored(h, g), NEW s, NEW o, Listed(s, h, g, o)
    PROVE  LET k == h \o Removals(h[Len(h)], s)
           IN  Stored(k, g) /\ Listed(<<>>, k, g, o)
<1> DEFINE t == h[Len(h)]
           k == h \o Removals(t, s)
           l == Cut(t, s, Len(s))
<1>1. /\ h \in Seq(Tables) /\ h # <<>> /\ s \in Seq(Row) /\ Len(s) \in Nat
      /\ Len(h) \in 1..Len(h) /\ Good(t) /\ ITEM_COUNT \in Nat
    BY StoredEnds, LenProperties, HistoryAssumption DEF Stored, Listed
<1>2. /\ k \in Seq(Tables) /\ k # <<>>
      /\ \A n \in 1..Len(k) : \/ n \in 1..Len(h) /\ k[n] = h[n]
                              \/ \E m \in 1..Len(s) : k[n] = Cut(t, s, m)
      /\ k[Len(k)] = l
    BY <1>1, QueueCuts
<1> HIDE DEF k
<1>3. Cardinality(Ids(t)) <= ITEM_COUNT + g /\ Cardinality(Ids(t)) \in Nat
    BY <1>1, IdsFinite DEF Stored
<1> HIDE DEF t, l
<1>4. ASSUME NEW m
      PROVE  Good(Cut(t, s, m)) /\ Cardinality(Ids(Cut(t, s, m))) <= ITEM_COUNT + g
             /\ Cardinality(Ids(Cut(t, s, m))) <= ITEM_COUNT + 1 + g
    <2>1. Good(Cut(t, s, m)) /\ Ids(Cut(t, s, m)) \in SUBSET Ids(t)
        BY <1>1, CutGood
    <2>2. Cardinality(Ids(Cut(t, s, m))) <= Cardinality(Ids(t))
          /\ Cardinality(Ids(Cut(t, s, m))) \in Nat
        BY <1>1, <2>1, IdsFinite, FS_Subset
    <2> QED
        BY <1>1, <1>3, <2>1, <2>2
<1>5. Stored(k, g)
    <2>1. \A n \in 1..Len(k) : Good(k[n]) /\ Cardinality(Ids(k[n])) <= ITEM_COUNT + 1 + g
        BY <1>2, <1>4 DEF Stored
    <2>2. Cardinality(Ids(k[Len(k)])) <= ITEM_COUNT + g
        BY <1>2, <1>4 DEF l
    <2> QED
        BY <1>2, <2>1, <2>2 DEF Stored
<1>6. /\ l.cols = {r \in t.cols : \A m \in 1..Len(s) : r.id # s[m].id}
      /\ Ids(l) = {y \in Ids(t) : \A m \in 1..Len(s) : y # s[m].id}
    BY <1>1, CutGood DEF l
<1>7. <<>> \in Seq(Row) /\ Len(<<>>) = 0
    OBVIOUS
<1>8. Distinct(<<>>) /\ Numbers(<<>>) /\ Names(<<>>) = {}
    BY <1>7 DEF Distinct, Numbers, Names
<1>9. o \/ Mirror(<<>>, l)
    <2> SUFFICES ASSUME ~o, NEW r \in l.cols PROVE FALSE
        BY <1>8 DEF Mirror
    <2>1. r \in t.cols /\ \A m \in 1..Len(s) : r.id # s[m].id
        BY <1>6
    <2>2. Shows(s, r)
        BY <2>1 DEF Listed, Mirror, t
    <2> QED
        BY <2>1, <2>2 DEF Shows, EntryOf
<1>10. Cardinality(Ids(l) \ Names(<<>>)) <= g
    <2>1. Ids(l) \ Names(<<>>) = Ids(t) \ Names(s)
        <3>1. \A y : y \in Ids(l) <=> y \in Ids(t) /\ y \notin Names(s)
            BY <1>6 DEF Names
        <3> QED
            BY <1>8, <3>1
    <2> QED
        BY <2>1 DEF Listed, t
<1>11. Listed(<<>>, k, g, o)
    BY <1>1, <1>2, <1>7, <1>8, <1>9, <1>10 DEF Listed
<1> QED
    BY <1>5, <1>11 DEF k, t

\* The getter items: an entry for each row, in some order.
LEMMA LoadedListed ==
    ASSUME NEW t, Good(t), NEW g \in Nat, NEW lost, NEW s \in Sorted(t.cols)
    PROVE  LET c == [i \in DOMAIN s |-> HistoryItem(s[i], lost)]
           IN  Listed(c, <<t>>, g, FALSE)
<1> DEFINE C == t.cols
           n == Cardinality(C)
           c == [i \in DOMAIN s |-> HistoryItem(s[i], lost)]
<1>1. s \in SetToSeqs(C)
    BY DEF Sorted
<1>2. IsFiniteSet(C) /\ n \in Nat /\ C \subseteq Row /\ t \in Tables
    BY RowsCount, FS_CardinalityType DEF Good, Tables
<1> HIDE DEF C
<1>3. s \in [1..n -> C] /\ \A i, j \in 1..n : i # j => s[i] # s[j]
    BY <1>1 DEF SetToSeqs
<1> HIDE DEF n
<1>4. IsFiniteSet(1..n) /\ Cardinality(1..n) = n
    BY <1>2, FS_Interval
<1>5. s \in Surjection(1..n, C)
    <2>1. s \in Injection(1..n, C)
        BY <1>3 DEF Injection, IsInjective
    <2> QED
        BY <1>2, <1>4, <2>1, FS_Injection DEF n
<1>6. \A r \in C : \E i \in 1..n : s[i] = r
    BY <1>5 DEF Surjection
<1>7. ASSUME NEW r \in C
      PROVE  /\ HistoryItem(r, lost) \in Row /\ HistoryItem(r, lost).id = r.id
             /\ HistoryItem(r, lost).date = r.date /\ EntryOf(HistoryItem(r, lost), r)
             /\ r.id # 0
    <2>1. r \in Row /\ r.id # 0
        BY <1>2 DEF Good, RowGood, C
    <2>2. PICK x : x = (IF r.target /\ r.id \notin lost THEN r.item ELSE NoItem)
        OBVIOUS
    <2>3. x \in {r.item, NoItem} /\ x \in DataItem \cup {NoItem}
        BY <2>1, <2>2 DEF Row
    <2>4. HistoryItem(r, lost) = [r EXCEPT !.item = x]
        BY <2>2 DEF HistoryItem
    <2> QED
        BY <2>1, <2>3, <2>4 DEF Row, EntryOf
<1>8. /\ c \in Seq(Row) /\ Len(c) = n /\ Len(c) \in Nat
      /\ \A i \in 1..n : s[i] \in C /\ c[i] = HistoryItem(s[i], lost)
    <2>1. DOMAIN s = 1..n /\ \A i \in 1..n : s[i] \in C
        BY <1>3
    <2>2. c = [i \in 1..n |-> HistoryItem(s[i], lost)]
        BY <2>1
    <2>3. c \in [1..n -> Row]
        BY <1>7, <2>1, <2>2
    <2>4. \A i \in 1..n : c[i] = HistoryItem(s[i], lost)
        BY <2>2
    <2> HIDE DEF c
    <2>5. c \in Seq(Row)
        BY <1>2, <2>3, SeqDef
    <2>6. Len(c) = n
        BY <1>2, <2>3, <2>5, LenProperties
    <2> QED
        BY <1>2, <2>1, <2>4, <2>5, <2>6
<1> HIDE DEF c
<1>9. \A i \in 1..Len(c) : /\ s[i] \in C /\ c[i].id = s[i].id /\ c[i].id # 0
                           /\ c[i].date = s[i].date /\ EntryOf(c[i], s[i])
    BY <1>7, <1>8
<1>10. Distinct(c)
    <2> SUFFICES ASSUME NEW i \in 1..Len(c), NEW j \in 1..Len(c), c[i].id = c[j].id
                 PROVE  i = j
        BY DEF Distinct
    <2>1. s[i] \in t.cols /\ s[j] \in t.cols /\ s[i].id = s[j].id
        BY <1>9 DEF C
    <2>2. s[i] = s[j]
        BY <2>1 DEF Good, Apart
    <2> QED
        BY <1>3, <1>8, <2>2
<1>11. Numbers(c)
    BY <1>9 DEF Numbers
<1>12. \A i \in 1..Len(c) : Backed(c[i], t)
    BY <1>9 DEF Backed, C
<1>13. ASSUME NEW r \in t.cols PROVE Shows(c, r)
    <2>1. PICK i \in 1..n : s[i] = r
        BY <1>6 DEF C
    <2>2. i \in 1..Len(c) /\ EntryOf(c[i], r) /\ c[i].date = r.date
        BY <1>8, <1>9, <2>1
    <2> QED
        BY <2>2 DEF Shows
<1>14. Mirror(c, t)
    BY <1>11, <1>13 DEF Mirror
<1>15. Cardinality(Ids(t) \ Names(c)) <= g
    <2>1. \A y \in Ids(t) : y \in Names(c)
        <3> TAKE y \in Ids(t)
        <3>1. PICK r \in t.cols : y = r.id
            BY DEF Ids
        <3>2. PICK i \in 1..Len(c) : EntryOf(c[i], r)
            BY <1>13, <3>1 DEF Shows
        <3> QED
            BY <3>1, <3>2 DEF EntryOf, Names
    <2>2. Ids(t) \ Names(c) = {}
        BY <2>1
    <2>3. Cardinality({}) = 0
        BY FS_EmptySet
    <2> QED
        BY <2>2, <2>3
<1>16. <<t>>[Len(<<t>>)] = t /\ \A m \in 1..Len(<<t>>) : <<t>>[m] = t
    <2>1. Len(<<t>>) = 1 /\ <<t>>[1] = t
        BY <1>2, One, Zenon
    <2> QED
        BY <2>1
<1>17. Listed(c, <<t>>, g, FALSE)
    BY <1>8, <1>10, <1>11, <1>12, <1>14, <1>15, <1>16 DEF Listed
<1> QED
    BY <1>17 DEF c

-----------------------------------------------------------------------------
(***************************************************************************)
(* The steps.                                                              *)
(***************************************************************************)

\* Outside saveToCollection nothing is asked of the call.
LEMMA NotSearching ==
    ASSUME call' = Idle \/ call' = Step("update", NoItem, FALSE)
    PROVE  /\ call' \in [step : {"idle", "book", "row", "update"}, item : DataItem \cup {NoItem},
                         target : BOOLEAN]
           /\ Searching'
           /\ call'.step # "idle" => call' = Step("update", NoItem, FALSE)
<1>1. call' \in {Idle, Step("update", NoItem, FALSE)}
    OBVIOUS
<1>2. call'.step \in {"idle", "update"} /\ call'.item = NoItem /\ call'.target = FALSE
      /\ (call' = Idle => call'.step = "idle")
    BY <1>1 DEF Idle, Step
<1>3. FALSE \in BOOLEAN
    OBVIOUS
<1> QED
    <2>1. Searching'
        BY <1>2 DEF Searching
    <2>2. CASE call' = Idle
        BY <1>2, <1>3, <2>1, <2>2 DEF Idle
    <2>3. CASE call' = Step("update", NoItem, FALSE)
        BY <1>2, <1>3, <2>1, <2>3 DEF Step
    <2> QED
        BY <2>2, <2>3

\* What the invariant says of the file, whether or not the list is loaded.
LEMMA Ready ==
    ASSUME IInv
    PROVE  /\ Typed /\ Stored(hist, Surplus) /\ Surplus \in Nat /\ ITEM_COUNT \in Nat
           /\ hist[1] \in Tables /\ Good(hist[1]) /\ Head(hist) = hist[1]
           /\ Good(Latest) /\ Latest \in Tables /\ Len(hist) \in 1..Len(hist)
           /\ Db!Latest = Latest
           /\ Cardinality(Ids(Latest)) <= ITEM_COUNT + Surplus
<1>1. Typed /\ Stored(hist, Surplus)
    BY DEF IInv
<1>2. Surplus \in Nat /\ ITEM_COUNT \in Nat
    BY <1>1, SurplusGrows
<1>3. /\ 1 \in 1..Len(hist) /\ Len(hist) \in 1..Len(hist) /\ Head(hist) = hist[1]
      /\ \A n \in 1..Len(hist) : Good(hist[n]) /\ hist[n] \in Tables
    BY <1>1, StoredEnds
<1> QED
    BY <1>1, <1>2, <1>3 DEF Latest, Db!Latest, Stored

\* The file does not open.
LEMMA NotOpenedStep ==
    ASSUME IInv, NotOpened, UNCHANGED crashes
    PROVE  /\ hist' = <<hist[1]>> /\ out' = TRUE /\ out' \in BOOLEAN
           /\ failed' \in 0..MaxFailed
           /\ Surplus' = Surplus + (ITEM_COUNT + 1) /\ Surplus' \in Nat
           /\ Stored(hist', Surplus')
           /\ \A s, o : Listed(s, hist, Surplus, o) => Listed(s, hist', Surplus', out')
<1>1. failed' = failed + 1 /\ failed < MaxFailed /\ out' = TRUE /\ Db!Forget
    BY DEF NotOpened
<1>2. hist' = <<hist[1]>>
    BY <1>1, Ready DEF Db!Forget
<1>3. out' \in BOOLEAN
    BY <1>1, Zenon
<1>4. failed' \in 0..MaxFailed
    BY <1>1, Ready, HistoryAssumption DEF Typed
<1>5. Surplus' = Surplus + (ITEM_COUNT + 1) /\ Surplus' \in Nat
    BY <1>1, Ready, SurplusGrows
<1>6. /\ Stored(<<hist[1]>>, Surplus + (ITEM_COUNT + 1))
      /\ \A s, o : Listed(s, hist, Surplus, o) => Listed(s, <<hist[1]>>, Surplus + (ITEM_COUNT + 1), TRUE)
    BY Ready, Forgotten
<1> QED
    BY <1>1, <1>2, <1>3, <1>4, <1>5, <1>6

\* A query that is answered.
LEMMA AnsweredStep ==
    ASSUME IInv, Opened(Db!Latest), UNCHANGED crashes
    PROVE  /\ hist' = <<Latest>> /\ UNCHANGED <<failed, out, Surplus>>
           /\ Stored(hist', Surplus')
           /\ \A s, o : Listed(s, hist, Surplus, o) => Listed(s, hist', Surplus', o)
<1>1. hist' = <<Latest>> /\ UNCHANGED <<failed, out>>
    BY Ready DEF Opened
<1>2. Surplus' = Surplus
    BY <1>1, Ready, SurplusGrows
<1>3. /\ Stored(<<Latest>>, Surplus)
      /\ \A s, o : Listed(s, hist, Surplus, o) => Listed(s, <<Latest>>, Surplus, o)
    BY Ready, Flushed DEF Latest
<1> QED
    BY <1>1, <1>2, <1>3

\* The getter items.
LEMMA LoadStep ==
    ASSUME IInv, Load
    PROVE  IInv'
<1>1. call = Idle /\ items = NotLoaded /\ UNCHANGED <<call, visits, crashes>>
    BY DEF Load
<1>2. Searching' /\ Updating' /\ call' \in [step : {"idle", "book", "row", "update"},
            item : DataItem \cup {NoItem}, target : BOOLEAN]
    <2>1. call' = Idle
        BY <1>1
    <2> QED
        BY <2>1, NotSearching DEF Updating, Step, Idle
<1>3. CASE \E s \in Sorted(Db!Latest.cols) :
             /\ Opened(Db!Latest)
             /\ items' = [i \in DOMAIN s |-> HistoryItem(s[i], {})]
    <2>1. PICK s \in Sorted(Latest.cols) :
             /\ Opened(Db!Latest)
             /\ items' = [i \in DOMAIN s |-> HistoryItem(s[i], {})]
        BY <1>3, Ready
    <2>2. /\ hist' = <<Latest>> /\ UNCHANGED <<failed, out, Surplus>> /\ Stored(hist', Surplus')
        BY <1>1, <2>1, AnsweredStep
    <2>3. Listed(items', <<Latest>>, Surplus, FALSE)
        BY <2>1, Ready, LoadedListed
    <2>4. Listed(items', hist', Surplus', out')
        BY <2>2, <2>3 DEF Listed
    <2>5. Typed'
        BY <1>1, <1>2, <2>2, Ready DEF Typed
    <2> QED
        BY <1>2, <2>2, <2>4, <2>5 DEF IInv
<1>4. CASE \E s \in Sorted(Db!Latest.cols), lost \in (SUBSET {r.id : r \in Db!Latest.cols}) \ {{}} :
             /\ failed < MaxFailed
             /\ failed' = failed + 1
             /\ out' = TRUE
             /\ hist' = <<Db!Latest>>
             /\ items' = [i \in DOMAIN s |-> HistoryItem(s[i], lost)]
    <2>1. PICK s \in Sorted(Latest.cols), lost \in (SUBSET {r.id : r \in Latest.cols}) \ {{}} :
             /\ failed < MaxFailed
             /\ failed' = failed + 1
             /\ out' = TRUE
             /\ hist' = <<Latest>>
             /\ items' = [i \in DOMAIN s |-> HistoryItem(s[i], lost)]
        BY <1>4, Zenon DEF Latest, Db!Latest
    <2>2. Surplus' = Surplus + (ITEM_COUNT + 1) /\ Surplus' \in Nat /\ Surplus <= Surplus'
        BY <1>1, <2>1, Ready, SurplusGrows
    <2>3. Stored(<<Latest>>, Surplus)
        BY Ready, Flushed DEF Latest
    <2>4. Listed(items', <<Latest>>, Surplus, FALSE)
        BY <2>1, Ready, LoadedListed
    <2>5. Stored(<<Latest>>, Surplus') /\ Listed(items', <<Latest>>, Surplus', TRUE)
        BY <2>2, <2>3, <2>4, Ready, Wider
    <2>6. out' \in BOOLEAN
        BY <2>1, Zenon
    <2>7. failed' \in 0..MaxFailed
        BY <2>1, Ready, HistoryAssumption DEF Typed
    <2>8. Typed'
        BY <1>1, <1>2, <2>6, <2>7, Ready DEF Typed
    <2> QED
        BY <1>2, <2>1, <2>5, <2>8 DEF IInv
<1>5. CASE NotOpened /\ items' = <<>>
    <2>1. /\ hist' = <<hist[1]>> /\ out' = TRUE /\ out' \in BOOLEAN
          /\ failed' \in 0..MaxFailed /\ Surplus' = Surplus + (ITEM_COUNT + 1) /\ Surplus' \in Nat
          /\ Stored(hist', Surplus')
        BY <1>1, <1>5, NotOpenedStep
    <2>2. Listed(<<>>, hist', Surplus', TRUE)
        <3> DEFINE f == hist[1]
        <3>1. Good(f) /\ <<f>>[Len(<<f>>)] = f
            <4>1. Good(f) /\ f \in Tables
                BY Ready
            <4> HIDE DEF f
            <4> QED
                BY <4>1
        <3>2. Cardinality(Ids(f)) <= ITEM_COUNT + 1 + Surplus
            BY Ready, StoredEnds DEF Stored
        <3> HIDE DEF f
        <3>3. <<>> \in Seq(Row) /\ Len(<<>>) = 0
            OBVIOUS
        <3>4. Distinct(<<>>) /\ Numbers(<<>>)
            BY <3>3 DEF Distinct, Numbers
        <3>5. Cardinality(Ids(f) \ Names(<<>>)) <= Surplus'
            <4>1. /\ Cardinality(Ids(f) \ Names(<<>>)) <= Cardinality(Ids(f))
                  /\ Cardinality(Ids(f) \ Names(<<>>)) \in Nat /\ Cardinality(Ids(f)) \in Nat
                BY <3>1, HiddenFinite, IdsFinite
            <4> QED
                BY <2>1, <3>2, <4>1, Ready
        <3>6. hist' = <<f>>
            BY <2>1 DEF f
        <3> QED
            BY <3>1, <3>3, <3>4, <3>5, <3>6, Ready DEF Listed
    <2>3. Typed'
        BY <1>1, <1>2, <2>1, Ready DEF Typed
    <2> QED
        BY <1>2, <1>5, <2>1, <2>2, <2>3 DEF IInv
<1> QED
    BY <1>3, <1>4, <1>5 DEF Load

\* A set of numbers up to n has a largest one.
LEMMA Largest ==
    ASSUME NEW n \in Nat, NEW S \in SUBSET (1..n), S # {}
    PROVE  Max(S) \in S
<1> DEFINE T == {n - i : i \in S}
           Less == OpToRel(<, Nat)
<1>1. T \subseteq Nat /\ T # {}
    <2>1. \A i \in S : n - i \in Nat
        OBVIOUS
    <2>2. PICK i : i \in S
        BY Zenon
    <2>3. n - i \in T
        BY <2>2, Zenon
    <2> QED
        BY <2>1, <2>3, Zenon
<1>2. IsWellFoundedOn(Less, Nat)
    BY NatLessThanWellFounded, Zenon
<1>3. Less = {ss \in Nat \X Nat : ss[1] < ss[2]}
    BY Zenon DEF OpToRel
<1> HIDE DEF Less
<1>4. PICK x \in T : \A y \in T : ~(<<y, x>> \in Less)
    <2> HIDE DEF T
    <2> QED
        BY <1>1, <1>2, WFMin
<1>5. PICK i \in S : x = n - i
    OBVIOUS
<1>6. ASSUME NEW j \in S PROVE i >= j
    <2>1. n - j \in T
        OBVIOUS
    <2>2. n - j \in Nat /\ x \in Nat
        BY <1>5
    <2> HIDE DEF T
    <2> DEFINE y == n - j
               p == <<y, x>>
    <2>3. y \in Nat /\ y \in T
        BY <2>1, <2>2
    <2> HIDE DEF y
    <2>4. p \in Nat \X Nat /\ p[1] = y /\ p[2] = x
        BY <2>2, <2>3
    <2> HIDE DEF p
    <2>5. p \notin Less
        BY <1>4, <2>3 DEF p
    <2>6. ~(p[1] < p[2])
        BY <1>3, <2>4, <2>5
    <2> QED
        BY <1>5, <2>2, <2>4, <2>6 DEF y
<1>7. \E z \in S : \A j \in S : z >= j
    BY <1>6
<1> QED
    BY <1>7, Zenon DEF Max

\* The rest of the invariant, between the steps that leave the counters alone.
LEMMA TypedStep ==
    ASSUME Typed, visits' \in 0..MaxVisits, failed' \in 0..MaxFailed, out' \in BOOLEAN,
           UNCHANGED crashes,
           call' = Idle \/ call' = Step("update", NoItem, FALSE)
    PROVE  Typed'
BY NotSearching DEF Typed

\* insert up to the query for the row.
LEMMA InsertStep ==
    ASSUME IInv, NEW d \in DataItem, Insert(d)
    PROVE  IInv'
<1>1. /\ call = Idle /\ items # NotLoaded /\ visits < MaxVisits /\ visits' = visits + 1
      /\ (\A i \in DOMAIN items : items[i].item # NoItem) /\ UNCHANGED crashes
    BY DEF Insert
<1> DEFINE I == {i \in 1..Len(items) : items[i].item.link = d.link}
           k == SelectLastInSeq(items, LAMBDA it : it.item.link = d.link)
<1>2. k = IF I # {} THEN Max(I) ELSE 0
    BY DEF SelectLastInSeq
<1>3. IF k = 0 THEN Find(d) ELSE Again(k)
    BY DEF Insert
<1> HIDE DEF k
<1>4. /\ Listed(items, hist, Surplus, out) /\ items \in Seq(Row)
      /\ Len(items) \in Nat /\ DOMAIN items = 1..Len(items)
      /\ \A i \in 1..Len(items) : items[i] \in Row
    <2>1. Listed(items, hist, Surplus, out) /\ items \in Seq(Row)
        BY <1>1 DEF IInv, Listed
    <2> QED
        BY <2>1, LenProperties, ElementOfSeq
<1>5. \A i \in 1..Len(items) : items[i].item \in DataItem
    BY <1>1, <1>4 DEF Row
<1>6. visits' \in 0..MaxVisits /\ failed \in 0..MaxFailed /\ out \in BOOLEAN /\ Typed
    BY <1>1, HistoryAssumption DEF IInv, Typed
<1>7. CASE I # {}
    <2>1. I \in SUBSET (1..Len(items))
        OBVIOUS
    <2> HIDE DEF I
    <2>2. k \in I
        BY <1>2, <1>4, <1>7, <2>1, Largest
    <2>3. k \in 1..Len(items) /\ k # 0
        BY <1>4, <2>1, <2>2
    <2>4. Again(k)
        BY <1>3, <2>3
    <2>5. /\ items' = <<items[k]>> \o RemoveAt(items, k) /\ UNCHANGED <<hist, failed, out>>
          /\ call' = Step("update", NoItem, FALSE)
        BY <2>4 DEF Again
    <2>6. Listed(items', hist, Surplus, out) /\ items' # <<>>
        BY <1>4, <2>3, <2>5, MovedListed
    <2>7. Surplus' = Surplus
        BY <1>1, <1>6, <2>5, SurplusGrows
    <2>8. Typed' /\ Searching'
        BY <1>1, <1>6, <2>5, TypedStep, NotSearching
    <2>9. Stored(hist', Surplus') /\ Listed(items', hist', Surplus', out')
        BY <2>5, <2>6, <2>7 DEF IInv
    <2> QED
        BY <2>6, <2>8, <2>9 DEF IInv, Updating
<1>8. CASE I = {}
    <2>1. Find(d)
        BY <1>2, <1>3, <1>8
    <2>2. \A i \in 1..Len(items) : items[i].item.link # d.link
        BY <1>8
    <2>3. \A i \in 1..Len(items) : Backed(items[i], Latest)
        BY <1>4, Ready DEF Listed, Latest
    <2>4. ASSUME NEW r \in Latest.cols, r.item = d, InFront(r, Latest), UNCHANGED <<failed, out>>
          PROVE  IInv'
        <3>1. r \in Row /\ r.id # 0 /\ r.id \in Ids(Latest)
            BY Ready DEF Good, RowGood, Tables, Ids
        <3>2. EntryOf(r, r) /\ Backed(r, Latest)
            BY <3>1 DEF Backed, EntryOf
        <3>3. ASSUME NEW i \in 1..Len(items) PROVE items[i].id # r.id
            <4>1. SUFFICES ASSUME items[i].id = r.id PROVE FALSE
                OBVIOUS
            <4>2. PICK q \in Latest.cols : EntryOf(items[i], q)
                BY <2>3, <3>1, <4>1 DEF Backed
            <4>3. q = r
                <5>1. q.id = r.id
                    BY <4>1, <4>2 DEF EntryOf
                <5> QED
                    BY <5>1, Ready DEF Good, Apart
            <4>4. items[i].item = d
                BY <1>1, <1>4, <2>4, <4>2, <4>3 DEF EntryOf
            <4> QED
                BY <2>2, <4>4
        <3>4. Cardinality(Ids(Latest)) <= ITEM_COUNT + 1 + Surplus
            <4>1. Cardinality(Ids(Latest)) \in Nat
                BY Ready, IdsFinite
            <4> QED
                BY <4>1, Ready
        <3>5. Cardinality(Ids(Latest) \ (Names(items) \cup {r.id})) <= Surplus
            <4> DEFINE B == Ids(Latest) \ Names(items)
                       A == Ids(Latest) \ (Names(items) \cup {r.id})
            <4>1. IsFiniteSet(B) /\ Cardinality(B) \in Nat /\ Cardinality(B) <= Surplus /\ A \in SUBSET B
                BY <1>4, Ready, HiddenFinite DEF Listed, Latest
            <4> HIDE DEF A, B
            <4>2. Cardinality(A) <= Cardinality(B) /\ Cardinality(A) \in Nat
                BY <4>1, FS_Subset, FS_CardinalityType
            <4>3. Cardinality(A) <= Surplus
                BY <4>1, <4>2, Ready
            <4> QED
                BY <4>3 DEF A
        <3>6. out \/ /\ r.id # 0 /\ Numbers(items)
                     /\ \A q \in Latest.cols : Shows(items, q) \/ (EntryOf(r, q) /\ r.date = q.date)
            BY <1>4, <3>1 DEF Listed, Mirror, Latest
        <3>7. /\ Stored(hist', Surplus) /\ Listed(items', hist', Surplus, out) /\ items' # <<>>
              /\ call' = Step("update", NoItem, FALSE)
            <4>1. Distinct(items) /\ Good(Latest) /\ Surplus \in Nat
                BY <1>4, Ready DEF Listed
            <4> QED
                BY <1>4, <2>3, <2>4, <3>1, <3>2, <3>3, <3>4, <3>5, <3>6, <4>1, InFrontStep
        <3>8. Surplus' = Surplus
            BY <1>1, <1>6, <2>4, SurplusGrows
        <3>9. Typed' /\ Searching'
            BY <1>1, <1>6, <2>4, <3>7, TypedStep, NotSearching
        <3> QED
            BY <2>4, <3>7, <3>8, <3>9 DEF IInv, Updating
    <2>5. ASSUME call' = Step("book", d, FALSE), UNCHANGED items,
                 Stored(hist', Surplus'), Listed(items, hist', Surplus', out'),
                 failed' \in 0..MaxFailed, out' \in BOOLEAN
          PROVE  IInv'
        <3>1. call'.step = "book" /\ call'.item = d /\ call'.target = FALSE
            BY <2>5 DEF Step
        <3>2. call' \in [step : {"idle", "book", "row", "update"}, item : DataItem \cup {NoItem},
                          target : BOOLEAN]
            <4>1. FALSE \in BOOLEAN
                OBVIOUS
            <4> QED
                BY <2>5, <4>1 DEF Step
        <3>3. Typed'
            BY <1>1, <1>6, <2>5, <3>2 DEF Typed
        <3>4. Searching' /\ Updating'
            BY <1>5, <2>2, <2>5, <3>1 DEF Searching, Updating
        <3> QED
            BY <2>5, <3>3, <3>4 DEF IInv
    <2>6. CASE \E r \in Db!Latest.cols : /\ r.item = d
                                          /\ InFront(r, Db!Latest)
                                          /\ UNCHANGED <<failed, out>>
        <3>1. PICK r \in Latest.cols : r.item = d /\ InFront(r, Latest) /\ UNCHANGED <<failed, out>>
            BY <2>6, Zenon DEF Latest, Db!Latest
        <3> QED
            BY <2>4, <3>1
    <2>7. CASE Opened(Db!Latest) /\ call' = Step("book", d, FALSE) /\ UNCHANGED items
        <3>1. /\ UNCHANGED <<failed, out, Surplus>> /\ Stored(hist', Surplus')
              /\ Listed(items, hist', Surplus', out)
            BY <1>1, <1>4, <2>7, AnsweredStep
        <3> QED
            BY <1>6, <2>5, <2>7, <3>1
    <2>8. CASE NotOpened /\ call' = Step("book", d, FALSE) /\ UNCHANGED items
        <3>1. /\ out' \in BOOLEAN /\ failed' \in 0..MaxFailed /\ Stored(hist', Surplus')
              /\ Listed(items, hist', Surplus', out')
            BY <1>1, <1>4, <2>8, NotOpenedStep
        <3> QED
            BY <2>5, <2>8, <3>1
    <2> QED
        BY <2>1, <2>6, <2>7, <2>8 DEF Find
<1> QED
    BY <1>7, <1>8


\* The INSERT of the book, which is answered.
LEMMA BookListed ==
    ASSUME NEW h, NEW g \in Nat, Stored(h, g), NEW s, NEW o, Listed(s, h, g, o), NEW d \in DataItem
    PROVE  LET b == WithBook(h[Len(h)], d)
           IN  Stored(<<b>>, g) /\ Listed(s, <<b>>, g, o) /\ d \in b.books
<1> DEFINE t == h[Len(h)]
           b == WithBook(t, d)
<1>1. Good(t) /\ Stored(<<t>>, g) /\ Listed(s, <<t>>, g, o)
    BY StoredEnds, Flushed
<1>2. /\ Good(b) /\ Ids(b) = Ids(t) /\ b.cols = t.cols /\ b.books = t.books \cup {d}
      /\ \A e : Backed(e, t) => Backed(e, b)
    BY <1>1, BookGood
<1> HIDE DEF t, b
<1>3. t \in Tables /\ b \in Tables
    BY <1>1, <1>2 DEF Good
<1>4. /\ <<t>> \in Seq(Tables) /\ Len(<<t>>) = 1 /\ <<t>>[1] = t
      /\ <<b>> \in Seq(Tables) /\ Len(<<b>>) = 1 /\ <<b>>[1] = b /\ <<b>> # <<>>
    BY <1>3, One, Zenon
<1>5. Stored(<<b>>, g)
    BY <1>1, <1>2, <1>4 DEF Stored
<1>6. Listed(s, <<b>>, g, o)
    <2>1. \A i \in 1..Len(s) : Backed(s[i], t)
        BY <1>1, <1>4 DEF Listed
    <2>2. \A i \in 1..Len(s), n \in 1..Len(<<b>>) : Backed(s[i], <<b>>[n])
        BY <1>2, <1>4, <2>1
    <2>3. o \/ Mirror(s, b)
        BY <1>1, <1>2, <1>4 DEF Listed, Mirror
    <2> QED
        BY <1>1, <1>2, <1>4, <2>2, <2>3 DEF Listed
<1> QED
    BY <1>2, <1>5, <1>6 DEF t, b

\* What the invariant says while insert is under way.
LEMMA UnderWay ==
    ASSUME IInv, call.step # "idle"
    PROVE  /\ Listed(items, hist, Surplus, out) /\ items \in Seq(Row)
           /\ Len(items) \in Nat /\ DOMAIN items = 1..Len(items)
           /\ \A i \in 1..Len(items) : items[i] \in Row /\ Backed(items[i], Latest)
           /\ Searching /\ Updating
<1>1. Listed(items, hist, Surplus, out) /\ items \in Seq(Row)
    BY DEF IInv, Listed
<1>2. \A i \in 1..Len(items) : Backed(items[i], Latest)
    BY <1>1, Ready DEF Listed, Latest
<1> QED
    BY <1>1, <1>2, LenProperties, ElementOfSeq DEF IInv

\* saveData of the book.
LEMMA SaveBookStep ==
    ASSUME IInv, SaveBook
    PROVE  IInv'
<1>1. call.step = "book" /\ UNCHANGED <<items, visits, crashes>>
    BY DEF SaveBook
<1>2. /\ Listed(items, hist, Surplus, out) /\ call.item \in DataItem
      /\ \A i \in 1..Len(items) : items[i].item \in DataItem /\ items[i].item.link # call.item.link
    BY <1>1, UnderWay DEF Searching
<1>3. ASSUME NEW b \in BOOLEAN, call' = Step("row", call.item, b),
             IF b THEN \A n \in 1..Len(hist') : call.item \in hist'[n].books ELSE out',
             Stored(hist', Surplus'), Listed(items, hist', Surplus', out'),
             failed' \in 0..MaxFailed, out' \in BOOLEAN
      PROVE  IInv'
    <2>1. call'.step = "row" /\ call'.item = call.item /\ call'.target = b
        BY <1>3 DEF Step
    <2>2. call' \in [step : {"idle", "book", "row", "update"}, item : DataItem \cup {NoItem},
                      target : BOOLEAN]
        BY <1>2, <1>3 DEF Step
    <2>3. Typed'
        BY <1>1, <1>3, <2>2, Ready DEF Typed
    <2>4. Searching'
        BY <1>1, <1>2, <1>3, <2>1 DEF Searching
    <2>5. Updating'
        BY <2>1 DEF Updating
    <2> QED
        BY <1>1, <1>3, <2>3, <2>4, <2>5 DEF IInv
<1>4. CASE Opened(WithBook(Db!Latest, call.item)) /\ call' = Step("row", call.item, TRUE)
    <2> DEFINE b == WithBook(Latest, call.item)
    <2>1. hist' = <<b>> /\ UNCHANGED <<failed, out>>
        BY <1>4, Ready DEF Opened
    <2>2. Stored(<<b>>, Surplus) /\ Listed(items, <<b>>, Surplus, out) /\ call.item \in b.books
        BY <1>2, Ready, BookListed DEF Latest
    <2> HIDE DEF b
    <2>3. Surplus' = Surplus
        BY <1>1, <2>1, Ready, SurplusGrows
    <2>4. \A n \in 1..Len(hist') : call.item \in hist'[n].books
        <3>1. Len(<<b>>) = 1 /\ <<b>>[1] = b
            OBVIOUS
        <3> QED
            BY <2>1, <2>2, <3>1
    <2>5. failed' \in 0..MaxFailed /\ out' \in BOOLEAN
        BY <2>1, Ready DEF Typed
    <2>6. TRUE \in BOOLEAN
        OBVIOUS
    <2> QED
        BY <1>3, <1>4, <2>1, <2>2, <2>3, <2>4, <2>5, <2>6
<1>5. CASE NotOpened /\ call' = Step("row", call.item, FALSE)
    <2>1. /\ out' = TRUE /\ out' \in BOOLEAN /\ failed' \in 0..MaxFailed
          /\ Stored(hist', Surplus') /\ Listed(items, hist', Surplus', out')
        BY <1>1, <1>2, <1>5, NotOpenedStep
    <2>2. FALSE \in BOOLEAN
        OBVIOUS
    <2> QED
        BY <1>3, <1>5, <2>1, <2>2
<1> QED
    BY <1>4, <1>5 DEF SaveBook

\* save of the new row.
LEMMA SaveRowStep ==
    ASSUME IInv, SaveRow
    PROVE  IInv'
<1> DEFINE e == [id |-> 0, item |-> call.item, date |-> 0, target |-> call.target,
                 blind |-> out]
<1>1. call.step = "row" /\ UNCHANGED <<visits, crashes>>
    BY DEF SaveRow
<1>2. \/ /\ InFront(Numbered(Latest, e), WithRow(Latest, e))
         /\ UNCHANGED <<failed, out>>
      \/ /\ failed < MaxFailed
         /\ failed' = failed + 1
         /\ out' = TRUE
         /\ InFront([e EXCEPT !.blind = TRUE], Latest)
    BY Zenon DEF SaveRow, Latest, Db!Latest
<1>3. /\ Listed(items, hist, Surplus, out) /\ items \in Seq(Row)
      /\ Len(items) \in Nat /\ \A i \in 1..Len(items) : items[i] \in Row /\ Backed(items[i], Latest)
    BY <1>1, UnderWay
<1>4. /\ call.item \in DataItem /\ call.target \in BOOLEAN /\ out \in BOOLEAN
      /\ \A i \in 1..Len(items) : items[i].item \in DataItem /\ items[i].item.link # call.item.link
      /\ IF call.target THEN call.item \in Latest.books ELSE out
    BY <1>1, UnderWay, Ready DEF Searching, Typed, Latest
<1>5. /\ e \in Row /\ e.id = 0 /\ e.item = call.item /\ e.date = 0 /\ e.target = call.target
      /\ e.blind = out
    BY <1>4 DEF Row
<1>6. /\ Good(Latest) /\ Surplus \in Nat /\ ITEM_COUNT \in Nat /\ Distinct(items)
      /\ Cardinality(Ids(Latest)) \in Nat /\ Cardinality(Ids(Latest)) <= ITEM_COUNT + Surplus
      /\ IsFiniteSet(Ids(Latest)) /\ IsFiniteSet(Ids(Latest) \ Names(items))
      /\ Cardinality(Ids(Latest) \ Names(items)) \in Nat
      /\ Cardinality(Ids(Latest) \ Names(items)) <= Surplus
    BY <1>3, Ready, IdsFinite, HiddenFinite DEF Listed, Latest
<1> HIDE DEF e
<1>7. ASSUME failed' \in 0..MaxFailed, out' \in BOOLEAN, Stored(hist', Surplus'),
             Listed(items', hist', Surplus', out'), items' # <<>>,
             call' = Step("update", NoItem, FALSE)
      PROVE  IInv'
    <2>1. Typed' /\ Searching'
        BY <1>1, <1>7, Ready, TypedStep, NotSearching DEF Typed
    <2> QED
        BY <1>7, <2>1 DEF IInv, Updating
\* The file opens.
<1>8. CASE /\ InFront(Numbered(Latest, e), WithRow(Latest, e))
           /\ UNCHANGED <<failed, out>>
    <2> DEFINE t == Latest
               f == Numbered(t, e)
               u == WithRow(t, e)
    <2>1. ASSUME ~out, NEW r \in t.cols
          PROVE  Shows(items, r) /\ r.item.link # e.item.link
        <3>1. Mirror(items, t)
            BY <1>3, <2>1 DEF Listed, Latest
        <3>2. PICK i \in 1..Len(items) : EntryOf(items[i], r) /\ items[i].date = r.date
            BY <3>1 DEF Mirror, Shows
        <3>3. items[i].item = r.item
            BY <1>4, <3>2, HistoryAssumption DEF EntryOf, DataItem
        <3> QED
            BY <1>4, <1>5, <3>1, <3>2, <3>3 DEF Mirror
    <2>2. /\ f \in Row /\ f.id = t.seq + 1 /\ f.id # 0 /\ f.item = e.item /\ f.date = e.date
          /\ f.id \notin Ids(t) /\ Good(u) /\ Ids(u) = Ids(t) \cup {f.id}
          /\ u.cols = t.cols \cup {f}
          /\ (\A x : Backed(x, t) => Backed(x, u)) /\ Backed(f, u)
        <3>1. IF e.target THEN e.item \in t.books ELSE e.blind
            BY <1>4, <1>5
        <3>2. e.blind \/ \A r \in t.cols : r.item.link # e.item.link
            BY <1>5, <2>1
        <3>3. Good(t) /\ e \in Row /\ e.item \in DataItem
            BY <1>4, <1>5, <1>6
        <3> HIDE DEF t
        <3> QED
            BY <3>1, <3>2, <3>3, RowInserted
    <2>3. /\ Good(t) /\ InFront(f, u)
          /\ \A i \in 1..Len(items) : Backed(items[i], t)
          /\ (out \/ Mirror(items, t))
        BY <1>3, <1>6, <1>8 DEF Listed, Latest
    <2>4. /\ IsFiniteSet(Ids(t)) /\ Cardinality(Ids(t)) \in Nat
          /\ Cardinality(Ids(t)) <= ITEM_COUNT + Surplus
          /\ IsFiniteSet(Ids(t) \ Names(items)) /\ Cardinality(Ids(t) \ Names(items)) \in Nat
          /\ Cardinality(Ids(t) \ Names(items)) <= Surplus
        BY <1>6
    <2> HIDE DEF t, f, u
    <2>5. Cardinality(Ids(u)) <= ITEM_COUNT + 1 + Surplus
        <3>1. Cardinality(Ids(u)) = Cardinality(Ids(t)) + 1
            BY <2>2, <2>4, FS_AddElement
        <3> QED
            BY <1>6, <2>4, <3>1
    <2>6. Cardinality(Ids(u) \ (Names(items) \cup {f.id})) <= Surplus
        <3>1. Ids(u) \ (Names(items) \cup {f.id}) \in SUBSET (Ids(t) \ Names(items))
            BY <2>2
        <3> DEFINE A == Ids(u) \ (Names(items) \cup {f.id})
                   B == Ids(t) \ Names(items)
        <3>2. A \in SUBSET B /\ IsFiniteSet(B) /\ Cardinality(B) \in Nat /\ Cardinality(B) <= Surplus
            BY <2>4, <3>1
        <3> HIDE DEF A, B
        <3>3. Cardinality(A) <= Cardinality(B) /\ Cardinality(A) \in Nat
            BY <3>2, FS_Subset, FS_CardinalityType
        <3>4. Cardinality(A) <= Surplus
            BY <1>6, <3>2, <3>3
        <3> QED
            BY <3>4 DEF A
    <2>7. ASSUME NEW i \in 1..Len(items) PROVE items[i].id # f.id
        <3>1. CASE items[i].id = 0
            BY <2>2, <3>1
        <3>2. CASE items[i].id # 0
            <4>1. PICK r \in t.cols : EntryOf(items[i], r)
                BY <2>3, <3>2 DEF Backed
            <4>2. items[i].id \in Ids(t)
                BY <4>1 DEF EntryOf, Ids
            <4> QED
                BY <2>2, <4>2
        <3> QED
            BY <3>1, <3>2
    <2>8. out \/ /\ f.id # 0 /\ Numbers(items)
                 /\ \A r \in u.cols : Shows(items, r) \/ (EntryOf(f, r) /\ f.date = r.date)
        <3>1. EntryOf(f, f)
            BY DEF EntryOf
        <3> QED
            BY <2>2, <2>3, <3>1 DEF Mirror
    <2>9. \A i \in 1..Len(items) : Backed(items[i], u)
        BY <2>2, <2>3
    <2>10. /\ Stored(hist', Surplus) /\ Listed(items', hist', Surplus, out) /\ items' # <<>>
           /\ call' = Step("update", NoItem, FALSE)
        BY <1>3, <1>6, <2>2, <2>3, <2>5, <2>6, <2>7, <2>8, <2>9, InFrontStep
    <2>11. Surplus' = Surplus /\ failed' \in 0..MaxFailed /\ out' \in BOOLEAN
        BY <1>1, <1>8, Ready, SurplusGrows DEF Typed
    <2> QED
        BY <1>7, <1>8, <2>10, <2>11
\* It does not.
<1>9. CASE /\ failed < MaxFailed
           /\ failed' = failed + 1
           /\ out' = TRUE
           /\ InFront([e EXCEPT !.blind = TRUE], Latest)
    <2> DEFINE t == Latest
               f == [e EXCEPT !.blind = TRUE]
               g == Surplus + (ITEM_COUNT + 1)
    <2>1. f \in Row /\ f.id = 0 /\ f.item = e.item /\ f.target = e.target /\ f.blind
        <3>1. TRUE \in BOOLEAN
            OBVIOUS
        <3> QED
            BY <1>5, <3>1 DEF Row
    <2>2. Backed(f, t)
        BY <1>4, <1>5, <2>1 DEF Backed
    <2>3. /\ Good(t) /\ InFront(f, t) /\ \A i \in 1..Len(items) : Backed(items[i], t)
        BY <1>3, <1>6, <1>9
    <2>4. g \in Nat /\ Surplus' = g /\ failed' \in 0..MaxFailed
        <3>1. Typed
            BY Ready
        <3>2. failed' \in 0..MaxFailed
            BY <1>9, <3>1, HistoryAssumption DEF Typed
        <3>3. Surplus' = g
            BY <1>1, <1>9, <3>1, SurplusGrows
        <3> QED
            BY <1>6, <3>2, <3>3
    <2>5. Cardinality(Ids(t)) <= ITEM_COUNT + 1 + g
        BY <1>6, <2>4
    <2>6. Cardinality(Ids(t) \ (Names(items) \cup {f.id})) <= g
        <3> DEFINE A == Ids(t) \ (Names(items) \cup {f.id})
                   B == Ids(t) \ Names(items)
        <3>1. A \in SUBSET B /\ IsFiniteSet(B) /\ Cardinality(B) \in Nat /\ Cardinality(B) <= Surplus
            BY <1>6
        <3> HIDE DEF A, B
        <3>2. Cardinality(A) <= Cardinality(B) /\ Cardinality(A) \in Nat
            BY <3>1, FS_Subset, FS_CardinalityType
        <3>3. Cardinality(A) <= g
            BY <1>6, <3>1, <3>2
        <3> QED
            BY <3>3 DEF A
    <2> HIDE DEF t, f, g
    <2>7. /\ Stored(hist', g) /\ Listed(items', hist', g, TRUE) /\ items' # <<>>
          /\ call' = Step("update", NoItem, FALSE)
        BY <1>3, <1>6, <2>1, <2>2, <2>3, <2>4, <2>5, <2>6, InFrontStep
    <2>8. out' \in BOOLEAN
        BY <1>9, Zenon
    <2> QED
        BY <1>7, <1>9, <2>4, <2>7, <2>8
<1> QED
    BY <1>2, <1>8, <1>9

\* HistoryItem.update.
LEMMA UpdateStep ==
    ASSUME IInv, Update
    PROVE  IInv'
<1> DEFINE e == [items[1] EXCEPT !.date = visits]
<1>1. call.step = "update" /\ call' = Idle /\ UNCHANGED <<visits, crashes>>
    BY DEF Update
<1>2. \/ /\ e.id # 0
         /\ items' = [items EXCEPT ![1] = e]
         /\ hist' = Append(hist, WithDate(Latest, e.id, visits))
         /\ UNCHANGED <<failed, out>>
      \/ /\ e.id = 0
         /\ items' = [items EXCEPT ![1] = Numbered(Latest, e)]
         /\ Opened(WithRow(Latest, e))
      \/ /\ e.id = 0
         /\ items' = [items EXCEPT ![1] = e]
         /\ NotOpened
    BY Zenon DEF Update, Latest, Db!Latest
<1>3. Listed(items, hist, Surplus, out) /\ items \in Seq(Row) /\ items # <<>>
    BY <1>1, UnderWay DEF Updating
<1>4. e.id = items[1].id /\ visits \in Nat
    <2>1. items[1] \in Row
        <3>1. 1 \in 1..Len(items)
            BY <1>3, LenProperties, EmptySeq
        <3> QED
            BY <1>3, <3>1, ElementOfSeq
    <2> QED
        BY <2>1, Ready DEF Row, Typed
<1>5. ASSUME failed' \in 0..MaxFailed, out' \in BOOLEAN, Stored(hist', Surplus'),
             Listed(items', hist', Surplus', out')
      PROVE  IInv'
    <2>1. Typed' /\ Searching'
        BY <1>1, <1>5, Ready, TypedStep, NotSearching DEF Typed
    <2>2. Updating'
        BY <1>1 DEF Updating, Idle
    <2> QED
        BY <1>5, <2>1, <2>2 DEF IInv
<1>6. CASE /\ e.id # 0
           /\ items' = [items EXCEPT ![1] = e]
           /\ hist' = Append(hist, WithDate(Latest, e.id, visits))
           /\ UNCHANGED <<failed, out>>
    <2>1. Surplus' = Surplus /\ failed' \in 0..MaxFailed /\ out' \in BOOLEAN
        BY <1>1, <1>6, Ready, SurplusGrows DEF Typed
    <2>2. LET k == Append(hist, WithDate(hist[Len(hist)], e.id, visits))
          IN  Stored(k, Surplus) /\ Listed([items EXCEPT ![1] = e], k, Surplus, out)
        <3>1. items[1].id # 0
            BY <1>4, <1>6
        <3> QED
            BY <1>3, <1>4, <3>1, Ready, DatedListed
    <2>3. Stored(hist', Surplus) /\ Listed(items', hist', Surplus, out)
        BY <1>6, <2>2, Zenon DEF Latest
    <2> QED
        BY <1>5, <1>6, <2>1, <2>3
<1>7. ASSUME e.id = 0
      PROVE  /\ out
             /\ Stored(<<WithRow(Latest, e)>>, Surplus)
             /\ Listed([items EXCEPT ![1] = Numbered(Latest, e)], <<WithRow(Latest, e)>>, Surplus, TRUE)
             /\ Listed([items EXCEPT ![1] = e], hist, Surplus, TRUE)
    <2>1. items[1].id = 0
        BY <1>4, <1>7
    <2> QED
        BY <1>3, <1>4, <2>1, Ready, InsertedListed DEF Latest
<1>8. CASE /\ e.id = 0
           /\ items' = [items EXCEPT ![1] = Numbered(Latest, e)]
           /\ Opened(WithRow(Latest, e))
    <2>1. hist' = <<WithRow(Latest, e)>> /\ UNCHANGED <<failed, out>>
        BY <1>8 DEF Opened
    <2>2. Surplus' = Surplus /\ failed' \in 0..MaxFailed /\ out' \in BOOLEAN /\ out \in BOOLEAN
        BY <1>1, <2>1, Ready, SurplusGrows DEF Typed
    <2>3. out' = TRUE
        BY <1>7, <1>8, <2>1, <2>2
    <2>4. Stored(hist', Surplus') /\ Listed(items', hist', Surplus', out')
        BY <1>7, <1>8, <2>1, <2>2, <2>3, Zenon
    <2> QED
        BY <1>5, <2>2, <2>4
<1>9. CASE /\ e.id = 0
           /\ items' = [items EXCEPT ![1] = e]
           /\ NotOpened
    <2>1. /\ out' \in BOOLEAN /\ failed' \in 0..MaxFailed /\ Stored(hist', Surplus')
          /\ \A s, o : Listed(s, hist, Surplus, o) => Listed(s, hist', Surplus', out')
        BY <1>1, <1>9, NotOpenedStep
    <2>2. Listed(items', hist', Surplus', out')
        BY <1>7, <1>9, <2>1, Zenon
    <2> QED
        BY <1>5, <2>1, <2>2
<1> QED
    BY <1>2, <1>6, <1>8, <1>9

\* clear.
LEMMA ClearStep ==
    ASSUME IInv, Clear
    PROVE  IInv'
<1>1. /\ call = Idle /\ items # NotLoaded /\ items' = <<>>
      /\ hist' = hist \o Removals(hist[Len(hist)], items)
      /\ UNCHANGED <<call, visits, crashes, failed, out>>
    BY DEF Clear, Db!Latest
<1>2. Listed(items, hist, Surplus, out)
    BY <1>1 DEF IInv
<1>3. Stored(hist', Surplus) /\ Listed(<<>>, hist', Surplus, out)
    BY <1>1, <1>2, Ready, ClearedListed
<1>4. Surplus' = Surplus
    BY <1>1, Ready, SurplusGrows
<1>5. Typed' /\ Searching'
    BY <1>1, Ready, TypedStep, NotSearching DEF Typed
<1> QED
    BY <1>1, <1>3, <1>4, <1>5 DEF IInv, Updating, Idle

\* checkQueue.
LEMMA ExecuteStep ==
    ASSUME IInv, Execute
    PROVE  IInv'
<1>1. Len(hist) > 1 /\ hist' = Tail(hist) /\ UNCHANGED <<items, call, visits, crashes, failed, out>>
    BY DEF Execute, Db!Execute
<1>2. /\ Stored(Tail(hist), Surplus)
      /\ \A s, o : Listed(s, hist, Surplus, o) => Listed(s, Tail(hist), Surplus, o)
      /\ \A n \in 1..Len(Tail(hist)) : n + 1 \in 1..Len(hist) /\ Tail(hist)[n] = hist[n + 1]
    BY <1>1, Ready, Executed
<1>3. Surplus' = Surplus
    BY <1>1, Ready, SurplusGrows
<1>4. Typed'
    BY <1>1, Ready DEF Typed
<1>5. Searching' /\ Updating'
    BY <1>1, <1>2 DEF IInv, Searching, Updating
<1> QED
    BY <1>1, <1>2, <1>3, <1>4, <1>5 DEF IInv

\* checkQueue, when the file does not open.
LEMMA UnopenedStep ==
    ASSUME IInv, Unopened
    PROVE  IInv'
<1>1. call = Idle /\ NotOpened /\ UNCHANGED <<items, call, visits, crashes>>
    BY DEF Unopened
<1>2. /\ out' \in BOOLEAN /\ failed' \in 0..MaxFailed /\ Stored(hist', Surplus')
      /\ \A s, o : Listed(s, hist, Surplus, o) => Listed(s, hist', Surplus', out')
    BY <1>1, NotOpenedStep
<1>3. Typed' /\ Searching'
    BY <1>1, <1>2, Ready, TypedStep, NotSearching DEF Typed
<1>4. Updating' /\ call'.step = "idle" /\ call.step = "idle"
    BY <1>1 DEF Updating, Idle
<1> QED
    BY <1>1, <1>2, <1>3, <1>4 DEF IInv

\* The death of the process.
LEMMA CrashStep ==
    ASSUME IInv, Crash
    PROVE  IInv'
<1>1. /\ crashes < MaxCrashes /\ crashes' = crashes + 1 /\ items' = NotLoaded
      /\ call' = Idle /\ out' = FALSE /\ hist' = <<hist[1]>> /\ UNCHANGED <<visits, failed>>
    BY Ready DEF Crash, Db!Forget
<1>2. Surplus' = Surplus + 1
    BY <1>1, Ready, SurplusGrows
<1>3. Stored(hist', Surplus')
    BY <1>1, <1>2, Ready, Forgotten
<1>4. Searching' /\ call' \in [step : {"idle", "book", "row", "update"},
            item : DataItem \cup {NoItem}, target : BOOLEAN]
    BY <1>1, NotSearching
<1>5. out' \in BOOLEAN
    BY <1>1, Zenon
<1>6. crashes' \in 0..MaxCrashes
    BY <1>1, Ready, HistoryAssumption DEF Typed
<1>7. Typed'
    BY <1>1, <1>4, <1>5, <1>6, Ready DEF Typed
<1>8. Updating' /\ call'.step = "idle"
    BY <1>1 DEF Updating, Idle
<1> QED
    BY <1>1, <1>3, <1>4, <1>7, <1>8 DEF IInv

-----------------------------------------------------------------------------
\* HistoryManager and DataItem: the inductive invariant holds in every state.
THEOREM Invariance == Spec => []IInv
<1>1. Init => IInv
    <2> SUFFICES ASSUME Init PROVE IInv
        OBVIOUS
    <2>1. Surplus = 0 /\ ITEM_COUNT \in Nat
        BY HistoryAssumption DEF Init, Surplus
    <2>2. Empty \in Tables /\ Empty.cols = {}
        BY DEF Empty, Tables
    <2>3. Good(Empty) /\ Ids(Empty) = {}
        BY <2>2 DEF Good, Ids
    <2>4. Cardinality(Ids(Empty)) = 0
        BY <2>3, FS_EmptySet
    <2>5. /\ <<Empty>> \in Seq(Tables) /\ <<Empty>> # <<>> /\ Len(<<Empty>>) = 1
          /\ <<Empty>>[1] = Empty
        BY <2>2, One, Zenon
    <2>6. Stored(hist, Surplus)
        BY <2>1, <2>3, <2>4, <2>5 DEF Init, Stored
    <2>7. FALSE \in BOOLEAN
        OBVIOUS
    <2>8. Typed
        <3>1. call \in [step : {"idle", "book", "row", "update"}, item : DataItem \cup {NoItem},
                        target : BOOLEAN]
            BY <2>7 DEF Init, Idle
        <3>2. visits = 0 /\ crashes = 0 /\ failed = 0
            BY DEF Init
        <3>3. visits \in 0..MaxVisits /\ crashes \in 0..MaxCrashes /\ failed \in 0..MaxFailed
            BY <3>2, HistoryAssumption
        <3>4. out \in BOOLEAN
            BY Zenon DEF Init
        <3> QED
            BY <3>1, <3>3, <3>4 DEF Typed
    <2>9. call.step = "idle"
        BY DEF Init, Idle
    <2>10. items = NotLoaded
        BY DEF Init
    <2> QED
        BY <2>6, <2>8, <2>9, <2>10 DEF IInv, Searching, Updating
<1>2. IInv /\ [Next]_vars => IInv'
    <2> SUFFICES ASSUME IInv, [Next]_vars PROVE IInv'
        OBVIOUS
    <2>1. CASE Load
        BY <2>1, LoadStep
    <2>2. ASSUME NEW d \in DataItem, Insert(d) PROVE IInv'
        BY <2>2, InsertStep
    <2>3. CASE SaveBook
        BY <2>3, SaveBookStep
    <2>4. CASE SaveRow
        BY <2>4, SaveRowStep
    <2>5. CASE Update
        BY <2>5, UpdateStep
    <2>6. CASE Clear
        BY <2>6, ClearStep
    <2>7. CASE Execute
        BY <2>7, ExecuteStep
    <2>8. CASE Unopened
        BY <2>8, UnopenedStep
    <2>9. CASE Crash
        BY <2>9, CrashStep
    <2>10. CASE UNCHANGED vars
        BY <2>10 DEF vars, IInv, Typed, Searching, Updating, Surplus
    <2> QED
        BY <2>1, <2>2, <2>3, <2>4, <2>5, <2>6, <2>7, <2>8, <2>9, <2>10 DEF Next
<1> QED
    BY <1>1, <1>2, PTL DEF Spec

\* HistoryManager and DataItem: every variable keeps its type.
THEOREM TypeCorrect == Spec => []TypeOK
<1>1. IInv => TypeOK
    <2> SUFFICES ASSUME IInv PROVE TypeOK
        OBVIOUS
    <2>1. Stored(hist, Surplus) /\ Typed
        BY Ready
    <2>2. items = NotLoaded \/ items \in Seq(Row)
        BY DEF IInv, Listed
    <2> QED
        BY <2>1, <2>2 DEF TypeOK, Typed, Stored
<1> QED
    BY <1>1, Invariance, PTL

\* HistoryManager.insert and clear: an entry with an id has its row in every
\* state that a crash may leave, and, as long as the file has opened for every
\* statement since the list was loaded, list and table are the same entries
\* with the same dates.
THEOREM ListFollowsTable == Spec => []ListIsTable
<1>1. IInv => ListIsTable
    <2> SUFFICES ASSUME IInv, items # NotLoaded
                 PROVE  /\ \A i \in DOMAIN items : items[i].id # 0 =>
                              \A n \in DOMAIN hist : \E r \in hist[n].cols : EntryOf(items[i], r)
                        /\ ~out =>
                              /\ Len(items) = Cardinality(Db!Latest.cols)
                              /\ \A r \in Db!Latest.cols : \E i \in DOMAIN items :
                                    EntryOf(items[i], r) /\ items[i].date = r.date
        BY DEF ListIsTable
    <2>1. Listed(items, hist, Surplus, out) /\ items \in Seq(Row)
        BY DEF IInv, Listed
    <2>2. DOMAIN items = 1..Len(items) /\ DOMAIN hist = 1..Len(hist) /\ Len(items) \in Nat
        BY <2>1, Ready, StoredEnds, LenProperties
    <2>3. \A i \in 1..Len(items), n \in 1..Len(hist) : Backed(items[i], hist[n])
        BY <2>1 DEF Listed
    <2>4. ASSUME NEW i \in DOMAIN items, items[i].id # 0, NEW n \in DOMAIN hist
          PROVE  \E r \in hist[n].cols : EntryOf(items[i], r)
        BY <2>2, <2>3, <2>4 DEF Backed
    <2>5. ASSUME ~out
          PROVE  /\ Len(items) = Cardinality(Latest.cols)
                 /\ \A r \in Latest.cols : \E i \in DOMAIN items :
                       EntryOf(items[i], r) /\ items[i].date = r.date
        <3>1. Numbers(items) /\ \A r \in Latest.cols : Shows(items, r)
            BY <2>1, <2>5 DEF Listed, Mirror, Latest
        <3>2. Names(items) = Ids(Latest)
            <4>1. ASSUME NEW x \in Names(items) PROVE x \in Ids(Latest)
                <5>1. PICK i \in 1..Len(items) : x = items[i].id
                    BY DEF Names
                <5>2. PICK r \in Latest.cols : EntryOf(items[i], r)
                    BY <2>3, <3>1, Ready DEF Numbers, Backed, Latest
                <5> QED
                    BY <5>1, <5>2 DEF EntryOf, Ids
            <4>2. ASSUME NEW x \in Ids(Latest) PROVE x \in Names(items)
                <5>1. PICK r \in Latest.cols : x = r.id
                    BY DEF Ids
                <5>2. PICK i \in 1..Len(items) : EntryOf(items[i], r)
                    BY <3>1 DEF Shows
                <5> QED
                    BY <5>1, <5>2 DEF EntryOf, Names
            <4> QED
                BY <4>1, <4>2
        <3>3. Cardinality(Names(items)) = Len(items)
            <4> DEFINE f == [i \in 1..Len(items) |-> items[i].id]
            <4>1. f \in [1..Len(items) -> Names(items)]
                BY DEF Names
            <4>2. \A i, j \in 1..Len(items) : f[i] = f[j] => i = j
                BY <2>1, <3>1 DEF Listed, Distinct, Numbers
            <4>3. \A x \in Names(items) : \E i \in 1..Len(items) : f[i] = x
                BY DEF Names
            <4> HIDE DEF f
            <4>4. f \in Injection(1..Len(items), Names(items)) /\ f \in Surjection(1..Len(items), Names(items))
                BY <4>1, <4>2, <4>3 DEF Injection, IsInjective, Surjection
            <4>5. IsFiniteSet(1..Len(items)) /\ Cardinality(1..Len(items)) = Len(items)
                <5>1. Len(items) \in Nat
                    BY <2>2
                <5> QED
                    BY <5>1, FS_Interval
            <4>6. IsFiniteSet(Names(items))
                BY <2>1, NamesCount
            <4> QED
                BY <4>4, <4>5, <4>6, FS_Injection
        <3>4. Cardinality(Latest.cols) = Cardinality(Ids(Latest))
            BY Ready, RowsCount
        <3> QED
            BY <2>2, <3>1, <3>2, <3>3, <3>4 DEF Shows
    <2> QED
        BY <2>4, <2>5, Ready
<1> QED
    BY <1>1, Invariance, PTL

\* DataItem::saveToCollection: in no state that a crash may leave does a row
\* point to a book that is not there, unless the file had not opened when the
\* row was written.
THEOREM TargetsStay == Spec => []TargetsExist
<1>1. IInv => TargetsExist
    <2> SUFFICES ASSUME IInv, NEW n \in DOMAIN hist, NEW r \in hist[n].cols
                 PROVE  IF r.target THEN r.item \in hist[n].books ELSE r.blind
        BY DEF TargetsExist
    <2>1. Good(hist[n])
        BY Ready, StoredEnds
    <2> QED
        BY <2>1 DEF Good, RowGood
<1> QED
    BY <1>1, Invariance, PTL

\* HistoryManager.insert: in no state that a crash may leave is a link there
\* twice, unless the second row was written when the file had not opened for
\* the list; and the table outgrows ITEM_COUNT by the row under way, one row
\* for each crash and a list for each time the file did not open, at most.
THEOREM LinksStayUnique == Spec => []OneRowPerLink
<1>1. IInv => OneRowPerLink
    <2> SUFFICES ASSUME IInv, NEW n \in DOMAIN hist
                 PROVE  /\ \A r, q \in hist[n].cols :
                              r.item.link = q.item.link /\ r.id < q.id => q.blind
                        /\ Cardinality(hist[n].cols) <= ITEM_COUNT + 1 + Surplus
        BY DEF OneRowPerLink
    <2>1. n \in 1..Len(hist) /\ Good(hist[n])
        BY Ready, StoredEnds
    <2>2. Cardinality(Ids(hist[n])) <= ITEM_COUNT + 1 + Surplus
        BY <2>1, Ready DEF Stored
    <2>3. Cardinality(hist[n].cols) = Cardinality(Ids(hist[n]))
        BY <2>1, RowsCount
    <2> QED
        BY <2>1, <2>2, <2>3 DEF Good, Apart
<1> QED
    BY <1>1, Invariance, PTL
=============================================================================
