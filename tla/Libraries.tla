------------------------------ MODULE Libraries -----------------------------
(***************************************************************************)
(* The list of libraries (lib/pages/libraries.dart, main/LibraryContext).  *)
(* It is kept as comments under an issue on GitHub.  Each comment is       *)
(* signed over the token of the one before it, so that a comment is only   *)
(* accepted by a context that has accepted its predecessor: comment c by   *)
(* one whose token is that of c - 1.  The page asks for GitHub's pages of  *)
(* comments; reload, which any open page starts with, and loadMore may be  *)
(* under way together and are answered in any order.                       *)
(*                                                                         *)
(* Comments that are not signed change nothing and are left out.  Rows are *)
(* written through the statement queue (module Database).  A page that is  *)
(* left is taken to be swept (module Lifecycle) before it is opened again: *)
(* its late answers then end in the exception of a destroyed object.       *)
(***************************************************************************)
EXTENDS Naturals, Sequences, SequencesExt

CONSTANTS UrlOf,        \* the src of each comment there will be, in order
          Ignored,      \* the comments with the ignore flag
          Urls,         \* the URLs of comments, and those a user may add
          PerPage,      \* per_page
          MaxPage,      \* bound on the pages asked for
          MaxRequests,  \* bound on the requests under way
          MaxFails,     \* bound on the requests that fail
          MaxEdits,     \* bound on the user's insertions
          MaxOpens      \* bound on the openings of the page

ASSUME LibrariesAssumption ==
    /\ UrlOf \in Seq(Urls) /\ Ignored \subseteq DOMAIN UrlOf
    /\ PerPage \in Nat \ {0}
    /\ {MaxPage, MaxRequests, MaxFails, MaxEdits, MaxOpens} \subseteq Nat

VARIABLES posted,       \* comments there are on GitHub
          rows,         \* the libraries, in the table and in the array
          open,         \* the page is open
          token,        \* the comment whose token LibraryContext holds, 0: none
          pageIndex,    \* LibrariesState.pageIndex
          reqs,         \* requests under way
          loading,      \* BetterRefreshIndicatorController.loading
          updated,      \* lastUpdateTime is set
          fails, edits, opens,
          reach,        \* history: the last comment ever accepted
          clean         \* history: see Clean

counts == <<fails, edits, opens>>
librariesVars == <<posted, rows, open, token, pageIndex, reqs, loading, updated, counts, reach, clean>>

Total == Len(UrlOf)
NotBefore(a, b) == IF a > b THEN a ELSE b

\* Nothing has happened that could make loadMore miss a page: the list was
\* opened without a request, or reloaded as it now is with no other request
\* under way.
Clean(c) == clean' = c

-----------------------------------------------------------------------------
\* The comments of page p when there are n (external): 0 is the first page too.
PageOf(p, n) == LET q == NotBefore(p, 1)
                IN  {c \in 1..n : (q - 1) * PerPage < c /\ c <= q * PerPage}

\* Mutant: a comment is accepted without the token before it.
MatchedAny(cs) == {c \in cs : c > token}

\* isMatch along a page: once one comment follows on the token, so do the rest.
Matched(cs) == IF token + 1 \in cs THEN {c \in cs : c > token} ELSE {}

\* parseLibrary for an accepted comment.
Accepted(rs, c) ==
    IF c \in Ignored THEN rs
    ELSE IF \E i \in DOMAIN rs : rs[i].url = UrlOf[c]
         THEN [i \in DOMAIN rs |-> IF rs[i].url = UrlOf[c] THEN [rs[i] EXCEPT !.signed = TRUE]
                                   ELSE rs[i]]
         ELSE Append(rs, [url |-> UrlOf[c], signed |-> TRUE])

\* parseLibrary for the accepted comments cs, in the order of the page.
Parsed(rs, cs) ==
    LET Upto[c \in 0..Total] ==
            IF c = 0 THEN rs
            ELSE IF c \in cs THEN Accepted(Upto[c - 1], c) ELSE Upto[c - 1]
    IN  Upto[Total]

\* startLoading, and the request for page p.
Ask(kind, p) == /\ Len(reqs) < MaxRequests
                /\ reqs' = Append(reqs, [kind |-> kind, page |-> p, since |-> posted])
                /\ loading' = TRUE

-----------------------------------------------------------------------------
\* The maintainers add a comment (external).
Post == /\ posted < Total
        /\ posted' = posted + 1
        /\ Clean(FALSE)
        /\ UNCHANGED <<rows, open, token, pageIndex, reqs, loading, updated, counts, reach>>

\* initState: a context without a token, and a reload unless one has been
\* successful in the last five minutes.
Open(recent) ==
    /\ ~open
    /\ opens < MaxOpens
    /\ recent => updated
    /\ open' = TRUE
    /\ opens' = opens + 1
    /\ token' = 0 /\ pageIndex' = 0
    /\ IF recent
       THEN reqs' = <<>> /\ loading' = FALSE /\ Clean(TRUE)
       ELSE /\ reqs' = <<[kind |-> "reload", page |-> 0, since |-> posted]>>
            /\ loading' = TRUE
            /\ Clean(FALSE)
    /\ UNCHANGED <<posted, rows, updated, fails, edits, reach>>

\* dispose.
Dispose == /\ open
           /\ open' = FALSE
           /\ reqs' = <<>> /\ loading' = FALSE /\ token' = 0 /\ pageIndex' = 0
           /\ Clean(FALSE)
           /\ UNCHANGED <<posted, rows, updated, counts, reach>>

\* The list is pulled down: _onRefresh, reload.
Refresh == /\ open
           /\ ~loading
           /\ Ask("reload", 0)
           /\ Clean(FALSE)
           /\ UNCHANGED <<posted, rows, open, token, pageIndex, updated, counts, reach>>

\* Mutant: loadMore counts on before the page has come.
LoadMoreEager == /\ open
                 /\ pageIndex < MaxPage
                 /\ Ask("more", pageIndex + 1)
                 /\ pageIndex' = pageIndex + 1
                 /\ UNCHANGED <<posted, rows, open, token, updated, counts, reach, clean>>

\* The list is scrolled to its end, whatever is under way: loadMore.
LoadMore == /\ open
            /\ pageIndex < MaxPage
            /\ Ask("more", pageIndex + 1)
            /\ UNCHANGED <<posted, rows, open, token, pageIndex, updated, counts, reach, clean>>

\* The rest of requestPage, reload and loadMore: request i is answered as things
\* stood when there were n comments.
Answer(i, n) ==
    LET r == reqs[i]
        m == Matched(PageOf(r.page, n))
        t == IF m = {} THEN token ELSE CHOOSE c \in m : \A d \in m : d <= c
    IN  /\ n \in r.since..posted
        /\ rows' = Parsed(rows, m)
        /\ token' = t
        /\ reach' = NotBefore(reach, t)
        /\ pageIndex' = r.page
        /\ updated' = (updated \/ (r.kind = "reload" /\ m # {}))
        /\ reqs' = RemoveAt(reqs, i)
        /\ loading' = FALSE
        /\ Clean(clean \/ (r.kind = "reload" /\ n = posted /\ Len(reqs) = 1))
        /\ UNCHANGED <<posted, open, counts>>

\* The request fails, or its answer is not a list: the exception is dropped.
Fail(i) == /\ fails < MaxFails
           /\ fails' = fails + 1
           /\ reqs' = RemoveAt(reqs, i)
           /\ loading' = FALSE
           /\ UNCHANGED <<posted, rows, open, token, pageIndex, updated, edits, opens, reach, clean>>

\* insertLibrary.
InsertLibrary(u) == /\ open
                    /\ edits < MaxEdits
                    /\ edits' = edits + 1
                    /\ rows' = IF \E i \in DOMAIN rows : rows[i].url = u THEN rows
                               ELSE Append(rows, [url |-> u, signed |-> FALSE])
                    /\ UNCHANGED <<posted, open, token, pageIndex, reqs, loading, updated, fails, opens,
                                   reach, clean>>

\* removeLibrary: only a library without a token can be dismissed.
RemoveLibrary(i) == /\ open
                    /\ ~rows[i].signed
                    /\ rows' = RemoveAt(rows, i)
                    /\ UNCHANGED <<posted, open, token, pageIndex, reqs, loading, updated, counts, reach,
                                   clean>>

-----------------------------------------------------------------------------
LibrariesInit == /\ posted \in 0..Total
                 /\ rows = <<>> /\ open = FALSE /\ token = 0 /\ pageIndex = 0
                 /\ reqs = <<>> /\ loading = FALSE /\ updated = FALSE
                 /\ fails = 0 /\ edits = 0 /\ opens = 0
                 /\ reach = 0 /\ clean = FALSE

Answers == \E i \in DOMAIN reqs : (\E n \in 0..posted : Answer(i, n)) \/ Fail(i)

LibrariesNext == \/ Post \/ Dispose \/ Refresh \/ LoadMore \/ Answers
                 \/ \E recent \in BOOLEAN : Open(recent)
                 \/ \E u \in Urls : InsertLibrary(u)
                 \/ \E i \in DOMAIN rows : RemoveLibrary(i)

\* Requests are answered or fail.
LibrariesSpec == LibrariesInit /\ [][LibrariesNext]_librariesVars /\ WF_librariesVars(Answers)

-----------------------------------------------------------------------------
\* parseLibrary: the libraries with a token are exactly those of an unbroken
\* run of comments from the first one, however pages overtake each other, are
\* asked for twice or fail, and across contexts that start from no token; and
\* a library has one row, whether it came from a comment, from several or from
\* the user.
AcceptedIsChain ==
    /\ {rows[i].url : i \in {k \in DOMAIN rows : rows[k].signed}}
         = {UrlOf[c] : c \in 1..reach \ Ignored}
    /\ \A i, j \in DOMAIN rows : rows[i].url = rows[j].url => i = j

\* loadMore: a user who scrolls on reaches every comment, from a list just
\* reloaded and as long as nothing is posted.  Posting, and a reload while a
\* page is under way, are what can leave a page out until the next reload.
ScrollingReachesAll == WF_librariesVars(LoadMore) => (clean ~> ~clean \/ token = posted)

=============================================================================
