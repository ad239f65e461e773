--------------------------- MODULE DownloadProofs ---------------------------
(***************************************************************************)
(* Theorems about the download of a ROM of module Download, for any number *)
(* of downloads, polls in flight and deaths of the program, and whatever   *)
(* the service does to a download.                                         *)
(***************************************************************************)
EXTENDS Download, FiniteSetTheorems, SequenceTheorems, NaturalsInduction, TLAPS

Rows == {"unused", "running", "successful", "failed", "removed"}
Shows == {"None", "Downloading", "Complete"}

\* What goes over the channel.
Calls == [m : {"setup", "enqueue"}] \cup [m : {"state"}, id : Downloads]
Found == UNION {[D -> {"Downloading", "Complete"}] : D \in SUBSET Downloads}
Answers == [m : {"setup"}, rows : Found]
             \cup [m : {"enqueued", "complete"}, id : Downloads]
             \cup [m : {"rejected"}]
             \cup [m : {"state"}, id : Downloads, st : Shows]

\* What answers an enqueue.
Replies == {"enqueued", "rejected"}

Sent == {outbox[i] : i \in 1..Len(outbox)}
Got == {inbox[i] : i \in 1..Len(inbox)}

Types == /\ row \in [Downloads -> Rows] /\ file \in BOOLEAN /\ broadcast \subseteq Downloads
         /\ outbox \in Seq(Calls) /\ inbox \in Seq(Answers)
         /\ status \in Status /\ timer \in BOOLEAN /\ cur \in 0..MaxStarts
         /\ enqueues \in {0, 1} /\ callbacks \subseteq Downloads /\ checks \in {0, 1}

\* The end of the download is on its way to the item.
Completing(d) == d \in broadcast \/ \E a \in Got : a.m = "complete" /\ a.id = d

\* The download is not over, or not known to be, or has made the file.
Busy(d) == row[d] \in {"running", "successful"} \/ Completing(d)
NoneBusy == \A d \in Downloads : ~Busy(d)

NoneFailed == \A d \in Downloads : row[d] # "failed"

\* Before the item is there nothing has been asked but setup.
Early == status \in {"dead", "booting", "unopened"} =>
            /\ ~timer /\ cur = 0 /\ enqueues = 0 /\ callbacks = {} /\ checks = 0
            /\ \A c \in Sent : c.m = "setup"
            /\ \A a \in Got : a.m \in {"setup", "complete"}
            /\ status = "dead" => Sent = {} /\ Got = {}
            /\ status = "unopened" => \A d \in Downloads : row[d] \in {"unused", "removed"}

\* setup and enqueue are not called while one of them is under way.
CalledOnce == \A i, j \in 1..Len(outbox) :
                 outbox[i].m = outbox[j].m /\ outbox[i].m \in {"setup", "enqueue"} => i = j

\* The calls.
SentOK ==
    \A c \in Sent :
        /\ c.m = "setup" => status = "booting" /\ \A a \in Got : a.m # "setup"
        /\ c.m = "enqueue" => /\ enqueues = 1 /\ NoneBusy
                              /\ \A a \in Got : a.m \notin Replies
                              /\ \E d \in Downloads : row[d] = "unused"
        /\ c.m = "state" => row[c.id] # "unused"

\* An answer that says the download c is over.
Ends(a, d) == /\ a.m \in {"state", "complete"} /\ a.id = d
              /\ a.m = "state" => a.st # "Downloading"

\* b may come after a: answers that come once, and no news of a download
\* after that of its end.
Follows(a, b) ==
    /\ a.m = b.m => /\ a.m # "setup"
                    /\ a.m = "complete" => a.id # b.id
    /\ a.m \in Replies => b.m \notin Replies
    /\ b.m = "state" /\ b.st = "Downloading" /\ Ends(a, b.id) => row[b.id] = "failed"

InOrder == \A i, j \in 1..Len(inbox) : i < j => Follows(inbox[i], inbox[j])

\* The answers.
SetupOK(f) == /\ status = "booting"
              /\ \A d \in DOMAIN f : /\ row[d] # "unused"
                                     /\ f[d] = "Complete" => row[d] = "successful"
                                     /\ \A e \in Downloads : Busy(e) => e = d \/ row[d] = "failed"
              /\ DOMAIN f = {} => \A d \in Downloads : row[d] \in {"unused", "removed"}

GotOK ==
    \A a \in Got :
        /\ a.m = "setup" => SetupOK(a.rows)
        /\ a.m = "enqueued" =>
              /\ enqueues = 1 /\ row[a.id] # "unused"
              /\ \A d \in Downloads : Busy(d) => d = a.id
              /\ \A b \in Got \cup Sent : b.m = "state" => b.id # a.id
              /\ a.id \notin callbacks
        /\ a.m = "rejected" => enqueues = 1 /\ NoneBusy
        /\ a.m = "state" => /\ row[a.id] # "unused"
                            /\ a.st = "Complete" => row[a.id] = "successful"
                            /\ a.st = "None" => row[a.id] = "removed"
        /\ a.m = "complete" => row[a.id] \in {"successful", "failed"} /\ a.id \notin broadcast

\* One download at a time, and the file is its.
OneBusy == /\ \A d, e \in Downloads : Busy(d) /\ Busy(e) => d = e
           /\ \A d \in broadcast : row[d] \in {"successful", "failed"}
           /\ file => \E d \in Downloads : row[d] \in {"running", "successful"}
           /\ \A d \in Downloads : row[d] = "successful" => file

\* The download the item knows.
CurrentOK ==
    /\ enqueues = 1 => cur = 0 /\ checks = 0
    /\ cur # 0 => /\ row[cur] # "unused"
                  /\ \A d \in Downloads : Busy(d) => d = cur \/ row[cur] = "failed"
    /\ \A d \in callbacks : (row[d] = "running" \/ Completing(d) => d = cur) /\ row[d] # "unused"
    /\ checks = 1 => /\ cur # 0 /\ ~timer
                     /\ row[cur] \in {"successful", "failed"} /\ ~Completing(cur)
                     /\ \A d \in Downloads : Busy(d) => d = cur

\* What the status says.
StatusOK ==
    /\ status = "None" => NoneBusy /\ enqueues = 0 /\ checks = 0 /\ ~timer
    /\ status = "Complete" => \E d \in Downloads : row[d] = "successful"

\* Short of a failure the item watches the download that runs.
Watched ==
    NoneFailed =>
        /\ enqueues = 1 => status = "Downloading" /\ timer
        /\ status = "Downloading" => timer \/ checks = 1
        /\ \A d \in Downloads : row[d] = "running" /\ status \notin {"dead", "booting"} =>
              \/ \E a \in Got : a.m = "enqueued" /\ a.id = d
              \/ cur = d /\ timer /\ status = "Downloading"
        /\ \A a \in Got : a.m = "state" /\ a.st = "Downloading"
                             => a.id = cur /\ timer /\ status = "Downloading"

\* An enqueue is under way until it is answered.
Outstanding == enqueues = 1 => \/ \E c \in Sent : c.m = "enqueue"
                               \/ \E a \in Got : a.m \in Replies

Sane == /\ Types /\ Early /\ CalledOnce /\ SentOK /\ InOrder /\ GotOK /\ OneBusy
        /\ CurrentOK /\ StatusOK /\ Watched /\ Outstanding

IInv == mistaken \/ Sane

-----------------------------------------------------------------------------
(***************************************************************************)
(* The channel.                                                            *)
(***************************************************************************)

\* What the messages say.
LEMMA MessageTypes ==
    ASSUME Types
    PROVE  /\ \A c \in Sent : /\ c.m \in {"setup", "enqueue", "state"}
                              /\ c.m = "state" => c.id \in Downloads
           /\ \A a \in Got : /\ a.m \in {"setup", "enqueued", "rejected", "state", "complete"}
                             /\ a.m = "setup" => a.rows \in Found
                             /\ a.m \notin {"setup", "rejected"} => a.id \in Downloads
                             /\ a.m = "state" => a.st \in Shows
<1>1. \A c \in Sent : c \in Calls
    BY ElementOfSeq DEF Types, Sent
<1>2. \A a \in Got : a \in Answers
    BY ElementOfSeq DEF Types, Got
<1>3. \A c \in Calls : /\ c.m \in {"setup", "enqueue", "state"}
                       /\ c.m = "state" => c.id \in Downloads
    BY DEF Calls
<1>4. \A a \in Answers : /\ a.m \in {"setup", "enqueued", "rejected", "state", "complete"}
                         /\ a.m = "setup" => a.rows \in Found
                         /\ a.m \notin {"setup", "rejected"} => a.id \in Downloads
                         /\ a.m = "state" => a.st \in Shows
    <2> SUFFICES ASSUME NEW a \in Answers
                 PROVE  /\ a.m \in {"setup", "enqueued", "rejected", "state", "complete"}
                        /\ a.m = "setup" => a.rows \in Found
                        /\ a.m \notin {"setup", "rejected"} => a.id \in Downloads
                        /\ a.m = "state" => a.st \in Shows
        OBVIOUS
    <2>1. CASE a \in [m : {"setup"}, rows : Found]
        BY <2>1
    <2>2. CASE a \in [m : {"enqueued", "complete"}, id : Downloads]
        BY <2>2
    <2>3. CASE a \in [m : {"state"}, id : Downloads, st : Shows]
        BY <2>3
    <2>4. CASE a \in [m : {"rejected"}]
        BY <2>4
    <2> QED
        BY <2>1, <2>2, <2>3, <2>4 DEF Answers
<1> QED
    BY <1>1, <1>2, <1>3, <1>4

\* A call is sent.
LEMMA Sends ==
    ASSUME Types, NEW c \in Calls, outbox' = Append(outbox, c)
    PROVE  /\ outbox' \in Seq(Calls)
           /\ Sent' = Sent \cup {c}
           /\ (CalledOnce /\ \A b \in Sent : b.m = c.m => c.m = "state") => CalledOnce'
<1> DEFINE n == Len(outbox)
<1>1. outbox \in Seq(Calls) /\ n \in Nat
    BY LenProperties DEF Types
<1>2. /\ outbox' \in Seq(Calls) /\ Len(outbox') = n + 1
      /\ \A i \in 1..n : outbox'[i] = outbox[i]
      /\ outbox'[n + 1] = c
    BY <1>1, AppendProperties
<1> HIDE DEF n
<1>3. Sent' = Sent \cup {c}
    <2>1. \A i \in 1..(n + 1) : i \in 1..n \/ i = n + 1
        BY <1>1
    <2>2. n + 1 \in 1..(n + 1) /\ \A i \in 1..n : i \in 1..(n + 1)
        BY <1>1
    <2>3. Sent = {outbox[i] : i \in 1..n} /\ Sent' = {outbox'[i] : i \in 1..(n + 1)}
        BY <1>2 DEF Sent, n
    <2> QED
        BY <1>2, <2>1, <2>2, <2>3
<1>4. ASSUME CalledOnce, \A b \in Sent : b.m = c.m => c.m = "state" PROVE CalledOnce'
    <2>1. \A i \in 1..n : outbox[i].m # c.m \/ c.m = "state"
        BY <1>4 DEF Sent, n
    <2>2. \A i \in 1..(n + 1) : i \in 1..n \/ i = n + 1
        BY <1>1
    <2> QED
        BY <1>2, <1>4, <2>1, <2>2 DEF CalledOnce, n
<1> QED
    BY <1>2, <1>3, <1>4

\* A call reaches the plugin.
LEMMA Takes ==
    ASSUME Types, outbox # <<>>, outbox' = Tail(outbox)
    PROVE  /\ outbox' \in Seq(Calls) /\ Head(outbox) \in Sent
           /\ Sent = Sent' \cup {Head(outbox)}
           /\ CalledOnce => /\ CalledOnce'
                            /\ \A c \in Sent' : c.m = Head(outbox).m
                                                  => c.m \notin {"setup", "enqueue"}
<1> DEFINE n == Len(outbox)
<1>1. outbox \in Seq(Calls) /\ n \in Nat
    BY LenProperties DEF Types
<1>2. /\ outbox' \in Seq(Calls) /\ Len(outbox') = n - 1 /\ n > 0 /\ Head(outbox) = outbox[1]
      /\ \A i \in 1..(n - 1) : outbox'[i] = outbox[i + 1]
    BY <1>1, HeadTailProperties, EmptySeq
<1> HIDE DEF n
<1>3. /\ \A i \in 1..(n - 1) : i + 1 \in 1..n /\ i + 1 # 1
      /\ \A i \in 1..n : i = 1 \/ (i - 1 \in 1..(n - 1) /\ (i - 1) + 1 = i)
      /\ 1 \in 1..n
    BY <1>1, <1>2
<1>4. Sent = {outbox[i] : i \in 1..n} /\ Sent' = {outbox'[i] : i \in 1..(n - 1)}
    BY <1>2 DEF Sent, n
<1>5. Sent = Sent' \cup {outbox[1]}
    <2>1. \A c \in Sent : c \in Sent' \/ c = outbox[1]
        BY <1>2, <1>3, <1>4
    <2>2. \A c \in Sent' : c \in Sent
        BY <1>2, <1>3, <1>4
    <2>3. outbox[1] \in Sent
        BY <1>3, <1>4
    <2> QED
        BY <2>1, <2>2, <2>3
<1>6. ASSUME CalledOnce
      PROVE  /\ CalledOnce'
             /\ \A c \in Sent' : c.m = outbox[1].m => c.m \notin {"setup", "enqueue"}
    <2>1. CalledOnce'
        <3> SUFFICES ASSUME NEW i \in 1..(n - 1), NEW j \in 1..(n - 1),
                            outbox'[i].m = outbox'[j].m, outbox'[i].m \in {"setup", "enqueue"}
                     PROVE  i = j
            BY <1>2 DEF CalledOnce
        <3>1. i + 1 = j + 1
            BY <1>2, <1>3, <1>6 DEF CalledOnce, n
        <3> QED
            BY <1>1, <3>1
    <2>2. ASSUME NEW i \in 1..(n - 1), outbox'[i].m = outbox[1].m
          PROVE  outbox'[i].m \notin {"setup", "enqueue"}
        BY <1>2, <1>3, <1>6, <2>2 DEF CalledOnce, n
    <2> QED
        BY <1>4, <2>1, <2>2
<1> QED
    BY <1>2, <1>5, <1>6

\* A download that has failed stays failed.
FailedStay == \A d \in Downloads : row[d] = "failed" => row'[d] = "failed"

\* An answer is sent.
LEMMA Answered ==
    ASSUME Types, InOrder, FailedStay, NEW a \in Answers, inbox' = Append(inbox, a),
           \A b \in Got : Follows(b, a)'
    PROVE  /\ inbox' \in Seq(Answers) /\ InOrder'
           /\ Got' = Got \cup {a}
<1> DEFINE n == Len(inbox)
<1>1. inbox \in Seq(Answers) /\ n \in Nat
    BY LenProperties DEF Types
<1>2. /\ inbox' \in Seq(Answers) /\ Len(inbox') = n + 1
      /\ \A i \in 1..n : inbox'[i] = inbox[i]
      /\ inbox'[n + 1] = a
    BY <1>1, AppendProperties
<1> HIDE DEF n
<1>3. /\ \A i \in 1..(n + 1) : i \in 1..n \/ i = n + 1
      /\ n + 1 \in 1..(n + 1) /\ \A i \in 1..n : i \in 1..(n + 1) /\ ~(n + 1 < i)
      /\ ~(n + 1 < n + 1)
    BY <1>1
<1>4. Got = {inbox[i] : i \in 1..n} /\ Got' = {inbox'[i] : i \in 1..(n + 1)}
    BY <1>2 DEF Got, n
<1>5. Got' = Got \cup {a}
    BY <1>2, <1>3, <1>4
<1>6. \A b, c \in Got : Follows(b, c) => Follows(b, c)'
    BY MessageTypes DEF Follows, FailedStay
<1>7. \A i, j \in 1..(n + 1) : i < j => \A b, c : b = inbox'[i] /\ c = inbox'[j] => Follows(b, c)'
    <2> SUFFICES ASSUME NEW i \in 1..(n + 1), NEW j \in 1..(n + 1), i < j,
                        NEW b, NEW c, b = inbox'[i], c = inbox'[j]
                 PROVE  Follows(b, c)'
        OBVIOUS
    <2>1. i \in 1..n /\ b = inbox[i] /\ b \in Got
        BY <1>2, <1>3, <1>4
    <2>2. CASE j \in 1..n
        <3>1. c = inbox[j] /\ c \in Got /\ Follows(inbox[i], inbox[j])
            BY <1>2, <1>4, <2>1, <2>2 DEF InOrder, n
        <3> QED
            BY <1>6, <2>1, <3>1
    <2>3. CASE j = n + 1
        BY <1>2, <2>1, <2>3
    <2> QED
        BY <1>3, <2>2, <2>3
<1>8. InOrder'
    BY <1>2, <1>7 DEF InOrder
<1> QED
    BY <1>2, <1>5, <1>8

\* An answer reaches the item.
LEMMA Hears ==
    ASSUME Types, InOrder, inbox # <<>>, inbox' = Tail(inbox), row' = row
    PROVE  /\ inbox' \in Seq(Answers) /\ Head(inbox) \in Got /\ InOrder'
           /\ Got = Got' \cup {Head(inbox)}
           /\ \A b \in Got' : Follows(Head(inbox), b)
<1> DEFINE n == Len(inbox)
<1>1. inbox \in Seq(Answers) /\ n \in Nat
    BY LenProperties DEF Types
<1>2. /\ inbox' \in Seq(Answers) /\ Len(inbox') = n - 1 /\ n > 0 /\ Head(inbox) = inbox[1]
      /\ \A i \in 1..(n - 1) : inbox'[i] = inbox[i + 1]
    BY <1>1, HeadTailProperties, EmptySeq
<1> HIDE DEF n
<1>3. /\ \A i \in 1..(n - 1) : i + 1 \in 1..n /\ 1 < i + 1
      /\ \A i \in 1..n : i = 1 \/ (i - 1 \in 1..(n - 1) /\ (i - 1) + 1 = i)
      /\ 1 \in 1..n
      /\ \A i, j \in 1..(n - 1) : i < j => i + 1 < j + 1
    BY <1>1, <1>2
<1>4. Got = {inbox[i] : i \in 1..n} /\ Got' = {inbox'[i] : i \in 1..(n - 1)}
    BY <1>2 DEF Got, n
<1>5. Got = Got' \cup {inbox[1]}
    <2>1. ASSUME NEW i \in 1..n PROVE inbox[i] \in Got' \/ inbox[i] = inbox[1]
        <3>1. i # 1 => inbox[i] = inbox'[i - 1] /\ i - 1 \in 1..(n - 1)
            BY <1>2, <1>3
        <3> QED
            BY <1>4, <3>1
    <2>2. \A c \in Got' : c \in Got
        BY <1>2, <1>3, <1>4
    <2>3. inbox[1] \in Got
        BY <1>3, <1>4
    <2> QED
        BY <1>4, <2>1, <2>2, <2>3
<1>6. \A i \in 1..(n - 1) : Follows(inbox[1], inbox'[i])
    BY <1>2, <1>3 DEF InOrder, n
<1>7. \A b, c : Follows(b, c) => Follows(b, c)'
    BY DEF Follows
<1>8. InOrder'
    <2>1. \A i, j \in 1..(n - 1) : i < j => Follows(inbox[i + 1], inbox[j + 1])
        BY <1>3 DEF InOrder, n
    <2>2. \A i, j \in 1..(n - 1) : i < j => \A b, c : b = inbox'[i] /\ c = inbox'[j] => Follows(b, c)'
        BY <1>2, <1>7, <2>1
    <2> QED
        BY <1>2, <2>2 DEF InOrder
<1> QED
    BY <1>2, <1>4, <1>5, <1>6, <1>8

-----------------------------------------------------------------------------
(***************************************************************************)
(* The service.                                                            *)
(***************************************************************************)

\* An idle channel.
LEMMA NothingSaid ==
    ASSUME Sane, UNCHANGED <<inbox, outbox>>, FailedStay
    PROVE  Got' = Got /\ Sent' = Sent /\ CalledOnce' /\ InOrder'
<1>1. Got' = Got /\ Sent' = Sent
    BY DEF Got, Sent
<1>2. CalledOnce'
    BY DEF Sane, CalledOnce
<1>3. \A b, c \in Got : Follows(b, c) => Follows(b, c)'
    BY MessageTypes DEF Sane, Follows, FailedStay
<1>4. \A i, j \in 1..Len(inbox) : i < j => \A b, c : b = inbox[i] /\ c = inbox[j] => Follows(b, c)'
    BY <1>3 DEF Sane, InOrder, Got
<1>5. InOrder'
    BY <1>4 DEF InOrder
<1> QED
    BY <1>1, <1>2, <1>5

\* The service writes, and ends the one download that runs.
LEMMA ServiceStep ==
    ASSUME Sane, NEW d \in Downloads, row[d] = "running",
           NEW x \in {"running", "successful", "failed", "removed"},
           row' = [row EXCEPT ![d] = x],
           file' \in BOOLEAN, file' <=> x \in {"running", "successful"},
           broadcast' = IF x \in {"successful", "failed"} THEN broadcast \cup {d} ELSE broadcast,
           UNCHANGED <<outbox, inbox, item>>
    PROVE  Sane'
<1>1. /\ status' = status /\ timer' = timer /\ cur' = cur /\ enqueues' = enqueues
      /\ callbacks' = callbacks /\ checks' = checks /\ inbox' = inbox /\ outbox' = outbox
    BY Zenon DEF item
<1>2. /\ row \in [Downloads -> Rows] /\ row'[d] = x
      /\ \A e \in Downloads : e # d => row'[e] = row[e]
    BY DEF Sane, Types
<1>3. FailedStay
    BY <1>2 DEF FailedStay
<1>4. Got' = Got /\ Sent' = Sent /\ CalledOnce' /\ InOrder'
    BY <1>1, <1>3, NothingSaid
<1>5. ~Completing(d) /\ Busy(d) /\ \A e \in Downloads : Busy(e) => e = d
    BY DEF Sane, OneBusy, GotOK, Completing, Busy
<1>6. \A e \in Downloads : Completing(e)' <=> Completing(e) \/ (e = d /\ x \in {"successful", "failed"})
    BY <1>4 DEF Completing
<1>7. \A e \in Downloads : Busy(e)' <=> e = d /\ x # "removed"
    BY <1>2, <1>5, <1>6 DEF Busy
<1>8. Types'
    <2>1. row' \in [Downloads -> Rows] /\ file' \in BOOLEAN /\ broadcast' \subseteq Downloads
        BY DEF Sane, Types, Rows
    <2> QED
        BY <1>1, <2>1, Zenon DEF Sane, Types
<1>9. Early'
    BY <1>1, <1>4 DEF Sane, Early
<1>10. SentOK'
    <2>1. \A c \in Sent : c.m # "enqueue"
        BY <1>5 DEF Sane, SentOK, NoneBusy
    <2>2. \A c \in Sent : c.m = "state" => row'[c.id] # "unused"
        BY <1>2 DEF Sane, SentOK
    <2> QED
        BY <1>1, <1>4, <2>1, <2>2 DEF Sane, SentOK
<1>11. GotOK'
    <2>1. ASSUME NEW a \in Got, a.m = "setup" PROVE SetupOK(a.rows)'
        <3>1. SetupOK(a.rows) /\ a.rows \in Found
            BY <2>1, MessageTypes DEF Sane, GotOK
        <3>2. DOMAIN a.rows \subseteq Downloads
            BY <3>1 DEF Found
        <3> QED
            BY <1>1, <1>2, <1>5, <1>7, <3>1, <3>2 DEF SetupOK
    <2>2. ASSUME NEW a \in Got, a.m = "enqueued"
          PROVE  /\ enqueues' = 1 /\ row'[a.id] # "unused"
                 /\ \A e \in Downloads : Busy(e)' => e = a.id
                 /\ \A b \in Got' \cup Sent' : b.m = "state" => b.id # a.id
                 /\ a.id \notin callbacks'
        BY <1>1, <1>2, <1>4, <1>5, <1>7, <2>2 DEF Sane, GotOK
    <2>3. ASSUME NEW a \in Got, a.m = "state"
          PROVE  /\ row'[a.id] # "unused"
                 /\ a.st = "Complete" => row'[a.id] = "successful"
                 /\ a.st = "None" => row'[a.id] = "removed"
        BY <1>2, <2>3, MessageTypes DEF Sane, GotOK
    <2>4. ASSUME NEW a \in Got, a.m = "complete"
          PROVE  row'[a.id] \in {"successful", "failed"} /\ a.id \notin broadcast'
        <3>1. a.id \in Downloads /\ a.id # d
            BY <1>5, <2>4, MessageTypes DEF Sane, Completing
        <3> QED
            BY <1>2, <2>4, <3>1 DEF Sane, GotOK
    <2>5. \A a \in Got : a.m # "rejected"
        BY <1>5 DEF Sane, GotOK, NoneBusy
    <2> QED
        BY <1>4, <2>1, <2>2, <2>3, <2>4, <2>5 DEF GotOK
<1>12. OneBusy'
    <2>1. \A e \in broadcast' : row'[e] \in {"successful", "failed"}
        BY <1>2, <1>5 DEF Sane, Types, OneBusy, Completing
    <2>2. \A e \in Downloads : row'[e] \in {"running", "successful"} => e = d
        BY <1>2, <1>5 DEF Busy
    <2> QED
        BY <1>2, <1>7, <2>1, <2>2 DEF OneBusy
<1>13. CurrentOK'
    <2>1. checks # 1
        BY <1>5 DEF Sane, CurrentOK
    <2>2. cur # 0 => cur \in Downloads
        BY DownloadAssumption DEF Sane, Types, Downloads
    <2>3. cur # 0 => /\ row'[cur] # "unused"
                     /\ \A e \in Downloads : Busy(e)' => e = cur \/ row'[cur] = "failed"
        BY <1>2, <1>5, <1>7, <2>2 DEF Sane, CurrentOK
    <2>4. \A e \in callbacks : (row'[e] = "running" \/ Completing(e)' => e = cur) /\ row'[e] # "unused"
        BY <1>2, <1>6 DEF Sane, Types, CurrentOK
    <2> QED
        BY <1>1, <2>1, <2>3, <2>4 DEF Sane, CurrentOK
<1>14. StatusOK'
    BY <1>1, <1>5 DEF Sane, StatusOK, NoneBusy, Busy
<1>15. Watched'
    <2>1. NoneFailed' => NoneFailed
        BY <1>3 DEF NoneFailed, FailedStay
    <2>2. \A e \in Downloads : row'[e] = "running" => row[e] = "running"
        BY <1>2
    <2> QED
        BY <1>1, <1>4, <2>1, <2>2 DEF Sane, Watched
<1>20. Outstanding'
    BY <1>1, <1>4 DEF Sane, Outstanding
<1> QED
    BY <1>4, <1>8, <1>9, <1>10, <1>11, <1>12, <1>13, <1>14, <1>15, <1>20 DEF Sane

\* BroadcastReceiver.onReceive.
LEMMA OnReceiveStep ==
    ASSUME Sane, NEW d \in Downloads, OnReceive(d)
    PROVE  Sane'
<1>1. /\ status' = status /\ timer' = timer /\ cur' = cur /\ enqueues' = enqueues
      /\ callbacks' = callbacks /\ checks' = checks /\ outbox' = outbox
      /\ row' = row /\ file' = file /\ broadcast' = broadcast \ {d} /\ d \in broadcast
      /\ inbox' = IF status = "dead" THEN inbox ELSE Append(inbox, [m |-> "complete", id |-> d])
    BY DEF OnReceive, item
<1> DEFINE new == [m |-> "complete", id |-> d]
<1>2. FailedStay
    BY <1>1 DEF FailedStay
<1>3. row[d] \in {"successful", "failed"} /\ Completing(d) /\ \A a \in Got : a.m = "complete" => a.id # d
    BY <1>1 DEF Sane, OneBusy, GotOK, Completing
<1>4. Sent' = Sent /\ CalledOnce'
    BY <1>1 DEF Sane, Sent, CalledOnce
<1>5. new \in Answers /\ new.m = "complete" /\ new.id = d
    BY DEF Answers
<1> HIDE DEF new
<1>6. /\ inbox' \in Seq(Answers) /\ InOrder'
      /\ Got' = IF status = "dead" THEN Got ELSE Got \cup {new}
    <2>1. CASE status = "dead"
        BY <1>1, <1>2, <2>1, NothingSaid DEF Sane, Types
    <2>2. CASE status # "dead"
        <3>1. \A b \in Got : Follows(b, new)'
            BY <1>3, <1>5 DEF Follows, Replies
        <3>2. inbox' = Append(inbox, new)
            BY <1>1, <2>2 DEF new
        <3> QED
            BY <1>2, <1>5, <2>2, <3>1, <3>2, Answered DEF Sane
    <2> QED
        BY <2>1, <2>2
<1>7. \A e \in Downloads : Completing(e)' => Completing(e)
    BY <1>1, <1>3, <1>5, <1>6 DEF Completing
<1>8. \A e \in Downloads : Busy(e)' => Busy(e)
    BY <1>1, <1>7 DEF Busy
<1>9. \A a \in Got' : a \in Got \/ (a = new /\ status # "dead")
    BY <1>6
<1>10. Types'
    BY <1>1, <1>6, Zenon DEF Sane, Types
<1>11. Early'
    BY <1>1, <1>4, <1>5, <1>6, <1>9 DEF Sane, Early
<1>12. SentOK'
    BY <1>1, <1>4, <1>5, <1>8, <1>9 DEF Sane, SentOK, NoneBusy, Replies
<1>13. GotOK'
    <2>1. ASSUME NEW a \in Got, a.m = "setup" PROVE SetupOK(a.rows)'
        <3>1. SetupOK(a.rows)
            BY <2>1 DEF Sane, GotOK
        <3> QED
            BY <1>1, <1>8, <3>1 DEF SetupOK
    <2>2. ASSUME NEW a \in Got, a.m = "enqueued"
          PROVE  /\ enqueues' = 1 /\ row'[a.id] # "unused"
                 /\ \A e \in Downloads : Busy(e)' => e = a.id
                 /\ \A b \in Got' \cup Sent' : b.m = "state" => b.id # a.id
                 /\ a.id \notin callbacks'
        BY <1>1, <1>4, <1>5, <1>8, <1>9, <2>2 DEF Sane, GotOK
    <2>3. ASSUME NEW a \in Got, a.m \in {"state", "complete"}
          PROVE  /\ row'[a.id] # "unused"
                 /\ a.m = "state" /\ a.st = "Complete" => row'[a.id] = "successful"
                 /\ a.m = "state" /\ a.st = "None" => row'[a.id] = "removed"
                 /\ a.m = "complete" => row'[a.id] \in {"successful", "failed"} /\ a.id \notin broadcast'
        BY <1>1, <2>3 DEF Sane, GotOK
    <2>4. row'[new.id] \in {"successful", "failed"} /\ new.id \notin broadcast' /\ new.m = "complete"
        BY <1>1, <1>3, <1>5
    <2>5. ASSUME NEW a \in Got, a.m = "rejected" PROVE enqueues' = 1 /\ NoneBusy'
        BY <1>1, <1>8, <2>5 DEF Sane, GotOK, NoneBusy
    <2> QED
        BY <1>9, <2>1, <2>2, <2>3, <2>4, <2>5 DEF GotOK
<1>14. OneBusy'
    BY <1>1, <1>8 DEF Sane, OneBusy
<1>15. CurrentOK'
    <2>1. cur # 0 => cur \in Downloads
        BY DownloadAssumption DEF Sane, Types, Downloads
    <2> QED
        BY <1>1, <1>7, <1>8, <2>1 DEF Sane, Types, CurrentOK
<1>16. StatusOK'
    BY <1>1, <1>8 DEF Sane, StatusOK, NoneBusy
<1>17. Watched'
    <2>1. NoneFailed' <=> NoneFailed
        BY <1>1 DEF NoneFailed
    <2>2. \A a \in Got : a \in Got'
        BY <1>6
    <2> QED
        BY <1>1, <1>5, <1>9, <2>1, <2>2 DEF Sane, Watched
<1>20. Outstanding'
    BY <1>1, <1>4, <1>6 DEF Sane, Outstanding
<1> QED
    BY <1>4, <1>6, <1>10, <1>11, <1>12, <1>13, <1>14, <1>15, <1>16, <1>17, <1>20 DEF Sane

-----------------------------------------------------------------------------
(***************************************************************************)
(* The program starts, is used and dies.                                   *)
(***************************************************************************)

\* Which downloads are busy depends on the service and the answers alone.
LEMMA SameBusy ==
    ASSUME row' = row, broadcast' = broadcast, Got' = Got
    PROVE  /\ \A d : (Completing(d)' <=> Completing(d)) /\ (Busy(d)' <=> Busy(d))
           /\ NoneBusy' <=> NoneBusy
           /\ NoneFailed' <=> NoneFailed
<1>1. \A d : (Completing(d)' <=> Completing(d)) /\ (Busy(d)' <=> Busy(d))
    BY DEF Completing, Busy
<1> QED
    BY <1>1 DEF NoneBusy, NoneFailed

\* The download the item knows was enqueued.
LEMMA CurType ==
    ASSUME Types PROVE cur # 0 => cur \in Downloads
BY DownloadAssumption DEF Types, Downloads

\* main.dart: _setup.
LEMMA BootStep == ASSUME Sane, Boot PROVE Sane'
<1>1. /\ status = "dead" /\ status' = "booting" /\ outbox' = <<[m |-> "setup"]>>
      /\ row' = row /\ file' = file /\ broadcast' = broadcast /\ inbox' = inbox /\ timer' = timer
      /\ cur' = cur /\ enqueues' = enqueues /\ callbacks' = callbacks /\ checks' = checks
    BY DEF Boot, service
<1> DEFINE new == [m |-> "setup"]
<1>2. new \in Calls /\ new.m = "setup"
    BY DEF Calls
<1>3. /\ ~timer /\ cur = 0 /\ enqueues = 0 /\ callbacks = {} /\ checks = 0 /\ Got = {}
    BY <1>1 DEF Sane, Early
<1> HIDE DEF new
<1>4. outbox' = <<new>> /\ Len(outbox') = 1 /\ outbox'[1] = new /\ outbox' \in Seq(Calls)
    BY <1>1, <1>2 DEF new
<1>5. Sent' = {new} /\ CalledOnce'
    BY <1>4 DEF Sent, CalledOnce
<1>6. Got' = Got /\ InOrder'
    BY <1>1 DEF Sane, InOrder, Got, Follows
<1>7. Types'
    <2>1. status' \in Status
        BY <1>1 DEF Status
    <2> QED
        BY <1>1, <1>4, <2>1, Zenon DEF Sane, Types
<1>8. Early' /\ SentOK' /\ GotOK'
    BY <1>1, <1>2, <1>3, <1>5, <1>6 DEF Early, SentOK, GotOK
<1>9. OneBusy'
    BY <1>1, <1>6, SameBusy DEF Sane, OneBusy
<1>10. CurrentOK' /\ StatusOK' /\ Watched'
    BY <1>1, <1>3, <1>6 DEF CurrentOK, StatusOK, Watched
<1>20. Outstanding'
    BY <1>1, <1>3 DEF Sane, Outstanding
<1> QED
    BY <1>5, <1>6, <1>7, <1>8, <1>9, <1>10, <1>20 DEF Sane

\* DownloadManager[key].
LEMMA OpenStep == ASSUME Sane, Open PROVE Sane'
<1>1. /\ status = "unopened" /\ status' \in IF file THEN {"Complete"} ELSE {"None", "Adopted"}
      /\ row' = row /\ file' = file /\ broadcast' = broadcast /\ inbox' = inbox /\ timer' = timer
      /\ cur' = cur /\ enqueues' = enqueues /\ callbacks' = callbacks /\ checks' = checks
      /\ outbox' = outbox
    BY DEF Open, service
<1>2. /\ ~timer /\ cur = 0 /\ enqueues = 0 /\ callbacks = {} /\ checks = 0
      /\ \A d \in Downloads : row[d] \in {"unused", "removed"}
      /\ \A a \in Got : a.m \in {"setup", "complete"}
      /\ \A c \in Sent : c.m = "setup"
    BY <1>1 DEF Sane, Early
<1>3. ~file /\ status' \in {"None", "Adopted"}
    BY <1>1, <1>2 DEF Sane, OneBusy
<1>4. FailedStay
    BY <1>1 DEF FailedStay
<1>5. Got' = Got /\ Sent' = Sent /\ CalledOnce' /\ InOrder'
    BY <1>1, <1>4, NothingSaid
<1>6. \A a \in Got : FALSE
    <2> SUFFICES ASSUME NEW a \in Got PROVE FALSE
        OBVIOUS
    <2>1. a.m # "setup"
        BY <1>1 DEF Sane, GotOK, SetupOK
    <2>2. a.id \in Downloads /\ row[a.id] \in {"successful", "failed"}
        BY <1>2, <2>1, MessageTypes DEF Sane, GotOK
    <2> QED
        BY <1>2, <2>2
<1>7. \A c \in Sent : FALSE
    BY <1>1, <1>2 DEF Sane, SentOK
<1>8. NoneBusy
    BY <1>2, <1>6 DEF Sane, Types, OneBusy, NoneBusy, Busy, Completing
<1>9. NoneBusy'
    BY <1>1, <1>5, <1>8, SameBusy
<1>10. Types'
    <2>1. status' \in Status
        BY <1>3 DEF Status
    <2> QED
        BY <1>1, <2>1, Zenon DEF Sane, Types
<1>11. Early' /\ SentOK' /\ GotOK'
    BY <1>1, <1>3, <1>5, <1>6, <1>7 DEF Early, SentOK, GotOK
<1>12. OneBusy'
    BY <1>1, <1>5, SameBusy DEF Sane, OneBusy
<1>13. CurrentOK' /\ StatusOK'
    BY <1>1, <1>2, <1>3, <1>9 DEF CurrentOK, StatusOK
<1>14. Watched'
    BY <1>1, <1>2, <1>3, <1>5, <1>6 DEF Watched
<1>20. Outstanding'
    BY <1>1, <1>2 DEF Sane, Outstanding
<1> QED
    BY <1>5, <1>10, <1>11, <1>12, <1>13, <1>14, <1>20 DEF Sane

\* A start finds a row to use.
LEMMA RowLeft ==
    ASSUME Types, Cardinality({d \in Downloads : row[d] # "unused"}) + 0 < MaxStarts
    PROVE  \E d \in Downloads : row[d] = "unused"
<1>1. Cardinality(Downloads) = MaxStarts
    BY DownloadAssumption, FS_Interval DEF Downloads
<1> SUFFICES ASSUME \A d \in Downloads : row[d] # "unused" PROVE FALSE
    OBVIOUS
<1>2. {d \in Downloads : row[d] # "unused"} = Downloads
    OBVIOUS
<1> QED
    BY <1>1, <1>2, DownloadAssumption

\* DownloadItem.start.
LEMMA StartStep == ASSUME Sane, Start PROVE Sane'
<1>1. /\ status = "None" /\ status' = "Downloading" /\ timer' = TRUE
      /\ outbox' = Append(outbox, [m |-> "enqueue"]) /\ enqueues' = enqueues + 1 /\ cur' = 0
      /\ row' = row /\ file' = file /\ broadcast' = broadcast /\ inbox' = inbox
      /\ callbacks' = callbacks /\ checks' = checks
      /\ Cardinality({d \in Downloads : row[d] # "unused"}) + enqueues < MaxStarts
    BY DEF Start, service
<1> DEFINE new == [m |-> "enqueue"]
<1>2. new \in Calls /\ new.m = "enqueue"
    BY DEF Calls
<1> HIDE DEF new
<1>3. NoneBusy /\ enqueues = 0 /\ checks = 0 /\ ~timer
    BY <1>1 DEF Sane, StatusOK
<1>4. \E d \in Downloads : row[d] = "unused"
    BY <1>1, <1>3, RowLeft DEF Sane
<1>5. outbox' \in Seq(Calls) /\ Sent' = Sent \cup {new} /\ CalledOnce'
    <2>1. \A b \in Sent : b.m # "enqueue"
        BY <1>3 DEF Sane, SentOK
    <2>2. outbox' = Append(outbox, new)
        BY <1>1 DEF new
    <2> QED
        BY <1>2, <2>1, <2>2, Sends DEF Sane
<1>6. Got' = Got /\ InOrder'
    BY <1>1 DEF Sane, InOrder, Got, Follows
<1>7. NoneBusy' /\ (NoneFailed' <=> NoneFailed)
    BY <1>1, <1>3, <1>6, SameBusy
<1>8. Types'
    <2>1. status' \in Status /\ enqueues' \in {0, 1} /\ cur' \in 0..MaxStarts /\ timer' \in BOOLEAN
        BY <1>1, <1>3, DownloadAssumption DEF Status
    <2> QED
        BY <1>1, <1>5, <2>1, Zenon DEF Sane, Types
<1>9. Early'
    BY <1>1 DEF Early
<1>10. \A a \in Got : a.m \notin {"setup", "enqueued", "rejected"}
    BY <1>1, <1>3 DEF Sane, GotOK, SetupOK
<1>11. SentOK'
    BY <1>1, <1>2, <1>3, <1>4, <1>5, <1>6, <1>7, <1>10 DEF Sane, SentOK, Replies
<1>12. GotOK'
    BY <1>1, <1>6, <1>10 DEF Sane, GotOK
<1>13. OneBusy'
    BY <1>1, <1>6, SameBusy DEF Sane, OneBusy
<1>14. CurrentOK'
    <2>1. \A d \in callbacks : ~(row[d] = "running" \/ Completing(d)') /\ row[d] # "unused"
        BY <1>1, <1>3, <1>6, SameBusy DEF Sane, Types, CurrentOK, NoneBusy, Busy
    <2> QED
        BY <1>1, <1>3, <2>1 DEF CurrentOK
<1>15. StatusOK'
    BY <1>1 DEF StatusOK
<1>16. Watched'
    <2>1. \A d \in Downloads : row'[d] # "running"
        BY <1>1, <1>3 DEF NoneBusy, Busy
    <2>2. NoneFailed => \A a \in Got : ~(a.m = "state" /\ a.st = "Downloading")
        BY <1>3 DEF Sane, Watched
    <2> QED
        BY <1>1, <1>6, <1>7, <2>1, <2>2 DEF Watched
<1>20. Outstanding'
    BY <1>2, <1>5 DEF Sane, Outstanding
<1> QED
    BY <1>5, <1>6, <1>8, <1>9, <1>11, <1>12, <1>13, <1>14, <1>15, <1>16, <1>20 DEF Sane

\* The timer of _processDownloader ticks.
LEMMA TickStep == ASSUME Sane, Tick PROVE Sane'
<1>1. /\ timer /\ cur # 0 /\ outbox' = Append(outbox, [m |-> "state", id |-> cur])
      /\ row' = row /\ file' = file /\ broadcast' = broadcast /\ inbox' = inbox /\ timer' = timer
      /\ cur' = cur /\ enqueues' = enqueues /\ callbacks' = callbacks /\ checks' = checks
      /\ status' = status
    BY DEF Tick, service, item
<1> DEFINE new == [m |-> "state", id |-> cur]
<1>2. new \in Calls /\ new.m = "state" /\ new.id = cur
    BY <1>1, CurType DEF Sane, Calls
<1> HIDE DEF new
<1>3. outbox' \in Seq(Calls) /\ Sent' = Sent \cup {new} /\ CalledOnce'
    <2>1. outbox' = Append(outbox, new)
        BY <1>1 DEF new
    <2> QED
        BY <1>2, <2>1, Sends DEF Sane
<1>4. Got' = Got /\ InOrder'
    BY <1>1 DEF Sane, InOrder, Got, Follows
<1>5. enqueues # 1 /\ row[cur] # "unused"
    BY <1>1 DEF Sane, CurrentOK
<1>6. /\ \A d : (Completing(d)' <=> Completing(d)) /\ (Busy(d)' <=> Busy(d))
      /\ NoneBusy' <=> NoneBusy
      /\ NoneFailed' <=> NoneFailed
    BY <1>1, <1>4, SameBusy
<1>7. Types'
    BY <1>1, <1>3, Zenon DEF Sane, Types
<1>8. Early'
    BY <1>1 DEF Sane, Early
<1>9. SentOK'
    BY <1>1, <1>2, <1>3, <1>4, <1>5, <1>6 DEF Sane, SentOK
<1>10. GotOK'
    <2>1. ASSUME NEW f, SetupOK(f) PROVE SetupOK(f)'
        BY <1>1, <1>6, <2>1 DEF SetupOK
    <2>2. \A a \in Got : a.m \notin {"enqueued", "rejected"}
        BY <1>5 DEF Sane, GotOK
    <2> QED
        BY <1>1, <1>4, <2>1, <2>2 DEF Sane, GotOK
<1>11. OneBusy' /\ CurrentOK'
    BY <1>1, <1>6 DEF Sane, OneBusy, CurrentOK
<1>12. StatusOK' /\ Watched'
    BY <1>1, <1>4, <1>6 DEF Sane, StatusOK, Watched
<1>20. Outstanding'
    BY <1>1, <1>3, <1>4 DEF Sane, Outstanding
<1> QED
    BY <1>3, <1>4, <1>7, <1>8, <1>9, <1>10, <1>11, <1>12, <1>20 DEF Sane

\* The rest of _checkStatus.
LEMMA CheckStatusStep == ASSUME Sane, CheckStatus PROVE Sane'
<1>1. /\ checks > 0 /\ checks' = checks - 1 /\ status' = IF file THEN "Complete" ELSE "None"
      /\ row' = row /\ file' = file /\ broadcast' = broadcast /\ inbox' = inbox /\ timer' = timer
      /\ cur' = cur /\ enqueues' = enqueues /\ callbacks' = callbacks /\ outbox' = outbox
    BY DEF CheckStatus, service
<1>2. checks = 1 /\ checks' = 0
    BY <1>1 DEF Sane, Types
<1>3. /\ cur # 0 /\ ~timer /\ row[cur] \in {"successful", "failed"} /\ ~Completing(cur)
      /\ enqueues = 0 /\ \A d \in Downloads : Busy(d) => d = cur
    BY <1>2 DEF Sane, Types, CurrentOK
<1>4. cur \in Downloads
    BY <1>3, CurType DEF Sane
<1>5. file <=> row[cur] = "successful"
    BY <1>3, <1>4 DEF Sane, OneBusy, Busy
<1>6. FailedStay
    BY <1>1 DEF FailedStay
<1>7. Got' = Got /\ Sent' = Sent /\ CalledOnce' /\ InOrder'
    BY <1>1, <1>6, NothingSaid
<1>8. /\ \A d : (Completing(d)' <=> Completing(d)) /\ (Busy(d)' <=> Busy(d))
      /\ NoneBusy' <=> NoneBusy
      /\ NoneFailed' <=> NoneFailed
    BY <1>1, <1>7, SameBusy
<1>9. Types'
    <2>1. status' \in Status /\ checks' \in {0, 1}
        BY <1>1, <1>2 DEF Status
    <2> QED
        BY <1>1, <2>1, Zenon DEF Sane, Types
<1>10. status \notin {"dead", "booting", "unopened"} /\ status' \in {"None", "Complete"}
    BY <1>1, <1>2 DEF Sane, Early
<1>11. Early'
    BY <1>10 DEF Early
<1>12. SentOK'
    BY <1>1, <1>7, <1>8, <1>10 DEF Sane, SentOK
<1>13. GotOK'
    <2>1. \A a \in Got : a.m \notin {"setup", "enqueued", "rejected"}
        BY <1>3, <1>10 DEF Sane, GotOK, SetupOK
    <2> QED
        BY <1>1, <1>7, <2>1 DEF Sane, GotOK
<1>14. OneBusy'
    BY <1>1, <1>8 DEF Sane, OneBusy
<1>15. CurrentOK'
    BY <1>1, <1>2, <1>3, <1>8 DEF Sane, CurrentOK
<1>16. StatusOK'
    <2>1. ~file => NoneBusy
        BY <1>3, <1>5 DEF NoneBusy, Busy
    <2> QED
        BY <1>1, <1>2, <1>3, <1>4, <1>5, <1>8, <2>1 DEF StatusOK
<1>17. Watched'
    <2>1. \A d \in Downloads : row[d] # "running"
        BY <1>3 DEF Busy
    <2>2. NoneFailed => \A a \in Got : ~(a.m = "state" /\ a.st = "Downloading")
        BY <1>3 DEF Sane, Watched
    <2> QED
        BY <1>1, <1>3, <1>7, <1>8, <1>10, <2>1, <2>2 DEF Watched
<1>20. Outstanding'
    BY <1>1, <1>7 DEF Sane, Outstanding
<1> QED
    BY <1>7, <1>9, <1>11, <1>12, <1>13, <1>14, <1>15, <1>16, <1>17, <1>20 DEF Sane

\* The program dies: the service and the file stay.
LEMMA CrashStep == ASSUME Sane, Crash PROVE Sane'
<1>1. /\ status' = "dead" /\ timer' = FALSE /\ cur' = 0 /\ enqueues' = 0 /\ callbacks' = {}
      /\ checks' = 0 /\ outbox' = <<>> /\ inbox' = <<>>
      /\ row' = row /\ file' = file /\ broadcast' = broadcast
    BY DEF Crash, service
<1>2. /\ Got' = {} /\ Sent' = {} /\ CalledOnce' /\ InOrder'
      /\ outbox' \in Seq(Calls) /\ inbox' \in Seq(Answers)
    BY <1>1 DEF Got, Sent, CalledOnce, InOrder
<1>3. \A d : Busy(d)' => Busy(d)
    BY <1>1, <1>2 DEF Busy, Completing
<1>4. Types'
    <2>1. /\ row' \in [Downloads -> Rows] /\ broadcast' \subseteq Downloads
          /\ status' \in Status /\ cur' \in 0..MaxStarts /\ enqueues' \in {0, 1}
          /\ callbacks' \subseteq Downloads /\ checks' \in {0, 1}
        BY <1>1, DownloadAssumption DEF Sane, Types, Status
    <2>2. file' \in BOOLEAN /\ timer' \in BOOLEAN
        BY <1>1, Zenon DEF Sane, Types
    <2> QED
        BY <1>2, <2>1, <2>2 DEF Types
<1>5. Early' /\ SentOK' /\ GotOK' /\ StatusOK' /\ Watched'
    BY <1>1, <1>2 DEF Early, SentOK, GotOK, StatusOK, Watched
<1>6. OneBusy'
    BY <1>1, <1>3 DEF Sane, OneBusy
<1>7. CurrentOK'
    BY <1>1 DEF CurrentOK
<1>20. Outstanding'
    BY <1>1 DEF Sane, Outstanding
<1> QED
    BY <1>2, <1>4, <1>5, <1>6, <1>7, <1>20 DEF Sane

-----------------------------------------------------------------------------
(***************************************************************************)
(* The plugin answers.                                                     *)
(***************************************************************************)

\* MethodCallHandler: "setup".
LEMMA OnSetupStep ==
    ASSUME Sane, outbox # <<>>, outbox' = Tail(outbox), Head(outbox).m = "setup", OnSetup,
           UNCHANGED item
    PROVE  Sane'
<1> DEFINE found == [d \in {x \in Downloads : Reported(row[x]) # "None"} |-> Reported(row[d])]
<1>0. PICK f : f = found
    OBVIOUS
<1> DEFINE new == [m |-> "setup", rows |-> f]
<1>1. /\ status' = status /\ timer' = timer /\ cur' = cur /\ enqueues' = enqueues
      /\ callbacks' = callbacks /\ checks' = checks
      /\ row' = row /\ file' = file /\ broadcast' = broadcast
      /\ inbox' = Append(inbox, new)
    BY <1>0 DEF OnSetup, service, item
<1>2. f \in Found
    <2>1. DOMAIN f \in SUBSET Downloads
        BY <1>0
    <2>2. \A d \in DOMAIN f : f[d] \in {"Downloading", "Complete"}
        BY <1>0 DEF Reported
    <2>3. f = [d \in DOMAIN f |-> f[d]]
        BY <1>0
    <2> HIDE DEF found
    <2> QED
        BY <2>1, <2>2, <2>3 DEF Found
<1>3. /\ DOMAIN f \subseteq Downloads
      /\ \A d \in DOMAIN f : /\ row[d] \in {"running", "successful", "failed"}
                             /\ f[d] = "Complete" => row[d] = "successful"
      /\ \A d \in Downloads : d \in DOMAIN f \/ row[d] \in {"unused", "removed"}
    BY <1>0 DEF Reported, Sane, Types, Rows
<1> HIDE DEF found
<1>4. new \in Answers /\ new.m = "setup" /\ new.rows = f
    BY <1>2 DEF Answers
<1> HIDE DEF new
<1>5. /\ outbox' \in Seq(Calls) /\ Head(outbox) \in Sent /\ Sent = Sent' \cup {Head(outbox)}
      /\ CalledOnce' /\ \A c \in Sent' : c.m # "setup"
    BY Takes DEF Sane
<1>6. status = "booting" /\ \A a \in Got : a.m # "setup"
    BY <1>5 DEF Sane, SentOK
<1>7. FailedStay
    BY <1>1 DEF FailedStay
<1>8. inbox' \in Seq(Answers) /\ InOrder' /\ Got' = Got \cup {new}
    <2>1. \A b \in Got : Follows(b, new)'
        BY <1>4, <1>6 DEF Follows, Replies
    <2> QED
        BY <1>1, <1>4, <1>7, <2>1, Answered DEF Sane
<1>9. \A d : (Completing(d)' <=> Completing(d)) /\ (Busy(d)' <=> Busy(d))
    BY <1>1, <1>4, <1>8 DEF Completing, Busy
<1>10. Types'
    BY <1>1, <1>5, <1>8, Zenon DEF Sane, Types
<1>11. Early'
    BY <1>1, <1>4, <1>5, <1>6, <1>8 DEF Sane, Early
<1>12. \A c \in Sent' : FALSE
    BY <1>5, <1>6 DEF Sane, Early
<1>13. SentOK'
    BY <1>12 DEF SentOK
<1>14. SetupOK(f)'
    <2>1. \A d \in DOMAIN f : \A e \in Downloads : Busy(e) => e = d \/ row[d] = "failed"
        BY <1>3 DEF Sane, OneBusy, Busy
    <2> QED
        BY <1>1, <1>3, <1>6, <1>9, <2>1 DEF SetupOK
<1>15. GotOK'
    <2>1. \A a \in Got : a.m = "complete"
        BY <1>6 DEF Sane, Early
    <2> QED
        BY <1>1, <1>4, <1>8, <1>14, <2>1 DEF Sane, GotOK
<1>16. OneBusy' /\ CurrentOK'
    BY <1>1, <1>9 DEF Sane, OneBusy, CurrentOK
<1>17. StatusOK' /\ Outstanding'
    BY <1>1, <1>6 DEF Sane, Early, StatusOK, Outstanding
<1>18. Watched'
    <2>1. enqueues = 0 /\ \A a \in Got' : a.m # "state"
        BY <1>4, <1>6, <1>8 DEF Sane, Early
    <2> QED
        BY <1>1, <1>6, <2>1 DEF Watched
<1> QED
    BY <1>5, <1>8, <1>10, <1>11, <1>13, <1>15, <1>16, <1>17, <1>18 DEF Sane

\* A row to use is the first of them.
LEMMA FirstUnused ==
    ASSUME NEW S \in SUBSET Nat, S # {}
    PROVE  \E x \in S : \A y \in S : x <= y
<1> DEFINE Less == OpToRel(<, Nat)
<1>1. IsWellFoundedOn(Less, Nat)
    BY NatLessThanWellFounded, Zenon
<1>2. Less = {ss \in Nat \X Nat : ss[1] < ss[2]}
    BY Zenon DEF OpToRel
<1> HIDE DEF Less
<1>3. PICK x \in S : \A y \in S : ~(<<y, x>> \in Less)
    BY <1>1, WFMin
<1>4. \A y \in S : x <= y
    <2> TAKE y \in S
    <2>1. <<y, x>> \in Nat \X Nat /\ <<y, x>>[1] = y /\ <<y, x>>[2] = x
        OBVIOUS
    <2>2. ~(<<y, x>>[1] < <<y, x>>[2])
        BY <1>2, <1>3, <2>1, Zenon
    <2> QED
        BY <2>1, <2>2
<1> QED
    BY <1>4

\* MethodCallHandler: "enqueue".
LEMMA OnEnqueueStep ==
    ASSUME Sane, outbox # <<>>, outbox' = Tail(outbox), Head(outbox).m = "enqueue", OnEnqueue,
           UNCHANGED item
    PROVE  Sane'
<1>1. /\ outbox' \in Seq(Calls) /\ Head(outbox) \in Sent /\ Sent = Sent' \cup {Head(outbox)}
      /\ CalledOnce' /\ \A c \in Sent' : c.m # "enqueue"
    BY Takes DEF Sane
<1>2. /\ enqueues = 1 /\ NoneBusy /\ \A a \in Got : a.m \notin Replies
      /\ \E d \in Downloads : row[d] = "unused"
    BY <1>1 DEF Sane, SentOK
<1> DEFINE First(x) == row[x] = "unused" /\ \A y \in Downloads : row[y] = "unused" => x <= y
<1>0. PICK d : d = CHOOSE x \in Downloads : First(x)
    OBVIOUS
<1> DEFINE new == [m |-> "enqueued", id |-> d]
<1>3. d \in Downloads /\ row[d] = "unused"
    <2> DEFINE S == {x \in Downloads : row[x] = "unused"}
    <2>1. S \in SUBSET Nat /\ S # {}
        BY <1>2 DEF Downloads
    <2> HIDE DEF S
    <2>2. PICK x \in S : \A y \in S : x <= y
        BY <2>1, FirstUnused
    <2>3. x \in Downloads /\ First(x)
        BY <2>2 DEF S
    <2> HIDE DEF First
    <2>4. d \in Downloads /\ First(d)
        BY <1>0, <2>3
    <2> QED
        BY <2>4 DEF First
<1>4. /\ status' = status /\ timer' = timer /\ cur' = cur /\ enqueues' = enqueues
      /\ callbacks' = callbacks /\ checks' = checks
      /\ file' = file /\ broadcast' = broadcast
      /\ row' = [row EXCEPT ![d] = "running"] /\ inbox' = Append(inbox, new)
    BY <1>0 DEF OnEnqueue, item
<1> HIDE DEF First
<1>5. new \in Answers /\ new.m = "enqueued" /\ new.id = d
    BY <1>3 DEF Answers
<1> HIDE DEF new
<1>6. /\ row' \in [Downloads -> Rows] /\ row'[d] = "running"
      /\ \A e \in Downloads : e # d => row'[e] = row[e]
    BY <1>3, <1>4 DEF Sane, Types, Rows
<1>7. FailedStay
    BY <1>3, <1>6 DEF FailedStay
<1>8. inbox' \in Seq(Answers) /\ InOrder' /\ Got' = Got \cup {new}
    <2>1. \A b \in Got : Follows(b, new)'
        BY <1>2, <1>5 DEF Follows
    <2> QED
        BY <1>4, <1>5, <1>7, <2>1, Answered DEF Sane
<1>9. \A e \in Downloads : (Completing(e)' <=> Completing(e)) /\ (Busy(e)' <=> e = d)
    <2>1. \A e \in Downloads : Completing(e)' <=> Completing(e)
        BY <1>4, <1>5, <1>8 DEF Completing
    <2> QED
        BY <1>2, <1>6, <2>1 DEF NoneBusy, Busy
<1>10. Types'
    BY <1>1, <1>4, <1>6, <1>8, Zenon DEF Sane, Types
<1>11. status \notin {"dead", "booting", "unopened"}
    BY <1>2 DEF Sane, Early
<1>12. Early'
    BY <1>4, <1>11 DEF Early
<1>13. SentOK'
    <2>1. \A c \in Sent : c.m = "state" => c.id \in Downloads /\ row[c.id] # "unused"
        BY MessageTypes DEF Sane, SentOK
    <2>2. \A c \in Sent : c.m = "state" => row'[c.id] # "unused"
        BY <1>3, <1>6, <2>1
    <2>3. \A c \in Sent : c.m # "setup"
        BY <1>11 DEF Sane, SentOK
    <2> QED
        BY <1>1, <2>2, <2>3 DEF SentOK
<1>14. GotOK'
    <2>1. \A a \in Got : a.m \in {"state", "complete"} /\ a.id \in Downloads /\ a.id # d
        BY <1>2, <1>3, <1>11, MessageTypes DEF Sane, GotOK, SetupOK, Replies
    <2>2. \A a \in Got : /\ row'[a.id] = row[a.id] /\ row[a.id] # "unused"
                         /\ a.m = "state" /\ a.st = "Complete" => row[a.id] = "successful"
                         /\ a.m = "state" /\ a.st = "None" => row[a.id] = "removed"
                         /\ a.m = "complete" => row[a.id] \in {"successful", "failed"} /\ a.id \notin broadcast
        BY <1>6, <2>1 DEF Sane, GotOK
    <2>3. \A c \in Sent : c.m = "state" => c.id # d
        BY <1>3 DEF Sane, SentOK
    <2>4. d \notin callbacks
        BY <1>3 DEF Sane, CurrentOK
    <2>5. \A b \in Got' \cup Sent' : b.m = "state" => b.id # d
        BY <1>1, <1>5, <1>8, <2>1, <2>3
    <2>6. ASSUME NEW a \in Got'
          PROVE  /\ a.m \notin {"setup", "rejected"}
                 /\ a.m = "enqueued" => a.id = d
                 /\ a.m = "state" => /\ row'[a.id] # "unused"
                                     /\ a.st = "Complete" => row'[a.id] = "successful"
                                     /\ a.st = "None" => row'[a.id] = "removed"
                 /\ a.m = "complete" => row'[a.id] \in {"successful", "failed"} /\ a.id \notin broadcast'
        <3>1. CASE a \in Got
            BY <1>4, <2>1, <2>2, <3>1
        <3>2. CASE a = new
            BY <1>5, <3>2
        <3> QED
            BY <1>8, <3>1, <3>2
    <2> QED
        BY <1>2, <1>4, <1>6, <1>9, <2>4, <2>5, <2>6 DEF GotOK
<1>15. OneBusy'
    <2>1. ~file /\ \A e \in Downloads : row[e] # "successful"
        BY <1>2 DEF Sane, OneBusy, NoneBusy, Busy
    <2>2. broadcast = {}
        BY <1>2 DEF Sane, Types, NoneBusy, Busy, Completing
    <2> QED
        BY <1>4, <1>6, <1>9, <2>1, <2>2 DEF OneBusy
<1>16. CurrentOK'
    <2>1. cur = 0 /\ checks = 0
        BY <1>2 DEF Sane, CurrentOK
    <2>2. \A e \in callbacks : /\ e \in Downloads /\ row'[e] = row[e] /\ row[e] # "unused"
                               /\ ~(row[e] = "running" \/ Completing(e)')
        BY <1>2, <1>3, <1>6, <1>9 DEF Sane, Types, CurrentOK, NoneBusy, Busy
    <2> QED
        BY <1>4, <2>1, <2>2 DEF CurrentOK
<1>17. StatusOK'
    BY <1>2, <1>4 DEF Sane, StatusOK, NoneBusy, Busy
<1>18. Watched'
    <2>1. NoneFailed' => NoneFailed
        BY <1>7 DEF NoneFailed, FailedStay
    <2>2. \A e \in Downloads : row'[e] = "running" => e = d
        BY <1>2, <1>6 DEF NoneBusy, Busy
    <2>3. new \in Got'
        BY <1>8
    <2> QED
        BY <1>2, <1>4, <1>5, <1>8, <2>1, <2>2, <2>3 DEF Sane, Watched
<1>19. Outstanding'
    BY <1>5, <1>8 DEF Outstanding, Replies
<1> QED
    BY <1>1, <1>8, <1>10, <1>12, <1>13, <1>14, <1>15, <1>16, <1>17, <1>18, <1>19 DEF Sane

\* MethodCallHandler: "enqueue", which throws.
LEMMA OnRejectStep ==
    ASSUME Sane, outbox # <<>>, outbox' = Tail(outbox), Head(outbox).m = "enqueue", OnReject,
           UNCHANGED item
    PROVE  Sane'
<1> DEFINE new == [m |-> "rejected"]
<1>1. /\ outbox' \in Seq(Calls) /\ Head(outbox) \in Sent /\ Sent = Sent' \cup {Head(outbox)}
      /\ CalledOnce' /\ \A c \in Sent' : c.m # "enqueue"
    BY Takes DEF Sane
<1>2. /\ enqueues = 1 /\ NoneBusy /\ \A a \in Got : a.m \notin Replies
    BY <1>1 DEF Sane, SentOK
<1>3. /\ status' = status /\ timer' = timer /\ cur' = cur /\ enqueues' = enqueues
      /\ callbacks' = callbacks /\ checks' = checks
      /\ row' = row /\ file' = file /\ broadcast' = broadcast
      /\ inbox' = Append(inbox, new)
    BY DEF OnReject, service, item
<1>4. new \in Answers /\ new.m = "rejected" /\ new.m \in Replies
    BY DEF Answers, Replies
<1> HIDE DEF new
<1>5. status \notin {"dead", "booting", "unopened"}
    BY <1>2 DEF Sane, Early
<1>6. FailedStay
    BY <1>3 DEF FailedStay
<1>7. inbox' \in Seq(Answers) /\ InOrder' /\ Got' = Got \cup {new}
    <2>1. \A b \in Got : Follows(b, new)'
        BY <1>2, <1>4 DEF Follows
    <2> QED
        BY <1>3, <1>4, <1>6, <2>1, Answered DEF Sane
<1>8. \A e : (Completing(e)' <=> Completing(e)) /\ (Busy(e)' <=> Busy(e))
    BY <1>3, <1>4, <1>7 DEF Completing, Busy
<1>9. NoneBusy' /\ (NoneFailed' <=> NoneFailed)
    BY <1>2, <1>3, <1>8 DEF NoneBusy, NoneFailed
<1>10. Types'
    BY <1>1, <1>3, <1>7, Zenon DEF Sane, Types
<1>11. Early'
    BY <1>3, <1>5 DEF Early
<1>12. SentOK'
    BY <1>1, <1>3, <1>4, <1>7 DEF Sane, SentOK
<1>13. GotOK'
    <2>1. \A a \in Got : a.m \in {"state", "complete"}
        BY <1>2, <1>5, MessageTypes DEF Sane, GotOK, SetupOK, Replies
    <2> QED
        BY <1>2, <1>3, <1>4, <1>7, <1>9, <2>1 DEF Sane, GotOK
<1>14. OneBusy' /\ CurrentOK'
    BY <1>3, <1>8 DEF Sane, OneBusy, CurrentOK
<1>15. StatusOK'
    BY <1>3, <1>9 DEF Sane, StatusOK
<1>16. Watched'
    BY <1>3, <1>4, <1>7, <1>9 DEF Sane, Watched
<1>17. Outstanding'
    BY <1>4, <1>7 DEF Outstanding
<1> QED
    BY <1>1, <1>7, <1>10, <1>11, <1>12, <1>13, <1>14, <1>15, <1>16, <1>17 DEF Sane

\* MethodCallHandler: "state".
LEMMA OnStateStep ==
    ASSUME Sane, outbox # <<>>, outbox' = Tail(outbox), Head(outbox).m = "state",
           OnState(Head(outbox).id), UNCHANGED item
    PROVE  Sane'
<1>0. PICK d, st : d = Head(outbox).id /\ st = Reported(row[d])
    OBVIOUS
<1> DEFINE new == [m |-> "state", id |-> d, st |-> st]
<1>1. /\ outbox' \in Seq(Calls) /\ Head(outbox) \in Sent /\ Sent = Sent' \cup {Head(outbox)}
      /\ CalledOnce'
    BY Takes DEF Sane
<1>2. d \in Downloads /\ row[d] # "unused"
    BY <1>0, <1>1, MessageTypes DEF Sane, SentOK
<1>3. /\ status' = status /\ timer' = timer /\ cur' = cur /\ enqueues' = enqueues
      /\ callbacks' = callbacks /\ checks' = checks
      /\ row' = row /\ file' = file /\ broadcast' = broadcast
      /\ inbox' = Append(inbox, new)
    BY <1>0 DEF OnState, service, item
<1>4. /\ st \in Shows
      /\ st = "Complete" => row[d] = "successful"
      /\ st = "Downloading" => row[d] \in {"running", "failed"}
      /\ st = "None" => row[d] = "removed"
    BY <1>0, <1>2 DEF Sane, Types, Rows, Reported, Shows
<1>5. /\ status \notin {"dead", "booting", "unopened"}
      /\ \A a \in Got : a.m = "enqueued" => a.id # d
    BY <1>0, <1>1 DEF Sane, Early, GotOK
<1>6. new \in Answers /\ new.m = "state" /\ new.id = d /\ new.st = st
    BY <1>2, <1>4 DEF Answers
<1> HIDE DEF new
<1>7. FailedStay
    BY <1>3 DEF FailedStay
<1>8. inbox' \in Seq(Answers) /\ InOrder' /\ Got' = Got \cup {new}
    <2>1. \A b \in Got : Follows(b, new)'
        <3> SUFFICES ASSUME NEW b \in Got PROVE Follows(b, new)'
            OBVIOUS
        <3>1. Ends(b, d) => row[d] \in {"successful", "failed", "removed"}
            BY MessageTypes DEF Ends, Sane, GotOK, Shows
        <3>2. Ends(b, d)' <=> Ends(b, d)
            BY DEF Ends
        <3> QED
            BY <1>3, <1>4, <1>6, <3>1, <3>2 DEF Follows, Replies
    <2> QED
        BY <1>3, <1>6, <1>7, <2>1, Answered DEF Sane
<1>9. \A e : (Completing(e)' <=> Completing(e)) /\ (Busy(e)' <=> Busy(e))
    BY <1>3, <1>6, <1>8 DEF Completing, Busy
<1>10. (NoneBusy' <=> NoneBusy) /\ (NoneFailed' <=> NoneFailed)
    BY <1>3, <1>9 DEF NoneBusy, NoneFailed
<1>11. Types'
    BY <1>1, <1>3, <1>8, Zenon DEF Sane, Types
<1>12. Early'
    BY <1>3, <1>5 DEF Early
<1>13. SentOK'
    BY <1>1, <1>3, <1>6, <1>8, <1>10 DEF Sane, SentOK, Replies
<1>14. GotOK'
    <2>1. \A a \in Got : a.m # "setup"
        BY <1>5 DEF Sane, GotOK, SetupOK
    <2>2. ASSUME NEW a \in Got, a.m = "enqueued"
          PROVE  /\ enqueues' = 1 /\ row'[a.id] # "unused"
                 /\ \A e \in Downloads : Busy(e)' => e = a.id
                 /\ \A b \in Got' \cup Sent' : b.m = "state" => b.id # a.id
                 /\ a.id \notin callbacks'
        BY <1>1, <1>3, <1>5, <1>6, <1>8, <1>9, <2>2 DEF Sane, GotOK
    <2>3. \A a \in Got : /\ a.m = "state" => /\ row'[a.id] # "unused"
                                             /\ a.st = "Complete" => row'[a.id] = "successful"
                                             /\ a.st = "None" => row'[a.id] = "removed"
                         /\ a.m = "complete" => row'[a.id] \in {"successful", "failed"} /\ a.id \notin broadcast'
        BY <1>3 DEF Sane, GotOK
    <2>4. /\ new.m = "state" /\ row'[new.id] # "unused"
          /\ new.st = "Complete" => row'[new.id] = "successful"
          /\ new.st = "None" => row'[new.id] = "removed"
        BY <1>2, <1>3, <1>4, <1>6
    <2>5. ASSUME NEW a \in Got'
          PROVE  /\ a.m # "setup"
                 /\ a.m \in {"enqueued", "rejected"} => a \in Got
                 /\ a.m = "state" => /\ row'[a.id] # "unused"
                                     /\ a.st = "Complete" => row'[a.id] = "successful"
                                     /\ a.st = "None" => row'[a.id] = "removed"
                 /\ a.m = "complete" => row'[a.id] \in {"successful", "failed"} /\ a.id \notin broadcast'
        <3>1. CASE a \in Got
            BY <2>1, <2>3, <3>1
        <3>2. CASE a = new
            BY <2>4, <3>2
        <3> QED
            BY <1>8, <3>1, <3>2
    <2>6. ASSUME NEW a \in Got, a.m = "rejected" PROVE enqueues' = 1 /\ NoneBusy'
        BY <1>3, <1>10, <2>6 DEF Sane, GotOK
    <2> QED
        BY <2>2, <2>5, <2>6 DEF GotOK
<1>15. OneBusy' /\ CurrentOK'
    BY <1>3, <1>9 DEF Sane, OneBusy, CurrentOK
<1>16. StatusOK'
    BY <1>3, <1>10 DEF Sane, StatusOK
<1>17. Watched'
    <2>1. NoneFailed /\ st = "Downloading" => row[d] = "running"
        BY <1>2, <1>4 DEF NoneFailed
    <2>2. NoneFailed /\ st = "Downloading" => d = cur /\ timer /\ status = "Downloading"
        BY <1>2, <1>5, <2>1 DEF Sane, Watched
    <2> QED
        BY <1>3, <1>6, <1>8, <1>10, <2>2 DEF Sane, Watched
<1>18. Outstanding'
    BY <1>1, <1>3, <1>8 DEF Sane, Outstanding
<1> QED
    BY <1>1, <1>8, <1>11, <1>12, <1>13, <1>14, <1>15, <1>16, <1>17, <1>18 DEF Sane

\* MethodCallHandler.
LEMMA OnMethodCallStep == ASSUME Sane, OnMethodCall PROVE Sane'
BY OnSetupStep, OnEnqueueStep, OnRejectStep, OnStateStep DEF OnMethodCall

-----------------------------------------------------------------------------
(***************************************************************************)
(* The item hears an answer.                                               *)
(***************************************************************************)

\* What hearing any answer does.
LEMMA Heard ==
    ASSUME Sane, Receive, NEW a, a = Head(inbox)
    PROVE  /\ row' = row /\ file' = file /\ broadcast' = broadcast /\ outbox' = outbox
           /\ Sent' = Sent /\ CalledOnce' /\ inbox' \in Seq(Answers) /\ InOrder' /\ OneBusy'
           /\ a \in Got /\ Got = Got' \cup {a} /\ \A b \in Got' : Follows(a, b)
           /\ \A e : (Completing(e)' => Completing(e)) /\ (Busy(e)' => Busy(e))
           /\ NoneFailed' <=> NoneFailed
           /\ a.m # "complete" => \A e : Completing(e) => Completing(e)'
<1>1. /\ row' = row /\ file' = file /\ broadcast' = broadcast /\ outbox' = outbox
      /\ inbox # <<>> /\ inbox' = Tail(inbox)
    BY DEF Receive, service
<1>2. Sent' = Sent /\ CalledOnce'
    BY <1>1 DEF Sane, Sent, CalledOnce
<1>3. /\ inbox' \in Seq(Answers) /\ InOrder' /\ a \in Got /\ Got = Got' \cup {a}
      /\ \A b \in Got' : Follows(a, b)
    BY <1>1, Hears DEF Sane
<1>4. /\ \A e : (Completing(e)' => Completing(e)) /\ (Busy(e)' => Busy(e))
      /\ a.m # "complete" => \A e : Completing(e) => Completing(e)'
    BY <1>1, <1>3 DEF Completing, Busy
<1>5. NoneFailed' <=> NoneFailed
    BY <1>1 DEF NoneFailed
<1>6. OneBusy'
    BY <1>1, <1>4 DEF Sane, OneBusy
<1> QED
    BY <1>1, <1>2, <1>3, <1>4, <1>5, <1>6

\* DownloadManager.setup and DownloadItem._setup.
LEMMA HearSetup ==
    ASSUME Sane, Receive, NEW a, a = Head(inbox), a.m = "setup",
           SetupItems(a.rows), UNCHANGED <<enqueues, checks>>
    PROVE  Sane'
<1>1. /\ row' = row /\ file' = file /\ broadcast' = broadcast /\ outbox' = outbox
      /\ Sent' = Sent /\ CalledOnce' /\ inbox' \in Seq(Answers) /\ InOrder' /\ OneBusy'
      /\ a \in Got /\ Got = Got' \cup {a} /\ \A b \in Got' : Follows(a, b)
      /\ \A e : (Completing(e)' => Completing(e)) /\ (Busy(e)' => Busy(e))
      /\ NoneFailed' <=> NoneFailed
    BY Heard
<1>2. enqueues' = enqueues /\ checks' = checks
    OBVIOUS
<1>3. SetupOK(a.rows) /\ a.rows \in Found /\ status = "booting"
    BY <1>1, MessageTypes DEF Sane, GotOK, SetupOK
<1>4. /\ ~timer /\ cur = 0 /\ enqueues = 0 /\ callbacks = {} /\ checks = 0
      /\ \A b \in Got : b.m \in {"setup", "complete"}
      /\ \A c \in Sent : FALSE
    BY <1>1, <1>3 DEF Sane, Early, SentOK
<1>5. \A b \in Got' : b.m = "complete"
    BY <1>1, <1>4 DEF Follows
<1>6. SentOK' /\ GotOK' /\ Outstanding'
    <2>1. \A b \in Got' : row'[b.id] \in {"successful", "failed"} /\ b.id \notin broadcast'
        BY <1>1, <1>5 DEF Sane, GotOK
    <2> QED
        BY <1>1, <1>2, <1>4, <1>5, <2>1 DEF SentOK, GotOK, Outstanding
<1>7. CASE DOMAIN a.rows = {}
    <2>1. status' = "unopened" /\ timer' = timer /\ cur' = cur /\ callbacks' = callbacks
        BY <1>7 DEF SetupItems
    <2>2. \A d \in Downloads : row[d] \in {"unused", "removed"}
        BY <1>3, <1>7 DEF SetupOK
    <2>3. Types'
        <3>1. status' \in Status
            BY <2>1 DEF Status
        <3> QED
            BY <1>1, <1>2, <2>1, <3>1, Zenon DEF Sane, Types
    <2>4. Early'
        BY <1>1, <1>2, <1>4, <1>5, <2>1, <2>2 DEF Early
    <2>5. CurrentOK' /\ StatusOK'
        BY <1>2, <1>4, <2>1 DEF CurrentOK, StatusOK
    <2>6. Watched'
        BY <1>1, <1>2, <1>4, <1>5, <2>1, <2>2 DEF Watched
    <2> QED
        BY <1>1, <1>6, <2>3, <2>4, <2>5, <2>6 DEF Sane
<1>8. CASE DOMAIN a.rows # {}
    <2>1. PICK d \in DOMAIN a.rows :
             /\ cur' = d /\ status' = a.rows[d] /\ timer' = (a.rows[d] = "Downloading")
             /\ callbacks' = IF a.rows[d] = "Downloading" THEN {d} ELSE {}
        BY <1>8 DEF SetupItems
    <2>2. d \in Downloads /\ a.rows[d] \in {"Downloading", "Complete"}
        BY <1>3 DEF Found
    <2>3. /\ row[d] # "unused" /\ (a.rows[d] = "Complete" => row[d] = "successful")
          /\ \A e \in Downloads : Busy(e) => e = d \/ row[d] = "failed"
        BY <1>3 DEF SetupOK
    <2>4. Types'
        <3>1. /\ status' \in Status /\ cur' \in 0..MaxStarts /\ enqueues' \in {0, 1}
              /\ callbacks' \subseteq Downloads /\ checks' \in {0, 1}
            BY <1>2, <1>4, <2>1, <2>2 DEF Status, Downloads
        <3>2. timer' \in BOOLEAN
            BY <2>1
        <3> QED
            BY <1>1, <3>1, <3>2, Zenon DEF Sane, Types
    <2>5. Early'
        BY <2>1, <2>2 DEF Early
    <2>6. CurrentOK'
        BY <1>1, <1>2, <1>4, <2>1, <2>3 DEF CurrentOK
    <2>7. StatusOK'
        BY <1>1, <2>1, <2>2, <2>3 DEF StatusOK
    <2>8. Watched'
        <3>1. NoneFailed => \A e \in Downloads : row[e] = "running" =>
                                e = d /\ a.rows[d] = "Downloading"
            BY <2>2, <2>3 DEF NoneFailed, Busy
        <3>2. status' = "Downloading" => timer'
            BY <2>1
        <3>3. a.rows[d] = "Downloading" => cur' = d /\ timer' /\ status' = "Downloading"
            BY <2>1
        <3> QED
            BY <1>1, <1>2, <1>4, <1>5, <3>1, <3>2, <3>3 DEF Watched
    <2> QED
        BY <1>1, <1>6, <2>4, <2>5, <2>6, <2>7, <2>8 DEF Sane
<1> QED
    BY <1>7, <1>8

\* The answer to enqueue.
LEMMA HearEnqueued ==
    ASSUME Sane, Receive, NEW a, a = Head(inbox), a.m = "enqueued", Enqueued(a.id)
    PROVE  Sane'
<1>1. /\ row' = row /\ file' = file /\ broadcast' = broadcast /\ outbox' = outbox
      /\ Sent' = Sent /\ CalledOnce' /\ inbox' \in Seq(Answers) /\ InOrder' /\ OneBusy'
      /\ a \in Got /\ Got = Got' \cup {a} /\ \A b \in Got' : Follows(a, b)
      /\ \A e : (Completing(e)' => Completing(e)) /\ (Busy(e)' => Busy(e))
      /\ NoneFailed' <=> NoneFailed
    BY Heard
<1>2. /\ enqueues = 1 /\ row[a.id] # "unused" /\ a.id \in Downloads
      /\ \A d \in Downloads : Busy(d) => d = a.id
      /\ cur = 0 /\ checks = 0
    BY <1>1, MessageTypes DEF Sane, GotOK, CurrentOK
<1>3. /\ enqueues' = 0 /\ cur' = a.id /\ callbacks' = callbacks \cup {a.id}
      /\ status' = status /\ timer' = timer /\ checks' = checks
    BY <1>2 DEF Enqueued
<1>4. a.id # 0
    BY <1>2 DEF Downloads
<1>5. status \notin {"dead", "booting", "unopened"}
    BY <1>2 DEF Sane, Early
<1>6. \A b \in Got' : b \in Got /\ b.m \notin Replies /\ b.m # "setup"
    <2>1. \A b \in Got' : b.m \notin Replies
        BY <1>1 DEF Follows, Replies
    <2>2. \A b \in Got : b.m # "setup"
        BY <1>5 DEF Sane, GotOK, SetupOK
    <2> QED
        BY <1>1, <2>1, <2>2
<1>7. Types'
    <2>1. cur' \in 0..MaxStarts /\ enqueues' \in {0, 1}
        BY <1>2, <1>3, DownloadAssumption DEF Downloads
    <2>2. callbacks' \subseteq Downloads
        BY <1>2, <1>3 DEF Sane, Types
    <2> QED
        BY <1>1, <1>3, <2>1, <2>2, Zenon DEF Sane, Types
<1>8. Early'
    BY <1>3, <1>5 DEF Early
<1>9. SentOK'
    <2>1. \A c \in Sent : c.m \notin {"setup", "enqueue"}
        BY <1>1, <1>5 DEF Sane, SentOK, Replies
    <2> QED
        BY <1>1, <2>1 DEF Sane, SentOK
<1>10. GotOK'
    BY <1>1, <1>6 DEF Sane, GotOK, Replies
<1>11. CurrentOK'
    <2>1. \A e \in callbacks : row[e] # "unused" /\ (row[e] = "running" \/ Completing(e) => e = a.id)
        BY <1>2 DEF Sane, Types, CurrentOK, Busy
    <2> QED
        BY <1>1, <1>2, <1>3, <2>1 DEF CurrentOK
<1>12. StatusOK'
    BY <1>1, <1>2, <1>3 DEF Sane, StatusOK
<1>13. Watched'
    <2> SUFFICES ASSUME NoneFailed PROVE Watched'
        BY <1>1 DEF Watched
    <2>1. status = "Downloading" /\ timer
        BY <1>2 DEF Sane, Watched
    <2>2. \A e \in Downloads : row[e] = "running" => e = a.id
        BY <1>2 DEF Busy
    <2>3. \A b \in Got : ~(b.m = "state" /\ b.st = "Downloading")
        <3>1. \A b \in Got : b.m = "state" => b.id # 0
            BY MessageTypes DEF Sane, Downloads
        <3> QED
            BY <1>2, <3>1 DEF Sane, Watched
    <2> QED
        BY <1>1, <1>3, <1>6, <2>1, <2>2, <2>3 DEF Watched
<1>14. Outstanding'
    BY <1>3 DEF Outstanding
<1> QED
    BY <1>1, <1>7, <1>8, <1>9, <1>10, <1>11, <1>12, <1>13, <1>14 DEF Sane

\* The error from enqueue.
LEMMA HearRejected ==
    ASSUME Sane, Receive, NEW a, a = Head(inbox), a.m = "rejected", Rejected
    PROVE  Sane'
<1>1. /\ row' = row /\ file' = file /\ broadcast' = broadcast /\ outbox' = outbox
      /\ Sent' = Sent /\ CalledOnce' /\ inbox' \in Seq(Answers) /\ InOrder' /\ OneBusy'
      /\ a \in Got /\ Got = Got' \cup {a} /\ \A b \in Got' : Follows(a, b)
      /\ \A e : (Completing(e)' => Completing(e)) /\ (Busy(e)' => Busy(e))
      /\ NoneFailed' <=> NoneFailed
    BY Heard
<1>2. enqueues = 1 /\ NoneBusy /\ cur = 0 /\ checks = 0
    BY <1>1 DEF Sane, GotOK, CurrentOK
<1>3. /\ enqueues' = 0 /\ cur' = cur /\ callbacks' = callbacks
      /\ status' = status /\ timer' = timer /\ checks' = checks
    BY <1>2 DEF Rejected
<1>4. status \notin {"dead", "booting", "unopened"}
    BY <1>2 DEF Sane, Early
<1>5. \A b \in Got' : b \in Got /\ b.m \notin Replies /\ b.m # "setup"
    <2>1. \A b \in Got' : b.m \notin Replies
        BY <1>1 DEF Follows, Replies
    <2>2. \A b \in Got : b.m # "setup"
        BY <1>4 DEF Sane, GotOK, SetupOK
    <2> QED
        BY <1>1, <2>1, <2>2
<1>6. Types'
    <2>1. enqueues' \in {0, 1}
        BY <1>3
    <2> QED
        BY <1>1, <1>3, <2>1, Zenon DEF Sane, Types
<1>7. Early'
    BY <1>3, <1>4 DEF Early
<1>8. SentOK'
    <2>1. \A c \in Sent : c.m \notin {"setup", "enqueue"}
        BY <1>1, <1>4 DEF Sane, SentOK, Replies
    <2> QED
        BY <1>1, <2>1 DEF Sane, SentOK
<1>9. GotOK'
    BY <1>1, <1>5 DEF Sane, GotOK, Replies
<1>10. CurrentOK'
    BY <1>1, <1>2, <1>3 DEF Sane, CurrentOK
<1>11. StatusOK'
    BY <1>1, <1>2, <1>3 DEF Sane, StatusOK
<1>12. Watched'
    <2>1. \A e \in Downloads : row[e] # "running"
        BY <1>2 DEF NoneBusy, Busy
    <2> QED
        BY <1>1, <1>2, <1>3, <1>5, <2>1 DEF Sane, Watched
<1>13. Outstanding'
    BY <1>3 DEF Outstanding
<1> QED
    BY <1>1, <1>6, <1>7, <1>8, <1>9, <1>10, <1>11, <1>12, <1>13 DEF Sane

\* The answer to a poll, unless it takes another download for the item's.
LEMMA HearState ==
    ASSUME Sane, Receive, ~mistaken', NEW a, a = Head(inbox), a.m = "state", Polled(a.st)
    PROVE  Sane'
<1>1. /\ row' = row /\ file' = file /\ broadcast' = broadcast /\ outbox' = outbox
      /\ Sent' = Sent /\ CalledOnce' /\ inbox' \in Seq(Answers) /\ InOrder' /\ OneBusy'
      /\ a \in Got /\ Got = Got' \cup {a} /\ \A b \in Got' : Follows(a, b)
      /\ \A e : (Completing(e)' => Completing(e)) /\ (Busy(e)' => Busy(e))
      /\ NoneFailed' <=> NoneFailed
      /\ \A e : Completing(e) => Completing(e)'
    BY Heard
<1>2. /\ status' = a.st /\ timer' = (timer /\ a.st = "Downloading") /\ cur' = cur
      /\ enqueues' = enqueues /\ callbacks' = callbacks /\ checks' = checks
    BY DEF Polled
<1>3. a.st = "None" => a.id = cur
    BY DEF Receive
<1>4. /\ a.id \in Downloads /\ a.st \in Shows /\ row[a.id] # "unused"
      /\ a.st = "Complete" => row[a.id] = "successful"
      /\ a.st = "None" => row[a.id] = "removed"
    BY <1>1, MessageTypes DEF Sane, GotOK
<1>5. status \notin {"dead", "booting", "unopened"}
    BY <1>1 DEF Sane, Early
<1>6. a.st = "Complete" => enqueues = 0
    <2>1. ASSUME a.st = "Complete", enqueues = 1 PROVE FALSE
        <3>1. Busy(a.id)
            BY <1>4, <2>1 DEF Busy
        <3>2. \A c \in Sent : c.m # "enqueue"
            BY <1>4, <3>1 DEF Sane, SentOK, NoneBusy
        <3>3. \A b \in Got : b.m \notin Replies
            BY <1>1, <1>4, <3>1 DEF Sane, GotOK, NoneBusy, Replies
        <3> QED
            BY <2>1, <3>2, <3>3 DEF Sane, Outstanding
    <2> QED
        BY <2>1 DEF Sane, Types
<1>7. a.st = "None" => NoneBusy /\ enqueues = 0 /\ checks = 0
    <2> SUFFICES ASSUME a.st = "None" PROVE NoneBusy /\ enqueues = 0 /\ checks = 0
        OBVIOUS
    <2>1. cur = a.id /\ cur # 0 /\ row[cur] = "removed"
        BY <1>3, <1>4 DEF Downloads
    <2>2. ~Completing(cur)
        BY <2>1 DEF Sane, OneBusy, GotOK, Completing
    <2>3. enqueues = 0 /\ checks = 0
        BY <2>1 DEF Sane, Types, CurrentOK
    <2>4. NoneBusy
        BY <2>1, <2>2 DEF Sane, CurrentOK, NoneBusy, Busy
    <2> QED
        BY <2>3, <2>4
<1>8. Types'
    <2>1. status' \in Status
        BY <1>2, <1>4 DEF Status, Shows
    <2>2. timer' \in BOOLEAN
        BY <1>2
    <2> QED
        BY <1>1, <1>2, <2>1, <2>2, Zenon DEF Sane, Types
<1>9. Early'
    BY <1>2, <1>4 DEF Early, Shows
<1>10. SentOK'
    <2>1. \A c \in Sent : c.m # "setup"
        BY <1>5 DEF Sane, SentOK
    <2> QED
        BY <1>1, <1>2, <2>1 DEF Sane, SentOK, NoneBusy
<1>11. GotOK'
    <2>1. \A b \in Got : b.m # "setup"
        BY <1>5 DEF Sane, GotOK, SetupOK
    <2> QED
        BY <1>1, <1>2, <2>1 DEF Sane, GotOK, NoneBusy
<1>12. CurrentOK'
    <2>1. cur # 0 => cur \in Downloads
        BY CurType DEF Sane
    <2> QED
        BY <1>1, <1>2, <2>1 DEF Sane, CurrentOK
<1>13. StatusOK'
    BY <1>1, <1>2, <1>4, <1>7 DEF StatusOK, NoneBusy
<1>14. Watched'
    <2> SUFFICES ASSUME NoneFailed PROVE Watched'
        BY <1>1 DEF Watched
    <2>1. \A b \in Got' : b \in Got /\ (b.m = "state" /\ b.st = "Downloading" => ~Ends(a, b.id))
        <3>1. \A b \in Got' : b \in Got /\ (b.m = "state" => b.id \in Downloads)
            BY <1>1, MessageTypes DEF Sane
        <3> QED
            BY <1>1, <3>1 DEF Follows, NoneFailed
    <2>2. \A b \in Got : b.m = "enqueued" => b \in Got'
        BY <1>1
    <2>3. CASE a.st = "Downloading"
        <3>1. timer /\ status = "Downloading"
            BY <1>1, <2>3 DEF Sane, Watched
        <3>2. status' = status /\ timer'
            BY <1>2, <2>3, <3>1
        <3> QED
            BY <1>1, <1>2, <2>1, <2>2, <3>1, <3>2 DEF Sane, Watched
    <2>4. CASE a.st = "Complete"
        <3>1. Busy(a.id) /\ \A e \in Downloads : row[e] # "running"
            BY <1>4, <2>4 DEF Sane, OneBusy, Busy
        <3>2. \A b \in Got' : ~(b.m = "state" /\ b.st = "Downloading")
            <4> SUFFICES ASSUME NEW b \in Got', b.m = "state", b.st = "Downloading" PROVE FALSE
                OBVIOUS
            <4>1. b \in Got /\ b.id \in Downloads /\ b.id = cur
                BY <2>1, MessageTypes DEF Sane, Watched
            <4>2. cur # 0 /\ row[cur] # "failed"
                BY <4>1 DEF Downloads, NoneFailed
            <4>3. a.id = b.id
                BY <1>4, <3>1, <4>1, <4>2 DEF Sane, CurrentOK
            <4> QED
                BY <2>1, <2>4, <4>3 DEF Ends
        <3> QED
            BY <1>1, <1>2, <1>6, <2>4, <3>1, <3>2 DEF Watched
    <2>5. CASE a.st = "None"
        <3>1. \A e \in Downloads : row[e] # "running"
            BY <1>7, <2>5 DEF NoneBusy, Busy
        <3>2. \A b \in Got' : ~(b.m = "state" /\ b.st = "Downloading")
            BY <1>3, <2>1, <2>5 DEF Sane, Watched, Ends
        <3> QED
            BY <1>1, <1>2, <1>7, <2>5, <3>1, <3>2 DEF Watched
    <2> QED
        BY <1>4, <2>3, <2>4, <2>5 DEF Shows
<1>15. Outstanding'
    BY <1>1, <1>2 DEF Sane, Outstanding, Replies
<1> QED
    BY <1>1, <1>8, <1>9, <1>10, <1>11, <1>12, <1>13, <1>14, <1>15 DEF Sane

\* _methodHandler and _checkStatus up to its await.
LEMMA HearComplete ==
    ASSUME Sane, Receive, NEW a, a = Head(inbox), a.m = "complete", Completed(a.id)
    PROVE  Sane'
<1>1. /\ row' = row /\ file' = file /\ broadcast' = broadcast /\ outbox' = outbox
      /\ Sent' = Sent /\ CalledOnce' /\ inbox' \in Seq(Answers) /\ InOrder' /\ OneBusy'
      /\ a \in Got /\ Got = Got' \cup {a} /\ \A b \in Got' : Follows(a, b)
      /\ \A e : (Completing(e)' => Completing(e)) /\ (Busy(e)' => Busy(e))
      /\ NoneFailed' <=> NoneFailed
    BY Heard
<1>2. /\ a.id \in Downloads /\ row[a.id] \in {"successful", "failed"} /\ a.id \notin broadcast
      /\ Completing(a.id) /\ Busy(a.id)
    BY <1>1, MessageTypes DEF Sane, GotOK, Completing, Busy
<1>3. /\ status' = status /\ cur' = cur /\ enqueues' = enqueues /\ callbacks' = callbacks
      /\ \/ a.id \notin callbacks /\ timer' = timer /\ checks' = checks
         \/ a.id \in callbacks /\ timer' = FALSE /\ checks' = checks + 1
    BY DEF Completed, item
<1>4. /\ \A b \in Got' : b \in Got
      /\ \A b \in Got : b.m # "complete" => b \in Got'
    BY <1>1
<1>5. a.id \in callbacks => /\ a.id = cur /\ cur # 0 /\ checks = 0 /\ enqueues = 0
                            /\ status \notin {"dead", "booting", "unopened", "None"}
    <2> SUFFICES ASSUME a.id \in callbacks
                 PROVE  /\ a.id = cur /\ cur # 0 /\ checks = 0 /\ enqueues = 0
                        /\ status \notin {"dead", "booting", "unopened", "None"}
        OBVIOUS
    <2>1. a.id = cur /\ cur # 0
        BY <1>2 DEF Sane, CurrentOK, Downloads
    <2>2. checks = 0 /\ enqueues = 0
        BY <1>2, <2>1 DEF Sane, Types, CurrentOK
    <2>3. status \notin {"dead", "booting", "unopened", "None"}
        BY <1>2, <2>1 DEF Sane, Early, StatusOK, NoneBusy
    <2> QED
        BY <2>1, <2>2, <2>3
<1>6. Types'
    <2>1. checks' \in {0, 1} /\ timer' \in BOOLEAN
        <3>1. CASE a.id \in callbacks
            <4>1. timer' = FALSE /\ checks' = 1
                BY <1>3, <1>5, <3>1
            <4> QED
                BY <4>1, Zenon
        <3>2. CASE a.id \notin callbacks
            <4>1. timer' = timer /\ checks' = checks
                BY <1>3, <3>2
            <4> QED
                BY <4>1, Zenon DEF Sane, Types
        <3> QED
            BY <3>1, <3>2
    <2> QED
        BY <1>1, <1>3, <2>1, Zenon DEF Sane, Types
<1>7. Early'
    <2>1. status \in {"dead", "booting", "unopened"} => timer' = timer /\ checks' = checks
        BY <1>3, <1>5
    <2> QED
        BY <1>1, <1>3, <1>4, <2>1 DEF Sane, Early
<1>8. SentOK'
    BY <1>1, <1>3, <1>4 DEF Sane, SentOK, NoneBusy
<1>9. GotOK'
    <2>1. ASSUME NEW f, SetupOK(f) PROVE SetupOK(f)'
        BY <1>1, <1>3, <2>1 DEF SetupOK
    <2> QED
        BY <1>1, <1>3, <1>4, <2>1 DEF Sane, GotOK, NoneBusy
<1>10. CurrentOK'
    <2>1. cur # 0 => cur \in Downloads
        BY CurType DEF Sane
    <2>2. CASE a.id \notin callbacks
        BY <1>1, <1>3, <2>1, <2>2 DEF Sane, CurrentOK
    <2>3. CASE a.id \in callbacks
        <3>1. ~Completing(cur)'
            <4>1. \A b \in Got' : ~(b.m = "complete" /\ b.id = a.id)
                BY <1>1 DEF Follows
            <4> QED
                BY <1>1, <1>2, <1>3, <1>5, <2>3, <4>1 DEF Completing
        <3>2. \A e \in Downloads : Busy(e) => e = cur
            BY <1>2, <1>5, <2>3 DEF Sane, OneBusy
        <3>3. /\ row[cur] \in {"successful", "failed"} /\ checks' = 1 /\ ~timer' /\ cur # 0
            BY <1>2, <1>3, <1>5, <2>3
        <3> QED
            BY <1>1, <1>3, <1>5, <2>1, <2>3, <3>1, <3>2, <3>3 DEF Sane, CurrentOK
    <2> QED
        BY <2>2, <2>3
<1>11. StatusOK'
    <2>1. status = "None" => timer' = timer /\ checks' = checks
        BY <1>3, <1>5
    <2> QED
        BY <1>1, <1>3, <2>1 DEF Sane, StatusOK, NoneBusy
<1>12. Watched'
    <2> SUFFICES ASSUME NoneFailed PROVE Watched'
        BY <1>1 DEF Watched
    <2>1. CASE a.id \notin callbacks
        BY <1>1, <1>3, <1>4, <2>1 DEF Sane, Watched
    <2>2. CASE a.id \in callbacks
        <3>1. \A e \in Downloads : row[e] # "running"
            BY <1>2 DEF Sane, OneBusy, Busy
        <3>2. \A b \in Got' : ~(b.m = "state" /\ b.st = "Downloading")
            <4> SUFFICES ASSUME NEW b \in Got', b.m = "state", b.st = "Downloading" PROVE FALSE
                OBVIOUS
            <4>1. b.id = a.id
                BY <1>4, <1>5, <2>2 DEF Sane, Watched
            <4> QED
                BY <1>1, <1>2, <4>1 DEF Follows, Ends, NoneFailed
        <3> QED
            BY <1>1, <1>3, <1>5, <2>2, <3>1, <3>2 DEF Watched
    <2> QED
        BY <2>1, <2>2
<1>13. Outstanding'
    BY <1>1, <1>3, <1>4 DEF Sane, Outstanding, Replies
<1> QED
    BY <1>1, <1>6, <1>7, <1>8, <1>9, <1>10, <1>11, <1>12, <1>13 DEF Sane

\* An answer that is not mistaken for one about another download.
LEMMA ReceiveStep == ASSUME Sane, Receive, ~mistaken' PROVE Sane'
<1>1. PICK a : a = Head(inbox)
    OBVIOUS
<1>2. \/ a.m = "setup" /\ SetupItems(a.rows) /\ UNCHANGED <<enqueues, checks>>
      \/ a.m = "enqueued" /\ Enqueued(a.id)
      \/ a.m = "rejected" /\ Rejected
      \/ a.m = "state" /\ Polled(a.st)
      \/ a.m = "complete" /\ Completed(a.id)
    BY <1>1 DEF Receive
<1> QED
    BY <1>1, <1>2, HearSetup, HearEnqueued, HearRejected, HearState, HearComplete

-----------------------------------------------------------------------------
(***************************************************************************)
(* The invariant and what it gives.                                        *)
(***************************************************************************)

\* At the start nothing is enqueued.
LEMMA InitSane == ASSUME Init PROVE Sane
<1>1. /\ row = [d \in Downloads |-> "unused"] /\ file = FALSE /\ broadcast = {} /\ outbox = <<>>
      /\ inbox = <<>> /\ status = "dead" /\ timer = FALSE /\ cur = 0 /\ enqueues = 0
      /\ callbacks = {} /\ checks = 0
    BY DEF Init
<1>2. Got = {} /\ Sent = {} /\ outbox \in Seq(Calls) /\ inbox \in Seq(Answers)
    BY <1>1 DEF Got, Sent
<1>3. \A d \in Downloads : row[d] = "unused" /\ ~Busy(d)
    BY <1>1, <1>2 DEF Busy, Completing
<1>4. Types
    <2>1. /\ row \in [Downloads -> Rows] /\ broadcast \subseteq Downloads /\ status \in Status
          /\ cur \in 0..MaxStarts /\ enqueues \in {0, 1} /\ callbacks \subseteq Downloads
          /\ checks \in {0, 1}
        BY <1>1, DownloadAssumption DEF Rows, Status
    <2>2. file \in BOOLEAN /\ timer \in BOOLEAN
        BY <1>1, Zenon
    <2> QED
        BY <1>2, <2>1, <2>2 DEF Types
<1>5. Early /\ CalledOnce /\ SentOK /\ InOrder /\ GotOK
    BY <1>1, <1>2 DEF Early, CalledOnce, SentOK, InOrder, GotOK
<1>6. OneBusy /\ CurrentOK /\ StatusOK /\ Watched /\ Outstanding
    BY <1>1, <1>2, <1>3 DEF OneBusy, CurrentOK, StatusOK, Watched, Outstanding
<1> QED
    BY <1>4, <1>5, <1>6 DEF Sane

\* A step that changes nothing.
LEMMA StutterStep == ASSUME Sane, UNCHANGED vars PROVE Sane'
<1>1. /\ row' = row /\ file' = file /\ broadcast' = broadcast /\ outbox' = outbox /\ inbox' = inbox
      /\ status' = status /\ timer' = timer /\ cur' = cur /\ enqueues' = enqueues
      /\ callbacks' = callbacks /\ checks' = checks
    BY Zenon DEF vars, service, item
<1>2. FailedStay
    BY <1>1 DEF FailedStay
<1>3. Got' = Got /\ Sent' = Sent /\ CalledOnce' /\ InOrder'
    BY <1>1, <1>2, NothingSaid
<1>4. /\ \A d : (Completing(d)' <=> Completing(d)) /\ (Busy(d)' <=> Busy(d))
      /\ NoneBusy' <=> NoneBusy
      /\ NoneFailed' <=> NoneFailed
    BY <1>1, <1>3, SameBusy
<1>5. \A f : SetupOK(f) => SetupOK(f)'
    BY <1>1, <1>4 DEF SetupOK
<1>6. Types'
    BY <1>1, Zenon DEF Sane, Types
<1>7. Early' /\ SentOK'
    BY <1>1, <1>3, <1>4 DEF Sane, Early, SentOK
<1>8. GotOK'
    BY <1>1, <1>3, <1>4, <1>5 DEF Sane, GotOK
<1>9. OneBusy' /\ CurrentOK'
    BY <1>1, <1>4 DEF Sane, OneBusy, CurrentOK
<1>10. StatusOK' /\ Watched' /\ Outstanding'
    BY <1>1, <1>3, <1>4 DEF Sane, StatusOK, Watched, Outstanding
<1> QED
    BY <1>3, <1>6, <1>7, <1>8, <1>9, <1>10 DEF Sane

\* WriteFile, Succeed, Fail and Remove are what ServiceStep is about.
LEMMA ServiceSteps == ASSUME Sane, NEW d \in Downloads,
                             WriteFile(d) \/ Succeed(d) \/ Fail(d) \/ Remove(d)
                      PROVE  Sane'
<1>1. CASE WriteFile(d)
    <2>1. row' = [row EXCEPT ![d] = "running"]
        BY <1>1 DEF WriteFile, Sane, Types
    <2>2. row[d] = "running" /\ broadcast' = broadcast /\ file' = TRUE /\ UNCHANGED <<outbox, inbox, item>>
        BY <1>1 DEF WriteFile
    <2>3. file' \in BOOLEAN
        BY <2>2, Zenon
    <2> QED
        BY <2>1, <2>2, <2>3, ServiceStep
<1>2. CASE Succeed(d)
    <2>1. /\ row[d] = "running" /\ row' = [row EXCEPT ![d] = "successful"] /\ file' = TRUE
          /\ broadcast' = broadcast \cup {d} /\ UNCHANGED <<outbox, inbox, item>>
        BY <1>2 DEF Succeed
    <2>2. file' \in BOOLEAN
        BY <2>1, Zenon
    <2> QED
        BY <2>1, <2>2, ServiceStep
<1>3. CASE Fail(d)
    <2>1. /\ row[d] = "running" /\ row' = [row EXCEPT ![d] = "failed"] /\ file' = FALSE
          /\ broadcast' = broadcast \cup {d} /\ UNCHANGED <<outbox, inbox, item>>
        BY <1>3 DEF Fail
    <2>2. file' \in BOOLEAN
        BY <2>1, Zenon
    <2> QED
        BY <2>1, <2>2, ServiceStep
<1>4. CASE Remove(d)
    <2>1. /\ row[d] = "running" /\ row' = [row EXCEPT ![d] = "removed"] /\ file' = FALSE
          /\ broadcast' = broadcast /\ UNCHANGED <<outbox, inbox, item>>
        BY <1>4 DEF Remove
    <2>2. file' \in BOOLEAN
        BY <2>1, Zenon
    <2> QED
        BY <2>1, <2>2, ServiceStep
<1> QED
    BY <1>1, <1>2, <1>3, <1>4

\* The inductive invariant: until a poll about a download the user removed is
\* taken for the news of the next one (download_manager.dart:121-125), what the
\* item knows, what is under way on the channel and the service's rows agree.
THEOREM Invariance == Spec => []IInv
<1>1. Init => IInv
    BY InitSane DEF IInv
<1>2. ASSUME IInv, [Next]_vars PROVE IInv'
    <2>1. CASE mistaken
        <3>1. CASE Receive
            BY <2>1, <3>1 DEF Receive, IInv
        <3>2. CASE ~Receive
            <4>1. mistaken' = mistaken
                BY <1>2, <3>2 DEF Next, vars, Boot, Open, Start, Tick, OnMethodCall, CheckStatus,
                                  Service, WriteFile, Succeed, Fail, Remove, OnReceive, Crash
            <4> QED
                BY <2>1, <4>1 DEF IInv
        <3> QED
            BY <3>1, <3>2
    <2>2. CASE Sane /\ ~mistaken'
        <3>1. CASE Boot
            BY <2>2, <3>1, BootStep DEF IInv
        <3>2. CASE Open
            BY <2>2, <3>2, OpenStep DEF IInv
        <3>3. CASE Start
            BY <2>2, <3>3, StartStep DEF IInv
        <3>4. CASE Tick
            BY <2>2, <3>4, TickStep DEF IInv
        <3>5. CASE OnMethodCall
            BY <2>2, <3>5, OnMethodCallStep DEF IInv
        <3>6. CASE Receive
            BY <2>2, <3>6, ReceiveStep DEF IInv
        <3>7. CASE CheckStatus
            BY <2>2, <3>7, CheckStatusStep DEF IInv
        <3>8. CASE Service
            BY <2>2, <3>8, ServiceSteps DEF Service, IInv
        <3>9. CASE \E d \in Downloads : OnReceive(d)
            BY <2>2, <3>9, OnReceiveStep DEF IInv
        <3>10. CASE Crash
            BY <2>2, <3>10, CrashStep DEF IInv
        <3>11. CASE UNCHANGED vars
            BY <2>2, <3>11, StutterStep DEF IInv
        <3> QED
            BY <1>2, <3>1, <3>2, <3>3, <3>4, <3>5, <3>6, <3>7, <3>8, <3>9, <3>10, <3>11 DEF Next
    <2>3. CASE mistaken'
        BY <2>3 DEF IInv
    <2> QED
        BY <1>2, <2>1, <2>2, <2>3 DEF IInv
<1> QED
    BY <1>1, <1>2, PTL DEF Spec

\* Two downloads never write the same file at once, however many are started,
\* fail, are removed or outlive the program (download_manager.dart:97-125).
THEOREM OneAtATime == Spec => []OneWriter
<1>1. IInv => OneWriter
    <2> SUFFICES ASSUME Sane PROVE Cardinality({d \in Downloads : row[d] = "running"}) <= 1
        BY DEF IInv, OneWriter
    <2> DEFINE R == {d \in Downloads : row[d] = "running"}
    <2>1. \A d, e \in R : d = e
        BY DEF Sane, OneBusy, Busy
    <2>2. CASE R = {}
        BY <2>2, FS_EmptySet
    <2>3. CASE R # {}
        <3> HIDE DEF R
        <3>1. PICK d : R = {d}
            BY <2>1, <2>3
        <3>2. Cardinality(R) = 1
            BY <3>1, FS_Singleton
        <3> QED
            BY <3>2 DEF R
    <2> QED
        BY <2>2, <2>3
<1> QED
    BY <1>1, Invariance, PTL

\* "Complete" is only shown for a whole file, whichever of the poll, the
\* broadcast or the next start of the program tells the item
\* (download_manager.dart:37-56, 150-153).
THEOREM CompleteShowsWhole == Spec => []CompleteIsWhole
<1>1. IInv => CompleteIsWhole
    <2> SUFFICES ASSUME Sane, status = "Complete"
                 PROVE  file /\ \A d \in Downloads : row[d] # "running"
        BY DEF IInv, CompleteIsWhole
    <2>1. PICK d \in Downloads : row[d] = "successful"
        BY DEF Sane, StatusOK
    <2> QED
        BY <2>1 DEF Sane, OneBusy, Busy
<1> QED
    BY <1>1, Invariance, PTL

\* start never replaces a timer that runs, and without a failed download the
\* item that shows "Downloading" is polled or about to look for the file
\* (download_manager.dart:118-153).
THEOREM TimerFollows == Spec => []TimerFollowsStatus
<1>1. IInv => TimerFollowsStatus
    BY DEF IInv, Sane, StatusOK, Watched, NoneFailed, TimerFollowsStatus
<1> QED
    BY <1>1, Invariance, PTL

=============================================================================
