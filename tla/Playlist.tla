------------------------------ MODULE Playlist ------------------------------
(***************************************************************************)
(* RetroArchConfig.install (lib/utils/retroarch_config.dart): installing   *)
(* ROMs of one type into that type's playlist.  An install reads the       *)
(* playlist, takes the CRC of the whole ROM, and writes the playlist with  *)
(* its own entry in front, all with awaits between them; then it writes    *)
(* three thumbnails.  Nothing keeps a second install from starting before  *)
(* the first has ended: both callers leave their button as it is.          *)
(*                                                                         *)
(* writeAsString opens the file, which empties it, and then writes.  A     *)
(* thumbnail is written in one step; an entry is its ROM's path.           *)
(***************************************************************************)
EXTENDS Naturals, Sequences, FiniteSets

CONSTANTS Roms,         \* the ROMs of one type
          MaxInstalls,  \* bound on the installs asked for
          MaxDeaths     \* bound on the deaths of the program

ASSUME PlaylistAssumption == Roms # {} /\ MaxInstalls \in Nat /\ MaxDeaths \in Nat

VARIABLES file,     \* the playlist: st "absent", "empty", "torn" or "whole"; items
          jobs,     \* each install: where it is, its ROM, the list it has in hand
          thumbs,   \* the thumbnails there are of each ROM
          deaths,   \* deaths so far
          ver,      \* history: how often the playlist was written
          expected, \* history: the list that installs one by one would have made
          stale,    \* history: an install wrote over a list it had not read
          spoilt    \* history: a write was cut off, by a death or an error

ghosts == <<ver, expected, stale, spoilt>>
playlistVars == <<file, jobs, thumbs, deaths, ghosts>>

Installs == 1..MaxInstalls
Kinds == {"titles", "boxarts", "snaps"}         \* Named_Titles and its like

JobAt(pc, r) == [pc |-> pc, rom |-> r, items |-> <<>>, ver |-> 0]
Over == {"none", "ok", "failed", "dead"}
Running(j) == jobs[j].pc \notin Over
Writing == {j \in Installs : jobs[j].pc = "write"}

\* Install j goes on at pc, with no list in hand.
Go(j, pc) == jobs' = [jobs EXCEPT ![j] = JobAt(pc, jobs[j].rom)]

-----------------------------------------------------------------------------
\* removeWhere: the entries that are not r, in their order.
RemoveWhere(r, items) ==
    LET Upto[n \in 0..Len(items)] ==
            IF n = 0 THEN <<>>
            ELSE IF items[n] = r THEN Upto[n - 1]
                 ELSE Append(Upto[n - 1], items[n])
    IN  Upto[Len(items)]

\* Mutant: the entry of an earlier install stays.
WithEntryTwice(r, items) == <<r>> \o items

\* Mutant: the new entry goes to the end.
WithEntryLast(r, items) == Append(RemoveWhere(r, items), r)

\* removeWhere, then insert at 0.
WithEntry(r, items) == <<r>> \o RemoveWhere(r, items)

\* The two callers: a downloaded ROM, or one picked from the file system.
Install(j, r) == /\ jobs[j].pc = "none"
                 /\ \A k \in Installs : k < j => jobs[k].pc # "none"
                 /\ jobs' = [jobs EXCEPT ![j] = JobAt("read", r)]
                 /\ UNCHANGED <<file, thumbs, deaths, ghosts>>

\* The items of the playlist; jsonDecode throws on what is not JSON.
Read(j) ==
    /\ jobs[j].pc = "read"
    /\ IF file.st \in {"absent", "whole"}
       THEN jobs' = [jobs EXCEPT ![j].pc = "crc", ![j].items = file.items, ![j].ver = ver]
       ELSE Go(j, "failed")
    /\ UNCHANGED <<file, thumbs, deaths, ghosts>>

\* The CRC of the ROM, which may have gone; then the new list is put together.
Crc(j) == /\ jobs[j].pc = "crc"
          /\ \/ jobs' = [jobs EXCEPT ![j].pc = "open",
                                     ![j].items = WithEntry(jobs[j].rom, jobs[j].items)]
             \/ Go(j, "failed")
          /\ UNCHANGED <<file, thumbs, deaths, ghosts>>

\* writeAsString, first half: the file is there and empty.
OpenFile(j) == /\ jobs[j].pc = "open"
               /\ file' = [st |-> "empty", items |-> <<>>]
               /\ jobs' = [jobs EXCEPT ![j].pc = "write"]
               /\ UNCHANGED <<thumbs, deaths, ghosts>>

\* writeAsString, second half.  Over what another install wrote since the
\* file was emptied, the longer text shows behind the shorter one.
Write(j) == /\ jobs[j].pc = "write"
            /\ \/ file' = [st |-> "whole", items |-> jobs[j].items]
               \/ /\ file.st # "empty"
                  /\ file' = [st |-> "torn", items |-> <<>>]
            /\ Go(j, "titles")
            /\ ver' = ver + 1
            /\ expected' = <<jobs[j].rom>> \o RemoveWhere(jobs[j].rom, expected)
            /\ stale' = (stale \/ jobs[j].ver # ver)
            /\ UNCHANGED <<thumbs, deaths, spoilt>>

\* writeAsString throws: the disk is full, or no longer there.
WriteFails(j) == /\ jobs[j].pc = "write"
                 /\ file' \in {file, [st |-> "torn", items |-> <<>>]}
                 /\ Go(j, "failed")
                 /\ spoilt' = TRUE
                 /\ UNCHANGED <<thumbs, deaths, ver, expected, stale>>

\* Where an install goes after a thumbnail.
After(pc) == CASE pc = "titles" -> "boxarts" [] pc = "boxarts" -> "snaps" [] OTHER -> "ok"

\* One thumbnail after the other.  The cover, used for the first two, has half
\* a second to load and must decode; so must the image for the third, a single
\* one or the first of several that loads.
Thumb(j) ==
    /\ jobs[j].pc \in Kinds
    /\ \/ /\ thumbs' = [thumbs EXCEPT ![jobs[j].rom] = @ \cup {jobs[j].pc}]
          /\ Go(j, After(jobs[j].pc))
       \/ /\ jobs[j].pc \in {"titles", "snaps"}
          /\ Go(j, "failed")
          /\ UNCHANGED thumbs
    /\ UNCHANGED <<file, deaths, ghosts>>

\* The program dies: the installs with it, the files stay as they are.
Death == /\ deaths < MaxDeaths
         /\ deaths' = deaths + 1
         /\ jobs' = [j \in Installs |-> IF Running(j) THEN JobAt("dead", jobs[j].rom)
                                        ELSE jobs[j]]
         /\ spoilt' = (spoilt \/ Writing # {})
         /\ UNCHANGED <<file, thumbs, ver, expected, stale>>

-----------------------------------------------------------------------------
PlaylistInit == /\ file = [st |-> "absent", items |-> <<>>]
                /\ jobs = [j \in Installs |-> JobAt("none", CHOOSE r \in Roms : TRUE)]
                /\ thumbs = [r \in Roms |-> {}]
                /\ deaths = 0 /\ ver = 0 /\ expected = <<>>
                /\ stale = FALSE /\ spoilt = FALSE

Step(j) == Read(j) \/ Crc(j) \/ OpenFile(j) \/ Write(j) \/ WriteFails(j) \/ Thumb(j)

PlaylistNext == \/ \E j \in Installs, r \in Roms : Install(j, r)
                \/ \E j \in Installs : Step(j)
                \/ Death

PlaylistSpec == PlaylistInit /\ [][PlaylistNext]_playlistVars

-----------------------------------------------------------------------------
\* install: a ROM is never in the playlist twice, however installs of it
\* interleave.
OneEntryPerRom == \A i, k \in DOMAIN file.items : file.items[i] = file.items[k] => i = k

\* install: as long as no install wrote over a list it had not read and no
\* write was cut off, the playlist is readable and is exactly what installs
\* one after the other would have made, the newest in front.  Overlapping
\* installs, a death in writeAsString and a failing write are therefore all
\* that can lose an entry or leave a file on which every later install fails.
\* And an install that ended without an exception has all three thumbnails on
\* disk.
SerialIsExact ==
    /\ \/ stale \/ spoilt \/ Writing # {}
       \/ file.st \in {"absent", "whole"} /\ file.items = expected
    /\ \A j \in Installs : jobs[j].pc = "ok" => thumbs[jobs[j].rom] = Kinds
=============================================================================
