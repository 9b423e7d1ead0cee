----------------------------- MODULE FileCache -----------------------------
(***************************************************************************)
(* The page cache of internal/reader/processor.go without Redis, for one   *)
(* link: jobs read hash.page.json, and on a miss write the page they       *)
(* fetched to hash.page.json.tmp and rename it.  The temporary name is the *)
(* same for all of them.                                                   *)
(*                                                                         *)
(*   idle -> [read ->] done                             a hit              *)
(*   idle -> [read ->] fetch -> write -> rename -> done a miss             *)
(*                                                                         *)
(* Names refer to inodes, and a job that opened a file goes on with its    *)
(* inode wherever the name points since.  A page is the sequence of its    *)
(* blocks: a write puts all of them into the file at once, a read takes    *)
(* them one after the other.                                               *)
(***************************************************************************)
EXTENDS Naturals, Sequences

CONSTANTS
    Jobs,      \* the goroutines that process the link, each once
    Inodes,    \* the files there can be
    MaxBlocks, \* bound: how long a page is
    Nil,       \* no file
    Torn       \* a page that is not one job's

ASSUME BlocksAssumption == MaxBlocks \in Nat \ {0}
ASSUME NullAssumption == /\ Nil \notin Inodes \cup Jobs
                         /\ Torn \notin Jobs /\ Torn # Nil

\* The n-th block of the page job j fetched; last closes its JSON object.
Blocks == [of: Jobs, n: 1..MaxBlocks, last: BOOLEAN]

VARIABLES
    disk,    \* disk[i]: what is in file i
    path,    \* the file hash.page.json
    tmp,     \* the file hash.page.json.tmp
    pc,      \* pc[j]: where j is
    ino,     \* ino[j]: the file j opened
    got,     \* got[j]: what j has read of it
    size,    \* size[j]: how many blocks the page has that j fetched
    shared   \* history: the files opened for writing while another job was
             \* between opening and renaming the temporary file

vars == <<disk, path, tmp, pc, ino, got, size, shared>>

Writing == {"write", "rename"}
Ended == {"done", "uncached", "lost"}

Init ==
    /\ disk = [i \in Inodes |-> <<>>]
    /\ path = Nil
    /\ tmp = Nil
    /\ pc = [j \in Jobs |-> "idle"]
    /\ ino = [j \in Jobs |-> Nil]
    /\ got = [j \in Jobs |-> <<>>]
    /\ size = [j \in Jobs |-> 0]
    /\ shared = {}

Page(j) == [n \in 1..size[j] |-> [of |-> j, n |-> n, last |-> n = size[j]]]

\* json.Unmarshal: one object and nothing after it.  Two pages spliced between
\* their blocks may pass.
Parses(c) == /\ c # <<>>
             /\ \A n \in 1..Len(c) : c[n].n = n /\ (c[n].last <=> n = Len(c))

\* All of what one job fetched.
Whole(c) == Parses(c) /\ \A n \in 1..Len(c) : c[n].of = c[1].of

Free(i) == i \notin {path, tmp} /\ \A j \in Jobs : ino[j] # i

Goto(j, to) == pc' = [pc EXCEPT ![j] = to]
Close(j) == ino' = [ino EXCEPT ![j] = Nil]

-----------------------------------------------------------------------------
\* tryReadPageCache.
OpenPath(j) ==
    /\ pc[j] = "idle"
    /\ IF path = Nil THEN Goto(j, "fetch") /\ UNCHANGED ino
       ELSE Goto(j, "read") /\ ino' = [ino EXCEPT ![j] = path]
    /\ UNCHANGED <<disk, path, tmp, got, size, shared>>

ReadBlock(j) ==
    /\ pc[j] = "read"
    /\ Len(got[j]) < Len(disk[ino[j]])
    /\ got' = [got EXCEPT ![j] = Append(@, disk[ino[j]][Len(@) + 1])]
    /\ UNCHANGED <<disk, path, tmp, pc, ino, size, shared>>

\* The end of the file.  An empty or unparsable one is a miss.
ReadEnds(j) ==
    /\ pc[j] = "read"
    /\ Len(got[j]) >= Len(disk[ino[j]])
    /\ Goto(j, IF Parses(got[j]) THEN "done" ELSE "fetch")
    /\ Close(j)
    /\ UNCHANGED <<disk, path, tmp, got, size, shared>>

-----------------------------------------------------------------------------
\* j has page n blocks long from the MCP server and opens file i to write it.
OpenFor(j, n, i) ==
    /\ pc[j] = "fetch"
    /\ Goto(j, "write")
    /\ ino' = [ino EXCEPT ![j] = i]
    /\ size' = [size EXCEPT ![j] = n]
    /\ shared' = IF \E k \in Jobs : pc[k] \in Writing THEN shared \cup {i}
                                                     ELSE shared \ {i}
    /\ UNCHANGED got

\* Without O_TRUNC; without the temporary file.
OpenTmpUntruncated(j) ==
    \E n \in 1..MaxBlocks, i \in Inodes :
        /\ OpenFor(j, n, i)
        /\ IF tmp = Nil THEN Free(i) /\ disk' = [disk EXCEPT ![i] = <<>>]
                        ELSE i = tmp /\ UNCHANGED disk
        /\ tmp' = i
        /\ UNCHANGED path

OpenInPlace(j) ==
    \E n \in 1..MaxBlocks, i \in Inodes :
        /\ OpenFor(j, n, i)
        /\ IF path = Nil THEN Free(i) ELSE i = path
        /\ disk' = [disk EXCEPT ![i] = <<>>]
        /\ path' = i
        /\ UNCHANGED tmp

\* writePageCache calls os.WriteFile, which opens the temporary file, creating
\* it or truncating what another job or an earlier process left.
OpenTmp(j) ==
    \E n \in 1..MaxBlocks, i \in Inodes :
        /\ OpenFor(j, n, i)
        /\ IF tmp = Nil THEN Free(i) ELSE i = tmp
        /\ disk' = [disk EXCEPT ![i] = <<>>]
        /\ tmp' = i
        /\ UNCHANGED path

\* A write starts at the beginning of the file and leaves what is behind its
\* end.
Overlaid(c, old) == c \o SubSeq(old, Len(c) + 1, Len(old))

\* With O_APPEND.
WriteAppending(j) ==
    /\ pc[j] = "write"
    /\ disk' = [disk EXCEPT ![ino[j]] = @ \o Page(j)]
    /\ Goto(j, "rename")
    /\ Close(j)
    /\ UNCHANGED <<path, tmp, got, size, shared>>

Write(j) ==
    /\ pc[j] = "write"
    /\ disk' = [disk EXCEPT ![ino[j]] = Overlaid(Page(j), @)]
    /\ Goto(j, "rename")
    /\ Close(j)
    /\ UNCHANGED <<path, tmp, got, size, shared>>

\* The error is overlooked, and the part renamed.
FailureIgnored(j) ==
    /\ pc[j] = "write"
    /\ \E n \in 0..size[j] - 1 :
          disk' = [disk EXCEPT ![ino[j]] = Overlaid(SubSeq(Page(j), 1, n), @)]
    /\ Goto(j, "rename")
    /\ Close(j)
    /\ UNCHANGED <<path, tmp, got, size, shared>>

\* The disk is full: part of the page is written, and writePageCache returns the
\* error.  The job goes on with the page it has, which is not cached.
WriteFails(j) ==
    /\ pc[j] = "write"
    /\ \E n \in 0..size[j] - 1 :
          disk' = [disk EXCEPT ![ino[j]] = Overlaid(SubSeq(Page(j), 1, n), @)]
    /\ Goto(j, "uncached")
    /\ Close(j)
    /\ UNCHANGED <<path, tmp, got, size, shared>>

\* os.Rename renames whatever now has the temporary name, and fails if nothing
\* has.
Rename(j) ==
    /\ pc[j] = "rename"
    /\ IF tmp = Nil THEN UNCHANGED <<path, tmp>> ELSE path' = tmp /\ tmp' = Nil
    /\ Goto(j, "done")
    /\ UNCHANGED <<disk, ino, got, size, shared>>

-----------------------------------------------------------------------------
\* The process dies, a job in the middle of a write after part of it.
Crash ==
    /\ \E j \in Jobs : pc[j] \notin {"idle"} \cup Ended
    /\ \/ UNCHANGED disk
       \/ \E j \in Jobs : /\ pc[j] = "write"
                          /\ \E n \in 1..size[j] :
                                disk' = [disk EXCEPT ![ino[j]] =
                                             Overlaid(SubSeq(Page(j), 1, n), @)]
    /\ pc' = [j \in Jobs |-> IF pc[j] \in {"idle"} \cup Ended THEN pc[j] ELSE "lost"]
    /\ ino' = [j \in Jobs |-> Nil]
    /\ UNCHANGED <<path, tmp, got, size, shared>>

Next ==
    \/ \E j \in Jobs : \/ OpenPath(j) \/ ReadBlock(j) \/ ReadEnds(j)
                       \/ OpenTmp(j) \/ Write(j) \/ WriteFails(j) \/ Rename(j)
    \/ Crash

Spec == Init /\ [][Next]_vars

-----------------------------------------------------------------------------
\* Every variable has its type.
TypeOK ==
    /\ disk \in [Inodes -> Seq(Blocks)]
    /\ \A i \in Inodes : Len(disk[i]) <= MaxBlocks
    /\ path \in Inodes \cup {Nil}
    /\ tmp \in Inodes \cup {Nil}
    /\ pc \in [Jobs -> {"idle", "read", "fetch"} \cup Writing \cup Ended]
    /\ ino \in [Jobs -> Inodes \cup {Nil}]
    /\ got \in [Jobs -> Seq(Blocks)]
    /\ size \in [Jobs -> 0..MaxBlocks]
    /\ shared \subseteq Inodes

\* Writers that do not overlap publish whole pages, though earlier ones died or
\* ran out of disk and left their part of a page under the temporary name.
WholeUnlessShared == path # Nil /\ path \notin shared => Whole(disk[path])

\* A job that reads such a file reads one page, all of it when it comes to the
\* end, though the name moves on to other files and jobs write meanwhile.
ReadersSeeWhole ==
    \A j \in Jobs : pc[j] = "read" /\ ino[j] \notin shared =>
        LET c == disk[ino[j]] IN
        Whole(c) /\ Len(got[j]) <= Len(c) /\ got[j] = SubSeq(c, 1, Len(got[j]))

\* What makes them inductive.  While the temporary file is not shared, the only
\* job that writes is the one that opened it; nobody reads it.
TmpOwned ==
    /\ tmp # Nil => /\ tmp # path
                    /\ \A j \in Jobs : pc[j] = "read" => ino[j] # tmp
    /\ tmp # Nil /\ tmp \notin shared =>
          \A j \in Jobs : pc[j] \in Writing =>
              /\ \A k \in Jobs : pc[k] \in Writing => k = j
              /\ pc[j] = "write" => ino[j] = tmp /\ disk[tmp] = <<>>
              /\ pc[j] = "rename" => disk[tmp] = Page(j)

JobFiles ==
    \A j \in Jobs :
        /\ pc[j] \in {"read", "write"} <=> ino[j] # Nil
        /\ pc[j] \in Writing => size[j] > 0
        /\ pc[j] \in {"idle", "read", "fetch"} => size[j] = 0
        /\ pc[j] = "write" /\ ino[j] \notin shared => ino[j] = tmp
        /\ pc[j] = "idle" => got[j] = <<>>

Inv == TypeOK /\ TmpOwned /\ JobFiles /\ WholeUnlessShared /\ ReadersSeeWhole

\* What the jobs see of the files: whose page a sequence of blocks is, and what
\* a file is worth to who opens it.
Owner(c) == IF Whole(c) THEN c[1].of ELSE Torn
Seen(i)  == IF i = Nil THEN Nil ELSE IF i \in shared THEN Torn ELSE Owner(disk[i])

Stage(j) == CASE pc[j] = "idle" -> "idle"
              [] pc[j] = "read" -> "reading"
              [] pc[j] = "fetch" -> "missed"
              [] pc[j] \in Writing -> "storing"
              [] OTHER -> "over"

SeenBy(j) == IF pc[j] = "read" THEN Seen(ino[j])
             ELSE IF pc[j] = "done" /\ size[j] = 0 THEN Owner(got[j]) ELSE Nil

Clash == {j \in Jobs : pc[j] \in Writing /\ (tmp = Nil \/ tmp \in shared)}

Entry == INSTANCE PageEntry WITH
    entry <- Seen(path),
    stage <- [j \in Jobs |-> Stage(j)],
    seen <- [j \in Jobs |-> SeenBy(j)],
    clash <- Clash

\* Between open, write, rename and block by block reading, the file behaves like
\* one entry that is stored and looked up in one step each, except for jobs that
\* store while another does: hits are whole pages, the last one stored when the
\* lookup began, and only a torn or absent page is a miss.
IsEntry == Entry!Spec

\* "writePageCache saves complete Page (HTML + metadata) to cache": what is
\* there, once nobody writes and nothing went wrong, is a complete page.
Resting == \A j \in Jobs : pc[j] \notin Writing \cup {"uncached", "lost"}
SavesCompletePage == Resting /\ path # Nil => Whole(disk[path])
=============================================================================
