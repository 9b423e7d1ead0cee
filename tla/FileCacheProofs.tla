-------------------------- MODULE FileCacheProofs --------------------------
(***************************************************************************)
(* The file cache publishes whole pages as long as its writers do not      *)
(* overlap, for any number of jobs, files and blocks, and through crashes. *)
(***************************************************************************)
EXTENDS FileCache, SequenceTheorems, TLAPS

\* A fetched page is a sequence of blocks, and all of them.
LEMMA PageWhole ==
    ASSUME TypeOK, NEW j \in Jobs, size[j] > 0
    PROVE  /\ Page(j) \in Seq(Blocks) /\ Len(Page(j)) = size[j]
           /\ Len(Page(j)) <= MaxBlocks
           /\ Whole(Page(j))
<1>1. size[j] \in Nat \ {0} /\ size[j] <= MaxBlocks
  BY BlocksAssumption DEF TypeOK
<1>2. \A n \in 1..size[j] : [of |-> j, n |-> n, last |-> n = size[j]] \in Blocks
  BY <1>1, BlocksAssumption DEF Blocks
<1>3. Page(j) \in Seq(Blocks) /\ Len(Page(j)) = size[j]
  BY <1>1, <1>2 DEF Page
<1>4. Page(j) # <<>>
  BY <1>1, <1>3
<1>5. \A n \in 1..Len(Page(j)) : /\ Page(j)[n].n = n
                                 /\ Page(j)[n].last <=> n = Len(Page(j))
                                 /\ Page(j)[n].of = j
  BY <1>1, <1>3 DEF Page
<1> QED
  BY <1>1, <1>3, <1>4, <1>5 DEF Whole, Parses

\* Writing over an empty file leaves what was written; writing over any file
\* leaves a file of blocks no longer than the longest page.
LEMMA OverlaidType ==
    ASSUME NEW c \in Seq(Blocks), NEW old \in Seq(Blocks),
           Len(c) <= MaxBlocks, Len(old) <= MaxBlocks
    PROVE  /\ Overlaid(c, old) \in Seq(Blocks)
           /\ Len(Overlaid(c, old)) <= MaxBlocks
           /\ old = <<>> => Overlaid(c, old) = c
<1>1. /\ SubSeq(old, Len(c) + 1, Len(old)) \in Seq(Blocks)
      /\ Len(SubSeq(old, Len(c) + 1, Len(old))) =
            IF Len(c) + 1 <= Len(old) THEN Len(old) - Len(c) ELSE 0
  BY SubSeqProperties
<1>2. Len(c) \in Nat /\ Len(old) \in Nat /\ MaxBlocks \in Nat
  BY BlocksAssumption
<1>3. /\ Overlaid(c, old) \in Seq(Blocks)
      /\ Len(Overlaid(c, old)) = Len(c) + Len(SubSeq(old, Len(c) + 1, Len(old)))
  BY <1>1, ConcatProperties DEF Overlaid
<1>4. ASSUME old = <<>> PROVE Overlaid(c, old) = c
  <2>1. Len(SubSeq(old, Len(c) + 1, Len(old))) = 0
    BY <1>1, <1>2, <1>4
  <2>2. SubSeq(old, Len(c) + 1, Len(old)) = <<>>
    BY <1>1, <2>1, EmptySeq
  <2> QED
    BY <2>2, ConcatEmptySeq DEF Overlaid
<1> QED
  BY <1>1, <1>2, <1>3, <1>4

-----------------------------------------------------------------------------
\* There are no files and nobody reads or writes one.
LEMMA InitInv == Init => Inv
BY BlocksAssumption, NullAssumption, EmptySeq
   DEF Init, Inv, TypeOK, TmpOwned, JobFiles, WholeUnlessShared, ReadersSeeWhole, Writing, Ended

\* A job opens the published file: it has read none of it yet.
LEMMA OpenPathInv == ASSUME Inv, NEW j \in Jobs, OpenPath(j) PROVE Inv'
<1> USE DEF Inv, TypeOK, OpenPath, Goto, Writing, Ended
<1>1. TypeOK'
  OBVIOUS
<1>2. TmpOwned'
  <2>1. \A k \in Jobs : /\ pc'[k] \in Writing => pc[k] = pc'[k] /\ ino'[k] = ino[k]
                        /\ pc'[k] = "read" => ino'[k] \in {ino[k], path}
                        /\ pc'[k] = "read" /\ ino'[k] # path => pc[k] = "read" /\ ino'[k] = ino[k]
    OBVIOUS
  <2>2. \A k \in Jobs : Page(k)' = Page(k)
    BY DEF Page
  <2> QED
    BY <2>1, <2>2 DEF TmpOwned
<1>3. JobFiles'
  BY NullAssumption DEF JobFiles
<1>4. WholeUnlessShared'
  BY DEF WholeUnlessShared, Whole, Parses
<1>5. ReadersSeeWhole'
  <2> SUFFICES ASSUME NEW k \in Jobs, pc'[k] = "read", ino'[k] \notin shared
               PROVE  LET c == disk[ino'[k]] IN
                      Whole(c) /\ Len(got[k]) <= Len(c) /\ got[k] = SubSeq(c, 1, Len(got[k]))
    BY DEF ReadersSeeWhole, Whole, Parses
  <2>1. CASE k # j
    BY <2>1 DEF ReadersSeeWhole
  <2>2. CASE k = j
    <3>1. path # Nil /\ ino'[j] = path /\ path \in Inodes /\ got[j] = <<>>
      BY <2>2 DEF JobFiles
    <3>2. Whole(disk[path])
      BY <2>2, <3>1 DEF WholeUnlessShared
    <3>3. Len(got[j]) = 0 /\ Len(disk[path]) \in Nat
      BY <3>1, EmptySeq
    <3>4. SubSeq(disk[path], 1, 0) = <<>>
      BY SubSeqEmpty
    <3> QED
      BY <2>2, <3>1, <3>2, <3>3, <3>4
  <2> QED
    BY <2>1, <2>2
<1> QED
  BY <1>1, <1>2, <1>3, <1>4, <1>5

\* One block more is a longer part of the same page.
LEMMA ReadBlockInv == ASSUME Inv, NEW j \in Jobs, ReadBlock(j) PROVE Inv'
<1> USE DEF Inv, TypeOK, ReadBlock, Writing, Ended
<1> DEFINE c == disk[ino[j]]
           k == Len(got[j])
<1>1. c \in Seq(Blocks) /\ k \in Nat /\ k < Len(c) /\ Len(c) \in Nat /\ ino[j] \in Inodes
  BY DEF JobFiles
<1>2. c[k + 1] \in Blocks
  BY <1>1, ElementOfSeq
<1>3. got'[j] = Append(got[j], c[k + 1]) /\ \A h \in Jobs : h # j => got'[h] = got[h]
  OBVIOUS
<1>4. TypeOK'
  BY <1>2
<1>5. TmpOwned' /\ JobFiles' /\ WholeUnlessShared'
  BY DEF TmpOwned, Page, JobFiles, WholeUnlessShared, Whole, Parses
<1>6. ReadersSeeWhole'
  <2>1. ASSUME ino[j] \notin shared
        PROVE  Len(got'[j]) <= Len(c) /\ got'[j] = SubSeq(c, 1, Len(got'[j]))
    <3>1. got[j] = SubSeq(c, 1, k)
      BY <2>1 DEF ReadersSeeWhole
    <3>2. Len(got'[j]) = k + 1
      BY <1>2, <1>3, AppendProperties
    <3>3. SubSeq(c, 1, k + 1) = Append(SubSeq(c, 1, k), c[k + 1])
      BY <1>1, SubSeqRecursiveSecond
    <3> QED
      BY <1>1, <1>3, <3>1, <3>2, <3>3
  <2> QED
    BY <1>3, <2>1 DEF ReadersSeeWhole, Whole, Parses
<1> QED
  BY <1>4, <1>5, <1>6

\* A job that is through with a file reads no more.
LEMMA ReadEndsInv == ASSUME Inv, NEW j \in Jobs, ReadEnds(j) PROVE Inv'
<1> USE DEF Inv, TypeOK, ReadEnds, Goto, Close, Writing, Ended
<1>1. TypeOK'
  OBVIOUS
<1>2. TmpOwned'
  BY DEF TmpOwned, Page
<1>3. JobFiles'
  BY NullAssumption DEF JobFiles
<1>4. WholeUnlessShared' /\ ReadersSeeWhole'
  BY DEF WholeUnlessShared, ReadersSeeWhole, Whole, Parses
<1> QED
  BY <1>1, <1>2, <1>3, <1>4

-----------------------------------------------------------------------------
\* Whoever opens the temporary file owns it alone, or it is marked.
LEMMA OpenTmpInv == ASSUME Inv, NEW j \in Jobs, OpenTmp(j) PROVE Inv'
<1> USE DEF Inv, TypeOK, OpenFor, Goto, Writing, Ended
<1>1. PICK n \in 1..MaxBlocks, i \in Inodes :
          /\ OpenFor(j, n, i)
          /\ IF tmp = Nil THEN Free(i) ELSE i = tmp
          /\ disk' = [disk EXCEPT ![i] = <<>>]
          /\ tmp' = i
          /\ UNCHANGED path
  BY DEF OpenTmp
<1>2. n \in Nat \ {0} /\ n <= MaxBlocks /\ i # Nil
  BY BlocksAssumption, NullAssumption
<1>3. i # path /\ \A k \in Jobs : pc[k] = "read" => ino[k] # i
  BY <1>1 DEF Free, TmpOwned
<1>4. i \notin shared' => \A k \in Jobs : pc[k] \notin Writing
  BY <1>1
<1>5. \A m \in Inodes : m # i => (m \in shared' <=> m \in shared)
  BY <1>1
<1>6. TypeOK'
  BY <1>1, <1>2, EmptySeq, BlocksAssumption
<1>7. TmpOwned'
  BY <1>1, <1>2, <1>3, <1>4 DEF TmpOwned
<1>8. JobFiles'
  <2>1. ASSUME NEW k \in Jobs, k # j, pc[k] = "write", ino[k] \notin shared'
        PROVE  ino[k] = i
    <3>1. i \in shared' /\ ino[k] \in Inodes
      BY <1>4, <2>1 DEF JobFiles
    <3>2. ino[k] # i /\ ino[k] \notin shared
      BY <1>5, <2>1, <3>1
    <3>3. ino[k] = tmp
      BY <2>1, <3>2 DEF JobFiles
    <3> QED
      BY <1>1, <3>1, <3>2, <3>3, NullAssumption
  <2> QED
    BY <1>1, <1>2, <2>1 DEF JobFiles
<1>9. WholeUnlessShared'
  BY <1>1, <1>3, <1>5 DEF WholeUnlessShared, Whole, Parses
<1>10. ReadersSeeWhole'
  <2> SUFFICES ASSUME NEW k \in Jobs, pc'[k] = "read", ino'[k] \notin shared'
               PROVE  LET c == disk'[ino'[k]] IN
                      /\ Whole(c) /\ Len(got'[k]) <= Len(c)
                      /\ got'[k] = SubSeq(c, 1, Len(got'[k]))
    BY DEF ReadersSeeWhole, Whole, Parses
  <2>1. k # j /\ pc[k] = "read" /\ ino'[k] = ino[k] /\ got'[k] = got[k]
    BY <1>1
  <2>2. ino[k] # i /\ ino[k] \in Inodes /\ disk'[ino[k]] = disk[ino[k]] /\ ino[k] \notin shared
    BY <1>1, <1>3, <1>5, <2>1 DEF JobFiles
  <2> QED
    BY <2>1, <2>2 DEF ReadersSeeWhole
<1> QED
  BY <1>6, <1>7, <1>8, <1>9, <1>10

\* What a job writes is read by nobody and published as nothing, or marked.
LEMMA WriteElsewhere ==
    ASSUME Inv, NEW j \in Jobs, pc[j] = "write", NEW c \in Seq(Blocks), Len(c) <= MaxBlocks,
           disk' = [disk EXCEPT ![ino[j]] = Overlaid(c, @)],
           UNCHANGED <<path, shared>>
    PROVE  /\ disk' \in [Inodes -> Seq(Blocks)]
           /\ \A i \in Inodes : Len(disk'[i]) <= MaxBlocks
           /\ WholeUnlessShared'
           /\ \A k \in Jobs : pc[k] = "read" /\ ino[k] \notin shared => disk'[ino[k]] = disk[ino[k]]
           /\ path # Nil /\ path \notin shared => disk'[path] = disk[path]
           /\ tmp # Nil /\ tmp \notin shared => ino[j] = tmp /\ disk'[tmp] = c
           /\ ino[j] \in Inodes
<1> USE DEF Inv, TypeOK
<1>1. ino[j] \in Inodes
  BY DEF JobFiles
<1>2. disk[ino[j]] \in Seq(Blocks) /\ Len(disk[ino[j]]) <= MaxBlocks
  BY <1>1
<1>3. /\ Overlaid(c, disk[ino[j]]) \in Seq(Blocks)
      /\ Len(Overlaid(c, disk[ino[j]])) <= MaxBlocks
      /\ disk[ino[j]] = <<>> => Overlaid(c, disk[ino[j]]) = c
  BY <1>2, OverlaidType
<1>4. ino[j] \notin shared => ino[j] = tmp /\ tmp # Nil
  BY <1>1, NullAssumption DEF JobFiles
<1>5. tmp # Nil /\ tmp \notin shared => ino[j] = tmp /\ disk'[tmp] = c
  BY <1>1, <1>3 DEF TmpOwned, Writing
<1>6. path # Nil /\ path \notin shared => path # ino[j] /\ disk'[path] = disk[path]
  BY <1>4 DEF TmpOwned
<1>7. WholeUnlessShared'
  BY <1>6 DEF WholeUnlessShared, Whole, Parses
<1>8. ASSUME NEW k \in Jobs, pc[k] = "read", ino[k] \notin shared PROVE disk'[ino[k]] = disk[ino[k]]
  <2>1. ino[k] # ino[j] /\ ino[k] \in Inodes
    BY <1>4, <1>8 DEF TmpOwned, JobFiles
  <2> QED
    BY <2>1
<1> QED
  BY <1>1, <1>3, <1>5, <1>6, <1>7, <1>8

\* The whole page is in the temporary file when its only writer goes on.
LEMMA WriteInv == ASSUME Inv, NEW j \in Jobs, Write(j) PROVE Inv'
<1> USE DEF Inv, TypeOK, Write, Goto, Close, Writing, Ended
<1>1. size[j] > 0
  BY DEF JobFiles
<1>2. Page(j) \in Seq(Blocks) /\ Len(Page(j)) <= MaxBlocks
  BY <1>1, PageWhole
<1>3. /\ disk' \in [Inodes -> Seq(Blocks)]
      /\ \A i \in Inodes : Len(disk'[i]) <= MaxBlocks
      /\ WholeUnlessShared'
      /\ \A k \in Jobs : pc[k] = "read" /\ ino[k] \notin shared => disk'[ino[k]] = disk[ino[k]]
      /\ tmp # Nil /\ tmp \notin shared => ino[j] = tmp /\ disk'[tmp] = Page(j)
  BY <1>2, WriteElsewhere
<1>4. TypeOK'
  BY <1>3
<1>5. TmpOwned'
  <2>1. Page(j)' = Page(j)
    BY DEF Page
  <2> QED
    BY <1>3, <2>1 DEF TmpOwned
<1>6. JobFiles'
  BY NullAssumption DEF JobFiles
<1>7. ReadersSeeWhole'
  <2>1. \A k \in Jobs : pc'[k] = "read" => pc[k] = "read" /\ ino'[k] = ino[k]
    OBVIOUS
  <2> QED
    BY <1>3, <2>1 DEF ReadersSeeWhole, Whole, Parses
<1> QED
  BY <1>3, <1>4, <1>5, <1>6, <1>7

\* A part of a page is a sequence of blocks, too.
LEMMA PartOfPage ==
    ASSUME TypeOK, NEW j \in Jobs, size[j] > 0, NEW n \in 0..size[j]
    PROVE  /\ SubSeq(Page(j), 1, n) \in Seq(Blocks)
           /\ Len(SubSeq(Page(j), 1, n)) <= MaxBlocks
<1>1. Page(j) \in Seq(Blocks) /\ Len(Page(j)) = size[j] /\ size[j] <= MaxBlocks
  BY PageWhole
<1>2. size[j] \in Nat /\ MaxBlocks \in Nat /\ n \in Nat /\ n <= size[j]
  BY BlocksAssumption DEF TypeOK
<1>3. /\ SubSeq(Page(j), 1, n) \in Seq(Blocks)
      /\ Len(SubSeq(Page(j), 1, n)) = IF 1 <= n THEN (n - 1) + 1 ELSE 0
  BY <1>1, <1>2, SubSeqProperties
<1> QED
  BY <1>1, <1>2, <1>3

\* What a failed write left is not renamed.
LEMMA WriteFailsInv == ASSUME Inv, NEW j \in Jobs, WriteFails(j) PROVE Inv'
<1> USE DEF Inv, TypeOK, WriteFails, Goto, Close, Writing, Ended
<1>1. size[j] > 0 /\ size[j] \in Nat
  BY DEF JobFiles
<1>2. PICK n \in 0..size[j] - 1 :
          disk' = [disk EXCEPT ![ino[j]] = Overlaid(SubSeq(Page(j), 1, n), @)]
  OBVIOUS
<1>3. n \in 0..size[j]
  BY <1>1
<1>4. /\ SubSeq(Page(j), 1, n) \in Seq(Blocks)
      /\ Len(SubSeq(Page(j), 1, n)) <= MaxBlocks
  BY <1>1, <1>3, PartOfPage
<1>5. /\ disk' \in [Inodes -> Seq(Blocks)]
      /\ \A i \in Inodes : Len(disk'[i]) <= MaxBlocks
      /\ WholeUnlessShared'
      /\ \A k \in Jobs : pc[k] = "read" /\ ino[k] \notin shared => disk'[ino[k]] = disk[ino[k]]
  BY <1>2, <1>4, WriteElsewhere
<1>6. TypeOK'
  BY <1>5
<1>7. TmpOwned'
  <2>1. tmp # Nil /\ tmp \notin shared => \A k \in Jobs : pc'[k] \notin Writing
    BY DEF TmpOwned
  <2> QED
    BY <2>1 DEF TmpOwned
<1>8. JobFiles'
  BY NullAssumption DEF JobFiles
<1>9. ReadersSeeWhole'
  BY <1>5 DEF ReadersSeeWhole, Whole, Parses
<1> QED
  BY <1>5, <1>6, <1>7, <1>8, <1>9

\* What is renamed is marked, or the whole page of the only writer.
LEMMA RenameInv == ASSUME Inv, NEW j \in Jobs, Rename(j) PROVE Inv'
<1> USE DEF Inv, TypeOK, Rename, Goto, Writing, Ended
<1>1. TypeOK'
  OBVIOUS
<1>2. tmp # Nil /\ tmp \notin shared => /\ Whole(disk[tmp])
                                        /\ \A k \in Jobs : pc[k] # "write"
  BY PageWhole DEF TmpOwned, JobFiles
<1>3. TmpOwned'
  BY DEF TmpOwned
<1>4. JobFiles'
  BY <1>2, NullAssumption DEF JobFiles
<1>5. WholeUnlessShared'
  BY <1>2 DEF WholeUnlessShared, Whole, Parses
<1>6. ReadersSeeWhole'
  BY DEF ReadersSeeWhole, Whole, Parses
<1> QED
  BY <1>1, <1>3, <1>4, <1>5, <1>6

\* A crash leaves a part of a page under the temporary name at worst.
LEMMA CrashInv == ASSUME Inv, Crash PROVE Inv'
<1> USE DEF Inv, TypeOK, Crash, Writing, Ended
<1>1. \A k \in Jobs : pc'[k] \in {"idle"} \cup Ended
  OBVIOUS
<1>2. /\ disk' \in [Inodes -> Seq(Blocks)]
      /\ \A i \in Inodes : Len(disk'[i]) <= MaxBlocks
      /\ WholeUnlessShared'
  <2>1. CASE UNCHANGED disk
    BY <2>1 DEF WholeUnlessShared, Whole, Parses
  <2>2. ASSUME NEW j \in Jobs, pc[j] = "write", NEW n \in 1..size[j],
               disk' = [disk EXCEPT ![ino[j]] = Overlaid(SubSeq(Page(j), 1, n), @)]
        PROVE  /\ disk' \in [Inodes -> Seq(Blocks)]
               /\ \A i \in Inodes : Len(disk'[i]) <= MaxBlocks
               /\ WholeUnlessShared'
    <3>1. size[j] > 0 /\ n \in 0..size[j]
      BY <2>2 DEF JobFiles
    <3>2. /\ SubSeq(Page(j), 1, n) \in Seq(Blocks)
          /\ Len(SubSeq(Page(j), 1, n)) <= MaxBlocks
      BY <3>1, PartOfPage
    <3> QED
      BY <2>2, <3>2, WriteElsewhere
  <2> QED
    BY <2>1, <2>2
<1>3. TypeOK'
  BY <1>2
<1>4. TmpOwned' /\ ReadersSeeWhole'
  BY <1>1 DEF TmpOwned, ReadersSeeWhole
<1>5. JobFiles'
  BY <1>1 DEF JobFiles
<1> QED
  BY <1>2, <1>3, <1>4, <1>5

-----------------------------------------------------------------------------
\* Every step keeps Inv.
LEMMA NextInv == Inv /\ [Next]_vars => Inv'
<1> SUFFICES ASSUME Inv, [Next]_vars PROVE Inv'
  OBVIOUS
<1>1. CASE UNCHANGED vars
  <2> USE <1>1 DEF vars
  <2>1. TypeOK' /\ JobFiles' /\ WholeUnlessShared'
    BY DEF Inv, TypeOK, JobFiles, WholeUnlessShared, Whole, Parses
  <2>2. ReadersSeeWhole'
    BY DEF Inv, ReadersSeeWhole, Whole, Parses
  <2>3. \A j \in Jobs : Page(j)' = Page(j)
    BY DEF Page
  <2>4. TmpOwned'
    BY <2>3 DEF Inv, TmpOwned
  <2> QED
    BY <2>1, <2>2, <2>4 DEF Inv
<1> QED
  BY <1>1, OpenPathInv, ReadBlockInv, ReadEndsInv, OpenTmpInv, WriteInv, WriteFailsInv,
     RenameInv, CrashInv DEF Next

\* Inv holds in every reachable state.
LEMMA Invariance == Spec => []Inv
<1> QED
  BY InitInv, NextInv, PTL DEF Spec

\* Every variable of the disk and of the jobs keeps its type.
THEOREM TypeCorrect == Spec => []TypeOK
<1>1. Inv => TypeOK
  BY DEF Inv
<1> QED
  BY Invariance, <1>1, PTL

\* What writers that did not overlap published is a whole page, whatever crashes
\* and full disks left behind.
THEOREM UnsharedFilesWhole == Spec => []WholeUnlessShared
<1>1. Inv => WholeUnlessShared
  BY DEF Inv
<1> QED
  BY Invariance, <1>1, PTL

\* Reading such a file gives one whole page, however it is replaced meanwhile.
THEOREM ReadersAlwaysSeeWhole == Spec => []ReadersSeeWhole
<1>1. Inv => ReadersSeeWhole
  BY DEF Inv
<1> QED
  BY Invariance, <1>1, PTL

-----------------------------------------------------------------------------
\* The files implement PageEntry.

\* The stages, one by one; Stage is not expanded where this is cited.
LEMMA Stages ==
    ASSUME NEW j \in Jobs, TypeOK
    PROVE  /\ Stage(j) = "idle" <=> pc[j] = "idle"
           /\ Stage(j) = "reading" <=> pc[j] = "read"
           /\ Stage(j) = "missed" <=> pc[j] = "fetch"
           /\ Stage(j) = "storing" <=> pc[j] \in Writing
           /\ Stage(j) = "over" <=> pc[j] \in Ended
BY DEF TypeOK, Stage, Writing, Ended

\* A step that neither moves a job to another stage nor changes what a file is
\* worth to its readers is none of the entry's.
LEMMA EntryUnseen ==
    ASSUME Seen(path)' = Seen(path), Clash' = Clash,
           \A k \in Jobs : Stage(k)' = Stage(k) /\ SeenBy(k)' = SeenBy(k)
    PROVE  UNCHANGED Entry!vars
BY DEF Entry!vars

\* What the entry is and what readers see stay the same where the files that are
\* read or published, and their marks, do.
LEMMA FilesKept ==
    ASSUME Inv, UNCHANGED path,
           path # Nil => (path \in shared' <=> path \in shared),
           path # Nil /\ path \notin shared => disk'[path] = disk[path]
    PROVE  Seen(path)' = Seen(path)
BY DEF Seen

LEMMA ReaderKept ==
    ASSUME Inv, NEW k \in Jobs, pc'[k] = pc[k] \/ {pc[k], pc'[k]} \cap {"read", "done"} = {},
           got'[k] = got[k] \/ pc[k] = "read", size'[k] = size[k] \/ pc'[k] # "done",
           pc[k] = "read" => /\ ino'[k] = ino[k]
                             /\ ino[k] \in shared' <=> ino[k] \in shared
                             /\ ino[k] \notin shared => disk'[ino[k]] = disk[ino[k]]
    PROVE  SeenBy(k)' = SeenBy(k)
BY DEF SeenBy, Seen

\* A whole page is some job's.
LEMMA OwnerType ==
    ASSUME NEW c \in Seq(Blocks)
    PROVE  Owner(c) \in Jobs \cup {Torn} /\ (Whole(c) => Owner(c) \in Jobs)
<1>1. ASSUME Whole(c) PROVE c[1].of \in Jobs
  <2>1. c # <<>> /\ c[1] \in Blocks
    BY <1>1, EmptySeq, ElementOfSeq DEF Whole, Parses
  <2> QED
    BY <2>1 DEF Blocks
<1> QED
  BY <1>1 DEF Owner

\* A lookup begins with the file that has the name.
LEMMA OpenPathLooks == ASSUME Inv, NEW j \in Jobs, OpenPath(j) PROVE Entry!Look(j)
<1> USE DEF OpenPath, Goto
<1>1. TypeOK /\ TypeOK'
  BY OpenPathInv DEF Inv
<1>2. /\ pc' = [pc EXCEPT ![j] = IF path = Nil THEN "fetch" ELSE "read"]
      /\ pc[j] = "idle" /\ path # Nil => ino' = [ino EXCEPT ![j] = path]
      /\ \A k \in Jobs : k # j => pc'[k] = pc[k] /\ ino'[k] = ino[k]
      /\ UNCHANGED <<disk, path, tmp, got, size, shared>>
  BY DEF Inv, TypeOK
<1>3. /\ Stage(j) = "idle" /\ Stage(j)' = IF path = Nil THEN "missed" ELSE "reading"
      /\ \A k \in Jobs : k # j => Stage(k)' = Stage(k)
  BY <1>2 DEF Inv, TypeOK, Stage, Writing
<1>4. SeenBy(j)' = Seen(path) /\ \A k \in Jobs : k # j => SeenBy(k)' = SeenBy(k)
  BY <1>2 DEF Inv, TypeOK, SeenBy, Seen
<1>5. Seen(path)' = Seen(path) /\ (Seen(path) = Nil <=> path = Nil)
  <2>1. path # Nil /\ path \notin shared => disk[path][1].of \in Jobs /\ Whole(disk[path])
    BY OwnerType DEF Inv, TypeOK, WholeUnlessShared, Owner
  <2> QED
    BY <1>2, <2>1, NullAssumption DEF Seen, Owner
<1>6. Clash' = Clash
  BY <1>2 DEF Inv, TypeOK, Clash, Writing
<1> QED
  BY <1>3, <1>4, <1>5, <1>6 DEF Entry!Look, Entry!Goto, Entry!See

\* One block more is nothing to anyone else, nor yet to the reader.
LEMMA ReadBlockUnseen == ASSUME Inv, NEW j \in Jobs, ReadBlock(j) PROVE UNCHANGED Entry!vars
<1> USE DEF ReadBlock
<1>1. \A k \in Jobs : Stage(k)' = Stage(k) /\ (got'[k] = got[k] \/ pc[k] = "read")
  BY DEF Inv, TypeOK, Stage
<1>2. \A k \in Jobs : SeenBy(k)' = SeenBy(k)
  BY <1>1, ReaderKept
<1>3. Clash' = Clash
  BY DEF Clash
<1> QED
  BY <1>1, <1>2, <1>3, FilesKept, EntryUnseen

\* At its end a whole page is a hit, of the job that it was when the lookup began;
\* a torn one is what it parses as, or a miss.
LEMMA ReadEndsHits ==
    ASSUME Inv, NEW j \in Jobs, ReadEnds(j) PROVE Entry!Hit(j) \/ Entry!Miss(j)
<1> USE DEF ReadEnds, Goto, Close
<1>1. /\ pc[j] = "read" /\ ino[j] \in Inodes /\ ino[j] # Nil /\ size[j] = 0
      /\ pc' = [pc EXCEPT ![j] = IF Parses(got[j]) THEN "done" ELSE "fetch"]
      /\ UNCHANGED <<disk, path, tmp, got, size, shared>>
      /\ \A k \in Jobs : k # j => pc'[k] = pc[k] /\ ino'[k] = ino[k]
  BY NullAssumption DEF Inv, TypeOK, JobFiles
<1>2. /\ Stage(j) = "reading"
      /\ Stage(j)' = IF Parses(got[j]) THEN "over" ELSE "missed"
      /\ \A k \in Jobs : k # j => Stage(k)' = Stage(k)
  BY <1>1 DEF Inv, TypeOK, Stage, Writing
<1>3. /\ SeenBy(j) = IF ino[j] \in shared THEN Torn ELSE Owner(disk[ino[j]])
      /\ SeenBy(j)' = IF Parses(got[j]) THEN Owner(got[j]) ELSE Nil
      /\ \A k \in Jobs : k # j => SeenBy(k)' = SeenBy(k)
  BY <1>1 DEF Inv, TypeOK, SeenBy, Seen
<1>4. Seen(path)' = Seen(path) /\ Clash' = Clash
  BY <1>1 DEF Inv, TypeOK, Clash, Writing, Seen
<1>5. CASE ino[j] \in shared
  <2>1. Owner(got[j]) \in Jobs \cup {Torn}
    BY OwnerType DEF Inv, TypeOK
  <2>2. CASE Parses(got[j])
    BY <1>2, <1>3, <1>4, <1>5, <2>1, <2>2 DEF Entry!Hit, Entry!Goto, Entry!See
  <2>3. CASE ~Parses(got[j])
    BY <1>2, <1>3, <1>4, <1>5, <2>3 DEF Entry!Miss, Entry!Goto, Entry!See
  <2> QED
    BY <2>2, <2>3
<1>6. CASE ino[j] \notin shared
  <2>1. got[j] = disk[ino[j]] /\ Whole(got[j])
    <3> DEFINE c == disk[ino[j]]
    <3>1. /\ Whole(c) /\ Len(got[j]) <= Len(c) /\ got[j] = SubSeq(c, 1, Len(got[j]))
          /\ Len(got[j]) >= Len(c)
      BY <1>1, <1>6 DEF Inv, ReadersSeeWhole
    <3>2. c \in Seq(Blocks) /\ got[j] \in Seq(Blocks)
      BY <1>1 DEF Inv, TypeOK
    <3>3. Len(got[j]) = Len(c)
      BY <3>1, <3>2
    <3>4. SubSeq(c, 1, Len(c)) = c
      BY <3>2, SubSeqFull
    <3> QED
      BY <3>1, <3>3, <3>4
  <2>2. Parses(got[j]) /\ Owner(got[j]) \in Jobs
    BY <2>1, OwnerType DEF Inv, TypeOK, Whole
  <2>3. SeenBy(j)' = SeenBy(j) /\ SeenBy(j) # Torn
    BY <1>3, <1>6, <2>1, <2>2, NullAssumption
  <2> QED
    BY <1>2, <1>3, <1>4, <2>2, <2>3 DEF Entry!Hit, Entry!Goto
<1> QED
  BY <1>5, <1>6

\* Opening the temporary file begins a store, and a clash if another is underway.
LEMMA OpenTmpBegins == ASSUME Inv, NEW j \in Jobs, OpenTmp(j) PROVE Entry!BeginStore(j)
<1> USE DEF OpenFor, Goto
<1>1. PICK n \in 1..MaxBlocks, i \in Inodes :
          /\ OpenFor(j, n, i)
          /\ IF tmp = Nil THEN Free(i) ELSE i = tmp
          /\ disk' = [disk EXCEPT ![i] = <<>>]
          /\ tmp' = i
          /\ UNCHANGED path
  BY DEF OpenTmp
<1>2. /\ i # path /\ i # Nil /\ \A k \in Jobs : pc[k] = "read" => ino[k] # i
      /\ \A m \in Inodes : m # i => /\ disk'[m] = disk[m]
                                    /\ m \in shared' <=> m \in shared
  BY <1>1, NullAssumption DEF Free, Inv, TypeOK, TmpOwned
<1>3. /\ pc[j] = "fetch" /\ pc' = [pc EXCEPT ![j] = "write"] /\ got' = got
      /\ \A k \in Jobs : k # j => pc'[k] = pc[k] /\ ino'[k] = ino[k] /\ size'[k] = size[k]
  BY <1>1 DEF Inv, TypeOK
<1>4. /\ Stage(j) = "missed" /\ Stage(j)' = "storing"
      /\ \A k \in Jobs : k # j => Stage(k)' = Stage(k)
  BY <1>3 DEF Inv, TypeOK, Stage, Writing
<1>5. \A k \in Jobs : SeenBy(k)' = SeenBy(k)
  <2>1. SeenBy(j)' = SeenBy(j)
    BY <1>3 DEF Inv, TypeOK, SeenBy
  <2>2. ASSUME NEW k \in Jobs, k # j PROVE SeenBy(k)' = SeenBy(k)
    <3>1. pc[k] = "read" => ino[k] \in Inodes /\ ino[k] # i
      BY <1>2 DEF Inv, TypeOK, JobFiles
    <3>2. pc'[k] = pc[k] /\ got'[k] = got[k] /\ size'[k] = size[k] /\ ino'[k] = ino[k]
      BY <1>3, <2>2
    <3>3. ASSUME pc[k] = "read"
          PROVE  /\ ino[k] \in shared' <=> ino[k] \in shared
                 /\ ino[k] \notin shared => disk'[ino[k]] = disk[ino[k]]
      BY <1>2, <3>1, <3>3
    <3> QED
      BY <3>2, <3>3, ReaderKept
  <2> QED
    BY <2>1, <2>2
<1>6. Seen(path)' = Seen(path)
  BY <1>1, <1>2, FilesKept DEF Inv, TypeOK
<1>7. {k \in Jobs : Stage(k) = "storing"} = {k \in Jobs : pc[k] \in Writing}
  BY Stages DEF Inv
<1>8. Clash' = IF {k \in Jobs : pc[k] \in Writing} = {} THEN Clash
               ELSE {k \in Jobs : pc[k] \in Writing} \cup {j}
  <2>1. CASE \E k \in Jobs : pc[k] \in Writing
    <3>1. tmp' \in shared' /\ \A k \in Jobs : pc'[k] \in Writing <=> pc[k] \in Writing \/ k = j
      BY <1>1, <1>3, <2>1 DEF Inv, TypeOK, Writing
    <3> QED
      BY <2>1, <3>1 DEF Clash
  <2>2. CASE \A k \in Jobs : pc[k] \notin Writing
    BY <1>1, <1>2, <2>2 DEF Clash
  <2> QED
    BY <2>1, <2>2
<1> QED
  BY <1>3, <1>4, <1>5, <1>6, <1>7, <1>8
     DEF Entry!BeginStore, Entry!Goto, Entry!Storing

\* Writing changes nothing that is published or read, unless it is torn already.
LEMMA WriteUnseen == ASSUME Inv, NEW j \in Jobs, Write(j) PROVE UNCHANGED Entry!vars
<1> USE DEF Write, Goto, Close
<1>1. Page(j) \in Seq(Blocks) /\ Len(Page(j)) <= MaxBlocks
  BY PageWhole DEF Inv, JobFiles, Writing
<1>2. /\ \A k \in Jobs : pc[k] = "read" /\ ino[k] \notin shared => disk'[ino[k]] = disk[ino[k]]
      /\ path # Nil /\ path \notin shared => disk'[path] = disk[path]
  BY <1>1, WriteElsewhere DEF Inv
<1>3. /\ pc[j] = "write" /\ pc' = [pc EXCEPT ![j] = "rename"]
      /\ \A k \in Jobs : k # j => pc'[k] = pc[k] /\ ino'[k] = ino[k]
  BY DEF Inv, TypeOK
<1>4. \A k \in Jobs : Stage(k)' = Stage(k)
  BY <1>3 DEF Inv, TypeOK, Stage, Writing
<1>5. \A k \in Jobs : SeenBy(k)' = SeenBy(k)
  <2>1. SeenBy(j)' = SeenBy(j)
    BY <1>3 DEF Inv, TypeOK, SeenBy
  <2> QED
    BY <1>2, <1>3, <2>1, ReaderKept
<1>6. Clash' = Clash
  BY <1>3 DEF Inv, TypeOK, Clash, Writing
<1> QED
  BY <1>2, <1>4, <1>5, <1>6, FilesKept, EntryUnseen

\* A write that fails ends a store without an entry.
LEMMA WriteFailsGivesUp == ASSUME Inv, NEW j \in Jobs, WriteFails(j) PROVE Entry!GiveUp(j)
<1> USE DEF WriteFails, Goto, Close
<1>1. PICK n \in 0..size[j] - 1 :
          disk' = [disk EXCEPT ![ino[j]] = Overlaid(SubSeq(Page(j), 1, n), @)]
  OBVIOUS
<1>2. size[j] \in Nat /\ size[j] > 0 /\ n \in 0..size[j]
  BY BlocksAssumption DEF Inv, TypeOK, JobFiles, Writing
<1>3. SubSeq(Page(j), 1, n) \in Seq(Blocks) /\ Len(SubSeq(Page(j), 1, n)) <= MaxBlocks
  BY <1>2, PartOfPage DEF Inv
<1>4. /\ \A k \in Jobs : pc[k] = "read" /\ ino[k] \notin shared => disk'[ino[k]] = disk[ino[k]]
      /\ path # Nil /\ path \notin shared => disk'[path] = disk[path]
  BY <1>1, <1>3, WriteElsewhere
<1>5. /\ pc[j] = "write" /\ pc' = [pc EXCEPT ![j] = "uncached"]
      /\ \A k \in Jobs : k # j => pc'[k] = pc[k] /\ ino'[k] = ino[k]
  BY DEF Inv, TypeOK
<1>6. /\ Stage(j) = "storing" /\ Stage(j)' = "over"
      /\ \A k \in Jobs : k # j => Stage(k)' = Stage(k)
  BY <1>5 DEF Inv, TypeOK, Stage, Writing
<1>7. \A k \in Jobs : SeenBy(k)' = SeenBy(k)
  <2>1. SeenBy(j)' = SeenBy(j)
    BY <1>5 DEF Inv, TypeOK, SeenBy
  <2> QED
    BY <1>4, <1>5, <2>1, ReaderKept
<1>8. Clash' = Clash \ {j}
  BY <1>5 DEF Inv, TypeOK, Clash, Writing
<1> QED
  BY <1>4, <1>6, <1>7, <1>8, FilesKept DEF Entry!GiveUp, Entry!Goto

\* The rename stores the page of a job that was alone, and something torn or
\* nothing for one that was not.
LEMMA RenameStores == ASSUME Inv, NEW j \in Jobs, Rename(j) PROVE Entry!Store(j)
<1> USE DEF Rename, Goto
<1>1. /\ pc[j] = "rename" /\ pc' = [pc EXCEPT ![j] = "done"] /\ size[j] > 0
      /\ \A k \in Jobs : k # j => pc'[k] = pc[k]
      /\ UNCHANGED <<disk, ino, got, size, shared>>
  BY DEF Inv, TypeOK, JobFiles, Writing
<1>2. /\ Stage(j) = "storing" /\ Stage(j)' = "over"
      /\ \A k \in Jobs : k # j => Stage(k)' = Stage(k)
  BY <1>1 DEF Inv, TypeOK, Stage, Writing
<1>3. \A k \in Jobs : SeenBy(k)' = SeenBy(k)
  <2>1. SeenBy(j)' = SeenBy(j)
    BY <1>1 DEF Inv, TypeOK, SeenBy
  <2>2. \A k \in Jobs : k # j => SeenBy(k)' = SeenBy(k)
    BY <1>1 DEF SeenBy, Seen
  <2> QED
    BY <2>1, <2>2
<1>4. tmp' = Nil
  OBVIOUS
<1>5. CASE tmp # Nil /\ tmp \notin shared
  <2>1. /\ \A k \in Jobs : pc[k] \in Writing => k = j
        /\ disk[tmp] = Page(j)
    BY <1>1, <1>5 DEF Inv, TmpOwned, Writing
  <2>2. Whole(Page(j)) /\ Page(j)[1].of = j
    <3>1. Whole(Page(j)) /\ size[j] \in Nat /\ size[j] > 0
      BY <1>1, PageWhole, BlocksAssumption DEF Inv, TypeOK
    <3> QED
      BY <3>1 DEF Page
  <2>3. Seen(path)' = j
    BY <1>1, <1>5, <2>1, <2>2 DEF Seen, Owner
  <2>4. Clash = {} /\ Clash' = {}
    BY <1>1, <1>4, <1>5, <2>1 DEF Clash, Writing, Inv, TypeOK
  <2> QED
    BY <1>2, <1>3, <2>3, <2>4 DEF Entry!Store, Entry!Goto
<1>6. CASE tmp = Nil \/ tmp \in shared
  <2>1. j \in Clash
    BY <1>1, <1>6 DEF Clash, Writing
  <2>2. Clash' = Clash \ {j}
    BY <1>1, <1>4, <1>6 DEF Clash, Writing, Inv, TypeOK
  <2>3. Seen(path)' \in {Seen(path), Torn}
    BY <1>1, <1>6, NullAssumption DEF Seen, Inv, TypeOK
  <2> QED
    BY <1>2, <1>3, <2>1, <2>2, <2>3 DEF Entry!Store, Entry!Goto
<1> QED
  BY <1>5, <1>6

\* The entry survives a crash, whatever was being written.
LEMMA CrashDies == ASSUME Inv, Crash PROVE Entry!Die
<1> USE DEF Crash
<1>1. path # Nil /\ path \notin shared => disk'[path] = disk[path]
  <2>1. CASE UNCHANGED disk
    BY <2>1
  <2>2. ASSUME NEW j \in Jobs, pc[j] = "write", NEW n \in 1..size[j],
               disk' = [disk EXCEPT ![ino[j]] = Overlaid(SubSeq(Page(j), 1, n), @)]
        PROVE  path # Nil /\ path \notin shared => disk'[path] = disk[path]
    <3>1. size[j] > 0 /\ n \in 0..size[j]
      BY <2>2 DEF Inv, JobFiles, Writing
    <3>2. SubSeq(Page(j), 1, n) \in Seq(Blocks) /\ Len(SubSeq(Page(j), 1, n)) <= MaxBlocks
      BY <3>1, PartOfPage DEF Inv
    <3> QED
      BY <2>2, <3>2, WriteElsewhere
  <2> QED
    BY <2>1, <2>2
<1>2. \A k \in Jobs : Stage(k)' = IF Stage(k) = "idle" THEN "idle" ELSE "over"
  BY DEF Inv, TypeOK, Stage, Writing, Ended
<1>3. \A k \in Jobs : SeenBy(k)' = IF Stage(k) = "reading" THEN Nil ELSE SeenBy(k)
  <2> SUFFICES ASSUME NEW k \in Jobs
               PROVE  SeenBy(k)' = IF Stage(k) = "reading" THEN Nil ELSE SeenBy(k)
    OBVIOUS
  <2>1. /\ pc'[k] # "read" /\ got'[k] = got[k] /\ size'[k] = size[k]
        /\ pc'[k] = "done" <=> pc[k] = "done"
        /\ Stage(k) = "reading" <=> pc[k] = "read"
    BY Stages DEF Inv, TypeOK, Ended
  <2> QED
    BY <2>1 DEF SeenBy
<1>4. Clash' = {}
  BY DEF Clash, Writing, Ended
<1> QED
  BY <1>1, <1>2, <1>3, <1>4, FilesKept DEF Entry!Die

\* Nothing was stored or looked up yet.
LEMMA EntryInit == Init => Entry!Init
BY DEF Init, Entry!Init, Seen, Stage, SeenBy, Clash, Writing

\* Every step on the files is one on the entry, or unseen.
LEMMA EntryStep == Inv /\ [Next]_vars => [Entry!Next]_(Entry!vars)
<1> SUFFICES ASSUME Inv, [Next]_vars PROVE Entry!Next \/ UNCHANGED Entry!vars
  OBVIOUS
<1>1. ASSUME NEW j \in Jobs,
             \/ OpenPath(j) \/ ReadBlock(j) \/ ReadEnds(j)
             \/ OpenTmp(j) \/ Write(j) \/ WriteFails(j) \/ Rename(j)
      PROVE  Entry!Next \/ UNCHANGED Entry!vars
  BY <1>1, OpenPathLooks, ReadBlockUnseen, ReadEndsHits, OpenTmpBegins, WriteUnseen,
     WriteFailsGivesUp, RenameStores DEF Entry!Next
<1>2. CASE Crash
  BY <1>2, CrashDies DEF Entry!Next
<1>3. CASE UNCHANGED vars
  <2> USE <1>3 DEF vars
  <2>1. Clash' = Clash /\ Seen(path)' = Seen(path)
    BY DEF Clash, Seen
  <2>2. \A k \in Jobs : Stage(k)' = Stage(k) /\ SeenBy(k)' = SeenBy(k)
    BY DEF Stage, SeenBy, Seen
  <2> QED
    BY <2>1, <2>2, EntryUnseen
<1> QED
  BY <1>1, <1>2, <1>3 DEF Next

\* The file of a link is as good as one entry stored and looked up in one step,
\* for all jobs that do not store at the same time.
THEOREM FileIsEntry == Spec => IsEntry
<1>1. Spec => []Inv
  BY Invariance
<1> QED
  BY <1>1, EntryInit, EntryStep, PTL DEF Spec, IsEntry, Entry!Spec
=============================================================================
