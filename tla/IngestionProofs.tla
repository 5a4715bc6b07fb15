-------------------------- MODULE IngestionProofs --------------------------
(***************************************************************************)
(* Proofs about Ingestion, for any paths, archives, repositories, filters  *)
(* and limits, and any number of executions and crashes.                   *)
(*                                                                         *)
(* What is on the disk is explained by the place the worker has reached:   *)
(* by the members behind it while it extracts, by the repository while it  *)
(* fetches, whatever git does and however the last execution ended.  None  *)
(* of that holds when a git was left running: then the files are typed,    *)
(* and no more is known of them.                                           *)
(***************************************************************************)
EXTENDS Ingestion, FiniteSetTheorems, WellFoundedInduction, TLAPS

\* Nothing is left of another execution, and files are in directories.
TreeIsSound == \A p \in Files : disk[p].by = run /\ Above[p] \subseteq Dirs

\* The part that holds whoever writes.
TreeIsTyped ==
  /\ disk \in [Path -> Entry]
  /\ \A p \in Path : disk[p].kind = "none" => disk[p] = Nothing

TreeOK ==
  /\ disk \in [Path -> Entry]
  /\ \A p \in Path : disk[p].kind = "none" => disk[p] = Nothing
  /\ TreeIsSound

\* The worker begins with an empty workspace.
BeginsEmpty == at \in {"extract", "fetch"} => Files = {}

\* The member that is copied is a file, of which all that was written is there.
CopyIsOpen ==
  at = "copy" =>
    /\ pos <= Len(Members) /\ Current.kind = "file"
    /\ Current.path \in Files /\ disk[Current.path].size = written
    /\ written <= Current.real /\ written <= MaxUncompressed - total

\* Every other file is the last member of its name.
Extracted ==
  ~FromGit /\ at \in {"member", "copy", "scan", "analyse"} =>
    \A p \in Files :
      \/ at = "copy" /\ p = Current.path
      \/ \E i \in LastOf(p) : disk[p].size = Members[i].real

\* What git writes is of the repository, and all of it when git is done.
Cloning ==
  FromGit /\ at \in {"fetch", "scan", "analyse"} \cup Fetching =>
    /\ repo \in Repos /\ Files \subseteq repo
    /\ git = "done" => repo \subseteq Files
    /\ at \in {"watch", "read"} => git \in {"running", "done", "error"}
    /\ at = "exited" => git \in {"done", "error"}
    /\ at \in {"restore", "scan", "analyse"} =>
         git = "done" \/ (git = "error" /\ attempt = Attempts)

\* git only runs while the worker watches it.
GitIsWatched == git = "running" => at \in {"watch", "read"}

\* What is analysed is what the inventory of this tree has found.
Inventoried ==
  at = "analyse" =>
    LET found == FirstOf(Kept) IN
    /\ sources = IF found = {} THEN FirstOf(KeptAnyway) ELSE found
    /\ rejected = Refusals(found)

\* The rejected members are behind the one at hand.
RefusedBefore == refused \subseteq 1..pos - 1

\* A git that is left running is one of a clone.
StraysAreKnown == (strays # {} => astray) /\ (astray => FromGit)

\* What holds of the tree unless a stray writes into it.
Undisturbed ==
  TreeIsSound /\ BeginsEmpty /\ CopyIsOpen /\ Extracted /\ Cloning /\ Inventoried

IInv ==
  /\ TypeOK /\ RefusedBefore /\ GitIsWatched /\ StraysAreKnown /\ WorkspaceGone
  /\ ~astray => Undisturbed

-----------------------------------------------------------------------------
(***************************************************************************)
(* The tree.                                                               *)
(***************************************************************************)
LEMMA SizesOfEntries ==
  ASSUME run \in 0..MaxRuns
  PROVE  /\ Nothing \in Entry /\ Dir \in Entry
         /\ \A n \in Nat : [kind |-> "file", size |-> n, by |-> run] \in Entry
BY WorkspaceAssumption DEF Entry, Nothing, Dir

\* mkdir changes no file, and leaves what was there.
LEMMA MakingDirs ==
  ASSUME TreeOK, run \in 0..MaxRuns, run' = run, NEW dirs \in SUBSET Path,
         disk' = WithDirs(disk, dirs)
  PROVE  /\ TreeOK' /\ Files' = Files
         /\ \A p \in Files : disk'[p] = disk[p]
<1>1. \A p \in Path : disk'[p] = IF p \in dirs /\ disk[p].kind = "none" THEN Dir ELSE disk[p]
  BY DEF WithDirs
<1>2. disk' \in [Path -> Entry] BY SizesOfEntries DEF TreeOK, WithDirs
<1>3. Files' = Files /\ \A p \in Files : disk'[p] = disk[p] BY <1>1 DEF Files, Dir
<1>4. Dirs \subseteq Dirs' BY <1>1 DEF Dirs
<1>5. TreeIsSound' BY <1>3, <1>4 DEF TreeOK, TreeIsSound
<1>6. \A p \in Path : disk'[p].kind = "none" => disk'[p] = Nothing
  BY <1>1 DEF TreeOK, Dir
<1>. QED BY <1>2, <1>3, <1>5, <1>6 DEF TreeOK

\* A file is written where there is no directory, and not below a file.
LEMMA WritingFile ==
  ASSUME TreeOK, run \in 0..MaxRuns, run' = run, NEW p \in Path, NEW n \in Nat,
         p \notin Dirs, Above[p] \cap Files = {}, disk' = WithFile(p, n)
  PROVE  /\ TreeOK' /\ Files' = Files \cup {p} /\ disk'[p].size = n
         /\ \A q \in Files \ {p} : disk'[q] = disk[q]
<1>. DEFINE file == [kind |-> "file", size |-> n, by |-> run]
<1>1. p \notin Above[p] /\ Above[p] \subseteq Path BY WorkspaceAssumption
<1>2. \A q \in Path : disk'[q] = IF q = p THEN file
                                 ELSE IF q \in Above[p] /\ disk[q].kind = "none" THEN Dir ELSE disk[q]
  BY DEF WithFile, WithDirs
<1>3. disk' \in [Path -> Entry] BY <1>2, SizesOfEntries DEF TreeOK, WithFile, WithDirs
<1>4. /\ Files' = Files \cup {p} /\ disk'[p].size = n
      /\ \A q \in Files \ {p} : disk'[q] = disk[q]
  BY <1>2 DEF Files, Dir
<1>5. Dirs \cup Above[p] \subseteq Dirs'
  <2>1. \A q \in Path : disk[q].kind \in {"none", "dir", "file"} BY DEF TreeOK, Entry
  <2>. QED BY <1>1, <1>2, <2>1 DEF Dirs, Files, Dir
<1>6. TreeIsSound'
  <2>1. disk'[p].by = run BY <1>2
  <2>. QED BY <1>4, <1>5, <2>1 DEF TreeOK, TreeIsSound
<1>7. \A q \in Path : disk'[q].kind = "none" => disk'[q] = Nothing
  BY <1>2 DEF TreeOK, Dir
<1>. QED BY <1>3, <1>4, <1>6, <1>7 DEF TreeOK

\* A file is removed; its directories stay.
LEMMA RemovingFile ==
  ASSUME TreeOK, run' = run, NEW p \in Files, disk' = Without(p)
  PROVE  TreeOK' /\ Files' = Files \ {p}
<1>1. \A q \in Path : disk'[q] = IF q = p THEN Nothing ELSE disk[q]
  BY DEF TreeOK, Without
<1>2. disk' \in [Path -> Entry]
  <2>1. Nothing \in Entry BY WorkspaceAssumption DEF Nothing, Entry
  <2>. QED BY <2>1 DEF TreeOK, Without
<1>3. Files' = Files \ {p} BY <1>1 DEF Files, Nothing
<1>4. Dirs' = Dirs BY <1>1 DEF Dirs, Files, Nothing
<1>5. TreeIsSound' BY <1>1, <1>3, <1>4 DEF TreeOK, TreeIsSound, Files
<1>6. \A q \in Path : disk'[q].kind = "none" => disk'[q] = Nothing
  BY <1>1 DEF TreeOK
<1>. QED BY <1>2, <1>3, <1>5, <1>6 DEF TreeOK

\* git writes files of the repository, of which none is below another.
LEMMA WritingRepo ==
  ASSUME TreeOK, run \in 0..MaxRuns, run' = run, repo \in Repos, Files \subseteq repo,
         NEW ps \in SUBSET repo, disk' = WithFiles(ps)
  PROVE  TreeOK' /\ Files' = Files \cup ps
<1>. DEFINE above == UNION {Above[q] : q \in ps}
<1>1. repo \subseteq Path /\ \A p \in repo : Above[p] \subseteq Path /\ Above[p] \cap repo = {}
  BY FetchAssumption, WorkspaceAssumption
<1>2. above \subseteq Path /\ above \cap repo = {} BY <1>1
<1>3. \A q \in Path : disk'[q] =
        IF q \in ps THEN [kind |-> "file", size |-> RepoSize[q], by |-> run]
        ELSE IF q \in above /\ disk[q].kind = "none" THEN Dir ELSE disk[q]
  BY DEF WithFiles, WithDirs
<1>4. disk' \in [Path -> Entry]
  <2>1. DOMAIN disk' = Path /\ disk' = [q \in Path |-> disk'[q]] BY DEF WithFiles
  <2>2. \A q \in Path : RepoSize[q] \in Nat BY FetchAssumption
  <2>3. \A q \in Path : disk'[q] \in Entry BY <1>3, <2>2, SizesOfEntries DEF TreeOK
  <2>. QED BY <2>1, <2>3
<1>5. ps \subseteq Path /\ \A q \in ps : Above[q] \subseteq above BY <1>1
<1>. HIDE DEF above
<1>6. \A q \in ps : disk'[q].kind = "file" /\ disk'[q].by = run
  <2>. SUFFICES ASSUME NEW q \in ps PROVE disk'[q].kind = "file" /\ disk'[q].by = run OBVIOUS
  <2>1. disk'[q] = [kind |-> "file", size |-> RepoSize[q], by |-> run] BY <1>3, <1>5
  <2>. QED BY <2>1
<1>7. \A q \in Path \ ps :
         disk'[q] = IF q \in above /\ disk[q].kind = "none" THEN Dir ELSE disk[q]
  BY <1>3
<1>8. Files' = Files \cup ps BY <1>5, <1>6, <1>7 DEF Files, Dir
<1>9. \A q \in Files' : disk'[q].by = run
  BY <1>8, <1>6, <1>7 DEF TreeOK, TreeIsSound, Files, Dir
<1>10. Dirs \ repo \subseteq Dirs' /\ above \subseteq Dirs'
  <2>1. \A q \in Path : disk[q].kind \in {"none", "dir", "file"} BY DEF TreeOK, Entry
  <2>2. above \cap Files = {} BY <1>2
  <2>. QED BY <1>2, <1>7, <2>1, <2>2 DEF Dirs, Files, Dir
<1>11. \A q \in Files' : Above[q] \subseteq Dirs'
  <2>1. ASSUME NEW q \in Files PROVE Above[q] \subseteq Dirs'
    BY <1>1, <1>10 DEF TreeOK, TreeIsSound
  <2>2. ASSUME NEW q \in ps PROVE Above[q] \subseteq Dirs' BY <1>10, <1>5
  <2>. QED BY <1>8, <2>1, <2>2
<1>12. \A q \in Path : disk'[q].kind = "none" => disk'[q] = Nothing
  BY <1>6, <1>7 DEF TreeOK, Dir
<1>. QED BY <1>4, <1>8, <1>9, <1>11, <1>12 DEF TreeOK, TreeIsSound

\* Whatever is there, what git writes are entries like the others.
FileEntry == [kind : {"file"}, size : Nat, by : 0..MaxRuns]

LEMMA WritingAnywhere ==
  ASSUME TypeOK, disk' = [q \in Path |-> disk'[q]],
         \A q \in Path : disk'[q] \in {disk[q], Dir} \cup FileEntry
  PROVE  TreeIsTyped'
<1>1. FileEntry \subseteq Entry /\ \A e \in FileEntry : e.kind = "file"
  BY DEF FileEntry, Entry
<1>2. \A q \in Path : disk'[q] \in Entry BY <1>1, SizesOfEntries DEF TypeOK
<1>3. disk' \in [Path -> Entry] BY <1>2
<1>4. \A q \in Path : disk'[q].kind = "none" => disk'[q] = Nothing
  BY <1>1 DEF TypeOK, Dir
<1>. QED BY <1>3, <1>4 DEF TreeIsTyped

LEMMA EmptyTree ==
  ASSUME disk' = Empty
  PROVE  TreeOK' /\ TreeIsTyped' /\ Files' = {}
BY WorkspaceAssumption DEF TreeOK, TreeIsTyped, TreeIsSound, Files, Empty, Nothing, Entry

-----------------------------------------------------------------------------
(***************************************************************************)
(* Extraction.                                                             *)
(***************************************************************************)
LEMMA MembersAreTyped ==
  ASSUME TypeOK
  PROVE  /\ Members \in Seq(Member) /\ Len(Members) \in Nat
         /\ \A i \in 1..Len(Members) : Members[i] \in Member
<1>1. upload.members \in Seq(Member)
  <2>1. CASE upload \in Archives BY <2>1, ArchiveAssumption
  <2>2. CASE upload = NoUpload
    <3>1. upload.members = <<>> BY <2>2 DEF NoUpload
    <3>. QED BY <3>1
  <2>. QED BY <2>1, <2>2 DEF TypeOK
<1>. QED BY <1>1 DEF Members

Extracting ==
  Extract /\ UNCHANGED <<fetching, sources, rejected, crashes>>

\* The part of the state that extraction leaves alone.
LEMMA ExtractionApart ==
  ASSUME IInv, Extracting
  PROVE  /\ UNCHANGED <<run, open, orphans, upload, repo, attempt, git, said, late, gitDir,
                        strays, astray, sources, rejected, crashes>>
         /\ at \in {"extract", "member", "copy"} /\ at' \in {"member", "copy", "scan", "closing"}
         /\ result' \in {"none", "ingested", "failed"}
         /\ ~FromGit /\ ~FromGit' /\ ~astray /\ Undisturbed
<1>1. /\ UNCHANGED <<run, open, orphans, upload, repo, attempt, git, said, late, gitDir,
                     strays, astray, sources, rejected, crashes>>
      /\ at \in {"extract", "member", "copy"} /\ at' \in {"member", "copy", "scan", "closing"}
      /\ result' \in {result, "failed"}
  <2>. USE DEF place, extraction, fetching, Goto, Fail, Extracting
  <2>1. CASE OpenArchive BY <2>1 DEF OpenArchive
  <2>2. CASE RefuseMember BY <2>2 DEF RefuseMember
  <2>3. CASE MakeDirectory BY <2>3 DEF MakeDirectory
  <2>4. CASE OpenMember BY <2>4 DEF OpenMember
  <2>5. CASE CopyChunk BY <2>5 DEF CopyChunk
  <2>6. CASE CloseMember BY <2>6 DEF CloseMember
  <2>7. CASE EndExtraction BY <2>7 DEF EndExtraction
  <2>. QED BY <2>1, <2>2, <2>3, <2>4, <2>5, <2>6, <2>7 DEF Extracting, Extract
<1>2. ~FromGit BY <1>1 DEF IInv, TypeOK
<1>. QED BY <1>1, <1>2 DEF IInv, TypeOK, FromGit, StraysAreKnown

\* What extraction changes.
Progress ==
  /\ TreeOK /\ RefusedBefore /\ CopyIsOpen /\ Extracted
  /\ pos \in 1..Len(Members) + 1
  /\ written \in 0..MaxMember /\ total \in 0..MaxUncompressed

\* The members stored so far do not depend on what comes after them.
LEMMA StoredNext ==
  ASSUME TypeOK, RefusedBefore, pos <= Len(Members), upload' = upload,
         pos' = pos + 1, refused' = refused
  PROVE  /\ Current.kind # "file" => Stored' = Stored
         /\ Current.kind = "file" => Stored' = Stored \cup {pos}
<1>1. pos \in Nat \ {0} /\ pos \notin refused /\ Members' = Members
  BY MembersAreTyped DEF TypeOK, RefusedBefore, Members
<1>2. 1..pos' - 1 = (1..pos - 1) \cup {pos} BY <1>1
<1>. QED BY <1>1, <1>2 DEF Stored, Current

LEMMA ExtractionFollows ==
  ASSUME IInv, Extracting
  PROVE  Progress'
<1>1. /\ run' = run /\ upload' = upload /\ ~FromGit /\ ~FromGit' /\ run \in 0..MaxRuns
      /\ Members' = Members
  BY ExtractionApart DEF IInv, TypeOK, Members
<1>2. /\ TypeOK /\ RefusedBefore /\ TreeOK /\ CopyIsOpen /\ Extracted /\ BeginsEmpty
      /\ pos \in Nat \ {0} /\ Len(Members) \in Nat
      /\ written \in Nat /\ total \in Nat /\ MaxMember \in Nat /\ MaxUncompressed \in Nat
      /\ pos \in 1..Len(Members) + 1 /\ written \in 0..MaxMember /\ total \in 0..MaxUncompressed
  BY MembersAreTyped, ArchiveAssumption, ExtractionApart DEF IInv, Undisturbed, TypeOK, TreeOK
<1>3. \A i \in 1..Len(Members) : Members[i].path \in Path /\ Members[i].real \in Nat
  BY <1>2, MembersAreTyped DEF Member
<1>4. ASSUME UNCHANGED disk PROVE TreeOK' /\ Files' = Files
  BY <1>1, <1>2, <1>4 DEF TreeOK, TreeIsSound, Files, Dirs
<1>5. ASSUME UNCHANGED <<pos, refused>> PROVE Stored' = Stored /\ \A p : LastOf(p)' = LastOf(p)
  BY <1>1, <1>5 DEF Stored, LastOf
<1>. USE <1>1
<1>6. CASE OpenArchive
  <2>1. /\ pos' = 1 /\ written' = 0 /\ total' = 0 /\ refused' = {} /\ UNCHANGED disk
        /\ at' \in {"member", "closing"} /\ Files = {}
    BY <1>2, <1>6 DEF OpenArchive, Goto, Fail, BeginsEmpty
  <2>. QED BY <1>2, <1>4, <2>1 DEF Progress, RefusedBefore, CopyIsOpen, Extracted
<1>7. CASE RefuseMember
  <2>1. /\ at = "member" /\ at' = "member" /\ pos <= Len(Members)
        /\ refused' = refused \cup {pos} /\ pos' = pos + 1
        /\ UNCHANGED <<disk, written, total>>
    BY <1>7 DEF RefuseMember, place
  <2>2. Stored' = Stored
    <3>1. 1..pos' - 1 = (1..pos - 1) \cup {pos} BY <1>2, <2>1
    <3>. QED BY <1>2, <2>1, <3>1 DEF Stored, RefusedBefore
  <2>3. Extracted' BY <1>2, <1>4, <2>1, <2>2 DEF Extracted, LastOf
  <2>4. RefusedBefore' BY <1>2, <2>1 DEF RefusedBefore
  <2>. QED BY <1>2, <1>4, <2>1, <2>3, <2>4 DEF Progress, CopyIsOpen
<1>8. CASE MakeDirectory
  <2>1. /\ at = "member" /\ pos <= Len(Members) /\ Current.kind = "dir"
        /\ UNCHANGED <<written, total, refused>>
    BY <1>8 DEF MakeDirectory
  <2>2. CASE UNCHANGED <<disk, pos>> /\ at' = "closing"
    BY <1>2, <1>4, <2>1, <2>2 DEF Progress, RefusedBefore, CopyIsOpen, Extracted
  <2>3. CASE /\ disk' = WithDirs(disk, {Current.path} \cup Above[Current.path])
             /\ pos' = pos + 1 /\ at' = "member"
    <3>1. {Current.path} \cup Above[Current.path] \in SUBSET Path
      BY <1>2, <1>3, <2>1, WorkspaceAssumption DEF Current
    <3>2. TreeOK' /\ Files' = Files /\ \A p \in Files : disk'[p] = disk[p]
      BY <1>2, <2>3, <3>1, MakingDirs
    <3>3. Stored' = Stored BY <1>2, <2>1, <2>3, StoredNext
    <3>4. Extracted' BY <1>2, <2>1, <3>2, <3>3 DEF Extracted, LastOf
    <3>5. RefusedBefore' BY <1>2, <2>1, <2>3 DEF RefusedBefore
    <3>. QED BY <1>2, <2>1, <2>3, <3>2, <3>4, <3>5 DEF Progress, CopyIsOpen
  <2>. QED BY <1>8, <2>2, <2>3, <2>1 DEF MakeDirectory, Fail, Goto
<1>9. CASE OpenMember
  <2>1. /\ at = "member" /\ pos <= Len(Members) /\ Current.kind = "file"
        /\ written' = 0 /\ UNCHANGED <<pos, total, refused>>
    BY <1>9 DEF OpenMember
  <2>2. CASE UNCHANGED disk /\ at' = "closing"
    BY <1>2, <1>4, <2>1, <2>2 DEF Progress, RefusedBefore, CopyIsOpen, Extracted
  <2>3. CASE /\ Above[Current.path] \cap Files = {} /\ Current.path \notin Dirs
             /\ at' = "copy" /\ disk' = WithFile(Current.path, 0)
    <3>1. Current.path \in Path /\ Current.real \in Nat /\ Current' = Current
      BY <1>2, <1>3, <2>1 DEF Current
    <3>2. /\ TreeOK' /\ Files' = Files \cup {Current.path} /\ disk'[Current.path].size = 0
          /\ \A q \in Files \ {Current.path} : disk'[q] = disk[q]
      BY <1>2, <2>3, <3>1, WritingFile
    <3>3. CopyIsOpen' BY <1>2, <2>1, <2>3, <3>1, <3>2 DEF CopyIsOpen
    <3>4. Extracted' BY <1>2, <1>5, <2>1, <2>3, <3>1, <3>2 DEF Extracted
    <3>5. RefusedBefore' BY <1>2, <2>1 DEF RefusedBefore
    <3>. QED BY <1>2, <2>1, <3>2, <3>3, <3>4, <3>5 DEF Progress
  <2>. QED BY <1>9, <2>2, <2>3 DEF OpenMember, Writable, Fail, Goto
<1>10. CASE CopyChunk
  <2>1. /\ at = "copy" /\ written < Current.real
        /\ pos <= Len(Members) /\ Current.kind = "file" /\ Current.path \in Files
        /\ UNCHANGED <<pos, total, refused>>
        /\ Current.path \in Path /\ Current.real \in Nat /\ Current' = Current
    BY <1>2, <1>3, <1>10 DEF CopyChunk, CopyIsOpen, Current
  <2>2. CASE at' = "closing" /\ disk' = Without(Current.path) /\ UNCHANGED written
    <3>1. TreeOK' BY <1>2, <2>1, <2>2, RemovingFile
    <3>. QED BY <1>2, <2>1, <2>2, <3>1 DEF Progress, RefusedBefore, CopyIsOpen, Extracted
  <2>3. CASE /\ ~Excessive(written + 1) /\ at' = "copy"
             /\ disk' = WithFile(Current.path, written + 1)
             /\ written' = written + 1
    <3>1. Above[Current.path] \cap Files = {} /\ Current.path \notin Dirs
      BY <1>2, <2>1 DEF TreeOK, TreeIsSound, Files, Dirs
    <3>2. /\ TreeOK' /\ Files' = Files \cup {Current.path}
          /\ disk'[Current.path].size = written + 1
          /\ \A q \in Files \ {Current.path} : disk'[q] = disk[q]
      BY <1>2, <2>1, <2>3, <3>1, WritingFile
    <3>3. written + 1 <= MaxMember /\ written + 1 <= MaxUncompressed - total
      BY <1>2, <2>3 DEF Excessive
    <3>4. CopyIsOpen' BY <1>2, <2>1, <2>3, <3>2, <3>3 DEF CopyIsOpen
    <3>5. Extracted' BY <1>2, <1>5, <2>1, <2>3, <3>2 DEF Extracted
    <3>6. RefusedBefore' BY <1>2, <2>1 DEF RefusedBefore
    <3>. QED BY <1>2, <2>1, <2>3, <3>2, <3>3, <3>4, <3>5, <3>6 DEF Progress
  <2>. QED BY <1>10, <2>1, <2>2, <2>3 DEF CopyChunk, Fail, Goto
<1>11. CASE CloseMember
  <2>1. /\ at = "copy" /\ written = Current.real
        /\ pos <= Len(Members) /\ Current.kind = "file" /\ Current.path \in Files
        /\ disk[Current.path].size = written /\ written <= MaxUncompressed - total
        /\ UNCHANGED <<written, refused>>
    BY <1>2, <1>11 DEF CloseMember, CopyIsOpen
  <2>2. CASE at' = "closing" /\ disk' = Without(Current.path) /\ UNCHANGED <<total, pos>>
    <3>1. TreeOK' BY <1>2, <2>1, <2>2, RemovingFile
    <3>. QED BY <1>2, <2>1, <2>2, <3>1 DEF Progress, RefusedBefore, CopyIsOpen, Extracted
  <2>3. CASE at' = "member" /\ total' = total + written /\ pos' = pos + 1 /\ UNCHANGED disk
    <3>1. Stored' = Stored \cup {pos} BY <1>2, <2>1, <2>3, StoredNext
    <3>2. Stored \subseteq 1..pos - 1 BY DEF Stored
    <3>. PICK q : q = Current.path OBVIOUS
    <3>3. pos \in LastOf(q)' /\ Members'[pos].real = written
      <4>1. \A k \in Stored \cup {pos} : ~(k > pos) BY <1>2, <3>2
      <4>. QED BY <2>1, <3>1, <4>1 DEF LastOf, Current
    <3>4. \A p \in Path \ {q} : LastOf(p) \subseteq LastOf(p)'
      BY <1>2, <3>1, <3>2 DEF LastOf, Current
    <3>5. Extracted'
      <4>1. Files \subseteq Path BY DEF Files
      <4>. QED BY <1>2, <1>4, <2>1, <2>3, <3>3, <3>4, <4>1 DEF Extracted
    <3>6. RefusedBefore' BY <1>2, <2>1, <2>3 DEF RefusedBefore
    <3>. QED BY <1>2, <1>4, <2>1, <2>3, <3>5, <3>6 DEF Progress, CopyIsOpen
  <2>. QED BY <1>11, <2>2, <2>3 DEF CloseMember, Fail, Goto
<1>12. CASE EndExtraction
  <2>1. /\ at = "member" /\ at' \in {"scan", "closing"}
        /\ UNCHANGED <<disk, pos, written, total, refused>>
    BY <1>12 DEF EndExtraction, Fail, Goto, extraction
  <2>2. Extracted' BY <1>2, <1>4, <1>5, <2>1 DEF Extracted
  <2>. QED BY <1>2, <1>4, <2>1, <2>2 DEF Progress, RefusedBefore, CopyIsOpen
<1>. QED BY <1>6, <1>7, <1>8, <1>9, <1>10, <1>11, <1>12 DEF Extracting, Extract

LEMMA ExtractionKeeps ==
  ASSUME IInv, Extracting
  PROVE  IInv'
<1>1. /\ UNCHANGED <<run, open, orphans, upload, repo, attempt, git, said, late, gitDir,
                     strays, astray, sources, rejected, crashes>>
      /\ at \in {"extract", "member", "copy"} /\ at' \in {"member", "copy", "scan", "closing"}
      /\ result' \in {"none", "ingested", "failed"}
      /\ ~FromGit /\ ~FromGit'
  BY ExtractionApart
<1>2. Progress' BY ExtractionFollows
<1>3. TypeOK'
  <2>1. TypeOK /\ Members' = Members /\ Len(Members) \in Nat
    BY <1>1, MembersAreTyped DEF IInv, Members
  <2>2. refused' \subseteq 1..Len(Members)
    <3>1. refused' \subseteq 1..pos' - 1 /\ pos' \in 1..Len(Members) + 1
      BY <1>2, <2>1 DEF Progress, RefusedBefore
    <3>2. ASSUME NEW n \in Nat, NEW m \in 1..n + 1 PROVE 1..m - 1 \subseteq 1..n OBVIOUS
    <3>. QED BY <2>1, <3>1, <3>2
  <2>3. open' BY <1>1, <2>1 DEF TypeOK
  <2>. QED BY <1>1, <1>2, <2>1, <2>2, <2>3 DEF TypeOK, Progress, TreeOK, Labels, Fetching
<1>4. GitIsWatched' /\ StraysAreKnown' /\ WorkspaceGone'
  BY <1>1 DEF IInv, GitIsWatched, StraysAreKnown, WorkspaceGone
<1>5. Undisturbed'
  <2>1. BeginsEmpty' /\ Cloning' /\ Inventoried'
    BY <1>1 DEF BeginsEmpty, Cloning, Inventoried
  <2>. QED BY <1>2, <2>1 DEF Undisturbed, Progress, TreeOK
<1>. QED BY <1>2, <1>3, <1>4, <1>5 DEF IInv, Progress

-----------------------------------------------------------------------------
(***************************************************************************)
(* Fetching.                                                               *)
(***************************************************************************)
Outside == UNCHANGED <<extraction, sources, rejected, crashes>>

\* The part of the state that fetching leaves alone.
LEMMA FetchingApart ==
  ASSUME IInv, (Fetch \/ Git \/ TimePasses) /\ Outside
  PROVE  /\ UNCHANGED <<run, open, orphans, upload, pos, written, total, refused, repo,
                        sources, rejected, crashes>>
         /\ at \in {"fetch"} \cup Fetching /\ at' \in {"scan", "closing"} \cup Fetching
         /\ result' \in {"none", "ingested", "failed"}
         /\ FromGit /\ FromGit'
         /\ \/ UNCHANGED left
            \/ astray' = TRUE /\ strays' \subseteq strays \cup {repo \ Files}
         /\ ~astray' => ~astray
<1>1. /\ UNCHANGED <<run, open, orphans, upload, pos, written, total, refused, repo,
                     sources, rejected, crashes>>
      /\ at \in {"fetch"} \cup Fetching /\ at' \in {"scan", "closing"} \cup Fetching
      /\ result' \in {result, "failed"}
      /\ \/ UNCHANGED left
         \/ astray' = TRUE /\ strays' \subseteq strays \cup {repo \ Files}
      /\ ~astray' => ~astray
  <2>. USE DEF place, extraction, fetching, left, Goto, Fail, Outside, Fetching
  <2>1. CASE BeginFetch BY <2>1 DEF BeginFetch
  <2>2. CASE StartClone BY <2>2 DEF StartClone
  <2>3. CASE WatchClock BY <2>3 DEF WatchClock, NextAttempt
  <2>4. CASE ReadProgress
    <3>1. CASE UNCHANGED left BY <2>4, <3>1 DEF ReadProgress, LeaveGit
    <3>2. CASE LeaveGit /\ git = "running" BY <2>4, <3>2 DEF ReadProgress, LeaveGit
    <3>3. CASE LeaveGit /\ git # "running"
      <4>1. UNCHANGED left BY <3>3 DEF LeaveGit, IInv, TypeOK
      <4>. QED BY <2>4, <3>3, <4>1 DEF ReadProgress, LeaveGit
    <3>. QED BY <2>4, <3>1, <3>2, <3>3 DEF ReadProgress
  <2>5. CASE EndAttempt BY <2>5 DEF EndAttempt
  <2>6. CASE EndFetch BY <2>6 DEF EndFetch
  <2>7. CASE Git BY <2>7 DEF Git, GitWrites, GitExits, GitStep, IInv, GitIsWatched
  <2>8. CASE TimePasses BY <2>8 DEF TimePasses
  <2>. QED BY <2>1, <2>2, <2>3, <2>4, <2>5, <2>6, <2>7, <2>8 DEF Fetch
<1>2. FromGit BY <1>1 DEF IInv, TypeOK
<1>. QED BY <1>1, <1>2 DEF IInv, TypeOK, FromGit

\* What holds of fetching whatever a stray does to the tree.
Typed ==
  /\ TreeIsTyped /\ GitIsWatched
  /\ attempt \in 1..Attempts
  /\ git \in {"none", "running", "refused", "done", "error"}
  /\ said \in BOOLEAN /\ late \in BOOLEAN /\ gitDir \in BOOLEAN

LEMMA FetchingTyped ==
  ASSUME IInv, (Fetch \/ Git \/ TimePasses) /\ Outside
  PROVE  Typed'
<1>1. /\ run \in 0..MaxRuns /\ repo \in SUBSET Path /\ Typed /\ TypeOK
      /\ at \in {"fetch"} \cup Fetching
  BY FetchingApart, FetchAssumption DEF IInv, TypeOK, Typed, TreeIsTyped
<1>2. ASSUME UNCHANGED disk PROVE TreeIsTyped'
  BY <1>1, <1>2 DEF Typed, TreeIsTyped
<1>3. ASSUME NEW ps \in SUBSET repo, disk' = WithFiles(ps) PROVE TreeIsTyped'
  <2>1. disk' = [q \in Path |-> disk'[q]] BY <1>3 DEF WithFiles
  <2>2. \A q \in Path : [kind |-> "file", size |-> RepoSize[q], by |-> run] \in FileEntry
    BY <1>1, FetchAssumption DEF FileEntry
  <2>3. \A q \in Path : disk'[q] \in {disk[q], Dir} \cup FileEntry
    BY <1>3, <2>2 DEF WithFiles, WithDirs
  <2>. QED BY <1>1, <2>1, <2>3, WritingAnywhere
<1>. USE <1>1 DEF Typed, GitIsWatched, Goto, Fail, Attempts, Fetching
<1>4. CASE BeginFetch
  <2>1. TreeIsTyped' BY <1>4, EmptyTree DEF BeginFetch
  <2>2. /\ at' = "clone" /\ attempt' = 1 /\ git' = "none"
        /\ said' = FALSE /\ late' = FALSE /\ gitDir' = FALSE
    BY <1>4 DEF BeginFetch
  <2>3. attempt' \in 1..Attempts BY <2>2
  <2>. QED BY <2>1, <2>2, <2>3
<1>5. CASE StartClone
  <2>1. disk' = Empty BY <1>5 DEF StartClone, Cleared
  <2>. QED BY <1>5, <2>1, EmptyTree DEF StartClone
<1>6. CASE WatchClock BY <1>2, <1>6 DEF WatchClock, NextAttempt
<1>7. CASE ReadProgress BY <1>2, <1>7 DEF ReadProgress, LeaveGit
<1>8. CASE EndAttempt BY <1>2, <1>8 DEF EndAttempt
<1>9. CASE EndFetch
  <2>1. PICK restored \in SUBSET repo :
          disk' = (IF restored = {} THEN disk ELSE WithFiles(restored))
    BY <1>9 DEF EndFetch, Restorable
  <2>2. TreeIsTyped' BY <1>2, <1>3, <2>1
  <2>. QED BY <1>9, <2>2 DEF EndFetch, fetching
<1>10. CASE GitWrites
  <2>1. PICK ps \in SUBSET repo : disk' = disk \/ disk' = WithFiles(ps)
    BY <1>10 DEF GitWrites
  <2>2. TreeIsTyped' BY <1>2, <1>3, <2>1
  <2>. QED BY <1>10, <2>2 DEF GitWrites, GitStep
<1>11. CASE GitExits
  <2>1. TreeIsTyped' BY <1>2, <1>11, EmptyTree DEF GitExits
  <2>. QED BY <1>11, <2>1 DEF GitExits, GitStep
<1>12. CASE TimePasses BY <1>2, <1>12 DEF TimePasses
<1>. QED BY <1>4, <1>5, <1>6, <1>7, <1>8, <1>9, <1>10, <1>11, <1>12 DEF Fetch, Git

\* What fetching and git make of the tree.
Transfer == TreeOK /\ BeginsEmpty /\ Cloning

LEMMA FetchingFollows ==
  ASSUME IInv, (Fetch \/ Git \/ TimePasses) /\ Outside, ~astray'
  PROVE  Transfer'
<1>1. /\ UNCHANGED <<run, repo>> /\ run \in 0..MaxRuns /\ FromGit /\ FromGit'
      /\ at \in {"fetch"} \cup Fetching /\ Undisturbed /\ strays = {} /\ UNCHANGED left
      /\ git = "running" => at \in {"watch", "read"}
  BY FetchingApart DEF IInv, TypeOK, StraysAreKnown, GitIsWatched
<1>2. /\ TypeOK /\ TreeOK /\ BeginsEmpty
      /\ repo \in Repos /\ Files \subseteq repo
      /\ git = "done" => repo \subseteq Files
      /\ at \in {"watch", "read"} => git \in {"running", "done", "error"}
      /\ at = "exited" => git \in {"done", "error"}
      /\ at = "restore" => git = "done" \/ (git = "error" /\ attempt = Attempts)
  BY <1>1 DEF IInv, TypeOK, TreeOK, Cloning, Undisturbed
<1>3. ASSUME UNCHANGED disk PROVE TreeOK' /\ Files' = Files
  BY <1>1, <1>2, <1>3 DEF TreeOK, TreeIsSound, Files, Dirs
<1>. USE <1>1, <1>2 DEF Transfer, BeginsEmpty, Cloning, Fetching, Goto, Fail, Attempts
<1>4. CASE BeginFetch
  <2>1. TreeOK' /\ Files' = {} BY <1>4, EmptyTree DEF BeginFetch
  <2>2. at' = "clone" /\ git' = "none" BY <1>4 DEF BeginFetch
  <2>. QED BY <2>1, <2>2
<1>5. CASE StartClone
  <2>1. TreeOK' /\ Files' = {} BY <1>5, EmptyTree DEF StartClone, Cleared
  <2>. QED BY <1>5, <2>1 DEF StartClone, Cleared, TypeOK
<1>6. CASE WatchClock
  <2>1. TreeOK' /\ Files' = Files BY <1>3, <1>6 DEF WatchClock
  <2>. QED BY <1>6, <2>1 DEF WatchClock, NextAttempt, TypeOK
<1>7. CASE ReadProgress
  <2>1. TreeOK' /\ Files' = Files BY <1>3, <1>7 DEF ReadProgress
  <2>. QED BY <1>7, <2>1 DEF ReadProgress, LeaveGit, TypeOK
<1>8. CASE EndAttempt
  <2>1. TreeOK' /\ Files' = Files BY <1>3, <1>8 DEF EndAttempt
  <2>. QED BY <1>8, <2>1 DEF EndAttempt, Cloned, TypeOK
<1>9. CASE EndFetch
  <2>1. PICK restored \in Restorable :
          /\ disk' = IF restored = {} THEN disk ELSE WithFiles(restored)
          /\ at = "restore" /\ at' \in {"scan", "closing"} /\ UNCHANGED fetching
    BY <1>9 DEF EndFetch
  <2>2. restored \subseteq repo BY DEF Restorable
  <2>3. TreeOK' /\ Files' = Files \cup restored
    <3>1. CASE restored = {} BY <1>3, <2>1, <3>1
    <3>2. CASE restored # {} BY <2>1, <2>2, <3>2, WritingRepo
    <3>. QED BY <3>1, <3>2
  <2>. QED BY <2>1, <2>2, <2>3 DEF fetching, TypeOK
<1>10. CASE GitWrites
  <2>1. PICK ps \in SUBSET repo : disk' = disk \/ disk' = WithFiles(ps)
    BY <1>10 DEF GitWrites
  <2>2. TreeOK' /\ (Files' = Files \/ Files' = Files \cup ps)
    BY <1>3, <2>1, WritingRepo
  <2>. QED BY <1>10, <2>2 DEF GitWrites, GitStep, TypeOK
<1>11. CASE GitExits
  <2>1. CASE UNCHANGED <<disk, gitDir>>
    <3>1. TreeOK' /\ Files' = Files BY <1>3, <2>1
    <3>. QED BY <1>11, <2>1, <3>1, EmptyTree DEF GitExits, GitStep, TypeOK
  <2>2. CASE git' = "error" /\ disk' = Empty /\ gitDir' = FALSE
    BY <1>11, <2>2, EmptyTree DEF GitExits, GitStep, TypeOK
  <2>. QED BY <1>11, <2>1, <2>2 DEF GitExits
<1>12. CASE TimePasses
  <2>1. TreeOK' /\ Files' = Files BY <1>3, <1>12 DEF TimePasses
  <2>. QED BY <1>12, <2>1 DEF TimePasses, TypeOK
<1>. QED BY <1>4, <1>5, <1>6, <1>7, <1>8, <1>9, <1>10, <1>11, <1>12 DEF Fetch, Git

LEMMA FetchingKeeps ==
  ASSUME IInv, (Fetch \/ Git \/ TimePasses) /\ Outside
  PROVE  IInv'
<1>1. /\ UNCHANGED <<run, open, orphans, upload, pos, written, total, refused, repo,
                     sources, rejected, crashes>>
      /\ at \in {"fetch"} \cup Fetching /\ at' \in {"scan", "closing"} \cup Fetching
      /\ result' \in {"none", "ingested", "failed"}
      /\ FromGit /\ FromGit'
      /\ \/ UNCHANGED left
         \/ astray' = TRUE /\ strays' \subseteq strays \cup {repo \ Files}
  BY FetchingApart
<1>2. Typed' BY FetchingTyped
<1>3. strays' \subseteq SUBSET Path /\ astray' \in BOOLEAN
  <2>1. TypeOK /\ repo \in SUBSET Path BY FetchAssumption DEF IInv, TypeOK
  <2>2. CASE UNCHANGED left BY <2>1, <2>2 DEF TypeOK, left
  <2>3. CASE astray' = TRUE /\ strays' \subseteq strays \cup {repo \ Files}
    BY <2>1, <2>3 DEF TypeOK
  <2>. QED BY <1>1, <2>2, <2>3
<1>4. TypeOK'
  <2>1. TypeOK /\ Members' = Members BY <1>1 DEF IInv, Members
  <2>2. open' BY <1>1, <2>1 DEF TypeOK, Fetching
  <2>. QED BY <1>1, <1>2, <1>3, <2>1, <2>2 DEF TypeOK, Typed, TreeIsTyped, Labels, Fetching
<1>5. RefusedBefore' BY <1>1 DEF IInv, RefusedBefore
<1>6. WorkspaceGone' /\ StraysAreKnown'
  BY <1>1 DEF IInv, WorkspaceGone, StraysAreKnown, Fetching, left
<1>7. ASSUME ~astray' PROVE Undisturbed'
  <2>1. CopyIsOpen' /\ Extracted' /\ Inventoried'
    BY <1>1 DEF CopyIsOpen, Extracted, Inventoried, Fetching
  <2>2. Transfer' BY <1>7, FetchingFollows
  <2>. QED BY <2>1, <2>2 DEF Undisturbed, Transfer, TreeOK
<1>. QED BY <1>2, <1>4, <1>5, <1>6, <1>7 DEF IInv, Typed

\* A stray writes into whatever is there, and is known to.
LEMMA StrayKeeps ==
  ASSUME IInv, Stray /\ Outside
  PROVE  IInv'
<1>1. /\ UNCHANGED <<at, result, run, orphans, upload, pos, written, total, refused, repo,
                     attempt, git, said, late, astray, sources, rejected, crashes>>
      /\ strays # {} /\ strays' \subseteq strays /\ open' \in {open, TRUE}
      /\ gitDir' \in {gitDir, TRUE, FALSE}
  BY DEF Stray, StrayWrites, StrayExits, place, extraction, left, Outside
<1>2. TypeOK /\ astray /\ FromGit /\ FromGit' /\ Members' = Members
  BY <1>1 DEF IInv, StraysAreKnown, FromGit, Members
<1>3. TreeIsTyped' /\ \A p \in Path : disk'[p].kind # "none" => open'
  <2>1. CASE UNCHANGED disk BY <1>1, <1>2, <2>1 DEF TypeOK, TreeIsTyped
  <2>2. CASE disk' = Empty BY <2>2, EmptyTree DEF Empty, Nothing
  <2>3. CASE StrayWrites /\ disk' # disk
    <3>1. PICK p \in UNION strays : disk' = WithStray(p)
      BY <2>3 DEF StrayWrites
    <3>2. p \in Path BY <1>2 DEF TypeOK
    <3>3. disk' = [q \in Path |-> disk'[q]] BY <3>1 DEF WithStray, WithDirs
    <3>4. [kind |-> "file", size |-> RepoSize[p], by |-> 0] \in FileEntry
      BY <3>2, FetchAssumption, WorkspaceAssumption DEF FileEntry
    <3>5. \A q \in Path : disk'[q] \in {disk[q], Dir} \cup FileEntry
      BY <3>1, <3>2, <3>4 DEF WithStray, WithDirs
    <3>6. TreeIsTyped' BY <1>2, <3>3, <3>5, WritingAnywhere
    <3>. QED BY <2>3, <3>6 DEF StrayWrites
  <2>. QED BY <2>1, <2>2, <2>3 DEF Stray, StrayExits
<1>4. TypeOK'
  <2>1. /\ strays' \subseteq SUBSET Path /\ open' \in BOOLEAN /\ gitDir' \in BOOLEAN
        /\ at # "idle" => open'
    BY <1>1, <1>2 DEF TypeOK
  <2>. QED BY <1>1, <1>2, <1>3, <2>1 DEF TypeOK, TreeIsTyped
<1>5. RefusedBefore' /\ GitIsWatched' BY <1>1 DEF IInv, RefusedBefore, GitIsWatched
<1>6. StraysAreKnown' /\ WorkspaceGone' BY <1>1, <1>2 DEF StraysAreKnown, WorkspaceGone
<1>. QED BY <1>1, <1>2, <1>4, <1>5, <1>6 DEF IInv

-----------------------------------------------------------------------------
(***************************************************************************)
(* The limit on source files.                                              *)
(***************************************************************************)
LEMMA Finite ==
  ASSUME NEW S \in SUBSET Path
  PROVE  IsFiniteSet(S) /\ Cardinality(S) \in Nat
BY WorkspaceAssumption, FS_Subset, FS_CardinalityType

\* Of two paths the later one has more before it.
LEMMA RanksDiffer ==
  ASSUME NEW S \in SUBSET Path, NEW p \in S, NEW q \in S, Turn[p] < Turn[q]
  PROVE  Cardinality(Before(S, p)) < Cardinality(Before(S, q))
<1>1. /\ IsFiniteSet(Before(S, p)) /\ Cardinality(Before(S, p)) \in Nat
      /\ IsFiniteSet(Before(S, q)) /\ Cardinality(Before(S, q)) \in Nat
  BY Finite DEF Before
<1>2. Before(S, p) \cup {p} \subseteq Before(S, q)
  BY IngestionAssumption DEF Before
<1>3. p \notin Before(S, p) BY IngestionAssumption DEF Before
<1>4. /\ IsFiniteSet(Before(S, p) \cup {p})
      /\ Cardinality(Before(S, p) \cup {p}) = Cardinality(Before(S, p)) + 1
  BY <1>1, <1>3, FS_AddElement
<1>5. Cardinality(Before(S, p) \cup {p}) <= Cardinality(Before(S, q))
  BY <1>1, <1>2, FS_Subset
<1>. QED BY <1>1, <1>4, <1>5

\* As many are taken as have different ranks ...
LEMMA RanksBound ==
  ASSUME NEW S \in SUBSET Path, NEW n \in Nat,
         \A p \in FirstOf(S) : Cardinality(Before(S, p)) < n
  PROVE  FirstOf(S) \subseteq S /\ Cardinality(FirstOf(S)) <= n
<1>. DEFINE F == FirstOf(S)
            M == 0..n - 1
            rank == [p \in F |-> Cardinality(Before(S, p))]
<1>1. F \subseteq S /\ IsFiniteSet(F) /\ Cardinality(F) \in Nat
  BY Finite DEF FirstOf
<1>2. IsFiniteSet(M) /\ Cardinality(M) = n BY FS_Interval
<1>3. \A p \in F : Cardinality(Before(S, p)) \in Nat
  BY Finite DEF Before
<1>4. rank \in [F -> M] BY <1>3
<1>5. SUFFICES ASSUME ~(Cardinality(F) <= n) PROVE FALSE
  BY <1>1
<1>6. Cardinality(M) < Cardinality(F) BY <1>1, <1>2, <1>5
<1>. HIDE DEF M
<1>7. PICK p, q \in F : p # q /\ rank[p] = rank[q]
  <2>. HIDE DEF rank, F
  <2>. QED BY <1>1, <1>2, <1>4, <1>6, FS_PigeonHole
<1>8. Cardinality(Before(S, p)) = Cardinality(Before(S, q)) BY <1>7
<1>9. Turn[p] < Turn[q] \/ Turn[q] < Turn[p]
  <2>1. p \in Path /\ q \in Path BY <1>1
  <2>2. Turn[p] \in Nat /\ Turn[q] \in Nat /\ Turn[p] # Turn[q]
    BY <1>7, <2>1, IngestionAssumption
  <2>. QED BY <2>2
<1>. QED BY <1>1, <1>3, <1>8, <1>9, RanksDiffer

\* ... no more than the limit ...
LEMMA FirstAreFew ==
  ASSUME NEW S \in SUBSET Path
  PROVE  FirstOf(S) \subseteq S /\ Cardinality(FirstOf(S)) <= MaxSourceFiles
BY RanksBound, IngestionAssumption DEF FirstOf

\* ... and the last of them is there if the limit is reached.
LEMMA LastIsThere ==
  ASSUME NEW S \in SUBSET Path, AtLimit(FirstOf(S))
  PROVE  \E p \in FirstOf(S) : Before(FirstOf(S), p) = FirstOf(S) \ {p}
<1>. DEFINE F == FirstOf(S)
<1>1. /\ F \subseteq S /\ IsFiniteSet(F) /\ Cardinality(F) = MaxSourceFiles
      /\ MaxSourceFiles \in Nat \ {0}
      /\ \A p \in Path : Turn[p] \in Nat
  BY Finite, FirstAreFew, IngestionAssumption DEF AtLimit
<1>2. PICK p \in F : ~(Cardinality(Before(S, p)) < MaxSourceFiles - 1)
  <2>1. MaxSourceFiles - 1 \in Nat /\ ~(MaxSourceFiles <= MaxSourceFiles - 1) BY <1>1
  <2>. QED BY <1>1, <2>1, RanksBound
<1>3. Cardinality(Before(S, p)) \in Nat /\ Cardinality(Before(S, p)) < MaxSourceFiles
  BY Finite DEF FirstOf, Before
<1>4. Before(S, p) \subseteq F \ {p}
  <2>1. ASSUME NEW q \in Before(S, p) PROVE q \in F \ {p}
    <3>1. q \in S /\ p \in S /\ Turn[q] < Turn[p] BY <1>1, <2>1 DEF Before
    <3>2. Cardinality(Before(S, q)) < Cardinality(Before(S, p)) BY <3>1, RanksDiffer
    <3>3. Cardinality(Before(S, q)) \in Nat BY Finite DEF Before
    <3>4. Cardinality(Before(S, q)) < MaxSourceFiles BY <1>1, <1>3, <3>2, <3>3
    <3>. QED BY <1>1, <3>1, <3>4 DEF FirstOf
  <2>. QED BY <2>1
<1>5. IsFiniteSet(F \ {p}) /\ Cardinality(F \ {p}) = MaxSourceFiles - 1
  BY <1>1, <1>2, FS_RemoveElement
<1>6. Before(S, p) = F \ {p}
  <2>1. Cardinality(Before(S, p)) = MaxSourceFiles - 1 BY <1>1, <1>2, <1>3
  <2>. QED BY <1>4, <1>5, <2>1, FS_Subset
<1>7. Before(F, p) = Before(S, p) BY <1>1, <1>4 DEF Before
<1>. QED BY <1>6, <1>7

\* Fewer are taken only if that is all there is.
LEMMA FewAreAll ==
  ASSUME NEW S \in SUBSET Path, ~AtLimit(FirstOf(S))
  PROVE  FirstOf(S) = S
<1>. DEFINE Rest == S \ FirstOf(S)
<1>1. SUFFICES ASSUME Rest # {} PROVE FALSE BY FirstAreFew
<1>. DEFINE turns == {Turn[p] : p \in Rest}
<1>2. PICK n \in turns : \A m \in turns : n <= m
  <2>1. turns \subseteq Nat /\ turns # {} BY <1>1, IngestionAssumption
  <2>. HIDE DEF turns
  <2>. DEFINE less == OpToRel(<, Nat)
  <2>2. \A m, n \in Nat : <<m, n>> \in less <=> m < n BY DEF OpToRel
  <2>3. IsWellFoundedOn(less, Nat) BY NatLessThanWellFounded
  <2>. HIDE DEF less
  <2>4. PICK n \in turns : \A m \in turns : <<m, n>> \notin less BY <2>1, <2>3, WFMin
  <2>5. \A m \in turns : m \in Nat /\ n \in Nat /\ ~(m < n) BY <2>1, <2>2, <2>4
  <2>. QED BY <2>4, <2>5
<1>3. PICK p \in Rest : \A q \in Rest : Turn[p] <= Turn[q] BY <1>2
<1>4. Before(S, p) \subseteq FirstOf(S)
  <2>1. \A q \in S : Turn[q] \in Nat BY IngestionAssumption
  <2>. QED BY <1>3, <2>1 DEF Before
<1>5. /\ IsFiniteSet(FirstOf(S)) /\ Cardinality(FirstOf(S)) \in Nat
      /\ Cardinality(Before(S, p)) \in Nat /\ MaxSourceFiles \in Nat
  BY Finite, FirstAreFew, IngestionAssumption DEF Before
<1>6. Cardinality(Before(S, p)) <= Cardinality(FirstOf(S)) BY <1>4, <1>5, FS_Subset
<1>7. ~(Cardinality(Before(S, p)) < MaxSourceFiles) BY <1>3 DEF FirstOf
<1>. QED BY <1>5, <1>6, <1>7 DEF AtLimit

LEMMA NoneAreAll ==
  ASSUME NEW S \in SUBSET Path, FirstOf(S) = {}
  PROVE  S = {} /\ ~AtLimit({})
<1>1. ~AtLimit({}) BY FS_EmptySet, IngestionAssumption DEF AtLimit
<1>. QED BY <1>1, FewAreAll

-----------------------------------------------------------------------------
(***************************************************************************)
(* The inventory.                                                          *)
(***************************************************************************)
LEMMA SameTree ==
  ASSUME disk' = disk
  PROVE  /\ Files' = Files /\ Dirs' = Dirs /\ TopLevel' = TopLevel /\ Wrapper' = Wrapper
         /\ Kept' = Kept /\ KeptAnyway' = KeptAnyway /\ Walked' = Walked
         /\ FirstOf(Kept)' = FirstOf(Kept) /\ FirstOf(KeptAnyway)' = FirstOf(KeptAnyway)
         /\ \A found : Refusals(found)' = Refusals(found)
<1>1. Files' = Files /\ Dirs' = Dirs BY DEF Files, Dirs
<1>2. TopLevel' = TopLevel BY DEF TopLevel
<1>3. Wrapper' = Wrapper BY <1>1, <1>2 DEF Wrapper
<1>4. Walked' = Walked BY <1>1, <1>3 DEF Walked, Inside, Pruned
<1>5. Kept' = Kept BY <1>4 DEF Kept
<1>6. KeptAnyway' = KeptAnyway BY <1>1, <1>3 DEF KeptAnyway, Inside
<1>7. FirstOf(Kept)' = FirstOf(Kept) /\ FirstOf(KeptAnyway)' = FirstOf(KeptAnyway)
  BY <1>5, <1>6 DEF FirstOf
<1>8. \A found : Refusals(found)' = Refusals(found) BY <1>4, <1>5 DEF Refusals
<1>. QED BY <1>1, <1>2, <1>3, <1>4, <1>5, <1>6, <1>7, <1>8

LEMMA InventoryIsOfPaths ==
  /\ Files \subseteq Path /\ Kept \subseteq Files /\ KeptAnyway \subseteq Files
  /\ Walked \subseteq Files /\ Refusals(FirstOf(Kept)) \subseteq Path
<1>1. Files \subseteq Path /\ Kept \subseteq Files /\ KeptAnyway \subseteq Files /\ Walked \subseteq Files
  BY DEF Files, Kept, KeptAnyway, Walked
<1>2. Refusals(FirstOf(Kept)) \subseteq Path
  <2>1. CASE ~AtLimit(FirstOf(Kept)) BY <1>1, <2>1 DEF Refusals
  <2>2. CASE AtLimit(FirstOf(Kept))
    <3>. DEFINE F == FirstOf(Kept)
                end == CHOOSE p \in F : Before(F, p) = F \ {p}
    <3>1. \E p \in F : Before(F, p) = F \ {p} BY <1>1, <2>2, LastIsThere
    <3>2. end \in F BY <3>1
    <3>3. Refusals(F) = {end} \cup Before(Walked \ Kept, end) BY <2>2 DEF Refusals
    <3>. QED BY <1>1, <3>2, <3>3, FirstAreFew DEF Before
  <2>. QED BY <2>1, <2>2
<1>. QED BY <1>1, <1>2

LEMMA InventoryKeeps ==
  ASSUME IInv, BuildInventory
  PROVE  IInv'
<1>. DEFINE found == FirstOf(Kept)
            all == IF found = {} THEN FirstOf(KeptAnyway) ELSE found
<1>1. /\ at = "scan" /\ at' \in {"analyse", "closing"} /\ result' \in {result, "failed"}
      /\ sources' = all /\ rejected' = Refusals(found)
      /\ UNCHANGED <<run, open, orphans, disk, upload, pos, written, total, refused,
                     repo, attempt, git, said, late, gitDir, strays, astray, crashes>>
  BY DEF BuildInventory, Goto, Fail, place, extraction, fetching
<1>2. TypeOK /\ GitIsWatched BY DEF IInv
<1>3. sources' \cup rejected' \subseteq Path /\ Cardinality(sources') <= MaxSourceFiles
  BY <1>1, InventoryIsOfPaths, FirstAreFew
<1>4. TypeOK'
  <2>1. Members' = Members /\ open BY <1>1, <1>2 DEF Members, TypeOK
  <2>. QED BY <1>1, <1>2, <1>3, <2>1 DEF TypeOK, FromGit, Labels, Fetching
<1>5. RefusedBefore' BY <1>1 DEF IInv, RefusedBefore
<1>6. GitIsWatched' /\ StraysAreKnown' /\ WorkspaceGone'
  BY <1>1, <1>2 DEF IInv, GitIsWatched, StraysAreKnown, WorkspaceGone, FromGit
<1>7. ASSUME ~astray' PROVE Undisturbed'
  <2>1. TreeIsSound /\ Extracted /\ Cloning BY <1>1, <1>7 DEF IInv, Undisturbed
  <2>2. TreeIsSound' BY <1>1, <2>1, SameTree DEF TreeIsSound
  <2>3. Extracted'
    BY <1>1, <2>1, SameTree DEF Extracted, LastOf, Stored, Members, Current, FromGit
  <2>4. Cloning' BY <1>1, <2>1, SameTree DEF Cloning, FromGit, Fetching
  <2>5. Inventoried' BY <1>1, SameTree DEF Inventoried
  <2>6. BeginsEmpty' /\ CopyIsOpen' BY <1>1 DEF BeginsEmpty, CopyIsOpen
  <2>. QED BY <2>2, <2>3, <2>4, <2>5, <2>6 DEF Undisturbed
<1>. QED BY <1>4, <1>5, <1>6, <1>7 DEF IInv

-----------------------------------------------------------------------------
(***************************************************************************)
(* Executions.                                                             *)
(***************************************************************************)
\* A step that leaves the tree, and goes where nothing is asked of it.
LEMMA EndsKeep ==
  ASSUME IInv, Analyse \/ Abort \/ Crash
  PROVE  IInv'
<1>1. /\ at' \in {"closing", "idle"} /\ result' \in {"ingested", "failed"}
      /\ at' = "idle" => orphans'
      /\ orphans' \in BOOLEAN /\ crashes' \in 0..MaxCrashes
      /\ git' \in {git, "none"} /\ git' # "running" /\ strays' \subseteq strays
      /\ UNCHANGED <<run, open, disk, upload, pos, written, total, refused,
                     repo, attempt, said, late, gitDir, astray, sources, rejected>>
      /\ at # "idle"
  <2>. USE DEF IInv, TypeOK, GitIsWatched, place, extraction, fetching, Goto, Fail
  <2>1. CASE Analyse BY <2>1 DEF Analyse
  <2>2. CASE Abort BY <2>2 DEF Abort
  <2>3. CASE Crash BY <2>3, IngestionAssumption DEF Crash
  <2>. QED BY <2>1, <2>2, <2>3
<1>2. TypeOK'
  <2>1. Members' = Members /\ TypeOK BY <1>1 DEF IInv, Members
  <2>. QED BY <1>1, <2>1 DEF TypeOK, Labels, Fetching, FromGit
<1>3. RefusedBefore' BY <1>1 DEF IInv, RefusedBefore
<1>4. GitIsWatched' /\ StraysAreKnown' /\ WorkspaceGone'
  BY <1>1 DEF IInv, GitIsWatched, StraysAreKnown, WorkspaceGone, FromGit
<1>5. ASSUME ~astray' PROVE Undisturbed'
  <2>1. TreeIsSound' BY <1>1, <1>5, SameTree DEF IInv, Undisturbed, TreeIsSound
  <2>2. BeginsEmpty' /\ CopyIsOpen' /\ Extracted' /\ Cloning' /\ Inventoried'
    BY <1>1 DEF BeginsEmpty, CopyIsOpen, Extracted, Cloning, Inventoried, Fetching
  <2>. QED BY <2>1, <2>2 DEF Undisturbed
<1>. QED BY <1>2, <1>3, <1>4, <1>5 DEF IInv

LEMMA CloseKeeps ==
  ASSUME IInv, Close
  PROVE  IInv'
<1>1. /\ at = "closing" /\ at' = "idle" /\ open' = Keep
      /\ disk' = IF ~Keep THEN Empty ELSE disk
      /\ UNCHANGED <<run, result, orphans, upload, pos, written, total, refused,
                     repo, attempt, git, said, late, gitDir, strays, astray,
                     sources, rejected, crashes>>
      /\ Keep \in BOOLEAN
  BY WorkspaceAssumption
     DEF Close, CloseWorkspace, Removed, Goto, extraction, fetching
<1>2. TypeOK BY DEF IInv
<1>3. TreeIsTyped' /\ (TreeIsSound => TreeIsSound')
  <2>1. CASE Keep
    <3>1. disk' = disk BY <1>1, <2>1
    <3>. QED BY <1>1, <1>2, <3>1, SameTree DEF TreeIsTyped, TreeIsSound, TypeOK
  <2>2. CASE ~Keep BY <1>1, <2>2, EmptyTree DEF TreeOK
  <2>. QED BY <2>1, <2>2
<1>4. \A p \in Path : disk'[p].kind # "none" => open'
  <2>1. CASE Keep BY <1>1, <2>1
  <2>2. CASE ~Keep
    <3>1. disk' = Empty BY <1>1, <2>2
    <3>. QED BY <3>1 DEF Empty, Nothing
  <2>. QED BY <2>1, <2>2
<1>5. TypeOK'
  <2>1. Members' = Members BY <1>1 DEF Members
  <2>. QED BY <1>1, <1>2, <1>3, <1>4, <2>1 DEF TypeOK, TreeIsTyped, Labels, Fetching, FromGit
<1>6. RefusedBefore' BY <1>1 DEF IInv, RefusedBefore
<1>7. GitIsWatched' /\ StraysAreKnown' /\ WorkspaceGone'
  BY <1>1 DEF IInv, GitIsWatched, StraysAreKnown, WorkspaceGone, FromGit
<1>8. ASSUME ~astray' PROVE Undisturbed'
  <2>1. BeginsEmpty' /\ CopyIsOpen' /\ Extracted' /\ Cloning' /\ Inventoried'
    BY <1>1 DEF BeginsEmpty, CopyIsOpen, Extracted, Cloning, Inventoried, Fetching
  <2>. QED BY <1>1, <1>3, <1>8, <2>1 DEF IInv, Undisturbed
<1>. QED BY <1>5, <1>6, <1>7, <1>8 DEF IInv

LEMMA StartKeeps ==
  ASSUME IInv, StartRun
  PROVE  IInv'
<1>1. /\ at' = (IF FromGit THEN "fetch" ELSE "extract") /\ at = "idle"
      /\ run < MaxRuns /\ run' = run + 1 /\ open' = TRUE /\ orphans' = FALSE
      /\ disk' = Empty /\ result' = "none"
      /\ repo' \in IF FromGit THEN Repos ELSE {{}}
      /\ pos' = 1 /\ written' = 0 /\ total' = 0 /\ refused' = {}
      /\ sources' = {} /\ rejected' = {}
      /\ attempt' = 1 /\ git' = "none" /\ said' = FALSE /\ late' = FALSE
      /\ gitDir' = FALSE /\ astray' = (strays # {}) /\ UNCHANGED <<upload, strays, crashes>>
  BY DEF StartRun, Goto, Overwritten
<1>2. TypeOK /\ FromGit' = FromGit /\ Members' = Members BY <1>1 DEF IInv, FromGit, Members
<1>3. TreeOK' /\ Files' = {} BY <1>1, EmptyTree
<1>4. TypeOK'
  <2>1. run' \in 0..MaxRuns BY <1>1, <1>2, WorkspaceAssumption DEF TypeOK
  <2>2. /\ written' \in 0..MaxMember /\ total' \in 0..MaxUncompressed
        /\ pos' \in 1..Len(Members)' + 1
    BY <1>1, <1>2, ArchiveAssumption, MembersAreTyped
  <2>3. Cardinality(sources') <= MaxSourceFiles /\ sources' \cup rejected' \subseteq Path
    BY <1>1, FS_EmptySet, IngestionAssumption
  <2>4. /\ at' \in Labels /\ at' # "idle" /\ at' \notin Fetching \cup {"copy", "member"}
        /\ at' = "fetch" => FromGit
        /\ at' = "extract" => ~FromGit
    BY <1>1 DEF Labels, Fetching
  <2>5. attempt' \in 1..Attempts BY <1>1 DEF Attempts
  <2>6. repo' \in Repos \cup {{}} BY <1>1
  <2>. QED BY <1>1, <1>2, <1>3, <2>1, <2>2, <2>3, <2>4, <2>5, <2>6 DEF TypeOK, TreeOK
<1>5. BeginsEmpty' BY <1>1, <1>2, <1>3 DEF BeginsEmpty
<1>6. RefusedBefore' BY <1>1 DEF RefusedBefore
<1>7. Cloning'
  <2>1. FromGit' => repo' \in Repos BY <1>1, <1>2
  <2>2. Files' \subseteq repo' BY <1>3
  <2>3. git' # "done" /\ at' \notin {"watch", "read", "exited", "restore", "scan", "analyse"}
    BY <1>1
  <2>. QED BY <2>1, <2>2, <2>3 DEF Cloning
<1>8. CopyIsOpen' /\ Extracted' /\ GitIsWatched' /\ Inventoried' /\ WorkspaceGone'
  BY <1>1 DEF CopyIsOpen, Extracted, GitIsWatched, Inventoried, WorkspaceGone
<1>9. StraysAreKnown' BY <1>1, <1>2 DEF IInv, StraysAreKnown
<1>. QED BY <1>3, <1>4, <1>5, <1>6, <1>7, <1>8, <1>9 DEF IInv, Undisturbed, TreeOK

LEMMA InvariantBegins == Init => IInv
<1>. SUFFICES ASSUME Init PROVE IInv OBVIOUS
<1>1. disk = Empty /\ Files = {} /\ disk \in [Path -> Entry]
  <2>1. Nothing \in Entry BY WorkspaceAssumption DEF Nothing, Entry
  <2>. QED BY <2>1 DEF Init, Empty, Files, Nothing
<1>2. TypeOK
  <2>1. /\ 0 \in 0..MaxRuns /\ 0 \in 0..MaxMember /\ 0 \in 0..MaxUncompressed
        /\ 0 \in 0..MaxCrashes
    BY WorkspaceAssumption, ArchiveAssumption, IngestionAssumption
  <2>2. 1 \in 1..Len(Members) + 1
    <3>1. upload.members \in Seq(Member)
      <4>1. CASE upload \in Archives BY <4>1, ArchiveAssumption
      <4>2. CASE upload = NoUpload
        <5>1. upload.members = <<>> BY <4>2 DEF NoUpload
        <5>. QED BY <5>1
      <4>. QED BY <4>1, <4>2 DEF Init
    <3>. QED BY <3>1 DEF Members
  <2>3. Cardinality({}) <= MaxSourceFiles BY FS_EmptySet, IngestionAssumption
  <2>4. \A p \in Path : disk[p] = Nothing /\ disk[p].kind = "none"
    BY <1>1 DEF Empty, Nothing
  <2>5. "idle" \in Labels /\ "idle" \notin Fetching /\ 1 \in 1..Attempts
    BY DEF Labels, Fetching, Attempts
  <2>. QED BY <1>1, <2>1, <2>2, <2>3, <2>4, <2>5 DEF Init, TypeOK
<1>3. TreeIsSound /\ BeginsEmpty BY <1>1 DEF Init, TreeIsSound, BeginsEmpty
<1>4. RefusedBefore BY DEF Init, RefusedBefore
<1>5. CopyIsOpen /\ Extracted /\ GitIsWatched /\ Inventoried /\ WorkspaceGone
  BY DEF Init, CopyIsOpen, Extracted, GitIsWatched, Inventoried, WorkspaceGone
<1>6. Cloning /\ StraysAreKnown BY DEF Init, Cloning, Fetching, StraysAreKnown
<1>. QED BY <1>2, <1>3, <1>4, <1>5, <1>6 DEF IInv, Undisturbed

LEMMA Consecution == IInv /\ [Next]_vars => IInv'
<1>1. ASSUME IInv, Next PROVE IInv'
  <2>1. CASE StartRun BY <1>1, <2>1, StartKeeps
  <2>2. CASE Extract /\ UNCHANGED <<fetching, sources, rejected, crashes>>
    BY <1>1, <2>2, ExtractionKeeps DEF Extracting
  <2>3. CASE Fetch /\ Outside BY <1>1, <2>3, FetchingKeeps
  <2>4. CASE BuildInventory BY <1>1, <2>4, InventoryKeeps
  <2>5. CASE Analyse \/ Abort \/ Crash BY <1>1, <2>5, EndsKeep
  <2>6. CASE Close BY <1>1, <2>6, CloseKeeps
  <2>7. CASE (Git \/ TimePasses) /\ Outside BY <1>1, <2>7, FetchingKeeps
  <2>8. CASE Stray /\ Outside BY <1>1, <2>8, StrayKeeps
  <2>. QED BY <1>1, <2>1, <2>2, <2>3, <2>4, <2>5, <2>6, <2>7, <2>8 DEF Next, Worker, Outside
<1>2. ASSUME IInv, UNCHANGED vars PROVE IInv'
  <2>. USE <1>2, SameTree DEF vars, place, extraction, fetching, IInv
  <2>1. Members' = Members /\ Stored' = Stored /\ FromGit' = FromGit
    BY DEF Members, Stored, FromGit
  <2>2. TypeOK' BY <2>1 DEF TypeOK
  <2>3. RefusedBefore' /\ GitIsWatched' /\ StraysAreKnown' /\ WorkspaceGone'
    BY <2>1 DEF RefusedBefore, GitIsWatched, StraysAreKnown, WorkspaceGone
  <2>4. ASSUME ~astray' PROVE Undisturbed'
    <3>. USE <2>4 DEF Undisturbed
    <3>1. TreeIsSound' /\ BeginsEmpty' BY <2>1 DEF TreeIsSound, BeginsEmpty
    <3>2. CopyIsOpen' BY <2>1 DEF CopyIsOpen, Current
    <3>3. Extracted' BY <2>1 DEF Extracted, LastOf, Current
    <3>4. Cloning' BY <2>1 DEF Cloning
    <3>5. Inventoried' BY DEF Inventoried
    <3>. QED BY <3>1, <3>2, <3>3, <3>4, <3>5
  <2>. QED BY <2>2, <2>3, <2>4
<1>. QED BY <1>1, <1>2

-----------------------------------------------------------------------------
(***************************************************************************)
(* What is on the disk.  A sum over a set is a fold that takes the members *)
(* in an order nobody knows: the first facts are that it has a value, that *)
(* the order does not matter, and what one file adds.                      *)
(***************************************************************************)
\* The bytes of the files ps of a tree d.
Bytes(d, ps) == MapThenSumSet(LAMBDA p : d[p].size, ps)

\* Induction over the subsets of a finite set: what holds of a set whenever it
\* holds of those with one element less holds of all.
LEMMA SubsetInduction ==
  ASSUME NEW S, IsFiniteSet(S), NEW G,
         \A T \in SUBSET S : (\A x \in T : T \ {x} \in G) => T \in G
  PROVE  SUBSET S \subseteq G
<1>. DEFINE bad == (SUBSET S) \ G
<1>1. SUFFICES ASSUME bad # {} PROVE FALSE OBVIOUS
<1>2. IsWellFoundedOn(StrictSubsetOrdering(S), SUBSET S)
  BY FS_FiniteSubsetsOfFinite, FS_StrictSubsetOrderingWellFounded
<1>3. PICK T \in bad : \A U \in bad : <<U, T>> \notin StrictSubsetOrdering(S)
  <2>1. bad \subseteq SUBSET S OBVIOUS
  <2>. HIDE DEF bad
  <2>. QED BY <1>1, <1>2, <2>1, WFMin
<1>4. PICK x \in T : T \ {x} \notin G
  <2>1. T \in SUBSET S /\ T \notin G BY <1>3
  <2>. QED BY <2>1
<1>5. <<T \ {x}, T>> \in StrictSubsetOrdering(S)
  BY <1>4 DEF StrictSubsetOrdering
<1>. QED BY <1>3, <1>4, <1>5

LEMMA NaturalInduction ==
  ASSUME NEW G, 0 \in G, \A n \in Nat : n \in G => n + 1 \in G
  PROVE  Nat \subseteq G
<1>. DEFINE bad == Nat \ G
            less == OpToRel(<, Nat)
<1>1. SUFFICES ASSUME bad # {} PROVE FALSE OBVIOUS
<1>2. IsWellFoundedOn(less, Nat) BY NatLessThanWellFounded
<1>3. \A m, n \in Nat : <<m, n>> \in less <=> m < n BY DEF OpToRel
<1>4. PICK n \in bad : \A m \in bad : <<m, n>> \notin less
  <2>1. bad \subseteq Nat OBVIOUS
  <2>. HIDE DEF bad, less
  <2>. QED BY <1>1, <1>2, <2>1, WFMin
<1>5. n \in Nat /\ n # 0 /\ n - 1 \in Nat /\ n - 1 < n /\ n = (n - 1) + 1 OBVIOUS
<1>6. n - 1 \in G BY <1>3, <1>4, <1>5
<1>. QED BY <1>5, <1>6

AnyOf(s) == CHOOSE x \in s : TRUE

\* What a fold makes of the set s, given what f has made of smaller ones.
Adding(d, f, s) ==
  IF s = {} THEN 0 ELSE d[AnyOf(s)].size + f[s \ {AnyOf(s)}]

\* Two functions that agree on the smaller sets do so on this one.
LEMMA AddingDepends ==
  ASSUME NEW d, NEW e, NEW f, NEW g, NEW s,
         \A x \in s : d[x] = e[x] /\ f[s \ {x}] = g[s \ {x}]
  PROVE  Adding(d, f, s) = Adding(e, g, s)
<1>1. CASE s = {} BY <1>1 DEF Adding
<1>2. CASE s # {}
  <2>1. AnyOf(s) \in s BY <1>2 DEF AnyOf
  <2>. QED BY <1>2, <2>1 DEF Adding
<1>. QED BY <1>1, <1>2

LEMMA SumExists ==
  ASSUME NEW d, NEW S, IsFiniteSet(S)
  PROVE  \E f : f = [s \in SUBSET S |-> Adding(d, f, s)]
<1>. DEFINE Upto(n, f) == \A s \in SUBSET S : Cardinality(s) <= n => f[s] = Adding(d, f, s)
            G == {n \in Nat : \E f : Upto(n, f)}
<1>0. \A s \in SUBSET S : IsFiniteSet(s) /\ Cardinality(s) \in Nat
  BY FS_Subset, FS_CardinalityType
<1>1. 0 \in G
  <2>. DEFINE f == [s \in SUBSET S |-> 0]
  <2>1. Upto(0, f)
    <3>1. \A s \in SUBSET S : Cardinality(s) <= 0 => s = {} BY <1>0, FS_EmptySet
    <3>. QED BY <3>1 DEF Adding
  <2>. QED BY <2>1
<1>2. ASSUME NEW n \in Nat, n \in G PROVE n + 1 \in G
  <2>1. PICK f : Upto(n, f) BY <1>2
  <2>. DEFINE g == [s \in SUBSET S |-> Adding(d, f, s)]
  <2>2. ASSUME NEW s \in SUBSET S, Cardinality(s) <= n + 1
        PROVE  g[s] = Adding(d, g, s)
    <3>1. \A x \in s : Cardinality(s \ {x}) <= n
      BY <1>0, <2>2, FS_RemoveElement
    <3>2. \A x \in s : f[s \ {x}] = g[s \ {x}] BY <2>1, <3>1
    <3>. HIDE DEF g
    <3>3. Adding(d, f, s) = Adding(d, g, s) BY <3>2, AddingDepends
    <3>. QED BY <3>3 DEF g
  <2>3. Upto(n + 1, g) BY <2>2
  <2>. HIDE DEF Upto
  <2>. QED BY <2>3
<1>3. Cardinality(S) \in G
  <2>. HIDE DEF G
  <2>. QED BY <1>0, <1>1, <1>2, NaturalInduction
<1>4. PICK f : Upto(Cardinality(S), f) BY <1>3
<1>. DEFINE g == [s \in SUBSET S |-> f[s]]
<1>5. ASSUME NEW s \in SUBSET S PROVE f[s] = Adding(d, g, s)
  <2>1. Cardinality(s) <= Cardinality(S) BY FS_Subset
  <2>2. f[s] = Adding(d, f, s) BY <1>4, <2>1
  <2>3. \A x \in s : f[s \ {x}] = g[s \ {x}] OBVIOUS
  <2>. HIDE DEF g
  <2>4. Adding(d, f, s) = Adding(d, g, s) BY <2>3, AddingDepends
  <2>. QED BY <2>2, <2>4
<1>6. g = [s \in SUBSET S |-> Adding(d, g, s)]
  <2>. HIDE DEF Upto
  <2>. QED BY <1>5
<1>. QED BY <1>6

\* The function by which the sum over S is defined.
Sums(d, S) == CHOOSE f : f = [s \in SUBSET S |-> Adding(d, f, s)]

LEMMA SumsDefined ==
  ASSUME NEW d, NEW S, IsFiniteSet(S)
  PROVE  /\ Bytes(d, S) = Sums(d, S)[S]
         /\ \A s \in SUBSET S : Sums(d, S)[s] = Adding(d, Sums(d, S), s)
<1>1. Sums(d, S) = [s \in SUBSET S |-> Adding(d, Sums(d, S), s)]
  BY SumExists DEF Sums
<1>2. Bytes(d, S) = Sums(d, S)[S]
  BY DEF Bytes, MapThenSumSet, MapThenFoldSet, Sums, Adding, AnyOf
<1>. QED BY <1>1, <1>2

\* A sum depends on the sizes of its files alone.
LEMMA SumsAgree ==
  ASSUME NEW d, NEW e, NEW S, NEW T, IsFiniteSet(S), IsFiniteSet(T),
         NEW R, R \subseteq S, R \subseteq T, \A p \in R : d[p] = e[p]
  PROVE  \A s \in SUBSET R : Sums(d, S)[s] = Sums(e, T)[s]
<1>. DEFINE G == {s \in SUBSET R : Sums(d, S)[s] = Sums(e, T)[s]}
<1>1. ASSUME NEW s \in SUBSET R, \A x \in s : s \ {x} \in G PROVE s \in G
  <2>1. /\ Sums(d, S)[s] = Adding(d, Sums(d, S), s)
        /\ Sums(e, T)[s] = Adding(e, Sums(e, T), s)
    BY SumsDefined
  <2>2. \A x \in s : d[x] = e[x] /\ Sums(d, S)[s \ {x}] = Sums(e, T)[s \ {x}] BY <1>1
  <2>3. Adding(d, Sums(d, S), s) = Adding(e, Sums(e, T), s) BY <2>2, AddingDepends
  <2>. QED BY <2>1, <2>3
<1>2. IsFiniteSet(R) BY FS_Subset
<1>3. SUBSET R \subseteq G
  <2>. HIDE DEF G
  <2>. QED BY <1>1, <1>2, SubsetInduction
<1>. QED BY <1>3

LEMMA SameBytes ==
  ASSUME NEW d, NEW e, NEW S, IsFiniteSet(S), \A p \in S : d[p] = e[p]
  PROVE  Bytes(d, S) = Bytes(e, S)
BY SumsDefined, SumsAgree

\* A file counts once, whichever is taken first.
LEMMA BytesAdd ==
  ASSUME NEW d, NEW S, IsFiniteSet(S), \A p \in S : d[p].size \in Nat
  PROVE  /\ Bytes(d, {}) = 0
         /\ \A T \in SUBSET S : Bytes(d, T) \in Nat
         /\ \A T \in SUBSET S : \A p \in T : Bytes(d, T) = d[p].size + Bytes(d, T \ {p})
<1>1. Bytes(d, {}) = 0 BY SumsDefined, FS_EmptySet DEF Adding
<1>2. ASSUME NEW T \in SUBSET S, T # {}
      PROVE  AnyOf(T) \in T /\ Bytes(d, T) = d[AnyOf(T)].size + Bytes(d, T \ {AnyOf(T)})
  <2>1. AnyOf(T) \in T BY <1>2 DEF AnyOf
  <2>. DEFINE x == AnyOf(T)
  <2>2. IsFiniteSet(T) /\ IsFiniteSet(T \ {x}) BY FS_Subset
  <2>3. Bytes(d, T) = d[x].size + Sums(d, T)[T \ {x}]
    BY <1>2, <2>2, SumsDefined DEF Adding
  <2>4. Sums(d, T)[T \ {x}] = Sums(d, T \ {x})[T \ {x}]
    <3>. HIDE DEF x
    <3>. QED BY <2>2, SumsAgree
  <2>5. Bytes(d, T \ {x}) = Sums(d, T \ {x})[T \ {x}]
    <3>. HIDE DEF x
    <3>. QED BY <2>2, SumsDefined
  <2>. QED BY <2>1, <2>3, <2>4, <2>5
<1>3. \A T \in SUBSET S : Bytes(d, T) \in Nat
  <2>. DEFINE G == {T \in SUBSET S : Bytes(d, T) \in Nat}
  <2>1. ASSUME NEW T \in SUBSET S, \A x \in T : T \ {x} \in G PROVE T \in G
    <3>1. CASE T = {} BY <1>1, <3>1
    <3>2. CASE T # {}
      <4>1. /\ Bytes(d, T \ {AnyOf(T)}) \in Nat /\ d[AnyOf(T)].size \in Nat
            /\ Bytes(d, T) = d[AnyOf(T)].size + Bytes(d, T \ {AnyOf(T)})
        BY <1>2, <2>1, <3>2
      <4>2. Bytes(d, T) \in Nat BY <4>1
      <4>. QED BY <4>2
    <3>. QED BY <3>1, <3>2
  <2>2. SUBSET S \subseteq G
    <3>. HIDE DEF G
    <3>. QED BY <2>1, SubsetInduction
  <2>. QED BY <2>2
<1>4. \A T \in SUBSET S : \A p \in T : Bytes(d, T) = d[p].size + Bytes(d, T \ {p})
  <2>. DEFINE G == {T \in SUBSET S : \A p \in T : Bytes(d, T) = d[p].size + Bytes(d, T \ {p})}
  <2>1. ASSUME NEW T \in SUBSET S, \A x \in T : T \ {x} \in G PROVE T \in G
    <3>. SUFFICES ASSUME NEW p \in T PROVE Bytes(d, T) = d[p].size + Bytes(d, T \ {p}) OBVIOUS
    <3>. DEFINE x == AnyOf(T)
    <3>1. x \in T /\ Bytes(d, T) = d[x].size + Bytes(d, T \ {x}) BY <1>2
    <3>2. CASE p = x BY <3>1, <3>2
    <3>3. CASE p # x
      <4>1. T \ {x} \in G /\ T \ {p} \in G BY <2>1, <3>1
      <4>2. p \in T \ {x} /\ x \in T \ {p} BY <3>1, <3>3
      <4>3. Bytes(d, T \ {x}) = d[p].size + Bytes(d, (T \ {x}) \ {p}) BY <4>1, <4>2
      <4>4. Bytes(d, T \ {p}) = d[x].size + Bytes(d, (T \ {p}) \ {x}) BY <4>1, <4>2
      <4>5. (T \ {x}) \ {p} = (T \ {p}) \ {x} OBVIOUS
      <4>. HIDE DEF x
      <4>6. /\ d[x].size \in Nat /\ d[p].size \in Nat
            /\ Bytes(d, (T \ {x}) \ {p}) \in Nat
        BY <1>3, <3>1
      <4>7. \A i, j, k \in Nat : i + (j + k) = j + (i + k) OBVIOUS
      <4>8. Bytes(d, T) = d[x].size + (d[p].size + Bytes(d, (T \ {x}) \ {p}))
        BY <3>1, <4>3
      <4>9. d[p].size + Bytes(d, T \ {p})
              = d[p].size + (d[x].size + Bytes(d, (T \ {x}) \ {p}))
        BY <4>4, <4>5
      <4>. QED BY <4>6, <4>7, <4>8, <4>9
    <3>. QED BY <3>2, <3>3
  <2>2. SUBSET S \subseteq G
    <3>. HIDE DEF G
    <3>. QED BY <2>1, SubsetInduction
  <2>. QED BY <2>2
<1>. QED BY <1>1, <1>3, <1>4

\* The disk holds what the extractor has counted, and the member at hand.
InBudget ==
  ~FromGit =>
    /\ \A p \in Files : disk[p].size <= MaxMember
    /\ Bytes(disk, Files) <= MaxUncompressed
    /\ at = "member" => Bytes(disk, Files) <= total
    /\ at = "copy" => Bytes(disk, Files \ {Current.path}) <= total

LEMMA SizesOfFiles ==
  ASSUME NEW d \in [Path -> Entry], NEW S \in SUBSET Path
  PROVE  /\ IsFiniteSet(S) /\ \A p \in S : d[p].size \in Nat
         /\ \A ps \in SUBSET S : IsFiniteSet(ps) /\ Bytes(d, ps) \in Nat
<1>1. IsFiniteSet(S) BY WorkspaceAssumption, FS_Subset
<1>2. \A p \in S : d[p].size \in Nat BY DEF Entry
<1>3. \A ps \in SUBSET S : IsFiniteSet(ps) BY <1>1, FS_Subset
<1>4. \A ps \in SUBSET S : Bytes(d, ps) \in Nat BY <1>1, <1>2, BytesAdd
<1>. QED BY <1>1, <1>2, <1>3, <1>4

LEMMA EmptyWithinBudget ==
  ASSUME Files' = {}, at' # "member" \/ total' = 0, at' # "copy"
  PROVE  InBudget'
<1>1. Bytes(disk', {}) = 0 BY BytesAdd, FS_EmptySet
<1>. QED BY <1>1, ArchiveAssumption DEF InBudget

\* The tree and the counters stay, and so does the worker's place or it is one
\* of which nothing is asked.
LEMMA SameBudget ==
  ASSUME InBudget, UNCHANGED <<disk, total, upload, pos>>,
         at' \in {at, "closing", "idle", "scan", "analyse"}
  PROVE  InBudget'
BY SameTree DEF InBudget, FromGit, Current, Members

LEMMA ExtractionInBudget ==
  ASSUME IInv, InBudget, Extracting
  PROVE  InBudget'
<1>1. /\ run' = run /\ upload' = upload /\ ~FromGit /\ ~FromGit' /\ run \in 0..MaxRuns
      /\ Members' = Members
  BY ExtractionApart DEF IInv, TypeOK, Members
<1>2. /\ TypeOK /\ TreeOK /\ CopyIsOpen /\ BeginsEmpty
      /\ pos \in Nat \ {0} /\ Len(Members) \in Nat
      /\ written \in Nat /\ total \in Nat /\ MaxMember \in Nat /\ MaxUncompressed \in Nat
      /\ written <= MaxMember /\ total <= MaxUncompressed
  BY MembersAreTyped, ArchiveAssumption, ExtractionApart DEF IInv, Undisturbed, TypeOK, TreeOK
<1>3. \A i \in 1..Len(Members) : Members[i].path \in Path /\ Members[i].real \in Nat
  BY <1>2, MembersAreTyped DEF Member
<1>4. Progress' BY ExtractionFollows
<1>5. /\ IsFiniteSet(Files) /\ \A p \in Files : disk[p].size \in Nat
      /\ \A ps \in SUBSET Files : IsFiniteSet(ps) /\ Bytes(disk, ps) \in Nat
  <2>1. disk \in [Path -> Entry] /\ Files \in SUBSET Path BY <1>2 DEF TreeOK, Files
  <2>. QED BY <2>1, SizesOfFiles
<1>6. /\ IsFiniteSet(Files') /\ \A p \in Files' : disk'[p].size \in Nat
      /\ \A ps \in SUBSET Files' : IsFiniteSet(ps) /\ Bytes(disk', ps) \in Nat
  <2>1. disk' \in [Path -> Entry] /\ Files' \in SUBSET Path
    BY <1>4 DEF Progress, TreeOK, Files
  <2>. QED BY <2>1, SizesOfFiles
<1>7. /\ \A p \in Files : disk[p].size <= MaxMember
      /\ Bytes(disk, Files) <= MaxUncompressed
  BY <1>1 DEF InBudget
<1>. USE <1>1
<1>8. CASE OpenArchive
  <2>1. at' \in {"member", "closing"} /\ total' = 0 /\ Files' = {}
    BY <1>2, <1>8, SameTree DEF OpenArchive, Goto, Fail, BeginsEmpty
  <2>. QED BY <2>1, EmptyWithinBudget
<1>9. CASE RefuseMember
  <2>1. at = "member" /\ at' = "member" /\ UNCHANGED <<disk, total>>
    BY <1>9 DEF RefuseMember
  <2>. QED BY <2>1, SameTree DEF InBudget
<1>10. CASE MakeDirectory
  <2>1. /\ at = "member" /\ pos <= Len(Members) /\ Current.kind = "dir" /\ total' = total
    BY <1>10 DEF MakeDirectory
  <2>2. CASE UNCHANGED <<disk, pos>> /\ at' = "closing"
    BY <2>1, <2>2, SameBudget
  <2>3. CASE /\ disk' = WithDirs(disk, {Current.path} \cup Above[Current.path])
             /\ at' = "member"
    <3>1. {Current.path} \cup Above[Current.path] \in SUBSET Path
      BY <1>2, <1>3, <2>1, WorkspaceAssumption DEF Current
    <3>2. Files' = Files /\ \A p \in Files : disk'[p] = disk[p]
      BY <1>2, <2>3, <3>1, MakingDirs
    <3>3. Bytes(disk', Files) = Bytes(disk, Files) BY <1>5, <3>2, SameBytes
    <3>. QED BY <2>1, <2>3, <3>2, <3>3 DEF InBudget
  <2>. QED BY <1>10, <2>2, <2>3 DEF MakeDirectory, Fail, Goto
<1>11. CASE OpenMember
  <2>1. /\ at = "member" /\ pos <= Len(Members) /\ UNCHANGED <<pos, total>>
        /\ Bytes(disk, Files) <= total
    BY <1>11 DEF OpenMember, InBudget
  <2>2. CASE UNCHANGED disk /\ at' = "closing" BY <2>1, <2>2, SameBudget
  <2>3. CASE /\ Above[Current.path] \cap Files = {} /\ Current.path \notin Dirs
             /\ at' = "copy" /\ disk' = WithFile(Current.path, 0)
    <3>. DEFINE p == Current.path
    <3>1. p \in Path /\ Current' = Current BY <1>2, <1>3, <2>1 DEF Current
    <3>2. /\ Files' = Files \cup {p} /\ disk'[p].size = 0
          /\ \A q \in Files \ {p} : disk'[q] = disk[q]
      BY <1>2, <2>3, <3>1, WritingFile
    <3>. HIDE DEF p
    <3>3. Bytes(disk', Files \ {p}) = Bytes(disk, Files \ {p})
      BY <1>5, <3>2, SameBytes
    <3>4. Bytes(disk, Files \ {p}) <= Bytes(disk, Files)
      <4>1. CASE p \in Files BY <1>5, <4>1, BytesAdd
      <4>2. CASE p \notin Files
        <5>1. Files \ {p} = Files BY <4>2
        <5>. QED BY <1>5, <5>1
      <4>. QED BY <4>1, <4>2
    <3>5. Bytes(disk', Files') = 0 + Bytes(disk', Files \ {p})
      <4>1. p \in Files' /\ Files' \ {p} = Files \ {p} BY <3>2
      <4>2. Bytes(disk', Files') = disk'[p].size + Bytes(disk', Files' \ {p})
        BY <1>6, <4>1, BytesAdd
      <4>. QED BY <3>2, <4>1, <4>2
    <3>6. /\ Bytes(disk', Files' \ {p}) <= total
          /\ Bytes(disk', Files') <= MaxUncompressed
      <4>1. Files' \ {p} = Files \ {p} BY <3>2
      <4>2. Bytes(disk, Files \ {p}) \in Nat /\ Bytes(disk, Files) \in Nat BY <1>5
      <4>3. Bytes(disk, Files \ {p}) <= total BY <1>2, <2>1, <3>4, <4>2
      <4>4. Bytes(disk', Files') = Bytes(disk, Files \ {p}) BY <3>3, <3>5, <4>2
      <4>5. Bytes(disk', Files' \ {p}) <= total BY <3>3, <4>1, <4>3
      <4>6. Bytes(disk, Files \ {p}) <= MaxUncompressed BY <1>2, <4>2, <4>3
      <4>. QED BY <4>4, <4>5, <4>6
    <3>7. \A q \in Files' : disk'[q].size <= MaxMember BY <1>2, <1>7, <3>2
    <3>. QED BY <2>1, <2>3, <3>1, <3>6, <3>7 DEF InBudget, p
  <2>. QED BY <1>11, <2>2, <2>3 DEF OpenMember, Writable, Fail, Goto
<1>12. CASE CopyChunk \/ CloseMember
  <2>. DEFINE p == Current.path
  <2>1. /\ at = "copy" /\ pos <= Len(Members) /\ p \in Files /\ p \in Path
        /\ disk[p].size = written /\ written <= MaxUncompressed - total
        /\ Bytes(disk, Files \ {p}) <= total
        /\ p \notin Dirs /\ Above[p] \cap Files = {}
    BY <1>2, <1>3, <1>12
       DEF CopyChunk, CloseMember, CopyIsOpen, InBudget, Current, TreeOK, TreeIsSound, Files, Dirs
  <2>. HIDE DEF p
  <2>2. /\ Bytes(disk, Files \ {p}) \in Nat
        /\ Bytes(disk, Files) = written + Bytes(disk, Files \ {p})
    BY <1>5, <2>1, BytesAdd
  <2>3. CASE at' = "closing" /\ disk' = Without(p)
    <3>1. Files' = Files \ {p} /\ \A q \in Files \ {p} : disk'[q] = disk[q]
      <4>1. Files' = Files \ {p} BY <1>2, <2>1, <2>3, RemovingFile
      <4>2. \A q \in Files : q \in Path BY DEF Files
      <4>. QED BY <1>2, <2>1, <2>3, <4>1, <4>2 DEF TreeOK, Without
    <3>2. Bytes(disk', Files \ {p}) = Bytes(disk, Files \ {p})
      BY <1>5, <3>1, SameBytes
    <3>3. Bytes(disk', Files') <= MaxUncompressed BY <1>2, <2>1, <2>2, <3>1, <3>2
    <3>4. \A q \in Files' : disk'[q].size <= MaxMember BY <1>7, <3>1
    <3>. QED BY <2>3, <3>3, <3>4 DEF InBudget
  <2>4. CASE /\ CopyChunk /\ ~Excessive(written + 1) /\ at' = "copy"
             /\ disk' = WithFile(p, written + 1) /\ UNCHANGED <<pos, total>>
    <3>1. /\ Files' = Files \cup {p} /\ disk'[p].size = written + 1
          /\ \A q \in Files \ {p} : disk'[q] = disk[q]
      <4>1. written + 1 \in Nat BY <1>2
      <4>. QED BY <1>2, <2>1, <2>4, <4>1, WritingFile
    <3>2. Files' = Files /\ p \in Files' BY <2>1, <3>1
    <3>3. Bytes(disk', Files \ {p}) = Bytes(disk, Files \ {p})
      BY <1>5, <3>1, SameBytes
    <3>4. Bytes(disk', Files') = (written + 1) + Bytes(disk, Files \ {p})
      <4>1. Bytes(disk', Files') = disk'[p].size + Bytes(disk', Files' \ {p})
        BY <1>6, <3>2, BytesAdd
      <4>. QED BY <3>1, <3>2, <3>3, <4>1
    <3>5. written + 1 <= MaxMember /\ written + 1 <= MaxUncompressed - total
      BY <1>2, <2>4 DEF Excessive
    <3>6. Bytes(disk', Files') <= MaxUncompressed BY <1>2, <2>1, <2>2, <3>4, <3>5
    <3>7. \A q \in Files' : disk'[q].size <= MaxMember BY <1>2, <1>7, <3>1, <3>2, <3>5
    <3>8. Bytes(disk', Files' \ {p}) <= total BY <2>1, <3>2, <3>3
    <3>9. Current' = Current BY <2>4 DEF Current
    <3>. QED BY <2>1, <2>4, <3>6, <3>7, <3>8, <3>9 DEF InBudget, p
  <2>5. CASE at' = "member" /\ total' = total + written /\ UNCHANGED disk
    <3>1. Files' = Files BY <2>5, SameTree
    <3>. QED BY <1>2, <1>7, <2>1, <2>2, <2>5, <3>1 DEF InBudget
  <2>. QED BY <1>12, <2>3, <2>4, <2>5 DEF CopyChunk, CloseMember, Fail, Goto, p
<1>13. CASE EndExtraction
  <2>1. at' \in {"scan", "closing"} /\ UNCHANGED <<disk, total, pos>>
    BY <1>13 DEF EndExtraction, Fail, Goto, extraction
  <2>. QED BY <2>1, SameBudget
<1>. QED BY <1>8, <1>9, <1>10, <1>11, <1>12, <1>13 DEF Extracting, Extract

LEMMA BudgetConsecution == IInv /\ InBudget /\ [Next]_vars => InBudget'
<1>. SUFFICES ASSUME IInv, InBudget, [Next]_vars PROVE InBudget' OBVIOUS
<1>1. CASE StartRun
  <2>1. Files' = {} /\ at' \in {"fetch", "extract"}
    BY <1>1, EmptyTree DEF StartRun, Overwritten, Goto
  <2>. QED BY <2>1, EmptyWithinBudget
<1>2. CASE Extract /\ UNCHANGED <<fetching, sources, rejected, crashes>>
  BY <1>2, ExtractionInBudget DEF Extracting
<1>3. CASE (Fetch \/ Git \/ TimePasses) /\ Outside
  <2>1. FromGit' BY <1>3, FetchingApart
  <2>. QED BY <2>1 DEF InBudget
<1>4. CASE BuildInventory \/ Analyse \/ Abort \/ Crash \/ UNCHANGED vars
  <2>1. /\ UNCHANGED <<disk, total, upload, pos>>
        /\ at' \in {at, "closing", "idle", "analyse"}
    BY <1>4 DEF BuildInventory, Analyse, Abort, Crash, vars, Goto, Fail, place, extraction
  <2>. QED BY <2>1, SameBudget
<1>5. CASE Close
  <2>1. /\ UNCHANGED <<total, upload, pos>> /\ at' = "idle"
        /\ disk' = Empty \/ disk' = disk
    BY <1>5 DEF Close, CloseWorkspace, Goto, extraction
  <2>2. CASE disk' = Empty BY <2>1, <2>2, EmptyTree, EmptyWithinBudget
  <2>3. CASE disk' = disk BY <2>1, <2>3, SameBudget
  <2>. QED BY <2>1, <2>2, <2>3
<1>6. CASE Stray /\ Outside
  <2>1. astray /\ astray' = astray
    BY <1>6 DEF IInv, StraysAreKnown, Stray, StrayWrites, StrayExits, left
  <2>2. StraysAreKnown' BY <1>6, StrayKeeps DEF IInv
  <2>. QED BY <2>1, <2>2 DEF InBudget, StraysAreKnown
<1>. QED BY <1>1, <1>2, <1>3, <1>4, <1>5, <1>6 DEF Next, Worker, Outside

-----------------------------------------------------------------------------
(***************************************************************************)
(* The theorems.                                                           *)
(***************************************************************************)

\* The worker's place, the tree and the counters keep their types: what was
\* extracted, by the extractor's own count, stays within the limits, and the
\* inventory within max_source_files.
THEOREM TypesHold == Spec => []TypeOK
<1>1. IInv => TypeOK BY DEF IInv
<1>. QED BY <1>1, InvariantBegins, Consecution, PTL DEF Spec

\* Whatever archive or repository it is and however earlier executions ended, the
\* files that are analysed are of this execution, and whole, unless a git that was
\* left running writes among them.
THEOREM AnalysedFilesAreWhole == Spec => []SourcesAreWhole
<1>1. IInv => SourcesAreWhole
  <2>. SUFFICES ASSUME IInv, Undisturbed, at = "analyse", NEW p \in sources
                PROVE  /\ disk[p].kind = "file" /\ disk[p].by = run
                       /\ ~FromGit => \E i \in LastOf(p) : disk[p].size = Members[i].real
                       /\ FromGit => repo \subseteq Files \/ (git = "error" /\ attempt = Attempts)
    BY DEF SourcesAreWhole, IInv
  <2>1. p \in Files
    BY InventoryIsOfPaths, FirstAreFew DEF Undisturbed, Inventoried
  <2>2. disk[p].kind = "file" /\ disk[p].by = run
    BY <2>1 DEF Undisturbed, TreeIsSound, Files
  <2>3. ~FromGit => \E i \in LastOf(p) : disk[p].size = Members[i].real
    BY <2>1 DEF Undisturbed, Extracted
  <2>4. FromGit => repo \subseteq Files \/ (git = "error" /\ attempt = Attempts)
    BY DEF Undisturbed, Cloning
  <2>. QED BY <2>2, <2>3, <2>4
<1>. QED BY <1>1, InvariantBegins, Consecution, PTL DEF Spec

\* No file that the walk comes to before the limit is overlooked: it is analysed,
\* listed as rejected, or in a directory that is skipped, unless a git that was left
\* running adds to them.
THEOREM NoFileIsLost == Spec => []NothingLost
<1>1. IInv => NothingLost
  <2>. SUFFICES ASSUME Undisturbed, at = "analyse", NEW p \in Files,
                       ~(AtLimit(sources) /\ \A q \in sources : Turn[q] <= Turn[p])
                PROVE  \/ p \in sources \cup rejected
                       \/ Pruned(p)
                       \/ Wrapper # {} /\ (Above[p] \cup {p}) \cap Hidden # {}
    BY DEF NothingLost, IInv
  <2>1. CASE Inside(p) /\ ~Pruned(p)
    <3>. DEFINE found == FirstOf(Kept)
    <3>1. p \in Walked BY <2>1 DEF Walked
    <3>2. /\ sources = IF found = {} THEN FirstOf(KeptAnyway) ELSE found
          /\ rejected = Refusals(found)
      BY DEF Undisturbed, Inventoried
    <3>3. Kept \in SUBSET Path /\ p \in Path /\ found \subseteq Path
      BY InventoryIsOfPaths, FirstAreFew
    <3>4. CASE ~AtLimit(found)
      <4>1. found = Kept BY <3>3, <3>4, FewAreAll
      <4>2. rejected = Walked \ Kept BY <3>2, <3>4, <4>1 DEF Refusals
      <4>3. Kept # {} => sources = Kept BY <3>2, <4>1
      <4>. QED BY <3>1, <4>2, <4>3
    <3>5. CASE AtLimit(found)
      <4>1. found # {} /\ sources = found BY <3>2, <3>3, <3>5, NoneAreAll
      <4>2. PICK q \in found : ~(Turn[q] <= Turn[p]) BY <3>5, <4>1
      <4>. DEFINE end == CHOOSE r \in found : Before(found, r) = found \ {r}
      <4>3. end \in found /\ Before(found, end) = found \ {end} BY <3>3, <3>5, LastIsThere
      <4>4. rejected = {end} \cup Before(Walked \ Kept, end) BY <3>2, <3>5 DEF Refusals
      <4>. HIDE DEF end
      <4>5. Turn[p] < Turn[q] /\ Turn[p] < Turn[end]
        <5>1. Turn[p] \in Nat /\ Turn[q] \in Nat /\ Turn[end] \in Nat
          BY <3>3, <4>2, <4>3, IngestionAssumption
        <5>2. q = end \/ Turn[q] < Turn[end] BY <4>2, <4>3 DEF Before
        <5>. QED BY <4>2, <5>1, <5>2
      <4>6. CASE p \in Kept
        <5>1. q \in Kept /\ Cardinality(Before(Kept, q)) < MaxSourceFiles
          BY <4>2 DEF FirstOf
        <5>2. Cardinality(Before(Kept, p)) < Cardinality(Before(Kept, q))
          BY <3>3, <4>5, <4>6, <5>1, RanksDiffer
        <5>3. /\ Cardinality(Before(Kept, p)) \in Nat /\ Cardinality(Before(Kept, q)) \in Nat
              /\ MaxSourceFiles \in Nat
          BY <3>3, Finite, IngestionAssumption DEF Before
        <5>4. Cardinality(Before(Kept, p)) < MaxSourceFiles BY <5>1, <5>2, <5>3
        <5>. QED BY <4>1, <4>6, <5>4 DEF FirstOf
      <4>7. CASE p \notin Kept BY <3>1, <4>4, <4>5, <4>7 DEF Before
      <4>. QED BY <4>6, <4>7
    <3>. QED BY <3>4, <3>5
  <2>2. CASE ~Inside(p)
    <3>1. PICK w : TopLevel = {w}
      <4>1. Cardinality(TopLevel) = 1 BY <2>2 DEF Inside, Wrapper
      <4>2. IsFiniteSet(TopLevel) BY WorkspaceAssumption, FS_Subset DEF TopLevel
      <4>. QED BY <4>1, <4>2, FS_Singleton
    <3>2. Wrapper = {w} /\ w \in Dirs /\ w \notin Above[p]
      BY <2>2, <3>1 DEF Inside, Wrapper
    <3>3. p \in Path /\ p # w BY <3>2 DEF Files, Dirs
    <3>4. PICK top \in Above[p] \cup {p} : Above[top] = {} /\ top \in Path
      BY <3>3, WorkspaceAssumption
    <3>5. disk[top].kind # "none"
      <4>1. Above[p] \subseteq Dirs BY DEF Undisturbed, TreeIsSound
      <4>. QED BY <4>1 DEF Files, Dirs
    <3>6. top # w BY <3>2, <3>3
    <3>7. top \in Hidden BY <3>1, <3>4, <3>5, <3>6 DEF TopLevel
    <3>. QED BY <3>2, <3>4, <3>7
  <2>. QED BY <2>1, <2>2
<1>. QED BY <1>1, InvariantBegins, Consecution, PTL DEF Spec

\* The finally of the session removes the workspace after every execution that
\* does not die, and the next one that of an execution that has: for good, unless a
\* progress callback has left a git running in it.
THEOREM WorkspacesGo == Spec => []WorkspaceGone
<1>1. IInv => WorkspaceGone BY DEF IInv
<1>. QED BY <1>1, InvariantBegins, Consecution, PTL DEF Spec

\* The limits per file and in total hold on the disk and not only in the
\* extractor's count, whatever the archive declares, however often its members
\* overwrite each other and whatever an earlier execution has left.
THEOREM BudgetIsKept == Spec => []BudgetKept
<1>1. Init => InBudget
  <2>. SUFFICES ASSUME Init PROVE InBudget OBVIOUS
  <2>1. Files = {} /\ at = "idle" BY DEF Init, Files, Empty, Nothing
  <2>2. Bytes(disk, {}) = 0 BY BytesAdd, FS_EmptySet
  <2>. QED BY <2>1, <2>2, ArchiveAssumption DEF InBudget
<1>2. InBudget => BudgetKept BY DEF InBudget, BudgetKept, Bytes
<1>. QED BY <1>1, <1>2, InvariantBegins, Consecution, BudgetConsecution, PTL DEF Spec

=============================================================================
