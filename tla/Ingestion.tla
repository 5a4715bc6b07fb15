----------------------------- MODULE Ingestion -----------------------------
(***************************************************************************)
(* From a project's source to the files an analysis reads: the part of     *)
(* _run_pipeline in jobs/service.py that runs inside the workspace, with   *)
(* ingestion/service.py and ingestion/inventory.py.                        *)
(*                                                                         *)
(* One job is executed several times, one execution after the other, and   *)
(* each may fail, be cancelled, or die with its process: then the next one *)
(* finds the workspace it has left.  git runs beside the worker.           *)
(*                                                                         *)
(* What the filters ask of a path is given as sets of paths.               *)
(***************************************************************************)
EXTENDS ArchiveExtraction, RepositoryFetch

CONSTANTS
  Turn,            \* when os.walk comes to a path
  Hidden,          \* top-level names that begin with a dot
  SourceRoots,     \* top-level directories in _SOURCE_ROOT_NAMES
  PrunedDirs,      \* directories that should_skip_dir, or are virtualenvs
  VcsDirs,         \* .git, .hg and .svn
  Foreign,         \* files screen turns down by their name
  Binary,          \* files that look binary
  MaxSourceFile,   \* max_source_file_bytes
  MaxSourceFiles,  \* max_source_files
  MaxCrashes       \* bound on the executions that die

ASSUME IngestionAssumption ==
  /\ Turn \in [Path -> Nat]
  /\ \A p, q \in Path : Turn[p] = Turn[q] => p = q
  /\ VcsDirs \subseteq PrunedDirs
  /\ MaxSourceFile \in Nat /\ MaxSourceFiles \in Nat \ {0} /\ MaxCrashes \in Nat

VARIABLES
  sources,   \* inventory.source_files
  rejected,  \* the paths of inventory.rejections
  crashes    \* history

vars == <<at, result, place, disk, extraction, fetching, sources, rejected, crashes>>

NoUpload == [size |-> 0, readable |-> FALSE, members |-> <<>>]
FromGit == upload = NoUpload

Labels == {"idle", "extract", "member", "copy", "fetch", "scan", "analyse",
           "closing"} \cup Fetching

TypeOK ==
  /\ at \in Labels
  /\ result \in {"none", "ingested", "failed"}
  /\ run \in 0..MaxRuns /\ open \in BOOLEAN /\ orphans \in BOOLEAN
  /\ disk \in [Path -> Entry]
  /\ upload \in Archives \/ upload = NoUpload
  /\ pos \in 1..Len(Members) + 1
  /\ written \in 0..MaxMember /\ total \in 0..MaxUncompressed
  /\ refused \subseteq 1..Len(Members)
  /\ repo \in Repos \cup {{}}
  /\ attempt \in 1..Attempts
  /\ git \in {"none", "running", "refused", "done", "error"}
  /\ said \in BOOLEAN /\ late \in BOOLEAN /\ gitDir \in BOOLEAN
  /\ sources \cup rejected \subseteq Path /\ Cardinality(sources) <= MaxSourceFiles
  /\ strays \subseteq SUBSET Path /\ astray \in BOOLEAN
  /\ crashes \in 0..MaxCrashes
  /\ \A p \in Path : /\ disk[p].kind = "none" => disk[p] = Nothing
                     /\ disk[p].kind # "none" => open
  /\ at # "idle" => open
  /\ at \in {"fetch"} \cup Fetching => FromGit
  /\ at \in {"extract", "member", "copy"} => ~FromGit

Init ==
  /\ at = "idle" /\ result = "none"
  /\ run = 0 /\ open = FALSE /\ orphans = FALSE
  /\ disk = Empty
  /\ upload \in Archives \/ upload = NoUpload
  /\ pos = 1 /\ written = 0 /\ total = 0 /\ refused = {}
  /\ repo = {} /\ attempt = 1 /\ git = "none"
  /\ said = FALSE /\ late = FALSE /\ gitDir = FALSE
  /\ strays = {} /\ astray = FALSE
  /\ sources = {} /\ rejected = {}
  /\ crashes = 0

-----------------------------------------------------------------------------
(***************************************************************************)
(* ProjectInventoryBuilder                                                 *)
(***************************************************************************)
TopLevel == {p \in Path : disk[p].kind # "none" /\ Above[p] = {} /\ p \notin Hidden}

\* Mutant of Wrapper: files beside the directory are overlooked.
WrapperOfDirs ==
  LET dirs == TopLevel \cap Dirs IN
  IF Cardinality(dirs) = 1 /\ dirs \cap SourceRoots = {} THEN dirs ELSE {}

\* resolve_root: the one directory everything is in, as in an archive made by
\* GitHub, or nothing.
Wrapper ==
  IF Cardinality(TopLevel) = 1 /\ TopLevel \subseteq Dirs \ SourceRoots
  THEN TopLevel ELSE {}

Inside(p) == Wrapper \subseteq Above[p]
Pruned(p) == (Above[p] \ Wrapper) \cap PrunedDirs # {}

Walked == {p \in Files : Inside(p) /\ ~Pruned(p)}
Kept == {p \in Walked : /\ p \notin Foreign \cup Binary
                        /\ disk[p].size <= MaxSourceFile}

\* _fallback_scan, when there is nothing else: no limits but one.
KeptAnyway == {p \in Files : /\ Inside(p)
                             /\ Above[p] \cap VcsDirs = {}
                             /\ p \notin Binary}

\* Mutant of FirstOf: no limit.
AllOf(paths) == paths

\* The first MaxSourceFiles of them, in the order of the walk.
Before(paths, p) == {q \in paths : Turn[q] < Turn[p]}
FirstOf(paths) == {p \in paths : Cardinality(Before(paths, p)) < MaxSourceFiles}

AtLimit(found) == Cardinality(found) >= MaxSourceFiles

\* What the walk has turned down before it stopped, and the file it stopped at,
\* which is an accepted one.
Refusals(found) ==
  IF AtLimit(found)
  THEN LET end == CHOOSE p \in found : Before(found, p) = found \ {p} IN
       {end} \cup Before(Walked \ Kept, end)
  ELSE Walked \ Kept

BuildInventory ==
  LET found == FirstOf(Kept)
      all == IF found = {} THEN FirstOf(KeptAnyway) ELSE found
  IN /\ IF all = {} THEN Fail("scan")
                    ELSE Goto("scan", "analyse") /\ UNCHANGED result
     /\ sources' = all
     /\ rejected' = Refusals(found)
     /\ UNCHANGED <<place, disk, extraction, fetching, crashes>>

-----------------------------------------------------------------------------
(***************************************************************************)
(* _run_pipeline                                                           *)
(***************************************************************************)
StartRun ==
  /\ run < MaxRuns
  /\ Goto("idle", IF FromGit THEN "fetch" ELSE "extract")
  /\ run' = run + 1 /\ open' = TRUE /\ orphans' = FALSE
  /\ disk' = Overwritten
  /\ result' = "none"
  /\ repo' \in IF FromGit THEN Repos ELSE {{}}
  /\ pos' = 1 /\ written' = 0 /\ total' = 0 /\ refused' = {}
  /\ sources' = {} /\ rejected' = {}
  /\ attempt' = 1 /\ git' = "none" /\ said' = FALSE /\ late' = FALSE
  /\ gitDir' = FALSE
  /\ astray' = (strays # {})
  /\ UNCHANGED <<upload, strays, crashes>>

\* The metrics engine reads the files of the inventory again, and the stages
\* that follow store what they make of them.
Analyse ==
  /\ Goto("analyse", "closing")
  /\ result' = "ingested"
  /\ UNCHANGED <<place, disk, extraction, fetching, sources, rejected, crashes>>

\* The upload is gone, the job is cancelled, or the database is not there.
Abort ==
  /\ \E from \in {"fetch", "extract", "scan", "analyse"} : Fail(from)
  /\ UNCHANGED <<place, disk, extraction, fetching, sources, rejected, crashes>>

\* The container of the worker goes, and every git with it; the disk stays.
Crash ==
  /\ at # "idle"
  /\ crashes < MaxCrashes
  /\ crashes' = crashes + 1
  /\ at' = "idle" /\ result' = "failed" /\ orphans' = TRUE
  /\ git' = "none" /\ strays' = {}
  /\ UNCHANGED <<run, open, disk, extraction, repo, attempt, said, late, gitDir,
                 astray, sources, rejected>>

Close == CloseWorkspace /\ UNCHANGED <<extraction, fetching, sources, rejected, crashes>>

Worker ==
  \/ Extract /\ UNCHANGED <<fetching, sources, rejected, crashes>>
  \/ Fetch /\ UNCHANGED <<extraction, sources, rejected, crashes>>
  \/ BuildInventory \/ Analyse \/ Close

Next ==
  \/ StartRun \/ Worker \/ Abort \/ Crash
  \/ (Git \/ Stray \/ TimePasses) /\ UNCHANGED <<extraction, sources, rejected, crashes>>

Spec == Init /\ [][Next]_vars

\* The worker runs and time passes.  Nothing makes a job start, nor git go on.
Fairness ==
  /\ WF_vars(Worker)
  /\ WF_vars(TimePasses /\ UNCHANGED <<extraction, sources, rejected, crashes>>)

FairSpec == Spec /\ Fairness

-----------------------------------------------------------------------------
(***************************************************************************)
(* Properties.                                                             *)
(***************************************************************************)

\* While an archive is extracted, and after it, what is on the disk is within
\* the limits per file and in total, whatever the archive declares about its
\* members and whatever an earlier execution has left.
BudgetKept ==
  ~FromGit =>
    /\ \A p \in Files : disk[p].size <= MaxMember
    /\ MapThenSumSet(LAMBDA p : disk[p].size, Files) <= MaxUncompressed

\* The member that is the file p now: the last one written under its name.
LastOf(p) == {i \in Stored : Members[i].path = p
                             /\ \A k \in Stored : k > i => Members[k].path # p}

\* An analysis reads files of its own execution, all of each: none of an older
\* snapshot, of a member that was broken or too large, or of a clone that was
\* killed.  (A clone that gave up during its checkout is accepted, but only
\* when there is no attempt left; and what a git that was left running writes
\* is read like the rest.)
SourcesAreWhole ==
  at = "analyse" /\ ~astray => \A p \in sources :
    /\ disk[p].kind = "file" /\ disk[p].by = run
    /\ ~FromGit => \E i \in LastOf(p) : disk[p].size = Members[i].real
    /\ FromGit => repo \subseteq Files \/ (git = "error" /\ attempt = Attempts)

\* A file is analysed, or listed as rejected, or in a directory the walk skips:
\* unwrapping an archive hides nothing but names with a dot.  When the limit on
\* source files is reached, that holds of what the walk has come to before the
\* last of them.  (A git that was left running adds files behind the walk.)
NothingLost ==
  at = "analyse" /\ ~astray => \A p \in Files :
    \/ AtLimit(sources) /\ \A q \in sources : Turn[q] <= Turn[p]
    \/ p \in sources \cup rejected
    \/ Pruned(p)
    \/ Wrapper # {} /\ (Above[p] \cup {p}) \cap Hidden # {}

\* README: "workspace leak: context manager tears down on success and
\* exception".  Between two executions there is a workspace only if the last
\* one has died, or has left a git running, which keeps the rmtree (it ignores
\* its errors) from finding an end or makes the directories again.
WorkspaceGone == at = "idle" /\ open => Keep \/ orphans \/ astray

\* README promises a clone "under a hard timeout", and test_cli_and_git_clone.py
\* expects one of a git that says nothing; but the clock is looked at between two
\* reads of git's output.  So: every execution ends, whatever is cloned or extracted
\* and however often git fails or is too slow, unless git falls silent in the end
\* and the worker waits for its output for ever.
EventuallyOver ==
  \/ at # "idle" ~> at = "idle"
  \/ <>[](at = "read" /\ git = "running" /\ ~said)

=============================================================================
