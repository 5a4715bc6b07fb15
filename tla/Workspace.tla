----------------------------- MODULE Workspace -----------------------------
(***************************************************************************)
(* The directory a worker opens for one execution of a job,                *)
(* <workspace_root>/<job_id>: ingestion/sandbox.py and the session of      *)
(* _run_pipeline in jobs/service.py that uses it.  Executions of a job     *)
(* follow each other and use the same directory.                           *)
(*                                                                         *)
(* A file carries the number of the execution that wrote it, which the     *)
(* code does not: the properties ask whose files an execution reads.  It   *)
(* is 0 in a file of a git that nobody waits for.                          *)
(***************************************************************************)
EXTENDS Naturals, FiniteSets

CONSTANTS
  Path,     \* files and directories that may be in the tree
  Above,    \* the directories each path is in, of those in Path
  MaxRuns,  \* bound on the executions of the job
  Keep      \* settings.keep_workspaces, which production refuses

ASSUME WorkspaceAssumption ==
  /\ IsFiniteSet(Path)
  /\ Above \in [Path -> SUBSET Path]
  /\ \A p \in Path : /\ p \notin Above[p]
                     /\ Above[p] # {} => \E top \in Above[p] : Above[top] = {}
  /\ MaxRuns \in Nat
  /\ Keep \in BOOLEAN

VARIABLES
  at,       \* where the execution is
  run,      \* its number
  open,     \* the workspace exists
  disk,     \* what is in it
  result,   \* how the last execution ended
  orphans   \* history: has an execution died and left its workspace

place == <<run, open, orphans>>

Entry == [kind : {"none", "dir", "file"}, size : Nat, by : 0..MaxRuns]

Nothing == [kind |-> "none", size |-> 0, by |-> 0]
Empty   == [p \in Path |-> Nothing]
Dir     == [kind |-> "dir", size |-> 0, by |-> run]

Files == {p \in Path : disk[p].kind = "file"}
Dirs  == {p \in Path : disk[p].kind = "dir"}

Goto(from, to) == at = from /\ at' = to
Fail(from) == Goto(from, "closing") /\ result' = "failed"

-----------------------------------------------------------------------------
\* A directory that is to be made, or one above it, is a file: mkdir raises.
Blocked(p) == ({p} \cup Above[p]) \cap Files # {}

\* open() makes or truncates a file here, and raises neither on a directory nor
\* on a file above it.
Writable(p) == p \notin Dirs /\ Above[p] \cap Files = {}

WithDirs(d, dirs) ==
  [p \in Path |-> IF p \in dirs /\ d[p].kind = "none" THEN Dir ELSE d[p]]

\* The tree with a file of n bytes at p, and the directories above it.
WithFile(p, n) ==
  [WithDirs(disk, Above[p]) EXCEPT ![p] = [kind |-> "file", size |-> n, by |-> run]]

Without(p) == [disk EXCEPT ![p] = Nothing]

-----------------------------------------------------------------------------
\* Mutant of Overwritten: WorkspaceManager.create opens what is there.
NotOverwritten == disk

\* WorkspaceManager.create with overwrite: rmtree and mkdir.
Overwritten == Empty

\* Mutant of Removed: session has no finally, only a successful run cleans up.
RemovedOnSuccess == ~Keep /\ result = "ingested"

\* The finally of WorkspaceManager.session: close, unless the settings keep it.
Removed == ~Keep

CloseWorkspace ==
  /\ Goto("closing", "idle")
  /\ open' = ~Removed
  /\ disk' = IF Removed THEN Empty ELSE disk
  /\ UNCHANGED <<run, result, orphans>>

=============================================================================
