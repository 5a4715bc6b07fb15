-------------------------- MODULE RepositoryFetch --------------------------
(***************************************************************************)
(* GitRepositoryFetcher.fetch of ingestion/git.py: up to three attempts to *)
(* clone, each under a timeout, and a forced checkout when a clone has     *)
(* left a repository without files.                                        *)
(*                                                                         *)
(* git is a process of its own: it writes files and progress messages, and *)
(* may exit, fail or fall silent at any time.  A progress callback that    *)
(* raises leaves it running, a stray that nobody waits for and that writes *)
(* on into the workspace, whatever is made of it meanwhile.                *)
(*                                                                         *)
(* validate and the options of the command line are left out.              *)
(***************************************************************************)
EXTENDS Workspace

CONSTANTS
  Repos,     \* the sets of files that a repository may consist of
  RepoSize   \* the size of each file

Attempts == 3

ASSUME FetchAssumption ==
  /\ Repos \subseteq SUBSET Path
  /\ \A files \in Repos : \A p \in files : Above[p] \cap files = {}
  /\ RepoSize \in [Path -> Nat]

VARIABLES
  repo,     \* what the repository consists of during this execution
  attempt,  \* the number of the attempt
  git,      \* the process: none, running, or how it has exited
  said,     \* there is output of git's to read
  late,     \* has git_clone_timeout_seconds passed in this attempt
  gitDir,   \* destination/.git is a directory
  strays,   \* the gits that were left running, each as the files it has to write
  astray    \* history: has there been one in this execution

fetching == <<repo, attempt, git, said, late, gitDir, strays, astray>>
left == <<strays, astray>>

Fetching == {"clone", "watch", "read", "exited", "restore"}

TreeSize == Cardinality({p \in Files : disk[p].size > 0})

WithFiles(ps) ==
  [p \in Path |-> IF p \in ps
                  THEN [kind |-> "file", size |-> RepoSize[p], by |-> run]
                  ELSE WithDirs(disk, UNION {Above[q] : q \in ps})[p]]

-----------------------------------------------------------------------------
\* The start of fetch.
BeginFetch ==
  /\ Goto("fetch", "clone")
  /\ attempt' = 1
  /\ git' = "none" /\ said' = FALSE /\ late' = FALSE
  /\ gitDir' = FALSE /\ disk' = Empty
  /\ UNCHANGED <<result, place, repo, left>>

\* Mutant of Cleared: an attempt clones into what the last one has left.
NotCleared == disk

\* rmtree of the destination.  A git that was killed is taken to be gone, though
\* nothing waits for it.
Cleared == Empty

\* The progress callback writes to the database and may raise, and git may
\* not be installed.  git refuses a directory that is not empty, which a stray
\* may see to after the rmtree.
StartClone ==
  /\ \/ /\ Goto("clone", "watch")
        /\ \/ git' = "running" /\ Cleared = Empty
           \/ git' = "refused" /\ (Cleared # Empty \/ strays # {})
        /\ UNCHANGED result
     \/ Fail("clone") /\ UNCHANGED git
  /\ disk' = Cleared
  /\ gitDir' = FALSE /\ said' = FALSE /\ late' = FALSE
  /\ UNCHANGED <<place, repo, attempt, left>>

\* Mutant of NextAttempt: a timeout does not count.
SameAttempt == /\ Goto("watch", "clone")
               /\ UNCHANGED <<attempt, result>>

\* TimeoutExpired: tried again, except the third time.
NextAttempt ==
  \/ /\ attempt < Attempts
     /\ Goto("watch", "clone")
     /\ attempt' = attempt + 1
     /\ UNCHANGED result
  \/ /\ attempt = Attempts
     /\ Fail("watch")
     /\ UNCHANGED attempt

\* The head of the loop: the time is looked at between two reads only.
WatchClock ==
  /\ \/ ~late /\ Goto("watch", "read") /\ UNCHANGED <<attempt, git, result>>
     \/ late /\ NextAttempt /\ git' = "none"
  /\ UNCHANGED <<place, disk, repo, said, late, gitDir, left>>

\* The callback raises on what git has said: nothing catches it here, and nothing
\* kills git.
LeaveGit ==
  /\ Fail("read")
  /\ git' = IF git = "running" THEN "none" ELSE git
  /\ strays' = strays \cup {s \in {repo \ Files} : git = "running"}
  /\ astray' = (astray \/ git = "running")

\* proc.stderr.read(128) returns when git has said something, or is over.
ReadProgress ==
  /\ said \/ git # "running"
  /\ \/ /\ Goto("read", IF git = "running" \/ said THEN "watch" ELSE "exited")
        /\ UNCHANGED <<result, git, left>>
     \/ said /\ LeaveGit
  /\ said' = FALSE
  /\ UNCHANGED <<place, disk, repo, attempt, late, gitDir>>

\* A clone that failed is tried again, but after the last one only the files
\* count, not the exit status.
Cloned == git = "done" /\ TreeSize > 0

EndAttempt ==
  /\ \/ /\ Cloned \/ attempt = Attempts
        /\ Goto("exited", "restore")
        /\ UNCHANGED attempt
     \/ /\ ~Cloned /\ attempt < Attempts
        /\ Goto("exited", "clone")
        /\ attempt' = attempt + 1
  /\ UNCHANGED <<result, place, disk, repo, git, said, late, gitDir, left>>

\* checkout-index, checkout and restore, if only .git is there; each of them
\* may do its work, or some of it, or none.
Restorable == IF gitDir /\ TreeSize = 0 THEN SUBSET {p \in repo : Writable(p)} ELSE {{}}

EndFetch ==
  \E restored \in Restorable :
    LET after == IF restored = {} THEN disk ELSE WithFiles(restored) IN
    /\ disk' = after
    /\ \/ /\ \E p \in Path : after[p].size > 0
          /\ Goto("restore", "scan")
          /\ UNCHANGED result
       \/ /\ \A p \in Path : after[p].size = 0
          /\ Fail("restore")
    /\ UNCHANGED <<place, fetching>>

Fetch == \/ BeginFetch \/ StartClone \/ WatchClock \/ ReadProgress
         \/ EndAttempt \/ EndFetch

-----------------------------------------------------------------------------
(***************************************************************************)
(* git, and time.                                                          *)
(***************************************************************************)
GitStep == git = "running" /\ UNCHANGED <<at, result, place, repo, attempt, late, left>>

\* It receives the repository, and then checks out a file after the other ...
GitWrites ==
  /\ GitStep
  /\ \/ ~gitDir /\ gitDir' = TRUE /\ UNCHANGED disk
     \/ /\ gitDir /\ UNCHANGED gitDir
        /\ \E p \in repo \ Files : Writable(p) /\ disk' = WithFiles({p})
  /\ said' = TRUE
  /\ UNCHANGED git

\* ... until it is done, or it gives up: before it has the repository, when it
\* removes what is there, or during the checkout, when it leaves it.
GitExits ==
  /\ GitStep
  /\ \/ gitDir /\ repo \subseteq Files /\ git' = "done" /\ UNCHANGED <<disk, gitDir>>
     \/ gitDir /\ git' = "error" /\ UNCHANGED <<disk, gitDir>>
     \/ git' = "error" /\ disk' = Empty /\ gitDir' = FALSE
  /\ UNCHANGED said

TimePasses ==
  /\ at \in {"watch", "read"} /\ ~late
  /\ late' = TRUE
  /\ UNCHANGED <<at, result, place, disk, repo, attempt, git, said, gitDir, left>>

Git == GitWrites \/ GitExits

\* A stray makes the directories it needs, so that an rmtree does not last.  Its
\* files are of no execution.
WithStray(p) ==
  [WithDirs(disk, Above[p]) EXCEPT
     ![p] = [kind |-> "file", size |-> RepoSize[p], by |-> 0]]

StrayWrites ==
  /\ strays # {}
  /\ disk' \in {disk} \cup {WithStray(p) : p \in {q \in UNION strays : Writable(q)}}
  /\ gitDir' \in {gitDir, TRUE}
  /\ open' = TRUE
  /\ UNCHANGED <<at, result, run, orphans, repo, attempt, git, said, late, left>>

\* When it gives up it may remove the directory, as if it were still its own.
StrayExits ==
  /\ \E s \in strays : strays' = strays \ {s}
  /\ \/ UNCHANGED <<disk, gitDir>>
     \/ disk' = Empty /\ gitDir' = FALSE
  /\ UNCHANGED <<at, result, place, repo, attempt, git, said, late, astray>>

Stray == StrayWrites \/ StrayExits

=============================================================================
