--------------------------- MODULE ArtifactStore ---------------------------
(***************************************************************************)
(* The rows of projects, analyses and reports, and the files they name:    *)
(* the handlers of api/routes/projects.py and reports.py over the database *)
(* and the storage directory, which no transaction joins.                  *)
(*                                                                         *)
(* A step is one database statement, one commit or one file operation.     *)
(* Identifiers are UUIDs: a deleted row or file does not come back under   *)
(* the same name.                                                          *)
(***************************************************************************)
EXTENDS Naturals

CONSTANTS
  Project, Job, Report,  \* the rows that may be inserted
  ProjectOf,             \* the project of each job
  JobOf,                 \* the job of each report
  Handler,               \* requests that can be in flight at a time
  NoTarget,              \* a handler that serves no request
  Faults,                \* what may fail: "commit", "refresh", "write"
  MaxCrashes             \* bound on the requests whose process dies

ASSUME ArtifactStoreAssumption ==
  /\ ProjectOf \in [Job -> Project]
  /\ JobOf \in [Report -> Job]
  /\ NoTarget \notin Project \cup Job \cup Report
  /\ Faults \subseteq {"commit", "refresh", "write"}
  /\ MaxCrashes \in Nat

VARIABLES
  projects,  \* the table projects, by source_type
  jobs,      \* the table analysis_jobs, by status
  reports,   \* the table generated_reports: status, and is stored_path set
  uploads,   \* storage/uploads: the file of each project
  dirs,      \* storage/reports: the directory of each report
  calls,     \* what each handler is about to do
  asked,     \* history: the reports that delete_report was called for
  crashes    \* history

rows  == <<projects, jobs, reports>>
files == <<uploads, dirs>>
vars  == <<rows, files, calls, asked, crashes>>

Upload  == {"saving", "inserting", "refreshing"}
Analyse == {"enqueueing"}
Remove  == {"listing", "deleting", "unlinking", "emptying"}
Render  == {"requesting", "reloading", "building", "writing", "publishing",
            "published", "failing"}
Drop    == {"clearing", "dropping"}

File == {"none", "partial", "whole", "gone"}
Idle == [at |-> "idle", on |-> NoTarget, paths |-> {}]

TypeOK ==
  /\ projects \in [Project -> {"none", "upload", "github", "deleted"}]
  /\ jobs \in [Job -> {"none", "active", "succeeded", "failed", "deleted"}]
  /\ reports \in [Report ->
       [status : {"none", "generating", "ready", "failed", "deleted"},
        filed  : BOOLEAN]]
  /\ uploads \in [Project -> File]
  /\ dirs \in [Report -> File]
  /\ calls \in [Handler ->
       [at    : {"idle"} \cup Upload \cup Analyse \cup Remove \cup Render \cup Drop,
        on    : Project \cup Job \cup Report \cup {NoTarget},
        paths : SUBSET Report]]
  /\ \A h \in Handler : /\ calls[h].at = "idle" <=> calls[h].on = NoTarget
                        /\ \A r \in calls[h].paths : reports[r].filed
  /\ asked \subseteq Report
  /\ crashes \in 0..MaxCrashes

Init ==
  /\ projects = [p \in Project |-> "none"]
  /\ jobs = [j \in Job |-> "none"]
  /\ reports = [r \in Report |-> [status |-> "none", filed |-> FALSE]]
  /\ uploads = [p \in Project |-> "none"]
  /\ dirs = [r \in Report |-> "none"]
  /\ calls = [h \in Handler |-> Idle]
  /\ asked = {}
  /\ crashes = 0

HasRow(p) == projects[p] \in {"upload", "github"}
Stored(j) == jobs[j] \notin {"none", "deleted"}
Listed(r) == reports[r].status \notin {"none", "deleted"}
OnDisk(file) == file \in {"partial", "whole"}

-----------------------------------------------------------------------------
\* Handler h goes from one point of its code to another, or answers.
At(h, label) == calls[h].at = label
Begin(h, on, to) ==
  /\ At(h, "idle")
  /\ calls' = [calls EXCEPT ![h] = [Idle EXCEPT !.at = to, !.on = on]]
Move(h, from, to) == At(h, from) /\ calls' = [calls EXCEPT ![h].at = to]
Answer(h, from) == At(h, from) /\ calls' = [calls EXCEPT ![h] = Idle]

Fails(what) == what \in Faults

-----------------------------------------------------------------------------
(***************************************************************************)
(* upload_project, register_github_project                                 *)
(***************************************************************************)
Fresh(p) == /\ projects[p] = "none" /\ uploads[p] = "none"
            /\ \A h \in Handler : calls[h].on # p

\* UploadStorage.save opens the file ...
BeginUpload(h, p) ==
  /\ Fresh(p)
  /\ Begin(h, p, "saving")
  /\ uploads' = [uploads EXCEPT ![p] = "partial"]
  /\ UNCHANGED <<rows, dirs, asked, crashes>>

\* ... and writes it, or rejects the upload and removes it: a 400.
EndUpload(h) ==
  LET p == calls[h].on IN
  /\ \/ /\ Move(h, "saving", "inserting")
        /\ uploads' = [uploads EXCEPT ![p] = "whole"]
     \/ /\ Answer(h, "saving")
        /\ uploads' = [uploads EXCEPT ![p] = "gone"]
  /\ UNCHANGED <<rows, dirs, asked, crashes>>

\* Mutant of Abandon: the except branch forgets the file.
AbandonNothing(h, from) == Answer(h, from) /\ UNCHANGED uploads

\* The except branch of upload_project: rollback, and the file is removed.
Abandon(h, from) ==
  /\ Answer(h, from)
  /\ uploads' = [uploads EXCEPT ![calls[h].on] = "gone"]

InsertUpload(h) ==
  /\ \/ /\ Move(h, "inserting", "refreshing")
        /\ projects' = [projects EXCEPT ![calls[h].on] = "upload"]
        /\ UNCHANGED uploads
     \/ Fails("commit") /\ Abandon(h, "inserting") /\ UNCHANGED projects
  /\ UNCHANGED <<jobs, reports, dirs, asked, crashes>>

\* session.refresh raises when another request has deleted the row already.
RefreshUpload(h) ==
  /\ At(h, "refreshing")
  /\ \/ /\ HasRow(calls[h].on)
        /\ Answer(h, "refreshing")
        /\ UNCHANGED uploads
     \/ /\ Fails("refresh") \/ ~HasRow(calls[h].on)
        /\ Abandon(h, "refreshing")
  /\ UNCHANGED <<rows, dirs, asked, crashes>>

RegisterGithub(p) ==
  /\ Fresh(p)
  /\ projects' = [projects EXCEPT ![p] = "github"]
  /\ UNCHANGED <<jobs, reports, files, calls, asked, crashes>>

-----------------------------------------------------------------------------
(***************************************************************************)
(* create_analysis, and what workers and the other requests make of it     *)
(***************************************************************************)
BeginAnalysis(h, j) ==
  /\ jobs[j] = "none" /\ \A g \in Handler : calls[g].on # j
  /\ HasRow(ProjectOf[j])
  /\ Begin(h, j, "enqueueing")
  /\ UNCHANGED <<rows, files, asked, crashes>>

\* Mutant of Insertable: foreign keys are not enforced.
InsertableAnyway(owner) == TRUE

\* The foreign key of the new row has to be there: its owner is stored.
Insertable(owner) == owner

\* enqueue_job.  If its INSERT fails the request answers 500.
InsertAnalysis(h) ==
  LET j == calls[h].on IN
  /\ Answer(h, "enqueueing")
  /\ \/ /\ Insertable(HasRow(ProjectOf[j]))
        /\ jobs' = [jobs EXCEPT ![j] = "active"]
     \/ /\ Fails("commit") \/ ~Insertable(HasRow(ProjectOf[j]))
        /\ UNCHANGED jobs
  /\ UNCHANGED <<projects, reports, files, asked, crashes>>

\* The job ends, or is retried; JobQueue has the details.
EndAnalysis(j) ==
  /\ jobs[j] = "active"
  /\ \E end \in {"succeeded", "failed"} : jobs' = [jobs EXCEPT ![j] = end]
  /\ UNCHANGED <<projects, reports, files, calls, asked, crashes>>

RetryAnalysis(j) ==
  /\ jobs[j] = "failed"
  /\ jobs' = [jobs EXCEPT ![j] = "active"]
  /\ UNCHANGED <<projects, reports, files, calls, asked, crashes>>

-----------------------------------------------------------------------------
(***************************************************************************)
(* delete_project                                                          *)
(***************************************************************************)
ReportsOf(p) == {r \in Report : ProjectOf[JobOf[r]] = p}

\* A project with an active job is a 409.
BeginDeleteProject(h, p) ==
  /\ HasRow(p)
  /\ \A j \in Job : ProjectOf[j] = p => jobs[j] # "active"
  /\ Begin(h, p, "listing")
  /\ UNCHANGED <<rows, files, asked, crashes>>

\* Mutants of PathsOf: the query lacks one of its conditions.
PathsOfAny(p) == {r \in ReportsOf(p) : Listed(r)}
PathsOfAll(p) == {r \in Report : Listed(r) /\ reports[r].filed}

\* The report_paths query: stored_path IS NOT NULL.
PathsOf(p) == {r \in ReportsOf(p) : Listed(r) /\ reports[r].filed}

ListPaths(h) ==
  /\ At(h, "listing")
  /\ calls' = [calls EXCEPT ![h].at = "deleting",
                            ![h].paths = PathsOf(calls[h].on)]
  /\ UNCHANGED <<rows, files, asked, crashes>>

\* The commit raises: a 500, and no file has been touched yet.
DeleteRefused(h) == Answer(h, "deleting")

\* The row, and by cascade those of its jobs and their reports.  If another
\* request was faster the DELETE matches nothing, which is only a warning.
CommitDeleteProject(h) ==
  LET p == calls[h].on IN
  /\ \/ /\ Move(h, "deleting", "unlinking")
        /\ projects' = [projects EXCEPT ![p] = "deleted"]
        /\ jobs' = [j \in Job |-> IF ProjectOf[j] = p /\ Stored(j)
                                  THEN "deleted" ELSE jobs[j]]
        /\ reports' = [r \in Report |-> IF r \in ReportsOf(p) /\ Listed(r)
                         THEN [reports[r] EXCEPT !.status = "deleted"]
                         ELSE reports[r]]
     \/ Fails("commit") /\ DeleteRefused(h) /\ UNCHANGED rows
  /\ UNCHANGED <<files, asked, crashes>>

\* storage.delete; a project from GitHub has no file.
UnlinkUpload(h) ==
  LET p == calls[h].on IN
  /\ IF calls[h].paths = {} THEN Answer(h, "unlinking")
                            ELSE Move(h, "unlinking", "emptying")
  /\ uploads' = [uploads EXCEPT ![p] = IF OnDisk(@) THEN "gone" ELSE @]
  /\ UNCHANGED <<rows, dirs, asked, crashes>>

RemoveDir(h) ==
  \E r \in calls[h].paths :
    /\ IF calls[h].paths = {r}
       THEN Answer(h, "emptying")
       ELSE /\ At(h, "emptying")
            /\ calls' = [calls EXCEPT ![h].paths = @ \ {r}]
    /\ dirs' = [dirs EXCEPT ![r] = "gone"]
    /\ UNCHANGED <<rows, uploads, asked, crashes>>

-----------------------------------------------------------------------------
(***************************************************************************)
(* create_report, generate_report                                          *)
(***************************************************************************)

\* A job that has not succeeded is a 409.
BeginReport(h, r) ==
  /\ reports[r].status = "none" /\ \A g \in Handler : calls[g].on # r
  /\ jobs[JobOf[r]] = "succeeded"
  /\ Begin(h, r, "requesting")
  /\ UNCHANGED <<rows, files, asked, crashes>>

InsertReport(h) ==
  LET r == calls[h].on IN
  /\ At(h, "requesting")
  /\ \/ /\ Insertable(Stored(JobOf[r]))
        /\ Move(h, "requesting", "reloading")
        /\ reports' = [reports EXCEPT ![r].status = "generating"]
     \/ /\ Fails("commit") \/ ~Insertable(Stored(JobOf[r]))
        /\ Answer(h, "requesting")
        /\ UNCHANGED reports
  /\ UNCHANGED <<projects, jobs, files, asked, crashes>>

\* The first session.refresh is outside the try block: a 500.
ReloadReport(h) ==
  /\ At(h, "reloading")
  /\ \/ Listed(calls[h].on) /\ Move(h, "reloading", "building")
     \/ (Fails("refresh") \/ ~Listed(calls[h].on)) /\ Answer(h, "reloading")
  /\ UNCHANGED <<rows, files, asked, crashes>>

\* build_payload and mkdir.  The job is the copy in the session, which still
\* says "succeeded"; the project is read, and may be gone: ValueError.
BuildReport(h) ==
  LET r == calls[h].on IN
  /\ At(h, "building")
  /\ IF HasRow(ProjectOf[JobOf[r]])
     THEN /\ Move(h, "building", "writing")
          /\ dirs' = [dirs EXCEPT ![r] = "partial"]
     ELSE Move(h, "building", "failing") /\ UNCHANGED dirs
  /\ UNCHANGED <<rows, uploads, asked, crashes>>

\* _write_json, _write_csv_bundle, _write_html, _write_pdf.
WriteReport(h) ==
  /\ \/ /\ Move(h, "writing", "publishing")
        /\ dirs' = [dirs EXCEPT ![calls[h].on] = "whole"]
     \/ Fails("write") /\ Move(h, "writing", "failing") /\ UNCHANGED dirs
  /\ UNCHANGED <<rows, uploads, asked, crashes>>

\* A commit that fails, also because no row matched its UPDATE, leaves the
\* transaction unusable: the commit of the except branch raises, too.
PublishReport(h) ==
  LET r == calls[h].on IN
  /\ At(h, "publishing")
  /\ \/ /\ Listed(r)
        /\ Move(h, "publishing", "published")
        /\ reports' = [reports EXCEPT ![r] = [status |-> "ready",
                                              filed  |-> TRUE]]
     \/ /\ Fails("commit") \/ ~Listed(r)
        /\ Answer(h, "publishing")
        /\ UNCHANGED reports
  /\ UNCHANGED <<projects, jobs, files, asked, crashes>>

\* The second session.refresh is inside the try block.
ShowReport(h) ==
  /\ At(h, "published")
  /\ \/ Listed(calls[h].on) /\ Answer(h, "published")
     \/ /\ Fails("refresh") \/ ~Listed(calls[h].on)
        /\ Move(h, "published", "failing")
  /\ UNCHANGED <<rows, files, asked, crashes>>

\* The except branch; stored_path stays as it was loaded or committed.
FailReport(h) ==
  LET r == calls[h].on IN
  /\ Answer(h, "failing")
  /\ \/ /\ Listed(r)
        /\ reports' = [reports EXCEPT ![r].status = "failed"]
     \/ (Fails("commit") \/ ~Listed(r)) /\ UNCHANGED reports
  /\ UNCHANGED <<projects, jobs, files, asked, crashes>>

-----------------------------------------------------------------------------
(***************************************************************************)
(* delete_report                                                           *)
(***************************************************************************)
BeginDeleteReport(h, r) ==
  /\ Listed(r)
  /\ Begin(h, r, IF reports[r].filed THEN "clearing" ELSE "dropping")
  /\ asked' = asked \cup {r}
  /\ UNCHANGED <<rows, files, crashes>>

ClearDir(h) ==
  /\ Move(h, "clearing", "dropping")
  /\ dirs' = [dirs EXCEPT ![calls[h].on] = "gone"]
  /\ UNCHANGED <<rows, uploads, asked, crashes>>

DropReport(h) ==
  /\ Answer(h, "dropping")
  /\ \/ reports' = [reports EXCEPT ![calls[h].on].status = "deleted"]
     \/ Fails("commit") /\ UNCHANGED reports
  /\ UNCHANGED <<projects, jobs, files, asked, crashes>>

\* The process that serves the request dies.
Crash(h) ==
  /\ ~At(h, "idle")
  /\ crashes < MaxCrashes
  /\ crashes' = crashes + 1
  /\ calls' = [calls EXCEPT ![h] = Idle]
  /\ UNCHANGED <<rows, files, asked>>

-----------------------------------------------------------------------------
Serve(h) ==
  \/ EndUpload(h) \/ InsertUpload(h) \/ RefreshUpload(h)
  \/ InsertAnalysis(h)
  \/ ListPaths(h) \/ CommitDeleteProject(h) \/ UnlinkUpload(h) \/ RemoveDir(h)
  \/ InsertReport(h) \/ ReloadReport(h) \/ BuildReport(h) \/ WriteReport(h)
  \/ PublishReport(h) \/ ShowReport(h) \/ FailReport(h)
  \/ ClearDir(h) \/ DropReport(h)

Next ==
  \/ \E h \in Handler :
       \/ Serve(h) \/ Crash(h)
       \/ \E p \in Project : BeginUpload(h, p) \/ BeginDeleteProject(h, p)
       \/ \E j \in Job : BeginAnalysis(h, j)
       \/ \E r \in Report : BeginReport(h, r) \/ BeginDeleteReport(h, r)
  \/ \E p \in Project : RegisterGithub(p)
  \/ \E j \in Job : EndAnalysis(j) \/ RetryAnalysis(j)

Spec == Init /\ [][Next]_vars

-----------------------------------------------------------------------------
(***************************************************************************)
(* Properties.                                                             *)
(***************************************************************************)

\* What a row names is there: the file of an uploaded project as long as its
\* row is, and the complete directory of a ready report until somebody asks to
\* delete this report or its project.  Upload writes the file first and
\* delete_project removes it last; no request takes a file from under another
\* project, and neither does a failed commit nor a crash.  ("refresh" faults
\* break it: the except branch removes the file of a row that is committed.)
FilesAreThere ==
  /\ \A p \in Project : projects[p] = "upload" => uploads[p] = "whole"
  /\ \A r \in Report : reports[r].status = "ready" /\ r \notin asked =>
                         dirs[r] = "whole"

\* No upload is left behind: a file without a row has a request at work that
\* will insert the row or remove the file, unless such a request died.
UploadHasOwner ==
  \A p \in Project : OnDisk(uploads[p]) /\ projects[p] # "upload" =>
    \/ crashes > 0
    \/ \E h \in Handler : calls[h].on = p /\ calls[h].at \in Upload \cup Remove

\* Rows do not outlive the project they belong to, although analyses and
\* reports are inserted after a check that may be out of date.
RowsHaveOwners ==
  /\ \A j \in Job : Stored(j) => HasRow(ProjectOf[j])
  /\ \A r \in Report : Listed(r) => Stored(JobOf[r])

\* SECURITY.md: "Project deletion removes generated report directories."
\* When the project is gone and no request for it is at work, so are its
\* report directories.
DirsOfDeletedAreGone ==
  \A r \in Report :
    LET p == ProjectOf[JobOf[r]] IN
    projects[p] = "deleted" /\ OnDisk(dirs[r]) =>
      \/ crashes > 0
      \/ \E h \in Handler : calls[h].on \in {p, r}

=============================================================================
