------------------------- MODULE ArtifactStoreProofs ------------------------
(***************************************************************************)
(* Proofs about ArtifactStore, for any projects, analyses, reports and     *)
(* requests, and any number of crashes.                                    *)
(*                                                                         *)
(* A request decides once and acts later, on files that other requests may *)
(* act on meanwhile.  The invariant says of each label what a request may  *)
(* still rely on there: a new upload and a new report have one request     *)
(* that knows them, and files are only removed when the row is, or when    *)
(* somebody has asked for it.                                              *)
(***************************************************************************)
EXTENDS ArtifactStore, TLAPS

\* A request works on what its label says.
Calls == [at    : {"idle"} \cup Upload \cup Analyse \cup Remove \cup Render \cup Drop,
          on    : Project \cup Job \cup Report \cup {NoTarget},
          paths : SUBSET Report]

Suits(label, on) ==
  /\ label = "idle" <=> on = NoTarget
  /\ label \in Upload \cup Remove => on \in Project
  /\ label \in Analyse => on \in Job
  /\ label \in Render \cup Drop => on \in Report

Proper(c) == Suits(c.at, c.on) /\ (c.paths # {} => c.at \in Remove)

Names == \A h \in Handler : Proper(calls[h])

Uploading(h) == calls[h].at \in {"saving", "inserting"}

\* An upload without a row is known to one request, which has it whole when it
\* inserts the row.
UploadsAlone ==
  \A h \in Handler : Uploading(h) =>
    /\ projects[calls[h].on] = "none"
    /\ calls[h].at = "inserting" => uploads[calls[h].on] = "whole"
    /\ \A g \in Handler : calls[g].at \in Upload /\ calls[g].on = calls[h].on => g = h

\* Files of a project are removed when its row and those below are deleted.
RowsGoFirst ==
  \A h \in Handler :
    /\ calls[h].at \in Remove \cup {"refreshing"} => projects[calls[h].on] # "none"
    /\ calls[h].at \in {"unlinking", "emptying"} => projects[calls[h].on] = "deleted"

PathsGoToo ==
  \A h \in Handler : \A r \in calls[h].paths :
    /\ r \in ReportsOf(calls[h].on)
    /\ calls[h].at \in {"unlinking", "emptying"} => reports[r].status = "deleted"

\* An upload without a row is about to get it, or to be removed.
Tended ==
  \A p \in Project : OnDisk(uploads[p]) /\ projects[p] # "upload" =>
    \/ crashes > 0
    \/ \E h \in Handler : calls[h].on = p /\ (Uploading(h) \/ calls[h].at = "unlinking")

RendersAlone ==
  \A g, h \in Handler :
    calls[g].at \in Render /\ calls[h].at \in Render /\ calls[g].on = calls[h].on => g = h

\* A report is not ready before its directory is whole.
Rendered ==
  /\ \A r \in Report : reports[r].filed => reports[r].status \in {"ready", "failed", "deleted"}
  /\ \A h \in Handler :
       LET r == calls[h].on IN
       /\ calls[h].at = "requesting" => reports[r].status = "none"
       /\ calls[h].at \in {"reloading", "building", "writing", "publishing"} =>
            reports[r].status \in {"generating", "deleted"}
       /\ calls[h].at \in {"published", "failing"} => reports[r].status # "none"
       /\ calls[h].at = "publishing" =>
            dirs[r] = "whole" \/ r \in asked \/ reports[r].status = "deleted"
       /\ calls[h].at \in Drop => r \in asked /\ reports[r].status # "none"

ReadyIsWhole ==
  \A r \in Report : reports[r].status = "ready" /\ r \notin asked => dirs[r] = "whole"

UploadIsWhole == \A p \in Project : projects[p] = "upload" => uploads[p] = "whole"

Begins(h) ==
  \/ \E p \in Project : BeginUpload(h, p) \/ BeginDeleteProject(h, p)
  \/ \E j \in Job : BeginAnalysis(h, j)
  \/ \E r \in Report : BeginReport(h, r) \/ BeginDeleteReport(h, r)

Step(h) == Serve(h) \/ Crash(h) \/ Begins(h)

\* The steps of each group of handlers.
UploadStep(h) ==
  \/ EndUpload(h) \/ InsertUpload(h) \/ RefreshUpload(h)
  \/ \E p \in Project : BeginUpload(h, p)

RemoveStep(h) ==
  \/ ListPaths(h) \/ CommitDeleteProject(h) \/ UnlinkUpload(h) \/ RemoveDir(h)
  \/ \E p \in Project : BeginDeleteProject(h, p)

AnalysisStep(h) == InsertAnalysis(h) \/ \E j \in Job : BeginAnalysis(h, j)

ReportStep(h) ==
  \/ InsertReport(h) \/ ReloadReport(h) \/ BuildReport(h) \/ WriteReport(h)
  \/ PublishReport(h) \/ ShowReport(h) \/ FailReport(h)
  \/ ClearDir(h) \/ DropReport(h)
  \/ \E r \in Report : BeginReport(h, r) \/ BeginDeleteReport(h, r)

Elsewhere ==
  \/ \E p \in Project : RegisterGithub(p)
  \/ \E j \in Job : EndAnalysis(j) \/ RetryAnalysis(j)

-----------------------------------------------------------------------------
\* What requests are, and that their steps are their own.
LEMMA StepsAreLocal ==
  ASSUME TypeOK, NEW h \in Handler, Step(h)
  PROVE  \A g \in Handler \ {h} : calls'[g] = calls[g]
<1>. USE DEF TypeOK, Begin, Move, Answer
<1>1. CASE Begins(h)
  BY <1>1 DEF Begins, BeginUpload, BeginDeleteProject, BeginAnalysis, BeginReport, BeginDeleteReport
<1>2. CASE Crash(h) BY <1>2 DEF Crash
<1>3. CASE EndUpload(h) \/ InsertUpload(h) \/ RefreshUpload(h)
  BY <1>3 DEF EndUpload, InsertUpload, RefreshUpload, Abandon
<1>4. CASE InsertAnalysis(h) BY <1>4 DEF InsertAnalysis
<1>5. CASE ListPaths(h) \/ CommitDeleteProject(h)
  BY <1>5 DEF ListPaths, CommitDeleteProject, DeleteRefused
<1>6. CASE UnlinkUpload(h) \/ RemoveDir(h)
  BY <1>6 DEF UnlinkUpload, RemoveDir
<1>7. CASE InsertReport(h) \/ ReloadReport(h) \/ BuildReport(h) \/ WriteReport(h)
  BY <1>7 DEF InsertReport, ReloadReport, BuildReport, WriteReport
<1>8. CASE PublishReport(h) \/ ShowReport(h) \/ FailReport(h)
  BY <1>8 DEF PublishReport, ShowReport, FailReport
<1>9. CASE ClearDir(h) \/ DropReport(h) BY <1>9 DEF ClearDir, DropReport
<1>. QED BY <1>1, <1>2, <1>3, <1>4, <1>5, <1>6, <1>7, <1>8, <1>9 DEF Step, Serve

\* Whatever a step makes of its call, it is a proper one, and lists no report but
\* those with a stored_path.
Goes(h) ==
  \E c \in Calls :
    /\ Proper(c) /\ \A r \in c.paths : r \in calls[h].paths \/ reports[r].filed
    /\ calls' = [calls EXCEPT ![h] = c]

Labels == {"idle"} \cup Upload \cup Analyse \cup Remove \cup Render \cup Drop

LEMMA Beginning ==
  ASSUME TypeOK, NEW h \in Handler, NEW on, NEW to \in Labels, Begin(h, on, to), Suits(to, on)
  PROVE  Goes(h)
<1>. DEFINE c == [Idle EXCEPT !.at = to, !.on = on]
<1>1. c.at = to /\ c.on = on /\ c.paths = {} BY DEF Idle
<1>2. c \in Calls
  <2>1. Idle \in Calls BY DEF Idle, Calls
  <2>2. to \in Labels /\ on \in Project \cup Job \cup Report \cup {NoTarget}
    BY DEF Labels, Suits, Upload, Analyse, Remove, Render, Drop
  <2>. QED BY <2>1, <2>2 DEF Calls, Labels
<1>3. Proper(c) BY <1>1 DEF Proper
<1>. QED BY <1>1, <1>2, <1>3 DEF Goes, Begin

LEMMA Moving ==
  ASSUME TypeOK, Names, NEW h \in Handler, NEW from, NEW to \in Labels, Move(h, from, to),
         Suits(from, calls[h].on) => Suits(to, calls[h].on),
         from \in Remove => to \in Remove
  PROVE  Goes(h)
<1>. DEFINE c == [calls[h] EXCEPT !.at = to]
<1>1. calls[h] \in Calls /\ Proper(calls[h]) /\ calls[h].at = from
  BY DEF TypeOK, Calls, Names, Move, At
<1>2. c \in Calls /\ c.at = to /\ c.on = calls[h].on /\ c.paths = calls[h].paths
  BY <1>1 DEF Calls, Labels
<1>3. Proper(c) BY <1>1, <1>2 DEF Proper
<1>4. calls' = [calls EXCEPT ![h] = c] BY DEF Move
<1>. QED BY <1>2, <1>3, <1>4 DEF Goes

LEMMA Answering ==
  ASSUME TypeOK, NEW h \in Handler, calls' = [calls EXCEPT ![h] = Idle]
  PROVE  Goes(h)
<1>1. Idle \in Calls /\ Idle.paths = {} BY DEF Idle, Calls
<1>2. Proper(Idle)
  BY ArtifactStoreAssumption
     DEF Idle, Proper, Suits, Upload, Analyse, Remove, Render, Drop
<1>. QED BY <1>1, <1>2 DEF Goes

\* Labels of one handler of the API suit the same rows.
LEMMA OneHandler ==
  ASSUME NEW on, NEW group \in {Upload, Analyse, Remove, Render, Drop},
         NEW from \in group, NEW to \in group
  PROVE  /\ from \in Labels /\ to \in Labels
         /\ Suits(from, on) => Suits(to, on)
         /\ from \in Remove => to \in Remove
BY DEF Labels, Suits, Upload, Analyse, Remove, Render, Drop

LEMMA CallsStayProper ==
  ASSUME TypeOK, Names, NEW h \in Handler, Step(h)
  PROVE  Goes(h)
<1>. USE DEF Labels, Suits, Upload, Analyse, Remove, Render, Drop
<1>1. CASE Begins(h)
  <2>. USE ArtifactStoreAssumption, Beginning
  <2>1. ASSUME NEW p \in Project, BeginUpload(h, p) PROVE Goes(h)
    BY <2>1 DEF BeginUpload
  <2>2. ASSUME NEW p \in Project, BeginDeleteProject(h, p) PROVE Goes(h)
    BY <2>2 DEF BeginDeleteProject
  <2>3. ASSUME NEW j \in Job, BeginAnalysis(h, j) PROVE Goes(h)
    BY <2>3 DEF BeginAnalysis
  <2>4. ASSUME NEW r \in Report, BeginReport(h, r) PROVE Goes(h)
    BY <2>4 DEF BeginReport
  <2>5. ASSUME NEW r \in Report, BeginDeleteReport(h, r) PROVE Goes(h)
    BY <2>5 DEF BeginDeleteReport
  <2>. QED BY <1>1, <2>1, <2>2, <2>3, <2>4, <2>5 DEF Begins
<1>. USE Moving, Answering DEF Answer
<1>2. CASE Crash(h) BY <1>2 DEF Crash
<1>3. CASE EndUpload(h) BY <1>3 DEF EndUpload
<1>4. CASE InsertUpload(h) BY <1>4 DEF InsertUpload, Abandon
<1>5. CASE RefreshUpload(h) BY <1>5 DEF RefreshUpload, Abandon
<1>6. CASE InsertAnalysis(h) BY <1>6 DEF InsertAnalysis
<1>7. CASE ListPaths(h)
  <2>. DEFINE c == [calls[h] EXCEPT !.at = "deleting", !.paths = PathsOf(calls[h].on)]
  <2>1. calls[h] \in Calls /\ Proper(calls[h]) /\ calls[h].at = "listing"
    BY <1>7 DEF TypeOK, Calls, Names, ListPaths, At
  <2>2. PathsOf(calls[h].on) \subseteq Report BY DEF PathsOf, ReportsOf
  <2>3. c \in Calls /\ c.at = "deleting" /\ c.on = calls[h].on /\ c.paths = PathsOf(calls[h].on)
    BY <2>1, <2>2 DEF Calls
  <2>4. Proper(c) BY <2>1, <2>3 DEF Proper
  <2>5. calls' = [calls EXCEPT ![h] = c]
    <3>1. calls' = [calls EXCEPT ![h].at = "deleting", ![h].paths = PathsOf(calls[h].on)]
      BY <1>7 DEF ListPaths
    <3>. QED BY <2>1, <3>1 DEF TypeOK, Calls
  <2>. QED BY <2>3, <2>4, <2>5 DEF Goes, PathsOf
<1>8. CASE CommitDeleteProject(h) BY <1>8 DEF CommitDeleteProject, DeleteRefused
<1>9. CASE UnlinkUpload(h) BY <1>9 DEF UnlinkUpload
<1>10. CASE RemoveDir(h)
  <2>1. PICK r \in calls[h].paths :
          \/ Answer(h, "emptying")
          \/ At(h, "emptying") /\ calls' = [calls EXCEPT ![h].paths = @ \ {r}]
    BY <1>10 DEF RemoveDir
  <2>. DEFINE c == [calls[h] EXCEPT !.paths = @ \ {r}]
  <2>2. calls[h] \in Calls /\ Proper(calls[h]) BY DEF TypeOK, Calls, Names
  <2>3. c \in Calls /\ c.at = calls[h].at /\ c.on = calls[h].on /\ c.paths \subseteq calls[h].paths
    BY <2>2 DEF Calls
  <2>4. Proper(c) BY <2>2, <2>3 DEF Proper
  <2>. QED BY <2>1, <2>3, <2>4 DEF Goes
<1>11. CASE InsertReport(h) BY <1>11 DEF InsertReport
<1>12. CASE ReloadReport(h) BY <1>12 DEF ReloadReport
<1>13. CASE BuildReport(h) BY <1>13 DEF BuildReport
<1>14. CASE WriteReport(h) BY <1>14 DEF WriteReport
<1>15. CASE PublishReport(h) BY <1>15 DEF PublishReport
<1>16. CASE ShowReport(h) BY <1>16 DEF ShowReport
<1>17. CASE FailReport(h) BY <1>17 DEF FailReport
<1>18. CASE ClearDir(h) BY <1>18 DEF ClearDir
<1>19. CASE DropReport(h) BY <1>19 DEF DropReport
<1>. QED BY <1>1, <1>2, <1>3, <1>4, <1>5, <1>6, <1>7, <1>8, <1>9, <1>10, <1>11, <1>12,
            <1>13, <1>14, <1>15, <1>16, <1>17, <1>18, <1>19 DEF Step, Serve

-----------------------------------------------------------------------------
\* The tables and the files, and that a stored_path is never taken back.
TablesKeepTypes ==
  /\ projects' \in [Project -> {"none", "upload", "github", "deleted"}]
  /\ jobs' \in [Job -> {"none", "active", "succeeded", "failed", "deleted"}]
  /\ reports' \in [Report ->
       [status : {"none", "generating", "ready", "failed", "deleted"},
        filed  : BOOLEAN]]
  /\ uploads' \in [Project -> File]
  /\ dirs' \in [Report -> File]
  /\ asked' \subseteq Report
  /\ crashes' \in 0..MaxCrashes
  /\ \A r \in Report : reports[r].filed => reports'[r].filed

Statuses == {"none", "generating", "ready", "failed", "deleted"}

LEMMA StatusIsSet ==
  ASSUME TypeOK, NEW r, NEW status \in Statuses, reports' = [reports EXCEPT ![r].status = status]
  PROVE  /\ reports' \in [Report -> [status : Statuses, filed : BOOLEAN]]
         /\ \A q \in Report : reports'[q].filed = reports[q].filed
         /\ \A q \in Report \ {r} : reports'[q] = reports[q]
         /\ r \in Report => reports'[r].status = status
<1>1. reports \in [Report -> [status : Statuses, filed : BOOLEAN]] BY DEF TypeOK, Statuses
<1>2. \A q \in Report :
        /\ [reports[q] EXCEPT !.status = status] \in [status : Statuses, filed : BOOLEAN]
        /\ [reports[q] EXCEPT !.status = status].filed = reports[q].filed
        /\ [reports[q] EXCEPT !.status = status].status = status
  BY <1>1
<1>3. reports' = [q \in Report |->
                    IF q = r THEN [reports[q] EXCEPT !.status = status] ELSE reports[q]]
  BY <1>1
<1>. QED BY <1>1, <1>2, <1>3

LEMMA TablesFollow ==
  ASSUME TypeOK, Names, NEW h \in Handler, Step(h)
  PROVE  TablesKeepTypes
<1>. USE ArtifactStoreAssumption DEF TypeOK, TablesKeepTypes, rows, files, File
<1>1. CASE Begins(h)
  BY <1>1 DEF Begins, BeginUpload, BeginDeleteProject, BeginAnalysis, BeginReport, BeginDeleteReport
<1>2. CASE Crash(h) BY <1>2 DEF Crash
<1>3. CASE EndUpload(h) BY <1>3 DEF EndUpload
<1>4. CASE InsertUpload(h) BY <1>4 DEF InsertUpload, Abandon
<1>5. CASE RefreshUpload(h) BY <1>5 DEF RefreshUpload, Abandon
<1>6. CASE InsertAnalysis(h) BY <1>6 DEF InsertAnalysis
<1>7. CASE ListPaths(h) BY <1>7 DEF ListPaths
<1>8. CASE CommitDeleteProject(h)
  <2>. DEFINE p == calls[h].on
  <2>1. CASE UNCHANGED rows BY <1>8, <2>1 DEF CommitDeleteProject
  <2>2. CASE ~UNCHANGED rows
    <3>1. /\ projects' = [projects EXCEPT ![p] = "deleted"]
          /\ jobs' = [j \in Job |-> IF ProjectOf[j] = p /\ Stored(j) THEN "deleted" ELSE jobs[j]]
          /\ reports' = [r \in Report |-> IF r \in ReportsOf(p) /\ Listed(r)
                           THEN [reports[r] EXCEPT !.status = "deleted"] ELSE reports[r]]
          /\ UNCHANGED <<files, asked, crashes>>
      BY <1>8, <2>2 DEF CommitDeleteProject
    <3>2. \A r \in Report :
            /\ [reports[r] EXCEPT !.status = "deleted"] \in [status : Statuses, filed : BOOLEAN]
            /\ [reports[r] EXCEPT !.status = "deleted"].filed = reports[r].filed
      BY DEF Statuses
    <3>3. /\ reports' \in [Report -> [status : Statuses, filed : BOOLEAN]]
          /\ \A r \in Report : reports'[r].filed = reports[r].filed
      BY <3>1, <3>2 DEF Statuses
    <3>4. projects' \in [Project -> {"none", "upload", "github", "deleted"}] BY <3>1
    <3>5. jobs' \in [Job -> {"none", "active", "succeeded", "failed", "deleted"}] BY <3>1
    <3>. QED BY <3>1, <3>3, <3>4, <3>5 DEF Statuses
  <2>. QED BY <2>1, <2>2
<1>9. CASE UnlinkUpload(h) BY <1>9 DEF UnlinkUpload
<1>10. CASE RemoveDir(h) BY <1>10 DEF RemoveDir
<1>11. CASE InsertReport(h)
  <2>1. reports' = reports \/ reports' = [reports EXCEPT ![calls[h].on].status = "generating"]
    BY <1>11 DEF InsertReport
  <2>. QED BY <1>11, <2>1, StatusIsSet DEF InsertReport, Statuses
<1>12. CASE ReloadReport(h) BY <1>12 DEF ReloadReport
<1>13. CASE BuildReport(h) BY <1>13 DEF BuildReport
<1>14. CASE WriteReport(h) BY <1>14 DEF WriteReport
<1>15. CASE PublishReport(h)
  <2>1. CASE UNCHANGED reports BY <1>15, <2>1 DEF PublishReport
  <2>2. CASE reports' = [reports EXCEPT ![calls[h].on] = [status |-> "ready", filed |-> TRUE]]
    <3>1. /\ reports' \in [Report -> [status : Statuses, filed : BOOLEAN]]
          /\ \A q \in Report : reports[q].filed => reports'[q].filed
      BY <2>2 DEF Statuses
    <3>. QED BY <1>15, <3>1 DEF PublishReport, Statuses
  <2>. QED BY <1>15, <2>1, <2>2 DEF PublishReport
<1>16. CASE ShowReport(h) BY <1>16 DEF ShowReport
<1>17. CASE FailReport(h)
  <2>1. reports' = reports \/ reports' = [reports EXCEPT ![calls[h].on].status = "failed"]
    BY <1>17 DEF FailReport
  <2>. QED BY <1>17, <2>1, StatusIsSet DEF FailReport, Statuses
<1>18. CASE ClearDir(h) BY <1>18 DEF ClearDir
<1>19. CASE DropReport(h)
  <2>1. reports' = reports \/ reports' = [reports EXCEPT ![calls[h].on].status = "deleted"]
    BY <1>19 DEF DropReport
  <2>. QED BY <1>19, <2>1, StatusIsSet DEF DropReport, Statuses
<1>. QED BY <1>1, <1>2, <1>3, <1>4, <1>5, <1>6, <1>7, <1>8, <1>9, <1>10, <1>11, <1>12,
            <1>13, <1>14, <1>15, <1>16, <1>17, <1>18, <1>19 DEF Step, Serve

LEMMA TablesFollowElsewhere ==
  ASSUME TypeOK, Elsewhere
  PROVE  TablesKeepTypes /\ calls' = calls
BY DEF TypeOK, TablesKeepTypes, Elsewhere, RegisterGithub, EndAnalysis, RetryAnalysis,
       rows, files, File

LEMMA TypesFollow ==
  ASSUME TypeOK, Names, (\E h \in Handler : Step(h)) \/ Elsewhere
  PROVE  TypeOK' /\ Names'
<1>1. CASE Elsewhere
  <2>1. TypeOK' BY <1>1, TablesFollowElsewhere DEF TypeOK, TablesKeepTypes
  <2>2. Names' BY <1>1, TablesFollowElsewhere DEF Names, Proper
  <2>. QED BY <2>1, <2>2
<1>2. ASSUME NEW h \in Handler, Step(h) PROVE TypeOK' /\ Names'
  <2>1. PICK c \in Calls :
          /\ Proper(c) /\ \A r \in c.paths : r \in calls[h].paths \/ reports[r].filed
          /\ calls' = [calls EXCEPT ![h] = c]
    BY <1>2, CallsStayProper DEF Goes
  <2>2. TablesKeepTypes BY <1>2, TablesFollow
  <2>3. calls' \in [Handler -> Calls] BY <2>1 DEF TypeOK, Calls
  <2>4. \A g \in Handler : calls'[g] = IF g = h THEN c ELSE calls[g]
    BY <2>1 DEF TypeOK
  <2>5. Names' BY <2>1, <2>4 DEF Names, Proper
  <2>6. ASSUME NEW g \in Handler
        PROVE  /\ calls'[g].at = "idle" <=> calls'[g].on = NoTarget
               /\ \A r \in calls'[g].paths : reports'[r].filed
    <3>1. Proper(calls'[g]) /\ calls'[g] \in Calls BY <2>3, <2>5 DEF Names, Proper
    <3>2. ASSUME NEW r \in calls'[g].paths PROVE reports'[r].filed
      <4>1. r \in Report BY <3>1 DEF Calls
      <4>2. reports[r].filed BY <2>1, <2>4 DEF TypeOK
      <4>. QED BY <4>1, <4>2, <2>2 DEF TablesKeepTypes
    <3>. QED BY <3>1, <3>2 DEF Proper, Suits
  <2>. QED BY <2>2, <2>3, <2>5, <2>6 DEF TypeOK, TablesKeepTypes, Calls
<1>. QED BY <1>1, <1>2

-----------------------------------------------------------------------------
LEMMA StepsByGroup ==
  ASSUME NEW h
  PROVE  Step(h) <=> UploadStep(h) \/ RemoveStep(h) \/ AnalysisStep(h) \/ ReportStep(h) \/ Crash(h)
BY DEF Step, Serve, Begins, UploadStep, RemoveStep, AnalysisStep, ReportStep

\* Where a call is before and after a step.
LEMMA AfterBegin ==
  ASSUME TypeOK, NEW h \in Handler, NEW on, NEW to, Begin(h, on, to)
  PROVE  /\ calls[h].at = "idle" /\ calls[h].on = NoTarget
         /\ calls'[h].at = to /\ calls'[h].on = on /\ calls'[h].paths = {}
BY DEF TypeOK, Begin, At, Idle

LEMMA AfterMove ==
  ASSUME TypeOK, NEW h \in Handler, NEW from, NEW to, Move(h, from, to)
  PROVE  /\ calls[h].at = from /\ calls'[h].at = to
         /\ calls'[h].on = calls[h].on /\ calls'[h].paths = calls[h].paths
BY DEF TypeOK, Move, At

LEMMA AfterAnswer ==
  ASSUME TypeOK, NEW h \in Handler, NEW from, Answer(h, from)
  PROVE  /\ calls[h].at = from /\ calls'[h].at = "idle"
         /\ calls'[h].on = NoTarget /\ calls'[h].paths = {}
BY DEF TypeOK, Answer, At, Idle

\* What one group does is nothing to the others.
LEMMA ApartFromUploads ==
  ASSUME TypeOK, NEW h \in Handler, AnalysisStep(h) \/ ReportStep(h)
  PROVE  /\ UNCHANGED <<projects, uploads, crashes>>
         /\ calls[h].at \notin Upload \cup Remove /\ calls'[h].at \notin Upload \cup Remove
<1>. USE AfterBegin, AfterMove, AfterAnswer DEF rows, files, Upload, Remove
<1>1. CASE AnalysisStep(h) BY <1>1 DEF AnalysisStep, InsertAnalysis, BeginAnalysis
<1>2. CASE ReportStep(h)
  <2>1. CASE \E r \in Report : BeginReport(h, r) \/ BeginDeleteReport(h, r)
    BY <2>1 DEF BeginReport, BeginDeleteReport
  <2>2. CASE InsertReport(h) \/ ReloadReport(h) \/ BuildReport(h) \/ WriteReport(h)
    BY <2>2 DEF InsertReport, ReloadReport, BuildReport, WriteReport
  <2>3. CASE PublishReport(h) \/ ShowReport(h) \/ FailReport(h)
    BY <2>3 DEF PublishReport, ShowReport, FailReport
  <2>4. CASE ClearDir(h) \/ DropReport(h) BY <2>4 DEF ClearDir, DropReport
  <2>. QED BY <1>2, <2>1, <2>2, <2>3, <2>4 DEF ReportStep
<1>. QED BY <1>1, <1>2

LEMMA ApartFromReports ==
  ASSUME TypeOK, Names, NEW h \in Handler, AnalysisStep(h) \/ UploadStep(h)
  PROVE  /\ UNCHANGED <<reports, dirs, asked>>
         /\ calls[h].at \notin Render \cup Drop \cup Remove
         /\ calls'[h].at \notin Render \cup Drop \cup Remove
         /\ calls'[h].paths = {}
<1>. USE AfterBegin, AfterMove, AfterAnswer
     DEF Names, Proper, rows, files, Upload, Analyse, Render, Drop, Remove
<1>1. CASE AnalysisStep(h) BY <1>1 DEF AnalysisStep, InsertAnalysis, BeginAnalysis
<1>2. CASE UploadStep(h)
  BY <1>2 DEF UploadStep, BeginUpload, EndUpload, InsertUpload, RefreshUpload, Abandon
<1>. QED BY <1>1, <1>2

-----------------------------------------------------------------------------
(***************************************************************************)
(* Uploads.                                                                *)
(***************************************************************************)
Uploads == UploadsAlone /\ RowsGoFirst /\ Tended

LEMMA UploadsBegin == Init => Uploads
BY DEF Init, Uploads, UploadsAlone, RowsGoFirst, Tended, Uploading, OnDisk, Idle, Upload, Remove

LEMMA UploadsFollow ==
  ASSUME TypeOK, Names, Uploads, NEW h \in Handler, Step(h)
  PROVE  Uploads'
<1>. DEFINE p == calls[h].on
            Others == /\ \A q \in Project \ {p} : projects'[q] = projects[q] /\ uploads'[q] = uploads[q]
                      /\ crashes' = crashes
<1>1. /\ \A g \in Handler \ {h} : calls'[g] = calls[g]
      /\ crashes \in Nat
  BY StepsAreLocal DEF TypeOK
<1>2. \A g \in Handler : calls[g].at \in Upload \cup Remove => calls[g].on \in Project
  BY DEF Names, Proper, Suits
<1>. USE <1>1, AfterBegin, AfterMove, AfterAnswer
     DEF Uploads, UploadsAlone, RowsGoFirst, Tended, Uploading, OnDisk, Upload, Remove
<1>3. CASE AnalysisStep(h) \/ ReportStep(h) BY <1>3, ApartFromUploads
<1>4. CASE Crash(h)
  <2>1. /\ calls'[h].at = "idle" /\ UNCHANGED <<projects, uploads>> /\ crashes' > 0
    BY <1>4, ArtifactStoreAssumption DEF Crash, Idle, rows, files, TypeOK
  <2>. QED BY <2>1
<1>5. ASSUME NEW q \in Project, BeginUpload(h, q) PROVE Uploads'
  <2>1. /\ calls[h].at = "idle" /\ calls'[h].at = "saving" /\ calls'[h].on = q
        /\ \A g \in Handler : calls[g].on # q
        /\ projects[q] = "none" /\ projects' = projects
        /\ \A x \in Project \ {q} : uploads'[x] = uploads[x]
        /\ crashes' = crashes
    BY <1>5 DEF BeginUpload, Fresh, rows, TypeOK
  <2>2. UploadsAlone' BY <1>2, <2>1
  <2>3. RowsGoFirst' BY <2>1
  <2>4. Tended' BY <2>1
  <2>. QED BY <2>2, <2>3, <2>4
<1>6. CASE EndUpload(h)
  <2>1. /\ p \in Project /\ calls[h].at = "saving"
        /\ Others /\ projects' = projects
        /\ \/ calls'[h].at = "inserting" /\ calls'[h].on = p /\ uploads'[p] = "whole"
           \/ calls'[h].at = "idle" /\ uploads'[p] = "gone"
    BY <1>2, <1>6 DEF EndUpload, rows, TypeOK
  <2>2. UploadsAlone' BY <1>2, <2>1
  <2>3. RowsGoFirst' BY <2>1
  <2>4. Tended' BY <2>1
  <2>. QED BY <2>2, <2>3, <2>4
<1>7. CASE InsertUpload(h)
  <2>1. /\ p \in Project /\ calls[h].at = "inserting"
        /\ Others
        /\ \/ calls'[h].at = "refreshing" /\ calls'[h].on = p /\ projects'[p] = "upload" /\ uploads' = uploads
           \/ calls'[h].at = "idle" /\ uploads'[p] = "gone" /\ projects' = projects
    BY <1>2, <1>7 DEF InsertUpload, Abandon, TypeOK
  <2>2. UploadsAlone' BY <1>2, <2>1
  <2>3. RowsGoFirst' BY <1>2, <2>1
  <2>4. Tended' BY <2>1
  <2>. QED BY <2>2, <2>3, <2>4
<1>8. CASE RefreshUpload(h)
  <2>1. /\ p \in Project /\ calls[h].at = "refreshing"
        /\ Others /\ projects' = projects /\ calls'[h].at = "idle"
        /\ uploads' = uploads \/ uploads'[p] = "gone"
    BY <1>2, <1>8 DEF RefreshUpload, Abandon, rows, TypeOK
  <2>2. UploadsAlone' BY <1>2, <2>1
  <2>3. RowsGoFirst' BY <2>1
  <2>4. Tended' BY <2>1
  <2>. QED BY <2>2, <2>3, <2>4
<1>9. ASSUME NEW q \in Project, BeginDeleteProject(h, q) PROVE Uploads'
  <2>1. /\ calls[h].at = "idle" /\ calls'[h].at = "listing" /\ calls'[h].on = q
        /\ projects[q] # "none"
        /\ UNCHANGED <<projects, uploads, crashes>>
    BY <1>9 DEF BeginDeleteProject, HasRow, rows, files
  <2>. QED BY <2>1
<1>10. CASE ListPaths(h)
  <2>1. /\ calls[h].at = "listing" /\ calls'[h].at = "deleting" /\ calls'[h].on = p
        /\ UNCHANGED <<projects, uploads, crashes>>
    BY <1>10 DEF ListPaths, At, rows, files, TypeOK
  <2>. QED BY <2>1
<1>11. CASE CommitDeleteProject(h)
  <2>1. /\ p \in Project /\ calls[h].at = "deleting" /\ uploads' = uploads
        /\ Others
        /\ \/ calls'[h].at = "unlinking" /\ calls'[h].on = p /\ projects'[p] = "deleted"
           \/ calls'[h].at = "idle" /\ projects' = projects
    BY <1>2, <1>11 DEF CommitDeleteProject, DeleteRefused, rows, files, TypeOK
  <2>2. UploadsAlone' BY <1>2, <2>1
  <2>3. RowsGoFirst' BY <1>2, <2>1
  <2>4. Tended' BY <2>1
  <2>. QED BY <2>2, <2>3, <2>4
<1>12. CASE UnlinkUpload(h)
  <2>1. /\ p \in Project /\ calls[h].at = "unlinking" /\ projects' = projects
        /\ Others
        /\ uploads'[p] = IF OnDisk(uploads[p]) THEN "gone" ELSE uploads[p]
        /\ \/ calls'[h].at = "emptying" /\ calls'[h].on = p
           \/ calls'[h].at = "idle"
    BY <1>2, <1>12 DEF UnlinkUpload, rows, TypeOK
  <2>2. UploadsAlone' BY <1>2, <2>1
  <2>3. RowsGoFirst' BY <1>2, <2>1
  <2>4. Tended' BY <2>1
  <2>. QED BY <2>2, <2>3, <2>4
<1>13. CASE RemoveDir(h)
  <2>1. /\ calls[h].at = "emptying" /\ UNCHANGED <<projects, uploads, crashes>>
        /\ calls'[h].at = "idle" \/ (calls'[h].at = "emptying" /\ calls'[h].on = p)
    BY <1>13 DEF RemoveDir, At, rows, files, TypeOK
  <2>. QED BY <2>1
<1>. QED BY <1>3, <1>4, <1>5, <1>6, <1>7, <1>8, <1>9, <1>10, <1>11, <1>12, <1>13, StepsByGroup
         DEF UploadStep, RemoveStep

LEMMA UploadsFollowElsewhere ==
  ASSUME TypeOK, Names, Uploads, Elsewhere
  PROVE  Uploads'
<1>1. /\ UNCHANGED <<uploads, calls, crashes>>
      /\ \A p \in Project : projects'[p] = projects[p] \/
           (projects[p] = "none" /\ projects'[p] = "github" /\ uploads[p] = "none"
              /\ \A h \in Handler : calls[h].on # p)
  BY DEF TypeOK, Elsewhere, RegisterGithub, EndAnalysis, RetryAnalysis, Fresh, rows, files
<1>2. \A h \in Handler : calls[h].at \in Upload \cup Remove => calls[h].on \in Project
  BY DEF Names, Proper, Suits
<1>3. UploadsAlone'
  BY <1>1, <1>2 DEF Uploads, UploadsAlone, Uploading, Upload
<1>4. RowsGoFirst'
  BY <1>1, <1>2 DEF Uploads, RowsGoFirst, Upload, Remove
<1>5. Tended' BY <1>1 DEF Uploads, Tended, Uploading, OnDisk
<1>. QED BY <1>3, <1>4, <1>5 DEF Uploads

\* No request takes the file of a project that is there, if no connection is lost
\* right after a commit.
LEMMA UploadsStayWhole ==
  ASSUME "refresh" \notin Faults, TypeOK, Names, Uploads, UploadIsWhole,
         (\E h \in Handler : Step(h)) \/ Elsewhere
  PROVE  UploadIsWhole'
<1>1. ASSUME NEW h \in Handler, Step(h) PROVE UploadIsWhole'
  <2>. DEFINE p == calls[h].on
  <2>1. calls[h].at \in Upload \cup Remove => p \in Project BY DEF Names, Proper, Suits
  <2>. USE AfterBegin, AfterMove, AfterAnswer
       DEF UploadIsWhole, Uploads, UploadsAlone, RowsGoFirst, Uploading, Upload, Remove,
           rows, files
  <2>2. CASE AnalysisStep(h) \/ ReportStep(h) BY <2>2, ApartFromUploads
  <2>3. CASE Crash(h) BY <2>3 DEF Crash
  <2>4. ASSUME NEW q \in Project, BeginUpload(h, q) PROVE UploadIsWhole'
    BY <2>4 DEF BeginUpload, Fresh, TypeOK
  <2>5. CASE EndUpload(h) BY <2>1, <2>5 DEF EndUpload, TypeOK
  <2>6. CASE InsertUpload(h) BY <2>1, <2>6 DEF InsertUpload, Abandon, TypeOK
  <2>7. CASE RefreshUpload(h)
    <3>1. /\ projects' = projects /\ p \in Project
          /\ uploads' = uploads \/ (uploads' = [uploads EXCEPT ![p] = "gone"] /\ projects[p] # "upload")
      BY <1>1, <2>1, <2>7 DEF RefreshUpload, Abandon, Fails, HasRow
    <3>. QED BY <3>1 DEF TypeOK
  <2>8. CASE (\E q \in Project : BeginDeleteProject(h, q)) \/ ListPaths(h) \/ RemoveDir(h)
    BY <2>8 DEF BeginDeleteProject, ListPaths, RemoveDir
  <2>9. CASE CommitDeleteProject(h) BY <2>9 DEF CommitDeleteProject, TypeOK
  <2>10. CASE UnlinkUpload(h)
    <3>1. /\ projects' = projects /\ p \in Project /\ projects[p] = "deleted"
          /\ \A q \in Project \ {p} : uploads'[q] = uploads[q]
      BY <2>1, <2>10 DEF UnlinkUpload, TypeOK
    <3>. QED BY <3>1
  <2>. QED BY <1>1, <2>2, <2>3, <2>4, <2>5, <2>6, <2>7, <2>8, <2>9, <2>10, StepsByGroup
           DEF UploadStep, RemoveStep
<1>2. CASE Elsewhere
  BY <1>2 DEF UploadIsWhole, TypeOK, Elsewhere, RegisterGithub, EndAnalysis, RetryAnalysis,
              rows, files
<1>. QED BY <1>1, <1>2

-----------------------------------------------------------------------------
(***************************************************************************)
(* Rows.                                                                   *)
(***************************************************************************)
\* Whatever is inserted has its owner, and whatever is deleted takes along what
\* it owns.
LEMMA OwnersStay ==
  ASSUME TypeOK, Names, RowsGoFirst, RowsHaveOwners, (\E h \in Handler : Step(h)) \/ Elsewhere
  PROVE  RowsHaveOwners'
<1>1. ASSUME NEW h \in Handler, Step(h) PROVE RowsHaveOwners'
  <2>. USE AfterBegin, AfterMove, AfterAnswer DEF RowsHaveOwners, Stored, Listed, HasRow, rows
  <2>1. CASE UNCHANGED rows BY <2>1
  <2>2. CASE InsertUpload(h)
    <3>1. UNCHANGED <<jobs, reports>> /\ \A p \in Project : HasRow(p) => HasRow(p)'
      BY <2>2 DEF InsertUpload, TypeOK
    <3>. QED BY <3>1, ArtifactStoreAssumption
  <2>3. CASE InsertAnalysis(h)
    <3>1. /\ UNCHANGED <<projects, reports>>
          /\ \A j \in Job : Stored(j) => Stored(j)'
          /\ \A j \in Job : Stored(j)' => Stored(j) \/ HasRow(ProjectOf[j])
      BY <2>3 DEF InsertAnalysis, Insertable, TypeOK
    <3>. QED BY <3>1, ArtifactStoreAssumption
  <2>4. CASE CommitDeleteProject(h) /\ ~UNCHANGED rows
    <3>. DEFINE p == calls[h].on
    <3>1. /\ \A q \in Project \ {p} : projects'[q] = projects[q]
          /\ \A j \in Job : jobs'[j] = IF ProjectOf[j] = p /\ Stored(j) THEN "deleted" ELSE jobs[j]
          /\ \A r \in Report : reports'[r] = IF r \in ReportsOf(p) /\ Listed(r)
                THEN [reports[r] EXCEPT !.status = "deleted"] ELSE reports[r]
      BY <2>4 DEF CommitDeleteProject, TypeOK
    <3>2. \A j \in Job : Stored(j)' => Stored(j) /\ ProjectOf[j] # p BY <3>1
    <3>3. \A r \in Report : Listed(r)' => Listed(r) /\ ProjectOf[JobOf[r]] # p
      <4>. SUFFICES ASSUME NEW r \in Report, Listed(r)'
                    PROVE  Listed(r) /\ ProjectOf[JobOf[r]] # p
        OBVIOUS
      <4>1. CASE r \in ReportsOf(p) /\ Listed(r)
        <5>1. reports'[r] = [reports[r] EXCEPT !.status = "deleted"] BY <3>1, <4>1
        <5>2. reports'[r].status = "deleted" BY <5>1 DEF TypeOK
        <5>. QED BY <5>2
      <4>2. CASE ~(r \in ReportsOf(p) /\ Listed(r))
        <5>1. reports'[r] = reports[r] BY <3>1, <4>2
        <5>. QED BY <4>2, <5>1 DEF ReportsOf
      <4>. QED BY <4>1, <4>2
    <3>. QED BY <3>1, <3>2, <3>3, ArtifactStoreAssumption
  <2>5. CASE \/ InsertReport(h) \/ PublishReport(h) \/ FailReport(h) \/ DropReport(h)
    <3>1. UNCHANGED <<projects, jobs>>
      BY <2>5 DEF InsertReport, PublishReport, FailReport, DropReport
    <3>2. \A r \in Report : Listed(r)' => Listed(r) \/ Stored(JobOf[r])
      <4>1. CASE InsertReport(h) BY <4>1 DEF InsertReport, Insertable, TypeOK
      <4>2. CASE PublishReport(h) BY <4>2 DEF PublishReport, TypeOK
      <4>3. CASE FailReport(h) BY <4>3 DEF FailReport, TypeOK
      <4>4. CASE DropReport(h) BY <4>4 DEF DropReport, TypeOK
      <4>. QED BY <2>5, <4>1, <4>2, <4>3, <4>4
    <3>. QED BY <3>1, <3>2, ArtifactStoreAssumption
  <2>6. CASE ~UNCHANGED rows
    <3>1. ~Crash(h) /\ ~Begins(h)
      BY <2>6 DEF Crash, Begins, BeginUpload, BeginDeleteProject, BeginAnalysis, BeginReport,
                  BeginDeleteReport
    <3>2. ~EndUpload(h) /\ ~RefreshUpload(h) /\ ~ListPaths(h) /\ ~UnlinkUpload(h) /\ ~RemoveDir(h)
      BY <2>6 DEF EndUpload, RefreshUpload, ListPaths, UnlinkUpload, RemoveDir
    <3>3. ~ReloadReport(h) /\ ~BuildReport(h) /\ ~WriteReport(h) /\ ~ShowReport(h) /\ ~ClearDir(h)
      BY <2>6 DEF ReloadReport, BuildReport, WriteReport, ShowReport, ClearDir
    <3>. QED BY <1>1, <2>2, <2>3, <2>4, <2>5, <2>6, <3>1, <3>2, <3>3 DEF Step, Serve
  <2>. QED BY <2>1, <2>6
<1>2. CASE Elsewhere
  <2>1. /\ UNCHANGED reports
        /\ \A p \in Project : HasRow(p) => HasRow(p)'
        /\ \A j \in Job : Stored(j)' <=> Stored(j)
    BY <1>2 DEF Elsewhere, RegisterGithub, EndAnalysis, RetryAnalysis, TypeOK, HasRow, Stored
  <2>. QED BY <2>1, ArtifactStoreAssumption DEF RowsHaveOwners, Listed
<1>. QED BY <1>1, <1>2

-----------------------------------------------------------------------------
(***************************************************************************)
(* Reports.                                                                *)
(***************************************************************************)
ReportsKept == PathsGoToo /\ RendersAlone /\ Rendered /\ ReadyIsWhole

LEMMA ReportsBegin == Init => ReportsKept
BY DEF Init, ReportsKept, PathsGoToo, RendersAlone, Rendered, ReadyIsWhole, Idle, Render, Drop

LEMMA ReportsFollow ==
  ASSUME TypeOK, Names, ReportsKept, NEW h \in Handler, Step(h)
  PROVE  ReportsKept'
<1>. DEFINE r == calls[h].on
            Others == \A q \in Report \ {r} : reports'[q] = reports[q] /\ dirs'[q] = dirs[q]
            Busy(label) == calls'[h].at = label /\ calls'[h].on = r /\ calls'[h].paths = {}
            Done == calls'[h].at = "idle" /\ calls'[h].paths = {}
<1>1. \A g \in Handler \ {h} : calls'[g] = calls[g] BY StepsAreLocal
<1>2. /\ \A g \in Handler : calls[g].at \in Render \cup Drop => calls[g].on \in Report
      /\ \A g \in Handler : calls[g].paths # {} => calls[g].at \in Remove
      /\ \A g \in Handler : calls[g].paths \subseteq Report
  BY DEF TypeOK, Names, Proper, Suits
<1>3. \A g \in Handler : calls[g].paths = {} \/ calls[g].at \notin Render \cup Drop
  BY <1>2 DEF Remove, Render, Drop
<1>. USE <1>1, <1>2, <1>3, AfterBegin, AfterMove, AfterAnswer
     DEF ReportsKept, PathsGoToo, RendersAlone, Rendered, ReadyIsWhole, Render, Drop, Remove
<1>4. CASE AnalysisStep(h) \/ UploadStep(h)
  <2>1. /\ UNCHANGED <<reports, dirs, asked>>
        /\ calls[h].at \notin Render \cup Drop \cup Remove
        /\ calls'[h].at \notin Render \cup Drop \cup Remove
        /\ calls'[h].paths = {}
    BY <1>4, ApartFromReports
  <2>. QED BY <2>1 DEF ReportsOf
<1>5. CASE Crash(h)
  <2>1. Done /\ UNCHANGED <<reports, dirs, asked>>
    BY <1>5 DEF Crash, Idle, rows, files, TypeOK
  <2>. QED BY <2>1 DEF ReportsOf
<1>6. ASSUME NEW q \in Report, BeginReport(h, q) PROVE ReportsKept'
  <2>1. /\ calls'[h].at = "requesting" /\ calls'[h].on = q /\ calls'[h].paths = {}
        /\ \A g \in Handler : calls[g].on # q
        /\ reports[q].status = "none"
        /\ UNCHANGED <<reports, dirs, asked>>
    BY <1>6 DEF BeginReport, rows, files
  <2>. QED BY <2>1 DEF ReportsOf
<1>7. ASSUME NEW q \in Report, BeginDeleteReport(h, q) PROVE ReportsKept'
  <2>1. /\ calls'[h].at \in {"clearing", "dropping"} /\ calls'[h].on = q /\ calls'[h].paths = {}
        /\ reports[q].status # "none"
        /\ UNCHANGED <<reports, dirs>> /\ asked' = asked \cup {q}
    BY <1>7 DEF BeginDeleteReport, Listed, rows, files
  <2>. QED BY <2>1 DEF ReportsOf
<1>8. CASE InsertReport(h)
  <2>1. /\ r \in Report /\ calls[h].at = "requesting" /\ UNCHANGED <<dirs, asked>> /\ Others
        /\ \/ Done /\ reports' = reports
           \/ /\ Busy("reloading") /\ reports'[r].status = "generating"
              /\ reports'[r].filed = reports[r].filed
    BY <1>8, StatusIsSet DEF InsertReport, Statuses, files
  <2>2. PathsGoToo' BY <2>1 DEF ReportsOf
  <2>3. RendersAlone' BY <2>1
  <2>4. Rendered' BY <2>1
  <2>5. ReadyIsWhole' BY <2>1
  <2>. QED BY <2>2, <2>3, <2>4, <2>5
<1>9. CASE ReloadReport(h)
  <2>1. /\ calls[h].at = "reloading" /\ UNCHANGED <<reports, dirs, asked>>
        /\ Done \/ Busy("building")
    BY <1>9 DEF ReloadReport, rows, files
  <2>. QED BY <2>1 DEF ReportsOf
<1>10. CASE BuildReport(h)
  <2>1. /\ r \in Report /\ calls[h].at = "building" /\ UNCHANGED <<reports, asked>> /\ Others
        /\ Busy("writing") \/ Busy("failing")
    BY <1>10 DEF BuildReport, rows, TypeOK
  <2>2. PathsGoToo' BY <2>1 DEF ReportsOf
  <2>3. RendersAlone' BY <2>1
  <2>4. Rendered' BY <2>1
  <2>5. ReadyIsWhole' BY <2>1
  <2>. QED BY <2>2, <2>3, <2>4, <2>5
<1>11. CASE WriteReport(h)
  <2>1. /\ r \in Report /\ calls[h].at = "writing" /\ UNCHANGED <<reports, asked>> /\ Others
        /\ \/ Busy("publishing") /\ dirs'[r] = "whole"
           \/ Busy("failing") /\ dirs' = dirs
    BY <1>11 DEF WriteReport, rows, TypeOK
  <2>2. PathsGoToo' BY <2>1 DEF ReportsOf
  <2>3. RendersAlone' BY <2>1
  <2>4. Rendered' BY <2>1
  <2>5. ReadyIsWhole' BY <2>1
  <2>. QED BY <2>2, <2>3, <2>4, <2>5
<1>12. CASE PublishReport(h)
  <2>1. /\ r \in Report /\ calls[h].at = "publishing" /\ UNCHANGED <<dirs, asked>> /\ Others
        /\ \/ Done /\ reports' = reports
           \/ /\ Busy("published") /\ reports'[r].status = "ready"
              /\ reports[r].status # "deleted"
    BY <1>12 DEF PublishReport, Listed, files, TypeOK
  <2>2. PathsGoToo' BY <2>1 DEF ReportsOf
  <2>3. RendersAlone' BY <2>1
  <2>4. Rendered' BY <2>1
  <2>5. ReadyIsWhole' BY <2>1
  <2>. QED BY <2>2, <2>3, <2>4, <2>5
<1>13. CASE ShowReport(h)
  <2>1. /\ calls[h].at = "published" /\ UNCHANGED <<reports, dirs, asked>>
        /\ Done \/ Busy("failing")
    BY <1>13 DEF ShowReport, rows, files
  <2>. QED BY <2>1 DEF ReportsOf
<1>14. CASE FailReport(h)
  <2>1. /\ r \in Report /\ calls[h].at = "failing" /\ UNCHANGED <<dirs, asked>> /\ Others /\ Done
        /\ \/ reports' = reports
           \/ reports'[r].status = "failed" /\ reports[r].status # "deleted"
    BY <1>14, StatusIsSet DEF FailReport, Listed, Statuses, files
  <2>2. PathsGoToo' BY <2>1 DEF ReportsOf
  <2>3. RendersAlone' BY <2>1
  <2>4. Rendered' BY <2>1
  <2>5. ReadyIsWhole' BY <2>1
  <2>. QED BY <2>2, <2>3, <2>4, <2>5
<1>15. CASE ClearDir(h)
  <2>1. /\ r \in Report /\ calls[h].at = "clearing" /\ UNCHANGED <<reports, asked>> /\ Others
        /\ Busy("dropping") /\ r \in asked
    BY <1>15 DEF ClearDir, rows, TypeOK
  <2>2. PathsGoToo' BY <2>1 DEF ReportsOf
  <2>3. RendersAlone' BY <2>1
  <2>4. Rendered' BY <2>1
  <2>5. ReadyIsWhole' BY <2>1
  <2>. QED BY <2>2, <2>3, <2>4, <2>5
<1>16. CASE DropReport(h)
  <2>1. /\ r \in Report /\ calls[h].at = "dropping" /\ UNCHANGED <<dirs, asked>> /\ Others /\ Done
        /\ reports' = reports \/ reports'[r].status = "deleted"
    BY <1>16, StatusIsSet DEF DropReport, Statuses, files
  <2>2. PathsGoToo' BY <2>1 DEF ReportsOf
  <2>3. RendersAlone' BY <2>1
  <2>4. Rendered' BY <2>1
  <2>5. ReadyIsWhole' BY <2>1
  <2>. QED BY <2>2, <2>3, <2>4, <2>5
<1>17. ASSUME NEW p \in Project, BeginDeleteProject(h, p) PROVE ReportsKept'
  <2>1. /\ calls'[h].at = "listing" /\ calls'[h].paths = {}
        /\ UNCHANGED <<reports, dirs, asked>>
    BY <1>17 DEF BeginDeleteProject, rows, files
  <2>. QED BY <2>1 DEF ReportsOf
<1>18. CASE ListPaths(h)
  <2>1. /\ calls'[h].at = "deleting" /\ calls'[h].on = r
        /\ calls'[h].paths \subseteq ReportsOf(r)
        /\ UNCHANGED <<reports, dirs, asked>>
    BY <1>18 DEF ListPaths, PathsOf, rows, files, TypeOK
  <2>. QED BY <2>1 DEF ReportsOf
<1>19. CASE CommitDeleteProject(h)
  <2>1. /\ calls[h].at = "deleting" /\ UNCHANGED <<dirs, asked>>
    BY <1>19, AfterMove, AfterAnswer DEF CommitDeleteProject, DeleteRefused, files
  <2>2. CASE Done /\ reports' = reports BY <2>1, <2>2 DEF ReportsOf
  <2>3. CASE ~(Done /\ reports' = reports)
    <3>1. /\ calls'[h].at = "unlinking" /\ calls'[h].on = r /\ calls'[h].paths = calls[h].paths
          /\ reports' = [q \in Report |-> IF q \in ReportsOf(r) /\ Listed(q)
                           THEN [reports[q] EXCEPT !.status = "deleted"] ELSE reports[q]]
      BY <1>19, <2>3 DEF CommitDeleteProject, DeleteRefused, rows
    <3>2. \A q \in Report :
            /\ reports'[q].status # reports[q].status => reports'[q].status = "deleted"
            /\ reports'[q].status = "none" <=> reports[q].status = "none"
            /\ reports'[q].filed = reports[q].filed
            /\ q \in ReportsOf(r) => reports'[q].status \in {"none", "deleted"}
      <4>. SUFFICES ASSUME NEW q \in Report
             PROVE /\ reports'[q].status # reports[q].status => reports'[q].status = "deleted"
                   /\ reports'[q].status = "none" <=> reports[q].status = "none"
                   /\ reports'[q].filed = reports[q].filed
                   /\ q \in ReportsOf(r) => reports'[q].status \in {"none", "deleted"}
        OBVIOUS
      <4>1. CASE q \in ReportsOf(r) /\ Listed(q)
        <5>1. reports'[q] = [reports[q] EXCEPT !.status = "deleted"] BY <3>1, <4>1
        <5>2. reports'[q].status = "deleted" /\ reports'[q].filed = reports[q].filed
          BY <5>1 DEF TypeOK
        <5>. QED BY <4>1, <5>2 DEF Listed
      <4>2. CASE ~(q \in ReportsOf(r) /\ Listed(q))
        <5>1. reports'[q] = reports[q] BY <3>1, <4>2
        <5>. QED BY <4>2, <5>1 DEF Listed
      <4>. QED BY <4>1, <4>2
    <3>3. \A q \in calls[h].paths : q \in Report /\ reports[q].filed BY DEF TypeOK
    <3>4. PathsGoToo'
      <4>1. \A q \in calls[h].paths : reports'[q].status = "deleted"
        BY <3>2, <3>3
      <4>. QED BY <3>1, <3>2, <4>1 DEF ReportsOf
    <3>5. RendersAlone' BY <3>1
    <3>6. Rendered' BY <2>1, <3>1, <3>2
    <3>7. ReadyIsWhole' BY <2>1, <3>2
    <3>. QED BY <3>4, <3>5, <3>6, <3>7
  <2>. QED BY <2>2, <2>3
<1>20. CASE UnlinkUpload(h)
  <2>1. /\ calls[h].at = "unlinking" /\ UNCHANGED <<reports, dirs, asked>>
        /\ Done \/ (calls'[h].at = "emptying" /\ calls'[h].on = r /\ calls'[h].paths = calls[h].paths)
    BY <1>20 DEF UnlinkUpload, rows
  <2>. QED BY <2>1 DEF ReportsOf
<1>21. CASE RemoveDir(h)
  <2>1. PICK q \in calls[h].paths :
          /\ \/ Answer(h, "emptying")
             \/ At(h, "emptying") /\ calls' = [calls EXCEPT ![h].paths = @ \ {q}]
          /\ dirs' = [dirs EXCEPT ![q] = "gone"]
          /\ UNCHANGED <<reports, asked>>
    BY <1>21 DEF RemoveDir, rows
  <2>2. /\ calls[h].at = "emptying" /\ q \in Report
        /\ Done \/ (calls'[h].at = "emptying" /\ calls'[h].on = r /\ calls'[h].paths \subseteq calls[h].paths)
    BY <2>1 DEF At, TypeOK
  <2>3. reports[q].status = "deleted" BY <2>1, <2>2
  <2>4. \A x \in Report \ {q} : dirs'[x] = dirs[x] BY <2>1 DEF TypeOK
  <2>5. PathsGoToo' BY <2>1, <2>2 DEF ReportsOf
  <2>6. RendersAlone' BY <2>2
  <2>7. Rendered' BY <2>1, <2>2, <2>3, <2>4
  <2>8. ReadyIsWhole' BY <2>1, <2>3, <2>4
  <2>. QED BY <2>5, <2>6, <2>7, <2>8
<1>. QED BY <1>4, <1>5, <1>6, <1>7, <1>8, <1>9, <1>10, <1>11, <1>12, <1>13, <1>14, <1>15,
            <1>16, <1>17, <1>18, <1>19, <1>20, <1>21, StepsByGroup DEF RemoveStep, ReportStep

LEMMA ReportsFollowElsewhere ==
  ASSUME TypeOK, ReportsKept, Elsewhere
  PROVE  ReportsKept'
<1>1. UNCHANGED <<reports, dirs, calls, asked>>
  BY DEF Elsewhere, RegisterGithub, EndAnalysis, RetryAnalysis, files
<1>. QED BY <1>1 DEF ReportsKept, PathsGoToo, RendersAlone, Rendered, ReadyIsWhole, ReportsOf

-----------------------------------------------------------------------------
(***************************************************************************)
(* The theorems.                                                           *)
(***************************************************************************)
IInv == TypeOK /\ Names /\ Uploads /\ RowsHaveOwners /\ ReportsKept

LEMMA InvariantBegins == Init => IInv
<1>. SUFFICES ASSUME Init PROVE IInv OBVIOUS
<1>1. TypeOK
  <2>1. Idle \in [at : {"idle"}, on : {NoTarget}, paths : {{}}] BY DEF Idle
  <2>. QED BY <2>1, ArtifactStoreAssumption DEF Init, TypeOK, Idle, File
<1>2. Names
  BY ArtifactStoreAssumption
     DEF Init, Names, Proper, Suits, Idle, Upload, Analyse, Remove, Render, Drop
<1>3. RowsHaveOwners BY DEF Init, RowsHaveOwners, Stored, Listed
<1>. QED BY <1>1, <1>2, <1>3, UploadsBegin, ReportsBegin DEF IInv

LEMMA StepsOfNext == Next => (\E h \in Handler : Step(h)) \/ Elsewhere
BY DEF Next, Step, Begins, Elsewhere

LEMMA Consecution == IInv /\ [Next]_vars => IInv'
<1>1. ASSUME IInv, NEW h \in Handler, Step(h) PROVE IInv'
  <2>1. TypeOK' /\ Names' BY <1>1, TypesFollow DEF IInv
  <2>2. Uploads' BY <1>1, UploadsFollow DEF IInv
  <2>3. RowsHaveOwners' BY <1>1, OwnersStay DEF IInv, Uploads
  <2>4. ReportsKept' BY <1>1, ReportsFollow DEF IInv
  <2>. QED BY <2>1, <2>2, <2>3, <2>4 DEF IInv
<1>2. ASSUME IInv, Elsewhere PROVE IInv'
  <2>1. TypeOK' /\ Names' BY <1>2, TypesFollow DEF IInv
  <2>2. Uploads' BY <1>2, UploadsFollowElsewhere DEF IInv
  <2>3. RowsHaveOwners' BY <1>2, OwnersStay DEF IInv, Uploads
  <2>4. ReportsKept' BY <1>2, ReportsFollowElsewhere DEF IInv
  <2>. QED BY <2>1, <2>2, <2>3, <2>4 DEF IInv
<1>3. ASSUME IInv, UNCHANGED vars PROVE IInv'
  <2>. USE <1>3 DEF vars, rows, files, IInv
  <2>1. TypeOK' BY DEF TypeOK
  <2>2. Names' BY DEF Names, Proper
  <2>3. Uploads' BY DEF Uploads, UploadsAlone, RowsGoFirst, Tended, Uploading
  <2>4. RowsHaveOwners' BY DEF RowsHaveOwners, Stored, Listed, HasRow
  <2>5. ReportsKept' BY DEF ReportsKept, PathsGoToo, RendersAlone, Rendered, ReadyIsWhole
  <2>. QED BY <2>1, <2>2, <2>3, <2>4, <2>5
<1>. QED BY <1>1, <1>2, <1>3, StepsOfNext

\* The tables, the files and the requests keep their types; among others, a
\* request that removes directories only knows reports with a stored_path.
THEOREM TypesHold == Spec => []TypeOK
<1>1. IInv => TypeOK BY DEF IInv
<1>. QED BY <1>1, InvariantBegins, Consecution, PTL DEF Spec

\* For any number of requests that fail at any commit, no upload is left behind
\* unless a process died (upload_project, delete_project).
THEOREM UploadsHaveOwners == Spec => []UploadHasOwner
<1>1. IInv => UploadHasOwner
  BY DEF IInv, Uploads, Tended, UploadHasOwner, Uploading, Upload, Remove
<1>. QED BY <1>1, InvariantBegins, Consecution, PTL DEF Spec

\* No analysis outlives its project, and no report its analysis, whatever was
\* checked before the row was inserted.
THEOREM OwnersOfRows == Spec => []RowsHaveOwners
<1>1. IInv => RowsHaveOwners BY DEF IInv
<1>. QED BY <1>1, InvariantBegins, Consecution, PTL DEF Spec

\* Crashes, failed commits and failed writers take no file from a row; only a
\* connection lost between a commit and the refresh after it does.
THEOREM FilesStay == "refresh" \notin Faults => (Spec => []FilesAreThere)
<1>. SUFFICES ASSUME "refresh" \notin Faults PROVE Spec => []FilesAreThere OBVIOUS
<1>1. Init => UploadIsWhole BY DEF Init, UploadIsWhole
<1>2. IInv /\ UploadIsWhole /\ [Next]_vars => UploadIsWhole'
  <2>1. ASSUME IInv, UploadIsWhole, Next PROVE UploadIsWhole'
    BY <2>1, StepsOfNext, UploadsStayWhole DEF IInv
  <2>2. ASSUME UploadIsWhole, UNCHANGED vars PROVE UploadIsWhole'
    BY <2>2 DEF UploadIsWhole, vars, rows, files
  <2>. QED BY <2>1, <2>2
<1>3. IInv /\ UploadIsWhole => FilesAreThere
  BY DEF IInv, ReportsKept, ReadyIsWhole, UploadIsWhole, FilesAreThere
<1>. QED BY <1>1, <1>2, <1>3, InvariantBegins, Consecution, PTL DEF Spec

=============================================================================
