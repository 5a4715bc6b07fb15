--------------------------- MODULE ModelRegistry ---------------------------
(***************************************************************************)
(* The registered models: the rows of model_artifacts, the directories     *)
(* storage/models/<id> they name, and the predictions that refer to the    *)
(* rows.  The administrators' requests (explain/registry.py,               *)
(* api/routes/models.py, the bootstrap of the default models) run beside   *)
(* the workers that load the models.                                       *)
(*                                                                         *)
(* A model's content stands for its SHA-256.  A directory is whole when    *)
(* validate_directory accepts it: the code writes it once and never again, *)
(* so it is the files that were registered, or not all of them are there.  *)
(***************************************************************************)
EXTENDS Naturals

CONSTANTS
  Artifact,   \* ids: a UUID is used once
  Content,    \* model files that may be registered
  ContentOf,  \* the model each id is made for
  Process,    \* requests, commands and workers at a time
  NoTarget,   \* a process that does nothing
  Faults,     \* what may fail: "commit", "copy"
  MaxCrashes  \* bound on the processes that die

ASSUME ModelRegistryAssumption ==
  /\ ContentOf \in [Artifact -> Content]
  /\ NoTarget \notin Artifact
  /\ Faults \subseteq {"commit", "copy"}
  /\ MaxCrashes \in Nat

VARIABLES
  rows,       \* the table model_artifacts, by the column enabled
  dirs,       \* storage/models
  predicted,  \* the ids that rows of ml_predictions refer to
  calls,      \* what each process is about to do
  doomed,     \* history: ids whose deletion was begun
  crashes     \* history

vars == <<rows, dirs, predicted, calls, doomed, crashes>>

\* What a request, and what a worker with models to load, is about to do.
Request(label, a, enabled, was) ==
  [at |-> label, on |-> a, todo |-> {}, enabled |-> enabled, was |-> was]

Analysis(label, a, todo) ==
  [at |-> label, on |-> a, todo |-> todo, enabled |-> TRUE, was |-> "none"]

Idle == Analysis("idle", NoTarget, {})

Labels == {"idle", "copying", "recording", "verifying", "updating", "clearing",
           "dropping", "predicting", "storing"}

Live(a) == rows[a] \in {"enabled", "disabled"}

TypeOK ==
  /\ rows \in [Artifact -> {"none", "enabled", "disabled", "deleted"}]
  /\ dirs \in [Artifact -> {"none", "partial", "whole", "gone"}]
  /\ predicted \subseteq Artifact
  /\ calls \in [Process -> [at : Labels, on : Artifact \cup {NoTarget},
                            todo : SUBSET Artifact, enabled : BOOLEAN,
                            was : {"none", "enabled", "disabled"}]]
  /\ doomed \subseteq Artifact
  /\ crashes \in 0..MaxCrashes
  /\ \A p \in Process :
       /\ calls[p].on = NoTarget <=> calls[p].at \in {"idle", "predicting"}
       /\ calls[p].todo # {} => calls[p].at \in {"predicting", "storing"}
       /\ calls[p].at = "recording" => dirs[calls[p].on] = "whole"

Init ==
  /\ rows = [a \in Artifact |-> "none"]
  /\ dirs = [a \in Artifact |-> "none"]
  /\ predicted = {}
  /\ calls = [p \in Process |-> Idle]
  /\ doomed = {}
  /\ crashes = 0

At(p, label) == calls[p].at = label
Begin(p, call) == At(p, "idle") /\ calls' = [calls EXCEPT ![p] = call]
Move(p, from, to) == At(p, from) /\ calls' = [calls EXCEPT ![p].at = to]
Answer(p, from) == At(p, from) /\ calls' = [calls EXCEPT ![p] = Idle]

Fails(what) == what \in Faults

Flag(enabled) == IF enabled THEN "enabled" ELSE "disabled"

-----------------------------------------------------------------------------
(***************************************************************************)
(* ModelRegistry.register                                                  *)
(***************************************************************************)
Same(a) == {d \in Artifact : Live(d) /\ ContentOf[d] = ContentOf[a]}

\* The source directory is valid and no row has its SHA-256.
BeginRegister(p, a, enabled) ==
  /\ dirs[a] = "none" /\ \A q \in Process : calls[q].on # a
  /\ Same(a) = {}
  /\ Begin(p, Request("copying", a, enabled, "none"))
  /\ UNCHANGED <<rows, dirs, predicted, doomed, crashes>>

\* There is such a row: verify it, and enable or disable it.
BeginUpdateDuplicate(p, a, enabled) ==
  /\ Live(a)
  /\ Begin(p, Request("verifying", a, enabled, rows[a]))
  /\ UNCHANGED <<rows, dirs, predicted, doomed, crashes>>

\* verify: the registered files are there and have the registered SHA-256.
Verified(a) == dirs[a] = "whole"

VerifyDuplicate(p) ==
  /\ At(p, "verifying")
  /\ IF Verified(calls[p].on) THEN Move(p, "verifying", "updating")
                              ELSE Answer(p, "verifying")
  /\ UNCHANGED <<rows, dirs, predicted, doomed, crashes>>

\* Mutant of Copied: the model card is forgotten.
CopiedModelOnly(a) == [dirs EXCEPT ![a] = "partial"]

Copied(a) == [dirs EXCEPT ![a] = "whole"]

\* mkdir and the two copies.  Nothing removes a directory whose copy failed.
CopyFiles(p) ==
  LET a == calls[p].on IN
  /\ \/ /\ Move(p, "copying", "recording")
        /\ dirs' = Copied(a)
     \/ /\ Fails("copy")
        /\ Answer(p, "copying")
        /\ dirs' = [dirs EXCEPT ![a] = "partial"]
  /\ UNCHANGED <<rows, predicted, doomed, crashes>>

\* Mutant of Unique: the column is not unique.
UniqueAlways(a) == TRUE

Unique(a) == Same(a) = {}

\* The INSERT, which model_sha256 being unique refuses when another process
\* was faster; nothing removes the directory then.
InsertArtifact(p) ==
  LET a == calls[p].on IN
  /\ Answer(p, "recording")
  /\ \/ /\ Unique(a)
        /\ rows' = [rows EXCEPT ![a] = Flag(calls[p].enabled)]
     \/ (Fails("commit") \/ ~Unique(a)) /\ UNCHANGED rows
  /\ UNCHANGED <<dirs, predicted, doomed, crashes>>

-----------------------------------------------------------------------------
(***************************************************************************)
(* set_model_state, and the commit it shares with register                 *)
(***************************************************************************)
BeginSetState(p, a, enabled) ==
  /\ Live(a)
  /\ Begin(p, Request("updating", a, enabled, rows[a]))
  /\ UNCHANGED <<rows, dirs, predicted, doomed, crashes>>

\* Mutant of Updated: an upsert, which brings a deleted row back.
Upserted(a, call) == Flag(call.enabled)

\* UPDATE ... WHERE id = :id, which is only sent if the value is not the one
\* that was loaded, and raises if the row is gone.
Updated(a, call) == IF Live(a) /\ Flag(call.enabled) # call.was
                    THEN Flag(call.enabled) ELSE rows[a]

CommitState(p) ==
  LET a == calls[p].on IN
  /\ Answer(p, "updating")
  /\ \/ rows' = [rows EXCEPT ![a] = Updated(a, calls[p])]
     \/ Fails("commit") /\ UNCHANGED rows
  /\ UNCHANGED <<dirs, predicted, doomed, crashes>>

-----------------------------------------------------------------------------
(***************************************************************************)
(* delete_model                                                            *)
(***************************************************************************)

\* A model with predictions is a 409.
BeginDelete(p, a) ==
  /\ Live(a)
  /\ a \notin predicted
  /\ Begin(p, Request("clearing", a, TRUE, "none"))
  /\ doomed' = doomed \cup {a}
  /\ UNCHANGED <<rows, dirs, predicted, crashes>>

DeleteFiles(p) ==
  /\ Move(p, "clearing", "dropping")
  /\ dirs' = [dirs EXCEPT ![calls[p].on] = "gone"]
  /\ UNCHANGED <<rows, predicted, doomed, crashes>>

\* Mutant of Droppable: predictions do not refer to the row by a key.
DroppableAnyway(a) == TRUE

\* The DELETE fails if predictions refer to the row: ml_predictions.model_id
\* is a foreign key with RESTRICT, and it is not nullable.
Droppable(a) == a \notin predicted

DropArtifact(p) ==
  LET a == calls[p].on IN
  /\ Answer(p, "dropping")
  /\ \/ Droppable(a) /\ rows' = [rows EXCEPT ![a] = "deleted"]
     \/ (Fails("commit") \/ ~Droppable(a)) /\ UNCHANGED rows
  /\ UNCHANGED <<dirs, predicted, doomed, crashes>>

-----------------------------------------------------------------------------
(***************************************************************************)
(* Workers: _run_ml_models                                                 *)
(***************************************************************************)
Enabled == {a \in Artifact : rows[a] = "enabled"}

\* The query for the models of an analysis: those requested, or all.
BeginAnalysis(p) ==
  /\ \E requested \in (SUBSET Enabled) \ {{}} :
       Begin(p, Analysis("predicting", NoTarget, requested))
  /\ UNCHANGED <<rows, dirs, predicted, doomed, crashes>>

\* registry.verify and joblib.load of the next model; the job fails if the
\* files are not there.
LoadModel(p) ==
  \E a \in calls[p].todo :
    /\ At(p, "predicting")
    /\ calls' = [calls EXCEPT ![p] =
         IF Verified(a) THEN Analysis("storing", a, @.todo \ {a}) ELSE Idle]
    /\ UNCHANGED <<rows, dirs, predicted, doomed, crashes>>

\* The commit of its predictions: the foreign key wants the row.
StorePredictions(p) ==
  LET a == calls[p].on IN
  /\ At(p, "storing")
  /\ \/ /\ Live(a)
        /\ predicted' = predicted \cup {a}
        /\ calls' = [calls EXCEPT ![p] =
             IF @.todo = {} THEN Idle
                            ELSE Analysis("predicting", NoTarget, @.todo)]
     \/ (Fails("commit") \/ ~Live(a)) /\ Answer(p, "storing") /\ UNCHANGED predicted
  /\ UNCHANGED <<rows, dirs, doomed, crashes>>

\* _clear_ml_results of a job that runs again, or the deletion of its project.
ClearPredictions(a) ==
  /\ a \in predicted
  /\ predicted' = predicted \ {a}
  /\ UNCHANGED <<rows, dirs, calls, doomed, crashes>>

Crash(p) ==
  /\ ~At(p, "idle")
  /\ crashes < MaxCrashes
  /\ crashes' = crashes + 1
  /\ calls' = [calls EXCEPT ![p] = Idle]
  /\ dirs' = IF At(p, "copying") THEN [dirs EXCEPT ![calls[p].on] = "partial"]
                                 ELSE dirs
  /\ UNCHANGED <<rows, predicted, doomed>>

-----------------------------------------------------------------------------
Next ==
  \/ \E p \in Process :
       \/ VerifyDuplicate(p) \/ CopyFiles(p) \/ InsertArtifact(p)
       \/ CommitState(p) \/ DeleteFiles(p) \/ DropArtifact(p)
       \/ BeginAnalysis(p) \/ LoadModel(p) \/ StorePredictions(p)
       \/ Crash(p)
       \/ \E a \in Artifact :
            \/ BeginDelete(p, a)
            \/ \E enabled \in BOOLEAN :
                 \/ BeginRegister(p, a, enabled)
                 \/ BeginUpdateDuplicate(p, a, enabled)
                 \/ BeginSetState(p, a, enabled)
  \/ \E a \in Artifact : ClearPredictions(a)

Spec == Init /\ [][Next]_vars

-----------------------------------------------------------------------------
(***************************************************************************)
(* Properties.                                                             *)
(***************************************************************************)

\* One row per model, although every process looks for a duplicate long before
\* it inserts: of two that register one model, one gets an error.
OneRowPerModel ==
  \A a, b \in Artifact :
    Live(a) /\ Live(b) /\ ContentOf[a] = ContentOf[b] => a = b

\* Stored predictions keep the model they were made with, although delete_model
\* checks for them before a worker commits them.
PredictionsHaveModel == \A a \in predicted : Live(a)

\* The files of a registered model are whole, unless its deletion was begun:
\* no failed copy, crash or duplicate registration leaves a row without them.
FilesAreWhole == \A a \in Artifact : Live(a) /\ a \notin doomed => dirs[a] = "whole"

\* A model is deleted for good: no request that has loaded the row before
\* brings it back.
DeletedForGood ==
  [][\A a \in Artifact : rows[a] = "deleted" => rows'[a] = "deleted"]_vars

(***************************************************************************)
(* Why they hold: the parts of the inductive invariant.                    *)
(***************************************************************************)

\* A row has been preceded by its directory.
DirsComeFirst == \A a \in Artifact : dirs[a] = "none" => rows[a] = "none"

\* Nobody else has to do with an id that is being registered.
RegistersAlone ==
  \A p \in Process : calls[p].at \in {"copying", "recording"} =>
    /\ rows[calls[p].on] = "none"
    /\ \A q \in Process : calls[q].on = calls[p].on => q = p

\* Files are removed of doomed models only, and before their rows.
ClearsDoomed ==
  \A p \in Process :
    /\ At(p, "clearing") => calls[p].on \in doomed
    /\ At(p, "dropping") => dirs[calls[p].on] = "gone"

\* A worker's models have been registered.
LoadsRegistered ==
  \A p \in Process : \A a \in calls[p].todo : rows[a] # "none"

Arrangement == /\ DirsComeFirst /\ RegistersAlone
               /\ ClearsDoomed /\ LoadsRegistered

Promises == OneRowPerModel /\ PredictionsHaveModel /\ FilesAreWhole

\* No step of any process breaks them, nor does a crash between two steps.
IInv == TypeOK /\ Arrangement /\ Promises

=============================================================================
