------------------------ MODULE ModelRegistryProofs ------------------------
(***************************************************************************)
(* Proofs about ModelRegistry, for any ids, models, processes and faults.  *)
(*                                                                         *)
(* OneRowPerModel and PredictionsHaveModel are kept by the checks that the *)
(* database makes when a row is inserted or deleted, whatever a process    *)
(* has read before.  FilesAreWhole rests on the order of the steps: one    *)
(* process only knows an id that is being registered, until its row is     *)
(* there, and nobody but a deletion writes to its directory afterwards.    *)
(***************************************************************************)
EXTENDS ModelRegistry, TLAPS

\* What a process may be about to do.
Calls == [at : Labels, on : Artifact \cup {NoTarget}, todo : SUBSET Artifact,
          enabled : BOOLEAN, was : {"none", "enabled", "disabled"}]

-----------------------------------------------------------------------------
\* A process that goes on to another step of the same request leaves the calls
\* as they were otherwise.
LEMMA MoveChangesLabel ==
  ASSUME calls \in [Process -> Calls], NEW p \in Process,
         NEW from, NEW to \in Labels, Move(p, from, to)
  PROVE  /\ calls' \in [Process -> Calls]
         /\ calls'[p].at = to
         /\ calls'[p].on = calls[p].on
         /\ calls'[p].todo = calls[p].todo
         /\ \A q \in Process \ {p} : calls'[q] = calls[q]
  BY DEF Move, Calls

\* Every step keeps the types.
LEMMA TypesKept ==
  ASSUME IInv, [Next]_vars
  PROVE  TypeOK'
<1> USE ModelRegistryAssumption
    DEF IInv, TypeOK, Labels, At
<1>1. ASSUME NEW p \in Process, NEW a \in Artifact, NEW e \in BOOLEAN,
             BeginRegister(p, a, e)
      PROVE  TypeOK'
  BY <1>1 DEF BeginRegister, Begin, Request, Same
<1>2. ASSUME NEW p \in Process, NEW a \in Artifact, NEW e \in BOOLEAN,
             BeginUpdateDuplicate(p, a, e)
      PROVE  TypeOK'
  BY <1>2 DEF BeginUpdateDuplicate, Begin, Request, Live
<1>3. ASSUME NEW p \in Process, NEW a \in Artifact, NEW e \in BOOLEAN,
             BeginSetState(p, a, e)
      PROVE  TypeOK'
  BY <1>3 DEF BeginSetState, Begin, Request, Live
<1>4. ASSUME NEW p \in Process, NEW a \in Artifact, BeginDelete(p, a)
      PROVE  TypeOK'
  BY <1>4 DEF BeginDelete, Begin, Request
<1>5. ASSUME NEW p \in Process, VerifyDuplicate(p) PROVE TypeOK'
  <2>1. CASE Answer(p, "verifying")
    BY <1>5, <2>1 DEF VerifyDuplicate, Answer, Idle, Analysis
  <2>2. CASE Move(p, "verifying", "updating")
    BY <1>5, <2>2, MoveChangesLabel DEF VerifyDuplicate, Calls
  <2> QED BY <1>5, <2>1, <2>2 DEF VerifyDuplicate
<1>6. ASSUME NEW p \in Process, CopyFiles(p) PROVE TypeOK'
  <2>1. CASE Answer(p, "copying")
    BY <1>6, <2>1 DEF CopyFiles, Arrangement, RegistersAlone, Answer,
           Idle, Analysis, Copied
  <2>2. CASE Move(p, "copying", "recording")
    <3>1. /\ calls' \in [Process -> Calls]
          /\ calls'[p].at = "recording"
          /\ calls'[p].on = calls[p].on
          /\ calls'[p].todo = calls[p].todo
          /\ \A q \in Process \ {p} : calls'[q] = calls[q]
      BY <2>2, MoveChangesLabel DEF Calls
    <3>2. dirs' = Copied(calls[p].on)
      BY <1>6, <3>1 DEF CopyFiles, Answer, Idle, Analysis
    <3> QED
      BY <1>6, <2>2, <3>1, <3>2 DEF CopyFiles, Move, Copied, Calls
  <2> QED BY <1>6, <2>1, <2>2 DEF CopyFiles
<1>7. ASSUME NEW p \in Process, InsertArtifact(p) PROVE TypeOK'
  BY <1>7 DEF InsertArtifact, Answer, Idle, Analysis, Unique, Same, Flag
<1>8. ASSUME NEW p \in Process, CommitState(p) PROVE TypeOK'
  BY <1>8 DEF CommitState, Answer, Idle, Analysis, Updated, Flag
<1>9. ASSUME NEW p \in Process, DeleteFiles(p) PROVE TypeOK'
  <2>1. /\ calls' \in [Process -> Calls]
        /\ calls'[p].at = "dropping"
        /\ calls'[p].on = calls[p].on
        /\ calls'[p].todo = calls[p].todo
        /\ \A q \in Process \ {p} : calls'[q] = calls[q]
    BY <1>9, MoveChangesLabel DEF DeleteFiles, Calls
  <2> QED
    BY <1>9, <2>1
       DEF DeleteFiles, Move, Arrangement, RegistersAlone, Calls
<1>10. ASSUME NEW p \in Process, DropArtifact(p) PROVE TypeOK'
  BY <1>10 DEF DropArtifact, Answer, Idle, Analysis, Droppable
<1>11. ASSUME NEW p \in Process, BeginAnalysis(p) PROVE TypeOK'
  BY <1>11 DEF BeginAnalysis, Begin, Analysis, Enabled
<1>12. ASSUME NEW p \in Process, LoadModel(p) PROVE TypeOK'
  BY <1>12 DEF LoadModel, Analysis, Idle, Verified
<1>13. ASSUME NEW p \in Process, StorePredictions(p) PROVE TypeOK'
  <2>1. CASE Answer(p, "storing")
    BY <1>13, <2>1 DEF StorePredictions, Answer, Idle, Analysis
  <2>2. CASE ~Answer(p, "storing")
    <3> DEFINE next == Analysis("predicting", NoTarget, calls[p].todo)
    <3>1. PICK c : /\ calls' = [calls EXCEPT ![p] = c]
                   /\ c \in {Idle, next}
      BY <1>13, <2>2 DEF StorePredictions
    <3>2. c \in Calls
      <4>1. calls[p].todo \in SUBSET Artifact
        OBVIOUS
      <4>2. next \in Calls
        BY <4>1 DEF Calls, Analysis
      <4>3. Idle \in Calls
        BY DEF Calls, Analysis, Idle
      <4> QED BY <3>1, <4>2, <4>3
    <3>3. /\ c.on = NoTarget
          /\ c.at \in {"idle", "predicting"}
          /\ c.todo # {} => c.at = "predicting"
      BY <3>1 DEF Idle, Analysis
    <3>4. /\ calls' \in [Process -> Calls]
          /\ \A q \in Process : calls'[q] = IF q = p THEN c ELSE calls[q]
      BY <3>1, <3>2 DEF Calls
    <3>5. calls[p].on \in Artifact
      BY <1>13 DEF StorePredictions
    <3>6. predicted' = predicted \cup {calls[p].on}
      BY <1>13, <2>2 DEF StorePredictions
    <3> QED
      BY <1>13, <3>3, <3>4, <3>5, <3>6 DEF StorePredictions, Calls
  <2> QED BY <2>1, <2>2
<1>14. ASSUME NEW p \in Process, Crash(p) PROVE TypeOK'
  BY <1>14 DEF Crash, Idle, Analysis, Arrangement, RegistersAlone
<1>15. ASSUME NEW a \in Artifact, ClearPredictions(a) PROVE TypeOK'
  BY <1>15 DEF ClearPredictions
<1>16. CASE UNCHANGED vars
  BY <1>16 DEF vars
<1> QED
  BY <1>1, <1>2, <1>3, <1>4, <1>5, <1>6, <1>7, <1>8, <1>9, <1>10, <1>11,
     <1>12, <1>13, <1>14, <1>15, <1>16 DEF Next

\* Every step keeps the order in which rows, directories and calls come.
LEMMA ArrangementKept ==
  ASSUME IInv, [Next]_vars
  PROVE  Arrangement'
<1> USE ModelRegistryAssumption
    DEF IInv, TypeOK, At, Live, Arrangement, DirsComeFirst,
        RegistersAlone, ClearsDoomed, LoadsRegistered
<1>1. ASSUME NEW p \in Process, NEW a \in Artifact, NEW e \in BOOLEAN,
             BeginRegister(p, a, e)
      PROVE  Arrangement'
  BY <1>1 DEF BeginRegister, Begin, Request, Same
<1>2. ASSUME NEW p \in Process, NEW a \in Artifact, NEW e \in BOOLEAN,
             BeginUpdateDuplicate(p, a, e)
      PROVE  Arrangement'
  BY <1>2 DEF BeginUpdateDuplicate, Begin, Request, Live
<1>3. ASSUME NEW p \in Process, NEW a \in Artifact, NEW e \in BOOLEAN,
             BeginSetState(p, a, e)
      PROVE  Arrangement'
  BY <1>3 DEF BeginSetState, Begin, Request, Live
<1>4. ASSUME NEW p \in Process, NEW a \in Artifact, BeginDelete(p, a)
      PROVE  Arrangement'
  BY <1>4 DEF BeginDelete, Begin, Request
<1>5. ASSUME NEW p \in Process, VerifyDuplicate(p) PROVE Arrangement'
  BY <1>5 DEF VerifyDuplicate, Move, Answer, Idle, Analysis
<1>6. ASSUME NEW p \in Process, CopyFiles(p) PROVE Arrangement'
  BY <1>6 DEF CopyFiles, Move, Answer, Idle, Analysis, Copied
<1>7. ASSUME NEW p \in Process, InsertArtifact(p) PROVE Arrangement'
  BY <1>7 DEF InsertArtifact, Answer, Idle, Analysis, Unique, Same, Flag
<1>8. ASSUME NEW p \in Process, CommitState(p) PROVE Arrangement'
  BY <1>8 DEF CommitState, Answer, Idle, Analysis, Updated, Flag
<1>9. ASSUME NEW p \in Process, DeleteFiles(p) PROVE Arrangement'
  BY <1>9 DEF DeleteFiles, Move
<1>10. ASSUME NEW p \in Process, DropArtifact(p) PROVE Arrangement'
  BY <1>10 DEF DropArtifact, Answer, Idle, Analysis, Droppable
<1>11. ASSUME NEW p \in Process, BeginAnalysis(p) PROVE Arrangement'
  BY <1>11 DEF BeginAnalysis, Begin, Analysis, Enabled
<1>12. ASSUME NEW p \in Process, LoadModel(p) PROVE Arrangement'
  BY <1>12 DEF LoadModel, Analysis, Idle, Verified
<1>13. ASSUME NEW p \in Process, StorePredictions(p) PROVE Arrangement'
  BY <1>13 DEF StorePredictions, Answer, Analysis, Idle
<1>14. ASSUME NEW p \in Process, Crash(p) PROVE Arrangement'
  BY <1>14 DEF Crash, Idle, Analysis
<1>15. ASSUME NEW a \in Artifact, ClearPredictions(a) PROVE Arrangement'
  BY <1>15 DEF ClearPredictions
<1>16. CASE UNCHANGED vars
  BY <1>16 DEF vars
<1> QED
  BY <1>1, <1>2, <1>3, <1>4, <1>5, <1>6, <1>7, <1>8, <1>9, <1>10, <1>11,
     <1>12, <1>13, <1>14, <1>15, <1>16 DEF Next

\* Every step keeps what the registry promises.
LEMMA PromisesKept ==
  ASSUME IInv, [Next]_vars
  PROVE  Promises'
<1> USE ModelRegistryAssumption
    DEF IInv, TypeOK, At, Live, Arrangement, DirsComeFirst,
        RegistersAlone, ClearsDoomed, LoadsRegistered, Promises,
        OneRowPerModel, PredictionsHaveModel, FilesAreWhole
<1>1. ASSUME NEW p \in Process, NEW a \in Artifact, NEW e \in BOOLEAN,
             BeginRegister(p, a, e)
      PROVE  Promises'
  BY <1>1 DEF BeginRegister, Begin, Request, Same
<1>2. ASSUME NEW p \in Process, NEW a \in Artifact, NEW e \in BOOLEAN,
             BeginUpdateDuplicate(p, a, e)
      PROVE  Promises'
  BY <1>2 DEF BeginUpdateDuplicate, Begin, Request, Live
<1>3. ASSUME NEW p \in Process, NEW a \in Artifact, NEW e \in BOOLEAN,
             BeginSetState(p, a, e)
      PROVE  Promises'
  BY <1>3 DEF BeginSetState, Begin, Request, Live
<1>4. ASSUME NEW p \in Process, NEW a \in Artifact, BeginDelete(p, a)
      PROVE  Promises'
  BY <1>4 DEF BeginDelete, Begin, Request
<1>5. ASSUME NEW p \in Process, VerifyDuplicate(p) PROVE Promises'
  BY <1>5 DEF VerifyDuplicate, Move, Answer, Idle, Analysis
<1>6. ASSUME NEW p \in Process, CopyFiles(p) PROVE Promises'
  BY <1>6 DEF CopyFiles, Move, Answer, Idle, Analysis, Copied
<1>7. ASSUME NEW p \in Process, InsertArtifact(p) PROVE Promises'
  BY <1>7 DEF InsertArtifact, Answer, Idle, Analysis, Unique, Same, Flag
<1>8. ASSUME NEW p \in Process, CommitState(p) PROVE Promises'
  BY <1>8 DEF CommitState, Answer, Idle, Analysis, Updated, Flag
<1>9. ASSUME NEW p \in Process, DeleteFiles(p) PROVE Promises'
  BY <1>9 DEF DeleteFiles, Move
<1>10. ASSUME NEW p \in Process, DropArtifact(p) PROVE Promises'
  BY <1>10 DEF DropArtifact, Answer, Idle, Analysis, Droppable
<1>11. ASSUME NEW p \in Process, BeginAnalysis(p) PROVE Promises'
  BY <1>11 DEF BeginAnalysis, Begin, Analysis, Enabled
<1>12. ASSUME NEW p \in Process, LoadModel(p) PROVE Promises'
  BY <1>12 DEF LoadModel, Analysis, Idle, Verified
<1>13. ASSUME NEW p \in Process, StorePredictions(p) PROVE Promises'
  BY <1>13 DEF StorePredictions, Answer, Analysis, Idle
<1>14. ASSUME NEW p \in Process, Crash(p) PROVE Promises'
  BY <1>14 DEF Crash, Idle, Analysis
<1>15. ASSUME NEW a \in Artifact, ClearPredictions(a) PROVE Promises'
  BY <1>15 DEF ClearPredictions
<1>16. CASE UNCHANGED vars
  BY <1>16 DEF vars
<1> QED
  BY <1>1, <1>2, <1>3, <1>4, <1>5, <1>6, <1>7, <1>8, <1>9, <1>10, <1>11,
     <1>12, <1>13, <1>14, <1>15, <1>16 DEF Next

-----------------------------------------------------------------------------
\* The invariant holds initially and every step keeps it.
THEOREM InvariantHolds == Spec => []IInv
<1>1. Init => IInv
  <2> SUFFICES ASSUME Init PROVE IInv
    OBVIOUS
  <2>1. TypeOK
    BY ModelRegistryAssumption DEF Init, TypeOK, Labels, Idle, Analysis
  <2>2. Arrangement
    BY DEF Init, Arrangement, DirsComeFirst, RegistersAlone, ClearsDoomed,
           LoadsRegistered, At, Idle, Analysis
  <2>3. Promises
    BY DEF Init, Promises, OneRowPerModel, PredictionsHaveModel, FilesAreWhole,
           Live
  <2> QED BY <2>1, <2>2, <2>3 DEF IInv
<1>2. IInv /\ [Next]_vars => IInv'
  BY TypesKept, ArrangementKept, PromisesKept DEF IInv
<1> QED BY <1>1, <1>2, PTL DEF Spec

\* Rows, directories, predictions and calls keep their types.
THEOREM TypesHold == Spec => []TypeOK
<1>1. IInv => TypeOK
  BY DEF IInv
<1> QED BY <1>1, InvariantHolds, PTL

\* However many processes register a model at a time, one row is made of it.
THEOREM ModelsAreRegisteredOnce == Spec => []OneRowPerModel
<1>1. IInv => OneRowPerModel
  BY DEF IInv, Promises
<1> QED BY <1>1, InvariantHolds, PTL

\* A worker's predictions refer to a row, whatever is deleted beside it.
THEOREM PredictionsKeepTheirModel == Spec => []PredictionsHaveModel
<1>1. IInv => PredictionsHaveModel
  BY DEF IInv, Promises
<1> QED BY <1>1, InvariantHolds, PTL

\* Until its deletion is begun, a registered model has its files.
THEOREM RegisteredFilesAreWhole == Spec => []FilesAreWhole
<1>1. IInv => FilesAreWhole
  BY DEF IInv, Promises
<1> QED BY <1>1, InvariantHolds, PTL

\* No commit brings a deleted row back, whatever it has loaded before.
THEOREM DeletionIsFinal == Spec => DeletedForGood
<1> DEFINE Stay ==
      \A a \in Artifact : rows[a] = "deleted" => rows'[a] = "deleted"
<1>1. IInv /\ [Next]_vars => [Stay]_vars
  <2> SUFFICES ASSUME IInv, Next PROVE Stay
    OBVIOUS
  <2>1. ASSUME NEW p \in Process, InsertArtifact(p) PROVE Stay
    BY <2>1 DEF InsertArtifact, Answer, At, IInv, TypeOK, Arrangement,
                RegistersAlone
  <2>2. ASSUME NEW p \in Process, CommitState(p) PROVE Stay
    BY <2>2 DEF CommitState, Updated, Live, Flag, IInv, TypeOK
  <2>3. ASSUME NEW p \in Process, DropArtifact(p) PROVE Stay
    BY <2>3 DEF DropArtifact, IInv, TypeOK
  <2>4. CASE UNCHANGED rows
    BY <2>4
  <2> QED
    BY <2>1, <2>2, <2>3, <2>4
       DEF Next, VerifyDuplicate, CopyFiles, DeleteFiles, BeginAnalysis,
           LoadModel, StorePredictions, Crash, BeginDelete, BeginRegister,
           BeginUpdateDuplicate, BeginSetState, ClearPredictions
<1> QED BY <1>1, InvariantHolds, PTL DEF Spec, DeletedForGood

=============================================================================
