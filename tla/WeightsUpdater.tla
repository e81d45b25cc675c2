---------------------------- MODULE WeightsUpdater ----------------------------
(***************************************************************************)
(* Changing the weights of a running pipeline (weights_updater.py and      *)
(* GPUWorker.update_weights_from_disk): the modules are loaded one after   *)
(* the other, parameter by parameter; the first failure rolls back, by     *)
(* loading from pipeline.model_path, what was loaded before it.            *)
(*                                                                         *)
(* The weights of a parameter are the checkpoint they come from.  A        *)
(* checkpoint has a directory with one file of weights for some modules;   *)
(* a file that does not validate is deleted by the reader                  *)
(* (safetensors_weights_iterator), and a tensor may have the wrong shape.  *)
(***************************************************************************)
EXTENDS Deployment, Sequences, SequencesExt

CONSTANTS
  Modules,      \* the nn.Modules of the pipeline
  Params,       \* parameters of each module
  Checkpoints,
  Base,         \* the checkpoint the server was started with
  Dirs,         \* pairs of a checkpoint and a module it has a directory for
  Misfits,      \* triples checkpoint, module, parameter of another shape
  Absent        \* triples checkpoint, module, parameter its file does not hold

ASSUME WeightsAssumption ==
  /\ Base \in Checkpoints
  /\ Dirs \subseteq Checkpoints \X Modules
  /\ {Base} \X Modules \subseteq Dirs
  /\ Misfits \subseteq (Checkpoints \ {Base}) \X Modules \X Params
  /\ Absent \subseteq (Checkpoints \ {Base}) \X Modules \X Params
  /\ \A d \in Deployments : \A t \in d.targets : t \in Seq(Range(t))

VARIABLES
  weights,    \* per module and parameter the checkpoint it was loaded from
  modelPath,  \* pipeline.model_path
  files,      \* per checkpoint and module "good", "damaged" or "none"
  job,        \* the update in progress
  answer,     \* what the last update returned
  before,     \* the weights when it started
  torn,       \* a rollback raised and no update has succeeded since
  damaged     \* number of files damaged so far

weightsVars == <<weights, modelPath, files, job, answer, before, torn, damaged>>

From(c)  == [m \in Modules |-> [p \in Params |-> c]]
NoJob    == [phase |-> "idle", path |-> Base, targets |-> <<>>, next |-> <<>>,
             open |-> FALSE, left |-> {}]
Updating == job.phase # "idle"

WeightsInit ==
  /\ weights = From(Base) /\ before = From(Base)
  /\ modelPath = Base
  /\ files = [d \in Checkpoints \X Modules |-> IF d \in Dirs THEN "good" ELSE "none"]
  /\ job = NoJob /\ answer = "none" /\ torn = FALSE /\ damaged = 0

WeightsTypeOK ==
  /\ weights \in [Modules -> [Params -> Checkpoints]]
  /\ before \in [Modules -> [Params -> Checkpoints]]
  /\ modelPath \in Checkpoints
  /\ files \in [Checkpoints \X Modules -> {"good", "damaged", "none"}]
  /\ job.phase \in {"idle", "load", "rollback"} /\ job.path \in Checkpoints
  /\ Range(job.targets) \subseteq Modules
  /\ IsSuffix(job.next, job.targets) \/ job.phase = "rollback"
  /\ job.left \subseteq Params /\ (job.left # {} => job.open)
  /\ answer \in {"none", "refused", "updated", "rolled back", "raised"}
  /\ torn \in BOOLEAN /\ damaged \in 0..deployment.damages

-------------------------------------------------------------------------------

(* Somebody rewrites or truncates a file while the server runs             *)
Damage(c, m) ==
  /\ damaged < deployment.damages /\ files[c, m] = "good"
  /\ files' = [files EXCEPT ![<<c, m>>] = "damaged"]
  /\ damaged' = damaged + 1
  /\ UNCHANGED <<weights, modelPath, job, answer, before, torn>>

AcceptsUnknown(c, targets) ==
  targets # <<>> /\ \A m \in Range(targets) : m \in Modules => files[c, m] # "none"

(* An update request: an empty list, unknown modules and missing files are *)
(* found before anything is loaded                                         *)
Acceptable(c, targets) ==
  targets # <<>> /\ \A m \in Range(targets) : m \in Modules /\ files[c, m] # "none"

UpdateWeightsFromDisk(c, targets) ==
  /\ ~Updating
  /\ before' = weights
  /\ IF Acceptable(c, targets)
       THEN job' = [NoJob EXCEPT !.phase = "load", !.path = c, !.targets = targets,
                                !.next = targets] /\ answer' = "none"
       ELSE job' = NoJob /\ answer' = "refused"
  /\ UNCHANGED <<weights, modelPath, files, torn, damaged>>

Source == IF job.phase = "rollback" THEN modelPath ELSE job.path

UpdatedOnly == [job EXCEPT !.phase = "rollback", !.open = FALSE, !.left = {},
  !.next = SubSeq(job.targets, 1, Len(job.targets) - Len(job.next))]

(* What is rolled back: the modules updated before and the one that failed *)
RollbackList == [job EXCEPT !.phase = "rollback", !.open = FALSE, !.left = {},
  !.next = SubSeq(job.targets, 1, Len(job.targets) - Len(job.next) + 1)]

(* An exception while loading starts the rollback, one while rolling back  *)
(* propagates                                                              *)
Fail ==
  IF job.phase = "load"
    THEN job' = RollbackList /\ UNCHANGED <<answer, torn>>
    ELSE job' = NoJob /\ answer' = "raised" /\ torn' = TRUE

(* _rollback passes over a module that model_path has no directory for.    *)
Skipped(m) == job.phase = "rollback" /\ <<modelPath, m>> \notin Dirs

Skip ==
  /\ Updating /\ job.next # <<>> /\ ~job.open /\ Skipped(Head(job.next))
  /\ job' = [job EXCEPT !.next = Tail(@)]
  /\ UNCHANGED <<weights, modelPath, files, answer, before, torn, damaged>>

Holds(c, m) == {p \in Params : <<c, m, p>> \notin Absent}

(* The reader validates the file before it yields the first tensor; it     *)
(* yields what the file holds, and nobody asks for the other parameters    *)
Open ==
  /\ Updating /\ job.next # <<>> /\ ~job.open
  /\ LET m == Head(job.next) IN
       /\ ~Skipped(m)
       /\ IF files[Source, m] = "good"
            THEN /\ job' = [job EXCEPT !.open = TRUE, !.left = Holds(Source, m)]
                 /\ UNCHANGED <<files, answer, torn>>
            ELSE /\ files' = [files EXCEPT ![<<Source, m>>] = "none"]
                 /\ Fail
  /\ UNCHANGED <<weights, modelPath, before, damaged>>

LoadIfFits(p) ==
  /\ Updating /\ p \in job.left
  /\ LET m == Head(job.next) IN
       weights' = IF <<Source, m, p>> \in Misfits THEN weights
                                                 ELSE [weights EXCEPT ![m][p] = Source]
  /\ job' = [job EXCEPT !.left = @ \ {p}]
  /\ UNCHANGED <<modelPath, files, answer, before, torn, damaged>>

LoadParam(p) ==
  /\ Updating /\ p \in job.left
  /\ LET m == Head(job.next) IN
       IF <<Source, m, p>> \in Misfits
         THEN Fail /\ UNCHANGED weights
         ELSE /\ weights' = [weights EXCEPT ![m][p] = Source]
              /\ job' = [job EXCEPT !.left = @ \ {p}]
              /\ UNCHANGED <<answer, torn>>
  /\ UNCHANGED <<modelPath, files, before, damaged>>

NextModule ==
  /\ Updating /\ job.next # <<>> /\ job.open /\ job.left = {}
  /\ job' = [job EXCEPT !.next = Tail(@), !.open = FALSE]
  /\ UNCHANGED <<weights, modelPath, files, answer, before, torn, damaged>>

PathOfRequest == job.path

(* The checkpoint of a successful update becomes the one to roll back to   *)
PathAfter == IF job.phase = "load" THEN job.path ELSE modelPath

Return ==
  /\ Updating /\ job.next = <<>>
  /\ answer' = IF job.phase = "load" THEN "updated" ELSE "rolled back"
  /\ torn' = (torn /\ job.phase # "load")
  /\ modelPath' = PathAfter
  /\ job' = [NoJob EXCEPT !.path = job.path, !.targets = job.targets]
  /\ UNCHANGED <<weights, files, before, damaged>>

(* A step of the handler after the request was accepted                    *)
UpdateStep == Skip \/ Open \/ NextModule \/ Return \/ \E p \in Params : LoadParam(p)

-------------------------------------------------------------------------------

(* An update that answers "All modules rolled back to original weights"    *)
(* leaves every parameter with the weights it had before the request, if   *)
(* these were the ones of pipeline.model_path, as they are while updates   *)
(* name all modules and no rollback raises.                                *)
RolledBackMeansRestored ==
  answer = "rolled back" /\ before = From(modelPath) => weights = before

(* An update that answers success loaded every parameter of its target     *)
(* modules that the requested checkpoint holds, and changed nothing else,  *)
(* whatever failed, was rolled back or was damaged before.                 *)
UpdatedMeansLoaded ==
  answer = "updated" =>
    weights = [m \in Modules |-> [p \in Params |->
      IF m \in Range(job.targets) /\ p \in Holds(job.path, m)
        THEN job.path ELSE before[m][p]]]

(* No request that can succeed names only some of the modules.             *)
WholeUpdates ==
  \A t \in deployment.targets : Range(t) \in {{}, Modules} \/ ~(Range(t) \subseteq Modules)

(* When every request updates all modules and the files hold all           *)
(* parameters, the weights served between two requests are those of one    *)
(* checkpoint, pipeline.model_path, unless a rollback itself raised:       *)
(* damaged files, refused requests and failed updates never leave a        *)
(* mixture that nobody was told about.                                     *)
ServesOneCheckpoint ==
  WholeUpdates /\ ~Updating /\ ~torn => weights = From(modelPath)
===============================================================================
