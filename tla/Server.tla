-------------------------------- MODULE Server --------------------------------
(***************************************************************************)
(* A server without disaggregation: the scheduler of every rank, and on    *)
(* rank 0 what the worker does for the batch the scheduler gave it.  A     *)
(* forward pass takes the pipeline through one request, whose components   *)
(* are moved by the residency manager; an update of the weights loads      *)
(* files.  Meanwhile clients send, time passes and files are damaged.      *)
(***************************************************************************)
EXTENDS BatchScheduler, ComponentResidency, WeightsUpdater

vars == <<schedulerVars, residencyVars, weightsVars>>

Init == SchedulerInit /\ ResidencyInit /\ WeightsInit

-------------------------------------------------------------------------------

SchedulerStep(A) == A /\ UNCHANGED <<residencyVars, weightsVars>>

(* With every component resident the manager changes nothing, and the      *)
(* forward pass is one step.                                               *)
AllResident == \A c \in Components : strategy[c] = "resident"

ForwardAtOnce == AllResident /\ SchedulerStep(AllJoined /\ Forward(Results(batch[0])))

(* execute_forward hands the batch to the executor                         *)
StartForward ==
  /\ AllJoined /\ ~AllResident
  /\ BeginRequest(batch[0][1].warmup)
  /\ UNCHANGED <<schedulerVars, weightsVars>>

RunPipeline == PipelineStep /\ UNCHANGED <<schedulerVars, weightsVars>>

(* A request that ended before its last use raised.                        *)
Outcomes ==
  IF future = <<>> /\ index > 0 THEN Results(batch[0])
  ELSE {[m \in DOMAIN batch[0] |-> Failed]}

EndForward ==
  /\ RequestEnd
  /\ Forward(Outcomes)
  /\ UNCHANGED weightsVars

-------------------------------------------------------------------------------

(* _handle_update_weights_from_disk: when the updater returns or raises,   *)
(* the scheduler answers.                                                  *)
UpdateRequested == pc[0] = "run" /\ Type[batch[0][1].item] = "update"

UpdateAnswer ==
  IF answer' = "updated" THEN {<<Made(<<>>)>>} ELSE {<<Failed>>}

UpdaterStep(A) ==
  /\ UpdateRequested /\ A
  /\ IF job'.phase = "idle" THEN Handle(0, UpdateAnswer) ELSE UNCHANGED schedulerVars
  /\ UNCHANGED residencyVars

StartUpdate ==
  \E c \in Checkpoints, targets \in deployment.targets :
    UpdaterStep(UpdateWeightsFromDisk(c, targets))

RunUpdate == UpdaterStep(UpdateStep)

(* A file is damaged at any time; it matters once an update is to read it. *)
DamageFile ==
  /\ UpdateRequested
  /\ \E c \in Checkpoints, m \in Modules : Damage(c, m)
  /\ UNCHANGED <<schedulerVars, residencyVars>>

-------------------------------------------------------------------------------

Worker ==
  ForwardAtOnce \/ StartForward \/ RunPipeline \/ EndForward \/ StartUpdate \/ RunUpdate

Next ==
  \/ \E i \in Items : SchedulerStep(Send(i))
  \/ SchedulerStep(Recv)
  \/ \E n \in 0 .. Len(inbox) : SchedulerStep(RecvFails(n))
  \/ \E k \in AllRanks : SchedulerStep(RankStep(k)) \/ SchedulerStep(DelayPasses(k))
  \/ ForwardAtOnce \/ StartForward \/ RunPipeline \/ EndForward
  \/ StartUpdate \/ RunUpdate \/ DamageFile

Spec == Init /\ [][Next]_vars

(* The loop never sleeps without a timeout, time passes, and the worker    *)
(* ends what it was given: a pipeline has finitely many uses and a file    *)
(* finitely many parameters.                                               *)
FairSpec ==
  /\ Spec /\ WF_vars(SchedulerStep(Recv)) /\ WF_vars(Worker)
  /\ \A k \in AllRanks :
       WF_vars(SchedulerStep(RankStep(k))) /\ WF_vars(SchedulerStep(DelayPasses(k)))

TypeOK == SchedulerTypeOK /\ ResidencyTypeOK /\ WeightsTypeOK
===============================================================================
