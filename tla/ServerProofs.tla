----------------------------- MODULE ServerProofs -----------------------------
(***************************************************************************)
(* What the worker of a server without disaggregation keeps: a component   *)
(* in use is on the GPU, nothing is left there without a reason, and an    *)
(* update of the weights ends in what it reports.                          *)
(***************************************************************************)
EXTENDS Server, TLAPS

-------------------------------------------------------------------------------
(* The components.  Nothing is assumed of the timeline of a request but    *)
(* that it names components.                                               *)

Places == {"cpu", "coming", "gpu"}

IsList(s) == \E S : s \in Seq(S)

ComponentsOf(uses) == {uses[k].component : k \in DOMAIN uses}

(* There is a reason for c to stay where it is after a request.            *)
Justified(c) ==
  \/ place[c] = "cpu" \/ strategy[c] = "resident"
  \/ c \in Preferred \/ SingleDit(c) \/ c \in keptWarm

(* The component in use is ready.  Whatever else is on the GPU without a   *)
(* reason is among the uses that finish_request will visit.                *)
ResidencyInv ==
  /\ place \in [Components -> Places]
  /\ pipeline # "running" => active = NoUse
  /\ active # NoUse =>
       active.component \in Components /\ place[active.component] = "gpu"
  /\ IsList(seen) /\ IsList(todo)
  /\ \A c \in Components :
       \/ Justified(c)
       \/ pipeline = "running" /\ c \in ComponentsOf(seen)
       \/ pipeline = "finishing" /\ c \in ComponentsOf(todo)

(* _uses_seen gains the component of a use and loses none.                 *)
LEMMA PutEffect ==
  ASSUME NEW s, IsList(s), NEW u
  PROVE  /\ IsList(Put(s, u))
         /\ ComponentsOf(Put(s, u)) = ComponentsOf(s) \cup {u.component}
<1> PICK S : s \in Seq(S)
  BY DEF IsList
<1>1. CASE \E k \in DOMAIN s : s[k].component = u.component
  <2>1. Put(s, u) = [k \in DOMAIN s |-> IF s[k].component = u.component THEN u ELSE s[k]]
    BY <1>1 DEF Put
  <2>2. Put(s, u) \in Seq(S \cup {u})
    BY <2>1
  <2>3. QED  BY <1>1, <2>1, <2>2 DEF IsList, ComponentsOf
<1>2. CASE ~\E k \in DOMAIN s : s[k].component = u.component
  <2>1. Put(s, u) = Append(s, u) /\ s \in Seq(S \cup {u})
    BY <1>2 DEF Put
  <2>2. Append(s, u) \in Seq(S \cup {u})
    BY <2>1
  <2>3. /\ DOMAIN Append(s, u) = DOMAIN s \cup {Len(s) + 1}
        /\ \A k \in DOMAIN s : Append(s, u)[k] = s[k]
        /\ Append(s, u)[Len(s) + 1] = u
    BY <2>1
  <2>4. ComponentsOf(Append(s, u)) = ComponentsOf(s) \cup {u.component}
    BY Zenon, <2>3 DEF ComponentsOf
  <2>5. QED  BY <2>1, <2>2, <2>4 DEF IsList
<1>3. QED  BY <1>1, <1>2

(* _finish_use leaves a component where it is or releases it.              *)
LEMMA FinishedEffect ==
  ASSUME NEW pl \in [Components -> Places], NEW u
  PROVE  /\ Finished(u, pl) \in [Components -> Places]
         /\ \A c \in Components : Finished(u, pl)[c] \in {pl[c], "cpu"}
BY DEF Finished, FinishUse, Places

(* A prefetch starts a copy for a component of _uses_seen, and takes none  *)
(* off the GPU.                                                            *)
LEMMA PrefetchEffect ==
  ASSUME NEW k, NEW a, NEW pl \in [Components -> Places], NEW s, IsList(s),
         PrefetchNext(k, a, pl, s)
  PROVE  /\ place' \in [Components -> Places]
         /\ IsList(seen') /\ ComponentsOf(s) \subseteq ComponentsOf(seen')
         /\ \A c \in Components : /\ place'[c] = pl[c] \/ c \in ComponentsOf(seen')
                                  /\ pl[c] = "gpu" => place'[c] = "gpu"
<1> DEFINE u == Timeline[Min({j \in k + 1 .. Len(Timeline) : Timeline[j].heavy})]
<1>1. \/ /\ place' = [pl EXCEPT ![u.component] = PrefetchForUse(u.component, @)]
         /\ seen' = Put(s, u)
      \/ place' = pl /\ seen' = s
  BY Zenon DEF PrefetchNext, SeenByPrefetch
<1> HIDE DEF u
<1>2. CASE place' = pl /\ seen' = s
  BY <1>2
<1>3. CASE /\ place' = [pl EXCEPT ![u.component] = PrefetchForUse(u.component, @)]
           /\ seen' = Put(s, u)
  <2>1. IsList(seen') /\ ComponentsOf(seen') = ComponentsOf(s) \cup {u.component}
    BY Zenon, <1>3, PutEffect
  <2>2. \A c, p : /\ p \in Places => PrefetchForUse(c, p) \in Places
                  /\ p = "gpu" => PrefetchForUse(c, p) = "gpu"
    BY DEF PrefetchForUse, Places
  <2>3. QED  BY <1>3, <2>1, <2>2
<1>4. QED  BY <1>1, <1>2, <1>3

(* begin_use                                                               *)
LEMMA BeginUseKeeps ==
  ASSUME ResidencyInv, NEW k \in DOMAIN Timeline, BeginUse(k)
  PROVE  ResidencyInv'
<1> DEFINE u == Timeline[k]
           pl == [Finished(active, place) EXCEPT ![u.component] = "gpu"]
<1>1. /\ pipeline = "running" /\ active' = u
      /\ PrefetchNext(Locate(u), u, pl, Put(seen, u))
      /\ UNCHANGED <<strategy, pipeline, warmup, todo, keptWarm>>
  BY DEF BeginUse, PrepareAndWait
<1>2. u.component \in Components
  BY ResidencyAssumption
<1>3. /\ Finished(active, place) \in [Components -> Places]
      /\ \A c \in Components : Finished(active, place)[c] \in {place[c], "cpu"}
  BY FinishedEffect DEF ResidencyInv
<1>4. /\ pl \in [Components -> Places] /\ pl[u.component] = "gpu"
      /\ \A c \in Components \ {u.component} : pl[c] \in {place[c], "cpu"}
  BY <1>2, <1>3 DEF Places
<1>5. IsList(Put(seen, u)) /\ ComponentsOf(Put(seen, u)) = ComponentsOf(seen) \cup {u.component}
  BY PutEffect DEF ResidencyInv
<1> HIDE DEF u, pl
<1>6. /\ place' \in [Components -> Places]
      /\ IsList(seen') /\ ComponentsOf(Put(seen, u)) \subseteq ComponentsOf(seen')
      /\ \A c \in Components : /\ place'[c] = pl[c] \/ c \in ComponentsOf(seen')
                               /\ pl[c] = "gpu" => place'[c] = "gpu"
  BY <1>1, <1>4, <1>5, PrefetchEffect
<1>7. ASSUME NEW c \in Components, c \notin ComponentsOf(seen')
      PROVE  Justified(c)'
  <2>1. c \notin ComponentsOf(seen) /\ c # u.component /\ place'[c] \in {place[c], "cpu"}
    BY <1>4, <1>5, <1>6, <1>7
  <2>2. Justified(c)
    BY <1>1, <2>1 DEF ResidencyInv
  <2>3. QED  BY <1>1, <2>1, <2>2 DEF Justified
<1>8. QED  BY <1>1, <1>2, <1>4, <1>6, <1>7 DEF ResidencyInv

(* end_use and finish_active_use                                           *)
LEMMA EndUseKeeps ==
  ASSUME ResidencyInv, EndUse
  PROVE  ResidencyInv'
<1> DEFINE pl == Finished(active, place)
<1>1. /\ pipeline = "running" /\ active' = NoUse
      /\ PrefetchNext(index, NoUse, pl, seen)
      /\ UNCHANGED <<strategy, pipeline, warmup, todo, keptWarm>>
  BY DEF EndUse
<1>2. pl \in [Components -> Places] /\ \A c \in Components : pl[c] \in {place[c], "cpu"}
  BY FinishedEffect DEF ResidencyInv
<1> HIDE DEF pl
<1>3. /\ place' \in [Components -> Places]
      /\ IsList(seen') /\ ComponentsOf(seen) \subseteq ComponentsOf(seen')
      /\ \A c \in Components : /\ place'[c] = pl[c] \/ c \in ComponentsOf(seen')
                               /\ pl[c] = "gpu" => place'[c] = "gpu"
  BY <1>1, <1>2, PrefetchEffect DEF ResidencyInv
<1>4. ASSUME NEW c \in Components, c \notin ComponentsOf(seen')
      PROVE  Justified(c)'
  <2>1. c \notin ComponentsOf(seen) /\ place'[c] \in {place[c], "cpu"}
    BY <1>2, <1>3, <1>4
  <2>2. Justified(c)
    BY <1>1, <2>1 DEF ResidencyInv
  <2>3. QED  BY <1>1, <2>1, <2>2 DEF Justified
<1>5. QED  BY <1>1, <1>3, <1>4 DEF ResidencyInv

(* finish_request releases the active use and visits all uses seen.        *)
LEMMA FinishRequestKeeps ==
  ASSUME ResidencyInv, FinishRequest
  PROVE  ResidencyInv'
<1>1. /\ pipeline = "running" /\ pipeline' = "finishing" /\ active' = NoUse
      /\ place' = Finished(active, place) /\ todo' = seen
      /\ UNCHANGED <<strategy, warmup, seen, keptWarm>>
  BY DEF FinishRequest
<1>2. place' \in [Components -> Places] /\ \A c \in Components : place'[c] \in {place[c], "cpu"}
  BY <1>1, FinishedEffect DEF ResidencyInv
<1>3. ASSUME NEW c \in Components, c \notin ComponentsOf(todo')
      PROVE  Justified(c)'
  <2>1. Justified(c)
    BY <1>1, <1>3 DEF ResidencyInv
  <2>2. QED  BY <1>1, <1>2, <2>1 DEF Justified
<1>4. QED  BY <1>1, <1>2, <1>3 DEF ResidencyInv

(* One round of its loop: the component visited is released, or there is a *)
(* reason to keep it.                                                      *)
LEMMA FinishSeenKeeps ==
  ASSUME ResidencyInv, FinishSeen
  PROVE  ResidencyInv'
<1> PICK u, c : u = Head(todo) /\ c = u.component
  OBVIOUS
<1>1. /\ pipeline = "finishing" /\ todo # <<>> /\ todo' = Tail(todo)
      /\ place' = IF KeptAfterRequest(u) THEN place
                  ELSE [place EXCEPT ![c] = AfterRequest(c, @, c \in Preferred)]
      /\ keptWarm' = IF warmup /\ u.keepWarm THEN keptWarm \cup {c} ELSE keptWarm \ {c}
      /\ UNCHANGED <<strategy, pipeline, warmup, active, seen>>
  BY DEF FinishSeen
<1>2. IsList(todo') /\ ComponentsOf(todo) \subseteq ComponentsOf(todo') \cup {c}
  <2> PICK S : todo \in Seq(S)
    BY DEF ResidencyInv, IsList
  <2>1. /\ todo' \in Seq(S) /\ u = todo[1]
        /\ \A n \in DOMAIN todo \ {1} : n - 1 \in DOMAIN todo' /\ todo'[n - 1] = todo[n]
    BY <1>1
  <2>2. ASSUME NEW n \in DOMAIN todo
        PROVE  todo[n].component \in ComponentsOf(todo') \cup {c}
    BY <2>1 DEF ComponentsOf
  <2>3. QED  BY Zenon, <2>1, <2>2 DEF IsList, ComponentsOf
<1>3. \A p \in Places : /\ AfterRequest(c, p, c \in Preferred) \in Places
                        /\ c \notin Preferred => AfterRequest(c, p, c \in Preferred)
                                                   = FinishUse(c, p)
  BY DEF AfterRequest, PrepareAndWait, PrefetchForUse, FinishUse, Places
<1>4. place' \in [Components -> Places] /\ \A d \in Components \ {c} : place'[d] = place[d]
  BY <1>1, <1>3 DEF ResidencyInv
<1>5. c \in Components => Justified(c)'
  <2>1. CASE KeptAfterRequest(u)
    BY <1>1, <2>1 DEF KeptAfterRequest, Justified
  <2>2. CASE ~KeptAfterRequest(u) /\ c \notin Preferred
    BY <1>1, <1>3, <2>2 DEF Justified, FinishUse, ResidencyInv
  <2>3. QED  BY <2>1, <2>2 DEF Justified
<1>6. ASSUME NEW d \in Components, d \notin ComponentsOf(todo'), d # c
      PROVE  Justified(d)'
  <2>1. Justified(d)
    BY <1>1, <1>2, <1>6 DEF ResidencyInv
  <2>2. QED  BY <1>1, <1>4, <1>6, <2>1 DEF Justified
<1>7. QED  BY <1>1, <1>2, <1>4, <1>5, <1>6 DEF ResidencyInv

(* begin_request and the end of a request                                  *)
LEMMA RequestKeeps ==
  ASSUME ResidencyInv, RequestEnd \/ \E w : BeginRequest(w)
  PROVE  ResidencyInv'
<1> USE DEF ResidencyInv
<1>1. CASE \E w : BeginRequest(w)
  <2>1. /\ pipeline = "idle" /\ active' = NoUse /\ seen' = <<>>
        /\ UNCHANGED <<strategy, place, todo, keptWarm>>
    BY <1>1 DEF BeginRequest
  <2>2. <<>> \in Seq({})
    OBVIOUS
  <2>3. IsList(seen')
    BY Zenon, <2>1, <2>2 DEF IsList
  <2>4. QED  BY <2>1, <2>3 DEF Justified
<1>2. CASE RequestEnd
  <2>1. /\ pipeline = "finishing" /\ todo = <<>> /\ ComponentsOf(<<>>) = {}
        /\ UNCHANGED <<strategy, place, active, seen, todo, keptWarm>>
    BY <1>2 DEF RequestEnd, ComponentsOf
  <2>2. QED  BY <2>1 DEF Justified
<1>3. QED  BY <1>1, <1>2

(* The invariant speaks of the variables of the manager only.              *)
LEMMA ResidencyUnchanged ==
  ASSUME ResidencyInv, UNCHANGED residencyVars
  PROVE  ResidencyInv'
BY DEF ResidencyInv, residencyVars, Justified

(* No component is in use when the server has started.                     *)
LEMMA InitResidency ==
  ASSUME Init
  PROVE  ResidencyInv
<1>1. /\ place = [c \in Components |-> IF strategy[c] = "resident" THEN "gpu" ELSE "cpu"]
      /\ active = NoUse /\ seen = <<>> /\ todo = <<>>
  BY DEF Init, ResidencyInit
<1>2. <<>> \in Seq({})
  OBVIOUS
<1>3. IsList(seen) /\ IsList(todo)
  BY Zenon, <1>1, <1>2 DEF IsList
<1>4. QED  BY <1>1, <1>3 DEF ResidencyInv, Justified, Places

-------------------------------------------------------------------------------
(* What a step of the server does for its parts: it is a step of the       *)
(* pipeline or leaves the components alone, it is a step of the updater or *)
(* leaves the weights alone, and the deployment never changes.             *)
LEMMA ServerStep ==
  ASSUME Next
  PROVE  /\ deployment' = deployment
         /\ \/ UNCHANGED residencyVars
            \/ PipelineStep \/ RequestEnd \/ \E w : BeginRequest(w)
         /\ \/ UNCHANGED weightsVars
            \/ \E c \in Checkpoints, targets \in deployment.targets :
                 UpdateWeightsFromDisk(c, targets)
            \/ UpdateStep
            \/ \E c \in Checkpoints, m \in Modules : Damage(c, m)
<1>1. CASE \E i \in Items : SchedulerStep(Send(i))
  BY Zenon, <1>1 DEF SchedulerStep, Send
<1>2. CASE SchedulerStep(Recv) \/ \E n \in 0 .. Len(inbox) : SchedulerStep(RecvFails(n))
  BY Zenon, <1>2 DEF SchedulerStep, Recv, RecvFails
<1>3. CASE \E k \in AllRanks : SchedulerStep(RankStep(k)) \/ SchedulerStep(DelayPasses(k))
  BY Zenon, <1>3 DEF SchedulerStep, RankStep, DelayPasses, Select, HandlesAtOnce, Handle,
                     RecvBroadcast
<1>4. CASE ForwardAtOnce
  BY Zenon, <1>4 DEF SchedulerStep, ForwardAtOnce, Forward
<1>5. CASE StartForward \/ RunPipeline
  BY Zenon, <1>5 DEF StartForward, RunPipeline, schedulerVars
<1>6. CASE EndForward
  BY Zenon, <1>6 DEF EndForward, Forward
<1>7. CASE StartUpdate \/ RunUpdate
  BY Zenon, <1>7 DEF StartUpdate, RunUpdate, UpdaterStep, Handle, schedulerVars
<1>8. CASE DamageFile
  BY Zenon, <1>8 DEF DamageFile, schedulerVars
<1>9. QED
  BY Zenon, <1>1, <1>2, <1>3, <1>4, <1>5, <1>6, <1>7, <1>8 DEF Next

(* Every step of the server keeps the invariant of the residency manager.  *)
LEMMA NextResidency ==
  ASSUME ResidencyInv, [Next]_vars
  PROVE  ResidencyInv'
<1>1. CASE UNCHANGED residencyVars
  BY Zenon, <1>1, ResidencyUnchanged
<1>2. CASE PipelineStep
  BY Zenon, <1>2, BeginUseKeeps, EndUseKeeps, FinishRequestKeeps, FinishSeenKeeps
     DEF PipelineStep
<1>3. CASE RequestEnd \/ \E w : BeginRequest(w)
  BY Zenon, <1>3, RequestKeeps
<1>4. QED
  BY Zenon, <1>1, <1>2, <1>3, ServerStep DEF vars

(* The invariant of the components holds in every reachable state.         *)
THEOREM ResidencyHolds == Spec => []ResidencyInv
<1>1. Init => ResidencyInv
  BY InitResidency
<1>2. ResidencyInv /\ [Next]_vars => ResidencyInv'
  BY NextResidency
<1>3. QED  BY <1>1, <1>2, PTL DEF Spec

(* A component in use is on the GPU and its copy is waited for, for every  *)
(* pipeline, every choice of strategies, every timeline of uses and every  *)
(* order of requests that complete, fail or warm up (begin_use of          *)
(* component_manager.py).                                                  *)
THEOREM ActiveComponentIsReady == Spec => []ActiveIsReady
<1>1. ResidencyInv => ActiveIsReady
  BY DEF ResidencyInv, ActiveIsReady
<1>2. QED  BY <1>1, ResidencyHolds, PTL

(* Between requests nothing is on the GPU without a reason, whichever      *)
(* uses a request got to before it failed (finish_request).                *)
THEOREM RequestsLeaveNothingBehind == Spec => []NothingLeftBehind
<1>1. ResidencyInv => NothingLeftBehind
  BY DEF ResidencyInv, Justified, NothingLeftBehind
<1>2. QED  BY <1>1, ResidencyHolds, PTL

-------------------------------------------------------------------------------
(* The weights.                                                            *)

JobType ==
  [phase : {"idle", "load", "rollback"}, path : Checkpoints, targets : Seq(Modules),
   next : Seq(Modules), open : BOOLEAN, left : SUBSET Params]

(* Every parameter has weights that its checkpoint holds.                  *)
Provenance(w) ==
  \A m \in Modules, p \in Params : <<w[m][p], m>> \in Dirs /\ p \in Holds(w[m][p], m)

StoreInv ==
  /\ deployment \in Deployments
  /\ weights \in [Modules -> [Params -> Checkpoints]]
  /\ before \in [Modules -> [Params -> Checkpoints]]
  /\ modelPath \in Checkpoints
  /\ files \in [Checkpoints \X Modules -> {"good", "damaged", "none"}]
  /\ \A d \in Checkpoints \X Modules : files[d] # "none" => d \in Dirs
  /\ Provenance(weights) /\ Provenance(before)

(* The modules that are loaded already are a prefix of the targets.        *)
Done == Len(job.targets) - Len(job.next)

JobInv ==
  /\ job \in JobType
  /\ Updating => /\ answer = "none"
                 /\ job.targets \in deployment.targets /\ job.targets # <<>>
                 /\ \A k \in DOMAIN job.targets : <<job.path, job.targets[k]>> \in Dirs
  /\ job.open => /\ Updating /\ job.next # <<>>
                 /\ <<Source, Head(job.next)>> \in Dirs
                 /\ job.left \subseteq Holds(Source, Head(job.next))
  /\ ~job.open => job.left = {}
  /\ job.phase = "load" =>
       /\ Done \in Nat
       /\ \A k \in DOMAIN job.next : job.next[k] = job.targets[Done + k]

Loaded(m, p) ==
  /\ p \in Holds(job.path, m)
  /\ \/ \E k \in 1 .. Done : job.targets[k] = m
     \/ job.open /\ m = Head(job.next) /\ p \notin job.left

(* While modules are loaded, what differs from before is what was loaded.  *)
LoadInv ==
  job.phase = "load" =>
    \A m \in Modules, p \in Params :
      weights[m][p] = IF Loaded(m, p) THEN job.path ELSE before[m][p]

(* While they are rolled back, what differs from before is still to come.  *)
RollbackInv ==
  job.phase = "rollback" /\ before = From(modelPath) =>
    \A m \in Modules, p \in Params :
      weights[m][p] # modelPath =>
        /\ \E k \in DOMAIN job.next : job.next[k] = m
        /\ job.open /\ m = Head(job.next) => p \in job.left

WeightsInv ==
  /\ StoreInv /\ JobInv /\ LoadInv /\ RollbackInv
  /\ UpdatedMeansLoaded /\ RolledBackMeansRestored

(* A list of some elements is a list of any larger set.                    *)
LEMMA SeqMonotonic ==
  ASSUME NEW S, NEW T, S \subseteq T, NEW s \in Seq(S)
  PROVE  s \in Seq(T)
OBVIOUS

(* The server starts with the weights of one checkpoint.                   *)
LEMMA InitWeights ==
  ASSUME Init
  PROVE  WeightsInv
<1>1. /\ deployment \in Deployments
      /\ weights = From(Base) /\ before = From(Base) /\ modelPath = Base
      /\ files = [d \in Checkpoints \X Modules |-> IF d \in Dirs THEN "good" ELSE "none"]
      /\ job = NoJob /\ answer = "none"
  BY Zenon DEF Init, SchedulerInit, WeightsInit
<1>2. \A m \in Modules, p \in Params : <<Base, m, p>> \notin Absent /\ <<Base, m>> \in Dirs
  BY WeightsAssumption
<1>3. StoreInv
  BY <1>1, <1>2, WeightsAssumption DEF StoreInv, Provenance, Holds, From
<1>4. JobInv
  BY <1>1, WeightsAssumption DEF JobInv, JobType, NoJob, Updating
<1>5. QED
  BY <1>1, <1>3, <1>4 DEF WeightsInv, LoadInv, RollbackInv, UpdatedMeansLoaded,
                          RolledBackMeansRestored, NoJob

(* What a step means for the invariant that touches at most the files.     *)
LEMMA LoadedUnchanged ==
  ASSUME WeightsInv, deployment' = deployment, StoreInv',
         UNCHANGED <<weights, modelPath, job, answer, before>>
  PROVE  WeightsInv'
<1>1. JobInv'
  BY Zenon DEF WeightsInv, JobInv, Updating, Source, Done
<1>2. LoadInv'
  BY Zenon DEF WeightsInv, LoadInv, Loaded, Done
<1>3. RollbackInv'
  BY Zenon DEF WeightsInv, RollbackInv
<1>4. UpdatedMeansLoaded' /\ RolledBackMeansRestored'
  BY Zenon DEF WeightsInv, UpdatedMeansLoaded, RolledBackMeansRestored
<1>5. QED  BY Zenon, <1>1, <1>2, <1>3, <1>4 DEF WeightsInv

(* Damage to a file changes nothing that is loaded.                        *)
LEMMA DamageKeeps ==
  ASSUME WeightsInv, deployment' = deployment,
         NEW c \in Checkpoints, NEW m \in Modules, Damage(c, m)
  PROVE  WeightsInv'
<1>1. /\ files[<<c, m>>] = "good" /\ files' = [files EXCEPT ![<<c, m>>] = "damaged"]
      /\ UNCHANGED <<weights, modelPath, job, answer, before>>
  BY DEF Damage
<1>2. StoreInv'
  BY <1>1 DEF WeightsInv, StoreInv, Provenance
<1>3. QED  BY Zenon, <1>1, <1>2, LoadedUnchanged

(* A request to update: refused, or accepted with nothing loaded yet.      *)
LEMMA RequestUpdateKeeps ==
  ASSUME WeightsInv, deployment' = deployment,
         NEW c \in Checkpoints, NEW t \in deployment.targets, UpdateWeightsFromDisk(c, t)
  PROVE  WeightsInv'
<1>1. before' = weights /\ UNCHANGED <<weights, modelPath, files>>
  BY DEF UpdateWeightsFromDisk
<1>2. StoreInv'
  BY <1>1 DEF WeightsInv, StoreInv, Provenance
<1>3. CASE Acceptable(c, t)
  <2>1. /\ job' = [NoJob EXCEPT !.phase = "load", !.path = c, !.targets = t, !.next = t]
        /\ answer' = "none"
    BY <1>3 DEF UpdateWeightsFromDisk
  <2>2. /\ job'.phase = "load" /\ job'.path = c /\ job'.targets = t /\ job'.next = t
        /\ job'.open = FALSE /\ job'.left = {}
        /\ job' = [phase |-> "load", path |-> c, targets |-> t, next |-> t,
                   open |-> FALSE, left |-> {}]
    BY <2>1 DEF NoJob
  <2>3. t # <<>> /\ \A m \in Range(t) : m \in Modules /\ files[<<c, m>>] # "none"
    BY <1>3 DEF Acceptable
  <2>4. t \in Seq(Range(t))
    BY WeightsAssumption DEF WeightsInv, StoreInv
  <2>5. t \in Seq(Modules)
    <3>1. Range(t) \subseteq Modules
      BY <2>3
    <3>2. QED  BY Zenon, <2>4, <3>1, SeqMonotonic
  <2>6. \A k \in DOMAIN t : <<c, t[k]>> \in Dirs
    BY <2>3 DEF WeightsInv, StoreInv, Range
  <2>7. JobInv'
    <3>1. job' \in JobType
      BY <2>2, <2>5 DEF JobType
    <3>2. Done' = 0
      BY <2>2, <2>5 DEF Done
    <3>3. QED  BY <2>1, <2>2, <2>3, <2>5, <2>6, <3>1, <3>2 DEF JobInv, Updating
  <2>8. LoadInv'
    BY <1>1, <2>2, <2>5 DEF LoadInv, Loaded, Done
  <2>9. QED
    BY <1>2, <2>1, <2>2, <2>7, <2>8 DEF WeightsInv, RollbackInv, UpdatedMeansLoaded,
                                        RolledBackMeansRestored
<1>4. CASE ~Acceptable(c, t)
  <2>1. job' = NoJob /\ answer' = "refused"
    BY <1>4 DEF UpdateWeightsFromDisk
  <2>2. JobInv'
    BY <2>1, WeightsAssumption DEF JobInv, JobType, NoJob, Updating
  <2>3. QED
    BY <1>2, <2>1, <2>2 DEF WeightsInv, LoadInv, RollbackInv, UpdatedMeansLoaded,
                            RolledBackMeansRestored, NoJob
<1>5. QED  BY <1>3, <1>4

(* An exception while loading: whatever was loaded is in the list to roll  *)
(* back, the module that failed included.  One while rolling back ends the *)
(* update.                                                                 *)
LEMMA FailKeeps ==
  ASSUME WeightsInv, deployment' = deployment, StoreInv',
         Updating, job.next # <<>>, Fail, UNCHANGED <<weights, modelPath, before>>
  PROVE  WeightsInv'
<1>1. CASE job.phase = "load"
  <2>1. job' = RollbackList /\ answer' = answer
    BY <1>1 DEF Fail
  <2>2. job \in JobType /\ Done \in Nat /\ answer = "none"
    BY <1>1 DEF WeightsInv, JobInv
  <2>3. /\ job.targets \in Seq(Modules) /\ job.next \in Seq(Modules)
        /\ job.path \in Checkpoints
    BY <2>2 DEF JobType
  <2>4. /\ job' = [phase |-> "rollback", path |-> job.path, targets |-> job.targets,
                   next |-> SubSeq(job.targets, 1, Done + 1), open |-> FALSE, left |-> {}]
    BY <2>1, <2>2 DEF RollbackList, JobType, Done
  <2>5. /\ job'.phase = "rollback" /\ job'.path = job.path /\ job'.targets = job.targets
        /\ job'.next = SubSeq(job.targets, 1, Done + 1) /\ ~job'.open /\ job'.left = {}
    BY <2>4
  <2>6. Done + 1 \in DOMAIN job.targets /\ Head(job.next) = job.targets[Done + 1]
    <3>1. Head(job.next) = job.next[1] /\ 1 \in DOMAIN job.next
      BY <2>3
    <3>2. job.next[1] = job.targets[Done + 1]
      BY <1>1, <3>1 DEF WeightsInv, JobInv
    <3>3. /\ Len(job.next) \in Nat \ {0} /\ Len(job.targets) \in Nat
          /\ DOMAIN job.targets = 1 .. Len(job.targets)
      BY <2>3
    <3>4. \A a \in Nat, b \in Nat \ {0} : a - b \in Nat => a - b + 1 \in 1 .. a
      OBVIOUS
    <3>5. Done + 1 \in 1 .. Len(job.targets)
      BY Zenon, <2>2, <3>3, <3>4 DEF Done
    <3>6. QED  BY <3>1, <3>2, <3>3, <3>5
  <2>7. /\ job'.next \in Seq(Modules) /\ DOMAIN job'.next = 1 .. Done + 1
        /\ \A k \in 1 .. Done + 1 : job'.next[k] = job.targets[k]
    BY <2>2, <2>3, <2>5, <2>6
  <2>8. JobInv'
    <3>1. job' \in JobType
      BY <2>3, <2>4, <2>5, <2>7 DEF JobType
    <3>2. QED  BY <2>1, <2>5, <3>1 DEF WeightsInv, JobInv, Updating
  <2>9. RollbackInv'
    <3>1. ASSUME before = From(modelPath), NEW m \in Modules, NEW p \in Params,
                 weights[m][p] # modelPath
          PROVE  \E k \in 1 .. Done + 1 : job.targets[k] = m
      <4>1. before[m][p] = modelPath
        BY <3>1 DEF From
      <4>2. Loaded(m, p)
        BY <1>1, <3>1, <4>1 DEF WeightsInv, LoadInv
      <4>3. QED  BY <2>2, <2>6, <4>2 DEF Loaded
    <3>2. QED  BY Zenon, <2>5, <2>7, <3>1 DEF RollbackInv
  <2>10. UpdatedMeansLoaded' /\ RolledBackMeansRestored' /\ LoadInv'
    BY <2>1, <2>2, <2>5 DEF UpdatedMeansLoaded, RolledBackMeansRestored, LoadInv
  <2>11. QED  BY Zenon, <2>8, <2>9, <2>10 DEF WeightsInv
<1>2. CASE job.phase # "load"
  <2>1. job' = NoJob /\ answer' = "raised"
    BY <1>2 DEF Fail
  <2>2. JobInv'
    BY <2>1, WeightsAssumption DEF JobInv, JobType, NoJob, Updating
  <2>3. QED
    BY <2>1, <2>2 DEF WeightsInv, LoadInv, RollbackInv, UpdatedMeansLoaded,
                      RolledBackMeansRestored, NoJob
<1>3. QED  BY <1>1, <1>2

(* A file is opened: nothing of its module is loaded yet.                  *)
LEMMA OpenKeeps ==
  ASSUME WeightsInv, deployment' = deployment, Open
  PROVE  WeightsInv'
<1> PICK m : m = Head(job.next)
  OBVIOUS
<1>1. /\ Updating /\ job.next # <<>> /\ ~job.open /\ ~Skipped(m)
      /\ UNCHANGED <<weights, modelPath, before>>
  BY DEF Open
<1>2. /\ job \in JobType /\ answer = "none" /\ job.left = {}
      /\ StoreInv
  BY <1>1 DEF WeightsInv, JobInv
<1>3. job.next \in Seq(Modules) /\ m \in Modules /\ Source \in Checkpoints
  BY <1>1, <1>2 DEF JobType, Source, StoreInv
<1>4. CASE files[<<Source, m>>] = "good"
  <2>1. /\ job' = [job EXCEPT !.open = TRUE, !.left = Holds(Source, m)]
        /\ files' = files /\ answer' = answer
    BY <1>4 DEF Open
  <2>2. job' = [phase |-> job.phase, path |-> job.path, targets |-> job.targets,
                next |-> job.next, open |-> TRUE, left |-> Holds(Source, m)]
    BY <1>2, <2>1 DEF JobType
  <2>3. /\ job'.phase = job.phase /\ job'.path = job.path /\ job'.targets = job.targets
        /\ job'.next = job.next /\ job'.open /\ job'.left = Holds(Source, m)
    BY <2>2
  <2>4. Source' = Source /\ Done' = Done /\ Updating'
    BY Zenon, <1>1, <2>3 DEF Source, Done, Updating
  <2>5. <<Source, m>> \in Dirs
    BY <1>2, <1>3, <1>4 DEF StoreInv
  <2>6. JobInv'
    <3>1. job' \in JobType
      BY <1>2, <2>2 DEF JobType, Holds
    <3>2. QED
      BY Zenon, <1>1, <1>2, <2>1, <2>3, <2>4, <2>5, <3>1 DEF WeightsInv, JobInv
  <2>7. \A p \in Params : Holds(job.path, m) = Holds(Source, m) \/ job.phase # "load"
    BY DEF Source
  <2>8. LoadInv'
    <3>1. ASSUME job.phase = "load", NEW n \in Modules, NEW p \in Params
          PROVE  Loaded(n, p)' <=> Loaded(n, p)
      BY Zenon, <1>1, <2>3, <2>4, <2>7, <3>1 DEF Loaded
    <3>2. QED  BY Zenon, <1>1, <2>3, <3>1 DEF WeightsInv, LoadInv
  <2>9. RollbackInv'
    <3>1. ASSUME job.phase = "rollback", before = From(modelPath), NEW p \in Params
          PROVE  p \in Holds(Source, m)
      BY <1>2, <1>3, <3>1 DEF StoreInv, Provenance, From, Source
    <3>2. QED  BY Zenon, <1>1, <2>3, <3>1 DEF WeightsInv, RollbackInv
  <2>10. StoreInv'
    BY Zenon, <1>1, <1>2, <2>1 DEF StoreInv
  <2>11. UpdatedMeansLoaded' /\ RolledBackMeansRestored'
    BY <1>2, <2>1 DEF UpdatedMeansLoaded, RolledBackMeansRestored
  <2>12. QED  BY Zenon, <2>6, <2>8, <2>9, <2>10, <2>11 DEF WeightsInv
<1>5. CASE files[<<Source, m>>] # "good"
  <2>1. files' = [files EXCEPT ![<<Source, m>>] = "none"] /\ Fail
    BY <1>5 DEF Open
  <2>2. StoreInv'
    BY <1>1, <1>2, <2>1 DEF StoreInv, Provenance
  <2>3. QED  BY Zenon, <1>1, <2>1, <2>2, FailKeeps
<1>6. QED  BY <1>4, <1>5

(* One parameter is loaded.                                                *)
LEMMA LoadParamKeeps ==
  ASSUME WeightsInv, deployment' = deployment, NEW p \in Params, LoadParam(p)
  PROVE  WeightsInv'
<1> PICK m, c : m = Head(job.next) /\ c = Source
  OBVIOUS
<1>1. /\ Updating /\ p \in job.left
      /\ UNCHANGED <<modelPath, files, before>>
  BY DEF LoadParam
<1>2. /\ job \in JobType /\ answer = "none" /\ StoreInv
      /\ job.open /\ job.next # <<>> /\ <<c, m>> \in Dirs
      /\ job.left \subseteq Holds(c, m)
  BY <1>1 DEF WeightsInv, JobInv
<1>3. job.next \in Seq(Modules) /\ m \in Modules /\ c \in Checkpoints
  BY <1>2 DEF JobType, Source, StoreInv
<1>4. CASE <<c, m, p>> \in Misfits
  <2>1. Fail /\ weights' = weights
    BY <1>4 DEF LoadParam
  <2>2. StoreInv'
    BY Zenon, <1>1, <1>2, <2>1 DEF StoreInv
  <2>3. QED  BY Zenon, <1>1, <1>2, <2>1, <2>2, FailKeeps
<1>5. CASE <<c, m, p>> \notin Misfits
  <2>1. /\ weights' = [weights EXCEPT ![m][p] = c]
        /\ job' = [job EXCEPT !.left = @ \ {p}] /\ answer' = answer
    BY <1>5 DEF LoadParam
  <2>2. job' = [phase |-> job.phase, path |-> job.path, targets |-> job.targets,
                next |-> job.next, open |-> job.open, left |-> job.left \ {p}]
    BY <1>2, <2>1 DEF JobType
  <2>3. /\ job'.phase = job.phase /\ job'.path = job.path /\ job'.targets = job.targets
        /\ job'.next = job.next /\ job'.open = job.open /\ job'.left = job.left \ {p}
    BY <2>2
  <2>4. Source' = Source /\ Done' = Done /\ Updating'
    BY Zenon, <1>1, <2>3 DEF Source, Done, Updating
  <2>5. /\ weights' \in [Modules -> [Params -> Checkpoints]]
        /\ \A n \in Modules, x \in Params :
             weights'[n][x] = IF n = m /\ x = p THEN c ELSE weights[n][x]
    BY <1>2, <1>3, <2>1 DEF StoreInv
  <2>6. StoreInv'
    <3>1. Provenance(weights)'
      BY Zenon, <1>1, <1>2, <2>5 DEF StoreInv, Provenance
    <3>2. QED  BY Zenon, <1>1, <1>2, <2>5, <3>1 DEF StoreInv
  <2>7. JobInv'
    <3>1. job' \in JobType
      BY <1>2, <2>2 DEF JobType
    <3>2. job'.left \subseteq Holds(c, m)
      BY Zenon, <1>2, <2>3
    <3>3. QED
      BY Zenon, <1>1, <1>2, <2>1, <2>3, <2>4, <3>1, <3>2 DEF WeightsInv, JobInv
  <2>8. LoadInv'
    <3>1. SUFFICES ASSUME job.phase = "load", NEW n \in Modules, NEW x \in Params
                   PROVE  weights'[n][x] = IF Loaded(n, x)' THEN job.path ELSE before[n][x]
      BY Zenon, <1>1, <2>3 DEF LoadInv
    <3>2. c = job.path
      BY <3>1 DEF Source
    <3>3. CASE n = m /\ x = p
      <4>1. Loaded(n, x)'
        BY Zenon, <1>1, <1>2, <2>3, <3>2, <3>3 DEF Loaded
      <4>2. QED  BY Zenon, <2>5, <3>2, <3>3, <4>1
    <3>4. CASE ~(n = m /\ x = p)
      <4>1. Loaded(n, x)' <=> Loaded(n, x)
        BY Zenon, <2>3, <2>4, <3>4 DEF Loaded
      <4>2. QED  BY Zenon, <2>5, <3>1, <3>4, <4>1 DEF WeightsInv, LoadInv
    <3>5. QED  BY <3>3, <3>4
  <2>9. RollbackInv'
    <3>1. job.phase = "rollback" => c = modelPath
      BY DEF Source
    <3>2. modelPath' = modelPath /\ before' = before /\ From(modelPath)' = From(modelPath)
      BY <1>1 DEF From
    <3>3. ASSUME job.phase = "rollback", before = From(modelPath),
                 NEW n \in Modules, NEW x \in Params, weights'[n][x] # modelPath
          PROVE  /\ \E k \in DOMAIN job.next : job.next[k] = n
                 /\ job.open /\ n = Head(job.next) => x \in job.left \ {p}
      <4>1. ~(n = m /\ x = p) /\ weights[n][x] # modelPath
        <5>1. weights'[n][x] = IF n = m /\ x = p THEN c ELSE weights[n][x]
          BY <2>5
        <5>2. QED  BY <3>1, <3>3, <5>1
      <4>2. QED  BY Zenon, <3>3, <4>1 DEF WeightsInv, RollbackInv
    <3>4. SUFFICES ASSUME job'.phase = "rollback", before' = From(modelPath)',
                          NEW n \in Modules, NEW x \in Params, weights'[n][x] # modelPath'
                   PROVE  /\ \E k \in DOMAIN job'.next : job'.next[k] = n
                          /\ job'.open /\ n = Head(job'.next) => x \in job'.left
      BY Zenon DEF RollbackInv
    <3>5. /\ \E k \in DOMAIN job.next : job.next[k] = n
          /\ job.open /\ n = Head(job.next) => x \in job.left \ {p}
      BY <2>3, <3>2, <3>3, <3>4
    <3>6. QED  BY <2>3, <3>5
  <2>10. UpdatedMeansLoaded' /\ RolledBackMeansRestored'
    BY <1>2, <2>1 DEF UpdatedMeansLoaded, RolledBackMeansRestored
  <2>11. QED  BY Zenon, <2>6, <2>7, <2>8, <2>9, <2>10 DEF WeightsInv
<1>6. QED  BY <1>4, <1>5

(* The next module of the list.                                            *)
LEMMA TailOfList ==
  ASSUME NEW S, NEW s \in Seq(S), s # <<>>
  PROVE  /\ Tail(s) \in Seq(S) /\ Len(Tail(s)) = Len(s) - 1
         /\ Head(s) = s[1] /\ 1 \in DOMAIN s
         /\ \A k \in DOMAIN Tail(s) : k + 1 \in DOMAIN s /\ Tail(s)[k] = s[k + 1]
         /\ \A k \in DOMAIN s : k = 1 \/ (k - 1 \in DOMAIN Tail(s) /\ Tail(s)[k - 1] = s[k])
OBVIOUS

(* The updater goes on to the next module, or ends its loop.               *)
LEMMA NextModuleKeeps ==
  ASSUME WeightsInv, deployment' = deployment, Skip \/ NextModule
  PROVE  WeightsInv'
<1> PICK m : m = Head(job.next)
  OBVIOUS
<1>1. /\ Updating /\ job.next # <<>> /\ job.left = {}
      /\ UNCHANGED <<weights, modelPath, files, answer, before>>
      /\ ~job.open => Skipped(m)
  BY DEF Skip, NextModule, WeightsInv, JobInv
<1>2. job \in JobType /\ answer = "none" /\ StoreInv
  BY <1>1 DEF WeightsInv, JobInv
<1>3. /\ job.next \in Seq(Modules) /\ job.targets \in Seq(Modules) /\ m \in Modules
      /\ Len(job.next) \in Nat /\ Len(job.targets) \in Nat
  BY <1>1, <1>2 DEF JobType
<1>4. job' = [phase |-> job.phase, path |-> job.path, targets |-> job.targets,
              next |-> Tail(job.next), open |-> FALSE, left |-> {}]
  BY <1>1, <1>2 DEF JobType, Skip, NextModule
<1>5. /\ job'.phase = job.phase /\ job'.path = job.path /\ job'.targets = job.targets
      /\ job'.next = Tail(job.next) /\ ~job'.open /\ job'.left = {}
  BY <1>4
<1>6. /\ job'.next \in Seq(Modules) /\ Len(job'.next) = Len(job.next) - 1
      /\ m = job.next[1] /\ 1 \in DOMAIN job.next
      /\ \A k \in DOMAIN job'.next : k + 1 \in DOMAIN job.next /\ job'.next[k] = job.next[k + 1]
      /\ \A k \in DOMAIN job.next :
           k = 1 \/ (k - 1 \in DOMAIN job'.next /\ job'.next[k - 1] = job.next[k])
  <2>1. /\ Tail(job.next) \in Seq(Modules) /\ Len(Tail(job.next)) = Len(job.next) - 1
        /\ Head(job.next) = job.next[1] /\ 1 \in DOMAIN job.next
        /\ \A k \in DOMAIN Tail(job.next) :
             k + 1 \in DOMAIN job.next /\ Tail(job.next)[k] = job.next[k + 1]
        /\ \A k \in DOMAIN job.next :
             k = 1 \/ (k - 1 \in DOMAIN Tail(job.next) /\ Tail(job.next)[k - 1] = job.next[k])
    BY Zenon, <1>1, <1>3, TailOfList
  <2>2. QED  BY Zenon, <1>5, <2>1
<1>7. Updating' /\ Done' = Done + 1
  <2>1. \A a, b \in Nat : a - (b - 1) = a - b + 1
    OBVIOUS
  <2>2. QED  BY Zenon, <1>1, <1>3, <1>5, <1>6, <2>1 DEF Updating, Done
<1>8. JobInv'
  <2>1. job' \in JobType
    BY <1>2, <1>4, <1>6 DEF JobType
  <2>2. ASSUME job.phase = "load"
        PROVE  /\ Done + 1 \in Nat
               /\ \A k \in DOMAIN job'.next : job'.next[k] = job.targets[Done + 1 + k]
    <3>1. Done \in Nat /\ \A k \in DOMAIN job.next : job.next[k] = job.targets[Done + k]
      BY <2>2 DEF WeightsInv, JobInv
    <3>2. ASSUME NEW k \in DOMAIN job'.next
          PROVE  job'.next[k] = job.targets[Done + 1 + k]
      <4>1. k \in Nat
        BY <1>6
      <4>2. Done + (k + 1) = Done + 1 + k
        BY <3>1, <4>1
      <4>3. QED  BY Zenon, <1>6, <3>1, <4>2
    <3>3. QED  BY <3>1, <3>2
  <2>3. QED
    BY Zenon, <1>1, <1>2, <1>5, <1>7, <2>1, <2>2 DEF WeightsInv, JobInv
<1>9. LoadInv'
  <2>1. SUFFICES ASSUME job.phase = "load", NEW n \in Modules, NEW p \in Params
                 PROVE  Loaded(n, p)' <=> Loaded(n, p)
    BY Zenon, <1>1, <1>5 DEF WeightsInv, LoadInv
  <2>2. job.open
    BY Zenon, <1>1, <2>1 DEF Skipped
  <2>3. Done \in Nat /\ m = job.targets[Done + 1]
    BY <1>6, <2>1 DEF WeightsInv, JobInv
  <2>4. 1 .. Done + 1 = (1 .. Done) \cup {Done + 1}
    BY <2>3
  <2>5. QED  BY Zenon, <1>1, <1>5, <1>7, <2>2, <2>3, <2>4 DEF Loaded
<1>10. RollbackInv'
  <2>1. SUFFICES ASSUME job.phase = "rollback", before = From(modelPath),
                        NEW n \in Modules, NEW p \in Params, weights[n][p] # modelPath
                 PROVE  \E k \in DOMAIN job'.next : job'.next[k] = n
    BY Zenon, <1>1, <1>5 DEF RollbackInv
  <2>2. /\ \E k \in DOMAIN job.next : job.next[k] = n
        /\ job.open /\ n = m => p \in job.left
    BY Zenon, <2>1 DEF WeightsInv, RollbackInv
  <2>3. ~Skipped(n)
    BY <1>2, <2>1 DEF Skipped, StoreInv, Provenance, From
  <2>4. n # m
    BY Zenon, <1>1, <2>2, <2>3
  <2>5. QED  BY Zenon, <1>6, <2>2, <2>4
<1>11. StoreInv' /\ UpdatedMeansLoaded' /\ RolledBackMeansRestored'
  BY <1>1, <1>2 DEF StoreInv, Provenance, UpdatedMeansLoaded, RolledBackMeansRestored
<1>12. QED  BY Zenon, <1>8, <1>9, <1>10, <1>11 DEF WeightsInv

(* The update returns: all its modules are loaded, or all are rolled back. *)
LEMMA ReturnKeeps ==
  ASSUME WeightsInv, deployment' = deployment, Return
  PROVE  WeightsInv'
<1>1. /\ Updating /\ job.next = <<>> /\ UNCHANGED <<weights, files, before>>
      /\ answer' = (IF job.phase = "load" THEN "updated" ELSE "rolled back")
      /\ modelPath' = PathAfter
      /\ job' = [NoJob EXCEPT !.path = job.path, !.targets = job.targets]
  BY DEF Return
<1>2. job \in JobType /\ StoreInv
  BY DEF WeightsInv, JobInv
<1>3. job' = [phase |-> "idle", path |-> job.path, targets |-> job.targets,
              next |-> <<>>, open |-> FALSE, left |-> {}]
  BY <1>1 DEF NoJob
<1>4. /\ job'.phase = "idle" /\ job'.path = job.path /\ job'.targets = job.targets
      /\ ~job'.open /\ job'.left = {}
  BY <1>3
<1>5. job.targets \in Seq(Modules) /\ job.path \in Checkpoints /\ Len(job.next) = 0
  BY <1>1, <1>2 DEF JobType
<1>6. JobInv'
  <2>1. job' \in JobType
    BY <1>3, <1>5 DEF JobType
  <2>2. QED  BY <1>4, <2>1 DEF JobInv, Updating
<1>7. StoreInv'
  <2>1. modelPath' \in Checkpoints
    BY <1>1, <1>2, <1>5 DEF PathAfter, StoreInv
  <2>2. QED  BY Zenon, <1>1, <1>2, <2>1 DEF StoreInv, Provenance
<1>8. LoadInv' /\ RollbackInv'
  BY <1>4 DEF LoadInv, RollbackInv
<1>9. CASE job.phase = "load"
  <2>1. Done = Len(job.targets)
    BY <1>5 DEF Done
  <2>2. DOMAIN job.targets = 1 .. Len(job.targets)
    BY <1>5
  <2>3. ~job.open
    BY Zenon, <1>1 DEF WeightsInv, JobInv
  <2>4. \A m \in Modules, p \in Params :
          Loaded(m, p) <=> m \in Range(job.targets) /\ p \in Holds(job.path, m)
    BY Zenon, <2>1, <2>2, <2>3 DEF Loaded, Range
  <2>5. \A m \in Modules, p \in Params :
          weights[m][p] = IF m \in Range(job.targets) /\ p \in Holds(job.path, m)
                            THEN job.path ELSE before[m][p]
    BY Zenon, <1>9, <2>4 DEF WeightsInv, LoadInv
  <2>6. weights = [m \in Modules |-> [p \in Params |-> weights[m][p]]]
    BY <1>2 DEF StoreInv
  <2>7. UpdatedMeansLoaded'
    BY <1>1, <1>4, <2>5, <2>6 DEF UpdatedMeansLoaded
  <2>8. RolledBackMeansRestored'
    BY <1>1, <1>9 DEF RolledBackMeansRestored
  <2>9. QED  BY Zenon, <1>6, <1>7, <1>8, <2>7, <2>8 DEF WeightsInv
<1>10. CASE job.phase # "load"
  <2>1. answer' = "rolled back" /\ modelPath' = modelPath /\ job.phase = "rollback"
    BY <1>1, <1>2, <1>10 DEF PathAfter, JobType, Updating
  <2>2. ASSUME before = From(modelPath)
        PROVE  weights = before
    <3>1. \A k \in DOMAIN job.next : FALSE
      <4>1. \A k \in DOMAIN <<>> : FALSE
        OBVIOUS
      <4>2. QED  BY Zenon, <1>1, <4>1
    <3>2. \A m \in Modules, p \in Params : weights[m][p] = modelPath
      BY Zenon, <2>1, <2>2, <3>1 DEF WeightsInv, RollbackInv
    <3>3. QED  BY <1>2, <2>2, <3>2 DEF StoreInv, From
  <2>3. RolledBackMeansRestored' /\ UpdatedMeansLoaded'
    BY <1>1, <2>1, <2>2 DEF RolledBackMeansRestored, UpdatedMeansLoaded, From
  <2>4. QED  BY Zenon, <1>6, <1>7, <1>8, <2>3 DEF WeightsInv
<1>11. QED  BY <1>9, <1>10

(* Every step of the server keeps the invariant of the weights.            *)
LEMMA NextWeights ==
  ASSUME WeightsInv, [Next]_vars
  PROVE  WeightsInv'
<1>1. deployment' = deployment
  BY Zenon, ServerStep DEF vars, schedulerVars
<1>2. CASE UNCHANGED weightsVars
  <2>1. UNCHANGED <<weights, modelPath, job, answer, before>> /\ files' = files
    BY Zenon, <1>2 DEF weightsVars
  <2>2. StoreInv'
    BY Zenon, <1>1, <2>1 DEF WeightsInv, StoreInv, Provenance
  <2>3. QED  BY Zenon, <1>1, <2>1, <2>2, LoadedUnchanged
<1>3. CASE \E c \in Checkpoints, targets \in deployment.targets :
             UpdateWeightsFromDisk(c, targets)
  BY Zenon, <1>1, <1>3, RequestUpdateKeeps
<1>4. CASE UpdateStep
  BY Zenon, <1>1, <1>4, NextModuleKeeps, OpenKeeps, ReturnKeeps, LoadParamKeeps DEF UpdateStep
<1>5. CASE \E c \in Checkpoints, m \in Modules : Damage(c, m)
  BY Zenon, <1>1, <1>5, DamageKeeps
<1>6. QED
  BY Zenon, <1>2, <1>3, <1>4, <1>5, ServerStep DEF vars

(* The invariant of the weights holds in every reachable state.            *)
THEOREM WeightsHold == Spec => []WeightsInv
<1>1. Init => WeightsInv
  BY InitWeights
<1>2. WeightsInv /\ [Next]_vars => WeightsInv'
  BY NextWeights
<1>3. QED  BY <1>1, <1>2, PTL DEF Spec

(* An update that answers success loaded exactly what its checkpoint holds *)
(* of the target modules, for any number of modules, parameters and        *)
(* checkpoints, target lists with repetitions included, whatever earlier   *)
(* updates did and whichever files are damaged (update_weights_from_disk). *)
THEOREM SuccessMeansLoaded == Spec => []UpdatedMeansLoaded
<1>1. WeightsInv => UpdatedMeansLoaded
  BY DEF WeightsInv
<1>2. QED  BY <1>1, WeightsHold, PTL

(* An update that answers "rolled back" restored every parameter, in       *)
(* whichever module it failed, if the pipeline had the weights of          *)
(* pipeline.model_path before (_rollback).                                 *)
THEOREM RollbackMeansRestored == Spec => []RolledBackMeansRestored
<1>1. WeightsInv => RolledBackMeansRestored
  BY DEF WeightsInv
<1>2. QED  BY <1>1, WeightsHold, PTL

-------------------------------------------------------------------------------
(* One checkpoint.                                                         *)

(* A checkpoint with a directory for every module holds every parameter.   *)
WholeFiles ==
  \A c \in Checkpoints :
    (\A m \in Modules : <<c, m>> \in Dirs) => \A m \in Modules : Holds(c, m) = Params

OneInv ==
  WholeUpdates /\ ~torn =>
    /\ Updating  => before  = From(modelPath)
    /\ ~Updating => weights = From(modelPath)

(* An update of all modules leaves the weights of one checkpoint.          *)
LEMMA ReturnServesOne ==
  ASSUME WholeFiles, WeightsInv, WeightsInv', OneInv, deployment' = deployment, Return
  PROVE  OneInv'
<1>1. /\ Updating /\ UNCHANGED <<weights, before>>
      /\ answer' = (IF job.phase = "load" THEN "updated" ELSE "rolled back")
      /\ torn' = (torn /\ job.phase # "load")
      /\ modelPath' = PathAfter
      /\ job' = [NoJob EXCEPT !.path = job.path, !.targets = job.targets]
  BY Zenon DEF Return
<1>2. ~Updating' /\ job'.path = job.path /\ job'.targets = job.targets
  BY <1>1 DEF NoJob, Updating
<1>3. SUFFICES ASSUME WholeUpdates, ~torn'
               PROVE  weights = From(modelPath')
  <2>1. WholeUpdates' <=> WholeUpdates
    BY Zenon DEF WholeUpdates
  <2>2. QED  BY Zenon, <1>1, <1>2, <2>1 DEF OneInv, From
<1>4. CASE job.phase = "load"
  <2>1. /\ job.targets \in deployment.targets /\ job.targets # <<>>
        /\ \A k \in DOMAIN job.targets : <<job.path, job.targets[k]>> \in Dirs
        /\ job \in JobType
    BY Zenon, <1>1 DEF WeightsInv, JobInv
  <2>2. job.targets \in Seq(Modules) /\ job.path \in Checkpoints
    BY <2>1 DEF JobType
  <2>3. Range(job.targets) \subseteq Modules /\ Range(job.targets) # {}
    <3>1. 1 \in DOMAIN job.targets
      BY <2>1, <2>2
    <3>2. \A k \in DOMAIN job.targets : job.targets[k] \in Modules
      BY <2>2
    <3>3. QED  BY Zenon, <3>1, <3>2 DEF Range
  <2>4. Range(job.targets) = Modules
    BY Zenon, <1>3, <2>1, <2>3 DEF WholeUpdates
  <2>5. \A m \in Modules : <<job.path, m>> \in Dirs
    BY Zenon, <2>1, <2>4 DEF Range
  <2>6. \A m \in Modules : Holds(job.path, m) = Params
    BY Zenon, <2>2, <2>5 DEF WholeFiles
  <2>7. UpdatedMeansLoaded' /\ answer' = "updated" /\ modelPath' = job.path
    BY Zenon, <1>1, <1>4 DEF WeightsInv, PathAfter
  <2>8. weights = [m \in Modules |-> [p \in Params |->
          IF m \in Range(job.targets) /\ p \in Holds(job.path, m)
            THEN job.path ELSE before[m][p]]]
    BY <1>1, <1>2, <2>7 DEF UpdatedMeansLoaded
  <2>9. QED  BY <2>4, <2>6, <2>7, <2>8 DEF From
<1>5. CASE job.phase # "load"
  <2>1. ~torn /\ modelPath' = modelPath /\ answer' = "rolled back"
    BY Zenon, <1>1, <1>3, <1>5 DEF PathAfter
  <2>2. before = From(modelPath)
    BY Zenon, <1>1, <1>3, <2>1 DEF OneInv
  <2>3. RolledBackMeansRestored'
    BY Zenon DEF WeightsInv
  <2>4. QED  BY Zenon, <1>1, <2>1, <2>2, <2>3 DEF RolledBackMeansRestored, From
<1>6. QED  BY <1>4, <1>5

(* No other step ends an update, except one that raises.                   *)
LEMMA LoadServesOne ==
  ASSUME OneInv, deployment' = deployment, job \in JobType,
         Skip \/ Open \/ NextModule \/ \E p \in Params : LoadParam(p)
  PROVE  OneInv'
<1>1. Updating /\ UNCHANGED <<modelPath, before>>
  BY Zenon DEF Skip, Open, NextModule, LoadParam
<1>2. torn' = TRUE \/ (torn' = torn /\ Updating')
  <2>1. ASSUME Fail
        PROVE  torn' = TRUE \/ (torn' = torn /\ Updating')
    BY <2>1 DEF Fail, RollbackList, Updating, JobType
  <2>2. CASE Skip \/ NextModule
    BY <1>1, <2>2 DEF Skip, NextModule, Updating, JobType
  <2>3. CASE Open
    BY <1>1, <2>1, <2>3 DEF Open, Updating, JobType
  <2>4. CASE \E p \in Params : LoadParam(p)
    BY <1>1, <2>1, <2>4 DEF LoadParam, Updating, JobType
  <2>5. QED  BY Zenon, <2>2, <2>3, <2>4
<1>3. WholeUpdates' <=> WholeUpdates
  BY Zenon DEF WholeUpdates
<1>4. QED  BY Zenon, <1>1, <1>2, <1>3 DEF OneInv, From

(* With whole files every step keeps OneInv.                               *)
LEMMA NextServesOne ==
  ASSUME WholeFiles, WeightsInv, WeightsInv', OneInv, [Next]_vars
  PROVE  OneInv'
<1>1. deployment' = deployment
  BY Zenon, ServerStep DEF vars, schedulerVars
<1>2. WholeUpdates' <=> WholeUpdates
  BY Zenon, <1>1 DEF WholeUpdates
<1>3. CASE \/ UNCHANGED weightsVars
           \/ \E c \in Checkpoints, m \in Modules : Damage(c, m)
  <2>1. UNCHANGED <<weights, modelPath, job, before, torn>>
    BY Zenon, <1>3 DEF weightsVars, Damage
  <2>2. QED  BY Zenon, <1>2, <2>1 DEF OneInv, Updating, From
<1>4. CASE \E c \in Checkpoints, targets \in deployment.targets :
             UpdateWeightsFromDisk(c, targets)
  <2>1. ~Updating /\ before' = weights /\ UNCHANGED <<weights, modelPath, torn>>
    BY Zenon, <1>4 DEF UpdateWeightsFromDisk
  <2>2. QED  BY Zenon, <1>2, <2>1 DEF OneInv, From
<1>5. CASE UpdateStep
  <2>1. job \in JobType
    BY Zenon DEF WeightsInv, JobInv
  <2>2. QED  BY Zenon, <1>1, <1>5, <2>1, ReturnServesOne, LoadServesOne DEF UpdateStep
<1>6. QED  BY Zenon, <1>3, <1>4, <1>5, ServerStep DEF vars

(* While every request that can succeed names all modules and whole        *)
(* checkpoints are complete, a server whose rollbacks do not raise serves  *)
(* the weights of one checkpoint between any two requests, the one it      *)
(* would roll back to (pipeline.model_path).                               *)
THEOREM OneCheckpointServed == WholeFiles => (Spec => []ServesOneCheckpoint)
<1> SUFFICES ASSUME WholeFiles PROVE Spec => []ServesOneCheckpoint
  OBVIOUS
<1>1. Init => OneInv
  BY DEF Init, WeightsInit, OneInv, Updating, NoJob
<1>2. WeightsInv /\ WeightsInv' /\ OneInv /\ [Next]_vars => OneInv'
  BY NextServesOne
<1>3. OneInv => ServesOneCheckpoint
  BY DEF OneInv, ServesOneCheckpoint
<1>4. QED  BY <1>1, <1>2, <1>3, WeightsHold, PTL DEF Spec
===============================================================================
