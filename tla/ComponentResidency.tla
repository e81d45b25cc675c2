-------------------------- MODULE ComponentResidency --------------------------
(***************************************************************************)
(* Which components of a pipeline are on the GPU (component_manager.py and *)
(* component_resident_strategies.py).  A request declares an ordered       *)
(* timeline of component uses; around each use the manager brings the      *)
(* component to the GPU, decides whether to keep it afterwards, and starts *)
(* bringing in the next heavy one.                                         *)
(*                                                                         *)
(* A component is on the "cpu", on the "gpu", or "coming": its copy was    *)
(* started on a side stream and the compute stream has not been told to    *)
(* wait for it.  A forward pass on a "coming" component may read memory    *)
(* that is not filled yet.                                                 *)
(***************************************************************************)
EXTENDS Deployment, Sequences, SequencesExt, FiniteSetsExt

CONSTANTS
  Components,
  Timeline      \* the ComponentUses of a request, in order

UseFields == {"stage", "component", "phase", "heavy", "preferred", "keepWarm",
              "beginOnly"}

ASSUME ResidencyAssumption ==
  /\ \A k \in DOMAIN Timeline :
       DOMAIN Timeline[k] = UseFields /\ Timeline[k].component \in Components
  /\ \A d \in Deployments :
       /\ d.strategies \subseteq [Components -> {"resident", "vanilla", "layerwise"}]
       /\ d.twoSided \in BOOLEAN /\ d.warmupSteps \in Nat \ {0}

VARIABLES
  strategy,    \* strategy_for
  place,       \* per component "cpu", "coming" or "gpu"
  pipeline,    \* "idle" between requests, "running" or "finishing" within one
  warmup,      \* state.batch_is_warmup
  index,       \* _current_use_index, counting from 1; 0: before the first use
  future,      \* state.future_uses
  active,      \* _active_use
  prefetched,  \* _prefetched_use_keys
  seen,        \* _uses_seen: the last use of each component, in insertion order
  todo,        \* the uses the loop of finish_request has still to visit
  keptWarm     \* history: kept by a warm-up request and untouched since

residencyVars == <<strategy, place, pipeline, warmup, index, future, active,
                   prefetched, seen, todo, keptWarm>>

NoUse == [stage |-> "", component |-> "", phase |-> "", heavy |-> FALSE,
          preferred |-> FALSE, keepWarm |-> FALSE, beginOnly |-> FALSE]

SameUse(u, v) == u.component = v.component /\ u.phase = v.phase
UseKey(u)     == <<u.stage, u.component, u.phase>>
Uses          == Range(Timeline)

(* _uses_seen[u.component] = u: a key that is there keeps its position     *)
Put(sn, u) ==
  IF \E k \in DOMAIN sn : sn[k].component = u.component
    THEN [k \in DOMAIN sn |-> IF sn[k].component = u.component THEN u ELSE sn[k]]
    ELSE Append(sn, u)

ResidencyInit ==
  /\ strategy \in deployment.strategies
  /\ place = [c \in Components |-> IF strategy[c] = "resident" THEN "gpu" ELSE "cpu"]
  /\ pipeline = "idle" /\ warmup = FALSE
  /\ index = 0 /\ future = <<>> /\ active = NoUse
  /\ prefetched = {} /\ seen = <<>> /\ todo = <<>> /\ keptWarm = {}

ResidencyTypeOK ==
  /\ place \in [Components -> {"cpu", "coming", "gpu"}]
  /\ pipeline \in {"idle", "running", "finishing"} /\ warmup \in BOOLEAN
  /\ index \in 0 .. Len(Timeline) /\ IsSuffix(future, Timeline)
  /\ active \in Uses \cup {NoUse}
  /\ prefetched \subseteq {UseKey(u) : u \in Uses}
  /\ Range(seen) \subseteq Uses /\ IsSuffix(todo, seen)
  /\ \A j, k \in DOMAIN seen : seen[j].component = seen[k].component => j = k
  /\ keptWarm \subseteq Components

-------------------------------------------------------------------------------

(* The strategies: where each operation leaves a component that is at p.   *)
(* Waiting turns "coming" into "gpu"; only the vanilla strategy copies on  *)
(* a side stream, the hooks of the layerwise one wait layer by layer.      *)
PrepareOnly(c, p) == IF p = "cpu" THEN "gpu" ELSE p

PrepareAndWait(c, p) == "gpu"

PrefetchForUse(c, p) ==
  IF strategy[c] = "vanilla" THEN IF p = "cpu" THEN "coming" ELSE p ELSE "gpu"

FinishUse(c, p) == IF strategy[c] = "resident" THEN p ELSE "cpu"

(* finish_request of the strategies, and prepare_after_request             *)
AfterRequest(c, p, preferred) ==
  CASE preferred /\ warmup  -> PrepareAndWait(c, p)
    [] preferred /\ ~warmup -> PrefetchForUse(c, p)
    [] OTHER                -> FinishUse(c, p)

(* _should_keep_single_dit                                                 *)
SingleDit(c) ==
  \/ c = "transformer" /\ "transformer_2" \notin Components
  \/ c = "video_dit" /\ "video_dit_2" \notin Components

(* _should_keep_after_use                                                  *)
KeptAfterUse(u) ==
  \/ \E k \in DOMAIN future : future[k].component = u.component
  \/ SingleDit(u.component)

(* _finish_use of the active use                                           *)
Finished(u, pl) ==
  IF u = NoUse \/ (u.keepWarm /\ warmup) \/ KeptAfterUse(u)
    THEN pl ELSE [pl EXCEPT ![u.component] = FinishUse(u.component, @)]

(* _locate_use_index: the next matching use after the current one, or the  *)
(* first of all                                                            *)
Locate(u) ==
  LET after == {k \in index + 1 .. Len(Timeline) : SameUse(Timeline[k], u)}
      all   == {k \in DOMAIN Timeline : SameUse(Timeline[k], u)}
  IN  IF after # {} THEN Min(after) ELSE Min(all)

PrefetchAnyway(a, u) == TRUE

(* A vanilla component is not prefetched while another one is in use       *)
MayPrefetch(a, u) == ~(strategy[u.component] = "vanilla" /\ a # NoUse)

NotSeen(sn, u) == sn

SeenByPrefetch(sn, u) == Put(sn, u)

(* _prefetch_next_memory_intensive_use, after the use at position k with a *)
(* as the active use                                                       *)
PrefetchNext(k, a, pl, sn) ==
  LET heavy == {j \in k + 1 .. Len(Timeline) : Timeline[j].heavy}
      u     == Timeline[Min(heavy)]
  IN  IF heavy # {} /\ UseKey(u) \notin prefetched /\ MayPrefetch(a, u)
        THEN /\ place' = [pl EXCEPT ![u.component] = PrefetchForUse(u.component, @)]
             /\ prefetched' = prefetched \cup {UseKey(u)}
             /\ seen' = SeenByPrefetch(sn, u)
        ELSE /\ place' = pl /\ seen' = sn
             /\ UNCHANGED prefetched

-------------------------------------------------------------------------------

BeginRequest(w) ==
  /\ pipeline = "idle"
  /\ pipeline' = "running" /\ warmup' = w
  /\ index' = 0 /\ future' = <<>> /\ active' = NoUse
  /\ prefetched' = {} /\ seen' = <<>>
  /\ UNCHANGED <<strategy, place, todo, keptWarm>>

(* The timesteps of the request lie on both sides of the boundary between  *)
(* the denoisers.  A warm-up has warmup_steps steps, one by default.       *)
BothSides == deployment.twoSided /\ (warmup => deployment.warmupSteps > 1)

HeavyIn(positions) == \E j \in positions : Timeline[j].heavy

(* The stages use what they declare in order.  What is not heavy may be    *)
(* left out; of the denoisers a one-sided request uses exactly one.        *)
InOrder(k) ==
  /\ k > index
  /\ Timeline[k].heavy /\ ~BothSides => ~HeavyIn(1 .. index)
  /\ HeavyIn(index + 1 .. k - 1) => ~BothSides /\ HeavyIn(1 .. index \cup {k})

(* begin_use; a later call for the use that is active returns at once      *)
BeginUse(k) ==
  LET u == Timeline[k]
      i == Locate(u)
  IN  /\ pipeline = "running" /\ InOrder(k)
      /\ ~(active # NoUse /\ SameUse(active, u))
      /\ index' = i /\ future' = SubSeq(Timeline, i + 1, Len(Timeline))
      /\ active' = u
      /\ PrefetchNext(i, u,
           [Finished(active, place) EXCEPT ![u.component] = PrepareAndWait(u.component, @)],
           Put(seen, u))
      /\ UNCHANGED <<strategy, pipeline, warmup, todo, keptWarm>>

(* end_use, at the end of use_component, and finish_active_use, at the end *)
(* of the denoising loop                                                   *)
EndUse ==
  /\ pipeline = "running" /\ active # NoUse /\ ~active.beginOnly
  /\ active.heavy /\ BothSides => \A k \in DOMAIN future : ~future[k].heavy
  /\ active' = NoUse
  /\ PrefetchNext(index, NoUse, Finished(active, place), seen)
  /\ UNCHANGED <<strategy, pipeline, warmup, index, future, todo, keptWarm>>

(* _preferred_request_end_uses: the declared ones, or else the component   *)
(* of the first use                                                        *)
Preferred ==
  LET declared == {u.component : u \in {v \in Uses : v.preferred}}
  IN  IF declared # {} THEN declared ELSE {Timeline[1].component}

(* finish_request: first the active use; it runs in a finally block, so    *)
(* after an exception anywhere in a request as well                        *)
FinishRequest ==
  /\ pipeline = "running"
  /\ pipeline' = "finishing" /\ active' = NoUse
  /\ place' = Finished(active, place)
  /\ todo' = seen
  /\ UNCHANGED <<strategy, warmup, index, future, prefetched, seen, keptWarm>>

KeptAfterRequest(u) ==
  \/ warmup /\ u.keepWarm
  \/ u.component \notin Preferred /\ SingleDit(u.component)

(* one round of its loop over _uses_seen                                   *)
FinishSeen ==
  LET u == Head(todo)
      c == u.component
  IN  /\ pipeline = "finishing" /\ todo # <<>>
      /\ todo' = Tail(todo)
      /\ place' = IF KeptAfterRequest(u) THEN place
                  ELSE [place EXCEPT ![c] = AfterRequest(c, @, c \in Preferred)]
      /\ keptWarm' = IF warmup /\ u.keepWarm THEN keptWarm \cup {c} ELSE keptWarm \ {c}
      /\ UNCHANGED <<strategy, pipeline, warmup, index, future, active, prefetched, seen>>

RequestEnd ==
  /\ pipeline = "finishing" /\ todo = <<>>
  /\ pipeline' = "idle"
  /\ UNCHANGED <<strategy, place, warmup, index, future, active, prefetched, seen, todo,
                 keptWarm>>

(* A step of the pipeline between the start and the end of a request       *)
PipelineStep ==
  (\E k \in DOMAIN Timeline : BeginUse(k)) \/ EndUse \/ FinishRequest \/ FinishSeen

-------------------------------------------------------------------------------

(* A component in use is on the GPU and the compute stream waits for its   *)
(* copy, whether it was kept, prefetched, released or never touched by     *)
(* earlier uses and requests.                                              *)
ActiveIsReady == active # NoUse => place[active.component] = "gpu"

(* Two heavy components that are offloaded as a whole are never on the GPU *)
(* together, the overlap _prefetch_use leaves prefetching out for: neither *)
(* between requests, whatever ran before, nor at any point of a request    *)
(* with timesteps on both sides of the boundary.  A one-sided request, as  *)
(* a warm-up of one step is, has both there while it ends: the denoiser it *)
(* prefetched and never used is released only by finish_request, after     *)
(* the preferred one was brought back.                                     *)
HeavyAlone ==
  pipeline = "idle" \/ BothSides => \A u, v \in {x \in Uses : x.heavy /\ strategy[x.component] = "vanilla"} :
    place[u.component] # "cpu" /\ place[v.component] # "cpu" => u.component = v.component

(* Between requests, completed or failed, what is on the GPU is there on   *)
(* purpose: preferred for the next request, the only DiT, resident by its  *)
(* strategy, or kept since a warm-up.  A component that was only           *)
(* prefetched before its request failed is released too.                   *)
NothingLeftBehind ==
  pipeline = "idle" =>
    \A c \in Components :
      \/ place[c] = "cpu" \/ strategy[c] = "resident"
      \/ c \in Preferred \/ SingleDit(c) \/ c \in keptWarm
===============================================================================
