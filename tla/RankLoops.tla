------------------------------- MODULE RankLoops ------------------------------
(***************************************************************************)
(* The ranks of one denoiser or decoder instance (scheduler_mixin.py):     *)
(* rank 0 runs _disagg_prefetch_event_loop and tells the other ranks by    *)
(* broadcast what it does; they run _disagg_non_rank0_event_loop.  In a    *)
(* forward pass the ranks meet in collectives: a rank that has come to one *)
(* waits there for all others.                                             *)
(*                                                                         *)
(* A request is computed ("fine"), the scheduler cannot be set up for it   *)
(* ("setup"), the pass fails ("pass"), or rank 0 cannot stage its output   *)
(* ("stage").  Code and inputs are the same on all ranks, so as a rule all *)
(* of them fail or none; but in a pass a rank may run out of memory alone, *)
(* and a MAIN_RANK_ONLY stage is run, and can fail, on rank 0 alone.       *)
(***************************************************************************)
EXTENDS LoopErrors, Sequences

CONSTANTS
  Others,      \* ranks 1, 2, ...
  FailAlone,   \* ranks a pass may fail on when it does not on the others
  MaxWork,     \* bound on the requests
  MaxAhead     \* bound on broadcasts a rank has not received yet

Ranks == {0} \cup Others

ASSUME RankAssumption ==
  0 \notin Others /\ FailAlone \subseteq Ranks /\ MaxWork \in Nat /\ MaxAhead \in Nat \ {0}

(* What happens to a request, and on which ranks                           *)
Fates ==
  [where : {"pass"}, on : {Ranks} \cup {{k} : k \in FailAlone}]
    \cup [where : {"setup"}, on : {Ranks}]
    \cup [where : {"fine"}, on : {{}}] \cup [where : {"stage"}, on : {{0}}]

Skip           == [type |-> "skip"]
ComputeMsg(r)  == [type |-> "compute", req |-> r]
NoRankReq      == [n |-> 0, fate |-> [where |-> "fine", on |-> {}]]

VARIABLES
  taken,       \* number of requests rank 0 has taken from its queue
  broadcasts,  \* per other rank what it has not received yet
  pc0,         \* rank 0: "loop", "forward", "waiting" in a collective, or "ended"
  errors0,     \* _consecutive_error_count of rank 0
  req0,        \* the request of rank 0
  pc,          \* per other rank the same as pc0
  rankErrors,  \* per other rank _consecutive_error_count
  req,         \* per other rank its request
  apart        \* history: a rank has failed alone in a pass

rankVars == <<taken, broadcasts, pc0, errors0, req0, pc, rankErrors, req, apart>>

RankInit ==
  /\ taken = 0 /\ broadcasts = [k \in Others |-> <<>>]
  /\ pc0 = "loop" /\ errors0 = 0 /\ req0 = NoRankReq
  /\ pc = [k \in Others |-> "loop"]
  /\ rankErrors = [k \in Others |-> 0]
  /\ req = [k \in Others |-> NoRankReq]
  /\ apart = FALSE

Broadcast(m) ==
  /\ \A k \in Others : Len(broadcasts[k]) < MaxAhead
  /\ broadcasts' = [k \in Others |-> Append(broadcasts[k], m)]

RaiseAndGoOn ==
  /\ errors0 <= MaxErrors
  /\ errors0' = errors0 + 1
  /\ pc0' = "loop"

(* The except branch of rank 0                                             *)
Raise0 ==
  /\ errors0' = errors0 + 1
  /\ pc0' = IF EndsLoop(errors0') THEN "ended" ELSE "loop"

-------------------------------------------------------------------------------
(* Rank 0                                                                  *)

(* The queue stays empty for a second.                                     *)
QueueEmpty ==
  /\ pc0 = "loop" /\ Broadcast(Skip)
  /\ UNCHANGED <<taken, pc0, errors0, req0, pc, rankErrors, req, apart>>

(* A transfer_control message, handled by rank 0 alone                     *)
Control ==
  /\ pc0 = "loop" /\ Broadcast(Skip)
  /\ errors0' = 0
  /\ UNCHANGED <<taken, pc0, req0, pc, rankErrors, req, apart>>

(* A transfer_compute item: both broadcasts, then the scheduler's setup    *)
TakeRequest(fate) ==
  LET r == [n |-> taken + 1, fate |-> fate] IN
  /\ pc0 = "loop" /\ taken < MaxWork
  /\ taken' = taken + 1
  /\ Broadcast(ComputeMsg(r))
  /\ IF fate.where = "setup"
     THEN Raise0 /\ req0' = NoRankReq
     ELSE pc0' = "forward" /\ req0' = r /\ UNCHANGED errors0
  /\ UNCHANGED <<pc, rankErrors, req, apart>>

-------------------------------------------------------------------------------
(* The other ranks                                                         *)

EntersForwardAnyway(r) == TRUE

EntersWhenFine(r) == r.fate.where = "fine"

(* _init_disagg_request_scheduler comes before execute_forward.            *)
EntersForward(r) == r.fate.where # "setup"

(* Unlike rank 0 the loop has no line that sets the counter back.          *)
ErrorsAfter(k, ok) == IF ok THEN rankErrors[k] ELSE rankErrors[k] + 1

Receive(k) ==
  LET m == Head(broadcasts[k]) IN
  /\ pc[k] = "loop" /\ broadcasts[k] # <<>>
  /\ broadcasts' = [broadcasts EXCEPT ![k] = Tail(@)]
  /\ \/ /\ m.type = "skip"
        /\ UNCHANGED <<pc, rankErrors, req>>
     \/ /\ m.type = "compute" /\ EntersForward(m.req)
        /\ pc' = [pc EXCEPT ![k] = "forward"]
        /\ req' = [req EXCEPT ![k] = m.req]
        /\ UNCHANGED rankErrors
     \/ /\ m.type = "compute" /\ ~EntersForward(m.req)
        /\ rankErrors' = [rankErrors EXCEPT ![k] = ErrorsAfter(k, FALSE)]
        /\ pc' = [pc EXCEPT ![k] = IF EndsLoop(rankErrors'[k]) THEN "ended" ELSE "loop"]
        /\ UNCHANGED req
  /\ UNCHANGED <<taken, pc0, errors0, req0, apart>>

-------------------------------------------------------------------------------
(* The forward pass                                                        *)

FailsInPass(r, k) == r.fate.where = "pass" /\ k \in r.fate.on

(* A rank comes to a collective and waits there, whichever request the     *)
(* others are computing.                                                   *)
Wait0 ==
  /\ pc0 = "forward" /\ ~FailsInPass(req0, 0)
  /\ pc0' = "waiting"
  /\ UNCHANGED <<taken, broadcasts, errors0, req0, pc, rankErrors, req, apart>>

Wait(k) ==
  /\ pc[k] = "forward" /\ ~FailsInPass(req[k], k)
  /\ pc' = [pc EXCEPT ![k] = "waiting"]
  /\ UNCHANGED <<taken, broadcasts, pc0, errors0, req0, rankErrors, req, apart>>

(* A rank fails in its pass.  Its worker catches the exception, returns an *)
(* error, and the rank goes on to what comes next (_execute_forward_common *)
(* of gpu_worker.py); nobody tells the others.                             *)
FailPass0 ==
  /\ pc0 = "forward" /\ FailsInPass(req0, 0)
  /\ pc0' = "loop" /\ errors0' = 0 /\ req0' = NoRankReq
  /\ apart' = (apart \/ req0.fate.on # Ranks)
  /\ UNCHANGED <<taken, broadcasts, pc, rankErrors, req>>

FailPass(k) ==
  /\ pc[k] = "forward" /\ FailsInPass(req[k], k)
  /\ pc' = [pc EXCEPT ![k] = "loop"]
  /\ req' = [req EXCEPT ![k] = NoRankReq]
  /\ rankErrors' = [rankErrors EXCEPT ![k] = ErrorsAfter(k, TRUE)]
  /\ apart' = (apart \/ req[k].fate.on # Ranks)
  /\ UNCHANGED <<taken, broadcasts, pc0, errors0, req0>>

MainIsThere == pc0 = "waiting"

AllAreThere == pc0 = "waiting" /\ \A k \in Others : pc[k] = "waiting"

(* All ranks have come to the collective, which ends the pass; rank 0 then *)
(* stages and reports.                                                     *)
Forward ==
  /\ AllAreThere
  /\ pc' = [k \in Others |-> "loop"]
  /\ req' = [k \in Others |-> NoRankReq]
  /\ rankErrors' = [k \in Others |-> ErrorsAfter(k, TRUE)]
  /\ IF req0.fate.where = "stage" THEN Raise0 ELSE pc0' = "loop" /\ errors0' = 0
  /\ req0' = NoRankReq
  /\ UNCHANGED <<taken, broadcasts, apart>>

RankNext ==
  \/ QueueEmpty \/ Control \/ Wait0 \/ FailPass0 \/ Forward
  \/ \E fate \in Fates : TakeRequest(fate)
  \/ \E k \in Others : Receive(k) \/ Wait(k) \/ FailPass(k)

RankSpec == RankInit /\ [][RankNext]_rankVars

-------------------------------------------------------------------------------

RankTypeOK ==
  /\ taken \in 0 .. MaxWork
  /\ \A k \in Others :
       /\ Len(broadcasts[k]) <= MaxAhead
       /\ rankErrors[k] \in 0 .. MaxErrors
       /\ (pc[k] = "ended") = (rankErrors[k] = MaxErrors)
  /\ errors0 \in 0 .. MaxErrors /\ (pc0 = "ended") = (errors0 = MaxErrors)

InPass0   == pc0 \in {"forward", "waiting"}
InPass(k) == pc[k] \in {"forward", "waiting"}

(* Until a rank fails alone, a rank that waits in a collective waits there *)
(* for the request that rank 0 is computing, also after requests that all  *)
(* ranks failed on, each at its own time: the collectives match.           *)
RanksInStep ==
  ~apart => \A k \in Others : pc[k] = "waiting" => InPass0 /\ req[k] = req0

SomeRankEnded == pc0 = "ended" \/ \E k \in Others : pc[k] = "ended"

(* Every rank leaves the forward pass it has entered, unless a rank has    *)
(* ended its loop or has failed alone.                                     *)
ForwardCompletes ==
  /\ []<>(~InPass0 \/ SomeRankEnded \/ apart)
  /\ \A k \in Others : []<>(~InPass(k) \/ SomeRankEnded \/ apart)

(* While all loops run, the ranks other than 0 do not hang in a pass.      *)
(* _disagg_prefetch_event_loop has rank 0 broadcast also what concerns it  *)
(* alone, "so non-rank-0 doesn't hang"; nothing does so when rank 0 alone  *)
(* fails in a pass.  A collective that not all ranks come to has no end    *)
(* here; in the code dist_timeout, an hour, ends it.                       *)
OthersDoNotHang ==
  \A k \in Others : []<>(~InPass(k) \/ SomeRankEnded)
-------------------------------------------------------------------------------
(* What keeps the ranks in step                                            *)

Request == [n : Nat, fate : Fates]

RankMessage == {Skip} \cup [type : {"compute"}, req : Request]

(* Rank k computes r to the end, and so waits in its collectives.          *)
Joins(r, k) == EntersForward(r) /\ ~FailsInPass(r, k)

MakesJoin(m, k) == m.type = "compute" /\ Joins(m.req, k)

RankTypes ==
  /\ taken \in Nat
  /\ broadcasts \in [Others -> Seq(RankMessage)]
  /\ pc0 \in {"loop", "forward", "waiting", "ended"}
  /\ pc \in [Others -> {"loop", "forward", "waiting", "ended"}]
  /\ req0 \in Request /\ req \in [Others -> Request]
  /\ apart \in BOOLEAN

(* A broadcast that will make rank k wait is the last one sent to it, is   *)
(* about the request rank 0 is computing, and k is not waiting already.    *)
JoiningIsLast(k) ==
  \A j \in 1 .. Len(broadcasts[k]) :
    MakesJoin(broadcasts[k][j], k) =>
      /\ j = Len(broadcasts[k])
      /\ InPass0 /\ broadcasts[k][j].req = req0
      /\ ~(InPass(k) /\ Joins(req[k], k))

(* A rank that is on its way to a collective is there for the request of   *)
(* rank 0.                                                                 *)
JoinedInStep(k) == InPass(k) /\ Joins(req[k], k) => InPass0 /\ req[k] = req0

(* The inductive invariant behind RanksInStep                              *)
StepInv ==
  /\ RankTypes
  /\ \A k \in Others : InPass(k) =>
       EntersForward(req[k]) /\ (pc[k] = "waiting" => Joins(req[k], k))
  /\ ~apart => \A k \in Others : JoiningIsLast(k) /\ JoinedInStep(k)
===============================================================================
