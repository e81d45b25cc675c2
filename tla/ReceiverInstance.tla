--------------------------- MODULE ReceiverInstance ---------------------------
(***************************************************************************)
(* A denoiser instance on several GPUs: the threads and streams of rank 0  *)
(* (ReceiverThreads) together with the loops of all ranks (RankLoops).     *)
(* What the main thread of rank 0 does with an item of its queue is also a *)
(* broadcast to the other ranks, and its forward pass ends with theirs: a  *)
(* step of the main thread is a step of both modules.                      *)
(***************************************************************************)
EXTENDS ReceiverInvariant, RankLoops

VARIABLE exceptions   \* number of requests that raised

vars == <<threadVars, rankVars, exceptions>>

Init == ThreadsInit /\ RankInit /\ exceptions = 0

-------------------------------------------------------------------------------

(* The server, the recv thread and the streams of rank 0                   *)
Alone(A) == A /\ UNCHANGED <<rankVars, exceptions>>

(* Until the server turns to a request it is like any other, and one order *)
(* of turning to them stands for all.                                      *)
NextRequest == CHOOSE r \in Requests : status[r] = "new"

Environment ==
  \/ \E r \in {q \in Requests : status[q] = "new"} :
       r = NextRequest /\ (Alone(OfferPrealloc(r)) \/ Alone(AskForSlot(r)))
  \/ \E r \in Requests : Alone(PushArrives(r))

(* A READY that is dropped: its request is never answered.                 *)
DropReady == PrefetchRaises /\ exceptions' = exceptions + 1 /\ UNCHANGED rankVars

PushOutput == \E r \in Requests : Alone(RecvPush(r)) \/ Alone(RdmaPush(r))

-------------------------------------------------------------------------------
(* The main thread of rank 0                                               *)

QueueTimeout ==
  /\ step = "idle" /\ queue = <<>>
  /\ QueueEmpty
  /\ UNCHANGED <<threadVars, exceptions>>

TransferControl == HandleAlloc /\ Control /\ UNCHANGED exceptions

TransferCompute(r) ==
  \E fate \in Fates :
    /\ TakeRequest(fate)
    /\ IF fate.where = "setup"
       THEN SetupRaises(r) /\ exceptions' = exceptions + 1
       ELSE StartCompute(r) /\ UNCHANGED exceptions

(* The pass fails on rank 0, or it is over; rank 0 goes on with its result.*)
EndOfPass ==
  \/ FailPass0 /\ ReportError /\ UNCHANGED exceptions
  \/ /\ Forward
     /\ IF req0.fate.where = "stage"
        THEN Raise /\ exceptions' = exceptions + 1
        ELSE (StartStaging \/ ReportError) /\ UNCHANGED exceptions

-------------------------------------------------------------------------------

RankStep(A) == A /\ UNCHANGED <<threadVars, exceptions>>

OtherRank(k) == RankStep(Receive(k)) \/ RankStep(Wait(k)) \/ RankStep(FailPass(k))

TakeItem == TransferControl \/ \E r \in Requests : TransferCompute(r)

(* What the threads and streams of rank 0 do with what has arrived         *)
Work ==
  \/ Alone(Recv) \/ DropReady \/ Alone(Put) \/ Alone(Copy) \/ Alone(Compute)
  \/ TakeItem \/ RankStep(Wait0) \/ EndOfPass \/ Alone(FinishStaging)

Next ==
  \/ Environment \/ PushOutput \/ QueueTimeout \/ Work
  \/ \E k \in Others : OtherRank(k)

Spec == Init /\ [][Next]_vars

(* The threads are loops around blocking calls, streams execute what was   *)
(* queued on them, ranks receive what was broadcast and go on until they   *)
(* wait for each other, and a collective that all ranks have come to ends. *)
(* Of rank 0 it is enough that something that can happen does.             *)
FairSpec == Spec /\ WF_vars(Work) /\ \A k \in Others : WF_vars(OtherRank(k))
-------------------------------------------------------------------------------

(* Both modules speak of the same main thread of rank 0.                   *)
TypeOK ==
  /\ ThreadsTypeOK /\ RankTypeOK
  /\ exceptions \in 0 .. Cardinality(Requests)
  /\ InPass0 = (step = "forward") /\ (pc0 = "ended") = (step = "ended")
  /\ step # "staging" => errors0 = errors

(* An exception costs the request it was raised for and no other: while    *)
(* all loops run and no rank has failed alone, every other request whose   *)
(* data arrived is answered, though the recv thread blocks on a full       *)
(* queue, the main thread on the streams and on the other ranks, and these *)
(* on broadcasts of the main thread.                                       *)
AnsweredUnlessRaised ==
  []<>(\/ Cardinality({r \in Requests : status[r] = "sent"}) <= exceptions
       \/ SomeRankEnded \/ apart)
===============================================================================
