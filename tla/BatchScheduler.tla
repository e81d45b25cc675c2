---------------------------- MODULE BatchScheduler ----------------------------
(***************************************************************************)
(* managers/scheduler.py: the event loop of a server without               *)
(* disaggregation.  Rank 0 polls the clients' socket and broadcasts what   *)
(* it read; every rank keeps its own copy of the waiting queue, chooses    *)
(* the next batch from it and joins the forward pass; rank 0 answers.      *)
(*                                                                         *)
(* An entry of the queue is a client's item or the warm-up copy of one.    *)
(* An item is a generation request, a group of them, an update of the      *)
(* weights, another request (set a LoRA...) or a shutdown.  What the       *)
(* worker does for it is composed with the scheduler in Server.            *)
(***************************************************************************)
EXTENDS BatchAdmission, Deployment, Integers

CONSTANTS
  Items,       \* what clients may send, each once
  Type,        \* per item: "req", "group", "update", "other" or "shutdown"
  Sig,         \* per item: the signature of a request
  Batchable,   \* requests with a plain prompt and no input image
  Outputs,     \* num_outputs_per_prompt, per signature
  MaxErrors,   \* _max_consecutive_errors
  MaxAhead     \* bound on broadcasts another rank has not received yet

ASSUME SchedulerAssumption ==
  /\ \A d \in Deployments : d.items \subseteq Items
  /\ Batchable \subseteq {i \in Items : Type[i] = "req"}
  /\ MaxErrors \in Nat \ {0} /\ MaxAhead \in Nat \ {0}

AllRanks == UNION {0 .. d.gpus - 1 : d \in Deployments}

Ranks  == 0 .. deployment.gpus - 1
Others == Ranks \ {0}

Entries == [item : Items, warmup : BOOLEAN]

VARIABLES
  sent,       \* items the clients have sent, in order
  inbox,      \* messages on the socket of rank 0
  broadcasts, \* per rank the lists rank 0 has broadcast to it
  pc,         \* per rank "recv", "select", "run" or "ended"
  queue,      \* per rank its waiting_queue
  late,       \* per rank: the head of the queue has waited batching_delay_ms
  batch,      \* per rank the entries it dispatches
  warmedUp,   \* per rank warmed_up
  errors,     \* _consecutive_error_count of rank 0
  lost,       \* items that were read from the socket or answered in vain
  replies     \* per item the answers sent to its client

schedulerVars == <<deployment, sent, inbox, broadcasts, pc, queue, late, batch,
                   warmedUp, errors, lost, replies>>

SchedulerInit ==
  /\ deployment \in Deployments
  /\ sent = <<>> /\ inbox = <<>>
  /\ broadcasts = [k \in Ranks |-> <<>>]
  /\ pc = [k \in Ranks |-> "recv"]
  /\ queue = [k \in Ranks |-> <<>>]
  /\ late = [k \in Ranks |-> FALSE]
  /\ batch = [k \in Ranks |-> <<>>]
  /\ warmedUp = [k \in Ranks |-> ~deployment.warmup]
  /\ errors = 0
  /\ lost = {}
  /\ replies = [i \in Items |-> <<>>]

Send(i) ==
  /\ i \in deployment.items \ Range(sent)
  /\ sent' = Append(sent, i)
  /\ inbox' = Append(inbox, i)
  /\ UNCHANGED <<deployment, broadcasts, pc, queue, late, batch, warmedUp, errors, lost, replies>>

-------------------------------------------------------------------------------
(* Receiving                                                               *)

WarmupTarget(items) == items # <<>> /\ Type[items[1]] \in {"req", "group"}

WarmsOnReceiver(k, items) == k = 0 /\ ~warmedUp[k] /\ WarmupTarget(items)

(* process_received_reqs_with_req_based_warmup                             *)
Warms(k, items) == ~warmedUp[k] /\ WarmupTarget(items)

NewEntries(k, items) ==
  LET plain == [n \in DOMAIN items |-> [item |-> items[n], warmup |-> FALSE]]
  IN  IF Warms(k, items) THEN <<[item |-> items[1], warmup |-> TRUE]>> \o plain
                         ELSE plain

Enqueue(k, items) ==
  /\ queue' = [queue EXCEPT ![k] = queue[k] \o NewEntries(k, items)]
  /\ warmedUp' = [warmedUp EXCEPT ![k] = warmedUp[k] \/ Warms(k, items)]
  /\ pc' = [pc EXCEPT ![k] = "select"]

(* recv_reqs on rank 0 drains the socket and broadcasts.                   *)
Recv ==
  /\ pc[0] = "recv"
  /\ \A k \in Others : Len(broadcasts[k]) < MaxAhead
  /\ Enqueue(0, inbox)
  /\ inbox' = <<>>
  /\ broadcasts' = [k \in Ranks |-> IF k = 0 THEN <<>> ELSE Append(broadcasts[k], inbox)]
  /\ errors' = 0
  /\ UNCHANGED <<deployment, sent, late, batch, lost, replies>>

(* An error while draining: what this poll had read is gone, and nothing   *)
(* is broadcast.                                                           *)
RecvFails(n) ==
  /\ deployment.sockets /\ pc[0] = "recv" /\ n \in 0 .. Len(inbox)
  /\ inbox' = SubSeq(inbox, n + 1, Len(inbox))
  /\ lost' = lost \cup {inbox[m] : m \in 1 .. n}
  /\ errors' = errors + 1
  /\ pc' = [pc EXCEPT ![0] = IF errors' >= MaxErrors THEN "ended" ELSE "recv"]
  /\ UNCHANGED <<deployment, sent, broadcasts, queue, late, batch, warmedUp, replies>>

(* recv_reqs on another rank                                               *)
RecvBroadcast(k) ==
  /\ pc[k] = "recv" /\ broadcasts[k] # <<>>
  /\ Enqueue(k, Head(broadcasts[k]))
  /\ broadcasts' = [broadcasts EXCEPT ![k] = Tail(@)]
  /\ UNCHANGED <<deployment, sent, inbox, late, batch, errors, lost, replies>>

-------------------------------------------------------------------------------
(* Choosing a batch                                                        *)

(* _can_dynamic_batch(req, req)                                            *)
Eligible(e) == e.item \in Batchable /\ ~e.warmup

CompatibleWithAny(e, f) == Eligible(e) /\ Eligible(f)

(* _can_dynamic_batch for two requests                                     *)
CanDynamicBatch(e, f) == Eligible(e) /\ Eligible(f) /\ Sig[e.item] = Sig[f.item]

SigsOf(q, ns) == [m \in DOMAIN ns |-> Sig[q[ns[m]].item]]

AdmitsCandidate(q, ns, n) == Admits(SigsOf(q, ns), Sig[q[n].item])

IsFull(q, ns) == Len(ns) >= MaxSize \/ BatchIsFull(SigsOf(q, ns))

LatestCompatible(q) ==
  LET later == {n \in 2 .. Len(q) : CanDynamicBatch(q[1], q[n])}
  IN  IF later = {} THEN <<1>> ELSE <<1, Max(later)>>

(* compatible_indices of get_next_batch_to_run: the head and, in order,    *)
(* what may join it, until the batch is full.  What may join has the same  *)
(* signature, so the first request that is not admitted ends the batch.    *)
CompatibleIndices(q) ==
  LET joins == SelectSeq([n \in DOMAIN q |-> n],
                         LAMBDA n : n = 1 \/ CanDynamicBatch(q[1], q[n]))
      closed(l) == \/ l = Len(joins)
                   \/ IsFull(q, SubSeq(joins, 1, l))
                   \/ ~AdmitsCandidate(q, SubSeq(joins, 1, l), joins[l + 1])
  IN  SubSeq(joins, 1, Min({l \in DOMAIN joins : closed(l)}))

(* Whether the head goes alone and at once: batching is off, or it is not  *)
(* a request that can share a batch                                        *)
HeadAlone(q) == ~Enabled \/ ~Eligible(q[1])

Late(k) == ~deployment.delay \/ late[k]

WaitsUntilFull(k, ns) == ~IsFull(queue[k], ns)

ShouldWait(k, ns) == ~IsFull(queue[k], ns) /\ ~Late(k)

WithoutKind(q, ns) == SelectSeq(q, LAMBDA e : Sig[e.item] # Sig[q[1].item])

(* Entries are distinct, so removing positions is removing entries.        *)
Without(q, ns) == SelectSeq(q, LAMBDA e : \A m \in DOMAIN ns : q[ns[m]] # e)

(* The positions that get_next_batch_to_run would dispatch                 *)
Chosen(q) ==
  IF q = <<>> THEN <<>> ELSE IF HeadAlone(q) THEN <<1>> ELSE CompatibleIndices(q)

Wait(k, ns) == queue[k] = <<>> \/ (~HeadAlone(queue[k]) /\ ShouldWait(k, ns))

(* get_next_batch_to_run: nothing to do, wait for more, or dispatch        *)
Select(k) ==
  /\ pc[k] = "select"
  /\ \E ns \in {Chosen(queue[k])} :
       IF Wait(k, ns)
       THEN /\ pc' = [pc EXCEPT ![k] = "recv"]
            /\ UNCHANGED <<queue, late, batch>>
       ELSE /\ pc' = [pc EXCEPT ![k] = "run"]
            /\ batch' = [batch EXCEPT ![k] = [m \in DOMAIN ns |-> queue[k][ns[m]]]]
            /\ queue' = [queue EXCEPT ![k] = Without(queue[k], ns)]
            /\ late' = [late EXCEPT ![k] = FALSE]
  /\ UNCHANGED <<deployment, sent, inbox, broadcasts, warmedUp, errors, lost, replies>>

(* Time passes, on the clock of rank k, for the head of its queue.         *)
DelayPasses(k) ==
  /\ deployment.delay /\ k \in Ranks /\ queue[k] # <<>> /\ ~late[k]
  /\ late' = [late EXCEPT ![k] = TRUE]
  /\ UNCHANGED <<deployment, sent, inbox, broadcasts, pc, queue, batch, warmedUp, errors,
                 lost, replies>>
-------------------------------------------------------------------------------
(* Running it and answering                                                *)

OutputsOf(i) == [n \in 1 .. Outputs[Sig[i]] |-> <<i, n>>]

Failed    == [error |-> TRUE,  output |-> <<>>]
Made(out) == [error |-> FALSE, output |-> out]

(* External: a merged forward returns the outputs of its requests one      *)
(* after the other.                                                        *)
MergedOutput(b) == FlattenSeq([m \in DOMAIN b |-> OutputsOf(b[m].item)])

Count(b, m) == Outputs[Sig[b[m].item]]

SplitByPosition(b, out) == [m \in DOMAIN b |-> Made(SubSeq(out, m, m + Count(b, m) - 1))]

(* _split_batched_output                                                   *)
SplitBatchedOutput(b, out) ==
  LET end[m \in 0 .. Len(b)] == IF m = 0 THEN 0 ELSE end[m - 1] + Count(b, m)
  IN  [m \in DOMAIN b |-> Made(SubSeq(out, end[m - 1] + 1, end[m]))]

(* What _dispatch_items and the code after it make of a batch: outputs, or *)
(* an error for everyone when the forward fails, raises or cannot be split *)
Results(b) ==
  {[m \in DOMAIN b |-> Failed],
   IF Len(b) = 1
   THEN <<Made(IF Type[b[1].item] \in {"req", "group"}
               THEN OutputsOf(b[1].item) ELSE <<>>)>>
   ELSE SplitBatchedOutput(b, MergedOutput(b))}

(* return_result answers no warm-up.                                       *)
Replies(e) == ~e.warmup

(* return_result for the first n entries                                   *)
Answer(b, results, n) ==
  LET of(i) == {m \in 1 .. n : b[m].item = i /\ Replies(b[m])}
  IN  replies' = [i \in Items |-> IF of(i) = {} THEN replies[i]
                                  ELSE Append(replies[i], results[Max(of(i))])]

(* A send fails: the rest of the batch goes without an answer.             *)
AnswerUpTo(b) == IF deployment.sockets THEN 0 .. Len(b) ELSE {Len(b)}

Collective(b) == Type[b[1].item] \in {"req", "group"}

(* All ranks have joined the forward pass of the same batch.               *)
AllJoined ==
  /\ \A k \in Ranks : pc[k] = "run" /\ batch[k] = batch[0]
  /\ Collective(batch[0])

(* Rank 0 answers what is left of its batch with one of the outcomes       *)
AnswerBatch(b, outcomes) ==
  \E results \in outcomes, n \in AnswerUpTo(b) :
    /\ Answer(b, results, n)
    /\ lost' = lost \cup {b[m].item : m \in n + 1 .. Len(b)}

(* The forward pass, which all ranks execute together, has ended.          *)
Forward(outcomes) ==
  /\ AllJoined
  /\ AnswerBatch(batch[0], outcomes)
  /\ pc' = [k \in Ranks |-> "recv"]
  /\ batch' = [k \in Ranks |-> <<>>]
  /\ UNCHANGED <<deployment, sent, inbox, broadcasts, queue, late, warmedUp, errors>>

(* The other handlers run on every rank on its own; a shutdown ends the    *)
(* loop once it is answered.                                               *)
Handle(k, outcomes) ==
  LET b == batch[k] IN
  /\ pc[k] = "run" /\ ~Collective(b)
  /\ IF k = 0 THEN AnswerBatch(b, outcomes) ELSE UNCHANGED <<replies, lost>>
  /\ pc' = [pc EXCEPT ![k] = IF Type[b[1].item] = "shutdown" THEN "ended" ELSE "recv"]
  /\ batch' = [batch EXCEPT ![k] = <<>>]
  /\ UNCHANGED <<deployment, sent, inbox, broadcasts, queue, late, warmedUp, errors>>

HandlesAtOnce(k) ==
  /\ k \in Ranks /\ pc[k] = "run" /\ Type[batch[k][1].item] \in {"other", "shutdown"}
  /\ Handle(k, Results(batch[k]))

(* A step of rank k outside the worker                                     *)
RankStep(k) ==
  k \in Ranks /\ (Select(k) \/ HandlesAtOnce(k) \/ (k # 0 /\ RecvBroadcast(k)))
-------------------------------------------------------------------------------

SchedulerTypeOK ==
  /\ Range(sent) \subseteq Items /\ lost \subseteq Range(sent)
  /\ \A k \in Ranks :
       /\ pc[k] \in {"recv", "select", "run", "ended"}
       /\ queue[k] \in Seq(Entries) /\ batch[k] \in Seq(Entries)
       /\ (pc[k] = "run") = (batch[k] # <<>>)
       /\ late[k] => queue[k] # <<>>
  /\ errors \in 0 .. MaxErrors

(* A client gets one answer, and the outputs in it are those of its own    *)
(* request, though requests share forward passes and their outputs are cut *)
(* out of one result, and the first request is run twice.                  *)
OneAnswerWithOwnOutputs ==
  \A i \in Items :
    /\ Len(replies[i]) <= 1
    /\ \A n \in DOMAIN replies[i] :
         ~replies[i][n].error /\ Type[i] \in {"req", "group"} =>
           replies[i][n].output = OutputsOf(i)

(* A batch of several requests holds only requests that may be merged and  *)
(* stays within the limits of each of them, not only of the first.         *)
BatchWithinLimits ==
  \A k \in Ranks :
    LET sigs == [m \in DOMAIN batch[k] |-> Sig[batch[k][m].item]] IN
    Len(batch[k]) > 1 =>
      \A m \in DOMAIN batch[k] :
        /\ Eligible(batch[k][m])
        /\ Len(sigs) <= MaxBatchSize(sigs[m])
        /\ WithinCost(sigs[m], EstimateBatchCost(sigs))

(* Nothing disappears: an item that was sent and is not answered is on its *)
(* way, waiting, being run, or was lost with a failing socket.             *)
NothingForgotten ==
  \A i \in Range(sent) :
    \/ i \in Range(inbox) \/ i \in lost \/ replies[i] # <<>>
    \/ [item |-> i, warmup |-> FALSE] \in Range(queue[0]) \cup Range(batch[0])

(* Requests that could share a batch are dispatched in the order in which  *)
(* they came, whatever else is taken out of the queue before or between    *)
(* them.                                                                   *)
SameKindInOrder ==
  \A m, n \in DOMAIN sent :
    LET waits(i) == \/ i \in Range(inbox)
                    \/ [item |-> i, warmup |-> FALSE] \in Range(queue[0])
    IN  m < n /\ {sent[m], sent[n]} \subseteq Batchable /\ Sig[sent[m]] = Sig[sent[n]]
          => (waits(sent[m]) => waits(sent[n]))

(* The ranks enter a forward pass with the same batch, as the pass needs,  *)
(* although each chooses from a queue of its own and runs ahead of the     *)
(* others between two passes.  With several ranks this needs batching      *)
(* without a delay, which each rank would measure on a clock of its own.   *)
RanksAgree ==
  (\A k \in Ranks : pc[k] = "run" /\ Collective(batch[k])) =>
    \A k \in Ranks : batch[k] = batch[0]

Answered(i) == replies[i] # <<>>

(* "execute, make sure a reply is always sent": what was sent is answered, *)
(* unless a shutdown came first or sockets fail.  Clients send finitely    *)
(* much, so it is the same to say that again and again nobody waits.       *)
AlwaysReplied ==
  []<>(\/ \A i \in Range(sent) : Answered(i)
      \/ deployment.sockets \/ \E k \in Ranks : pc[k] = "ended")
===============================================================================
