---------------------------- MODULE DiffusionServer ----------------------------
(***************************************************************************)
(* The orchestrator of disaggregated diffusion: class DiffusionServer of   *)
(* disaggregation/orchestrator.py.                                         *)
(*                                                                         *)
(* One thread runs _event_loop.  An iteration polls the sockets, expires   *)
(* requests, handles at most one message from each socket that was ready   *)
(* at the poll, in a fixed order, and drains the three queues of requests  *)
(* waiting for a slot.  `todo` is the set of sockets the current iteration *)
(* still has to serve; the iteration drains once `todo` is empty, and the  *)
(* next Poll waits until the drain can dispatch nothing more.              *)
(***************************************************************************)
EXTENDS DisaggProtocol

CONSTANTS
  Capacity,  \* per role, the slots of one instance
  Policy,    \* --disagg-dispatch-policy
  Timeouts   \* whether a request can outlive --disagg-timeout

ASSUME ServerAssumption ==
  /\ Capacity \in [Roles -> Nat]
  /\ Policy \in Policies
  /\ Timeouts \in BOOLEAN

(* Request ids do not repeat (the HTTP entry points draw them at random).  *)
UniqueIds ==
  \A c, d \in Clients : IdOf[c] = IdOf[d] /\ IdOf[c] # None => c = d

VARIABLES
  tracker,   \* _tracker: request id -> record or None
  pending,   \* _pending: request id -> client or None
  free,      \* _<role>_free_slots
  tta,       \* _<role>_tta: a deque, as the set of its entries, each with
             \* the requests ahead of it
  cursor,    \* _dispatcher: the counter of each role's policy
  transfer,  \* _transfer_state: request id -> _TransferRequestState or None
  peers,     \* _<role>_peers[i]["free_preallocated_slots"]; <<>> before the
             \* instance has registered
  todo,      \* sockets still to be served in this iteration
  running,   \* FALSE once an exception has ended the event loop
  now,       \* submissions so far: the clock that stamps submit_time
  horizon,   \* submissions whose timeout has run out
  inbox,     \* per client: "idle", "sent" (at the frontend) or "taken"
  replies    \* per client: what the frontend socket has sent back

serverVars ==
  <<tracker, pending, free, tta, cursor, transfer, peers, todo, running, now,
    horizon, inbox, replies>>

(* _TransferRequestState: what of it decides where messages go.            *)
TransferState ==
  [size : Nat, sender : Nat \cup {None}, receiver : Nat \cup {None},
   addr : Addr \cup {None}, pre : Nat \cup {None}]

ASSUME NoneAssumption == None \notin TransferState \cup Record(Nat)

PreallocEntry == [slot : Nat, addr : Addr \cup {None}, size : Nat]

Sockets == {"frontend"} \cup Roles
Order == [s \in Sockets |-> CASE s = "frontend" -> 1 [] s = "encoder" -> 2
                              [] s = "denoiser" -> 3 [] s = "decoder" -> 4]

ServerInit ==
  /\ tracker = [r \in Requests |-> None]
  /\ pending = [r \in Requests |-> None]
  /\ free = [q \in Roles |-> [i \in Inst(q) |-> Capacity[q]]]
  /\ tta = [q \in Roles |-> {}]
  /\ cursor = [q \in Roles |-> 0]
  /\ transfer = [r \in Requests |-> None]
  /\ peers = [q \in Roles |-> [i \in Inst(q) |-> <<>>]]
  /\ todo = {} /\ running = TRUE
  /\ now = 0 /\ horizon = 0
  /\ inbox = [c \in Clients |-> "idle"]
  /\ replies = [c \in Clients |-> <<>>]

-------------------------------------------------------------------------------
(* Queues, slots and replies.                                              *)

Enqueue(q, r) == q \cup {[id |-> r, ahead |-> {f.id : f \in q}]}

IsOldest(q, e) == e \in q /\ e.ahead = {}

(* The queue without the requests of T: popleft, and the timeout filter.   *)
Without(q, T) ==
  {[id |-> e.id, ahead |-> e.ahead \ T] : e \in {f \in q : f.id \notin T}}

GiveBack(role, i) == [free EXCEPT ![role][i] = @ + 1]
Take(role, i)     == [free EXCEPT ![role][i] = @ - 1]

GiveBackAllButEncoder(role, r) ==
  IF role # "encoder" /\ Tracked(tracker, r) /\ tracker[r].instance[role] # None
  THEN GiveBack(role, tracker[r].instance[role]) ELSE free

GiveBackAllButDecoder(role, r) ==
  IF role # "decoder" /\ Tracked(tracker, r) /\ tracker[r].instance[role] # None
  THEN GiveBack(role, tracker[r].instance[role]) ELSE free

(* record.<role>_instance is not None -> _<role>_free_slots[...] += 1      *)
GiveBackOf(role, r) ==
  IF Tracked(tracker, r) /\ tracker[r].instance[role] # None
  THEN GiveBack(role, tracker[r].instance[role]) ELSE free

ReplyTo(c, kind, data) ==
  IF c = None THEN replies
  ELSE [replies EXCEPT ![c] = Append(@, [kind |-> kind, data |-> data])]

KeepPending(T) == pending

(* _pending.pop(request_id, None), for the requests of T.                  *)
PopPending(T) == [r \in Requests |-> IF r \in T THEN None ELSE pending[r]]

(* _complete_with_error, and the end of a successful request: answer the   *)
(* client that is still pending and forget the request.                    *)
Complete(r, kind, data) ==
  /\ replies' = ReplyTo(pending[r], kind, data)
  /\ pending' = PopPending({r})
  /\ tracker' = Remove(tracker, r)

-------------------------------------------------------------------------------
(* One iteration of _event_loop.                                           *)

Turn(s) ==
  running /\ s \in todo /\ \A t \in todo : Order[s] <= Order[t]

Served(s) == todo' = todo \ {s}

(* _drain_<role>_tta ends: nothing is queued or nothing is free.           *)
Blocked(q) == tta[q] = {} \/ Full(NumInstances[q], free[q])

Draining(q) ==
  running /\ todo = {} /\ ~Blocked(q)
  /\ \A p \in Roles : Order[p] < Order[q] => Blocked(p)

FreesEncoderSlotTwice(r, role, i) ==
  /\ tracker[r].instance[role] = i
  /\ tracker[r].state \in
       CASE role = "encoder"  -> {"ENCODER_RUNNING", "ENCODER_DONE", "DENOISING_RUNNING"}
         [] role = "denoiser" -> {"DENOISING_RUNNING", "DENOISING_DONE"}
         [] role = "decoder"  -> {"DECODER_RUNNING"}

(* _free_slot_for_record: which slot a timeout gives back.                 *)
FreesSlot(r, role, i) ==
  /\ tracker[r].instance[role] = i
  /\ tracker[r].state \in
       CASE role = "encoder"  -> {"ENCODER_RUNNING", "ENCODER_DONE"}
         [] role = "denoiser" -> {"DENOISING_RUNNING", "DENOISING_DONE"}
         [] role = "decoder"  -> {"DECODER_RUNNING"}

(* _handle_timeouts                                                        *)
HandleTimeouts(T) ==
  /\ free' = [q \in Roles |-> [i \in Inst(q) |->
                free[q][i] + Cardinality({r \in T : FreesSlot(r, q, i)})]]
  /\ tracker' = [r \in Requests |-> IF r \in T THEN None ELSE tracker[r]]
  /\ replies' = [c \in Clients |->
                   IF \E r \in T : pending[r] = c
                   THEN Append(replies[c], [kind |-> "error", data |-> None])
                   ELSE replies[c]]
  /\ pending' = PopPending(T)
  /\ tta' = [q \in Roles |-> Without(tta[q], T)]

(* The drain of the last iteration has ended (a full pool has advanced its *)
(* policy's counter once more); poll, then expire requests.                *)
Poll ==
  /\ running /\ todo = {} /\ \A q \in Roles : Blocked(q)
  /\ cursor' = [q \in Roles |->
                  IF tta[q] = {} THEN cursor[q]
                  ELSE CursorAfterNone(Policy, NumInstances[q], cursor[q])]
  /\ todo' = {s \in Sockets : IF s = "frontend"
                              THEN \E c \in Clients : inbox[c] = "sent"
                              ELSE Results(s) # {}}
  /\ HandleTimeouts(FindTimedOut(tracker, horizon))
  /\ UNCHANGED <<transfer, peers, running, now, horizon, inbox, net>>

(* Time passes: the oldest submission not yet overdue becomes overdue.     *)
Tick ==
  /\ Timeouts /\ horizon < now
  /\ horizon' = horizon + 1
  /\ UNCHANGED <<tracker, pending, free, tta, cursor, transfer, peers, todo,
                 running, now, inbox, replies, net>>

-------------------------------------------------------------------------------
(* Message handlers.                                                       *)

NeverDuplicate(r) == FALSE

(* The tracker refuses an id it already tracks.                            *)
IsDuplicate(r) == Tracked(tracker, r)

(* _handle_client_request                                                  *)
HandleClientRequest(c) ==
  /\ Turn("frontend") /\ inbox[c] = "sent"
  /\ inbox' = [inbox EXCEPT ![c] = "taken"]
  /\ Served("frontend")
  /\ LET r == IdOf[c] IN
     \/ /\ r = None  \* control message: "Send empty reply so REQ socket doesn't hang"
        /\ replies' = ReplyTo(c, "ignored", None)
        /\ UNCHANGED <<tracker, pending, tta, now>>
     \/ /\ r # None /\ IsDuplicate(r)  \* logged and dropped, without a reply
        /\ UNCHANGED <<tracker, pending, tta, now, replies>>
     \/ /\ r # None /\ ~IsDuplicate(r)
        /\ now' = now + 1
        /\ tracker' = Transition(Submit(tracker, r, now + 1), r, "ENCODER_WAITING")
        /\ pending' = [pending EXCEPT ![r] = c]
        /\ tta' = [tta EXCEPT !["encoder"] = Enqueue(@, r)]
        /\ UNCHANGED replies
  /\ UNCHANGED <<free, cursor, transfer, peers, running, horizon, net>>

(* _handle_transfer_register: an encoder preallocates no receive slots.    *)
HandleRegister(m) ==
  /\ m \in net /\ m.type = "REGISTER" /\ Turn(m.role)
  /\ peers' = [peers EXCEPT ![m.role][m.inst] =
       IF m.role = "encoder" THEN <<>>
       ELSE [k \in 1 .. NumPrealloc |->
               [slot |-> k - 1, addr |-> At(m.role, m.inst, k - 1),
                size |-> PreallocSize]]]
  /\ net' = net \ {m}
  /\ Served(m.role)
  /\ UNCHANGED <<tracker, pending, free, tta, cursor, transfer, running, now,
                 horizon, inbox, replies>>

(* _handle_role_error_frames: the encoder failed or could not stage.       *)
HandleError(m) ==
  /\ m \in net /\ m.type = "ERROR" /\ Turn(m.role)
  /\ Complete(m.id, "error", None)
  /\ net' = net \ {m}
  /\ Served(m.role)
  /\ UNCHANGED <<free, tta, cursor, transfer, peers, running, now, horizon, inbox>>

(* _handle_transfer_staged                                                 *)
HandleStaged(m) ==
  /\ m \in net /\ m.type = "STAGED" /\ Turn(m.role)
  /\ LET r == m.id IN
     /\ transfer' = [transfer EXCEPT ![r] =
          [size |-> m.size,
           sender |-> IF Tracked(tracker, r)
                      THEN tracker[r].instance["encoder"] ELSE 0,
           receiver |-> None, addr |-> None, pre |-> None]]
     /\ tracker' = Transition(Transition(tracker, r, "ENCODER_DONE"),
                             r, "DENOISING_WAITING")
     /\ tta' = [tta EXCEPT !["denoiser"] = Enqueue(@, r)]
  /\ net' = net \ {m}
  /\ Served(m.role)
  /\ UNCHANGED <<pending, free, cursor, peers, running, now, horizon, inbox, replies>>

InDenoising == {"DENOISING_RUNNING", "DENOISING_WAITING"}
OnlyWaiting == {"DECODER_WAITING"}
InDecoding  == {"DECODER_RUNNING", "DECODER_WAITING"}

(* _handle_transfer_allocated: send the PUSH to the instance that staged   *)
(* the data.  A request that is decoding was staged by a denoiser; any     *)
(* other, also one no longer tracked, is taken to be at its encoder.  An   *)
(* index past the end of the encoder list raises, which ends the loop.     *)
HandleAllocated(m) ==
  /\ m \in net /\ m.type = "ALLOCATED" /\ Turn(m.role)
  /\ LET r  == m.id
         to == IF InState(tracker, r, InDecoding) THEN "denoiser" ELSE "encoder"
     IN
     IF transfer[r] = None
     THEN net' = net \ {m} /\ UNCHANGED <<transfer, running>>
     ELSE /\ transfer' = [transfer EXCEPT ![r] = [@ EXCEPT !.addr = m.addr]]
          /\ IF transfer[r].sender \in Inst(to)
             THEN /\ net' = (net \ {m}) \cup
                       {PUSH(to, transfer[r].sender, r, m.addr, transfer[r].size)}
                  /\ UNCHANGED running
             ELSE net' = net \ {m} /\ running' = FALSE
  /\ Served(m.role)
  /\ UNCHANGED <<tracker, pending, free, tta, cursor, peers, now, horizon, inbox,
                 replies>>

(* _handle_transfer_pushed: the sender's slot is free, the receiver may    *)
(* start.                                                                  *)
HandlePushed(m) ==
  /\ m \in net /\ m.type = "PUSHED" /\ Turn(m.role)
  /\ LET r == m.id
         ready(role) == {READY(role, transfer[r].receiver, r, transfer[r].pre)}
     IN
     IF transfer[r] = None
     THEN net' = net \ {m} /\ UNCHANGED free
     ELSE /\ free' = IF InState(tracker, r, InDenoising \cup {"DENOISING_DONE"})
                     THEN GiveBackOf("encoder", r)
                     ELSE IF InState(tracker, r, InDecoding)
                     THEN GiveBackOf("denoiser", r) ELSE free
          /\ net' = (net \ {m}) \cup
               (IF InState(tracker, r, InDenoising) THEN ready("denoiser")
                ELSE IF InState(tracker, r, InDecoding) THEN ready("decoder") ELSE {})
  /\ Served(m.role)
  /\ UNCHANGED <<tracker, pending, tta, cursor, transfer, peers, running, now,
                 horizon, inbox, replies>>

(* _recycle_prealloc_slot: the receiver's preallocated slot goes back to   *)
(* the end of its free list, with the size of the data it carried.         *)
Recycles(r) == transfer[r] # None /\ transfer[r].pre # None

Recycled(r, role) ==
  IF Recycles(r)
  THEN [peers EXCEPT ![role][transfer[r].receiver] =
          Append(@, [slot |-> transfer[r].pre, addr |-> transfer[r].addr,
                     size |-> transfer[r].size])]
  ELSE peers

KeepsSlotId(r, size) ==
  [transfer[r] EXCEPT
     !.size = size,
     !.sender = IF Tracked(tracker, r) THEN tracker[r].instance["denoiser"] ELSE 0]

(* The transfer state turned around: the denoiser is now the sender.       *)
StagedForDecoder(r, size) ==
  [transfer[r] EXCEPT
     !.size = size, !.pre = None,
     !.sender = IF Tracked(tracker, r) THEN tracker[r].instance["denoiser"] ELSE 0]

(* _handle_transfer_done from a denoiser                                   *)
HandleDone(m) ==
  /\ m \in net /\ m.type = "DONE" /\ Turn(m.role)
  /\ peers' = Recycled(m.id, "denoiser")
  /\ LET r == m.id IN
     IF m.error
     THEN /\ free' = GiveBackOf("denoiser", r)
          /\ Complete(r, "error", None)
          /\ transfer' = IF Recycles(r)
                         THEN [transfer EXCEPT ![r] = [@ EXCEPT !.pre = None]]
                         ELSE transfer
          /\ UNCHANGED tta
     ELSE /\ UNCHANGED <<pending, replies>>
          /\ IF transfer[r] = None
             THEN /\ free' = GiveBackOf("denoiser", r)
                  /\ tracker' = Transition(tracker, r, "DENOISING_DONE")
                  /\ UNCHANGED <<tta, transfer>>
             ELSE /\ transfer' = [transfer EXCEPT ![r] = StagedForDecoder(r, m.size)]
                  /\ tracker' = Transition(Transition(tracker, r, "DENOISING_DONE"),
                                          r, "DECODER_WAITING")
                  /\ tta' = [tta EXCEPT !["decoder"] = Enqueue(@, r)]
                  /\ UNCHANGED free
  /\ net' = net \ {m}
  /\ Served(m.role)
  /\ UNCHANGED <<cursor, running, now, horizon, inbox>>

(* _handle_decoder_result_frames                                           *)
HandleOutput(m) ==
  /\ m \in net /\ m.type = "OUTPUT" /\ Turn(m.role)
  /\ LET r == m.id IN
     /\ free' = GiveBackOf("decoder", r)
     /\ Complete(r, IF m.error THEN "error" ELSE "ok", m.data)
     /\ transfer' = IF pending[r] = None THEN transfer
                    ELSE [transfer EXCEPT ![r] = None]
  /\ net' = net \ {m}
  /\ Served(m.role)
  /\ UNCHANGED <<tta, cursor, peers, running, now, horizon, inbox>>

-------------------------------------------------------------------------------
(* Dispatch: one turn of the loop of _drain_<role>_tta.                    *)

(* The head of role's queue goes to instance i.                            *)
Dispatch(role, e, i, state) ==
  /\ Draining(role) /\ IsOldest(tta[role], e)
  /\ Selects(Policy, NumInstances[role], cursor[role], free[role], i)
  /\ cursor' = [cursor EXCEPT ![role] =
                  CursorAfter(Policy, NumInstances[role], @, i)]
  /\ tta' = [tta EXCEPT ![role] = Without(@, {e.id})]
  /\ free' = Take(role, i)
  /\ tracker' = TransitionAt(tracker, e.id, state, role, i)
  /\ UNCHANGED <<pending, todo, running, now, horizon, inbox, replies>>

(* _dispatch_to_encoder                                                    *)
DispatchToEncoder(e, i) ==
  /\ Dispatch("encoder", e, i, "ENCODER_RUNNING")
  /\ net' = net \cup {REQUEST(i, e.id)}
  /\ UNCHANGED <<transfer, peers>>

FastPathAnySize(role, r, i) == peers[role][i] # <<>>

(* _try_fast_path_push: only the first free preallocated slot is tried.    *)
FastPath(role, r, i) ==
  peers[role][i] # <<>> /\ Head(peers[role][i]).size >= transfer[r].size

LeaveSlotListed(role, i) == peers

(* free_slots.pop(0)                                                       *)
ClaimSlot(role, i) == [peers EXCEPT ![role][i] = Tail(@)]

(* _transfer_dispatch_to_denoiser and _transfer_dispatch_to_decoder        *)
DispatchTransfer(role, e, i) ==
  /\ Dispatch(role, e, i, IF role = "denoiser" THEN "DENOISING_RUNNING"
                                              ELSE "DECODER_RUNNING")
  /\ LET r == e.id IN
     IF FastPath(role, r, i)
     THEN LET slot == Head(peers[role][i]) IN
          /\ peers' = ClaimSlot(role, i)
          /\ transfer' = [transfer EXCEPT ![r] =
               [@ EXCEPT !.receiver = i, !.addr = slot.addr, !.pre = slot.slot]]
          /\ net' = net \cup {PUSH(Upstream(role), transfer[r].sender, r,
                                  slot.addr, transfer[r].size)}
     ELSE \* _send_slow_path_alloc
          /\ transfer' = [transfer EXCEPT ![r] = [@ EXCEPT !.receiver = i]]
          /\ net' = net \cup {ALLOC(role, i, r, transfer[r].size)}
          /\ UNCHANGED peers

ServerNext ==
  \/ Poll
  \/ \E c \in Clients : HandleClientRequest(c)
  \/ \E m \in net :
       \/ HandleRegister(m) \/ HandleError(m)     \/ HandleStaged(m)
       \/ HandleAllocated(m) \/ HandlePushed(m)   \/ HandleDone(m)
       \/ HandleOutput(m)
  \/ \E i \in Inst("encoder") : \E e \in tta["encoder"] : DispatchToEncoder(e, i)
  \/ \E role \in Receivers : \E i \in Inst(role) : \E e \in tta[role] :
       DispatchTransfer(role, e, i)
===============================================================================
