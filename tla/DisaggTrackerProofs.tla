------------------------- MODULE DisaggTrackerProofs --------------------------
(***************************************************************************)
(* What the operators of the server do to its records and queues, and what *)
(* a role instance answers; from that, the records, the pending clients    *)
(* and the queues of the server agree between any two of its steps.        *)
(***************************************************************************)
EXTENDS DisaggInvariant, TLAPS

-------------------------------------------------------------------------------
(* The tracker and the queues.                                             *)

(* An instance is named by its index.                                      *)
LEMMA InstancesAreNumbers ==
  ASSUME NEW q \in Roles, NEW i \in Inst(q)
  PROVE  i \in Nat /\ i \in Int
<1>1. NumInstances[q] \in Nat
  BY Zenon, DeploymentAssumption
<1>2. QED  BY <1>1 DEF Inst, Pool

TrackerOK(t) ==
  /\ DOMAIN t = Requests
  /\ \A r \in Requests : t[r] = None \/ RecordOK(t[r])

(* A transition touches the state of r alone.                              *)
LEMMA TransitionEffect ==
  ASSUME NEW t, TrackerOK(t), NEW r \in Requests,
         NEW new \in ActiveStates \cup TerminalStates
  PROVE  LET u == Transition(t, r, new) IN
         /\ TrackerOK(u)
         /\ \A x \in Requests \ {r} : u[x] = t[x]
         /\ Tracked(u, r) <=> Tracked(t, r)
         /\ Tracked(t, r) => u[r].instance = t[r].instance
         /\ Tracked(t, r) /\ Legal(t[r].state, new) => u[r].state = new
         /\ Tracked(t, r) /\ ~Legal(t[r].state, new) => u[r].state = t[r].state
<1>1. CASE ~(Tracked(t, r) /\ Legal(t[r].state, new))
  BY Zenon, <1>1 DEF Transition
<1>2. CASE Tracked(t, r) /\ Legal(t[r].state, new)
  <2> DEFINE rec == [t[r] EXCEPT !.state = new]
  <2>1. t[r] \in Record(Nat) /\ RecordOK(t[r])
    BY Zenon, <1>2 DEF TrackerOK, RecordOK, Tracked
  <2>2. rec \in Record(Nat) /\ rec.instance = t[r].instance /\ rec.state = new
    BY Zenon, <2>1 DEF Record
  <2>3. RecordOK(rec) /\ rec # None
    BY Zenon, <2>1, <2>2, NoneAssumption DEF RecordOK
  <2>4. Transition(t, r, new) = [t EXCEPT ![r] = rec]
    BY Zenon, <1>2 DEF Transition
  <2> HIDE DEF rec
  <2>5. QED  BY Zenon, <1>2, <2>2, <2>3, <2>4 DEF TrackerOK, Tracked
<1>3. QED  BY Zenon, <1>1, <1>2

(* A legal transition from a known state.                                  *)
LEMMA LegalTransition ==
  ASSUME NEW t, TrackerOK(t), NEW r \in Requests, NEW old,
         NEW new \in ActiveStates \cup TerminalStates, Legal(old, new),
         Tracked(t, r) => t[r].state = old,
         NEW u, u = Transition(t, r, new)
  PROVE  /\ TrackerOK(u) /\ \A x \in Requests \ {r} : u[x] = t[x]
         /\ Tracked(u, r) <=> Tracked(t, r)
         /\ Tracked(u, r) => u[r].state = new /\ u[r].instance = t[r].instance
<1>1. /\ TrackerOK(u) /\ \A x \in Requests \ {r} : u[x] = t[x]
      /\ Tracked(u, r) <=> Tracked(t, r)
      /\ Tracked(t, r) => u[r].instance = t[r].instance
      /\ Tracked(t, r) /\ Legal(t[r].state, new) => u[r].state = new
  BY Zenon, TransitionEffect
<1>2. QED  BY Zenon, <1>1

(* A request leaves one stage and waits for the next: two transitions, of  *)
(* _handle_transfer_staged and _handle_transfer_done.                      *)
LEMMA HandedOn ==
  ASSUME TrackerOK(tracker), NEW r \in Requests, NEW old,
         NEW mid \in ActiveStates \cup TerminalStates,
         NEW new \in ActiveStates \cup TerminalStates,
         Legal(old, mid), Legal(mid, new),
         Tracked(tracker, r) => tracker[r].state = old,
         tracker' = Transition(Transition(tracker, r, mid), r, new)
  PROVE  /\ TrackerOK(tracker') /\ \A x \in Requests \ {r} : tracker'[x] = tracker[x]
         /\ Tracked(tracker', r) => /\ Tracked(tracker, r)
                                    /\ tracker[r].state = old
                                    /\ tracker'[r].state = new
                                    /\ tracker'[r].instance = tracker[r].instance
<1> DEFINE t == Transition(tracker, r, mid)
<1>1. /\ TrackerOK(t) /\ \A x \in Requests \ {r} : t[x] = tracker[x]
      /\ Tracked(t, r) <=> Tracked(tracker, r)
      /\ Tracked(t, r) => t[r].state = mid /\ t[r].instance = tracker[r].instance
  BY LegalTransition
<1>2. tracker' = Transition(t, r, new)
  BY Zenon
<1> HIDE DEF t
<1>3. /\ TrackerOK(tracker') /\ \A x \in Requests \ {r} : tracker'[x] = t[x]
      /\ Tracked(tracker', r) <=> Tracked(t, r)
      /\ Tracked(tracker', r) => tracker'[r].state = new /\ tracker'[r].instance = t[r].instance
  BY <1>1, <1>2, LegalTransition
<1>4. QED  BY Zenon, <1>1, <1>3

(* transition(..., <role>_instance = i), like TransitionEffect.            *)
LEMMA TransitionAtEffect ==
  ASSUME NEW t, TrackerOK(t), NEW r \in Requests,
         NEW new \in ActiveStates \cup TerminalStates,
         NEW role \in Roles, NEW i \in Inst(role)
  PROVE  LET u == TransitionAt(t, r, new, role, i) IN
         /\ TrackerOK(u)
         /\ \A x \in Requests \ {r} : u[x] = t[x]
         /\ Tracked(u, r) <=> Tracked(t, r)
         /\ Tracked(t, r) /\ Legal(t[r].state, new) =>
              /\ u[r].state = new /\ u[r].instance[role] = i
              /\ \A q \in Roles \ {role} : u[r].instance[q] = t[r].instance[q]
         /\ Tracked(t, r) /\ ~Legal(t[r].state, new) => u[r] = t[r]
<1>1. CASE ~(Tracked(t, r) /\ Legal(t[r].state, new))
  BY Zenon, <1>1 DEF TransitionAt
<1>2. CASE Tracked(t, r) /\ Legal(t[r].state, new)
  <2> DEFINE rec == [t[r] EXCEPT !.state = new, !.instance[role] = i]
  <2>1. t[r] \in Record(Nat) /\ RecordOK(t[r])
    BY Zenon, <1>2 DEF TrackerOK, RecordOK, Tracked
  <2>2. i \in Nat
    BY DeploymentAssumption DEF Inst, Pool
  <2>3. rec \in Record(Nat) /\ rec.state = new /\ rec.instance[role] = i
        /\ \A q \in Roles \ {role} : rec.instance[q] = t[r].instance[q]
    BY Zenon, <2>1, <2>2 DEF Record
  <2>4. RecordOK(rec) /\ rec # None
    BY Zenon, <2>1, <2>3, NoneAssumption DEF RecordOK
  <2>5. TransitionAt(t, r, new, role, i) = [t EXCEPT ![r] = rec]
    BY Zenon, <1>2 DEF TransitionAt
  <2> HIDE DEF rec
  <2>6. QED  BY Zenon, <1>2, <2>3, <2>4, <2>5 DEF TrackerOK, Tracked
<1>3. QED  BY Zenon, <1>1, <1>2

(* submit and the first transition of _handle_client_request leave a       *)
(* record in ENCODER_WAITING.                                              *)
LEMMA SubmitEffect ==
  ASSUME NEW t, TrackerOK(t), NEW r \in Requests, NEW time \in Nat
  PROVE  LET u == Transition(Submit(t, r, time), r, "ENCODER_WAITING") IN
         /\ TrackerOK(u)
         /\ \A x \in Requests \ {r} : u[x] = t[x]
         /\ Tracked(u, r) /\ u[r].state = "ENCODER_WAITING"
<1> DEFINE rec == [state |-> "PENDING", submit_time |-> time,
                   instance |-> [q \in Roles |-> None]]
<1>1. rec \in Record(Nat) /\ rec.state = "PENDING" /\ \A q \in Roles : rec.instance[q] = None
  BY Zenon DEF Record, ActiveStates
<1>2. RecordOK(rec) /\ rec # None
  BY Zenon, <1>1, NoneAssumption DEF RecordOK
<1>3. Submit(t, r, time) = [t EXCEPT ![r] = rec]
  BY Zenon DEF Submit
<1> HIDE DEF rec
<1>4. TrackerOK(Submit(t, r, time)) /\ Submit(t, r, time)[r] = rec
      /\ \A x \in Requests \ {r} : Submit(t, r, time)[x] = t[x]
  BY Zenon, <1>2, <1>3 DEF TrackerOK
<1>5. Tracked(Submit(t, r, time), r) /\ Legal("PENDING", "ENCODER_WAITING")
  BY Zenon, <1>2, <1>4 DEF Tracked, Legal, TerminalStates, ValidTransitions
<1>6. "ENCODER_WAITING" \in ActiveStates \cup TerminalStates
  BY Zenon DEF ActiveStates
<1>7. QED  BY Zenon, <1>1, <1>4, <1>5, <1>6, TransitionEffect

(* remove forgets one request and keeps the other records.                 *)
LEMMA RemoveEffect ==
  ASSUME NEW t, TrackerOK(t), NEW r \in Requests
  PROVE  /\ TrackerOK(Remove(t, r)) /\ ~Tracked(Remove(t, r), r)
         /\ \A x \in Requests \ {r} : Remove(t, r)[x] = t[x]
BY Zenon DEF TrackerOK, Remove, Tracked

Queue == SUBSET [id : Requests, ahead : SUBSET Requests]

(* append to a queue adds that request and keeps the others.               *)
LEMMA EnqueueEffect ==
  ASSUME NEW d \in Queue, NEW r \in Requests
  PROVE  /\ Enqueue(d, r) \in Queue
         /\ \A x : (\E e \in Enqueue(d, r) : e.id = x) <=> x = r \/ \E e \in d : e.id = x
<1> DEFINE new == [id |-> r, ahead |-> {f.id : f \in d}]
<1>1. new \in [id : Requests, ahead : SUBSET Requests] /\ new.id = r
  BY Zenon DEF Queue
<1>2. Enqueue(d, r) = d \cup {new}
  BY Zenon DEF Enqueue
<1> HIDE DEF new
<1>3. QED  BY Zenon, <1>1, <1>2 DEF Queue

(* popleft and the timeout filter remove those requests only.              *)
LEMMA WithoutEffect ==
  ASSUME NEW d \in Queue, NEW T
  PROVE  /\ Without(d, T) \in Queue
         /\ \A x : (\E e \in Without(d, T) : e.id = x) <=> x \notin T /\ \E e \in d : e.id = x
<1> DEFINE cut(e) == [id |-> e.id, ahead |-> e.ahead \ T]
<1>1. \A e \in d : cut(e) \in [id : Requests, ahead : SUBSET Requests] /\ cut(e).id = e.id
  BY Zenon DEF Queue
<1>2. \A f : f \in Without(d, T) <=> \E e \in d : e.id \notin T /\ f = cut(e)
  BY Zenon DEF Without
<1> HIDE DEF cut
<1>3. Without(d, T) \in Queue
  BY <1>1, <1>2 DEF Queue
<1>4. ASSUME NEW x
      PROVE  (\E e \in Without(d, T) : e.id = x) <=> x \notin T /\ \E e \in d : e.id = x
  BY <1>1, <1>2
<1>5. QED  BY Zenon, <1>3, <1>4

(* A queue of the server gets one more entry, or loses those of T.         *)
LEMMA Enqueued ==
  ASSUME tta \in [Roles -> Queue], NEW r \in Requests, NEW role \in Roles,
         tta' = [tta EXCEPT ![role] = Enqueue(@, r)]
  PROVE  /\ tta' \in [Roles -> Queue]
         /\ \A x : \A q \in Roles :
              InQueue(x, q)' <=> InQueue(x, q) \/ (q = role /\ x = r)
<1> DEFINE d == Enqueue(tta[role], r)
<1>1. d \in Queue /\ \A x : (\E e \in d : e.id = x) <=> x = r \/ \E e \in tta[role] : e.id = x
  BY Zenon, EnqueueEffect
<1>2. tta' = [tta EXCEPT ![role] = d]
  BY Zenon
<1> HIDE DEF d
<1>3. tta' \in [Roles -> Queue]
  BY Zenon, <1>1, <1>2
<1>4. ASSUME NEW x, NEW q \in Roles
      PROVE  InQueue(x, q)' <=> InQueue(x, q) \/ (q = role /\ x = r)
  <2>1. tta'[q] = IF q = role THEN d ELSE tta[q]
    BY Zenon, <1>2
  <2>2. QED  BY Zenon, <1>1, <2>1 DEF InQueue
<1>5. QED  BY Zenon, <1>3, <1>4

(* Requests leave the queue of one role; the other queues stay.            *)
LEMMA Dequeued ==
  ASSUME tta \in [Roles -> Queue], NEW T, NEW role \in Roles,
         tta' = [tta EXCEPT ![role] = Without(@, T)]
  PROVE  /\ tta' \in [Roles -> Queue]
         /\ \A x : \A q \in Roles :
              InQueue(x, q)' <=> InQueue(x, q) /\ ~(q = role /\ x \in T)
<1> DEFINE d == Without(tta[role], T)
<1>1. d \in Queue /\ \A x : (\E e \in d : e.id = x) <=> x \notin T /\ \E e \in tta[role] : e.id = x
  BY WithoutEffect
<1>2. tta' = [tta EXCEPT ![role] = d]
  BY Zenon
<1> HIDE DEF d
<1>3. tta' \in [Roles -> Queue]
  BY Zenon, <1>1, <1>2
<1>4. ASSUME NEW x, NEW q \in Roles
      PROVE  InQueue(x, q)' <=> InQueue(x, q) /\ ~(q = role /\ x \in T)
  <2>1. tta'[q] = IF q = role THEN d ELSE tta[q]
    BY Zenon, <1>2
  <2>2. QED  BY Zenon, <1>1, <2>1 DEF InQueue
<1>5. QED  BY Zenon, <1>3, <1>4

RunningAt(role) == IF role = "encoder" THEN "ENCODER_RUNNING"
                   ELSE IF role = "denoiser" THEN "DENOISING_RUNNING"
                   ELSE "DECODER_RUNNING"

(* A dispatch takes one request from a queue and records its instance.     *)
LEMMA DispatchEffect ==
  ASSUME SlotInvariant, NEW role \in Roles, NEW i \in Inst(role), NEW e \in tta[role],
         Dispatch(role, e, i, RunningAt(role))
  PROVE  /\ e.id \in Requests /\ InQueue(e.id, role) /\ TrackerOK(tracker')
         /\ \A x \in Requests \ {e.id} : tracker'[x] = tracker[x]
         /\ Tracked(tracker', e.id) =>
              /\ Tracked(tracker, e.id)
              /\ tracker'[e.id].state = RunningAt(role) /\ tracker'[e.id].instance[role] = i
              /\ \A q \in Roles \ {role} : tracker'[e.id].instance[q] = tracker[e.id].instance[q]
         /\ tta' \in [Roles -> Queue]
         /\ \A x : \A q \in Roles : InQueue(x, q)' <=> InQueue(x, q) /\ ~(q = role /\ x = e.id)
<1> USE DEF SlotInvariant
<1> DEFINE r == e.id
<1>1. /\ tta' = [tta EXCEPT ![role] = Without(@, {r})]
      /\ tracker' = TransitionAt(tracker, r, RunningAt(role), role, i)
  BY Zenon DEF Dispatch
<1>2. /\ r \in Requests /\ InQueue(r, role) /\ tta \in [Roles -> Queue] /\ TrackerOK(tracker)
  <2>1. tta \in [Roles -> Queue] /\ TrackerOK(tracker)
    BY Zenon DEF ServerTypeOK, Queue, TrackerOK
  <2>2. e \in [id : Requests, ahead : SUBSET Requests]
    BY Zenon, <2>1 DEF Queue
  <2>3. r \in Requests
    BY Zenon, <2>2
  <2>4. QED  BY Zenon, <2>1, <2>3 DEF InQueue
<1>3. Tracked(tracker, r) => tracker[r].state = WaitingFor(role)
  BY Zenon, <1>2 DEF TokenState
<1>4. /\ TrackerOK(tracker') /\ \A x \in Requests \ {r} : tracker'[x] = tracker[x]
      /\ Tracked(tracker', r) =>
           /\ Tracked(tracker, r)
           /\ tracker'[r].state = RunningAt(role) /\ tracker'[r].instance[role] = i
           /\ \A q \in Roles \ {role} : tracker'[r].instance[q] = tracker[r].instance[q]
  <2>1. RunningAt(role) \in ActiveStates \cup TerminalStates
    BY Zenon DEF RunningAt, ActiveStates
  <2>2. Legal(WaitingFor(role), RunningAt(role))
    BY Zenon DEF Legal, WaitingFor, RunningAt, ValidTransitions, TerminalStates, Roles
  <2>3. /\ TrackerOK(tracker') /\ \A x \in Requests \ {r} : tracker'[x] = tracker[x]
        /\ Tracked(tracker', r) <=> Tracked(tracker, r)
        /\ Tracked(tracker, r) /\ Legal(tracker[r].state, RunningAt(role)) =>
             /\ tracker'[r].state = RunningAt(role) /\ tracker'[r].instance[role] = i
             /\ \A q \in Roles \ {role} : tracker'[r].instance[q] = tracker[r].instance[q]
    <3> HIDE DEF r
    <3>1. QED  BY <1>1, <1>2, <2>1, TransitionAtEffect
  <2>4. QED  BY Zenon, <1>3, <2>2, <2>3
<1>5. /\ tta' \in [Roles -> Queue]
      /\ \A x : \A q \in Roles : InQueue(x, q)' <=> InQueue(x, q) /\ ~(q = role /\ x = r)
  <2>1. /\ tta' \in [Roles -> Queue]
        /\ \A x : \A q \in Roles : InQueue(x, q)' <=> InQueue(x, q) /\ ~(q = role /\ x \in {r})
    BY Zenon, <1>1, <1>2, Dequeued
  <2>2. QED  BY Zenon, <2>1
<1>6. QED  BY Zenon, <1>2, <1>4, <1>5

-------------------------------------------------------------------------------
(* A message is handled and at most one is sent, about the same request.   *)

Answers(m, N) == \A n \in N : n.id = m.id /\ n.type # "REGISTER" /\ MessageOK(n)

(* After message m is handled the only messages about its request are the  *)
(* ones sent in answer.                                                    *)
LEMMA TokenConsumed ==
  ASSUME OneToken, FreshRequests, MessagesOK, NEW m \in Tokens(net), NEW N,
         Answers(m, N), net' = (net \ {m}) \cup N
  PROVE  /\ m.id \in Requests
         /\ \A k \in Tokens(net') : IF k.id = m.id THEN k \in N ELSE k \in net
         /\ \A c \in Clients : inbox[c] # "taken" => IdOf[c] # m.id
         /\ \A q \in Roles : ~InQueue(m.id, q)
         /\ InTransfer(m.id)' <=>
              \E n \in N : n.type \in {"ALLOC", "ALLOCATED", "PUSH", "PUSHED"}
         /\ MessagesOK'
<1>1. m.id \in Requests /\ m.id # None
  BY Zenon, DeploymentAssumption DEF OneToken
<1>2. \A k \in Tokens(net') : IF k.id = m.id THEN k \in N ELSE k \in net
  BY Zenon DEF OneToken, Tokens, Answers
<1>3. \A c \in Clients : inbox[c] # "taken" => IdOf[c] # m.id
  BY Zenon, <1>1 DEF FreshRequests
<1>4. InTransfer(m.id)' <=>
        \E n \in N : n.type \in {"ALLOC", "ALLOCATED", "PUSH", "PUSHED"}
  BY Zenon, <1>2 DEF InTransfer, Tokens, Answers
<1>5. QED  BY Zenon, <1>1, <1>2, <1>3, <1>4 DEF OneToken, MessagesOK, Answers

(* A message handled without an answer leaves no message about its         *)
(* request.                                                                *)
LEMMA LastToken ==
  ASSUME OneToken, FreshRequests, MessagesOK, NEW m \in Tokens(net), net' = net \ {m}
  PROVE  /\ m.id \in Requests
         /\ \A k \in Tokens(net') : k.id # m.id /\ k \in net
         /\ \A c \in Clients : inbox[c] # "taken" => IdOf[c] # m.id
         /\ \A q \in Roles : ~InQueue(m.id, q)
         /\ MessagesOK'
<1>1. m.id \in Requests /\ m.id # None
  BY Zenon, DeploymentAssumption DEF OneToken
<1>2. QED  BY Zenon, <1>1 DEF OneToken, FreshRequests, MessagesOK, Tokens

(* What a role does with a message.                                        *)
RoleAnswers(m, N) ==
  /\ Answers(m, N)
  /\ \A n, k \in N : n = k
  /\ \A n \in N : /\ StateOf(n) = StateOf(m)
                  /\ n.type \in {"ALLOC", "ALLOCATED", "PUSH", "PUSHED"}
                     => m.type \in {"ALLOC", "ALLOCATED", "PUSH", "PUSHED"}

(* What one answer has to satisfy.                                         *)
LEMMA SingleAnswer ==
  ASSUME NEW m, NEW n, n.id = m.id, n.type # "REGISTER", MessageOK(n),
         StateOf(n) = StateOf(m),
         n.type \in {"ALLOC", "ALLOCATED", "PUSH", "PUSHED"}
           => m.type \in {"ALLOC", "ALLOCATED", "PUSH", "PUSHED"}
  PROVE  RoleAnswers(m, {n})
BY Zenon DEF RoleAnswers, Answers

(* A step of a role instance consumes one message and answers it with at   *)
(* most one, about the same request and the same stage of it.              *)
LEMMA RoleStep ==
  ASSUME MessagesOK, RolesNext
  PROVE  \E m \in Tokens(net) : \E N : net' = (net \ {m}) \cup N /\ RoleAnswers(m, N)
<1> PICK m \in net : \/ EncoderStep(m) \/ RdmaPush(m) \/ HandleAlloc(m) \/ Prefetch(m)
                     \/ DenoiserCompute(m) \/ DecoderCompute(m) \/ HandlerRaises(m)
  BY Zenon DEF RolesNext
<1> SUFFICES /\ m \in Tokens(net)
             /\ \E N : net' = (net \ {m}) \cup N /\ RoleAnswers(m, N)
  BY Zenon
<1>a. MessageOK(m)
  BY Zenon DEF MessagesOK
<1>0. RoleAnswers(m, {})
  BY Zenon DEF RoleAnswers, Answers
<1>1. CASE EncoderStep(m)
  <2>1. m.type = "REQUEST"
    BY Zenon, <1>1 DEF EncoderStep
  <2>2. \/ \E size \in DataSizes : net' = (net \ {m}) \cup {STAGED(m.inst, m.id, size)}
        \/ net' = (net \ {m}) \cup {ERROR(m.inst, m.id)}
    BY Zenon, <1>1 DEF EncoderStep, Reply1
  <2>3. ASSUME NEW size \in DataSizes
        PROVE  RoleAnswers(m, {STAGED(m.inst, m.id, size)})
    <3>1. size \in Nat
      BY Zenon, DeploymentAssumption
    <3>2. QED  BY <2>1, <3>1 DEF RoleAnswers, Answers, MessageOK, STAGED, StateOf, Roles
  <2>4. RoleAnswers(m, {ERROR(m.inst, m.id)})
    BY <2>1 DEF RoleAnswers, Answers, MessageOK, ERROR, StateOf, Roles
  <2>5. QED  BY Zenon, <2>1, <2>2, <2>3, <2>4 DEF Tokens
<1>2. CASE RdmaPush(m)
  <2>1. m.type = "PUSH" /\ net' = (net \ {m}) \cup {PUSHED(m.role, m.inst, m.id)}
    BY Zenon, <1>2 DEF RdmaPush, Reply1
  <2>2. RoleAnswers(m, {PUSHED(m.role, m.inst, m.id)})
    BY <1>a, <2>1 DEF RoleAnswers, Answers, MessageOK, PUSHED, StateOf
  <2>3. QED  BY Zenon, <2>1, <2>2 DEF Tokens
<1>3. CASE HandleAlloc(m)
  <2>1. m.type = "ALLOC"
    BY Zenon, <1>3 DEF HandleAlloc
  <2>2. ASSUME NEW s \in Slots,
               net' = (net \ {m}) \cup {ALLOCATED(m.role, m.inst, m.id, At(m.role, m.inst, s))}
        PROVE  \E N : net' = (net \ {m}) \cup N /\ RoleAnswers(m, N)
    <3> DEFINE a == At(m.role, m.inst, s)
               n == ALLOCATED(m.role, m.inst, m.id, a)
    <3>1. m.role \in Roles /\ m.inst \in Inst(m.role)
      BY Zenon, <1>a, <2>1 DEF MessageOK
    <3>2. m.inst \in Nat
      BY Zenon, <3>1, InstancesAreNumbers
    <3>3. a \in Addr
      BY Zenon, <3>1, <3>2 DEF At, Addr
    <3> HIDE DEF a
    <3>4. n.type = "ALLOCATED" /\ n.role = m.role /\ n.id = m.id /\ n.addr = a
      BY Zenon DEF ALLOCATED
    <3> HIDE DEF n
    <3>5. MessageOK(n) /\ StateOf(n) = StateOf(m)
      BY Zenon, <2>1, <3>1, <3>3, <3>4 DEF MessageOK, StateOf
    <3>6. RoleAnswers(m, {n})
      BY Zenon, <2>1, <3>4, <3>5, SingleAnswer
    <3>7. QED  BY Zenon, <2>2, <3>6 DEF n, a
  <2>3. CASE net' = net \ {m}
    <3>1. net' = (net \ {m}) \cup {}
      BY Zenon, <2>3
    <3>2. QED  BY Zenon, <1>0, <2>1, <3>1 DEF Tokens
  <2>4. QED  BY Zenon, <1>3, <2>1, <2>2, <2>3 DEF HandleAlloc, Reply1, Tokens
<1>4. CASE Prefetch(m)
  <2>1. m.type = "READY"
    BY Zenon, <1>4 DEF Prefetch
  <2>2. ASSUME NEW d, net' = (net \ {m}) \cup {COMPUTE(m.role, m.inst, m.id, m.pre, d)}
        PROVE  \E N : net' = (net \ {m}) \cup N /\ RoleAnswers(m, N)
    <3>1. RoleAnswers(m, {COMPUTE(m.role, m.inst, m.id, m.pre, d)})
      BY <1>a, <2>1 DEF RoleAnswers, Answers, MessageOK, COMPUTE, StateOf
    <3>2. QED  BY Zenon, <2>2, <3>1
  <2>3. CASE net' = net \ {m}
    <3>1. net' = (net \ {m}) \cup {}
      BY Zenon, <2>3
    <3>2. QED  BY Zenon, <1>0, <2>1, <3>1 DEF Tokens
  <2>4. QED  BY Zenon, <1>4, <2>1, <2>2, <2>3 DEF Prefetch, Reply1, Tokens
<1>5. CASE DenoiserCompute(m)
  <2>1. m.type = "COMPUTE" /\ m.role = "denoiser"
    BY Zenon, <1>5 DEF DenoiserCompute
  <2>2. \/ \E size \in DataSizes : net' = (net \ {m}) \cup {DONE(m.inst, m.id, FALSE, size)}
        \/ net' = (net \ {m}) \cup {DONE(m.inst, m.id, TRUE, 0)}
    BY Zenon, <1>5 DEF DenoiserCompute, Reply1
  <2>3. ASSUME NEW size \in DataSizes \cup {0}, NEW err
        PROVE  RoleAnswers(m, {DONE(m.inst, m.id, err, size)})
    <3>1. DataSizes \subseteq Nat
      BY Zenon, DeploymentAssumption
    <3>2. size \in Nat
      BY <3>1
    <3>3. QED  BY <2>1, <3>2 DEF RoleAnswers, Answers, MessageOK, DONE, StateOf, Roles
  <2>4. QED  BY Zenon, <2>1, <2>2, <2>3 DEF Tokens
<1>6. CASE DecoderCompute(m)
  <2>1. m.type = "COMPUTE" /\ m.role = "decoder"
    BY Zenon, <1>6 DEF DecoderCompute
  <2>2. PICK err, d : net' = (net \ {m}) \cup {OUTPUT(m.inst, m.id, err, d)}
    BY Zenon, <1>6 DEF DecoderCompute, Reply1
  <2> DEFINE n == OUTPUT(m.inst, m.id, err, d)
  <2>3. n.type = "OUTPUT" /\ n.role = "decoder" /\ n.id = m.id
    BY Zenon DEF OUTPUT
  <2> HIDE DEF n
  <2>4. MessageOK(n) /\ StateOf(n) = StateOf(m)
    BY Zenon, <2>1, <2>3 DEF MessageOK, StateOf, Roles
  <2>5. RoleAnswers(m, {n})
    BY Zenon, <2>3, <2>4, SingleAnswer
  <2>6. QED  BY Zenon, <2>1, <2>2, <2>5 DEF Tokens, n
<1>7. CASE HandlerRaises(m)
  <2>1. m.type # "REGISTER" /\ net' = (net \ {m}) \cup {}
    BY Zenon, <1>7 DEF HandlerRaises
  <2>2. QED  BY Zenon, <1>0, <2>1 DEF Tokens
<1>8. QED  BY Zenon, <1>1, <1>2, <1>3, <1>4, <1>5, <1>6, <1>7

-------------------------------------------------------------------------------
(* What the server knows of a request.                                     *)

(* The other half of TokenState: a record that waits has its queue entry,  *)
(* and whoever is tracked has a client to answer.                          *)
Consistent(r) ==
  /\ pending[r] # None <=> Tracked(tracker, r)
  /\ Tracked(tracker, r) =>
       \A q \in Roles : tracker[r].state = WaitingFor(q) => InQueue(r, q)

AllConsistent == \A r \in Requests : Consistent(r)

(* It is what TrackerConsistent adds to SlotInvariant.                     *)
LEMMA ConsistentTracker ==
  ASSUME SlotInvariant, AllConsistent
  PROVE  TrackerConsistent
BY Zenon DEF TrackerConsistent, AllConsistent, Consistent, SlotInvariant, TokenState, InQueue,
  WaitingFor, Roles

(* A step that only moves request r.                                       *)
LEMMA OneMoves ==
  ASSUME AllConsistent, NEW r, Consistent(r)',
         \A x \in Requests \ {r} : /\ tracker'[x] = tracker[x]
                                   /\ pending'[x] = pending[x]
                                   /\ \A q \in Roles : InQueue(x, q) => InQueue(x, q)'
  PROVE  AllConsistent'
BY Zenon DEF AllConsistent, Consistent, Tracked

(* A step that moves none.                                                 *)
LEMMA NoneMoves ==
  ASSUME AllConsistent, UNCHANGED <<tracker, pending, tta>>
  PROVE  AllConsistent'
BY Zenon DEF AllConsistent, Consistent, Tracked, InQueue

(* The server answers for a request and forgets it.                        *)
LEMMA CompleteConsistent ==
  ASSUME SlotInvariant, AllConsistent, NEW r \in Requests, NEW kind, NEW data,
         Complete(r, kind, data), tta' = tta
  PROVE  AllConsistent'
<1>1. /\ ~Tracked(tracker', r) /\ \A x \in Requests \ {r} : tracker'[x] = tracker[x]
  BY Zenon, RemoveEffect DEF Complete, SlotInvariant, ServerTypeOK, TrackerOK
<1>2. pending'[r] = None /\ \A x \in Requests \ {r} : pending'[x] = pending[x]
  BY Zenon DEF Complete, PopPending
<1>3. Consistent(r)'
  BY Zenon, <1>1, <1>2 DEF Consistent
<1>4. QED  BY Zenon, <1>1, <1>2, <1>3, OneMoves DEF InQueue

(* _handle_timeouts answers, forgets and dequeues the same requests.       *)
LEMMA PollConsistent ==
  ASSUME SlotInvariant, AllConsistent, Poll
  PROVE  AllConsistent'
<1> DEFINE T == FindTimedOut(tracker, horizon)
<1>1. /\ tracker' = [r \in Requests |-> IF r \in T THEN None ELSE tracker[r]]
      /\ pending' = PopPending(T) /\ tta' = [q \in Roles |-> Without(tta[q], T)]
  BY Zenon DEF Poll, HandleTimeouts
<1> HIDE DEF T
<1>2. ASSUME NEW r \in Requests, NEW q \in Roles, r \notin T, InQueue(r, q)
      PROVE  InQueue(r, q)'
  <2>1. tta[q] \in Queue /\ tta'[q] = Without(tta[q], T)
    BY Zenon, <1>1 DEF SlotInvariant, ServerTypeOK, Queue
  <2>2. QED  BY <1>2, <2>1, WithoutEffect DEF InQueue
<1>3. ASSUME NEW r \in Requests
      PROVE  Consistent(r)'
  <2>1. tracker'[r] = (IF r \in T THEN None ELSE tracker[r])
        /\ pending'[r] = (IF r \in T THEN None ELSE pending[r])
    BY Zenon, <1>1 DEF PopPending
  <2>2. QED  BY Zenon, <1>2, <2>1 DEF AllConsistent, Consistent, Tracked
<1>4. QED  BY Zenon, <1>3 DEF AllConsistent

(* _handle_client_request                                                  *)
LEMMA ClientRequestConsistent ==
  ASSUME SlotInvariant, AllConsistent, NEW c \in Clients, HandleClientRequest(c)
  PROVE  AllConsistent'
<1> DEFINE r == IdOf[c]
<1>1. CASE r = None \/ IsDuplicate(r)
  <2>1. UNCHANGED <<tracker, pending, tta>>
    BY Zenon, <1>1 DEF HandleClientRequest
  <2>2. QED  BY Zenon, <2>1, NoneMoves
<1>2. CASE r # None /\ ~IsDuplicate(r)
  <2>1. /\ tracker' = Transition(Submit(tracker, r, now + 1), r, "ENCODER_WAITING")
        /\ pending' = [pending EXCEPT ![r] = c]
        /\ tta' = [tta EXCEPT !["encoder"] = Enqueue(@, r)]
    BY Zenon, <1>2 DEF HandleClientRequest
  <2>2. r \in Requests /\ TrackerOK(tracker) /\ tta \in [Roles -> Queue] /\ c # None
        /\ pending \in [Requests -> Clients \cup {None}]
    BY Zenon, <1>2, DeploymentAssumption DEF SlotInvariant, ServerTypeOK, TrackerOK, Queue
  <2>3. now + 1 \in Nat
    BY DEF SlotInvariant, ServerTypeOK
  <2>4. /\ \A x \in Requests \ {r} : tracker'[x] = tracker[x]
        /\ Tracked(tracker', r) /\ tracker'[r].state = "ENCODER_WAITING"
    BY ZenonT(60), <2>1, <2>2, <2>3, SubmitEffect
  <2>5. \A x : \A q \in Roles : InQueue(x, q)' <=> InQueue(x, q) \/ (q = "encoder" /\ x = r)
    BY Zenon, <2>1, <2>2, Enqueued DEF Roles
  <2>6. pending'[r] = c /\ \A x \in Requests \ {r} : pending'[x] = pending[x]
    BY Zenon, <2>1, <2>2
  <2> HIDE DEF r
  <2>7. Consistent(r)'
    BY Zenon, <2>2, <2>4, <2>5, <2>6 DEF Consistent, WaitingFor, Roles
  <2>8. QED  BY Zenon, <2>4, <2>5, <2>6, <2>7, OneMoves
<1>3. QED  BY Zenon, <1>1, <1>2

(* A request leaves one stage and waits for that of role.                  *)
LEMMA HandedOnConsistent ==
  ASSUME SlotInvariant, AllConsistent, NEW r \in Requests, NEW role \in Roles,
         tta' = [tta EXCEPT ![role] = Enqueue(@, r)], pending' = pending,
         \A x \in Requests \ {r} : tracker'[x] = tracker[x],
         Tracked(tracker', r) <=> Tracked(tracker, r),
         Tracked(tracker', r) => tracker'[r].state = WaitingFor(role)
  PROVE  AllConsistent'
<1>1. \A x : \A q \in Roles : InQueue(x, q)' <=> InQueue(x, q) \/ (q = role /\ x = r)
  BY Zenon, Enqueued DEF SlotInvariant, ServerTypeOK, Queue
<1>2. \A q \in Roles : WaitingFor(q) = WaitingFor(role) => q = role
  BY DEF WaitingFor, Roles
<1>3. Consistent(r)'
  BY <1>1, <1>2 DEF AllConsistent, Consistent
<1>4. QED  BY Zenon, <1>1, <1>3, OneMoves

(* Two transitions keep a request tracked or untracked.                    *)
LEMMA TwoTransitions ==
  ASSUME SlotInvariant, NEW r \in Requests,
         NEW mid \in ActiveStates \cup TerminalStates,
         NEW new \in ActiveStates \cup TerminalStates,
         tracker' = Transition(Transition(tracker, r, mid), r, new)
  PROVE  Tracked(tracker', r) <=> Tracked(tracker, r)
<1> DEFINE t == Transition(tracker, r, mid)
<1>1. TrackerOK(tracker)
  BY Zenon DEF SlotInvariant, ServerTypeOK, TrackerOK
<1>2. TrackerOK(t) /\ (Tracked(t, r) <=> Tracked(tracker, r))
  BY Zenon, <1>1, TransitionEffect
<1> HIDE DEF t
<1>3. Tracked(Transition(t, r, new), r) <=> Tracked(t, r)
  BY Zenon, <1>2, TransitionEffect
<1>4. QED  BY Zenon, <1>2, <1>3 DEF t

(* _handle_transfer_staged                                                 *)
LEMMA StagedConsistent ==
  ASSUME SlotInvariant, AllConsistent, NEW m \in net, HandleStaged(m)
  PROVE  AllConsistent'
<1> DEFINE r == m.id
<1>1. /\ m \in Tokens(net) /\ m.type = "STAGED"
      /\ tracker' = Transition(Transition(tracker, r, "ENCODER_DONE"), r, "DENOISING_WAITING")
      /\ tta' = [tta EXCEPT !["denoiser"] = Enqueue(@, r)] /\ pending' = pending
  BY Zenon DEF HandleStaged, Tokens
<1>2. r \in Requests /\ TrackerOK(tracker)
      /\ (Tracked(tracker, r) => tracker[r].state = "ENCODER_RUNNING")
  BY Zenon, <1>1 DEF SlotInvariant, OneToken, ServerTypeOK, TrackerOK, TokenState, StateOf
<1>3. /\ "ENCODER_DONE" \in ActiveStates \cup TerminalStates
      /\ "DENOISING_WAITING" \in ActiveStates \cup TerminalStates
      /\ Legal("ENCODER_RUNNING", "ENCODER_DONE") /\ Legal("ENCODER_DONE", "DENOISING_WAITING")
  BY Zenon DEF ActiveStates, Legal, ValidTransitions, TerminalStates
<1>4. /\ TrackerOK(tracker') /\ \A x \in Requests \ {r} : tracker'[x] = tracker[x]
      /\ Tracked(tracker', r) => /\ Tracked(tracker, r)
                                 /\ tracker[r].state = "ENCODER_RUNNING"
                                 /\ tracker'[r].state = "DENOISING_WAITING"
                                 /\ tracker'[r].instance = tracker[r].instance
  BY Zenon, <1>1, <1>2, <1>3, HandedOn
<1>5. Tracked(tracker', r) <=> Tracked(tracker, r)
  BY Zenon, <1>1, <1>2, <1>3, TwoTransitions
<1>6. "denoiser" \in Roles /\ WaitingFor("denoiser") = "DENOISING_WAITING"
  BY Zenon DEF Roles, WaitingFor
<1> HIDE DEF r
<1>7. QED  BY Zenon, <1>1, <1>2, <1>4, <1>5, <1>6, HandedOnConsistent

(* _handle_transfer_done                                                   *)
LEMMA DoneConsistent ==
  ASSUME SlotInvariant, AllConsistent, NEW m \in net, HandleDone(m)
  PROVE  AllConsistent'
<1> DEFINE r == m.id
<1>1. /\ m \in Tokens(net) /\ m.type = "DONE"
      /\ \/ Complete(r, "error", None) /\ tta' = tta
         \/ /\ transfer[r] = None /\ tracker' = Transition(tracker, r, "DENOISING_DONE")
            /\ UNCHANGED <<tta, pending>>
         \/ /\ tracker' = Transition(Transition(tracker, r, "DENOISING_DONE"),
                                     r, "DECODER_WAITING")
            /\ tta' = [tta EXCEPT !["decoder"] = Enqueue(@, r)] /\ pending' = pending
  BY Zenon DEF HandleDone, Tokens
<1>2. r \in Requests /\ TrackerOK(tracker)
      /\ (Tracked(tracker, r) => tracker[r].state = "DENOISING_RUNNING")
  BY Zenon, <1>1 DEF SlotInvariant, OneToken, ServerTypeOK, TrackerOK, TokenState, StateOf
<1>3. CASE Complete(r, "error", None) /\ tta' = tta
  BY Zenon, <1>2, <1>3, CompleteConsistent
<1>4. CASE /\ transfer[r] = None /\ tracker' = Transition(tracker, r, "DENOISING_DONE")
           /\ UNCHANGED <<tta, pending>>
  <2>1. ~Tracked(tracker, r)
    BY Zenon, <1>2, <1>4 DEF SlotInvariant, TransferKept, InState, PastEncoder
  <2>2. tracker' = tracker
    BY Zenon, <1>4, <2>1 DEF Transition
  <2>3. QED  BY Zenon, <1>4, <2>2, NoneMoves
<1>5. CASE /\ tracker' = Transition(Transition(tracker, r, "DENOISING_DONE"),
                                    r, "DECODER_WAITING")
           /\ tta' = [tta EXCEPT !["decoder"] = Enqueue(@, r)] /\ pending' = pending
  <2>1. /\ "DENOISING_DONE" \in ActiveStates \cup TerminalStates
        /\ "DECODER_WAITING" \in ActiveStates \cup TerminalStates
        /\ Legal("DENOISING_RUNNING", "DENOISING_DONE") /\ Legal("DENOISING_DONE", "DECODER_WAITING")
    BY Zenon DEF ActiveStates, Legal, ValidTransitions, TerminalStates
  <2>2. /\ TrackerOK(tracker') /\ \A x \in Requests \ {r} : tracker'[x] = tracker[x]
        /\ Tracked(tracker', r) => /\ Tracked(tracker, r)
                                   /\ tracker[r].state = "DENOISING_RUNNING"
                                   /\ tracker'[r].state = "DECODER_WAITING"
                                   /\ tracker'[r].instance = tracker[r].instance
    BY Zenon, <1>2, <1>5, <2>1, HandedOn
  <2>3. Tracked(tracker', r) <=> Tracked(tracker, r)
    BY Zenon, <1>2, <1>5, <2>1, TwoTransitions
  <2>4. "decoder" \in Roles /\ WaitingFor("decoder") = "DECODER_WAITING"
    BY Zenon DEF Roles, WaitingFor
  <2> HIDE DEF r
  <2>5. QED  BY Zenon, <1>2, <1>5, <2>2, <2>3, <2>4, HandedOnConsistent
<1>6. QED  BY Zenon, <1>1, <1>3, <1>4, <1>5

(* The head of a queue is dispatched and runs.                             *)
LEMMA DispatchConsistent ==
  ASSUME SlotInvariant, AllConsistent, NEW role \in Roles, NEW i \in Inst(role),
         NEW e \in tta[role], Dispatch(role, e, i, RunningAt(role))
  PROVE  AllConsistent'
<1> DEFINE r == e.id
<1>1. /\ r \in Requests
      /\ \A x \in Requests \ {r} : tracker'[x] = tracker[x]
      /\ Tracked(tracker', r) => Tracked(tracker, r) /\ tracker'[r].state = RunningAt(role)
      /\ \A x : \A q \in Roles : InQueue(x, q)' <=> InQueue(x, q) /\ ~(q = role /\ x = r)
  BY DispatchEffect
<1>2. pending' = pending /\ tracker' = TransitionAt(tracker, r, RunningAt(role), role, i)
  BY Zenon DEF Dispatch
<1>3. Tracked(tracker, r) => Tracked(tracker', r)
  <2>1. TrackerOK(tracker) /\ RunningAt(role) \in ActiveStates \cup TerminalStates
    BY Zenon DEF SlotInvariant, ServerTypeOK, TrackerOK, RunningAt, ActiveStates
  <2>2. QED  BY Zenon, <1>1, <1>2, <2>1, TransitionAtEffect
<1>4. \A q \in Roles : WaitingFor(q) # RunningAt(role)
  BY Zenon DEF WaitingFor, RunningAt, Roles
<1> HIDE DEF r
<1>5. Consistent(r)'
  BY Zenon, <1>1, <1>2, <1>3, <1>4 DEF AllConsistent, Consistent
<1>6. QED  BY Zenon, <1>1, <1>2, <1>5, OneMoves

(* Every step keeps what the server knows of its requests consistent.      *)
LEMMA NextConsistent ==
  ASSUME SlotInvariant, AllConsistent, [Next]_vars
  PROVE  AllConsistent'
<1>1. CASE \/ \E c \in Clients : ClientSend(c)
           \/ Tick \/ UNCHANGED serverVars
           \/ \E m \in net : HandleRegister(m) \/ HandleAllocated(m) \/ HandlePushed(m)
  <2>1. UNCHANGED <<tracker, pending, tta>>
    BY Zenon, <1>1
      DEF ClientSend, Tick, serverVars, HandleRegister, HandleAllocated, HandlePushed
  <2>2. QED  BY Zenon, <2>1, NoneMoves
<1>2. ASSUME NEW m \in net, HandleError(m) \/ HandleOutput(m)
      PROVE  AllConsistent'
  <2>1. m \in Tokens(net) /\ tta' = tta /\ \E kind, data : Complete(m.id, kind, data)
    BY Zenon, <1>2 DEF HandleError, HandleOutput, Tokens
  <2>2. m.id \in Requests
    BY Zenon, <2>1 DEF SlotInvariant, OneToken
  <2>3. QED  BY Zenon, <2>1, <2>2, CompleteConsistent
<1>3. ASSUME NEW i \in Inst("encoder"), NEW e \in tta["encoder"], DispatchToEncoder(e, i)
      PROVE  AllConsistent'
  <2>1. "encoder" \in Roles /\ Dispatch("encoder", e, i, RunningAt("encoder"))
    BY Zenon, <1>3 DEF DispatchToEncoder, RunningAt, Roles
  <2>2. QED  BY Zenon, <2>1, DispatchConsistent
<1>4. ASSUME NEW role \in Receivers, NEW i \in Inst(role), NEW e \in tta[role],
             DispatchTransfer(role, e, i)
      PROVE  AllConsistent'
  <2>1. role \in Roles /\ Dispatch(role, e, i, RunningAt(role))
    BY Zenon, <1>4 DEF DispatchTransfer, RunningAt, Receivers, Roles
  <2>2. QED  BY Zenon, <2>1, DispatchConsistent
<1>5. CASE ServerNext
  BY Zenon, <1>1, <1>2, <1>3, <1>4, <1>5, PollConsistent, ClientRequestConsistent,
     StagedConsistent, DoneConsistent DEF ServerNext
<1>6. QED  BY Zenon, <1>1, <1>5 DEF Next, vars, serverVars

(* At start nothing is tracked and nobody waits.                           *)
LEMMA InitConsistent == Init => AllConsistent
BY Zenon DEF Init, ServerInit, AllConsistent, Consistent, Tracked
===============================================================================
