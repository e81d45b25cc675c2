------------------------ MODULE DisaggOwnershipProofs -------------------------
(***************************************************************************)
(* Every step of the server hands a block to one request only: it          *)
(* preserves OwnershipInvariant, given SlotInvariant.                      *)
(***************************************************************************)
EXTENDS DisaggPoolProofs, DisaggTrackerProofs

(* A step of the server that is about request r only.                      *)
LEMMA ServerMoves ==
  ASSUME SlotInvariant, OwnershipInvariant, UNCHANGED roleVars, NEW r \in Requests,
         \A k \in net' : \/ k \in net
                         \/ k.type # "REGISTER" /\ k.id = r /\ k.inst \in Inst(k.role),
         \A k \in Tokens(net') : k.id = r => TokenOK(k)',
         \A q \in Receivers : InQueue(r, q)' => Waits(r, q)',
         \A x \in Requests \ {r} : /\ transfer'[x] = transfer[x] /\ tracker'[x] = tracker[x]
                                   /\ \A q \in Receivers : InQueue(x, q)' => InQueue(x, q),
         ClaimsApart'
  PROVE  OwnershipInvariant'
<1> DEFINE M == {r}
<1>1. MessagesOK /\ OneToken /\ InstancesExist /\ TokensOK
  BY Zenon DEF SlotInvariant, OwnershipInvariant
<1>2. RolesTypeOK' /\ PoolsApart' /\ \A x \in Requests : EntriesKept(x)
  BY Zenon, PoolsUntouched DEF roleVars
<1>3. \A x \in Requests \ M : Kept(x)
  BY Zenon, <1>2 DEF Kept
<1>4. \A k \in net' : \/ k \in net
                      \/ k.type # "REGISTER" /\ k.id \in M /\ k.inst \in Inst(k.role)
  BY Zenon
<1>5. \A k \in Tokens(net') : k.id \in M => TokenOK(k)'
  BY Zenon
<1>6. \A y \in M : \A q \in Receivers : InQueue(y, q)' => Waits(y, q)'
  BY Zenon
<1> HIDE DEF M
<1>7. InstancesExist' /\ TokensOK'
  BY Zenon, <1>1, <1>3, <1>4, <1>5, <1>6, TokensStep
<1>8. QED  BY Zenon, <1>2, <1>7 DEF OwnershipInvariant

(* A step of the server that at most forgets requests.                     *)
LEMMA ServerForgets ==
  ASSUME SlotInvariant, OwnershipInvariant, UNCHANGED roleVars, transfer' = transfer,
         net' \subseteq net,
         \A x \in Requests : /\ tracker'[x] = tracker[x] \/ tracker'[x] = None
                             /\ \A q \in Receivers : InQueue(x, q)' => InQueue(x, q),
         ClaimsApart'
  PROVE  OwnershipInvariant'
<1> DEFINE M == {}
<1>1. MessagesOK /\ OneToken /\ InstancesExist /\ TokensOK
  BY Zenon DEF SlotInvariant, OwnershipInvariant
<1>2. RolesTypeOK' /\ PoolsApart' /\ \A x \in Requests : EntriesKept(x)
  BY Zenon, PoolsUntouched DEF roleVars
<1>3. \A x \in Requests \ M : Kept(x)
  BY Zenon, <1>2 DEF Kept
<1>4. \A k \in net' : \/ k \in net
                      \/ k.type # "REGISTER" /\ k.id \in M /\ k.inst \in Inst(k.role)
  BY Zenon
<1>5. /\ \A k \in Tokens(net') : k.id \in M => TokenOK(k)'
      /\ \A y \in M : \A q \in Receivers : InQueue(y, q)' => Waits(y, q)'
  BY Zenon
<1> HIDE DEF M
<1>6. InstancesExist' /\ TokensOK'
  BY Zenon, <1>1, <1>3, <1>4, <1>5, TokensStep
<1>7. QED  BY Zenon, <1>2, <1>6 DEF OwnershipInvariant

(* Steps that leave messages, lists and transfers alone keep the claims.   *)
LEMMA ClaimsUntouched ==
  ASSUME OwnershipInvariant, transfer' = transfer, peers' = peers,
         \A k \in net' : k \in net \/ k.type # "REGISTER"
  PROVE  ClaimsApart'
<1>1. \A x \in Requests : Claims(x)' => Claims(x) /\ transfer'[x] = transfer[x]
  BY Zenon DEF Claims
<1>2. \A q \in Roles : \A i \in Inst(q) : REGISTER(q, i) \in net' => REGISTER(q, i) \in net
  BY Zenon DEF REGISTER
<1>3. QED  BY Zenon, <1>1, <1>2, NothingClaimed DEF OwnershipInvariant

(* A client sends, time passes, or nothing happens.                        *)
LEMMA OutsideOwnership ==
  ASSUME SlotInvariant, OwnershipInvariant, UNCHANGED roleVars,
         UNCHANGED <<net, tracker, tta, transfer, peers>>
  PROVE  OwnershipInvariant'
<1>1. ClaimsApart'
  BY Zenon, ClaimsUntouched
<1>2. \A x \in Requests : /\ tracker'[x] = tracker[x] \/ tracker'[x] = None
                          /\ \A q \in Receivers : InQueue(x, q)' => InQueue(x, q)
  BY Zenon DEF InQueue
<1>3. QED  BY Zenon, <1>1, <1>2, ServerForgets

(* _handle_timeouts forgets requests, and leaves their blocks alone.       *)
LEMMA PollOwnership ==
  ASSUME SlotInvariant, OwnershipInvariant, UNCHANGED roleVars, Poll
  PROVE  OwnershipInvariant'
<1> DEFINE T == FindTimedOut(tracker, horizon)
<1>1. /\ tracker' = [r \in Requests |-> IF r \in T THEN None ELSE tracker[r]]
      /\ tta' = [q \in Roles |-> Without(tta[q], T)]
      /\ UNCHANGED <<transfer, peers, net>>
  BY Zenon DEF Poll, HandleTimeouts
<1> HIDE DEF T
<1>2. ASSUME NEW x \in Requests, NEW q \in Receivers, InQueue(x, q)'
      PROVE  InQueue(x, q)
  <2>1. q \in Roles /\ tta[q] \in Queue
    BY Zenon DEF SlotInvariant, ServerTypeOK, Queue, Receivers, Roles
  <2>2. tta'[q] = Without(tta[q], T)
    BY Zenon, <1>1, <2>1
  <2>3. QED  BY <1>2, <2>1, <2>2, WithoutEffect DEF InQueue
<1>3. ClaimsApart'
  BY Zenon, <1>1, ClaimsUntouched
<1>4. \A x \in Requests : /\ tracker'[x] = tracker[x] \/ tracker'[x] = None
                          /\ \A q \in Receivers : InQueue(x, q)' => InQueue(x, q)
  BY Zenon, <1>1, <1>2
<1>5. QED  BY Zenon, <1>1, <1>3, <1>4, ServerForgets

(* _handle_client_request takes up a request that owns nothing.            *)
LEMMA ClientRequestOwnership ==
  ASSUME SlotInvariant, OwnershipInvariant, UNCHANGED roleVars,
         NEW c \in Clients, HandleClientRequest(c)
  PROVE  OwnershipInvariant'
<1> DEFINE r == IdOf[c]
<1>1. /\ inbox[c] = "sent" /\ UNCHANGED <<transfer, peers, net>>
      /\ \/ UNCHANGED <<tracker, tta>>
         \/ /\ r # None
            /\ tracker' = Transition(Submit(tracker, r, now + 1), r, "ENCODER_WAITING")
            /\ tta' = [tta EXCEPT !["encoder"] = Enqueue(@, r)]
  BY Zenon DEF HandleClientRequest
<1>2. CASE UNCHANGED <<tracker, tta>>
  BY Zenon, <1>1, <1>2, OutsideOwnership
<1>3. ASSUME r # None,
             tracker' = Transition(Submit(tracker, r, now + 1), r, "ENCODER_WAITING"),
             tta' = [tta EXCEPT !["encoder"] = Enqueue(@, r)]
      PROVE  OwnershipInvariant'
  <2>1. r \in Requests /\ now + 1 \in Nat /\ TrackerOK(tracker) /\ tta \in [Roles -> Queue]
    BY <1>3, DeploymentAssumption DEF SlotInvariant, ServerTypeOK, TrackerOK, Queue
  <2>2. \A x \in Requests \ {r} : tracker'[x] = tracker[x]
    BY Zenon, <1>3, <2>1, SubmitEffect
  <2>3. \A x : \A q \in Receivers : InQueue(x, q)' <=> InQueue(x, q)
    <3>1. "encoder" \in Roles
      BY Zenon DEF Roles
    <3> HIDE DEF r
    <3>2. \A x : \A q \in Roles : InQueue(x, q)' <=> InQueue(x, q) \/ (q = "encoder" /\ x = r)
      BY Zenon, <1>3, <2>1, <3>1, Enqueued
    <3>3. QED  BY Zenon, <3>2 DEF Receivers, Roles
  <2>4. /\ \A k \in Tokens(net') : k.id # r
        /\ \A q \in Receivers : ~InQueue(r, q)
    BY Zenon, <1>1, <1>3 DEF SlotInvariant, FreshRequests, Receivers, Roles
  <2>5. ClaimsApart'
    BY Zenon, <1>1, ClaimsUntouched
  <2> HIDE DEF r
  <2>6. QED  BY Zenon, <1>1, <2>1, <2>2, <2>3, <2>4, <2>5, ServerMoves
<1>4. QED  BY Zenon, <1>1, <1>2, <1>3

-------------------------------------------------------------------------------

(* The lists of preallocated blocks, with v for instance i of role q.      *)
LEMMA ListAssigned ==
  ASSUME SlotInvariant, NEW q \in Roles, NEW i \in Inst(q), NEW v
  PROVE  \A p \in Roles : \A j \in Inst(p) :
           [peers EXCEPT ![q][i] = v][p][j] = IF p = q /\ j = i THEN v ELSE peers[p][j]
<1> DEFINE G == [peers[q] EXCEPT ![i] = v]
<1>1. DOMAIN peers = Roles /\ DOMAIN peers[q] = Inst(q)
  BY Zenon DEF SlotInvariant, ServerTypeOK
<1>2. G[i] = v /\ \A j \in Inst(q) \ {i} : G[j] = peers[q][j]
  BY Zenon, <1>1
<1>3. [peers EXCEPT ![q][i] = v] = [peers EXCEPT ![q] = G]
  BY Zenon
<1> HIDE DEF G
<1>4. QED  BY Zenon, <1>1, <1>2, <1>3

(* _handle_transfer_register lists blocks that nobody can have claimed.    *)
LEMMA RegisterOwnership ==
  ASSUME SlotInvariant, OwnershipInvariant, UNCHANGED roleVars,
         NEW m \in net, HandleRegister(m)
  PROVE  OwnershipInvariant'
<1> DEFINE q == m.role
           i == m.inst
           L == [k \in 1 .. NumPrealloc |->
                   [slot |-> k - 1, addr |-> At(q, i, k - 1), size |-> PreallocSize]]
           v == IF q = "encoder" THEN <<>> ELSE L
<1>1. /\ m.type = "REGISTER" /\ net' = net \ {m} /\ peers' = [peers EXCEPT ![q][i] = v]
      /\ UNCHANGED <<tracker, tta, transfer>>
  BY Zenon DEF HandleRegister
<1>2. q \in Roles /\ i \in Inst(q) /\ m = REGISTER(q, i)
  BY Zenon, <1>1 DEF SlotInvariant, MessagesOK, MessageOK, OwnershipInvariant, InstancesExist
<1>3. \A p \in Roles : \A j \in Inst(p) :
        peers'[p][j] = IF p = q /\ j = i THEN v ELSE peers[p][j]
  <2> HIDE DEF v, q, i
  <2>1. QED  BY <1>1, <1>2, ListAssigned
<1>4. ASSUME NEW r \in Requests, Claims(r)'
      PROVE  ClaimOK(r)' /\ Claims(r) /\ ClaimOK(r)
  <2>1. Claims(r) /\ ClaimOK(r)
    BY Zenon, <1>1, <1>4 DEF Claims, OwnershipInvariant, ClaimsApart
  <2>2. QED  BY Zenon, <1>1, <2>1 DEF ClaimOK
<1>5. ASSUME NEW p \in Receivers, NEW j \in Inst(p)
      PROVE  ListOK(p, j)'
  <2>1. p \in Roles /\ ListOK(p, j)
    BY Zenon DEF Receivers, Roles, OwnershipInvariant, ClaimsApart
  <2>2. CASE ~(p = q /\ j = i)
    <3>1. peers'[p][j] = peers[p][j]
      BY Zenon, <1>3, <2>1, <2>2
    <3>2. \A r \in Requests : Claims(r)' => Claims(r) /\ transfer'[r] = transfer[r]
      BY Zenon, <1>1, <1>4
    <3>3. REGISTER(p, j) \in net' => REGISTER(p, j) \in net
      BY Zenon, <1>1
    <3>4. QED  BY Zenon, <2>1, <3>1, <3>2, <3>3 DEF ListOK
  <2>3. CASE p = q /\ j = i
    <3>1. peers'[p][j] = L
      BY Zenon, <1>3, <2>1, <2>3 DEF Receivers
    <3>2. NumPrealloc \in Nat /\ Len(L) = NumPrealloc
      BY DeploymentAssumption
    <3>3. \A k \in 1 .. NumPrealloc :
            /\ L[k].slot = k - 1 /\ L[k].addr = At(p, j, k - 1) /\ L[k].size = PreallocSize
      BY Zenon, <2>3
    <3>4. REGISTER(p, j) \notin net' /\ REGISTER(p, j) \in net
      BY Zenon, <1>1, <1>2, <2>3
    <3>5. \A k \in 1 .. NumPrealloc : \A r \in Requests :
            Claims(r)' => transfer'[r].addr # At(p, j, k - 1)
      BY <1>1, <1>4, <3>4 DEF ClaimOK, At
    <3>6. PreallocSize <= PreallocSize /\ \A k \in 1 .. NumPrealloc : k - 1 \in Prealloc
      BY <3>2, DeploymentAssumption DEF Prealloc
    <3> HIDE DEF L
    <3>7. QED  BY <3>1, <3>2, <3>3, <3>4, <3>5, <3>6, SMTT(30) DEF ListOK
  <2>4. QED  BY Zenon, <2>2, <2>3
<1>6. ClaimsApart'
  <2>1. \A r, x \in Requests :
          (Claims(r) /\ Claims(x) /\ transfer[r].addr = transfer[x].addr)' => r = x
    BY Zenon, <1>1, <1>4 DEF OwnershipInvariant, ClaimsApart
  <2>2. QED  BY Zenon, <1>4, <1>5, <2>1 DEF ClaimsApart
<1>7. \A x \in Requests : /\ tracker'[x] = tracker[x] \/ tracker'[x] = None
                          /\ \A p \in Receivers : InQueue(x, p)' => InQueue(x, p)
  BY Zenon, <1>1 DEF InQueue
<1>8. QED  BY Zenon, <1>1, <1>6, <1>7, ServerForgets

(* The token of r is consumed and none is sent.                            *)
LEMMA ServerSilent ==
  ASSUME SlotInvariant, OwnershipInvariant, UNCHANGED roleVars, NEW m \in Tokens(net),
         net' = net \ {m},
         \A q \in Receivers : InQueue(m.id, q)' => Waits(m.id, q)',
         \A x \in Requests \ {m.id} :
           /\ transfer'[x] = transfer[x] /\ tracker'[x] = tracker[x]
           /\ \A q \in Receivers : InQueue(x, q)' => InQueue(x, q),
         ClaimsApart'
  PROVE  OwnershipInvariant'
<1>1. m.id \in Requests /\ \A k \in Tokens(net') : k.id # m.id
  BY Zenon DEF SlotInvariant, OneToken, Tokens
<1>2. \A k \in net' : k \in net
  BY Zenon
<1>3. QED  BY Zenon, <1>1, <1>2, ServerMoves

(* The token of r is consumed and message n is sent about it.              *)
LEMMA ServerSends ==
  ASSUME SlotInvariant, OwnershipInvariant, UNCHANGED roleVars, NEW m \in Tokens(net),
         NEW n, net' = (net \ {m}) \cup {n}, n.id = m.id, n.type # "REGISTER",
         n.inst \in Inst(n.role), \A k : k = n => TokenOK(k)', tta' = tta,
         \A x \in Requests \ {m.id} : transfer'[x] = transfer[x] /\ tracker'[x] = tracker[x],
         ClaimsApart'
  PROVE  OwnershipInvariant'
<1>1. /\ m.id \in Requests /\ \A k \in Tokens(net') : k.id = m.id => k = n
      /\ \A x : \A q \in Receivers : InQueue(x, q)' => InQueue(x, q) /\ x # m.id
  BY Zenon DEF SlotInvariant, OneToken, Tokens, InQueue, Receivers, Roles
<1>2. \A k \in net' : \/ k \in net
                      \/ k.type # "REGISTER" /\ k.id = m.id /\ k.inst \in Inst(k.role)
  BY Zenon
<1>3. \A k \in Tokens(net') : k.id = m.id => TokenOK(k)'
  BY Zenon, <1>1
<1>4. QED  BY Zenon, <1>1, <1>2, <1>3, ServerMoves

(* _handle_role_error_frames forgets a request whose output was not staged.*)
LEMMA ErrorOwnership ==
  ASSUME SlotInvariant, OwnershipInvariant, UNCHANGED roleVars,
         NEW m \in net, HandleError(m)
  PROVE  OwnershipInvariant'
<1>1. /\ m.type = "ERROR" /\ net' = net \ {m} /\ tracker' = Remove(tracker, m.id)
      /\ UNCHANGED <<tta, transfer, peers>>
  BY Zenon DEF HandleError, Complete
<1>2. m \in Tokens(net) /\ m.id \in Requests /\ TrackerOK(tracker)
  BY Zenon, <1>1, MessageKnown DEF SlotInvariant, ServerTypeOK, TrackerOK
<1>3. \A q \in Receivers : ~InQueue(m.id, q)'
  BY Zenon, <1>1, <1>2 DEF SlotInvariant, OneToken, InQueue, Receivers, Roles
<1>4. \A x \in Requests \ {m.id} :
        /\ transfer'[x] = transfer[x] /\ tracker'[x] = tracker[x]
        /\ \A q \in Receivers : InQueue(x, q)' => InQueue(x, q)
  BY Zenon, <1>1, <1>2, RemoveEffect DEF InQueue
<1>5. ClaimsApart'
  BY Zenon, <1>1, ClaimsUntouched
<1>6. QED  BY Zenon, <1>1, <1>2, <1>3, <1>4, <1>5, ServerSilent

(* A transfer state without a preallocated block claims nothing.           *)
LEMMA NoClaimOf ==
  ASSUME OwnershipInvariant, NEW r \in Requests, ~Claims(r)', peers' = peers,
         \A x \in Requests \ {r} : transfer'[x] = transfer[x],
         \A k \in net' : k \in net \/ k.type # "REGISTER"
  PROVE  ClaimsApart'
<1>1. \A x \in Requests : Claims(x)' => Claims(x) /\ transfer'[x] = transfer[x]
  BY Zenon DEF Claims
<1>2. \A q \in Roles : \A i \in Inst(q) : REGISTER(q, i) \in net' => REGISTER(q, i) \in net
  BY Zenon DEF REGISTER
<1>3. QED  BY Zenon, <1>1, <1>2, NothingClaimed DEF OwnershipInvariant

(* _handle_transfer_staged queues the request for a denoiser, and records  *)
(* where its output is.                                                    *)
LEMMA StagedOwnership ==
  ASSUME SlotInvariant, OwnershipInvariant, UNCHANGED roleVars,
         NEW m \in net, HandleStaged(m)
  PROVE  OwnershipInvariant'
<1> DEFINE r == m.id
           ts == [size |-> m.size,
                  sender |-> IF Tracked(tracker, r)
                             THEN tracker[r].instance["encoder"] ELSE 0,
                  receiver |-> None, addr |-> None, pre |-> None]
<1>1. /\ m.type = "STAGED" /\ net' = net \ {m} /\ peers' = peers
      /\ transfer' = [transfer EXCEPT ![r] = ts]
      /\ tracker' = Transition(Transition(tracker, r, "ENCODER_DONE"),
                                r, "DENOISING_WAITING")
      /\ tta' = [tta EXCEPT !["denoiser"] = Enqueue(@, r)]
  BY Zenon DEF HandleStaged
<1>2. /\ m \in Tokens(net) /\ r \in Requests /\ TrackerOK(tracker) /\ tta \in [Roles -> Queue]
      /\ DOMAIN transfer = Requests /\ \A q \in Roles : ~InQueue(r, q)
  BY Zenon, <1>1, MessageKnown DEF SlotInvariant, ServerTypeOK, TrackerOK, Queue, OneToken
<1>3. m.role = "encoder" /\ m.inst \in Inst("encoder") /\ HasStaged(m) /\ WorksAt(r, "encoder", m.inst)
  BY Zenon, <1>1, MessageKnown DEF TokenOK
<1>4. /\ \A x \in Requests \ {r} : tracker'[x] = tracker[x]
      /\ Tracked(tracker', r) => /\ Tracked(tracker, r)
                                 /\ tracker'[r].instance = tracker[r].instance
  <2>1. /\ "ENCODER_DONE" \in ActiveStates \cup TerminalStates
        /\ "DENOISING_WAITING" \in ActiveStates \cup TerminalStates
    BY Zenon DEF ActiveStates
  <2>2. Tracked(tracker, r) => tracker[r].state = "ENCODER_RUNNING"
    BY Zenon, <1>1, <1>2 DEF SlotInvariant, TokenState, StateOf
  <2>3. Legal("ENCODER_RUNNING", "ENCODER_DONE") /\ Legal("ENCODER_DONE", "DENOISING_WAITING")
    BY Zenon DEF Legal, ValidTransitions, TerminalStates
  <2>4. QED  BY Zenon, <1>1, <1>2, <2>1, <2>2, <2>3, HandedOn
<1>5. \A x : \A q \in Roles : InQueue(x, q)' <=> InQueue(x, q) \/ (q = "denoiser" /\ x = r)
  BY Zenon, <1>1, <1>2, Enqueued DEF Roles
<1>6. ts.pre = None /\ ts.sender \in Inst("encoder") /\ (Tracked(tracker, r) => ts.sender = m.inst)
  <2>1. 0 \in Inst("encoder")
    BY DeploymentAssumption DEF Inst, Pool, Roles
  <2>2. QED  BY Zenon, <1>3, <2>1 DEF WorksAt
<1> HIDE DEF ts
<1>7. transfer'[r] = ts /\ \A x \in Requests \ {r} : transfer'[x] = transfer[x]
  BY Zenon, <1>1, <1>2
<1>8. staged' = staged
  BY Zenon DEF roleVars
<1>9. Waits(r, "denoiser")'
  <2>1. Tracked(tracker', r) => /\ tracker'[r].instance["encoder"] = ts.sender
                                /\ staged'["encoder"][ts.sender][r] # None
    BY Zenon, <1>3, <1>4, <1>6, <1>8 DEF WorksAt, HasStaged
  <2>2. QED  BY Zenon, <1>6, <1>7, <2>1 DEF Waits, Upstream
<1>10. \A q \in Receivers : InQueue(r, q)' => Waits(r, q)'
  BY Zenon, <1>2, <1>5, <1>9 DEF Receivers, Roles
<1>11. \A x \in Requests \ {r} :
         /\ transfer'[x] = transfer[x] /\ tracker'[x] = tracker[x]
         /\ \A q \in Receivers : InQueue(x, q)' => InQueue(x, q)
  BY Zenon, <1>4, <1>5, <1>7 DEF Receivers, Roles
<1>12. ClaimsApart'
  BY Zenon, <1>1, <1>2, <1>6, <1>7, NoClaimOf DEF Claims
<1>13. QED  BY Zenon, <1>1, <1>2, <1>10, <1>11, <1>12, ServerSilent

(* _handle_transfer_allocated makes the sender push to the block that the  *)
(* receiver allocated.                                                     *)
LEMMA AllocatedOwnership ==
  ASSUME SlotInvariant, OwnershipInvariant, UNCHANGED roleVars,
         NEW m \in net, HandleAllocated(m)
  PROVE  OwnershipInvariant'
<1> DEFINE r == m.id
           q == m.role
           i == m.inst
           to == IF InState(tracker, r, InDecoding) THEN "denoiser" ELSE "encoder"
           ts == [transfer[r] EXCEPT !.addr = m.addr]
           n == PUSH(to, transfer[r].sender, r, m.addr, transfer[r].size)
<1>1. /\ m.type = "ALLOCATED" /\ UNCHANGED <<tracker, tta, peers>>
      /\ \/ net' = net \ {m} /\ transfer' = transfer
         \/ /\ transfer[r] # None /\ transfer' = [transfer EXCEPT ![r] = ts]
            /\ \/ net' = net \ {m}
               \/ transfer[r].sender \in Inst(to) /\ net' = (net \ {m}) \cup {n}
  BY Zenon DEF HandleAllocated
<1>2. /\ m \in Tokens(net) /\ r \in Requests /\ q \in Receivers /\ i \in Inst(q)
      /\ AllocatedOK(m) /\ WorksAt(r, q, i)
  <2>1. AllocatedOK(m) /\ WorksAt(r, q, i) /\ m \in Tokens(net) /\ r \in Requests /\ i \in Inst(q)
    BY Zenon, <1>1, MessageKnown DEF TokenOK
  <2>2. QED  BY Zenon, <2>1 DEF AllocatedOK, AllocOK
<1>3. \A p \in Receivers : ~InQueue(r, p)'
  BY Zenon, <1>1, <1>2 DEF SlotInvariant, OneToken, InQueue, Receivers, Roles
<1>4. \A x \in Requests \ {r} :
        /\ transfer'[x] = transfer[x] /\ tracker'[x] = tracker[x]
        /\ \A p \in Receivers : InQueue(x, p)' => InQueue(x, p)
  <2>1. DOMAIN transfer = Requests
    BY Zenon DEF SlotInvariant, ServerTypeOK
  <2>2. \A x \in Requests \ {r} : transfer'[x] = transfer[x]
    BY Zenon, <1>1, <2>1
  <2>3. QED  BY Zenon, <1>1, <2>2 DEF InQueue
<1>5. CASE net' = net \ {m} /\ transfer' = transfer
  <2>1. ClaimsApart'
    BY Zenon, <1>1, <1>5, ClaimsUntouched
  <2>2. QED  BY Zenon, <1>2, <1>3, <1>4, <1>5, <2>1, ServerSilent
<1>6. ASSUME transfer[r] # None, transfer' = [transfer EXCEPT ![r] = ts]
      PROVE  /\ Waits(r, q) /\ transfer[r].receiver = i /\ transfer[r] \in TransferState
             /\ transfer'[r] = ts /\ ts # None /\ ts.pre = None /\ ts.addr = m.addr
             /\ ts.receiver = i /\ ts.size = transfer[r].size
             /\ ~Claims(r)'
  <2>1. Waits(r, q) /\ transfer[r].receiver = i
    BY Zenon, <1>2, <1>6 DEF AllocatedOK, AllocOK
  <2>2. /\ transfer[r] \in TransferState /\ DOMAIN transfer = Requests /\ m.addr \in Addr
    BY Zenon, <1>1, <1>2, <1>6 DEF SlotInvariant, ServerTypeOK, MessagesOK, MessageOK
  <2>3. ts \in TransferState /\ ts.pre = None /\ ts.addr = m.addr /\ ts.receiver = i
        /\ ts.size = transfer[r].size
    BY Zenon, <2>1, <2>2 DEF TransferState, Waits
  <2> HIDE DEF ts
  <2>4. transfer'[r] = ts /\ ts # None
    BY Zenon, <1>2, <1>6, <2>2, <2>3, NoneAssumption
  <2>5. QED  BY Zenon, <2>1, <2>2, <2>3, <2>4 DEF Claims
<1>7. ASSUME transfer[r] # None, transfer' = [transfer EXCEPT ![r] = ts], net' = net \ {m}
      PROVE  OwnershipInvariant'
  <2>1. ClaimsApart'
    BY Zenon, <1>1, <1>2, <1>4, <1>6, <1>7, NoClaimOf
  <2>2. QED  BY Zenon, <1>2, <1>3, <1>4, <1>7, <2>1, ServerSilent
<1>8. ASSUME transfer[r] # None, transfer' = [transfer EXCEPT ![r] = ts],
             transfer[r].sender \in Inst(to), net' = (net \ {m}) \cup {n}
      PROVE  OwnershipInvariant'
  <2>1. /\ n.type = "PUSH" /\ n.role = to /\ n.inst = transfer[r].sender /\ n.id = r
        /\ n.addr = m.addr /\ n.size = transfer[r].size
    BY Zenon DEF PUSH
  <2>2. Tracked(tracker, r) => to = Upstream(q)
    <3>1. Tracked(tracker, r) => tracker[r].state = StateOf(m)
      BY Zenon, <1>2 DEF SlotInvariant, TokenState
    <3>2. StateOf(m) = IF q = "denoiser" THEN "DENOISING_RUNNING" ELSE "DECODER_RUNNING"
      BY Zenon, <1>1 DEF StateOf
    <3>3. QED  BY Zenon, <1>2, <3>1, <3>2 DEF InState, InDecoding, Upstream, Receivers
  <2>3. /\ transfer'[r] = ts /\ ts # None /\ ts.pre = None /\ ts.addr = m.addr
        /\ ts.receiver = i /\ ts.size = transfer[r].size /\ ~Claims(r)' /\ Waits(r, q)
    BY Zenon, <1>6, <1>8
  <2> HIDE DEF ts, n, to
  <2>4. /\ UNCHANGED <<tracker, staged, receives>> 
        /\ receives[q][i][r] \in Slots \ Prealloc /\ m.addr = At(q, i, receives[q][i][r])
    BY Zenon, <1>1, <1>2 DEF roleVars, AllocatedOK
  <2>5. m.addr \in Addr /\ m.addr.role = q /\ m.addr.inst = i /\ m.addr.slot = receives[q][i][r]
    <3>1. m.addr \in Addr
      BY Zenon, <1>1 DEF SlotInvariant, MessagesOK, MessageOK
    <3>2. QED  BY <2>4, <3>1 DEF At
  <2>6. Lands(r, q, i)'
    BY Zenon, <2>3, <2>4, <2>5 DEF Lands
  <2>7. \A k : k = n => TokenOK(k)'
    <3> SUFFICES ASSUME NEW k, k = n
                 PROVE  TokenOK(k)'
      BY Zenon
    <3>1. WorksAt(r, q, i)'
      BY Zenon, <1>2, <2>4 DEF WorksAt
    <3>2. Tracked(tracker', r) =>
            /\ k.role = Upstream(q) /\ staged'[k.role][k.inst][r] # None
            /\ tracker'[r].instance[k.role] = k.inst
      BY Zenon, <2>1, <2>2, <2>3, <2>4 DEF Waits
    <3>3. PushOK(k)'
      BY Zenon, <1>2, <2>1, <2>3, <2>5, <2>6, <3>1, <3>2 DEF PushOK, HasStaged
    <3>4. WorksAt(k.id, k.role, k.inst)'
      BY Zenon, <2>1, <3>2 DEF WorksAt
    <3>5. QED  BY Zenon, <2>1, <3>3, <3>4 DEF TokenOK
  <2>8. ClaimsApart'
    BY Zenon, <1>1, <1>2, <1>4, <1>8, <2>1, <2>3, NoClaimOf
  <2>9. /\ n.id = m.id /\ n.type # "REGISTER" /\ n.inst \in Inst(n.role) /\ tta' = tta
    BY Zenon, <1>1, <1>8, <2>1
  <2>10. QED  BY Zenon, <1>2, <1>4, <1>8, <2>7, <2>8, <2>9, ServerSends
<1>9. QED  BY Zenon, <1>1, <1>5, <1>7, <1>8
(* _handle_transfer_pushed tells the receiver where its data is.           *)
LEMMA PushedOwnership ==
  ASSUME SlotInvariant, OwnershipInvariant, UNCHANGED roleVars,
         NEW m \in net, HandlePushed(m)
  PROVE  OwnershipInvariant'
<1> DEFINE r == m.id
           t == transfer[r]
           n(q) == READY(q, t.receiver, r, t.pre)
<1>1. /\ m.type = "PUSHED" /\ UNCHANGED <<tracker, tta, transfer, peers>>
      /\ t = None \/ ~Tracked(tracker, r) => net' = net \ {m}
      /\ t # None /\ InState(tracker, r, InDenoising) =>
           net' = (net \ {m}) \cup {n("denoiser")}
      /\ t # None /\ InState(tracker, r, InDecoding) =>
           net' = (net \ {m}) \cup {n("decoder")}
  BY Zenon DEF HandlePushed, InState, InDenoising, InDecoding
<1>2. m \in Tokens(net) /\ r \in Requests /\ PushedOK(m)
  BY Zenon, <1>1, MessageKnown DEF TokenOK
<1>3. \A q \in Receivers : ~InQueue(r, q)'
  BY Zenon, <1>1, <1>2 DEF SlotInvariant, OneToken, InQueue, Receivers, Roles
<1>4. \A x \in Requests \ {r} :
        /\ transfer'[x] = transfer[x] /\ tracker'[x] = tracker[x]
        /\ \A q \in Receivers : InQueue(x, q)' => InQueue(x, q)
  BY Zenon, <1>1 DEF InQueue
<1>5. CASE t = None \/ ~Tracked(tracker, r)
  <2>1. ClaimsApart'
    BY Zenon, <1>1, <1>5, ClaimsUntouched
  <2>2. QED  BY Zenon, <1>1, <1>2, <1>3, <1>4, <1>5, <2>1, ServerSilent
<1>6. CASE t # None /\ Tracked(tracker, r)
  <2>1. PICK q \in Receivers : \E i \in Inst(q) :
               m.role = Upstream(q) /\ WorksAt(r, q, i) /\ Lands(r, q, i)
    BY Zenon, <1>2, <1>6 DEF PushedOK
  <2>2. PICK i \in Inst(q) : m.role = Upstream(q) /\ WorksAt(r, q, i) /\ Lands(r, q, i)
    BY Zenon, <2>1
  <2>3. net' = (net \ {m}) \cup {n(q)}
    <3>1. tracker[r].state = StateOf(m)
      BY Zenon, <1>2, <1>6 DEF SlotInvariant, TokenState
    <3>2. StateOf(m) = IF q = "denoiser" THEN "DENOISING_RUNNING" ELSE "DECODER_RUNNING"
      BY Zenon, <1>1, <2>2 DEF StateOf, Upstream
    <3>3. QED  BY Zenon, <1>1, <1>6, <3>1, <3>2 DEF InState, InDenoising, InDecoding, Receivers
  <2>4. /\ n(q).type = "READY" /\ n(q).role = q /\ n(q).inst = i /\ n(q).id = r
        /\ n(q).pre = t.pre
    BY Zenon, <2>2 DEF READY, Lands
  <2>5. PICK k : k = n(q)
    BY Zenon
  <2> HIDE DEF n
  <2>6. WorksAt(r, q, i)' /\ Lands(r, q, i)'
    BY Zenon, <1>1, <2>2 DEF WorksAt, Lands, roleVars
  <2>7. \A l : l = k => TokenOK(l)'
    BY Zenon, <1>1, <2>4, <2>5, <2>6 DEF TokenOK, ReadyOK
  <2>8. ClaimsApart'
    BY Zenon, <1>1, <2>3, <2>4, ClaimsUntouched
  <2>9. /\ net' = (net \ {m}) \cup {k} /\ k.id = m.id /\ k.type # "REGISTER"
        /\ k.inst \in Inst(k.role)
    BY Zenon, <2>3, <2>4, <2>5
  <2>10. QED  BY Zenon, <1>1, <1>2, <1>4, <2>7, <2>8, <2>9, ServerSends
<1>7. QED  BY Zenon, <1>5, <1>6

(* A list with e at its end.                                               *)
LEMMA AppendEffect ==
  ASSUME NEW S, NEW L \in Seq(S), NEW e
  PROVE  /\ Len(Append(L, e)) = Len(L) + 1 /\ Len(L) \in Nat
         /\ Append(L, e)[Len(L) + 1] = e
         /\ \A k \in 1 .. Len(L) : Append(L, e)[k] = L[k]
<1> DEFINE T == S \cup {e}
<1>1. L \in Seq(T) /\ e \in T
  OBVIOUS
<1> HIDE DEF T
<1>2. QED  BY <1>1

(* _recycle_prealloc_slot lists the block that the transfer had claimed.   *)
LEMMA RecycledClaims ==
  ASSUME SlotInvariant, OwnershipInvariant, NEW r \in Requests, NEW role \in Receivers,
         Claims(r) => transfer[r].addr.role = role,
         peers' = Recycled(r, role), ~Claims(r)',
         \A x \in Requests \ {r} : transfer'[x] = transfer[x],
         \A k \in net' : k \in net \/ k.type # "REGISTER"
  PROVE  ClaimsApart'
<1>1. CASE ~Claims(r)
  <2>1. peers' = peers
    BY Zenon, <1>1 DEF Recycled, Recycles, Claims
  <2>2. QED  BY Zenon, <2>1, NoClaimOf
<1>2. CASE Claims(r)
  <2> DEFINE t == transfer[r]
             j == t.receiver
             e == [slot |-> t.pre, addr |-> t.addr, size |-> t.size]
             L == peers[role][j]
             v == Append(L, e)
  <2>1. ClaimOK(r) /\ t.addr.role = role /\ role \in Roles
    BY Zenon, <1>2 DEF OwnershipInvariant, ClaimsApart, Receivers, Roles
  <2>2. /\ t.addr = At(role, j, t.pre) /\ j \in Inst(role) /\ t.pre \in Prealloc
        /\ t.size <= PreallocSize /\ REGISTER(role, j) \notin net
    BY Zenon, <2>1 DEF ClaimOK, Addr, At
  <2>3. peers' = [peers EXCEPT ![role][j] = v]
    BY Zenon, <1>2 DEF Recycled, Recycles, Claims
  <2>4. \A p \in Roles : \A i \in Inst(p) :
          peers'[p][i] = IF p = role /\ i = j THEN v ELSE peers[p][i]
    <3> HIDE DEF v, j
    <3>1. QED  BY <2>1, <2>2, <2>3, ListAssigned
  <2>5. L \in Seq(PreallocEntry)
    BY Zenon, <2>1, <2>2 DEF SlotInvariant, ServerTypeOK
  <2>6. Len(v) = Len(L) + 1 /\ Len(L) \in Nat /\ v[Len(L) + 1] = e
        /\ \A k \in 1 .. Len(L) : v[k] = L[k]
    <3> HIDE DEF L, e
    <3>1. QED  BY <2>5, AppendEffect
  <2>7. e.slot = t.pre /\ e.addr = t.addr /\ e.size = t.size
    BY Zenon
  <2>8. \A x \in Requests : Claims(x)' => x # r /\ Claims(x) /\ transfer'[x] = transfer[x]
    BY Zenon DEF Claims
  <2>9. \A q \in Roles : \A i \in Inst(q) : REGISTER(q, i) \in net' => REGISTER(q, i) \in net
    BY Zenon DEF REGISTER
  <2> HIDE DEF v, e, L, t, j
  <2>10. ASSUME NEW i \in Inst(role), i = j
         PROVE  ListOK(role, i)'
    <3>1. ListOK(role, i)
      BY Zenon, <2>2 DEF OwnershipInvariant, ClaimsApart
    <3>2. peers'[role][i] = v /\ peers[role][i] = L
      BY Zenon, <2>1, <2>4, <2>10 DEF L
    <3>3. REGISTER(role, i) \notin net'
      BY Zenon, <2>1, <2>2, <2>9, <2>10
    <3>4. ASSUME NEW k \in 1 .. Len(v)
          PROVE  /\ v[k].slot \in Prealloc /\ v[k].size <= PreallocSize
                 /\ v[k].addr = At(role, i, v[k].slot)
                 /\ \A x \in Requests : Claims(x)' => transfer'[x].addr # v[k].addr
      <4>1. CASE k \in 1 .. Len(L)
        BY <2>6, <2>8, <3>1, <3>2, <4>1 DEF ListOK
      <4>2. CASE k = Len(L) + 1
        <5>1. \A x \in Requests : Claims(x)' => transfer'[x].addr # t.addr
          BY Zenon, <1>2, <2>8 DEF OwnershipInvariant, ClaimsApart, t
        <5>2. QED  BY Zenon, <2>2, <2>6, <2>7, <2>10, <4>2, <5>1
      <4>3. QED  BY <2>6, <4>1, <4>2
    <3>5. ASSUME NEW k \in 1 .. Len(v), NEW l \in 1 .. Len(v), v[k].slot = v[l].slot
          PROVE  k = l
      <4>1. \A h \in 1 .. Len(L) : v[h].slot # t.pre
        BY <1>2, <2>2, <2>6, <2>10, <3>1, <3>2 DEF ListOK, t
      <4>2. CASE k \in 1 .. Len(L) /\ l \in 1 .. Len(L)
        BY Zenon, <2>6, <3>1, <3>2, <3>5, <4>2 DEF ListOK
      <4>3. QED  BY <2>6, <2>7, <3>5, <4>1, <4>2
    <3>6. QED  BY Zenon, <3>2, <3>3, <3>4, <3>5 DEF ListOK
  <2>11. ASSUME NEW q \in Receivers, NEW i \in Inst(q)
         PROVE  ListOK(q, i)'
    <3>1. CASE q = role /\ i = j
      BY Zenon, <2>10, <3>1
    <3>2. CASE ~(q = role /\ i = j)
      <4>1. ListOK(q, i) /\ q \in Roles
        BY Zenon DEF OwnershipInvariant, ClaimsApart, Receivers, Roles
      <4>2. peers'[q][i] = peers[q][i]
        BY Zenon, <2>4, <3>2, <4>1
      <4>3. QED  BY <2>8, <2>9, <4>1, <4>2 DEF ListOK
    <3>3. QED  BY Zenon, <3>1, <3>2
  <2>12. ASSUME NEW x \in Requests, Claims(x)'
         PROVE  ClaimOK(x)'
    <3>1. ClaimOK(x) /\ transfer'[x] = transfer[x]
      BY Zenon, <2>8, <2>12 DEF OwnershipInvariant, ClaimsApart
    <3>2. QED  BY Zenon, <2>9, <3>1 DEF ClaimOK, Receivers, Roles
  <2>13. \A x, y \in Requests :
           (Claims(x) /\ Claims(y) /\ transfer[x].addr = transfer[y].addr)' => x = y
    BY Zenon, <2>8 DEF OwnershipInvariant, ClaimsApart
  <2>14. QED  BY Zenon, <2>11, <2>12, <2>13 DEF ClaimsApart
<1>3. QED  BY Zenon, <1>1, <1>2
(* _handle_transfer_done recycles the block that the denoiser received in  *)
(* and queues the request for a decoder, or forgets it.                    *)
LEMMA DoneOwnership ==
  ASSUME SlotInvariant, OwnershipInvariant, UNCHANGED roleVars,
         NEW m \in net, HandleDone(m)
  PROVE  OwnershipInvariant'
<1> DEFINE r == m.id
           ts == StagedForDecoder(r, m.size)
<1>1. /\ m.type = "DONE" /\ net' = net \ {m} /\ peers' = Recycled(r, "denoiser")
      /\ \/ /\ tracker' = Remove(tracker, r) /\ tta' = tta
            /\ \/ Claims(r) /\ transfer' = [transfer EXCEPT ![r] = [@ EXCEPT !.pre = None]]
               \/ ~Claims(r) /\ transfer' = transfer
         \/ /\ transfer[r] = None /\ UNCHANGED <<tta, transfer>>
            /\ tracker' = Transition(tracker, r, "DENOISING_DONE")
         \/ /\ transfer[r] # None /\ ~m.error
            /\ transfer' = [transfer EXCEPT ![r] = ts]
            /\ tracker' = Transition(Transition(tracker, r, "DENOISING_DONE"),
                                     r, "DECODER_WAITING")
            /\ tta' = [tta EXCEPT !["decoder"] = Enqueue(@, r)]
  BY Zenon DEF HandleDone, Complete, Recycles, Claims
<1>2. /\ m \in Tokens(net) /\ r \in Requests /\ TrackerOK(tracker) /\ tta \in [Roles -> Queue]
      /\ DOMAIN transfer = Requests /\ \A q \in Roles : ~InQueue(r, q)
  BY Zenon, <1>1, MessageKnown DEF SlotInvariant, ServerTypeOK, TrackerOK, Queue, OneToken
<1>3. /\ m.role = "denoiser" /\ m.inst \in Inst("denoiser") /\ DoneOK(m)
      /\ WorksAt(r, "denoiser", m.inst)
  BY <1>1, MessageKnown DEF TokenOK, DoneOK
<1>4. (\A x \in Requests \ {r} : transfer'[x] = transfer[x]) /\ ~Claims(r)' => ClaimsApart'
  <2>1. /\ "denoiser" \in Receivers
        /\ Claims(r) => transfer[r].addr.role = "denoiser"
    BY Zenon, <1>3 DEF DoneOK, Receivers
  <2> HIDE DEF r
  <2>2. QED  BY Zenon, <1>1, <1>2, <2>1, RecycledClaims
<1>5. ASSUME tta' = tta, \A x \in Requests \ {r} : tracker'[x] = tracker[x],
             \A x \in Requests \ {r} : transfer'[x] = transfer[x], ~Claims(r)'
      PROVE  OwnershipInvariant'
  <2>1. \A q \in Receivers : ~InQueue(r, q)'
    BY Zenon, <1>2, <1>5 DEF InQueue, Receivers, Roles
  <2>2. \A x \in Requests \ {r} : \A q \in Receivers : InQueue(x, q)' => InQueue(x, q)
    BY Zenon, <1>5 DEF InQueue
  <2>3. QED  BY Zenon, <1>1, <1>2, <1>4, <1>5, <2>1, <2>2, ServerSilent
<1>6. ASSUME tracker' = Remove(tracker, r), tta' = tta,
             \/ Claims(r) /\ transfer' = [transfer EXCEPT ![r] = [@ EXCEPT !.pre = None]]
             \/ ~Claims(r) /\ transfer' = transfer
      PROVE  OwnershipInvariant'
  <2>1. \A x \in Requests \ {r} : tracker'[x] = tracker[x]
    BY Zenon, <1>2, <1>6, RemoveEffect
  <2>2. \A x \in Requests \ {r} : transfer'[x] = transfer[x]
    BY Zenon, <1>2, <1>6
  <2>3. ~Claims(r)'
    <3>1. CASE Claims(r)
      <4>1. transfer[r] \in TransferState
        BY Zenon, <1>2, <3>1 DEF SlotInvariant, ServerTypeOK, Claims
      <4>2. transfer'[r].pre = None
        BY Zenon, <1>2, <1>6, <3>1, <4>1 DEF TransferState
      <4>3. QED  BY Zenon, <4>2 DEF Claims
    <3>2. CASE ~Claims(r)
      BY Zenon, <1>6, <3>2 DEF Claims
    <3>3. QED  BY Zenon, <3>1, <3>2
  <2>4. QED  BY Zenon, <1>5, <1>6, <2>1, <2>2, <2>3
<1>7. ASSUME transfer[r] = None, UNCHANGED <<tta, transfer>>,
             tracker' = Transition(tracker, r, "DENOISING_DONE")
      PROVE  OwnershipInvariant'
  <2>1. "DENOISING_DONE" \in ActiveStates \cup TerminalStates
    BY Zenon DEF ActiveStates
  <2>2. \A x \in Requests \ {r} : tracker'[x] = tracker[x]
    BY ZenonT(60), <1>2, <1>7, <2>1, TransitionEffect
  <2>3. QED  BY Zenon, <1>5, <1>7, <2>2 DEF Claims
<1>8. ASSUME transfer[r] # None, ~m.error, transfer' = [transfer EXCEPT ![r] = ts],
             tracker' = Transition(Transition(tracker, r, "DENOISING_DONE"),
                                   r, "DECODER_WAITING"),
             tta' = [tta EXCEPT !["decoder"] = Enqueue(@, r)]
      PROVE  OwnershipInvariant'
  <2>1. /\ \A x \in Requests \ {r} : tracker'[x] = tracker[x]
        /\ Tracked(tracker', r) => /\ Tracked(tracker, r)
                                   /\ tracker'[r].instance = tracker[r].instance
    <3>1. /\ "DENOISING_DONE" \in ActiveStates \cup TerminalStates
          /\ "DECODER_WAITING" \in ActiveStates \cup TerminalStates
      BY Zenon DEF ActiveStates
    <3>2. Tracked(tracker, r) => tracker[r].state = "DENOISING_RUNNING"
      BY Zenon, <1>1, <1>2 DEF SlotInvariant, TokenState, StateOf
    <3>3. /\ Legal("DENOISING_RUNNING", "DENOISING_DONE")
          /\ Legal("DENOISING_DONE", "DECODER_WAITING")
      BY Zenon DEF Legal, ValidTransitions, TerminalStates
    <3>4. QED  BY Zenon, <1>2, <1>8, <3>1, <3>2, <3>3, HandedOn
  <2>2. \A x : \A q \in Roles : InQueue(x, q)' <=> InQueue(x, q) \/ (q = "decoder" /\ x = r)
    BY Zenon, <1>2, <1>8, Enqueued DEF Roles
  <2>3. /\ ts.pre = None /\ ts.sender \in Inst("denoiser")
        /\ Tracked(tracker, r) => ts.sender = m.inst
    <3>1. 0 \in Inst("denoiser")
      BY DeploymentAssumption DEF Inst, Pool, Roles
    <3>2. transfer[r] \in TransferState
      BY Zenon, <1>2, <1>8 DEF SlotInvariant, ServerTypeOK
    <3>3. QED  BY Zenon, <1>3, <3>1, <3>2 DEF WorksAt, StagedForDecoder, TransferState
  <2> HIDE DEF ts
  <2>4. transfer'[r] = ts /\ \A x \in Requests \ {r} : transfer'[x] = transfer[x]
    BY Zenon, <1>2, <1>8
  <2>5. Waits(r, "decoder")'
    <3>1. staged' = staged
      BY Zenon DEF roleVars
    <3>2. Tracked(tracker', r) => /\ tracker'[r].instance["denoiser"] = ts.sender
                                  /\ staged'["denoiser"][ts.sender][r] # None
      BY Zenon, <1>3, <1>8, <2>1, <2>3, <3>1 DEF WorksAt, DoneOK, HasStaged
    <3>3. QED  BY Zenon, <2>3, <2>4, <3>2 DEF Waits, Upstream
  <2>6. \A q \in Receivers : InQueue(r, q)' => Waits(r, q)'
    BY Zenon, <1>2, <2>2, <2>5 DEF Receivers, Roles
  <2>7. \A x \in Requests \ {r} :
          /\ transfer'[x] = transfer[x] /\ tracker'[x] = tracker[x]
          /\ \A q \in Receivers : InQueue(x, q)' => InQueue(x, q)
    BY Zenon, <2>1, <2>2, <2>4 DEF Receivers, Roles
  <2>8. ClaimsApart'
    BY Zenon, <1>4, <2>3, <2>4 DEF Claims
  <2>9. QED  BY Zenon, <1>1, <1>2, <2>6, <2>7, <2>8, ServerSilent
<1>9. QED  BY Zenon, <1>1, <1>6, <1>7, <1>8

(* _handle_decoder_result_frames forgets the request and its transfer.     *)
LEMMA OutputOwnership ==
  ASSUME SlotInvariant, OwnershipInvariant, UNCHANGED roleVars,
         NEW m \in net, HandleOutput(m)
  PROVE  OwnershipInvariant'
<1> DEFINE r == m.id
<1>1. /\ m.type = "OUTPUT" /\ net' = net \ {m} /\ tracker' = Remove(tracker, r)
      /\ transfer' = transfer \/ transfer' = [transfer EXCEPT ![r] = None]
      /\ UNCHANGED <<tta, peers>>
  BY Zenon DEF HandleOutput, Complete
<1>2. m \in Tokens(net) /\ r \in Requests /\ TrackerOK(tracker) /\ DOMAIN transfer = Requests
  BY Zenon, <1>1, MessageKnown DEF SlotInvariant, ServerTypeOK, TrackerOK
<1>3. \A q \in Receivers : ~InQueue(r, q)'
  BY Zenon, <1>1, <1>2 DEF SlotInvariant, OneToken, InQueue, Receivers, Roles
<1>4. \A x \in Requests \ {r} :
        /\ transfer'[x] = transfer[x] /\ tracker'[x] = tracker[x]
        /\ \A q \in Receivers : InQueue(x, q)' => InQueue(x, q)
  <2>1. \A x \in Requests \ {r} : transfer'[x] = transfer[x]
    BY Zenon, <1>1, <1>2
  <2>2. \A x \in Requests \ {r} : tracker'[x] = tracker[x]
    BY Zenon, <1>1, <1>2, RemoveEffect
  <2>3. QED  BY Zenon, <1>1, <2>1, <2>2 DEF InQueue
<1>5. ClaimsApart'
  <2>1. CASE transfer' = transfer
    BY Zenon, <1>1, <2>1, ClaimsUntouched
  <2>2. CASE transfer' = [transfer EXCEPT ![r] = None]
    <3>1. ~Claims(r)'
      BY Zenon, <1>2, <2>2 DEF Claims
    <3>2. QED  BY Zenon, <1>1, <1>2, <1>4, <3>1, NoClaimOf
  <2>3. QED  BY Zenon, <1>1, <2>1, <2>2
<1>6. QED  BY Zenon, <1>1, <1>2, <1>3, <1>4, <1>5, ServerSilent
-------------------------------------------------------------------------------
(* The dispatches.                                                         *)

(* The head of a queue is sent on as message n.                            *)
LEMMA DispatchSends ==
  ASSUME SlotInvariant, OwnershipInvariant, UNCHANGED roleVars,
         NEW role \in Roles, NEW i \in Inst(role), NEW e \in tta[role],
         Dispatch(role, e, i, RunningAt(role)),
         NEW n, net' = net \cup {n}, n.id = e.id, n.type # "REGISTER",
         n.inst \in Inst(n.role), \A k : k = n => TokenOK(k)',
         \A x \in Requests \ {e.id} : transfer'[x] = transfer[x], ClaimsApart'
  PROVE  OwnershipInvariant'
<1>1. /\ e.id \in Requests /\ InQueue(e.id, role)
      /\ \A x \in Requests \ {e.id} : tracker'[x] = tracker[x]
      /\ \A x : \A q \in Roles : InQueue(x, q)' <=> InQueue(x, q) /\ ~(q = role /\ x = e.id)
  BY DispatchEffect
<1>2. /\ \A k \in Tokens(net) : k.id # e.id
      /\ \A q \in Receivers : ~InQueue(e.id, q)'
  BY Zenon, <1>1 DEF SlotInvariant, OneToken, Receivers, Roles
<1>3. \A k \in Tokens(net') : k.id = e.id => TokenOK(k)'
  BY Zenon, <1>2 DEF Tokens
<1>4. \A k \in net' : \/ k \in net
                      \/ k.type # "REGISTER" /\ k.id = e.id /\ k.inst \in Inst(k.role)
  BY Zenon
<1>5. \A x \in Requests \ {e.id} :
        /\ transfer'[x] = transfer[x] /\ tracker'[x] = tracker[x]
        /\ \A q \in Receivers : InQueue(x, q)' => InQueue(x, q)
  BY Zenon, <1>1 DEF Receivers, Roles
<1>6. QED  BY Zenon, <1>1, <1>2, <1>3, <1>4, <1>5, ServerMoves

(* _dispatch_to_encoder                                                    *)
LEMMA DispatchToEncoderOwnership ==
  ASSUME SlotInvariant, OwnershipInvariant, UNCHANGED roleVars,
         NEW i \in Inst("encoder"), NEW e \in tta["encoder"], DispatchToEncoder(e, i)
  PROVE  OwnershipInvariant'
<1> DEFINE n == REQUEST(i, e.id)
<1>1. /\ Dispatch("encoder", e, i, RunningAt("encoder")) /\ net' = net \cup {n}
      /\ transfer' = transfer /\ peers' = peers /\ "encoder" \in Roles
  BY Zenon DEF DispatchToEncoder, RunningAt, Roles
<1>2. n.type = "REQUEST" /\ n.role = "encoder" /\ n.inst = i /\ n.id = e.id
  BY Zenon DEF REQUEST
<1>3. Tracked(tracker', e.id) => tracker'[e.id].instance["encoder"] = i
  BY <1>1, DispatchEffect
<1> HIDE DEF n
<1>4. \A k : k = n => TokenOK(k)'
  BY Zenon, <1>2, <1>3 DEF TokenOK, WorksAt
<1>5. ClaimsApart'
  BY Zenon, <1>1, <1>2, ClaimsUntouched
<1>6. QED  BY Zenon, <1>1, <1>2, <1>4, <1>5, DispatchSends

(* _try_fast_path_push moves the first free block from the list to the     *)
(* transfer of r.                                                          *)
LEMMA SlotClaimed ==
  ASSUME SlotInvariant, OwnershipInvariant, NEW role \in Receivers, NEW i \in Inst(role),
         NEW r \in Requests, ~Claims(r), FastPath(role, r, i),
         transfer[r].size \in Nat, peers' = ClaimSlot(role, i),
         transfer'[r] # None, transfer'[r].size = transfer[r].size,
         transfer'[r].receiver = i, transfer'[r].addr = Head(peers[role][i]).addr,
         transfer'[r].pre = Head(peers[role][i]).slot,
         \A x \in Requests \ {r} : transfer'[x] = transfer[x],
         \A k \in net' : k \in net \/ k.type # "REGISTER"
  PROVE  /\ ClaimsApart'
         /\ \E s \in Prealloc : /\ Head(peers[role][i]).slot = s
                                /\ Head(peers[role][i]).addr = At(role, i, s)
                                /\ At(role, i, s) \in Addr
<1> DEFINE L == peers[role][i]
           v == Tail(L)
           t == transfer'[r]
           s == L[1].slot
<1>1. /\ role \in Roles /\ L \in Seq(PreallocEntry) /\ L # <<>> /\ ListOK(role, i)
      /\ L[1].size >= transfer[r].size
  BY DEF SlotInvariant, ServerTypeOK, FastPath, OwnershipInvariant, ClaimsApart, Receivers, Roles
<1>2. /\ Len(L) \in Nat /\ Len(L) >= 1 /\ Head(L) = L[1] /\ Len(v) = Len(L) - 1
      /\ \A k \in 1 .. Len(v) : v[k] = L[k + 1]
  BY <1>1
<1>3. peers' = [peers EXCEPT ![role][i] = v]
  BY Zenon DEF ClaimSlot
<1>4. \A p \in Roles : \A j \in Inst(p) :
        peers'[p][j] = IF p = role /\ j = i THEN v ELSE peers[p][j]
  <2> HIDE DEF v
  <2>1. QED  BY <1>1, <1>3, ListAssigned
<1>5. /\ s \in Prealloc /\ L[1].addr = At(role, i, s) /\ L[1].size <= PreallocSize
      /\ REGISTER(role, i) \notin net
      /\ \A x \in Requests : Claims(x) => transfer[x].addr # L[1].addr
  BY <1>1, <1>2 DEF ListOK
<1>6. /\ At(role, i, s) \in Addr /\ s # None /\ At(role, i, s).role = role
      /\ At(role, i, s).inst = i /\ At(role, i, s).slot = s
  BY Zenon, <1>1, <1>5, SlotsAreSlots, InstancesAreNumbers DEF At, Addr
<1>7. /\ t.receiver = i /\ t.addr = L[1].addr /\ t.pre = s /\ t.size = transfer[r].size
      /\ t # None
  BY Zenon, <1>2
<1>8. t.size <= PreallocSize
  <2>1. L[1].size \in Nat
    <3>1. L[1] \in PreallocEntry
      BY <1>1, <1>2
    <3>2. QED  BY Zenon, <3>1 DEF PreallocEntry
  <2>2. transfer[r].size \in Nat /\ PreallocSize \in Nat
    BY Zenon, DeploymentAssumption
  <2> HIDE DEF L, t
  <2>3. QED  BY <1>1, <1>5, <1>7, <2>1, <2>2
<1> HIDE DEF L, v, t, s
<1>9. /\ \A q \in Roles : \A j \in Inst(q) : REGISTER(q, j) \in net' => REGISTER(q, j) \in net
      /\ \A x \in Requests : x # r /\ Claims(x)' => Claims(x) /\ transfer'[x] = transfer[x]
  BY Zenon DEF REGISTER, Claims
<1>10. transfer'[r] = t
  BY Zenon DEF t
<1>11. ASSUME NEW x \in Requests, Claims(x)'
       PROVE  ClaimOK(x)'
  <2>1. CASE x = r
    <3>1. REGISTER(role, i) \notin net'
      BY Zenon, <1>1, <1>5, <1>9
    <3>2. QED  BY Zenon, <1>5, <1>6, <1>7, <1>8, <1>10, <2>1, <3>1 DEF ClaimOK
  <2>2. CASE x # r
    <3>1. ClaimOK(x) /\ transfer'[x] = transfer[x]
      BY Zenon, <1>9, <1>11, <2>2 DEF OwnershipInvariant, ClaimsApart
    <3>2. QED  BY Zenon, <1>9, <3>1 DEF ClaimOK, Receivers, Roles
  <2>3. QED  BY Zenon, <2>1, <2>2
<1>12. \A x, y \in Requests :
         (Claims(x) /\ Claims(y) /\ transfer[x].addr = transfer[y].addr)' => x = y
  BY <1>5, <1>7, <1>9, <1>10 DEF OwnershipInvariant, ClaimsApart
<1>13. ASSUME NEW q \in Receivers, NEW j \in Inst(q)
       PROVE  ListOK(q, j)'
  <2>1. ListOK(q, j) /\ q \in Roles
    BY Zenon DEF OwnershipInvariant, ClaimsApart, Receivers, Roles
  <2>2. CASE ~(q = role /\ j = i)
    <3>1. peers'[q][j] = peers[q][j]
      BY Zenon, <1>4, <2>1, <2>2
    <3>2. \A k \in 1 .. Len(peers[q][j]) : \A x \in Requests :
            Claims(x)' => transfer'[x].addr # peers[q][j][k].addr
      <4>1. \A k : At(q, j, k) # At(role, i, s)
        BY Zenon, <2>2 DEF At
      <4>2. QED  BY <1>5, <1>7, <1>9, <1>10, <2>1, <4>1, SMTT(30) DEF ListOK
    <3>3. QED  BY <1>9, <2>1, <3>1, <3>2 DEF ListOK
  <2>3. CASE q = role /\ j = i
    <3>1. peers'[q][j] = v /\ peers[q][j] = L
      BY Zenon, <1>4, <2>1, <2>3 DEF L
    <3>2. REGISTER(q, j) \notin net'
      BY Zenon, <1>1, <1>5, <1>9, <2>3
    <3>3. ASSUME NEW k \in 1 .. Len(v)
          PROVE  /\ v[k].slot \in Prealloc /\ v[k].size <= PreallocSize
                 /\ v[k].addr = At(q, j, v[k].slot)
                 /\ \A x \in Requests : Claims(x)' => transfer'[x].addr # v[k].addr
      <4>1. k + 1 \in 1 .. Len(L) /\ 1 \in 1 .. Len(L) /\ k + 1 # 1 /\ v[k] = L[k + 1]
        BY <1>2
      <4>2. /\ L[k + 1].slot \in Prealloc /\ L[k + 1].size <= PreallocSize
            /\ L[k + 1].addr = At(q, j, L[k + 1].slot) /\ L[k + 1].slot # s
            /\ \A x \in Requests : Claims(x) => transfer[x].addr # L[k + 1].addr
        BY Zenon, <2>1, <3>1, <4>1 DEF ListOK, s
      <4>3. L[k + 1].addr # At(role, i, s)
        BY <4>2 DEF At
      <4>4. QED  BY Zenon, <1>5, <1>7, <1>9, <1>10, <4>1, <4>2, <4>3
    <3>4. ASSUME NEW k \in 1 .. Len(v), NEW l \in 1 .. Len(v), v[k].slot = v[l].slot
          PROVE  k = l
      <4>1. k + 1 \in 1 .. Len(L) /\ l + 1 \in 1 .. Len(L)
        BY <1>2
      <4>2. L[k + 1].slot = L[l + 1].slot
        BY Zenon, <1>2, <3>4
      <4>3. k + 1 = l + 1
        BY Zenon, <2>1, <3>1, <4>1, <4>2 DEF ListOK
      <4>4. QED  BY <4>3
    <3>5. QED  BY <3>1, <3>2, <3>3, <3>4 DEF ListOK
  <2>4. QED  BY Zenon, <2>2, <2>3
<1>14. ClaimsApart'
  BY Zenon, <1>11, <1>12, <1>13 DEF ClaimsApart
<1>15. QED  BY Zenon, <1>2, <1>5, <1>6, <1>14 DEF L, s
(* _transfer_dispatch_to_denoiser and _transfer_dispatch_to_decoder claim  *)
(* a block of the receiver, or ask it to allocate one.                     *)
LEMMA DispatchTransferOwnership ==
  ASSUME SlotInvariant, OwnershipInvariant, UNCHANGED roleVars,
         NEW role \in Receivers, NEW i \in Inst(role), NEW e \in tta[role],
         DispatchTransfer(role, e, i)
  PROVE  OwnershipInvariant'
<1> DEFINE r == e.id
           up == Upstream(role)
           t == transfer[r]
<1>1. role \in Roles /\ up \in Roles \ {role} /\ Dispatch(role, e, i, RunningAt(role))
  BY Zenon DEF Receivers, Roles, Upstream, DispatchTransfer, RunningAt
<1>2. /\ r \in Requests /\ InQueue(r, role)
      /\ Tracked(tracker', r) =>
           /\ Tracked(tracker, r) /\ tracker'[r].instance[role] = i
           /\ tracker'[r].instance[up] = tracker[r].instance[up]
  BY <1>1, DispatchEffect
<1>3. Waits(r, role) /\ t \in TransferState /\ DOMAIN transfer = Requests
  <2>1. Waits(r, role) /\ t # None
    BY Zenon, <1>2 DEF OwnershipInvariant, TokensOK, SlotInvariant, TransferKept
  <2>2. QED  BY Zenon, <1>2, <2>1 DEF SlotInvariant, ServerTypeOK
<1>4. /\ t.pre = None /\ t.sender \in Inst(up) /\ t.size \in Nat
      /\ Tracked(tracker', r) => /\ tracker'[r].instance[up] = t.sender
                                 /\ staged'[up][t.sender][r] # None
  <2>1. t.size \in Nat
    BY Zenon, <1>3 DEF TransferState
  <2> HIDE DEF r
  <2>2. QED  BY Zenon, <1>2, <1>3, <2>1 DEF Waits, roleVars
<1>5. i \in Nat
  BY Zenon, <1>1, InstancesAreNumbers
<1>6. CASE FastPath(role, r, i)
  <2> DEFINE slot == Head(peers[role][i])
             n == PUSH(up, t.sender, r, slot.addr, t.size)
             ts == [t EXCEPT !.receiver = i, !.addr = slot.addr, !.pre = slot.slot]
  <2>1. /\ net' = net \cup {n} /\ transfer' = [transfer EXCEPT ![r] = ts]
        /\ peers' = ClaimSlot(role, i)
    BY Zenon, <1>6 DEF DispatchTransfer
  <2>2. slot \in PreallocEntry
    <3>1. peers[role][i] \in Seq(PreallocEntry) /\ peers[role][i] # <<>>
      BY Zenon, <1>1, <1>6 DEF SlotInvariant, ServerTypeOK, FastPath
    <3>2. QED  BY <3>1
  <2>3. slot.addr \in Addr \cup {None} /\ slot.slot \in Nat
    BY Zenon, <2>2 DEF PreallocEntry
  <2> HIDE DEF slot, t
  <2>4. /\ ts.receiver = i /\ ts.addr = slot.addr /\ ts.pre = slot.slot /\ ts.size = t.size
        /\ ts \in TransferState
    BY Zenon, <1>3, <1>5, <2>3 DEF TransferState
  <2> HIDE DEF ts
  <2>5. /\ transfer'[r] = ts /\ ts # None
        /\ \A x \in Requests \ {r} : transfer'[x] = transfer[x]
    BY Zenon, <1>2, <1>3, <2>1, <2>4, NoneAssumption
  <2>6. /\ n.type = "PUSH" /\ n.role = up /\ n.inst = t.sender /\ n.id = r
        /\ n.addr = slot.addr /\ n.size = t.size
    BY Zenon DEF PUSH
  <2> HIDE DEF n
  <2>7. /\ ClaimsApart'
        /\ \E s \in Prealloc : /\ slot.slot = s /\ slot.addr = At(role, i, s)
                               /\ At(role, i, s) \in Addr
    <3>1. ~Claims(r) /\ \A k \in net' : k \in net \/ k.type # "REGISTER"
      BY Zenon, <1>4, <2>1, <2>6 DEF Claims, t
    <3> HIDE DEF r
    <3>2. QED  BY Zenon, <1>2, <1>4, <1>6, <2>1, <2>4, <2>5, <3>1, SlotClaimed DEF slot, t
  <2>8. PICK s \in Prealloc : /\ slot.slot = s /\ slot.addr = At(role, i, s)
                              /\ At(role, i, s) \in Addr
    BY Zenon, <2>7
  <2>9. slot.addr.role = role /\ slot.addr.inst = i /\ slot.addr.slot = s /\ s # None
    BY <2>8, SlotsAreSlots DEF At
  <2>10. Lands(r, role, i)' /\ WorksAt(r, role, i)'
    BY Zenon, <1>2, <2>4, <2>5, <2>8, <2>9 DEF Lands, WorksAt
  <2>11. \A k : k = n => TokenOK(k)'
    <3> SUFFICES ASSUME NEW k, k = n
                 PROVE  TokenOK(k)'
      BY Zenon
    <3>1. k.type = "PUSH" /\ k.id = r /\ k.addr = slot.addr
      BY Zenon, <2>6
    <3>2. HasStaged(k)' \/ ~Tracked(tracker', r)
      BY Zenon, <1>4, <2>6 DEF HasStaged
    <3>3. PushOK(k)'
      BY Zenon, <2>4, <2>5, <2>6, <2>8, <2>9, <2>10, <3>1, <3>2 DEF PushOK
    <3>4. WorksAt(k.id, k.role, k.inst)'
      BY Zenon, <1>4, <2>6 DEF WorksAt
    <3>5. QED  BY Zenon, <3>1, <3>3, <3>4 DEF TokenOK
  <2>12. n.id = e.id /\ n.type # "REGISTER" /\ n.inst \in Inst(n.role)
    BY Zenon, <1>4, <2>6
  <2>13. QED  BY Zenon, <1>1, <2>1, <2>5, <2>7, <2>11, <2>12, DispatchSends
<1>7. CASE ~FastPath(role, r, i)
  <2> DEFINE n == ALLOC(role, i, r, t.size)
             ts == [t EXCEPT !.receiver = i]
  <2>1. /\ net' = net \cup {n} /\ transfer' = [transfer EXCEPT ![r] = ts]
        /\ peers' = peers
    BY Zenon, <1>7 DEF DispatchTransfer
  <2> HIDE DEF t
  <2>2. ts.receiver = i /\ ts.pre = None /\ ts.sender = t.sender
    BY Zenon, <1>3, <1>4, <1>5 DEF TransferState
  <2> HIDE DEF ts
  <2>3. /\ transfer'[r] = ts
        /\ \A x \in Requests \ {r} : transfer'[x] = transfer[x]
    BY Zenon, <1>2, <1>3, <2>1
  <2>4. n.type = "ALLOC" /\ n.role = role /\ n.inst = i /\ n.id = r
    BY Zenon DEF ALLOC
  <2> HIDE DEF n
  <2>5. WorksAt(r, role, i)' /\ Waits(r, role)'
    BY Zenon, <1>2, <1>4, <2>2, <2>3 DEF WorksAt, Waits
  <2>6. \A k : k = n => TokenOK(k)'
    BY Zenon, <2>2, <2>3, <2>4, <2>5 DEF TokenOK, AllocOK
  <2>7. ClaimsApart'
    <3>1. ~Claims(r)'
      BY Zenon, <2>2, <2>3 DEF Claims
    <3>2. QED  BY Zenon, <1>2, <2>1, <2>3, <2>4, <3>1, NoClaimOf
  <2>8. n.id = e.id /\ n.type # "REGISTER" /\ n.inst \in Inst(n.role)
    BY Zenon, <2>4
  <2>9. QED  BY Zenon, <1>1, <2>1, <2>3, <2>6, <2>7, <2>8, DispatchSends
<1>8. QED  BY Zenon, <1>6, <1>7

-------------------------------------------------------------------------------

(* At start the receivers own what they preallocated, and nothing is sent. *)
LEMMA InitOwnership == Init => OwnershipInvariant
<1> SUFFICES ASSUME Init
             PROVE  OwnershipInvariant
  BY Zenon
<1>1. /\ transfer = [r \in Requests |-> None] /\ tta = [q \in Roles |-> {}]
      /\ peers = [q \in Roles |-> [i \in Inst(q) |-> <<>>]]
  BY Zenon DEF Init, ServerInit
<1>2. /\ allocated = [q \in Roles |-> [i \in Inst(q) |-> Fixed(q)]]
      /\ staged = [q \in Roles |-> [i \in Inst(q) |-> [r \in Requests |-> None]]]
      /\ receives = [q \in Roles |-> [i \in Inst(q) |-> [r \in Requests |-> None]]]
      /\ mem = [a \in AllAddr |-> None]
      /\ net = UNION {{REGISTER(q, i) : i \in Inst(q)} : q \in Roles}
  BY Zenon DEF Init, RolesInit, Fixed
<1>3. \A m \in net : \E q \in Roles : \E i \in Inst(q) : m = REGISTER(q, i)
  BY Zenon, <1>2
<1>4. \A q, i : /\ REGISTER(q, i).type = "REGISTER" /\ REGISTER(q, i).role = q
                /\ REGISTER(q, i).inst = i
  BY Zenon DEF REGISTER
<1>5. InstancesExist /\ Tokens(net) = {}
  <2>1. InstancesExist
    BY <1>3, <1>4 DEF InstancesExist
  <2>2. QED  BY <1>3, <1>4, <2>1 DEF Tokens
<1>6. RolesTypeOK
  <2>1. \A q \in Roles : Fixed(q) \subseteq Slots
    BY Zenon, SlotsAreSlots DEF Fixed
  <2>2. QED  BY Zenon, <1>2, <2>1 DEF RolesTypeOK
<1>7. PoolsApart
  BY Zenon, <1>2 DEF PoolsApart, Apart
<1>8. ClaimsApart
  <2>1. \A r \in Requests : ~Claims(r)
    BY Zenon, <1>1 DEF Claims
  <2>2. \A q \in Receivers : \A i \in Inst(q) : peers[q][i] = <<>>
    BY Zenon, <1>1 DEF Receivers, Roles
  <2>3. \A q \in Receivers : \A i \in Inst(q) : ListOK(q, i)
    BY <2>2 DEF ListOK
  <2>4. QED  BY Zenon, <2>1, <2>3 DEF ClaimsApart
<1>9. TokensOK
  BY Zenon, <1>1, <1>5 DEF TokensOK, InQueue, Receivers, Roles
<1>10. QED  BY Zenon, <1>5, <1>6, <1>7, <1>8, <1>9 DEF OwnershipInvariant

(* Every step keeps the invariant.                                         *)
LEMMA NextOwnership ==
  ASSUME SlotInvariant, OwnershipInvariant, [Next]_vars
  PROVE  OwnershipInvariant'
<1>1. CASE \E c \in Clients : ClientSend(c)
  BY Zenon, <1>1, OutsideOwnership DEF ClientSend
<1>2. CASE Tick /\ UNCHANGED roleVars
  BY Zenon, <1>2, OutsideOwnership DEF Tick
<1>3. CASE RolesNext /\ UNCHANGED serverVars
  BY Zenon, <1>3, RolesOwnership
<1>4. CASE ServerNext /\ UNCHANGED roleVars
  BY Zenon, <1>4, PollOwnership, ClientRequestOwnership, RegisterOwnership, ErrorOwnership,
     StagedOwnership, AllocatedOwnership, PushedOwnership, DoneOwnership, OutputOwnership,
     DispatchToEncoderOwnership, DispatchTransferOwnership
    DEF ServerNext
<1>5. CASE UNCHANGED vars
  BY Zenon, <1>5, OutsideOwnership DEF vars, serverVars
<1>6. QED  BY Zenon, <1>1, <1>2, <1>3, <1>4, <1>5 DEF Next
===============================================================================
