---------------------------- MODULE DisaggProofs ------------------------------
(***************************************************************************)
(* The theorems: slot counters stay within capacity, the server's view of  *)
(* a request is consistent, blocks have one owner, and data stays with its *)
(* request.                                                                *)
(***************************************************************************)
EXTENDS DisaggSlotProofs, DisaggOwnershipProofs, DisaggDataProofs, FiniteSetTheorems

(* The facts about finite sets that the proof of SlotInvariant rests on.   *)
LEMMA CountingHolds == Counting
<1>1. \A S : IsFiniteSet(S) => Cardinality(S) \in Nat
  BY Zenon, FS_CardinalityType
<1>2. \A S : IsFiniteSet(S) =>
        \A T \in SUBSET S : IsFiniteSet(T) /\ Cardinality(T) <= Cardinality(S)
  BY Zenon, FS_Subset
<1>3. \A S, T : IsFiniteSet(S) => Cardinality(S \ T) = Cardinality(S) - Cardinality(S \cap T)
  BY Zenon, FS_Difference
<1>4. \A S, x : IsFiniteSet(S) =>
        /\ IsFiniteSet(S \cup {x})
        /\ x \notin S => Cardinality(S \cup {x}) = Cardinality(S) + 1
  BY FS_AddElement
<1>5. (\A x : Cardinality({x}) = 1) /\ Cardinality({}) = 0
  BY Zenon, FS_Singleton, FS_EmptySet
<1> QED
  BY Zenon, <1>1, <1>2, <1>3, <1>4, <1>5 DEF Counting

(* The invariant behind the slot counters of DiffusionServer holds in      *)
(* every deployment whose clients draw distinct request ids: the server's  *)
(* state is well typed, and every request has one message or queue entry,  *)
(* which matches the state of its record.                                  *)
THEOREM SlotInvariantHolds == UniqueIds => (Spec => []SlotInvariant)
<1> SUFFICES ASSUME UniqueIds
             PROVE  Spec => []SlotInvariant
  BY Zenon
<1>1. Init => SlotInvariant
  BY Zenon, CountingHolds, InitSlotInvariant
<1>2. SlotInvariant /\ [Next]_vars => SlotInvariant'
  BY Zenon, CountingHolds, NextSlotInvariant
<1>3. QED  BY <1>1, <1>2, PTL DEF Spec

(* _<role>_free_slots never leaves 0 .. capacity, for any number of        *)
(* instances, slots and clients, with timeouts and with every fault of a   *)
(* role: no handler gives back a slot that a timeout, an error or another  *)
(* handler has given back before.                                          *)
THEOREM SlotsStayWithinCapacity == UniqueIds => (Spec => []SlotsWithinCapacity)
<1>1. SlotInvariant => SlotsWithinCapacity
  <2> SUFFICES ASSUME SlotInvariant, NEW q \in Roles, NEW i \in Inst(q)
               PROVE  free[q][i] \in 0 .. Capacity[q]
    BY Zenon DEF SlotsWithinCapacity
  <2>1. free[q][i] \in Int /\ Capacity[q] \in Nat
    BY Zenon, ServerAssumption DEF SlotInvariant, ServerTypeOK
  <2>2. free[q][i] >= 0 /\ free[q][i] + Cardinality(Holders(q, i)) <= Capacity[q]
    BY Zenon DEF SlotInvariant, SlotBound
  <2>3. Cardinality(Holders(q, i)) \in Nat
    BY Zenon, CountingHolds, HoldersFinite DEF Counting
  <2>4. QED  BY <2>1, <2>2, <2>3
<1>2. QED  BY <1>1, SlotInvariantHolds, PTL

(* The server owes a client an answer exactly while it tracks the request, *)
(* and a tracked request is in a queue exactly while its record says that  *)
(* it waits for that role: timeouts, errors, results and dispatches, in    *)
(* whatever order, never leave a request half forgotten.                   *)
THEOREM ServerViewConsistent == UniqueIds => (Spec => []TrackerConsistent)
<1>1. Init => AllConsistent
  BY InitConsistent
<1>2. SlotInvariant /\ AllConsistent /\ [Next]_vars => AllConsistent'
  BY NextConsistent
<1>3. SlotInvariant /\ AllConsistent => TrackerConsistent
  BY ConsistentTracker
<1>4. QED  BY <1>1, <1>2, <1>3, SlotInvariantHolds, PTL DEF Spec

(* No two transfers share a block, in every deployment whose clients draw  *)
(* distinct request ids: with timeouts and every fault of a role, a        *)
(* message about a request leads only to blocks of that request.           *)
THEOREM OwnershipHolds == UniqueIds => (Spec => []OwnershipInvariant)
<1>1. Init => OwnershipInvariant
  BY InitOwnership
<1>2. SlotInvariant /\ OwnershipInvariant /\ [Next]_vars => OwnershipInvariant'
  BY NextOwnership
<1>3. QED  BY <1>1, <1>2, SlotInvariantHolds, PTL DEF Spec

(* A preallocated receive slot is never in the server's free list twice,   *)
(* nor claimed twice, nor both: _try_fast_path_push and _recycle_prealloc_ *)
(* slot hand each slot on from one owner to the next.                      *)
THEOREM PreallocSlotOwnedOnce == UniqueIds => (Spec => []PreallocOwnedOnce)
<1>1. OwnershipInvariant => PreallocOwnedOnce
  <2> SUFFICES ASSUME OwnershipInvariant, NEW q \in Receivers, NEW i \in Inst(q), NEW s \in Prealloc
               PROVE  LET listed == {k \in 1 .. Len(peers[q][i]) : peers[q][i][k].slot = s}
                          claims == {r \in Requests : /\ transfer[r] # None
                                                      /\ transfer[r].pre = s
                                                      /\ transfer[r].addr = At(q, i, s)}
                      IN  Cardinality(listed) + Cardinality(claims) <= 1
    BY DEF PreallocOwnedOnce
  <2> DEFINE listed == {k \in 1 .. Len(peers[q][i]) : peers[q][i][k].slot = s}
             claims == {r \in Requests : /\ transfer[r] # None
                                         /\ transfer[r].pre = s
                                         /\ transfer[r].addr = At(q, i, s)}
  <2>1. ListOK(q, i)
    BY Zenon DEF OwnershipInvariant, ClaimsApart
  <2>2. \A r \in claims : r \in Requests /\ Claims(r) /\ transfer[r].addr = At(q, i, s)
    BY SlotsAreSlots DEF Claims
  <2>3. \A r, x \in claims : r = x
    BY Zenon, <2>2 DEF OwnershipInvariant, ClaimsApart
  <2>4. \A k, l \in listed : k = l
    BY Zenon, <2>1 DEF ListOK
  <2>5. \A k \in listed : claims = {}
    BY Zenon, <2>1, <2>2 DEF ListOK
  <2> HIDE DEF listed, claims
  <2>6. ASSUME NEW S, \A k, l \in S : k = l
        PROVE  Cardinality(S) = 0 \/ Cardinality(S) = 1
    <3>1. CASE S = {}
      BY <3>1, FS_EmptySet
    <3>2. ASSUME NEW k \in S
          PROVE  Cardinality(S) = 1
      <4>1. S = {k}
        BY Zenon, <2>6
      <4>2. QED  BY <4>1, FS_Singleton
    <3>3. QED  BY <3>1, <3>2
  <2>7. /\ Cardinality(listed) = 0 \/ Cardinality(listed) = 1
        /\ Cardinality(claims) = 0 \/ Cardinality(claims) = 1
    BY Zenon, <2>3, <2>4, <2>6
  <2>8. Cardinality(listed) = 0 \/ Cardinality(claims) = 0
    BY Zenon, <2>5, FS_EmptySet
  <2>9. Cardinality(listed) + Cardinality(claims) <= 1
    BY <2>7, <2>8
  <2>10. QED  BY Zenon, <2>9 DEF listed, claims
<1>2. QED  BY <1>1, OwnershipHolds, PTL

(* An RDMA write in flight goes to a block that belongs to its request and *)
(* is large enough, also when the request has timed out meanwhile.         *)
THEOREM PushesGoToOwnSlots == UniqueIds => (Spec => []PushTargetsOwnSlot)
<1>1. SlotInvariant /\ OwnershipInvariant => PushTargetsOwnSlot
  <2> SUFFICES ASSUME SlotInvariant, OwnershipInvariant, NEW m \in net, m.type = "PUSH"
               PROVE  LET a == m.addr IN
                      \/ receives[a.role][a.inst][m.id] = a.slot
                      \/ /\ transfer[m.id].pre = a.slot /\ a.slot \in Prealloc
                         /\ m.size <= PreallocSize
    BY Zenon DEF PushTargetsOwnSlot
  <2>1. m.id \in Requests /\ PushOK(m)
    BY Zenon, MessageKnown DEF TokenOK
  <2>2. /\ Lands(m.id, m.addr.role, m.addr.inst) /\ transfer[m.id].addr = m.addr
        /\ transfer[m.id].size = m.size
    BY Zenon, <2>1 DEF PushOK
  <2>3. Claims(m.id) => /\ transfer[m.id].pre \in Prealloc
                        /\ transfer[m.id].size <= PreallocSize
    BY Zenon, <2>1 DEF OwnershipInvariant, ClaimsApart, ClaimOK
  <2>4. QED  BY <2>2, <2>3 DEF Lands, Claims
<1>2. QED  BY <1>1, OwnershipHolds, SlotInvariantHolds, PTL

(* The work of a tracked request is at the instance that its record names, *)
(* and a PUSH reaches the instance that staged the data, although          *)
(* _handle_transfer_allocated and _handle_transfer_pushed go by the state  *)
(* of the record alone.                                                    *)
THEOREM WorkIsAtRecordedInstance == UniqueIds => (Spec => []WorkAtRecordedInstance)
<1>1. SlotInvariant /\ OwnershipInvariant => WorkAtRecordedInstance
  <2> SUFFICES ASSUME SlotInvariant, OwnershipInvariant, NEW m \in net,
                      m.type \in {"REQUEST", "ALLOC", "PUSH", "READY", "COMPUTE"},
                      Tracked(tracker, m.id)
               PROVE  /\ tracker[m.id].instance[m.role] = m.inst
                      /\ m.type = "PUSH" => staged[m.role][m.inst][m.id] # None
    BY Zenon DEF WorkAtRecordedInstance
  <2>1. TokenOK(m)
    BY MessageKnown
  <2>2. QED  BY <2>1 DEF TokenOK, WorksAt, PushOK, HasStaged
<1>2. QED  BY <1>1, OwnershipHolds, SlotInvariantHolds, PTL

(* As long as no RDMA push fails, the data of a request stays in blocks of *)
(* its own, from the encoder's output to the reply, with timeouts, model   *)
(* errors and handlers that raise.                                         *)
THEOREM DataStaysInPlace ==
  UniqueIds /\ "rdma" \notin Faults => (Spec => []DataInvariant)
<1> SUFFICES ASSUME UniqueIds, "rdma" \notin Faults
             PROVE  Spec => []DataInvariant
  OBVIOUS
<1>1. Init => DataInvariant
  BY InitData
<1>2. SlotInvariant /\ OwnershipInvariant /\ AnswerInvariant /\ DataInvariant /\ [Next]_vars
        => DataInvariant'
  BY NextData
<1>3. QED
  BY <1>1, <1>2, SlotInvariantHolds, OwnershipHolds, PendingClientsWait, PTL DEF Spec

(* A receiver is told READY only when its slot holds the output of the     *)
(* stage before, for the request of the message.                           *)
THEOREM ReadyMeansArrived ==
  UniqueIds /\ "rdma" \notin Faults => (Spec => []ReadyDataArrived)
<1>1. SlotInvariant /\ OwnershipInvariant /\ DataInvariant => ReadyDataArrived
  <2> SUFFICES ASSUME SlotInvariant, OwnershipInvariant, DataInvariant,
                      NEW m \in net, m.type = "READY",
                      NEW s, s = IF m.pre # None THEN m.pre ELSE receives[m.role][m.inst][m.id]
               PROVE  mem[At(m.role, m.inst, s)] = Output(m.id, Upstream(m.role))
    BY Zenon DEF ReadyDataArrived
  <2>1. /\ m \in Tokens(net) /\ m.id \in Requests /\ m.inst \in Inst(m.role)
        /\ m.role \in Receivers /\ Lands(m.id, m.role, m.inst)
    BY Zenon, MessageKnown DEF TokenOK, ReadyOK
  <2>2. transfer[m.id].addr = At(m.role, m.inst, s)
    BY <2>1, ReadySlot, LandsAllocated
  <2>3. QED  BY Zenon, <2>1, <2>2 DEF DataInvariant, CarriesOwnData
<1>2. QED  BY <1>1, DataStaysInPlace, OwnershipHolds, SlotInvariantHolds, PTL

(* A client that gets a result gets its own, made from its own latents:    *)
(* whatever is late, times out or raises, no request's data takes the      *)
(* place of another's.                                                     *)
THEOREM ClientsGetOwnResults ==
  UniqueIds /\ "rdma" \notin Faults => (Spec => []RepliesAreOwn)
<1>1. DataInvariant => RepliesAreOwn
  BY DEF DataInvariant
<1>2. QED  BY <1>1, DataStaysInPlace, PTL
===============================================================================
