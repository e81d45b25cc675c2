-------------------------- MODULE DispatchPolicyCheck --------------------------
(***************************************************************************)
(* One pool of instances under one dispatch policy: a step asks the policy *)
(* for an instance and takes a slot there, or gives a slot back.  The      *)
(* policy is computed here by the loops of dispatch_policy.py; the         *)
(* properties compare the loops with the relation of DispatchPolicy that   *)
(* the server model uses, and bound how long an instance is passed over.   *)
(***************************************************************************)
EXTENDS DispatchPolicy

CONSTANTS
  N,         \* instances in the pool
  Capacity   \* slots per instance

ASSUME PoolAssumption == N \in Nat \ {0} /\ Capacity \in Nat \ {0}

None == -1

VARIABLES
  policy,   \* the configured policy; never changes
  free,     \* free slots per instance
  cursor,   \* RoundRobin._next, or MaxFreeSlotsFirst._tiebreak modulo N
  passed    \* passed[i]: the latest calls in a row that found i a contender
            \* and chose another instance

vars == <<policy, free, cursor, passed>>

-------------------------------------------------------------------------------

RoundRobinForgetsNext(cur, fr) ==
  LET scan[k \in 0 .. N] ==
        IF k = 0 THEN <<None, cur>>
        ELSE IF scan[k-1][1] # None THEN scan[k-1]
        ELSE LET idx == (cur + k - 1) % N
             IN  <<IF fr[idx] > 0 THEN idx ELSE None, cur>>
  IN  scan[N]

(* RoundRobin.select_with_capacity: scan[k] is <<result, _next>> after k   *)
(* probes; a scan that has found an instance has returned.                 *)
RoundRobinScan(cur, fr) ==
  LET scan[k \in 0 .. N] ==
        IF k = 0 THEN <<None, cur>>
        ELSE IF scan[k-1][1] # None THEN scan[k-1]
        ELSE LET idx == scan[k-1][2]
             IN  <<IF fr[idx] > 0 THEN idx ELSE None, (idx + 1) % N>>
  IN  scan[N]

MaxFreeSlotsTakesFull(cur, fr) ==
  LET scan[k \in 0 .. N] ==
        IF k = 0 THEN <<None, 0>>
        ELSE LET best == scan[k-1]
                 i    == k - 1
             IN  IF fr[i] > best[2] THEN <<i, fr[i]>>
                 ELSE IF fr[i] = best[2] /\ i = cur THEN <<i, best[2]>> ELSE best
  IN  <<scan[N][1], (cur + 1) % N>>

(* MaxFreeSlotsFirst.select_with_capacity: scan[k] is <<best_id,           *)
(* best_free>> after the first k instances.                                *)
MaxFreeSlotsScan(cur, fr) ==
  LET scan[k \in 0 .. N] ==
        IF k = 0 THEN <<None, 0>>
        ELSE LET best == scan[k-1]
                 i    == k - 1
             IN  IF fr[i] > best[2] THEN <<i, fr[i]>>
                 ELSE IF fr[i] = best[2] /\ best[2] > 0 /\ i = cur
                      THEN <<i, best[2]>> ELSE best
  IN  <<scan[N][1], (cur + 1) % N>>

(* <<the instance or None, the counter afterwards>>                        *)
SelectWithCapacity(pol, cur, fr) ==
  IF pol = "round_robin" THEN RoundRobinScan(cur, fr)
                         ELSE MaxFreeSlotsScan(cur, fr)

(* An instance the policy ought to reach soon.                             *)
Contender(i) ==
  /\ free[i] > 0
  /\ policy = "max_free_slots" => \A j \in Pool(N) : free[j] <= free[i]

-------------------------------------------------------------------------------

Init ==
  /\ policy \in Policies
  /\ free = [i \in Pool(N) |-> Capacity]
  /\ cursor = 0
  /\ passed = [i \in Pool(N) |-> 0]

(* A drain loop asks for an instance and dispatches to it.                 *)
Dispatch ==
  LET result == SelectWithCapacity(policy, cursor, free)
      got    == result[1]
  IN  /\ cursor' = result[2]
      /\ free' = [i \in Pool(N) |-> IF i = got THEN free[i] - 1 ELSE free[i]]
      /\ passed' = [i \in Pool(N) |->
                      IF i = got \/ ~Contender(i) THEN 0 ELSE passed[i] + 1]
      /\ UNCHANGED policy

(* A request leaves instance i.                                            *)
Release(i) ==
  /\ free[i] < Capacity
  /\ free' = [free EXCEPT ![i] = @ + 1]
  /\ UNCHANGED <<policy, cursor, passed>>

Next == Dispatch \/ \E i \in Pool(N) : Release(i)

Spec == Init /\ [][Next]_vars

-------------------------------------------------------------------------------

(* The relation Selects, with CursorAfter and CursorAfterNone, is what the *)
(* loops of select_with_capacity compute: the same instance, the same      *)
(* counter, and None exactly when no instance has a free slot.             *)
LoopsImplementRelation ==
  LET result == SelectWithCapacity(policy, cursor, free)
      got    == result[1]
  IN  /\ got = None <=> Full(N, free)
      /\ result[2] = IF got = None
                     THEN CursorAfterNone(policy, N, cursor)
                     ELSE CursorAfter(policy, N, cursor, got)
      /\ \A i \in Pool(N) : Selects(policy, N, cursor, free, i) <=> i = got

(* No starvation by the policy: whatever slots come back meanwhile, an     *)
(* instance that stays a contender (has a free slot, under round robin; is *)
(* not beaten on free slots, under max_free_slots) is chosen within N      *)
(* calls, because _next and _tiebreak move on at every call.               *)
BoundedOvertaking == \A i \in Pool(N) : passed[i] < N
===============================================================================
