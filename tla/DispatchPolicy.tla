---------------------------- MODULE DispatchPolicy ----------------------------
(***************************************************************************)
(* The capacity-aware dispatch policies of disaggregation/dispatch_policy. *)
(* py.  A pool has instances 0..n-1, `free` gives their free slots and     *)
(* `cur` is the policy's counter: RoundRobin._next, or                     *)
(* MaxFreeSlotsFirst._tiebreak, which only matters modulo n.               *)
(*                                                                         *)
(* A policy is stated as a relation, Selects(policy, n, cur, free, i): the *)
(* call select_with_capacity(free) returns i.  It returns None exactly     *)
(* when Full(n, free).  DispatchPolicyCheck compares the relation with the *)
(* loops of the code.                                                      *)
(***************************************************************************)
EXTENDS Integers

Policies == {"round_robin", "max_free_slots"}

Pool(n) == 0 .. (n - 1)

Full(n, free) == \A i \in Pool(n) : free[i] <= 0

(* How many probes after `cur` the scan reaches i.                         *)
Probes(n, cur, i) == IF i >= cur THEN i - cur ELSE i - cur + n

(* RoundRobin: the first instance with a free slot at or after _next.      *)
RoundRobinSelects(n, cur, free, i) ==
  /\ free[i] > 0
  /\ \A j \in Pool(n) : free[j] > 0 => Probes(n, cur, i) <= Probes(n, cur, j)

(* MaxFreeSlotsFirst: an instance with the most free slots; of several,    *)
(* the one the tiebreak counter points at, else the lowest index.          *)
MaxFreeSlotsSelects(n, cur, free, i) ==
  /\ free[i] > 0
  /\ \A j \in Pool(n) : free[j] <= free[i]
  /\ \/ i = cur
     \/ free[cur] < free[i] /\ \A j \in Pool(n) : free[j] = free[i] => i <= j

Selects(policy, n, cur, free, i) ==
  IF policy = "round_robin"
  THEN RoundRobinSelects(n, cur, free, i)
  ELSE MaxFreeSlotsSelects(n, cur, free, i)

Advance(n, k) == IF k + 1 = n THEN 0 ELSE k + 1

(* The counter after a call that returned i, and after one that returned   *)
(* None: a fruitless round-robin scan ends where it began.                 *)
CursorAfter(policy, n, cur, i) ==
  IF policy = "round_robin" THEN Advance(n, i) ELSE Advance(n, cur)

CursorAfterNone(policy, n, cur) ==
  IF policy = "round_robin" THEN cur ELSE Advance(n, cur)
===============================================================================
