------------------------------ MODULE LoopErrors ------------------------------
(***************************************************************************)
(* The except branch at the end of the event loops of scheduler_mixin.py:  *)
(* an exception is logged and counted, and the loop goes on until too many *)
(* were counted.                                                           *)
(***************************************************************************)
EXTENDS Naturals

CONSTANT MaxErrors   \* _max_consecutive_errors

ASSUME MaxErrorsAssumption == MaxErrors \in Nat \ {0}

EndsLoop(count) == count >= MaxErrors
===============================================================================
