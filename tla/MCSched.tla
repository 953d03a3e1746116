------------------------------- MODULE MCSched -------------------------------
(***************************************************************************)
(* Sched with priorities of a few ticks and a clock of a few values.        *)
(***************************************************************************)
EXTENDS Sched

CONSTANTS IdlePriority, UserPriority

(* task.h:37-38: LOW_TASK for the idle task, MEDIUM_TASK for user tasks. *)
MCPriority == [t \in Task |-> IF t = 0 THEN IdlePriority ELSE UserPriority]
=============================================================================
