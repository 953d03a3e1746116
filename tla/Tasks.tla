-------------------------------- MODULE Tasks --------------------------------
(***************************************************************************)
(* What the kernel promises about the life of its tasks: one processor,     *)
(* given to one ready task at a time; only the running task can put itself  *)
(* to sleep or end; an ended task stays ended.  Sched.tla implements it.    *)
(***************************************************************************)
CONSTANTS Task, None

VARIABLES
  running,      \* the task that has the processor, or None
  sleeping,     \* tasks waiting for a time
  ended         \* tasks that have exited

taskVars == <<running, sleeping, ended>>

TasksInit == running = None /\ sleeping = {} /\ ended = {}

Dispatch(t) ==
  /\ running = None
  /\ t \notin sleeping \union ended
  /\ running' = t
  /\ UNCHANGED <<sleeping, ended>>

Preempt ==
  /\ running # None
  /\ running' = None
  /\ UNCHANGED <<sleeping, ended>>

Sleep ==
  /\ running # None
  /\ running' = None
  /\ sleeping' = sleeping \union {running}
  /\ UNCHANGED ended

Exit ==
  /\ running # None
  /\ running' = None
  /\ ended' = ended \union {running}
  /\ UNCHANGED sleeping

(* Time passes: some of the sleepers may be woken, nothing else changes. *)
Wake ==
  /\ sleeping' \subseteq sleeping
  /\ UNCHANGED <<running, ended>>

TasksNext == (\E t \in Task : Dispatch(t)) \/ Preempt \/ Sleep \/ Exit \/ Wake

TasksSpec == TasksInit /\ [][TasksNext]_taskVars
=============================================================================
