---------------------------- MODULE MCExamples ----------------------------
(***************************************************************************)
(* Instance of Examples for TLC.                                           *)
(***************************************************************************)
EXTENDS ExampleObjects

AllApps ==
  {two_tasks, two_tasks_cpp, sem_basic, sem_basic_cpp, sem_counting_example,
   sem_counting_cpp, mutex_basic, mutex_basic_cpp, queue_posix(QueueCap),
   queue_posix_cpp(QueueCap)}

AllTasks == UNION {{a.tasks[n] : n \in 1 .. Len(a.tasks)} : a \in AllApps}
AppAttrs == {[prio |-> t.prio, slice |-> t.slice] : t \in AllTasks}
AppSleeps ==
  {hrt__ms_to_ticks(i.ms, TickHz, TickMod) :
     i \in UNION {{t.code[k] : k \in 1 .. Len(t.code)} : t \in AllTasks}}
=============================================================================
