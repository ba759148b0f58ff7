------------------------------ MODULE Programs ------------------------------
(***************************************************************************)
(* The programs under examples/ that run on the POSIX port, as data.  A    *)
(* program is the object its tasks share and its tasks in the order in     *)
(* which main creates them; a task repeats its code for ever.  An          *)
(* instruction is a kernel call: `ms' is the argument of a sleep, `fail'   *)
(* the instruction a failing call jumps to (0: its result is ignored).     *)
(* Printing is left out.                                                   *)
(***************************************************************************)
EXTENDS Integers, Sequences

call(op) == [op |-> op, ms |-> 0, fail |-> 0]
call_or(op, fail) == [op |-> op, ms |-> 0, fail |-> fail]
sleep(ms) == [op |-> "sleep", ms |-> ms, fail |-> 0]

task(prio, slice, code) == [prio |-> prio, slice |-> slice, code |-> code]

none == [kind |-> "none", count |-> 0, cap |-> 0]
mutex == [kind |-> "mutex", count |-> 0, cap |-> 0]
queue(capacity) == [kind |-> "queue", count |-> 0, cap |-> capacity]

(* hrt_sem_init and hrt_sem_init_counting.                                  *)
sem(init) == [kind |-> "sem", count |-> IF init = 0 THEN 0 ELSE 1, cap |-> 1]
sem_counting(init, max) ==
  LET m == IF max = 0 THEN 1 ELSE max
  IN  [kind |-> "sem", count |-> IF init > m THEN m ELSE init, cap |-> m]

(* `guarded': the instructions a task executes while it has the semaphore   *)
(* or the mutex, where the program uses it to keep the others out.          *)
program(object, guarded, tasks) ==
  [object |-> object, guarded |-> guarded, tasks |-> tasks]

-----------------------------------------------------------------------------
(* The C programs.                                                          *)

two_tasks ==
  program(none, {},
          << task(0, 0, << sleep(500) >>),
             task(1, 5, << sleep(1000) >>) >>)

sem_basic ==
  program(sem(1), {2, 3},
          << task(0, 0, << call("take"), sleep(200), call("give"), sleep(200) >>),
             task(1, 5, << call_or("try_take", 4), sleep(100), call("give"),
                           sleep(100) >>) >>)

sem_counting_example ==
  program(sem_counting(0, 5), {},
          << task(0, 0, << call("give"), call("give"), call("give"), sleep(300) >>),
             task(1, 0, << call("take"), sleep(200) >>) >>)

mutex_basic ==
  program(mutex, {2, 3},
          << task(0, 5, << call_or("lock", 4), sleep(300), call("unlock"),
                           sleep(200) >>),
             task(1, 5, << call_or("try_lock", 4), sleep(150), call("unlock"),
                           sleep(100) >>) >>)

(* The capacity, 32 in the source, is a parameter.                          *)
queue_posix(capacity) ==
  program(queue(capacity), {},
          << task(0, 0, << call("send"), sleep(200) >>),
             task(1, 5, << call("recv"), sleep(500) >>) >>)

-----------------------------------------------------------------------------
(* The wrappers of cpp/hardrtpp.hpp.  A method is one call of the C function *)
(* of its class, with the same arguments and result.                        *)

(* Task::create always passes attributes: a slice of 0 is not replaced by   *)
(* the default one.                                                         *)
Task_create(prio, slice, code) == task(prio, slice, code)

Task_sleep(ms) == sleep(ms)

Semaphore_new(init, max_count) ==
  IF max_count <= 1 THEN sem(init) ELSE sem_counting(init, max_count)

Semaphore_method ==
  [take |-> "take", try_take |-> "try_take", give |-> "give",
   give_from_isr |-> "give_from_isr"]

(* The capacity is cut to 16 bits.                                          *)
StaticQueue_new(capacity) == queue(capacity % 65536)

StaticQueue_method ==
  [send |-> "send", try_send |-> "try_send", recv |-> "recv",
   try_recv |-> "try_recv", try_send_from_isr |-> "try_send_from_isr",
   try_recv_from_isr |-> "try_recv_from_isr"]

Mutex_new == mutex

Mutex_method == [lock |-> "lock", try_lock |-> "try_lock", unlock |-> "unlock"]

-----------------------------------------------------------------------------
(* The C++ programs.                                                        *)

two_tasks_cpp ==
  program(none, {},
          << Task_create(0, 0, << Task_sleep(500) >>),
             Task_create(1, 5, << Task_sleep(1000) >>) >>)

sem_basic_cpp ==
  LET m == Semaphore_method
  IN  program(Semaphore_new(1, 1), {2, 3},
              << Task_create(0, 0, << call(m.take), Task_sleep(200), call(m.give),
                                      Task_sleep(200) >>),
                 Task_create(1, 5, << call_or(m.try_take, 4), Task_sleep(100),
                                      call(m.give), Task_sleep(100) >>) >>)

sem_counting_cpp ==
  LET m == Semaphore_method
  IN  program(Semaphore_new(0, 5), {},
              << Task_create(0, 0, << call(m.give), call(m.give), call(m.give),
                                      Task_sleep(300) >>),
                 Task_create(1, 0, << call(m.take), Task_sleep(200) >>) >>)

mutex_basic_cpp ==
  LET m == Mutex_method
  IN  program(Mutex_new, {2, 3},
              << Task_create(0, 5, << call_or(m.lock, 4), Task_sleep(200),
                                      call(m.unlock), Task_sleep(200) >>),
                 Task_create(1, 5, << call_or(m.try_lock, 4), Task_sleep(150),
                                      call(m.unlock), Task_sleep(50) >>) >>)

queue_posix_cpp(capacity) ==
  LET m == StaticQueue_method
  IN  program(StaticQueue_new(capacity), {},
              << Task_create(0, 0, << call(m.send), Task_sleep(200) >>),
                 Task_create(1, 5, << call(m.recv), Task_sleep(500) >>) >>)
=============================================================================
