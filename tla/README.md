# HardRT in TLA+

A verification development kept beside HardRT, a small C real-time kernel. It
models the core (`src/core`), the POSIX and the Cortex-M port, the semaphore,
mutex and message queue, the arithmetic of time, and the example programs on top
of all of them. TLC checks small instances; TLAPS proves every safety property
the runs check, but for three refinements, for every number of tasks,
priorities, tokens, places and ticks. All models are of the release build:
`HARDRT_DEBUG`, `HARDRT_STALL_ON_ERROR` and `HARDRT_TEST_HOOKS` are 0.

## Inventory

| Part | State | Operations | Hard behaviour | Correct when |
|---|---|---|---|---|
| Rings (`prio_q_t`, waiter queues, item buffer) | array, `head`, `tail`, `count` | push, pop | indices wrap; full ring drops; push interrupted by a push | first-in first-out, nothing lost or doubled |
| Core (`hardrt_core.c`) | `g_tcbs`, `g_rq`, `g_current`, `g_policy`, `g_default_slice`, `g_error` | init, create, yield, sleep, delete, make_ready, pick, scheduler entry | a task READY but on no queue, or on one twice; the idle slot; rejected priorities | READY tasks are queued once, the highest priority runs first |
| Tick (`hardrt_sched.c`) | `g_tick`, `wake_tick`, `slice_left` | `hrt__tick_isr`, `hrt_tick_from_isr` | 32-bit wrap; wakes a task that is still executing; charges `g_current` when it does not run | sleepers wake at their tick; quanta never go below zero |
| POSIX port | `g_switch_pending`, signal mask, contexts | scheduler loop, hop, signal handler, critical sections | a tick between any two unmasked statements | no request to switch is lost |
| Cortex-M port | PSP and saved `sp`, PENDSVSET, BASEPRI, `g_cs_nest` | PendSV, `hrt__schedule`, SysTick, critical sections, idle task | preemption between any two statements; a task woken before it has switched away | the processor is on the stack of `g_current`; masked sections are not interrupted |
| Semaphore | `count`, `max_count`, waiters | take, try_take, give, give_from_isr | fast path fails, token arrives, slow path blocks | tokens conserved, no waiter beside a token |
| Mutex | `locked`, `owner`, waiters | lock, try_lock, unlock | direct hand-over; owner deleted; non-owner unlocks | one owner; a task returns from lock only as owner |
| Message queue | items, receivers and senders waiting | send, recv, try and ISR forms | woken task finds the item or slot taken again | order kept, no waiter stranded beside what it waits for |
| Time | `g_tick_hz`, timer periods | `hrt__ms_to_ticks`, `hrt_now_ms`, `hrt_port_start_systick` | rounding, saturation, truncated periods, wrap | a sleep lasts what was asked for, up to a tick |
| Example programs | their tasks and the object they share | main, task loops, timer handlers | all of the above together | every task goes on for ever; `dwt_timing` ends |
| C++ wrappers | none | forwarding | a wrapper that calls the wrong thing | the C++ programs are their C twins |
| Null port, fault diagnostics, version information | none | stubs, post-mortem, constants | - | - |

The application calls the core and the primitives; the primitives change the
core only through `hrt__make_ready`, the assignment `state = HRT_BLOCKED` and
`hrt_yield`; the core reaches the processor through the port
(`hrt__pend_context_switch`, `hrt_port_yield_to_scheduler`); the port's timer
calls `hrt__tick_isr`, which interrupts everything outside a masked region.

## Modules

| Module | Models |
|---|---|
| `Ring` | the ring structure and its operations as operators |
| `BoundedFifo` | what users of a ring rely on: a bounded first-in first-out queue |
| `RingQueue` | one ring as a state machine; it implements `BoundedFifo` |
| `RqPushRace` | `rq_push` statement by statement, interrupted by the tick handler's push |
| `Kernel` | TCBs, ready queues, tick and quantum: the core's operations as action fragments |
| `PosixPort` | the core on the POSIX port: who runs, what can interrupt it |
| `Sched` | the promise: one running task, always the highest READY priority |
| `Mutex` | `hrt_mutex_t`: lock, try_lock, unlock, and reuse of slots |
| `Semaphore` | `hrt_sem_t`: initialisation, take, try_take, give from tasks and interrupts |
| `MsgQueue` | `hrt_queue_t`: send and receive, blocking, trying and from interrupts |
| `MsgBuffer` | the message queue together with the ring that holds its items |
| `Time` | conversions between milliseconds, ticks and timer periods, as operators |
| `Clock` | ticks and one sleeper against real time, on either port's timer |
| `Programs` | the POSIX example programs, C and C++, and the C++ wrappers, as data |
| `Examples` | these programs on `PosixPort`: kernel, shared object and timer signal composed |
| `ExampleObjects` | what the objects of the programs are in `Semaphore`, `Mutex` and `MsgQueue` |
| `CortexPort` | the core on the Cortex-M port: stacks, PendSV, SysTick, BASEPRI |
| `CortexApps` | the board programs on `CortexPort`, with the timer interrupts of `dwt_timing` |
| `MCPosix`, `MCSemaphore`, `MCClock`, `MCExamples`, `MCCortex` | instances for TLC |
| `PartProofs` | proofs about the parts that stand alone: `RingQueue`, `Clock`, `Semaphore` |
| `MutexProofs`, `MsgQueueProofs` | proofs about `Mutex`, `MsgQueue` and `MsgBuffer` |
| `PosixProofs`, `ExampleProofs` | proofs about `PosixPort` and about the programs on it |
| `CortexProofs`, `PreemptProofs` | proofs about `CortexApps` |
| `QueueProofs` | lemmas the others share: waiter queues, search loops, the wrapping counter |

### Kernel

The fields of a TCB are functions of the task id, `g_rq` maps a priority to a
sequence of ids (`PartProofs` justifies the sequence), the stack and the entry
point are left out. `rq_push` drops and reports, as in the code. The lengths of
sleeps are given in ticks; `to_sleep` is the only history variable, the number
of ticks a sleeper has still to sleep, which the code does not store.
`g_tick` counts modulo `TickMod`, which stands for 2^32; `Due` is the signed
compare of `hrt__tick_isr`.

### PosixPort

Tasks and the scheduler loop are ucontexts of one thread, so one program counter
`pc` says what the processor executes; its values are the points at which
SIGALRM is not masked, and whatever the code does with the signal masked is one
step. The tick handler runs at any of these points with
`HRT_TICK_SYSTICK`; with `HRT_TICK_EXTERNAL` main or the running task calls
`hrt_tick_from_isr`. Its loop over the tasks takes one step per task.
`Block` and `WakeWaiter` are what the primitives do to the kernel.

`rq_push` outside a masked region (`hrt_yield`, `hrt_create_task`) is one step
in this module. With ticks from the application that is exact. With the timer
signal it is exact as long as the handler does not push on the same ring, that
is, as long as nobody sleeps at the priority of the task that is pushed
(`PushApart`); main may push at will, since nobody sleeps before `hrt_start`.
What happens otherwise is the subject of `RqPushRace`. The runs of this module
have application ticks, the theorems that cover the timer signal have
`PushApart` as a premise, and the programs of `Examples`, whose tasks have
different priorities and create none, are proved to keep it.

### Mutex, Semaphore, MsgQueue

The primitives are modelled at the granularity of their critical sections, which
is where they touch shared state: the fast path (try), the re-check that blocks,
and the return after a wake-up are separate steps, since another task or an
interrupt can come between them. Which READY task moves next is left open, so
every priority assignment and every preemption is included; what is taken from
the kernel is that a task that is not READY does not execute. The contract
between the two levels has two halves: the kernel guarantees `RunsOnlyReady`
(proved for the POSIX port, under the conditions of `TimelySpec`), and the primitives guarantee
that `hrt__make_ready` is called for BLOCKED tasks only, which is the guard of
`WakeWaiter` in `PosixPort` and follows from `WaitersBlocked` and
`WaitersParked`. `holds` (mutex) and `credit` (semaphore) are history variables:
what the callers were told, against which the fields of the structures are
compared. `MsgQueue` counts the items. `MsgBuffer` adds the buffer: each send and
receive that succeeds pushes to or pops from the ring of `RingQueue` in the same
critical section, so that the capacity, the count that decides who waits, and the
indices that wrap are one system; `ImplementsFifo` is that it keeps the order.

### Time and Clock

`Time` has the conversions as the code computes them, over a word of any size:
`hrt__ms_to_ticks` rounds up, returns at least 1 and saturates; `hrt_now_ms`
cuts a 64-bit quotient to 32 bits; the period of SysTick is truncated and
clamped, that of the POSIX timer truncated. `Clock` lets real time pass in units
of the timer's clock, an interrupt once a period, and a task that calls
`hrt_sleep` at any moment in between. `slept`, `left`, `real` and `wrapped` are
history variables.

### Programs and Examples

A program is the object its tasks share and, for each task, its priority, its
quantum and its list of kernel calls. The C++ programs are written with the
wrappers, so that `CppTwins`, which TLC evaluates, says that each sets up and
calls what its C twin does (`mutex_basic_cpp` differs in its delays and is run
on its own). `Examples` executes a program: `app`, the object `obj`, the
instruction `ip` of each task and `at`, where in that call it is. The fast path,
the re-check that blocks and the return are steps of their own, with the ticks
and the scheduler loop of `PosixPort` in between; `WakeOne` calls the kernel's
`WakeWaiter`. In `ExampleObjects`, `TheSemaphore`, `TheMutex` and `TheQueue` map
this state to the modules of the primitives, which closes the gap that those
modules leave open: that the kernel really lets only READY tasks execute and
wakes whom they wake.

### CortexPort and CortexApps

Every task has a place in its own code (`at`, and `cs` inside
`hrt_port_crit_enter` and `hrt_port_crit_exit`), because the processor is taken
away between any two statements. `psp` says whose stack the processor is on, and
`sp` what the TCBs have saved. Device interrupts are above SysTick, SysTick
above PendSV, PendSV above thread code, as `hrt_port_start_systick` and the
NVIC priorities of `dwt_timing` set it up; BASEPRI masks all of them. PendSV
runs with interrupts disabled and is one step: `hrt__schedule` saves PSP, queues
a READY task again, picks the next one and loads its stack. `CortexApps` has the
tasks of the four board programs and the handlers TIM2 and TIM3. `arms` and
`given` are history variables: the events that armed a measurement, and whether
a task was given what its `hrt_sem_take` returns with.

## Runs

| Run | Instance | Shows |
|---|---|---|
| `posix_tasks` | 3 user tasks, 2 priorities, application ticks; create, yield, give, delete; fairness | ready queues correct, highest first, refinement of `Sched`, every READY task of the highest priority runs again (0.4 M states) |
| `posix_sleep` | 2 user tasks, sleeps of 1 and 3 of 8 ticks | wake-ups are exact over several wraps of the counter (0.9 M states) |
| `examples` | the 10 POSIX programs, timer signal at every unmasked point, fairness | no switch request is lost, guarded sections exclude each other, every task goes on for ever, and the objects refine `Semaphore`, `Mutex` and `MsgQueue` (0.6 M states) |
| `mutex` | 4 tasks, deletion of tasks that hold nothing, fairness | one holder, waiters served in order, every lock call returns |
| `semaphore` | 4 tasks, an interrupt handler, 12 pairs of initial and maximal counts, fairness | tokens conserved, nobody waits beside one, takes return while gives come |
| `msg_queue` | 4 tasks, handlers, 3 places, 2 items, fairness | nobody is stranded beside an item or a free place; the buffer is a first-in first-out queue (0.3 M states) |
| `cortex` | the 4 board programs, fairness | `psp` and `g_current` agree, critical sections are never interrupted or left masked, sleepers preempt and return, `dwt_timing` counts every event once and ends (0.1 M states) |
| `clock` | 10 timer settings of both ports, 5 sleeps, a 32-value word | the length of a sleep, and `hrt_now_ms` against real time over the wrap (1.2 M states) |
| `sleep_short` | a tick of 2 ms on either port | violation: a sleep is shorter than asked for |
| `cortex_stale` | `dwt_timing` | violation: `hrt_sem_take` returns without a token |
| `cortex_rr` | two computing tasks, one priority, quantum 1, fairness | violation: the hand-offs stop |
| `rq_push_race` | 3 slots, one yielding task, two sleepers | violation: a pushed task is lost |

What the four violations say:

* `sleep_short`. `hrt_sleep` adds whole ticks to `g_tick`, so the tick in progress
  counts as a whole one: a sleep of 4 ms that starts inside a tick of 2 ms ends up
  to 2 ms early ("Sleep the calling task for at least the specified milliseconds",
  `src/inc/hardrt.h:227`; `src/docs/API_C.md:73`). `SleepWindow` (run `clock`) is
  what holds instead.
* `cortex_stale`. `hrt_sem_take` sets BLOCKED in its critical section and pends
  the switch after it. A give from a handler after that request and before PendSV
  finds the task in the waiter queue and makes it READY, which queues it; PendSV
  then finds the task it switches out READY and queues it once more. The task goes
  on with its token and one entry stays behind. Resuming a BLOCKED task takes two
  of them, because after the switch of `hrt__pend_context_switch` the code pends
  another one in `hrt_port_yield_to_scheduler`: after two such gives the task
  blocks, each PendSV pops a stale entry, and `hrt_sem_take` returns 0 although
  nobody gave and the task is still BLOCKED ("When we resume, we must have been
  given the semaphore", `src/src/core/hardrt_sem.c:125`). `dwt_timing` survives
  this, because it looks at its own `armed` flag: the `cortex` run.
* `cortex_rr`. Only `hrt__on_scheduler_entry`, which only the POSIX port calls,
  renews a quantum that ran out. On Cortex-M `hrt__schedule` queues the task with
  `slice_left` 0, which never expires again; the tasks change places once each,
  and then one of them keeps the processor, while ticks go on without limit
  ("Handoffs occur exactly at every tick", `src/README.md:110`).
* `rq_push_race`. `hrt_yield` and `hrt_create_task` push with the tick enabled.

### Bounds

Three user tasks are enough for one to run, one to wait behind another of its
class and one in another class; a quantum of one tick makes every charge an
expiry. `TickMod` 8 lets a sleep of 3 cross the wrap from every start. Under
`HRT_TICK_SYSTICK` ticks could fall between the two statements of `hrt_sleep`
without limit; `ArmBound` allows as many as the sleep is long, since more than
2^31 of them are needed to change the outcome. Four tasks give a mutex or a
semaphore a holder and three waiters, so that a queue one short of its capacity
shows; with four tasks a message queue has two parked on one side while two others
compete for what was to wake them, and three places are the least for which head,
tail and a middle slot of its ring differ.

The programs run with `TickHz` 7 in place of 1000, which keeps the order of
their delays (500 and 1000 ms are 4 and 7 ticks) and crosses the wrap of a
counter of 16. `WindowTicks` 1 (`examples`) and `TurnTicks` 1 (`cortex`) allow
one tick between two passes of the scheduler, or two idle times, besides the
ones that end an idle wait: in the programs kernel calls are short against a
tick. Where no task sleeps or ever will (the tasks of `cortex_rr`) ticks are not
bounded at all (`OutsideTurn`). `SleepBound` has a Cortex-M task get from computing `wake_tick` to its
request of a switch before its sleep, a hundred ticks and more in the programs,
is over.
Ticks that find nobody asleep and no quantum to charge are left out of
`CortexApps`. `Target` 2 in place of 10000 samples has a first, a last and no
further one. `Clock` has exact and inexact periods, one too long for the reload
register and one too short for it; a word of 32 lets both counters wrap many
times, and only sleeps of less than half of it are made. `sleep_short` has ticks of
exactly 2 ms (`WholeTicks`), so that neither a truncated nor a clamped period
plays a part in it.

The cortex runs do not check for deadlock: `dwt_timing` really stops when its
handlers have their samples, and a computing task takes no step of the model.

### Fairness

The processor makes progress between ticks (strong fairness of
`KernelStep`, because every tick disables it for a while); a task that has the
processor calls the kernel sooner or later (strong fairness of `GiveUp`: the
POSIX port cannot preempt, so the claim is about applications that do this);
the handler finishes; the periodic timer fires again. For the primitives: a
READY task in the middle of an operation goes on (weak fairness), holders unlock
(strong fairness, they may also try to lock again in between), and for
`TakeCompletes` gives keep coming. `Examples` needs only weak fairness of the
processor, of the handler and of the timer, since what its tasks do is given by
the programs. On Cortex-M thread code is suspended by every interrupt and the
timers are masked by every critical section, so tasks and timers get strong
fairness; PendSV and the tick handler, which nothing can keep off for ever, weak.

## Proofs

Assumptions: the named `ASSUME`s of the modules, which TLC evaluates on the
instances it checks; for the POSIX port `Configured` (the application leaves the
idle slot alone, priorities are ones the build has) and, where a theorem is about
`TimelySpec`, that ticks come from the application or else, with the timer signal:

* every policy is strict priorities, or no quantum ends on the way to the
  scheduler (`QuantumCoversHop`);
* main creates the tasks, and none yields while another of its priority sleeps
  (`PushApart`), which is where `rq_push` in one step is what the code does.

Neither can be dropped (see Known limits and `rq_push_race`). For the programs
both are theorems and not assumptions. `TypeCorrect` needs none of this.

* `PartProofs`, the ring: the ring invariant ties `tail` to `head` and `count`;
  with it a push appends to and a pop removes from `Contents`, so the ring
  implements `BoundedFifo` for every size.
* `PartProofs`, the clock: `ClockInv` bounds what a task has slept by the ticks
  that have passed since its call, up to one; at the tick that wakes it, the
  bounds of the rounding in `hrt__ms_to_ticks` and of the truncated period give
  `SleepWindow`, for every clock rate, `tick_hz`, sleep and word size: the lower
  bound gives up a tick and one unit for each truncated period, and is not claimed
  for a period that the reload register clamped.
  `CountsTime` says that `real` is the time of `g_tick` periods and the phase, up
  to whole turns of the millisecond counter; lemmas on quotients and remainders
  (`ModShift`, `ModAdd`, `WrapIsWhole`) then carry `hrt_now_ms` over the wrap of
  `g_tick` where `tick_hz` divides 1000: `NowFollowsTime`.
* `PartProofs`, the semaphore: `SemInv` counts: the tokens given and not returned
  are the stored ones and the tasks woken that have not resumed, a set that each
  give to a waiter enlarges by one and each return reduces by one.
* `PosixProofs`: lemmas about the ready queues come first: what a push and a pick
  do to "queued exactly once", and the counting argument (an injection from
  positions to tasks) for `NeverOverflows`. Then type correctness for every
  configuration, and `Inv`, which adds to the properties what `pc` says of
  `g_current`, that a READY task on its way out has some of its quantum left
  (`QuantumLeft`), that a tick from a task interrupts nothing, the empty idle slot
  and that priorities exist. Without `QuantumLeft` the rotation in
  `hrt__on_scheduler_entry` could not be excluded. `FreshInv` adds the quantum at
  the push of `hrt_yield`. `LoopInv` is about the scheduler loop and the handler
  together: who hops to the loop has asked for a switch, and the loop finds the
  request gone only with the queues empty or before the end of a handler that
  makes another (`NoSwitchLost`). For sleeps of less than half the range of the
  counter (`SleepsShort`), `SleepInv` places `wake_tick` ahead of `g_tick` by
  `to_sleep` modulo `TickMod`; with it the signed compare is exact, and with the
  timer signal a sleep that a tick overtakes between the two statements of
  `hrt_sleep` is one tick late and never more (`AtMostOneTickLate`). Last, each
  step is a step of `Sched` or leaves it unchanged.
* `ExampleProofs`: for every set of programs, of any number of tasks, that fits
  `AppsAssumption`: a slot, attributes and sleeps of the configuration for each
  task, different priorities, quanta longer than `WindowTicks`, and guarded instructions that are
  entered by an acquiring call and left by a releasing one. Each step of
  `ExNext` is a step of `PosixPort`. `AppInv` says where a task can stand in its
  code and that only a call that can block is left in the middle; `BusyInv`,
  that what was charged to a task on its way out came after its quantum was
  renewed, at most `WindowTicks` of it, which gives `QuantumCoversHop`. `PrioInv`,
  that each task keeps the priority main gave it, gives `PushApart`: a sleeper is
  never of the priority of the task that yields. Together they are
  `ProgramsAreTimely`: what is proved of `TimelySpec` holds for the programs.
  `GuardInv` says who has the token or the mutex, the handed-over one included;
  `TasksKeptApart` follows.
* `CortexProofs`: for any number of tasks and any program of `CortexApps`, without
  using its bounds on ticks. `CritInv` adds to `CritMasks` that a task between
  raising and restoring BASEPRI keeps the processor, with the nesting count of
  its place, and that `g_basepri_prev` never remembers a raised BASEPRI, which is
  why a switch between saving and raising does no harm. `StackInv` adds to
  `StackOfCurrent` that everything `hrt__schedule` can switch to (what is queued,
  waits or sleeps, and the idle task) has a stack of its own, so the early return
  for a null `sp` never leaves the processor on the old one. `SampleInv` adds to
  `SamplesExact` that a task about to disarm still finds its measurement armed.
* `PreemptProofs`: `Preempts` for programs that compute and sleep. `ReadyInv`
  says that the ready queues hold exactly the READY tasks the processor is not
  on, each once, so that PendSV picks a best one; `SwitchComes`, that whenever a
  better task is READY a switch is pending, or the handler that woke it is about
  to request one. This is inductive only if no tick ends a sleep before PendSV
  has switched the sleeper out (`WokenAfterSwitch`): such a tick queues the task,
  PendSV finds it READY and queues it again, and `ReadyInv` is lost. TLC shows
  that `h755_blinky_cpp` gets there when `TickHz` 7 makes its 100 ms a sleep of
  one tick (and that `Preempts` holds all the same, which the `cortex` run
  includes). So there are two theorems: `HighestRuns` has `WokenAfterSwitch` as a
  premise. `SleepersPreempt` replaces it by `LongSleeps`, a condition on the
  programs: their sleeps have more ticks than `TurnTicks`, which at 1000 ticks a
  second, with sleeps of 100 ms and more, the board programs meet by far. `TurnInv` is the argument: the ticks a
  task on its way to sleep has still to sleep, and those of the turn, are
  together more than `TurnTicks`, and while it has not been switched out the
  processor is not idle and the turn goes on.
* `QueueProofs`: a waiter queue that holds each of its tasks once has room for
  one that is not in it, and stays so when one is appended or the first removed.
  This is why the silent drop of a full waiter queue never happens. Also what
  the ascending search loops of the kernel find, and that a deadline `k` ticks
  ahead is `k` away modulo the range of the counter.
* `MutexProofs`: `Mutex!Inv` adds to the three invariants that a task handed the
  mutex is its owner, that an unlocked mutex has none, and that an empty slot is
  in no operation; `FirstWaiterNext` follows from it.
* `MsgQueueProofs`: `QueueInv`. The items nobody has been woken for, and the
  free places, are bounded by the tasks that are awake in a receive or a send,
  again by cardinalities; the stranding properties and `NoDeadlock` follow.
  `BufferIsBoth` shows that `MsgBuffer` is at once a `MsgQueue` and a `RingQueue`,
  so that all of this and `RingImplementsFifo` hold for the queue with its buffer;
  `BufferCounts`, that the count the one goes by is the number of items in the other.

Only model-checked:

* liveness (`TopPrioRuns`, `KeepsGoing`, `LockCompletes`, `TakeCompletes`,
  `ReceiverServed`, `MeasurementEnds`, `SleepersReturn`): the prover does not
  reason about fairness and `ENABLED`;
* `UsesSemaphore`, `UsesMutex` and `UsesQueue`, the refinement of the primitives
  by the programs: with three modules instantiated under a refinement mapping,
  every obligation carries their substituted definitions, which made even the
  first lemmas too slow to check. The central consequence for the programs, `OneAtATime`, is
  proved directly.

## Known limits of the code

What the models exclude by an assumption or a bound, because the code does not
handle it:

* `hrt_create_task` hands out the slot of `HRT_IDLE_ID` when all others are in
  use; the POSIX scheduler then takes the popped id for "nothing to run", and
  the task is READY on no queue (`hardrt_core.c:229`).
* It marks a task READY and reports success although `rq_push` refused its
  priority (`hardrt_core.c:264`).
* With the timer signal, a tick inside the `rq_push` of `hrt_yield`, or of a
  `hrt_create_task` that a task calls, loses a task if it wakes a sleeper of the
  same priority (`rq_push_race`).
* With the timer signal, a sleep of one tick and a quantum of one tick, two
  ticks between the end of the bookkeeping in `hrt_sleep` and the hop put the
  task on its queue twice (`hardrt_core.c:513`).
* A sleep of 2^31 ticks or more ends at the next tick (`hardrt_core.c:308`).
* Under `HRT_SCHED_RR` priorities still decide (`hardrt_core.c:436`), where
  `hardrt.h:78` says "single round-robin class".
* A sleep can be up to a tick shorter than asked for (`sleep_short`).
* `hrt_sleep(0)` sleeps until the next tick (`hardrt_core.c:277`: "sleep(0) ==
  sleep(1 tick)"), where `hardrt.h:228` says "0 yields
  immediately". `SleepWindow` includes it as a sleep of at most one tick.
* `hrt_now_ms` jumps when the tick counter wraps, unless `tick_hz` divides 1000.
* On POSIX a `tick_hz` of 1 is refused by `setitimer`, one of more than a million
  stops the timer, and neither is reported (`TimerStarts`).
* On Cortex-M a sleep that ends between the request of its switch and PendSV
  leaves the task on its queue twice (`hardrt_core.c:559`), like the give of
  `cortex_stale`. TLC gets there with a sleep of one tick.
* On Cortex-M `hrt_yield` queues its caller and `hrt__schedule` queues it again.
  No board program yields.
* Deleting a task that owns a mutex leaves it locked in the name of the freed
  slot, and the next task created there is taken for its owner.
* `Task::create` keeps the stack in a static of its template instance, which two
  tasks with the same size and tag share. A slice of 0 there means none, where
  the comment says the default.

## Not modelled

* The debug build's extra checks, with `hrt_port_sp_valid`, and the test hooks.
* Register contents and stack frames: a context is its place in the code and
  whose stack it is on. `hrt__task_trampoline` is the start of a task's code.
* `two_tasks_external`: its ticks come from a second thread that no mask of the
  kernel keeps out. Every access of the kernel races with it, and the outcome is
  undefined in C, not a choice between interleavings.
* The external tick source, `hrt_yield` and `hrt_task_delete` on Cortex-M, which
  no board program uses.
* The null port (stubs), the fault diagnostics (nothing runs afterwards), version
  and port information (constants), the board support (vendor configuration,
  clock and pin set-up, timer registers of `dwt_timing`).
* `System` and `QueueRef` of the C++ wrappers: plain forwarding.
* `hrt__requeue_noreset`, `hrt__save_current_sp` and
  `hrt__load_next_sp_and_set_current`, which nothing calls.
* `need_switch` of the interrupt forms: an output no code in the kernel reads.
