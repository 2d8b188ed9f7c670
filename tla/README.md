# TamgaOS: specifications and proofs

TLA+ models of the TamgaOS real-time kernel for ARM Cortex-M (`src/kernels/arm`),
the TLC runs that check them on small instances and TLAPS proofs for instances of
any size. Paths below are relative to `src/kernels/arm`.

## 1. The system

TamgaOS is a preemptive fixed-priority kernel for one CPU. Tasks are created by
`main`, each with a stack of its own; `SysTick` ticks every millisecond, counts
down delays and chooses who runs; `PendSV`, at the lowest interrupt priority,
switches the context. Shared state is protected by critical sections that mask
all interrupts (`include/sched_critical.h`); everything a function does outside
them can be interleaved with ticks, switches and other tasks.

| component | state | operations | what makes it correct |
|---|---|---|---|
| scheduler, `kernel/core/scheduler.c` | `s_tasks[]` (state, priority, delay_ticks, wait list fields), `g_current_task`, `g_next_task`, `s_task_count`, PENDSVSET | `sched_init`, `sched_task_create`, `sched_start`, `sched_tick_n`, `sched_delay_ms`, `sched_yield`, `sched_block`, `sched_task_pause/resume`, `sched_wake_task`, `sched_wait_list_remove` | one committed task, no lost switch, most urgent task runs, exact delays, round-robin among equals |
| context switch, `kernel/arch/*` | saved `sp` of every task | `PendSV_Handler`, `SVC_Handler`, `sched_start_asm` | every task is resumed on its own frame |
| mutex, `kernel/core/mutex.c` | owner, original priority, `is_elevated`, waiters | `mutex_lock`, `mutex_lock_timeout`, `mutex_trylock`, `mutex_unlock` | exclusion, exact wait list, no lost wake-up, priority inheritance and its undoing, bounded waits |
| semaphore, `semaphore.c` | count, max, waiters | `sem_take`, `sem_trytake`, `sem_give` | tokens neither lost nor invented, no lost wake-up |
| queue, `queue.c` | ring buffer, two wait lists | blocking, timed and polling send and receive | FIFO, no stranded sender or receiver |
| event groups, `event.c` | bits, waiters, pool of pending waits | `event_set`, `event_clear`, `event_wait`, `event_wait_timeout` | satisfied waiters wake, slots return to the pool |
| notifications, `notify.c` | pending flag and value per task | `task_notify_give`, `task_notify_wait` | no lost notification, no disturbance of other waits |
| software timers, `timer.c` | slots with period and deadline | create, start, stop, delete, service | expiry at the deadline, across the wrap of the clock |
| tickless idle, `scheduler.c`, `drivers/*/systick.c` | `s_tickless_active`, reload register | idle task, `systick_tickless_sleep` | time is neither lost nor counted twice |
| fault log, `fault_log.c`, `hardfault.c` | record in backup SRAM | write, check and clear | a record read after reset is a record written |
| watchdog, `iwdg.c` | prescaler, reload, time left | `iwdg_init`, `iwdg_kick`, reset cause | the programmed time is the one asked for |
| monitors, `deadline_monitor.c`, `jitter_monitor.c`, `stack_monitor.c` | response-time, jitter and stack statistics | create, begin, end, mark, fill, query, report | true figures at the limits of the counters, no shared slot |
| UART drivers | K64F: two rings; STM32: the transmit register and a mutex | `uart_putc`, `uart_puts`, `uart_printf`, `uart_getc`, interrupt | no character lost, repeated or reordered, output does not stall |
| CAN drivers, `flexcan.c`, `fdcan.c` | mailboxes, message RAM, flags | init, transmit, receive, bus-off recovery | no frame overwritten or torn, timeouts reported |
| Ethernet driver, `eth.c` | two descriptor rings with OWN bits | `eth_init`, `eth_transmit`, `eth_receive` | no buffer touched by two owners, order kept |
| I2C bus and sensors, `i2c.c`, `mpu6050.c`, `bmp280.c` | I2C1's flags and CR2, `s_reference_pressure_x256` | `i2c_write`, `i2c_read`, init, read, `bmp280_zero_altitude` | a result 0 is true after whatever failed before |

Components interact by calls into the scheduler (`sched_block_locked`,
`sched_wake_task`) from inside critical sections, by wait lists threaded through
the task control blocks, and through `g_current_task` / `g_next_task`, which ticks,
tasks and `PendSV` all write.

What is hard: a critical section decides, and the trigger of the switch comes
after it; waits end by a wake-up, by a timeout or by both at once; a value read
before a critical section (`remaining`, a popped waiter) is used in or after it;
priorities change while lists are ordered by them; the tick interrupt is running
before the scheduler is. The full list, line by line, is `hazards` in
`PROJECT.json`.

## 2. Modules

| module | models | extends |
|---|---|---|
| `Kernel` | task control blocks, wait lists, scheduling decisions, the tick and boot assignments: pure operators on one record `k` | |
| `Scheduler` | tasks calling the scheduler, `SysTick_Handler`, `PendSV` | `Kernel` |
| `Mutex` | `mutex.c` on top of the scheduler | `Scheduler` |
| `Semaphore` | `semaphore.c` on top of the scheduler | `Scheduler` |
| `BoundedFifo` | what a queue promises: a bounded sequence of items | |
| `Queue` | `queue.c` on top of the scheduler, with its calls from interrupts | `Scheduler`; instantiates `BoundedFifo` |
| `Event` | `event.c` on top of the scheduler, with its calls from interrupts | `Scheduler` |
| `Notify` | `notify.c` on top of the scheduler | `Scheduler` |
| `Timer` | `timer.c` and its service in the tick | `Scheduler` |
| `Tickless` | the idle task and `systick_tickless_sleep` on a SysTick counter | `Timer` |
| `Boot` | `main` creating tasks and `sched_start`, with saved frames | `Kernel` |
| `Fault` | fault handlers, fault record behind the cache, watchdog, boot sequence | |
| `Monitor` | the three run-time monitors | |
| `Uart`, `Can`, `Eth`, `I2c` | the drivers, each with its controller | |
| `KernelProofs` | lemmas about the operators of `Kernel` | `Kernel` |
| `SchedulerProofs` | the inductive invariant of `Scheduler` and its theorems | `Scheduler`, `KernelProofs` |
| `SignalProofs` | the same for semaphores and notifications | `MCSignals`, `SchedulerProofs` |
| `MutexProofs` | the same for mutexes | `Mutex`, `SchedulerProofs` |
| `QueueProofs` | the same for the queue, and its refinement of `BoundedFifo` | `Queue`, `SchedulerProofs` |
| `ClockProofs` | the same for timers, event groups and tickless idle | `MCClock`, `SchedulerProofs` |
| `DriverProofs` | CAN, UART, Ethernet and I2C with its sensors | `Can`, `Uart`, `Eth`, `I2c` |
| `PlatformProofs` | start-up, the fault log, the watchdog's prescaler, the monitors | `Boot`, `Fault`, `Monitor`, `KernelProofs` |
| `MCScheduler`, `MCMutex`, `MCQueue`, `MCBoot` | the priority assignments the runs use | |
| `MCSignals` | `Semaphore` and `Notify` on one scheduler | `Semaphore`, `Notify` |
| `MCClock` | `Event`, `Timer` and `Tickless` on one scheduler | `Event`, `Tickless` |
| `MCPlatform` | `Boot`, `Fault`, `Monitor` and the drivers | all of these |

The last three compose components with a variable `focus`, chosen at first and never
changed: a behaviour uses the component in focus and leaves the variables of the others
alone. That is sound because these components share no state but the scheduler's, and it
keeps the interleavings of unrelated parts out of the runs. Invariants of a part out of
focus hold of its initial state.

### Kernel

The record `k` has one field per field of `task_t` that scheduling reads (a function
from tasks), the scheduler's statics, the PENDSVSET bit and, for every list head in
the kernel, the sequence of tasks linked behind it. Each operator is a stretch of
code no interrupt can split, named after its C function; a function that is
partly inside a critical section is split at its border (`DelayLocked`,
`DelayTrigger`, `DelayReturn`). `wait_next` is not a field: as long as no task is
linked twice (`LinkedOnce`, checked in `WaitListExact`) the sequences say the same;
the assignment `t->wait_next = NULL` of `sched_wake_task`, which would cut a list that
`t` is still on, is `CutAfter`. The two loops of `sched_select_next` are given by what
they select: among the most urgent ready tasks the first after the running one.
`late` is auxiliary and names the tasks whose relative urgency changed without a
scheduling decision (`sched_task_resume`, `mutex_unlock` without a waiter).

### Scheduler

`pc[t]` is the point between two critical sections at which task `t` is. A task
executes only when it is `g_current_task` and no `PendSV` is pending (`Runs`): PendSV
and SysTick share the lowest priority, PendSV has the lower exception number and is
taken as soon as interrupts are enabled. `SysTick_Handler` may fall between any two
steps. The idle task does nothing. `s_ticks` counts modulo `TickModulus`, which
stands for 2^32. `wakeAt` is auxiliary.

### Mutex

`mu[m]` has the fields of `mutex_t`, `call[t]` the locals of the call a task is in;
`holds` (what the application believes it owns) and `base` (the priority it was
created with) are auxiliary. `mutex_try_acquire` is a critical section of its own,
hence `mutex_lock` is three steps per iteration and `mutex_lock_timeout` four; ticks
and other tasks come in between. Tasks use mutexes as the tests do: they do not
relock what they hold. A loan goes to the owner of the contended mutex only; with several
mutexes nobody passes it on along a chain of owners, so `OwnerInherits` is a property
of the instances with one mutex.

### Semaphore

`count[s]` and the wait list of every semaphore; `sem_take` blocks inside the critical
section in which it found no token and looks again when it runs, so a task woken by
`sem_give` may find the token gone and block once more. A give adds its token and
makes the first waiter ready in one critical section.

### Queue

Sending and receiving are mirror images of each other in `queue.c`, and one set of actions
with a direction stands for both. The three variants of a call differ in what they
do when the ring is full or empty (`Wait`): return, block, or block with a countdown
until the deadline. A call that moves an item takes the first waiter of the other
direction off its list inside the critical section (`Transfer`) but wakes it after the
critical section (`Wake`). In between the waiter is on no list, it is still BLOCKED and
its countdown goes on: a tick can time it out, let it run, return and even block somewhere
else before the wake-up reaches it. `IsrMove` is a call of `queue_send_from_isr` or
`queue_receive_from_isr` from `systick_isr_hook`, at the end of `SysTick_Handler`.

A late wake-up of a task that has queued itself again leaves it linked in a list though
it is ready, and its next wait would link it twice; a sequence is then no longer a picture
of the `wait_next` chain. The passing run therefore uses priorities for which the window
cannot be hit: only the least urgent task makes timed calls, so that it does not run
before a more urgent caller has left the window. `queue_stranded` shows what happens
otherwise, before any task is linked twice; another consequence of the same window is
a late wake-up that ends the `sched_delay_ms` the timed-out caller has gone on to.

### Notify

The giver stores the notification in one critical section and notes whether the receiver was
BLOCKED; the wake-up is a second one (`GiveWake`), in which `sched_wake_task` looks at the state
again, and the trigger a third step. `target[t]` is the local variable that survives between them.
A task is woken whatever it is blocked on, so receivers may find no notification, return and
consume it at their next wait. `TASK_NOTIFY_WAIT_FOREVER` is the largest count, and is counted
down like any other.

### Event

A group is a set of bits. The loop of `event_wake_satisfied` is `WakeIfSatisfied`, iterated over
the list (`Passed`); every waiter served may take bits away from the ones behind it. A wait reads the
clock, enters a critical section, tests, allocates a slot of `s_pending` and blocks: one action
each, with ticks in between. The setter leaves the bits it saw in the slot. Free slots are
forgotten (`EmptySlot`): nothing reads their fields.

### Timer and Tickless

`left` counts the true milliseconds to a timer's expiry beside the wrapped deadline the code
keeps; `fired` are the callbacks of the last service. Callbacks run inside the tick and may start,
stop or delete their own timer. `Tickless` adds the SysTick counter in units of
1/`TICKS_PER_MS` ms (`HwTick`) and the idle task step by step: budget, reload, `wfi`, elapsed time,
`sched_tick_n`, then one test and one callback per timer in thread mode, preempted by tasks
that the same sleep has readied. `rest[t]` is the true time still to be delayed. Kernel code
takes no time on this scale, a SysTick that became pending is taken as soon as PendSV is done,
and there is no other interrupt; both boards have the same code.

### Boot

`frame[t]` says whose registers the saved `sp` of `t` leads to. The four statements of
`sched_start` are separate steps, because nothing masks the tick there.

### Fault

The record spans two cache lines; the CPU writes to the cache, a line reaches the Backup SRAM by
`clean_dcache_range` or by an eviction at any time, and a reset (pin, watchdog) discards the rest.
A fault is a number and a field holds the number of the fault that wrote it. The watchdog's
prescaler search is computed on the code's own table and limits. `cut` is auxiliary: a reset fell
between the write of magic and the last write-back, or a fault struck over an unread record.

### Monitor

Words have `ClockModulus` values. `deadline_monitor_create` claims a slot in a critical section and fills
it outside; `deadline_monitor_end` is two steps, so that a report of another task can see the
extremes without the sum. `truth` and `late` count without wrapping. Stack frames may leave
words unwritten, as compilers do.

### Drivers

`Uart`: the K64F ring has no lock. `serial` says whether the printing tasks take turns, which is
what the ring needs; `UartNotStalled` holds without it. The STM32 driver polls; `uart_puts`
takes a mutex and `uart_printf` does not (`usart.raw`).
`Can`: a frame is the number of its call or arrival. A poll loop may run out at any time the
flag is not set, except in `fdcan_transmit`, where the counter itself is modelled because its
wrap matters. TXFQS bit 21 is taken to be set while the buffer's request is pending.
`Eth`: one caller per direction; the DMA follows the OWN bits only; buffers are non-cacheable.
`I2c`: the sensor functions are sequences of transfers, `i2c_write` and `i2c_read` run step by step
against controller and sensor. A sensor acknowledges its address or not and may fall silent for good
at any byte; it is never slower than a polling loop. Zeroing CR2 under a transfer takes NBYTES
and AUTOEND away, so that the controller holds the bus.

## 3. Runs

| run | instance | result |
|---|---|---|
| `scheduler` | 3 tasks, priorities 0 or 1 in every combination with task 0 urgent, delays 1 and 2, task 0 pausable, clock modulo 3, fairness | pass: `TypeOK`, `SingleRunning`, `SwitchComes`, `RunsMostUrgent`, `DelayExact`, `DelayReturns` |
| `mutex_safety` | 3 tasks LOW/MED/HIGH or two equals and one more urgent, one mutex, timeout 1 | pass: `MutualExclusion`, `WaitListExact`, `NoLostWakeup`, `OwnerInherits`, `PriorityRestored` |
| `mutex_inversion` | LOW/MED/HIGH, fairness | pass: `MostUrgentLocks` |
| `mutex_nested` | two mutexes | violation of `PriorityRestored` |
| `queue` | 3 priorities, the least urgent task also with timeout 2, capacity 2, two interchangeable items, interrupts | pass: `QueueWaitListExact`, `QueueNoLostWakeup`, `QueueWaitEndsAtDeadline`, `QueueIsFifo` |
| `queue_stranded` | 3 equals, one with timeout 1, capacity 1 | violation of `QueueNoLostWakeup` |
| `signals` | two equals and one more urgent; a semaphore of at most 2 tokens, or two receivers of notifications with timeouts 0 to 2; fairness | pass: `SignalTypeOK`, `SemWaitListExact`, `SemNoLostWakeup`, `MostUrgentTakes`, `NotifyNotLost`, `NotifyWaitEnds` |
| `clock` | 2 tasks; a group of two bits, two slots, both modes, timeout 2; two timers of periods 1 and 3; delays 1 and 4 over a counter that reaches 2 ms; clock modulo 8 | pass: `EventSlotsExact`, `EventNoneForgotten`, `EventResultSatisfies`, `EventEndsAtDeadline`, `TicksServeTimers`, `TicklessNeverEarly`, `TicklessTimersServed`, `TicklessDelayExact` |
| `tickless_drift` | 2 delaying tasks, sleeps of up to 2 ms | violation of `TicklessNoDrift` |
| `platform` | up to 4 tasks created in every order; 3 faults; 2 measured tasks; 2 printing tasks, rings of 3; network rings of 2; 3 CAN frames; 3 sensor calls | pass: see below |
| `boot_equal` | 2 tasks of one priority | violation of `FramesIsolated` |
| `fdcan_timeout` | a transmit buffer that stays occupied | violation of `FdcanTimeoutReported` |

The properties of `platform`, each the conjunction of the named parts:

* `StartsCleanly`: `FramesIsolated` (no context is saved where another one lies) and
  `BootSingleRunning` (no task is left RUNNING that is not the committed one);
* `FaultReportedOnce`; `FaultRecordWhole`: `FaultDurable` (a written record stays until it is
  read) and `FaultMagicMeansWhole` (magic vouches for it); `IwdgTimeoutKept`;
* `MonitorsTrue`: `MonitorsNotShared`, `DeadlineExact`, `DeadlineReportBounded`, `JitterExact`,
  `StackUseTrue`;
* `UartLosesNothing`: `UartTransmitFifo`, `UartNotStalled`, `UartReceiveFifo`, `UartPutsWhole`;
* `EthRingsFifo`: `EthTransmitFifo`, `EthReceiveFifo`;
* `FlexcanTransmitTrue`: `FlexcanNoneLost`, `FlexcanResultTrue` (until the first timeout);
  `CanReceiveWhole`: `FlexcanReceiveWhole`, `FdcanReceiveFifo`;
* `SensorResultTrue`: `I2cReadTrue`, `SensorConfigured`, `ReferenceMeasured`.

The types of the mutex, queue, event and timer state are conjuncts of `WaitListExact`,
`QueueWaitListExact`, `EventSlotsExact` and `TicksServeTimers`.

Bounds. Three tasks are the least with which a task can be committed, displaced and
come back while a third one runs, and with which LOW, MED and HIGH of the priority
inversion scenario exist; two priority levels are enough for `Scheduler` because
`sched_select_next` compares priorities only with each other. Delays of 1 and 2 let
one countdown end while another goes on. The clock's modulus is larger than the
longest delay where time is compared, and minimal in the mutex runs, where
it only has to wrap: modulus 2 makes both outcomes of `now >= deadline` happen.
A queue of two items is the least in which head, tail and both
lists can be in every relation, and two different items show their order; two tokens let
a semaphore be neither empty nor full. A timeout of 2 with modulus 3 lets a timed
call wake, lose the race and wait again for the one tick that is left.
In `clock` two tasks and interrupts set, clear and wait, one of them more urgent; two slots are
as many as there are waiters, so a leak shows at once. Periods of 1 and 3 under modulus 8 give
deadlines on both sides of the wrap and expiries that fall together. A reload register that reaches
2 ms is shorter than the longest sleep (4 ms) and than the longest delay, so
that sleeps are cut by the register, by the sleep limit, by a delay and by a timer. In `platform`
rings of two or three places fill, empty and wrap; three faults are a first one, one that strikes
over an unread record and one more; the watchdog's arguments contain zero, both clamps and
values on either side of a prescaler change; three sensor calls are an initialisation,
a failure and a read after it. `FDCAN_TIMEOUT = 2` distinguishes the flag at the
first, at the last and after the last poll.

`platform` allows behaviours to end: the CPU halts after a fault, and the bounds stop the callers.
Deadlock is checked in all other runs: time goes on in every state.

Fairness (`SchedFairness`, `MutexFairness`, `SignalSpec`). The tick clock does not stop and a latched
SysTick is taken: strong fairness of the tick, since a pending PendSV disables it
again and again. PendSV is taken when pending: weak fairness. A task that gets the
CPU again and again inside a kernel function executes its next step: a tick period
is thousands of instructions long. Application code need not do anything: it may
spin for ever, and the liveness properties hold nevertheless. In `mutex_inversion`
one thing is assumed of it: who holds a mutex and keeps getting the CPU releases
it. `signals` assumes nothing of it: `MostUrgentTakes` promises a token only if tokens
keep being given, and `NotifyWaitEnds` says that a timed wait of a most urgent receiver ends.

### What the violations show

* `mutex_nested`: `owner_original_priority` belongs to the mutex, not to the task. A
  task that holds `m1` and `m2` and is elevated through both saves an inherited
  priority as the original one of the second and ends with it.
* `queue_stranded`: a sender pops the timed receiver, is preempted before it wakes it, and
  the receiver times out and returns without the item. The wake-up is spent on a
  task that no longer waits; a second receiver stays blocked though the ring holds an item.
* `boot_equal`: a tick after `g_current_task` is set and before the SVC chooses the
  other task of the same priority; `PendSV` stores the context of `main` through the
  first task's control block.
* `tickless_drift`: every sleep zeroes the SysTick counter when it begins and when it ends and
  rounds down to milliseconds, so the part of a millisecond counted before it is lost. Delays
  end exactly on the tick counter (`TicklessDelayExact`), and the tick counter falls behind the hardware.
* `fdcan_timeout`: the loop counter of `fdcan_transmit` has wrapped when the loop gives up; the
  test that follows does not see the timeout and the waiting frame is overwritten.

Other behaviour met while modelling that no run claims to exclude, because nothing in the
repository says it does not happen; the properties are stated so as to leave it out:

* A task paused inside `sched_delay_ms` never returns after `sched_task_resume`: the pause
  overwrites BLOCKED and the countdown stops (`DelayReturns` is about tasks nobody pauses).
* `mutex_lock_timeout` computes what remains of its time before the critical section; ticks in
  between prolong the wait.
* A reset between the write-backs of the two cache lines leaves a record with valid magic
  and old contents, as does a fault over an unread record (`cut` in `FaultMagicMeansWhole`).
* Two K64F tasks inside `uart_putc` at once can lose a character (`serial`); an STM32 `uart_printf`
  mixes with a `uart_puts` (`usart.raw`).
* After a FlexCAN transmit has timed out, the flag of its late completion makes the next call
  return 0 before its frame is on the bus.
* An `i2c_read` that is not acknowledged in its second half leaves NACKF set. The next call takes
  it for its own, zeroes CR2 under the transfer it has started, and the controller may hold
  the bus until the next reset: every later call fails, none returns wrong data.

## 4. Proofs

Every invariant and every safety property of a step that a passing run checks is also a theorem.
The theorems hold for any number of tasks, any priorities, delays, timeouts, capacities and
ring sizes, and for every set of pausable tasks unless a hypothesis says otherwise. They rest on the named
assumptions of the modules and on nothing else. The bounds of the runs (`MaxFaults`, `MaxFrames`,
`MaxCan`, `MaxChars` and the like) are arbitrary naturals in the proofs.

Three of the assumptions deserve a word. `TimerAssumption` bounds a period by half the range of the tick counter:
`timer_create` takes any 32-bit period, but a deadline further away is in the past for the signed comparison
of `timer_service_tick`. `EventAssumption` wants as many slots as there are tasks, which a comment in `event.c`
demands of `EVENT_PENDING_MAX` and its value satisfies. `SchedulerAssumption` keeps delays below the range of the clock.

| theorem | states | hypothesis |
|---|---|---|
| `SchedulerTypeCorrect`, `SchedulerSingleRunning`, `SchedulerSwitchComes`, `SchedulerRunsMostUrgent` | `[]TypeOK`, `[](SingleRunning /\ NextRunnable)`, `[]SwitchComes`, `[]RunsMostUrgent` | |
| `SchedulerDelayExact` | `DelayExact`, an action property | |
| `SemaphoreTypeCorrect`, `SemaphoreListExact`, `SemaphoreNoLostWakeup` | `[]SemTypeOK`, `[]SemWaitListExact`, `[]SemNoLostWakeup` | `Pausable = {}` |
| `NotificationNotLost` | `[]NotifyNotLost` | |
| `SignalTypesKept` | `[]SignalTypeOK` | `Pausable = {}` |
| `MutexTypeCorrect`, `MutexExcludes` | `[]MutexTypeOK`, `[]MutualExclusion` | |
| `MutexListExact`, `MutexNoLostWakeup` | `[]WaitListExact`, `[]NoLostWakeup` | `Pausable = {}` |
| `MutexPriorityRestored` | `[]PriorityRestored` | `[]HoldsOne` |
| `MutexOwnerInherits` | `[]OwnerInherits` | `Pausable = {}`, `OneMutex` |
| `QueueTypeCorrect`, `QueueTimeoutExact` | `[]QueueTypeOK`, `[]QueueWaitEndsAtDeadline` | |
| `QueueImplementsFifo` | `QueueIsFifo`: `Queue` implements `BoundedFifo` | |
| `QueueListsExact`, `QueueWakesSomebody` | `[]QueueWaitListExact`, `[]QueueNoLostWakeup` | `Pausable = {}`, `TimedLast` |
| `EventSlotsKept`, `EventWaitersServed`, `EventResults`, `EventDeadlines` | `[]EventSlotsExact`, `[]EventNoneForgotten`, `[]EventResultSatisfies`, `[]EventEndsAtDeadline` | |
| `TimersOnTime`, `ClockServesTimers` | `[]TimerOnTime` of `TimerSpec`; `[]TicksServeTimers` of `ClockSpec`, which the run uses | |
| `TicklessServesTimers`, `TicklessDelaysLast` | `[]TicklessTimersServed`, `[]TicklessNeverEarly` | |
| `TicklessDelaysEnd` | `TicklessDelayExact`, an action property | |
| `FaultLogReportsOnce`, `FaultLogRecordWhole`, `WatchdogTimeoutKept` | `[]FaultReportedOnce`, `[]FaultRecordWhole`, `[]IwdgTimeoutKept` | |
| `FlexcanTransmits`, `CanReceives` | `[]FlexcanTransmitTrue`, `[]CanReceiveWhole` | |
| `UartDrivers` | `[]UartLosesNothing` | |
| `EthRings` | `[]EthRingsFifo` | |
| `SensorResultsTrue` | `[]SensorResultTrue` | |
| `MonitorsTruth` | `[]MonitorsTrue` | |
| `BootStartsCleanly` | `[]StartsCleanly` | `DistinctPriorities` |

The hypotheses are not conveniences.

* `Pausable = {}`: `sched_task_pause` overwrites BLOCKED and leaves the task linked in the list it waits on, so that a
  list is exact only while no waiter is paused.
* `HoldsOne`: `PriorityRestored` is false of tasks that hold two mutexes at once, which is what `mutex_nested` shows.
* `OneMutex`: with two mutexes a waiter of one that owns the other may be elevated where it stands in the list, and
  an unlock of the other may lower the running task without a scheduling decision.
* `TimedLast`: only a task less urgent than all others makes timed queue calls, or none does. Otherwise the window between
  taking a waiter off its list and waking it is open, and `queue_stranded` shows what comes of it.
* `DistinctPriorities`: `StartsCleanly` is false of two tasks of the highest priority, as in `boot_equal`.

### The scheduler

None of the scheduler's invariants is inductive alone. At most one task stays RUNNING across a decision only
if the caller that gives up the CPU is the committed task, so that nobody is RUNNING when
the next one is chosen; `SwitchComes` provides this (`UserIsNext`: with a switch under way
no application code runs), given that both pointers are threads (`HasThreads`). A decision
always finds somebody because the idle thread is READY or RUNNING (`IdleAlive`).
`RunsMostUrgent` speaks of states without a switch under way; `NextMostUrgent` says
the same of the committed task in every state and is what the steps preserve. `SchedInv`
is the conjunction of all these. `KernelProofs` supplies one
lemma per operator: the least element of a set of naturals exists (`LeastNat`), hence
`sched_select_next` selects a most urgent ready task (`BestExists`, `SelectNext`); `Uncommit`
leaves nobody RUNNING but the current task, so `Commit` leaves only the chosen one
(`UncommitClears`, `CommitNext`); and a tick decides (`CountDownReadies`, `TickDecides`).
`NextInv` has one step per action.

`DelayExact` compares a step with the countdown that was armed earlier; `DelayDue` says that the
countdown of a blocked delay is the distance from the clock to the tick asked for, modulo the
clock, and the action property follows from it in each step.

Every component on top of the scheduler repeats a part of this: `SchedCore` is the part of `SchedInv`
that does not name program points, `SwitchAt` the part that does, with the component's own labels. The
lemmas on `BlockOn`, `wq_insert`, `sched_wake_task` and list removal in `KernelProofs` say what
these do to the lists, to the states and to the decision, and are shared.

### Semaphores and notifications

`SemLists` says of every list of the kernel that its members are the blocked callers, each once and sorted by
urgency; `SemCalls` that such a wait has no countdown, so that the tick leaves it alone. `SemNoLostWakeup`
is not inductive: the woken task takes one token and may leave another. `SemTokens` counts instead:
behind a queue of waiters there are at least as many woken tasks as tokens. For notifications
`NotifyInv` adds that a giver remembers its receiver between storing and waking and that no task is on a
list; the notification then survives whatever happens in between.

### Mutexes

`MutexBase` (types, mutual exclusion, the kernel's invariant) is inductive whatever tasks do. `MutexInv` adds
`MutexLists`, as for the semaphore; `MutexWaits`, that the countdown of a blocked timed call names the list
the caller is on, so that a timeout unlinks it there; and `MutexTaken`, the inductive form of
`NoLostWakeup`: a free mutex with waiters has a woken task that will find it free. A timed call that is about
to give up does not count as one. `Loans` carries `PriorityRestored`: an elevated mutex remembers the priority
its owner was created with, and every borrowed priority belongs to the owner of an elevated mutex.

`OwnerInherits` is not inductive even for a single mutex: a waiter lends its priority when it blocks, but a
task that takes the mutex while others still wait for it borrows nothing. `Inherits` says why it is urgent enough
all the same. The list is sorted (`Ordered`), hence the task that `mutex_unlock` wakes is at least as urgent
as those it leaves behind. While the mutex is free and others wait there is such a task, about which
the scheduler has decided (`HasHeir`); whoever takes the mutex before it was preferred to it and is at least as
urgent as it is, and so as the waiters. `NextRuns` and the scheduler's `NextMostUrgent` carry this from the decision to the
critical section that takes the mutex.

### The queue

`RingInv` ties head, tail and count together. The contents as a sequence are `count` slots from `head` on;
sending appends to that sequence and receiving takes its first element (`SlotIndex` and the lemmas after it),
so each step of `Queue` is a step of `BoundedFifo` or leaves it alone. `CountsDown` is the inductive form of
`QueueWaitEndsAtDeadline`: the countdown has not run out, and its end is the deadline. None of this depends on
the wait lists, which is why the window described under Queue above does no harm here.

The wait lists need `Queued`. A waiter that has been taken off its list and not yet been woken (`Popped`) is on
no list and still in its call; at most one caller is about to wake it (`Wakers`), and if its call has no
countdown it sleeps until then. A popped timed waiter may become ready early, but `LastOf` keeps the CPU from it: its waker is
ready and more urgent (`PoppedSleeps`), so it has not left its call when the wake-up comes, and
`sched_wake_task` finds it on no list that it could cut. `ListsExact` then says of every list who is on it, each once
and sorted by urgency. `QueueNoLostWakeup` promises one task on its way as long as there is an item and a waiter;
it is not inductive, because that task takes one item and may leave another. `MoversFor` counts: behind a
queue of waiters there are at least as many tasks on their way as items (or free slots). Timed callers
are not counted, since they may give up; being the least urgent they come last in the list, and nobody waits behind them.

### Timers

`Ahead` says of an active timer that its deadline is `left` milliseconds ahead of the clock, modulo the clock, and
that `left` is between 1 and half the clock's range. The signed difference of `timer_service_tick` is then exactly
`-left` (`SignedValue`), so the callback runs when `left` is zero and never otherwise; an automatic reload adds the
period to the deadline and starts again within the bound.

### Event groups

`EventInv` ties three records of one wait together: the list the task is linked in (`EventLists`), its slot in
`s_pending` (`EventSlots`, one-to-one, hence a slot is free whenever a task needs one) and its countdown
(`EventTimes`). `EventNoneForgotten` needs a fact about the loop of `event_wake_satisfied` for a list of any length. `PassInv`
is its loop invariant: after `n` iterations each of the first `n` waiters has been woken with bits that satisfy it, or is still
linked and the bits that are left do not satisfy it; the bits only shrink during the pass, so that later iterations do not
change that. It is carried from one iteration to the next without an induction theorem: if it failed
somewhere there would be a least iteration at which it fails (`LeastNat`), and the one before it contradicts that.

### Tickless idle

`TicklessInv` follows a sleep through the idle task's places. `IdlePlaces` says where another task may have the
CPU. `SleepCounter` gives the reload value at each place. `SleepTimers` and `SleepDelays` say that a sleep, rounded to
milliseconds, goes neither beyond a timer nor beyond a delay, and account for the milliseconds that the clock has already counted and
the countdowns have not (`Unapplied`); a timer not yet served in this pass may stand at zero, one tick late at
most (`ServedSince`). `SleepRest` compares a countdown with the hardware counter: `Until` is what remains of
it in counter ticks, and the true rest never exceeds it by a whole millisecond.

### Fault log and watchdog

`FaultInv` follows a record from the first store to the report: `WriteProgress` says how far the write has come
in the cache and in memory, `Durable` that nothing which could still be written back differs from a completed
record, `Uncut` that no line whose eviction is still possible can make a half-written record valid, and
`NotYetTold` that a record the next boot may find has not been reported. The watchdog's theorem is
arithmetic on the seven prescalers, for arguments up to `LongestAsked`, beyond which the 32-bit product wraps.

### Monitors

Deadline monitors: `Owned` says that a claimed monitor belongs to the task that holds its handle although it is filled in after
the critical section; `Tally` relates the counters to the true figures at every point of `deadline_monitor_end`, the count being
behind by at most the cycle that is being added, from which the bound on a report that cuts in follows. Jitter: the
true lateness and the expected time differ by the same amount modulo the clock (`OnSchedule`). Stack:
no word below the deepest push has lost its fill pattern (`StackInv`).

### Drivers

FlexCAN's transmit side: `FlexOrder`, the frame in the mailbox is later than every frame sent and a call that waits
brings the latest of all; `FlexUntilTimeout`, where the frame of the call is until the first timeout. Its receive
side: the parts read so far are parts of the locked frame (`FlexRxParts`). FDCAN: what was kept is what was
returned followed by the FIFO. For the rings of the UART, `RingPush`, `RingPop` and `RingStore` say what moving an
index and writing a free slot do to the ring as a sequence; `TxTurns` is what `serial` means for the indices the
printing tasks have read, `TxTie` that a non-empty ring has its interrupt enabled or somebody on the
way to enable it, and `RxHeld` that the slot being read is not reused. For Ethernet, `DescRing` says that the
descriptors in use are a run from the consumer's place to the producer's and hold the last frames in order;
`DescProduce` and `DescConsume` move it on, and `RunIs` shows that the run is the one the property computes.

For I2C, `Writing` and `Reading` relate the driver's progress in a transfer to the controller's: the bytes that are
out, the byte in the data register and those still counted down, and what the sensor has got of them. `Leftover` lists what a
failed call may leave in the controller for the next one: a NACKF, a transfer held in the middle, never a byte that
the next read could take for its own. `Initialising` says that every setting of an initialisation that has not failed
is with the sensor or still to be sent, and `Summed` that the samples lie between the least and the greatest.

### Start-up

Until the SVC every decision is taken with all created tasks READY, so with distinct priorities it always
chooses the same one (`Top`, `TopChosen`). `BootInv` distinguishes three situations: `Fresh`, nothing chosen yet;
`Overtaken`, a tick before `sched_start` stored `g_current_task` has chosen and pended a switch, which takes the CPU
from `main` without saving it; `Chosen`, from when both pointers agree and a tick confirms the choice. In
each of them a switch restores a thread into its own frame.

### Checked by TLC only

* The liveness properties (`DelayReturns`, `MostUrgentLocks`, `MostUrgentTakes`, `NotifyWaitEnds`):
  fairness is beyond the proof system. Their safety part is proved: no wake-up is lost and the most urgent task is
  the one that runs; that it does take its steps is what TLC checks.
* The five violations, each a behaviour of a small instance.

## 5. Plan

The planned modules are written, and their invariants proved. What could follow:

1. The wait lists with paused waiters. A sequence no longer says what the `wait_next` chain is; the model would need the
   field itself.
2. Timed queue calls without `TimedLast`: what still holds in the window, beyond FIFO order and
   the exact deadline, which are proved without it.
3. Priority inheritance with several mutexes: which owners still inherit when loans do not chain.

## 6. Not modelled

* Clock, ADC, PWM and servo drivers: register programming and unit conversion, without state shared
  between two actors.
* The PIT as tick source of the K64F: `pit.c` and `pit_systick_shim.c` both define `systick_get_ms` and do
  not link together. Its interrupt would be more urgent than PendSV. The models assume, as the
  default builds guarantee, that whoever calls the kernel from an interrupt has PendSV's priority:
  `PendSV_Handler` does not mask interrupts and is one step.
* The Kalman filter and the BMP280 compensation: floating-point and 64-bit arithmetic.
* MDIO, pins and the MPU region of the Ethernet driver; bit timing and message layout of CAN; number
  formatting. No property is about them.
* The MPU stack guard: hardware turns an overrun into a fault, and `Fault` has a fault at any point.
* The newlib stubs, the applications and on-target tests, whose calls the models generalise to any
  order, and the paused x86 kernel.
* Task creation by tasks: both applications create all tasks in `main`.

Memory-ordering barriers have no counterpart, the CPU being single and the handlers
its only concurrency. The `DEAD` task state exists in `task.h` but no code assigns it.
