# TLA+ models of OS-Compas

OS-Compas is a collection of operating-system laboratories. Most of its files are
scripts, documents and demonstrations; its core logic is in the C code of labs 3
to 5: a small kernel (SparrowOS) with a memory manager and two schedulers,
interprocess communication over user interrupts, a Linux GPIO driver, and an IoT
collector for an RTOS. This directory models that code in TLA+, model-checks it
with TLC and proves its safety properties with TLAPS.

To check a run: `tlc -config SchedulerMlfq.cfg MCScheduler`, and likewise for the
other configurations (table below). To check the proofs: `tlapm SchedulerProofs.tla`,
and likewise for `KernelProofs`, `MemoryProofs`, `UserInterruptProofs`, `RpcProofs`,
`GpioProofs`, `WifiProofs` and `CollectorProofs`.

File abbreviations: S = `lab3-2-sparrowos-scheduler/src/scheduler.c`,
K = `lab3-2-sparrowos-scheduler/kernel/core/scheduler.c`,
M = `lab3-1-sparrowos-memory-module/src/memory.c`,
US, UC = `lab4-2-user-interrupt/src/uintr_server.c`, `uintr_client.c`,
R = `lab4-2-user-interrupt/examples/rpc_framework.c`,
D1, D2, D3 = `examples/demo_simple.c`, `examples/demo_advanced.c`, `src/main.c` of
`lab3-2-sparrowos-scheduler/`, G = `lab5-1-raspberry-gpio-driver/src/gpio_led.c`,
P, B = `gpio_pwm.c`, `gpio_input.c` in `lab5-1-raspberry-gpio-driver/examples/`,
W, C, Q, D = `wifi_esp8266.c`, `main.c`, `mqtt_client.c`, `sensor_dht.c` in
`lab5-2-iot-sensor-rtos/src/`. "S:197" is line 197 of S.

## 1. Inventory

| component | state | operations | what is hard | correct when |
|---|---|---|---|---|
| Scheduler (lab3-2, `src/`) | `process_table`, intrusive ready queues, `current_process`, ticks, boost time, statistics | create, terminate, yield, schedule, tick, priority boost | lists that can be corrupted by a second removal; reuse of slots; a loop over a corrupt list | at most one process RUNNING, and it is the current one; a READY process can be scheduled; the boost ends, loses nobody and lets nobody overtake |
| Scheduler demonstrations (lab3-2) | a menu choice, pointers to PCBs, loop counters | each demonstration configures the scheduler, creates processes, ticks, reacts, cleans up | long fixed sequences of legal calls at the real sizes; pointers into a table whose slots are reused; loops that end on the scheduler's state | every tick is accounted for; only own processes are terminated; a demonstration ends |
| Kernel scheduler (lab3-2, `kernel/core`) | PCB pool, ready, wait and sleep queues, `need_reschedule`, tick counter | create, terminate, reap, block, wake, sleep, yield, set priority, timer interrupt | windows between unlock and `scheduler_schedule` in which the timer interrupts; reuse of PCBs; wrap of ticks | queue entries agree with process states; who waits can be woken; sleepers wake; a zombie stays one |
| Memory manager (lab3-1) | heap, free list, counters | `memory_init`, `kmalloc`, `kcalloc`, `krealloc`, `kfree` | two block layouts on the same bytes; unsigned arithmetic; loops over a list that lies in the heap | blocks are disjoint and in the heap; counters agree; every call returns |
| User interrupts (lab4-2) | shared segment (vector, ready, response), kernel registrations | server start, serve, cleanup; client connect, request, await; interrupt handler; signals | unlocked shared memory, an interrupt between any two steps, a signal at any step, several clients | a request is counted once and answered; the handler never runs without its memory; cleanup gives back whatever it can see |
| RPC example (lab4-2) | ring of slots with two flags, a mutex | call; server scan; cancel, join, destroy | flags tested one after the other while the other side stores them; cancellation | a call returns its own result; executed once; the mutex is free when destroyed |
| GPIO driver (lab5-1) | registrations, GPIO lines, parameters | module init with its error paths, exit, open, release, write | a file operation during init or exit; failure of any step; parameters writable while loaded | everything acquired is released; the driver drives the line it owns |
| PWM extension (lab5-1) | timer, lock, duty cycle and phase, parameters | configure, start, stop, write, timer callback, unload | a callback that interrupts a writer on its own CPU; parameters shared by all writers; `del_timer` without waiting | the duty cycle stays in range; no callback after unloading; nobody spins for ever |
| Button extension (lab5-1) | event count, wait queue, line, interrupt | load and unload, interrupt, blocking read, poll | test, sleep and wake-up by several readers and an interrupt; signals; failure of any step of loading | everything acquired is released; nobody sleeps on an event |
| ESP8266 driver (lab5-2) | receive buffer, semaphore, `wifi_connected` | AT command, receive interrupt, `wifi_init`, `wifi_send_tcp` | answers that are late, split or missing; interrupts between emptying and waiting | every command returns; no lost wakeup; "connected" only after a join |
| Collector threads, MQTT client (lab5-2) | `current_data`, `data_ready_sem`, `mqtt_state`, `mqtt_mutex`, packets | start-up; read and announce; wait for the network, connect, take, format, publish | `current_data` is shared without a lock by threads that preempt each other; sends that fail; encoding at a length limit | what is published is as new as what was announced and mixes two readings at most; no announcement is lost; packets are well-formed |
| DHT sensor (lab5-2) | none between reads | start signal, response, 40 bits, checksum | the sensor keeps its own time; waits without limit; preemption | the bits stay in step with the pulses; a read returns |
| Named pipes (lab4-2) | two FIFOs | open, read, write | opening order | not modelled: both processes block for ever in their first `open` |
| Timer interrupt (lab3-2) | tick counter, handler and descriptor tables | init, set frequency, handler | port writes in a process | not modelled: nothing loads the descriptor table, so the handler is never entered |

How they interact. The scheduler is called by processes (`create`, `yield`,
`terminate`) and by the timer (`scheduler_tick`), and calls the context switch. The
demonstrations call the scheduler from one thread, timer ticks included. The kernel
scheduler is called by processes and by the timer interrupt, which falls into
every window in which interrupts are enabled. The memory manager is called by one
kernel thread. The interrupt server and its clients share one System V segment and
meet through the `ready` flag and a posted interrupt. The RPC threads share the
slots. The GPIO driver is entered by the module loader, by processes that opened its
file, and competes for lines with other drivers; its two extensions add a timer
callback and an interrupt that share state with those processes. The ESP8266 driver shares its
buffer and semaphore with the receive interrupt. The collector starts the sensor
thread, which calls the DHT driver, and the MQTT thread, which calls the MQTT client
and through it the ESP8266 driver: `Collector` composes SensorDht, MqttPacket and
WifiService, the abstract specification that WifiEsp8266 implements. `SchedulerDemo`
composes the demonstrations with Scheduler. The laboratories do not call one another,
so nothing composes two of them; inside each module the
actors (processes, timer, threads, clients, interrupts, hardware) are composed.

### Not modelled

The context switches are assembly that saves registers; the timer interrupt of lab 3-2
is never entered, because `interrupt.c` fills a descriptor table that nothing loads; the
named pipes do not get past their first `open`; `simple_uintr.c` is the handshake of
UserInterrupt inside one process; the console of lab 3-1 formats text for a serial port;
the OLED display is pure output; the tracer, monitor and eBPF laboratories (1-1, 1-2,
2-2) are scripts around `strace`, `/proc` and `bpftrace`; lab 2-1 prints on load and
unload; lab 4-1 provokes sanitizer reports and policy denials on purpose; the
tests call the modelled code and their expectations are used as properties; the example
programs of labs 1-1 and 1-2 are workloads for the tracer and the monitor, sequences of
system calls without state of their own. `PROJECT.json` lists them with their files.

## 2. The modules and the code

Every definition that models code is listed in `PROJECT.json` under `map` with its
lines. `MC*` modules give the small instances; definitions described as mutants in
their comments are deliberately wrong variants that show that a property can fail.

**Scheduler** (S, `include/pcb.h`). `rq` is the intrusive list structure: head, tail
and count per queue, next and prev per slot. It is not a sequence, because the code
removes processes that are not on the queue, after which the lists are no lists. The
C helpers (`add_to_ready_queue`, `remove_from_ready_queue`, the policies'
`pick_next`) are operators from a state record to a state record, and the entry
points are actions. `scheduler_mlfq_boost_priority` takes one queue entry per step
because its loop may run over a corrupt list; the rest of a tick follows it. A
dereference of NULL sets `fault`, after which nothing happens. The policy is a
constant. `SCHFQ_MLFQ` in the code's switch is declared nowhere; it is read as
`SCHED_MLFQ`.

**SchedulerDemo** (D1, D2, D3). Each demonstration is data, one definition per C function:
a sequence of sittings (one per `scheduler_init`), each with its configuration, the
priorities it creates, the length of its loop, the reactions after a tick, the events at
fixed ticks and the clean-up. The actions carry a sitting out, one scheduler call per
step, and each call is the action of Scheduler under the sitting's configuration
(`Sched(c) == INSTANCE Scheduler WITH ...`). The menus are modelled with what `scanf`
leaves behind when it reads no number. Pointers are slots of the table; the pid a
demonstration was given is kept beside, as history. Printing, and the counters kept
only for printing, are left out.

**Memory** (M, `src/memory.h`). The heap is a function from 8-byte words to values,
because `block_header_t` and `free_block_t` overlay each other and what `kfree` and
the search read is what the overlay left there. Loops over the free list take one
iteration per step. `live` and `freed` are what callers hold and have given back;
`fresh` says that nothing has been freed and no split has wrapped. Callers fill the
memory they are given with `Fill`.
`memset` and `memcpy` take the size that was asked for, not the aligned one; a last word
they write in part is taken as a whole, which differs in padding only (the products
`kcalloc` forms in the run are all aligned).

**Allocator** is what `kmalloc`, `kcalloc` and `krealloc` promise: a request is refused, or
served with memory that nobody holds, cleared or with the old contents, and meanwhile
nobody's memory changes. `ImplementsAllocator` of Memory is this specification. The mapping
shows only what callers hold, the words of it and the request in progress; a call is served
in the step that writes its header, clears or copies. The promise ends (`Break`) when a block
is freed, which in this code also happens inside a `krealloc` that moves the block, or when a
split overruns the block it cuts; nothing stronger holds, as `memory_overlap` shows.

**KernelScheduler** (K). `sched_type`, which the code takes from its configuration, is
chosen once, with a table size of its own. Queues are sequences of slots, since this code allocates
queue nodes. An operation that unlocks and then calls `scheduler_schedule` is two
steps with `calls` between them, so that the timer interrupt and other processes get
in between. `orderly` is a history variable used by QueuesMatchStates: it is TRUE
until a process is terminated while it waits or the caller of `scheduler_schedule`
is taken from the queue by itself.

**UserInterrupt** (US, UC, `uintr_common.h`). One step per access to the shared memory, per
system call and per store of what a system call returned; the handler runs between the
server's steps; a signal starts `cleanup` at any step. `held` is what the server holds,
`unstored` the part of it that `cleanup` does not see, because the call has returned and its
result is not yet in the variable that `cleanup` tests. Clients are started and run to the
end, or give up when a call fails.

**Rpc** (R). One step per flag access of the server thread and of `rpc_call`, with
cancellation at the thread's cancellation points, then join and destruction.

**RpcService** is what `rpc_call` promises: one call at a time, each executed exactly once,
each returning the result of its own execution. `ImplementsCalls` of Rpc is this
specification, fairness included, under the mapping given with its INSTANCE. A call counts
as asked for from its parameters on, not from the ready flag: the server may still act on
the ready flag of the last call through the slot.

**GpioDriver** (G). One step per call into the kernel, each of which may fail, the
unwinding of `gpio_led_init` as the code has it, file operations from `cdev_add` on,
other consumers that request and free lines, and an administrator who writes the
parameters (mode 0644) while the module is loaded.

**GpioPwm** (P). Writers on two CPUs, one step per access to what they share. The timer
callback runs on the CPU that armed the timer and stops the writer there, which is what
`spin_lock` (without `_bh` or `irqsave`) permits. The period is left out: an armed timer expires at
any time. `hole` and `inflight` record the two races that the properties except.

**GpioInput** (B). Loading and unloading of the button, the interrupt handler in its two
calls, and readers and pollers step by step. `wait_event_interruptible` queues before it
tests, so its test and the falling asleep are one step. A signal ends the wait, which the
code takes for an event. A non-blocking read without event changes nothing and is no step.

`MCGpioDriver` puts the driver and its two extensions into one run: a variable says which
of the three is built, and the others rest.

**WifiEsp8266** (W). `esp8266_send_cmd` as steps: empty the buffer, take the
semaphore, read, compare. Answers are tokens that arrive in two pieces with an
interrupt each. The module at the other end may answer, answer ERROR, or not answer,
at any time. `OpenUart` is the part of `wifi_init` before the first command.

**WifiService** is what callers of W may rely on: `wifi_init` is called once and
returns RT_EOK exactly when the driver is connected, a send returns one outcome or the
other, and every call returns. `ImplementsService` of WifiEsp8266 is this specification
under the refinement mapping given with its INSTANCE, fairness included.

**SensorDht** (D). The signal of the sensor is a numbered sequence of levels and moves
by itself. One step per sample or edge the driver waits for. While the thread keeps the
processor, its polling loops miss no level; when another thread runs, any number of
levels goes by, and what the read then makes of its bits is left open. `first` is the
level in which the driver took its first bit: which one that is depends on the driver.

**MqttPacket** (Q). The two packet builders on lengths: type, the two bytes after it, and
the length of the packet; and how a broker reads the length.

**Collector** (C, Q). `main`, the sensor thread (its steps are those of SensorDht, the
stores through the pointers, the time stamp and the release) and the MQTT thread. That
the MQTT thread has the higher priority is a guard of the sensor thread, `MqttBlocked`,
and what the MQTT thread does without blocking is one step. `mqtt_mutex` blocks nobody: no
other thread takes it, and a mutex of RT-Thread does not block its owner. A value is the number of
the reading it was measured in; `announced` and `taken` record what the semaphore was
released for and how often it was taken.

## 3. The runs

| run | config | result | what it shows |
|---|---|---|---|
| scheduler_mlfq | SchedulerMlfq.cfg | holds | under any sequence of calls and ticks there is one RUNNING process at most, the current one, in a living slot (RunningIsCurrent, CurrentAlive), although queues get corrupted; the boost ends (BoostReturns), and where it finds lists and counts in order it leaves all who wait on the top queue, none lost, doubled or overtaken (BoostKeepsOrder) |
| demos | SchedulerDemo.cfg | holds | in every demonstration, started from its menu in any order: the runtime of the terminated and the time of the living processes together are the ticks that found a current process (TimeAccounted); no process is terminated but the ones the demonstration created and still refers to (TerminatesItsOwn); every demonstration but `demo_priority` comes back (DemosReturn) |
| scheduler_fifo_lost | SchedulerFifoLost.cfg | **violated** | ReadyIsSchedulable: with two processes created, the dispatch of the first counts the queue down twice, by the policy (S:228) and by the removal of the process it has already unlinked (S:197): the count is 0 while head and tail are the second process. The removal also clears the links of the first, so that its termination, which removes it once more (S:103), takes it for the only member and sets head and tail to NULL. `test_fifo.c:61` expects the second process to run |
| memory | Memory.cfg | holds | before the first `kfree`, blocks are disjoint (FreshDisjoint), `used_memory` is what callers hold (FreshAccounting), calls return (FreshCallsReturn), and free list and headers implement Allocator (ImplementsAllocator); always, if callers write nothing that looks like a header, only a live block is released (OnlyLiveReleased) |
| memory_overlap | MemoryOverlap.cfg | **violated** | BlocksDisjoint: after a `kfree`, a block is handed out that overlaps one in use, because the header overwrote the free block's size. `memory_test.c:50` asserts the data stays intact |
| kernel | Kernel.cfg | holds | under round robin and MLFQ, with reuse of PCBs and every window: one RUNNING process (RunningIsCurrent); who is BLOCKED or SLEEPING is on the queue the wake-up searches (WaitersFindable); queue entries agree with states (QueuesMatchStates) and every step takes a process along a move the code has for it (OrderlyLife), both with one ready queue and in the orderly phase; who sleeps wakes, across the wrap of the tick counter (SleepersWake) |
| kernel_zombie | KernelZombie.cfg | **violated** | ZombieIsFinal: termination leaves the process on the wait or sleep queue (K:241), from which a zombie becomes READY |
| uintr | UserInterrupt.cfg | holds | two clients: no request counted twice (CountedOnce), the response a client reads was computed for a request (AnswersRequest), no interrupt without memory (HandlerHasMemory), after a signal at any step everything given back but a resource whose system call had returned and whose result was not stored (CleanupComplete), and a client that is alone is answered (AloneAnswered) |
| rpc | Rpc.cfg | holds | the slots with their flags implement one call at a time: executed exactly once, returned, with its own result (ImplementsCalls), and the mutex is free when destroyed (MutexFreeWhenDestroyed), with every slot reused and an unknown method among the calls |
| gpio | Gpio.cfg | holds | driver: whichever step fails, no registration outlives the module and, while nobody writes the parameters, no line (NothingLeftBehind), and the loaded driver owns the line it drives (OwnsItsLine). PWM: the duty cycle used is at most 100 unless the parameter is overwritten between test and copy (DutyInRange); after unloading no callback runs, unless one was running already (UnloadedQuiet); every command returns and every armed timer gets its turn, unless the callback interrupts the holder of the lock (OnlySelfDeadlocks). Button: an unloaded module holds neither line nor interrupt (ButtonReleased); a process asleep in read or poll while an event is counted is woken (SleeperWoken) |
| wifi | Wifi.cfg | holds | the thread never waits while there is data (NoLostWakeup), `wifi_connected` is set only after a join was answered (ConnectedWasJoined), and the driver implements WifiService, so that every call returns (ImplementsService) |
| collector | Collector.cfg | holds | whenever the MQTT thread preempts the sensor thread, what it formats is at least as new as the reading whose announcement it took (FreshAsAnnounced), and mixes at most the last announced reading and the one in progress (MixesTwoAtMost); once connected, every announcement is taken although readings pile up while a packet is sent (AnnouncementsTaken); a broker reads each packet to its end and no further (PacketsWellFormed); the bits of an undisturbed read are the lengths of successive pulses (SamplesInStep) and it returns (ReadReturns) |

Bounds and why they are enough.

- Scheduler, MLFQ: three slots, three levels, priorities 0 to 3, slices of one and two
  ticks, three pids, three ticks with a boost every two, four switches. Three slots make
  every list shape (empty, one, two or three members, a member that is not there) and
  three levels a queue the boost passes while one is ahead of it; priority 3 is beyond
  the last level. FIFO: two slots and a third pid, so that a slot is reused. Longer runs
  and larger tables are covered for the safety properties by the proofs.
- SchedulerDemo: none of its own; the constants are those of the code (64 slots, four
  levels, slices of ten ticks) and the programs are finite. `Ample` only keeps the bounds
  of Scheduler out of the way.
- Memory: a heap of 256 bytes and three allocations. The size a freed block appears
  to have does not scale with the heap (171 and the bits above), so the heap has to be
  a little larger than that. Requests of 16, 64 and 100 give an exact fit, a
  split, and an unaligned size.
- KernelScheduler: idle and two other PCBs (one under MLFQ, where levels multiply the
  states), pids up to three, that of idle included, and queues of at most two nodes: two
  processes at a time, or one after the other in the same PCB. The tick counter wraps every
  three ticks and sleeps last one tick or two, so that a tick finds sleepers that are due
  and sleepers that are not, on both sides of the wrap.
- UserInterrupt: two clients with two requests each, a server that serves two, both
  index values. Two clients are enough for every conflict on the one slot.
- Rpc: two slots and five calls, so every slot is used again.
- Gpio: two lines, the button's own among the LED's possible values, an invalid one,
  and two files. Two CPUs with a writer each, a duty cycle that passes the test and one
  that does not. Two readers, two button lines and an invalid one, three events: enough
  for two readers to take one event and for the count to sink below zero and recover.
- Wifi: the whole script of nine commands, two sends, a timeout of one second and
  three pieces in the buffer: one token and half of the next, which is what a late
  answer needs to mix with its successor.
- Collector: bytes of two bits, so that a frame has ten, one sample whose frame passes the
  checksum as the driver reads it, moved by one bit, and one whose frame does not; three
  readings, one being published while the next is announced and the one after it is read;
  the shortest and the longest text the format makes of such readings.

Deadlock is not checked where the bounds or the program end a behaviour: the scheduler,
memory, interrupt, RPC, wifi and collector runs end when their counters are used up or the
program exits, and so do the demonstrations; the GPIO module, unloaded by a failed init
under an open file, really stops, because the next call would run in freed memory. It is
checked for the kernel scheduler, whose timer never stops.

Fairness, and why the code justifies it.

- Scheduler: only the steps of a boost loop once entered. It is straight-line code in
  the tick; nothing owes another call or another tick.
- SchedulerDemo: a demonstration that has begun goes on; it is one thread that waits for
  nothing. Nobody owes an input at the menu.
- Memory: the call in progress goes on: one thread, nothing that blocks.
- KernelScheduler: the timer interrupt comes again and again. No process owes a call.
- UserInterrupt: the operating system runs runnable processes and the processor
  delivers a posted interrupt. No one has to start a client or send a signal.
- Rpc: both threads run.
- GpioPwm: running code goes on, an armed timer expires, and the lock is strongly fair,
  because the kernel's spinlocks are queued. No command is owed. GpioInput: a handler
  that has begun ends and runnable readers run; no event, signal or read is owed.
- Wifi: the thread runs and time passes. The ESP8266 owes no answer, so that a call
  returns rests on the timeout.
- Collector: ready threads run, a sensor that has begun to send goes on, and the calls
  of the wireless driver return, which ImplementsService grants. The joining of the
  network is not owed, nor is a sensor that is there, nor that a send succeeds.

## 4. What is proved

`SchedulerProofs` proves, for every number of slots, levels, ticks and processes and for
every policy (FIFO, round robin, MLFQ, CFS), under the named assumptions
`SchedulerConstants` (the constants are natural numbers, at least one slot, two
levels, a positive slice) and `ShiftAssumption` (2^i is a natural number for the
levels; the provers know nothing of exponentiation):

- `TypeCorrect`: `Spec => []TypeOK`; in particular every link stays NULL or a slot and
  no counter goes below zero, whatever the queue primitives do to the lists.
- `MutualExclusion`: `Spec => []RunningIsCurrent`.
- `CurrentNeverDangles`: `Spec => []CurrentAlive`.
- `PidsAreUnique`: `Spec => []UniquePids`.
- `BoostOrderKept`: `Spec => BoostKeepsOrder`.

They follow from `SchedulerInvariant`: `Spec => []IInv` with
`IInv == TypeOK /\ RunningIsCurrent /\ CurrentAlive /\ UniquePids /\
OnlyCreatedLinked /\ BoostProgress`. The strengthening is needed because the lists may
be corrupt, so nothing can be said about who is on a queue, and yet what a policy picks
becomes current. `OnlyCreatedLinked` is the weakest fact that survives every list
operation: heads, tails and links only ever lead to slots that have been created, so
what a policy picks has a pid. `BoostProgress` says that the counts of the queues the
running boost has passed are zero. `RunningIsCurrent` is then preserved because
`scheduler_schedule` takes RUNNING from the old process before it gives it to the new.

`BoostKeepsOrder` is about lists, and the module has none: `Readings` are the sequences
that heads, tails, counts and links together describe, one per queue, no process twice, and
`Order` is who stands before whom in them. A turn of the boost changes two queues, a dozen
links and a priority. The proof gives the sequences after it, the old ones with the first
member moved to the end of the top queue, shows that the new links describe them
(`MovedLists`; the last process moved still points at its old successor, which is why
`IsList` allows for it), and that the order is the same because nothing stands between:
by `BoostProgress` the queues in between have been emptied (`SameOrder`). Where
S:197 has spoilt a count there is no reading, and the theorem says nothing (section 5).

The proof of the invariant follows the code: a lemma per list primitive (what it keeps of
`QueueType`), a lemma per policy (what it picks), a lemma per inner function
(`scheduler_schedule`, the tick of a policy), one step per action of `Next`, and one
temporal step.

`CollectorProofs` proves, for every set of samples, payload lengths and bits per byte and
every number of readings, under `DhtConstants` and `CollectorConstants` (the lengths
and the bound are natural numbers, there is a bit in a byte):

- `PacketsAlwaysWellFormed`: `Spec => []PacketsWellFormed`. `ConnectFits` and
  `PublishFits` say for which lengths the builders are right; the identifier and
  whatever `rt_snprintf` leaves in its 100 bytes are such lengths.
- `PublishedIsFresh`: `Spec => []FreshAsAnnounced`, from `CollectorInvariant`:
  `Spec => []IInv`. FreshAsAnnounced is about a copy made without a lock, so the
  invariant has to say what holds of the original at every point of the sensor thread:
  each field lies between the last announced reading and the one in progress
  (`FieldsAhead`), and is from the one in progress once its store is done
  (`StoresDone`, along the program counters of thread and driver), and from the last
  announced one before (`StoresPending`); and which
  announcement is taken is given by the semaphore's count (`SemaphoreCounts`). The proof
  has a lemma for the steps that touch none of this (`QuietKeeps`), one for the sensor
  thread and one for the MQTT thread.

- `PublishedMixesTwo`: `Spec => []MixesTwoAtMost`, from the same invariant.
- `SamplesKeepStep`: `Spec => []SamplesInStep`, for bytes of any length, from `StepIInv` of
  SensorDht: bit k is the length of the (k-1)th pulse after the first one sampled, whichever
  that is, because the line is high when a sample is taken and the driver has left the pulse
  before. Preemption sets `disturbed`, after which nothing is claimed of that read.

`MemoryProofs` proves, for every heap, every set of requests, and whatever callers write
into their blocks, under `MemoryConstants` (the heap is aligned, not at address 0, holds a
`free_block_t` and is less than half of the address space; the word size is a multiple of
the alignment, as 2^64 is of 8):

- `FreshHeapCorrect`: `Spec => []FreshDisjoint`, from `MemoryInvariant`:
  `Spec => []FreshIInv`. That blocks are disjoint says nothing of where the next one will
  be. The invariant does: in the fresh phase the free list is empty or one block, which
  reaches from behind everything callers hold to the end of the heap (`OneFreeBlock`). Each
  point of a call adds what is known there of the chosen block (`CallInProgress`, `Chosen`).
  From this follow that `coalesce_blocks` has nothing to merge, that the walk of
  `remove_from_free_list` takes no step, and that a caller's writes cannot reach the free
  block. `AlignedSize` shows that a size stays aligned when it wraps, so that a split never
  makes a block whose words straddle others.
- `MemoryAccounted`: `Spec => []FreshAccounting`, from `UsageInvariant`:
  `Spec => []UsageIInv`. What callers hold is counted as the cardinality of a set of bytes
  (`InUse`), so that a new block adds the cardinality of an interval that is disjoint from
  the rest, and no sum over blocks is needed. The invariant adds that every block held has
  its own size, magic and mark in its header (`HeldHeaders`): no search, split, copy or write
  of a caller reaches a header.
- `AllocatorImplemented`: `Spec => ImplementsAllocator`, step by step. The steps of the search,
  of `coalesce_blocks` and of the split change no word that is held and map to stuttering; the
  commit maps to `Serve`, for which `Chosen` gives that the block is free, and `kfree`, or a
  split whose remainder wraps, maps to `Break`. For `krealloc` the contents copied are those of
  the header's size, which `HeldHeaders` says is the block's.

`KernelProofs` proves, for every scheduler type, table size, number of levels, slice and
word size, under `KernelConstants`:

- `OneProcessRuns` (`[]RunningIsCurrent`) and `WaitersAreFound` (`[]WaitersFindable`), from
  `KernelInvariant`: `Spec => []IInv`. Together with the types the two are inductive. The
  proof has a lemma per list primitive, one for `scheduler_schedule` and one step per action,
  the timer interrupt in the windows included.
- `QueuesInStep`: `Spec => []QueuesMatchStates`, from `OrderIInv`, which adds that idle is
  never blocked, put to sleep or ended (`IdleKept`) and, in the orderly phase, that a slot
  is free exactly in its two states and that the current process is RUNNING unless its call
  is still to switch (`FreeAndRunning`). Without the last, a switch could put back a process
  that is on a queue already. The lemmas say what each list operation does to who is on a
  queue and how often. The filter of `check_sleeping_processes` is a recursive function
  (`NodesIn`); what it keeps is proved by induction along the queue, with the set of
  lengths for which the claim holds and a least element outside it.
- `LifeInOrder`: `Spec => OrderlyLife`, from the same invariant. A switch makes RUNNING what it
  takes off the ready queue and READY what it puts back; that the one was READY and the other
  RUNNING is not tested by the code, it follows from QueuesMatchStates and `FreeAndRunning`,
  also when the timer has switched inside the window of a call. A tick is the composition of
  the wake-ups and a switch, which is why SLEEPING to RUNNING is one of the moves.

`RpcProofs` proves, for every number of slots and calls and any unknown methods, under
`RpcConstants`: `CallsExecutedOnce` (`[]ExecutedOnce`), `MutexFree`
(`[]MutexFreeWhenDestroyed`) and `CallsImplemented`, that `Spec` implements the safety part
of RpcService step by step (`Spec => Service!Safety`). The invariant relates both program
counters: only the current call's slot can be seen ready and unprocessed, the server that
has seen it so is on this call, and the number of executions says on which side of the
execution the call is (`CurrentCall`). The refinement's one difficult step is the server's,
where the execution of the abstract call happens.

`UserInterruptProofs` proves, for any finite set of clients, any indices and any number of
runs and requests, under `UserInterruptConstants`: `HandlerMemory`, `RequestsCountedOnce`,
`AnswersAreReal` and `CleanupGivesBack`. The last excepts the one resource that a signal
finds between its system call and the store of the result, and says that there is no other.
The invariant says which resources the server holds at each of its points (`HeldAt`), that
no client has got past connecting before the server published its vector, nor ever if a
signal left an acquisition half done (`NobodyConnected`), that counted and posted requests
together are no more than were sent, and for a client that is alone what the response is at
each of its points (`AloneExact`).

`GpioProofs` proves, for any set of lines, CPUs, duty cycles, readers and files, under
`GpioConstants`, `PwmConstants` and `InputConstants`:

- `ModuleLeavesNothing` and `DriverOwnsLine`, from `GpioInvariant`: who owns which line is
  a function of the position in `gpio_led_init` and `gpio_led_exit` (`LineOwners`), as long
  as nobody has written the parameters.
- `DutyNeverWraps` and `NoCallbackInFreedModule`, from `PwmInvariant`: a writer between the
  test and the copy finds a value in range unless `hole`, and a module that is being
  unloaded has no writers.
- `ButtonGivenBack`, from `InputInvariant`.

`WifiProofs` proves, for every timeout, buffer size and number of sends, under
`WifiConstants`: `WakeupsKept` (`[]NoLostWakeup`), the action property `ConnectedByJoin`
(`Spec => ConnectedWasJoined`) and `ServiceImplemented`, the safety part of
ImplementsService (`Spec => Service!Safety`). ConnectedWasJoined needs an invariant about
the past of the buffer: the two pieces of a token that is in it or on its way belong
together (`Halves`), and the token of the join is only ever in the answer to the join
(`JoinAnswers`), so that no late answer can be taken for it.

All inductive invariants were checked by TLC on the instances of the runs before they were
proved.

Only model-checked:

- all liveness properties (BoostReturns, DemosReturn, FreshCallsReturn, SleepersWake,
  AloneAnswered, OnlySelfDeadlocks, SleeperWoken, AnnouncementsTaken, ReadReturns), and with
  them the fairness in ImplementsCalls and ImplementsService: the prover has no fairness
  reasoning;
- TimeAccounted and TerminatesItsOwn, which are about the particular sequences of calls
  of the demonstrations: finite programs with fixed constants, of which TLC sees every
  behaviour. TimeAccounted does not hold for arbitrary calls of the scheduler (a process that
  yielded can be dispatched after its termination, S:189), so it has no general theorem;
- OnlyLiveReleased, which is not true for every value of the constants: a `Fill` whose
  two low bytes are those of a used header (427) defeats the test of a second `kfree`, so
  it is stated for the run's `Fill`, which has another low byte; and it is about a
  corrupted heap too, where nothing like `OneFreeBlock` is left to reason from;
- the three violated properties.

## 5. Disagreements met that have no run of their own

- S:189, `test_fifo.c:104`: a process that yielded is linked twice, so after its
  termination it can be chosen again.
- S:126, S:131: after a yield with nobody else to pick, the current process is READY.
- S:140: a tick without a current process returns at once, so that ticks alone never run
  anybody. `test_rr.c:64` expects CPU time for every process, and the demonstrations that are
  driven by ticks alone speak of rotation, boosts and shares of CPU time (D2:147, D3:163).
- S:296 says that the boost moves all processes of low priority to the top. Each dispatch
  from a queue that keeps members counts it down twice (S:282 in the policy, S:197), and the boost
  passes over a queue whose count has come to 0 (S:298), whoever is on it.
- D1:233: `demo_priority` waits for four completions; a queue counted down twice per
  dispatch (S:197) and emptied by a termination (S:103) has lost the others by then, so it
  never ends. D1:65: `demo_fifo` ends after one of five.
- UC:84, `tests/test_perf.sh:94`: with two clients one sets the flag again that the other
  waits to see cleared, and that one can wait for ever; AloneAnswered is stated for a
  client that is alone. The script runs three and waits for all.
- M:297: `kfree` reads the size after a link has been stored over it, so the counters drift.
- M:310: the product in `kcalloc` may wrap.
- S:149, `test_mlfq.c:103`: a process whose slice ends is not demoted when the
  scheduler finds no other.
- M:149: once the free list is cyclic the search does not end. M:86: the remainder of
  a split wraps when the block is less than a header larger than the request. M:400:
  the integrity check's sum does not hold after a `kfree`.
- K:316: idle is chosen before the running process is put back. K:455: a process that
  blocks and is woken in the window can be READY and on no queue.
- US:80: a signal after `shmget` has returned and before `shm_id` is stored makes
  `cleanup` (US:51) leave the segment, which outlives the process. What US:86, US:104 and
  US:112 acquire is left in the same way, but ends with the process.
- US:142: a request is counted before it has been handled. UC:50: vector 0 is both a
  valid index and "no server".
- G:166: the device is live before its line is requested. G:41, G:244: after a write
  to the parameters another line is freed than was requested. G:246: a button line
  that was not obtained is freed.
- P:87: `spin_lock` against a timer callback that may interrupt it on the same CPU: the
  callback then spins for ever. P:119, P:152: a stop, or the unloading, that falls
  between expiry and re-arming finds no pending timer, and the PWM goes on; after
  unloading in freed memory. P:81: the test is of a variable that others write.
- B:44, B:54: a signal, or two readers of one event, takes the count below zero; then
  reads return without an event and `poll` misses as many.
- C:71: the MQTT thread waits for ever when `wifi_init` failed, since nobody tries again.
- W:58: a late OK is taken for the answer to the next command. W:53: a token split
  over two reads is not found. W:140: `wifi_connected` is never cleared.
- D:97: `dht_wait_response` returns in the high half of the response and the first sample
  is of that, so the bytes are the frame moved by one bit, and the last bit is never read;
  the moved checksum matches for some values only, and those reported are wrong. D:139 and
  D:153 speak of the 40 data bits, and `tests/test_sensor.sh:56` reads the same signal and
  skips the response (`i >= 4`). No run demands either: SamplesInStep holds of the driver
  whichever pulse it starts with.
- D:97, D:104: a read that is preempted may have missed the edge it waits for, and
  then waits for ever.
- C:47: the time stamp is also taken of a reading that failed, next to the values of an
  older one. C:90: a payload formatted between the two stores mixes two readings.
- W:163, W:183: each packet is sent over a connection of its own, so a PUBLISH never
  travels on the connection that carried the CONNECT.
- Q:72: the continuation bit of the CONNECT packet's length is overwritten; no
  identifier the code makes is that long.
- `pipe_server.c:53`, `pipe_client.c:41`: the server opens one FIFO for reading and the
  client the other for writing. The opposite end of either is opened by nobody, because
  both processes use the names alike, so each waits for ever.

## 6. What is left

- An abstract specification of one processor handed from process to process, implemented by
  KernelScheduler: OneProcessRuns, WaitersAreFound and LifeInOrder are the facts its
  refinement would rest on. Under MLFQ, or after a call out of order, the queues and the
  states no longer agree and only OneProcessRuns and WaitersAreFound remain.
- Proofs of the liveness properties, for which the prover would need fairness reasoning.
