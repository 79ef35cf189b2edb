# A specification of the uC/OS-III kernel

The repository is one person's backup of things learned: exercises in C, shell
and Python, Linux kernel modules, books' source code, kernel documentation, and
the source of the uC/OS-III V3.03 real-time kernel. Most of it is either third-party
text and code kept for reading or sequential programs of a page. The code with
a behaviour worth a specification is the kernel, in
`src/Open-source/Micrium/Software/uCOS-III/Source/` (written `Source/` below),
and this directory is about it: TLA+ modules of its scheduler and kernel
objects, model-checking instances for TLC, and theorems TLAPS checks.

## Inventory

### The repository

| Part | What it is | Here |
|---|---|---|
| `Open-source/Micrium/.../uCOS-III/Source` | the kernel (about 18,000 lines) | modelled, see below |
| `DEV-module` | Linux kernel module exercises: memory and FIFO character devices (three versions), timers, work queues | not modelled, see below |
| `Pthread` | small programs with threads, mutexes, condition variables, semaphores | not modelled |
| `Socket` | TCP and UDP echo programs | not modelled |
| `linkqueue`, `stack`, `C`, `C-code`, `gytraining` | data structures, sorts, course exercises | not modelled |
| `APUE3`, `RT-linux`, `Documentation`, `lfs_sh`, others | books' code, patches, vendored test suites, kernel documentation, scripts | third party |

### The kernel

uC/OS-III is a preemptive kernel on one processor. Tasks have priorities (0 is
the highest); the ready task of the highest priority runs, tasks of one
priority take turns. Everything is shared memory: a task, an interrupt handler
and the kernel's own tasks call functions that change the kernel's tables with
interrupts disabled.

| Component | State | Operations | Hard about it |
|---|---|---|---|
| Ready list (`os_core.c`, `os_prio.c`) | `OSRdyList[p]`, the bitmap `OSPrioTbl` | insert at head or tail, remove, rotate, find the highest | must agree with every task's state after any sequence of calls |
| Scheduler, interrupts (`os_core.c`) | `OSTCBCurPtr`, `OSPrioCur`, `OSIntNestingCtr`, `OSSchedLockNestingCtr` | `OSIntEnter/Exit`, `OSSched`, lock, unlock, yield, round robin | a switch may be delayed (lock, `NO_SCHED`, nesting) and must not be forgotten; an interrupt comes between any two critical sections |
| Task states, blocking (`os_core.c`) | `TaskState`, `PendOn`, `PendStatus`, pend tables | `OS_Pend`, `OS_Post`, `OS_PendAbort`, `OS_TaskBlock`, `OS_TaskRdy` | three independent reasons to wait (pend, delay, suspension) that end in any order |
| Tick list (`os_tick.c`, `os_time.c`) | a wheel of spokes, `OSTickCtr`, `TickCtrMatch` | insert, remove, update; `OSTimeDly`, `OSTimeDlyResume`, `OSTimeSet` | timeouts race posts and aborts; modulo arithmetic and wrap |
| Task services (`os_task.c`) | `Prio`, `SuspendCtr` | create, delete, suspend, resume, change priority | they change tasks in any state, in any list |
| Semaphores (`os_sem.c`) | `Ctr`, pend list | pend, post (one, all), abort, set, create, delete | lost or duplicated signals; a timeout against a post |
| Mutexes (`os_mutex.c`) | `OwnerTCBPtr`, `OwnerNestingCtr`, `OwnerOriginalPrio`, pend list | pend, post, abort, create, delete | priority inheritance across nested mutexes, timeouts and aborts |
| Task semaphores, task queues (`os_task.c`) | `SemCtr`, `MsgQ` of the TCB | pend, post, abort, set, flush | abort tests and acts in two critical sections |
| Queues, messages (`os_q.c`, `os_msg.c`) | FIFO of messages, the free pool | pend, post (FIFO, LIFO, all), abort, flush | two bounds (queue and pool), messages handed over past the queue |
| Event flags (`os_flag.c`) | `Flags`, what each waiter waits for | pend (any, all, set, clear, consume), post, abort | consuming flags while several waiters match |
| Pend on several objects (`os_pend_multi.c`) | pend tables with several entries | one pend | the task is in several pend lists at once |
| Timers (`os_tmr.c`) | a second wheel, timer states | create, start, stop, delete, the timer task | callbacks that start and stop timers |
| Memory partitions (`os_mem.c`) | free list, linked through the blocks | create, get, put | the links lie in memory the application writes |
| Deferred posts (`os_int.c`) | a ring of requests | enqueue in interrupts, dequeue in a task | a full ring; requests performed later than made |

They interact through the tables: every kernel object calls `OS_Pend` to block
the running task and `OS_Post` or `OS_PendAbort` to wake one; the tick task
wakes tasks by itself; the task services and priority inheritance change a
task wherever it is; only `OSSched` and `OSIntExit` switch tasks.

What makes each correct: the lists agree with the states; waiters are served by
priority; a unit or a mutex reaches exactly one waiter; a timeout or an abort
never takes back what a post gave; the highest priority ready task runs as
soon as the scheduler may act; an owner has at least the priority of those it
keeps waiting, and its own priority otherwise.

The hazards, at their lines, are listed in `PROJECT.json`, with the property
that covers each.

## Modules

```
OSCore            the kernel's tables and internal functions, as operators
  OSKernel        interrupts, scheduler, tick task, task services, as actions
    OSCall        calls on objects that may have been deleted
    OSSem         semaphores
      OSDel       deletion and creation of tasks and semaphores (with OSCall)
                                                    --- refines ---> AbsSem
      OSTaskSync  the semaphore and the queue in each task's TCB
    OSMutex       mutexes with priority inheritance
      OSMutexDel  deletion and creation of mutexes (with OSCall)
    OSFlag        event flags      \
    OSQ           message queues    > OSObjects (with OSCall)
                                                    --- refines ---> AbsQ
OSTick            the tick wheel and OSTickCtr      --- refines ---> AbsTick
OSTimeHMSM        hours, minutes, seconds and milliseconds to ticks
OSTmr             timers, the timer wheel and task  --- refines ---> AbsTmr
OSMsg             message blocks and their pool     --- refines ---> AbsMsg
OSMem             memory partitions
OSPendMulti       pend on several objects
OSIntQ            deferred posts                    --- refines ---> AbsIntQ

OSKernelProof     the functions of OSCore, the kernel's inductive invariant and its steps
  OSSemProof      semaphores, deletion and creation of tasks and semaphores,
                  the semaphore and the queue of each task
  OSMutexProof    mutexes, their deletion and creation
  OSObjectsProof  message queues and event flags
OSIntQProof       deferred posts
OSAloneProof      memory partitions; pends on several objects; timers; hours, minutes,
                  seconds and milliseconds to ticks
OSMsgProof        message blocks
OSTickProof       the tick wheel
```

Indentation is `EXTENDS`; `MC...` modules hold the instances for TLC.

**OSCore** keeps all tables in one record, `os`, and translates each internal
function into an operator from the record before to the record after:
`OS_RdyListInsert`, `OS_PendListRemove`, `OS_Pend`, `OS_Post`, ... A doubly
linked list is a sequence, the three bits of `TaskState` are a set of bits. It
also states what it means that the tables agree.

**OSKernel** has the actions every object shares. One action is one critical
section of the code (in the default configuration a critical section disables
interrupts). `pc` says which critical section a task is before: in application
code (`run`), before the `OSSched()` that ends a service (`sched`) or blocks in
a pend (`pend`), before it reads `PendStatus` (`wake`). Interrupts come between
any two actions, as often and as deeply nested as `MaxNest` allows. A loop
inside a critical section (post to all, abort of all, the walk of the tick
list) is one action per iteration, and `crit` keeps everything else out until
it ends.

**OSSem**, **OSMutex**, **OSFlag**, **OSQ** and **OSTaskSync** add an object
each: its variables and the actions of its services. An error return that
changes nothing is not an action.

**OSCall** is what changes once objects are deleted. Every service reads the
object's `Type` before its critical section and not again inside (`os_sem.c:354`
and 363). `Check` is that test, `called` remembers for each task what it has tested, and
the critical section of a call by a task is enabled by `Passed` or `Within`: a task may be preempted in
between, and the object be deleted, or deleted and created anew, when it goes on. An interrupt
handler tests and acts without a task in between. `Careless` is the set of objects the application
deletes although another task is between the two, `Renewed` the set of those it creates anew.
**OSDel** and **OSMutexDel** add deletion and
creation, where a name may stand for a new object before the tasks that waited
for the old one have run. **OSObjects** composes flags and queues, with their
deletion and creation: a task waits for one or the other, posts and flushes of
both interleave.

**OSTick** is what OSCore abstracts: spokes, match times modulo the width of the
counter, `OSTimeSet`, the three ways to give a delay. **AbsTick** says when a
task must wake and nothing of the wheel; it promises nothing once `OSTimeSet()`
was called, as the code does not adjust the wheel. **OSTmr** has the second
wheel, the walk of the timer task one timer at a time with the callback as a
step of its own, from which the services may be called.

**OSMsg** has the `NextPtr` links of the message blocks and the pool, one block
at a time; OSQ takes what **AbsMsg** says of it, sequences and a count of
free blocks. **OSMem** has the free list in the memory of the blocks, which
their users overwrite.

**OSPendMulti** has tasks in several pend lists at once. Which ready task runs
is left open, so that its properties hold under any scheduler. **OSIntQ** is
the other configuration, `OS_CFG_ISR_POST_DEFERRED_EN = 1`, in which a critical
section only locks the scheduler and interrupt handlers put their posts into a
ring which a task of priority 0 empties. It keeps the tables the scheduler
sees, with one task per priority. **AbsIntQ** promises that calls are performed
once, in order.

**AbsSem**, **AbsQ** say what an object promises and nothing about how: units
are counted or handed to one waiter each, a message reaches one waiter (or
every one); a wait ends with or without, once. `ImplementsAbs` maps the kernel's
tables to it: a task waits while its pend table names the object, and the
outcome of its wait is `PendStatus` from the moment it is readied until it
reads it.

Some operators named `Mutant...` are plausible mistakes in the code next to
them (a dropped check, a wrong order). They are used nowhere; each run is
repeated with one of them in place of the original to see that its property
notices.

## Runs

| Run | Instance | Checks |
|---|---|---|
| `SemTasks` | 3 tasks (two of one priority), 1 semaphore; suspension, priority changes, delays, scheduler lock, `OSSemSet` | `ListsAgree`, `WaitersByPriority`, `RunningIsReady`, `HighestRuns` |
| `Del` | 3 tasks (two of one priority), 1 semaphore, both deleted and created; timeouts, aborts, `OSSemSet`, posts to one and all, suspension, round robin | `TypeOK`, `NoLostSignal`, `ListsAgree`, `HighestRuns`, `DeletedIsEmpty`, `ToldOfDeletion`, OSDel implements AbsSem |
| `Mutex` | 3 priorities, 1 mutex, deletion and creation, delays up to 2 ticks, fair | `OwnerInherits`, `OwnPrioAfterPost`, `WaitersAreTold`, `TopTaskGetsMutex` |
| `MutexTimeout` | 3 priorities, 1 mutex, nested acquisition, timeouts, aborts, delays | `OwnersAgree`, `PrioCurIsCurrent` |
| `MutexHeld` | 3 priorities, 2 mutexes (interchangeable) held together, delays, deletion | `ListsAgree`, `WaitersByPriority` |
| `Objects` | 2 tasks, 1 flag group of 2 flags, 1 queue of 2 messages; five requests, two of which consume; posts to all, timeouts, aborts, deletion and creation | `NoWaiterSatisfied`, `OkMeansEnough`, `NoMessageWaits`, the queue implements AbsQ |
| `TaskSync` | 2 tasks with their semaphores and a queue of one message or (the lower task) of none; timeouts, aborts, suspension, scheduler lock, posts with `NO_SCHED`; fair | `NothingLeftBehind`, `EndedWaitStands`, `TimeoutEnds`, `TopTaskRuns` |
| `Alone` | one part per behaviour: see MCAlone | `LinksAgree`, `FreeListIsRest`, `RoundedDelay`, `NobodyWaitsInVain`, `OneReason`, `NothingLost`; OSTick, OSTmr and OSMsg implement their abstract modules (`WakesOnTime`, `ExpiresOnTime`, `QueuesKeepOrder`) |
| `IntQ` | a ring of 3 entries, one task; signals and suspensions are deferred; fair | `EntriesKeepReady`, `OneInKernel`, `SliceOfPreempted`, OSIntQ implements AbsIntQ |
| `MutexBoost`, `TaskSyncAbort`, `DelRace` | the smallest that shows it | a comment of the source that the code does not keep, see Findings |

`Alone` puts six parts that share no variable into one run: `part` picks one in the
initial state and the others keep their initial states, so that the run is the sum and not the
product of the six.

Bounds. `MaxDly` 1 or 2 ticks: with 2, tasks expire in the same or in different
ticks, and an owner sleeps while a waiter wakes; with 1 a tick still races
every other call. `MaxNest` 1: handlers act on the tables only through posts,
which nesting repeats; `MutexHeld` has no interrupts (0), the tick task preempts without
them. `MaxSusp` 1 and `MaxLock` 1: nesting only counts. `MaxCtr` 1 and `MaxOwn` 1 or 2:
the empty, the counted and the full case; `NestMod`, the width of
`OwnerNestingCtr`, is one more than `MaxOwn`, so that it does not wrap (see Findings). Three application tasks allow
two waiters while a third acts, which is what sorting, post to all and a task
between owner and waiter need. The tick counter has 2 bits and the wheel 3
spokes, the timers' counter 8 values (`Wrap`) and 2 spokes: the counters wrap, and in the first the wheel size
does not divide the range. Three blocks for queues of sizes 2 and 3: a post
meets a full queue and an empty pool. Delays in hours to milliseconds are
computed modulo 2^20 (`TickValues`), so that half an hour wraps at 1000 Hz; two of the
rates, 60 and 300, do not divide 1000. `Objects`
has a `VIEW`, which makes states one that differ only in what a TCB keeps of a
pend that has returned, and no step reads. `Uses` and
`CallOpts` choose which services and options an application uses, so that a run
is about one group of services and stays small; together the runs use all of
them. `MutexHeld` does not check for deadlock: tasks that acquire two mutexes in opposite
orders, or whose mutexes are gone, do stop.

What the instances leave out, because the code does not keep the property there:
`Mutex` has no timeouts, aborts or suspensions besides `TopTaskGetsMutex` and
`OwnPrioAfterPost` (MutexBoost), and does not check `PrioCurIsCurrent` (deletion leaves
`OSPrioCur` alone); `Del` has no scheduler lock; `Objects` has no suspension, and
`NoWaiterSatisfied` excepts the waiters whose flags another request may have consumed to change that way
(`Feeds`), though the instance has such requests; in `Del`, `Mutex`, `MutexHeld` and `Objects` tasks are preempted
between the test of an object's type and the call, but an object another task is about to use
is not deleted (`Careless` is empty; DelRace); in `TaskSync` counts are only cleared (`SetCounts`); in `Alone` match times have not
passed (`PastMatch`), callbacks keep off other timers of the walked spoke (`Careful`) and no
object is deleted between the validation of a table and the pend (`Careless`). The section
Findings says what happens otherwise.

Fairness (`KFairness`, `Fairness`). The processor executes: a loop inside a
critical section and an interrupt handler end (WF). Interrupts may come again
and again before a task reaches `OSSched()` or returns from a pend, but leave
it time in the end (SF). The tick interrupt keeps coming (SF of
`OS_TickListUpdate`, which the scheduler's lock disables now and then). A task
that locks the scheduler unlocks it, and an owner that keeps running undoes its
acquisitions and gives the mutex back (SF): without that no kernel could
promise anything. Nobody has to delete anything, and no task is assumed to block or to leave
the processor to others. `TaskSync` has the same fairness (`FairSyncSpec`), and the second critical section
of an abort follows its first in the end (SF). OSIntQ's `FairSpec` assumes the same of its steps: handlers return (WF); interrupts
keep coming, and not always inside a critical section, since an exit without scheduling
leaves the queue's task to the next handler (SF of `OSIntEnter` with the
scheduler unlocked); the queue's task and each thread's exit from its critical
section happen however often they are interrupted (SF).

## Findings

Three runs have `expect: violation` and check what the source says of itself:

* `MutexBoost`: `OSMutexPost()` restores the owner's priority only when a task
  still waits. If the waiter that raised it timed out or was aborted, the owner
  keeps the inherited priority (`os_mutex.c:714`, comment at 725). A task in
  between then stays boosted and can keep a waiter of another mutex from running, which is why
  `TopTaskGetsMutex` is checked without timeouts.
* `TaskSyncAbort`: `OSTaskSemPendAbort()` tests `PendOn` in one critical section
  and aborts in another; in between the task may have come to wait on a
  semaphore, whose pend list it is then not taken out of (`os_task.c:1452`).
* `DelRace`: a service tests the object's `Type` before its critical section and not again inside
  (`os_sem.c:354` and 363, the same in `os_mutex.c`, `os_flag.c` and `os_q.c`), though its description says that it
  returns `OS_ERR_OBJ_TYPE` for what is no semaphore (293). A task preempted in between waits on what was
  deleted, or counts a unit in it. If the object was created anew meanwhile, its pend list has been emptied with that task
  still marked as waiting in it; this is why the theorems exclude it (`Orderly`).

Others were met while modelling and decided what the instances above leave
out. Each is the behaviour of the modules when the restriction is lifted:

* `os_time.c:126`: `OSTimeDly()` with a match time that has passed returns with
  the running task marked as delayed.
* `os_time.c:509`: `OSTimeSet()` may jump past the match time of a task, which then
  sleeps until the counter comes round.
* `os_time.c:303`: half a tick is computed in whole milliseconds, so that "The actual delay is rounded to the
  nearest tick" fails at rates that do not divide 1000 (at 300 Hz, 2 ms are 0.6 ticks and become none), and
  altogether when a product wraps, as it may for long non-strict delays. `RoundedDelay` says what holds instead.
* `os_tmr.c:1073`: the walk of the timer task keeps a pointer to the next
  timer, which the callback may unlink or move: timers are missed, or the walk
  follows a null link.
* `os_flag.c:398`, `:587`: consuming flags wakes nobody who waits for them to be clear.
* `os_flag.c:1261`: flags that come for a suspended task that waits with a timeout leave
  it in the tick list.
* `os_task.c:565`: a task that deletes itself with the scheduler locked goes on.
* `os_task.c:1598`: `OSTaskSemSet()` does not look whether the task waits. A count it sets would
  wake nobody; its comment (1553) says that it is called to clear the counter.
* `os_task.c:1762`: a suspension of "the current task" deferred by an interrupt handler
  suspends the queue's own task.
* `os_pend_multi.c:231`, `:167`: the count that is returned is 1 after a timeout, too;
  an object deleted after the validation of the table is waited for all the same.
* `os_sem.c:539`, `os_mutex.c:606`: abort of all combined with `OS_OPT_POST_NO_SCHED`
  aborts one waiter.
* `os_task.c:107`, `os_mutex.c:239`: a new priority of the running task leaves `OSPrioCur`
  stale.
* `os_mutex.c:395`: `OwnerOriginalPrio` may be an inherited priority when
  mutexes nest; `os_mutex.c:406`: the 256th nested acquisition makes the mutex look free.

## Proofs

The theorems hold for every set of tasks, every assignment of priorities, every
set of objects and every bound. Their assumptions are the named `ASSUME`s of the modules:
finitely many tasks, one idle task that alone has the lowest priority, bounds
that are naturals. A theorem that needs more says so as a hypothesis, a condition on the
services or options the application uses, and each of those is the code's: the
section Findings has the behaviour that breaks the property otherwise.

| Property | Semaphores | with deletion | Mutexes | with deletion | Flags and queues |
|---|---|---|---|---|---|
| the lists agree with the states (`ListsAgree`) | `TablesAgree` | `DelTablesAgree` | `TablesAgree` | `DelTablesAgree` | in `OInv` |
| waiters are in order (`WaitersByPriority`) | `ServedByPriority` | in `DInv` | `ServedByPriority` | `DelServedByPriority` | in `OInv` |
| no blocked task runs (`RunningIsReady`) | `OnlyReadyRuns` | in `DInv` | `OnlyReadyRuns` | in `DInv` | in `OInv` |
| the highest priority runs (`HighestRuns`) | `HighestPriorityRuns` | `DelHighestPriorityRuns` | `HighestPriorityRuns` | `DelHighestPriorityRuns` | `ObjectsHighestPriorityRuns` |
| the object's own | `SignalsArrive` | `NothingIsLeft`, `DeletionIsTold` | `OwnersBeyondDoubt`, `PrioCurFollows`, `OwnersInherit` | `WaitersLearn`, `DelOwnersInherit`, `OwnPrioComesBack` | `MessagesArrive`, `FlagsAnswerRequest`, `FlagsArrive` |
| implements the abstract module | `SemaphoresKeepPromise` | `DelSemaphoresKeepPromise` | | | `QueuesKeepPromise` |

and, beside these, `DeferredInOrder` and four invariants of OSIntQ, `SignalsAreTaken` and `OutcomesStand` of OSTaskSync,
`FreeListHolds`, `PutSucceeds` and `GetIsExclusive` of OSMem, `NobodyInVain`, `EndsForOneReason`,
`TakenIsKept`, `PrioOrder` and `InTheirLists` of OSPendMulti, `BlocksAreKept` and `BlocksKeepOrder` of OSMsg,
`WheelHolds` and `DelaysEndOnTime` of OSTick, `WheelOfRunning` and `TimersEndOnTime` of OSTmr,
`DelaysAreRounded` of OSTimeHMSM.

### The kernel

**OSKernelProof** first proves, function by function, that `Good(os)` is kept: the tables have
their types, each list holds exactly the tasks it should, once, waiters are
in the order of their priorities, and the idle task is ready. That last part is what
makes `OS_PrioGetHighest()` find a task. `ListOf(s, S)`, the sequence `s` holds each
member of `S` once, is the notion the list lemmas are about; each function's
lemma says what its lists hold afterwards. Then it adds what relates
the tables to control, `KInv`: none of the properties is inductive alone, for

* a woken task must have been blocked, and a post readies the head of a pend
  list, so the loop of a post needs as many waiters as it has iterations left
  (`LoopsEnd`);
* a task the tick task wakes must still be in the tick list (`LoopsEnd`);
* no task may block itself while the scheduler is locked, or `OSSched()` would
  return to a blocked task (`LockedIsReady`);
* the tick task, which is not among the tasks, runs exactly during its walk
  (`TickTaskRuns`).

Each action has a lemma that it keeps `KInv` and fills no empty pend list
(`EmptyStays`, which is what the object modules need). Two more invariants are proved beside
it for those who need them: `Places`, where in the code a waiting task can be (a task whose
pend table names an object is before the `OSSched()` of a pend or before it reads
`PendStatus`), and `Dispatched`, which strengthens `HighestRuns` by the idle task and by what
is still to be scheduled. `HighestRuns` needs the hypothesis `AlwaysSched`: a post or an
abort with `OS_OPT_POST_NO_SCHED` leaves a task of higher priority ready, as it says.

### Semaphores

The invariant of **OSSemProof** is `KInv` with the range of the counts and
`NoLostSignal`. `SemaphoresKeepPromise` is the refinement of AbsSem. Under its mapping a
task waits while its pend table names the semaphore, and its outcome is in
`PendStatus` from then until it reads it. `WaitsEffect` splits the steps of the kernel, which are
many, by what they do to waits: leave every wait alone, end one with `TIMEOUT` or
`ABORT`, or hand one unit to a waiter. These are a stutter and two actions of AbsSem; the
steps of `os_sem.c` are mapped one by one, and `Places` says that the task that
reads its outcome has one.

The second part of OSSemProof is about deletion and creation. `Lost` are the objects that are gone
and were not deleted carelessly: no task is in a call on one of them (`CallsAgree`), and nobody waits on it and no unit is
counted in it (`LostIsEmpty`). A creation empties the pend list without a look, which agrees with the
TCBs only if the list was empty. The hypothesis `Orderly`, no object is both deleted carelessly and
created anew, says that it finds one of the `Lost`. `NothingIsLeft` needs that nothing at all is deleted
carelessly (`Careless = {}`), and the run `DelRace` shows what happens otherwise. The other theorems hold with
careless deletions of objects that are not created anew, too. A deletion walks the pend list as it removes
from it; that everybody in it is told is shown by the least position of a task
who was not. `DInv` adds that what does not exist is empty and that a waiting task was told
nothing yet. The hypothesis `NeverLocked` is there because a task that deletes itself with the
scheduler locked goes on running (os_task.c:565). `DelSemaphoresKeepPromise` is the refinement of AbsSem with all of this:
a deletion of a semaphore ends every wait on it in one step (`Delete`), the deletion of a task makes its wait
vanish (`Vanish`), and a creation of either, like the test of the type, is no step of the units or waits but for the
initial count (`Set`).

The last part is about OSTaskSync, where `KInv` does not hold: an abort that comes late takes a
task out of no pend list (the run `TaskSyncAbort`), and from then on the lists do not agree with
the states. What a task waits for is still in its TCB, and `SInv` needs no more than that: each
function of the kernel is shown to end waits at most and to leave the `PendStatus` of a task that does not
wait alone (`OnlyEnds`), whatever the lists hold; a wait begins only in the three pends, for the
task that runs. `SignalsAreTaken` has the hypothesis `OnlyCleared`, the use its comment gives
`OSTaskSemSet()`; `OutcomesStand` has none.

### Mutexes

**OSMutexProof** has one inductive invariant in two layers. `Base` holds whether or not
mutexes are deleted: besides `KInv` and `Places`, a task in a pend knows which mutex it
asked for and, while it is in that one's pend list, another task owns it (`ArgKnown`); a
mutex is free exactly when its count is 0, and its owner believes to have it at least as
often as it is counted, unless it has yet to read `PendStatus` (`OwnerSound`). At least,
because a mutex may be deleted between a hand-over and the moment the heir reads
`PendStatus`: the heir then believes to have what is gone, or what another task has since it was
created anew. Without deletions `MInv` adds that `PendStatus` tells the truth
(`ArgAgrees`) and that the two counts are equal (`OwnerTold`), from which
`OwnersBeyondDoubt` follows. Each step has a lemma that it keeps `Base` and, if it held before,
`MInv`. Priority inheritance (`OS_TaskChangePrio` on an owner that may be ready, in
another pend list or in none) is shown to keep `Good`.

`DInv` is `Base` and that a mutex that was not deleted carelessly has no owner once it is gone, hence no waiters. A deletion
gives the owner its priority back and walks the pend list; the lemma about that walk is
the semaphores' (`AllAreTold`), and `RestoreOwnerGood` shows that the owner's move in
the pend list of another mutex leaves the list that is walked alone. `WaitersLearn` reads the
rest off `MutexDelAlwaysDoes`.

Hypotheses: `Orderly` with deletions, as for semaphores; `NoWrap`, no task acquires a mutex it has 255 times (os_mutex.c:406);
`OwnersInherit` needs `OneAtATime`, since with two mutexes
`OwnerOriginalPrio` may be an inherited priority (os_mutex.c:395) and a post restores it
while the other mutex has waiters, and no change of priorities, which takes from the owner
what it inherited; `PrioCurFollows` needs no `OSTaskChangePrio()` (os_task.c:107). `BInv` is
the invariant of inheritance: who waits owns nothing, everybody owns at most one mutex, and
an owner has at least the priority of each of its waiters. `OwnPrioComesBack` needs in
addition that no wait ends by a timeout or an abort, since that leaves the owner with a priority
nobody waits with (the run `MutexBoost` has the behaviour). Its invariant `PInv` says that an owner has an
inherited priority only while somebody waits (`BoostIsWaited`): the mutex is then
handed over, which gives the priority back, and not just released, which does not.
`KNextKeepsWaits` is the fact about the kernel behind it: without timeouts and aborts it ends no wait.

### Message queues and event flags

`OInv` of **OSObjectsProof** relates the table of requests to the pend table: a task in
the pend list of a group wants flags of that group, one in the list of a queue none. The
hypothesis `NeverSuspends` is that of the instance: flags that come for a suspended task leave it
in the tick list with nothing to wait for (os_flag.c:1261). `FlagsArrive`
is about the waiters whose request no other one feeds (`Feeds`), because
`OSFlagPend()` wakes nobody when it consumes flags (os_flag.c:398). Here, too, creations find empty lists (`Orderly`). `QueuesKeepPromise` refines AbsQ with the
deletion and creation of queues and with the event flags interleaved, whose steps stutter;
the flags' share of the pend list's loop is seen from outside (`Unseen`, `SeenAlike`).
`ObjectsHighestPriorityRuns` adds `Dispatched` to `OInv`; `HighestRuns` is checked in the run
`SemTasks`, and in no run with flags and queues.

### Deferred posts

`IInv` of **OSIntQProof** has the arithmetic of the ring: the entry number k is in
the slot `Place(k)`, the in-index is behind the last one. The queue's task works on the
oldest entry between its test of the count and the release, though handlers post meanwhile, and the
lock of the scheduler tells who is in a critical section. `DeferredInOrder` is the
safety of `ImplementsAbs`: each accepted call is made once, whole, in the order of the
posts. `Backlog`, the sequence under the mapping, is read off the ring; before and after
a step it is compared entry by entry.

### Memory partitions

The first part of **OSAloneProof** is about a partition of any number of blocks and any set of
tasks, which write whatever they like into the blocks they have. The inductive invariant
says besides the types what `OSMemCreate()` has linked so far (`LinkedSoFar`), that no
block has two clients (`OneOwner`), and that the links from `FreeListPtr` run through the
blocks nobody has (`FreeListIsRest`), so that a write goes to a block outside the list and
cannot break a link. The chain is given by a witness that follows the calls: a get drops
its first block, a put sets one before it.

### Pends on several objects

The second part of OSAloneProof is about any tasks, objects and tables. What a pend list
looks like after an insertion or a removal comes down to one operator, `Only`, the entries of
a sequence that are in a set. It is a recursive function; `PicksExist` shows that there is such
a function and `OnlyIs`, by the least index at which it would fail, that it keeps the order of
the entries, repeats none and drops nothing else. `InsertIs` puts a task between what stays
before and what stays behind it.

`MInv` has, besides `NobodyWaitsInVain`: each list is sorted by priority, has no entry twice
and holds only tasks whose table names the object (`ListsOrdered`); a task waits only inside
`OSPendMulti()`, and its table tells it what the end of its wait implies (`Told`), nothing while it
still waits. The lemma `EndWaitsInv` covers posts, aborts, deletions and timeouts at once: each
takes tasks out of every list of their tables, so that the next one does not find them.
That everybody who waits is listed (`AllListed`) and that the tables name objects that exist
(`TablesExist`) is claimed under `~Careless`, the hypothesis of `InTheirLists`: the table is
validated before the critical section of the pend (os_pend_multi.c:167), and an object deleted in between
stays in the table and gets no list entry. The other four theorems hold with careless deletions, too.

### Message blocks

**OSMsgProof** is about any number of blocks, queues and values. The code follows `NextPtr` only
as far as the counters say, because the last block of a chain keeps a stale link.
The inductive invariant therefore has witnesses (`Chains`): a sequence of blocks for the
pool and one for each queue, as long as the counters say, that the links run through, with
every block in one place of one of them; besides, `NbrFree` and `NbrUsed` sum to the
number of blocks. That the walks of the model, a recursive function, meet just these witnesses
(`WalkMeets`) is shown by the least position at which they would differ. Under the mapping
of `ImplementsAbs` a queue is the values of its chain. The module is used through `INSTANCE`,
so its assumption on the constants is a hypothesis of the theorems, and MCAlone's
`AloneAssumption` evaluates it for the instance.

### The tick wheel

**OSTickProof** is about every number of spokes, every width of OSTickCtr and every set of
tasks. That a spoke holds exactly the tasks that wait for a time which falls on it, once each
(`Listed`, `Entries`), is inductive together with the types and the ready list, and `WheelHolds`
follows. That a task wakes at its tick needs more: the walk of a spoke
stops at the first entry whose time has not come (`Due`), so the entries it has passed over
must be all that are due. `IInv` says therefore that each spoke is sorted by what is left
until the match times, which one tick keeps, because everything left shrinks by one except
what becomes due and is removed; that nothing in the wheel has zero ticks left, which would mean a
missed time and a full turn of the counter; and that `age`, the history of periodic delays, tells
where `TickCtrPrev` is (`PeriodIs`). `OSTimeSet()` breaks these three and they are claimed
only before it; the agreement of wheel and states is claimed after it, too. The step
lemmas show at once that `IInv` is kept and that the step is one of AbsTick (`Maps`).

The width W is a power of two, which the provers know only through the number of
subsets of a set (`PowersOfTwo`); sums and differences modulo W have a lemma each (`PlusIs`,
`MinusIs`). Hypothesis: `TimesAhead`, the assumption on the constants, which
MCAlone's `AloneAssumption` evaluates, and that no match time has passed when it is given
(os_time.c:126: the task would stay ready and be marked as delayed).

### Software timers

The third part of OSAloneProof is about any timers, any delays and periods that OS_TICK can
count, any number of spokes, any number of values of OSTmrTickCtr (`Wrap`) and any backlog of updates.
`WheelOfRunning` has no hypothesis: that a spoke holds the running timers whose match
falls on it, once each (`SpokesHold`), is kept by every service whoever calls it, careless callbacks
included, because each unlinks a timer from the spoke of the match time it was linked with.

`TimersEndOnTime` shows that every step is one of AbsTmr or a stutter, and that needs to know
where the walk of `OS_TmrTask()` is. The task reads `NextPtr` before it calls a callback
(os_tmr.c:1073) and stops at the first timer that is not due. Nothing due is passed over if

* every spoke is sorted by what its timers have left, which one update keeps, because what is left
  of each shrinks by one and nothing that was due is still linked (`OneTickOn`, `WalkBegins`);
* while a timer is due the task looks next at the head of its spoke, and sleeps only when none is
  (`HeadIsNext`), so that no due timer is behind the task;
* the timer it looks at next is one of the walked spoke, so the pointer it holds is
  never that of an unlinked timer (`task.at # "fault"`).

A callback may move its own timer: the sorted spoke takes it back behind everything due, since a
delay is never zero and smaller than `Wrap` (`DelayIs`, `LinkIs`). A callback that stops
or restarts another timer of the walked spoke breaks the last two points, which are therefore
claimed under `Careful`, the hypothesis of the theorem; Findings has what happens then.
`LinkIs` and `UnlinkIs` state what the two functions do to heads, order and members of a spoke;
`EntriesRun` carries that from the spokes to the states.

### Hours, minutes, seconds and milliseconds

`DelaysAreRounded`, in OSAloneProof, is arithmetic and has no hypothesis. The code adds 500/rate whole
milliseconds and rounds down. What 500/rate cuts off is less than one millisecond's share of a tick, so that a delay is at most
half a tick too long, and too short by less than half a tick and what was cut off; if the
rate divides 1000, what the division by 1000 cuts off is a multiple of the rate, and the result is the
nearest tick. `Fits` is part of the property: where a product exceeds OS_TICK, as it may in non-strict
calls (os_time.c:303), nothing is said.

### Only model-checked

* All liveness: `TimeoutEnds`, `TopTaskRuns`, `TopTaskGetsMutex`, and the liveness half of
  OSIntQ's `ImplementsAbs`. Fairness and `ENABLED` are out of the prover's reach.
* Some names a run checks are MCAlone's: `LinksAgree` joins what the parts' modules say, `WakesOnTime`
  and `QueuesKeepOrder` say it of the part a behaviour is about. The theorems are about the modules:
  `WheelHolds`, `WheelOfRunning`, `BlocksAreKept`, `PutSucceeds`, `PrioOrder`
  and `InTheirLists` for the clauses of the first, `DelaysEndOnTime` and `BlocksKeepOrder` for the others.

## Abstractions

* Default configuration except in OSIntQ: `OS_CFG_ISR_POST_DEFERRED_EN` is 0, so
  critical sections disable interrupts and interrupt handlers post directly.
* What a service tests before its critical section and never changes while the system runs (options,
  null pointers, `OSIntNestingCtr`) is in the guard of the action. The `Type` of an object does change:
  where objects are deleted (OSCall) its test is a step of its own.
* In OSKernel the tick interrupt and the run of the tick task it causes are one
  sequence, in which the scheduler's lock or an open interrupt delays the tick
  task. The tick task has a priority of its own above the application's. A tick
  at which the tick list is empty changes nothing that is modelled and is left
  out.
* The tick list of OSCore is the number of ticks each task has left; tasks due
  at the same tick expire in any order. OSTick has the wheel. Time stamps,
  profiling counters and debug lists are left out.
* Time quanta: round robin may rotate the current priority's list at any tick
  interrupt.
* Every application task calls any service at any moment it runs; the idle
  task calls none. Arguments are valid.
* No application changes the priority of the idle task. `OSTaskChangePrio`
  refuses the idle task's priority as the new one (os_task.c:92) but not the
  idle task itself.
* Interrupt handlers post; the services the code refuses in handlers are not
  called there.
* Clients of a memory partition put blocks they have; `OSMemPut()` cannot tell
  (os_mem.c:274).

## Not modelled

* The other deferred calls of `OS_IntQRePost`; task registers, stack checks, statistics, the debug
  tables and `OSInit()`: no scheduling decision reads them.
* The processor ports, the C library and the board files of the Micrium tree:
  assembler and vendor code.
* Everything outside `Micrium`. Of about 350,000 lines of C most are other
  people's programs kept for reading: Bochs under `APUE3`, patches and test suites of real-time
  Linux, books' examples. They are not this repository's own logic and far
  beyond one specification, and the share of the repository these modules cover is
  accordingly small. What its author wrote besides, Linux driver exercises (a read or a
  write moves a position in a buffer of its own), POSIX thread and socket
  exercises, sorts and lists, are sequential programs or calls of a library
  whose behaviour is not in this repository.

## Plan

1. Done: the modules, runs and theorems above.
2. Open: an abstract module for mutexes, of which invariants and action properties are proved but
   no refinement; and event flags that are consumed under a waiter (`Feeds`), of which nothing is
   claimed.
