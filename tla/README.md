# TLA+ models of the ucore kernel and a web server

The repository is a collection of study notes and exercises. The largest program in
it with a core of its own is the teaching kernel **ucore**, in
`src/C++/06ucore`; `labcodes_answer/lab8_result` is its last and complete state.
Paths below are relative to `src/C++/06ucore/labcodes_answer/lab8_result/`
(`kern/` when they start with a subdirectory of `kern`). Modelled too are the
web server in `src/C++/03web_server/WebServer-master/WebServer`, whose reactor and log
are the most concurrent code besides the kernel, and the
pool of threads in `src/C++/05myWebServer/01ThreadPool_test`. What
else the repository holds is listed under "Not modelled".

The kernel runs on one CPU. Interrupts are on in system calls, but an interrupt
taken in the kernel never switches processes (`trap/trap.c:298-309`
reschedules only on the return to user mode). Kernel code therefore gives up the
CPU only where it calls `schedule()`: in `do_wait`, `do_sleep`, `do_exit`, a
`down()` that blocks, a read of the keyboard, and in `trap()` itself. What
interleaves is the order of those points, the timer interrupt between any two
statements that have interrupts on, and the order in which the run queue gives
the CPU away. The models have exactly these steps.

## Inventory

| Part | State | Operations | What makes it correct, and what is hard |
|---|---|---|---|
| Processes (`process/proc.c`, `trap/trap.c`, `syscall/syscall.c`) | `proc_list`, `state`, `wait_state`, `flags`, `parent` and siblings, `nr_process`, `current` | `do_fork`, `do_exit`, `do_wait`, `do_kill`, `do_yield`, `do_sleep`, `init_main` | No wake-up of a waiting parent is lost; zombies are reaped once, orphans by init; a killed process dies. Kills and timer interrupts arrive between a process's setting itself asleep and its `schedule()`. |
| Run queue and timers (`schedule/sched.c`) | `rq`, `need_resched`, `timer_list` of differences | `wakeup_proc`, `schedule`, `add_timer`, `del_timer`, `run_timer_list` | A runnable process is queued once; a timer on a kernel stack leaves the list before the stack does; every timer fires at its tick. |
| Stride class (`schedule/default_sched.c`, `libs/skew_heap.h`) | skew heap, `lab6_stride`, `lab6_priority` | `enqueue`, `dequeue`, `pick_next`, `proc_tick` | Order of strides that wrap around; late joiners, after whom it may be no order; who is starved. |
| Semaphores and wait queues (`sync/sem.c`, `sync/wait.c`) | `value`, queue of `wait_t` on kernel stacks | `up`, `down`, `wakeup_*` | A semaphore is handed over, never both counted and handed over. |
| Monitor (`sync/monitor.c`) | `mutex`, `next`, `next_count`, `count[]` | `cond_signal`, `cond_wait`, enter, leave | One thread inside; signal-and-wait; nobody left asleep on `next`. |
| Philosophers (`sync/check_sync.c`) | `state_sema`, `state_condvar` | take and put the forks | Neighbours never eat together; nobody starves. |
| Standard input (`fs/devs/dev_stdin.c`) | ring buffer, wait queue | the keyboard interrupt, `dev_stdin_read` | Characters in order; readers woken together; a full ring. |
| Files (`fs/file.c`, `fs/fs.c`, `fs/sysfile.c`) | `fd_array`, `open_count`, `files_count` | open, close, dup, read, write, seek, fork, exec, exit | Counts equal to the descriptors; positions other openers left stale; error paths. |
| VFS (`fs/vfs`) | inode `ref_count` and `open_count`, mounted devices | lookup, open, close, mount | Counts equal to references; leaks on error paths. |
| SFS (`fs/sfs`) | inode cache, block map, free map | lookup, read, write, truncate, reclaim | Blocks owned once; growth that fails half way; what is clean or closed is on the disk. |
| Pids and links (`process/proc.c`) | `proc_list`, `last_pid`, `next_safe`, `cptr`, `optr`, `yptr` | `get_pid`, `set_links`, `remove_links`, the reparenting loop of `do_exit` | A pid is unique although `get_pid` mostly trusts two cached variables; three pointers per process stay a tree. |
| Physical memory (`mm/default_pmm.c`, `mm/pmm.c`, `mm/kmalloc.c`) | free lists | alloc, free with merging | The free blocks are disjoint, sorted, merged; fork and exec that fail half way give back what they took. |
| Virtual memory and swap (`mm/vmm.c`, `mm/swap*.c`) | vmas, page tables, FIFO of pages | map, copy, unmap, page fault, swap | Areas, page tables and pages are freed in an order that finds them all. |
| Boot, console, debugger, user library | | | Straight-line code and formatting. |
| Pool of threads (`threadPool.cc`) | ring of tasks, `shutdown`, counts; mutex and condition variable | create, add, the worker's loop, destroy | No signal is lost; tasks start once and in order; destroy finds every worker. |
| Web server: reactor (`Server.cpp`, `EventLoop.cpp`, `Epoll.cpp`, `HttpData.cpp`, `Timer.cpp`) | per loop `pendingFunctors_`, `fd2chan_`, `fd2http_`, the heap of timers; per connection buffers, `connectionState_`, `lastEvents_`; epoll and the sockets | `handNewConn`, `queueInLoop`, `poll`, `handleEvents`, `newEvent`, `handleConn`, `handleClose`, `handleExpired` | No lost wake-up between threads; an edge that is reported once is used up; descriptors that are used again; each open connection has one timer; pointers that close a connection when the last one goes. |
| Web server: log (`base/AsyncLogging.cpp`) | two pairs of buffers, the full ones; mutex and condition variable | `append`, `threadFunc`, `stop` | Buffers are never shared or missing; lines in order, once, and in the end. |

The parts interact through calls: system calls enter `proc.c` and `fs`;
semaphores, monitors, the keyboard and sleep all end in `wakeup_proc` and
`schedule`; the run queue calls the scheduling class. In the web server the main
thread hands connections to the loops through `pendingFunctors_` and `wakeupFd_`;
each loop calls its own connections and timers, which call the poller; all threads
append to the log.

## Modules

| Module | Models | Abstract side |
|---|---|---|
| `Proc` | `proc.c`, `sched.c`, `trap.c` together | implements `ProcTree` |
| `ProcTree` | what fork, exit and wait promise about the process tree | |
| `ProcProofs` | proofs about `Proc` | |
| `Timers` | `timer_list` with differences | implements `Countdown` |
| `Countdown` | independent timers | |
| `Stride` | the stride class on the skew heap | |
| `Sem` | operators for `up`, `down`, `do_sleep`, dispatching a thread | |
| `PhiSema` | the philosophers with semaphores, on `Sem` | implements `Dining` |
| `Monitor` | `monitor.c` on `Sem`, for any routines | implements `Hoare` |
| `Hoare` | a signal-and-wait monitor | |
| `PhiCondvar` | the philosophers with the monitor, on `Monitor` | implements `Dining` |
| `Dining` | the dining philosophers | |
| `MonitorProofs` | proofs about `Monitor` | |
| `PhiProofs` | proofs about `PhiCondvar` and `PhiSema`, which use those about `Monitor` | |
| `Files` | descriptor tables, inode counts and the block map of SFS | |
| `FilesProofs` | proofs about `Files` | |
| `PidAlloc` | `get_pid` on `proc_list`, a step per process looked at | |
| `FirstFit` | operators for `default_pmm.c` on its list of blocks | |
| `ProcTable` | fork, exec, exit and wait as sequences of allocations, releases and links, on `PidAlloc` and `FirstFit` | |
| `ProcTableProofs` | proofs about `PidAlloc` and `ProcTable` | |
| `Stdin` | `dev_stdin.c` with the keyboard interrupt and `do_kill` | implements `TypeAhead` |
| `TypeAhead` | a bounded queue of characters | |
| `InterruptProofs` | proofs about `Stdin`, `Timers` and `Stride` | |
| `ThreadPool` | `threadPool.cc` | implements `TaskQueue` |
| `TaskQueue` | a queue of tasks that can be closed | |
| `WebServer` | the reactor: main thread, a loop, its connections and timers; epoll and the clients around them; proved about, without a run | |
| `AsyncLogging` | `base/AsyncLogging.cpp`; proved about, without a run | |
| `CppProofs` | proofs about `ThreadPool`, `WebServer` and `AsyncLogging` | |
| `SequenceFacts` | lemmas for the other proofs: sequences without repetition, families of queues, induction on the natural numbers as a fact about sets | |
| `MC*` | the symmetries and the instances TLC runs | |

### Proc

One `pc` per process says where its kernel code is: `"user"`, `"trap"` (in the
tail of `trap()`), `"sys"` (a system call has begun), `"wait"`, `"slept"`,
`"exit"`, and so on; the header of the module lists them. A step is the code
from one place where an interrupt or a switch matters to the next; `Tick` is the
timer interrupt and may come between any two. `GiveUpCPU` is `schedule()` with
any process of the run queue as the next, so the module holds for every
scheduling class. `rq[p]` counts how often `p` is linked into the run queue, so
that linking twice is visible.

Abstracted: user memory, files, exit codes and names; the order of the children
(`do_wait(0)` takes any zombie child instead of the first in the list); which
process calls which system call with which pid (any process, any pid, except
that initproc is never the target of a kill, since user programs kill only pids
they got from `fork` or `getpid`). `timer[p]` is the number of ticks left, which is
what `Timers` shows the list of differences to be. `check_sync`, which
`init_main` calls before it waits, forks kernel threads that only use semaphores
and sleep; they are in `PhiSema` and `PhiCondvar` and not in `Proc`.

### Timers

`timer_list` is a sequence of entries whose `expires` is the difference to the
one before. `AddTimer`, `DelTimer` and `RunTimerList` are the three functions;
a timer of 0 may stand behind another one of the same tick.

### Stride

Strides are integers modulo `2 * (BIG_STRIDE + 1)`, compared by the sign of
their difference as in `proc_stride_comp_f`; with `BIG_STRIDE = 2^31 - 1` this is
the code. The heap is the code's: a root, and for every process the pointers `left`,
`right` and `parent`. `Descend` is one call of `skew_heap_merge` up to the call of
itself, with the links it writes; `Merge` is as many calls as there are processes,
which are enough, and `Remove` puts what is left in the place of the removed. `late`
is a history variable: it becomes true when a process joins with a stride outside the
window of the others, half the range from the first of them.

### Sem, PhiSema, Monitor, PhiCondvar

`Sem` has one queue per semaphore and, for every thread, whether it is ready,
asleep in a queue, asleep in `do_sleep` or gone. `Down` either goes on or sleeps;
`Up` hands the semaphore to the first of the queue. The philosophers have one
action per statement. In `Monitor` the body of a routine is arbitrary: a thread
inside may signal, wait, sleep and leave, in any order.

### Files

One module for the three layers of files, because the hazards are between them:
`fd` is the tables of `fs/file.c`, `ref` and `open` the counts of `fs/vfs/inode.c`,
`mem` and `disk` the two copies of an inode of SFS with its `dirty` bit, `ents` the
entries of its indirect block (written through to the disk), `unused` the count of
free blocks. No file operation on the disk gives up the CPU (`ide.c` polls), so a
call is one step and the locks of SFS are never contended. The loops over blocks
are in closed form: `Reach` is how far `sfs_bmap_load_nolock` gets before the disk
is full, `Cost` what that takes, indirect block included. `Write` and `Read` are
one `file_write` and `file_read`, at most a buffer, which `fs/sysfile.c` repeats.
An inode that is not in memory (`ref = 0`) has `mem = disk`, so that loading it
changes only the counts. An assertion that fails sets `panic` and stops everything.

Abstracted: block numbers (a count of free blocks, and which entries of the
indirect block are in use), contents of files, names, directories (nothing writes
them: `vop_create` does not exist, and an open with `O_CREAT` of a missing name
fails the check for it), descriptors of devices.

### PidAlloc, FirstFit, ProcTable

`Proc` says when processes run; `ProcTable` says what their calls take and give
back. A call (`Fork`, `Exec`, `Exit`, `Wait`) puts the list of what it has to do in
`todo`: an allocation, a release, or a step like `get_pid`, `set_mm`, `adopt`. Each
step does the first entry. An allocation for which there is no memory replaces the
rest of the list by the call's own cleanup: the operators `ForkCleanup`, `MmCleanup`,
`LoadCleanup`, `ArgCleanup` and `PutKargv` are the labels of `do_fork`, `copy_mm`,
`load_icode` and `copy_kargv`, and `put_kargv`. Files that are missing or wrong fail in
the same way (`TryFile`). `Copy` is the loop of `copy_kargv`: one more buffer is got, or
the last argument has been copied, or one of a user process cannot be read, and the call
returns `-E_INVAL` to a process that lives on with the memory it had; how many arguments
there are is decided as the loop goes on. A kernel thread passes strings of the kernel,
which can be read.
`owns[p]` is what `p` holds, with addresses for pages, `owns[New]` what the call
holds that no process has yet, and `owns[Arg(i)]` the buffer of its `i`-th argument. A
user process has two areas, text and stack, of one page each. Objects of `kmalloc` are counted and not placed: `SlobSize` of them fit
in a page, and a page `kmalloc` has cut up is never given back, as in the code.
Calls do not interleave: nothing in them sleeps. When one page cannot be had,
`alloc_pages` may return `NULL`, or call `swap_out` with a `check_mm_struct` that is
`NULL` after boot and crash (`swap_init_ok` decides, which `swap_init` sets); both
outcomes are in `NoPages`. The assertions that a page can be had (`pmm.c:508`,
`proc.c:722-725`) are panics. What the file system allocates during an exec is left out:
the path buffer of `sysfile_open`, the buffer of `sysfile_read`, the inodes.

`PidAlloc` is `get_pid` with a step per process of `proc_list`. `le` is where the
loop stands and `0` between calls. `FirstFit` keeps the free list as a sequence of
`[base, property]`; the flag of a page is whether a block of the list starts there.

### Stdin

`p_rpos` and `p_wpos` grow without bound and index the ring modulo its size. A
reader that finds the ring empty links its `wait_t` and sleeps; a character wakes
and unlinks all of them; `do_kill` wakes one and leaves it linked, and it unlinks
itself when it runs. Between waking and running, further characters, kills and
other readers may come. A reader that was killed but then also reached by a
character before it ran takes the character for its reason to wake: it goes on
reading and may sleep again with `PF_EXITING` set, until the next character. The
models have this; nothing in the repository says that it cannot happen. A full ring stores the newest
character over the oldest unread one and counts nothing: `TypeAhead` says so.

### ThreadPool

What a thread does while it has the mutex is one step. `tmutex` has an owner between
steps only when a call has returned without unlocking: `threadpool_add` does when
the ring is full or the pool is shut down (`threadPool.cc:50-53`), and so does a
`threadpool_destroy` of a pool that is shut down (`:71`). A `threadpool_destroy(0)` leaves
`shutdown` at 0 and joins workers that do not end; another call is then let in, may
shut the pool down, and comes to join the same threads. Who reaches `pthread_join`
first joins them all (`joiner`). The other's join POSIX leaves undefined; the model has
what glibc does, an error, with which that call returns without `threadpool_free`
(`JoinFails`). Once the pool is freed nothing is promised and the model stops. A signal wakes any one waiter, and
`pthread_cond_wait` may return unasked (`Spurious`). `task_head` goes round at
`MAX_TASKS` (`:115`) but `task_tail` at `tasks_size` (`:57`): with a ring smaller than
`MAX_TASKS`, a worker reads an entry beyond it after `tasks_size` tasks. From then on
anything may happen (`wild`), and the model stops. Left out: the end of
`threadpool_add` has no `return`; its result is not used by any caller.

### WebServer

Two threads: the main one (`mpc`), which accepts and hands over, and a loop (`lpc`),
which polls, handles the events (`batch`), swaps and calls `pendingFunctors_`, and
handles the timers. One loop is enough: loops share only the numbers of descriptors,
of which the main thread may always give out the lowest free one. A handler of a
connection is one step, because what it touches is the loop's own, except the
socket; the clients and the main thread act between handlers. `Stay`, `Linger` and
`Close` are the three ways `handleConn` ends, after `Result` has computed what
`handleRead` and `handleWrite` leave.

Sockets and epoll are modelled from how the code uses them, edge-triggered:
`reg[c]` is what epoll was asked for, `ready` what it would report, `Edge` what an
arrival adds, and a modification looks at the socket again. `EPOLLONESHOT`, which
only the first registration has, empties `reg[c]`. A client sends any sequence of
whole requests, wrong ones and halves, shuts down, resets and takes what it is sent.
`inBuffer_` holds what was sent and not yet parsed, in these pieces; `"cut"` is a
piece that lost its first character to the request before it. Of `outBuffer_` it
matters whether something is in it. The requests are
those with at least one header: without one `parseHeaders` waits for more. `Release`
is the end of the last `shared_ptr`, which closes
the descriptor: the tables, the timer nodes, the functors and the main thread's
`req_info` each hold one. `nodes` counts the timer nodes that refer to a
connection, `timer_` says whether its weak pointer leads to one. The result of the
handlers of one event, whatever it is, is a record of the fields they leave (`Left`).
Left out: the text of headers, a header cut between two reads, `keepAlive_` (it
chooses how long a timer runs, and here it may run out at any time), failures of
`epoll_ctl` and `setSocketNonBlocking`, the wrap of the clock of `Timer.cpp`.

### AsyncLogging

Buffers are named, since the code moves pointers to them around. `append` either
fits (`Append1`) or pushes the current buffer (`AppendNext`). The logging thread
looks, perhaps waits, exchanges and writes; `Kept` is what its `erase` leaves of too
many buffers and `Spare` what `resize(2)` leaves to take the next two from.

## Runs

| Run | Instance | What it shows |
|---|---|---|
| `proc` | idle, init, two user pids | Types; the run queue is exact (`RunQueueExact`); no lost wake-up between `do_wait` and `do_exit` (`NoLostChild`); timers only under an active `do_sleep` (`TimerBacksSleep`); no assertion fails (`NoAssertFails`); `Proc` implements `ProcTree`; sleepers wake, waiting parents get on, killed processes die unless they entered `do_wait` after the kill |
| `proc_kill` | the same | Violated: `do_kill` does not always kill (see Findings) |
| `proc_table` | init and up to three user processes, five pids, one or two arguments; memories of 3 to 33 pages for six calls, and one without limit | Pids are unique and are those of `proc_list` (`PidsExact`); the pointers are the tree, also half way through a reparenting, and init is the last (`LinksExact`); pages are free, cut up or held once, and the free list is merged (`MemoryExact`); what a process holds between calls is what its state says (`HoldsExact`) |
| `timers` | four timers, up to 6 ticks | The list of differences stays in order and implements independent countdowns |
| `stride` | three processes of two weights, strides modulo 6 | The heap loses and doubles nobody and its pointers are right (`HeapExact`); the least stride is on top until somebody joins late, and afterwards whenever there is a least one (`LeastFirst`); a process that is ready is picked in the end if, from some time on, nobody is forked and no sleeper wakes up late (`Served`) |
| `phi_sema` | four philosophers, two meals | Semaphores and their queues exact (`QueuesOK`), permits exact, refinement of `Dining`, everybody quits |
| `monitor` | six threads, two condition variables | One thread inside and exact counters (`MonitorOK`), refinement of `Hoare` |
| `phi_condvar` | four philosophers, two meals | A waiter that returns is `EATING`, refinement of `Dining`, everybody quits |
| `files` | two processes with two descriptors each, two files, three data blocks | Open counts equal the descriptors (`OpenExact`); references are lost only by an exclusive open that fails (`RefsKept`); no block is lost (`SpaceExact`); a position within a file can be written (`BlocksReach`); a file nobody has open is on the disk (`Synced`) |
| `files_pos` | the same | Violated: a position left beyond the end stops the kernel (see Findings) |
| `stdin` | two readers, two characters, a ring of two, six typed | The wait queue has exactly the calls that sleep, and nobody sleeps on unread input (`ReadersOK`); the ring is the queue of `TypeAhead`; what is typed is read while somebody reads |
| `pool` | three workers, two clients, rings of one to three entries, five tasks | No signal is lost (`NoLostTask`); refinement of `TaskQueue`; accepted tasks are started; `threadpool_destroy(1)` joins every worker |

Bounds. `MAX_PROCESS` is the number of pids, so a fork fails for want of a pid
and for want of a free process at once. With two user processes one is orphaned
onto init while the other dies, or is killed, waits or sleeps. What needs a third (a
process with a zombie child dies while init waits for another, `proc.c:561-563`) is
covered by the theorems, which hold for any number of pids.
`MaxSlice = 1` and `MaxSleep = 1` make every tick end a slice and every other one
a sleep: longer slices and sleeps add only steps in which nothing happens to
anyone else. Six ticks and four timers put entries before, between and behind
others, with equal and different times. Six values of a stride make every
difference, the ambiguous one of half the range included, and orders that go in a
cycle happen within a few picks; a process has the default priority 0, whose pass is 2
(as of 1), until it asks for 2, whose pass is 1. `Served` is checked of one process: the
module does not tell them apart. Four philosophers are the fewest with one who is
nobody's neighbour. Six
threads make chains of three signallers on `next`. Deadlock is checked except in
`monitor`, where the routines are arbitrary and may all wait; in `files` and
`proc_table`, where a panic stops the kernel; in `stdin`, where everybody may have
gone; and in `pool`, which ends when the pool is freed, the ring is left or the mutex
is kept. In `files` one direct block and two indirect entries over
three blocks make the disk fill up before, at and after the indirect block, with
the other file holding the missing block; two units to a block tell a position
inside a block from one at its start. `MAXOPEN = 2` open descriptors are enough for
two openers of one file and one of each; `MAXLEAK = 1` for a count that is off by a
lost reference. Writing past the end of the indirect block would need four blocks
and is outside the instance. In `proc_table` the memories grow from 3 pages, where
the first fork fails, to 33, where three user processes fit beside init, and six calls
are made on each (`MaxCalls`). With two objects to a page (`SlobSize`) both outcomes of
`kmalloc` happen, and each allocation that is modelled, of a fork or an exec, of the
first argument or the second (`EXEC_MAX_ARG_NUM`), is the one that fails in some memory
after some calls, with one exception: the object for the files of a fork (`files_bb`) has
always found room; that its cleanup is right too is part of the proof, not of the run;
the size 0 stands for plenty of memory (`Plenty`), where no allocation fails
and three processes come and go beside init, so that pids wrap around and trees have
four levels. `MAX_PID` is one more than `MAX_PROCESS`, the least the `static_assert` of
`get_pid` allows, which makes the search restart. In `stdin` a read may want one
character more than the ring holds, and three times as many as it holds are typed.
In `pool` five tasks go round every ring, with one worker more than clients.
`WebServer` and `AsyncLogging` have no instance: their theorems hold for any, under
`ServerAssumption` and `BufferAssumption`, which the theorems name as hypotheses.

Fairness. The timer interrupt keeps coming, and kernel code that has the CPU goes
on. A process in the run queue is picked infinitely often if it is there
infinitely often (strong fairness of dispatching it). The stride class gives this
only under a condition, the hypothesis of `Served`: from some time on nobody is forked
and no sleeper wakes up late. A new process starts with stride 0, and a chain of
processes each of which forks the next one and exits overtakes all others without end.
Two sleepers that wake in turn, each with a stride from before the other's pass and
outside the window of a third process, overtake that one in the same way at any width
of the strides; how late somebody may wake is bounded by the code nowhere.
Both are assumed away in `Proc`: forks by `ForksEnd` in its liveness properties, late
sleepers by the strong fairness. The philosophers fork nobody. In `Stdin` a reader that
is runnable runs again. In `ThreadPool` some thread gets a mutex that is free (weak
fairness of all workers together, not of each: a mutex is not fair), tasks return,
and the thread that joins goes on.

## Findings

* `proc_kill`. `process/proc.c:938` says that `do_kill` kills. `PF_EXITING` is
  tested in `trap()` before `schedule()` (`trap/trap.c:301-308`) and in `do_wait`
  only after it slept. A process killed in the run queue behind that test goes
  back to user mode, and if its next system call is `wait` it sleeps with
  `PF_EXITING` set; a second kill returns `-E_KILLED` and does not wake it. What
  does hold is `KilledDiesOrWaits`.
* `files_pos`. `fs/sfs/sfs_inode.c:356` asserts that the block asked for is at
  most one beyond the file. A descriptor keeps its position when another open
  truncates the file (`fs/vfs/vfsfile.c:57`, also for `O_CREAT` without `O_TRUNC`);
  a write at that position, a block or more beyond the new end, fails the assertion.

What else the models show: after late wake-ups and a fork three ready processes can
have strides that are each less than the next, in a cycle, so that "the minimum value of
stride" (`schedule/default_sched.c:96`) is nobody's and some root is picked
(`LeastFirst` says that this is the only case); late sleepers can starve a process
(Fairness, above); the hole in the ring of the pool and its kept
mutex (above); `init_main`'s assertion on free pages (`proc.c:1029`) fails once the
processes needed another page of objects of `kmalloc`, which keeps it.

Read in the web server while `WebServer` was translated, kept in the model as the
code has them, and checked by no run:

* `parseHeaders` takes the character after the empty line to reach its last state and
  drops it (`HttpData.cpp:1058-1069`; `Rest`): a request that is read together with the
  one before is answered 400, although `WebServer-master/README.md:38` promises pipelining.
* For a client that has shut down with a response unsent, `handleConn` sets `EPOLLOUT`
  without telling the poller and after the timer is gone (`HttpData.cpp:853-857`;
  `Linger`); `连接的维护.md:33` says that such a connection is closed after everything is
  written. It is the exception `NoLeak` makes.
* `Epoll::poll` does not return without an event (`Epoll.cpp:82-89`; `Poll`), and timers
  are looked at only when it does, so that a silent server closes nobody late
  (`WebServer-master/README.md:33`).
* When there is no descriptor for it, `accept` fails and leaves the connection in the
  backlog until the next one comes (`Server.cpp:42-76`; `AcceptEnd`); the spare
  descriptor of `连接的维护.md:10` does not exist.

## Proofs

`ProcProofs` proves for every finite set of pids and all bounds that
`IndInv` is inductive, and from it `TypeOK`, `RunQueueExact`, `NoLostChild`,
`TimerBacksSleep`, `NoAssertFails`, `ProcessCount` and that `Proc` implements
`ProcTree`. The assumptions are the named ones of `Proc` on its constants.

The properties are not inductive one by one. That no wake-up is lost needs to know
where in its code a sleeping process can be (`WaitStatesOK`, `PlacesOK`), that
the two kernel threads never exit (`KernelThreadsOK`), that a parent is alive and
not the idle process unless the child is init (`ParentsOK`), and that following
parents ends (`Acyclic`, without which a process could be its own child). The
proof has one lemma per group of actions that leave the same variables alone, one
step per action and one step per conjunct the action can disturb.

`ProcTableProofs` proves that `get_pid` never gives out a pid in use, for any
`MAX_PROCESS` and `MAX_PID` (`MAX_PID > MAX_PROCESS`, the `static_assert`). The
argument is `CacheSafe`: no process has a pid between `last_pid` and `next_safe`, nor
one that the loop has passed. A process that leaves only makes this easier, one
that comes has `last_pid`; the step that matters is `Skip`, which may trust
the processes already passed only because the new `last_pid` is still below
`next_safe`. For `ProcTable`, whose steps are steps of `PidAlloc` or leave its variables
alone, this gives `PidsExact`: the pids in `proc_list` are those of the processes that
are not free.

The rest of `ProcTableProofs` is about the calls, for any `Memory`, any `SlobSize` and any number of arguments
above zero, and any number of calls, and
proves all four properties of the run `proc_table`. None of the other three is
inductive, because each speaks of less than a call in progress touches:

* `HoldsExact` is about the moments between calls. `Phases` says for every point of
  every call which entries of `todo` are still to be got or given back, and that these
  and what `New` and the caller hold make up what the call takes: a release gives back
  what is held, and a call that ends leaves each process with what its state says. The
  cleanup of a failed allocation gives back exactly what came before it in the list
  (`Upto`). While an exec copies its arguments the first of them have their buffers
  (`HasArgs`), and `PutKargv` lists exactly those (`KargThings`), however many there are.
* `MemoryExact`: the pages are divided among the free list, `kmalloc` and the things held
  (`PagesInv`), and the free list stays sorted and merged (`FreeInv`). That the
  assertions of `default_free_pages` hold rests on `Phases`: what is given back was held
  once. The lists that a call gives back in one step are followed by induction
  (`FreeAll`), and the recursive functions in these definitions exist by `Recursion` of
  `SequenceFacts`.
* `LinksExact`: `TreeInv` says that each process has a sequence of children with which
  `cptr`, `optr` and `yptr` agree (`Linked`, `Families`), that every parent is alive or
  is the caller that hands its children over (`Rooted`), and that parents rank
  below their children (`Ranked`). The list of the one that hands over is not whole: the
  `yptr` of its first child may name the child moved before. When the list of init is
  empty a process of least rank besides init would need a parent of
  lower rank, so there is none, and `proc_list` is init alone (`InitAlone`).

`MonitorProofs` proves `MonitorOK` and the refinement of `Hoare` for any threads,
condition variables and routines. `MonitorOK` speaks of the moments when a thread may
read the counters. What every step keeps (`MonInv`) says of each semaphore that its
queue holds exactly the threads that sleep on it, each once (`Queues`); of `mutex` that
its permit is free or with the one thread that owns the monitor, also while the
monitor is being handed over (`Permits`); and of the counters that they count the
threads asleep, those that have counted themselves and not yet called `down`, and one
that has been woken and not yet counted itself off (`Counts`).

`PhiProofs` reuses that. `PhiCondvar` is written with the actions of `Monitor`
(`KeepsProtocol`), so that `MonInv` holds of it without being proved again. What is
added says where in the monitor each philosopher is and what it shows the others
(`PhiInv`): one that comes back from `cond_wait` was made `EATING` before it was woken
(`WokenLate`). From it follow `WokenEats`, on which the `if` of `check_sync.c:193`
relies where a `while` would be usual, and the refinement of `Dining`, for any `N` of
at least three. The program with semaphores does not use the monitor and has an
invariant of its own, `SemaInv`, from which `QueuesOK`, `PermitsExact` and the same
refinement follow.

`FilesProofs` proves all five properties of `files`, for any finite set of inodes and
any processes, descriptors and geometry of the disk: `OpenExact`, `SpaceExact`,
`BlocksReach`, `Synced` and `RefsKept`. The invariant (`FilesInv`) has a part for the
disk and one for the counts, and ties them by one fact: a file nobody has open is not
dirty. `SpaceExact` is about a sum over all files, so the proof starts with sums: when
a function changes at one place, its sum changes by the difference there
(`SumsDiffer`, by induction on the subsets of a finite set). A call that touches one
inode then has to be looked at for that inode only.

`CppProofs` has three parts that share no state. The first proves `NoLostTask` for any
finite set of workers, any clients and any ring. It is about cardinalities: each step
changes the number of tasks and the number of workers on their way to the mutex by the
same amount, or nobody waits afterwards. Inductive with it is only `StartedOK`:
`thread_start_count` counts the workers that have not quit. From there `RingIsQueue`:
while no index has left the ring, `task_tail` is `task_count` entries beyond
`task_head` (`RingInv`), so that the ring is the sequence of `TaskQueue`, and the pool
implements it.

The second part proves, for any connections (infinitely many too), any number of
descriptors and whatever the clients send, `NoLostWakeup`, `FdsExact`, `EdgeKept` and
`NoLeak`. All follow from one invariant, `Inv`. They speak of a loop that waits, or of
tables that agree; what every step keeps is more:

* `Threads`: between its reading `wakeupFd_` and its taking the functors the loop owes
  them nothing, so only in the other places must a wake-up be under way for what
  is pending; and a connection is handed over once.
* `Descriptors`: open connections have different descriptors, and a table leads only to
  an open connection that has the descriptor. The main thread may reuse a number the
  moment the last pointer goes, so this needs `Place`.
* `Place`: an open connection is with the main thread, in one of the two lists of
  functors, or mapped and registered, and what it has of timers, buffers and events
  follows from which. It is the same statement as the absence of leaks, for every step.
* `Batch` and `Watch`: for each connection with an event in hand, what its handler has
  to do for the edge epoll will not repeat; for the others, that epoll looks for
  `lastEvents_` and has what there is to report in `ready`. The argument of `Stay` is
  that a change of `lastEvents_` makes epoll look again, and that without a change
  the handler has read until `EAGAIN`.

There is one lemma per step of the main thread and the loop; `EdgeInv` takes the
steps of the clients together, `RemoveInv` and `KeepsInv` the handlers that close and
that keep a connection.

The third part proves `AssertsHold` and `NoAlias` for any buffers, any limit
above one and any number of
lines. They need each other (`LogInv`): that there are two buffers to take follows from
which pointer is null (`Roles`: at most `nextBuffer_`, or one of the spare ones), that
they are different from `Apart`, which is `NoAlias` pair by pair, and that is kept
because an exchange moves pointers and copies none. `Append` and `Tail` on lists
without repetition are the lemmas of `SequenceFacts`.

`InterruptProofs` proves `ReadersOK` and the refinement of `TypeAhead` for any readers,
characters and ring that is not empty (`StdinAssumption`: there is a character, for the
entries of the ring that nobody has written). `ReadersOK` is inductive with the fact
that the positions are at most a round apart (`ReadersInv`); the entries between them
are then different ones, and the sequence read off the ring (`Between`) changes as a
queue does, the full ring included, whose newest entry is overwritten.

It also proves `ListOK` and the refinement of `Countdown` for any timers and times.
`ListOK` is inductive. What the list says about a timer is a sum over the differences
before it, so the proof is about sums: there is one function that is the sums of a list
(`SumsExist`, `SumsUnique`, by induction on its length), and for each of the three
operations the sums of the new list are given in closed form from the old ones
(`InsertFacts`, `DeleteFacts`, `NearerSums`, `CountFacts`). The walk of `add_timer` stops
behind a prefix of the list because sums do not decrease (`Grows`, `Initial`).

And it proves `HeapExact` and `LeastFirst` for any finite set of processes, any width
of the strides and any weights up to `BIG_STRIDE`. The invariant
(`StrideInv`) says what the pointers are rather than whom they reach: a tree (`Tree`) of
those who are ready, in which a child is found from one parent and every set that has
the root and is closed under children is the whole tree; and that no child comes
strictly before its parent (`Sorted`). Two trees with nobody in common are merged into one
(`MergeFacts`): a call takes the root of one off (`Split`), merges the rest, and hangs the
result back under the root (`Join`), and the induction is on the number of calls left,
since each passes on one process less (`CallMerges`, `CallsMerge`). `Sorted` is about a
parent and its child only, and holds whatever the strides are; two things follow from it.
If somebody is a minimum, everybody between it and the root has its stride
(`RootLeast`), so the root is one too (`MinimumFirst`). And while all strides lie within
`BIG_STRIDE` of one (`From`), the comparison is a total order (`LessIs`), so the root is the minimum
(`RootFirst`); picking it keeps that window, since the new window starts at the stride it
had and a pass is at most `BIG_STRIDE` (`PassIs`, `ChoiceKeeps`). Together they are
`LeastFirst`.

The library's induction theorems have an operator as a parameter and cannot be used
with this prover. Where a proof needs induction, it is over a set: a set of natural
numbers with 0 and every successor is all of them (`Induction` of `SequenceFacts`), from
the well-foundedness of `<`.

Only model-checked: all liveness (TLAPS has no fairness rules here). Every invariant of
every passing run, every action property and every refinement is proved. `WebServer` and
`AsyncLogging` are proved about and have no run.

## Not modelled

* In the kernel: page faults and swapping, the directories and the mounting of file
  systems, descriptors of devices other than stdin, port I/O, console output, the
  debugger, boot. They are straight-line code or keep no state of their own.
* `src/C++/06ucore/labcodes*` and `lcore-master`: seven earlier states of the same
  kernel, the skeletons of the exercises, and an annotated copy by others. Their
  functions are those of `lab8_result`, which is modelled, or earlier versions of them.
* In the web server: the text of requests and responses, requests with a body (`POST`,
  whose body `handleRead` waits for), `LogFile` and `LogStream`,
  starting and quitting loops (it never quits), several loops at once, liveness, whether
  each line reaches the file once and in order, and its six older versions.
* `src/Linux/WebServer-master`, `src/Linux/mybase-master`, `03web_server/.../WebBench`:
  copies of projects of other authors.
* Notes, SQL and solutions of programming exercises, each a function of a few lines.
* The other exercises in C++ (a list of timers, an allocator, a wrapper of threads, a
  lookup table): sequential, and small enough for the tests they have.

The modelled part is therefore a small share of the lines of the repository and
most of the logic that is its own.

## Plan

1. Done: the modules above.
2. Done: the safety properties of every passing run, proved for
   every value of the constants.
3. Page faults in `ProcTable`: a stack that grows, and a process that dies because
   it cannot.
