# A model of the programs of KW-Univ

The repository collects the programs of a university course of study. They are
separate programs, not one system. This directory models those in which
something overlaps, fails, waits or is rewritten while it runs:

* the caching web proxy of the system programming assignments (`시스템
  프로그래밍/Proxy 2-1` to `Proxy 3-2`): a tree of processes that accept on one
  socket, share a cache and a log on disk, and in its last two forms a System V
  semaphore and a thread;
* the uC/OS-II tasks and the device drivers of `임베디드 SW`;
* the kernel modules and the recompiling program of `운영체제`.

TLC checks each on small instances; TLAPS proves every safety property that the
passing runs check, for every value of the constants.

Contents: [Inventory](#inventory) · [Hard behaviours](#hard-behaviours) ·
[Modules](#modules) · [The proxies](#the-proxies) ·
[uC/OS-II](#the-ucos-ii-exercises) · [Drivers](#device-drivers) ·
[Hooks](#hooking-modules) · [Recompilation](#recompilation) · [Runs](#runs) ·
[Bounds](#bounds) · [Fairness](#fairness-and-the-environment) ·
[Proofs](#proofs) · [Not modelled](#not-modelled)

## Inventory

| part | files | state | operations | correct when |
|---|---|---|---|---|
| process tree of the proxies | `main` and the handlers of `proxy_cache.c` | processes, their parents, the listening socket, the descriptor of a connection, pending SIGCHLD | accept, fork, close, `chld_handler`, `int_handler` | zombies are reaped, one server for a connection, no descriptor forgotten |
| semaphore | `p`, `v`, `semget`, `semctl` of 3-1 and 3-2 | value, undo of each process | SETVAL, -1, +1, undo at exit | one process in the critical zone, nobody waits for a dead one |
| `check_url` | `check_url.c` | `~/cache`, `~/logfile/logfile.txt`, the stdio buffer of the caller | scan, mkdir, creat, lookup, store, fclose | a URL is a MISS once and then a Hit, no line of the log is lost |
| service of a request | the block `pid == 0` | the buffer `url`, the connection to the origin, the alarm | read, connect, `check_url`, send, relay | works on its own request, alone in the zone |
| thread of 3-2 | `thread_routine`, `pthread_create`, `pthread_join` | the buffer `url`, shared with the main thread | `check_url` | runs inside the zone, looks the requested URL up |
| earlier proxies | 2-1 (with `test.c`, `test2.c`), 2-2, 2-3, 2-4 | as above, without a lock | as above | what can hold without a lock |
| memory partitions | `임베디드 SW/memory_management` | free blocks, queue, semaphore | get, post, pend, put | no block lost or used twice |
| message queue | `임베디드 SW/message_queue` | queue of pointers, task buffers | post, pend | what is logged is what was posted |
| semaphore tasks | `임베디드 SW/semaphore` | one file | open, write, close | open and close lines pair up (sm2) |
| device drivers and their programs | `임베디드 SW/device_driver` | usage flags, mappings, registers | insmod, rmmod, open, calls, release | an open device stays mapped, displays show what was written |
| hooking modules | `ftrace_hooking`, `assignment3/process_tracer.c`, `file_varea/4-1` | the table of system calls, counters, traced pid | insmod, rmmod, hooked calls | hooks nest, the counters are those of one process |
| recompilation | `file_varea/4-2` | a shared page of code | fill, merge, call | the rewritten function gives the same result |
| sums | `assignment1` | number file | fork, wait, lock, add | the sum of the numbers |
| observers | `소프트웨어 공학` | list of observers | attach, detach, notify | each attached observer is told |
| Java exercises | `소프트웨어 프로젝트` | none | pure functions | the reference function |

`컴퓨터 구조`, `컴퓨터 네트워크` and the proxies 1-1 to 1-3 hold circuits, dumps,
captures, archives and reports: no program text to model.

## Hard behaviours

The list with its lines is in `PROJECT.json` under `hazards`. In short:

* *Proxies.* SIGCHLDs merge while a handler runs; `accept` or `fork` fails and
  the loop goes on; a child ends inside the critical zone in one of four ways
  (crash, SIGINT with its flush of stdio, SIGKILL, a failed `socket`), each of
  which leaves other things on disk; a second launch touches the semaphore before
  it notices the first; the scan of the home directory is stale when `creat` acts
  on it; `mkdir` and `creat` are two steps; `semop` is the one call a handler
  would break; the thread of 3-2 starts before its input exists.
* *uC/OS-II.* Pointers to buffers travel through a queue while the buffers may be
  written again; the log task counts once and takes later; delays may be zero.
* *Drivers.* A usage flag is tested and set around a call that may sleep and may
  fail, which nobody asks; the controller of the LCD is left in any mode.
* *Hooks.* Three modules read and patch one entry of a table without a lock and
  restore what they found; the first to leave makes the page read-only for the
  others. A hook tests the pid before it counts, and the traced pid may change.
* *Recompilation.* The code is read and written in the same page.

## Modules

| module | models | notes |
|---|---|---|
| `Processes` | | the constant `Procs` |
| `Acceptors` | process tree | shared by all proxies |
| `SemUndo` | semaphore | operators conjoined into other modules' actions |
| `CheckUrl` | `check_url` | one action per call on the file system |
| `AtomicCache` | what `check_url` promises, and what a failure may cost | `Proxy31!ImplementsCache` is the refinement |
| `Proxy31` | proxy 3-1 | `Acceptors`, `SemUndo` and `CheckUrl` composed |
| `Proxy32` | proxy 3-2 | the same with a thread and a shared buffer |
| `Proxies2` | proxies 2-1 to 2-4, `test.c`, `test2.c` | `Acceptors` and `CheckUrl`, no semaphore |
| `UcosKernel` | services of uC/OS-II | external, from how the tasks use them |
| `Ucos` | mm1, mm2, mq1 (= mq2), sm1, sm2 | `program` says which is loaded |
| `Lcd` | the LCD controller and the routines of `textlcd.c` | functions on its state |
| `Drivers` | `led.c`, `7segment_dd.c`, `textlcd.c`, `module2.c`, `lcd.c`, `7segment.c` | |
| `Hooks` | `ftracehooking.c`, `iotracehooking.c`, `process_tracer.c`, `file_varea.c`, `test.c` | |
| `Recompile` | `D_recompile.c`, `D_recompile_test.c` | the processor is external |
| `MC...` | | digests, functions and symmetries for TLC |
| `ProxyPartsProofs` | | theorems about `Acceptors`, lemmas about `CheckUrl`, for all proxies |
| `Proxy31Proofs`, `Proxy32Proofs`, `Proxies2Proofs`, `UcosProofs`, `DriversProofs`, `HooksProofs`, `RecompileProofs` | | theorems about the module of that name |

Definitions marked "Variant" are not part of a specification. They are
deliberately wrong forms of the definition that follows them, kept to show that
a property notices the error.

## The proxies

How the parts meet. A launched process sets the semaphore, binds the port and
loops. For each connection it forks; the child inherits the listening socket and
the descriptor, takes the semaphore, runs `check_url` on the shared directories,
gives the semaphore back, talks to the origin, and then **falls through to the
same loop**: there is no exit at the end of the block, so each connection adds
one acceptor. Ends of children reach their parents as SIGCHLD. `check_url` and
the semaphore are the only state that processes share.

* **Processes.** `life[p]` is the position in `main` (`boot`, `accept`, `fork`,
  `serve`, `close`) or the end (`zombie`, `gone`). `Fork(p, q)` gives the child a
  fresh `q`; identifiers are not used twice. `EndOf` is what the kernel does at
  any exit: descriptors closed, children given to init (`NoProc`), SIGCHLD to a
  parent that lives. A process the proxy did not fork leaves no zombie the proxy
  could see.
* **Signals.** `sigchld` is the pending bit and `handling` the handler: signals
  do not queue, and SIGCHLD is blocked in its own handler. SIGINT and SIGKILL
  may come at any point, in a handler too (`Die`). `signal()` of glibc sets
  SA_RESTART, so that accept, read and recv go on after a handler; semop does
  not, which is why `SemNeverInterrupted` matters.
* **The listening socket.** After a failed accept the process closes it and goes
  on: accept fails from then on, and each failure forks a child that has no
  connection. `NoConn` as a descriptor stands for that. When the last holder
  closes the socket the kernel resets the connections in its queue.
* **Semaphore.** `p()` is `SemP`, `v()` is `SemV`, SETVAL is `SemSet`, the
  kernel's undo is `SemExit`.
* **Disk.** A URL stands for its digest: SHA-1 is taken to be injective, and
  `DirOf` maps a digest to its first three digits, which may collide. `first[d]`
  is the first name of three characters or more that `readdir` gives; a new name
  may come before or after it.
* **The log.** `line[p]` is the stdio buffer. `fclose` and `exit` write it
  (`Flush`); a crash or SIGKILL loses it. The line of a MISS is in the buffer
  before the file is stored. The two lines of a Hit count as one. The routines
  of 2-1 and 2-3 print a further line, `[Terminated]`, which is left out.
* **check_url's counters** are absent: `*hit_cnt++` moves the pointer, and
  nothing reads the numbers.
* **Crash.** A request without the expected tokens makes `strtok` return NULL,
  `get_ip_handler` returns an unset pointer for an unknown host, and a directory
  without a file makes `readdir` return NULL. Each may crash the child, and
  `Crash` says so at these three steps; for the unset pointer both outcomes are
  in the model.
* **3-2.** `stage` is the counter of the main thread and `step` that of the
  thread that runs `check_url`; the copy into `url` has a beginning and an end,
  and a lookup between them reads `Torn`. When `pthread_create` fails (lines 137
  and 138, only reported) there is no thread, and `pthread_join` of the unset
  identifier may return or crash (`CreateThread`, `Crash`).
* **The programs of assignment 2** differ in `main` and in how they open the log,
  and are the disjuncts `main21` to `mainTest2` of one next-state relation. 2-1
  runs `check_url` before it looks for the host, and 2-4 after; 2-3 opens the log
  with `w+`, so that each request empties it and `fclose` writes from the start of
  the file over what others wrote meanwhile: over whole entries, or up to somewhere
  inside one, of which the end stays (`CloseOverwriting`, `Rest`). 2-2 leaves its loop after one fork and has the call of `check_url`
  commented out (its `check_url.c` is dead code); `test.c` has a routine of its
  own, `getUrl`, that compares every name of the subdirectory, and children that
  exit.

The alarm of 10 seconds is set, and a read of the origin made, before the request
is sent, so it may print "No Response" for a request the origin never got.
`Proxy31` has the alarm, because it could interrupt `semop`; what it prints
changes no state.

## The uC/OS-II exercises

A task is named by its priority, and only the first ready task takes steps
(`Running`); `ClockTick` ends the delay of any delayed task, so delays of all
lengths are covered. `pc[t]` is the next call; a task that waits has its pc
behind the call, as the kernel gives it the semaphore or lets it take the
message.

* `text[b]` and the number in a message tell whether a buffer still holds what
  it did when it was posted. In mm2 the buffers are blocks of the partition, and
  what is posted is what the sender wrote. In mq1 there is one, `TaskStk`: lines
  72 and 73 create both tasks with the same stack, so that their arrays `msg` are
  at the same place, and a task that is preempted between its `sprintf` and its
  `OSQPost` posts what the other wrote (`Local`). The tasks share the rest of the
  stack too, and the address given for it lies outside the array `TaskStk`; what
  they overwrite of each other's frames and saved registers is not modelled.
* `OSMemGet` may give NULL, and `sprintf` writes through it: what that does is
  undefined, and `PrintBlock` stops there. `OSQPost` of a full queue is not
  checked in mm2 and is tried again in mq1.
* A delay may be zero, when `(INT8U)(rand() % 300) + 1` wraps (mm2), and in sm1
  and sm2, whose `sleep` is never assigned.
* The layout of memory is not modelled: mm2 makes a partition of a hundred blocks
  of ten bytes in an array of a hundred bytes, and mq1 prints more than ten bytes
  into `msg[10]`. The clock is bounded: below 10000 ticks the line of mm2 has ten
  bytes with its null byte, from then on eleven, and the last is written over the
  first byte of the next block, be it text or a link of the free list.

## Device drivers

A process is the sequence of calls it still has to make (`todo`). The kernel
calls `open` under its one lock and gives the lock up if `ioremap` sleeps, so that
`open` is two steps: the test of the usage flag (`OpenTest`) and the rest
(`OpenMap`). Two opens can pass the test, and the second then loses the first
mapping; nothing in the repository says what is meant in that case. `raced` and
`lost` are history: whether an open has found another one between its test and its
setting since no process was last inside a driver, and which addresses were still
mapped when the last such overlap ended. The properties about mappings and
displays hold while `~raced`, which is again so when the processes that overlapped
have left.

`ioremap` may also fail, at any call, and no driver looks. The LED and the display
are then open, with `NoAddress`, and fault at the first write (`Reaches`);
`textlcd_open` is killed in its own `initialize_textlcd` (`OpenDie`): the process is
`dead`, the flag stays set and nothing is ever released, so that all later opens
get EBUSY and the module cannot be removed. `module2.c` names `sample_cleanup` in a
second `module_init` and has no `module_exit`: it does not link as it stands, and
in the model it is inserted and never removed.

`Lcd` is the controller with its modes: text,
address, direction, scrolling, shift, lines. Other programs may leave it in any
mode; `open` must bring it back to one in which `lcd.c` works. The unsigned
counter of the seven segment display keeps its width (`Word`), and a digit that of
the `char` `Getsegmentcode` takes; `Weight` are the divisors of `segment_write`, 1
to 100000. Each driver's operations (`led_fops` and so on) are those of its
`file_operations`, and each program's calls those of its `main`: `lcdCalls`,
`CountProgram`, `MapPrograms`, `SampleProgram`. `7segment.c` maps the display,
which its driver does not offer; `addr < 0` is never true, and the program
crashes at its first write, whatever codes `Getsegcode` has found for the digits.

## Hooking modules

An entry of the table names the module whose function it points to. Each read of
the table and each write to it, and each change of its page from read-only to
writable and back, is a step, and the modules' steps interleave: two insertions
can save the same entry (`InitSave`, `InitHook`). A write to the read-only page
faults and leaves the module `stuck`. `order` and `disordered` are history: which
hooks were put in which order, and whether one replaced another entry than the one
it had saved or was removed although it was not the newest. Either leaves entries
that lead past a module or into one that is gone; a call through the latter is
`Dangling`.

A hook of iotrace compares the pid, reads the counter and writes it, in three
steps without a lock (`TestCall`, `LoadCall`, `StoreCall`), and another process
may become the traced one between any two: the call is then added to a counter
that is no longer its own, or sets it back. `base`, `missed` and `crossed` are
history: the counters when the trace began, the calls of the traced process that
met no hook since (iotrace hooks and unhooks its five calls one by one), and the
calls in whose hooks others were at that moment. A process that is in a hook when
iotrace is removed is `lost`, and the next instruction kills it (`LostCall`); on a
kernel that waits for it, it finishes first, which the model has too. The function
of call 336 itself is one step, so a hooker removed while a process is inside is
not modelled. iotrace needs the symbols of a live ftrace, so it is not inserted
after ftrace is stuck (`IoInit`). `process_tracer` prints
the list of children under the title of siblings (line 113), and `file_varea`
called with pid 0 follows a null pointer; neither changes the state of others.

## Recompilation

Code is a page of bytes. `Fill` is the test program. The two loops of
`drecompile` go one iteration at a time: `BeginRun`, `ContinueRun` and `EndRun`
make one instruction of a run of `add`/`sub`, of `imul` or of `div`, `CopyByte`
copies any other byte, in the same page; `tmp` and `dl_val` are bytes and wrap.
`Execute` is the processor, on the instructions `Operation` consists of; `div`
leaves the remainder in `ah` and faults on overflow. `eax` is not cut to 32 bits:
all that is done with it can be done modulo 2^32, so that what is equal here is
equal there. `Run` and `Meaning` are the reference:
what the instructions compute as they are written. `SameResult` says that the code
that is called computes the same, whether it was merged or not.

Merging does not keep the result of every function. `Mergeable` names those for
which it must, and TLC finds a counterexample when one of its conditions is left
out:

* `add` and `sub` next to each other have the same first byte, and would be merged
  as if both were the last one;
* a sum wraps in a byte and is sign extended, a product too;
* `drecompile` looks at the operand of `mov dl` as at an instruction, so that 107
  would begin a run of `imul`;
* the operand of `mov dl` is patched where it was read, so that no run may have been
  merged before it;
* there is one operand for all the runs of divisions behind it, so that they must
  have the same value;
* a division that leaves a remainder leaves it in `ah`, where the next one takes it
  for a part of its dividend.

`Operation` as it stands is `Mergeable` for the argument 1: 1062 instructions in
3125 bytes, with immediates up to 3 and runs of two exact divisions by 2.

## Runs

| run | asks | result |
|---|---|---|
| `Proxy31_safe` | empty home directory, two requests that overlap, one failure at any point: critical zone, log, MISS and Hit, semop | holds |
| `Proxy31_cache` | two requests for URLs in one subdirectory, two failures at any points: is `check_url` atomic, and what may be lost? | implements `AtomicCache` |
| `Proxy31_live` | one failure at any point, in the zone too: is a zombie forgotten, has a connection two servers, is everything reaped and closed in the end? | holds |
| `Proxy32_zone` | does the thread of 3-2 stay inside the zone, whoever ends and when? | holds |
| `Proxies2_race` | no semaphore, six programs, all requests overlap: what remains true of the log, the cache and the acceptors? | holds |
| `Ucos_tasks` | five exercises with three tasks each, any delays: blocks, texts, file | holds |
| `Drivers_safe` | drivers come and go while two programs open and use their devices | holds |
| `Hooks_safe` | modules come and go while two processes run `test.c` | holds |
| `Recompile_all` | all functions of up to four instructions: same result, in place, ends? | holds |
| `Proxy31_second_launch` | `MutualExclusion` with a second launch | violated: SETVAL comes before bind |
| `Proxy31_collision` | `MissedOnce` when digests share three digits | violated: only the first name is compared |
| `Proxy32_url` | `LoggedIsRequested` | violated: the thread starts before the URL is read |

What the properties say:

* `NoLostZombie`, `ZombiesReaped`: the loop in `chld_handler` copes with merged
  signals. A single `waitpid` would not.
* `OneServer`, `AcceptedClosed`: the double close of `cli_fd` (lines 190 and
  193) and the paths of failure leave no descriptor behind.
* `MutualExclusion`: the undo gives the semaphore back exactly when its holder
  ends. If only one of `p` and `v` had SEM_UNDO, the count would be wrong at the
  end of every child.
* `MissedOnce`, `HitAfterMiss`: relate the log to itself over time. A failure
  between the line and the file costs one MISS more, hence `1 + faults`.
* `LookupFindsEntry`, `EmptyOnlyWhileFilled`: the window between `mkdir` and
  `creat`, closed by the semaphore in 3-1 and open in assignment 2.
* `LogAppendOnly`, `LogSettles`: no line that reached the file is lost; without a
  semaphore only after the home directory has settled. While it is new, the
  slower of two first requests of 2-4 empties the log of the faster one.
* `ImplementsCache`: the line of a call enters the abstract log at the step that
  finds or stores the file, and the file when `fclose` writes it. An interrupt
  before the store writes the line of a MISS without a file (`LoseFile`), a kill
  after it leaves a file without a line (`LoseLine`); every failure counts one of
  the two at most, and a request that comes later is answered as if nothing else
  had happened, or crashes on a subdirectory that was left empty.
* `ThreadsExclusive`: in 3-2 the join comes before `v()`.
* `HitStored`, `OneAcceptor`: a Hit of any version has its file; 2-2 and `test.c`
  never have two acceptors.
* `BlocksConserved`, `TextKept`, `LogNeverWaits`, `FileExclusive`: see the proofs.
* `MappedWhileOpen`: a device is open once, what its driver writes through is
  mapped and its own, and addresses are lost to overlapping opens only.
  `TextShown`: whatever mode others left, `lcd.c` shows its text, on two lines.
  `CountReadable`: the digits are those of the number counted, if the display has
  digits for it.
* `ChainSound`: hooks put over the entry they saved and removed in reverse order
  give each entry back, to the kernel's own. `CountsOwnCalls`: the counters have
  grown by the hooked calls of the traced process, except those that are crossed.
* `SameResult`, `InPlace`, `ScanEnds`: unmerged and mergeable functions keep their
  result; the
  index written never passes the index read; the loop ends on every page.

Each property has a mutant in `PROJECT.json`, a plausible error in the code that
breaks it. The three violations are listed under `findings` with the text of the
program they contradict.

## Bounds

Every run names its constants in its `.cfg`.

* `Procs`: one or two processes the shell may launch, two or three children. Two
  children are enough for two holders of anything and for a parent that reaps
  two; the third (`Proxy31_collision`) is needed for a lookup
  after two stores. A full table makes fork fail, so the bound on processes is
  itself a behaviour of the program.
* `Conns`: as many as children, or fewer.
* `MaxFaults`: one failed call, interrupt or kill in a behaviour; two in
  `Proxy31_cache`, which is one for each of its requests. Crashes of the child's
  own making are not counted.
* `Urls`: at most two and the empty one, which requests of another method have;
  `Torn` is a half-copied one (3-2). `Dirs`: one for each URL (`OwnDir`), or one
  for all (`SharedDir`). `HomeDirs`: empty, `cache`, or both, the states in which
  a proxy is launched.
* `Ucos_tasks`: three tasks (a log task and two others of different priority, as
  in the programs), two blocks, a queue of two, so that it fills and runs empty;
  texts are numbered modulo 3, one more than can be under way.
* `Drivers_safe`: two processes, three addresses (two may be lost to overlaps
  before only failing calls are left), one board at a time (the drivers
  of different boards share nothing), displays of three cells and two digits, in
  radix 4 instead of 10, a word of 32 instead of 2^32 that the largest number still
  wraps.
* `Hooks_safe`: two processes, three insertions, so that all three hookers can
  nest, overlap, and one can come back in two; the calls of `test.c` around its
  loop, four of the five that iotrace hooks, and no round of the loop itself.
* `Recompile_all`: nine instructions, small and large operands, so that sums and
  products wrap, and functions of up to four, so that two runs can follow each
  other; a page of 16 bytes, of which the longest function fills 13.

Deadlock is not checked: connections, insertions and calls are finitely many, and
in the end everybody waits for the next one.

Symmetry is used in runs without liveness only, for children, connections,
launches and users. `Urls` are not permuted because of `NoUrl` and `Torn`.

## Fairness and the environment

`Proxy31!FairSpec`: weak fairness, for each process, of its loop in `main`, of the
steps of its service and of its handler: the scheduler runs what can run, and the
kernel delivers pending signals. Strong fairness of `EnterZone`: Linux serves the
waiters of a semaphore in order, so that one who waits is not passed over for
ever. Interrupts, kills, launches and new connections have no fairness.

Weak fairness of `Serve` includes `ReadRequest` and `Relay`: a client that has
connected sends something or hangs up, and an origin ends its connection at some
time. The program has no timeout for either, and a silent client in fact stops
all others, since it holds the semaphore; the liveness properties are stated
under that assumption and do not hide it.

`Recompile!Spec`: weak fairness of `drecompile`, a loop that nothing interrupts.

## Proofs

Eight modules are checked to the last leaf, for all values of the constants that
satisfy the named assumptions of the modules. Most of these say what kind of thing
a constant is. Two say more: `DriversAssumption`, that the texts of `lcd.c` fit
their lines and that each divisor of `segment_write` is `Radix` times the one
before it, with a radix that `Getsegmentcode` has digits for; and
`RecompileAssumption`, that a function consists of the six instructions of
`Operation` with immediates up to 127, and is shorter than the page. Some
theorems have a hypothesis of their own:

| hypothesis | meaning | why |
|---|---|---|
| `OneRoot` | the proxy is launched once | `Proxy31_second_launch` shows it is needed |
| `OwnDirs` | no two URLs share three digits | `Proxy31_collision` shows it is needed |
| `BlocksFit` | blocks are distinct, no more than queue entries | 100 and 100 in mm2; `OSQPost` on a full queue would lose a block |
| `LogFirst` | the log task has the first priority | 0 against 10 and 20 in mm2; else a text is written again before it is logged |

**Process tree** (`ProxyPartsProofs`). `NoLostZombie` and `OneServer` are not
inductive. `AcceptInv` adds `ParentsInLoop`: only a process in the loop has
children, so the parent that a dying child signals lives; and `UntakenUnheld`:
nobody holds a connection that was not accepted. Theorems:
`ZombiesRemembered`, `OneServerEach`.

**Refinement of the tree** (`Proxy31Proofs`, `Proxy32Proofs`).
`ImplementsAcceptors`: each step of the proxy is a step of the tree or leaves it
alone. The theorems about the tree hold of both proxies by this.

**Types.** `Typed` needs `BufferFull`: there is a line in the buffer wherever
`fclose` or `exit` may write it.

**Critical zone** (`ZoneExclusive`, and `ThreadsApart` for 3-2). `ZoneInv` ties
the semaphore to the program counters: a process in the zone owes 1, everybody
else 0, and while someone is there the value is 0. So the undo of an end restores
1 exactly when the process was in the zone (`EndsZone`), and a launch, which comes
before every other step (`LaunchFirst`), finds nobody there. In 3-2 the thread is
inside because its process is between `p()` and the join.

**Signals** (`SemopUninterrupted`). `SignalInv`: before its service a child has
forked nobody and set no alarm, and signals and alarms are not inherited.
`ParentsInLoop` gives the rest; `OneRoot` is not needed.

**Log** (`LogKept`, for 3-1 and 3-2). `LogInv`: what the scan saw of `~/logfile` is
still so when `check_url` acts on it, and `creat` meets an empty log. A step of
another process would break this; `ZoneInv` says there is none.

**Cache** (`Proxy31Proofs`). `CacheInv`: what a call found in its subdirectory
is still so when it stores its file, whoever died before. `NextCache` maps each
step of the proxy to a step of `AtomicCache` or to a stutter: the lookup that
finds and the store to a request, an interrupt before the store to `LoseFile`
(`InterruptCache`), a kill before `fclose` to `LoseLine` (`KillCache`).
`CacheImplemented` is the refinement. Two facts hold only while nothing fails
(`WhileSound`): only the call that has just made a subdirectory leaves it empty
(`Filling`), since who dies between `mkdir` and `creat` leaves it empty for good,
which gives `LookupsFind`; and `HistoryInv`, proved of the abstract steps, which
gives `HitsMissed`.
`MissesBounded` counts with failures: a URL that no lookup finds yet, and one
whose line is still in a buffer, was a MISS at most once for each failure
(`MissInv`), so that one more keeps within `1 + faults`.

**uC/OS-II** (`UcosProofs`). `SemInv`: the count of the semaphore and the tasks
inside it add up to what `main` gave; `FileExclusive` follows with `Inside`, and
that `OSMemGet` of mm1 never finds the list empty (`GetFinds`). `LogInv`: nobody
else takes messages, so the count LogTask took is covered by the queue, and it
never waits in its round. `BlockInv`: each block occurs once among free list,
queue and hands, and the numbers add up, so that a post never finds the queue
full. `IntactInv`, with `AwakeInv` for mq1: a text that is posted is not written
until it is logged; in mm2 because its block is in one place, in mq1 because the
log task is ready whenever the queue is not empty, and first.

**Hooks** (`HooksProofs`). `OrderInv`: `order` has each module once and those that
are in; with it `ChainSound` is inductive. `InsideInv` says that who is between
the test of its pid and the write of the counter is the traced process or at a
crossed call, and that the traced one, at a call that is not crossed, has read
what the counter still is; this makes `CountsOwnCalls` inductive.

**Assignment 2** (`Proxies2Proofs`). The six programs are one next-state relation,
so `NextKinds` sorts its steps by what they do to the disk: a fork, a read, a step
of the lookup, a return, an end. `StepsInBlock` and `BufferFull` give the types.
`MadeUnseen`: who is about to create `~/logfile` or the file in it saw neither, so
once all such calls are past, nobody empties the log (`LogSettled`). `HitInv`:
`first` names a file with a digest of its subdirectory, a file once stored stays,
and a buffered Hit has one (`HitsStored`). `FillInv`: a directory without a file
has a process between `mkdir` and `creat`, as long as nothing fails
(`EmptyFilled`). `TurnInv`: the place in main's loop of 2-2 is handed from parent
to child and never held twice, because the parent has left the loop when the child
comes to it, and in `test.c` only the root ever loops (`AcceptorsAlternate`).

**Drivers** (`DriversProofs`). `OwnInv`: without an overlap one process is inside the
driver of a device, and the live mappings are those of the processes that have one
open, one each, and the lost ones. An open that overlaps makes `raced` true at its
test; when it becomes false again nobody is inside a driver and what is mapped is
what is lost (`Recovered`), so that the invariant starts anew (`MappedKept`).
`TypeInv` adds what a user of the LCD has still to call (`ToldInv`).
`TextInv` is the proof that `lcd.c` works: after n of its calls (`Remaining`)
the display is as `AfterCalls` says, whatever mode `open` found; it needs `OwnInv`,
for nobody else may call the LCD in between. `CallsInv` ties the codes on the
seven segment display to the count; that no other number has the same codes is
`CodesDetermine`: the digits below a place and the digit at it determine the
number modulo the next divisor (`RestOfMultiple`). This is an induction over the
digits, written as the choice of a least digit that differs (`LeastNatural`).

**Recompilation** (`RecompileProofs`). `InPlace` is strengthened by `Room`: within a
run, either another instruction of it is next, or the index read is already far
enough ahead for what the run becomes. `Ahead` adds that the operand of the last
`mov dl`, which a merged division patches, lies behind the index read. So no byte
is written that is still to be read (`ReadUnchanged`), nor one outside the page
(`Typed`).

`ResultKept` (`SameResult`) compares the merged code with the function, for
functions of any length. `J` are the instructions that are joined to the one before
them (none, if nothing is merged). `Layout` says where in the page the run of each
instruction comes to lie, and `Value` what its sum or product is, so that `Written`
can say what the page holds when the first n instructions are done. The invariant
`Kept` is a disjunction over the stages of the two programs: `Scanned` and `Merging`
relate `i`, `j`, `tmp`, `dl_val` and `dl_reg` to the instruction the loop is at;
`Called` and `Reached` relate `ip`, `eax` and `dl` of the processor to the
instruction it is behind, in the merged code and in the function at once. It needs
`Inv` for the bytes that are still to be read. The arithmetic is in `RunDid`: a
run does at once what its instructions do one after another, for divisions by
`DividedTwice`, that dividing by x and then by y is dividing by their product if
nothing is left over. `Doomed` is the case of a function in which a division comes
before any move to `dl`: it faults, merged or not, whatever was computed before.

What is defined by recursion over the instructions (`Compiled`, `Run`, `Value`,
`Layout`) is a recursive function, which `Recursion` shows to exist; induction over
the instructions is `Induction`, on a set of naturals, by `LeastNatural`.

Only model-checked: liveness (`ZombiesReaped`, `AcceptedClosed`, `ScanEnds`),
for which ENABLED would be needed, is out of the prover's reach. So is the
refutation by the three runs that expect a violation.

## Not modelled

* The bytes of requests, answers, files and log lines, and times of day.
* Descriptors that `check_url` and the service never close (the home directory,
  both `creat`s, the socket). A child serves once, so each process leaks a fixed
  number.
* Failures of `opendir` and `fopen`, full disks, and the removal of the
  directories while the proxy runs.
* The value `is_hit` after `pthread_join` in 3-2, which receives an address: the
  child treats a Hit as a MISS, and `Answer` covers both.
* `assignment1`: `fork.c` runs its children one after the other and gets eight
  bits of each sum by exit status; the threads of `thread.c` take turns by a
  mutex. Nothing overlaps in either but the mutex.
* `assignment2` measures times of readers under scheduling policies and keeps no
  state.
* The kernel files `assignment3/fork.c` and `sched.h` (4556 lines, nearly half of
  the repository's C): Linux, with one counter of forks added, which
  `process_tracer` prints.
* `mmap.c` writes the LED through `/dev/mem` without the driver, `module1.c` only
  prints, `iosystem.c` is a fragment of the kernel.
* Observers and the Java exercises: single threaded, nothing fails or waits.
* Exercises that do not compile as they stand are modelled as they are plainly
  meant: `Proxy 2-1/test.c` lacks a comma in line 172, and `lcd.c` and `textlcd.c`
  misspell names (`wellcom`, `cusrsor_shit`).
