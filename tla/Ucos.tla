-------------------------------- MODULE Ucos --------------------------------
(***************************************************************************)
(* The exercises on uC/OS-II: mm1.c and mm2.c (memory partitions), mq1.c   *)
(* (message queue; mq2_important.c is the same text), sm1.c and sm2.c      *)
(* (tasks that share a file, without and with a semaphore).                *)
(*                                                                         *)
(* program says which is loaded.  pc[t] is the program counter of a task,  *)
(* and a task that waits or is delayed has its pc behind the call.  A      *)
(* buffer is a block of the partition (mm2) or the local array msg of mq1, *)
(* which is one for all tasks, as main gives them the same stack; text[b]  *)
(* is the number of the text last written into it, modulo Texts, and a     *)
(* message carries the number the text had when it was posted.             *)
(*                                                                         *)
(* Two bounds: the clock is below 10000 ticks, so that what mm2 prints     *)
(* fits into its block of ten bytes (a digit more, and the null byte is    *)
(* written into the next block), and in mq1 what the tasks overwrite of    *)
(* each other on their stack is nothing but msg.                           *)
(***************************************************************************)
EXTENDS UcosKernel

CONSTANTS
  LogTask,    \* the task of mm2 and mq1 that writes the log
  Programs,   \* the exercises a run considers
  Texts,      \* bound on the numbers of texts
  TaskStk     \* the array msg on the stack of the tasks of mq1

ASSUME UcosAssumption ==
  /\ LogTask \in Tasks
  /\ Programs \subseteq {"mm1", "mm2", "mq1", "sm1", "sm2"}
  /\ Texts \in Nat \ {0}
  /\ TaskStk \notin BlockSet \cup {Null}

VARIABLES
  program,
  pc,
  held,     \* msg or pblock of each task
  text,     \* what is written in each buffer
  count,    \* messages LogTask of mm2 has still to take in this round
  opened    \* tasks whose "file open" has no "file close" in result.txt yet

taskVars == <<program, pc, held, text, count, opened>>

vars == <<kernelVars, taskVars>>

Buffers == BlockSet \cup {TaskStk}

Messages == [buf : Buffers, number : 0..(Texts - 1)]

NoMessage == [buf |-> Null, number |-> 0]

Steps == {"pend", "get", "put", "post", "print", "qpost", "delay", "query",
          "qpend", "log", "sleep", "open", "between", "close", "after"}

TypeOK ==
  /\ ready \subseteq Tasks /\ delayed \subseteq Tasks
  /\ semWait \subseteq Tasks /\ qWait \subseteq Tasks
  /\ sem \in Nat
  /\ queue \in Seq(Messages)
  /\ Len(queue) <= QSize
  /\ free \in Seq(BlockSet)
  /\ program \in Programs
  /\ pc \in [Tasks -> Steps]
  /\ held \in [Tasks -> Messages \cup {NoMessage}]
  /\ text \in [Buffers -> 0..(Texts - 1)]
  /\ count \in 0..QSize
  /\ opened \subseteq Tasks

\* The first step of each task.
Entry(prog, t) ==
  CASE prog = "mm1" -> "pend"
    [] prog = "mm2" -> IF t = LogTask THEN "query" ELSE "get"
    [] prog = "mq1" -> IF t = LogTask THEN "qpend" ELSE "print"
    [] prog = "sm1" -> "open"
    [] prog = "sm2" -> "pend"

\* Variant: the semaphore lets two tasks of sm2 in.
SemCountTwo(prog) == IF prog = "mm1" THEN Len(Blocks) ELSE 2

\* The count main gives the semaphore.
SemCount(prog) == IF prog = "mm1" THEN Len(Blocks) ELSE 1

Init ==
  /\ program \in Programs
  /\ ready = Tasks
  /\ delayed = {} /\ semWait = {} /\ qWait = {}
  /\ sem = SemCount(program)
  /\ queue = <<>>
  /\ free = Blocks
  /\ pc = [t \in Tasks |-> Entry(program, t)]
  /\ held = [t \in Tasks |-> NoMessage]
  /\ text = [b \in Buffers |-> 0]
  /\ count = 0
  /\ opened = {}

-----------------------------------------------------------------------------

\* The first ready task is at step s of program prog.
Step(prog, t, s) == program = prog /\ pc[t] = s /\ Running(t)

GoTo(t, s) == pc' = [pc EXCEPT ![t] = s]

Hold(t, m) == held' = [held EXCEPT ![t] = m]

(* A task that delays itself is delayed by at least a tick, unless the     *)
(* delay is zero: sleep of sm1 and sm2 is never assigned, and in LogTask   *)
(* of mm2 255 + 1 wraps.                                                   *)
Delay(t, s, r) ==
  /\ pc[t] = s /\ Running(t)
  /\ OSTimeDly(t)
  /\ GoTo(t, r)
  /\ UNCHANGED <<program, held, text, count, opened>>

NoDelay(t, s, r) ==
  /\ Step(program, t, s)
  /\ GoTo(t, r)
  /\ UNCHANGED <<kernelVars, program, held, text, count, opened>>

-----------------------------------------------------------------------------
(* mm1: Task *)

PendBlock(t) ==
  /\ Step("mm1", t, "pend")
  /\ OSSemPend(t)
  /\ GoTo(t, "get")
  /\ UNCHANGED <<program, held, text, count, opened>>

GetBlock(t) ==
  /\ Step("mm1", t, "get")
  /\ Hold(t, [buf |-> FirstFree, number |-> 0])
  /\ OSMemGet
  /\ GoTo(t, "put")
  /\ UNCHANGED <<program, text, count, opened>>

PutBlock(t) ==
  /\ Step("mm1", t, "put")
  /\ OSMemPut(held[t].buf)
  /\ Hold(t, NoMessage)
  /\ GoTo(t, "post")
  /\ UNCHANGED <<program, text, count, opened>>

PostBlock(t) ==
  /\ Step("mm1", t, "post")
  /\ OSSemPost
  /\ GoTo(t, "pend")
  /\ UNCHANGED <<program, held, text, count, opened>>

TaskMm1(t) == PendBlock(t) \/ GetBlock(t) \/ PutBlock(t) \/ PostBlock(t)

-----------------------------------------------------------------------------
(* mm2: Task and LogTask *)

GetMessage(t) ==
  /\ Step("mm2", t, "get")
  /\ Hold(t, [buf |-> FirstFree, number |-> 0])
  /\ OSMemGet
  /\ GoTo(t, "print")
  /\ UNCHANGED <<program, text, count, opened>>

\* sprintf into b, which t holds from now on with the number it got.
Sprintf(t, b) ==
  /\ text' = [text EXCEPT ![b] = (@ + 1) % Texts]
  /\ Hold(t, [buf |-> b, number |-> text'[b]])
  /\ GoTo(t, "qpost")
  /\ UNCHANGED <<kernelVars, program, count, opened>>

(* OSMemGet may have found no free block: what sprintf does through a null *)
(* pointer is undefined, and the model stops there.                        *)
PrintBlock(t) ==
  /\ Step("mm2", t, "print")
  /\ held[t].buf # Null
  /\ Sprintf(t, held[t].buf)

\* The result of OSQPost is not looked at.
PostMessage(t) ==
  /\ Step("mm2", t, "qpost")
  /\ OSQPost(held[t])
  /\ Hold(t, NoMessage)
  /\ GoTo(t, "delay")
  /\ UNCHANGED <<program, text, count, opened>>

DelayTask(t) == program = "mm2" /\ Delay(t, "delay", "get")

\* Variant: one message more than the queue holds.
QueryOne(t) ==
  /\ Step("mm2", t, "query")
  /\ t = LogTask
  /\ count' = Len(queue) + 1
  /\ GoTo(t, "qpend")
  /\ UNCHANGED <<kernelVars, program, held, text, opened>>

(* OSQQuery: the number of messages is read once for the whole loop. *)
Query(t) ==
  /\ Step("mm2", t, "query")
  /\ count' = Len(queue)
  /\ GoTo(t, IF queue = <<>> THEN "sleep" ELSE "qpend")
  /\ UNCHANGED <<kernelVars, program, held, text, opened>>

PendMessage(t) ==
  /\ Step("mm2", t, "qpend")
  /\ OSQPend(t)
  /\ IF queue = <<>>
     THEN UNCHANGED <<held, pc, count>>
     ELSE Hold(t, Head(queue)) /\ count' = count - 1 /\ GoTo(t, "log")
  /\ UNCHANGED <<program, text, opened>>

\* Variant: the block is not given back.
LogMessageKept(t) ==
  /\ Step("mm2", t, "log")
  /\ Hold(t, NoMessage)
  /\ GoTo(t, IF count = 0 THEN "sleep" ELSE "qpend")
  /\ UNCHANGED <<kernelVars, program, text, count, opened>>

\* fprintf, fflush and OSMemPut
LogMessage(t) ==
  /\ Step("mm2", t, "log")
  /\ OSMemPut(held[t].buf)
  /\ Hold(t, NoMessage)
  /\ GoTo(t, IF count = 0 THEN "sleep" ELSE "qpend")
  /\ UNCHANGED <<program, text, count, opened>>

Sleep(t) == Delay(t, "sleep", "query") \/ NoDelay(t, "sleep", "query")

TaskMm2(t) ==
  \/ GetMessage(t) \/ PrintBlock(t) \/ PostMessage(t) \/ DelayTask(t)
  \/ Query(t) \/ PendMessage(t) \/ LogMessage(t) \/ Sleep(t)

-----------------------------------------------------------------------------
(* mq1: Task and LogTask *)

PrintLocal(t) == Step("mq1", t, "print") /\ Sprintf(t, TaskStk)

\* What the array reads now: another task may have written it since.
Local(t) == [buf |-> held[t].buf, number |-> text[held[t].buf]]

\* The loop tries again while the queue is full.
PostLocal(t) ==
  /\ Step("mq1", t, "qpost")
  /\ OSQPost(Local(t))
  /\ IF QFull
     THEN UNCHANGED <<held, pc>>
     ELSE Hold(t, NoMessage) /\ GoTo(t, "delay")
  /\ UNCHANGED <<program, text, count, opened>>

DelayLocal(t) == program = "mq1" /\ Delay(t, "delay", "print")

PendLocal(t) ==
  /\ Step("mq1", t, "qpend")
  /\ OSQPend(t)
  /\ IF queue = <<>>
     THEN UNCHANGED <<held, pc>>
     ELSE Hold(t, Head(queue)) /\ GoTo(t, "log")
  /\ UNCHANGED <<program, text, count, opened>>

LogLocal(t) ==
  /\ Step("mq1", t, "log")
  /\ Hold(t, NoMessage)
  /\ GoTo(t, "qpend")
  /\ UNCHANGED <<kernelVars, program, text, count, opened>>

TaskMq1(t) ==
  PrintLocal(t) \/ PostLocal(t) \/ DelayLocal(t) \/ PendLocal(t) \/ LogLocal(t)

-----------------------------------------------------------------------------
(* sm1 and sm2: Task, the second with OSSemPend and OSSemPost *)

PendFile(t) ==
  /\ Step("sm2", t, "pend")
  /\ OSSemPend(t)
  /\ GoTo(t, "open")
  /\ UNCHANGED <<program, held, text, count, opened>>

\* fopen for appending, and the line "file open" flushed.
OpenFile(t) ==
  /\ Step(program, t, "open")
  /\ opened' = opened \cup {t}
  /\ GoTo(t, "between")
  /\ UNCHANGED <<kernelVars, program, held, text, count>>

DelayOpen(t) == Delay(t, "between", "close") \/ NoDelay(t, "between", "close")

\* The line "file close" flushed, and fclose.
CloseFile(t) ==
  /\ Step(program, t, "close")
  /\ opened' = opened \ {t}
  /\ GoTo(t, IF program = "sm2" THEN "post" ELSE "after")
  /\ UNCHANGED <<kernelVars, program, held, text, count>>

PostFile(t) ==
  /\ Step("sm2", t, "post")
  /\ OSSemPost
  /\ GoTo(t, "after")
  /\ UNCHANGED <<program, held, text, count, opened>>

DelayClosed(t) ==
  LET again == Entry(program, t)
  IN Delay(t, "after", again) \/ NoDelay(t, "after", again)

TaskSm1(t) ==
  /\ program \in {"sm1", "sm2"}
  /\ OpenFile(t) \/ DelayOpen(t) \/ CloseFile(t) \/ DelayClosed(t)

TaskSm2(t) == PendFile(t) \/ PostFile(t)

-----------------------------------------------------------------------------

ClockTick(t) == Tick(t) /\ UNCHANGED taskVars

Next ==
  \E t \in Tasks :
    \/ TaskMm1(t) \/ TaskMm2(t) \/ TaskMq1(t) \/ TaskSm1(t) \/ TaskSm2(t)
    \/ ClockTick(t)

Spec == Init /\ [][Next]_vars

-----------------------------------------------------------------------------
(* Properties *)

(* Every block of the partition is in one place: in the free list, in the  *)
(* queue, or in the hands of a task.  None is lost when the queue is full  *)
(* and none is given out twice.                                            *)
Places(b) ==
  {<<"free", i>> : i \in {j \in DOMAIN free : free[j] = b}}
    \cup {<<"queue", i>> : i \in {j \in DOMAIN queue : queue[j].buf = b}}
    \cup {<<"held", t>> : t \in {u \in Tasks : held[u].buf = b}}

BlocksConserved == \A b \in BlockSet : Cardinality(Places(b)) = 1

(* When LogTask takes a message up, it reads what it read when it was      *)
(* posted, in mm2 what its sender wrote: nobody has the block to write it. *)
(* In mq1 all tasks write the one array, also between the sprintf and the  *)
(* OSQPost of another, but not while a message is under way, for LogTask   *)
(* is the first of the tasks and runs before any other does.               *)
TextKept ==
  /\ \A i \in DOMAIN queue : text[queue[i].buf] = queue[i].number
  /\ held[LogTask].buf # Null /\ program # "mm1" =>
       text[held[LogTask].buf] = held[LogTask].number

(* LogTask of mm2 never waits for a message inside its loop, though it     *)
(* read their number before: nobody else takes messages.                   *)
LogNeverWaits ==
  program = "mm2" => qWait = {} /\ count <= Len(queue)

(* In the file of sm2 the two lines of a task follow each other: no other  *)
(* task writes between them, whatever the delays.                          *)
FileExclusive ==
  program = "sm2" => \A t, u \in opened : t = u
=============================================================================
