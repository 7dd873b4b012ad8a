----------------------------- MODULE UcosKernel -----------------------------
(***************************************************************************)
(* The services of uC/OS-II as the tasks of the exercises use them: a      *)
(* semaphore, a message queue, a memory partition and delays.  The kernel  *)
(* is not in the repository.                                               *)
(*                                                                         *)
(* A task is named by its priority, and the lower number runs first: only  *)
(* the first ready task takes steps, so a service that makes an earlier    *)
(* task ready is followed by steps of that task.                           *)
(***************************************************************************)
EXTENDS Naturals, Sequences, FiniteSets

CONSTANTS
  Tasks,     \* priorities of the tasks
  Blocks,    \* blocks of the memory partition, as a sequence
  Null,      \* the null pointer
  QSize      \* entries of the message queue

BlockSet == {Blocks[i] : i \in DOMAIN Blocks}

ASSUME UcosKernelAssumption ==
  /\ Tasks \subseteq Nat /\ IsFiniteSet(Tasks)
  /\ Blocks \in Seq(BlockSet)
  /\ Null \notin BlockSet
  /\ QSize \in Nat

VARIABLES
  ready,    \* tasks ready to run
  delayed,  \* tasks in OSTimeDly
  sem,      \* count of the semaphore
  semWait,  \* tasks waiting in OSSemPend
  queue,    \* messages in the queue
  qWait,    \* tasks waiting in OSQPend
  free      \* free list of the partition

kernelVars == <<ready, delayed, sem, semWait, queue, qWait, free>>

\* Variant: the tasks are created with the priorities the other way round.
EarlierReversed(t, u) == u <= t

\* OSTaskCreate gives each task the priority that is its name here.
Earlier(t, u) == t <= u

Running(t) == t \in ready /\ \A u \in ready : Earlier(t, u)

\* The waiting task the kernel serves: that of the highest priority.
FirstOf(W) == CHOOSE t \in W : \A u \in W : Earlier(t, u)

OSSemPend(t) ==
  /\ IF sem > 0
     THEN sem' = sem - 1 /\ UNCHANGED <<ready, semWait>>
     ELSE ready' = ready \ {t} /\ semWait' = semWait \cup {t} /\ UNCHANGED sem
  /\ UNCHANGED <<delayed, queue, qWait, free>>

\* A waiting task takes the semaphore over, and the count stays.
OSSemPost ==
  /\ IF semWait = {}
     THEN sem' = sem + 1 /\ UNCHANGED <<ready, semWait>>
     ELSE LET w == FirstOf(semWait)
          IN ready' = ready \cup {w} /\ semWait' = semWait \ {w} /\ UNCHANGED sem
  /\ UNCHANGED <<delayed, queue, qWait, free>>

\* A task that finds no message waits, and takes one when it runs again.
OSQPend(t) ==
  /\ IF queue = <<>>
     THEN ready' = ready \ {t} /\ qWait' = qWait \cup {t} /\ UNCHANGED queue
     ELSE queue' = Tail(queue) /\ UNCHANGED <<ready, qWait>>
  /\ UNCHANGED <<delayed, sem, semWait, free>>

QFull == Len(queue) >= QSize

\* Without room the message is not taken (OS_Q_FULL).
OSQPost(m) ==
  /\ queue' = IF QFull THEN queue ELSE Append(queue, m)
  /\ IF QFull \/ qWait = {}
     THEN UNCHANGED <<ready, qWait>>
     ELSE LET w == FirstOf(qWait)
          IN ready' = ready \cup {w} /\ qWait' = qWait \ {w}
  /\ UNCHANGED <<delayed, sem, semWait, free>>

FirstFree == IF free = <<>> THEN Null ELSE Head(free)

OSMemGet ==
  /\ free' = IF free = <<>> THEN free ELSE Tail(free)
  /\ UNCHANGED <<ready, delayed, sem, semWait, queue, qWait>>

OSMemPut(b) ==
  /\ free' = <<b>> \o free
  /\ UNCHANGED <<ready, delayed, sem, semWait, queue, qWait>>

OSTimeDly(t) ==
  /\ ready' = ready \ {t}
  /\ delayed' = delayed \cup {t}
  /\ UNCHANGED <<sem, semWait, queue, qWait, free>>

\* The tick of the clock that ends the delay of t.
Tick(t) ==
  /\ t \in delayed
  /\ delayed' = delayed \ {t}
  /\ ready' = ready \cup {t}
  /\ UNCHANGED <<sem, semWait, queue, qWait, free>>
=============================================================================
