----------------------------- MODULE UcosProofs -----------------------------
(***************************************************************************)
(* Proofs about the exercises on uC/OS-II, for any number of tasks, blocks *)
(* and entries of the queue, and delays of any length.                     *)
(***************************************************************************)
EXTENDS Ucos, FiniteSetTheorems, WellFoundedInduction, TLAPS

(* The kernel serves a task that waits: of some priorities one is the      *)
(* first.                                                                  *)
LEMMA FirstWaits ==
  ASSUME NEW W \in SUBSET Tasks, W # {}
  PROVE  FirstOf(W) \in W
<1>1. W \subseteq Nat
  BY UcosKernelAssumption
<1> DEFINE Less == {ss \in Nat \X Nat : ss[1] < ss[2]}
<1>2. IsWellFoundedOn(Less, Nat)
  BY NatLessThanWellFounded DEF OpToRel
<1> HIDE DEF Less
<1>4. PICK w \in W : \A u \in W : ~ (<<u, w>> \in Less)
  BY <1>1, <1>2, WFMin
<1>3. \A u \in W : w <= u
  <2> SUFFICES ASSUME NEW u \in W, u < w PROVE FALSE
    BY <1>1
  <2>1. <<u, w>> \in Nat \X Nat /\ <<u, w>>[1] < <<u, w>>[2]
    BY <1>1
  <2> QED BY <2>1, <1>4 DEF Less
<1> QED BY <1>3 DEF FirstOf, Earlier

-----------------------------------------------------------------------------
(* The inductive invariant *)

(* The steps of a task of each program. *)
StepsOf(prog, t) ==
  CASE prog = "mm1" -> {"pend", "get", "put", "post"}
    [] prog = "mm2" -> IF t = LogTask THEN {"query", "qpend", "log", "sleep"}
                                      ELSE {"get", "print", "qpost", "delay"}
    [] prog = "mq1" -> IF t = LogTask THEN {"qpend", "log"}
                                      ELSE {"print", "qpost", "delay"}
    [] prog = "sm1" -> {"open", "between", "close", "after"}
    [] prog = "sm2" -> {"pend", "open", "between", "close", "post", "after"}

StepsInv == \A t \in Tasks : pc[t] \in StepsOf(program, t)

UsesSem == program \in {"mm1", "sm2"}

(* Who waits for the semaphore has its pc behind OSSemPend, is not ready   *)
(* and not delayed.                                                        *)
WaitInv ==
  /\ ~UsesSem => semWait = {}
  /\ UsesSem => ready \cap delayed = {}
  /\ semWait \cap (ready \cup delayed) = {}
  /\ \A t \in semWait : pc[t] = IF program = "mm1" THEN "get" ELSE "open"

(* The tasks between OSSemPend and OSSemPost. *)
Inside ==
  {t \in Tasks \ semWait : pc[t] \in {"get", "put", "open", "between", "close", "post"}}

(* The semaphore counts the tasks it still lets in. *)
SemInv == UsesSem => sem + Cardinality(Inside) = SemCount(program)

Putting == {t \in Tasks : pc[t] = "put"}

(* In mm1 a block that is not free is with a task that puts it back. *)
FreeInv ==
  program = "mm1" =>
    /\ Len(free) + Cardinality(Putting) = Len(Blocks)
    /\ \A t \in Putting : held[t].buf \in BlockSet

BlockMessages == {m \in Messages : m.buf \in BlockSet}

(* In mm2 a message is a block, and mq1 posts no null pointer. *)
HeldInv ==
  /\ program = "mm2" =>
       /\ queue \in Seq(BlockMessages)
       /\ \A t \in Tasks :
            /\ pc[t] = "print" => held[t].buf \in BlockSet \cup {Null}
            /\ pc[t] \in {"qpost", "log"} => held[t] \in BlockMessages
  /\ program = "mq1" =>
       \A t \in Tasks : pc[t] \in {"qpost", "log"} => held[t] \in Messages

(* The log task of mm2 has still to take what it counted.                  *)
LogInv ==
  program = "mm2" =>
    /\ qWait = {}
    /\ count <= Len(queue)
    /\ pc[LogTask] = "qpend" => count >= 1

Inv == TypeOK /\ StepsInv /\ WaitInv /\ SemInv /\ FreeInv /\ HeldInv /\ LogInv

(* Sets of tasks can be counted. *)
LEMMA FiniteTasks ==
  ASSUME NEW S \in SUBSET Tasks
  PROVE  IsFiniteSet(S) /\ Cardinality(S) \in Nat
BY UcosKernelAssumption, FS_Subset, FS_CardinalityType

(* A set of tasks counts one more with a task that was not in it. *)
LEMMA CountAdd ==
  ASSUME NEW S \in SUBSET Tasks, NEW t, t \notin S
  PROVE  Cardinality(S \cup {t}) = Cardinality(S) + 1
<1>1. IsFiniteSet(S)
  BY FiniteTasks
<1> QED BY <1>1, FS_AddElement

(* A set of tasks counts one less without a task that was in it. *)
LEMMA CountRemove ==
  ASSUME NEW S \in SUBSET Tasks, NEW t \in S
  PROVE  Cardinality(S \ {t}) = Cardinality(S) - 1
<1>1. IsFiniteSet(S)
  BY FiniteTasks
<1> QED BY <1>1, FS_RemoveElement

(* The state main leaves behind at OSStart. *)
LEMMA InitInv == Init => Inv
<1> SUFFICES ASSUME Init PROVE Inv
  OBVIOUS
<1> USE UcosKernelAssumption, UcosAssumption DEF Init
<1>1. TypeOK
  BY DEF TypeOK, Entry, Steps, Messages, NoMessage, Buffers, SemCount
<1>2. StepsInv
  BY DEF StepsInv, StepsOf, Entry
<1>3. Inside = {} \/ ~UsesSem
  BY DEF Inside, Entry, UsesSem
<1>4. SemInv
  <2>1. Len(Blocks) \in Nat
    OBVIOUS
  <2>2. sem = SemCount(program) /\ (UsesSem => Cardinality(Inside) = 0)
    BY <1>3, FS_EmptySet
  <2> QED BY <2>1, <2>2 DEF SemInv, SemCount
<1>5. Putting = {}
  BY DEF Putting, Entry
<1>6. FreeInv
  BY <1>5, FS_EmptySet DEF FreeInv
<1>7. WaitInv
  BY DEF WaitInv, UsesSem
<1>8. HeldInv
  BY DEF HeldInv, Entry
<1>9. LogInv
  BY DEF LogInv, Entry
<1> QED BY <1>1, <1>2, <1>4, <1>6, <1>7, <1>8, <1>9 DEF Inv

-----------------------------------------------------------------------------
(* The semaphore *)

(* OSSemPend lets the caller in and counts it, or makes it wait. *)
LEMMA PendSem ==
  ASSUME Inv, NEW t \in Tasks, Running(t), UsesSem, pc[t] = "pend",
         OSSemPend(t), program' = program,
         GoTo(t, IF program = "mm1" THEN "get" ELSE "open")
  PROVE  WaitInv' /\ SemInv'
<1> USE DEF Inv, OSSemPend, GoTo, UsesSem
<1>1. t \notin semWait /\ t \notin Inside
  BY DEF WaitInv, Inside, Running
<1>2. WaitInv'
  BY <1>1 DEF WaitInv, TypeOK, Running
<1>3. CASE sem > 0
  <2>1. Inside' = Inside \cup {t}
    BY <1>1, <1>3 DEF Inside, TypeOK
  <2>2. Cardinality(Inside') = Cardinality(Inside) + 1 /\ Cardinality(Inside) \in Nat
    BY <1>1, <2>1, FiniteTasks, FS_AddElement DEF Inside
  <2> QED BY <1>2, <1>3, <2>2 DEF SemInv, TypeOK
<1>4. CASE ~(sem > 0)
  <2>1. Inside' = Inside
    BY <1>1, <1>4 DEF Inside, TypeOK
  <2> QED BY <1>2, <1>4, <2>1 DEF SemInv, TypeOK
<1> QED BY <1>3, <1>4

(* OSSemPost makes tasks ready, and nothing else.                          *)
LEMMA PostTyped ==
  ASSUME TypeOK, OSSemPost
  PROVE  ready' \subseteq Tasks /\ semWait' \subseteq Tasks /\ sem' \in Nat
<1>1. semWait # {} => FirstOf(semWait) \in Tasks
  BY FirstWaits DEF TypeOK
<1>2. ready \subseteq Tasks /\ semWait \subseteq Tasks /\ sem \in Nat
  BY DEF TypeOK
<1>3. CASE semWait = {}
  <2>1. sem' = sem + 1 /\ ready' = ready /\ semWait' = semWait
    BY <1>3 DEF OSSemPost
  <2> QED BY <1>2, <2>1
<1>4. CASE semWait # {}
  BY <1>1, <1>2, <1>4 DEF OSSemPost
<1> QED BY <1>3, <1>4

(* OSSemPost counts the caller out, and lets in who waits first. *)
LEMMA PostSem ==
  ASSUME Inv, NEW t \in Tasks, Running(t), UsesSem, pc[t] = "post",
         OSSemPost, program' = program,
         GoTo(t, IF program = "mm1" THEN "pend" ELSE "after")
  PROVE  WaitInv' /\ SemInv'
<1> USE DEF Inv, OSSemPost, GoTo, UsesSem
<1>1. t \notin semWait /\ t \in Inside
  BY DEF WaitInv, Inside, Running
<1>2. /\ IsFiniteSet(Inside) /\ Cardinality(Inside) \in Nat
      /\ Cardinality(Inside \ {t}) = Cardinality(Inside) - 1
      /\ IsFiniteSet(Inside \ {t})
  <2>1. Inside \in SUBSET Tasks
    BY DEF Inside
  <2>2. Inside \ {t} \in SUBSET Tasks
    BY <2>1
  <2> QED BY ONLY <1>1, <2>1, <2>2, FiniteTasks, CountRemove
<1>3. CASE semWait = {}
  <2>1. Inside' = Inside \ {t}
    BY <1>1, <1>3 DEF Inside, TypeOK
  <2>2. WaitInv'
    BY <1>1, <1>3 DEF WaitInv, TypeOK
  <2> QED BY <1>2, <1>3, <2>1, <2>2 DEF SemInv, TypeOK
<1>4. CASE semWait # {}
  <2> DEFINE w == FirstOf(semWait)
  <2>1. w \in semWait /\ w \in Tasks
    BY <1>4, FirstWaits DEF TypeOK
  <2> HIDE DEF w
  <2>2. ready' = ready \cup {w} /\ semWait' = semWait \ {w} /\ sem' = sem
    BY <1>4 DEF w
  <2>3. w \notin Inside /\ w # t /\ pc[w] = IF program = "mm1" THEN "get" ELSE "open"
    BY <1>1, <2>1 DEF Inside, WaitInv
  <2>4. Inside' = (Inside \ {t}) \cup {w}
    <3>1. /\ pc'[t] \notin {"get", "put", "open", "between", "close", "post"}
          /\ \A u \in Tasks \ {t} : pc'[u] = pc[u]
      BY DEF TypeOK
    <3>2. pc[w] \in {"get", "open"} /\ pc'[w] = pc[w]
      BY <2>1, <2>3, <3>1
    <3>3. \A u \in Tasks : u \in Inside' <=> u = w \/ (u \in Inside /\ u # t)
      BY <1>1, <2>1, <2>2, <2>3, <3>1, <3>2 DEF Inside
    <3>4. Inside \subseteq Tasks /\ Inside' \subseteq Tasks
      BY DEF Inside
    <3>5. \A u : u \in Inside' <=> u = w \/ (u \in Inside /\ u # t)
      BY <2>1, <3>3, <3>4
    <3> QED BY <2>3, <3>5
  <2>5. Cardinality(Inside') = Cardinality(Inside)
    <3>1. w \notin Inside \ {t}
      BY <2>3
    <3>2. Cardinality((Inside \ {t}) \cup {w}) = Cardinality(Inside \ {t}) + 1
      BY <1>2, <3>1, FS_AddElement
    <3> QED BY <1>2, <2>4, <3>2
  <2>6. WaitInv'
    BY <1>1, <2>1, <2>2 DEF WaitInv, TypeOK
  <2> QED BY <2>2, <2>5, <2>6 DEF SemInv
<1> QED BY <1>3, <1>4

-----------------------------------------------------------------------------
(* The steps of each program *)

(* The semaphore of mm1 lets in no more tasks than there are free blocks:  *)
(* OSMemGet has one to give.                                               *)
LEMMA GetFinds == ASSUME Inv, NEW t \in Tasks, GetBlock(t) PROVE free # <<>>
<1> USE DEF Inv, Step, GoTo, GetBlock
<1>1. t \in Inside /\ Putting \subseteq Inside \ {t}
  BY DEF Inside, Putting, WaitInv, Running, TypeOK
<1>2. /\ Cardinality(Inside) \in Nat /\ Cardinality(Putting) \in Nat
      /\ Cardinality(Putting) <= Cardinality(Inside) - 1
  <2>1. /\ IsFiniteSet(Inside) /\ Cardinality(Inside) \in Nat
        /\ Cardinality(Putting) \in Nat
    BY FiniteTasks DEF Inside, Putting
  <2>2. /\ IsFiniteSet(Inside \ {t})
        /\ Cardinality(Inside \ {t}) = Cardinality(Inside) - 1
    <3>1. Inside \in SUBSET Tasks /\ Inside \ {t} \in SUBSET Tasks
      BY DEF Inside
    <3> QED BY ONLY <1>1, <3>1, FiniteTasks, CountRemove
  <2>3. Cardinality(Putting) <= Cardinality(Inside \ {t})
    BY <1>1, <2>2, FS_Subset
  <2> QED BY <2>1, <2>2, <2>3
<1> QED
  BY <1>2 DEF SemInv, FreeInv, UsesSem, SemCount, TypeOK

(* The steps of mm1: a task gets a block only behind the semaphore. *)
LEMMA StepMm1 == ASSUME Inv, NEW t \in Tasks, TaskMm1(t) PROVE Inv'
<1> USE UcosKernelAssumption DEF Inv, Step, GoTo, Hold
<1>1. CASE PendBlock(t)
  <2> USE <1>1 DEF PendBlock
  <2>1. WaitInv' /\ SemInv'
    BY PendSem DEF UsesSem
  <2>2. Putting' = Putting
    BY DEF Putting, TypeOK
  <2>3. TypeOK' /\ StepsInv'
    BY DEF OSSemPend, TypeOK, Steps, StepsInv, StepsOf
  <2>4. FreeInv' /\ HeldInv' /\ LogInv'
    BY <2>2 DEF OSSemPend, FreeInv, HeldInv, LogInv
  <2> QED BY <2>1, <2>3, <2>4
<1>2. CASE GetBlock(t)
  <2> USE <1>2 DEF GetBlock
  <2>3. free # <<>>
    BY GetFinds
  <2>2. Cardinality(Putting) \in Nat
    BY FiniteTasks DEF Putting
  <2>4. /\ Head(free) \in BlockSet /\ Tail(free) \in Seq(BlockSet)
        /\ Len(free') = Len(free) - 1
    BY <2>3 DEF OSMemGet, TypeOK
  <2>5. Inside' = Inside
    BY DEF OSMemGet, Inside, TypeOK
  <2>6. Putting' = Putting \cup {t} /\ t \notin Putting
    BY DEF Putting, TypeOK
  <2>7. Cardinality(Putting') = Cardinality(Putting) + 1
    <3>1. Putting \in SUBSET Tasks
      BY DEF Putting
    <3> QED BY ONLY <2>6, <3>1, CountAdd
  <2>8. TypeOK' /\ StepsInv'
    <3>1. pc' \in [Tasks -> Steps] /\ StepsInv'
      BY DEF TypeOK, Steps, StepsInv, StepsOf
    <3>2. [buf |-> FirstFree, number |-> 0] \in Messages
      BY <2>3, <2>4, UcosAssumption DEF FirstFree, Messages, Buffers
    <3>3. held' \in [Tasks -> Messages \cup {NoMessage}]
      BY <3>2 DEF TypeOK
    <3>4. UNCHANGED <<ready, delayed, sem, semWait, queue, qWait, program, text, count,
                      opened>>
          /\ free' \in Seq(BlockSet)
      BY <2>3, <2>4 DEF OSMemGet
    <3> QED BY <3>1, <3>3, <3>4 DEF TypeOK
  <2>9. WaitInv' /\ SemInv'
    BY <2>5 DEF OSMemGet, WaitInv, SemInv, UsesSem, TypeOK, Running
  <2>10. FreeInv'
    BY <2>2, <2>3, <2>4, <2>6, <2>7 DEF OSMemGet, FreeInv, FirstFree, TypeOK, Putting
  <2> QED BY <2>8, <2>9, <2>10 DEF HeldInv, LogInv
<1>3. CASE PutBlock(t)
  <2> USE <1>3 DEF PutBlock
  <2>1. t \in Putting /\ held[t].buf \in BlockSet
    BY DEF Putting, FreeInv
  <2>2. free' \in Seq(BlockSet) /\ Len(free') = Len(free) + 1
    BY <2>1 DEF OSMemPut, TypeOK
  <2>3. Inside' = Inside
    BY DEF OSMemPut, Inside, TypeOK
  <2>4. Putting' = Putting \ {t}
    BY DEF Putting, TypeOK
  <2>5. Cardinality(Putting') = Cardinality(Putting) - 1 /\ Cardinality(Putting) \in Nat
    <3>1. Putting \in SUBSET Tasks
      BY DEF Putting
    <3> QED BY ONLY <2>1, <2>4, <3>1, FiniteTasks, CountRemove
  <2>6. TypeOK' /\ StepsInv'
    BY <2>2 DEF OSMemPut, TypeOK, Steps, StepsInv, StepsOf
  <2>7. WaitInv' /\ SemInv'
    BY <2>3 DEF OSMemPut, WaitInv, SemInv, UsesSem, TypeOK, Running
  <2>8. FreeInv'
    BY <2>2, <2>4, <2>5 DEF FreeInv, TypeOK
  <2> QED BY <2>6, <2>7, <2>8 DEF HeldInv, LogInv
<1>4. CASE PostBlock(t)
  <2> USE <1>4 DEF PostBlock
  <2>1. WaitInv' /\ SemInv'
    BY PostSem DEF UsesSem
  <2>2. Putting' = Putting
    BY DEF Putting, TypeOK
  <2>3. TypeOK' /\ StepsInv'
    <3>1. ready' \subseteq Tasks /\ semWait' \subseteq Tasks /\ sem' \in Nat
      BY PostTyped
    <3>2. pc' \in [Tasks -> Steps] /\ StepsInv'
      BY DEF TypeOK, Steps, StepsInv, StepsOf
    <3>3. UNCHANGED <<delayed, queue, qWait, free>>
      BY DEF OSSemPost
    <3> QED BY <3>1, <3>2, <3>3 DEF TypeOK
  <2>4. FreeInv' /\ HeldInv' /\ LogInv'
    BY <2>2 DEF OSSemPost, FreeInv, HeldInv, LogInv
  <2> QED BY <2>1, <2>3, <2>4
<1> QED BY <1>1, <1>2, <1>3, <1>4 DEF TaskMm1

(* The tasks of mm2 run in mm2 only, a sleep included.                     *)
LEMMA InMm2 ==
  ASSUME Inv, NEW t \in Tasks, TaskMm2(t)
  PROVE  program = "mm2" /\ program' = program
<1>1. pc[t] = "sleep" => program = "mm2"
  BY UcosAssumption DEF Inv, StepsInv, StepsOf, TypeOK
<1> QED BY <1>1
  DEF TaskMm2, GetMessage, PrintBlock, Sprintf, PostMessage, DelayTask, Query,
      PendMessage, LogMessage, Sleep, Delay, NoDelay, Step

(* What the log task counted is there when it takes it.                    *)
LEMMA PendFinds ==
  ASSUME Inv, NEW t \in Tasks, PendMessage(t)
  PROVE  t = LogTask /\ queue # <<>> /\ count >= 1
<1>1. program = "mm2" /\ pc[t] = "qpend"
  BY DEF PendMessage, Step
<1>2. t = LogTask
  BY <1>1 DEF Inv, StepsInv, StepsOf
<1>3. count >= 1 /\ count <= Len(queue) /\ count \in Nat
  BY <1>1, <1>2 DEF Inv, LogInv, TypeOK
<1> QED BY <1>2, <1>3

(* The steps of mm2: only LogTask takes messages, as many as it counted. *)
LEMMA StepMm2 == ASSUME Inv, NEW t \in Tasks, TaskMm2(t) PROVE Inv'
<1> USE UcosKernelAssumption, UcosAssumption DEF Inv, Step, GoTo, Hold
<1>1. program = "mm2" /\ program' = program
  BY InMm2
<1> /\ t = LogTask => pc[t] \in {"query", "qpend", "log", "sleep"}
    /\ t # LogTask => pc[t] \in {"get", "print", "qpost", "delay"}
  BY <1>1 DEF StepsInv, StepsOf
<1>2. SemInv' /\ FreeInv'
  BY <1>1 DEF SemInv, FreeInv, UsesSem
<1>3. CASE GetMessage(t)
  <2> USE <1>3 DEF GetMessage, OSMemGet
  <2>1. /\ FirstFree \in BlockSet \cup {Null} /\ free' \in Seq(BlockSet)
        /\ held'[t] \in Messages \cup {NoMessage}
    BY DEF FirstFree, TypeOK, Messages, NoMessage, Buffers
  <2>2. TypeOK' /\ StepsInv'
    BY <2>1 DEF TypeOK, Steps, StepsInv, StepsOf
  <2>3. WaitInv' /\ HeldInv' /\ LogInv'
    BY <1>1, <2>1 DEF WaitInv, UsesSem, HeldInv, LogInv, StepsInv, StepsOf, TypeOK
  <2> QED BY <1>2, <2>2, <2>3
<1>4. CASE PrintBlock(t)
  <2> USE <1>4 DEF PrintBlock, Sprintf, kernelVars
  <2>1. /\ held[t].buf \in BlockSet
        /\ text' \in [Buffers -> 0..(Texts - 1)]
        /\ text'[held[t].buf] \in 0..(Texts - 1)
    <3>1. held[t].buf \in BlockSet /\ text \in [Buffers -> 0..(Texts - 1)]
      BY <1>1 DEF HeldInv, TypeOK
    <3>2. \A n \in 0..(Texts - 1) : (n + 1) % Texts \in 0..(Texts - 1)
      OBVIOUS
    <3> QED BY <3>1, <3>2 DEF Buffers
  <2>2. held'[t] \in BlockMessages /\ held'[t] \in Messages
    <3>1. held'[t] = [buf |-> held[t].buf, number |-> text'[held[t].buf]]
      BY DEF TypeOK
    <3> QED BY <2>1, <3>1 DEF BlockMessages, Messages, Buffers
  <2>3. TypeOK' /\ StepsInv'
    <3>1. held' \in [Tasks -> Messages \cup {NoMessage}]
      BY <2>2 DEF TypeOK
    <3>2. pc' \in [Tasks -> Steps] /\ StepsInv'
      BY DEF TypeOK, Steps, StepsInv, StepsOf
    <3> QED BY <2>1, <2>2, <3>1, <3>2 DEF TypeOK
  <2>4. WaitInv' /\ HeldInv' /\ LogInv'
    BY <1>1, <2>2 DEF WaitInv, UsesSem, HeldInv, LogInv, StepsInv, StepsOf, TypeOK
  <2> QED BY <1>2, <2>3, <2>4
<1>5. CASE PostMessage(t)
  <2> USE <1>5 DEF PostMessage, OSQPost
  <2>1. held[t] \in BlockMessages /\ UNCHANGED ready /\ UNCHANGED qWait
    BY <1>1 DEF HeldInv, LogInv
  <2>2. /\ queue' \in Seq(Messages) /\ queue' \in Seq(BlockMessages)
        /\ Len(queue') <= QSize /\ Len(queue) <= Len(queue')
    BY <1>1, <2>1 DEF HeldInv, QFull, TypeOK, BlockMessages
  <2>3. TypeOK' /\ StepsInv'
    BY <2>1, <2>2 DEF TypeOK, Steps, StepsInv, StepsOf
  <2>4. WaitInv' /\ HeldInv' /\ LogInv'
    BY <1>1, <2>1, <2>2 DEF WaitInv, UsesSem, HeldInv, LogInv, StepsInv, StepsOf, TypeOK
  <2> QED BY <1>2, <2>3, <2>4
<1>6. CASE DelayTask(t) \/ Sleep(t)
  <2> USE <1>6 DEF DelayTask, Sleep, Delay, NoDelay, OSTimeDly, kernelVars
  <2>1. TypeOK' /\ StepsInv'
    BY <1>1 DEF TypeOK, Steps, StepsInv, StepsOf
  <2>2. WaitInv' /\ HeldInv' /\ LogInv'
    BY <1>1 DEF WaitInv, UsesSem, HeldInv, LogInv, StepsInv, StepsOf, TypeOK
  <2> QED BY <1>2, <2>1, <2>2
<1>7. CASE Query(t)
  <2> USE <1>7 DEF Query, kernelVars
  <2>1. TypeOK' /\ StepsInv'
    BY <1>1 DEF TypeOK, Steps, StepsInv, StepsOf
  <2>2. WaitInv' /\ HeldInv' /\ LogInv'
    BY <1>1 DEF WaitInv, UsesSem, HeldInv, LogInv, StepsInv, StepsOf, TypeOK
  <2> QED BY <1>2, <2>1, <2>2
<1>8. CASE PendMessage(t)
  <2> USE <1>8 DEF PendMessage, OSQPend
  <2>1. t = LogTask /\ queue # <<>> /\ count >= 1
    BY PendFinds
  <2>2. /\ Head(queue) \in BlockMessages
        /\ queue' \in Seq(BlockMessages) /\ queue' \in Seq(Messages)
        /\ Head(queue) \in Messages /\ Len(queue') = Len(queue) - 1
        /\ queue' = Tail(queue) /\ Len(queue) \in Nat
    <3>1. queue \in Seq(BlockMessages) /\ queue \in Seq(Messages)
      BY <1>1 DEF HeldInv, TypeOK
    <3>2. queue' = Tail(queue)
      BY <2>1
    <3> QED BY <2>1, <3>1, <3>2
  <2>3. TypeOK' /\ StepsInv'
    <3>1. held' \in [Tasks -> Messages \cup {NoMessage}] /\ count' = count - 1
      BY <2>1, <2>2 DEF TypeOK
    <3>2. pc' \in [Tasks -> Steps] /\ StepsInv'
      <4>1. pc' = [pc EXCEPT ![t] = "log"]
        BY <2>1
      <4> QED BY <1>1, <2>1, <4>1 DEF TypeOK, Steps, StepsInv, StepsOf
    <3>3. ready' = ready /\ qWait' = qWait
      BY <2>1
    <3> QED BY <2>1, <2>2, <3>1, <3>2, <3>3 DEF TypeOK
  <2>4. WaitInv' /\ HeldInv' /\ LogInv'
    <3>1. WaitInv' /\ LogInv'
      BY <1>1, <2>1, <2>2 DEF WaitInv, UsesSem, LogInv, StepsInv, StepsOf, TypeOK
    <3>2. HeldInv'
      <4>1. /\ held' = [held EXCEPT ![t] = Head(queue)]
            /\ pc' = [pc EXCEPT ![t] = "log"]
        BY <2>1
      <4> QED BY <1>1, <2>2, <4>1 DEF HeldInv, TypeOK
    <3> QED BY <3>1, <3>2
  <2> QED BY <1>2, <2>3, <2>4
<1>9. CASE LogMessage(t)
  <2> USE <1>9 DEF LogMessage, OSMemPut
  <2>1. t = LogTask /\ held[t].buf \in BlockSet
    BY <1>1 DEF HeldInv, BlockMessages, StepsInv, StepsOf, TypeOK
  <2>2. free' \in Seq(BlockSet)
    BY <2>1 DEF TypeOK
  <2>3. TypeOK' /\ StepsInv'
    BY <2>1, <2>2 DEF TypeOK, Steps, StepsInv, StepsOf
  <2>4. WaitInv' /\ HeldInv' /\ LogInv'
    BY <1>1, <2>1 DEF WaitInv, UsesSem, HeldInv, LogInv, StepsInv, StepsOf, TypeOK
  <2> QED BY <1>2, <2>3, <2>4
<1> QED BY <1>3, <1>4, <1>5, <1>6, <1>7, <1>8, <1>9 DEF TaskMm2

(* The steps of mq1. *)
LEMMA StepMq1 == ASSUME Inv, NEW t \in Tasks, TaskMq1(t) PROVE Inv'
<1> USE UcosKernelAssumption, UcosAssumption DEF Inv, Step, GoTo, Hold
<1>1. program = "mq1" /\ program' = program
  BY DEF TaskMq1, PrintLocal, Sprintf, PostLocal, DelayLocal, Delay, PendLocal, LogLocal
<1>2. SemInv' /\ FreeInv' /\ LogInv'
  BY <1>1 DEF SemInv, FreeInv, LogInv, UsesSem
<1>3. semWait = {} /\ (semWait' = {} => WaitInv')
  BY <1>1 DEF WaitInv, UsesSem
<1> /\ t = LogTask => pc[t] \in {"qpend", "log"}
    /\ t # LogTask => pc[t] \in {"print", "qpost", "delay"}
  BY <1>1 DEF StepsInv, StepsOf
<1>4. CASE PrintLocal(t)
  <2> USE <1>4 DEF PrintLocal, Sprintf, kernelVars
  <2>1. text' \in [Buffers -> 0..(Texts - 1)] /\ text'[TaskStk] \in 0..(Texts - 1)
    <3>1. \A n \in 0..(Texts - 1) : (n + 1) % Texts \in 0..(Texts - 1)
      OBVIOUS
    <3> QED BY <3>1 DEF TypeOK, Buffers
  <2>2. held'[t] \in Messages
    <3>1. held'[t] = [buf |-> TaskStk, number |-> text'[TaskStk]]
      BY DEF TypeOK
    <3> QED BY <2>1, <3>1 DEF Messages, Buffers
  <2>3. held' \in [Tasks -> Messages \cup {NoMessage}]
    BY <2>2 DEF TypeOK
  <2>4. pc' \in [Tasks -> Steps] /\ StepsInv'
    BY <1>1 DEF TypeOK, Steps, StepsInv, StepsOf
  <2>5. HeldInv'
    BY <1>1, <2>2 DEF HeldInv, TypeOK
  <2> QED BY <1>2, <1>3, <2>1, <2>3, <2>4, <2>5 DEF TypeOK
<1>5. CASE PostLocal(t)
  <2> USE <1>5 DEF PostLocal
  <2>1. /\ held' \in [Tasks -> Messages \cup {NoMessage}]
        /\ pc' \in [Tasks -> Steps] /\ StepsInv' /\ HeldInv'
    <3>1. CASE QFull
      BY <1>1, <3>1 DEF HeldInv, TypeOK, StepsInv, StepsOf
    <3>2. CASE ~QFull
      <4>1. /\ held' = [held EXCEPT ![t] = NoMessage]
            /\ pc' = [pc EXCEPT ![t] = "delay"]
        BY <3>2
      <4>2. held' \in [Tasks -> Messages \cup {NoMessage}] /\ HeldInv'
        BY <1>1, <4>1 DEF HeldInv, TypeOK
      <4>3. pc' \in [Tasks -> Steps] /\ StepsInv'
        BY <1>1, <4>1 DEF TypeOK, Steps, StepsInv, StepsOf
      <4> QED BY <4>2, <4>3
    <3> QED BY <3>1, <3>2
  <2>2. queue' \in Seq(Messages) /\ Len(queue') <= QSize
    <3>1. Local(t) \in Messages
      <4>1. held[t] \in Messages
        BY <1>1 DEF HeldInv
      <4> QED BY <4>1 DEF Local, Messages, TypeOK
    <3> QED BY <3>1 DEF OSQPost, QFull, TypeOK
  <2>3. ready' \subseteq Tasks /\ qWait' \subseteq Tasks
    <3>1. qWait # {} => FirstOf(qWait) \in Tasks
      BY FirstWaits DEF TypeOK
    <3>2. CASE QFull \/ qWait = {}
      <4>1. ready' = ready /\ qWait' = qWait
        BY <3>2 DEF OSQPost
      <4> QED BY <4>1 DEF TypeOK
    <3>3. CASE ~(QFull \/ qWait = {})
      BY <3>1, <3>3 DEF OSQPost, TypeOK
    <3> QED BY <3>2, <3>3
  <2>4. UNCHANGED <<delayed, sem, semWait, free>>
    BY DEF OSQPost
  <2> QED BY <1>2, <1>3, <2>1, <2>2, <2>3, <2>4 DEF TypeOK
<1>6. CASE DelayLocal(t)
  <2> USE <1>6 DEF DelayLocal, Delay, OSTimeDly
  <2>1. HeldInv' /\ StepsInv'
    BY <1>1 DEF HeldInv, StepsInv, StepsOf, TypeOK
  <2>2. TypeOK'
    BY DEF TypeOK, Steps
  <2> QED BY <1>2, <1>3, <2>1, <2>2
<1>7. CASE PendLocal(t)
  <2> USE <1>7 DEF PendLocal, OSQPend
  <2>1. CASE queue = <<>>
    <3>1. HeldInv' /\ StepsInv'
      BY <1>1, <2>1 DEF HeldInv, StepsInv
    <3>2. TypeOK'
      BY <2>1 DEF TypeOK
    <3> QED BY <1>2, <1>3, <2>1, <3>1, <3>2
  <2>2. CASE queue # <<>>
    <3>1. /\ Head(queue) \in Messages
          /\ queue' \in Seq(Messages) /\ Len(queue') <= QSize
      <4>1. queue' = Tail(queue)
        BY <2>2
      <4>2. queue \in Seq(Messages) /\ Len(queue) <= QSize
        BY DEF TypeOK
      <4> QED BY <2>2, <4>1, <4>2, UcosKernelAssumption
    <3>2. HeldInv' /\ held' \in [Tasks -> Messages \cup {NoMessage}]
      <4>1. /\ held' = [held EXCEPT ![t] = Head(queue)]
            /\ pc' = [pc EXCEPT ![t] = "log"]
        BY <2>2
      <4> QED BY <1>1, <3>1, <4>1 DEF HeldInv, TypeOK
    <3>3. pc' \in [Tasks -> Steps] /\ StepsInv'
      BY <1>1, <2>2 DEF TypeOK, Steps, StepsInv, StepsOf
    <3>4. ready' = ready /\ qWait' = qWait
      BY <2>2
    <3> QED BY <1>2, <1>3, <3>1, <3>2, <3>3, <3>4 DEF TypeOK
  <2> QED BY <2>1, <2>2
<1>8. CASE LogLocal(t)
  <2> USE <1>8 DEF LogLocal, kernelVars
  <2>1. HeldInv' /\ StepsInv'
    BY <1>1 DEF HeldInv, StepsInv, StepsOf, TypeOK
  <2>2. TypeOK'
    BY DEF TypeOK, Steps
  <2> QED BY <1>2, <1>3, <2>1, <2>2
<1> QED BY <1>4, <1>5, <1>6, <1>7, <1>8 DEF TaskMq1

(* The steps that Delay and NoDelay make. *)
LEMMA DelaySm ==
  ASSUME Inv, NEW t \in Tasks, program \in {"sm1", "sm2"},
         NEW s, NEW r, Delay(t, s, r) \/ NoDelay(t, s, r),
         \/ s = "between" /\ r = "close"
         \/ s = "after" /\ r = Entry(program, t)
  PROVE  Inv'
<1> USE UcosKernelAssumption, UcosAssumption
    DEF Inv, Step, GoTo, Delay, NoDelay, OSTimeDly, kernelVars, Entry
<1>1. t \in ready /\ t \notin semWait
  BY DEF Running, WaitInv
<1>2. pc' \in [Tasks -> Steps] /\ StepsInv'
  BY DEF TypeOK, Steps, StepsInv, StepsOf
<1>3. TypeOK'
  BY <1>2 DEF TypeOK
<1>4. WaitInv'
  BY <1>1 DEF WaitInv, UsesSem, TypeOK
<1>5. program = "sm2" => Inside' = Inside
  BY <1>1 DEF Inside, TypeOK
<1>6. SemInv'
  BY <1>5 DEF SemInv, UsesSem
<1> QED BY <1>3, <1>2, <1>4, <1>6 DEF FreeInv, HeldInv, LogInv

(* The steps of sm1 and sm2. *)
LEMMA StepSm == ASSUME Inv, NEW t \in Tasks, TaskSm1(t) \/ TaskSm2(t) PROVE Inv'
<1> USE UcosKernelAssumption, UcosAssumption DEF Inv, Step, GoTo
<1>1. program \in {"sm1", "sm2"}
  BY DEF TaskSm1, TaskSm2, PendFile, PostFile
<1>2. CASE PendFile(t)
  <2> USE <1>2 DEF PendFile
  <2>1. WaitInv' /\ SemInv'
    BY PendSem DEF UsesSem
  <2>2. TypeOK' /\ StepsInv'
    BY DEF OSSemPend, TypeOK, Steps, StepsInv, StepsOf
  <2> QED BY <2>1, <2>2 DEF FreeInv, HeldInv, LogInv
<1>3. CASE PostFile(t)
  <2> USE <1>3 DEF PostFile
  <2>1. WaitInv' /\ SemInv'
    BY PostSem DEF UsesSem
  <2>2. ready' \subseteq Tasks /\ semWait' \subseteq Tasks /\ sem' \in Nat
    BY PostTyped
  <2>3. pc' \in [Tasks -> Steps] /\ StepsInv'
    BY DEF TypeOK, Steps, StepsInv, StepsOf
  <2>4. UNCHANGED <<delayed, queue, qWait, free>>
    BY DEF OSSemPost
  <2>5. TypeOK'
    BY <2>2, <2>3, <2>4 DEF TypeOK
  <2> QED BY <2>1, <2>3, <2>5 DEF FreeInv, HeldInv, LogInv
<1>4. CASE OpenFile(t) \/ CloseFile(t)
  <2> USE <1>1, <1>4 DEF OpenFile, CloseFile, kernelVars
  <2>1. TypeOK' /\ StepsInv'
    BY DEF TypeOK, Steps, StepsInv, StepsOf
  <2>2. program = "sm2" => Inside' = Inside
    BY DEF Inside, TypeOK
  <2>3. WaitInv' /\ SemInv'
    BY <2>2 DEF WaitInv, SemInv, UsesSem, TypeOK, Running
  <2> QED BY <2>1, <2>3 DEF FreeInv, HeldInv, LogInv
<1>5. CASE DelayOpen(t) \/ DelayClosed(t)
  BY <1>1, <1>5, DelaySm DEF DelayOpen, DelayClosed
<1> QED BY <1>2, <1>3, <1>4, <1>5 DEF TaskSm1, TaskSm2

(* A delay ends. *)
LEMMA StepClock == ASSUME Inv, NEW t \in Tasks, ClockTick(t) PROVE Inv'
<1> USE DEF Inv, ClockTick, Tick, taskVars
<1>1. Inside' = Inside /\ Putting' = Putting
  BY DEF Inside, Putting
<1>2. TypeOK' /\ StepsInv'
  BY DEF TypeOK, StepsInv
<1>3. WaitInv' /\ SemInv'
  BY <1>1 DEF WaitInv, SemInv, UsesSem
<1> QED BY <1>1, <1>2, <1>3 DEF FreeInv, HeldInv, LogInv

(* Every step of the tasks and of the clock keeps the invariant. *)
LEMMA NextInv == Inv /\ [Next]_vars => Inv'
<1> SUFFICES ASSUME Inv, [Next]_vars PROVE Inv'
  OBVIOUS
<1>1. CASE UNCHANGED vars
  BY <1>1
  DEF vars, kernelVars, taskVars, Inv, TypeOK, StepsInv, WaitInv, UsesSem, SemInv, Inside,
      FreeInv, Putting, HeldInv, LogInv
<1> QED BY <1>1, StepMm1, StepMm2, StepMq1, StepSm, StepClock DEF Next

(* The invariant holds of every run of the exercises. *)
THEOREM InvHolds == Spec => []Inv
BY InitInv, NextInv, PTL DEF Spec

-----------------------------------------------------------------------------
(* What follows from the invariant *)

(* The variables keep their types.  Above all no task of mm1 is given a    *)
(* null pointer and puts it back: the semaphore counts the blocks.         *)
THEOREM Typed == Spec => []TypeOK
BY InvHolds, PTL DEF Inv

(* However long the delays and however full the queue, the log task of mm2 *)
(* finds every message that it counted before its loop.                    *)
THEOREM LogRunsOn == Spec => []LogNeverWaits
<1>1. Inv => LogNeverWaits
  BY DEF Inv, LogInv, LogNeverWaits
<1> QED BY <1>1, InvHolds, PTL

(* Who has written "file open" is between OSSemPend and OSSemPost.         *)
OpenInv ==
  program = "sm2" =>
    \A t \in opened : t \notin semWait /\ pc[t] \in {"between", "close"}

(* A file stays open only inside the semaphore. *)
LEMMA NextOpen == Inv /\ OpenInv /\ [Next]_vars => OpenInv'
<1> SUFFICES ASSUME Inv, OpenInv, [Next]_vars PROVE OpenInv'
  OBVIOUS
<1> USE DEF Inv, OpenInv, Step, GoTo
<1>1. CASE UNCHANGED vars
  BY <1>1 DEF vars, kernelVars, taskVars
<1>2. ASSUME NEW t \in Tasks, TaskMm1(t) \/ TaskMm2(t) \/ TaskMq1(t) PROVE OpenInv'
  <2>1. program # "sm2" /\ program' = program
    <3>1. pc[t] = "sleep" => program = "mm2"
      BY UcosAssumption DEF StepsInv, StepsOf, TypeOK
    <3> QED BY <1>2, <3>1
      DEF TaskMm1, PendBlock, GetBlock, PutBlock, PostBlock,
          TaskMm2, GetMessage, PrintBlock, Sprintf, PostMessage, DelayTask, Query,
          PendMessage, LogMessage, Sleep, Delay, NoDelay,
          TaskMq1, PrintLocal, PostLocal, DelayLocal, PendLocal, LogLocal
  <2> QED BY <2>1
<1>3. ASSUME NEW t \in Tasks, TaskSm1(t) PROVE OpenInv'
  <2>1. t \notin semWait
    BY <1>3 DEF TaskSm1, OpenFile, CloseFile, DelayOpen, DelayClosed, Delay, NoDelay,
                Running, WaitInv
  <2> QED BY <1>3, <2>1
    DEF TaskSm1, OpenFile, CloseFile, DelayOpen, DelayClosed, Delay, NoDelay, OSTimeDly,
        kernelVars, Entry, TypeOK
<1>4. ASSUME NEW t \in Tasks, PendFile(t) PROVE OpenInv'
  BY <1>4 DEF PendFile, OSSemPend, TypeOK
<1>5. ASSUME NEW t \in Tasks, PostFile(t) PROVE OpenInv'
  <2>1. semWait' \subseteq semWait
    BY <1>5 DEF PostFile, OSSemPost
  <2> QED BY <1>5, <2>1 DEF PostFile, TypeOK
<1>6. ASSUME NEW t \in Tasks, ClockTick(t) PROVE OpenInv'
  BY <1>6 DEF ClockTick, Tick, taskVars
<1> QED BY <1>1, <1>2, <1>3, <1>4, <1>5, <1>6 DEF Next, TaskSm2

(* The file of sm2 has one writer at a time, for any delays and any number *)
(* of tasks.                                                               *)
THEOREM OneWriter == Spec => []FileExclusive
<1>1. Inv /\ OpenInv => FileExclusive
  <2> SUFFICES ASSUME Inv, OpenInv, program = "sm2",
                      NEW t \in opened, NEW u \in opened
               PROVE  t = u
    BY DEF FileExclusive
  <2>1. t \in Inside /\ u \in Inside
    BY DEF Inv, TypeOK, OpenInv, Inside
  <2>2. /\ IsFiniteSet(Inside) /\ Cardinality(Inside) \in Nat
        /\ Cardinality(Inside) <= 1
    BY FiniteTasks DEF Inv, TypeOK, SemInv, UsesSem, SemCount, Inside
  <2>3. Cardinality(Inside) = 1
    BY <2>1, <2>2, FS_EmptySet
  <2> QED BY <2>1, <2>2, <2>3, FS_Singleton
<1>2. Init => OpenInv
  BY DEF Init, OpenInv
<1> QED BY <1>1, <1>2, NextOpen, InvHolds, PTL DEF Spec

-----------------------------------------------------------------------------
(* The blocks of the partition *)

(* The blocks are different, and the queue has room for all of them, as in *)
(* mm1.c and mm2.c.                                                        *)
BlocksFit ==
  /\ \A i, j \in DOMAIN Blocks : Blocks[i] = Blocks[j] => i = j
  /\ Len(Blocks) <= QSize

Owners == {"mm1", "mm2"}

(* A task that is not about to put, write, post or log holds nothing.      *)
HandsInv ==
  \A t \in Tasks : pc[t] \notin {"put", "print", "qpost", "log"} => held[t].buf = Null

(* No block is in two places. *)
OnceInv ==
  /\ \A i, j \in DOMAIN free : free[i] = free[j] => i = j
  /\ \A i, j \in DOMAIN queue : queue[i].buf = queue[j].buf => i = j
  /\ \A t, u \in Tasks : held[t].buf = held[u].buf => t = u \/ held[t].buf = Null
  /\ \A i \in DOMAIN free, j \in DOMAIN queue : free[i] # queue[j].buf
  /\ \A i \in DOMAIN free, t \in Tasks : free[i] # held[t].buf
  /\ \A j \in DOMAIN queue, t \in Tasks : queue[j].buf # held[t].buf

(* Every block is in one. *)
SomewhereInv ==
  \A b \in BlockSet :
    \/ \E i \in DOMAIN free : free[i] = b
    \/ \E j \in DOMAIN queue : queue[j].buf = b
    \/ \E t \in Tasks : held[t].buf = b

Holding == {t \in Tasks : held[t].buf # Null}

(* The places add up: this leaves room in the queue for whoever posts.     *)
SumInv == Len(free) + Len(queue) + Cardinality(Holding) = Len(Blocks)

(* mq1, sm1 and sm2 leave the partition alone. *)
UnusedInv ==
  /\ free = Blocks
  /\ \A j \in DOMAIN queue : queue[j].buf \notin BlockSet
  /\ \A t \in Tasks : held[t].buf \notin BlockSet

BlockInv ==
  /\ HandsInv
  /\ program \in Owners => OnceInv /\ SomewhereInv /\ SumInv
  /\ program = "mm1" => queue = <<>>
  /\ program \notin Owners => UnusedInv

(* What the moves of a block need to know of the variables.                *)
Placed ==
  /\ free \in Seq(BlockSet) /\ queue \in Seq(BlockMessages)
  /\ held \in [Tasks -> Messages \cup {NoMessage}]
  /\ Null \notin BlockSet
  /\ \A m \in BlockMessages : m.buf \in BlockSet

(* OSMemGet moves the first free block to the task. *)
LEMMA MoveGet ==
  ASSUME Placed, OnceInv, SomewhereInv, NEW t \in Tasks, NEW m, held[t].buf = Null,
         free # <<>>, free' = Tail(free), queue' = queue, m.buf = Head(free),
         held' = [held EXCEPT ![t] = m]
  PROVE  OnceInv' /\ SomewhereInv'
<1>1. /\ DOMAIN free = 1..Len(free) /\ Len(free) \in Nat \ {0}
      /\ DOMAIN free' = 1..(Len(free) - 1)
      /\ \A i \in 1..(Len(free) - 1) : free'[i] = free[i + 1]
      /\ m.buf = free[1] /\ m.buf \in BlockSet
  BY DEF Placed
<1>2. /\ held'[t].buf = m.buf
      /\ \A u \in Tasks \ {t} : held'[u] = held[u]
  BY DEF Placed
<1>3. OnceInv'
  BY <1>1, <1>2 DEF OnceInv
<1>4. ASSUME NEW b \in BlockSet, NEW i \in DOMAIN free, free[i] = b
      PROVE  (\E k \in DOMAIN free' : free'[k] = b) \/ held'[t].buf = b
  <2>1. CASE i = 1
    BY <1>1, <1>2, <1>4, <2>1
  <2>2. CASE i # 1
    <3>1. i - 1 \in DOMAIN free' /\ free'[i - 1] = b
      BY <1>1, <1>4, <2>2
    <3> QED BY <3>1
  <2> QED BY <2>1, <2>2
<1>5. SomewhereInv'
  <2> SUFFICES ASSUME NEW b \in BlockSet
               PROVE  \/ \E i \in DOMAIN free' : free'[i] = b
                      \/ \E j \in DOMAIN queue' : queue'[j].buf = b
                      \/ \E u \in Tasks : held'[u].buf = b
    BY DEF SomewhereInv, BlockSet
  <2>1. ASSUME NEW u \in Tasks, held[u].buf = b PROVE held'[u].buf = b
    BY <1>2, <2>1 DEF Placed
  <2> QED BY <1>4, <2>1 DEF SomewhereInv
<1> QED BY <1>3, <1>5

(* OSQPost moves the block from the task to the end of the queue. *)
LEMMA MovePost ==
  ASSUME Placed, OnceInv, SomewhereInv, NEW t \in Tasks, held[t] \in BlockMessages,
         free' = free, queue' = Append(queue, held[t]),
         held' = [held EXCEPT ![t] = NoMessage]
  PROVE  OnceInv' /\ SomewhereInv'
<1>1. /\ DOMAIN queue = 1..Len(queue) /\ Len(queue) \in Nat
      /\ DOMAIN queue' = 1..(Len(queue) + 1)
      /\ \A j \in 1..Len(queue) : queue'[j] = queue[j]
      /\ queue'[Len(queue) + 1] = held[t] /\ held[t].buf \in BlockSet
  BY DEF Placed
<1>2. /\ held'[t].buf = Null
      /\ \A u \in Tasks \ {t} : held'[u] = held[u]
  BY DEF Placed, NoMessage
<1>3. OnceInv'
  BY <1>1, <1>2 DEF OnceInv, Placed
<1>4. SomewhereInv'
  <2> SUFFICES ASSUME NEW b \in BlockSet
               PROVE  \/ \E i \in DOMAIN free' : free'[i] = b
                      \/ \E j \in DOMAIN queue' : queue'[j].buf = b
                      \/ \E u \in Tasks : held'[u].buf = b
    BY DEF SomewhereInv, BlockSet
  <2>1. ASSUME NEW u \in Tasks, held[u].buf = b
        PROVE  held'[u].buf = b \/ (\E j \in DOMAIN queue' : queue'[j].buf = b)
    <3>1. CASE u = t
      BY <1>1, <2>1, <3>1
    <3>2. CASE u # t
      BY <1>2, <2>1, <3>2
    <3> QED BY <3>1, <3>2
  <2> QED BY <1>1, <2>1 DEF SomewhereInv
<1> QED BY <1>3, <1>4

(* OSQPend moves the first block of the queue to the log task. *)
LEMMA MovePend ==
  ASSUME Placed, OnceInv, SomewhereInv, NEW t \in Tasks, held[t].buf = Null,
         queue # <<>>, free' = free, queue' = Tail(queue),
         held' = [held EXCEPT ![t] = Head(queue)]
  PROVE  OnceInv' /\ SomewhereInv'
<1>1. /\ DOMAIN queue = 1..Len(queue) /\ Len(queue) \in Nat \ {0}
      /\ DOMAIN queue' = 1..(Len(queue) - 1)
      /\ \A j \in 1..(Len(queue) - 1) : queue'[j] = queue[j + 1]
      /\ Head(queue) = queue[1] /\ queue[1].buf \in BlockSet
  BY DEF Placed
<1>2. /\ held'[t].buf = queue[1].buf
      /\ \A u \in Tasks \ {t} : held'[u] = held[u]
  BY <1>1 DEF Placed
<1>3. OnceInv'
  BY <1>1, <1>2 DEF OnceInv
<1>4. ASSUME NEW b \in BlockSet, NEW j \in DOMAIN queue, queue[j].buf = b
      PROVE  (\E k \in DOMAIN queue' : queue'[k].buf = b) \/ held'[t].buf = b
  <2>1. CASE j = 1
    BY <1>1, <1>2, <1>4, <2>1
  <2>2. CASE j # 1
    <3>1. j - 1 \in DOMAIN queue' /\ queue'[j - 1].buf = b
      BY <1>1, <1>4, <2>2
    <3> QED BY <3>1
  <2> QED BY <2>1, <2>2
<1>5. SomewhereInv'
  <2> SUFFICES ASSUME NEW b \in BlockSet
               PROVE  \/ \E i \in DOMAIN free' : free'[i] = b
                      \/ \E k \in DOMAIN queue' : queue'[k].buf = b
                      \/ \E u \in Tasks : held'[u].buf = b
    BY DEF SomewhereInv, BlockSet
  <2>1. ASSUME NEW u \in Tasks, held[u].buf = b PROVE held'[u].buf = b
    BY <1>2, <2>1 DEF Placed
  <2> QED BY <1>4, <2>1 DEF SomewhereInv
<1> QED BY <1>3, <1>5

(* OSMemPut moves the block from the task to the free list. *)
LEMMA MovePut ==
  ASSUME Placed, OnceInv, SomewhereInv, NEW t \in Tasks, held[t].buf \in BlockSet,
         free' = <<held[t].buf>> \o free, queue' = queue,
         held' = [held EXCEPT ![t] = NoMessage]
  PROVE  OnceInv' /\ SomewhereInv'
<1>1. /\ DOMAIN free = 1..Len(free) /\ Len(free) \in Nat
      /\ DOMAIN free' = 1..(Len(free) + 1)
      /\ \A i \in 1..Len(free) : free'[i + 1] = free[i]
      /\ \A i \in 2..(Len(free) + 1) : free'[i] = free[i - 1]
      /\ free'[1] = held[t].buf
  BY DEF Placed
<1>2. /\ held'[t].buf = Null
      /\ \A u \in Tasks \ {t} : held'[u] = held[u]
  BY DEF Placed, NoMessage
<1>3. OnceInv'
  <2>1. \A i \in DOMAIN free' : i = 1 \/ (i - 1 \in DOMAIN free /\ free'[i] = free[i - 1])
    BY <1>1
  <2>2. \A i, j \in DOMAIN free' : free'[i] = free'[j] => i = j
    BY <1>1, <2>1 DEF OnceInv
  <2>3. \A i \in DOMAIN free', j \in DOMAIN queue' : free'[i] # queue'[j].buf
    BY <1>1, <2>1 DEF OnceInv
  <2>4. \A i \in DOMAIN free', u \in Tasks : free'[i] # held'[u].buf
    <3>1. \A u \in Tasks \ {t} : held[u].buf # held[t].buf
      BY DEF OnceInv, Placed
    <3>2. \A i \in DOMAIN free' : free'[i] \in BlockSet
      BY <1>1, <2>1 DEF Placed
    <3> QED BY <1>1, <1>2, <2>1, <3>1, <3>2 DEF OnceInv, Placed
  <2>5. /\ \A u, v \in Tasks : held'[u].buf = held'[v].buf => u = v \/ held'[u].buf = Null
        /\ \A j \in DOMAIN queue', u \in Tasks : queue'[j].buf # held'[u].buf
    BY <1>2 DEF OnceInv, Placed
  <2> QED BY <2>2, <2>3, <2>4, <2>5 DEF OnceInv
<1>4. SomewhereInv'
  <2> SUFFICES ASSUME NEW b \in BlockSet
               PROVE  \/ \E i \in DOMAIN free' : free'[i] = b
                      \/ \E j \in DOMAIN queue' : queue'[j].buf = b
                      \/ \E u \in Tasks : held'[u].buf = b
    BY DEF SomewhereInv, BlockSet
  <2>1. ASSUME NEW u \in Tasks, held[u].buf = b
        PROVE  held'[u].buf = b \/ (\E i \in DOMAIN free' : free'[i] = b)
    <3>1. CASE u = t
      BY <1>1, <2>1, <3>1
    <3>2. CASE u # t
      BY <1>2, <2>1, <3>2
    <3> QED BY <3>1, <3>2
  <2>2. ASSUME NEW i \in DOMAIN free, free[i] = b
        PROVE  \E k \in DOMAIN free' : free'[k] = b
    <3>1. i + 1 \in DOMAIN free' /\ free'[i + 1] = b
      BY <1>1, <2>2
    <3> QED BY <3>1
  <2> QED BY <2>1, <2>2 DEF SomewhereInv
<1> QED BY <1>3, <1>4

(* Taking a block adds a holder, and giving it away removes one.           *)
LEMMA Takes ==
  ASSUME Placed, NEW t \in Tasks, NEW m, held[t].buf = Null, m.buf \in BlockSet,
         held' = [held EXCEPT ![t] = m]
  PROVE  Cardinality(Holding') = Cardinality(Holding) + 1
<1>1. t \notin Holding /\ Holding' = Holding \cup {t}
  BY DEF Holding, Placed
<1>2. Holding \in SUBSET Tasks
  BY DEF Holding
<1> QED BY ONLY <1>1, <1>2, CountAdd

(* A task that gives its block away is one holder less.                    *)
LEMMA Gives ==
  ASSUME Placed, NEW t \in Tasks, held[t].buf \in BlockSet,
         held' = [held EXCEPT ![t] = NoMessage]
  PROVE  Cardinality(Holding') = Cardinality(Holding) - 1
<1>1. t \in Holding /\ Holding' = Holding \ {t}
  BY DEF Holding, Placed, NoMessage
<1>2. Holding \in SUBSET Tasks
  BY DEF Holding
<1> QED BY ONLY <1>1, <1>2, CountRemove

(* A step that moves no block. *)
LEMMA StaysBlock ==
  ASSUME BlockInv, UNCHANGED <<free, queue, held, program>>, HandsInv'
  PROVE  BlockInv'
<1>1. Holding' = Holding
  BY DEF Holding
<1> QED BY <1>1 DEF BlockInv, OnceInv, SomewhereInv, SumInv, UnusedInv

(* mm1 moves its block from the free list and back. *)
LEMMA BlockMm1 ==
  ASSUME Inv, BlockInv, NEW t \in Tasks, TaskMm1(t)
  PROVE  BlockInv'
<1> USE UcosKernelAssumption DEF Inv, Step, GoTo, Hold, BlockInv, Owners
<1>1. program = "mm1" /\ program' = program /\ queue = <<>>
  BY DEF TaskMm1, PendBlock, GetBlock, PutBlock, PostBlock
<1>2. Placed
  BY <1>1 DEF Placed, TypeOK, BlockMessages
<1>3. HandsInv'
  <2>1. CASE PendBlock(t) \/ PostBlock(t)
    BY <2>1 DEF PendBlock, PostBlock, HandsInv, TypeOK
  <2>2. CASE GetBlock(t)
    BY <2>2 DEF GetBlock, HandsInv, TypeOK
  <2>3. CASE PutBlock(t)
    BY <2>3 DEF PutBlock, HandsInv, TypeOK, NoMessage
  <2> QED BY <2>1, <2>2, <2>3 DEF TaskMm1
<1>4. /\ Len(free) \in Nat /\ Len(queue) \in Nat /\ Cardinality(Holding) \in Nat
      /\ Len(Blocks) \in Nat
  BY <1>2, FiniteTasks DEF Placed, Holding
<1>5. CASE PendBlock(t) \/ PostBlock(t)
  BY <1>1, <1>3, <1>5, StaysBlock DEF PendBlock, PostBlock, OSSemPend, OSSemPost
<1>6. CASE GetBlock(t)
  <2> USE <1>6 DEF GetBlock, OSMemGet
  <2> DEFINE m == [buf |-> FirstFree, number |-> 0]
  <2>1. /\ free # <<>> /\ free' = Tail(free) /\ queue' = queue
        /\ held[t].buf = Null /\ held' = [held EXCEPT ![t] = m]
        /\ m.buf = Head(free) /\ m.buf \in BlockSet /\ Len(free') = Len(free) - 1
    <3>1. free # <<>>
      BY GetFinds
    <3>2. Head(free) \in BlockSet /\ Len(Tail(free)) = Len(free) - 1
      BY <1>2, <3>1 DEF Placed
    <3>3. held[t].buf = Null
      BY DEF HandsInv
    <3> QED BY <3>1, <3>2, <3>3 DEF FirstFree
  <2> HIDE DEF m
  <2>2. OnceInv' /\ SomewhereInv'
    BY <1>1, <1>2, <2>1, MoveGet
  <2>3. Cardinality(Holding') = Cardinality(Holding) + 1
    BY <1>2, <2>1, Takes
  <2>4. SumInv'
    BY <1>1, <1>4, <2>1, <2>3 DEF SumInv
  <2> QED BY <1>1, <1>3, <2>1, <2>2, <2>4
<1>7. CASE PutBlock(t)
  <2> USE <1>7 DEF PutBlock, OSMemPut
  <2>1. /\ free' = <<held[t].buf>> \o free /\ queue' = queue
        /\ held' = [held EXCEPT ![t] = NoMessage] /\ held[t].buf \in BlockSet
    BY <1>1 DEF FreeInv, Putting
  <2>2. Len(free') = Len(free) + 1
    BY <1>2, <2>1 DEF Placed
  <2>3. OnceInv' /\ SomewhereInv'
    BY <1>1, <1>2, <2>1, MovePut
  <2>4. Cardinality(Holding') = Cardinality(Holding) - 1
    BY <1>2, <2>1, Gives
  <2>5. SumInv'
    BY <1>1, <1>4, <2>1, <2>2, <2>4 DEF SumInv
  <2> QED BY <1>1, <1>3, <2>1, <2>3, <2>5
<1> QED BY <1>5, <1>6, <1>7 DEF TaskMm1

(* mm2 moves its blocks through the queue and back. *)
LEMMA BlockMm2 ==
  ASSUME Inv, BlockInv, BlocksFit, NEW t \in Tasks, TaskMm2(t)
  PROVE  BlockInv'
<1> USE UcosKernelAssumption DEF Inv, Step, GoTo, Hold, BlockInv, Owners
<1>1. program = "mm2" /\ program' = program
  BY InMm2
<1>2. Placed
  BY <1>1 DEF Placed, TypeOK, HeldInv, BlockMessages
<1>3. /\ Len(free) \in Nat /\ Len(queue) \in Nat /\ Cardinality(Holding) \in Nat
      /\ Len(Blocks) \in Nat
  BY <1>2, FiniteTasks DEF Placed, Holding
<1>4. CASE GetMessage(t)
  <2> USE <1>4 DEF GetMessage, OSMemGet
  <2> DEFINE m == [buf |-> FirstFree, number |-> 0]
  <2>1. /\ queue' = queue /\ held[t].buf = Null /\ held' = [held EXCEPT ![t] = m]
        /\ HandsInv'
    BY DEF HandsInv, TypeOK
  <2>2. CASE free # <<>>
    <3>1. /\ free' = Tail(free) /\ m.buf = Head(free) /\ m.buf \in BlockSet
          /\ Len(free') = Len(free) - 1
      BY <1>2, <2>2 DEF FirstFree, Placed
    <3> HIDE DEF m
    <3>2. OnceInv' /\ SomewhereInv'
      BY <1>1, <1>2, <2>1, <2>2, <3>1, MoveGet
    <3>3. Cardinality(Holding') = Cardinality(Holding) + 1
      BY <1>2, <2>1, <3>1, Takes
    <3>4. SumInv'
      BY <1>1, <1>3, <2>1, <3>1, <3>3 DEF SumInv
    <3> QED BY <1>1, <2>1, <3>2, <3>4
  <2>3. CASE free = <<>>
    <3>1. /\ free' = free /\ held'[t].buf = Null
          /\ \A u \in Tasks \ {t} : held'[u] = held[u]
      BY <1>2, <2>1, <2>3 DEF FirstFree, Placed
    <3>2. \A u \in Tasks : held'[u].buf = held[u].buf
      BY <2>1, <3>1
    <3>3. Holding' = Holding
      BY <3>2 DEF Holding
    <3> QED BY <1>1, <2>1, <3>1, <3>2, <3>3 DEF OnceInv, SomewhereInv, SumInv
  <2> QED BY <2>2, <2>3
<1>5. CASE PrintBlock(t)
  <2> USE <1>5 DEF PrintBlock, Sprintf, kernelVars
  <2>1. /\ free' = free /\ queue' = queue /\ HandsInv'
        /\ \A u \in Tasks : held'[u].buf = held[u].buf
    BY DEF HandsInv, TypeOK
  <2>2. Holding' = Holding
    BY <2>1 DEF Holding
  <2> QED BY <1>1, <2>1, <2>2 DEF OnceInv, SomewhereInv, SumInv
<1>6. CASE PostMessage(t)
  <2> USE <1>6 DEF PostMessage
  <2>1. /\ held[t] \in BlockMessages /\ held[t].buf \in BlockSet
        /\ held' = [held EXCEPT ![t] = NoMessage] /\ HandsInv'
    BY <1>1 DEF HeldInv, BlockMessages, HandsInv, TypeOK, NoMessage
  <2>2. Cardinality(Holding') = Cardinality(Holding) - 1 /\ Cardinality(Holding') \in Nat
    BY <1>2, <2>1, Gives, FiniteTasks DEF Holding
  <2>3. ~QFull
    BY <1>1, <1>3, <2>2 DEF QFull, SumInv, BlocksFit
  <2>4. free' = free /\ queue' = Append(queue, held[t])
    BY <2>3 DEF OSQPost
  <2>5. Len(queue') = Len(queue) + 1
    BY <1>2, <2>1, <2>4 DEF Placed
  <2>6. OnceInv' /\ SomewhereInv'
    BY <1>1, <1>2, <2>1, <2>4, MovePost
  <2>7. SumInv'
    BY <1>1, <1>3, <2>2, <2>4, <2>5 DEF SumInv
  <2> QED BY <1>1, <2>1, <2>6, <2>7
<1>7. CASE DelayTask(t) \/ Query(t) \/ Sleep(t)
  <2> USE <1>7 DEF DelayTask, Sleep, Delay, NoDelay, OSTimeDly, Query, kernelVars
  <2>1. HandsInv' /\ UNCHANGED <<free, queue, held>>
    BY DEF HandsInv, TypeOK
  <2> QED BY <1>1, <2>1, StaysBlock
<1>8. CASE PendMessage(t)
  <2> USE <1>8 DEF PendMessage
  <2>1. queue # <<>> /\ held[t].buf = Null
    BY <1>1, PendFinds DEF HandsInv
  <2>2. /\ free' = free /\ queue' = Tail(queue)
        /\ held' = [held EXCEPT ![t] = Head(queue)] /\ pc' = [pc EXCEPT ![t] = "log"]
    BY <2>1 DEF OSQPend
  <2>3. Head(queue).buf \in BlockSet /\ Len(queue') = Len(queue) - 1
    BY <1>2, <2>1, <2>2 DEF Placed
  <2>4. OnceInv' /\ SomewhereInv' /\ HandsInv'
    BY <1>1, <1>2, <2>1, <2>2, MovePend DEF HandsInv, TypeOK
  <2>5. Cardinality(Holding') = Cardinality(Holding) + 1
    BY <1>2, <2>1, <2>2, <2>3, Takes
  <2>6. SumInv'
    BY <1>1, <1>3, <2>2, <2>3, <2>5 DEF SumInv
  <2> QED BY <1>1, <2>4, <2>6
<1>9. CASE LogMessage(t)
  <2> USE <1>9 DEF LogMessage, OSMemPut
  <2>1. /\ held[t].buf \in BlockSet /\ free' = <<held[t].buf>> \o free /\ queue' = queue
        /\ held' = [held EXCEPT ![t] = NoMessage] /\ HandsInv'
    BY <1>1 DEF HeldInv, BlockMessages, HandsInv, TypeOK, NoMessage
  <2>2. Len(free') = Len(free) + 1
    BY <1>2, <2>1 DEF Placed
  <2>3. OnceInv' /\ SomewhereInv'
    BY <1>1, <1>2, <2>1, MovePut
  <2>4. Cardinality(Holding') = Cardinality(Holding) - 1
    BY <1>2, <2>1, Gives
  <2>5. SumInv'
    BY <1>1, <1>3, <2>1, <2>2, <2>4 DEF SumInv
  <2> QED BY <1>1, <2>1, <2>3, <2>5
<1> QED BY <1>4, <1>5, <1>6, <1>7, <1>8, <1>9 DEF TaskMm2

(* The tasks of mq1 post their array, and those of sm1 and sm2 none.  *)
LEMMA BlockOthers ==
  ASSUME Inv, BlockInv, NEW t \in Tasks, TaskMq1(t) \/ TaskSm1(t) \/ TaskSm2(t)
  PROVE  BlockInv'
<1> USE UcosKernelAssumption DEF Inv, Step, GoTo, Hold, BlockInv, Owners
<1>1. CASE TaskMq1(t)
  <2>1. program = "mq1" /\ program' = program /\ free' = free /\ UnusedInv
    BY <1>1 DEF TaskMq1, PrintLocal, Sprintf, PostLocal, DelayLocal, Delay, PendLocal,
                LogLocal, OSQPost, OSTimeDly, OSQPend, kernelVars
  <2>2. CASE PrintLocal(t)
    <3>1. held' = [held EXCEPT ![t] = [buf |-> TaskStk, number |-> text'[TaskStk]]] /\ HandsInv'
      BY <2>2 DEF PrintLocal, Sprintf, HandsInv, TypeOK
    <3>2. queue' = queue
      BY <2>2 DEF PrintLocal, Sprintf, kernelVars
    <3> QED BY <2>1, <3>1, <3>2, UcosAssumption DEF UnusedInv, TypeOK
  <2>3. CASE PostLocal(t)
    <3> USE <2>3 DEF PostLocal, OSQPost
    <3>1. CASE QFull
      BY <2>1, <3>1 DEF UnusedInv, HandsInv, TypeOK
    <3>2. CASE ~QFull
      <4>1. /\ queue' = Append(queue, Local(t)) /\ Local(t).buf = held[t].buf
            /\ held' = [held EXCEPT ![t] = NoMessage] /\ pc' = [pc EXCEPT ![t] = "delay"]
        BY <3>2 DEF Local
      <4>2. \A j \in DOMAIN queue' : queue'[j].buf \notin BlockSet
        <5>1. /\ \A j \in DOMAIN queue' : j = Len(queue) + 1 \/ j \in DOMAIN queue
              /\ \A j \in DOMAIN queue : queue'[j] = queue[j]
              /\ queue'[Len(queue) + 1] = Local(t)
          BY <4>1 DEF TypeOK
        <5> QED BY <2>1, <4>1, <5>1 DEF UnusedInv
      <4>3. HandsInv' /\ \A u \in Tasks : held'[u].buf \notin BlockSet
        BY <2>1, <4>1 DEF HandsInv, UnusedInv, TypeOK, NoMessage
      <4> QED BY <2>1, <4>2, <4>3 DEF UnusedInv
    <3> QED BY <3>1, <3>2
  <2>4. CASE DelayLocal(t)
    <3>1. HandsInv' /\ UNCHANGED <<queue, held>>
      BY <2>4 DEF DelayLocal, Delay, OSTimeDly, HandsInv, TypeOK
    <3> QED BY <2>1, <3>1 DEF UnusedInv
  <2>5. CASE PendLocal(t)
    <3> USE <2>5 DEF PendLocal, OSQPend
    <3>1. CASE queue = <<>>
      BY <2>1, <3>1 DEF UnusedInv, HandsInv
    <3>2. CASE queue # <<>>
      <4>1. /\ queue' = Tail(queue) /\ held' = [held EXCEPT ![t] = queue[1]]
            /\ pc' = [pc EXCEPT ![t] = "log"] /\ 1 \in DOMAIN queue
        BY <3>2 DEF TypeOK
      <4>2. \A j \in DOMAIN queue' : j + 1 \in DOMAIN queue /\ queue'[j] = queue[j + 1]
        BY <3>2, <4>1 DEF TypeOK
      <4>3. HandsInv' /\ \A u \in Tasks : held'[u].buf \notin BlockSet
        BY <2>1, <4>1 DEF HandsInv, UnusedInv, TypeOK
      <4> QED BY <2>1, <4>2, <4>3 DEF UnusedInv
    <3> QED BY <3>1, <3>2
  <2>6. CASE LogLocal(t)
    <3>1. HandsInv' /\ queue' = queue /\ held' = [held EXCEPT ![t] = NoMessage]
      BY <2>6 DEF LogLocal, kernelVars, HandsInv, TypeOK, NoMessage
    <3> QED BY <2>1, <3>1 DEF UnusedInv, TypeOK, NoMessage
  <2> QED BY <1>1, <2>2, <2>3, <2>4, <2>5, <2>6 DEF TaskMq1
<1>2. CASE TaskSm1(t) \/ TaskSm2(t)
  <2>1. /\ program \in {"sm1", "sm2"} /\ UNCHANGED <<program, free, queue, held>>
        /\ \E s \in {"open", "between", "close", "after", "post", "pend"} :
             pc' = [pc EXCEPT ![t] = s]
        /\ pc[t] \notin {"put", "print", "qpost", "log"}
    BY <1>2 DEF TaskSm1, OpenFile, DelayOpen, CloseFile, DelayClosed, Delay, NoDelay,
                TaskSm2, PendFile, PostFile, OSTimeDly, OSSemPend, OSSemPost, kernelVars,
                Entry
  <2>2. HandsInv'
    BY <2>1 DEF HandsInv, TypeOK
  <2> QED BY <2>1, <2>2, StaysBlock
<1> QED BY <1>1, <1>2

(* Every step keeps each block in one place. *)
LEMMA NextBlock ==
  BlocksFit /\ Inv /\ BlockInv /\ [Next]_vars => BlockInv'
<1> SUFFICES ASSUME BlocksFit, Inv, BlockInv, [Next]_vars PROVE BlockInv'
  OBVIOUS
<1>1. CASE UNCHANGED vars
  BY <1>1, StaysBlock DEF vars, kernelVars, taskVars, BlockInv, HandsInv
<1>2. ASSUME NEW t \in Tasks, ClockTick(t) PROVE BlockInv'
  BY <1>2, StaysBlock DEF ClockTick, Tick, taskVars, BlockInv, HandsInv
<1> QED BY <1>1, <1>2, BlockMm1, BlockMm2, BlockOthers DEF Next

(* At first every block is free. *)
LEMMA InitBlock == BlocksFit /\ Init => BlockInv
<1> SUFFICES ASSUME BlocksFit, Init PROVE BlockInv
  OBVIOUS
<1> USE UcosKernelAssumption DEF Init
<1>1. /\ queue = <<>> /\ free = Blocks
      /\ \A t \in Tasks : held[t].buf = Null
  BY DEF NoMessage
<1>2. HandsInv /\ OnceInv
  BY <1>1 DEF HandsInv, OnceInv, BlocksFit, BlockSet
<1>3. SomewhereInv
  BY <1>1 DEF SomewhereInv, BlockSet
<1>4. Holding = {} /\ Len(queue) = 0
  BY <1>1 DEF Holding
<1>5. SumInv
  <2>1. Cardinality(Holding) = 0 /\ Len(Blocks) \in Nat
    BY <1>4, FS_EmptySet
  <2> QED BY <1>1, <1>4, <2>1 DEF SumInv
<1>6. UnusedInv
  BY <1>1 DEF UnusedInv
<1> QED BY <1>1, <1>2, <1>3, <1>5, <1>6 DEF BlockInv

(* No block of the partition is lost and none is given out twice, when the *)
(* queue can take them all, though nobody looks at the result of OSQPost.  *)
THEOREM BlocksKept == BlocksFit => (Spec => []BlocksConserved)
<1> SUFFICES ASSUME BlocksFit PROVE Spec => []BlocksConserved
  OBVIOUS
<1>1. Inv /\ BlockInv => BlocksConserved
  <2> SUFFICES ASSUME Inv, BlockInv, NEW b \in BlockSet PROVE Cardinality(Places(b)) = 1
    BY DEF BlocksConserved
  <2>1. Null # b
    BY UcosKernelAssumption
  <2>2. CASE program \in Owners
    <3>1. CASE \E i \in DOMAIN free : free[i] = b
      <4>1. PICK i \in DOMAIN free : free[i] = b
        BY <3>1
      <4>2. Places(b) = {<<"free", i>>}
        BY <2>2, <4>1 DEF BlockInv, OnceInv, Places
      <4> QED BY <4>2, FS_Singleton
    <3>2. CASE \E j \in DOMAIN queue : queue[j].buf = b
      <4>1. PICK j \in DOMAIN queue : queue[j].buf = b
        BY <3>2
      <4>2. Places(b) = {<<"queue", j>>}
        BY <2>2, <4>1 DEF BlockInv, OnceInv, Places
      <4> QED BY <4>2, FS_Singleton
    <3>3. CASE \E t \in Tasks : held[t].buf = b
      <4>1. PICK t \in Tasks : held[t].buf = b
        BY <3>3
      <4>2. Places(b) = {<<"held", t>>}
        BY <2>1, <2>2, <4>1 DEF BlockInv, OnceInv, Places
      <4> QED BY <4>2, FS_Singleton
    <3> QED BY <2>2, <3>1, <3>2, <3>3 DEF BlockInv, SomewhereInv
  <2>3. CASE program \notin Owners
    <3>1. PICK i \in DOMAIN Blocks : Blocks[i] = b
      BY DEF BlockSet
    <3>2. Places(b) = {<<"free", i>>}
      BY <2>3, <3>1 DEF BlockInv, UnusedInv, Places, BlocksFit
    <3> QED BY <3>2, FS_Singleton
  <2> QED BY <2>2, <2>3
<1> QED BY <1>1, InitBlock, NextBlock, InvHolds, PTL DEF Spec

-----------------------------------------------------------------------------
(* The texts of the messages *)

(* OSTaskCreate gives LogTask the first priority, as in mq1.c and mm2.c.   *)
LogFirst == \A t \in Tasks : LogTask <= t

Posters == {"mm2", "mq1"}

Intact(m) == text[m.buf] = m.number

IntactInv ==
  /\ program \in Posters =>
       /\ \A j \in DOMAIN queue : Intact(queue[j])
       /\ \A t \in Tasks :
            pc[t] = "log" \/ (program = "mm2" /\ pc[t] = "qpost") => Intact(held[t])
  /\ program \notin Posters => queue = <<>>

(* As long as a message of mq1 is under way LogTask is ready, so that no   *)
(* sender runs.                                                            *)
AwakeInv ==
  program = "mq1" =>
    /\ qWait \subseteq {LogTask}
    /\ LogTask \notin ready =>
         queue = <<>> /\ pc[LogTask] = "qpend" /\ qWait = {LogTask}

(* In mm2 a block in the queue is in nobody's hands to be written. *)
LEMMA IntactMm2 ==
  ASSUME Inv, BlockInv, IntactInv, NEW t \in Tasks, TaskMm2(t)
  PROVE  IntactInv'
<1> USE DEF Inv, Step, GoTo, Hold, Posters, Owners, BlockInv
<1>1. program = "mm2" /\ program' = program /\ OnceInv
  BY InMm2
<1>2. CASE GetMessage(t)
  BY <1>1, <1>2 DEF GetMessage, OSMemGet, IntactInv, Intact, TypeOK
<1>3. CASE PrintBlock(t)
  <2> USE <1>3 DEF PrintBlock, Sprintf, kernelVars
  <2> DEFINE b == held[t].buf
  <2>1. b \in BlockSet /\ b # Null /\ b \in Buffers
    BY <1>1 DEF HeldInv, Buffers
  <2>2. /\ text'[b] = held'[t].number /\ held'[t].buf = b
        /\ \A c \in Buffers \ {b} : text'[c] = text[c]
        /\ \A u \in Tasks \ {t} : held'[u] = held[u] /\ pc'[u] = pc[u]
        /\ queue' = queue
    BY <2>1 DEF TypeOK
  <2>3. /\ \A j \in DOMAIN queue : queue[j].buf \in Buffers \ {b} /\ Intact(queue[j])
        /\ \A u \in Tasks \ {t} : pc[u] \in {"qpost", "log"} =>
             held[u].buf \in Buffers \ {b} /\ Intact(held[u])
    <3>1. /\ \A j \in DOMAIN queue : queue[j] \in BlockMessages
          /\ \A u \in Tasks : pc[u] \in {"qpost", "log"} => held[u] \in BlockMessages
      BY <1>1 DEF HeldInv
    <3>2. \A m \in BlockMessages : m.buf \in Buffers
      BY DEF BlockMessages, Buffers
    <3> QED BY <1>1, <2>1, <3>1, <3>2 DEF OnceInv, IntactInv
  <2> HIDE DEF b
  <2> QED BY <1>1, <2>2, <2>3 DEF IntactInv, Intact
<1>4. CASE PostMessage(t)
  <2> USE <1>4 DEF PostMessage, OSQPost
  <2>1. \A j \in DOMAIN queue' :
          \/ j \in DOMAIN queue /\ queue'[j] = queue[j]
          \/ queue'[j] = held[t]
    BY DEF QFull, TypeOK
  <2>2. \A j \in DOMAIN queue' : Intact(queue'[j])
    BY <1>1, <2>1 DEF IntactInv
  <2> QED BY <1>1, <2>2 DEF IntactInv, Intact, TypeOK
<1>5. CASE DelayTask(t) \/ Query(t) \/ Sleep(t)
  BY <1>1, <1>5
  DEF DelayTask, Sleep, Delay, NoDelay, OSTimeDly, Query, kernelVars, IntactInv, Intact,
      TypeOK
<1>6. CASE PendMessage(t)
  <2> USE <1>6 DEF PendMessage
  <2>1. queue # <<>>
    BY PendFinds
  <2>2. /\ queue' = Tail(queue) /\ text' = text
        /\ held' = [held EXCEPT ![t] = queue[1]] /\ pc' = [pc EXCEPT ![t] = "log"]
    BY <2>1 DEF OSQPend, TypeOK
  <2>3. /\ 1 \in DOMAIN queue
        /\ \A j \in DOMAIN queue' : j + 1 \in DOMAIN queue /\ queue'[j] = queue[j + 1]
    BY <2>1, <2>2 DEF TypeOK
  <2> QED BY <1>1, <2>2, <2>3 DEF IntactInv, Intact, TypeOK
<1>7. CASE LogMessage(t)
  BY <1>1, <1>7 DEF LogMessage, OSMemPut, IntactInv, Intact, TypeOK
<1> QED BY <1>2, <1>3, <1>4, <1>5, <1>6, <1>7 DEF TaskMm2

(* A task other than LogTask runs in mq1 only when no message is under way.*)
LEMMA SenderAlone ==
  ASSUME Inv, LogFirst, AwakeInv, program = "mq1", NEW t \in Tasks, Running(t), t # LogTask
  PROVE  queue = <<>> /\ pc[LogTask] = "qpend" /\ qWait = {LogTask} /\ LogTask \notin ready
<1>1. LogTask <= t /\ LogTask \in Nat /\ t \in Nat
  BY UcosKernelAssumption, UcosAssumption DEF LogFirst
<1>2. LogTask \notin ready
  BY <1>1 DEF Running, Earlier
<1> QED BY <1>2 DEF AwakeInv

(* In mq1 the log task runs before a sender writes its array again. *)
LEMMA IntactMq1 ==
  ASSUME Inv, LogFirst, IntactInv, AwakeInv, NEW t \in Tasks, TaskMq1(t)
  PROVE  IntactInv' /\ AwakeInv'
<1> USE UcosKernelAssumption, UcosAssumption DEF Inv, Step, GoTo, Hold, Posters
<1>1. program = "mq1" /\ program' = program /\ Running(t) /\ t \in ready
  BY DEF TaskMq1, PrintLocal, Sprintf, PostLocal, DelayLocal, Delay, PendLocal, LogLocal,
         Running
<1> /\ t = LogTask => pc[t] \in {"qpend", "log"}
    /\ \A u \in Tasks \ {LogTask} : pc[u] \in {"print", "qpost", "delay"}
  BY <1>1 DEF StepsInv, StepsOf
<1>2. CASE PrintLocal(t)
  <2> USE <1>2 DEF PrintLocal, Sprintf, kernelVars
  <2>1. queue = <<>> /\ pc[LogTask] = "qpend" /\ t # LogTask
    BY <1>1, SenderAlone
  <2>2. /\ \A u \in Tasks \ {t} : pc'[u] = pc[u]
        /\ queue' = queue /\ pc'[t] = "qpost"
    BY DEF TypeOK
  <2>3. IntactInv'
    BY <1>1, <2>1, <2>2 DEF IntactInv
  <2>4. AwakeInv'
    BY <1>1, <2>1, <2>2 DEF AwakeInv
  <2> QED BY <2>3, <2>4
<1>3. CASE PostLocal(t)
  <2> USE <1>3 DEF PostLocal
  <2>1. /\ queue = <<>> /\ pc[LogTask] = "qpend" /\ t # LogTask
        /\ qWait = {LogTask} /\ LogTask \notin ready
    BY <1>1, SenderAlone
  <2>2. CASE QFull
    BY <1>1, <2>1, <2>2 DEF OSQPost, IntactInv, AwakeInv, Intact
  <2>3. CASE ~QFull
    <3>1. FirstOf(qWait) = LogTask
      BY <2>1, FirstWaits
    <3>2. /\ ready' = ready \cup {LogTask} /\ qWait' = {} /\ queue' = <<Local(t)>>
          /\ held' = [held EXCEPT ![t] = NoMessage] /\ pc' = [pc EXCEPT ![t] = "delay"]
          /\ text' = text
      <4>1. qWait # {} /\ ~(QFull \/ qWait = {})
        BY <2>1, <2>3
      <4>2. /\ queue' = Append(queue, Local(t))
            /\ ready' = ready \cup {LogTask} /\ qWait' = qWait \ {LogTask}
        BY <2>3, <3>1, <4>1 DEF OSQPost
      <4> QED BY <2>1, <2>3, <4>2
    <3>3. IntactInv'
      <4>1. \A j \in DOMAIN queue' : queue'[j] = Local(t)
        BY <3>2
      <4>2. \A u \in Tasks : pc'[u] # "log"
        BY <2>1, <3>2 DEF TypeOK
      <4>3. text'[Local(t).buf] = Local(t).number
        BY <3>2 DEF Local
      <4> QED BY <1>1, <4>1, <4>2, <4>3 DEF IntactInv, Intact
    <3>4. AwakeInv'
      BY <1>1, <3>2 DEF AwakeInv, TypeOK
    <3> QED BY <3>3, <3>4
  <2> QED BY <2>2, <2>3
<1>4. CASE DelayLocal(t)
  <2> USE <1>4 DEF DelayLocal, Delay, OSTimeDly
  <2>1. t # LogTask
    OBVIOUS
  <2> QED BY <1>1, <2>1 DEF IntactInv, AwakeInv, Intact, TypeOK
<1>5. CASE PendLocal(t)
  <2> USE <1>5 DEF PendLocal, OSQPend
  <2>1. t = LogTask
    OBVIOUS
  <2>2. CASE queue = <<>>
    BY <1>1, <2>1, <2>2 DEF IntactInv, AwakeInv, Intact
  <2>3. CASE queue # <<>>
    <3>1. /\ queue' = Tail(queue) /\ text' = text /\ ready' = ready /\ qWait' = qWait
          /\ held' = [held EXCEPT ![t] = queue[1]] /\ pc' = [pc EXCEPT ![t] = "log"]
      BY <2>3 DEF TypeOK
    <3>2. /\ 1 \in DOMAIN queue
          /\ \A j \in DOMAIN queue' : j + 1 \in DOMAIN queue /\ queue'[j] = queue[j + 1]
      BY <2>3, <3>1 DEF TypeOK
    <3>3. IntactInv'
      BY <1>1, <3>1, <3>2 DEF IntactInv, Intact, TypeOK
    <3>4. AwakeInv'
      BY <1>1, <2>1, <3>1 DEF AwakeInv, TypeOK
    <3> QED BY <3>3, <3>4
  <2> QED BY <2>2, <2>3
<1>6. CASE LogLocal(t)
  <2> USE <1>6 DEF LogLocal, kernelVars
  <2> QED BY <1>1 DEF IntactInv, AwakeInv, Intact, TypeOK
<1> QED BY <1>2, <1>3, <1>4, <1>5, <1>6 DEF TaskMq1

(* Every step keeps the texts that are not logged yet. *)
LEMMA NextIntact ==
  LogFirst /\ Inv /\ BlockInv /\ IntactInv /\ AwakeInv /\ [Next]_vars
    => IntactInv' /\ AwakeInv'
<1> SUFFICES ASSUME LogFirst, Inv, BlockInv, IntactInv, AwakeInv, [Next]_vars
             PROVE  IntactInv' /\ AwakeInv'
  OBVIOUS
<1> USE DEF Inv, Posters
<1>1. CASE UNCHANGED vars
  BY <1>1 DEF vars, kernelVars, taskVars, IntactInv, AwakeInv, Intact
<1>2. ASSUME NEW t \in Tasks, TaskMm1(t) \/ TaskSm1(t) \/ TaskSm2(t)
      PROVE  IntactInv' /\ AwakeInv'
  <2>1. program \in {"mm1", "sm1", "sm2"} /\ program' = program /\ queue' = queue
    BY <1>2 DEF TaskSm1, OpenFile, DelayOpen, CloseFile, DelayClosed, Delay, NoDelay,
                TaskSm2, PendFile, PostFile, OSTimeDly, OSSemPend, OSSemPost, kernelVars,
                TaskMm1, PendBlock, GetBlock, PutBlock, PostBlock, OSMemGet, OSMemPut, Step
  <2> QED BY <2>1 DEF IntactInv, AwakeInv
<1>3. ASSUME NEW t \in Tasks, TaskMm2(t) PROVE IntactInv' /\ AwakeInv'
  BY <1>3, InMm2, IntactMm2 DEF AwakeInv
<1>4. ASSUME NEW t \in Tasks, ClockTick(t) PROVE IntactInv' /\ AwakeInv'
  BY <1>4 DEF ClockTick, Tick, taskVars, IntactInv, AwakeInv, Intact
<1> QED BY <1>1, <1>2, <1>3, <1>4, IntactMq1 DEF Next

(* When LogTask has the first priority, it logs what a message read when   *)
(* it was posted, though the tasks of mq1 all write the array that each of *)
(* them posts; in mm2 that is what the sender wrote.                       *)
THEOREM TextLogged == BlocksFit /\ LogFirst => (Spec => []TextKept)
<1> SUFFICES ASSUME BlocksFit, LogFirst PROVE Spec => []TextKept
  OBVIOUS
<1>1. Inv /\ BlockInv /\ IntactInv => TextKept
  <2> SUFFICES ASSUME Inv, BlockInv, IntactInv PROVE TextKept
    OBVIOUS
  <2>1. held[LogTask].buf # Null /\ program # "mm1" =>
          pc[LogTask] = "log" /\ program \in Posters
    BY UcosAssumption DEF Inv, TypeOK, StepsInv, StepsOf, BlockInv, HandsInv, Posters
  <2> QED BY <2>1, UcosAssumption DEF IntactInv, Intact, TextKept
<1>2. Init => IntactInv /\ AwakeInv
  BY UcosAssumption DEF Init, IntactInv, AwakeInv, Entry, Posters
<1> QED BY <1>1, <1>2, InitBlock, NextBlock, NextIntact, InvHolds, PTL DEF Spec
=============================================================================
