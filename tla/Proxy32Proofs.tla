---------------------------- MODULE Proxy32Proofs ----------------------------
(***************************************************************************)
(* Proofs about proxy 3-2, for any process table, any number of            *)
(* connections and failures, any URLs and any digests: what the thread of  *)
(* check_url may rely on, though it shares a buffer with its process.      *)
(***************************************************************************)
EXTENDS Proxy32, ProxyPartsProofs

-----------------------------------------------------------------------------
(* Proxy 3-2 is a tree of acceptors *)

(* Each step of proxy 3-2 is a step of Acceptors, or none. *)
LEMMA StepAsAcceptors == [Next]_vars => [AcceptNext]_acceptVars
<1> SUFFICES ASSUME [Next]_vars PROVE [AcceptNext]_acceptVars
  OBVIOUS
<1>1. CASE UNCHANGED vars
  BY <1>1 DEF vars
<1>2. CASE NewConnection
  BY <1>2 DEF NewConnection, AcceptNext
<1>3. ASSUME NEW p \in Procs,
             StartServer(p) \/ LoopStep(p) \/ \E q \in Procs : ForkChild(p, q)
      PROVE  AcceptNext
  BY <1>3 DEF StartServer, LoopStep, ForkChild, AcceptNext, AcceptLoop
<1>4. ASSUME NEW p \in Procs, EnterZone(p) \/ Serve(p)
      PROVE  [AcceptNext]_acceptVars
  BY <1>4 DEF EnterZone, Serve, CreateThread, ReadRequest, CopyBegin, CopyEnd, Resolve,
              JoinThread, LeaveZone, Answer, thread_routine, Crash, AcceptNext
<1>5. ASSUME NEW p \in Procs, Interrupt(p) \/ Kill(p) \/ Handler(p) PROVE AcceptNext
  BY <1>5 DEF Interrupt, Kill, Handler, AcceptNext
<1> QED BY <1>1, <1>2, <1>3, <1>4, <1>5 DEF Next

(* Proxy 3-2 implements Acceptors, and so inherits what is proved of it:   *)
(* no zombie is forgotten and no connection is served twice.               *)
THEOREM ImplementsAcceptors == Spec => AcceptSpec
<1>1. Init => AcceptInit
  BY DEF Init
<1> QED BY <1>1, StepAsAcceptors, PTL DEF Spec, AcceptSpec

-----------------------------------------------------------------------------
(* Types *)

\* What belongs to the service of a connection, and the invariant that types it.
ServeTypeOK ==
  /\ SemTypeOK
  /\ DiskTypeOK(Lines)
  /\ CallTypeOK(ThreadSteps)
  /\ stage \in [Procs -> Stages]
  /\ request \in [Procs -> Urls]
  /\ BufferFull

\* The initial states are typed.
LEMMA InitServeTypes == Init => ServeTypeOK
BY CheckUrlAssumption
DEF Init, ServeTypeOK, SemInit, SemTypeOK, DiskInit, DiskTypeOK, CallInit, CallTypeOK,
    ThreadSteps, Stages, BufferFull, Unflushed, Folders

\* The end of a process keeps the types, whether its buffer is written or lost.
LEMMA EndsTypes ==
  ASSUME ServeTypeOK, NEW p \in Procs, Ends(p), Flush(p) \/ UNCHANGED log
  PROVE  ServeTypeOK'
<1>1. SemTypeOK'
  BY DEF ServeTypeOK, Ends, SemExit, SemTypeOK
<1>2. DiskTypeOK(Lines)'
  BY FlushStep DEF ServeTypeOK, Ends, DiskTypeOK
<1>3. CallTypeOK(ThreadSteps)' /\ BufferFull'
  BY ForgetStep DEF ServeTypeOK, Ends, ThreadSteps
<1>4. stage' \in [Procs -> Stages] /\ request' \in [Procs -> Urls]
  BY CheckUrlAssumption DEF ServeTypeOK, Ends, GoOn, Stages
<1> QED BY <1>1, <1>2, <1>3, <1>4 DEF ServeTypeOK

\* The thread's steps keep the types.
LEMMA ThreadTypes ==
  ASSUME ServeTypeOK, NEW p \in Procs, thread_routine(p)
  PROVE  ServeTypeOK'
<1>1. CheckSteps \cup {"return"} \subseteq ThreadSteps
  BY DEF ThreadSteps
<1>2. DiskTypeOK(Lines)' /\ CallTypeOK(ThreadSteps)' /\ BufferFull'
  BY <1>1, CheckStepTypes DEF thread_routine, check_url, ServeTypeOK
<1> QED BY <1>2 DEF thread_routine, ServeTypeOK, semVars, mainVars, SemTypeOK

\* The main thread's steps keep the types, also those that fill url.
LEMMA ServeTypes ==
  ASSUME ServeTypeOK, NEW p \in Procs, EnterZone(p) \/ Serve(p)
  PROVE  ServeTypeOK'
<1>1. CASE thread_routine(p)
  BY <1>1, ThreadTypes
<1>2. CASE Crash(p)
  BY <1>2, EndsTypes DEF Crash
<1>3. CASE Answer(p)
  <2>1. CallTypeOK(ThreadSteps)' /\ BufferFull'
    BY <1>3, ForgetStep DEF Answer, ServeTypeOK, ThreadSteps
  <2> QED
    BY <1>3, <2>1, CheckUrlAssumption
    DEF Answer, GoOn, Stages, ServeTypeOK, semVars, diskVars, SemTypeOK, DiskTypeOK
<1>4. CASE CreateThread(p)
  BY <1>4
  DEF CreateThread, Goto, GoOn, Stages, ServeTypeOK, semVars, diskVars, SemTypeOK,
      DiskTypeOK, CallTypeOK, ThreadSteps, CheckSteps, BufferFull, Unflushed
<1>5. ASSUME NEW u \in Urls, ReadRequest(p, u) PROVE ServeTypeOK'
  BY <1>5
  DEF ReadRequest, GoOn, Stages, ServeTypeOK, semVars, diskVars, callVars, SemTypeOK,
      DiskTypeOK, CallTypeOK, BufferFull, Unflushed
<1>6. CASE CopyBegin(p) \/ CopyEnd(p)
  BY <1>6, Proxy32Assumption
  DEF CopyBegin, CopyEnd, GoOn, Stages, ServeTypeOK, semVars, diskVars, SemTypeOK,
      DiskTypeOK, CallTypeOK, BufferFull, Unflushed
<1>7. CASE Resolve(p) \/ JoinThread(p)
  BY <1>7
  DEF Resolve, JoinThread, GoOn, Stages, ServeTypeOK, semVars, diskVars, callVars,
      SemTypeOK, DiskTypeOK, CallTypeOK, BufferFull, Unflushed
<1>8. CASE EnterZone(p) \/ LeaveZone(p)
  <2>1. SemTypeOK'
    BY <1>8 DEF EnterZone, LeaveZone, SemP, SemV, ServeTypeOK, SemTypeOK
  <2> QED
    BY <1>8, <2>1
    DEF EnterZone, LeaveZone, GoOn, Stages, ServeTypeOK, diskVars, callVars, DiskTypeOK,
        CallTypeOK, BufferFull, Unflushed
<1> QED BY <1>1, <1>2, <1>3, <1>4, <1>5, <1>6, <1>7, <1>8 DEF Serve

\* Every step keeps the types.
LEMMA NextServeTypes == ServeTypeOK /\ [Next]_vars => ServeTypeOK'
<1> SUFFICES ASSUME ServeTypeOK, [Next]_vars PROVE ServeTypeOK'
  OBVIOUS
<1>1. ASSUME UNCHANGED <<diskVars, callVars, request>>, SemTypeOK',
             stage' \in [Procs -> Stages]
      PROVE  ServeTypeOK'
  BY <1>1 DEF ServeTypeOK, diskVars, callVars, DiskTypeOK, CallTypeOK, BufferFull,
              Unflushed
<1> USE DEF semVars, mainVars, SemTypeOK
<1>2. CASE UNCHANGED vars
  BY <1>1, <1>2 DEF vars, ServeTypeOK
<1>3. CASE NewConnection
  BY <1>1, <1>3 DEF NewConnection, ServeTypeOK
<1>4. ASSUME NEW p \in Procs, StartServer(p) PROVE ServeTypeOK'
  BY <1>1, <1>4 DEF StartServer, SemSet, ServeTypeOK
<1>5. ASSUME NEW p \in Procs, LoopStep(p) \/ Handler(p) PROVE ServeTypeOK'
  BY <1>1, <1>5 DEF LoopStep, Handler, ServeTypeOK
<1>6. ASSUME NEW p \in Procs, NEW q \in Procs, ForkChild(p, q) PROVE ServeTypeOK'
  BY <1>1, <1>6 DEF ForkChild, Stages, ServeTypeOK
<1>7. ASSUME NEW p \in Procs, EnterZone(p) \/ Serve(p) PROVE ServeTypeOK'
  BY <1>7, ServeTypes
<1>8. ASSUME NEW p \in Procs, Interrupt(p) \/ Kill(p) PROVE ServeTypeOK'
  BY <1>8, EndsTypes DEF Interrupt, Kill
<1> QED BY <1>2, <1>3, <1>4, <1>5, <1>6, <1>7, <1>8 DEF Next

(* The variables of proxy 3-2 keep their types: also a thread that looks   *)
(* up half a URL writes whole lines to logfile.txt.                        *)
THEOREM Typed == Spec => []TypeOK
<1>1. Spec => []ServeTypeOK
  BY InitServeTypes, NextServeTypes, PTL DEF Spec
<1>2. Spec => []AcceptTypeOK
  BY ImplementsAcceptors, AcceptorsTyped, PTL
<1>3. ServeTypeOK /\ AcceptTypeOK => TypeOK
  BY DEF ServeTypeOK, TypeOK
<1> QED BY <1>1, <1>2, <1>3, PTL

-----------------------------------------------------------------------------
(* The critical zone and the thread *)

(* The semaphore counts the processes in the critical zone, the kernel     *)
(* owes it what each of them has taken, and a thread runs only from its    *)
(* creation to its join, which are both in the zone.                       *)
ZoneInv ==
  /\ \A p \in Procs : InZone(p) => life[p] = "serve" /\ semval = 0
  /\ \A p \in Procs : semadj[p] = IF InZone(p) THEN 1 ELSE 0
  /\ semval <= 1
  /\ \A p, q \in Procs : InZone(p) /\ InZone(q) => p = q
  /\ \A p \in Procs : Running(p) => InZone(p) /\ stage[p] \notin {"create", "v"}
  /\ LaunchFirst

\* The types both modules give, and what the process tree adds to them.
Typing == AcceptInv /\ ServeTypeOK

(* The types hold in every behaviour. *)
LEMMA TypingInvariant == Spec => []Typing
<1>1. Spec => []ServeTypeOK
  BY InitServeTypes, NextServeTypes, PTL DEF Spec
<1>2. Spec => []AcceptInv
  BY ImplementsAcceptors, AcceptorsInvariant, PTL
<1> QED BY <1>1, <1>2, PTL DEF Typing

\* The initial states satisfy the invariant of the zone.
LEMMA InitZone == Init => ZoneInv
BY DEF Init, SemInit, CallInit, AcceptInit, ZoneInv, InZone, Running, CheckSteps, LaunchFirst

(* The end of a process gives the semaphore back exactly when it ended in  *)
(* the critical zone, and ends its thread.                                 *)
LEMMA EndsZone ==
  ASSUME Typing, ZoneInv, NEW p \in Procs, Alive(p), EndOf(p), Ends(p)
  PROVE  ZoneInv'
<1> USE DEF Typing, ServeTypeOK, SemTypeOK, CallTypeOK, AcceptInv, AcceptTypeOK
<1>1. \A q \in Procs : InZone(q)' <=> InZone(q) /\ q # p
  BY DEF Ends, GoOn, InZone
<1>2. \A q \in Procs : life[q] = "serve" /\ q # p => life'[q] = "serve"
  BY DEF EndOf, ZombiesOf
<1>3. LaunchFirst'
  <2>1. \A q \in Procs : life'[q] = "unborn" <=> life[q] = "unborn"
    BY DEF EndOf, ZombiesOf, Alive
  <2> QED BY <2>1, AcceptorsAssumption DEF ZoneInv, LaunchFirst
<1>4. semval' = IF InZone(p) THEN 1 ELSE semval
  BY DEF Ends, SemExit, ZoneInv
<1>5. \A q \in Procs : semadj'[q] = IF InZone(q)' THEN 1 ELSE 0
  BY <1>1 DEF Ends, SemExit, ZoneInv
<1>6. \A q \in Procs : InZone(q)' => life'[q] = "serve" /\ semval' = 0
  BY <1>1, <1>2, <1>4 DEF ZoneInv
<1>7. \A q \in Procs : Running(q)' => InZone(q)' /\ stage'[q] \notin {"create", "v"}
  BY <1>1 DEF Ends, Forget, Goto, GoOn, Running, CheckSteps, ZoneInv
<1> QED BY <1>1, <1>3, <1>4, <1>5, <1>6, <1>7 DEF ZoneInv

(* Outside the zone's own steps only a launch touches the semaphore, and   *)
(* it finds no process there.                                              *)
LEMMA LoopZone ==
  ASSUME OneRoot, Typing, ZoneInv, NEW p \in Procs,
         \/ StartServer(p) \/ LoopStep(p) \/ Handler(p)
         \/ \E q \in Procs : ForkChild(p, q)
  PROVE  ZoneInv'
<1> USE AcceptorsAssumption
    DEF Typing, ServeTypeOK, SemTypeOK, CallTypeOK, AcceptInv, AcceptTypeOK, At
<1>1. CASE StartServer(p)
  <2>1. \A q \in Procs : ~ InZone(q)
    BY <1>1 DEF StartServer, Launch, ZoneInv, LaunchFirst
  <2>2. \A q \in Procs : ~ InZone(q)' /\ ~ Running(q)'
    BY <1>1, <2>1 DEF StartServer, callVars, mainVars, InZone, ZoneInv, Running
  <2>3. LaunchFirst'
    BY <1>1 DEF StartServer, Launch, OneRoot, LaunchFirst
  <2> QED BY <1>1, <2>2, <2>3 DEF StartServer, SemSet, ZoneInv
<1>2. ASSUME UNCHANGED <<semVars, callVars, mainVars>>,
             \A q \in Procs : life[q] = "serve" => life'[q] = "serve",
             \A q \in Procs : life'[q] = "unborn" <=> life[q] = "unborn"
      PROVE  ZoneInv'
  BY <1>2 DEF semVars, callVars, mainVars, ZoneInv, InZone, Running, LaunchFirst
<1>3. CASE LoopStep(p)
  BY <1>2, <1>3 DEF LoopStep, Bind, BindFail, Accept, AcceptFail, ForkFail, CloseCli
<1>4. CASE Handler(p)
  BY <1>2, <1>4 DEF Handler, ChldHandler, SigEnter, SigReap, SigReturn, ZombiesOf
<1>5. ASSUME NEW q \in Procs, ForkChild(p, q) PROVE ZoneInv'
  <2>1. life[q] = "unborn" /\ life[p] = "fork"
    BY <1>5 DEF ForkChild, Fork
  <2>2. \A r \in Procs : InZone(r)' <=> InZone(r)
    BY <1>5, <2>1 DEF ForkChild, ZoneInv, InZone
  <2>3. \A r \in Procs : life[r] = "serve" => life'[r] = "serve"
    BY <1>5 DEF ForkChild, Fork
  <2>4. LaunchFirst'
    BY <1>5, <2>1 DEF ForkChild, Fork, ZoneInv, LaunchFirst
  <2>5. \A r \in Procs : Running(r)' => InZone(r)' /\ stage'[r] \notin {"create", "v"}
    BY <1>5, <2>1, <2>2 DEF ForkChild, callVars, Running, ZoneInv
  <2> QED BY <1>5, <2>2, <2>3, <2>4, <2>5 DEF ForkChild, semVars, ZoneInv
<1> QED BY <1>1, <1>3, <1>4, <1>5

(* The steps of a child that serves, and of its thread. *)
LEMMA ServeZone ==
  ASSUME Typing, ZoneInv, NEW p \in Procs, EnterZone(p) \/ Serve(p)
  PROVE  ZoneInv'
<1> USE AcceptorsAssumption
    DEF Typing, ServeTypeOK, SemTypeOK, CallTypeOK, AcceptInv, AcceptTypeOK, At, Serving,
        GoOn
<1>1. ASSUME UNCHANGED <<acceptVars, semVars>>,
             \A q \in Procs : InZone(q)' <=> InZone(q),
             \A q \in Procs : Running(q)' => InZone(q) /\ stage'[q] \notin {"create", "v"}
      PROVE  ZoneInv'
  BY <1>1 DEF acceptVars, semVars, ZoneInv, LaunchFirst
<1>2. CASE EnterZone(p)
  <2>1. \A q \in Procs : ~ InZone(q)
    BY <1>2 DEF EnterZone, SemP, ZoneInv
  <2>2. \A q \in Procs : (InZone(q)' <=> q = p) /\ ~ Running(q)'
    BY <1>2, <2>1 DEF EnterZone, callVars, InZone, Running, ZoneInv
  <2>3. semval' = 0 /\ \A q \in Procs : semadj'[q] = IF q = p THEN 1 ELSE 0
    BY <1>2, <2>1 DEF EnterZone, SemP, ZoneInv
  <2>4. life'[p] = "serve" /\ LaunchFirst'
    BY <1>2 DEF EnterZone, acceptVars, ZoneInv, LaunchFirst
  <2> QED BY <2>2, <2>3, <2>4 DEF ZoneInv
<1>3. CASE CreateThread(p)
  BY <1>1, <1>3 DEF CreateThread, Goto, InZone, Running, ZoneInv
<1>4. ASSUME NEW u \in Urls, ReadRequest(p, u) PROVE ZoneInv'
  BY <1>1, <1>4 DEF ReadRequest, callVars, InZone, Running, ZoneInv
<1>5. CASE CopyBegin(p) \/ CopyEnd(p) \/ Resolve(p)
  BY <1>1, <1>5 DEF CopyBegin, CopyEnd, Resolve, callVars, InZone, Running, ZoneInv
<1>6. CASE JoinThread(p)
  BY <1>1, <1>6 DEF JoinThread, callVars, InZone, Running, CheckSteps, ZoneInv
<1>7. CASE thread_routine(p)
  <2>1. \A q \in Procs : Running(q)' => Running(q)
    BY <1>7
    DEF thread_routine, check_url, CheckUrl, Scan, MakeCache, MakeLogDir, MakeLogFile,
        HashUrl, LookupMissing, LookupHit, LookupOther, MakeDir, StoreFile, CloseLog,
        Goto, Running, CheckSteps
  <2> QED BY <1>1, <1>7, <2>1 DEF thread_routine, mainVars, InZone, ZoneInv
<1>8. CASE LeaveZone(p)
  <2>1. InZone(p) /\ \A q \in Procs : ~ Running(q)
    BY <1>8 DEF LeaveZone, InZone, ZoneInv
  <2>2. \A q \in Procs : ~ InZone(q)' /\ ~ Running(q)'
    BY <1>8, <2>1 DEF LeaveZone, callVars, ZoneInv, InZone, Running
  <2>3. semval' = 1 /\ \A q \in Procs : semadj'[q] = 0
    BY <1>8, <2>1 DEF LeaveZone, SemV, ZoneInv
  <2>4. LaunchFirst'
    BY <1>8 DEF LeaveZone, acceptVars, ZoneInv, LaunchFirst
  <2> QED BY <2>2, <2>3, <2>4 DEF ZoneInv
<1>9. CASE Answer(p)
  <2>1. \A q \in Procs : InZone(q)' <=> InZone(q)
    BY <1>9 DEF Answer, InZone
  <2>2. \A q \in Procs : InZone(q) => life'[q] = "serve"
    BY <1>9 DEF Answer, ServeEnd, ZoneInv, InZone
  <2>3. LaunchFirst'
    BY <1>9 DEF Answer, ServeEnd, ZoneInv, LaunchFirst
  <2>4. \A q \in Procs : Running(q)' => InZone(q)' /\ stage'[q] \notin {"create", "v"}
    BY <1>9, <2>1 DEF Answer, Forget, Goto, Running, CheckSteps, ZoneInv
  <2> QED BY <1>9, <2>1, <2>2, <2>3, <2>4 DEF Answer, semVars, ZoneInv
<1>10. CASE Crash(p)
  BY <1>10, EndsZone DEF Crash, Abort, Alive
<1> QED
  BY <1>2, <1>3, <1>4, <1>5, <1>6, <1>7, <1>8, <1>9, <1>10 DEF Serve

(* Every step keeps the invariant of the zone. *)
LEMMA NextZone == OneRoot /\ Typing /\ ZoneInv /\ [Next]_vars => ZoneInv'
<1> SUFFICES ASSUME OneRoot, Typing, ZoneInv, [Next]_vars PROVE ZoneInv'
  OBVIOUS
<1>1. ASSUME UNCHANGED <<life, semVars, callVars, mainVars>> PROVE ZoneInv'
  BY <1>1 DEF semVars, callVars, mainVars, ZoneInv, InZone, Running, LaunchFirst
<1>2. CASE UNCHANGED vars
  BY <1>1, <1>2 DEF vars, acceptVars
<1>3. CASE NewConnection
  BY <1>1, <1>3 DEF NewConnection, Connect
<1>4. ASSUME NEW p \in Procs,
             \/ StartServer(p) \/ LoopStep(p) \/ Handler(p)
             \/ \E q \in Procs : ForkChild(p, q)
      PROVE  ZoneInv'
  BY <1>4, LoopZone
<1>5. ASSUME NEW p \in Procs, EnterZone(p) \/ Serve(p) PROVE ZoneInv'
  BY <1>5, ServeZone
<1>6. ASSUME NEW p \in Procs, Interrupt(p) \/ Kill(p) PROVE ZoneInv'
  BY <1>6, EndsZone DEF Interrupt, Kill, Die
<1> QED BY <1>2, <1>3, <1>4, <1>5, <1>6 DEF Next

\* The invariant of the zone holds in every behaviour of a proxy launched once.
LEMMA ZoneInvariant == ASSUME OneRoot PROVE Spec => []ZoneInv
<1>1. Typing /\ ZoneInv /\ [Next]_vars => ZoneInv'
  BY NextZone
<1> QED BY <1>1, InitZone, TypingInvariant, PTL DEF Spec

(* When the proxy is launched once, no two threads are ever in check_url,  *)
(* and none outside the critical zone of its process: main joins the       *)
(* thread before v(), and the end of a process ends its thread before the  *)
(* kernel gives the semaphore back.                                        *)
THEOREM ThreadsApart == OneRoot => (Spec => []ThreadsExclusive)
<1> SUFFICES ASSUME OneRoot PROVE Spec => []ThreadsExclusive
  OBVIOUS
<1>1. ZoneInv => ThreadsExclusive
  BY DEF ZoneInv, ThreadsExclusive
<1> QED BY <1>1, ZoneInvariant, PTL

-----------------------------------------------------------------------------
(* The log *)

(* Every step keeps the invariant of the log, and the log.                 *)
LEMMA NextLog ==
  Typing /\ ZoneInv /\ LogInv /\ [Next]_vars => LogInv' /\ [LogGrows]_vars
<1> SUFFICES ASSUME Typing, ZoneInv, LogInv, [Next]_vars PROVE LogInv' /\ [LogGrows]_vars
  OBVIOUS
<1>a. ASSUME NEW p \in Procs, step[p] \in CheckSteps
      PROVE  \A q \in Procs \ {p} : step[q] \notin CheckSteps
  BY <1>a DEF ZoneInv, Running
<1>1. ASSUME UNCHANGED <<home, log>>,
             \A q \in Procs : UNCHANGED <<step[q], saw[q]>> \/ step'[q] \notin CheckSteps
      PROVE  LogInv' /\ LogGrows
  BY <1>1, AwayLog DEF LogGrows
<1> USE DEF Typing, ServeTypeOK
<1>2. CASE UNCHANGED vars
  BY <1>1, <1>2 DEF vars, diskVars, callVars
<1>3. CASE NewConnection
  BY <1>1, <1>3 DEF NewConnection, diskVars, callVars
<1>4. ASSUME NEW p \in Procs,
             \/ StartServer(p) \/ LoopStep(p) \/ Handler(p)
             \/ \E q \in Procs : ForkChild(p, q)
      PROVE  LogInv' /\ LogGrows
  BY <1>1, <1>4 DEF StartServer, LoopStep, Handler, ForkChild, diskVars, callVars
<1>5. ASSUME NEW p \in Procs, EnterZone(p) \/ Serve(p) PROVE LogInv' /\ LogGrows
  <2>1. CASE EnterZone(p)
    BY <1>1, <2>1 DEF EnterZone, diskVars, callVars
  <2>2. CASE CreateThread(p)
    <3>1. CASE Goto(p, "scan")
      <4>1. LogInv'
        BY <2>2, <3>1, EnterLog DEF CreateThread, diskVars
      <4> QED BY <2>2, <4>1 DEF CreateThread, diskVars, LogGrows
    <3>2. CASE UNCHANGED step
      BY <1>1, <2>2, <3>2 DEF CreateThread, diskVars
    <3> QED BY <2>2, <3>1, <3>2 DEF CreateThread
  <2>3. CASE thread_routine(p)
    <3>1. step[p] \in CheckSteps
      BY <2>3 DEF thread_routine, check_url, CheckUrl, Scan, MakeCache, MakeLogDir,
                  MakeLogFile, HashUrl, LookupMissing, LookupHit, LookupOther, MakeDir,
                  StoreFile, CloseLog, CheckSteps
    <3> QED BY <1>a, <2>3, <3>1, CheckStepLog DEF thread_routine, check_url
  <2>4. ASSUME NEW u \in Urls, ReadRequest(p, u) PROVE LogInv' /\ LogGrows
    BY <1>1, <2>4 DEF ReadRequest, diskVars, callVars
  <2>5. CASE \/ CopyBegin(p) \/ CopyEnd(p) \/ Resolve(p) \/ JoinThread(p)
             \/ LeaveZone(p)
    BY <1>1, <2>5 DEF CopyBegin, CopyEnd, Resolve, JoinThread, LeaveZone, diskVars, callVars
  <2>6. CASE Answer(p) \/ Crash(p)
    BY <1>1, <2>6
    DEF Answer, Crash, Ends, Forget, Goto, diskVars, CallTypeOK, CheckSteps
  <2> QED BY <1>5, <2>1, <2>2, <2>3, <2>4, <2>5, <2>6 DEF Serve
<1>6. ASSUME NEW p \in Procs, Interrupt(p) PROVE LogInv' /\ LogGrows
  <2>1. Unflushed(p) => step[p] \in CheckSteps
    BY DEF Unflushed, CheckSteps
  <2> QED BY <1>a, <1>6, <2>1, FlushLog DEF Interrupt, Ends
<1>7. ASSUME NEW p \in Procs, Kill(p) PROVE LogInv' /\ LogGrows
  BY <1>1, <1>7 DEF Kill, Ends, Forget, Goto, CallTypeOK, CheckSteps
<1> QED BY <1>2, <1>3, <1>4, <1>5, <1>6, <1>7 DEF Next

(* When the proxy is launched once, no line that has reached logfile.txt   *)
(* is lost or changed, whatever URL the thread finds in its buffer.        *)
THEOREM LogKept == OneRoot => (Spec => LogAppendOnly)
<1> SUFFICES ASSUME OneRoot PROVE Spec => LogAppendOnly
  OBVIOUS
<1>1. Init => LogInv
  BY InitLog DEF Init, CheckSteps
<1>2. Spec => [](Typing /\ ZoneInv /\ LogInv)
  BY <1>1, ZoneInvariant, NextLog, TypingInvariant, PTL DEF Spec
<1> QED BY <1>2, NextLog, PTL DEF Spec, LogAppendOnly
=============================================================================
