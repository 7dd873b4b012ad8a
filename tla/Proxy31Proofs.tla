---------------------------- MODULE Proxy31Proofs ----------------------------
(***************************************************************************)
(* Proofs about proxy 3-1, for any process table, any number of            *)
(* connections and failures, any URLs and any digests.                     *)
(***************************************************************************)
EXTENDS Proxy31, ProxyPartsProofs, FiniteSetTheorems

-----------------------------------------------------------------------------
(* Proxy 3-1 is a tree of acceptors *)

(* Each step of proxy 3-1 is a step of Acceptors, or none. *)
LEMMA StepAsAcceptors == [Next]_vars => [AcceptNext]_acceptVars
<1> SUFFICES ASSUME [Next]_vars PROVE [AcceptNext]_acceptVars
  OBVIOUS
<1>1. CASE UNCHANGED vars
  BY <1>1 DEF vars
<1>2. CASE NewConnection
  BY <1>2 DEF NewConnection, AcceptNext
<1>3. ASSUME NEW p \in Procs, StartServer(p) \/ Loop(p) PROVE AcceptNext
  BY <1>3 DEF StartServer, Loop, LoopStep, ForkChild, AcceptNext, AcceptLoop
<1>4. ASSUME NEW p \in Procs, EnterZone(p) \/ AlarmRings(p) PROVE UNCHANGED acceptVars
  BY <1>4 DEF EnterZone, AlarmRings
<1>5. ASSUME NEW p \in Procs, Serve(p) PROVE [AcceptNext]_acceptVars
  BY <1>5 DEF Serve, ReadRequest, Resolve, CheckStep, LeaveZone, Await, SendRequest,
              Relay, Crash, AcceptNext
<1>6. ASSUME NEW p \in Procs, Interrupt(p) \/ Kill(p) \/ Handler(p) PROVE AcceptNext
  BY <1>6 DEF Interrupt, Kill, Handler, AcceptNext
<1> QED BY <1>1, <1>2, <1>3, <1>4, <1>5, <1>6 DEF Next

(* Proxy 3-1 implements Acceptors, and so inherits what is proved of it:   *)
(* no zombie is forgotten and no connection is served twice.               *)
THEOREM ImplementsAcceptors == Spec => AcceptSpec
<1>1. Init => AcceptInit
  BY DEF Init
<1> QED BY <1>1, StepAsAcceptors, PTL DEF Spec, AcceptSpec

-----------------------------------------------------------------------------
(* Types *)

\* What belongs to the service of a connection, and the invariant that types it.
ServeTypeOK ==
  /\ SemTypeOK
  /\ DiskTypeOK(Lines)
  /\ CallTypeOK(ServeSteps)
  /\ origin \in [Procs -> {"none", "open", "asked"}]
  /\ alarmed \subseteq Procs
  /\ BufferFull

\* The end of a process keeps the types, whether its buffer is written or lost.
LEMMA EndsTypes ==
  ASSUME ServeTypeOK, NEW p \in Procs, Ends(p), Flush(p) \/ UNCHANGED log
  PROVE  ServeTypeOK'
<1>1. SemTypeOK'
  BY DEF ServeTypeOK, Ends, SemExit, SemTypeOK
<1>2. DiskTypeOK(Lines)'
  BY FlushStep DEF ServeTypeOK, Ends, DiskTypeOK
<1>3. CallTypeOK(ServeSteps)' /\ BufferFull'
  BY ForgetStep DEF ServeTypeOK, Ends, ServeSteps
<1> QED BY <1>1, <1>2, <1>3 DEF ServeTypeOK, Ends

\* The steps of check_url keep the types.
LEMMA CheckStepServeTypes ==
  ASSUME ServeTypeOK, NEW p \in Procs, CheckStep(p)
  PROVE  ServeTypeOK'
<1>1. CheckSteps \cup {"return"} \subseteq ServeSteps
  BY DEF ServeSteps
<1>2. DiskTypeOK(Lines)' /\ CallTypeOK(ServeSteps)' /\ BufferFull'
  BY <1>1, CheckStepTypes DEF CheckStep, ServeTypeOK
<1> QED BY <1>2 DEF CheckStep, ServeTypeOK, semVars, serveVars, SemTypeOK

\* The end of the service keeps the types.
LEMMA RelayTypes ==
  ASSUME ServeTypeOK, NEW p \in Procs, Relay(p)
  PROVE  ServeTypeOK'
<1>1. CallTypeOK(ServeSteps)' /\ BufferFull'
  BY ForgetStep DEF Relay, ServeTypeOK, ServeSteps
<1> QED BY <1>1 DEF Relay, ServeTypeOK, semVars, diskVars, SemTypeOK, DiskTypeOK

\* Every step keeps the types.
LEMMA NextServeTypes == ServeTypeOK /\ [Next]_vars => ServeTypeOK'
<1> SUFFICES ASSUME ServeTypeOK, [Next]_vars PROVE ServeTypeOK'
  OBVIOUS
<1> USE CheckUrlAssumption
<1>u. ASSUME UNCHANGED <<diskVars, callVars>>
      PROVE  DiskTypeOK(Lines)' /\ CallTypeOK(ServeSteps)' /\ BufferFull'
  BY <1>u DEF ServeTypeOK, diskVars, callVars, DiskTypeOK, CallTypeOK, BufferFull,
              Unflushed
<1>1. CASE UNCHANGED vars
  BY <1>1, <1>u DEF vars, ServeTypeOK, semVars, serveVars, SemTypeOK
<1>2. CASE NewConnection
  BY <1>2, <1>u DEF NewConnection, ServeTypeOK, semVars, serveVars, SemTypeOK
<1>3. ASSUME NEW p \in Procs, StartServer(p) PROVE ServeTypeOK'
  BY <1>3, <1>u DEF StartServer, SemSet, ServeTypeOK, serveVars, SemTypeOK
<1>4. ASSUME NEW p \in Procs, LoopStep(p) \/ Handler(p) PROVE ServeTypeOK'
  BY <1>4, <1>u DEF LoopStep, Handler, ServeTypeOK, semVars, serveVars, SemTypeOK
<1>5. ASSUME NEW p \in Procs, NEW q \in Procs, ForkChild(p, q) PROVE ServeTypeOK'
  BY <1>5 DEF ForkChild, Goto, ServeTypeOK, semVars, serveVars, SemTypeOK, diskVars,
              DiskTypeOK, CallTypeOK, ServeSteps, BufferFull, Unflushed
<1>6. ASSUME NEW p \in Procs, EnterZone(p) PROVE ServeTypeOK'
  BY <1>6 DEF EnterZone, SemP, Goto, ServeTypeOK, serveVars, SemTypeOK, diskVars,
              DiskTypeOK, CallTypeOK, ServeSteps, BufferFull, Unflushed
<1>7. ASSUME NEW p \in Procs, Serve(p) PROVE ServeTypeOK'
  <2>3. CASE CheckStep(p)
    BY <2>3, CheckStepServeTypes
  <2>7. CASE Relay(p)
    BY <2>7, RelayTypes
  <2>8. CASE Crash(p)
    BY <2>8, EndsTypes DEF Crash
  <2> USE DEF ServeTypeOK, semVars, serveVars, SemTypeOK, diskVars, DiskTypeOK,
              Goto, CallTypeOK, ServeSteps, BufferFull, Unflushed
  <2>1. ASSUME NEW u \in Urls, ReadRequest(p, u) PROVE ServeTypeOK'
    BY <2>1 DEF ReadRequest
  <2>2. CASE Resolve(p)
    BY <2>2 DEF Resolve, Connected, CheckSteps
  <2>4. CASE LeaveZone(p)
    <3>1. SemTypeOK'
      BY <2>4 DEF LeaveZone, SemV
    <3>2. CallTypeOK(ServeSteps)' /\ BufferFull'
      BY <2>4 DEF LeaveZone
    <3>3. DiskTypeOK(Lines)' /\ origin' = origin /\ alarmed' \subseteq Procs
      BY <2>4 DEF LeaveZone
    <3> QED BY <3>1, <3>2, <3>3
  <2>5. CASE Await(p)
    BY <2>5 DEF Await
  <2>6. CASE SendRequest(p)
    BY <2>6 DEF SendRequest
  <2> QED BY <1>7, <2>1, <2>2, <2>3, <2>4, <2>5, <2>6, <2>7, <2>8 DEF Serve
<1>8. ASSUME NEW p \in Procs, Interrupt(p) \/ Kill(p) PROVE ServeTypeOK'
  BY <1>8, EndsTypes DEF Interrupt, Kill
<1>9. ASSUME NEW p \in Procs, AlarmRings(p) PROVE ServeTypeOK'
  BY <1>9, <1>u DEF AlarmRings, ServeTypeOK, semVars, SemTypeOK
<1> QED
  BY <1>1, <1>2, <1>3, <1>4, <1>5, <1>6, <1>7, <1>8, <1>9 DEF Next, Loop

\* The initial states are typed.
LEMMA InitServeTypes == Init => ServeTypeOK
BY CheckUrlAssumption
DEF Init, ServeTypeOK, SemInit, SemTypeOK, DiskInit, DiskTypeOK, CallInit, CallTypeOK,
    ServeSteps, BufferFull, Unflushed, Folders

(* The variables of proxy 3-1 keep their types: among other things nothing *)
(* but whole lines is written to logfile.txt, also by an interrupt.        *)
THEOREM Typed == Spec => []TypeOK
<1>1. Spec => []ServeTypeOK
  BY InitServeTypes, NextServeTypes, PTL DEF Spec
<1>2. Spec => []AcceptTypeOK
  BY ImplementsAcceptors, AcceptorsTyped, PTL
<1>3. ServeTypeOK /\ AcceptTypeOK => TypeOK
  BY DEF ServeTypeOK, TypeOK
<1> QED BY <1>1, <1>2, <1>3, PTL

-----------------------------------------------------------------------------
(* The critical zone *)

(* The semaphore counts the processes in the critical zone, and the kernel *)
(* owes it what each of them has taken, until it leaves the zone or ends.  *)
ZoneInv ==
  /\ \A p \in Procs : InZone(p) => life[p] = "serve" /\ semval = 0
  /\ \A p \in Procs : semadj[p] = IF InZone(p) THEN 1 ELSE 0
  /\ semval <= 1
  /\ MutualExclusion
  /\ LaunchFirst

\* The types both modules give, and what the process tree adds to them.
Typing == AcceptInv /\ ServeTypeOK

(* The types hold in every behaviour. *)
LEMMA TypingInvariant == Spec => []Typing
<1>1. Spec => []ServeTypeOK
  BY InitServeTypes, NextServeTypes, PTL DEF Spec
<1>2. Spec => []AcceptInv
  BY ImplementsAcceptors, AcceptorsInvariant, PTL
<1> QED BY <1>1, <1>2, PTL DEF Typing

(* The end of a process gives the semaphore back exactly when it ended in  *)
(* the critical zone.                                                      *)
LEMMA EndsZone ==
  ASSUME Typing, ZoneInv, NEW p \in Procs, Alive(p), EndOf(p), Ends(p)
  PROVE  ZoneInv'
<1> USE DEF Typing, ServeTypeOK, SemTypeOK, CallTypeOK, AcceptInv, AcceptTypeOK
<1>1. \A q \in Procs : step'[q] = IF q = p THEN "end" ELSE step[q]
  BY DEF Ends, Forget, Goto
<1>2. \A q \in Procs : InZone(q)' <=> InZone(q) /\ q # p
  BY <1>1 DEF InZone, ZoneSteps, CheckSteps
<1>3. \A q \in Procs : life[q] = "serve" /\ q # p => life'[q] = "serve"
  BY DEF EndOf, ZombiesOf
<1>4. \A q \in Procs : life'[q] = "unborn" <=> life[q] = "unborn"
  BY DEF EndOf, ZombiesOf, Alive
<1>5. MutualExclusion'
  BY <1>2 DEF ZoneInv, MutualExclusion
<1>6. semval' = IF InZone(p) THEN 1 ELSE semval
  BY DEF Ends, SemExit, ZoneInv
<1>7. \A q \in Procs : semadj'[q] = IF q = p THEN 0 ELSE semadj[q]
  BY DEF Ends, SemExit
<1>8. \A q \in Procs : semadj'[q] = IF InZone(q)' THEN 1 ELSE 0
  BY <1>2, <1>7 DEF ZoneInv
<1>9. \A q \in Procs : InZone(q)' => life'[q] = "serve" /\ semval' = 0
  BY <1>2, <1>3, <1>6 DEF ZoneInv, MutualExclusion
<1>10. LaunchFirst'
  BY <1>4, AcceptorsAssumption DEF ZoneInv, LaunchFirst
<1> QED BY <1>5, <1>6, <1>8, <1>9, <1>10 DEF ZoneInv

(* Outside the zone's own steps only a launch touches the semaphore, and   *)
(* it finds no process there.                                              *)
LEMMA LoopZone ==
  ASSUME OneRoot, Typing, ZoneInv, NEW p \in Procs,
         \/ StartServer(p) \/ LoopStep(p) \/ Handler(p)
         \/ \E q \in Procs : ForkChild(p, q)
  PROVE  ZoneInv'
<1> USE AcceptorsAssumption
    DEF Typing, ServeTypeOK, SemTypeOK, CallTypeOK, AcceptInv, AcceptTypeOK, At
<1>1. CASE StartServer(p)
  <2>1. \A q \in Procs : ~ InZone(q)
    BY <1>1 DEF StartServer, Launch, ZoneInv, LaunchFirst
  <2>2. \A q \in Procs : ~ InZone(q)'
    BY <1>1, <2>1 DEF StartServer, callVars, InZone
  <2>3. LaunchFirst'
    BY <1>1 DEF StartServer, Launch, OneRoot, LaunchFirst
  <2> QED BY <1>1, <2>2, <2>3 DEF StartServer, SemSet, ZoneInv, MutualExclusion
<1>2. ASSUME UNCHANGED <<semVars, callVars>>,
             \A q \in Procs : life[q] = "serve" => life'[q] = "serve",
             \A q \in Procs : life'[q] = "unborn" <=> life[q] = "unborn"
      PROVE  ZoneInv'
  BY <1>2 DEF semVars, callVars, ZoneInv, InZone, MutualExclusion, LaunchFirst
<1>3. CASE LoopStep(p)
  BY <1>2, <1>3 DEF LoopStep, Bind, BindFail, Accept, AcceptFail, ForkFail, CloseCli
<1>4. CASE Handler(p)
  BY <1>2, <1>4 DEF Handler, ChldHandler, SigEnter, SigReap, SigReturn, ZombiesOf
<1>5. ASSUME NEW q \in Procs, ForkChild(p, q) PROVE ZoneInv'
  <2>1. life[q] = "unborn" /\ life[p] = "fork"
    BY <1>5 DEF ForkChild, Fork
  <2>2. \A r \in Procs : InZone(r)' <=> InZone(r)
    BY <1>5, <2>1 DEF ForkChild, Goto, ZoneInv, InZone, ZoneSteps, CheckSteps
  <2>3. \A r \in Procs : life[r] = "serve" => life'[r] = "serve"
    BY <1>5 DEF ForkChild, Fork
  <2>4. LaunchFirst'
    BY <1>5, <2>1 DEF ForkChild, Fork, ZoneInv, LaunchFirst
  <2> QED BY <1>5, <2>2, <2>3, <2>4 DEF ForkChild, semVars, ZoneInv, MutualExclusion
<1> QED BY <1>1, <1>3, <1>4, <1>5

(* The steps of a child that serves. *)
LEMMA ServeZone ==
  ASSUME Typing, ZoneInv, NEW p \in Procs, EnterZone(p) \/ Serve(p)
  PROVE  ZoneInv'
<1> USE AcceptorsAssumption
    DEF Typing, ServeTypeOK, SemTypeOK, CallTypeOK, AcceptInv, AcceptTypeOK, At, Serving,
        Goto
<1>1. ASSUME UNCHANGED <<acceptVars, semVars>>,
             \A q \in Procs : InZone(q)' <=> InZone(q)
      PROVE  ZoneInv'
  BY <1>1 DEF acceptVars, semVars, ZoneInv, MutualExclusion, LaunchFirst
<1>2. CASE EnterZone(p)
  <2>1. \A q \in Procs : ~ InZone(q)
    BY <1>2 DEF EnterZone, SemP, ZoneInv
  <2>2. \A q \in Procs : InZone(q)' <=> q = p
    BY <1>2, <2>1 DEF EnterZone, InZone, ZoneSteps, CheckSteps
  <2>3. semval' = 0 /\ \A q \in Procs : semadj'[q] = IF q = p THEN 1 ELSE 0
    BY <1>2, <2>1 DEF EnterZone, SemP, ZoneInv
  <2>4. life'[p] = "serve" /\ LaunchFirst'
    BY <1>2 DEF EnterZone, acceptVars, ZoneInv, LaunchFirst
  <2> QED BY <2>2, <2>3, <2>4 DEF ZoneInv, MutualExclusion
<1>3. ASSUME NEW u \in Urls, ReadRequest(p, u) PROVE ZoneInv'
  BY <1>1, <1>3 DEF ReadRequest, InZone, ZoneSteps, CheckSteps
<1>4. CASE Resolve(p)
  BY <1>1, <1>4 DEF Resolve, InZone, ZoneSteps, CheckSteps
<1>5. CASE CheckStep(p)
  BY <1>1, <1>5
  DEF CheckStep, CheckUrl, Scan, MakeCache, MakeLogDir, MakeLogFile, HashUrl, AfterScan,
      LookupMissing, LookupHit, LookupOther, MakeDir, StoreFile, CloseLog, InZone,
      ZoneSteps, CheckSteps
<1>6. CASE LeaveZone(p)
  <2>1. InZone(p)
    BY <1>6 DEF LeaveZone, InZone, ZoneSteps
  <2>2. \A q \in Procs : ~ InZone(q)'
    BY <1>6, <2>1 DEF LeaveZone, ZoneInv, MutualExclusion, InZone, ZoneSteps, CheckSteps
  <2>3. semval' = 1 /\ \A q \in Procs : semadj'[q] = 0
    BY <1>6, <2>1 DEF LeaveZone, SemV, ZoneInv, MutualExclusion
  <2>4. LaunchFirst'
    BY <1>6 DEF LeaveZone, acceptVars, ZoneInv, LaunchFirst
  <2> QED BY <2>2, <2>3, <2>4 DEF ZoneInv, MutualExclusion
<1>7. CASE Await(p)
  BY <1>1, <1>7 DEF Await, InZone, ZoneSteps, CheckSteps
<1>8. CASE SendRequest(p)
  BY <1>1, <1>8 DEF SendRequest, InZone, ZoneSteps, CheckSteps
<1>9. CASE Relay(p)
  <2>1. \A q \in Procs : InZone(q)' <=> InZone(q)
    BY <1>9 DEF Relay, Forget, InZone, ZoneSteps, CheckSteps
  <2>2. \A q \in Procs : InZone(q) => life'[q] = "serve"
    BY <1>9 DEF Relay, ServeEnd, ZoneInv, InZone, ZoneSteps, CheckSteps
  <2>3. LaunchFirst'
    BY <1>9 DEF Relay, ServeEnd, ZoneInv, LaunchFirst
  <2> QED BY <1>9, <2>1, <2>2, <2>3 DEF Relay, semVars, ZoneInv, MutualExclusion
<1>10. CASE Crash(p)
  BY <1>10, EndsZone DEF Crash, Abort, Alive
<1> QED
  BY <1>2, <1>3, <1>4, <1>5, <1>6, <1>7, <1>8, <1>9, <1>10 DEF Serve

(* Every step keeps the invariant of the zone. *)
LEMMA NextZone == OneRoot /\ Typing /\ ZoneInv /\ [Next]_vars => ZoneInv'
<1> SUFFICES ASSUME OneRoot, Typing, ZoneInv, [Next]_vars PROVE ZoneInv'
  OBVIOUS
<1>1. ASSUME UNCHANGED <<life, semVars, callVars>> PROVE ZoneInv'
  BY <1>1 DEF semVars, callVars, ZoneInv, InZone, MutualExclusion, LaunchFirst
<1>2. CASE UNCHANGED vars
  BY <1>1, <1>2 DEF vars, acceptVars
<1>3. CASE NewConnection
  BY <1>1, <1>3 DEF NewConnection, Connect
<1>4. ASSUME NEW p \in Procs, AlarmRings(p) PROVE ZoneInv'
  BY <1>1, <1>4 DEF AlarmRings, acceptVars
<1>5. ASSUME NEW p \in Procs, StartServer(p) \/ Loop(p) \/ Handler(p) PROVE ZoneInv'
  BY <1>5, LoopZone DEF Loop
<1>6. ASSUME NEW p \in Procs, EnterZone(p) \/ Serve(p) PROVE ZoneInv'
  BY <1>6, ServeZone
<1>7. ASSUME NEW p \in Procs, Interrupt(p) \/ Kill(p) PROVE ZoneInv'
  BY <1>7, EndsZone DEF Interrupt, Kill, Die
<1> QED BY <1>2, <1>3, <1>4, <1>5, <1>6, <1>7 DEF Next

\* The initial states satisfy the invariant of the zone.
LEMMA InitZone == Init => ZoneInv
BY DEF Init, SemInit, CallInit, AcceptInit, ZoneInv, InZone, ZoneSteps, CheckSteps,
       MutualExclusion, LaunchFirst

(* When the proxy is launched once, its processes exclude each other from  *)
(* the critical zone, whatever connections come, whatever fails, and       *)
(* whoever ends between p() and v().                                       *)
THEOREM ZoneExclusive == OneRoot => (Spec => []MutualExclusion)
<1> SUFFICES ASSUME OneRoot PROVE Spec => []MutualExclusion
  OBVIOUS
<1>1. Typing /\ ZoneInv /\ [Next]_vars => ZoneInv'
  BY NextZone
<1>2. Spec => []ZoneInv
  BY <1>1, InitZone, TypingInvariant, PTL DEF Spec
<1>3. ZoneInv => MutualExclusion
  BY DEF ZoneInv
<1> QED BY <1>2, <1>3, PTL

-----------------------------------------------------------------------------
(* Signals and the wait for the semaphore *)

(* A child that has not served yet has neither a signal of a child to      *)
(* handle, for it has forked none, nor an alarm, for it has set none.      *)
SignalInv ==
  \A p \in Procs :
    /\ life[p] \in {"unborn", "serve"} => p \notin sigchld \cup handling
    /\ life[p] = "unborn" \/ (life[p] = "serve" /\ step[p] = "p") => p \notin alarmed

(* The end of a process signals no child that serves. *)
LEMMA EndsSignal ==
  ASSUME Typing, SignalInv, NEW p \in Procs, Alive(p), EndOf(p), Ends(p)
  PROVE  SignalInv'
<1> USE DEF Typing, ServeTypeOK, CallTypeOK, AcceptInv, AcceptTypeOK
<1>1. \A q \in Procs : life'[q] \in {"unborn", "serve"} => life'[q] = life[q] /\ q # p
  BY DEF EndOf, ZombiesOf, Alive
<1>2. \A q \in Procs : q # p => step'[q] = step[q]
  BY DEF Ends, Forget, Goto
<1>3. sigchld' \subseteq sigchld \cup Signalled(p) /\ handling' \subseteq handling
  BY DEF EndOf
<1>4. \A q \in Signalled(p) : life[q] \in {"accept", "fork", "close"}
  BY DEF Signalled, Watched, ParentsInLoop
<1>5. alarmed' \subseteq alarmed
  BY DEF Ends
<1> QED BY <1>1, <1>2, <1>3, <1>4, <1>5 DEF SignalInv

(* Every step keeps the invariant of signals. *)
LEMMA NextSignal == Typing /\ SignalInv /\ [Next]_vars => SignalInv'
<1> SUFFICES ASSUME Typing, SignalInv, [Next]_vars PROVE SignalInv'
  OBVIOUS
<1> USE AcceptorsAssumption
    DEF Typing, ServeTypeOK, CallTypeOK, AcceptInv, AcceptTypeOK, At, Serving, Goto
<1>1. ASSUME UNCHANGED <<sigchld, handling, step>>, alarmed' \subseteq alarmed,
             \A q \in Procs : life'[q] \in {"unborn", "serve"} => life'[q] = life[q]
      PROVE  SignalInv'
  BY <1>1 DEF SignalInv
<1>2. CASE UNCHANGED vars
  BY <1>1, <1>2 DEF vars, acceptVars, callVars, serveVars
<1>3. CASE NewConnection
  BY <1>1, <1>3 DEF NewConnection, Connect, callVars, serveVars
<1>4. ASSUME NEW p \in Procs, StartServer(p) \/ LoopStep(p) \/ AlarmRings(p)
      PROVE  SignalInv'
  BY <1>1, <1>4
  DEF StartServer, Launch, LoopStep, Bind, BindFail, Accept, AcceptFail, ForkFail,
      CloseCli, AlarmRings, acceptVars, callVars, serveVars
<1>5. ASSUME NEW p \in Procs, NEW q \in Procs, ForkChild(p, q) PROVE SignalInv'
  BY <1>5 DEF ForkChild, Fork, SignalInv, serveVars
<1>6. ASSUME NEW p \in Procs, EnterZone(p) \/ Serve(p) PROVE SignalInv'
  <2>1. ASSUME UNCHANGED <<sigchld, handling>>,
               \A q \in Procs : life'[q] \in {"unborn", "serve"} => life'[q] = life[q],
               \A q \in Procs \ {p} : step'[q] = step[q],
               step'[p] # "p", life[p] = "serve",
               alarmed' \subseteq alarmed \cup {p}
        PROVE  SignalInv'
    BY <2>1 DEF SignalInv
  <2>2. CASE EnterZone(p)
    BY <2>1, <2>2 DEF EnterZone, acceptVars, serveVars
  <2>3. ASSUME NEW u \in Urls, ReadRequest(p, u) PROVE SignalInv'
    BY <2>1, <2>3 DEF ReadRequest, acceptVars, serveVars
  <2>4. CASE Resolve(p) \/ Await(p) \/ SendRequest(p)
    BY <2>1, <2>4 DEF Resolve, Await, SendRequest, acceptVars
  <2>5. CASE CheckStep(p)
    BY <2>1, <2>5
    DEF CheckStep, CheckUrl, Scan, MakeCache, MakeLogDir, MakeLogFile, HashUrl, AfterScan,
        LookupMissing, LookupHit, LookupOther, MakeDir, StoreFile, CloseLog, acceptVars,
        serveVars
  <2>6. CASE LeaveZone(p)
    BY <2>1, <2>6 DEF LeaveZone, acceptVars
  <2>7. CASE Relay(p)
    BY <2>1, <2>7 DEF Relay, ServeEnd, Forget
  <2>8. CASE Crash(p)
    BY <2>8, EndsSignal DEF Crash, Abort, Alive
  <2> QED BY <1>6, <2>2, <2>3, <2>4, <2>5, <2>6, <2>7, <2>8 DEF Serve
<1>7. ASSUME NEW p \in Procs, Handler(p) PROVE SignalInv'
  BY <1>7
  DEF Handler, ChldHandler, SigEnter, SigReap, SigReturn, ZombiesOf, SignalInv, callVars,
      serveVars
<1>8. ASSUME NEW p \in Procs, Interrupt(p) \/ Kill(p) PROVE SignalInv'
  BY <1>8, EndsSignal DEF Interrupt, Kill, Die
<1> QED
  BY <1>2, <1>3, <1>4, <1>5, <1>6, <1>7, <1>8 DEF Next, Loop

(* semop, which no SA_RESTART restarts, is never interrupted by a handler: *)
(* p() cannot fail on EINTR and end the child.                             *)
THEOREM SemopUninterrupted == Spec => []SemNeverInterrupted
<1>1. Init => SignalInv
  BY DEF Init, AcceptInit, SignalInv
<1>2. Spec => []SignalInv
  BY <1>1, NextSignal, TypingInvariant, PTL DEF Spec
<1>3. Typing /\ SignalInv => SemNeverInterrupted
  BY AcceptorsAssumption
  DEF Typing, AcceptInv, AcceptTypeOK, ParentsInLoop, SignalInv, SemNeverInterrupted
<1> QED BY <1>2, <1>3, TypingInvariant, PTL

-----------------------------------------------------------------------------
(* The log and the cache, which the critical zone protects.  Between the   *)
(* scan of the home directory, which decides whether logfile.txt must be   *)
(* made, and creat, which would empty it, nobody else writes it.  Between  *)
(* the lookup of a URL and the storing of its file nobody else changes the *)
(* subdirectory.                                                           *)

(* Only one process at a time is in check_url. *)
LEMMA AloneInCheckUrl ==
  ASSUME ZoneInv, NEW p \in Procs, step[p] \in CheckSteps
  PROVE  \A q \in Procs \ {p} : step[q] \notin CheckSteps
BY DEF ZoneInv, MutualExclusion, InZone, ZoneSteps

(* Every step keeps the invariant of the log, and the log.                 *)
LEMMA NextLog ==
  Typing /\ ZoneInv /\ LogInv /\ [Next]_vars => LogInv' /\ [LogGrows]_vars
<1> SUFFICES ASSUME Typing, ZoneInv, LogInv, [Next]_vars PROVE LogInv' /\ [LogGrows]_vars
  OBVIOUS
<1>1. ASSUME UNCHANGED <<home, log>>,
             \A q \in Procs : UNCHANGED <<step[q], saw[q]>> \/ step'[q] \notin CheckSteps
      PROVE  LogInv' /\ LogGrows
  BY <1>1, AwayLog DEF LogGrows
<1> USE DEF Typing, ServeTypeOK, CallTypeOK, Goto, Serving, CheckSteps
<1>2. CASE UNCHANGED vars
  BY <1>1, <1>2 DEF vars, diskVars, callVars
<1>3. CASE NewConnection
  BY <1>1, <1>3 DEF NewConnection, diskVars, callVars
<1>4. ASSUME NEW p \in Procs,
             StartServer(p) \/ LoopStep(p) \/ Handler(p) \/ AlarmRings(p)
      PROVE  LogInv' /\ LogGrows
  BY <1>1, <1>4 DEF StartServer, LoopStep, Handler, AlarmRings, diskVars, callVars
<1>5. ASSUME NEW p \in Procs, NEW q \in Procs, ForkChild(p, q)
      PROVE  LogInv' /\ LogGrows
  BY <1>1, <1>5 DEF ForkChild, diskVars
<1>6. ASSUME NEW p \in Procs, EnterZone(p) PROVE LogInv' /\ LogGrows
  BY <1>1, <1>6 DEF EnterZone, diskVars
<1>7. ASSUME NEW p \in Procs, Serve(p) PROVE LogInv' /\ LogGrows
  <2>1. ASSUME NEW u \in Urls, ReadRequest(p, u) PROVE LogInv' /\ LogGrows
    BY <1>1, <2>1 DEF ReadRequest, diskVars
  <2>2. CASE Resolve(p)
    <3>1. LogInv'
      BY <2>2, EnterLog DEF Resolve, diskVars
    <3> QED BY <2>2, <3>1 DEF Resolve, diskVars, LogGrows
  <2>3. CASE CheckStep(p)
    <3>1. step[p] \in CheckSteps
      BY <2>3 DEF CheckStep, CheckUrl, Scan, MakeCache, MakeLogDir, MakeLogFile, HashUrl,
                  LookupMissing, LookupHit, LookupOther, MakeDir, StoreFile, CloseLog
    <3> QED BY <2>3, <3>1, AloneInCheckUrl, CheckStepLog DEF CheckStep
  <2>4. CASE LeaveZone(p) \/ Await(p) \/ SendRequest(p)
    BY <1>1, <2>4 DEF LeaveZone, Await, SendRequest, diskVars
  <2>5. CASE Relay(p) \/ Crash(p)
    BY <1>1, <2>5 DEF Relay, Crash, Ends, Forget, diskVars
  <2> QED BY <1>7, <2>1, <2>2, <2>3, <2>4, <2>5 DEF Serve
<1>8. ASSUME NEW p \in Procs, Interrupt(p) PROVE LogInv' /\ LogGrows
  <2>1. Unflushed(p) => step[p] \in CheckSteps
    BY DEF Unflushed
  <2> QED BY <1>8, <2>1, AloneInCheckUrl, FlushLog DEF Interrupt, Ends
<1>9. ASSUME NEW p \in Procs, Kill(p) PROVE LogInv' /\ LogGrows
  BY <1>1, <1>9 DEF Kill, Ends, Forget
<1> QED
  BY <1>2, <1>3, <1>4, <1>5, <1>6, <1>7, <1>8, <1>9 DEF Next, Loop

(* When the proxy is launched once, no line that has reached logfile.txt   *)
(* is lost or changed: creat meets an empty file, whoever else was in      *)
(* check_url before, however it ended.                                     *)
THEOREM LogKept == OneRoot => (Spec => LogAppendOnly)
<1> SUFFICES ASSUME OneRoot PROVE Spec => LogAppendOnly
  OBVIOUS
<1>1. Typing /\ ZoneInv /\ [Next]_vars => ZoneInv'
  BY NextZone
<1>2. Spec => []ZoneInv
  BY <1>1, InitZone, TypingInvariant, PTL DEF Spec
<1>3. Init => LogInv
  BY InitLog DEF Init, CheckSteps
<1>4. Spec => [](Typing /\ ZoneInv /\ LogInv)
  BY <1>2, <1>3, NextLog, TypingInvariant, PTL DEF Spec
<1> QED BY <1>4, NextLog, PTL DEF Spec, LogAppendOnly

-----------------------------------------------------------------------------
(* The cache *)

(* The calls the cache is used in: what a call found in its subdirectory   *)
(* is still so when it stores the file.                                    *)
CacheInv ==
  /\ \A p \in Procs :
       /\ step[p] \in {"lookup", "mkdir", "store"} => key[p] = url[p]
       /\ step[p] \in {"mkdir", "store"} =>
            line[p] = Miss(key[p]) /\ first[Subdir(p)] # key[p]
       /\ step[p] = "store" => Subdir(p) \in made
  /\ \A d \in Dirs : d \notin made => first[d] = NoEntry

(* While nothing fails, only the call that has just made a subdirectory    *)
(* leaves it without a file.                                               *)
Filling ==
  \A d \in made : first[d] = NoEntry =>
    \E p \in Procs : step[p] = "store" /\ Subdir(p) = d

(* A log with the line of the call that is about to write it, for any      *)
(* program counters, buffers and log: one process at most is there.        *)
LEMMA OnePending ==
  ASSUME NEW st, NEW ln, NEW lg, NEW p \in Procs, st[p] = "flush",
         \A q \in Procs : st[q] = "flush" => q = p
  PROVE  (IF \E q \in Procs : st[q] = "flush"
          THEN Append(lg, ln[CHOOSE q \in Procs : st[q] = "flush"]) ELSE lg)
         = Append(lg, ln[p])
<1>1. (CHOOSE q \in Procs : st[q] = "flush") = p
  OBVIOUS
<1> QED BY <1>1

(* The abstract log, of which no line or one is still in a buffer.         *)
LEMMA LinearLogIs ==
  ASSUME ZoneInv
  PROVE  /\ (\A q \in Procs : step[q] # "flush") => LinearLog = log
         /\ \A p \in Procs : step[p] = "flush" => LinearLog = Append(log, line[p])
<1>1. ASSUME NEW p \in Procs, step[p] = "flush" PROVE LinearLog = Append(log, line[p])
  <2>1. \A q \in Procs : step[q] = "flush" => q = p
    BY <1>1 DEF ZoneInv, MutualExclusion, InZone, ZoneSteps, CheckSteps
  <2> QED BY <1>1, <2>1, OnePending DEF LinearLog
<1> QED BY <1>1 DEF LinearLog

(* A line is added at the end, and lost there. *)
LEMMA FrontOfAppend ==
  ASSUME NEW S, NEW L \in Seq(S), NEW x \in S
  PROVE  Append(L, x) # <<>> /\ Cache!Front(Append(L, x)) = L
BY DEF Cache!Front

(* The same of the next state. *)
LEMMA LinearLogBecomes ==
  ASSUME ZoneInv'
  PROVE  /\ (\A q \in Procs : step'[q] # "flush") => LinearLog' = log'
         /\ \A p \in Procs : step'[p] = "flush" => LinearLog' = Append(log', line'[p])
<1>1. ASSUME NEW p \in Procs, step'[p] = "flush" PROVE LinearLog' = Append(log', line'[p])
  <2>1. \A q \in Procs : step'[q] = "flush" => q = p
    BY <1>1 DEF ZoneInv, MutualExclusion, InZone, ZoneSteps, CheckSteps
  <2> QED BY <1>1, <2>1, OnePending DEF LinearLog
<1> QED BY <1>1 DEF LinearLog

(* A step of the proxy that changes no file and no line is a step of the   *)
(* cache or none, also when it is a failure.                               *)
LEMMA Quiet ==
  ASSUME UNCHANGED <<LinearLog, stored, first>>, faults' \in {faults, faults + 1}
  PROVE  [Cache!Next]_(Cache!cacheVars)
BY DEF Cache!Next, Cache!Failure, Cache!cacheVars

(* Whoever is elsewhere, or ends with nothing to write, leaves the cache   *)
(* to the process in check_url.                                            *)
LEMMA AwayCache ==
  ASSUME ZoneInv, ZoneInv', CacheInv, UNCHANGED diskVars,
         \A q \in Procs :
           \/ UNCHANGED <<step[q], url[q], key[q], line[q]>>
           \/ step[q] # "flush" /\ step'[q] \notin {"lookup", "mkdir", "store", "flush"}
  PROVE  CacheInv' /\ UNCHANGED <<LinearLog, stored, first>>
<1>1. CacheInv'
  BY DEF CacheInv, diskVars, Subdir
<1>2. LinearLog' = LinearLog
  <2>1. CASE \A q \in Procs : step[q] # "flush"
    <3>1. \A q \in Procs : step'[q] # "flush"
      BY <2>1
    <3> QED BY <2>1, <3>1, LinearLogIs, LinearLogBecomes DEF diskVars
  <2>2. ASSUME NEW p \in Procs, step[p] = "flush" PROVE LinearLog' = LinearLog
    <3>1. step'[p] = "flush" /\ line'[p] = line[p]
      BY <2>2
    <3>2. LinearLog = Append(log, line[p]) /\ LinearLog' = Append(log', line'[p])
      BY <2>2, <3>1, LinearLogIs, LinearLogBecomes
    <3> QED BY <3>1, <3>2 DEF diskVars
  <2> QED BY <2>1, <2>2
<1> QED BY <1>1, <1>2 DEF diskVars

(* A step of check_url, alone there, is a step of the cache or none: the   *)
(* one that finds the file, and the one that stores it.                    *)
LEMMA CheckStepCache ==
  ASSUME Typing, ZoneInv, ZoneInv', LogInv, CacheInv, NEW p \in Procs, CheckUrl(p),
         \A q \in Procs \ {p} : step[q] \notin CheckSteps, UNCHANGED faults
  PROVE  CacheInv' /\ [Cache!Next]_(Cache!cacheVars)
<1> USE CheckUrlAssumption
    DEF Typing, ServeTypeOK, DiskTypeOK, CallTypeOK, Goto, CheckSteps, diskVars, Subdir
<1>1. \A q \in Procs \ {p} : step[q] \notin CheckSteps /\ step'[q] = step[q]
  BY DEF CheckUrl, Scan, MakeCache, MakeLogDir, MakeLogFile, HashUrl, LookupMissing,
         LookupHit, LookupOther, MakeDir, StoreFile, CloseLog
<1>2. ASSUME step[p] # "flush" PROVE LinearLog = log
  BY <1>1, <1>2, LinearLogIs
<1>3. ASSUME step'[p] # "flush" PROVE LinearLog' = log'
  BY <1>1, <1>3, LinearLogBecomes
<1>4. ASSUME step'[p] = "flush" PROVE LinearLog' = Append(log', line'[p])
  BY <1>4, LinearLogBecomes
<1>5. ASSUME UNCHANGED <<log, stored, first>>, step[p] # "flush", step'[p] # "flush"
      PROVE  UNCHANGED Cache!cacheVars
  BY <1>2, <1>3, <1>5 DEF Cache!cacheVars
<1>6. CASE Scan(p) \/ MakeCache(p) \/ MakeLogDir(p) \/ HashUrl(p)
  <2>1. UNCHANGED Cache!cacheVars
    BY <1>5, <1>6 DEF Scan, MakeCache, MakeLogDir, HashUrl, AfterScan
  <2>2. CacheInv'
    BY <1>1, <1>6 DEF CacheInv, Scan, MakeCache, MakeLogDir, HashUrl, AfterScan
  <2> QED BY <2>1, <2>2
<1>7. CASE MakeLogFile(p)
  <2>1. log' = log
    BY <1>7 DEF MakeLogFile, LogInv
  <2>2. UNCHANGED Cache!cacheVars
    BY <1>5, <1>7, <2>1 DEF MakeLogFile
  <2>3. CacheInv'
    BY <1>1, <1>7 DEF CacheInv, MakeLogFile
  <2> QED BY <2>2, <2>3
<1>8. CASE LookupMissing(p) \/ LookupOther(p)
  <2>1. UNCHANGED Cache!cacheVars
    BY <1>5, <1>8 DEF LookupMissing, LookupOther
  <2>2. first[Subdir(p)] # key[p]
    BY <1>8 DEF CacheInv, LookupMissing, LookupOther
  <2>3. CacheInv'
    BY <1>1, <1>8, <2>2 DEF CacheInv, LookupMissing, LookupOther
  <2> QED BY <2>1, <2>3
<1>9. CASE LookupHit(p)
  <2>1. key[p] = url[p] /\ url[p] \in Urls /\ first[DirOf[url[p]]] = url[p]
    BY <1>9 DEF CacheInv, LookupHit
  <2>2. LinearLog' = Append(LinearLog, Hit(url[p]))
    BY <1>2, <1>4, <1>9 DEF LookupHit
  <2>3. Cache!HitRequest(url[p])
    BY <1>9, <2>1, <2>2 DEF LookupHit, Hit, Cache!HitRequest, Cache!Record
  <2>4. CacheInv'
    BY <1>1, <1>9 DEF CacheInv, LookupHit
  <2> QED BY <2>1, <2>3, <2>4 DEF Cache!Next
<1>10. CASE MakeDir(p)
  <2>1. UNCHANGED Cache!cacheVars
    BY <1>5, <1>10 DEF MakeDir
  <2>2. CacheInv'
    BY <1>1, <1>10 DEF CacheInv, MakeDir, makeDir
  <2> QED BY <2>1, <2>2
<1>11. CASE StoreFile(p)
  <2>1. key[p] = url[p] /\ key[p] \in Urls /\ line[p] = Miss(key[p])
        /\ first[DirOf[key[p]]] # key[p]
    BY <1>11 DEF CacheInv, StoreFile
  <2>2. LinearLog' = Append(LinearLog, Miss(key[p]))
    BY <1>2, <1>4, <1>11, <2>1 DEF StoreFile
  <2>3. Cache!MissRequest(key[p])
    BY <1>11, <2>1, <2>2 DEF StoreFile, makeFile, Miss, Cache!MissRequest, Cache!Record
  <2>4. first'[Subdir(p)] # NoEntry /\ \A d \in Dirs \ {Subdir(p)} : first'[d] = first[d]
    BY <1>11, <2>1 DEF StoreFile
  <2>5. CacheInv'
    BY <1>1, <1>11, <2>4 DEF CacheInv, StoreFile
  <2> QED BY <2>1, <2>3, <2>5 DEF Cache!Next
<1>12. CASE CloseLog(p)
  <2>1. LinearLog = Append(log, line[p])
    BY <1>12, LinearLogIs DEF CloseLog
  <2>2. LinearLog' = log' /\ log' = Append(log, line[p])
    BY <1>3, <1>12 DEF CloseLog, Flush, Unflushed
  <2>3. UNCHANGED Cache!cacheVars
    BY <1>12, <2>1, <2>2 DEF CloseLog, Cache!cacheVars
  <2>4. CacheInv'
    BY <1>1, <1>12 DEF CacheInv, CloseLog
  <2> QED BY <2>3, <2>4
<1> QED BY <1>6, <1>7, <1>8, <1>9, <1>10, <1>11, <1>12 DEF CheckUrl

(* SIGINT in check_url writes the line of a request, whose file may be     *)
(* lost; elsewhere it loses nothing.                                       *)
LEMMA InterruptCache ==
  ASSUME Typing, ZoneInv, ZoneInv', CacheInv, NEW p \in Procs, Interrupt(p)
  PROVE  CacheInv' /\ [Cache!Next]_(Cache!cacheVars)
<1> USE CheckUrlAssumption
    DEF Typing, ServeTypeOK, DiskTypeOK, CallTypeOK, Goto, Subdir
<1>1. /\ faults' = faults + 1
      /\ UNCHANGED <<home, made, stored, first>>
      /\ step' = [step EXCEPT ![p] = "end"]
      /\ \A q \in Procs \ {p} : UNCHANGED <<step[q], url[q], key[q], line[q]>>
  BY DEF Interrupt, Die, Ends, Forget
<1>2. CASE ~ Unflushed(p)
  <2>1. log' = log /\ step[p] # "flush"
    BY <1>2 DEF Interrupt, Flush, Unflushed
  <2>2. CacheInv' /\ UNCHANGED <<LinearLog, stored, first>>
    BY <1>1, <2>1, AwayCache DEF diskVars
  <2> QED BY <1>1, <2>2, Quiet
<1>3. CASE Unflushed(p)
  <2>1. log' = Append(log, line[p]) /\ step[p] \in {"mkdir", "store", "flush"}
    BY <1>3 DEF Interrupt, Flush, Unflushed
  <2>2. \A q \in Procs \ {p} : step[q] \notin CheckSteps
    BY <2>1, AloneInCheckUrl DEF CheckSteps
  <2>3. \A q \in Procs : step'[q] \notin CheckSteps
    BY <1>1, <2>2 DEF CheckSteps
  <2>4. CacheInv'
    BY <1>1, <2>3 DEF CacheInv, CheckSteps
  <2>5. LinearLog' = log'
    BY <2>3, LinearLogBecomes DEF CheckSteps
  <2>6. CASE step[p] = "flush"
    <3>1. LinearLog' = LinearLog
      BY <2>1, <2>5, <2>6, LinearLogIs
    <3> QED BY <1>1, <2>4, <3>1, Quiet
  <2>7. CASE step[p] # "flush"
    <3>1. LinearLog' = Append(LinearLog, line[p])
      BY <2>1, <2>2, <2>5, <2>7, LinearLogIs DEF CheckSteps
    <3>2. key[p] \in Urls /\ line[p] = Miss(key[p]) /\ first[DirOf[key[p]]] # key[p]
      BY <2>1, <2>7 DEF CacheInv
    <3>3. Cache!LoseFile
      BY <3>1, <3>2 DEF Cache!LoseFile, Cache!Record, Miss
    <3> QED BY <1>1, <2>4, <3>3 DEF Cache!Next, Cache!Failure
  <2> QED BY <2>6, <2>7
<1> QED BY <1>2, <1>3

(* A kill loses the line that is in the buffer. *)
LEMMA KillCache ==
  ASSUME Typing, ZoneInv, ZoneInv', CacheInv, NEW p \in Procs, Kill(p)
  PROVE  CacheInv' /\ [Cache!Next]_(Cache!cacheVars)
<1> USE DEF Typing, ServeTypeOK, DiskTypeOK, CallTypeOK, Goto, Subdir
<1>1. /\ faults' = faults + 1
      /\ UNCHANGED <<home, log, made, stored, first>>
      /\ step' = [step EXCEPT ![p] = "end"]
      /\ \A q \in Procs \ {p} : UNCHANGED <<step[q], url[q], key[q], line[q]>>
  BY DEF Kill, Die, Ends, Forget
<1>2. CASE step[p] # "flush"
  <2>1. CacheInv' /\ UNCHANGED <<LinearLog, stored, first>>
    BY <1>1, <1>2, AwayCache DEF diskVars
  <2> QED BY <1>1, <2>1, Quiet
<1>3. CASE step[p] = "flush"
  <2>1. \A q \in Procs : step'[q] \notin CheckSteps
    BY <1>1, <1>3, AloneInCheckUrl DEF CheckSteps
  <2>2. CacheInv'
    BY <1>1, <2>1 DEF CacheInv, CheckSteps
  <2>3. LinearLog' = log /\ LinearLog = Append(log, line[p])
    BY <1>1, <1>3, <2>1, LinearLogIs, LinearLogBecomes DEF CheckSteps
  <2>4. log \in Seq(Lines) /\ line[p] \in Lines
    BY <1>3 DEF BufferFull, Unflushed
  <2>5. Append(log, line[p]) # <<>> /\ Cache!Front(Append(log, line[p])) = log
    BY <2>4, FrontOfAppend
  <2>6. Cache!LoseLine
    BY <2>3, <2>5 DEF Cache!LoseLine
  <2> QED BY <1>1, <2>2, <2>6 DEF Cache!Next, Cache!Failure
<1> QED BY <1>2, <1>3

(* Failures are counted one by one. *)
LEMMA FaultsStep ==
  Typing /\ [Next]_vars => faults \in Nat /\ faults' \in {faults, faults + 1}
<1> SUFFICES ASSUME Typing, [Next]_vars
             PROVE  faults \in Nat /\ faults' \in {faults, faults + 1}
  OBVIOUS
<1> USE DEF Typing, AcceptInv, AcceptTypeOK
<1>1. [AcceptNext]_acceptVars
  BY StepAsAcceptors
<1> QED BY <1>1, AcceptorsAssumption
  DEF AcceptNext, AcceptLoop, acceptVars, Connect, Launch, Bind, BindFail, Accept,
      AcceptFail, Fork, ForkFail, CloseCli, ServeEnd, Abort, Die, ChldHandler, SigEnter,
      SigReap, SigReturn

(* Every step is a step of the cache or none. *)
LEMMA NextCache ==
  ASSUME Typing, ZoneInv, ZoneInv', LogInv, CacheInv, [Next]_vars
  PROVE  CacheInv' /\ [Cache!Next]_(Cache!cacheVars)
<1> USE DEF Typing, ServeTypeOK, CallTypeOK, Goto, Serving
<1>0. faults' \in {faults, faults + 1}
  BY FaultsStep
<1>1. ASSUME UNCHANGED diskVars, NEW p \in Procs, step[p] # "flush",
             step'[p] \notin {"lookup", "mkdir", "store", "flush"},
             \A q \in Procs \ {p} : UNCHANGED <<step[q], url[q], key[q], line[q]>>
      PROVE  CacheInv' /\ [Cache!Next]_(Cache!cacheVars)
  <2>1. CacheInv' /\ UNCHANGED <<LinearLog, stored, first>>
    BY <1>1, AwayCache
  <2> QED BY <1>0, <2>1, Quiet
<1>2. ASSUME UNCHANGED <<diskVars, callVars>>
      PROVE  CacheInv' /\ [Cache!Next]_(Cache!cacheVars)
  <2>1. CacheInv' /\ UNCHANGED <<LinearLog, stored, first>>
    BY <1>2, AwayCache DEF callVars
  <2> QED BY <1>0, <2>1, Quiet
<1>3. CASE UNCHANGED vars
  BY <1>2, <1>3 DEF vars
<1>4. CASE NewConnection
  BY <1>2, <1>4 DEF NewConnection
<1>5. ASSUME NEW p \in Procs,
             StartServer(p) \/ LoopStep(p) \/ Handler(p) \/ AlarmRings(p)
      PROVE  CacheInv' /\ [Cache!Next]_(Cache!cacheVars)
  BY <1>2, <1>5 DEF StartServer, LoopStep, Handler, AlarmRings
<1>6. ASSUME NEW p \in Procs, NEW q \in Procs, ForkChild(p, q)
      PROVE  CacheInv' /\ [Cache!Next]_(Cache!cacheVars)
  <2>1. life[q] = "unborn"
    BY <1>6 DEF ForkChild, Fork
  <2>2. step[q] # "flush"
    BY <2>1 DEF ZoneInv, InZone, ZoneSteps, CheckSteps
  <2> QED BY <1>1, <1>6, <2>2 DEF ForkChild
<1>7. ASSUME NEW p \in Procs, EnterZone(p)
      PROVE  CacheInv' /\ [Cache!Next]_(Cache!cacheVars)
  BY <1>1, <1>7 DEF EnterZone
<1>8. ASSUME NEW p \in Procs, Serve(p)
      PROVE  CacheInv' /\ [Cache!Next]_(Cache!cacheVars)
  <2>1. ASSUME NEW u \in Urls, ReadRequest(p, u)
        PROVE  CacheInv' /\ [Cache!Next]_(Cache!cacheVars)
    BY <1>1, <2>1 DEF ReadRequest
  <2>2. CASE Resolve(p)
    BY <1>1, <2>2 DEF Resolve
  <2>3. CASE CheckStep(p)
    <3>1. step[p] \in CheckSteps
      BY <2>3 DEF CheckStep, CheckUrl, Scan, MakeCache, MakeLogDir, MakeLogFile, HashUrl,
                  LookupMissing, LookupHit, LookupOther, MakeDir, StoreFile, CloseLog,
                  CheckSteps
    <3>2. CheckUrl(p) /\ UNCHANGED faults
      BY <2>3 DEF CheckStep, acceptVars
    <3> QED BY <3>1, <3>2, AloneInCheckUrl, CheckStepCache
  <2>4. CASE LeaveZone(p)
    BY <1>1, <2>4 DEF LeaveZone
  <2>5. CASE Await(p) \/ SendRequest(p)
    BY <1>1, <2>5 DEF Await, SendRequest
  <2>6. CASE Relay(p)
    BY <1>1, <2>6 DEF Relay, Forget
  <2>7. CASE Crash(p)
    <3>1. step[p] \in {"read", "resolve", "lookup"}
      BY <2>7 DEF Crash, LookupEmpty
    <3> QED BY <1>1, <2>7, <3>1 DEF Crash, Ends, Forget, diskVars
  <2> QED BY <1>8, <2>1, <2>2, <2>3, <2>4, <2>5, <2>6, <2>7 DEF Serve
<1>9. ASSUME NEW p \in Procs, Interrupt(p) \/ Kill(p)
      PROVE  CacheInv' /\ [Cache!Next]_(Cache!cacheVars)
  BY <1>9, InterruptCache, KillCache
<1> QED
  BY <1>3, <1>4, <1>5, <1>6, <1>7, <1>8, <1>9 DEF Next, Loop

(* No lookup meets an empty subdirectory: who made it is alone in          *)
(* check_url until it has stored its file.                                 *)
LEMMA NoEmptyLookup ==
  ASSUME Typing, ZoneInv, Filling, NEW p \in Procs
  PROVE  ~ LookupEmpty(p)
<1> SUFFICES ASSUME LookupEmpty(p) PROVE FALSE
  OBVIOUS
<1>1. Subdir(p) \in made /\ first[Subdir(p)] = NoEntry
  BY DEF LookupEmpty
<1>2. PICK q \in Procs : step[q] = "store"
  BY <1>1 DEF Filling
<1>3. step[p] = "lookup"
  BY DEF LookupEmpty
<1> QED BY <1>2, <1>3 DEF ZoneInv, MutualExclusion, InZone, ZoneSteps, CheckSteps

(* While nothing fails, whoever makes a subdirectory goes on to store.     *)
LEMMA NextFilling ==
  ASSUME Typing, ZoneInv, Filling, faults' = faults, [Next]_vars
  PROVE  Filling'
<1> USE DEF Typing, ServeTypeOK, DiskTypeOK, CallTypeOK, Goto, Serving
<1>1. ASSUME UNCHANGED <<made, first>>,
             \A q \in Procs : step[q] = "store" => UNCHANGED <<step[q], key[q]>>
      PROVE  Filling'
  BY <1>1 DEF Filling, Subdir
<1>2. CASE UNCHANGED vars
  BY <1>1, <1>2 DEF vars, diskVars, callVars
<1>3. CASE NewConnection
  BY <1>1, <1>3 DEF NewConnection, diskVars, callVars
<1>4. ASSUME NEW p \in Procs,
             StartServer(p) \/ LoopStep(p) \/ Handler(p) \/ AlarmRings(p)
      PROVE  Filling'
  BY <1>1, <1>4 DEF StartServer, LoopStep, Handler, AlarmRings, diskVars, callVars
<1>5. ASSUME NEW p \in Procs, NEW q \in Procs, ForkChild(p, q) PROVE Filling'
  <2>1. life[q] = "unborn"
    BY <1>5 DEF ForkChild, Fork
  <2>2. step[q] # "store"
    BY <2>1 DEF ZoneInv, InZone, ZoneSteps, CheckSteps
  <2> QED BY <1>1, <1>5, <2>2 DEF ForkChild, diskVars
<1>6. ASSUME NEW p \in Procs, EnterZone(p) PROVE Filling'
  BY <1>1, <1>6 DEF EnterZone, diskVars
<1>7. ASSUME NEW p \in Procs, CheckStep(p) PROVE Filling'
  <2>1. CASE Scan(p) \/ MakeCache(p) \/ MakeLogDir(p) \/ MakeLogFile(p) \/ HashUrl(p)
             \/ LookupMissing(p) \/ LookupHit(p) \/ LookupOther(p) \/ CloseLog(p)
    <3>1. step[p] # "store" /\ UNCHANGED <<made, first>>
          /\ \A q \in Procs \ {p} : UNCHANGED <<step[q], key[q]>>
      BY <2>1 DEF Scan, MakeCache, MakeLogDir, MakeLogFile, HashUrl, LookupMissing,
                  LookupHit, LookupOther, CloseLog, diskVars
    <3> QED BY <1>1, <3>1
  <2>2. CASE MakeDir(p)
    <3>1. /\ step'[p] = "store" /\ made' = made \cup {Subdir(p)} /\ step[p] = "mkdir"
          /\ UNCHANGED <<first, key>> /\ \A q \in Procs \ {p} : step'[q] = step[q]
      BY <2>2 DEF MakeDir, makeDir
    <3> QED BY <3>1 DEF Filling, Subdir
  <2>3. CASE StoreFile(p)
    <3>1. /\ first'[Subdir(p)] # NoEntry
          /\ \A d \in Dirs \ {Subdir(p)} : first'[d] = first[d]
      BY <2>3, CheckUrlAssumption DEF StoreFile, Subdir
    <3>2. /\ UNCHANGED <<made, key>> /\ made \subseteq Dirs
          /\ \A q \in Procs \ {p} : step'[q] = step[q]
      BY <2>3 DEF StoreFile
    <3> QED BY <3>1, <3>2 DEF Filling, Subdir
  <2> QED BY <1>7, <2>1, <2>2, <2>3 DEF CheckStep, CheckUrl
<1>8. ASSUME NEW p \in Procs, Serve(p) PROVE Filling'
  <2>1. ASSUME NEW u \in Urls, ReadRequest(p, u) PROVE Filling'
    BY <1>1, <2>1 DEF ReadRequest, diskVars
  <2>2. CASE Resolve(p) \/ LeaveZone(p) \/ Await(p) \/ SendRequest(p)
    BY <1>1, <2>2 DEF Resolve, LeaveZone, Await, SendRequest, diskVars
  <2>3. CASE Relay(p) \/ Crash(p)
    <3>1. step[p] # "store" /\ UNCHANGED <<made, first>>
          /\ \A q \in Procs \ {p} : UNCHANGED <<step[q], key[q]>>
      BY <2>3 DEF Relay, Crash, LookupEmpty, Ends, Forget, diskVars
    <3> QED BY <1>1, <3>1
  <2> QED BY <1>7, <1>8, <2>1, <2>2, <2>3 DEF Serve
<1>9. ASSUME NEW p \in Procs, Interrupt(p) \/ Kill(p) PROVE FALSE
  BY <1>9, FaultsStep DEF Interrupt, Kill, Die
<1> QED
  BY <1>2, <1>3, <1>4, <1>5, <1>6, <1>8, <1>9 DEF Next, Loop

(* The history of the cache: a file that a lookup can find was a MISS      *)
(* before, and so was every Hit.                                           *)
MissBefore(L, u, j) == \E i \in 1..Len(L) : i < j /\ L[i] = Miss(u)

HistoryOf(L) ==
  /\ L \in Seq(Lines)
  /\ \A d \in Dirs : first[d] # NoEntry => MissBefore(L, first[d], Len(L) + 1)
  /\ \A j \in 1..Len(L) : L[j].kind = "Hit" => MissBefore(L, L[j].url, j)

HistoryInv == HistoryOf(LinearLog)

(* What came before comes before still, when a line is added.              *)
LEMMA StillBefore ==
  ASSUME NEW L \in Seq(Lines), NEW x \in Lines, NEW u, NEW j, MissBefore(L, u, j)
  PROVE  MissBefore(Append(L, x), u, j)
<1>1. Len(Append(L, x)) = Len(L) + 1 /\ Len(L) \in Nat
      /\ \A i \in 1..Len(L) : Append(L, x)[i] = L[i]
  OBVIOUS
<1>2. PICK i \in 1..Len(L) : i < j /\ L[i] = Miss(u)
  BY DEF MissBefore
<1>3. i \in 1..Len(Append(L, x)) /\ Append(L, x)[i] = Miss(u)
  BY <1>1, <1>2
<1> QED BY <1>2, <1>3 DEF MissBefore

(* Every step of the cache keeps its history. *)
LEMMA NextHistory ==
  ASSUME Typing, HistoryInv, [Cache!Next]_(Cache!cacheVars), faults' = faults
  PROVE  HistoryInv'
<1> DEFINE L == LinearLog
           M == LinearLog'
<1>1. L \in Seq(Lines) /\ Len(L) \in Nat
      /\ (\A d \in Dirs : first[d] # NoEntry => MissBefore(L, first[d], Len(L) + 1))
      /\ \A j \in 1..Len(L) : L[j].kind = "Hit" => MissBefore(L, L[j].url, j)
  BY DEF HistoryInv, HistoryOf
<1>2. ASSUME NEW u \in Urls, NEW x \in Lines, M = Append(L, x),
             x.kind = "Hit" => MissBefore(L, x.url, Len(L) + 1)
      PROVE  \A j \in 1..Len(M) : M[j].kind = "Hit" => MissBefore(M, M[j].url, j)
  <2> HIDE DEF L, M
  <2> SUFFICES ASSUME NEW j \in 1..Len(M), M[j].kind = "Hit"
               PROVE  MissBefore(M, M[j].url, j)
    OBVIOUS
  <2>1. Len(M) = Len(L) + 1 /\ M[Len(L) + 1] = x
        /\ \A i \in 1..Len(L) : M[i] = L[i]
    BY <1>1, <1>2
  <2>2. CASE j \in 1..Len(L)
    <3>1. M[j] = L[j] /\ MissBefore(L, L[j].url, j)
      BY <1>1, <2>1, <2>2
    <3> QED BY <1>1, <1>2, <3>1, StillBefore
  <2>3. CASE j = Len(L) + 1
    BY <1>1, <1>2, <2>1, <2>3, StillBefore
  <2> QED BY <1>1, <2>1, <2>2, <2>3
<1>3. ASSUME NEW x \in Lines, M = Append(L, x)
      PROVE  /\ M \in Seq(Lines) /\ Len(M) = Len(L) + 1
             /\ \A u : MissBefore(L, u, Len(L) + 1) => MissBefore(M, u, Len(M) + 1)
  <2> HIDE DEF L, M
  <2>1. M \in Seq(Lines) /\ Len(M) = Len(L) + 1
    BY <1>1, <1>3
  <2>2. ASSUME NEW u, MissBefore(L, u, Len(L) + 1) PROVE MissBefore(M, u, Len(M) + 1)
    <3>1. MissBefore(M, u, Len(L) + 1)
      BY <1>1, <1>3, <2>2, StillBefore
    <3> QED BY <1>1, <2>1, <3>1 DEF MissBefore
  <2> QED BY <2>1, <2>2
<1>4. ASSUME NEW u \in Urls, Cache!HitRequest(u) PROVE HistoryInv'
  <2>1. Hit(u) \in Lines /\ Hit(u).kind = "Hit" /\ Hit(u).url = u
    BY LineTypes DEF Hit
  <2>2. M = Append(L, Hit(u)) /\ first' = first /\ first[DirOf[u]] = u /\ u # NoEntry
        /\ DirOf[u] \in Dirs
    BY <1>4, CheckUrlAssumption DEF Cache!HitRequest, Cache!Record, Hit
  <2>3. MissBefore(L, u, Len(L) + 1)
    BY <1>1, <2>2
  <2>4. \A j \in 1..Len(M) : M[j].kind = "Hit" => MissBefore(M, M[j].url, j)
    BY <1>2, <2>1, <2>2, <2>3
  <2>5. \A d \in Dirs : first'[d] # NoEntry => MissBefore(M, first'[d], Len(M) + 1)
    BY <1>1, <1>3, <2>1, <2>2
  <2> QED BY <1>3, <2>1, <2>2, <2>4, <2>5 DEF HistoryInv, HistoryOf
<1>5. ASSUME NEW u \in Urls, Cache!MissRequest(u) PROVE HistoryInv'
  <2>1. Miss(u) \in Lines /\ Miss(u).kind # "Hit"
    BY LineTypes DEF Miss
  <2>2. M = Append(L, Miss(u))
        /\ (first' = [first EXCEPT ![DirOf[u]] = u] \/ first' = first)
    BY <1>5 DEF Cache!MissRequest, Cache!Record, Miss
  <2>3. \A j \in 1..Len(M) : M[j].kind = "Hit" => MissBefore(M, M[j].url, j)
    BY <1>2, <2>1, <2>2
  <2>4. MissBefore(M, u, Len(M) + 1)
    <3> HIDE DEF L, M
    <3>1. Len(L) + 1 \in 1..Len(M) /\ M[Len(L) + 1] = Miss(u) /\ Len(L) + 1 < Len(M) + 1
      BY <1>1, <1>3, <2>1, <2>2
    <3> QED BY <3>1 DEF MissBefore
  <2>5. \A d \in Dirs : first'[d] = first[d] \/ first'[d] = u
    BY <2>2 DEF Typing, ServeTypeOK, DiskTypeOK
  <2>6. \A d \in Dirs : first'[d] # NoEntry => MissBefore(M, first'[d], Len(M) + 1)
    BY <1>1, <1>3, <2>1, <2>2, <2>4, <2>5
  <2> QED BY <1>3, <2>1, <2>2, <2>3, <2>6 DEF HistoryInv, HistoryOf
<1>6. CASE UNCHANGED Cache!cacheVars
  BY <1>6 DEF Cache!cacheVars, HistoryInv, HistoryOf
<1>7. ~ Cache!Failure
  BY AcceptorsAssumption DEF Cache!Failure, Typing, AcceptInv, AcceptTypeOK
<1> QED BY <1>4, <1>5, <1>6, <1>7 DEF Cache!Next

(* What is in the log was in the cache's log before, at the same place.    *)
LEMMA HistoryOfLog ==
  ASSUME Typing, ZoneInv, HistoryInv
  PROVE  \A j \in 1..Len(log) : log[j].kind = "Hit" =>
           \E i \in Misses(log[j].url) : i < j
<1> SUFFICES ASSUME NEW j \in 1..Len(log), log[j].kind = "Hit"
             PROVE  \E i \in Misses(log[j].url) : i < j
  OBVIOUS
<1>1. log \in Seq(Lines) /\ Len(log) \in Nat
  BY DEF Typing, ServeTypeOK, DiskTypeOK
<1>2. Len(log) <= Len(LinearLog) /\ Len(LinearLog) \in Nat
      /\ \A i \in 1..Len(log) : LinearLog[i] = log[i]
  <2>1. CASE LinearLog = log
    BY <1>1, <2>1
  <2>2. ASSUME NEW p \in Procs, step[p] = "flush"
        PROVE  /\ Len(log) <= Len(LinearLog) /\ Len(LinearLog) \in Nat
               /\ \A i \in 1..Len(log) : LinearLog[i] = log[i]
    <3>1. LinearLog = Append(log, line[p])
      BY <2>2, LinearLogIs
    <3> QED BY <1>1, <3>1
  <2> QED BY <2>1, <2>2, LinearLogIs
<1>3. MissBefore(LinearLog, log[j].url, j)
  BY <1>1, <1>2 DEF HistoryInv, HistoryOf
<1>4. PICK i \in 1..Len(LinearLog) : i < j /\ LinearLog[i] = Miss(log[j].url)
  BY <1>3 DEF MissBefore
<1>5. i \in 1..Len(log) /\ log[i] = Miss(log[j].url)
  BY <1>1, <1>2, <1>4
<1> QED BY <1>4, <1>5 DEF Misses

(* What holds of the cache while nothing fails, with the first states.     *)
WhileSound == faults = 0 => Filling /\ HistoryInv

\* The cache is empty at first.
LEMMA InitCache == Init => CacheInv /\ WhileSound /\ Cache!Init
<1> SUFFICES ASSUME Init PROVE CacheInv /\ WhileSound /\ Cache!Init
  OBVIOUS
<1>1. LinearLog = <<>>
  BY DEF Init, CallInit, DiskInit, LinearLog
<1>2. CacheInv /\ Filling /\ HistoryInv /\ Cache!Init
  BY <1>1 DEF Init, AcceptInit, CallInit, DiskInit, CacheInv, Filling, HistoryInv,
              HistoryOf, Cache!Init
<1> QED BY <1>2 DEF WhileSound

\* Every step keeps what holds while nothing fails.
LEMMA NextSound ==
  Typing /\ ZoneInv /\ ZoneInv' /\ LogInv /\ CacheInv /\ WhileSound /\ [Next]_vars
    => WhileSound'
<1> SUFFICES ASSUME Typing, ZoneInv, ZoneInv', LogInv, CacheInv, WhileSound, [Next]_vars,
                    faults' = 0
             PROVE  Filling' /\ HistoryInv'
  BY DEF WhileSound
<1>1. faults = 0 /\ faults' = faults
  BY FaultsStep
<1>2. Filling /\ HistoryInv
  BY <1>1 DEF WhileSound
<1>3. [Cache!Next]_(Cache!cacheVars)
  BY NextCache
<1> QED BY <1>1, <1>2, <1>3, NextFilling, NextHistory

(* All that is needed of a state of proxy 3-1, launched once.              *)
LEMMA SoundInvariant ==
  OneRoot => (Spec => [](Typing /\ ZoneInv /\ LogInv /\ CacheInv /\ WhileSound))
<1> SUFFICES ASSUME OneRoot
             PROVE  Spec => [](Typing /\ ZoneInv /\ LogInv /\ CacheInv /\ WhileSound)
  OBVIOUS
<1>1. Typing /\ ZoneInv /\ [Next]_vars => ZoneInv'
  BY NextZone
<1>2. Init => LogInv
  BY InitLog DEF Init, CheckSteps
<1>3. Typing /\ ZoneInv /\ LogInv /\ [Next]_vars => LogInv'
  BY NextLog
<1>4. Init => CacheInv /\ WhileSound
  BY InitCache
<1>5. Typing /\ ZoneInv /\ ZoneInv' /\ LogInv /\ CacheInv /\ [Next]_vars => CacheInv'
  BY NextCache
<1> QED
  BY <1>1, <1>2, <1>3, <1>4, <1>5, InitZone, NextSound, TypingInvariant, PTL DEF Spec

(* When the proxy is launched once, check_url under the semaphore is one   *)
(* atomic step of the cache, for any URLs and digests and however many     *)
(* requests overlap; each failure of a process, wherever it is, costs one  *)
(* file or one line at most.                                               *)
THEOREM CacheImplemented == OneRoot => (Spec => ImplementsCache)
<1> SUFFICES ASSUME OneRoot PROVE Spec => ImplementsCache
  OBVIOUS
<1>1. Init => Cache!Init
  BY InitCache
<1>2. Typing /\ ZoneInv /\ ZoneInv' /\ LogInv /\ CacheInv /\ [Next]_vars
        => [Cache!Next]_(Cache!cacheVars)
  BY NextCache
<1> QED BY <1>1, <1>2, SoundInvariant, PTL DEF Spec, ImplementsCache, Cache!Spec

(* When the proxy is launched once, no lookup finds a subdirectory without *)
(* a file, as long as nothing has failed.                                  *)
THEOREM LookupsFind == OneRoot => (Spec => []LookupFindsEntry)
<1> SUFFICES ASSUME OneRoot PROVE Spec => []LookupFindsEntry
  OBVIOUS
<1>1. Typing /\ ZoneInv /\ WhileSound => LookupFindsEntry
  BY NoEmptyLookup DEF WhileSound, LookupFindsEntry
<1> QED BY <1>1, SoundInvariant, PTL

(* When the proxy is launched once, every Hit in logfile.txt has a MISS of *)
(* its URL before it, as long as nothing has failed.                       *)
THEOREM HitsMissed == OneRoot => (Spec => []HitAfterMiss)
<1> SUFFICES ASSUME OneRoot PROVE Spec => []HitAfterMiss
  OBVIOUS
<1>1. Typing /\ ZoneInv /\ WhileSound => HitAfterMiss
  BY HistoryOfLog DEF WhileSound, HitAfterMiss
<1> QED BY <1>1, SoundInvariant, PTL

-----------------------------------------------------------------------------
(* MISS once, also when processes fail *)

(* No two URLs share the first digits of their digests.                    *)
OwnDirs == \A u, v \in Urls : DirOf[u] = DirOf[v] => u = v

Count(u) == Cardinality(Misses(u))

(* A URL that no lookup finds yet was a MISS for each failure at most, and *)
(* so was one whose line is still in a buffer.  A call that is about to    *)
(* store a file found none.                                                *)
MissInv ==
  /\ \A p \in Procs :
       /\ step[p] \in {"lookup", "mkdir", "store"} => key[p] = url[p]
       /\ step[p] \in {"mkdir", "store"} =>
            line[p] = Miss(key[p]) /\ first[Subdir(p)] # key[p]
       /\ step[p] = "store" => Subdir(p) \in made
       /\ step[p] = "flush" => \A u \in Urls :
            line[p] = Miss(u) => first[DirOf[u]] = u /\ Count(u) <= faults
  /\ \A d \in Dirs : d \notin made => first[d] = NoEntry
  /\ \A u \in Urls : first[DirOf[u]] \in {u, NoEntry}
  /\ \A u \in stored : first[DirOf[u]] = u
  /\ \A u \in Urls :
       /\ Count(u) <= faults + 1
       /\ first[DirOf[u]] # u => Count(u) <= faults

(* Misses are counted. *)
LEMMA CountIs ==
  ASSUME Typing
  PROVE  \A u \in Urls : IsFiniteSet(Misses(u)) /\ Count(u) \in Nat
<1>1. Len(log) \in Nat
  BY DEF Typing, ServeTypeOK, DiskTypeOK
<1>2. IsFiniteSet(1..Len(log))
  BY <1>1, FS_Interval
<1> QED BY <1>2, FS_Subset, FS_CardinalityType DEF Misses, Count

(* A line added to the log counts for its own URL alone.                   *)
LEMMA CountGrows ==
  ASSUME Typing, NEW x \in Lines, log' = Append(log, x)
  PROVE  \A u \in Urls : Count(u)' = IF x = Miss(u) THEN Count(u) + 1 ELSE Count(u)
<1> SUFFICES ASSUME NEW u \in Urls
             PROVE  Count(u)' = IF x = Miss(u) THEN Count(u) + 1 ELSE Count(u)
  OBVIOUS
<1>1. /\ Len(log') = Len(log) + 1 /\ Len(log) \in Nat
      /\ log'[Len(log) + 1] = x /\ \A i \in 1..Len(log) : log'[i] = log[i]
  BY DEF Typing, ServeTypeOK, DiskTypeOK
<1>2. IsFiniteSet(Misses(u))
  BY CountIs
<1>3. CASE x = Miss(u)
  <2>1. Misses(u)' = Misses(u) \cup {Len(log) + 1} /\ Len(log) + 1 \notin Misses(u)
    BY <1>1, <1>3 DEF Misses
  <2>2. Cardinality(Misses(u) \cup {Len(log) + 1}) = Cardinality(Misses(u)) + 1
    BY <1>2, <2>1, FS_AddElement
  <2> QED BY <1>3, <2>1, <2>2 DEF Count
<1>4. CASE x # Miss(u)
  <2>1. Misses(u)' = Misses(u)
    BY <1>1, <1>4 DEF Misses
  <2> QED BY <1>4, <2>1 DEF Count
<1> QED BY <1>3, <1>4

(* Whoever is elsewhere, ends without a line in the buffer, or loses it.   *)
LEMMA AwayMiss ==
  ASSUME Typing, MissInv, UNCHANGED <<log, made, stored, first>>,
         faults' \in Nat, faults' >= faults,
         \A q \in Procs :
           \/ UNCHANGED <<step[q], url[q], key[q], line[q]>>
           \/ step'[q] \notin {"lookup", "mkdir", "store", "flush"}
  PROVE  MissInv'
<1>1. \A u \in Urls : Count(u)' = Count(u) /\ Count(u) \in Nat
  BY CountIs DEF Count, Misses
<1>2. faults \in Nat
  BY AcceptorsAssumption DEF Typing, AcceptInv, AcceptTypeOK
<1> QED BY <1>1, <1>2 DEF MissInv, Subdir

(* The file of a MISS becomes the first of its own subdirectory.           *)
LEMMA StoreMiss ==
  ASSUME OwnDirs, Typing, MissInv, NEW p \in Procs, StoreFile(p),
         \A q \in Procs \ {p} : step[q] \notin CheckSteps, UNCHANGED faults
  PROVE  MissInv'
<1> USE CheckUrlAssumption
    DEF Typing, ServeTypeOK, DiskTypeOK, CallTypeOK, Goto, CheckSteps, StoreFile
<1>1. /\ step[p] = "store" /\ key[p] \in Urls /\ line[p] = Miss(key[p])
      /\ first[DirOf[key[p]]] # key[p]
  BY DEF MissInv, Subdir
<1>2. key[p] \notin stored /\ first' = [first EXCEPT ![DirOf[key[p]]] = key[p]]
  BY <1>1 DEF MissInv, Subdir
<1>3. /\ first'[DirOf[key[p]]] = key[p]
      /\ \A u \in Urls : u # key[p] => first'[DirOf[u]] = first[DirOf[u]]
      /\ \A d \in Dirs : d # DirOf[key[p]] => first'[d] = first[d]
  BY <1>1, <1>2 DEF OwnDirs
<1>4. /\ \A u \in Urls : Count(u)' = Count(u) /\ Count(u) \in Nat
      /\ faults \in Nat /\ Subdir(p) \in made /\ Subdir(p)' = DirOf[key[p]]
      /\ UNCHANGED <<log, made, url, key, line>>
  <2>1. UNCHANGED <<log, made, url, key, line>>
    OBVIOUS
  <2>2. \A u \in Urls : Count(u)' = Count(u) /\ Count(u) \in Nat
    BY <2>1, CountIs DEF Count, Misses
  <2>3. faults \in Nat
    BY AcceptorsAssumption DEF AcceptInv, AcceptTypeOK
  <2>4. Subdir(p) \in made /\ Subdir(p)' = DirOf[key[p]]
    BY <1>1, <2>1 DEF MissInv, Subdir
  <2> QED BY <2>1, <2>2, <2>3, <2>4
<1>5. \A u \in Urls : line[p] = Miss(u) => u = key[p]
  BY <1>1 DEF Miss
<1>6. \A q \in Procs : step'[q] \notin {"lookup", "mkdir", "store"}
                      /\ (step'[q] = "flush" => q = p)
  OBVIOUS
<1>7. \A q \in Procs : step'[q] = "flush" => \A u \in Urls :
        line'[q] = Miss(u) => first'[DirOf[u]] = u /\ Count(u)' <= faults'
  BY <1>1, <1>3, <1>4, <1>5, <1>6 DEF MissInv
<1>8. \A d \in Dirs : d \notin made' => first'[d] = NoEntry
  BY <1>3, <1>4 DEF MissInv, Subdir
<1>9. /\ \A u \in Urls : first'[DirOf[u]] \in {u, NoEntry}
      /\ \A u \in stored' : first'[DirOf[u]] = u
  BY <1>1, <1>3 DEF MissInv, makeFile
<1>10. \A u \in Urls :
         /\ Count(u)' <= faults' + 1
         /\ first'[DirOf[u]] # u => Count(u)' <= faults'
  BY <1>3, <1>4 DEF MissInv
<1> QED BY <1>6, <1>7, <1>8, <1>9, <1>10 DEF MissInv

(* A step of check_url, alone there. *)
LEMMA CheckStepMiss ==
  ASSUME OwnDirs, Typing, LogInv, MissInv, NEW p \in Procs, CheckUrl(p),
         \A q \in Procs \ {p} : step[q] \notin CheckSteps, UNCHANGED faults
  PROVE  MissInv'
<1> USE CheckUrlAssumption
    DEF Typing, ServeTypeOK, DiskTypeOK, CallTypeOK, Goto, CheckSteps, diskVars
<1>1. \A q \in Procs \ {p} : step[q] \notin CheckSteps /\ step'[q] = step[q]
  BY DEF CheckUrl, Scan, MakeCache, MakeLogDir, MakeLogFile, HashUrl, LookupMissing,
         LookupHit, LookupOther, MakeDir, StoreFile, CloseLog
<1>2. faults \in Nat /\ \A u \in Urls : Count(u) \in Nat
  BY CountIs, AcceptorsAssumption DEF AcceptInv, AcceptTypeOK
<1>3. ASSUME UNCHANGED log PROVE \A u \in Urls : Count(u)' = Count(u)
  BY <1>3 DEF Count, Misses
<1>4. CASE Scan(p) \/ MakeCache(p) \/ MakeLogDir(p)
  BY <1>1, <1>2, <1>4, AwayMiss DEF Scan, MakeCache, MakeLogDir, AfterScan
<1>5. CASE MakeLogFile(p)
  <2>1. log' = log
    BY <1>5 DEF MakeLogFile, LogInv
  <2> QED BY <1>1, <1>2, <1>5, <2>1, AwayMiss DEF MakeLogFile
<1>6. CASE HashUrl(p)
  BY <1>1, <1>3, <1>6 DEF HashUrl, MissInv, Subdir
<1>7. CASE LookupMissing(p) \/ LookupOther(p)
  <2>1. first[Subdir(p)] # key[p] /\ key[p] = url[p] /\ key[p] \in Urls
    BY <1>7 DEF LookupMissing, LookupOther, MissInv, Subdir
  <2> QED BY <1>1, <1>3, <1>7, <2>1 DEF LookupMissing, LookupOther, MissInv, Subdir
<1>8. CASE LookupHit(p)
  <2>1. \A u \in Urls : line'[p] # Miss(u)
    BY <1>8 DEF LookupHit, Hit, Miss
  <2> QED BY <1>1, <1>3, <1>8, <2>1 DEF LookupHit, MissInv, Subdir
<1>9. CASE MakeDir(p)
  BY <1>1, <1>3, <1>9 DEF MakeDir, makeDir, MissInv, Subdir
<1>10. CASE StoreFile(p)
  BY <1>10, StoreMiss
<1>11. CASE CloseLog(p)
  <2>1. line[p] \in Lines /\ log' = Append(log, line[p])
    BY <1>11 DEF CloseLog, Flush, Unflushed, BufferFull
  <2>2. \A q \in Procs : step'[q] \notin {"lookup", "mkdir", "store", "flush"}
    BY <1>1, <1>11 DEF CloseLog
  <2>3. \A u \in Urls :
          /\ Count(u)' <= faults + 1
          /\ first[DirOf[u]] # u => Count(u)' <= faults
    <3> SUFFICES ASSUME NEW u \in Urls
                 PROVE  /\ Count(u)' <= faults + 1
                        /\ first[DirOf[u]] # u => Count(u)' <= faults
      OBVIOUS
    <3>1. CASE line[p] = Miss(u)
      <4>1. first[DirOf[u]] = u /\ Count(u) <= faults
        BY <1>11, <3>1 DEF CloseLog, MissInv
      <4>2. Count(u)' = Count(u) + 1
        BY <2>1, <3>1, CountGrows
      <4> QED BY <1>2, <4>1, <4>2
    <3>2. CASE line[p] # Miss(u)
      BY <2>1, <3>2, CountGrows DEF MissInv
    <3> QED BY <3>1, <3>2
  <2> QED BY <1>11, <2>2, <2>3 DEF CloseLog, MissInv
<1> QED BY <1>4, <1>5, <1>6, <1>7, <1>8, <1>9, <1>10, <1>11 DEF CheckUrl

(* SIGINT costs a MISS: the line is written, the file perhaps not stored.  *)
LEMMA InterruptMiss ==
  ASSUME Typing, ZoneInv, MissInv, NEW p \in Procs, Interrupt(p)
  PROVE  MissInv'
<1> USE DEF Typing, ServeTypeOK, DiskTypeOK, CallTypeOK, Goto
<1>1. /\ faults \in Nat /\ faults' = faults + 1
      /\ UNCHANGED <<made, stored, first>>
      /\ step' = [step EXCEPT ![p] = "end"]
      /\ \A q \in Procs \ {p} : UNCHANGED <<step[q], url[q], key[q], line[q]>>
  BY AcceptorsAssumption
  DEF Interrupt, Die, Ends, Forget, AcceptInv, AcceptTypeOK
<1>2. CASE ~ Unflushed(p)
  <2>1. log' = log
    BY <1>2 DEF Interrupt, Flush
  <2> QED BY <1>1, <2>1, AwayMiss
<1>3. CASE Unflushed(p)
  <2>1. line[p] \in Lines /\ log' = Append(log, line[p])
    BY <1>3 DEF Interrupt, Flush, BufferFull
  <2>2. \A q \in Procs : step'[q] \notin {"lookup", "mkdir", "store", "flush"}
    BY <1>1, <1>3 DEF Unflushed, ZoneInv, MutualExclusion, InZone, ZoneSteps, CheckSteps
  <2>3. \A u \in Urls : line[p] = Miss(u) => Count(u) <= faults
    <3> SUFFICES ASSUME NEW u \in Urls, line[p] = Miss(u) PROVE Count(u) <= faults
      OBVIOUS
    <3>1. CASE step[p] = "flush"
      BY <3>1 DEF MissInv
    <3>2. CASE step[p] \in {"mkdir", "store"}
      <4>1. Miss(u) = Miss(key[p]) /\ first[DirOf[key[p]]] # key[p]
        BY <3>2 DEF MissInv, Subdir
      <4>2. u = key[p]
        BY <4>1 DEF Miss
      <4> QED BY <4>1, <4>2 DEF MissInv
    <3> QED BY <1>3, <3>1, <3>2 DEF Unflushed
  <2>4. \A u \in Urls : Count(u)' <= faults' /\ Count(u)' <= faults' + 1
    <3> SUFFICES ASSUME NEW u \in Urls
                 PROVE  Count(u)' <= faults' /\ Count(u)' <= faults' + 1
      OBVIOUS
    <3>1. Count(u)' = IF line[p] = Miss(u) THEN Count(u) + 1 ELSE Count(u)
      BY <2>1, CountGrows
    <3>2. Count(u) \in Nat /\ Count(u) <= faults + 1
      BY CountIs DEF MissInv
    <3> QED BY <1>1, <2>3, <3>1, <3>2
  <2> QED BY <1>1, <2>2, <2>4 DEF MissInv, Subdir
<1> QED BY <1>2, <1>3

(* Every step keeps the number of MISSes within the failures.              *)
LEMMA NextMiss ==
  ASSUME OwnDirs, Typing, ZoneInv, LogInv, MissInv, [Next]_vars
  PROVE  MissInv'
<1> USE DEF Typing, ServeTypeOK, CallTypeOK, Goto, Serving
<1>1. faults \in Nat /\ faults' \in Nat /\ faults' >= faults
  <2>1. faults \in Nat
    BY AcceptorsAssumption DEF AcceptInv, AcceptTypeOK
  <2>2. [AcceptNext]_acceptVars
    BY StepAsAcceptors
  <2>3. faults' = faults \/ faults' = faults + 1
    BY <2>2
    DEF AcceptNext, AcceptLoop, acceptVars, Connect, Launch, Bind, BindFail, Accept,
        AcceptFail, Fork, ForkFail, CloseCli, ServeEnd, Abort, Die, ChldHandler, SigEnter,
        SigReap, SigReturn
  <2> QED BY <2>1, <2>3
<1>2. ASSUME UNCHANGED <<log, made, stored, first>>, NEW p \in Procs,
             step'[p] \notin {"lookup", "mkdir", "store", "flush"},
             \A q \in Procs \ {p} : UNCHANGED <<step[q], url[q], key[q], line[q]>>
      PROVE  MissInv'
  BY <1>1, <1>2, AwayMiss
<1>3. ASSUME UNCHANGED <<diskVars, callVars>> PROVE MissInv'
  BY <1>1, <1>3, AwayMiss DEF diskVars, callVars
<1>4. CASE UNCHANGED vars \/ NewConnection
  BY <1>3, <1>4 DEF vars, NewConnection
<1>5. ASSUME NEW p \in Procs,
             StartServer(p) \/ LoopStep(p) \/ Handler(p) \/ AlarmRings(p)
      PROVE  MissInv'
  BY <1>3, <1>5 DEF StartServer, LoopStep, Handler, AlarmRings
<1>6. ASSUME NEW p \in Procs, NEW q \in Procs, ForkChild(p, q) PROVE MissInv'
  BY <1>2, <1>6 DEF ForkChild, diskVars
<1>7. ASSUME NEW p \in Procs, EnterZone(p) PROVE MissInv'
  BY <1>2, <1>7 DEF EnterZone, diskVars
<1>8. ASSUME NEW p \in Procs, Serve(p) PROVE MissInv'
  <2>1. ASSUME NEW u \in Urls, ReadRequest(p, u) PROVE MissInv'
    BY <1>2, <2>1 DEF ReadRequest, diskVars
  <2>2. CASE Resolve(p) \/ LeaveZone(p) \/ Await(p) \/ SendRequest(p)
    BY <1>2, <2>2 DEF Resolve, LeaveZone, Await, SendRequest, diskVars
  <2>3. CASE CheckStep(p)
    <3>1. step[p] \in CheckSteps
      BY <2>3 DEF CheckStep, CheckUrl, Scan, MakeCache, MakeLogDir, MakeLogFile, HashUrl,
                  LookupMissing, LookupHit, LookupOther, MakeDir, StoreFile, CloseLog,
                  CheckSteps
    <3>2. faults' = faults
      BY <2>3 DEF CheckStep, acceptVars
    <3> QED BY <2>3, <3>1, <3>2, AloneInCheckUrl, CheckStepMiss DEF CheckStep
  <2>4. CASE Relay(p) \/ Crash(p)
    BY <1>2, <2>4 DEF Relay, Crash, Ends, Forget, diskVars
  <2> QED BY <1>8, <2>1, <2>2, <2>3, <2>4 DEF Serve
<1>9. ASSUME NEW p \in Procs, Interrupt(p) PROVE MissInv'
  BY <1>9, InterruptMiss
<1>10. ASSUME NEW p \in Procs, Kill(p) PROVE MissInv'
  BY <1>2, <1>10 DEF Kill, Ends, Forget
<1> QED
  BY <1>4, <1>5, <1>6, <1>7, <1>8, <1>9, <1>10 DEF Next, Loop

\* No URL was a MISS at first.
LEMMA InitMiss == Init => MissInv
<1> SUFFICES ASSUME Init PROVE MissInv
  OBVIOUS
<1>1. \A u : Count(u) = 0
  <2>1. \A u : Misses(u) = {}
    BY DEF Init, DiskInit, Misses
  <2> QED BY <2>1, FS_EmptySet DEF Count
<1>2. /\ faults = 0 /\ stored = {} /\ first = [d \in Dirs |-> NoEntry]
      /\ \A p \in Procs : step[p] = "idle"
  BY DEF Init, AcceptInit, DiskInit, CallInit
<1> QED BY <1>1, <1>2, CheckUrlAssumption DEF MissInv

(* When the proxy is launched once and no two URLs share a subdirectory,   *)
(* a URL is a MISS once, and once more for each failure at most, whoever   *)
(* ends where in check_url.                                                *)
THEOREM MissesBounded == OneRoot /\ OwnDirs => (Spec => []MissedOnce)
<1> SUFFICES ASSUME OneRoot, OwnDirs PROVE Spec => []MissedOnce
  OBVIOUS
<1>1. Typing /\ ZoneInv /\ LogInv /\ MissInv /\ [Next]_vars => MissInv'
  BY NextMiss
<1>2. Spec => []MissInv
  BY <1>1, InitMiss, SoundInvariant, PTL DEF Spec
<1>3. Typing /\ MissInv => MissedOnce
  <2> SUFFICES ASSUME Typing, MissInv, NEW u \in Urls
               PROVE  Cardinality(Misses(u)) <= 1 + faults
    BY DEF MissedOnce
  <2>1. Count(u) \in Nat /\ Count(u) <= faults + 1 /\ faults \in Nat
    BY CountIs, AcceptorsAssumption DEF MissInv, Typing, AcceptInv, AcceptTypeOK
  <2> QED BY <2>1 DEF Count
<1> QED BY <1>2, <1>3, SoundInvariant, PTL
=============================================================================
