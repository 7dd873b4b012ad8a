-------------------------- MODULE ProxyPartsProofs --------------------------
(***************************************************************************)
(* Proofs about the two parts every proxy is built of: the process tree,   *)
(* for any process table, any number of launches, connections and          *)
(* failures, and the steps of check_url, for any URLs and any digests.     *)
(***************************************************************************)
EXTENDS Acceptors, CheckUrl, TLAPS

-----------------------------------------------------------------------------
(* The process tree *)

(* Only a process of the loop has children, and no process is its own      *)
(* parent: main forks in the loop, and a process that ends gives its       *)
(* children away.                                                          *)
ParentsInLoop ==
  \A q \in Procs : parent[q] # NoProc =>
    /\ parent[q] # q
    /\ life[parent[q]] \in {"accept", "fork", "close"}

(* A connection that nobody accepted has no descriptor. *)
UntakenUnheld == \A c \in Conns : conn[c] # "taken" => Holders(c) = {}

(* The proxy is launched once: a second launch would set the semaphore of  *)
(* 3-1 again, and bind the port once the first has closed it.              *)
OneRoot == \A r1, r2 \in Roots : r1 = r2

(* The launch comes before anything else.                                  *)
LaunchFirst ==
  (\E r \in Roots : life[r] = "unborn") => \A p \in Procs : life[p] = "unborn"

(* The inductive invariant.  ParentsInLoop tells EndOf that the parent it  *)
(* signals lives and that a process that has ended has no child left;      *)
(* UntakenUnheld tells Accept that the connection is new to everybody.     *)
AcceptInv ==
  /\ AcceptTypeOK
  /\ ParentsInLoop
  /\ NoLostZombie
  /\ UntakenUnheld
  /\ OneServer

\* The initial states satisfy the invariant.
LEMMA InitAcceptInv == AcceptInit => AcceptInv
BY AcceptorsAssumption
DEF AcceptInit, AcceptInv, AcceptTypeOK, Phases, ParentsInLoop, NoLostZombie,
    UntakenUnheld, OneServer, Holders

(* The end of a process, in the kernel: whoever calls EndOf, the state it  *)
(* leaves satisfies the invariant.                                         *)
LEMMA EndOfAcceptInv ==
  ASSUME AcceptInv, NEW p \in Procs, Alive(p), EndOf(p), faults' \in 0..MaxFaults
  PROVE  AcceptInv'
<1> USE AcceptorsAssumption DEF AcceptInv
<1>1. AcceptTypeOK'
  BY DEF AcceptTypeOK, Phases, EndOf, Unlisten, Signalled, Watched
<1>2. ParentsInLoop'
  BY DEF AcceptTypeOK, Phases, ParentsInLoop, EndOf, ZombiesOf, Watched, Alive
<1>3. NoLostZombie'
  BY DEF AcceptTypeOK, Phases, ParentsInLoop, NoLostZombie, EndOf, ZombiesOf,
         Signalled, Watched, Alive
<1>4. UntakenUnheld'
  BY DEF AcceptTypeOK, UntakenUnheld, Holders, EndOf, Unlisten
<1>5. OneServer'
  BY DEF AcceptTypeOK, Phases, OneServer, Holders, ForkedFor, EndOf, ZombiesOf, Alive
<1> QED BY <1>1, <1>2, <1>3, <1>4, <1>5

\* Connections and launches.
LEMMA OutsideAcceptInv ==
  ASSUME AcceptInv,
         \/ \E c \in Conns : Connect(c)
         \/ \E p \in Procs : Launch(p)
  PROVE  AcceptInv'
<1> USE AcceptorsAssumption DEF AcceptInv
<1>1. ASSUME NEW c \in Conns, Connect(c) PROVE AcceptInv'
  BY <1>1 DEF Connect, AcceptTypeOK, ParentsInLoop, NoLostZombie, UntakenUnheld,
              OneServer, Holders, ForkedFor, Alive
<1>2. ASSUME NEW p \in Procs, Launch(p) PROVE AcceptInv'
  <2> USE <1>2 DEF Launch
  <2>1. AcceptTypeOK'
    BY DEF AcceptTypeOK, Phases
  <2>2. ParentsInLoop' /\ UntakenUnheld'
    BY DEF AcceptTypeOK, ParentsInLoop, UntakenUnheld, Holders
  <2>3. NoLostZombie'
    BY DEF AcceptTypeOK, NoLostZombie, Alive
  <2>4. OneServer'
    BY DEF AcceptTypeOK, OneServer, Holders, ForkedFor
  <2> QED BY <2>1, <2>2, <2>3, <2>4
<1> QED BY <1>1, <1>2

\* The steps of main's loop, and of main before it.
LEMMA LoopAcceptInv ==
  ASSUME AcceptInv, NEW p \in Procs, AcceptLoop(p)
  PROVE  AcceptInv'
<1> USE AcceptorsAssumption DEF AcceptInv, At
<1>1. CASE Bind(p)
  BY <1>1 DEF Bind, AcceptTypeOK, Phases, ParentsInLoop, NoLostZombie, UntakenUnheld,
              OneServer, Holders, ForkedFor, Alive
<1>2. CASE BindFail(p)
  <2> USE <1>2 DEF BindFail
  <2>1. AcceptTypeOK'
    BY DEF AcceptTypeOK, Phases
  <2>2. ParentsInLoop' /\ UntakenUnheld'
    BY DEF AcceptTypeOK, ParentsInLoop, UntakenUnheld, Holders
  <2>3. NoLostZombie'
    BY DEF AcceptTypeOK, ParentsInLoop, NoLostZombie, Alive
  <2>4. OneServer'
    BY DEF AcceptTypeOK, OneServer, Holders, ForkedFor
  <2> QED BY <2>1, <2>2, <2>3, <2>4
<1>3. ASSUME NEW c \in Conns, Accept(p, c) PROVE AcceptInv'
  <2> USE <1>3 DEF Accept
  <2>1. AcceptTypeOK'
    BY DEF AcceptTypeOK, Phases
  <2>2. ParentsInLoop' /\ UntakenUnheld'
    BY DEF AcceptTypeOK, ParentsInLoop, UntakenUnheld, Holders
  <2>3. NoLostZombie'
    BY DEF AcceptTypeOK, NoLostZombie, Alive
  <2>4. OneServer'
    BY DEF AcceptTypeOK, UntakenUnheld, OneServer, Holders, ForkedFor
  <2> QED BY <2>1, <2>2, <2>3, <2>4
<1>4. CASE AcceptFail(p)
  <2> USE <1>4 DEF AcceptFail
  <2>1. AcceptTypeOK'
    BY DEF AcceptTypeOK, Phases, Unlisten
  <2>2. ParentsInLoop' /\ UntakenUnheld'
    BY DEF AcceptTypeOK, ParentsInLoop, UntakenUnheld, Holders, Unlisten
  <2>3. NoLostZombie'
    BY DEF AcceptTypeOK, NoLostZombie, Alive
  <2>4. OneServer'
    BY DEF AcceptTypeOK, OneServer, Holders, ForkedFor
  <2> QED BY <2>1, <2>2, <2>3, <2>4
<1>5. ASSUME NEW q \in Procs, Fork(p, q) PROVE AcceptInv'
  <2> USE <1>5 DEF Fork
  <2>1. AcceptTypeOK'
    BY DEF AcceptTypeOK, Phases
  <2>2. ParentsInLoop'
    BY DEF AcceptTypeOK, ParentsInLoop
  <2>3. NoLostZombie'
    BY DEF AcceptTypeOK, NoLostZombie, Alive
  <2>4. UntakenUnheld'
    BY DEF AcceptTypeOK, UntakenUnheld, Holders
  <2>5. OneServer'
    BY DEF AcceptTypeOK, OneServer, Holders, ForkedFor
  <2> QED BY <2>1, <2>2, <2>3, <2>4, <2>5
<1>6. CASE ForkFail(p)
  <2> USE <1>6 DEF ForkFail
  <2>1. AcceptTypeOK'
    BY DEF AcceptTypeOK, Phases
  <2>2. ParentsInLoop' /\ UntakenUnheld'
    BY DEF AcceptTypeOK, ParentsInLoop, UntakenUnheld, Holders
  <2>3. NoLostZombie'
    BY DEF AcceptTypeOK, NoLostZombie, Alive
  <2>4. OneServer'
    BY DEF AcceptTypeOK, OneServer, Holders, ForkedFor
  <2> QED BY <2>1, <2>2, <2>3, <2>4
<1>7. CASE CloseCli(p)
  <2> USE <1>7 DEF CloseCli
  <2>1. AcceptTypeOK'
    BY DEF AcceptTypeOK, Phases
  <2>2. ParentsInLoop' /\ UntakenUnheld'
    BY DEF AcceptTypeOK, ParentsInLoop, UntakenUnheld, Holders
  <2>3. NoLostZombie'
    BY DEF AcceptTypeOK, NoLostZombie, Alive
  <2>4. OneServer'
    BY DEF AcceptTypeOK, OneServer, Holders, ForkedFor
  <2> QED BY <2>1, <2>2, <2>3, <2>4
<1> QED BY <1>1, <1>2, <1>3, <1>4, <1>5, <1>6, <1>7 DEF AcceptLoop

\* The handler of SIGCHLD.
LEMMA HandlerAcceptInv ==
  ASSUME AcceptInv, NEW p \in Procs, ChldHandler(p)
  PROVE  AcceptInv'
<1> USE AcceptorsAssumption DEF AcceptInv
<1>1. CASE SigEnter(p)
  BY <1>1 DEF SigEnter, AcceptTypeOK, ParentsInLoop, NoLostZombie, UntakenUnheld,
              OneServer, Holders, ForkedFor, Alive
<1>2. CASE SigReap(p)
  <2> USE <1>2 DEF SigReap, ZombiesOf
  <2>1. AcceptTypeOK'
    BY DEF AcceptTypeOK, Phases
  <2>2. ParentsInLoop' /\ UntakenUnheld'
    BY DEF AcceptTypeOK, ParentsInLoop, UntakenUnheld, Holders
  <2>3. NoLostZombie'
    BY DEF AcceptTypeOK, NoLostZombie, Alive
  <2>4. OneServer'
    BY DEF AcceptTypeOK, OneServer, Holders, ForkedFor
  <2> QED BY <2>1, <2>2, <2>3, <2>4
<1>3. CASE SigReturn(p)
  <2> USE <1>3 DEF SigReturn
  <2>1. AcceptTypeOK' /\ ParentsInLoop' /\ UntakenUnheld' /\ OneServer'
    BY DEF AcceptTypeOK, ParentsInLoop, UntakenUnheld, OneServer, Holders, ForkedFor
  <2>2. NoLostZombie'
    BY DEF AcceptTypeOK, NoLostZombie, ZombiesOf, Alive
  <2> QED BY <2>1, <2>2
<1> QED BY <1>1, <1>2, <1>3 DEF ChldHandler

\* Every step keeps the invariant.
LEMMA NextAcceptInv == AcceptInv /\ [AcceptNext]_acceptVars => AcceptInv'
<1> SUFFICES ASSUME AcceptInv, [AcceptNext]_acceptVars PROVE AcceptInv'
  OBVIOUS
<1> USE AcceptorsAssumption
<1>1. CASE UNCHANGED acceptVars
  BY <1>1 DEF acceptVars, AcceptInv, AcceptTypeOK, ParentsInLoop, NoLostZombie,
              UntakenUnheld, OneServer, Holders, ForkedFor, Alive
<1>2. ASSUME NEW p \in Procs, ServeEnd(p) PROVE AcceptInv'
  <2> USE <1>2 DEF ServeEnd, AcceptInv, At
  <2>1. AcceptTypeOK'
    BY DEF AcceptTypeOK, Phases
  <2>2. ParentsInLoop' /\ UntakenUnheld'
    BY DEF AcceptTypeOK, ParentsInLoop, UntakenUnheld, Holders
  <2>3. NoLostZombie'
    BY DEF AcceptTypeOK, NoLostZombie, Alive
  <2>4. OneServer'
    BY DEF AcceptTypeOK, OneServer, Holders, ForkedFor
  <2> QED BY <2>1, <2>2, <2>3, <2>4
<1>3. ASSUME NEW p \in Procs, Abort(p) PROVE AcceptInv'
  BY <1>3, EndOfAcceptInv DEF Abort, At, Alive, AcceptInv, AcceptTypeOK
<1>4. ASSUME NEW p \in Procs, Die(p) PROVE AcceptInv'
  <2>1. faults' \in 0..MaxFaults
    BY <1>4 DEF Die, AcceptInv, AcceptTypeOK
  <2> QED BY <1>4, <2>1, EndOfAcceptInv DEF Die
<1> QED
  BY <1>1, <1>2, <1>3, <1>4, OutsideAcceptInv, LoopAcceptInv, HandlerAcceptInv
  DEF AcceptNext

(* In every behaviour of the process tree the invariant holds. *)
THEOREM AcceptorsInvariant == AcceptSpec => []AcceptInv
BY InitAcceptInv, NextAcceptInv, PTL DEF AcceptSpec

(* The variables of the process tree keep their types: among other things  *)
(* no signal goes to a parent that is not there.                           *)
THEOREM AcceptorsTyped == AcceptSpec => []AcceptTypeOK
<1>1. AcceptInv => AcceptTypeOK
  BY DEF AcceptInv
<1> QED BY <1>1, AcceptorsInvariant, PTL

(* chld_handler forgets no zombie, however many deaths raise one SIGCHLD.  *)
THEOREM ZombiesRemembered == AcceptSpec => []NoLostZombie
<1>1. AcceptInv => NoLostZombie
  BY DEF AcceptInv
<1> QED BY <1>1, AcceptorsInvariant, PTL

(* The accept loop and fork give a connection one server, and leave no     *)
(* descriptor of it behind.                                                *)
THEOREM OneServerEach == AcceptSpec => []OneServer
<1>1. AcceptInv => OneServer
  BY DEF AcceptInv
<1> QED BY <1>1, AcceptorsInvariant, PTL

-----------------------------------------------------------------------------
(* Single steps of check_url.  Steps is the set of program counters of the *)
(* caller.                                                                 *)

(* Where fclose and exit write the buffer out, there is a line in it. *)
BufferFull == \A p \in Procs : Unflushed(p) => line[p] \in Lines

(* MISS and Hit lines are lines. *)
LEMMA LineTypes == \A u \in Urls : Miss(u) \in Lines /\ Hit(u) \in Lines
BY DEF Miss, Hit, Lines

(* What fclose and exit write is one line more, behind the entries that    *)
(* are there.                                                              *)
LEMMA FlushStep ==
  ASSUME NEW Entries, Lines \subseteq Entries, log \in Seq(Entries), BufferFull,
         NEW p \in Procs, Flush(p)
  PROVE  log' \in Seq(Entries) /\ LogGrows
<1>1. CASE Unflushed(p)
  <2>1. line[p] \in Entries /\ log' = Append(log, line[p])
    BY <1>1 DEF BufferFull, Flush
  <2>2. log' \in Seq(Entries)
    BY <2>1
  <2>3. Len(log') = Len(log) + 1 /\ Len(log) \in Nat
    BY <2>1
  <2>4. \A i \in 1..Len(log) : log'[i] = log[i]
    BY <2>1, <2>3
  <2> QED BY <2>2, <2>3, <2>4 DEF LogGrows
<1>2. CASE ~Unflushed(p)
  BY <1>2 DEF Flush, LogGrows
<1> QED BY <1>1, <1>2

(* The end of a call, and of the process, clears the caller's variables.   *)
LEMMA ForgetStep ==
  ASSUME NEW Steps, "end" \in Steps, CallTypeOK(Steps), BufferFull,
         NEW p \in Procs, Forget(p)
  PROVE  CallTypeOK(Steps)' /\ BufferFull'
<1> USE CheckUrlAssumption DEF Forget, Goto
<1>1. CallTypeOK(Steps)'
  BY DEF CallTypeOK, Folders
<1>2. BufferFull'
  BY DEF CallTypeOK, BufferFull, Unflushed
<1> QED BY <1>1, <1>2

(* Each step of check_url keeps the types, and a line in the buffer where  *)
(* it will be written out.                                                 *)
LEMMA CheckStepTypes ==
  ASSUME NEW Steps, CheckSteps \cup {"return"} \subseteq Steps,
         NEW Entries, Lines \subseteq Entries, DiskTypeOK(Entries),
         CallTypeOK(Steps), BufferFull, NEW p \in Procs, CheckUrl(p)
  PROVE  DiskTypeOK(Entries)' /\ CallTypeOK(Steps)' /\ BufferFull'
<1> USE CheckUrlAssumption DEF CheckSteps, Goto, AfterScan, makeDir, makeFile, Subdir,
                               diskVars, callVars
<1>1. CASE Scan(p)
  BY <1>1 DEF Scan, DiskTypeOK, CallTypeOK, BufferFull, Unflushed, Folders
<1>2. CASE MakeCache(p)
  BY <1>2 DEF MakeCache, DiskTypeOK, CallTypeOK, BufferFull, Unflushed, Folders
<1>3. CASE MakeLogDir(p)
  BY <1>3 DEF MakeLogDir, DiskTypeOK, CallTypeOK, BufferFull, Unflushed, Folders
<1>4. CASE MakeLogFile(p)
  BY <1>4 DEF MakeLogFile, DiskTypeOK, CallTypeOK, BufferFull, Unflushed
<1>5. CASE HashUrl(p)
  BY <1>5 DEF HashUrl, DiskTypeOK, CallTypeOK, BufferFull, Unflushed
<1>6. CASE LookupMissing(p)
  BY <1>6, LineTypes DEF LookupMissing, DiskTypeOK, CallTypeOK, BufferFull, Unflushed
<1>7. CASE LookupHit(p)
  BY <1>7, LineTypes DEF LookupHit, DiskTypeOK, CallTypeOK, BufferFull, Unflushed
<1>8. CASE LookupOther(p)
  BY <1>8, LineTypes DEF LookupOther, DiskTypeOK, CallTypeOK, BufferFull, Unflushed
<1>9. CASE MakeDir(p)
  BY <1>9 DEF MakeDir, DiskTypeOK, CallTypeOK, BufferFull, Unflushed
<1>10. CASE StoreFile(p)
  BY <1>10 DEF StoreFile, DiskTypeOK, CallTypeOK, BufferFull, Unflushed
<1>11. CASE CloseLog(p)
  <2>1. log' \in Seq(Entries)
    BY <1>11, FlushStep DEF CloseLog, DiskTypeOK
  <2>2. DiskTypeOK(Entries)'
    BY <1>11, <2>1 DEF CloseLog, DiskTypeOK
  <2>3. CallTypeOK(Steps)' /\ BufferFull'
    BY <1>11 DEF CloseLog, CallTypeOK, BufferFull, Unflushed
  <2> QED BY <2>2, <2>3
<1> QED
  BY <1>1, <1>2, <1>3, <1>4, <1>5, <1>6, <1>7, <1>8, <1>9, <1>10, <1>11 DEF CheckUrl

-----------------------------------------------------------------------------
(* The log, when one process at a time is in check_url *)

(* There is nothing to lose where check_url will make the directory or the *)
(* file: what the scan saw of ~/logfile is still so, and a file in a       *)
(* directory just made is empty.                                           *)
LogInv ==
  /\ "logfile" \notin home => log = <<>>
  /\ \A p \in Procs :
       /\ step[p] = "mkcache" => ("logfile" \in saw[p] <=> "logfile" \in home)
       /\ step[p] = "mklogdir" => "logfile" \notin home
       /\ step[p] = "creatlog" => "logfile" \in home /\ log = <<>>
       /\ step[p] = "hash" \/ step[p] = "lookup" \/ Unflushed(p) => "logfile" \in home

\* The initial states satisfy the invariant of the log.
LEMMA InitLog ==
  ASSUME NEW start, start \notin CheckSteps, DiskInit, CallInit(start) PROVE LogInv
BY DEF DiskInit, CallInit, LogInv, Unflushed, CheckSteps

(* Whoever is elsewhere, or ends, leaves the log to the process in         *)
(* check_url.                                                              *)
LEMMA AwayLog ==
  ASSUME LogInv, UNCHANGED <<home, log>>,
         \A q \in Procs : UNCHANGED <<step[q], saw[q]>> \/ step'[q] \notin CheckSteps
  PROVE  LogInv'
BY DEF LogInv, Unflushed, CheckSteps

(* A process enters check_url. *)
LEMMA EnterLog ==
  ASSUME NEW Steps, CallTypeOK(Steps), LogInv, UNCHANGED <<home, log, saw>>,
         NEW p \in Procs, Goto(p, "scan")
  PROVE  LogInv'
BY DEF CallTypeOK, Goto, LogInv, Unflushed

(* A step of check_url, when no other process is in it. *)
LEMMA CheckStepLog ==
  ASSUME NEW Steps, DiskTypeOK(Lines), CallTypeOK(Steps), BufferFull, LogInv,
         NEW p \in Procs, CheckUrl(p),
         \A q \in Procs \ {p} : step[q] \notin CheckSteps
  PROVE  LogInv' /\ LogGrows
<1> USE DEF CallTypeOK, DiskTypeOK, Goto, CheckSteps
<1>1. \A q \in Procs \ {p} : step[q] \notin CheckSteps /\ step'[q] = step[q]
  BY DEF CheckUrl, Scan, MakeCache, MakeLogDir, MakeLogFile, HashUrl, LookupMissing,
         LookupHit, LookupOther, MakeDir, StoreFile, CloseLog
<1>2. ASSUME UNCHANGED log PROVE LogGrows
  BY <1>2 DEF LogGrows
<1> USE <1>1 DEF LogInv, Unflushed
<1>3. CASE Scan(p)
  BY <1>2, <1>3 DEF Scan, AfterScan, diskVars
<1>4. CASE MakeCache(p)
  BY <1>2, <1>4 DEF MakeCache, AfterScan, makeDir
<1>5. CASE MakeLogDir(p)
  BY <1>2, <1>5 DEF MakeLogDir, makeDir
<1>6. CASE MakeLogFile(p)
  BY <1>6 DEF MakeLogFile, LogGrows
<1>7. CASE HashUrl(p)
  BY <1>2, <1>7 DEF HashUrl, diskVars
<1>8. CASE LookupMissing(p) \/ LookupHit(p) \/ LookupOther(p)
  BY <1>2, <1>8 DEF LookupMissing, LookupHit, LookupOther, diskVars
<1>9. CASE MakeDir(p) \/ StoreFile(p)
  BY <1>2, <1>9 DEF MakeDir, StoreFile
<1>10. CASE CloseLog(p)
  <2>1. LogGrows
    BY <1>10, FlushStep DEF CloseLog
  <2> QED BY <1>10, <2>1 DEF CloseLog
<1> QED
  BY <1>3, <1>4, <1>5, <1>6, <1>7, <1>8, <1>9, <1>10 DEF CheckUrl

(* The end of a process whose exit writes its buffer. *)
LEMMA FlushLog ==
  ASSUME NEW Steps, DiskTypeOK(Lines), CallTypeOK(Steps), BufferFull, LogInv,
         NEW p \in Procs, Flush(p), Forget(p), UNCHANGED home,
         Unflushed(p) => \A q \in Procs \ {p} : step[q] \notin CheckSteps
  PROVE  LogInv' /\ LogGrows
<1> USE DEF CallTypeOK, DiskTypeOK, Forget, Goto, CheckSteps
<1>1. LogGrows
  BY FlushStep
<1>2. \A q \in Procs : UNCHANGED <<step[q], saw[q]>> \/ step'[q] \notin CheckSteps
  OBVIOUS
<1>3. CASE ~ Unflushed(p)
  BY <1>1, <1>2, <1>3, AwayLog DEF Flush
<1>4. CASE Unflushed(p)
  <2>1. \A q \in Procs : step'[q] \notin CheckSteps
    BY <1>4
  <2>2. "logfile" \in home'
    BY <1>4 DEF LogInv
  <2> QED BY <1>1, <2>1, <2>2 DEF LogInv, Unflushed
<1> QED BY <1>3, <1>4
=============================================================================
