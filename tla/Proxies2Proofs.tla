---------------------------- MODULE Proxies2Proofs ----------------------------
(***************************************************************************)
(* Proofs about the proxies of assignment 2, for any of their versions,    *)
(* any process table, any number of connections and failures, any URLs and *)
(* any digests, with the calls on the file system overlapping.             *)
(***************************************************************************)
EXTENDS Proxies2, ProxyPartsProofs

-----------------------------------------------------------------------------
(* The invariants *)

(* The types, and a line in the buffer wherever it may be written out.     *)
ServeTypeOK ==
  /\ DiskTypeOK(LogEntries)
  /\ version # "2-3" => log \in Seq(Lines)
  /\ CallTypeOK(ServeSteps)
  /\ BufferFull
  /\ version \in Versions
  /\ lost \in [Procs -> SUBSET Conns]

(* Only a child inside the block of pid == 0 has a step of it to take.     *)
StepsInBlock ==
  \A p \in Procs : step[p] \notin {"idle", "end"} => life[p] = "serve"

Typing == AcceptInv /\ ServeTypeOK /\ StepsInBlock

(* ~/logfile and logfile.txt are only made by a call that saw no           *)
(* ~/logfile.                                                              *)
MadeUnseen ==
  \A p \in Procs : step[p] \in {"mklogdir", "creatlog"} => "logfile" \notin saw[p]

(* The name readdir gives first is the file of a URL of that digest ...    *)
FirstStored ==
  \A d \in Dirs : first[d] # NoEntry => first[d] \in stored /\ DirOf[first[d]] = d

(* ... a subdirectory with a file has a first name ...                     *)
StoredNamed == \A u \in stored : first[DirOf[u]] # NoEntry

(* ... the URL that was hashed is the one the line is about ...            *)
KeyIsUrl ==
  \A p \in Procs : step[p] \in {"lookup", "mkdir", "store", "flush"} => key[p] = url[p]

(* ... and a Hit is about a URL with a file, in the buffer as in the log.  *)
HitHasFile(l) == l.kind = "Hit" => l.url \in stored

BufferHits == \A p \in Procs : Unflushed(p) => HitHasFile(line[p])

LogHits == \A i \in 1..Len(log) : HitHasFile(log[i])

HitInv == FirstStored /\ StoredNamed /\ KeyIsUrl /\ BufferHits /\ LogHits

(* While nothing fails, a process goes on from mkdir to the creation of    *)
(* the file, in test.c past its search.                                    *)
Filling(p) == step[p] = "store" \/ (version = "test" /\ step[p] = "lookup")

FillInv ==
  faults = 0 =>
    \A d \in made : first[d] = NoEntry => \E p \in Procs : Filling(p) /\ Subdir(p) = d

InTurn(p) == life[p] \in {"boot", "accept", "fork", "serve"}

InLoop(p) == life[p] \in {"boot", "accept", "fork", "close"}

(* The place in main's loop of 2-2 is handed from process to process ...   *)
OneInTurn ==
  version = "2-2" => \A p, q \in Procs : InTurn(p) /\ InTurn(q) => p = q

(* ... and the children of test.c never come back to it.                   *)
RootLoops ==
  version = "test" => \A p \in Procs : InLoop(p) => p \in Roots

TurnInv == LaunchFirst /\ OneInTurn /\ RootLoops

-----------------------------------------------------------------------------
(* The process tree *)

\* The first fork of 2-2 and test.c that fails, or a child that accepts.
LEMMA OwnAcceptInv ==
  ASSUME AcceptInv, NEW p \in Procs, ForkFailBoth(p) \/ ReadOther(p)
  PROVE  AcceptInv'
<1> USE AcceptorsAssumption DEF AcceptInv, At, Serving
<1>1. CASE ForkFailBoth(p)
  <2> USE <1>1 DEF ForkFailBoth, Unlisten
  <2>1. AcceptTypeOK'
    BY DEF AcceptTypeOK, Phases
  <2>2. ParentsInLoop' /\ UntakenUnheld'
    BY DEF AcceptTypeOK, ParentsInLoop, UntakenUnheld, Holders
  <2>3. NoLostZombie'
    BY DEF AcceptTypeOK, NoLostZombie, Alive
  <2>4. OneServer'
    BY DEF AcceptTypeOK, OneServer, Holders, ForkedFor
  <2> QED BY <2>1, <2>2, <2>3, <2>4
<1>2. CASE ReadOther(p)
  <2> USE <1>2 DEF ReadOther
  <2>1. AcceptTypeOK'
    BY DEF AcceptTypeOK, Phases
  <2>2. ParentsInLoop' /\ UntakenUnheld'
    BY DEF AcceptTypeOK, ParentsInLoop, UntakenUnheld, Holders
  <2>3. NoLostZombie'
    BY DEF AcceptTypeOK, NoLostZombie, Alive
  <2>4. OneServer'
    BY DEF AcceptTypeOK, OneServer, Holders, ForkedFor
  <2> QED BY <2>1, <2>2, <2>3, <2>4
<1> QED BY <1>1, <1>2

(* The other steps are those of Acceptors, or ends of a process where      *)
(* Acceptors has none.                                                     *)
LEMMA NextAccept2 == AcceptInv /\ [Next]_vars => AcceptInv'
<1> SUFFICES ASSUME AcceptInv, [Next]_vars PROVE AcceptInv'
  OBVIOUS
<1> USE DEF Serving
<1>0. ASSUME [AcceptNext]_acceptVars PROVE AcceptInv'
  BY <1>0, NextAcceptInv
<1>1. CASE UNCHANGED vars
  BY <1>0, <1>1 DEF vars
<1>2. CASE NewConnection
  BY <1>0, <1>2 DEF NewConnection, AcceptNext
<1>3. ASSUME NEW p \in Procs,
             \/ LoopStep(p) \/ \E q \in Procs : ForkChild(p, q)
             \/ LaunchProxy(p) \/ LaunchTest(p)
             \/ AcceptGoOn(p) \/ ForkGoOn(p) \/ CloseGoOn(p)
      PROVE  AcceptInv'
  <2>1. AcceptNext
    BY <1>3 DEF LoopStep, ForkChild, LaunchProxy, LaunchTest, AcceptGoOn, ForkGoOn,
                CloseGoOn, AcceptNext, AcceptLoop
  <2> QED BY <1>0, <2>1
<1>4. ASSUME NEW p \in Procs,
             ReadScan(p) \/ Resolve(p) \/ getUrl(p)
             \/ check_url21(p) \/ check_url23(p) \/ check_url24(p)
             \/ ReadGetUrl(p, "resolve") \/ ReadGetUrl(p, "mksub")
      PROVE  AcceptInv'
  <2>1. UNCHANGED acceptVars
    BY <1>4 DEF ReadScan, ReadGetUrl, Read, Resolve, getUrl, InCheckUrl, check_url21,
                check_url23, check_url24
  <2> QED BY <1>0, <2>1
<1>5. ASSUME NEW p \in Procs,
             \/ Answer(p) \/ ReadOnly(p) \/ Exit(p) \/ ReadGet(p)
             \/ CrashAt(p, {"read"}) \/ CrashAt(p, {"read", "resolve"})
             \/ CrashMissed(p) \/ CrashEmpty(p)
             \/ Interrupt(p) \/ Kill(p) \/ Handler(p)
      PROVE  AcceptInv'
  <2>1. ServeEnd(p) \/ Abort(p) \/ Die(p) \/ ChldHandler(p)
    BY <1>5 DEF Answer, ReadOnly, Exit, ReadGet, CrashAt, CrashMissed, CrashEmpty,
                Interrupt, Kill, Handler
  <2> QED BY <1>0, <2>1 DEF AcceptNext
<1>6. ASSUME NEW p \in Procs, AcceptReturn(p) \/ Break(p) PROVE AcceptInv'
  <2>1. Alive(p) /\ EndOf(p)
    BY <1>6 DEF AcceptReturn, Break, At, Alive
  <2>2. faults' \in 0..MaxFaults
    BY <1>6, AcceptorsAssumption DEF AcceptReturn, Break, AcceptInv, AcceptTypeOK
  <2> QED BY <2>1, <2>2, EndOfAcceptInv
<1>7. ASSUME NEW p \in Procs, ForkFailBoth(p) \/ ReadOther(p) PROVE AcceptInv'
  BY <1>7, OwnAcceptInv
<1> QED
  BY <1>1, <1>2, <1>3, <1>4, <1>5, <1>6, <1>7
  DEF Next, main21, main22, main23, main24, mainTest, mainTest2

-----------------------------------------------------------------------------
(* The steps, by what they do to the calls *)

\* Outside the block of pid == 0.
LeavesCalls ==
  /\ UNCHANGED <<callVars, log, made, stored, first, lost>>
  /\ home \subseteq home' /\ home' \subseteq Folders
  /\ faults <= faults'
  /\ \A q \in Procs : life[q] = "serve" => life'[q] = "serve"

Begins(p, q) ==
  /\ q # p /\ life[q] = "unborn"
  /\ life' = [life EXCEPT ![p] = "close", ![q] = "serve"]
  /\ life[p] = "fork"
  /\ Goto(q, "read")
  /\ lost' = [lost EXCEPT ![q] = lost[p]]
  /\ UNCHANGED <<diskVars, url, saw, key, line, faults>>

Reads(p) ==
  /\ life[p] = "serve" /\ step[p] \in {"read", "resolve"}
  /\ \E s \in {"scan", "resolve", "mksub"} : Goto(p, s)
  /\ \E u \in Urls : url' = [url EXCEPT ![p] = u] \/ UNCHANGED url
  /\ UNCHANGED <<acceptVars, diskVars, saw, key, line, lost>>

LooksUp(p) ==
  /\ life[p] = "serve"
  /\ \/ version # "test" /\ CheckUrl(p)
     \/ version = "2-3" /\ (OpenEmptied(p) \/ CloseOverwriting(p))
     \/ version = "test" /\ (MakeSubdir(p) \/ Search(p) \/ Create(p) \/ AppendLine(p))
  /\ UNCHANGED <<acceptVars, lost>>

Leaves(p) ==
  /\ step[p] \in {"read", "return"}
  /\ Forget(p)
  /\ \A q \in Procs \ {p} : life'[q] = life[q]
  /\ lost' \in [Procs -> SUBSET Conns]
  /\ UNCHANGED <<diskVars, faults>>

Stops(p) ==
  /\ Alive(p) /\ EndOf(p) /\ Ends(p)
  /\ faults' \in faults..MaxFaults
  /\ faults' = faults => ~ Filling(p)
  /\ Flush(p) \/ UNCHANGED log

(* Every step is of one of these kinds. *)
LEMMA NextKinds ==
  ASSUME Typing, [Next]_vars
  PROVE  /\ UNCHANGED version
         /\ \/ LeavesCalls
            \/ \E p \in Procs :
                 \/ \E q \in Procs : Begins(p, q)
                 \/ Reads(p) \/ LooksUp(p) \/ Leaves(p) \/ Stops(p)
<1> USE AcceptorsAssumption, CheckUrlAssumption DEF Serving, At
<1>v. UNCHANGED version
  BY DEF Next, vars
<1>t. /\ life \in [Procs -> Phases] /\ faults \in 0..MaxFaults /\ home \subseteq Folders
      /\ cli \in [Procs -> Conns \cup {NoConn}] /\ lost \in [Procs -> SUBSET Conns]
  BY DEF Typing, AcceptInv, AcceptTypeOK, ServeTypeOK, DiskTypeOK
<1>1. CASE UNCHANGED vars
  BY <1>1, <1>t DEF vars, diskVars, callVars, acceptVars, LeavesCalls
<1>2. CASE NewConnection
  <2>1. UNCHANGED <<callVars, diskVars, lost, life, faults>>
    BY <1>2 DEF NewConnection, Connect
  <2> QED BY <1>v, <1>t, <2>1 DEF diskVars, LeavesCalls
<1>3. ASSUME NEW p \in Procs, LoopStep(p) \/ LaunchProxy(p) \/ LaunchTest(p)
      PROVE  LeavesCalls
  <2>1. UNCHANGED <<callVars, log, made, stored, first, lost, faults>>
    BY <1>3 DEF LoopStep, Bind, BindFail, Accept, LaunchProxy, LaunchTest, Launch, diskVars
  <2>2. home \subseteq home' /\ home' \subseteq Folders
    BY <1>3, <1>t DEF LoopStep, LaunchProxy, LaunchTest, makeDir, Folders, diskVars
  <2>3. \A q \in Procs : life[q] = "serve" => life'[q] = "serve"
    BY <1>3, <1>t DEF LoopStep, Bind, BindFail, Accept, LaunchProxy, LaunchTest, Launch
  <2> QED BY <1>t, <2>1, <2>2, <2>3 DEF LeavesCalls
<1>4. ASSUME NEW p \in Procs,
             \/ AcceptGoOn(p) \/ ForkGoOn(p) \/ CloseGoOn(p) \/ ForkFailBoth(p)
             \/ Handler(p)
      PROVE  LeavesCalls
  BY <1>4, <1>t DEF AcceptGoOn, AcceptFail, ForkGoOn, ForkFail, CloseGoOn, CloseCli,
              ForkFailBoth, Unlisten, Handler, ChldHandler, SigEnter, SigReap, SigReturn,
              ZombiesOf, diskVars, LeavesCalls
<1>5. ASSUME NEW p \in Procs, NEW q \in Procs, ForkChild(p, q) PROVE Begins(p, q)
  BY <1>5 DEF ForkChild, Fork, Begins
<1>6. ASSUME NEW p \in Procs,
             \/ ReadScan(p) \/ Resolve(p)
             \/ ReadGetUrl(p, "resolve") \/ ReadGetUrl(p, "mksub")
      PROVE  Reads(p)
  BY <1>6 DEF ReadScan, ReadGetUrl, Read, Resolve, Reads
<1>7. ASSUME NEW p \in Procs,
             \/ version = "2-1" /\ check_url21(p)
             \/ version = "2-3" /\ check_url23(p)
             \/ version = "2-4" /\ check_url24(p)
             \/ version = "test" /\ getUrl(p)
      PROVE  LooksUp(p)
  BY <1>7 DEF check_url21, check_url23, check_url24, InCheckUrl, CheckUrl, getUrl,
              MakeSubdir, Search, Create, AppendLine, LooksUp
<1>8. ASSUME NEW p \in Procs, Answer(p) \/ ReadOnly(p) \/ ReadOther(p) PROVE Leaves(p)
  BY <1>8, <1>t DEF Answer, ReadOnly, ReadOther, ServeEnd, Leaves
<1>9. ASSUME NEW p \in Procs,
             \/ AcceptReturn(p) \/ Break(p) \/ ReadGet(p) \/ Exit(p)
             \/ CrashAt(p, {"read"}) \/ CrashAt(p, {"read", "resolve"})
             \/ CrashMissed(p)
             \/ version # "test" /\ CrashEmpty(p)
             \/ Interrupt(p) \/ Kill(p)
      PROVE  Stops(p)
  <2>1. Alive(p) /\ EndOf(p) /\ Ends(p) /\ (Flush(p) \/ UNCHANGED log)
    BY <1>9 DEF AcceptReturn, Break, ReadGet, Exit, CrashAt, CrashMissed, CrashEmpty,
                Interrupt, Kill, Abort, Die, Alive
  <2>2. faults' \in faults..MaxFaults
    BY <1>9, <1>t DEF AcceptReturn, Break, ReadGet, Exit, CrashAt, CrashMissed,
                CrashEmpty, Interrupt, Kill, Abort, Die
  <2>3. ASSUME faults' = faults PROVE ~ Filling(p)
    <3>1. CASE life[p] # "serve"
      BY <3>1 DEF Typing, StepsInBlock, Filling
    <3>2. CASE life[p] = "serve"
      BY <1>9, <1>t, <2>3, <3>2
      DEF AcceptReturn, Break, ReadGet, Exit, CrashAt, CrashMissed, CrashEmpty, Interrupt,
          Kill, Die, Filling
    <3> QED BY <3>1, <3>2
  <2> QED BY <2>1, <2>2, <2>3 DEF Stops
<1> QED
  BY <1>v, <1>1, <1>2, <1>3, <1>4, <1>5, <1>6, <1>7, <1>8, <1>9
  DEF Next, main21, main22, main23, main24, mainTest, mainTest2

-----------------------------------------------------------------------------
(* Types *)

(* Sequences one behind the other: every entry is of one of the two.       *)
LEMMA Overwritten ==
  ASSUME NEW S, NEW b \in Seq(S), NEW s \in Seq(S), NEW i \in 1..Len(s) + 1
  PROVE  LET t == b \o SubSeq(s, i, Len(s))
         IN  /\ t \in Seq(S)
             /\ \A k \in 1..Len(t) : \/ \E j \in 1..Len(b) : t[k] = b[j]
                                     \/ \E j \in 1..Len(s) : t[k] = s[j]
<1> DEFINE r == SubSeq(s, i, Len(s))
           t == b \o r
<1>1. Len(b) \in Nat /\ Len(s) \in Nat /\ i \in Nat
  OBVIOUS
<1>2. r \in Seq(S) /\ Len(r) = Len(s) - i + 1
  BY <1>1
<1>3. \A k \in 1..Len(r) : r[k] = s[i + k - 1] /\ i + k - 1 \in 1..Len(s)
  BY <1>1, <1>2
<1>4. t \in Seq(S) /\ Len(t) = Len(b) + Len(r) /\ \A k \in 1..Len(b) : t[k] = b[k]
  BY <1>2
<1>5. \A k \in Len(b) + 1..Len(t) : t[k] = r[k - Len(b)] /\ k - Len(b) \in 1..Len(r)
  BY <1>1, <1>2, <1>4
<1> HIDE DEF r, t
<1>6. ASSUME NEW k \in 1..Len(t)
      PROVE  \/ \E j \in 1..Len(b) : t[k] = b[j]
             \/ \E j \in 1..Len(s) : t[k] = s[j]
  <2>1. CASE k \in 1..Len(b)
    BY <1>4, <2>1
  <2>2. CASE k \notin 1..Len(b)
    <3>1. k \in Len(b) + 1..Len(t)
      BY <1>1, <1>2, <1>4, <2>2
    <3>2. t[k] = s[i + (k - Len(b)) - 1] /\ i + (k - Len(b)) - 1 \in 1..Len(s)
      BY <1>3, <1>5, <3>1
    <3> QED BY <3>2
  <2> QED BY <2>1, <2>2
<1>7. /\ t \in Seq(S)
      /\ \A k \in 1..Len(t) : \/ \E j \in 1..Len(b) : t[k] = b[j]
                              \/ \E j \in 1..Len(s) : t[k] = s[j]
  BY <1>4, <1>6
<1> QED BY <1>7 DEF t, r

(* What fclose of 2-3 leaves: the line it wrote, the rest of an entry, and *)
(* entries that were there.                                                *)
LEMMA ClosedOverwriting ==
  ASSUME log \in Seq(LogEntries), NEW p \in Procs, line[p] \in Lines, CloseOverwriting(p)
  PROVE  /\ log' \in Seq(LogEntries)
         /\ \A k \in 1..Len(log') : \/ log'[k] = line[p]
                                    \/ log'[k].kind = "rest"
                                    \/ \E j \in 1..Len(log) : log'[k] = log[j]
<1>0. Len(log) \in Nat /\ line[p] \in LogEntries
  BY DEF LogEntries
<1>1. ASSUME NEW i \in 1..Len(log) + 1, log' = <<line[p]>> \o SubSeq(log, i, Len(log))
      PROVE  /\ log' \in Seq(LogEntries)
             /\ \A k \in 1..Len(log') : \/ log'[k] = line[p]
                                        \/ \E j \in 1..Len(log) : log'[k] = log[j]
  <2> DEFINE b == <<line[p]>>
  <2>1. b \in Seq(LogEntries) /\ \A j \in 1..Len(b) : b[j] = line[p]
    BY <1>0
  <2>2. log' = b \o SubSeq(log, i, Len(log))
    BY <1>1
  <2> HIDE DEF b
  <2>3. \A k \in 1..Len(log') : \/ \E j \in 1..Len(b) : log'[k] = b[j]
                                \/ \E j \in 1..Len(log) : log'[k] = log[j]
    BY <2>1, <2>2, Overwritten
  <2>4. log' \in Seq(LogEntries)
    BY <2>1, <2>2, Overwritten
  <2> QED BY <2>1, <2>3, <2>4
<1>2. ASSUME NEW i \in 1..Len(log),
             log' = <<line[p], Rest(log[i])>> \o SubSeq(log, i + 1, Len(log))
      PROVE  /\ log' \in Seq(LogEntries)
             /\ \A k \in 1..Len(log') : \/ log'[k] = line[p]
                                        \/ log'[k].kind = "rest"
                                        \/ \E j \in 1..Len(log) : log'[k] = log[j]
  <2> DEFINE b == <<line[p], Rest(log[i])>>
             n == i + 1
  <2>1. log[i] \in LogEntries
    BY <1>0
  <2>2. Rest(log[i]) \in LogEntries /\ Rest(log[i]).kind = "rest"
    BY <2>1 DEF Rest, LogEntries, Lines
  <2>3. \A j \in 1..Len(b) : b[j] = line[p] \/ b[j].kind = "rest"
    BY <2>2
  <2>4. b \in Seq(LogEntries)
    BY <1>0, <2>2
  <2>5. log' = b \o SubSeq(log, n, Len(log))
    BY <1>2
  <2>6. n \in 1..Len(log) + 1
    BY <1>0
  <2> HIDE DEF b, n
  <2>7. \A k \in 1..Len(log') : \/ \E j \in 1..Len(b) : log'[k] = b[j]
                                \/ \E j \in 1..Len(log) : log'[k] = log[j]
    BY <2>4, <2>5, <2>6, Overwritten
  <2>8. log' \in Seq(LogEntries)
    BY <2>4, <2>5, <2>6, Overwritten
  <2> QED BY <2>3, <2>7, <2>8
<1> QED BY <1>1, <1>2 DEF CloseOverwriting

(* The steps of an opening and a closing that 2-3 has in its place, and    *)
(* those of getUrl.                                                        *)
LEMMA OwnLookupTypes ==
  ASSUME DiskTypeOK(LogEntries), CallTypeOK(ServeSteps), BufferFull, NEW p \in Procs,
         \/ OpenEmptied(p) \/ CloseOverwriting(p)
         \/ MakeSubdir(p) \/ Search(p) \/ Create(p) \/ AppendLine(p)
  PROVE  DiskTypeOK(LogEntries)' /\ CallTypeOK(ServeSteps)' /\ BufferFull'
<1> USE CheckUrlAssumption DEF Goto, Serving, ServeSteps, CheckSteps
<1>0. Lines \subseteq LogEntries
  BY DEF LogEntries
<1>1. CASE OpenEmptied(p)
  BY <1>1 DEF OpenEmptied, DiskTypeOK, CallTypeOK, BufferFull, Unflushed
<1>2. CASE CloseOverwriting(p)
  <2>1. log' \in Seq(LogEntries)
    BY <1>2, ClosedOverwriting DEF CloseOverwriting, DiskTypeOK, BufferFull, Unflushed
  <2>2. DiskTypeOK(LogEntries)'
    BY <1>2, <2>1 DEF CloseOverwriting, DiskTypeOK
  <2>3. CallTypeOK(ServeSteps)' /\ BufferFull'
    BY <1>2 DEF CloseOverwriting, CallTypeOK, BufferFull, Unflushed
  <2> QED BY <2>2, <2>3
<1>3. CASE MakeSubdir(p)
  BY <1>3 DEF MakeSubdir, makeDir, DiskTypeOK, CallTypeOK, BufferFull, Unflushed
<1>4. CASE Search(p)
  <2>1. DiskTypeOK(LogEntries)'
    BY <1>4 DEF Search, diskVars, DiskTypeOK
  <2>2. line' \in [Procs -> Lines \cup {NoLine}] /\ line'[p] \in Lines
    BY <1>4, LineTypes DEF Search, CallTypeOK
  <2>3. CallTypeOK(ServeSteps)'
    BY <1>4, <2>2 DEF Search, CallTypeOK
  <2>4. BufferFull'
    BY <1>4, <2>2 DEF Search, CallTypeOK, BufferFull, Unflushed
  <2> QED BY <2>1, <2>3, <2>4
<1>5. CASE Create(p) \/ AppendLine(p)
  <2>1. CheckSteps \cup {"return"} \subseteq ServeSteps
    OBVIOUS
  <2>2. CheckUrl(p)
    BY <1>5 DEF Create, AppendLine, CheckUrl
  <2> QED BY <1>0, <2>1, <2>2, CheckStepTypes
<1> QED BY <1>1, <1>2, <1>3, <1>4, <1>5

(* A fork gives the child nothing to do but to read.                       *)
LEMMA BeginsTypes ==
  ASSUME ServeTypeOK, UNCHANGED version, NEW p \in Procs, NEW q \in Procs, Begins(p, q)
  PROVE  ServeTypeOK'
<1> USE DEF Begins, Goto, ServeTypeOK
<1>1. DiskTypeOK(LogEntries)'
  BY DEF diskVars, DiskTypeOK
<1>2. CallTypeOK(ServeSteps)'
  BY DEF CallTypeOK, ServeSteps
<1>3. BufferFull'
  BY DEF CallTypeOK, BufferFull, Unflushed
<1>4. version' # "2-3" => log' \in Seq(Lines)
  BY DEF diskVars
<1>5. version' \in Versions /\ lost' \in [Procs -> SUBSET Conns]
  OBVIOUS
<1> QED BY <1>1, <1>2, <1>3, <1>4, <1>5

(* Every step keeps the types. *)
LEMMA NextServeTypes == Typing /\ [Next]_vars => ServeTypeOK'
<1> SUFFICES ASSUME Typing, [Next]_vars PROVE ServeTypeOK'
  OBVIOUS
<1> USE CheckUrlAssumption
<1>0. ServeTypeOK /\ UNCHANGED version
  BY NextKinds DEF Typing
<1>1. CASE LeavesCalls
  BY <1>0, <1>1 DEF LeavesCalls, ServeTypeOK, callVars, DiskTypeOK, CallTypeOK, BufferFull,
                    Unflushed
<1>2. ASSUME NEW p \in Procs, NEW q \in Procs, Begins(p, q) PROVE ServeTypeOK'
  BY <1>0, <1>2, BeginsTypes
<1>3. ASSUME NEW p \in Procs, Reads(p) PROVE ServeTypeOK'
  <2> USE <1>0, <1>3 DEF Reads, Goto, ServeTypeOK
  <2>1. DiskTypeOK(LogEntries)'
    BY DEF diskVars, DiskTypeOK
  <2>2. CallTypeOK(ServeSteps)'
    BY DEF CallTypeOK, ServeSteps, CheckSteps
  <2>3. BufferFull'
    BY DEF CallTypeOK, BufferFull, Unflushed
  <2>4. version' # "2-3" => log' \in Seq(Lines)
    BY DEF diskVars
  <2> QED BY <2>1, <2>2, <2>3, <2>4
<1>4. ASSUME NEW p \in Procs, LooksUp(p) PROVE ServeTypeOK'
  <2>1. CheckSteps \cup {"return"} \subseteq ServeSteps
    BY DEF ServeSteps
  <2>2. Lines \subseteq LogEntries
    BY DEF LogEntries
  <2>3. DiskTypeOK(LogEntries)' /\ CallTypeOK(ServeSteps)' /\ BufferFull'
    BY <1>0, <1>4, <2>1, <2>2, CheckStepTypes, OwnLookupTypes DEF LooksUp, ServeTypeOK
  <2>4. version # "2-3" => UNCHANGED log \/ log' = <<>> \/ Flush(p)
    BY <1>4
    DEF LooksUp, CheckUrl, Scan, MakeCache, MakeLogDir, MakeLogFile, HashUrl,
        LookupMissing, LookupHit, LookupOther, MakeDir, StoreFile, CloseLog,
        MakeSubdir, Search, Create, AppendLine, diskVars
  <2>5. version # "2-3" => log' \in Seq(Lines)
    <3>1. CASE log' = <<>>
      BY <3>1
    <3>2. CASE version # "2-3" /\ (UNCHANGED log \/ Flush(p))
      BY <1>0, <3>2, FlushStep DEF ServeTypeOK
    <3> QED BY <2>4, <3>1, <3>2
  <2> QED BY <1>0, <1>4, <2>3, <2>5 DEF LooksUp, ServeTypeOK
<1>5. ASSUME NEW p \in Procs, Leaves(p) PROVE ServeTypeOK'
  <2>1. CallTypeOK(ServeSteps)' /\ BufferFull'
    BY <1>0, <1>5, ForgetStep DEF Leaves, ServeTypeOK, ServeSteps
  <2> QED BY <1>0, <1>5, <2>1 DEF Leaves, diskVars, DiskTypeOK, ServeTypeOK
<1>6. ASSUME NEW p \in Procs, Stops(p) PROVE ServeTypeOK'
  <2>1. CallTypeOK(ServeSteps)' /\ BufferFull'
    BY <1>0, <1>6, ForgetStep DEF Stops, Ends, ServeTypeOK, ServeSteps
  <2>2. Lines \subseteq LogEntries
    BY DEF LogEntries
  <2>3. log' \in Seq(LogEntries)
    BY <1>0, <1>6, <2>2, FlushStep DEF Stops, ServeTypeOK, DiskTypeOK
  <2>4. version # "2-3" => log' \in Seq(Lines)
    BY <1>0, <1>6, FlushStep DEF Stops, ServeTypeOK
  <2> QED BY <1>0, <1>6, <2>1, <2>3, <2>4 DEF Stops, Ends, DiskTypeOK, ServeTypeOK
<1> QED BY <1>1, <1>2, <1>3, <1>4, <1>5, <1>6, NextKinds

(* Every step keeps the steps of a call to the children that serve.        *)
LEMMA NextBlock == Typing /\ [Next]_vars => StepsInBlock'
<1> SUFFICES ASSUME Typing, [Next]_vars PROVE StepsInBlock'
  OBVIOUS
<1>0. /\ StepsInBlock /\ CallTypeOK(ServeSteps)
      /\ life \in [Procs -> Phases] /\ step \in [Procs -> ServeSteps]
  BY DEF Typing, ServeTypeOK, CallTypeOK, AcceptInv, AcceptTypeOK
<1> USE <1>0
<1>1. CASE LeavesCalls
  BY <1>1 DEF LeavesCalls, callVars, StepsInBlock
<1>2. ASSUME NEW p \in Procs, NEW q \in Procs, Begins(p, q) PROVE StepsInBlock'
  BY <1>2 DEF Begins, Goto, StepsInBlock
<1>3. ASSUME NEW p \in Procs, Reads(p) PROVE StepsInBlock'
  BY <1>3 DEF Reads, Goto, acceptVars, StepsInBlock
<1>4. ASSUME NEW p \in Procs, LooksUp(p) PROVE StepsInBlock'
  <2>1. \A q \in Procs \ {p} : step'[q] = step[q]
    BY <1>4 DEF LooksUp, CheckUrl, Scan, MakeCache, MakeLogDir, MakeLogFile, HashUrl,
                LookupMissing, LookupHit, LookupOther, MakeDir, StoreFile, CloseLog,
                OpenEmptied, CloseOverwriting, MakeSubdir, Search, Create, AppendLine, Goto
  <2> QED BY <1>4, <2>1 DEF LooksUp, acceptVars, StepsInBlock
<1>5. ASSUME NEW p \in Procs, Leaves(p) PROVE StepsInBlock'
  BY <1>5 DEF Leaves, Forget, Goto, StepsInBlock
<1>6. ASSUME NEW p \in Procs, Stops(p) PROVE StepsInBlock'
  <2>1. \A q \in Procs \ {p} : life[q] = "serve" => life'[q] = "serve"
    BY <1>6 DEF Stops, EndOf, ZombiesOf
  <2> QED BY <1>6, <2>1 DEF Stops, Ends, Forget, Goto, StepsInBlock
<1> QED BY <1>1, <1>2, <1>3, <1>4, <1>5, <1>6, NextKinds

\* The initial states are typed.
LEMMA InitTyping == Init => Typing
<1> SUFFICES ASSUME Init PROVE Typing
  OBVIOUS
<1>1. AcceptInv
  BY InitAcceptInv DEF Init
<1>2. ServeTypeOK
  BY CheckUrlAssumption
  DEF Init, DiskInit, CallInit, ServeTypeOK, DiskTypeOK, CallTypeOK, ServeSteps,
      BufferFull, Unflushed, Folders
<1>3. StepsInBlock
  BY DEF Init, CallInit, StepsInBlock
<1> QED BY <1>1, <1>2, <1>3 DEF Typing

(* The types hold in every behaviour. *)
LEMMA TypingInvariant == Spec => []Typing
<1>1. Typing /\ [Next]_vars => Typing'
  BY NextAccept2, NextServeTypes, NextBlock DEF Typing
<1> QED BY <1>1, InitTyping, PTL DEF Spec

(* The variables of the proxies of assignment 2 keep their types: among    *)
(* other things logfile.txt holds nothing but whole lines, except for the  *)
(* rests of entries that 2-3 overwrites.                                   *)
THEOREM Typed == Spec => []TypeOK
<1>1. Typing => TypeOK
  BY DEF Typing, AcceptInv, ServeTypeOK, TypeOK
<1> QED BY <1>1, TypingInvariant, PTL

(* No zombie is forgotten, also where a failed fork closes the listening   *)
(* socket, where main returns after a fork, and where a child of 2-2 goes  *)
(* to accept in the block of pid == 0.                                     *)
THEOREM NoZombieLost == Spec => []NoLostZombie
<1>1. Typing => NoLostZombie
  BY DEF Typing, AcceptInv
<1> QED BY <1>1, TypingInvariant, PTL

-----------------------------------------------------------------------------
(* The log settles *)

(* In check_url, only a call that saw no ~/logfile goes on to make it.     *)
LEMMA LooksSettles ==
  ASSUME Typing, MadeUnseen, NEW p \in Procs, LooksUp(p)
  PROVE  MadeUnseen' /\ (version # "2-3" /\ Settled => Settled' /\ LogGrows)
<1> USE DEF Goto
<1>0. step \in [Procs -> ServeSteps] /\ saw \in [Procs -> SUBSET Folders]
  BY DEF Typing, ServeTypeOK, CallTypeOK
<1>1. \A q \in Procs \ {p} : step'[q] = step[q] /\ saw'[q] = saw[q]
  BY <1>0 DEF LooksUp, CheckUrl, Scan, MakeCache, MakeLogDir, MakeLogFile, HashUrl,
              LookupMissing, LookupHit, LookupOther, MakeDir, StoreFile, CloseLog,
              OpenEmptied, CloseOverwriting, MakeSubdir, Search, Create, AppendLine
<1>2. \/ Scan(p) \/ MakeCache(p)
      \/ MakeLogDir(p) \/ MakeLogFile(p)
      \/ /\ step[p] \notin {"mkcache", "mklogdir", "creatlog"}
         /\ step'[p] \notin {"mkcache", "mklogdir", "creatlog"}
         /\ home' = home
         /\ version # "2-3" => UNCHANGED log \/ Flush(p)
  BY <1>0 DEF LooksUp, CheckUrl, HashUrl, LookupMissing, LookupHit, LookupOther, MakeDir,
              StoreFile, CloseLog, OpenEmptied, CloseOverwriting, MakeSubdir, Search,
              Create, AppendLine, Serving, diskVars
<1>3. CASE Scan(p)
  <2>1. saw'[p] = home /\ step'[p] = AfterScan(home) /\ home' = home /\ log' = log
    BY <1>0, <1>3 DEF Scan, diskVars
  <2> QED BY <1>1, <2>1 DEF MadeUnseen, AfterScan, Settled, LogGrows
<1>4. CASE MakeCache(p)
  <2>1. /\ saw'[p] = saw[p] /\ step'[p] = AfterScan(saw[p] \cup {"cache"}) /\ log' = log
        /\ step[p] = "mkcache" /\ home \subseteq home'
    BY <1>0, <1>4 DEF MakeCache, makeDir
  <2> QED BY <1>1, <2>1 DEF MadeUnseen, AfterScan, Settled, LogGrows
<1>5. CASE MakeLogDir(p) \/ MakeLogFile(p)
  <2>1. ~ Settled
    BY <1>5 DEF MakeLogDir, MakeLogFile, MadeUnseen, Settled
  <2>2. saw'[p] = saw[p] /\ (step'[p] = "creatlog" => step[p] = "mklogdir")
        /\ step'[p] # "mklogdir"
    BY <1>0, <1>5 DEF MakeLogDir, MakeLogFile
  <2> QED BY <1>1, <2>1, <2>2 DEF MadeUnseen
<1>6. CASE /\ step[p] \notin {"mkcache", "mklogdir", "creatlog"}
           /\ step'[p] \notin {"mkcache", "mklogdir", "creatlog"}
           /\ home' = home
           /\ version # "2-3" => UNCHANGED log \/ Flush(p)
  <2>1. version # "2-3" => LogGrows
    BY <1>6, FlushStep DEF Typing, ServeTypeOK, DiskTypeOK, LogGrows
  <2> QED BY <1>1, <1>6, <2>1 DEF MadeUnseen, Settled
<1> QED BY <1>2, <1>3, <1>4, <1>5, <1>6

(* Outside check_url no call starts to make the log. *)
LEMMA NextSettles ==
  ASSUME Typing, MadeUnseen, [Next]_vars
  PROVE  MadeUnseen' /\ (version # "2-3" /\ Settled => Settled' /\ LogGrows)
<1>0. /\ ServeTypeOK /\ step \in [Procs -> ServeSteps] /\ saw \in [Procs -> SUBSET Folders]
  BY DEF Typing, ServeTypeOK, CallTypeOK
<1>1. ASSUME home \subseteq home',
             \A q \in Procs :
               UNCHANGED <<step[q], saw[q]>>
                 \/ step'[q] \notin {"mkcache", "mklogdir", "creatlog"},
             LogGrows
      PROVE  MadeUnseen' /\ (version # "2-3" /\ Settled => Settled' /\ LogGrows)
  BY <1>1 DEF MadeUnseen, Settled
<1>2. UNCHANGED log => LogGrows
  BY DEF LogGrows
<1>3. CASE LeavesCalls
  BY <1>1, <1>2, <1>3 DEF LeavesCalls, callVars
<1>4. ASSUME NEW p \in Procs, NEW q \in Procs, Begins(p, q)
      PROVE  MadeUnseen' /\ (version # "2-3" /\ Settled => Settled' /\ LogGrows)
  BY <1>0, <1>1, <1>2, <1>4 DEF Begins, Goto, diskVars
<1>5. ASSUME NEW p \in Procs, Reads(p)
      PROVE  MadeUnseen' /\ (version # "2-3" /\ Settled => Settled' /\ LogGrows)
  BY <1>0, <1>1, <1>2, <1>5 DEF Reads, Goto, diskVars
<1>6. ASSUME NEW p \in Procs, Leaves(p)
      PROVE  MadeUnseen' /\ (version # "2-3" /\ Settled => Settled' /\ LogGrows)
  BY <1>0, <1>1, <1>2, <1>6 DEF Leaves, Forget, Goto, diskVars
<1>7. ASSUME NEW p \in Procs, Stops(p)
      PROVE  MadeUnseen' /\ (version # "2-3" /\ Settled => Settled' /\ LogGrows)
  <2>1. Lines \subseteq LogEntries
    BY DEF LogEntries
  <2>2. LogGrows
    BY <1>0, <1>2, <1>7, <2>1, FlushStep DEF Stops, ServeTypeOK, DiskTypeOK
  <2> QED BY <1>0, <1>1, <1>7, <2>2 DEF Stops, Ends, Forget, Goto
<1> QED BY <1>3, <1>4, <1>5, <1>6, <1>7, LooksSettles, NextKinds

(* Once ~/logfile exists and every call that scanned before is past its    *)
(* creat, no interleaving of the calls of the children empties             *)
(* logfile.txt or changes a line of it, 2-3 apart.                         *)
THEOREM LogSettled == Spec => LogSettles
<1>1. Init => MadeUnseen
  BY DEF Init, CallInit, MadeUnseen
<1>2. Spec => [](Typing /\ MadeUnseen)
  <2>1. Typing /\ MadeUnseen /\ [Next]_vars => MadeUnseen'
    BY NextSettles
  <2> QED BY <1>1, <2>1, TypingInvariant, PTL DEF Spec
<1>3. Typing /\ MadeUnseen /\ [Next]_vars
        => [version # "2-3" /\ Settled => Settled' /\ LogGrows]_vars
  BY NextSettles
<1> QED BY <1>2, <1>3, PTL DEF Spec, LogSettles

-----------------------------------------------------------------------------
(* Hits *)

(* What is written out keeps the Hits of the log true, for what is stored  *)
(* stays stored.                                                           *)
LEMMA FlushHits ==
  ASSUME log \in Seq(LogEntries), BufferFull, BufferHits, LogHits,
         NEW p \in Procs, Flush(p) \/ UNCHANGED log, stored \subseteq stored'
  PROVE  LogHits'
<1>1. CASE UNCHANGED log
  BY <1>1 DEF LogHits, HitHasFile
<1>2. CASE Flush(p) /\ Unflushed(p)
  <2>1. log' = Append(log, line[p]) /\ line[p] \in Lines /\ HitHasFile(line[p])
    BY <1>2 DEF Flush, BufferFull, BufferHits
  <2>2. \A i \in 1..Len(log') : log'[i] = line[p] \/ (i \in 1..Len(log) /\ log'[i] = log[i])
    BY <2>1
  <2> QED BY <2>1, <2>2 DEF LogHits, HitHasFile
<1>3. CASE Flush(p) /\ ~ Unflushed(p)
  BY <1>3 DEF Flush, LogHits, HitHasFile
<1> QED BY <1>1, <1>2, <1>3

(* A step that stores nothing, and gives no other call something to write  *)
(* out, keeps the invariant.                                               *)
LEMMA AwayHits ==
  ASSUME HitInv, UNCHANGED <<stored, first>>, LogHits',
         \A q \in Procs :
           \/ UNCHANGED <<step[q], key[q], url[q], line[q]>>
           \/ step'[q] \notin {"lookup", "mkdir", "store", "flush"}
  PROVE  HitInv'
BY DEF HitInv, FirstStored, StoredNamed, KeyIsUrl, BufferHits, HitHasFile, Unflushed

(* A step of p that stores nothing, whose call is about the hashed URL,    *)
(* and whose line is a MISS or a true Hit.                                 *)
LEMMA OwnHits ==
  ASSUME HitInv, UNCHANGED <<stored, first>>, LogHits', NEW p \in Procs,
         \A q \in Procs \ {p} : UNCHANGED <<step[q], key[q], url[q], line[q]>>,
         key'[p] = url'[p],
         step'[p] # "lookup" => HitHasFile(line'[p])
  PROVE  HitInv'
<1>1. FirstStored' /\ StoredNamed'
  BY DEF HitInv, FirstStored, StoredNamed
<1>2. KeyIsUrl'
  BY DEF HitInv, KeyIsUrl
<1>3. BufferHits'
  BY DEF HitInv, BufferHits, HitHasFile, Unflushed
<1> QED BY <1>1, <1>2, <1>3 DEF HitInv

(* The creation of a file: whichever name readdir then gives first, it is  *)
(* that of a file of the subdirectory.                                     *)
LEMMA StoreHits ==
  ASSUME Typing, HitInv, NEW p \in Procs, StoreFile(p)
  PROVE  HitInv'
<1> USE CheckUrlAssumption DEF Typing, ServeTypeOK, DiskTypeOK, CallTypeOK
<1>0. step[p] = "store" /\ key[p] \in Urls /\ Subdir(p) \in Dirs /\ key[p] # NoEntry
  BY DEF StoreFile, Subdir
<1>1. stored' = stored \cup {key[p]} /\ log' = log
  BY DEF StoreFile, makeFile
<1>2. FirstStored'
  BY <1>0, <1>1 DEF StoreFile, HitInv, FirstStored, Subdir
<1>3. StoredNamed'
  BY <1>0, <1>1 DEF StoreFile, HitInv, StoredNamed, Subdir
<1>4. KeyIsUrl'
  BY <1>0 DEF StoreFile, Goto, HitInv, KeyIsUrl
<1>5. BufferHits' /\ LogHits'
  BY <1>0, <1>1 DEF StoreFile, Goto, HitInv, BufferHits, LogHits, HitHasFile, Unflushed
<1> QED BY <1>2, <1>3, <1>4, <1>5 DEF HitInv

(* The steps of check_url, and those 2-3 and test.c have of their own.     *)
LEMMA LooksHits ==
  ASSUME Typing, HitInv, NEW p \in Procs, LooksUp(p)
  PROVE  HitInv'
<1>0. /\ DiskTypeOK(LogEntries) /\ BufferFull
      /\ step \in [Procs -> ServeSteps] /\ key \in [Procs -> Urls]
      /\ url \in [Procs -> Urls] /\ line \in [Procs -> Lines \cup {NoLine}]
  BY DEF Typing, ServeTypeOK, CallTypeOK
<1>1. UNCHANGED log => LogHits'
  <2> HAVE UNCHANGED log
  <2>1. stored \subseteq stored'
    BY DEF LooksUp, CheckUrl, Scan, MakeCache, MakeLogDir, MakeLogFile, HashUrl,
           LookupMissing, LookupHit, LookupOther, MakeDir, StoreFile, CloseLog,
           OpenEmptied, CloseOverwriting, MakeSubdir, Search, Create, AppendLine, diskVars,
           makeFile
  <2> QED BY <2>1 DEF HitInv, LogHits, HitHasFile
<1>2. log' = <<>> => LogHits'
  BY DEF LogHits
<1> USE DEF Goto
<1>3. CASE Scan(p) \/ MakeCache(p) \/ MakeLogDir(p) \/ MakeLogFile(p)
  <2>1. step'[p] \in {"mkcache", "mklogdir", "creatlog", "hash"}
    BY <1>0, <1>3 DEF Scan, MakeCache, MakeLogDir, MakeLogFile, AfterScan
  <2> QED
    BY <1>0, <1>1, <1>2, <1>3, <2>1, AwayHits
    DEF Scan, MakeCache, MakeLogDir, MakeLogFile, diskVars
<1>4. CASE HashUrl(p) \/ OpenEmptied(p) \/ MakeSubdir(p)
  <2>1. /\ key'[p] = url'[p] /\ step'[p] = "lookup" /\ UNCHANGED <<stored, first>>
        /\ \A q \in Procs \ {p} : UNCHANGED <<step[q], key[q], url[q], line[q]>>
    BY <1>0, <1>4 DEF HashUrl, OpenEmptied, MakeSubdir, diskVars
  <2>2. LogHits'
    BY <1>1, <1>2, <1>4 DEF HashUrl, OpenEmptied, MakeSubdir, diskVars
  <2> QED BY <2>1, <2>2, OwnHits
<1>5. CASE LookupMissing(p) \/ LookupHit(p) \/ LookupOther(p) \/ Search(p)
  <2>1. step[p] = "lookup" /\ key[p] = url[p] /\ Subdir(p) \in Dirs /\ key[p] # NoEntry
    BY <1>0, <1>5, CheckUrlAssumption
    DEF LookupMissing, LookupHit, LookupOther, Search, Serving, HitInv, KeyIsUrl, Subdir
  <2>2. UNCHANGED <<stored, first, log, key, url>>
    BY <1>5 DEF LookupMissing, LookupHit, LookupOther, Search, diskVars
  <2>3. \A q \in Procs \ {p} : UNCHANGED <<step[q], key[q], url[q], line[q]>>
    BY <1>0, <1>5 DEF LookupMissing, LookupHit, LookupOther, Search
  <2>4. \/ line'[p] = Miss(url[p])
        \/ line'[p] = Hit(url[p]) /\ first[Subdir(p)] = key[p]
        \/ line'[p] = Hit(url[p]) /\ key[p] \in stored
    BY <1>0, <1>5, <2>1 DEF LookupMissing, LookupHit, LookupOther, Search
  <2>5. HitHasFile(line'[p])
    BY <2>1, <2>2, <2>4 DEF HitHasFile, Miss, Hit, HitInv, FirstStored
  <2> QED BY <1>1, <2>1, <2>2, <2>3, <2>5, OwnHits
<1>6. CASE MakeDir(p)
  <2>1. /\ step[p] = "mkdir" /\ key'[p] = url'[p] /\ UNCHANGED <<stored, first, log, line>>
        /\ \A q \in Procs \ {p} : UNCHANGED <<step[q], key[q], url[q], line[q]>>
    BY <1>0, <1>6 DEF MakeDir, HitInv, KeyIsUrl
  <2>2. HitHasFile(line'[p])
    BY <2>1 DEF HitInv, BufferHits, Unflushed
  <2> QED BY <1>1, <2>1, <2>2, OwnHits
<1>7. CASE StoreFile(p) \/ Create(p)
  BY <1>7, StoreHits DEF Create
<1>8. CASE CloseLog(p) \/ AppendLine(p) \/ CloseOverwriting(p)
  <2>1. step[p] = "flush" /\ step'[p] = "return" /\ UNCHANGED <<stored, first, line, url>>
    BY <1>0, <1>8 DEF CloseLog, AppendLine, CloseOverwriting
  <2>2. \A q \in Procs \ {p} : UNCHANGED <<step[q], key[q], url[q], line[q]>>
    BY <1>0, <1>8 DEF CloseLog, AppendLine, CloseOverwriting
  <2>3. CASE CloseOverwriting(p)
    <3>1. line[p] \in Lines /\ HitHasFile(line[p])
      BY <1>0, <2>1 DEF BufferFull, HitInv, BufferHits, Unflushed
    <3>2. \A k \in 1..Len(log') : \/ log'[k] = line[p] \/ log'[k].kind = "rest"
                                   \/ \E j \in 1..Len(log) : log'[k] = log[j]
      BY <1>0, <2>3, <3>1, ClosedOverwriting DEF DiskTypeOK
    <3>3. LogHits'
      BY <2>1, <3>1, <3>2 DEF HitInv, LogHits, HitHasFile
    <3> QED BY <2>1, <2>2, <3>3, AwayHits
  <2>4. CASE CloseLog(p) \/ AppendLine(p)
    <3>1. LogHits'
      BY <1>0, <2>1, <2>4, FlushHits DEF CloseLog, AppendLine, HitInv, DiskTypeOK
    <3> QED BY <2>1, <2>2, <3>1, AwayHits
  <2> QED BY <1>8, <2>3, <2>4
<1> QED
  BY <1>3, <1>4, <1>5, <1>6, <1>7, <1>8 DEF LooksUp, CheckUrl

(* Every step keeps the Hits true. *)
LEMMA NextHits == Typing /\ HitInv /\ [Next]_vars => HitInv'
<1> SUFFICES ASSUME Typing, HitInv, [Next]_vars PROVE HitInv'
  OBVIOUS
<1>0. /\ DiskTypeOK(LogEntries) /\ BufferFull
      /\ step \in [Procs -> ServeSteps] /\ key \in [Procs -> Urls]
      /\ url \in [Procs -> Urls] /\ line \in [Procs -> Lines \cup {NoLine}]
  BY DEF Typing, ServeTypeOK, CallTypeOK
<1>1. UNCHANGED <<log, stored>> => LogHits'
  BY DEF HitInv, LogHits, HitHasFile
<1>2. CASE LeavesCalls
  BY <1>1, <1>2, AwayHits DEF LeavesCalls, callVars
<1>3. ASSUME NEW p \in Procs, NEW q \in Procs, Begins(p, q) PROVE HitInv'
  BY <1>0, <1>1, <1>3, AwayHits DEF Begins, Goto, diskVars
<1>4. ASSUME NEW p \in Procs, Reads(p) PROVE HitInv'
  <2>1. step'[p] \in {"scan", "resolve", "mksub"} /\ UNCHANGED <<log, stored, first>>
    BY <1>0, <1>4 DEF Reads, Goto, diskVars
  <2>2. \A q \in Procs \ {p} : UNCHANGED <<step[q], key[q], url[q], line[q]>>
    BY <1>0, <1>4 DEF Reads, Goto
  <2> QED BY <1>1, <2>1, <2>2, AwayHits
<1>5. ASSUME NEW p \in Procs, LooksUp(p) PROVE HitInv'
  BY <1>5, LooksHits
<1>6. ASSUME NEW p \in Procs, Leaves(p) PROVE HitInv'
  BY <1>0, <1>1, <1>6, AwayHits DEF Leaves, Forget, Goto, diskVars
<1>7. ASSUME NEW p \in Procs, Stops(p) PROVE HitInv'
  <2>1. UNCHANGED <<stored, first>> /\ step' = [step EXCEPT ![p] = "end"]
        /\ \A q \in Procs \ {p} : UNCHANGED <<key[q], url[q], line[q]>>
    BY <1>0, <1>7 DEF Stops, Ends, Forget, Goto
  <2>2. LogHits'
    BY <1>0, <1>7, <2>1, FlushHits DEF Stops, HitInv, DiskTypeOK
  <2> QED BY <1>0, <2>1, <2>2, AwayHits
<1> QED BY <1>2, <1>3, <1>4, <1>5, <1>6, <1>7, NextKinds

(* A Hit in the log names a URL whose file is there, whichever of the      *)
(* processes that look up, create and overwrite at the same time comes     *)
(* first.                                                                  *)
THEOREM HitsStored == Spec => []HitStored
<1>1. Init => HitInv
  BY DEF Init, DiskInit, CallInit, HitInv, FirstStored, StoredNamed, KeyIsUrl, BufferHits,
         LogHits, Unflushed
<1>2. Spec => []HitInv
  BY <1>1, NextHits, TypingInvariant, PTL DEF Spec
<1>3. HitInv => HitStored
  BY DEF HitInv, LogHits, HitHasFile, HitStored
<1> QED BY <1>2, <1>3, PTL

-----------------------------------------------------------------------------
(* Empty subdirectories *)

(* Whoever is filling a subdirectory goes on, when another process moves.  *)
LEMMA AwayFill ==
  ASSUME FillInv, UNCHANGED <<version, made, first>>, faults' = 0 => faults = 0,
         faults' = 0 =>
           \A q \in Procs : Filling(q) => UNCHANGED <<step[q], key[q]>>
  PROVE  FillInv'
BY DEF FillInv, Filling, Subdir

(* In check_url and getUrl a subdirectory is made by the process that will *)
(* fill it, and left alone once there is a file in it.                     *)
LEMMA LooksFill ==
  ASSUME Typing, HitInv, FillInv, UNCHANGED version, NEW p \in Procs, LooksUp(p)
  PROVE  FillInv'
<1> USE CheckUrlAssumption DEF Goto, Subdir, Filling
<1>0. /\ first \in [Dirs -> Urls \cup {NoEntry}] /\ step \in [Procs -> ServeSteps]
      /\ key \in [Procs -> Urls] /\ url \in [Procs -> Urls]
  BY DEF Typing, ServeTypeOK, DiskTypeOK, CallTypeOK
<1>f. faults' = faults
  BY DEF LooksUp, acceptVars
<1>1. \A q \in Procs \ {p} : step'[q] = step[q] /\ key'[q] = key[q]
  BY <1>0 DEF LooksUp, CheckUrl, Scan, MakeCache, MakeLogDir, MakeLogFile, HashUrl,
              LookupMissing, LookupHit, LookupOther, MakeDir, StoreFile, CloseLog,
              OpenEmptied, CloseOverwriting, MakeSubdir, Search, Create, AppendLine
<1>2. CASE MakeDir(p) \/ MakeSubdir(p)
  <2>1. ASSUME CheckUrl(p) PROVE step[p] \in CheckSteps
    BY <2>1 DEF CheckUrl, Scan, MakeCache, MakeLogDir, MakeLogFile, HashUrl, LookupMissing,
                LookupHit, LookupOther, MakeDir, StoreFile, CloseLog, CheckSteps
  <2>2. MakeSubdir(p) => version = "test"
    BY <2>1 DEF LooksUp, MakeSubdir, OpenEmptied, CloseOverwriting, Serving, CheckSteps
  <2>3. /\ UNCHANGED first /\ DirOf[key'[p]] \in Dirs
        /\ made' = made \cup {DirOf[key'[p]]} /\ Filling(p)'
        /\ ~ Filling(p)
    BY <1>0, <1>2, <2>2 DEF MakeDir, MakeSubdir, Serving, makeDir
  <2> QED BY <1>f, <1>1, <2>3 DEF FillInv
<1>3. CASE StoreFile(p) \/ Create(p)
  <2>1. /\ made' = made /\ key' = key /\ Subdir(p) \in Dirs
        /\ first'[Subdir(p)] # NoEntry
        /\ \A d \in Dirs \ {Subdir(p)} : first'[d] = first[d]
    BY <1>0, <1>3 DEF Create, StoreFile
  <2>2. made \subseteq Dirs
    BY DEF Typing, ServeTypeOK, DiskTypeOK
  <2> QED BY <1>f, <1>1, <2>1, <2>2 DEF FillInv
<1>4. CASE Search(p)
  <2>1. /\ UNCHANGED <<made, first, key>> /\ step[p] = "lookup"
        /\ step'[p] = "store" \/ key[p] \in stored
    BY <1>0, <1>4 DEF Search, Serving, diskVars
  <2>2. step'[p] = "store" \/ first[Subdir(p)] # NoEntry
    BY <2>1 DEF HitInv, StoredNamed
  <2> QED BY <1>f, <1>1, <2>1, <2>2 DEF FillInv
<1>5. CASE ~ (MakeDir(p) \/ MakeSubdir(p) \/ StoreFile(p) \/ Create(p) \/ Search(p))
  <2>1. UNCHANGED <<made, first>> /\ ~ Filling(p)
    BY <1>5 DEF LooksUp, CheckUrl, Scan, MakeCache, MakeLogDir, MakeLogFile, HashUrl,
                LookupMissing, LookupHit, LookupOther, CloseLog,
                OpenEmptied, CloseOverwriting, AppendLine, Serving, diskVars
  <2> QED BY <1>f, <1>1, <2>1, AwayFill
<1> QED BY <1>2, <1>3, <1>4, <1>5

(* Every step keeps it so that an empty subdirectory is about to be filled. *)
LEMMA NextFill == Typing /\ HitInv /\ FillInv /\ [Next]_vars => FillInv'
<1> SUFFICES ASSUME Typing, HitInv, FillInv, [Next]_vars PROVE FillInv'
  OBVIOUS
<1>0. /\ faults \in Nat /\ step \in [Procs -> ServeSteps] /\ key \in [Procs -> Urls]
      /\ StepsInBlock
  BY AcceptorsAssumption
  DEF Typing, ServeTypeOK, CallTypeOK, AcceptInv, AcceptTypeOK
<1>v. UNCHANGED version
  BY NextKinds
<1>1. CASE LeavesCalls
  BY <1>0, <1>1, <1>v, AwayFill DEF LeavesCalls, callVars
<1>2. ASSUME NEW p \in Procs, NEW q \in Procs, Begins(p, q) PROVE FillInv'
  BY <1>0, <1>2, <1>v, AwayFill DEF Begins, Goto, diskVars, StepsInBlock, Filling
<1>3. ASSUME NEW p \in Procs, Reads(p) PROVE FillInv'
  BY <1>0, <1>3, <1>v, AwayFill DEF Reads, Goto, diskVars, acceptVars, Filling
<1>4. ASSUME NEW p \in Procs, LooksUp(p) PROVE FillInv'
  BY <1>4, <1>v, LooksFill
<1>5. ASSUME NEW p \in Procs, Leaves(p) PROVE FillInv'
  BY <1>0, <1>5, <1>v, AwayFill DEF Leaves, Forget, Goto, diskVars, Filling
<1>6. ASSUME NEW p \in Procs, Stops(p) PROVE FillInv'
  BY <1>0, <1>6, <1>v, AwayFill DEF Stops, Ends, Forget, Goto
<1> QED BY <1>1, <1>2, <1>3, <1>4, <1>5, <1>6, NextKinds

(* While nothing fails, a subdirectory of the cache is without a file only *)
(* while a process is on its way to create one.                            *)
THEOREM EmptyFilled == Spec => []EmptyOnlyWhileFilled
<1>1. Init => HitInv /\ FillInv
  BY DEF Init, DiskInit, CallInit, HitInv, FirstStored, StoredNamed, KeyIsUrl, BufferHits,
         LogHits, Unflushed, FillInv
<1>2. Typing /\ HitInv /\ FillInv /\ [Next]_vars => (HitInv /\ FillInv)'
  BY NextHits, NextFill
<1>3. Spec => []FillInv
  BY <1>1, <1>2, TypingInvariant, PTL DEF Spec
<1>4. FillInv => EmptyOnlyWhileFilled
  BY DEF FillInv, Filling, EmptyOnlyWhileFilled
<1> QED BY <1>3, <1>4, PTL

-----------------------------------------------------------------------------
(* One acceptor *)

(* Who moves in main's loop, or ends, moves on in turn.                    *)
LEMMA NextTurn == OneRoot /\ Typing /\ TurnInv /\ [Next]_vars => TurnInv'
<1> SUFFICES ASSUME OneRoot, Typing, TurnInv, [Next]_vars PROVE TurnInv'
  OBVIOUS
<1> USE AcceptorsAssumption DEF At, Serving
<1>0. life \in [Procs -> Phases] /\ UNCHANGED version
  BY NextKinds DEF Typing, AcceptInv, AcceptTypeOK
<1>m. ASSUME NEW p \in Procs, NEW s \in Phases, life' = [life EXCEPT ![p] = s],
             life[p] # "unborn", s # "unborn",
             version = "2-2" /\ s \in {"boot", "accept", "fork", "serve"} => InTurn(p),
             version = "test" /\ s \in {"boot", "accept", "fork", "close"} => InLoop(p)
      PROVE  TurnInv'
  <2>1. LaunchFirst'
    BY <1>0, <1>m DEF TurnInv, LaunchFirst
  <2>2. OneInTurn'
    BY <1>0, <1>m DEF TurnInv, OneInTurn, InTurn
  <2>3. RootLoops'
    BY <1>0, <1>m DEF TurnInv, RootLoops, InLoop
  <2> QED BY <2>1, <2>2, <2>3 DEF TurnInv
<1>e. ASSUME \A q \in Procs :
               \/ life'[q] = life[q]
               \/ life[q] # "unborn" /\ life'[q] \in {"zombie", "gone"}
      PROVE  TurnInv'
  BY <1>0, <1>e DEF TurnInv, LaunchFirst, OneInTurn, RootLoops, InTurn, InLoop
<1>1. CASE UNCHANGED life
  BY <1>1, <1>e
<1>2. ASSUME NEW p \in Procs, Launch(p) PROVE TurnInv'
  <2>1. \A q \in Procs : life'[q] = IF q = p THEN "boot" ELSE "unborn"
    BY <1>0, <1>2 DEF Launch, TurnInv, LaunchFirst
  <2>2. p \in Roots /\ LaunchFirst'
    BY <1>2, <2>1 DEF Launch, OneRoot, LaunchFirst
  <2> QED BY <1>0, <2>1, <2>2 DEF TurnInv, OneInTurn, RootLoops, InTurn, InLoop
<1>3. ASSUME NEW p \in Procs, LoopStep(p) PROVE TurnInv'
  BY <1>0, <1>3, <1>m DEF LoopStep, Bind, BindFail, Accept, Phases, InTurn, InLoop
<1>4. ASSUME NEW p \in Procs, NEW q \in Procs, Fork(p, q) PROVE TurnInv'
  <2>1. life' = [life EXCEPT ![p] = "close", ![q] = "serve"] /\ life[p] = "fork"
        /\ life[q] = "unborn" /\ q \notin Roots
    BY <1>4 DEF Fork
  <2>2. LaunchFirst'
    BY <1>0, <2>1 DEF TurnInv, LaunchFirst
  <2>3. OneInTurn'
    BY <1>0, <2>1 DEF TurnInv, OneInTurn, InTurn
  <2>4. RootLoops'
    BY <1>0, <2>1 DEF TurnInv, RootLoops, InLoop
  <2> QED BY <2>2, <2>3, <2>4 DEF TurnInv
<1>5. ASSUME NEW p \in Procs, CloseCli(p), version # "2-2" PROVE TurnInv'
  BY <1>0, <1>5, <1>m DEF CloseCli, Phases, InLoop
<1>6. ASSUME NEW p \in Procs, version \notin {"2-2", "test"},
             AcceptFail(p) \/ ForkFail(p) \/ ServeEnd(p)
      PROVE  TurnInv'
  BY <1>0, <1>6, <1>m DEF AcceptFail, ForkFail, ServeEnd, Phases
<1>7. ASSUME NEW p \in Procs, ForkFailBoth(p) \/ (version = "2-2" /\ ReadOther(p))
      PROVE  TurnInv'
  BY <1>0, <1>7, <1>m DEF ForkFailBoth, ReadOther, Phases, InTurn, InLoop
<1>8. ASSUME NEW p \in Procs, Handler(p) PROVE TurnInv'
  BY <1>0, <1>8, <1>e DEF Handler, ChldHandler, SigEnter, SigReap, SigReturn, ZombiesOf
<1>9. ASSUME NEW p \in Procs, Alive(p), EndOf(p) PROVE TurnInv'
  BY <1>0, <1>9, <1>e DEF Alive, EndOf, ZombiesOf
<1>10. ASSUME NEW p \in Procs, main21(p) \/ main23(p) \/ main24(p) \/ mainTest2(p)
       PROVE  TurnInv'
  <2>1. version \notin {"2-2", "test"}
    BY <1>10 DEF main21, main23, main24, mainTest2
  <2>2. CASE \/ LaunchProxy(p) \/ AcceptGoOn(p) \/ ForkGoOn(p) \/ CloseGoOn(p)
             \/ Answer(p) \/ ReadOnly(p)
    <3>1. Launch(p) \/ AcceptFail(p) \/ ForkFail(p) \/ CloseCli(p) \/ ServeEnd(p)
      BY <2>2 DEF LaunchProxy, AcceptGoOn, ForkGoOn, CloseGoOn, Answer, ReadOnly
    <3> QED BY <1>2, <1>5, <1>6, <2>1, <3>1
  <2>3. CASE \/ ReadScan(p) \/ ReadGetUrl(p, "resolve") \/ Resolve(p)
             \/ check_url21(p) \/ check_url23(p) \/ check_url24(p)
    <3>1. UNCHANGED life
      BY <2>3 DEF ReadScan, ReadGetUrl, Read, Resolve, check_url21, check_url23,
                  check_url24, InCheckUrl, acceptVars
    <3> QED BY <1>1, <3>1
  <2>4. CASE \/ CrashAt(p, {"read"}) \/ CrashAt(p, {"read", "resolve"})
             \/ CrashMissed(p) \/ CrashEmpty(p) \/ AcceptReturn(p) \/ Interrupt(p)
    <3>1. Alive(p) /\ EndOf(p)
      BY <2>4 DEF CrashAt, CrashMissed, CrashEmpty, AcceptReturn, Interrupt, Abort, Die,
                  Alive
    <3> QED BY <1>9, <3>1
  <2> QED BY <1>10, <2>2, <2>3, <2>4 DEF main21, main23, main24, mainTest2
<1>11. ASSUME NEW p \in Procs, main22(p) PROVE TurnInv'
  <2>1. \/ Launch(p) \/ ForkFailBoth(p)
        \/ version = "2-2" /\ ReadOther(p)
        \/ Alive(p) /\ EndOf(p)
    BY <1>11 DEF main22, LaunchProxy, AcceptReturn, Break, ReadGet, CrashAt, Abort, Alive
  <2> QED BY <1>2, <1>7, <1>9, <2>1
<1>12. ASSUME NEW p \in Procs, mainTest(p) PROVE TurnInv'
  <2>1. \/ UNCHANGED life
        \/ Launch(p) \/ ForkFailBoth(p)
        \/ version # "2-2" /\ CloseCli(p)
        \/ Alive(p) /\ EndOf(p)
    BY <1>12
    DEF mainTest, LaunchTest, AcceptReturn, CloseGoOn, ReadGetUrl, Read, getUrl, Exit,
        CrashAt, Abort, Alive, acceptVars
  <2> QED BY <1>1, <1>2, <1>5, <1>7, <1>9, <2>1
<1>13. CASE NewConnection
  BY <1>1, <1>13 DEF NewConnection, Connect
<1>14. ASSUME NEW p \in Procs, Kill(p) PROVE TurnInv'
  BY <1>9, <1>14 DEF Kill, Die
<1>15. CASE UNCHANGED vars
  BY <1>1, <1>15 DEF vars, acceptVars
<1> QED
  BY <1>3, <1>4, <1>8, <1>10, <1>11, <1>12, <1>13, <1>14, <1>15 DEF Next, ForkChild

(* When they are launched once, 2-2 and test.c have one acceptor at a      *)
(* time, whatever calls fail and whoever is killed: the parent of 2-2 has  *)
(* left the loop before its child comes to it.                             *)
THEOREM AcceptorsAlternate == OneRoot => (Spec => []OneAcceptor)
<1> SUFFICES ASSUME OneRoot PROVE Spec => []OneAcceptor
  OBVIOUS
<1>1. Init => TurnInv
  BY DEF Init, AcceptInit, TurnInv, LaunchFirst, OneInTurn, RootLoops, InTurn, InLoop
<1>2. Typing /\ TurnInv /\ [Next]_vars => TurnInv'
  BY NextTurn
<1>3. Spec => []TurnInv
  BY <1>1, <1>2, TypingInvariant, PTL DEF Spec
<1>4. TurnInv => OneAcceptor
  BY DEF TurnInv, OneRoot, OneInTurn, RootLoops, InTurn, InLoop, OneAcceptor, Accepting
<1> QED BY <1>3, <1>4, PTL
=============================================================================
