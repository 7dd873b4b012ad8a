------------------------------ MODULE Proxies2 ------------------------------
(***************************************************************************)
(* The proxies of assignment 2 (2-1, 2-2, 2-3, 2-4, and the two others     *)
(* kept in the directory of 2-1, test.c and test2.c): no semaphore, so the *)
(* calls on the file system of all children overlap.                       *)
(*                                                                         *)
(* version says which of them is running.  They share the process tree of  *)
(* Acceptors but for what they do when accept or fork fails and after they *)
(* have served.  2-1 and 2-3 run the check_url of CheckUrl before they     *)
(* look for the host, 2-4 after; 2-3 opens the log for writing instead of  *)
(* appending; test.c has a routine of its own, getUrl; 2-2 and test2.c     *)
(* look nothing up.  step[p] is the program counter of a child inside the  *)
(* block of pid == 0.  The alarms of a MISS only print, and what is sent   *)
(* to the client and read from the origin touches no state of others.      *)
(***************************************************************************)
EXTENDS Acceptors, CheckUrl

CONSTANT Versions   \* the programs a run considers

ASSUME Proxies2Assumption ==
  Versions \subseteq {"2-1", "2-2", "2-3", "2-4", "test", "test2"}

VARIABLES
  version,   \* the program that runs
  lost       \* descriptors open of which cli_fd no longer says the number

vars == <<acceptVars, diskVars, callVars, version, lost>>

ServeSteps == {"idle", "read", "resolve", "mksub", "return", "end"} \cup CheckSteps

\* The end of an entry whose beginning 2-3 has overwritten.
Rest(l) == [kind |-> "rest", url |-> l.url]

LogEntries == Lines \cup [kind : {"rest"}, url : Urls]

TypeOK ==
  /\ AcceptTypeOK
  /\ DiskTypeOK(LogEntries)
  /\ version # "2-3" => log \in Seq(Lines)
  /\ CallTypeOK(ServeSteps)
  /\ version \in Versions
  /\ lost \in [Procs -> SUBSET Conns]

Init ==
  /\ AcceptInit
  /\ DiskInit
  /\ CallInit("idle")
  /\ version \in Versions
  /\ lost = [p \in Procs |-> {}]

-----------------------------------------------------------------------------
(* main outside the block of pid == 0 *)

LaunchProxy(p) == Launch(p) /\ UNCHANGED <<diskVars, callVars, lost>>

(* test.c makes both directories, and no log file, before it binds. *)
LaunchTest(p) ==
  /\ Launch(p)
  /\ home' = makeDir(makeDir(home, "cache"), "logfile")
  /\ UNCHANGED <<log, made, stored, first, callVars, lost>>

LoopStep(p) ==
  /\ Bind(p) \/ BindFail(p) \/ \E c \in Conns : Accept(p, c)
  /\ UNCHANGED <<diskVars, callVars, lost>>

AcceptGoOn(p) == AcceptFail(p) /\ UNCHANGED <<diskVars, callVars, lost>>

ForkGoOn(p) == ForkFail(p) /\ UNCHANGED <<diskVars, callVars, lost>>

CloseGoOn(p) == CloseCli(p) /\ UNCHANGED <<diskVars, callVars, lost>>

ForkChild(p, q) ==
  /\ Fork(p, q)
  /\ Goto(q, "read")
  /\ lost' = [lost EXCEPT ![q] = lost[p]]
  /\ UNCHANGED <<diskVars, url, saw, key, line>>

\* What every end of p does to its call and to its lost descriptors.
Ends(p) ==
  /\ Forget(p)
  /\ lost' = [lost EXCEPT ![p] = {}]
  /\ UNCHANGED <<home, made, stored, first>>

(* accept fails in 2-2, test.c or test2.c, also because an earlier failure *)
(* has closed the listening socket: main returns.                          *)
AcceptReturn(p) ==
  /\ At(p, "accept")
  /\ \/ p \in servers /\ faults < MaxFaults /\ faults' = faults + 1
     \/ p \notin servers /\ UNCHANGED faults
  /\ EndOf(p)
  /\ Ends(p)
  /\ UNCHANGED log

(* fork fails in 2-2 or test.c: both sockets are closed, and main goes     *)
(* back to accept.                                                         *)
ForkFailBoth(p) ==
  /\ At(p, "fork")
  /\ \/ faults < MaxFaults /\ faults' = faults + 1
     \/ TableFull /\ UNCHANGED faults
  /\ Unlisten(p)
  /\ cli' = [cli EXCEPT ![p] = NoConn]
  /\ life' = [life EXCEPT ![p] = "accept"]
  /\ UNCHANGED <<parent, sigchld, handling, diskVars, callVars, lost>>

\* Variant: the parent of 2-2 goes on, as in the proxies after it.
BreakNot(p) == CloseGoOn(p)

(* 2-2 leaves its loop after the first fork, and main returns. *)
Break(p) ==
  /\ At(p, "close")
  /\ EndOf(p)
  /\ Ends(p)
  /\ UNCHANGED <<faults, log>>

-----------------------------------------------------------------------------
(* The block of pid == 0 *)

Serving(p, s) == At(p, "serve") /\ step[p] = s

(* read, and the URL of a GET; NoUrl stands for another method.  next is   *)
(* the step after it.                                                      *)
Read(p, u, next) ==
  /\ Serving(p, "read")
  /\ url' = [url EXCEPT ![p] = u]
  /\ Goto(p, next)
  /\ UNCHANGED <<acceptVars, diskVars, saw, key, line, lost>>

(* 2-1 hands the URL to check_url.  2-3 hands it over as the third of four *)
(* arguments, so that check_url finds as its URL whatever the register of  *)
(* the fourth holds.                                                       *)
ReadScan(p) == \E u \in Urls : Read(p, u, "scan")

(* 2-4 cuts the host out of the token of the URL, and test.c that of the   *)
(* whole request, and crash without one.                                   *)
ReadGetUrl(p, next) == \E u \in Urls \ {NoUrl} : Read(p, u, next)

\* test2.c prints the request and closes the connection.
ReadOnly(p) ==
  /\ Serving(p, "read")
  /\ ServeEnd(p)
  /\ Forget(p)
  /\ UNCHANGED <<diskVars, lost>>

(* 2-2 ends with a GET.  With another method the child waits in accept for *)
(* a connection whose descriptor takes the place of this one's in cli_fd.  *)
ReadGet(p) ==
  /\ Serving(p, "read")
  /\ Abort(p)
  /\ Ends(p)
  /\ UNCHANGED log

ReadOther(p) ==
  /\ Serving(p, "read")
  /\ life' = [life EXCEPT ![p] = "accept"]
  /\ cli' = [cli EXCEPT ![p] = NoConn]
  /\ lost' = [lost EXCEPT ![p] = @ \cup ({cli[p]} \ {NoConn})]
  /\ Forget(p)
  /\ UNCHANGED <<parent, servers, conn, sigchld, handling, faults, diskVars>>

\* 2-4: socket, gethostbyname and connect, whose failure is printed.
Resolve(p) ==
  /\ Serving(p, "resolve")
  /\ Goto(p, "scan")
  /\ UNCHANGED <<acceptVars, diskVars, url, saw, key, line, lost>>

InCheckUrl(p, steps) ==
  /\ At(p, "serve")
  /\ steps
  /\ UNCHANGED <<acceptVars, lost>>

\* 2-1 and 2-4 append to the log, in the very steps of CheckUrl.
check_url21(p) == InCheckUrl(p, CheckUrl(p))

check_url24(p) == InCheckUrl(p, CheckUrl(p))

(* 2-3 opens logfile.txt with "w+", which empties it ...                   *)
OpenEmptied(p) ==
  /\ step[p] = "hash"
  /\ log' = <<>>
  /\ key' = [key EXCEPT ![p] = url[p]]
  /\ Goto(p, "lookup")
  /\ UNCHANGED <<home, made, stored, first, url, saw, line>>

(* ... and fclose writes at the start of the file, over as much of what    *)
(* other calls wrote meanwhile as the length of the line covers: it may    *)
(* end inside an entry, whose rest stays behind it.                        *)
CloseOverwriting(p) ==
  /\ step[p] = "flush"
  /\ \/ \E i \in 1..Len(log) + 1 : log' = <<line[p]>> \o SubSeq(log, i, Len(log))
     \/ \E i \in 1..Len(log) :
          log' = <<line[p], Rest(log[i])>> \o SubSeq(log, i + 1, Len(log))
  /\ Goto(p, "return")
  /\ saw' = [saw EXCEPT ![p] = {}]
  /\ key' = [key EXCEPT ![p] = NoUrl]
  /\ UNCHANGED <<home, made, stored, first, url, line>>

check_url23(p) ==
  InCheckUrl(p,
    \/ Scan(p) \/ MakeCache(p) \/ MakeLogDir(p) \/ MakeLogFile(p)
    \/ OpenEmptied(p)
    \/ LookupMissing(p) \/ LookupHit(p) \/ LookupOther(p)
    \/ MakeDir(p) \/ StoreFile(p)
    \/ CloseOverwriting(p))

-----------------------------------------------------------------------------
(* getUrl of test.c *)

\* mkdir of the subdirectory, whether or not it is there.
MakeSubdir(p) ==
  /\ Serving(p, "mksub")
  /\ key' = [key EXCEPT ![p] = url[p]]
  /\ made' = makeDir(made, DirOf[url[p]])
  /\ Goto(p, "lookup")
  /\ UNCHANGED <<home, log, stored, first, url, saw, line>>

\* Variant: only the first name of the subdirectory is looked at.
SearchFirst(p) ==
  /\ Serving(p, "lookup")
  /\ IF first[Subdir(p)] # NoEntry
     THEN line' = [line EXCEPT ![p] = Hit(key[p])] /\ Goto(p, "flush")
     ELSE line' = [line EXCEPT ![p] = Miss(key[p])] /\ Goto(p, "store")
  /\ UNCHANGED <<diskVars, url, saw, key>>

\* The loop of readdir compares every name of the subdirectory.
Search(p) ==
  /\ Serving(p, "lookup")
  /\ IF key[p] \in stored
     THEN line' = [line EXCEPT ![p] = Hit(key[p])] /\ Goto(p, "flush")
     ELSE line' = [line EXCEPT ![p] = Miss(key[p])] /\ Goto(p, "store")
  /\ UNCHANGED <<diskVars, url, saw, key>>

Create(p) == Serving(p, "store") /\ StoreFile(p)

\* fopen for appending, fputs and fclose of one line.
AppendLine(p) == Serving(p, "flush") /\ CloseLog(p)

getUrl(p) ==
  /\ MakeSubdir(p) \/ Search(p) \/ Create(p) \/ AppendLine(p)
  /\ UNCHANGED <<acceptVars, lost>>

-----------------------------------------------------------------------------
(* From the answer to the end of the block, and other ends *)

Answer(p) ==
  /\ Serving(p, "return")
  /\ ServeEnd(p)
  /\ Forget(p)
  /\ UNCHANGED <<diskVars, lost>>

\* The child of test.c exits when it has answered.
Exit(p) ==
  /\ Serving(p, "return")
  /\ Abort(p)
  /\ Ends(p)
  /\ UNCHANGED log

CrashAt(p, steps) ==
  /\ \E s \in steps : Serving(p, s)
  /\ Abort(p)
  /\ Ends(p)
  /\ UNCHANGED log

\* After a MISS, 2-1 and 2-3 read through an address they have not set.
CrashMissed(p) == ~IsHit(p) /\ CrashAt(p, {"return"})

\* check_url reads the name of an entry that is not there.
CrashEmpty(p) == LookupEmpty(p) /\ CrashAt(p, {"lookup"})

\* Only 2-4 has a handler of SIGINT, whose exit writes the buffer out.
Interrupt(p) ==
  /\ Die(p)
  /\ Ends(p)
  /\ Flush(p)

Kill(p) ==
  /\ Die(p)
  /\ Ends(p)
  /\ UNCHANGED log

Handler(p) ==
  /\ ChldHandler(p)
  /\ UNCHANGED <<diskVars, callVars, lost>>

-----------------------------------------------------------------------------
(* The programs *)

main21(p) ==
  /\ version = "2-1"
  /\ \/ LaunchProxy(p) \/ AcceptGoOn(p) \/ ForkGoOn(p) \/ CloseGoOn(p)
     \/ ReadScan(p) \/ check_url21(p) \/ Answer(p)
     \/ CrashAt(p, {"read"}) \/ CrashMissed(p) \/ CrashEmpty(p)

main22(p) ==
  /\ version = "2-2"
  /\ \/ LaunchProxy(p) \/ AcceptReturn(p) \/ ForkFailBoth(p) \/ Break(p)
     \/ ReadGet(p) \/ ReadOther(p) \/ CrashAt(p, {"read"})

main23(p) ==
  /\ version = "2-3"
  /\ \/ LaunchProxy(p) \/ AcceptGoOn(p) \/ ForkGoOn(p) \/ CloseGoOn(p)
     \/ ReadScan(p) \/ check_url23(p) \/ Answer(p)
     \/ CrashAt(p, {"read"}) \/ CrashMissed(p) \/ CrashEmpty(p)

main24(p) ==
  /\ version = "2-4"
  /\ \/ LaunchProxy(p) \/ AcceptGoOn(p) \/ ForkGoOn(p) \/ CloseGoOn(p)
     \/ ReadGetUrl(p, "resolve") \/ Resolve(p) \/ check_url24(p) \/ Answer(p)
     \/ CrashAt(p, {"read", "resolve"}) \/ CrashEmpty(p)
     \/ Interrupt(p)

mainTest(p) ==
  /\ version = "test"
  /\ \/ LaunchTest(p) \/ AcceptReturn(p) \/ ForkFailBoth(p) \/ CloseGoOn(p)
     \/ ReadGetUrl(p, "mksub") \/ getUrl(p) \/ Exit(p)
     \/ CrashAt(p, {"read"})

mainTest2(p) ==
  /\ version = "test2"
  /\ \/ LaunchProxy(p) \/ AcceptReturn(p) \/ ForkGoOn(p) \/ CloseGoOn(p)
     \/ ReadOnly(p) \/ CrashAt(p, {"read"})

NewConnection ==
  /\ \E c \in Conns : Connect(c)
  /\ UNCHANGED <<diskVars, callVars, lost>>

Next ==
  /\ \/ NewConnection
     \/ \E p \in Procs :
          \/ LoopStep(p) \/ \E q \in Procs : ForkChild(p, q)
          \/ main21(p) \/ main22(p) \/ main23(p) \/ main24(p)
          \/ mainTest(p) \/ mainTest2(p)
          \/ Kill(p) \/ Handler(p)
  /\ UNCHANGED version

Spec == Init /\ [][Next]_vars

-----------------------------------------------------------------------------
(* Properties *)

(* Lines are lost only while the home directory is new: once ~/logfile     *)
(* exists and no call is left that scanned the home directory before, no   *)
(* interleaving truncates logfile.txt again (2-3 apart, which empties it   *)
(* at each request).                                                       *)
Settled ==
  /\ "logfile" \in home
  /\ \A p \in Procs :
       step[p] \in {"mkcache", "mklogdir", "creatlog"} => "logfile" \in saw[p]

LogSettles ==
  [][version # "2-3" /\ Settled => Settled' /\ LogGrows]_vars

(* While nothing fails, a subdirectory without a file is one that some     *)
(* process is about to fill: the window in which other lookups crash.      *)
EmptyOnlyWhileFilled ==
  faults = 0 => \A d \in made : first[d] = NoEntry =>
                  \E p \in Procs : step[p] \in {"lookup", "store"} /\ Subdir(p) = d

(* A Hit is logged only for a URL whose file is there, whichever of the    *)
(* processes that look up and create at the same time comes first.         *)
HitStored ==
  \A i \in 1..Len(log) : log[i].kind = "Hit" => log[i].url \in stored

(* 2-2 and test.c have one acceptor at a time: the parent of 2-2 leaves    *)
(* its loop before its child may enter it, and the children of test.c exit.*)
Accepting == {p \in Procs : life[p] \in {"accept", "fork"}}

OneAcceptor ==
  version \in {"2-2", "test"} => \A p, q \in Accepting : p = q
=============================================================================
