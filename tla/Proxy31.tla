------------------------------- MODULE Proxy31 -------------------------------
(***************************************************************************)
(* The proxy of assignment 3-1 (proxy_cache.c and check_url.c): the tree   *)
(* of acceptors, the semaphore around the critical zone, and check_url.    *)
(*                                                                         *)
(* step[p] is the program counter of a child inside the block of pid == 0; *)
(* check_url's own steps are among its values.  A child serves once: it    *)
(* then is an acceptor, and never enters the block again.                  *)
(***************************************************************************)
EXTENDS Acceptors, SemUndo, CheckUrl

VARIABLES
  origin,   \* each child's connection to the origin server
  alarmed   \* processes with an alarm set

serveVars == <<origin, alarmed>>

vars == <<acceptVars, semVars, diskVars, callVars, serveVars>>

ServeSteps == {"idle", "p", "read", "resolve", "return", "await", "send", "relay",
               "end"} \cup CheckSteps

\* From the return of p() to the call of v().
ZoneSteps == {"read", "resolve", "return"} \cup CheckSteps

InZone(p) == step[p] \in ZoneSteps

TypeOK ==
  /\ AcceptTypeOK
  /\ SemTypeOK
  /\ DiskTypeOK(Lines)
  /\ CallTypeOK(ServeSteps)
  /\ origin \in [Procs -> {"none", "open", "asked"}]
  /\ alarmed \subseteq Procs

Init ==
  /\ AcceptInit
  /\ SemInit
  /\ DiskInit
  /\ CallInit("idle")
  /\ origin = [p \in Procs |-> "none"]
  /\ alarmed = {}

-----------------------------------------------------------------------------
(* main outside the block of pid == 0: Acceptors with the semaphore *)

\* The semaphore is set before the port is bound.
StartServer(p) ==
  /\ Launch(p)
  /\ SemSet(1)
  /\ UNCHANGED <<diskVars, callVars, serveVars>>

\* Every step of the loop but fork leaves the child's state alone.
LoopStep(p) ==
  /\ \/ Bind(p) \/ BindFail(p)
     \/ \E c \in Conns : Accept(p, c)
     \/ AcceptFail(p) \/ ForkFail(p) \/ CloseCli(p)
  /\ UNCHANGED <<semVars, diskVars, callVars, serveVars>>

\* Variant: the child inherits the alarm.
ForkChildAlarmed(p, q) ==
  /\ Fork(p, q)
  /\ Goto(q, "p")
  /\ alarmed' = IF p \in alarmed THEN alarmed \cup {q} ELSE alarmed
  /\ UNCHANGED <<semVars, diskVars, url, saw, key, line, origin>>

\* Neither adjustments of semaphores nor alarms are inherited.
ForkChild(p, q) ==
  /\ Fork(p, q)
  /\ Goto(q, "p")
  /\ UNCHANGED <<semVars, diskVars, url, saw, key, line, serveVars>>

-----------------------------------------------------------------------------
(* The block of pid == 0 *)

Serving(p, s) == At(p, "serve") /\ step[p] = s

\* Variant: the child does not call p().
EnterZoneFreely(p) ==
  /\ Serving(p, "p")
  /\ Goto(p, "read")
  /\ UNCHANGED <<acceptVars, semVars, diskVars, url, saw, key, line, serveVars>>

EnterZone(p) ==
  /\ Serving(p, "p")
  /\ SemP(p)
  /\ Goto(p, "read")
  /\ UNCHANGED <<acceptVars, diskVars, url, saw, key, line, serveVars>>

(* read and the parsing of the method: the request is a GET of u, or of    *)
(* another method, whose URL stays empty.  With no descriptor the buffer   *)
(* holds whatever the stack held.                                          *)
ReadRequest(p, u) ==
  /\ Serving(p, "read")
  /\ url' = [url EXCEPT ![p] = u]
  /\ Goto(p, "resolve")
  /\ UNCHANGED <<acceptVars, semVars, diskVars, saw, key, line, serveVars>>

\* What connect may make of the address get_ip_handler returns: a host that
\* has none leaves haddr unset, and connect fails on what it holds.
Connected == {"none", "open"}

(* socket, get_ip_handler and connect, whose failure is only printed. *)
Resolve(p) ==
  /\ Serving(p, "resolve")
  /\ \E o \in Connected : origin' = [origin EXCEPT ![p] = o]
  /\ Goto(p, "scan")
  /\ UNCHANGED <<acceptVars, semVars, diskVars, url, saw, key, line, alarmed>>

CheckStep(p) ==
  /\ At(p, "serve")
  /\ CheckUrl(p)
  /\ UNCHANGED <<acceptVars, semVars, serveVars>>

LeaveZone(p) ==
  /\ Serving(p, "return")
  /\ SemV(p)
  /\ IF IsHit(p) THEN Goto(p, "send") /\ UNCHANGED alarmed
     ELSE Goto(p, "await") /\ alarmed' = alarmed \cup {p}
  /\ UNCHANGED <<acceptVars, diskVars, url, saw, key, line, origin>>

(* After a MISS the child reads from the origin before it has sent the     *)
(* request.  Only data cancels the alarm; the end of the connection, and   *)
(* an error, leave it set.                                                 *)
Await(p) ==
  /\ Serving(p, "await")
  /\ \/ origin[p] = "open" /\ alarmed' = alarmed \ {p}
     \/ UNCHANGED alarmed
  /\ Goto(p, "send")
  /\ UNCHANGED <<acceptVars, semVars, diskVars, url, saw, key, line, origin>>

SendRequest(p) ==
  /\ Serving(p, "send")
  /\ origin' = [origin EXCEPT ![p] = IF @ = "open" THEN "asked" ELSE @]
  /\ Goto(p, "relay")
  /\ UNCHANGED <<acceptVars, semVars, diskVars, url, saw, key, line, alarmed>>

(* The loop of recv and write ends with the origin's connection, which     *)
(* main never closes; then the buffers are cleared.                        *)
Relay(p) ==
  /\ Serving(p, "relay")
  /\ ServeEnd(p)
  /\ Forget(p)
  /\ origin' = [origin EXCEPT ![p] = "none"]
  /\ UNCHANGED <<semVars, diskVars, alarmed>>

-----------------------------------------------------------------------------
(* Ends of processes and signals *)

\* What every end of p does to the state of its service.
Ends(p) ==
  /\ SemExit(p)
  /\ Forget(p)
  /\ origin' = [origin EXCEPT ![p] = "none"]
  /\ alarmed' = alarmed \ {p}
  /\ UNCHANGED <<home, made, stored, first>>

(* A NULL token, an unset address, or a subdirectory without a file: the   *)
(* child crashes, and the buffer of logfile.txt is lost.                   *)
Crash(p) ==
  /\ \/ Serving(p, "read") \/ Serving(p, "resolve")
     \/ LookupEmpty(p)
  /\ Abort(p)
  /\ Ends(p)
  /\ UNCHANGED log

(* SIGINT: int_handler calls exit, which writes the buffer out. *)
Interrupt(p) ==
  /\ Die(p)
  /\ Ends(p)
  /\ Flush(p)

(* A kill from outside, which no handler sees; a failed socket() ends the  *)
(* child in the same way, for nothing is buffered then.                    *)
Kill(p) ==
  /\ Die(p)
  /\ Ends(p)
  /\ UNCHANGED log

Handler(p) ==
  /\ ChldHandler(p)
  /\ UNCHANGED <<semVars, diskVars, callVars, serveVars>>

\* alrm_handler prints; accept, read and recv are restarted.
AlarmRings(p) ==
  /\ p \in alarmed
  /\ alarmed' = alarmed \ {p}
  /\ UNCHANGED <<acceptVars, semVars, diskVars, callVars, origin>>

-----------------------------------------------------------------------------

Loop(p) == LoopStep(p) \/ \E q \in Procs : ForkChild(p, q)

Serve(p) ==
  \/ \E u \in Urls : ReadRequest(p, u)
  \/ Resolve(p) \/ CheckStep(p) \/ LeaveZone(p)
  \/ Await(p) \/ SendRequest(p) \/ Relay(p)
  \/ Crash(p)

NewConnection ==
  /\ \E c \in Conns : Connect(c)
  /\ UNCHANGED <<semVars, diskVars, callVars, serveVars>>

Next ==
  \/ NewConnection
  \/ \E p \in Procs :
       \/ StartServer(p)
       \/ Loop(p)
       \/ EnterZone(p)
       \/ Serve(p)
       \/ Interrupt(p) \/ Kill(p)
       \/ Handler(p)
       \/ AlarmRings(p)

Spec == Init /\ [][Next]_vars

(* The scheduler runs every process and delivers its signals; a client     *)
(* sends its request or hangs up, and an origin ends its connection in the *)
(* end.  semop serves its waiters in turn, so a process that finds the     *)
(* semaphore free again and again gets it.                                 *)
Fairness ==
  \A p \in Procs :
    /\ WF_vars(Loop(p))
    /\ WF_vars(Serve(p))
    /\ WF_vars(Handler(p))
    /\ SF_vars(EnterZone(p))

FairSpec == Spec /\ Fairness

-----------------------------------------------------------------------------
(* Properties *)

(* At most one process is between p() and v(), whoever crashes, is         *)
(* interrupted or is killed there (SEM_UNDO gives the semaphore back once, *)
(* and only when it was taken).                                            *)
MutualExclusion ==
  \A p, q \in Procs : InZone(p) /\ InZone(q) => p = q

(* semop is the one blocking call that SA_RESTART does not restart: p()    *)
(* would print and exit.  No signal with a handler that returns can reach  *)
(* a process blocked there.                                                *)
SemNeverInterrupted ==
  \A p \in Procs : life[p] = "serve" /\ step[p] = "p" =>
    /\ p \notin sigchld \cup handling \cup alarmed
    /\ \A q \in Procs : parent[q] # p

(* No line that has reached logfile.txt is ever lost or changed. *)
LogAppendOnly == [][LogGrows]_vars

(* A URL whose digest shares its first digits with no other is a MISS      *)
(* once: from then on it is "a previously entered value".  Each failure,   *)
(* such as an interrupt between the writing of the line and the storing of *)
(* the file, costs one more MISS at most.                                  *)
Misses(u) == {i \in 1..Len(log) : log[i] = Miss(u)}

MissedOnce == \A u \in Urls : Cardinality(Misses(u)) <= 1 + faults

(* While nothing fails, every Hit in the log comes after a MISS of the     *)
(* same URL.                                                               *)
HitAfterMiss ==
  faults = 0 => \A j \in 1..Len(log) : log[j].kind = "Hit" =>
                  \E i \in Misses(log[j].url) : i < j

(* While nothing fails, no lookup meets the subdirectory that another      *)
(* process has made and not filled yet: readdir would give no name at all, *)
(* and the loop would read through a null pointer.                         *)
LookupFindsEntry == faults = 0 => \A p \in Procs : ~ LookupEmpty(p)

(* check_url behaves as one atomic step of a cache, the step that finds    *)
(* the file or stores it, though its calls on the file system interleave   *)
(* with all that the other processes do.  A line is in the atomic cache's  *)
(* log from that step on, and in logfile.txt when fclose has written it.   *)
(* Each failure of a process costs one file or one line at most, and only  *)
(* those of the request it fails in: the calls after it find a sound cache.*)
LinearLog ==
  IF \E p \in Procs : step[p] = "flush"
  THEN Append(log, line[CHOOSE p \in Procs : step[p] = "flush"])
  ELSE log

Cache == INSTANCE AtomicCache WITH log <- LinearLog, failed <- faults

ImplementsCache == Cache!Spec
=============================================================================
