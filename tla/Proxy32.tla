------------------------------- MODULE Proxy32 -------------------------------
(***************************************************************************)
(* The proxy of assignment 3-2: a child takes the semaphore, starts a      *)
(* thread that runs check_url on the buffer url, and only then reads the   *)
(* request and copies its URL into that buffer.                            *)
(*                                                                         *)
(* stage[p] is the program counter of the main thread of a child, step[p]  *)
(* that of the thread it starts.  Nothing orders the accesses of the two   *)
(* to url: while strcpy copies a URL, the thread may find part of it.      *)
(* After the join the child alone uses its state; the conversation with    *)
(* the origin server and the alarm, which only prints, are in Answer.      *)
(***************************************************************************)
EXTENDS Acceptors, SemUndo, CheckUrl

CONSTANT Torn   \* part of a URL: what strcpy has copied so far

ASSUME Proxy32Assumption == Torn \in Urls \ {NoUrl}

VARIABLES
  stage,    \* next step of the main thread of each child
  request   \* the URL strcpy is copying

mainVars == <<stage, request>>

vars == <<acceptVars, semVars, diskVars, callVars, mainVars>>

Stages == {"idle", "p", "create", "read", "copy", "copying", "resolve", "join",
           "v", "answer", "end"}

ThreadSteps == {"idle", "return", "end"} \cup CheckSteps

InZone(p) == stage[p] \in {"create", "read", "copy", "copying", "resolve", "join", "v"}

TypeOK ==
  /\ AcceptTypeOK
  /\ SemTypeOK
  /\ DiskTypeOK(Lines)
  /\ CallTypeOK(ThreadSteps)
  /\ stage \in [Procs -> Stages]
  /\ request \in [Procs -> Urls]

Init ==
  /\ AcceptInit
  /\ SemInit
  /\ DiskInit
  /\ CallInit("idle")
  /\ stage = [p \in Procs |-> "idle"]
  /\ request = [p \in Procs |-> NoUrl]

-----------------------------------------------------------------------------
(* main outside the block of pid == 0 *)

StartServer(p) ==
  /\ Launch(p)
  /\ SemSet(1)
  /\ UNCHANGED <<diskVars, callVars, mainVars>>

LoopStep(p) ==
  /\ \/ Bind(p) \/ BindFail(p)
     \/ \E c \in Conns : Accept(p, c)
     \/ AcceptFail(p) \/ ForkFail(p) \/ CloseCli(p)
  /\ UNCHANGED <<semVars, diskVars, callVars, mainVars>>

ForkChild(p, q) ==
  /\ Fork(p, q)
  /\ stage' = [stage EXCEPT ![q] = "p"]
  /\ UNCHANGED <<semVars, diskVars, callVars, request>>

-----------------------------------------------------------------------------
(* The main thread in the block of pid == 0 *)

Serving(p, s) == At(p, "serve") /\ stage[p] = s

GoOn(p, s) == stage' = [stage EXCEPT ![p] = s]

EnterZone(p) ==
  /\ Serving(p, "p")
  /\ SemP(p)
  /\ GoOn(p, "create")
  /\ UNCHANGED <<acceptVars, diskVars, callVars, request>>

(* The error number pthread_create returns is positive, so that its        *)
(* failure goes unseen: there is no thread, and tid is not set.            *)
CreateThread(p) ==
  /\ Serving(p, "create")
  /\ GoOn(p, "read")
  /\ Goto(p, "scan") \/ UNCHANGED step
  /\ UNCHANGED <<acceptVars, semVars, diskVars, url, saw, key, line, request>>

(* read and the method: another method than GET leaves url empty. *)
ReadRequest(p, u) ==
  /\ Serving(p, "read")
  /\ request' = [request EXCEPT ![p] = u]
  /\ GoOn(p, IF u = NoUrl THEN "resolve" ELSE "copy")
  /\ UNCHANGED <<acceptVars, semVars, diskVars, callVars>>

CopyBegin(p) ==
  /\ Serving(p, "copy")
  /\ url' = [url EXCEPT ![p] = Torn]
  /\ GoOn(p, "copying")
  /\ UNCHANGED <<acceptVars, semVars, diskVars, step, saw, key, line, request>>

CopyEnd(p) ==
  /\ Serving(p, "copying")
  /\ url' = [url EXCEPT ![p] = request[p]]
  /\ GoOn(p, "resolve")
  /\ UNCHANGED <<acceptVars, semVars, diskVars, step, saw, key, line, request>>

\* socket, gethostbyname and connect, whose failure is printed.
Resolve(p) ==
  /\ Serving(p, "resolve")
  /\ GoOn(p, "join")
  /\ UNCHANGED <<acceptVars, semVars, diskVars, callVars, request>>

\* Variant: the child does not wait for its thread.
JoinThreadNot(p) ==
  /\ Serving(p, "join")
  /\ GoOn(p, "v")
  /\ UNCHANGED <<acceptVars, semVars, diskVars, callVars, request>>

(* pthread_join stores the address of t_hit into is_hit, so that the       *)
(* child goes the way of a MISS whatever check_url returned; it refuses a  *)
(* tid that is not set, or reads through it (Crash).                       *)
JoinThread(p) ==
  /\ Serving(p, "join")
  /\ step[p] \in {"return", "idle"}
  /\ GoOn(p, "v")
  /\ UNCHANGED <<acceptVars, semVars, diskVars, callVars, request>>

LeaveZone(p) ==
  /\ Serving(p, "v")
  /\ SemV(p)
  /\ GoOn(p, "answer")
  /\ UNCHANGED <<acceptVars, diskVars, callVars, request>>

Answer(p) ==
  /\ Serving(p, "answer")
  /\ ServeEnd(p)
  /\ GoOn(p, "end")
  /\ Forget(p)
  /\ request' = [request EXCEPT ![p] = NoUrl]
  /\ UNCHANGED <<semVars, diskVars>>

-----------------------------------------------------------------------------
(* The thread, ends of processes, signals *)

\* Its own copy of check_url takes the same steps.
check_url(p) == CheckUrl(p)

thread_routine(p) ==
  /\ At(p, "serve")
  /\ check_url(p)
  /\ UNCHANGED <<acceptVars, semVars, mainVars>>

Ends(p) ==
  /\ SemExit(p)
  /\ Forget(p)
  /\ GoOn(p, "end")
  /\ request' = [request EXCEPT ![p] = NoUrl]
  /\ UNCHANGED <<home, made, stored, first>>

(* A NULL token, an unset address or an unset tid in main, or a            *)
(* subdirectory without a file in the thread: the whole process crashes.   *)
Crash(p) ==
  /\ \/ Serving(p, "read") \/ Serving(p, "resolve")
     \/ Serving(p, "join") /\ step[p] = "idle"
     \/ LookupEmpty(p)
  /\ Abort(p)
  /\ Ends(p)
  /\ UNCHANGED log

Interrupt(p) ==
  /\ Die(p)
  /\ Ends(p)
  /\ Flush(p)

Kill(p) ==
  /\ Die(p)
  /\ Ends(p)
  /\ UNCHANGED log

Handler(p) ==
  /\ ChldHandler(p)
  /\ UNCHANGED <<semVars, diskVars, callVars, mainVars>>

-----------------------------------------------------------------------------

Serve(p) ==
  \/ CreateThread(p)
  \/ \E u \in Urls \ {Torn} : ReadRequest(p, u)
  \/ CopyBegin(p) \/ CopyEnd(p) \/ Resolve(p)
  \/ JoinThread(p) \/ LeaveZone(p) \/ Answer(p)
  \/ thread_routine(p)
  \/ Crash(p)

NewConnection ==
  /\ \E c \in Conns : Connect(c)
  /\ UNCHANGED <<semVars, diskVars, callVars, mainVars>>

Next ==
  \/ NewConnection
  \/ \E p \in Procs :
       \/ StartServer(p)
       \/ LoopStep(p)
       \/ \E q \in Procs : ForkChild(p, q)
       \/ EnterZone(p)
       \/ Serve(p)
       \/ Interrupt(p) \/ Kill(p)
       \/ Handler(p)

Spec == Init /\ [][Next]_vars

-----------------------------------------------------------------------------
(* Properties *)

(* The files are only touched inside the critical zone: a thread of        *)
(* check_url runs only while its process holds the semaphore, and no two   *)
(* such threads ever run, whoever crashes, is interrupted or is killed.    *)
Running(p) == step[p] \in CheckSteps

ThreadsExclusive ==
  \A p, q \in Procs : Running(p) => InZone(p) /\ (Running(q) => p = q)

(* No line that has reached logfile.txt is ever lost or changed. *)
LogAppendOnly == [][LogGrows]_vars

(* When the child leaves the critical zone, the URL its thread has looked  *)
(* up and logged is the URL of the request.                                *)
LoggedIsRequested ==
  \A p \in Procs :
    stage[p] = "v" /\ step[p] = "return" => line[p].url = request[p]
=============================================================================
