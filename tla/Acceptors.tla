------------------------------ MODULE Acceptors ------------------------------
(***************************************************************************)
(* The process tree of the proxies (main of proxy_cache.c, 2-4, 3-1, 3-2). *)
(*                                                                         *)
(* A launched process binds the port and loops: accept, fork, close.  The  *)
(* child serves the connection, closes it and falls through to the same    *)
(* loop, so that every child becomes one more acceptor on the inherited    *)
(* listening socket.  Deaths raise SIGCHLD in the parent, whose handler    *)
(* reaps with waitpid(WNOHANG) in a loop.  Standard signals do not queue.  *)
(*                                                                         *)
(* Serving is one abstract phase here; the modules of the proxies give its *)
(* steps.  Procs is the process table: a fork that finds it full fails.    *)
(***************************************************************************)
EXTENDS Processes

CONSTANTS
  Roots,      \* those the shell may launch
  Conns,      \* client connections
  NoProc,     \* parent of a process the proxy did not fork (shell, init)
  NoConn,     \* no descriptor of a connection open
  MaxFaults   \* bound on failed system calls, interrupts and kills

ASSUME AcceptorsAssumption ==
  /\ Roots \subseteq Procs
  /\ NoProc \notin Procs
  /\ NoConn \notin Conns
  /\ MaxFaults \in Nat

VARIABLES
  life,      \* phase of each process
  parent,    \* parent of each process
  servers,   \* processes with the listening socket open
  cli,       \* connection whose descriptor the process has open
  conn,      \* each connection as its client sees it
  sigchld,   \* processes with SIGCHLD pending
  handling,  \* processes inside chld_handler
  faults     \* failures so far

acceptVars == <<life, parent, servers, cli, conn, sigchld, handling, faults>>

Phases == {"unborn", "boot", "accept", "fork", "serve", "close", "zombie", "gone"}

Alive(p) == life[p] \notin {"unborn", "zombie", "gone"}

ZombiesOf(p) == {z \in Procs : life[z] = "zombie" /\ parent[z] = p}

(* p loses the listening socket.  When the last process loses it, the      *)
(* kernel resets the connections still queued.                             *)
Unlisten(p) ==
  /\ servers' = servers \ {p}
  /\ conn' = [c \in Conns |->
               IF servers' = {} /\ conn[c] = "queued" THEN "reset" ELSE conn[c]]

\* The main flow of p is in phase ph and no handler runs on top of it.
At(p, ph) == life[p] = ph /\ p \notin handling

AcceptTypeOK ==
  /\ life \in [Procs -> Phases]
  /\ parent \in [Procs -> Procs \cup {NoProc}]
  /\ servers \subseteq Procs
  /\ cli \in [Procs -> Conns \cup {NoConn}]
  /\ conn \in [Conns -> {"new", "queued", "taken", "reset"}]
  /\ sigchld \subseteq Procs
  /\ handling \subseteq Procs
  /\ faults \in 0..MaxFaults

AcceptInit ==
  /\ life = [p \in Procs |-> "unborn"]
  /\ parent = [p \in Procs |-> NoProc]
  /\ servers = {}
  /\ cli = [p \in Procs |-> NoConn]
  /\ conn = [c \in Conns |-> "new"]
  /\ sigchld = {}
  /\ handling = {}
  /\ faults = 0

-----------------------------------------------------------------------------
(* The clients and the shell *)

\* A client's connection enters the queue of the listening socket.
Connect(c) ==
  /\ conn[c] = "new"
  /\ servers # {}
  /\ conn' = [conn EXCEPT ![c] = "queued"]
  /\ UNCHANGED <<life, parent, servers, cli, sigchld, handling, faults>>

\* main up to the creation of the semaphore.
Launch(p) ==
  /\ p \in Roots
  /\ life[p] = "unborn"
  /\ life' = [life EXCEPT ![p] = "boot"]
  /\ UNCHANGED <<parent, servers, cli, conn, sigchld, handling, faults>>

-----------------------------------------------------------------------------
(* main *)

Bind(p) ==
  /\ At(p, "boot")
  /\ servers = {}
  /\ servers' = {p}
  /\ life' = [life EXCEPT ![p] = "accept"]
  /\ UNCHANGED <<parent, cli, conn, sigchld, handling, faults>>

\* The port is taken: main closes its socket and returns.
BindFail(p) ==
  /\ At(p, "boot")
  /\ servers # {}
  /\ life' = [life EXCEPT ![p] = "gone"]
  /\ UNCHANGED <<parent, servers, cli, conn, sigchld, handling, faults>>

Accept(p, c) ==
  /\ At(p, "accept")
  /\ p \in servers
  /\ conn[c] = "queued"
  /\ conn' = [conn EXCEPT ![c] = "taken"]
  /\ cli' = [cli EXCEPT ![p] = c]
  /\ life' = [life EXCEPT ![p] = "fork"]
  /\ UNCHANGED <<parent, servers, sigchld, handling, faults>>

(* accept fails, for want of descriptors or because an earlier failure     *)
(* closed serv_fd: main prints, closes serv_fd and forks all the same.     *)
AcceptFail(p) ==
  /\ At(p, "accept")
  /\ \/ p \in servers /\ faults < MaxFaults /\ faults' = faults + 1
     \/ p \notin servers /\ UNCHANGED faults
  /\ Unlisten(p)
  /\ life' = [life EXCEPT ![p] = "fork"]
  /\ UNCHANGED <<parent, cli, sigchld, handling>>

\* The child q inherits the descriptors, not the pending signals.
Fork(p, q) ==
  /\ At(p, "fork")
  /\ q \notin Roots
  /\ life[q] = "unborn"
  /\ life' = [life EXCEPT ![p] = "close", ![q] = "serve"]
  /\ parent' = [parent EXCEPT ![q] = p]
  /\ servers' = IF p \in servers THEN servers \cup {q} ELSE servers
  /\ cli' = [cli EXCEPT ![q] = cli[p]]
  /\ UNCHANGED <<conn, sigchld, handling, faults>>

TableFull == \A q \in Procs \ Roots : life[q] # "unborn"

ForkFail(p) ==
  /\ At(p, "fork")
  /\ \/ faults < MaxFaults /\ faults' = faults + 1
     \/ TableFull /\ UNCHANGED faults
  /\ life' = [life EXCEPT ![p] = "close"]
  /\ UNCHANGED <<parent, servers, cli, conn, sigchld, handling>>

\* The child has served: it leaves the block of pid == 0.
ServeEnd(p) ==
  /\ At(p, "serve")
  /\ life' = [life EXCEPT ![p] = "close"]
  /\ UNCHANGED <<parent, servers, cli, conn, sigchld, handling, faults>>

\* Variant: the parent keeps its copy of cli_fd.
CloseCliNot(p) ==
  /\ At(p, "close")
  /\ life' = [life EXCEPT ![p] = "accept"]
  /\ UNCHANGED <<parent, servers, cli, conn, sigchld, handling, faults>>

\* The last statement of the loop, for parent and child alike.
CloseCli(p) ==
  /\ At(p, "close")
  /\ cli' = [cli EXCEPT ![p] = NoConn]
  /\ life' = [life EXCEPT ![p] = "accept"]
  /\ UNCHANGED <<parent, servers, conn, sigchld, handling, faults>>

-----------------------------------------------------------------------------
(* Ends of processes, and the handler of SIGCHLD *)

\* The parent of p still runs, and will hear of its end.
Watched(p) == parent[p] # NoProc /\ Alive(parent[p])

\* The process that SIGCHLD reaches when p ends.
Signalled(p) == IF Watched(p) THEN {parent[p]} ELSE {}

(* p ends.  The kernel closes its descriptors, signals its parent, and     *)
(* gives its children to init, which reaps those that have ended.          *)
EndOf(p) ==
  /\ life' = [q \in Procs |->
               IF q = p THEN IF Watched(p) THEN "zombie" ELSE "gone"
               ELSE IF q \in ZombiesOf(p) THEN "gone" ELSE life[q]]
  /\ parent' = [q \in Procs |-> IF parent[q] = p THEN NoProc ELSE parent[q]]
  /\ Unlisten(p)
  /\ cli' = [cli EXCEPT ![p] = NoConn]
  /\ sigchld' = (sigchld \ {p}) \cup Signalled(p)
  /\ handling' = handling \ {p}

\* A serving child ends by itself: a crash, or the return of main.
Abort(p) ==
  /\ At(p, "serve")
  /\ EndOf(p)
  /\ UNCHANGED faults

\* SIGINT (int_handler exits) or a kill from outside, at any moment.
Die(p) ==
  /\ Alive(p)
  /\ faults < MaxFaults
  /\ faults' = faults + 1
  /\ EndOf(p)

SigEnter(p) ==
  /\ Alive(p)
  /\ p \in sigchld \ handling
  /\ sigchld' = sigchld \ {p}
  /\ handling' = handling \cup {p}
  /\ UNCHANGED <<life, parent, servers, cli, conn, faults>>

\* Variant: one waitpid for each signal.
SigReapOnce(p) ==
  /\ p \in handling
  /\ \E z \in ZombiesOf(p) : life' = [life EXCEPT ![z] = "gone"]
  /\ handling' = handling \ {p}
  /\ UNCHANGED <<parent, servers, cli, conn, sigchld, faults>>

\* One round of the loop: waitpid returned a child.
SigReap(p) ==
  /\ p \in handling
  /\ \E z \in ZombiesOf(p) : life' = [life EXCEPT ![z] = "gone"]
  /\ UNCHANGED <<parent, servers, cli, conn, sigchld, handling, faults>>

\* waitpid found no child that has ended.
SigReturn(p) ==
  /\ p \in handling
  /\ ZombiesOf(p) = {}
  /\ handling' = handling \ {p}
  /\ UNCHANGED <<life, parent, servers, cli, conn, sigchld, faults>>

-----------------------------------------------------------------------------

ChldHandler(p) == SigEnter(p) \/ SigReap(p) \/ SigReturn(p)

AcceptLoop(p) ==
  \/ Bind(p) \/ BindFail(p)
  \/ \E c \in Conns : Accept(p, c)
  \/ AcceptFail(p)
  \/ \E q \in Procs : Fork(p, q)
  \/ ForkFail(p)
  \/ CloseCli(p)

AcceptNext ==
  \/ \E c \in Conns : Connect(c)
  \/ \E p \in Procs :
       \/ Launch(p)
       \/ AcceptLoop(p)
       \/ ServeEnd(p) \/ Abort(p) \/ Die(p)
       \/ ChldHandler(p)

AcceptSpec == AcceptInit /\ [][AcceptNext]_acceptVars

-----------------------------------------------------------------------------
(* Properties *)

(* No zombie is forgotten: the parent of every ended child lives and has   *)
(* SIGCHLD pending or its handler running, though several deaths may have  *)
(* raised a single signal (chld_handler loops for that reason).            *)
NoLostZombie ==
  \A z \in Procs : life[z] = "zombie" =>
    /\ parent[z] \in Procs
    /\ Alive(parent[z])
    /\ parent[z] \in sigchld \cup handling

(* Whatever calls fail and whoever dies, a connection is held by one       *)
(* process, or by an acceptor about to close it and the child it forked:   *)
(* no two processes serve it, and no descriptor of it is left open in an   *)
(* acceptor that waits for the next connection.                            *)
Holders(c) == {p \in Procs : cli[p] = c}

ForkedFor(p, q) ==
  /\ parent[q] = p
  /\ life[p] = "close"
  /\ life[q] \in {"serve", "close"}

OneServer ==
  \A c \in Conns : \A p \in Holders(c) :
    /\ life[p] \in {"fork", "serve", "close"}
    /\ \A q \in Holders(c) \ {p} : ForkedFor(p, q) \/ ForkedFor(q, p)

(* Every zombie is reaped in the end. *)
ZombiesReaped ==
  \A p \in Procs : life[p] = "zombie" ~> life[p] = "gone"

(* An accepted connection is closed by every process in the end, also when *)
(* fork fails, when accept fails in some process, or when processes die.   *)
AcceptedClosed ==
  \A c \in Conns : conn[c] = "taken" ~> (conn[c] = "taken" /\ Holders(c) = {})
=============================================================================
