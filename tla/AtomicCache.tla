----------------------------- MODULE AtomicCache -----------------------------
(***************************************************************************)
(* What check_url promises, whose calls do not overlap: each request is    *)
(* decided, stored and logged in one step.  It is a Hit if its file is the *)
(* first of its subdirectory, and a MISS that stores the file otherwise.   *)
(*                                                                         *)
(* When something fails, of one request the file or the line is lost.      *)
(***************************************************************************)
EXTENDS SequencesExt

CONSTANTS
  Urls,      \* URLs of requests
  Dirs,      \* subdirectories of the cache
  DirOf,     \* the subdirectory of each URL
  NoEntry    \* an empty subdirectory, or none

VARIABLES
  log, stored, first,
  failed     \* number of failures

cacheVars == <<log, stored, first, failed>>

Record(k, u) == log' = Append(log, [kind |-> k, url |-> u])

Init ==
  /\ log = <<>>
  /\ stored = {}
  /\ first = [d \in Dirs |-> NoEntry]
  /\ failed = 0

HitRequest(u) ==
  /\ first[DirOf[u]] = u
  /\ Record("Hit", u)
  /\ UNCHANGED <<stored, first, failed>>

MissRequest(u) ==
  /\ first[DirOf[u]] # u
  /\ Record("MISS", u)
  /\ stored' = stored \cup {u}
  /\ \/ u \notin stored /\ first' = [first EXCEPT ![DirOf[u]] = u]
     \/ first[DirOf[u]] # NoEntry /\ UNCHANGED first
  /\ UNCHANGED failed

\* A MISS is logged, and its file is not stored.
LoseFile == \E u \in Urls : first[DirOf[u]] # u /\ Record("MISS", u)

\* The last request is not in the log.
LoseLine == log # <<>> /\ log' = Front(log)

Failure ==
  /\ failed' = failed + 1
  /\ UNCHANGED log \/ LoseFile \/ LoseLine
  /\ UNCHANGED <<stored, first>>

Next ==
  \/ \E u \in Urls : HitRequest(u) \/ MissRequest(u)
  \/ Failure

Spec == Init /\ [][Next]_cacheVars
=============================================================================
