------------------------------- MODULE SemUndo -------------------------------
(***************************************************************************)
(* The System V semaphore of proxies 3-1 and 3-2, as the functions p and v *)
(* and the semctl call of main use it: one semaphore, every operation with *)
(* SEM_UNDO.  The kernel keeps, for each process, the adjustment that      *)
(* undoes its operations when it ends.  The operators are conjoined into   *)
(* the actions of the modules that extend this one.                        *)
(***************************************************************************)
EXTENDS Integers, Processes

VARIABLES
  semval,   \* value of the semaphore
  semadj    \* semadj[p]: adjustment the kernel applies when p ends

semVars == <<semval, semadj>>

SemTypeOK == semval \in Nat /\ semadj \in [Procs -> Int]

SemInit == semval = 0 /\ semadj = [p \in Procs |-> 0]

(* semctl(semid, 0, SETVAL, v): sets the value and clears every            *)
(* adjustment, those of the processes of an earlier launch included.       *)
SemSet(v) == semval' = v /\ semadj' = [p \in Procs |-> 0]

\* Variant: -1 without SEM_UNDO.
SemPPlain(p) == semval > 0 /\ semval' = semval - 1 /\ UNCHANGED semadj

\* Variant: IPC_NOWAIT, and the failure on a value of 0 is ignored.
SemPNoWait(p) ==
  IF semval > 0
  THEN semval' = semval - 1 /\ semadj' = [semadj EXCEPT ![p] = @ + 1]
  ELSE UNCHANGED semVars

(* p(): semop of -1 blocks while the value is 0. *)
SemP(p) ==
  /\ semval > 0
  /\ semval' = semval - 1
  /\ semadj' = [semadj EXCEPT ![p] = @ + 1]

(* v(): semop of +1. *)
SemV(p) ==
  /\ semval' = semval + 1
  /\ semadj' = [semadj EXCEPT ![p] = @ - 1]

(* The end of p, however it comes: the kernel applies the adjustment, and  *)
(* stops at 0.                                                             *)
SemExit(p) ==
  /\ semval' = IF semval + semadj[p] < 0 THEN 0 ELSE semval + semadj[p]
  /\ semadj' = [semadj EXCEPT ![p] = 0]
=============================================================================
