------------------------------- MODULE Hooks --------------------------------
(***************************************************************************)
(* The kernel modules of the operating system exercises, which all hook    *)
(* system call 336: ftracehooking.c ("ftrace"), process_tracer.c           *)
(* ("tracer") and file_varea.c ("varea"); iotracehooking.c ("iotrace"),    *)
(* which hooks the calls on files and counts those of the traced process   *)
(* in variables of ftrace; and the program test.c.                         *)
(*                                                                         *)
(* An entry of the table of system calls names the module whose function   *)
(* it points to, or "real".  Modules are inserted and removed at any time, *)
(* each read of the table and each write to it is a step, as nothing locks *)
(* it, and a write to a page made read-only faults: the module is stuck    *)
(* where it is.  In a hook of iotrace the test of the pid and the read and *)
(* the write of the counter are steps.  What is printed is left out.       *)
(***************************************************************************)
EXTENDS Naturals, SequencesExt

CONSTANTS
  Procs,   \* the processes, each of which runs test.c once
  NoProc,  \* pid 0
  Rounds,  \* rounds of the loop of test.c, 4
  MaxInserts  \* bound on the insertions of modules

ASSUME HooksAssumption ==
  NoProc \notin Procs /\ Rounds \in Nat /\ MaxInserts \in Nat

Hookers == {"ftrace", "tracer", "varea"}

Modules == Hookers \cup {"iotrace"}

\* The calls iotrace hooks, in the order in which it does.
IoCalls == <<"open", "close", "read", "write", "lseek">>

VARIABLES
  state,   \* of each module
  rw,      \* is the page of the table writable
  entry,   \* of call 336
  saved,   \* real_ftrace and real_process_tracer of each hooker
  order,   \* the hookers whose functions are in the table, oldest first
  hooked,  \* positions in IoCalls of those that have iotrace's functions
  curPid,  \* cur_pid of ftrace
  counts,  \* open_count to lseek_count
  pc,      \* the next call of each process in Script
  inside,  \* how far each process is in a hook of iotrace
  reg,     \* the counter as the process has read it
  base,    \* counts when ftrace began to trace curPid
  missed,  \* calls of curPid since then that met no hook
  crossed, \* calls in whose hooks other processes were at that time
  disordered, \* see InitHook and ExitUnhook
  inserts  \* insertions so far

moduleVars == <<state, rw, entry, saved, order, hooked, disordered, inserts>>
traceVars == <<base, missed, crossed>>
hookVars == <<inside, reg>>
callVars == <<curPid, counts, pc, traceVars, hookVars>>
vars == <<moduleVars, callVars>>

Round == <<"read", "lseek", "write", "lseek">>

\* The calls of test.c: 336 with its pid, those on the file, 336 with zero.
Script ==
  <<"trace", "open">> \o [i \in 1..4 * Rounds |-> Round[1 + ((i - 1) % 4)]]
    \o <<"lseek", "write", "close", "report">>

Io == {IoCalls[i] : i \in DOMAIN IoCalls}

\* How often a call occurs before position n of Script.
Before(n, c) == Cardinality({i \in 1..n - 1 : Script[i] = c})

States == {"out", "coming", "hooking", "in", "going", "stuck"}

\* Has the process passed the test of its pid and not yet counted its call?
Counting == {"tested", "loaded"}

TypeOK ==
  /\ state \in [Modules -> States]
  /\ rw \in BOOLEAN /\ disordered \in BOOLEAN
  /\ entry \in Hookers \cup {"real"}
  /\ saved \in [Hookers -> Hookers \cup {"real"}]
  /\ order \in Seq(Hookers)
  /\ hooked \subseteq DOMAIN IoCalls
  /\ curPid \in Procs \cup {NoProc}
  /\ counts \in [Io -> Nat]
  /\ pc \in [Procs -> 1..Len(Script) + 1]
  /\ inside \in [Procs -> Counting \cup {"no", "lost"}]
  /\ reg \in [Procs -> Nat]
  /\ base \in [Io -> Nat] /\ missed \in [Io -> Nat]
  /\ crossed \subseteq Io
  /\ inserts \in 0..MaxInserts
  /\ hooked # {} => state["iotrace"] # "out" /\ state["ftrace"] # "out"

NoCounts == [c \in Io |-> 0]

Init ==
  /\ state = [m \in Modules |-> "out"]
  /\ rw = FALSE
  /\ entry = "real"
  /\ saved = [m \in Hookers |-> "real"]
  /\ order = <<>>
  /\ hooked = {}
  /\ curPid = NoProc
  /\ counts = NoCounts
  /\ pc = [p \in Procs |-> 1]
  /\ inside = [p \in Procs |-> "no"]
  /\ reg = [p \in Procs |-> 0]
  /\ base = NoCounts /\ missed = NoCounts
  /\ crossed = {}
  /\ disordered = FALSE
  /\ inserts = 0

Becomes(m, s) == state' = [state EXCEPT ![m] = s]

Insert(m) ==
  /\ state[m] = "out"
  /\ inserts < MaxInserts
  /\ inserts' = inserts + 1
  /\ Becomes(m, "coming")

-----------------------------------------------------------------------------
(* hooking_init and hooking_exit of ftrace, tracer and varea *)

\* make_rw; the variables of ftrace are new.
InitRw(m) ==
  /\ m \in Hookers
  /\ Insert(m)
  /\ rw' = TRUE
  /\ IF m = "ftrace"
     THEN curPid' = NoProc /\ counts' = NoCounts
     ELSE UNCHANGED <<curPid, counts>>
  /\ UNCHANGED <<entry, saved, order, hooked, disordered>>
  /\ UNCHANGED <<pc, traceVars, hookVars>>

InitSave(m) ==
  /\ m \in Hookers
  /\ state[m] = "coming"
  /\ saved' = [saved EXCEPT ![m] = entry]
  /\ Becomes(m, "hooking")
  /\ UNCHANGED <<rw, entry, order, hooked, disordered, inserts, callVars>>

\* The entry may be another by now than the one m has saved.
InitHook(m) ==
  /\ m \in Hookers
  /\ state[m] = "hooking"
  /\ rw
  /\ disordered' = (disordered \/ entry # saved[m])
  /\ entry' = m
  /\ order' = Append(order, m)
  /\ Becomes(m, "in")
  /\ UNCHANGED <<rw, saved, hooked, inserts, callVars>>

\* The kernel keeps ftrace while iotrace, which uses its symbols, is there.
MayGo(m) ==
  /\ state[m] = "in"
  /\ m = "ftrace" => state["iotrace"] = "out"

\* The order in which hooks were put, without m.
Without(m) == RemoveAt(order, CHOOSE i \in DOMAIN order : order[i] = m)

\* Variant: the entry is set back to the kernel's own function.
ExitUnhookReal(m) ==
  /\ m \in Hookers
  /\ MayGo(m)
  /\ rw
  /\ entry' = "real"
  /\ order' = Without(m)
  /\ disordered' = (disordered \/ Last(order) # m)
  /\ Becomes(m, "going")
  /\ UNCHANGED <<rw, saved, hooked, inserts, callVars>>

ExitUnhook(m) ==
  /\ m \in Hookers
  /\ MayGo(m)
  /\ rw
  /\ entry' = saved[m]
  /\ order' = Without(m)
  /\ disordered' = (disordered \/ Last(order) # m)
  /\ Becomes(m, "going")
  /\ UNCHANGED <<rw, saved, hooked, inserts, callVars>>

\* make_ro, whoever else has hooks in the table, and the module is gone.
ExitRo(m) ==
  /\ m \in Hookers
  /\ state[m] = "going"
  /\ rw' = FALSE
  /\ Becomes(m, "out")
  /\ saved' = [saved EXCEPT ![m] = "real"]
  /\ UNCHANGED <<entry, order, hooked, disordered, inserts, callVars>>

-----------------------------------------------------------------------------
(* hooking_init and hooking_exit of iotrace, which write one entry after   *)
(* the other and leave the page as it is                                   *)

IoInit ==
  /\ Insert("iotrace")
  /\ state["ftrace"] = "in"
  /\ UNCHANGED <<rw, entry, saved, order, hooked, disordered, callVars>>

IoHook ==
  /\ state["iotrace"] = "coming"
  /\ rw
  /\ hooked' = hooked \cup {Cardinality(hooked) + 1}
  /\ Becomes("iotrace", IF hooked' = DOMAIN IoCalls THEN "in" ELSE "coming")
  /\ UNCHANGED <<rw, entry, saved, order, disordered, inserts, callVars>>

\* The functions of iotrace are freed: whoever is in one of them is lost.
Frees ==
  inside' = [p \in Procs |-> IF inside[p] \in Counting THEN "lost" ELSE inside[p]]

\* Variant: the entry of lseek is left.
IoUnhookFour ==
  /\ state["iotrace"] \in {"in", "going"}
  /\ rw
  /\ hooked' = hooked \ {Len(IoCalls) + 1 - Cardinality(hooked)}
  /\ Becomes("iotrace", IF Cardinality(hooked') = 1 THEN "out" ELSE "going")
  /\ IF Cardinality(hooked') = 1 THEN Frees ELSE UNCHANGED inside
  /\ UNCHANGED <<rw, entry, saved, order, disordered, inserts>>
  /\ UNCHANGED <<curPid, counts, pc, reg, traceVars>>

\* The entries are set back from the first on.
IoUnhook ==
  /\ state["iotrace"] \in {"in", "going"}
  /\ rw
  /\ hooked' = hooked \ {Len(IoCalls) + 1 - Cardinality(hooked)}
  /\ Becomes("iotrace", IF hooked' = {} THEN "out" ELSE "going")
  /\ IF hooked' = {} THEN Frees ELSE UNCHANGED inside
  /\ UNCHANGED <<rw, entry, saved, order, disordered, inserts>>
  /\ UNCHANGED <<curPid, counts, pc, reg, traceVars>>

\* A write to the table when its page is read-only.
Fault(m) ==
  /\ ~rw
  /\ \/ state[m] = "hooking"
     \/ MayGo(m)
     \/ m = "iotrace" /\ state[m] \in {"coming", "going"}
  /\ Becomes(m, "stuck")
  /\ UNCHANGED <<rw, entry, saved, order, hooked, disordered, inserts, callVars>>

-----------------------------------------------------------------------------
(* The calls of the processes *)

HasHook(c) == \E i \in hooked : IoCalls[i] = c

\* A call made: p goes on to the next.
Continues(p) == pc' = [pc EXCEPT ![p] = @ + 1]

\* p has reported, or is killed by a fault in the kernel.
Ends(p) == pc' = [pc EXCEPT ![p] = Len(Script) + 1]

NextIs(p, c) == pc[p] <= Len(Script) /\ Script[pc[p]] = c

\* Call 336 of p, with its pid or with zero, leads to the function of m.
Call336(p, m) ==
  /\ entry = m
  /\ NextIs(p, "trace") \/ NextIs(p, "report")
  /\ UNCHANGED <<moduleVars, counts, hookVars>>

\* The call returns and changes nothing else; after the second test.c ends.
Returns(p) ==
  /\ UNCHANGED <<curPid, traceVars>>
  /\ \/ NextIs(p, "trace") /\ Continues(p)
     \/ NextIs(p, "report") /\ Ends(p)

\* No module hooks the call, or the one that did is gone.
NoHook(p) == Call336(p, "real") /\ Returns(p)

Dangling(p) ==
  \E m \in Hookers :
    /\ Call336(p, m)
    /\ state[m] = "out"
    /\ Ends(p)
    /\ UNCHANGED <<curPid, traceVars>>

\* With zero, the counters are only printed.
ftrace(p) ==
  /\ Call336(p, "ftrace")
  /\ state["ftrace"] # "out"
  /\ \/ /\ NextIs(p, "trace")
        /\ curPid' = p
        /\ base' = counts
        /\ missed' = NoCounts
        /\ crossed' = {Script[pc[q]] : q \in {q \in Procs : inside[q] \in Counting}}
        /\ Continues(p)
     \/ NextIs(p, "report") /\ Ends(p) /\ UNCHANGED <<curPid, traceVars>>

\* The process and its relatives are printed, if there is one.
process_tracer(p) ==
  /\ Call336(p, "tracer")
  /\ state["tracer"] # "out"
  /\ Returns(p)

(* The areas of the process are printed.  With zero there is no process,   *)
(* and the call follows the null pointer and kills p, which ends here in   *)
(* any case.                                                               *)
file_varea(p) ==
  /\ Call336(p, "varea")
  /\ state["varea"] # "out"
  /\ Returns(p)

\* Variant: the calls of every process are counted.
CountsAny(p, c) == HasHook(c)

\* Does the hook of c count a call of p?
Counts(p, c) == HasHook(c) /\ curPid = p

\* A call that finds no hook, or a hook that has another pid.
PlainCall(p, c) ==
  /\ NextIs(p, c) /\ inside[p] = "no"
  /\ ~Counts(p, c)
  /\ missed' = IF curPid = p THEN [missed EXCEPT ![c] = @ + 1] ELSE missed
  /\ Continues(p)
  /\ UNCHANGED <<moduleVars, curPid, counts, base, crossed, hookVars>>

\* cur_pid == get_cur_pid()
TestCall(p, c) ==
  /\ NextIs(p, c) /\ inside[p] = "no"
  /\ Counts(p, c)
  /\ inside' = [inside EXCEPT ![p] = "tested"]
  /\ UNCHANGED <<moduleVars, curPid, counts, pc, reg, traceVars>>

\* The increment reads the counter
LoadCall(p, c) ==
  /\ NextIs(p, c) /\ inside[p] = "tested"
  /\ reg' = [reg EXCEPT ![p] = counts[c]]
  /\ inside' = [inside EXCEPT ![p] = "loaded"]
  /\ UNCHANGED <<moduleVars, curPid, counts, pc, traceVars>>

\* and writes it, and the real call is made.
StoreCall(p, c) ==
  /\ NextIs(p, c) /\ inside[p] = "loaded"
  /\ counts' = [counts EXCEPT ![c] = reg[p] + 1]
  /\ reg' = [reg EXCEPT ![p] = 0]
  /\ inside' = [inside EXCEPT ![p] = "no"]
  /\ Continues(p)
  /\ UNCHANGED <<moduleVars, curPid, traceVars>>

\* The next instruction of a function that is gone faults.
LostCall(p) ==
  /\ inside[p] = "lost"
  /\ reg' = [reg EXCEPT ![p] = 0]
  /\ inside' = [inside EXCEPT ![p] = "no"]
  /\ Ends(p)
  /\ UNCHANGED <<moduleVars, curPid, counts, traceVars>>

-----------------------------------------------------------------------------

Next ==
  \/ \E m \in Hookers :
       InitRw(m) \/ InitSave(m) \/ InitHook(m) \/ ExitUnhook(m) \/ ExitRo(m)
  \/ IoInit \/ IoHook \/ IoUnhook
  \/ \E m \in Modules : Fault(m)
  \/ \E p \in Procs :
       \/ NoHook(p) \/ Dangling(p)
       \/ ftrace(p) \/ process_tracer(p) \/ file_varea(p)
       \/ \E c \in Io :
            PlainCall(p, c) \/ TestCall(p, c) \/ LoadCall(p, c) \/ StoreCall(p, c)
       \/ LostCall(p)

Spec == Init /\ [][Next]_vars

-----------------------------------------------------------------------------
(* Properties *)

(* As long as every module replaces the entry that it has saved, no other  *)
(* having written it between the two steps of its insertion, and they are  *)
(* removed in the reverse order, call 336 goes to the newest of them, each *)
(* gives the entry back to the one before it, and no entry points into a   *)
(* module that is gone, wherever the read-only page stops one of them.     *)
ChainSound ==
  ~disordered =>
    LET at(i) == IF i = 0 THEN "real" ELSE order[i]
    IN /\ entry = at(Len(order))
       /\ \A i \in DOMAIN order :
            saved[order[i]] = at(i - 1) /\ state[order[i]] \in {"in", "stuck"}

(* While a process is the traced one, the counters have grown by the calls *)
(* it has made, less those that met no hook: no call of another process    *)
(* that begins then is counted, none of its own is lost, and the counters  *)
(* are never reset.  Out of this are the counters of the calls in whose    *)
(* hooks other processes were when it became the traced one: these may     *)
(* still add a call, or set the counter back to what they have read.       *)
CountsOwnCalls ==
  curPid # NoProc /\ pc[curPid] <= Len(Script) =>
    \A c \in Io \ crossed :
      counts[c] + missed[c] = base[c] + Before(pc[curPid], c)
=============================================================================
