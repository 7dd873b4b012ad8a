---------------------------- MODULE HooksProofs -----------------------------
(***************************************************************************)
(* Proofs about the modules that hook system calls, for any number of      *)
(* processes, rounds of test.c and insertions.                             *)
(***************************************************************************)
EXTENDS Hooks, FiniteSetTheorems, SequenceTheorems, TLAPS

(* A sequence of one element put behind another, element by element. *)
LEMMA Joined ==
  ASSUME NEW S, NEW s \in Seq(S), NEW t \in Seq(S)
  PROVE  /\ s \o t \in Seq(S) /\ Len(s \o t) = Len(s) + Len(t)
         /\ Len(s) >= 1 => (s \o t)[1] = s[1]
         /\ \A i \in 1..Len(s) + Len(t) :
              (s \o t)[i] = IF i <= Len(s) THEN s[i] ELSE t[i - Len(s)]
OBVIOUS

(* The program test.c is a sequence of calls. *)
LEMMA ScriptIsSeq ==
  /\ Len(Script) \in Nat
  /\ Len(Script) = 4 * Rounds + 6
  /\ DOMAIN Script = 1..Len(Script)
  /\ Script[1] = "trace"
  /\ \A i \in 1..Len(Script) :
       Script[i] \in {"trace", "report", "open", "close", "read", "write", "lseek"}
<1> DEFINE Calls == {"trace", "report", "open", "close", "read", "write", "lseek"}
           Loop == [i \in 1..4 * Rounds |-> Round[1 + ((i - 1) % 4)]]
           Start == <<"trace", "open">>
           End == <<"lseek", "write", "close", "report">>
<1>1. \A i \in 1..4 * Rounds : 1 + ((i - 1) % 4) \in 1..4
  BY HooksAssumption
<1>2. Loop \in Seq(Calls) /\ Len(Loop) = 4 * Rounds
  <2>1. \A i \in 1..4 : Round[i] \in Calls
    BY DEF Round
  <2>2. Loop \in [1..4 * Rounds -> Calls]
    BY <1>1, <2>1
  <2> QED BY <2>2, HooksAssumption
<1>3. Start \in Seq(Calls) /\ Len(Start) = 2 /\ Start[1] = "trace"
  OBVIOUS
<1>4. End \in Seq(Calls) /\ Len(End) = 4
  OBVIOUS
<1> HIDE DEF Loop, Start, End, Calls
<1>5. Script = Start \o Loop \o End
  BY DEF Script, Loop, Start, End
<1>6. Script \in Seq(Calls) /\ Len(Script) = 4 * Rounds + 6 /\ Script[1] = "trace"
  <2>1. /\ Start \o Loop \in Seq(Calls) /\ Len(Start \o Loop) = 2 + 4 * Rounds
        /\ (Start \o Loop)[1] = "trace"
    <3>1. Len(Start) >= 1 /\ Start \in Seq(Calls) /\ Loop \in Seq(Calls)
      BY <1>2, <1>3
    <3>2. /\ Start \o Loop \in Seq(Calls) /\ Len(Start \o Loop) = Len(Start) + Len(Loop)
          /\ (Start \o Loop)[1] = Start[1]
      BY <3>1, Joined
    <3> QED BY <1>2, <1>3, <3>2
  <2>2. /\ Start \o Loop \o End \in Seq(Calls)
        /\ Len(Start \o Loop \o End) = 2 + 4 * Rounds + 4
        /\ (Start \o Loop \o End)[1] = "trace"
    <3> DEFINE Most == Start \o Loop
    <3>1. Len(Most) >= 1 /\ Most \in Seq(Calls) /\ End \in Seq(Calls)
      BY <1>4, <2>1, HooksAssumption
    <3> HIDE DEF Most
    <3>2. /\ Most \o End \in Seq(Calls) /\ Len(Most \o End) = Len(Most) + Len(End)
          /\ (Most \o End)[1] = Most[1]
      BY <3>1, Joined
    <3> QED BY <1>4, <2>1, <3>2 DEF Most
  <2> QED BY <1>5, <2>2, HooksAssumption
<1> QED BY <1>6, HooksAssumption DEF Calls

(* Only the first call is 336 with a pid. *)
LEMMA TraceIsFirst == \A i \in 1..Len(Script) : Script[i] = "trace" => i = 1
<1> DEFINE Rest == {"report", "open", "close", "read", "write", "lseek"}
           Loop == [i \in 1..4 * Rounds |-> Round[1 + ((i - 1) % 4)]]
           End == <<"lseek", "write", "close", "report">>
<1>1. Loop \in Seq(Rest)
  <2>1. \A i \in 1..4 : Round[i] \in Rest
    BY DEF Round
  <2>2. \A i \in 1..4 * Rounds : 1 + ((i - 1) % 4) \in 1..4
    BY HooksAssumption
  <2>3. Loop \in [1..4 * Rounds -> Rest]
    BY <2>1, <2>2
  <2> QED BY <2>3, HooksAssumption
<1>2. End \in Seq(Rest)
  OBVIOUS
<1>3. Script = <<"trace", "open">> \o Loop \o End
  BY DEF Script
<1> HIDE DEF Loop, End, Rest
<1> DEFINE Last2 == Loop \o End
<1>4. Last2 \in Seq(Rest)
  BY <1>1, <1>2, Joined
<1>5. Script = <<"trace", "open">> \o Last2
  <2> DEFINE All == Rest \cup {"trace"}
             Start == <<"trace", "open">>
  <2>1. Start \in Seq(All)
    BY DEF Rest
  <2>2. Loop \in Seq(All) /\ End \in Seq(All)
    BY <1>1, <1>2
  <2> HIDE DEF All, Start
  <2>3. (Start \o Loop) \o End = Start \o (Loop \o End)
    BY ONLY <2>1, <2>2, ConcatAssociative
  <2> QED BY <1>3, <2>3 DEF Start, Last2
<1> HIDE DEF Last2
<1>6. \A i \in DOMAIN Last2 : Last2[i] # "trace"
  BY <1>4 DEF Rest
<1>7. /\ Len(Script) = 2 + Len(Last2) /\ Len(Last2) \in Nat
      /\ DOMAIN Last2 = 1..Len(Last2)
      /\ Script[2] = "open" /\ \A i \in 3..Len(Script) : Script[i] = Last2[i - 2]
  BY <1>4, <1>5
<1> QED BY <1>6, <1>7

-----------------------------------------------------------------------------
(* The inductive invariant *)

(* iotrace keeps ftrace, and has hooked the first calls or still hooks the *)
(* last, according to where it is.                                         *)
IoInv ==
  /\ state["iotrace"] # "out" => state["ftrace"] = "in"
  /\ state["iotrace"] = "out" => hooked = {}
  /\ state["iotrace"] = "coming" => \E k \in 0..4 : hooked = 1..k
  /\ state["iotrace"] = "in" => hooked = 1..5
  /\ state["iotrace"] = "going" => \E k \in 1..5 : hooked = k..5

(* Who is in the table is there once, and loaded. *)
OrderInv ==
  /\ \A i, j \in DOMAIN order : order[i] = order[j] => i = j
  /\ \A i \in DOMAIN order : state[order[i]] \in {"in", "stuck"}
  /\ \A m \in Hookers : state[m] = "in" => \E i \in DOMAIN order : order[i] = m

(* Who is in a hook is at the call it is the hook of.  Before the call is  *)
(* counted iotrace is loaded, and if the process is not the traced one the *)
(* call is crossed; if it is, nobody else writes the counter it has read.  *)
InsideInv ==
  \A q \in Procs :
    /\ inside[q] # "no" => pc[q] <= Len(Script) /\ Script[pc[q]] \in Io
    /\ inside[q] \in Counting =>
         /\ state["iotrace"] # "out" /\ curPid # NoProc
         /\ q = curPid \/ Script[pc[q]] \in crossed
    /\ inside[q] = "loaded" /\ q = curPid /\ Script[pc[q]] \notin crossed =>
         reg[q] = counts[Script[pc[q]]]

Inv == TypeOK /\ IoInv /\ OrderInv /\ ChainSound /\ InsideInv /\ CountsOwnCalls

(* The five entries that iotracehooking hooks. *)
LEMMA IoCallsAre ==
  /\ DOMAIN IoCalls = 1..5
  /\ Io = {"open", "close", "read", "write", "lseek"}
<1>1. /\ DOMAIN IoCalls = 1..5
      /\ IoCalls[1] = "open" /\ IoCalls[2] = "close" /\ IoCalls[3] = "read"
      /\ IoCalls[4] = "write" /\ IoCalls[5] = "lseek"
  BY DEF IoCalls
<1>2. 1..5 = {1, 2, 3, 4, 5}
  OBVIOUS
<1> QED BY <1>1, <1>2 DEF Io

(* One call more. *)
LEMMA BeforeNext ==
  ASSUME NEW n \in Nat \ {0}, NEW c
  PROVE  /\ Before(n, c) \in Nat
         /\ Before(n + 1, c) = Before(n, c) + (IF Script[n] = c THEN 1 ELSE 0)
<1> DEFINE S(k) == {i \in 1..k - 1 : Script[i] = c}
<1>1. IsFiniteSet(S(n)) /\ Cardinality(S(n)) \in Nat
  <2>1. IsFiniteSet(1..n - 1)
    BY FS_Interval
  <2> QED BY <2>1, FS_Subset, FS_CardinalityType
<1>2. CASE Script[n] = c
  <2>1. S(n + 1) = S(n) \cup {n} /\ n \notin S(n)
    BY <1>2
  <2> QED BY <1>1, <1>2, <2>1, FS_AddElement DEF Before
<1>3. CASE Script[n] # c
  <2>1. S(n + 1) = S(n)
    BY <1>3
  <2> QED BY <1>1, <1>3, <2>1 DEF Before
<1> QED BY <1>2, <1>3

(* No module is inserted at first and no call was made. *)
LEMMA InitInv == Init => Inv
<1> SUFFICES ASSUME Init PROVE Inv
  OBVIOUS
<1> USE HooksAssumption DEF Init
<1>1. TypeOK
  <2>1. \A p \in Procs : pc[p] = 1 /\ 1 \in 1..Len(Script) + 1
    BY ScriptIsSeq
  <2>2. pc \in [Procs -> 1..Len(Script) + 1]
    BY <2>1
  <2>3. state \in [Modules -> States]
    BY DEF States
  <2>4. /\ counts \in [Io -> Nat] /\ base \in [Io -> Nat] /\ missed \in [Io -> Nat]
        /\ inside \in [Procs -> Counting \cup {"no", "lost"}]
        /\ reg \in [Procs -> Nat] /\ crossed \subseteq Io
    BY DEF NoCounts
  <2>5. order \in Seq(Hookers) /\ saved \in [Hookers -> Hookers \cup {"real"}]
    OBVIOUS
  <2>6. rw \in BOOLEAN /\ disordered \in BOOLEAN
    OBVIOUS
  <2>7. /\ entry \in Hookers \cup {"real"} /\ hooked \subseteq DOMAIN IoCalls
        /\ curPid \in Procs \cup {NoProc}
        /\ inserts \in 0..MaxInserts /\ hooked = {}
    OBVIOUS
  <2> QED BY <2>2, <2>3, <2>4, <2>5, <2>6, <2>7 DEF TypeOK
<1>2. IoInv /\ OrderInv
  BY DEF IoInv, OrderInv, Hookers, Modules
<1>3. ChainSound
  BY DEF ChainSound
<1>4. InsideInv /\ CountsOwnCalls
  BY DEF InsideInv, CountsOwnCalls, Counting
<1> QED BY <1>1, <1>2, <1>3, <1>4 DEF Inv

-----------------------------------------------------------------------------
(* Insertion and removal of the hookers *)

(* A step of a module leaves the processes as they are, but for ftrace,    *)
(* which forgets whose calls it counts when it is inserted and nobody is   *)
(* in a hook, and for iotrace, which leaves those in its hooks behind.     *)
LEMMA ModuleCounts ==
  ASSUME Inv, UNCHANGED <<pc, reg, base, missed, crossed>>,
         \/ /\ curPid' = NoProc /\ state["iotrace"] = "out"
            /\ inside' = inside
         \/ /\ curPid' = curPid /\ counts' = counts
            /\ \/ inside' = inside /\ state'["iotrace"] # "out"
               \/ inside' = inside /\ state["iotrace"] = "out"
               \/ Frees
  PROVE  InsideInv' /\ CountsOwnCalls' /\ inside' \in [Procs -> Counting \cup {"no", "lost"}]
<1> USE HooksAssumption DEF Inv
<1>1. CASE curPid' = NoProc /\ state["iotrace"] = "out" /\ inside' = inside
  <2>1. \A q \in Procs : inside[q] \notin Counting /\ inside[q] # "loaded"
    BY <1>1 DEF InsideInv, Counting
  <2> QED BY <1>1, <2>1 DEF InsideInv, CountsOwnCalls, TypeOK
<1>2. CASE /\ curPid' = curPid /\ counts' = counts /\ inside' = inside
           /\ state'["iotrace"] # "out" \/ state["iotrace"] = "out"
  <2>1. InsideInv'
    BY <1>2 DEF InsideInv
  <2>2. CountsOwnCalls'
    BY <1>2 DEF CountsOwnCalls, Before
  <2> QED BY <1>2, <2>1, <2>2 DEF TypeOK
<1>3. CASE curPid' = curPid /\ counts' = counts /\ Frees
  <2>1. \A q \in Procs :
          /\ inside'[q] \notin Counting /\ inside'[q] # "loaded"
          /\ inside'[q] # "no" => inside[q] # "no"
          /\ inside'[q] \in {"no", "lost"}
    BY <1>3 DEF Frees, Counting, TypeOK
  <2>2. InsideInv'
    <3>1. InsideInv /\ pc' = pc
      OBVIOUS
    <3> HIDE DEF Inv
    <3> QED BY <2>1, <3>1 DEF InsideInv
  <2>3. CountsOwnCalls'
    BY <1>3 DEF CountsOwnCalls, Before
  <2>4. inside' \in [Procs -> Counting \cup {"no", "lost"}]
    <3>1. inside \in [Procs -> Counting \cup {"no", "lost"}]
      BY DEF TypeOK
    <3> HIDE DEF Inv
    <3> QED BY <1>3, <3>1 DEF Frees, Counting
  <2> QED BY <2>2, <2>3, <2>4
<1> QED BY <1>1, <1>2, <1>3

(* What the hookers do not touch, and what does not touch them.            *)
LEMMA IoKept ==
  ASSUME IoInv, NEW m \in Hookers, NEW s, Becomes(m, s), TypeOK, hooked' = hooked,
         m = "ftrace" => state["iotrace"] = "out"
  PROVE  IoInv'
BY DEF IoInv, Becomes, TypeOK, Hookers, Modules

(* A change of state of a module that is not one of the hookers in order,  *)
(* or is stuck there, leaves the chain of hooks alone.                     *)
LEMMA OrderKept ==
  ASSUME OrderInv, ChainSound, TypeOK, NEW m \in Modules, NEW s, Becomes(m, s),
         UNCHANGED <<entry, saved, order, disordered>>,
         s # "in" \/ m = "iotrace", \A i \in DOMAIN order : order[i] = m => s = "stuck"
  PROVE  OrderInv' /\ ChainSound'
<1> USE DEF Becomes, Modules, Hookers
<1>1. /\ \A n \in Modules \ {m} : state'[n] = state[n]
      /\ state'[m] = s
      /\ \A i \in DOMAIN order : order[i] \in Modules
  BY DEF TypeOK
<1>2. \A i \in DOMAIN order : state'[order[i]] \in {"in", "stuck"}
  BY <1>1 DEF OrderInv
<1>3. OrderInv'
  BY <1>1, <1>2 DEF OrderInv
<1>4. ChainSound'
  BY <1>1, <1>2 DEF ChainSound
<1> QED BY <1>3, <1>4

(* hooking_init: the page of the table is made writable. *)
LEMMA StepInitRw == ASSUME Inv, NEW m \in Hookers, InitRw(m) PROVE Inv'
<1> USE HooksAssumption DEF Inv, InitRw, Insert, traceVars, hookVars
<1>1. TypeOK'
  <2>1. state' \in [Modules -> States]
    BY DEF TypeOK, Becomes, States
  <2>2. curPid' \in Procs \cup {NoProc} /\ counts' \in [Io -> Nat]
    BY DEF TypeOK, NoCounts
  <2>3. hooked' # {} => state'["iotrace"] # "out" /\ state'["ftrace"] # "out"
    BY DEF TypeOK, Becomes, Hookers, Modules
  <2> QED BY <2>1, <2>2, <2>3 DEF TypeOK
<1>2. IoInv'
  <2>1. m = "ftrace" => state["iotrace"] = "out"
    BY DEF IoInv
  <2> QED BY <2>1, IoKept
<1>3. OrderInv' /\ ChainSound'
  <2>1. \A i \in DOMAIN order : order[i] # m
    BY DEF OrderInv
  <2> QED BY <2>1, OrderKept DEF Modules
<1>4. InsideInv' /\ CountsOwnCalls'
  <2>1. m = "ftrace" => state["iotrace"] = "out"
    BY DEF IoInv
  <2>2. state'["iotrace"] = state["iotrace"]
    BY DEF TypeOK, Becomes, Hookers, Modules
  <2>3. \/ curPid' = NoProc /\ state["iotrace"] = "out" /\ inside' = inside
        \/ /\ curPid' = curPid /\ counts' = counts /\ inside' = inside
           /\ state'["iotrace"] # "out" \/ state["iotrace"] = "out"
    BY <2>1, <2>2
  <2>4. Inv /\ UNCHANGED <<pc, reg, base, missed, crossed>>
    OBVIOUS
  <2> HIDE DEF Inv, InitRw, Insert
  <2> QED BY <2>3, <2>4, ModuleCounts
<1> QED BY <1>1, <1>2, <1>3, <1>4

(* hooking_init: the entry is kept. *)
LEMMA StepInitSave == ASSUME Inv, NEW m \in Hookers, InitSave(m) PROVE Inv'
<1> USE HooksAssumption DEF Inv, InitSave, callVars, traceVars, hookVars
<1>1. \A i \in DOMAIN order : order[i] # m /\ order[i] \in Hookers
  <2>1. \A i \in DOMAIN order : order[i] # m
    BY DEF OrderInv
  <2> QED BY <2>1 DEF TypeOK
<1>2. /\ state' \in [Modules -> States]
      /\ state'[m] = "hooking" /\ \A n \in Modules \ {m} : state'[n] = state[n]
      /\ saved' \in [Hookers -> Hookers \cup {"real"}]
      /\ \A n \in Hookers \ {m} : saved'[n] = saved[n]
  BY DEF TypeOK, Becomes, Modules, States
<1>3. m = "ftrace" => state["iotrace"] = "out"
  BY DEF IoInv
<1>4. TypeOK'
  BY <1>2, <1>3 DEF TypeOK, Hookers, Modules
<1>5. IoInv'
  BY <1>3, IoKept
<1>6. OrderInv'
  BY <1>1, <1>2 DEF OrderInv, Modules
<1>7. ChainSound'
  BY <1>1, <1>2, <1>6 DEF ChainSound, Modules
<1>8. InsideInv' /\ CountsOwnCalls'
  <2>1. state'["iotrace"] = state["iotrace"]
    BY <1>2 DEF Modules, Hookers
  <2> QED BY <2>1, ModuleCounts
<1> QED BY <1>4, <1>5, <1>6, <1>7, <1>8

(* hooking_init: the entry is replaced. *)
LEMMA StepInitHook == ASSUME Inv, NEW m \in Hookers, InitHook(m) PROVE Inv'
<1> USE HooksAssumption DEF Inv, InitHook, callVars, traceVars, hookVars
<1>1. /\ order' \in Seq(Hookers) /\ DOMAIN order' = 1..Len(order) + 1
      /\ Len(order') = Len(order) + 1 /\ Len(order) \in Nat
      /\ DOMAIN order = 1..Len(order)
      /\ \A i \in DOMAIN order : order'[i] = order[i] /\ order[i] \in Hookers
      /\ order'[Len(order) + 1] = m
  BY DEF TypeOK
<1>2. /\ state' \in [Modules -> States]
      /\ state'[m] = "in" /\ \A n \in Modules \ {m} : state'[n] = state[n]
  BY DEF TypeOK, Becomes, Modules, States
<1>3. m = "ftrace" => state["iotrace"] = "out"
  BY DEF IoInv
<1>4. TypeOK'
  BY <1>1, <1>2, <1>3 DEF TypeOK, Hookers, Modules
<1>5. IoInv'
  BY <1>3, IoKept
<1>6. \A i \in DOMAIN order : order[i] # m
  BY DEF OrderInv
<1>7. OrderInv'
  <2>1. \A i \in DOMAIN order' : i = Len(order) + 1 \/ i \in DOMAIN order
    BY <1>1
  <2>2. \A i, j \in DOMAIN order' : order'[i] = order'[j] => i = j
    BY <1>1, <1>6, <2>1 DEF OrderInv
  <2>3. \A i \in DOMAIN order' : state'[order'[i]] \in {"in", "stuck"}
    BY <1>1, <1>2, <1>6, <2>1 DEF OrderInv, Modules
  <2>4. ASSUME NEW n \in Hookers, state'[n] = "in" PROVE \E i \in DOMAIN order' : order'[i] = n
    <3>1. CASE n = m
      BY <1>1, <3>1
    <3>2. CASE n # m
      <4>1. PICK i \in DOMAIN order : order[i] = n
        BY <1>2, <2>4, <3>2 DEF OrderInv, Modules
      <4>2. i \in DOMAIN order' /\ order'[i] = n
        BY <1>1, <4>1
      <4> QED BY <4>2
    <3> QED BY <3>1, <3>2
  <2> QED BY <2>2, <2>3, <2>4 DEF OrderInv
<1>8. ChainSound'
  <2> SUFFICES ASSUME ~disordered, saved[m] = entry
               PROVE  /\ entry' = m
                      /\ \A i \in DOMAIN order' :
                           /\ saved[order'[i]] = IF i = 1 THEN "real" ELSE order'[i - 1]
                           /\ state'[order'[i]] \in {"in", "stuck"}
    <3>1. saved' = saved /\ entry' = m /\ (~disordered' => ~disordered /\ saved[m] = entry)
      OBVIOUS
    <3> HIDE DEF Inv, InitHook
    <3> QED BY <1>1, <3>1 DEF ChainSound
  <2>1. entry = IF Len(order) = 0 THEN "real" ELSE order[Len(order)]
    BY DEF ChainSound
  <2>2. ASSUME NEW i \in DOMAIN order'
        PROVE  saved[order'[i]] = IF i = 1 THEN "real" ELSE order'[i - 1]
    <3>1. CASE i = Len(order) + 1
      <4>1. order'[i] = m /\ saved[order'[i]] = entry
        BY <1>1, <3>1
      <4>2. CASE Len(order) = 0
        BY <2>1, <3>1, <4>1, <4>2
      <4>3. CASE Len(order) # 0
        <5>1. i # 1 /\ i - 1 = Len(order) /\ Len(order) \in DOMAIN order
          BY <1>1, <3>1, <4>3
        <5> QED BY <1>1, <2>1, <4>1, <4>3, <5>1
      <4> QED BY <4>2, <4>3
    <3>2. CASE i \in DOMAIN order
      BY <1>1, <1>6, <3>2 DEF ChainSound
    <3> QED BY <1>1, <2>2, <3>1, <3>2
  <2> QED BY <1>7, <2>2 DEF OrderInv
<1>9. InsideInv' /\ CountsOwnCalls'
  <2>1. state'["iotrace"] = state["iotrace"]
    BY <1>2 DEF Modules, Hookers
  <2> QED BY <2>1, ModuleCounts
<1> QED BY <1>4, <1>5, <1>7, <1>8, <1>9

(* RemoveAt leaves the entries before the place where they are, and moves  *)
(* those behind it up.                                                     *)
LEMMA LeftOut ==
  ASSUME NEW S, NEW s \in Seq(S), NEW k \in 1..Len(s)
  PROVE  /\ RemoveAt(s, k) \in Seq(S)
         /\ Len(RemoveAt(s, k)) = Len(s) - 1
         /\ DOMAIN RemoveAt(s, k) = 1..Len(s) - 1
         /\ \A i \in 1..Len(s) - 1 :
              RemoveAt(s, k)[i] = IF i < k THEN s[i] ELSE s[i + 1]
<1> DEFINE n == Len(s)
           u == SubSeq(s, 1, k - 1)
           v == SubSeq(s, k + 1, n)
<1>1. n \in Nat /\ k \in Nat /\ 1 <= k /\ k <= n
  OBVIOUS
<1>2. u \in Seq(S) /\ Len(u) = k - 1 /\ \A i \in 1..k - 1 : u[i] = s[i]
  BY <1>1
<1>3. v \in Seq(S) /\ Len(v) = n - k /\ \A i \in 1..n - k : v[i] = s[k + i]
  <2>1. CASE k = n
    BY <1>1, <2>1
  <2>2. CASE k < n
    BY <1>1, <2>2
  <2> QED BY <1>1, <2>1, <2>2
<1> HIDE DEF u, v
<1>4. /\ u \o v \in Seq(S) /\ Len(u \o v) = Len(u) + Len(v)
      /\ \A i \in 1..Len(u) + Len(v) :
           (u \o v)[i] = IF i <= Len(u) THEN u[i] ELSE v[i - Len(u)]
  BY <1>2, <1>3, Joined
<1>5. RemoveAt(s, k) = u \o v
  BY DEF RemoveAt, u, v
<1>6. Len(u) + Len(v) = n - 1
  BY <1>1, <1>2, <1>3
<1>7. ASSUME NEW i \in 1..n - 1
      PROVE  (u \o v)[i] = IF i < k THEN s[i] ELSE s[i + 1]
  <2>1. CASE i < k
    BY <1>1, <1>2, <1>4, <1>6, <2>1
  <2>2. CASE ~(i < k)
    <3>1. (u \o v)[i] = v[i - (k - 1)] /\ i - (k - 1) \in 1..n - k
      BY <1>1, <1>2, <1>4, <1>6, <2>2
    <3>2. v[i - (k - 1)] = s[k + (i - (k - 1))] /\ k + (i - (k - 1)) = i + 1
      BY <1>1, <1>3, <3>1
    <3> QED BY <2>2, <3>1, <3>2
  <2> QED BY <2>1, <2>2
<1>8. Len(u \o v) = n - 1 /\ DOMAIN (u \o v) = 1..n - 1
  BY <1>4, <1>6
<1> QED BY <1>4, <1>5, <1>7, <1>8 DEF n

(* hooking_exit: the entry kept is put back. *)
LEMMA StepExitUnhook == ASSUME Inv, NEW m \in Hookers, ExitUnhook(m) PROVE Inv'
<1> USE HooksAssumption DEF Inv, ExitUnhook, MayGo, callVars, traceVars, hookVars
<1> DEFINE k == CHOOSE i \in DOMAIN order : order[i] = m
           n == Len(order)
<1>1. k \in DOMAIN order /\ order[k] = m
  BY DEF OrderInv
<1>2. order' = RemoveAt(order, k)
  BY DEF Without
<1> HIDE DEF k
<1>3. /\ n \in Nat /\ DOMAIN order = 1..n /\ k \in 1..n /\ k \in Nat
      /\ order \in Seq(Hookers)
  BY <1>1 DEF TypeOK
<1>4. /\ order' \in Seq(Hookers) /\ Len(order') = n - 1 /\ DOMAIN order' = 1..n - 1
      /\ \A i \in 1..n - 1 : order'[i] = IF i < k THEN order[i] ELSE order[i + 1]
  BY <1>2, <1>3, LeftOut
<1>5. \A i \in 1..n - 1 : \E j \in 1..n : j # k /\ order'[i] = order[j]
  <2> TAKE i \in 1..n - 1
  <2>1. CASE i < k
    <3>1. i \in 1..n /\ i # k /\ order'[i] = order[i]
      BY <1>3, <1>4, <2>1
    <3> QED BY <3>1
  <2>2. CASE ~(i < k)
    <3>1. i + 1 \in 1..n /\ i + 1 # k /\ order'[i] = order[i + 1]
      BY <1>3, <1>4, <2>2
    <3> QED BY <3>1
  <2> QED BY <2>1, <2>2
<1>6. /\ state' \in [Modules -> States]
      /\ state'[m] = "going" /\ \A l \in Modules \ {m} : state'[l] = state[l]
  BY DEF TypeOK, Becomes, Modules, States
<1>7. TypeOK'
  BY <1>4, <1>6 DEF TypeOK, Hookers, Modules
<1>8. IoInv'
  BY IoKept
<1>9. OrderInv'
  <2>1. \A i, j \in 1..n : order[i] = order[j] => i = j
    BY <1>3 DEF OrderInv
  <2>2. \A i, j \in 1..n - 1 : order'[i] = order'[j] => i = j
    BY <1>3, <1>4, <2>1
  <2>3. \A i \in 1..n - 1 : state'[order'[i]] \in {"in", "stuck"}
    BY <1>1, <1>3, <1>5, <1>6, <2>1 DEF OrderInv, Modules
  <2>4. ASSUME NEW l \in Hookers, state'[l] = "in" PROVE \E i \in 1..n - 1 : order'[i] = l
    <3>1. PICK i \in 1..n : order[i] = l
      BY <1>3, <1>6, <2>4 DEF OrderInv, Modules
    <3>2. i # k
      BY <1>1, <1>6, <2>4, <3>1
    <3>3. CASE i < k
      <4>1. i \in 1..n - 1 /\ order'[i] = l
        BY <1>3, <1>4, <3>1, <3>3
      <4> QED BY <4>1
    <3>4. CASE i > k
      <4>1. i - 1 \in 1..n - 1 /\ order'[i - 1] = l
        BY <1>3, <1>4, <3>1, <3>4
      <4> QED BY <4>1
    <3> QED BY <1>3, <3>2, <3>3, <3>4
  <2> QED BY <1>4, <2>2, <2>3, <2>4 DEF OrderInv
<1>10. ChainSound'
  <2> SUFFICES ASSUME ~disordered'
               PROVE  /\ entry' = IF n - 1 = 0 THEN "real" ELSE order'[n - 1]
                      /\ \A i \in 1..n - 1 :
                           /\ saved'[order'[i]] = IF i - 1 = 0 THEN "real" ELSE order'[i - 1]
                           /\ state'[order'[i]] \in {"in", "stuck"}
    BY <1>4 DEF ChainSound
  <2>1. ~disordered /\ order[n] = m
    BY DEF Last
  <2>2. k = n
    BY <1>1, <1>3, <2>1 DEF OrderInv
  <2>3. \A i \in 1..n - 1 : order'[i] = order[i]
    BY <1>3, <1>4, <2>2
  <2>4. \A i \in 1..n : saved[order[i]] = IF i - 1 = 0 THEN "real" ELSE order[i - 1]
    BY <1>3, <2>1 DEF ChainSound
  <2>5. entry' = IF n - 1 = 0 THEN "real" ELSE order'[n - 1]
    <3>1. entry' = IF n - 1 = 0 THEN "real" ELSE order[n - 1]
      BY <1>3, <2>1, <2>2, <2>4
    <3>2. n - 1 # 0 => n - 1 \in 1..n - 1
      BY <1>3
    <3> QED BY <2>3, <3>1, <3>2
  <2>6. ASSUME NEW i \in 1..n - 1
        PROVE  saved'[order'[i]] = IF i - 1 = 0 THEN "real" ELSE order'[i - 1]
    <3>1. i \in 1..n /\ (i - 1 # 0 => i - 1 \in 1..n - 1)
      BY <1>3
    <3> QED BY <2>3, <2>4, <3>1
  <2> QED BY <1>4, <1>9, <2>5, <2>6 DEF OrderInv
<1>11. InsideInv' /\ CountsOwnCalls'
  <2>1. state'["iotrace"] = state["iotrace"]
    BY <1>6 DEF Modules, Hookers
  <2> QED BY <2>1, ModuleCounts
<1> QED BY <1>7, <1>8, <1>9, <1>10, <1>11

(* hooking_exit: the page is made read-only. *)
LEMMA StepExitRo == ASSUME Inv, NEW m \in Hookers, ExitRo(m) PROVE Inv'
<1> USE HooksAssumption DEF Inv, ExitRo, callVars, traceVars, hookVars
<1>1. \A i \in DOMAIN order : order[i] # m
  BY DEF OrderInv
<1>2. /\ state' \in [Modules -> States]
      /\ state'[m] = "out" /\ \A n \in Modules \ {m} : state'[n] = state[n]
      /\ saved' \in [Hookers -> Hookers \cup {"real"}]
      /\ \A n \in Hookers \ {m} : saved'[n] = saved[n]
  BY DEF TypeOK, Becomes, Modules, States
<1>3. state["iotrace"] = "out" \/ m # "ftrace"
  BY DEF IoInv
<1>4. TypeOK'
  BY <1>2, <1>3 DEF TypeOK, IoInv, Hookers, Modules
<1>5. IoInv'
  BY <1>3, IoKept
<1>6. \A i \in DOMAIN order : order[i] \in Hookers
  BY DEF TypeOK
<1>7. OrderInv'
  BY <1>1, <1>2, <1>6 DEF OrderInv, Modules
<1>8. ChainSound'
  BY <1>1, <1>2, <1>6, <1>7 DEF ChainSound, Modules
<1>9. InsideInv' /\ CountsOwnCalls'
  <2>1. state'["iotrace"] = state["iotrace"]
    BY <1>2 DEF Modules, Hookers
  <2> QED BY <2>1, ModuleCounts
<1> QED BY <1>4, <1>5, <1>7, <1>8, <1>9

-----------------------------------------------------------------------------
(* iotrace, and faults *)

(* iotracehooking hooks and unhooks its five entries one by one. *)
LEMMA StepIo ==
  ASSUME Inv, IoInit \/ IoHook \/ IoUnhook
  PROVE  Inv'
<1> USE HooksAssumption DEF Inv, callVars, traceVars, hookVars, Insert
<1>1. /\ \A s : Becomes("iotrace", s) =>
            state'["iotrace"] = s /\ \A n \in Hookers : state'[n] = state[n]
      /\ UNCHANGED <<rw, entry, saved, order, disordered>>
      /\ UNCHANGED <<curPid, counts, pc, reg, base, missed, crossed>>
  BY DEF TypeOK, Becomes, Hookers, Modules, IoInit, IoHook, IoUnhook
<1>2. OrderInv' /\ ChainSound'
  <2>1. \A n \in Hookers : state'[n] = state[n]
    BY <1>1 DEF IoInit, IoHook, IoUnhook
  <2>2. \A i \in DOMAIN order : order[i] \in Hookers
    BY DEF TypeOK
  <2> QED BY <1>1, <2>1, <2>2 DEF OrderInv, ChainSound
<1>3. CASE IoInit
  <2> USE <1>3 DEF IoInit
  <2>1. TypeOK'
    BY <1>1 DEF TypeOK, Becomes, Hookers, Modules, States
  <2>2. IoInv'
    <3>1. 1..0 = {}
      OBVIOUS
    <3> QED BY <1>1, <3>1 DEF IoInv, Hookers
  <2>3. InsideInv' /\ CountsOwnCalls'
    BY ModuleCounts
  <2> QED BY <1>2, <2>1, <2>2, <2>3
<1>5. CASE IoHook
  <2> USE <1>5 DEF IoHook
  <2>1. PICK k \in 0..4 : hooked = 1..k
    BY DEF IoInv
  <2>2. hooked' = 1..k + 1
    <3>1. Cardinality(hooked) = k
      <4>1. 1 \in Int /\ k \in Int
        OBVIOUS
      <4>2. Cardinality(1..k) = IF 1 > k THEN 0 ELSE k - 1 + 1
        BY <4>1, FS_Interval
      <4> QED BY <2>1, <4>2
    <3> QED BY <2>1, <3>1
  <2>3. IoInv' /\ state'["ftrace"] # "out"
    <3>1. state["ftrace"] = "in" /\ "ftrace" \in Hookers
      BY DEF IoInv, Hookers
    <3>2. CASE k = 4
      <4>1. hooked' = 1..5 /\ hooked' = DOMAIN IoCalls
        BY <2>2, <3>2, IoCallsAre
      <4> QED BY <1>1, <3>1, <4>1 DEF IoInv
    <3>3. CASE k # 4
      <4>1. hooked' # 1..5 /\ k + 1 \in 0..4
        <5>1. 5 \in 1..5 /\ 5 \notin 1..k + 1
          BY <3>3
        <5> QED BY <2>2, <3>3, <5>1
      <4> QED BY <1>1, <2>2, <3>1, <4>1, IoCallsAre DEF IoInv
    <3> QED BY <3>2, <3>3
  <2>5. InsideInv' /\ CountsOwnCalls' /\ inside' \in [Procs -> Counting \cup {"no", "lost"}]
    <3>1. state'["iotrace"] # "out"
      BY <1>1
    <3> QED BY <1>1, <3>1, ModuleCounts
  <2>4. TypeOK'
    <3>1. hooked' \subseteq DOMAIN IoCalls /\ state'["iotrace"] # "out"
      BY <1>1, <2>2, IoCallsAre
    <3>2. state' \in [Modules -> States]
      BY DEF TypeOK, Becomes, Modules, States
    <3> QED BY <1>1, <2>3, <2>5, <3>1, <3>2 DEF TypeOK
  <2> QED BY <1>2, <2>3, <2>4, <2>5
<1>6. CASE IoUnhook
  <2> USE <1>6 DEF IoUnhook
  <2>1. PICK k \in 1..5 : hooked = k..5
    BY DEF IoInv
  <2>2. hooked' = k + 1..5
    <3>1. Cardinality(hooked) = 6 - k
      BY <2>1, FS_Interval
    <3>2. Len(IoCalls) = 5
      BY DEF IoCalls
    <3> QED BY <2>1, <3>1, <3>2
  <2>3. IoInv' /\ state'["ftrace"] # "out"
    <3>1. state["ftrace"] = "in" /\ "ftrace" \in Hookers
      BY DEF IoInv, Hookers
    <3>2. CASE k = 5
      <4>1. hooked' = {}
        <5>1. \A i \in k + 1..5 : FALSE
          BY <3>2
        <5> QED BY <2>2, <5>1
      <4> QED BY <1>1, <3>1, <4>1 DEF IoInv
    <3>3. CASE k # 5
      <4>1. hooked' # {} /\ k + 1 \in 1..5
        <5>1. 5 \in k + 1..5
          BY <3>3
        <5> QED BY <2>2, <3>3, <5>1
      <4>2. state'["iotrace"] = "going"
        BY <1>1, <4>1
      <4> QED BY <1>1, <2>2, <3>1, <4>1, <4>2 DEF IoInv
    <3> QED BY <3>2, <3>3
  <2>5. InsideInv' /\ CountsOwnCalls' /\ inside' \in [Procs -> Counting \cup {"no", "lost"}]
    <3>1. CASE hooked' = {}
      BY <1>1, <3>1, ModuleCounts
    <3>2. CASE hooked' # {}
      <4>1. state'["iotrace"] # "out" /\ inside' = inside
        BY <1>1, <3>2
      <4> QED BY <1>1, <4>1, ModuleCounts
    <3> QED BY <3>1, <3>2
  <2>4. TypeOK'
    <3>1. hooked' \subseteq DOMAIN IoCalls /\ (hooked' # {} => state'["iotrace"] # "out")
      BY <1>1, <2>2, IoCallsAre
    <3>2. state' \in [Modules -> States]
      BY DEF TypeOK, Becomes, Modules, States
    <3> QED BY <1>1, <2>3, <2>5, <3>1, <3>2 DEF TypeOK
  <2> QED BY <1>2, <2>3, <2>4, <2>5
<1> QED BY <1>3, <1>5, <1>6

(* A module that writes to a read-only page goes no further. *)
LEMMA StepFault == ASSUME Inv, NEW m \in Modules, Fault(m) PROVE Inv'
<1> USE HooksAssumption DEF Inv, Fault, MayGo, callVars, traceVars, hookVars
<1>1. /\ state' \in [Modules -> States]
      /\ state'[m] = "stuck" /\ \A n \in Modules \ {m} : state'[n] = state[n]
  BY DEF TypeOK, Becomes, States
<1>2. TypeOK'
  BY <1>1 DEF TypeOK, Hookers, Modules
<1>3. IoInv'
  BY <1>1 DEF IoInv, Hookers, Modules
<1>4. OrderInv' /\ ChainSound'
  BY OrderKept
<1>5. InsideInv' /\ CountsOwnCalls'
  <2>1. state'["iotrace"] # "out" \/ state["iotrace"] = "out"
    BY <1>1 DEF Modules
  <2> QED BY <2>1, ModuleCounts
<1> QED BY <1>2, <1>3, <1>4, <1>5

-----------------------------------------------------------------------------
(* The calls of the processes *)

(* The calls of a traced program leave the modules alone. *)
LEMMA CallKeepsModules ==
  ASSUME Inv, UNCHANGED moduleVars, counts' \in [Io -> Nat],
         curPid' \in Procs \cup {NoProc}, pc' \in [Procs -> 1..Len(Script) + 1],
         inside' \in [Procs -> Counting \cup {"no", "lost"}], reg' \in [Procs -> Nat],
         base' \in [Io -> Nat], missed' \in [Io -> Nat], crossed' \subseteq Io
  PROVE  TypeOK' /\ IoInv' /\ OrderInv' /\ ChainSound'
BY DEF Inv, moduleVars, TypeOK, IoInv, OrderInv, ChainSound

(* A process outside the hooks goes past call 336, or ends.                *)
LEMMA PastCounts ==
  ASSUME Inv, NEW p \in Procs, Ends(p) \/ (NextIs(p, "trace") /\ Continues(p)),
         \/ UNCHANGED hookVars /\ inside[p] = "no"
         \/ /\ reg' = [reg EXCEPT ![p] = 0]
            /\ inside' = [inside EXCEPT ![p] = "no"]
         \/ UNCHANGED hookVars /\ (NextIs(p, "trace") \/ NextIs(p, "report")),
         UNCHANGED <<moduleVars, curPid, counts, traceVars>>
  PROVE  Inv'
<1> USE DEF Inv, moduleVars, hookVars, traceVars
<1>0. /\ pc \in [Procs -> 1..Len(Script) + 1] /\ Len(Script) \in Nat
      /\ inside \in [Procs -> Counting \cup {"no", "lost"}] /\ reg \in [Procs -> Nat]
      /\ inside[p] # "no" => pc[p] <= Len(Script) /\ Script[pc[p]] \in Io
  BY ScriptIsSeq DEF TypeOK, InsideInv
<1>1. /\ pc' \in [Procs -> 1..Len(Script) + 1]
      /\ \A q \in Procs \ {p} : pc'[q] = pc[q]
      /\ pc[p] \in Nat \ {0}
      /\ \/ pc'[p] = Len(Script) + 1
         \/ pc'[p] = pc[p] + 1 /\ NextIs(p, "trace")
  <2> HIDE DEF Inv, moduleVars, hookVars, traceVars
  <2>1. CASE Ends(p)
    BY <1>0, <2>1 DEF Ends
  <2>2. CASE NextIs(p, "trace") /\ Continues(p)
    <3>1. pc[p] <= Len(Script)
      BY <2>2 DEF NextIs
    <3> QED BY <1>0, <2>2, <3>1 DEF Continues
  <2> QED BY <2>1, <2>2
<1>2. /\ inside' \in [Procs -> Counting \cup {"no", "lost"}] /\ reg' \in [Procs -> Nat]
      /\ \A q \in Procs \ {p} : inside'[q] = inside[q] /\ reg'[q] = reg[q]
      /\ inside'[p] = "no"
  <2>1. CASE UNCHANGED hookVars /\ inside[p] = "no"
    BY <1>0, <2>1
  <2>2. CASE /\ reg' = [reg EXCEPT ![p] = 0]
             /\ inside' = [inside EXCEPT ![p] = "no"]
    BY <1>0, <2>2
  <2>3. CASE UNCHANGED hookVars /\ (NextIs(p, "trace") \/ NextIs(p, "report"))
    <3>1. inside[p] = "no"
      BY <1>0, <2>3, IoCallsAre DEF NextIs
    <3> QED BY <1>0, <2>3, <3>1
  <2> QED BY <2>1, <2>2, <2>3
<1>3. InsideInv'
  BY <1>1, <1>2 DEF InsideInv, Counting
<1>4. ASSUME curPid \in Procs, pc'[curPid] <= Len(Script), NEW c \in Io
      PROVE  pc[curPid] <= Len(Script) /\ Before(pc'[curPid], c) = Before(pc[curPid], c)
  <2>1. CASE curPid # p
    BY <1>1, <1>4, <2>1
  <2>2. CASE curPid = p
    <3>1. pc'[p] = pc[p] + 1 /\ pc[p] <= Len(Script) /\ Script[pc[p]] # c
      BY <1>1, <1>4, <2>2, ScriptIsSeq, IoCallsAre DEF NextIs
    <3> QED BY <1>1, <2>2, <3>1, BeforeNext
  <2> QED BY <2>1, <2>2
<1>5. CountsOwnCalls'
  BY <1>4, HooksAssumption DEF CountsOwnCalls, TypeOK
<1> QED BY <1>1, <1>2, <1>3, <1>5, CallKeepsModules DEF TypeOK

(* The call with a pid begins to count the caller. *)
LEMMA StepFtrace == ASSUME Inv, NEW p \in Procs, ftrace(p) PROVE Inv'
<1> USE DEF ftrace, Call336
<1>1. CASE NextIs(p, "report") /\ Ends(p) /\ UNCHANGED <<curPid, traceVars>>
  BY <1>1, PastCounts
<1>2. CASE /\ NextIs(p, "trace") /\ curPid' = p
           /\ base' = counts /\ missed' = NoCounts
           /\ crossed' = {Script[pc[q]] : q \in {q \in Procs : inside[q] \in Counting}}
           /\ Continues(p)
  <2> USE <1>2 DEF Inv, Continues, NextIs, moduleVars, hookVars
  <2>1. /\ pc' \in [Procs -> 1..Len(Script) + 1] /\ pc'[p] = pc[p] + 1
        /\ pc[p] \in 1..Len(Script) /\ pc[p] \in Nat \ {0}
        /\ base' \in [Io -> Nat] /\ base' = counts
        /\ missed' \in [Io -> Nat] /\ \A c \in Io : missed'[c] = 0
        /\ \A q \in Procs \ {p} : pc'[q] = pc[q]
    BY ScriptIsSeq DEF TypeOK, NoCounts
  <2>2. pc[p] = 1
    BY <2>1, TraceIsFirst
  <2>3. ASSUME NEW c \in Io PROVE Before(2, c) = 0
    <3>1. Script[1] # c
      BY ScriptIsSeq, IoCallsAre
    <3>2. {i \in 1..2 - 1 : Script[i] = c} = {}
      BY <3>1
    <3> QED BY <3>2, FS_EmptySet DEF Before
  <2>4. inside[p] = "no" /\ crossed' \subseteq Io
    BY IoCallsAre DEF InsideInv, Counting
  <2>5. InsideInv'
    BY <2>1, <2>4, HooksAssumption DEF InsideInv, Counting
  <2>6. CountsOwnCalls'
    BY <2>1, <2>2, <2>3 DEF CountsOwnCalls, TypeOK
  <2> QED BY <2>1, <2>4, <2>5, <2>6, CallKeepsModules DEF TypeOK
<1> QED BY <1>1, <1>2

(* A call that no hook counts is missed if the process is the traced one.  *)
LEMMA StepPlainCall ==
  ASSUME Inv, NEW p \in Procs, NEW c \in Io, PlainCall(p, c)
  PROVE  Inv'
<1> USE DEF Inv, PlainCall, Continues, NextIs, moduleVars, hookVars
<1>1. /\ pc' \in [Procs -> 1..Len(Script) + 1] /\ pc'[p] = pc[p] + 1
      /\ pc[p] \in 1..Len(Script) /\ pc[p] \in Nat \ {0}
      /\ \A q \in Procs \ {p} : pc'[q] = pc[q]
  BY ScriptIsSeq DEF TypeOK
<1>2. missed' \in [Io -> Nat]
  BY DEF TypeOK
<1>3. InsideInv'
  BY <1>1 DEF InsideInv, Counting
<1>4. ASSUME curPid # NoProc, pc'[curPid] <= Len(Script), NEW d \in Io \ crossed
      PROVE  counts[d] + missed'[d] = base[d] + Before(pc'[curPid], d)
  <2>1. curPid \in Procs /\ pc[curPid] <= Len(Script)
    BY <1>1, <1>4 DEF TypeOK
  <2>2. counts[d] + missed[d] = base[d] + Before(pc[curPid], d)
    BY <1>4, <2>1 DEF CountsOwnCalls
  <2>3. CASE curPid # p
    BY <1>1, <2>1, <2>2, <2>3
  <2>4. CASE curPid = p
    <3>1. /\ Before(pc[p], d) \in Nat
          /\ Before(pc[p] + 1, d) = Before(pc[p], d) + (IF c = d THEN 1 ELSE 0)
      BY <1>1, BeforeNext
    <3>2. missed'[d] = missed[d] + (IF c = d THEN 1 ELSE 0)
      BY <2>4 DEF TypeOK
    <3>3. counts[d] \in Nat /\ missed[d] \in Nat /\ base[d] \in Nat
      BY DEF TypeOK
    <3>4. pc'[curPid] = pc[p] + 1 /\ pc[curPid] = pc[p]
      BY <1>1, <2>4
    <3> HIDE DEF Inv, PlainCall, Continues, NextIs, moduleVars, hookVars
    <3> QED BY <2>2, <3>1, <3>2, <3>3, <3>4
  <2> QED BY <2>3, <2>4
<1>5. CountsOwnCalls'
  BY <1>4 DEF CountsOwnCalls
<1> QED BY <1>1, <1>2, <1>3, <1>5, CallKeepsModules DEF TypeOK

(* Only the traced process passes the test. *)
LEMMA StepTestCall ==
  ASSUME Inv, NEW p \in Procs, NEW c \in Io, TestCall(p, c)
  PROVE  Inv'
<1> USE DEF Inv, TestCall, NextIs, moduleVars, traceVars
<1>1. /\ inside' \in [Procs -> Counting \cup {"no", "lost"}] /\ inside'[p] = "tested"
      /\ \A q \in Procs \ {p} : inside'[q] = inside[q]
  BY DEF TypeOK, Counting
<1>2. p = curPid /\ curPid # NoProc
  BY HooksAssumption DEF Counts
<1>3. state["iotrace"] # "out"
  BY DEF Counts, HasHook, IoInv
<1>4. InsideInv'
  BY <1>1, <1>2, <1>3 DEF InsideInv
<1>5. CountsOwnCalls'
  BY DEF CountsOwnCalls, Before
<1> QED BY <1>1, <1>4, <1>5, CallKeepsModules DEF TypeOK

(* The increment reads the counter of the call. *)
LEMMA StepLoadCall ==
  ASSUME Inv, NEW p \in Procs, NEW c \in Io, LoadCall(p, c)
  PROVE  Inv'
<1> USE DEF Inv, LoadCall, NextIs, moduleVars, traceVars
<1>1. /\ inside' \in [Procs -> Counting \cup {"no", "lost"}] /\ inside'[p] = "loaded"
      /\ reg' \in [Procs -> Nat] /\ reg'[p] = counts[c] /\ Script[pc[p]] = c
      /\ \A q \in Procs \ {p} : inside'[q] = inside[q] /\ reg'[q] = reg[q]
      /\ inside[p] \in Counting
  BY DEF TypeOK, Counting
<1>2. InsideInv'
  BY <1>1 DEF InsideInv
<1>3. CountsOwnCalls'
  BY DEF CountsOwnCalls, Before
<1> QED BY <1>1, <1>2, <1>3, CallKeepsModules DEF TypeOK

(* The traced process adds one to what the counter is, and any other       *)
(* writes only the counter of a call that is crossed.                      *)
LEMMA StepStoreCall ==
  ASSUME Inv, NEW p \in Procs, NEW c \in Io, StoreCall(p, c)
  PROVE  Inv'
<1> USE DEF Inv, StoreCall, Continues, NextIs, moduleVars, traceVars
<1>1. /\ pc' \in [Procs -> 1..Len(Script) + 1] /\ pc'[p] = pc[p] + 1
      /\ pc[p] \in 1..Len(Script) /\ pc[p] \in Nat \ {0}
      /\ \A q \in Procs \ {p} : pc'[q] = pc[q]
  BY ScriptIsSeq DEF TypeOK
<1>2. /\ inside' \in [Procs -> Counting \cup {"no", "lost"}] /\ inside'[p] = "no"
      /\ reg' \in [Procs -> Nat] /\ counts' \in [Io -> Nat] /\ counts \in [Io -> Nat]
      /\ \A q \in Procs \ {p} : inside'[q] = inside[q] /\ reg'[q] = reg[q]
      /\ counts'[c] = reg[p] + 1 /\ \A d \in Io \ {c} : counts'[d] = counts[d]
  BY DEF TypeOK, Counting
<1>3. /\ p = curPid \/ c \in crossed
      /\ p = curPid /\ c \notin crossed => reg[p] = counts[c]
  BY DEF InsideInv, Counting
<1>4. InsideInv'
  <2> SUFFICES ASSUME NEW q \in Procs \ {p}, inside[q] = "loaded", q = curPid,
                      Script[pc[q]] \notin crossed, Script[pc[q]] \in Io
               PROVE  counts'[Script[pc[q]]] = counts[Script[pc[q]]]
    BY <1>1, <1>2 DEF InsideInv, Counting
  <2>1. Script[pc[q]] # c
    BY <1>3
  <2> QED BY <1>2, <2>1
<1>5. ASSUME curPid # NoProc, pc'[curPid] <= Len(Script), NEW d \in Io \ crossed
      PROVE  counts'[d] + missed[d] = base[d] + Before(pc'[curPid], d)
  <2>1. curPid \in Procs /\ pc[curPid] <= Len(Script)
    BY <1>1, <1>5 DEF TypeOK
  <2>2. counts[d] + missed[d] = base[d] + Before(pc[curPid], d)
    BY <1>5, <2>1 DEF CountsOwnCalls
  <2>3. CASE curPid # p
    BY <1>1, <1>2, <1>3, <2>1, <2>2, <2>3
  <2>4. CASE curPid = p
    <3>1. /\ Before(pc[p], d) \in Nat
          /\ Before(pc[p] + 1, d) = Before(pc[p], d) + (IF c = d THEN 1 ELSE 0)
      BY <1>1, BeforeNext
    <3>2. counts'[d] = counts[d] + (IF c = d THEN 1 ELSE 0)
      BY <1>2, <1>3, <2>4
    <3>3. counts[d] \in Nat /\ missed[d] \in Nat /\ base[d] \in Nat
      BY DEF TypeOK
    <3>4. pc'[curPid] = pc[p] + 1 /\ pc[curPid] = pc[p]
      BY <1>1, <2>4
    <3> HIDE DEF Inv, StoreCall, Continues, NextIs, moduleVars, traceVars
    <3> QED BY <2>2, <3>1, <3>2, <3>3, <3>4
  <2> QED BY <2>3, <2>4
<1>6. CountsOwnCalls'
  BY <1>5 DEF CountsOwnCalls
<1> QED BY <1>1, <1>2, <1>4, <1>6, CallKeepsModules DEF TypeOK

-----------------------------------------------------------------------------

(* Every step of the modules and of the programs keeps the invariant. *)
LEMMA NextInv == Inv /\ [Next]_vars => Inv'
<1> SUFFICES ASSUME Inv, [Next]_vars PROVE Inv'
  OBVIOUS
<1>1. CASE UNCHANGED vars
  <2>1. InsideInv' /\ CountsOwnCalls'
    BY <1>1
    DEF vars, moduleVars, callVars, traceVars, hookVars, Inv, InsideInv,
        CountsOwnCalls, Before
  <2> QED BY <1>1, <2>1, CallKeepsModules
      DEF vars, moduleVars, callVars, traceVars, hookVars, Inv, TypeOK
<1>2. ASSUME NEW p \in Procs,
             NoHook(p) \/ Dangling(p) \/ process_tracer(p) \/ file_varea(p)
      PROVE  Inv'
  BY <1>2, PastCounts
  DEF NoHook, Dangling, process_tracer, file_varea, Call336, Returns
<1>3. ASSUME NEW p \in Procs, LostCall(p) PROVE Inv'
  BY <1>3, PastCounts DEF LostCall
<1> QED
  BY <1>1, <1>2, <1>3, StepInitRw, StepInitSave, StepInitHook, StepExitUnhook, StepExitRo,
     StepIo, StepFault, StepFtrace, StepPlainCall, StepTestCall, StepLoadCall,
     StepStoreCall
  DEF Next

(* The invariant holds of every run of the hooking modules. *)
THEOREM InvHolds == Spec => []Inv
BY InitInv, NextInv, PTL DEF Spec

(* The variables keep their types.  Above all the entries of iotrace are   *)
(* hooked only while it and ftrace, whose variables its hooks count in,    *)
(* are loaded.                                                             *)
THEOREM Typed == Spec => []TypeOK
BY InvHolds, PTL DEF Inv

(* Whenever the modules are inserted and removed, however the steps of     *)
(* their insertions interleave, and wherever they fault, call 336 goes to  *)
(* the newest, and each of them has saved the one before it, until one     *)
(* replaces an entry that is not the one it has saved, or one is removed   *)
(* that is not the newest.                                                 *)
THEOREM ChainKept == Spec => []ChainSound
BY InvHolds, PTL DEF Inv

(* The counters have grown by the calls of the traced process that met a   *)
(* hook, but for those in whose hooks other processes were when its trace  *)
(* began: no test of a pid or increment of another process that begins     *)
(* later, and no insertion or removal of a module, adds or loses a call.   *)
THEOREM OwnCallsCounted == Spec => []CountsOwnCalls
BY InvHolds, PTL DEF Inv
=============================================================================
