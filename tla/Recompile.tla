----------------------------- MODULE Recompile ------------------------------
(***************************************************************************)
(* D_recompile_test.c and D_recompile.c: the first copies the code of a    *)
(* function into shared memory; the second merges runs of equal machine    *)
(* instructions in place, and calls what results.                          *)
(*                                                                         *)
(* Code is bytes, as the loop of drecompile looks at them.  The processor, *)
(* which is external, executes the instructions that Operation consists of.*)
(* The function is called once, for all 100000 calls are alike.            *)
(***************************************************************************)
EXTENDS Integers, Sequences

CONSTANTS
  Functions,  \* functions, as sequences of instructions <<name, immediate>>
  PageSize    \* bytes of the shared memory

Names == {"mov", "movdl", "add", "sub", "imul", "div"}

Instruction == Names \X (0..127)

\* The bytes of an instruction.
Bytes(ins) ==
  CASE ins[1] = "mov" -> <<137, 200>>
    [] ins[1] = "movdl" -> <<178, ins[2]>>
    [] ins[1] = "add" -> <<131, 192, ins[2]>>
    [] ins[1] = "sub" -> <<131, 232, ins[2]>>
    [] ins[1] = "imul" -> <<107, 192, ins[2]>>
    [] ins[1] = "div" -> <<246, 242>>

Ret == 195

\* The code of the first n instructions, for every n.
Compiled(f) ==
  LET code[n \in 0..Len(f)] ==
        IF n = 0 THEN <<>> ELSE code[n - 1] \o Bytes(f[n])
  IN code

CodeOf(f) == Compiled(f)[Len(f)] \o <<Ret>>

Byte == 0..255

ASSUME RecompileAssumption ==
  /\ PageSize \in Nat
  /\ \A f \in Functions : f \in Seq(Instruction) /\ Len(CodeOf(f)) < PageSize

VARIABLES
  function,  \* the function D_recompile_test.c was built with
  dynamic,   \* was D_recompile.c built with the optimisation
  at,        \* "empty", "filled", "scan", "merge" (a loop over a run of
             \* equal instructions), "call", "returned", "fault"
  memory,    \* Operation and compiled_code, which are the same
  i, j,      \* indices read and written
  dl_reg, dl_val,
  op, tmp,   \* the first byte of the instructions of the run, their value
  ip, eax, dl  \* of the processor, inside func

scanVars == <<i, j, dl_reg, dl_val, op, tmp>>
cpuVars == <<ip, eax, dl>>
vars == <<function, dynamic, at, memory, scanVars, cpuVars>>

TypeOK ==
  /\ function \in Functions /\ dynamic \in BOOLEAN
  /\ at \in {"empty", "filled", "scan", "merge", "call", "returned", "fault"}
  /\ memory \in [0..PageSize - 1 -> Byte]
  /\ i \in Nat /\ j \in Nat /\ dl_reg \in Nat
  /\ {dl_val, op, tmp, dl} \subseteq Byte
  /\ ip \in Nat /\ eax \in Int

Init ==
  /\ function \in Functions
  /\ dynamic \in BOOLEAN
  /\ at = "empty"
  /\ memory = [k \in 0..PageSize - 1 |-> 0]
  /\ i = 0 /\ j = 0 /\ dl_reg = 0 /\ dl_val = 0 /\ op = 0 /\ tmp = 0
  /\ ip = 0 /\ eax = 1 /\ dl = 0

\* D_recompile_test.c: the bytes up to the first that is Ret.
Fill ==
  /\ at = "empty"
  /\ LET code == CodeOf(function)
     IN memory' = [k \in 0..PageSize - 1 |->
                     IF k < Len(code) THEN code[k + 1] ELSE 0]
  /\ at' = "filled"
  /\ UNCHANGED <<function, dynamic, scanVars, cpuVars>>

(* D_recompile.c starts, also on a page that nobody has filled.            *)
Launch ==
  /\ at \in {"empty", "filled"}
  /\ at' = IF dynamic THEN "scan" ELSE "call"
  /\ UNCHANGED <<function, dynamic, memory, scanVars, cpuVars>>

-----------------------------------------------------------------------------
(* drecompile *)

\* The instructions that are merged: add and sub, imul, div.
Merged == {131, 107, 246}

Size(ins) == IF ins = 246 THEN 2 ELSE 3

\* The last byte that the next step of the loop looks at, and is it code?
LastRead ==
  IF i < PageSize /\ at = "scan" /\ memory[i] = 178 THEN i + 1
  ELSE IF i < PageSize /\ at = "merge" /\ memory[i] = op /\ op # 246 THEN i + 2
  ELSE i

Readable == LastRead < PageSize

\* Variant: tmp starts from zero, as for a sum.
FirstZero(ins) == 0

First(ins) == IF ins = 131 THEN 0 ELSE 1

BeginRun ==
  /\ at = "scan"
  /\ Readable
  /\ memory[i] \in Merged
  /\ at' = "merge"
  /\ op' = memory[i]
  /\ tmp' = First(memory[i])
  /\ UNCHANGED <<function, dynamic, memory, i, j, dl_reg, dl_val, cpuVars>>

\* Variant: tmp is wider than a byte.
AccumulatedWide(x) == IF op = 131 THEN tmp + x ELSE (tmp * x) % 256

Accumulated(x) == IF op = 131 THEN (tmp + x) % 256 ELSE (tmp * x) % 256

(* One more instruction of the run: its immediate is added or multiplied,  *)
(* for a division the one that was moved to dl.                            *)
ContinueRun ==
  /\ at = "merge"
  /\ Readable
  /\ memory[i] = op
  /\ tmp' = Accumulated(IF op = 246 THEN dl_val ELSE memory[i + 2])
  /\ i' = i + Size(op)
  /\ UNCHANGED <<function, dynamic, at, memory, j, dl_reg, dl_val, op, cpuVars>>

\* Variant: the byte behind the instruction is written too.
MergedCodeLong ==
  IF op = 246
  THEN [memory EXCEPT ![j] = memory[i - 2], ![j + 1] = memory[i - 1],
                      ![dl_reg + 1] = tmp]
  ELSE [memory EXCEPT ![j] = memory[i - 3], ![j + 1] = memory[i - 2],
                      ![j + 2] = tmp, ![j + 3] = 0]

(* The run becomes its last instruction, with the value; for divisions the *)
(* value goes to the move to dl.                                           *)
MergedCode ==
  IF op = 246
  THEN [memory EXCEPT ![j] = memory[i - 2], ![j + 1] = memory[i - 1],
                      ![dl_reg + 1] = tmp]
  ELSE [memory EXCEPT ![j] = memory[i - 3], ![j + 1] = memory[i - 2],
                      ![j + 2] = tmp]

EndRun ==
  /\ at = "merge"
  /\ Readable
  /\ memory[i] # op
  /\ memory' = MergedCode
  /\ j' = j + Size(op)
  /\ at' = "scan"
  /\ UNCHANGED <<function, dynamic, i, dl_reg, dl_val, op, tmp, cpuVars>>

\* Variant: the index is not advanced.
CopyAgain ==
  /\ at = "scan"
  /\ Readable
  /\ memory[i] \notin {Ret} \cup Merged
  /\ UNCHANGED vars

\* Any other byte is copied; the byte after that of mov dl is kept in dl_val.
CopyByte ==
  /\ at = "scan"
  /\ Readable
  /\ memory[i] \notin {Ret} \cup Merged
  /\ memory' = [memory EXCEPT ![j] = memory[i]]
  /\ IF memory[i] = 178
     THEN dl_reg' = i /\ dl_val' = memory[i + 1]
     ELSE UNCHANGED <<dl_reg, dl_val>>
  /\ i' = i + 1
  /\ j' = j + 1
  /\ UNCHANGED <<function, dynamic, at, op, tmp, cpuVars>>

Finish ==
  /\ at = "scan"
  /\ Readable
  /\ memory[i] = Ret
  /\ memory' = [memory EXCEPT ![j] = Ret]
  /\ at' = "call"
  /\ UNCHANGED <<function, dynamic, scanVars, cpuVars>>

\* The loop reads behind a page that has no Ret.
Overrun ==
  /\ at \in {"scan", "merge"}
  /\ ~Readable
  /\ at' = "fault"
  /\ UNCHANGED <<function, dynamic, memory, scanVars, cpuVars>>

drecompile ==
  BeginRun \/ ContinueRun \/ EndRun \/ CopyByte \/ Finish \/ Overrun

-----------------------------------------------------------------------------
(* The processor *)

(* div dl: the quotient of ax to al, the remainder to ah. *)
Divided(a, d) ==
  LET ax == a % 65536 IN (a - ax) + (ax % d) * 256 + ax \div d

DivFaults(a, d) == d = 0 \/ (a % 65536) \div d > 255

Signed(b) == IF b > 127 THEN b - 256 ELSE b

Execute ==
  /\ at = "call"
  /\ ip + 2 < PageSize
  /\ LET imm == memory[ip + 2]
     IN \/ /\ memory[ip] = 131
           /\ eax' = IF memory[ip + 1] = 192 THEN eax + Signed(imm)
                                             ELSE eax - Signed(imm)
           /\ ip' = ip + 3 /\ UNCHANGED <<dl, at>>
        \/ /\ memory[ip] = 107
           /\ eax' = eax * Signed(imm)
           /\ ip' = ip + 3 /\ UNCHANGED <<dl, at>>
        \/ /\ memory[ip] = 246
           /\ IF DivFaults(eax, dl)
              THEN at' = "fault" /\ UNCHANGED eax
              ELSE eax' = Divided(eax, dl) /\ UNCHANGED at
           /\ ip' = ip + 2 /\ UNCHANGED dl
        \/ /\ memory[ip] = 178
           /\ dl' = memory[ip + 1]
           /\ ip' = ip + 2 /\ UNCHANGED <<eax, at>>
        \/ /\ memory[ip] = 137
           /\ ip' = ip + 2 /\ UNCHANGED <<eax, dl, at>>
        \/ /\ memory[ip] = Ret
           /\ at' = "returned" /\ UNCHANGED cpuVars
  /\ UNCHANGED <<function, dynamic, memory, scanVars>>

\* A page of zeros is called.
ExecuteZeros ==
  /\ at = "call"
  /\ memory[ip] = 0
  /\ at' = "fault"
  /\ UNCHANGED <<function, dynamic, memory, scanVars, cpuVars>>

-----------------------------------------------------------------------------

Next == Fill \/ Launch \/ drecompile \/ Execute \/ ExecuteZeros

Spec == Init /\ [][Next]_vars /\ WF_vars(drecompile)

-----------------------------------------------------------------------------
(* Properties *)

\* What the function computes of 1, and whether a division of it faults.
Step(s, ins) ==
  CASE ins[1] = "mov" -> s
    [] ins[1] = "movdl" -> [s EXCEPT !.dl = ins[2]]
    [] ins[1] = "add" -> [s EXCEPT !.eax = @ + ins[2]]
    [] ins[1] = "sub" -> [s EXCEPT !.eax = @ - ins[2]]
    [] ins[1] = "imul" -> [s EXCEPT !.eax = @ * ins[2]]
    [] ins[1] = "div" ->
         IF s.bad \/ DivFaults(s.eax, s.dl)
         THEN [s EXCEPT !.bad = TRUE]
         ELSE [s EXCEPT !.eax = Divided(@, s.dl)]

\* The state after the first n instructions, for every n.
Run(f) ==
  LET run[n \in 0..Len(f)] ==
        IF n = 0 THEN [eax |-> 1, dl |-> 0, bad |-> FALSE]
                 ELSE Step(run[n - 1], f[n])
  IN run

Meaning(f) == Run(f)[Len(f)]

\* The instructions that drecompile joins to the one before them.
Joined(f) ==
  {k \in 2..Len(f) : f[k][1] = f[k - 1][1] /\ f[k][1] \in {"add", "sub", "imul", "div"}}

Operand(f, n) == IF f[n][1] = "div" THEN Run(f)[n - 1].dl ELSE f[n][2]

(* The sum or the product of the operands of a run up to its instruction   *)
(* n, if the instructions of J continue one.                               *)
Value(f, J) ==
  LET value[n \in 0..Len(f)] ==
        IF n = 0 THEN 0
        ELSE IF n \notin J THEN Operand(f, n)
        ELSE IF f[n][1] \in {"add", "sub"} THEN value[n - 1] + Operand(f, n)
        ELSE value[n - 1] * Operand(f, n)
  IN value

\* Instruction m is the last of the first n that moves a byte to dl.
LastMove(f, m, n) ==
  /\ m \in 1..n /\ f[m][1] = "movdl"
  /\ \A k \in m + 1..n : f[k][1] # "movdl"

\* Division n neither faults nor leaves a remainder.
Exact(f, n) ==
  LET s == Run(f)[n - 1]
  IN ~s.bad /\ ~DivFaults(s.eax, s.dl) /\ (s.eax % 65536) % s.dl = 0

(* Functions that merging does not change: no sum follows a difference or  *)
(* the other way round, no sum or product of a run exceeds a signed byte,  *)
(* no operand of a move to dl is taken for an imul, no run is merged       *)
(* before a move to dl, the divisions by what was moved to dl are in runs  *)
(* of the same value, and those of a run leave no remainder, for it would  *)
(* stay in ah.                                                             *)
Mergeable(f) ==
  LET J == Joined(f)
  IN /\ \A k \in 2..Len(f) : {f[k - 1][1], f[k][1]} # {"add", "sub"}
     /\ \A n \in 1..Len(f) :
          Value(f, J)[n] <= IF f[n][1] = "div" THEN 255 ELSE 127
     /\ \A m \in 1..Len(f) :
          f[m][1] = "movdl" => f[m][2] # 107 /\ \A k \in J : m < k
     /\ \A m, k, n \in 1..Len(f) :
          /\ f[k][1] = "div" /\ k + 1 \notin J /\ LastMove(f, m, k)
          /\ f[n][1] = "div" /\ n + 1 \notin J /\ LastMove(f, m, n)
          => Value(f, J)[k] = Value(f, J)[n]
     /\ \A n \in J : f[n][1] = "div" => Exact(f, n - 1) /\ Exact(f, n)

(* The code that is called returns what the function returns, and faults   *)
(* only where a division of it does.                                       *)
SameResult ==
  at \in {"returned", "fault"} /\ (dynamic => Mergeable(function)) =>
    /\ at = "returned" => ~Meaning(function).bad /\ eax = Meaning(function).eax
    /\ at = "fault" /\ memory[0] # 0 => Meaning(function).bad

(* The loop writes where it has read: what it has still to look at is as   *)
(* the test program left it, though both are the same memory.              *)
InPlace ==
  at \in {"scan", "merge"} /\ memory[0] # 0 =>
    /\ j <= i
    /\ \A k \in i + 1..Len(CodeOf(function)) :
         memory[k - 1] = CodeOf(function)[k]

\* The loop ends on every page.
ScanEnds == at \in {"scan", "merge"} ~> at \notin {"scan", "merge"}
=============================================================================
