-------------------------- MODULE RecompileProofs ---------------------------
(***************************************************************************)
(* Proofs about drecompile, for any functions and any size of the page:    *)
(* what it has still to read is as the test program left it, and the code  *)
(* that is called computes what the function computes.                     *)
(*                                                                         *)
(* A function has any number of instructions, so that the proofs are by    *)
(* induction over them.  An instruction joins the one before it, or begins *)
(* a run; J are those that join one.  Value is what a run comes to, and    *)
(* Layout, below, says where it is written.                                *)
(***************************************************************************)
EXTENDS Recompile, TLAPS, WellFoundedInduction

-----------------------------------------------------------------------------
(* Functions by recursion *)

(* A set of natural numbers has a least one. *)
LEMMA LeastNatural ==
  ASSUME NEW T \in SUBSET Nat, T # {}
  PROVE  \E x \in T : \A y \in T : x <= y
<1>1. IsWellFoundedOn(OpToRel(<, Nat), Nat)
  BY NatLessThanWellFounded
<1>2. PICK x \in T : \A y \in T : ~(<<y, x>> \in OpToRel(<, Nat))
  BY <1>1, WFMin, Zenon
<1>3. ASSUME NEW y \in T PROVE x <= y
  <2>1. ~(y < x)
    <3>1. x \in Nat /\ y \in Nat
      BY <1>2, <1>3
    <3> QED BY <1>2, <1>3, <3>1 DEF OpToRel
  <2> QED BY <2>1
<1> QED BY <1>3

(* Induction on the numbers up to N, for a set. *)
LEMMA Induction ==
  ASSUME NEW N \in Nat, NEW T, 0 \in T, \A n \in 1..N : n - 1 \in T => n \in T
  PROVE  \A n \in 0..N : n \in T
<1> SUFFICES ASSUME NEW m \in 0..N, m \notin T PROVE FALSE
  OBVIOUS
<1> DEFINE B == {n \in 0..N : n \notin T}
<1>1. PICK x \in B : \A y \in B : x <= y
  <2>1. B \in SUBSET Nat /\ B # {}
    OBVIOUS
  <2> QED BY <2>1, LeastNatural
<1>2. x \in 1..N /\ x - 1 \in 0..N /\ x - 1 \notin B
  BY <1>1
<1> QED BY <1>1, <1>2

(* The numbers below k, and below its predecessor. *)
LEMMA Before ==
  ASSUME NEW k \in Nat, k > 0
  PROVE  /\ k \in 0..k /\ k - 1 \in 0..k - 1 /\ k - 1 \in 0..k /\ k - 1 # k
         /\ 0 \in 0..k - 1 /\ 0 # k
         /\ \A n \in 0..k : n = k \/ n \in 0..k - 1
         /\ \A n \in 0..k - 1 : n \in 0..k /\ n # k
         /\ \A n \in 1..k : n = k \/ n \in 1..k - 1
         /\ \A n \in 1..k - 1 : n \in 0..k - 1 /\ n - 1 \in 0..k - 1
OBVIOUS

(* m begins with s, and m[n] follows from the value before it by G[n], up  *)
(* to k.                                                                   *)
Follow(m, s, G, k) == m[0] = s /\ \A n \in 1..k : m[n] = G[n][m[n - 1]]

(* The sequence that is only s. *)
LEMMA FollowBegins ==
  ASSUME NEW S, NEW s \in S, NEW G
  PROVE  \E m \in [0..0 -> S] : Follow(m, s, G, 0)
<1> DEFINE z == [n \in 0..0 |-> s]
<1>1. z \in [0..0 -> S] /\ z[0] = s
  OBVIOUS
<1>2. \A n \in 1..0 : FALSE
  OBVIOUS
<1> HIDE DEF z
<1> QED BY <1>1, <1>2 DEF Follow

(* A sequence is continued by the next value. *)
LEMMA FollowContinues ==
  ASSUME NEW S, NEW s \in S, NEW G, NEW k \in Nat, k > 0,
         NEW m \in [0..k - 1 -> S], Follow(m, s, G, k - 1), G[k][m[k - 1]] \in S
  PROVE  \E h \in [0..k -> S] : Follow(h, s, G, k)
<1>1. PICK g \in [0..k -> S] : g[k] = G[k][m[k - 1]] /\ \A n \in 0..k - 1 : g[n] = m[n]
  <2>1. \A x \in S : \E g \in [0..k -> S] : g[k] = x /\ \A n \in 0..k - 1 : g[n] = m[n]
    <3> TAKE x \in S
    <3> DEFINE g == [n \in 0..k |-> IF n = k THEN x ELSE m[n]]
    <3>1. g \in [0..k -> S]
      BY Before
    <3>2. g[k] = x /\ \A n \in 0..k - 1 : g[n] = m[n]
      BY Before
    <3> QED BY <3>1, <3>2
  <2> QED BY <2>1, Zenon
<1>2. g[0] = s
  BY <1>1, Before, Zenon DEF Follow
<1>3. g[k] = G[k][g[k - 1]]
  BY <1>1, Before, Zenon
<1>4. ASSUME NEW n \in 1..k - 1 PROVE g[n] = G[n][g[n - 1]]
  <2>1. n \in 0..k - 1 /\ n - 1 \in 0..k - 1
    BY Before, Zenon
  <2>2. m[n] = G[n][m[n - 1]]
    BY Zenon DEF Follow
  <2> QED BY <1>1, <2>1, <2>2, Zenon
<1>5. Follow(g, s, G, k)
  BY <1>2, <1>3, <1>4, Before, Zenon DEF Follow
<1> QED BY <1>1, <1>5

(* So that there is one of every length: what is defined by recursion on   *)
(* n, with each value made from the one before it, is a function.          *)
LEMMA Recursion ==
  ASSUME NEW N \in Nat, NEW S, NEW s \in S, NEW G \in [1..N -> [S -> S]]
  PROVE  \E m \in [0..N -> S] : Follow(m, s, G, N)
<1> DEFINE E(k) == \E m \in [0..k -> S] : Follow(m, s, G, k)
           T == {k \in 0..N : E(k)}
<1>1. E(0)
  BY FollowBegins
<1>2. ASSUME NEW k \in 1..N, E(k - 1) PROVE E(k)
  <2>1. PICK m \in [0..k - 1 -> S] : Follow(m, s, G, k - 1)
    BY <1>2
  <2>2. k \in Nat /\ k > 0
    OBVIOUS
  <2>3. m[k - 1] \in S
    BY <2>2, Before
  <2>4. G[k][m[k - 1]] \in S
    BY <2>3
  <2> QED BY <2>1, <2>2, <2>4, FollowContinues
<1> HIDE DEF E
<1>3. 0 \in T /\ \A k \in 1..N : k - 1 \in T => k \in T
  <2>1. 0 \in T
    BY <1>1
  <2>2. \A k \in 1..N : k \in 0..N
    OBVIOUS
  <2> QED BY <1>2, <2>1, <2>2
<1>4. E(N)
  <2>1. \A n \in 0..N : n \in T
    <3> HIDE DEF T
    <3> QED BY <1>3, Induction
  <2>2. N \in 0..N
    OBVIOUS
  <2> QED BY <2>1, <2>2
<1> QED BY <1>4 DEF E

-----------------------------------------------------------------------------
(* The instructions, and their code *)

(* The bytes of an instruction. *)
Width(ins) == IF ins[1] \in {"mov", "movdl", "div"} THEN 2 ELSE 3

(* The states of the processor: Run(f) goes through them. *)
State == [eax : Int, dl : Byte, bad : BOOLEAN]

(* An instruction has a name and an immediate, and is two or three bytes. *)
LEMMA InstructionIs ==
  ASSUME NEW ins \in Instruction
  PROVE  /\ ins[1] \in Names /\ ins[2] \in 0..127 /\ ins[2] \in Byte
         /\ Bytes(ins) \in Seq(Byte) /\ Len(Bytes(ins)) = Width(ins)
         /\ Width(ins) \in {2, 3}
<1>1. ins[1] \in Names /\ ins[2] \in 0..127 /\ ins[2] \in Byte
  BY DEF Instruction, Byte
<1>2. /\ {2, 137, 200, 178, 131, 192, 232, 107, 246, 242} \subseteq Byte
  BY DEF Byte
<1>3. CASE ins[1] \in {"mov", "movdl", "div"}
  <2>1. Len(Bytes(ins)) = 2 /\ Bytes(ins) \in Seq(Byte)
    BY <1>1, <1>2, <1>3 DEF Bytes
  <2> QED BY <1>1, <1>3, <2>1 DEF Width
<1>4. CASE ins[1] \in {"add", "sub", "imul"}
  <2>1. Len(Bytes(ins)) = 3 /\ Bytes(ins) \in Seq(Byte)
    BY <1>1, <1>2, <1>4 DEF Bytes
  <2> QED BY <1>1, <1>4, <2>1 DEF Width
<1> QED BY <1>1, <1>3, <1>4 DEF Names

(* A quotient and a remainder are put into an integer. *)
LEMMA DividedInt ==
  ASSUME NEW a \in Int, NEW d \in Byte, d # 0
  PROVE  Divided(a, d) \in Int
<1> DEFINE ax == a % 65536
           rest == ax % d
           quotient == ax \div d
<1>1. Divided(a, d) = (a - ax) + rest * 256 + quotient
  BY DEF Divided
<1>2. ax \in Int
  OBVIOUS
<1> HIDE DEF ax
<1>3. rest \in Int /\ quotient \in Int
  BY <1>2 DEF Byte
<1> HIDE DEF rest, quotient
<1> QED BY <1>1, <1>2, <1>3

(* An instruction leads from a state to a state. *)
LEMMA StepIs ==
  ASSUME NEW s \in State, NEW ins \in Instruction
  PROVE  Step(s, ins) \in State
<1>1. ins[1] \in Names /\ ins[2] \in Byte /\ ins[2] \in Int
  <2>1. ins[1] \in Names /\ ins[2] \in 0..127 /\ ins[2] \in Byte
    BY InstructionIs
  <2> QED BY <2>1
<1>2. /\ s.eax \in Int /\ s.dl \in Byte /\ s.bad \in BOOLEAN
      /\ s.eax + ins[2] \in Int /\ s.eax - ins[2] \in Int /\ s.eax * ins[2] \in Int
      /\ ~DivFaults(s.eax, s.dl) => Divided(s.eax, s.dl) \in Int
  <2>1. s.eax \in Int /\ s.dl \in Byte /\ s.bad \in BOOLEAN
    BY DEF State
  <2>2. s.eax + ins[2] \in Int /\ s.eax - ins[2] \in Int /\ s.eax * ins[2] \in Int
    <3> DEFINE a == s.eax
               b == ins[2]
    <3>1. a \in Int /\ b \in Int
      BY <1>1, <2>1
    <3> HIDE DEF a, b
    <3>2. a + b \in Int /\ a - b \in Int /\ a * b \in Int
      BY <3>1
    <3> QED BY <3>2 DEF a, b
  <2>3. ~DivFaults(s.eax, s.dl) => Divided(s.eax, s.dl) \in Int
    BY <2>1, DividedInt DEF DivFaults
  <2> QED BY <2>1, <2>2, <2>3
<1>3. CASE ins[1] = "div"
  <2>1. CASE s.bad \/ DivFaults(s.eax, s.dl)
    BY <1>2, <1>3, <2>1 DEF Step, State
  <2>2. CASE ~s.bad /\ ~DivFaults(s.eax, s.dl)
    <3>1. Step(s, ins) = [s EXCEPT !.eax = Divided(s.eax, s.dl)]
      BY <1>3, <2>2 DEF Step
    <3>2. Divided(s.eax, s.dl) \in Int
      BY <1>2, <2>2
    <3> QED BY <1>2, <3>1, <3>2 DEF State
  <2> QED BY <2>1, <2>2
<1>4. CASE ins[1] # "div"
  BY <1>1, <1>2, <1>4 DEF Step, State, Names
<1> QED BY <1>3, <1>4

(* Run(f) is defined, by recursion, for every function. *)
LEMMA RunIs ==
  ASSUME NEW f \in Seq(Instruction)
  PROVE  /\ Run(f) \in [0..Len(f) -> State]
         /\ Run(f)[0] = [eax |-> 1, dl |-> 0, bad |-> FALSE]
         /\ \A n \in 1..Len(f) : Run(f)[n] = Step(Run(f)[n - 1], f[n])
<1> DEFINE N == Len(f)
           s0 == [eax |-> 1, dl |-> 0, bad |-> FALSE]
           G == [n \in 1..N |-> [x \in State |-> Step(x, f[n])]]
<1>1. N \in Nat /\ \A n \in 1..N : f[n] \in Instruction
  OBVIOUS
<1>2. s0 \in State
  BY DEF State, Byte
<1>3. G \in [1..N -> [State -> State]]
  BY <1>1, StepIs
<1> HIDE DEF s0
<1>4. \E m \in [0..N -> State] : Follow(m, s0, G, N)
  <2>1. N \in Nat
    BY <1>1
  <2> HIDE DEF G, N
  <2> QED BY <2>1, <1>2, <1>3, Recursion
<1>5. PICK m \in [0..N -> State] : m[0] = s0 /\ \A n \in 1..N : m[n] = G[n][m[n - 1]]
  BY <1>4 DEF Follow
<1>6. m = [n \in 0..N |-> IF n = 0 THEN s0 ELSE Step(m[n - 1], f[n])]
  <2>1. ASSUME NEW n \in 1..N PROVE m[n] = Step(m[n - 1], f[n])
    <3>1. n - 1 \in 0..N
      BY <1>1
    <3>2. m[n - 1] \in State
      BY <3>1
    <3> QED BY <1>5, <3>2
  <2>2. \A n \in 0..N : n = 0 \/ n \in 1..N
    BY <1>1
  <2> HIDE DEF G, N
  <2> QED BY <1>5, <2>1, <2>2
<1>7. Run(f) = CHOOSE h : h = [n \in 0..N |-> IF n = 0 THEN s0 ELSE Step(h[n - 1], f[n])]
  BY DEF Run, s0
<1>8. Run(f) = [n \in 0..N |-> IF n = 0 THEN s0 ELSE Step(Run(f)[n - 1], f[n])]
  BY <1>6, <1>7
<1> DEFINE T == {n \in 0..N : Run(f)[n] \in State}
<1> HIDE DEF N
<1>9. Run(f)[0] = s0 /\ \A n \in 1..N : Run(f)[n] = Step(Run(f)[n - 1], f[n])
  BY <1>1, <1>8
<1>10. 0 \in T /\ \A n \in 1..N : n - 1 \in T => n \in T
  BY <1>1, <1>2, <1>9, StepIs
<1>11. \A n \in 0..N : Run(f)[n] \in State
  <2>1. \A n \in 0..N : n \in T
    <3> HIDE DEF T
    <3> QED BY <1>1, <1>10, Induction
  <2> QED BY <2>1
<1>12. Run(f) \in [0..N -> State]
  BY <1>8, <1>11
<1> QED BY <1>9, <1>12 DEF N, s0

(* Compiled(f) is defined, by recursion, for every function. *)
LEMMA CompiledIs ==
  ASSUME NEW f \in Seq(Instruction)
  PROVE  /\ Compiled(f) \in [0..Len(f) -> Seq(Byte)]
         /\ Compiled(f)[0] = <<>>
         /\ \A n \in 1..Len(f) : Compiled(f)[n] = Compiled(f)[n - 1] \o Bytes(f[n])
<1> DEFINE N == Len(f)
           s0 == <<>>
           S == Seq(Byte)
           G == [n \in 1..N |-> [x \in S |-> x \o Bytes(f[n])]]
<1>1. N \in Nat /\ \A n \in 1..N : f[n] \in Instruction
  OBVIOUS
<1>2. s0 \in S
  OBVIOUS
<1>3. \A n \in 1..N, x \in S : x \o Bytes(f[n]) \in S
  BY <1>1, InstructionIs
<1> HIDE DEF s0, S
<1>4. G \in [1..N -> [S -> S]]
  BY <1>3
<1>5. \E m \in [0..N -> S] : Follow(m, s0, G, N)
  <2>1. N \in Nat
    BY <1>1
  <2> HIDE DEF G, N
  <2> QED BY <1>2, <1>4, <2>1, Recursion
<1>6. PICK m \in [0..N -> S] : m[0] = s0 /\ \A n \in 1..N : m[n] = G[n][m[n - 1]]
  BY <1>5 DEF Follow
<1>7. m = [n \in 0..N |-> IF n = 0 THEN s0 ELSE m[n - 1] \o Bytes(f[n])]
  <2>1. ASSUME NEW n \in 1..N PROVE m[n] = m[n - 1] \o Bytes(f[n])
    <3>1. n - 1 \in 0..N
      BY <1>1
    <3>2. m[n - 1] \in S
      BY <3>1
    <3> QED BY <1>6, <3>2
  <2>2. \A n \in 0..N : n = 0 \/ n \in 1..N
    BY <1>1
  <2> HIDE DEF G, N
  <2> QED BY <1>6, <2>1, <2>2
<1>8. Compiled(f) = [n \in 0..N |-> IF n = 0 THEN s0 ELSE Compiled(f)[n - 1] \o Bytes(f[n])]
  <2>1. Compiled(f) = CHOOSE h : h = [n \in 0..N |-> IF n = 0 THEN s0 ELSE h[n - 1] \o Bytes(f[n])]
    BY DEF Compiled, s0
  <2> QED BY <1>7, <2>1
<1> DEFINE T == {n \in 0..N : Compiled(f)[n] \in S}
<1> HIDE DEF N
<1>9. Compiled(f)[0] = s0 /\ \A n \in 1..N : Compiled(f)[n] = Compiled(f)[n - 1] \o Bytes(f[n])
  BY <1>1, <1>8
<1>10. 0 \in T /\ \A n \in 1..N : n - 1 \in T => n \in T
  <2>1. 0 \in T
    BY <1>1, <1>2, <1>9
  <2>2. ASSUME NEW n \in 1..N, n - 1 \in T PROVE n \in T
    <3>1. Compiled(f)[n - 1] \in S
      BY <2>2
    <3>2. n \in 0..N
      BY <1>1
    <3> QED BY <1>3, <1>9, <3>1, <3>2
  <2> QED BY <2>1, <2>2
<1>11. \A n \in 0..N : n \in T
  <2> HIDE DEF T
  <2> QED BY <1>1, <1>10, Induction
<1>12. Compiled(f) \in [0..N -> S]
  BY <1>8, <1>11
<1> QED BY <1>9, <1>12 DEF N, s0, S

-----------------------------------------------------------------------------
(* Runs of instructions, and where they are written *)

(* The place of instruction n in the code as the test program left it.     *)
Off(f, n) == Len(Compiled(f)[n])

(* What becomes of the first n instructions, if those of J join the one    *)
(* before: how long it is, and the number of instructions before the last  *)
(* run.                                                                    *)
Layout(f, J) ==
  LET layout[n \in 0..Len(f)] ==
        IF n = 0 THEN [base |-> 0, end |-> 0]
        ELSE IF n \in J THEN layout[n - 1]
        ELSE [base |-> n - 1, end |-> layout[n - 1].end + Width(f[n])]
  IN layout

(* The end of what the first n instructions become. *)
End(f, J, n) == Layout(f, J)[n].end

(* The number of instructions before the run of instruction n. *)
Base(f, J, n) == Layout(f, J)[n].base

(* The place of what the run of instruction n becomes. *)
Pos(f, J, n) == End(f, J, n) - Width(f[n])

(* An operand is a byte. *)
LEMMA OperandIs ==
  ASSUME NEW f \in Seq(Instruction), NEW n \in 1..Len(f)
  PROVE  Operand(f, n) \in Byte /\ Operand(f, n) \in Nat
<1>1. n - 1 \in 0..Len(f) /\ f[n] \in Instruction
  OBVIOUS
<1>2. Run(f)[n - 1] \in State
  BY <1>1, RunIs
<1>3. f[n][2] \in Byte
  BY <1>1, InstructionIs
<1>4. Run(f)[n - 1].dl \in Byte
  BY <1>2 DEF State
<1>5. Operand(f, n) \in Byte
  BY <1>3, <1>4 DEF Operand
<1>6. \A x \in Byte : x \in Nat
  BY DEF Byte
<1> QED BY <1>5, <1>6

(* What Value makes of x, the value up to the instruction before n. *)
ValueStep(f, J, n, x) ==
  IF n \notin J THEN Operand(f, n)
  ELSE IF f[n][1] \in {"add", "sub"} THEN x + Operand(f, n)
  ELSE x * Operand(f, n)

(* What Layout makes of x, where the instructions before n are. *)
LayoutStep(f, J, n, x) ==
  IF n \in J THEN x ELSE [base |-> n - 1, end |-> x.end + Width(f[n])]

(* A value is a natural number. *)
LEMMA ValueStepIs ==
  ASSUME NEW f \in Seq(Instruction), NEW J, NEW n \in 1..Len(f), NEW x \in Nat
  PROVE  ValueStep(f, J, n, x) \in Nat
<1>1. PICK y \in Nat : y = Operand(f, n)
  BY OperandIs
<1>2. x + y \in Nat /\ x * y \in Nat
  OBVIOUS
<1> QED BY <1>1, <1>2 DEF ValueStep

(* A place is a natural number. *)
LEMMA LayoutStepIs ==
  ASSUME NEW f \in Seq(Instruction), NEW J, NEW n \in 1..Len(f),
         NEW x \in [base : Nat, end : Nat]
  PROVE  LayoutStep(f, J, n, x) \in [base : Nat, end : Nat]
<1>1. n - 1 \in Nat /\ f[n] \in Instruction
  OBVIOUS
<1>2. Width(f[n]) \in Nat
  BY <1>1, InstructionIs
<1>3. x.end + Width(f[n]) \in Nat
  BY <1>2
<1> QED BY <1>1, <1>3 DEF LayoutStep

(* Value(f, J) is defined, by recursion, for every function. *)
LEMMA ValueIs ==
  ASSUME NEW f \in Seq(Instruction), NEW J
  PROVE  /\ Value(f, J) \in [0..Len(f) -> Nat]
         /\ Value(f, J)[0] = 0
         /\ \A n \in 1..Len(f) : Value(f, J)[n] = ValueStep(f, J, n, Value(f, J)[n - 1])
<1> DEFINE N == Len(f)
           s0 == 0
           S == Nat
           G == [n \in 1..N |-> [x \in S |-> ValueStep(f, J, n, x)]]
<1>1. N \in Nat /\ \A n \in 1..N : f[n] \in Instruction
  OBVIOUS
<1>2. s0 \in S
  OBVIOUS
<1>3. \A n \in 1..N, x \in S : ValueStep(f, J, n, x) \in S
  BY ValueStepIs
<1> HIDE DEF s0, S
<1>4. G \in [1..N -> [S -> S]]
  BY <1>3
<1>5. \E m \in [0..N -> S] : Follow(m, s0, G, N)
  <2>1. N \in Nat
    BY <1>1
  <2> HIDE DEF G, N
  <2> QED BY <1>2, <1>4, <2>1, Recursion
<1>6. PICK m \in [0..N -> S] : m[0] = s0 /\ \A n \in 1..N : m[n] = G[n][m[n - 1]]
  BY <1>5 DEF Follow
<1>7. m = [n \in 0..N |-> IF n = 0 THEN s0 ELSE ValueStep(f, J, n, m[n - 1])]
  <2>1. ASSUME NEW n \in 1..N PROVE m[n] = ValueStep(f, J, n, m[n - 1])
    <3>1. n - 1 \in 0..N
      BY <1>1
    <3>2. m[n - 1] \in S
      BY <3>1
    <3> QED BY <1>6, <3>2
  <2>2. \A n \in 0..N : n = 0 \/ n \in 1..N
    BY <1>1
  <2> HIDE DEF G, N
  <2> QED BY <1>6, <2>1, <2>2
<1>8. Value(f, J) = [n \in 0..N |-> IF n = 0 THEN s0 ELSE ValueStep(f, J, n, Value(f, J)[n - 1])]
  <2>1. Value(f, J) = CHOOSE h : h = [n \in 0..N |-> IF n = 0 THEN s0 ELSE ValueStep(f, J, n, h[n - 1])]
    BY DEF Value, ValueStep, s0
  <2> QED BY <1>7, <2>1
<1> DEFINE T == {n \in 0..N : Value(f, J)[n] \in S}
<1> HIDE DEF N
<1>9. Value(f, J)[0] = s0 /\ \A n \in 1..N : Value(f, J)[n] = ValueStep(f, J, n, Value(f, J)[n - 1])
  BY <1>1, <1>8
<1>10. 0 \in T /\ \A n \in 1..N : n - 1 \in T => n \in T
  <2>1. 0 \in T
    BY <1>1, <1>2, <1>9
  <2>2. ASSUME NEW n \in 1..N, n - 1 \in T PROVE n \in T
    <3>1. Value(f, J)[n - 1] \in S
      BY <2>2
    <3>2. n \in 0..N
      BY <1>1
    <3> QED BY <1>3, <1>9, <3>1, <3>2
  <2> QED BY <2>1, <2>2
<1>11. \A n \in 0..N : n \in T
  <2> HIDE DEF T
  <2> QED BY <1>1, <1>10, Induction
<1>12. Value(f, J) \in [0..N -> S]
  BY <1>8, <1>11
<1> QED BY <1>9, <1>12 DEF N, s0, S

(* Layout(f, J) is defined, by recursion, for every function. *)
LEMMA LayoutIs ==
  ASSUME NEW f \in Seq(Instruction), NEW J
  PROVE  /\ Layout(f, J) \in [0..Len(f) -> [base : Nat, end : Nat]]
         /\ Layout(f, J)[0] = [base |-> 0, end |-> 0]
         /\ \A n \in 1..Len(f) : Layout(f, J)[n] = LayoutStep(f, J, n, Layout(f, J)[n - 1])
<1> DEFINE N == Len(f)
           s0 == [base |-> 0, end |-> 0]
           S == [base : Nat, end : Nat]
           G == [n \in 1..N |-> [x \in S |-> LayoutStep(f, J, n, x)]]
<1>1. N \in Nat /\ \A n \in 1..N : f[n] \in Instruction
  OBVIOUS
<1>2. s0 \in S
  OBVIOUS
<1>3. \A n \in 1..N, x \in S : LayoutStep(f, J, n, x) \in S
  BY LayoutStepIs
<1> HIDE DEF s0, S
<1>4. G \in [1..N -> [S -> S]]
  BY <1>3
<1>5. \E m \in [0..N -> S] : Follow(m, s0, G, N)
  <2>1. N \in Nat
    BY <1>1
  <2> HIDE DEF G, N
  <2> QED BY <1>2, <1>4, <2>1, Recursion
<1>6. PICK m \in [0..N -> S] : m[0] = s0 /\ \A n \in 1..N : m[n] = G[n][m[n - 1]]
  BY <1>5 DEF Follow
<1>7. m = [n \in 0..N |-> IF n = 0 THEN s0 ELSE LayoutStep(f, J, n, m[n - 1])]
  <2>1. ASSUME NEW n \in 1..N PROVE m[n] = LayoutStep(f, J, n, m[n - 1])
    <3>1. n - 1 \in 0..N
      BY <1>1
    <3>2. m[n - 1] \in S
      BY <3>1
    <3> QED BY <1>6, <3>2
  <2>2. \A n \in 0..N : n = 0 \/ n \in 1..N
    BY <1>1
  <2> HIDE DEF G, N
  <2> QED BY <1>6, <2>1, <2>2
<1>8. Layout(f, J) = [n \in 0..N |-> IF n = 0 THEN s0 ELSE LayoutStep(f, J, n, Layout(f, J)[n - 1])]
  <2>1. Layout(f, J) = CHOOSE h : h = [n \in 0..N |-> IF n = 0 THEN s0 ELSE LayoutStep(f, J, n, h[n - 1])]
    BY DEF Layout, LayoutStep, s0
  <2> QED BY <1>7, <2>1
<1> DEFINE T == {n \in 0..N : Layout(f, J)[n] \in S}
<1> HIDE DEF N
<1>9. Layout(f, J)[0] = s0 /\ \A n \in 1..N : Layout(f, J)[n] = LayoutStep(f, J, n, Layout(f, J)[n - 1])
  BY <1>1, <1>8
<1>10. 0 \in T /\ \A n \in 1..N : n - 1 \in T => n \in T
  <2>1. 0 \in T
    BY <1>1, <1>2, <1>9
  <2>2. ASSUME NEW n \in 1..N, n - 1 \in T PROVE n \in T
    <3>1. Layout(f, J)[n - 1] \in S
      BY <2>2
    <3>2. n \in 0..N
      BY <1>1
    <3> QED BY <1>3, <1>9, <3>1, <3>2
  <2> QED BY <2>1, <2>2
<1>11. \A n \in 0..N : n \in T
  <2> HIDE DEF T
  <2> QED BY <1>1, <1>10, Induction
<1>12. Layout(f, J) \in [0..N -> S]
  BY <1>8, <1>11
<1> QED BY <1>9, <1>12 DEF N, s0, S

(* Instructions that may join the one before: some of those that           *)
(* drecompile joins.                                                       *)
Plan(f, J) == f \in Seq(Instruction) /\ J \in SUBSET Joined(f)

(* The names of the instructions that are merged. *)
Grouped == {"add", "sub", "imul", "div"}

(* The instructions of a function are instructions. *)
LEMMA AccessIs ==
  ASSUME NEW f \in Seq(Instruction)
  PROVE  /\ Len(f) \in Nat
         /\ \A n \in 1..Len(f) : f[n][1] \in Names /\ f[n][2] \in 0..127 /\ Width(f[n]) \in {2, 3}
<1>1. Len(f) \in Nat /\ \A n \in 1..Len(f) : f[n] \in Instruction
  OBVIOUS
<1> QED BY <1>1, InstructionIs

(* An instruction that joins another has its name. *)
LEMMA JoinedIs ==
  ASSUME NEW f, NEW J, Plan(f, J), NEW n \in J
  PROVE  /\ n \in 2..Len(f) /\ n \in 1..Len(f) /\ n - 1 \in 1..Len(f)
         /\ f[n][1] = f[n - 1][1] /\ f[n][1] \in Grouped
         /\ Width(f[n]) = Width(f[n - 1])
<1>1. n \in 2..Len(f) /\ f[n][1] = f[n - 1][1] /\ f[n][1] \in Grouped
  BY DEF Plan, Joined, Grouped
<1>2. Len(f) \in Nat
  BY DEF Plan
<1> QED BY <1>1, <1>2 DEF Width

(* An instruction that joins another takes no place; one that does not is  *)
(* written behind the run before it.                                       *)
LEMMA LayoutRules ==
  ASSUME NEW f, NEW J, Plan(f, J)
  PROVE  /\ End(f, J, 0) = 0
         /\ \A n \in 0..Len(f) : End(f, J, n) \in Nat /\ Base(f, J, n) \in Nat
         /\ \A n \in 1..Len(f) :
              /\ n \in J => End(f, J, n) = End(f, J, n - 1) /\ Base(f, J, n) = Base(f, J, n - 1)
              /\ n \notin J => End(f, J, n) = End(f, J, n - 1) + Width(f[n]) /\ Base(f, J, n) = n - 1
<1>1. f \in Seq(Instruction)
  BY DEF Plan
<1> USE <1>1, LayoutIs
<1>2. End(f, J, 0) = 0
  BY DEF End
<1>3. ASSUME NEW n \in 0..Len(f) PROVE End(f, J, n) \in Nat /\ Base(f, J, n) \in Nat
  BY DEF End, Base
<1>4. ASSUME NEW n \in 1..Len(f)
      PROVE  /\ n \in J => End(f, J, n) = End(f, J, n - 1) /\ Base(f, J, n) = Base(f, J, n - 1)
             /\ n \notin J => End(f, J, n) = End(f, J, n - 1) + Width(f[n]) /\ Base(f, J, n) = n - 1
  <2>1. Layout(f, J)[n] = LayoutStep(f, J, n, Layout(f, J)[n - 1])
    OBVIOUS
  <2>2. CASE n \in J
    <3>1. Layout(f, J)[n] = Layout(f, J)[n - 1]
      BY <2>1, <2>2 DEF LayoutStep
    <3> QED BY <2>2, <3>1 DEF End, Base
  <2>3. CASE n \notin J
    <3>1. Layout(f, J)[n] = [base |-> n - 1, end |-> Layout(f, J)[n - 1].end + Width(f[n])]
      BY <2>1, <2>3 DEF LayoutStep
    <3> QED BY <2>3, <3>1 DEF End, Base
  <2> QED BY <2>2, <2>3
<1> QED BY <1>2, <1>3, <1>4

(* More instructions become no shorter code. *)
LEMMA EndGrows ==
  ASSUME NEW f, NEW J, Plan(f, J), NEW n \in 0..Len(f), NEW m \in 0..n
  PROVE  End(f, J, m) <= End(f, J, n)
<1> DEFINE N == Len(f)
           e(k) == End(f, J, k)
           T == {k \in 0..N : \A h \in 0..k : e(h) <= e(k)}
<1>1. N \in Nat /\ \A k \in 1..N : Width(f[k]) \in Nat
  BY AccessIs DEF Plan
<1>2. /\ \A k \in 0..N : e(k) \in Nat
      /\ \A k \in 1..N : e(k) = e(k - 1) \/ e(k) = e(k - 1) + Width(f[k])
  BY LayoutRules
<1> HIDE DEF N, e
<1>3. 0 \in T
  BY <1>1, <1>2
<1>4. ASSUME NEW k \in 1..N, k - 1 \in T PROVE k \in T
  <2>1. k - 1 \in 0..N /\ k \in 0..N /\ e(k - 1) \in Nat /\ e(k) \in Nat /\ e(k - 1) <= e(k)
    <3>1. k - 1 \in 0..N /\ k \in 0..N
      BY <1>1
    <3> QED BY <3>1, <1>1, <1>2
  <2>2. \A h \in 0..k : h = k \/ h \in 0..k - 1
    OBVIOUS
  <2>3. \A h \in 0..k - 1 : h \in 0..N /\ e(h) \in Nat /\ e(h) <= e(k - 1)
    BY <1>1, <1>2, <1>4
  <2> QED BY <2>1, <2>2, <2>3
<1>5. \A k \in 0..N : k \in T
  <2> HIDE DEF T
  <2> QED BY <1>1, <1>3, <1>4, Induction
<1> QED BY <1>5 DEF N, e

(* The run of instruction n: those behind its base have its name, and but  *)
(* for the first of them join it.                                          *)
LEMMA BaseIs ==
  ASSUME NEW f, NEW J, Plan(f, J), NEW n \in 1..Len(f)
  PROVE  /\ Base(f, J, n) \in 0..n - 1 /\ Base(f, J, n) \in 0..Len(f)
         /\ Base(f, J, n) + 1 \notin J
         /\ \A k \in Base(f, J, n) + 2..n : k \in J
         /\ \A k \in Base(f, J, n) + 1..n : f[k][1] = f[n][1]
         /\ End(f, J, n) = End(f, J, Base(f, J, n)) + Width(f[n])
<1> DEFINE N == Len(f)
           b(k) == Base(f, J, k)
           P(k) == /\ b(k) \in 0..k - 1 /\ b(k) + 1 \notin J
                   /\ \A h \in b(k) + 2..k : h \in J
                   /\ \A h \in b(k) + 1..k : f[h][1] = f[k][1]
                   /\ End(f, J, k) = End(f, J, b(k)) + Width(f[k])
           T == {k \in 0..N : k = 0 \/ P(k)}
<1>1. N \in Nat
  BY AccessIs DEF Plan
<1>2. 0 \in T
  BY <1>1
<1>3. ASSUME NEW k \in 1..N, k - 1 \in T PROVE k \in T
  <2>1. CASE k \notin J
    <3>1. b(k) = k - 1 /\ End(f, J, k) = End(f, J, k - 1) + Width(f[k])
      BY <2>1, LayoutRules
    <3> HIDE DEF b
    <3>2. P(k)
      BY <2>1, <3>1
    <3> HIDE DEF P
    <3> QED BY <1>1, <3>2
  <2>2. CASE k \in J
    <3>1. b(k) = b(k - 1) /\ End(f, J, k) = End(f, J, k - 1)
      BY <2>2, LayoutRules
    <3>2. k - 1 \in 1..N /\ f[k][1] = f[k - 1][1] /\ Width(f[k]) = Width(f[k - 1])
      BY <2>2, JoinedIs
    <3>3. P(k - 1)
      BY <1>3, <3>2
    <3> HIDE DEF b
    <3>4. b(k) \in 0..k - 1
      BY <3>1, <3>2, <3>3
    <3>5. \A h \in b(k) + 1..k : h = k \/ h \in b(k - 1) + 1..k - 1
      BY <3>1, <3>4
    <3>6. \A h \in b(k) + 2..k : h = k \/ h \in b(k - 1) + 2..k - 1
      BY <3>1, <3>4
    <3>7. \A h \in b(k) + 2..k : h \in J
      BY <2>2, <3>3, <3>6
    <3>8. \A h \in b(k) + 1..k : f[h][1] = f[k][1]
      BY <3>2, <3>3, <3>5
    <3>9. b(k) + 1 \notin J /\ End(f, J, k) = End(f, J, b(k)) + Width(f[k])
      BY <3>1, <3>2, <3>3
    <3>10. P(k)
      BY <3>4, <3>7, <3>8, <3>9
    <3> HIDE DEF P
    <3> QED BY <1>1, <3>10
  <2> QED BY <2>1, <2>2
<1> HIDE DEF P
<1>4. \A k \in 0..N : k \in T
  <2> HIDE DEF T, N
  <2> QED BY <1>1, <1>2, <1>3, Induction
<1>5. P(n)
  BY <1>4
<1>6. n \in Nat /\ n <= Len(f)
  OBVIOUS
<1> QED BY <1>1, <1>5, <1>6 DEF P

(* What the run of instruction n becomes is as long as the instruction. *)
LEMMA PosIs ==
  ASSUME NEW f, NEW J, Plan(f, J), NEW n \in 1..Len(f)
  PROVE  /\ Pos(f, J, n) = End(f, J, Base(f, J, n)) /\ Pos(f, J, n) \in Nat
         /\ End(f, J, n) = Pos(f, J, n) + Width(f[n])
<1>1. /\ End(f, J, n) \in Nat /\ End(f, J, Base(f, J, n)) \in Nat
      /\ End(f, J, n) = End(f, J, Base(f, J, n)) + Width(f[n])
  <2>1. n \in 0..Len(f) /\ Base(f, J, n) \in 0..Len(f)
    BY BaseIs
  <2> QED BY <2>1, BaseIs, LayoutRules
<1>2. Width(f[n]) \in Nat
  BY AccessIs DEF Plan
<1> QED BY <1>1, <1>2 DEF Pos

(* What becomes of a run lies behind what becomes of the runs before it. *)
LEMMA Behind ==
  ASSUME NEW f, NEW J, Plan(f, J), NEW b \in 0..Len(f), b + 1 \notin J, NEW n \in b + 1..Len(f)
  PROVE  Base(f, J, n) >= b /\ End(f, J, b) <= Pos(f, J, n)
<1>1. n \in 1..Len(f) /\ b \in Nat
  OBVIOUS
<1>2. Base(f, J, n) \in 0..n - 1 /\ Base(f, J, n) \in 0..Len(f)
  BY <1>1, BaseIs
<1>3. Base(f, J, n) >= b
  <2>1. CASE Base(f, J, n) < b
    <3>1. b + 1 \in Base(f, J, n) + 2..n
      BY <1>1, <1>2, <2>1
    <3> QED BY <1>1, <3>1, BaseIs
  <2> QED BY <1>1, <1>2, <2>1
<1>4. b \in 0..Base(f, J, n)
  BY <1>1, <1>2, <1>3
<1>5. End(f, J, b) <= End(f, J, Base(f, J, n))
  BY <1>2, <1>4, EndGrows
<1> QED BY <1>1, <1>3, <1>5, PosIs

(* The run that begins behind instruction b. *)
LEMMA NextRun ==
  ASSUME NEW f, NEW J, Plan(f, J), NEW b \in 0..Len(f) - 1, b + 1 \notin J
  PROVE  \E n \in b + 1..Len(f) : n + 1 \notin J /\ Base(f, J, n) = b
<1> DEFINE T == {n \in b + 1..Len(f) : n + 1 \notin J}
<1>1. Len(f) \in Nat /\ b \in Nat /\ b \in 0..Len(f)
  BY AccessIs DEF Plan
<1>2. Len(f) \in T
  <2>1. Len(f) \in b + 1..Len(f)
    BY <1>1
  <2>2. Len(f) + 1 \notin J
    <3>1. Len(f) + 1 \notin 2..Len(f)
      BY <1>1
    <3> QED BY <3>1, JoinedIs
  <2> QED BY <2>1, <2>2
<1>3. T \in SUBSET Nat
  BY <1>1
<1>4. PICK n \in T : \A m \in T : n <= m
  <2> HIDE DEF T
  <2> QED BY <1>2, <1>3, LeastNatural
<1>5. n \in b + 1..Len(f) /\ n \in 1..Len(f) /\ n + 1 \notin J
  BY <1>1
<1>6. /\ Base(f, J, n) \in 0..n - 1 /\ Base(f, J, n) >= b
      /\ Base(f, J, n) + 1 \notin J
  BY <1>1, <1>5, BaseIs, Behind
<1>7. CASE Base(f, J, n) # b
  <2>1. Base(f, J, n) \in b + 1..Len(f) /\ Base(f, J, n) < n
    BY <1>1, <1>5, <1>6, <1>7
  <2>2. Base(f, J, n) \in T
    BY <1>6, <2>1
  <2>3. n <= Base(f, J, n)
    BY <1>4, <2>2
  <2>4. n \in Nat /\ Base(f, J, n) \in Nat
    BY <1>1, <1>5, <1>6
  <2> QED BY <2>1, <2>3, <2>4
<1> QED BY <1>5, <1>7

(* What becomes of an instruction is two bytes at least. *)
LEMMA EndRoom ==
  ASSUME NEW f, NEW J, Plan(f, J), NEW n \in 1..Len(f)
  PROVE  End(f, J, n) >= 2
<1>1. Pos(f, J, n) \in Nat /\ End(f, J, n) = Pos(f, J, n) + Width(f[n]) /\ Width(f[n]) \in {2, 3}
  BY PosIs, AccessIs DEF Plan
<1> QED BY <1>1

-----------------------------------------------------------------------------

(* The bytes of one code and of another behind it. *)
LEMMA Concatenated ==
  ASSUME NEW s \in Seq(Byte), NEW t \in Seq(Byte)
  PROVE  /\ s \o t \in Seq(Byte) /\ Len(s \o t) = Len(s) + Len(t)
         /\ Len(s) \in Nat /\ Len(t) \in Nat
         /\ \A p \in 1..Len(s) : (s \o t)[p] = s[p]
         /\ \A p \in 1..Len(t) : (s \o t)[Len(s) + p] = t[p]
OBVIOUS

(* An instruction lies behind the ones before it. *)
LEMMA OffIs ==
  ASSUME NEW f \in Seq(Instruction)
  PROVE  /\ Off(f, 0) = 0
         /\ \A n \in 0..Len(f) : Off(f, n) \in Nat
         /\ \A n \in 1..Len(f) : Off(f, n) = Off(f, n - 1) + Width(f[n])
<1>1. Off(f, 0) = 0
  <2>1. Compiled(f)[0] = <<>>
    BY CompiledIs
  <2> QED BY <2>1 DEF Off
<1>2. ASSUME NEW n \in 0..Len(f) PROVE Off(f, n) \in Nat
  <2>1. Compiled(f)[n] \in Seq(Byte)
    BY CompiledIs
  <2> QED BY <2>1 DEF Off
<1>3. ASSUME NEW n \in 1..Len(f) PROVE Off(f, n) = Off(f, n - 1) + Width(f[n])
  <2>1. n - 1 \in 0..Len(f) /\ f[n] \in Instruction
    OBVIOUS
  <2>2. Compiled(f)[n - 1] \in Seq(Byte) /\ Bytes(f[n]) \in Seq(Byte) /\ Len(Bytes(f[n])) = Width(f[n])
    BY <2>1, CompiledIs, InstructionIs
  <2>3. Compiled(f)[n] = Compiled(f)[n - 1] \o Bytes(f[n])
    BY CompiledIs
  <2>4. Len(Compiled(f)[n - 1] \o Bytes(f[n])) = Len(Compiled(f)[n - 1]) + Len(Bytes(f[n]))
    BY <2>2, Concatenated
  <2> QED BY <2>2, <2>3, <2>4 DEF Off
<1> QED BY <1>1, <1>2, <1>3

(* More instructions are no shorter code. *)
LEMMA OffGrows ==
  ASSUME NEW f \in Seq(Instruction), NEW n \in 0..Len(f), NEW m \in 0..n
  PROVE  Off(f, m) <= Off(f, n)
<1> DEFINE N == Len(f)
           e(k) == Off(f, k)
           T == {k \in 0..N : \A h \in 0..k : e(h) <= e(k)}
<1>1. N \in Nat /\ \A k \in 1..N : Width(f[k]) \in Nat
  BY AccessIs
<1>2. /\ \A k \in 0..N : e(k) \in Nat
      /\ \A k \in 1..N : e(k) = e(k - 1) + Width(f[k])
  BY OffIs
<1> HIDE DEF N, e
<1>3. 0 \in T
  BY <1>1, <1>2
<1>4. ASSUME NEW k \in 1..N, k - 1 \in T PROVE k \in T
  <2>1. k - 1 \in 0..N /\ k \in 0..N /\ e(k - 1) \in Nat /\ e(k) \in Nat /\ e(k - 1) <= e(k)
    <3>1. k - 1 \in 0..N /\ k \in 0..N
      BY <1>1
    <3> QED BY <3>1, <1>1, <1>2
  <2>2. \A h \in 0..k : h = k \/ h \in 0..k - 1
    OBVIOUS
  <2>3. \A h \in 0..k - 1 : h \in 0..N /\ e(h) \in Nat /\ e(h) <= e(k - 1)
    BY <1>1, <1>2, <1>4
  <2> QED BY <2>1, <2>2, <2>3
<1>5. \A k \in 0..N : k \in T
  <2> HIDE DEF T
  <2> QED BY <1>1, <1>3, <1>4, Induction
<1> QED BY <1>5 DEF N, e

(* What the loop has written is not longer than what it has read, and as   *)
(* long when nothing was joined.                                           *)
LEMMA EndOff ==
  ASSUME NEW f, NEW J, Plan(f, J), NEW n \in 0..Len(f)
  PROVE  /\ End(f, J, n) <= Off(f, n)
         /\ (\A k \in J : n < k) => End(f, J, n) = Off(f, n)
<1> DEFINE N == Len(f)
           e(k) == End(f, J, k)
           o(k) == Off(f, k)
           T == {k \in 0..N : e(k) <= o(k) /\ ((\A h \in J : k < h) => e(k) = o(k))}
<1>1. N \in Nat /\ \A k \in 1..N : Width(f[k]) \in Nat
  BY AccessIs DEF Plan
<1>2. /\ \A k \in 0..N : o(k) \in Nat /\ e(k) \in Nat
      /\ \A k \in 1..N : o(k) = o(k - 1) + Width(f[k])
      /\ o(0) = 0 /\ e(0) = 0
      /\ \A k \in 1..N : (k \in J /\ e(k) = e(k - 1)) \/ (k \notin J /\ e(k) = e(k - 1) + Width(f[k]))
  <2>1. /\ \A k \in 0..N : o(k) \in Nat
        /\ \A k \in 1..N : o(k) = o(k - 1) + Width(f[k])
        /\ o(0) = 0
    BY OffIs DEF Plan
  <2>2. \A k \in 0..N : e(k) \in Nat
    BY LayoutRules
  <2>3. e(0) = 0
    BY LayoutRules
  <2>4. \A k \in 1..N : (k \in J /\ e(k) = e(k - 1)) \/ (k \notin J /\ e(k) = e(k - 1) + Width(f[k]))
    BY LayoutRules
  <2> QED BY <2>1, <2>2, <2>3, <2>4
<1>3. \A h \in J : h \in Nat
  BY JoinedIs
<1> HIDE DEF N, e, o
<1>4. 0 \in T
  BY <1>1, <1>2
<1>5. ASSUME NEW k \in 1..N, k - 1 \in T PROVE k \in T
  <2>1. k - 1 \in 0..N /\ k \in 0..N
    BY <1>1
  <2>2. /\ e(k - 1) \in Nat /\ e(k) \in Nat /\ o(k - 1) \in Nat /\ o(k) \in Nat
        /\ Width(f[k]) \in Nat /\ e(k - 1) <= o(k - 1) /\ o(k) = o(k - 1) + Width(f[k])
        /\ ((k \in J /\ e(k) = e(k - 1)) \/ (k \notin J /\ e(k) = e(k - 1) + Width(f[k])))
    BY <1>1, <1>2, <1>5, <2>1
  <2>3. e(k) <= o(k)
    BY <2>2
  <2>4. ASSUME \A h \in J : k < h PROVE e(k) = o(k)
    <3>1. k \notin J
      BY <2>4
    <3>2. \A h \in J : k - 1 < h
      BY <1>3, <2>4
    <3>3. e(k - 1) = o(k - 1)
      BY <1>5, <3>2
    <3> QED BY <2>2, <3>1, <3>3
  <2> QED BY <2>1, <2>3, <2>4
<1>6. \A k \in 0..N : k \in T
  <2> HIDE DEF T
  <2> QED BY <1>1, <1>4, <1>5, Induction
<1> QED BY <1>6 DEF N, e, o

-----------------------------------------------------------------------------
(* The bytes of the code. *)

(* The code of fewer instructions is the beginning of that of more. *)
LEMMA Prefix ==
  ASSUME NEW f \in Seq(Instruction), NEW n \in 0..Len(f), NEW m \in 0..n
  PROVE  \A p \in 1..Off(f, m) : Compiled(f)[n][p] = Compiled(f)[m][p]
<1> DEFINE N == Len(f)
           c(k) == Compiled(f)[k]
           Q(k, h) == \A p \in 1..Off(f, h) : c(k)[p] = c(h)[p]
           T == {k \in 0..N : \A h \in 0..k : Q(k, h)}
<1>1. N \in Nat
  OBVIOUS
<1>2. ASSUME NEW k \in 0..N PROVE Q(k, k)
  OBVIOUS
<1>3. ASSUME NEW k \in 1..N, NEW h \in 0..k - 1, Q(k - 1, h) PROVE Q(k, h)
  <2>1. k - 1 \in 0..N /\ h \in 0..k - 1 /\ f[k] \in Instruction
    BY <1>1
  <2>2. /\ c(k - 1) \in Seq(Byte) /\ Bytes(f[k]) \in Seq(Byte)
        /\ c(k) = c(k - 1) \o Bytes(f[k])
    BY <2>1, CompiledIs, InstructionIs
  <2>3. Off(f, h) <= Off(f, k - 1) /\ Off(f, h) \in Nat /\ Off(f, k - 1) \in Nat
    <3>1. h \in 0..N
      BY <2>1, <1>1
    <3> QED BY <2>1, <3>1, OffGrows, OffIs
  <2>4. \A p \in 1..Off(f, h) : p \in 1..Len(c(k - 1))
    BY <2>3 DEF Off
  <2> HIDE DEF c
  <2>5. \A p \in 1..Len(c(k - 1)) : c(k)[p] = c(k - 1)[p]
    BY <2>2, Concatenated
  <2> QED BY <1>3, <2>4, <2>5
<1> HIDE DEF Q
<1>4. 0 \in T
  <2>1. \A h \in 0..0 : h = 0
    OBVIOUS
  <2>2. 0 \in 0..N
    BY <1>1
  <2> QED BY <1>2, <2>1, <2>2
<1>5. ASSUME NEW k \in 1..N, k - 1 \in T PROVE k \in T
  <2>1. k \in 0..N /\ \A h \in 0..k : h = k \/ h \in 0..k - 1
    BY <1>1
  <2> QED BY <1>2, <1>3, <1>5, <2>1
<1>6. \A k \in 0..N : k \in T
  <2> HIDE DEF T, N
  <2> QED BY <1>1, <1>4, <1>5, Induction
<1> QED BY <1>6 DEF Q

(* The bytes of instruction n, and the ret behind the last.                *)
LEMMA CodeIs ==
  ASSUME NEW f \in Seq(Instruction)
  PROVE  /\ CodeOf(f) \in Seq(Byte) /\ Len(CodeOf(f)) = Off(f, Len(f)) + 1
         /\ CodeOf(f)[Off(f, Len(f)) + 1] = Ret
         /\ \A n \in 1..Len(f) : \A c \in 1..Width(f[n]) :
              CodeOf(f)[Off(f, n - 1) + c] = Bytes(f[n])[c]
<1> DEFINE N == Len(f)
           all == Compiled(f)[N]
<1>1. N \in Nat /\ N \in 0..N
  OBVIOUS
<1>2. all \in Seq(Byte) /\ <<Ret>> \in Seq(Byte) /\ Len(all) = Off(f, N) /\ Len(<<Ret>>) = 1
  <2>1. all \in Seq(Byte)
    BY <1>1, CompiledIs
  <2>2. Ret \in Byte
    BY DEF Ret, Byte
  <2> QED BY <2>1, <2>2 DEF Off
<1>3. CodeOf(f) = all \o <<Ret>>
  BY DEF CodeOf
<1> HIDE DEF all
<1>4. /\ CodeOf(f) \in Seq(Byte) /\ Len(CodeOf(f)) = Off(f, N) + 1
      /\ \A p \in 1..Off(f, N) : CodeOf(f)[p] = all[p]
      /\ CodeOf(f)[Off(f, N) + 1] = Ret
  <2> DEFINE r == <<Ret>>
  <2>1. r \in Seq(Byte) /\ Len(r) = 1 /\ r[1] = Ret /\ 1 \in 1..Len(r) /\ CodeOf(f) = all \o r
    BY <1>2, <1>3
  <2> HIDE DEF r
  <2> QED BY <1>2, <2>1, Concatenated
<1>5. ASSUME NEW n \in 1..N, NEW c \in 1..Width(f[n])
      PROVE  CodeOf(f)[Off(f, n - 1) + c] = Bytes(f[n])[c]
  <2>1. n \in 0..N /\ n - 1 \in 0..N /\ f[n] \in Instruction
    BY <1>1
  <2>2. /\ Compiled(f)[n - 1] \in Seq(Byte) /\ Bytes(f[n]) \in Seq(Byte)
        /\ Len(Bytes(f[n])) = Width(f[n]) /\ Width(f[n]) \in Nat
        /\ Compiled(f)[n] = Compiled(f)[n - 1] \o Bytes(f[n])
        /\ Len(Compiled(f)[n - 1]) = Off(f, n - 1)
    <3>1. Compiled(f)[n - 1] \in Seq(Byte) /\ Compiled(f)[n] = Compiled(f)[n - 1] \o Bytes(f[n])
      BY <2>1, CompiledIs
    <3>2. /\ Bytes(f[n]) \in Seq(Byte) /\ Len(Bytes(f[n])) = Width(f[n])
          /\ Width(f[n]) \in Nat
      BY <2>1, InstructionIs
    <3> QED BY <3>1, <3>2 DEF Off
  <2>3. Compiled(f)[n][Off(f, n - 1) + c] = Bytes(f[n])[c]
    <3> DEFINE x == Compiled(f)[n - 1]
               y == Bytes(f[n])
    <3>1. /\ x \in Seq(Byte) /\ y \in Seq(Byte) /\ Compiled(f)[n] = x \o y
          /\ Len(x) = Off(f, n - 1) /\ c \in 1..Len(y)
      BY <2>2
    <3> HIDE DEF x, y
    <3>2. (x \o y)[Len(x) + c] = y[c]
      BY <3>1, Concatenated
    <3> QED BY <3>1, <3>2 DEF y
  <2>4. /\ Off(f, n) = Off(f, n - 1) + Width(f[n]) /\ Off(f, n - 1) \in Nat
        /\ Off(f, n) <= Off(f, N) /\ Off(f, n) \in Nat /\ Off(f, N) \in Nat
    BY <1>1, <2>1, OffIs, OffGrows
  <2>5. Off(f, n - 1) + c \in 1..Off(f, n) /\ Off(f, n - 1) + c \in 1..Off(f, N)
    BY <2>2, <2>4
  <2>6. all[Off(f, n - 1) + c] = Compiled(f)[n][Off(f, n - 1) + c]
    BY <1>1, <2>1, <2>5, Prefix DEF all
  <2> QED BY <1>4, <2>3, <2>5, <2>6
<1> HIDE DEF N
<1> QED BY <1>4, <1>5 DEF N

-----------------------------------------------------------------------------
(* The moves to dl, and what a run of instructions does *)

(* None of the first n instructions moves to dl. *)
Unmoved(f, n) == \A m \in 1..n : f[m][1] # "movdl"

\* A division by what no instruction has moved to dl.
Doomed(f) == \E n \in 1..Len(f) : f[n][1] = "div" /\ Unmoved(f, n)

(* What the proof needs of the instructions that are joined.               *)
Sound(f, J) ==
  /\ Plan(f, J)
  /\ \A n \in 1..Len(f) : Value(f, J)[n] <= IF f[n][1] = "div" THEN 255 ELSE 127
  /\ \A m \in 1..Len(f) : f[m][1] = "movdl" => \A k \in J : m < k
  /\ \A m, k, n \in 1..Len(f) :
       /\ f[k][1] = "div" /\ k + 1 \notin J /\ LastMove(f, m, k)
       /\ f[n][1] = "div" /\ n + 1 \notin J /\ LastMove(f, m, n)
       => Value(f, J)[k] = Value(f, J)[n]
  /\ \A n \in J : f[n][1] = "div" => Exact(f, n - 1) /\ Exact(f, n)

(* The instructions that drecompile joins, in a function that merging does *)
(* not change.                                                             *)
LEMMA SoundMerged ==
  ASSUME NEW f \in Seq(Instruction), Mergeable(f)
  PROVE  Sound(f, Joined(f))
BY DEF Mergeable, Sound, Plan

-----------------------------------------------------------------------------
(* The moves to dl. *)

(* What is the last move to dl after instruction n, and what it was        *)
(* before.                                                                 *)
LEMMA MoveRules ==
  ASSUME NEW f \in Seq(Instruction), NEW n \in 1..Len(f)
  PROVE  /\ f[n][1] = "movdl" => LastMove(f, n, n) /\ ~Unmoved(f, n)
         /\ f[n][1] # "movdl" =>
              /\ Unmoved(f, n) <=> Unmoved(f, n - 1)
              /\ \A m : LastMove(f, m, n) <=> LastMove(f, m, n - 1)
<1>1. n \in 1..n /\ \A k \in n + 1..n : FALSE
  OBVIOUS
<1>2. \A k \in 1..n : k = n \/ k \in 1..n - 1
  OBVIOUS
<1>3. \A k \in 1..n - 1 : k \in 1..n
  OBVIOUS
<1>4. \A m \in 1..n - 1 : /\ \A k \in m + 1..n : k = n \/ k \in m + 1..n - 1
                          /\ \A k \in m + 1..n - 1 : k \in m + 1..n
  OBVIOUS
<1>5. f[n][1] = "movdl" => LastMove(f, n, n) /\ ~Unmoved(f, n)
  BY <1>1 DEF LastMove, Unmoved
<1>6. ASSUME f[n][1] # "movdl" PROVE Unmoved(f, n) <=> Unmoved(f, n - 1)
  BY <1>2, <1>3, <1>6 DEF Unmoved
<1>7. ASSUME f[n][1] # "movdl", NEW m PROVE LastMove(f, m, n) <=> LastMove(f, m, n - 1)
  BY <1>2, <1>3, <1>4, <1>7 DEF LastMove
<1> QED BY <1>5, <1>6, <1>7

(* There is one last move. *)
LEMMA OneLastMove ==
  ASSUME NEW f, NEW n \in Nat, NEW m, NEW h, LastMove(f, m, n), LastMove(f, h, n)
  PROVE  m = h
<1>1. m \in 1..n /\ h \in 1..n
  BY DEF LastMove
<1>2. m < h => h \in m + 1..n
  BY <1>1
<1>3. h < m => m \in h + 1..n
  BY <1>1
<1>4. ~(m < h) /\ ~(h < m)
  BY <1>2, <1>3 DEF LastMove
<1> QED BY <1>1, <1>4

(* What an instruction does to dl, and to what has faulted. *)
LEMMA RunRules ==
  ASSUME NEW f \in Seq(Instruction), NEW n \in 1..Len(f)
  PROVE  /\ Run(f)[n - 1] \in State /\ Run(f)[n] \in State
         /\ Run(f)[n] = Step(Run(f)[n - 1], f[n])
         /\ Run(f)[n].dl = IF f[n][1] = "movdl" THEN f[n][2] ELSE Run(f)[n - 1].dl
         /\ Run(f)[n - 1].bad => Run(f)[n].bad
<1>1. n - 1 \in 0..Len(f) /\ n \in 0..Len(f)
  OBVIOUS
<1>2. /\ Run(f)[n - 1] \in State /\ Run(f)[n] \in State
      /\ Run(f)[n] = Step(Run(f)[n - 1], f[n])
  BY <1>1, RunIs
<1>3. f[n][1] \in Names
  BY AccessIs
<1> DEFINE s == Run(f)[n - 1]
<1>4. s \in State /\ Run(f)[n] = Step(s, f[n])
  BY <1>2
<1> HIDE DEF s
<1>5. CASE f[n][1] = "div"
  <2>1. CASE s.bad \/ DivFaults(s.eax, s.dl)
    <3>1. Run(f)[n] = [s EXCEPT !.bad = TRUE]
      BY <1>4, <1>5, <2>1 DEF Step
    <3>2. Run(f)[n].dl = s.dl /\ Run(f)[n].bad = TRUE
      BY <1>4, <3>1 DEF State
    <3> QED BY <1>2, <1>5, <3>2 DEF s
  <2>2. CASE ~(s.bad \/ DivFaults(s.eax, s.dl))
    <3>1. Run(f)[n] = [s EXCEPT !.eax = Divided(s.eax, s.dl)]
      BY <1>4, <1>5, <2>2 DEF Step
    <3>2. Run(f)[n].dl = s.dl /\ Run(f)[n].bad = s.bad
      BY <1>4, <3>1 DEF State
    <3> QED BY <1>2, <1>5, <3>2 DEF s
  <2> QED BY <2>1, <2>2
<1>6. CASE f[n][1] # "div"
  <2>1. /\ Run(f)[n].dl = IF f[n][1] = "movdl" THEN f[n][2] ELSE s.dl
        /\ Run(f)[n].bad = s.bad
    BY <1>3, <1>4, <1>6 DEF Step, State, Names
  <2> QED BY <1>2, <1>6, <2>1 DEF s
<1> QED BY <1>5, <1>6

(* What has faulted does not return. *)
LEMMA BadStays ==
  ASSUME NEW f \in Seq(Instruction), NEW n \in 0..Len(f), Run(f)[n].bad
  PROVE  Meaning(f).bad
<1> DEFINE N == Len(f)
           T == {k \in 0..N : k >= n => Run(f)[k].bad}
<1>1. N \in Nat /\ n \in Nat
  OBVIOUS
<1>2. 0 \in T
  BY <1>1
<1>3. ASSUME NEW k \in 1..N, k - 1 \in T PROVE k \in T
  <2>1. k \in 0..N /\ (k >= n => k = n \/ k - 1 >= n)
    BY <1>1
  <2>2. k - 1 >= n => Run(f)[k].bad
    BY <1>3, RunRules
  <2> QED BY <2>1, <2>2
<1>4. \A k \in 0..N : k \in T
  <2> HIDE DEF T, N
  <2> QED BY <1>1, <1>2, <1>3, Induction
<1>5. N \in 0..N /\ N >= n
  BY <1>1
<1> QED BY <1>4, <1>5 DEF Meaning

(* What dl holds was moved there by the last move, and is zero before one. *)
LEMMA DlIs ==
  ASSUME NEW f \in Seq(Instruction), NEW n \in 0..Len(f)
  PROVE  /\ Unmoved(f, n) => Run(f)[n].dl = 0
         /\ \A m : LastMove(f, m, n) => Run(f)[n].dl = f[m][2]
<1> DEFINE N == Len(f)
           Q(k) == /\ Unmoved(f, k) => Run(f)[k].dl = 0
                   /\ \A m : LastMove(f, m, k) => Run(f)[k].dl = f[m][2]
           T == {k \in 0..N : Q(k)}
<1>1. N \in Nat
  OBVIOUS
<1>2. Q(0)
  <2>1. \A m : ~LastMove(f, m, 0)
    BY DEF LastMove
  <2>2. Run(f)[0].dl = 0
    <3>1. Run(f)[0] = [eax |-> 1, dl |-> 0, bad |-> FALSE]
      BY RunIs
    <3> QED BY <3>1
  <2> QED BY <2>1, <2>2
<1>3. ASSUME NEW k \in 1..N, Q(k - 1) PROVE Q(k)
  <2>1. CASE f[k][1] = "movdl"
    <3>1. LastMove(f, k, k) /\ ~Unmoved(f, k) /\ Run(f)[k].dl = f[k][2]
      BY <2>1, MoveRules, RunRules
    <3>2. \A m : LastMove(f, m, k) => m = k
      BY <1>1, <3>1, OneLastMove
    <3> QED BY <3>1, <3>2
  <2>2. CASE f[k][1] # "movdl"
    <3>1. /\ Unmoved(f, k) <=> Unmoved(f, k - 1)
          /\ \A m : LastMove(f, m, k) <=> LastMove(f, m, k - 1)
          /\ Run(f)[k].dl = Run(f)[k - 1].dl
      BY <2>2, MoveRules, RunRules
    <3> QED BY <1>3, <3>1
  <2> QED BY <2>1, <2>2
<1> HIDE DEF Q
<1>4. 0 \in T /\ \A k \in 1..N : k - 1 \in T => k \in T
  <2>1. 0 \in 0..N /\ \A k \in 1..N : k \in 0..N
    BY <1>1
  <2> QED BY <1>2, <1>3, <2>1
<1>5. \A k \in 0..N : k \in T
  <2> HIDE DEF T, N
  <2> QED BY <1>1, <1>4, Induction
<1> QED BY <1>5 DEF Q

(* Up to n there is no move to dl, or a last one. *)
LEMMA MovedOrNot ==
  ASSUME NEW f \in Seq(Instruction), NEW n \in 0..Len(f)
  PROVE  Unmoved(f, n) \/ \E m \in 1..n : LastMove(f, m, n)
<1> DEFINE N == Len(f)
           Q(k) == Unmoved(f, k) \/ \E m \in 1..k : LastMove(f, m, k)
           T == {k \in 0..N : Q(k)}
<1>1. N \in Nat
  OBVIOUS
<1>2. Q(0)
  BY DEF Unmoved
<1>3. ASSUME NEW k \in 1..N, Q(k - 1) PROVE Q(k)
  <2>1. k \in 1..k /\ \A m \in 1..k - 1 : m \in 1..k
    OBVIOUS
  <2> QED BY <1>3, <2>1, MoveRules
<1> HIDE DEF Q
<1>4. 0 \in T /\ \A k \in 1..N : k - 1 \in T => k \in T
  <2>1. 0 \in 0..N /\ \A k \in 1..N : k \in 0..N
    BY <1>1
  <2> QED BY <1>2, <1>3, <2>1
<1>5. \A k \in 0..N : k \in T
  <2> HIDE DEF T, N
  <2> QED BY <1>1, <1>4, Induction
<1> QED BY <1>5 DEF Q

(* A division by what nothing was moved to faults. *)
LEMMA DoomedIsBad ==
  ASSUME NEW f \in Seq(Instruction), Doomed(f)
  PROVE  Meaning(f).bad
<1>1. PICK n \in 1..Len(f) : f[n][1] = "div" /\ Unmoved(f, n)
  BY DEF Doomed
<1>2. n - 1 \in 0..Len(f) /\ n \in 0..Len(f)
  OBVIOUS
<1>3. Run(f)[n - 1].dl = 0
  BY <1>1, <1>2, MoveRules, DlIs
<1>4. Run(f)[n].bad
  <2> DEFINE s == Run(f)[n - 1]
  <2>1. s \in State /\ Run(f)[n] = Step(s, f[n])
    BY RunRules
  <2>2. DivFaults(s.eax, s.dl)
    BY <1>3 DEF DivFaults
  <2> HIDE DEF s
  <2>3. Run(f)[n] = [s EXCEPT !.bad = TRUE]
    BY <1>1, <2>1, <2>2 DEF Step
  <2> QED BY <2>1, <2>3 DEF State
<1> QED BY <1>2, <1>4, BadStays

(* A division without remainder. *)
LEMMA ExactQuotient ==
  ASSUME NEW x \in Nat, NEW v \in Nat, v > 0, x % v = 0
  PROVE  x \div v \in Nat /\ x = v * (x \div v)
OBVIOUS

(* A product is divided by its factor. *)
LEMMA ExactProduct ==
  ASSUME NEW v \in Nat, v > 0, NEW q \in Nat
  PROVE  (v * q) % v = 0 /\ (v * q) \div v = q
OBVIOUS

(* A product of three. *)
LEMMA Times ==
  ASSUME NEW x \in Int, NEW y \in Int, NEW z \in Int
  PROVE  (x * y) * z = x * (y * z)
OBVIOUS

(* The quotient and the remainder of an integer. *)
LEMMA Remainder ==
  ASSUME NEW v \in Nat, v > 0, NEW a \in Int
  PROVE  \E t, r \in Int : t = a \div v /\ r = a % v /\ a = v * t + r
OBVIOUS

(* The remainder of a multiple and what is below the divisor. *)
LEMMA RemainderOf ==
  ASSUME NEW v \in Nat, v > 0, NEW t \in Int, NEW q \in 0..v - 1
  PROVE  (v * t + q) % v = q
OBVIOUS

\* The remainder of a is replaced by q.
Lowered(v, a, q) ==
  /\ a % v \in 0..v - 1 /\ a - (a % v) \in Int /\ (a - (a % v)) + q \in Int
  /\ ((a - (a % v)) + q) % v = q

(* What is put in the place of a remainder is the remainder. *)
LEMMA LowPart ==
  ASSUME NEW v \in Nat, v > 0, NEW a \in Int, NEW q \in 0..v - 1
  PROVE  Lowered(v, a, q)
<1>1. PICK t, r \in Int : t = a \div v /\ r = a % v /\ a = v * t + r
  BY Remainder
<1>2. r \in 0..v - 1
  <2>1. a % v \in 0..v - 1
    OBVIOUS
  <2> QED BY <1>1, <2>1
<1>3. v * t \in Int /\ a - r = v * t
  <2>1. PICK w \in Int : w = v * t
    OBVIOUS
  <2>2. a = w + r
    BY <1>1, <2>1
  <2>3. a - r = w
    BY <2>2
  <2> QED BY <2>1, <2>3
<1>4. (v * t + q) % v = q
  BY RemainderOf
<1> QED BY <1>1, <1>2, <1>3, <1>4 DEF Lowered

(* The low word of an integer is replaced by another, as div replaces ax. *)
LEMMA LowWord ==
  ASSUME NEW a \in Int, NEW q \in Nat, q <= 65535
  PROVE  /\ a % 65536 \in Nat /\ a - (a % 65536) \in Int /\ (a - (a % 65536)) + q \in Int
         /\ ((a - (a % 65536)) + q) % 65536 = q
<1>1. PICK v \in Nat : v = 65536
  OBVIOUS
<1>2. v > 0 /\ q \in 0..v - 1
  <2>1. v \in Int /\ q \in Int /\ 0 <= q /\ q <= v - 1 /\ v > 0
    BY <1>1
  <2> QED BY <2>1
<1>3. Lowered(v, a, q)
  BY <1>2, LowPart
<1>4. Lowered(65536, a, q)
  BY <1>1, <1>3
<1> QED BY <1>4 DEF Lowered

\* v divides the low word of a, with a quotient of a byte.
DividesWord(a, v) == v > 0 /\ ~DivFaults(a, v) /\ (a % 65536) % v = 0

(* Divisions of one run, one after the other and all at once. *)
LEMMA DividedTwice ==
  ASSUME NEW a \in Int, NEW v \in Nat, NEW d \in Nat, NEW y, y = Divided(a, v),
         DividesWord(a, v), DividesWord(y, d)
  PROVE  v * d \in Nat /\ DividesWord(a, v * d) /\ Divided(y, d) = Divided(a, v * d)
<1>1. /\ v > 0 /\ (a % 65536) % v = 0 /\ ~DivFaults(a, v)
      /\ ~DivFaults(Divided(a, v), d) /\ (Divided(a, v) % 65536) % d = 0
  BY DEF DividesWord
<1> DEFINE x == a % 65536
           q == x \div v
           r == q \div d
<1>2. x \in Nat /\ a - x \in Int /\ x % v = 0
  <2>1. 0 \in Nat /\ 0 <= 65535
    OBVIOUS
  <2> QED BY <1>1, <2>1, LowWord
<1>3. q \in Nat /\ x = v * q /\ q <= 255
  <2>1. ~(q > 255)
    BY <1>1 DEF DivFaults
  <2> HIDE DEF x
  <2>2. x \in Nat
    BY <1>2
  <2>3. q \in Nat /\ x = v * q
    BY <1>1, <1>2, <2>2, ExactQuotient
  <2> HIDE DEF q
  <2> QED BY <2>1, <2>3
<1>4. Divided(a, v) = (a - x) + q
  <2>1. Divided(a, v) = (a - x) + (x % v) * 256 + q
    BY DEF Divided
  <2>2. x % v = 0 /\ a - x \in Int /\ q \in Int
    BY <1>2, <1>3
  <2> HIDE DEF x, q
  <2>3. Divided(a, v) = (a - x) + 0 * 256 + q
    BY <2>1, <2>2
  <2> QED BY <2>2, <2>3
<1>5. Divided(a, v) \in Int /\ Divided(a, v) % 65536 = q
  <2>1. q \in Nat /\ q <= 65535
    <3> HIDE DEF q
    <3> QED BY <1>3
  <2>2. (a - x) + q \in Int /\ ((a - x) + q) % 65536 = q
    <3> HIDE DEF q
    <3> QED BY <2>1, LowWord
  <2> QED BY <1>4, <2>2
<1>6. d > 0 /\ ~(r > 255) /\ q % d = 0
  BY <1>1, <1>5 DEF DivFaults
<1>7. r \in Nat /\ q = d * r
  <2> HIDE DEF q
  <2> QED BY <1>3, <1>6, ExactQuotient
<1>8. Divided(Divided(a, v), d) = (a - x) + r
  <2>1. y % 65536 = q
    BY <1>5
  <2>2. Divided(Divided(a, v), d) = (Divided(a, v) - q) + (q % d) * 256 + r
    <3> DEFINE p == y % 65536
    <3>1. Divided(y, d) = (y - p) + (p % d) * 256 + p \div d
      BY DEF Divided
    <3>2. p = q
      BY <2>1
    <3> HIDE DEF p, q
    <3>3. Divided(y, d) = (y - q) + (q % d) * 256 + q \div d
      BY <3>1, <3>2
    <3> QED BY <3>3
  <2> HIDE DEF x, q, r
  <2>3. a - x \in Int
    BY <1>2
  <2> QED BY <1>3, <1>4, <1>6, <1>7, <2>2, <2>3
<1>9. v * d \in Nat /\ v * d > 0
  BY <1>1, <1>6
<1>10. x = (v * d) * r
  <2> HIDE DEF x, q, r
  <2>1. x = v * (d * r)
    BY <1>3, <1>7
  <2> QED BY <1>7, <2>1, Times
<1>11. x % (v * d) = 0 /\ x \div (v * d) = r
  <2> DEFINE w == v * d
  <2>1. w \in Nat /\ w > 0 /\ x = w * r /\ r \in Nat
    BY <1>7, <1>9, <1>10
  <2> HIDE DEF x, q, r, w
  <2>2. x % w = 0 /\ x \div w = r
    BY <2>1, ExactProduct
  <2> QED BY <2>2 DEF w
<1>12. ~DivFaults(a, v * d)
  BY <1>6, <1>9, <1>11 DEF DivFaults
<1>13. Divided(a, v * d) = (a - x) + r
  <2> DEFINE w == v * d
  <2>1. Divided(a, w) = (a - x) + (x % w) * 256 + x \div w
    BY DEF Divided
  <2>2. x % w = 0 /\ x \div w = r
    BY <1>11
  <2>3. a - x \in Int /\ r \in Nat
    BY <1>2, <1>7
  <2> HIDE DEF x, r, w
  <2>4. Divided(a, w) = (a - x) + 0 * 256 + r
    BY <2>1, <2>2
  <2>5. Divided(a, w) = (a - x) + r
    BY <2>3, <2>4
  <2> QED BY <2>5 DEF w
<1> QED BY <1>8, <1>9, <1>11, <1>12, <1>13 DEF DividesWord

-----------------------------------------------------------------------------
(* What a run of instructions does. *)

(* The value of a run, from the value before its last instruction. *)
LEMMA ValueRules ==
  ASSUME NEW f, NEW J, Plan(f, J), NEW n \in 1..Len(f)
  PROVE  /\ Value(f, J)[n] \in Nat
         /\ n \notin J => Value(f, J)[n] = Operand(f, n)
         /\ n \in J => /\ Value(f, J)[n - 1] \in Nat
                       /\ Value(f, J)[n] = IF f[n][1] \in {"add", "sub"}
                                           THEN Value(f, J)[n - 1] + Operand(f, n)
                                           ELSE Value(f, J)[n - 1] * Operand(f, n)
         /\ Operand(f, n) \in Byte /\ Operand(f, n) \in Nat
<1>1. f \in Seq(Instruction) /\ n \in 0..Len(f)
  BY DEF Plan
<1>2. n \in J => n - 1 \in 0..Len(f)
  BY JoinedIs
<1>3. Value(f, J)[n] \in Nat /\ (n \in J => Value(f, J)[n - 1] \in Nat)
  BY <1>1, <1>2, ValueIs
<1>4. Value(f, J)[n] = ValueStep(f, J, n, Value(f, J)[n - 1])
  BY <1>1, ValueIs
<1>5. Operand(f, n) \in Byte /\ Operand(f, n) \in Nat
  BY <1>1, OperandIs
<1> QED BY <1>3, <1>4, <1>5 DEF ValueStep

(* An instruction with operand v leads from s to r. *)
Did(name, v, s, r) ==
  /\ name \in {"mov", "movdl"} => r.eax = s.eax /\ r.bad = s.bad
  /\ name = "add" => r.eax = s.eax + v /\ r.bad = s.bad
  /\ name = "sub" => r.eax = s.eax - v /\ r.bad = s.bad
  /\ name = "imul" => r.eax = s.eax * v /\ r.bad = s.bad
  /\ name = "div" => /\ s.bad \/ DivFaults(s.eax, v) => r.bad
                     /\ ~s.bad /\ ~DivFaults(s.eax, v) => ~r.bad /\ r.eax = Divided(s.eax, v)

(* An instruction does what its name says, with its operand. *)
LEMMA StepDid ==
  ASSUME NEW f \in Seq(Instruction), NEW n \in 1..Len(f)
  PROVE  Did(f[n][1], Operand(f, n), Run(f)[n - 1], Run(f)[n])
<1> DEFINE s == Run(f)[n - 1]
           r == Run(f)[n]
<1>1. s \in State /\ r = Step(s, f[n])
  BY RunRules
<1>2. Operand(f, n) = IF f[n][1] = "div" THEN s.dl ELSE f[n][2]
  BY DEF Operand
<1>3. f[n][1] \in Names
  BY AccessIs
<1> HIDE DEF s, r
<1>4. CASE f[n][1] = "div"
  <2>1. CASE s.bad \/ DivFaults(s.eax, s.dl)
    <3>1. r = [s EXCEPT !.bad = TRUE]
      BY <1>1, <1>4, <2>1 DEF Step
    <3>2. r.bad = TRUE
      BY <1>1, <3>1 DEF State
    <3> QED BY <1>2, <1>4, <2>1, <3>2 DEF Did, s, r
  <2>2. CASE ~s.bad /\ ~DivFaults(s.eax, s.dl)
    <3>1. r = [s EXCEPT !.eax = Divided(s.eax, s.dl)]
      BY <1>1, <1>4, <2>2 DEF Step
    <3>2. r.eax = Divided(s.eax, s.dl) /\ r.bad = s.bad
      BY <1>1, <3>1 DEF State
    <3> QED BY <1>2, <1>4, <2>2, <3>2 DEF Did, s, r
  <2> QED BY <2>1, <2>2
<1>5. CASE f[n][1] # "div"
  <2>1. Did(f[n][1], f[n][2], s, r)
    BY <1>1, <1>3, <1>5 DEF Step, State, Names, Did
  <2> QED BY <1>2, <1>5, <2>1 DEF s, r
<1> QED BY <1>4, <1>5

(* A run of divisions may be one division by v. *)
Divides(s, v) == ~s.bad /\ DividesWord(s.eax, v)

(* A run does at once what its instructions do one after the other: adding *)
(* the sum, multiplying by the product, dividing by the product where no   *)
(* division of the run leaves a remainder.                                 *)
LEMMA RunDid ==
  ASSUME NEW f, NEW J, Sound(f, J), NEW n \in 1..Len(f)
  PROVE  Did(f[n][1], Value(f, J)[n], Run(f)[Base(f, J, n)], Run(f)[n])
<1> DEFINE N == Len(f)
           v(k) == Value(f, J)[k]
           s(k) == Run(f)[Base(f, J, k)]
           r(k) == Run(f)[k]
           Q(k) == /\ Did(f[k][1], v(k), s(k), r(k))
                   /\ f[k][1] = "div" /\ (k \in J \/ k + 1 \in J) => Divides(s(k), v(k))
           T == {k \in 0..N : k = 0 \/ Q(k)}
<1>1. Plan(f, J) /\ f \in Seq(Instruction) /\ N \in Nat
  BY AccessIs DEF Sound, Plan
<1>2. ASSUME NEW k \in 1..N, k \notin J PROVE Q(k)
  <2>1. v(k) = Operand(f, k) /\ Base(f, J, k) = k - 1 /\ v(k) \in Nat
    BY <1>1, <1>2, ValueRules, LayoutRules
  <2>2. Did(f[k][1], v(k), s(k), r(k))
    BY <1>1, <2>1, StepDid
  <2>3. ASSUME f[k][1] = "div", k + 1 \in J PROVE Divides(s(k), v(k))
    <3>1. f[k + 1][1] = "div" /\ (k + 1) - 1 = k
      BY <1>1, <2>3, JoinedIs
    <3>2. Exact(f, (k + 1) - 1)
      BY <2>3, <3>1 DEF Sound
    <3>3. Exact(f, k)
      BY <3>1, <3>2
    <3>4. v(k) = Run(f)[k - 1].dl /\ s(k) = Run(f)[k - 1]
      BY <2>1, <2>3 DEF Operand
    <3>5. ~s(k).bad /\ ~DivFaults(s(k).eax, v(k)) /\ (s(k).eax % 65536) % v(k) = 0
      BY <3>3, <3>4 DEF Exact
    <3> HIDE DEF v
    <3>6. v(k) # 0
      BY <3>5 DEF DivFaults
    <3>7. v(k) > 0
      BY <2>1, <3>6
    <3> QED BY <3>5, <3>7 DEF Divides, DividesWord
  <2> QED BY <1>2, <2>2, <2>3
<1>3. ASSUME NEW k \in J, Q(k - 1) PROVE Q(k)
  <2>1. /\ k \in 1..N /\ k - 1 \in 1..N /\ f[k][1] = f[k - 1][1] /\ f[k][1] \in Grouped
        /\ (k - 1) + 1 = k /\ k - 1 \in 0..N
    BY <1>1, JoinedIs
  <2>2. /\ v(k - 1) \in Nat /\ v(k) \in Nat /\ Operand(f, k) \in Nat
        /\ v(k) = IF f[k][1] \in {"add", "sub"} THEN v(k - 1) + Operand(f, k)
                                               ELSE v(k - 1) * Operand(f, k)
    BY <1>1, <1>3, <2>1, ValueRules
  <2>3. s(k) = s(k - 1)
    BY <1>1, <1>3, <2>1, LayoutRules
  <2>4. s(k) \in State /\ r(k - 1) \in State
    <3>1. Base(f, J, k) \in 0..N
      BY <1>1, <2>1, BaseIs
    <3> QED BY <1>1, <2>1, <3>1, RunIs
  <2>5. Did(f[k][1], Operand(f, k), r(k - 1), r(k))
    BY <1>1, <2>1, StepDid
  <2>6. Did(f[k][1], v(k - 1), s(k), r(k - 1))
    BY <1>3, <2>1, <2>3
  <2>7. s(k).eax \in Int
    BY <2>4 DEF State
  <2> DEFINE x == s(k).eax
             y == v(k - 1)
             z == Operand(f, k)
  <2>8. x \in Int /\ y \in Nat /\ z \in Nat
    BY <2>2, <2>7
  <2>9. CASE f[k][1] \in {"add", "sub"}
    <3>1. v(k) = y + z
      BY <2>2, <2>9
    <3> HIDE DEF v, x, y, z
    <3>2. (x + y) + z = x + (y + z) /\ (x - y) - z = x - (y + z)
      BY <2>8
    <3>3. Did(f[k][1], v(k), s(k), r(k))
      BY <2>5, <2>6, <2>9, <3>1, <3>2 DEF Did, x, y, z
    <3> QED BY <2>9, <3>3
  <2>10. CASE f[k][1] = "imul"
    <3>1. v(k) = y * z
      BY <2>2, <2>10
    <3> HIDE DEF v, x, y, z
    <3>2. (x * y) * z = x * (y * z)
      BY <2>8, Times
    <3>3. r(k).eax = (x * y) * z /\ r(k).bad = s(k).bad
      BY <2>5, <2>6, <2>10 DEF Did, x, y, z
    <3>4. Did(f[k][1], v(k), s(k), r(k))
      BY <2>10, <3>1, <3>2, <3>3 DEF Did, x
    <3> QED BY <2>10, <3>4
  <2>11. CASE f[k][1] = "div"
    <3>1. v(k) = y * z
      BY <2>2, <2>11
    <3>2. Divides(s(k), y)
      BY <1>3, <2>1, <2>3, <2>11
    <3>3. Exact(f, k) /\ z = r(k - 1).dl
      BY <1>3, <2>11 DEF Sound, Operand
    <3>4. ~r(k - 1).bad /\ ~DivFaults(r(k - 1).eax, z) /\ (r(k - 1).eax % 65536) % z = 0
      BY <3>3 DEF Exact
    <3> HIDE DEF v, y, z, s, r
    <3>5. r(k - 1).eax = Divided(s(k).eax, y)
      BY <2>6, <2>11, <3>2 DEF Did, Divides, DividesWord, y
    <3>6. r(k).eax = Divided(r(k - 1).eax, z) /\ ~r(k).bad
      BY <2>5, <2>11, <3>4 DEF Did, z
    <3>7. z > 0
      <4>1. z # 0
        BY <3>4 DEF DivFaults
      <4> QED BY <2>8, <4>1
    <3>8. /\ y * z \in Nat /\ DividesWord(s(k).eax, y * z)
           /\ Divided(r(k - 1).eax, z) = Divided(s(k).eax, y * z)
      <4>1. DividesWord(s(k).eax, y) /\ DividesWord(r(k - 1).eax, z)
        BY <3>2, <3>4, <3>7 DEF Divides, DividesWord
      <4> DEFINE a == s(k).eax
                 e == r(k - 1).eax
      <4>2. a \in Int /\ e = Divided(a, y) /\ DividesWord(a, y) /\ DividesWord(e, z)
        BY <2>7, <3>5, <4>1
      <4> HIDE DEF a, e
      <4>3. y * z \in Nat /\ DividesWord(a, y * z) /\ Divided(e, z) = Divided(a, y * z)
        BY <2>8, <4>2, DividedTwice
      <4> QED BY <4>3 DEF a, e
    <3>9. Divides(s(k), v(k))
      BY <3>1, <3>2, <3>8 DEF Divides
    <3>10. Did(f[k][1], v(k), s(k), r(k))
      BY <2>11, <3>1, <3>2, <3>6, <3>8 DEF Did, Divides, DividesWord
    <3> QED BY <3>9, <3>10
  <2> QED BY <2>1, <2>9, <2>10, <2>11 DEF Grouped
<1> HIDE DEF Q
<1>4. 0 \in T /\ \A k \in 1..N : k - 1 \in T => k \in T
  <2>1. 0 \in 0..N /\ \A k \in 1..N : k \in 0..N
    BY <1>1
  <2>2. \A k \in J : k - 1 # 0
    BY <1>1, JoinedIs
  <2> QED BY <1>2, <1>3, <2>1, <2>2
<1>5. \A k \in 0..N : k \in T
  <2> HIDE DEF T, N
  <2> QED BY <1>1, <1>4, Induction
<1>6. Q(n)
  <2>1. n \in 0..N /\ n # 0
    BY <1>1
  <2> QED BY <1>5, <2>1
<1> QED BY <1>6 DEF Q

(* Nothing is joined in the code that drecompile does not scan. *)
LEMMA SoundPlain ==
  ASSUME NEW f \in Seq(Instruction)
  PROVE  Sound(f, {})
<1>1. Plan(f, {})
  BY DEF Plan
<1>2. ASSUME NEW n \in 1..Len(f) PROVE Value(f, {})[n] = Operand(f, n) /\ Operand(f, n) \in Byte
  BY <1>1, ValueRules
<1>3. ASSUME NEW n \in 1..Len(f)
      PROVE Value(f, {})[n] <= IF f[n][1] = "div" THEN 255 ELSE 127
  <2>1. \A x \in Byte : x <= 255
    BY DEF Byte
  <2>2. \A x \in 0..127 : x <= 127
    OBVIOUS
  <2>3. f[n][2] \in 0..127
    BY AccessIs
  <2>4. CASE f[n][1] = "div"
    BY <1>2, <2>1, <2>4
  <2>5. CASE f[n][1] # "div"
    <3>1. Value(f, {})[n] = f[n][2]
      BY <1>2, <2>5 DEF Operand
    <3> QED BY <2>2, <2>3, <2>5, <3>1
  <2> QED BY <2>4, <2>5
<1>4. ASSUME NEW m, NEW k \in 1..Len(f), f[k][1] = "div", LastMove(f, m, k)
      PROVE Value(f, {})[k] = f[m][2]
  <2>1. k - 1 \in 0..Len(f) /\ LastMove(f, m, k - 1)
    BY <1>4, MoveRules
  <2>2. Run(f)[k - 1].dl = f[m][2]
    BY <2>1, DlIs
  <2> QED BY <1>2, <1>4, <2>2 DEF Operand
<1> QED BY <1>1, <1>3, <1>4 DEF Sound

-----------------------------------------------------------------------------
(* The page *)

(* Instruction k, as the last of its run, where it is called.              *)
Placed(f, J, k, mem) ==
  /\ mem[Pos(f, J, k)] = Bytes(f[k])[1]
  /\ Width(f[k]) = 3 =>
       /\ mem[Pos(f, J, k) + 2] = Value(f, J)[k]
       /\ \/ mem[Pos(f, J, k) + 1] = Bytes(f[k])[2]
          \/ Pos(f, J, k) = 0 /\ Doomed(f)

(* The first n instructions as they are called: the operand of a move to   *)
(* dl is the value of the divisions behind it.                             *)
Written(f, J, n, mem) ==
  /\ \A k \in 1..n : k + 1 \notin J => Placed(f, J, k, mem)
  /\ \A k \in 1..n : \A m \in 1..n :
       f[k][1] = "div" /\ k + 1 \notin J /\ LastMove(f, m, k) =>
         mem[Pos(f, J, m) + 1] = Value(f, J)[k]

(* The page from position p on is as the test program left it.             *)
Rest(f, p, mem) == \A k \in p + 1..Len(CodeOf(f)) : mem[k - 1] = CodeOf(f)[k]

(* The code of a function is bytes, and fits into the page with one to     *)
(* spare.                                                                  *)
LEMMA PageHolds ==
  /\ PageSize \in Nat
  /\ \A f \in Functions : /\ f \in Seq(Instruction)
                          /\ CodeOf(f) \in Seq(Byte) /\ Len(CodeOf(f)) \in Nat
                          /\ Len(CodeOf(f)) < PageSize
<1>1. \A f \in Functions : f \in Seq(Instruction)
  BY RecompileAssumption
<1>2. \A f \in Functions : CodeOf(f) \in Seq(Byte)
  BY <1>1, CodeIs
<1>3. ASSUME NEW f \in Functions PROVE Len(CodeOf(f)) \in Nat
  <2>1. CodeOf(f) \in Seq(Byte)
    BY <1>2
  <2> QED BY <2>1
<1> QED BY <1>1, <1>2, <1>3, RecompileAssumption

(* The bytes of an instruction tell its name. *)
LEMMA BytesAre ==
  ASSUME NEW ins \in Instruction
  PROVE  /\ Bytes(ins)[1] \in {137, 178, 131, 107, 246}
         /\ Bytes(ins)[1] = 137 <=> ins[1] = "mov"
         /\ Bytes(ins)[1] = 178 <=> ins[1] = "movdl"
         /\ Bytes(ins)[1] = 131 <=> ins[1] \in {"add", "sub"}
         /\ Bytes(ins)[1] = 107 <=> ins[1] = "imul"
         /\ Bytes(ins)[1] = 246 <=> ins[1] = "div"
         /\ ins[1] = "mov" => Bytes(ins)[2] = 200
         /\ ins[1] = "movdl" => Bytes(ins)[2] = ins[2]
         /\ ins[1] = "add" => Bytes(ins)[2] = 192
         /\ ins[1] = "sub" => Bytes(ins)[2] = 232
         /\ ins[1] \in {"add", "sub", "imul"} => Width(ins) = 3 /\ Bytes(ins)[3] = ins[2]
         /\ ins[1] \in {"mov", "movdl", "div"} => Width(ins) = 2
         /\ Bytes(ins)[1] \in Merged => Size(Bytes(ins)[1]) = Width(ins)
<1>1. ins[1] \in Names
  BY InstructionIs
<1>2. CASE ins[1] = "mov"
  BY <1>2 DEF Bytes, Width, Merged, Size
<1>3. CASE ins[1] = "movdl"
  BY <1>3 DEF Bytes, Width, Merged, Size
<1>4. CASE ins[1] = "add"
  BY <1>4 DEF Bytes, Width, Merged, Size
<1>5. CASE ins[1] = "sub"
  BY <1>5 DEF Bytes, Width, Merged, Size
<1>6. CASE ins[1] = "imul"
  BY <1>6 DEF Bytes, Width, Merged, Size
<1>7. CASE ins[1] = "div"
  BY <1>7 DEF Bytes, Width, Merged, Size
<1> QED BY <1>1, <1>2, <1>3, <1>4, <1>5, <1>6, <1>7 DEF Names

(* What of the page is as the test program left it holds the bytes of the  *)
(* instructions, and ret behind them.                                      *)
LEMMA RestIs ==
  ASSUME NEW f \in Functions, NEW p \in Nat, NEW mem, Rest(f, p, mem)
  PROVE  /\ p <= Off(f, Len(f)) => mem[Off(f, Len(f))] = Ret
         /\ Off(f, Len(f)) \in 0..PageSize - 1
         /\ \A n \in 1..Len(f) :
              /\ Off(f, n - 1) + Width(f[n]) \in 0..PageSize - 1
              /\ p <= Off(f, n - 1) => mem[Off(f, n - 1)] = Bytes(f[n])[1]
              /\ p <= Off(f, n - 1) + 1 => mem[Off(f, n - 1) + 1] = Bytes(f[n])[2]
              /\ p <= Off(f, n - 1) + 2 /\ Width(f[n]) = 3 =>
                   mem[Off(f, n - 1) + 2] = Bytes(f[n])[3]
<1> DEFINE L == Len(f)
           o(k) == Off(f, k)
           C == CodeOf(f)
<1>1. f \in Seq(Instruction) /\ L \in Nat /\ Len(C) < PageSize /\ PageSize \in Nat
  BY PageHolds
<1>2. /\ Len(C) = o(L) + 1 /\ C[o(L) + 1] = Ret
      /\ \A n \in 1..L : \A c \in 1..Width(f[n]) : C[o(n - 1) + c] = Bytes(f[n])[c]
  BY <1>1, CodeIs
<1>3. \A k \in p + 1..Len(C) : mem[k - 1] = C[k]
  BY DEF Rest
<1>4. L \in 0..L /\ o(L) \in Nat
  BY <1>1, OffIs
<1> HIDE DEF C
<1>5. o(L) \in 0..PageSize - 1 /\ (p <= o(L) => mem[o(L)] = Ret)
  <2> HIDE DEF o, L
  <2>1. o(L) \in 0..PageSize - 1
    BY <1>1, <1>2, <1>4
  <2>2. ASSUME p <= o(L) PROVE mem[o(L)] = Ret
    <3>1. o(L) + 1 \in p + 1..Len(C) /\ (o(L) + 1) - 1 = o(L)
      BY <1>2, <1>4, <2>2
    <3>2. mem[(o(L) + 1) - 1] = C[o(L) + 1]
      BY <1>3, <3>1
    <3> QED BY <1>2, <3>1, <3>2
  <2> QED BY <2>1, <2>2
<1>6. ASSUME NEW n \in 1..L
      PROVE  /\ o(n - 1) + Width(f[n]) \in 0..PageSize - 1
             /\ p <= o(n - 1) => mem[o(n - 1)] = Bytes(f[n])[1]
             /\ p <= o(n - 1) + 1 => mem[o(n - 1) + 1] = Bytes(f[n])[2]
             /\ p <= o(n - 1) + 2 /\ Width(f[n]) = 3 =>
                  mem[o(n - 1) + 2] = Bytes(f[n])[3]
  <2>1. n \in 0..L /\ n - 1 \in 0..L /\ Width(f[n]) \in {2, 3} /\ n \in 0..L
    BY <1>1, AccessIs
  <2>2. /\ o(n - 1) \in Nat /\ o(n) = o(n - 1) + Width(f[n]) /\ o(n) \in Nat /\ o(n) <= o(L)
    BY <1>1, <1>4, <2>1, OffIs, OffGrows
  <2> HIDE DEF o, L
  <2>3. ASSUME NEW c \in 1..Width(f[n]), p <= o(n - 1) + c - 1
        PROVE  mem[o(n - 1) + c - 1] = Bytes(f[n])[c]
    <3>1. o(n - 1) + c \in p + 1..Len(C) /\ (o(n - 1) + c) - 1 = o(n - 1) + c - 1
      <4> DEFINE a == o(n - 1)
                 w == Width(f[n])
      <4>1. a \in Nat /\ w \in Nat /\ a + w \in Nat /\ a + w <= o(L) /\ o(L) \in Nat /\ c \in 1..w
        BY <1>4, <2>1, <2>2
      <4>2. p <= a + c - 1 /\ Len(C) = o(L) + 1
        BY <1>2, <2>3
      <4> HIDE DEF a, w
      <4>3. a + c \in p + 1..Len(C) /\ (a + c) - 1 = a + c - 1
        BY <4>1, <4>2
      <4> QED BY <4>3 DEF a
    <3>2. mem[(o(n - 1) + c) - 1] = C[o(n - 1) + c]
      BY <1>3, <3>1
    <3>3. C[o(n - 1) + c] = Bytes(f[n])[c]
      BY <1>2
    <3> QED BY <3>1, <3>2, <3>3
  <2>4. o(n - 1) + Width(f[n]) \in 0..PageSize - 1
    BY <1>1, <1>2, <1>4, <2>1, <2>2
  <2>5. 1 \in 1..Width(f[n]) /\ 2 \in 1..Width(f[n]) /\ (Width(f[n]) = 3 => 3 \in 1..Width(f[n]))
    BY <2>1
  <2>6. /\ o(n - 1) + 1 - 1 = o(n - 1) /\ o(n - 1) + 2 - 1 = o(n - 1) + 1
        /\ o(n - 1) + 3 - 1 = o(n - 1) + 2
    BY <2>2
  <2> QED BY <2>3, <2>4, <2>5, <2>6
<1> HIDE DEF o, L
<1> QED BY <1>5, <1>6 DEF o, L

(* The place of an instruction and of the next one. *)
LEMMA NextOff ==
  ASSUME NEW f \in Seq(Instruction), NEW n \in 1..Len(f)
  PROVE  /\ n - 1 \in 0..Len(f) /\ n \in 0..Len(f)
         /\ Off(f, n - 1) \in Nat /\ Off(f, n) \in Nat
         /\ Off(f, n) = Off(f, n - 1) + Width(f[n]) /\ Width(f[n]) \in {2, 3}
<1>1. n - 1 \in 0..Len(f) /\ n \in 0..Len(f)
  OBVIOUS
<1> QED BY <1>1, OffIs, AccessIs

(* What is written below the end of instruction n stays so while the bytes *)
(* below stay.                                                             *)
LEMMA WrittenKept ==
  ASSUME NEW f, NEW J, Plan(f, J), NEW n \in 0..Len(f), NEW mem, NEW new,
         Written(f, J, n, mem), \A p \in 0..End(f, J, n) - 1 : new[p] = mem[p]
  PROVE  Written(f, J, n, new)
<1>1. ASSUME NEW k \in 1..n
      PROVE  /\ Pos(f, J, k) \in 0..End(f, J, n) - 1 /\ Pos(f, J, k) + 1 \in 0..End(f, J, n) - 1
             /\ Width(f[k]) = 3 => Pos(f, J, k) + 2 \in 0..End(f, J, n) - 1
  <2>1. k \in 1..Len(f) /\ k \in 0..n
    OBVIOUS
  <2>2. /\ Pos(f, J, k) \in Nat /\ End(f, J, k) = Pos(f, J, k) + Width(f[k])
        /\ Width(f[k]) \in {2, 3}
    BY <2>1, PosIs, AccessIs DEF Plan
  <2>3. End(f, J, k) <= End(f, J, n) /\ End(f, J, n) \in Nat
    BY <2>1, EndGrows, LayoutRules
  <2> QED BY <2>2, <2>3
<1>2. ASSUME NEW k \in 1..n, Placed(f, J, k, mem) PROVE Placed(f, J, k, new)
  BY <1>1, <1>2 DEF Placed
<1>3. ASSUME NEW m \in 1..n PROVE new[Pos(f, J, m) + 1] = mem[Pos(f, J, m) + 1]
  BY <1>1
<1> QED BY <1>2, <1>3 DEF Written

(* The instructions behind instruction b, as far as they are a run, are    *)
(* written too.                                                            *)
LEMMA WrittenRun ==
  ASSUME NEW f, NEW J, Plan(f, J), NEW n \in 1..Len(f), NEW mem,
         NEW b, b = Base(f, J, n),
         Written(f, J, b, mem),
         n + 1 \notin J => Placed(f, J, n, mem),
         \A m \in 1..n : f[n][1] = "div" /\ LastMove(f, m, n) =>
           mem[Pos(f, J, m) + 1] = Value(f, J)[n]
  PROVE  Written(f, J, n, mem)
<1>1. b \in 0..n - 1 /\ \A k \in b + 2..n : k \in J
  BY BaseIs
<1>2. \A k \in 1..n : k \in 1..b \/ k = n \/ (k \in 1..n /\ k + 1 \in b + 2..n)
  BY <1>1
<1>3. ASSUME NEW k \in 1..n, k + 1 \notin J PROVE k \in 1..b \/ k = n
  BY <1>1, <1>2, <1>3
<1>4. ASSUME NEW k \in 1..n, k + 1 \notin J PROVE Placed(f, J, k, mem)
  BY <1>3, <1>4 DEF Written
<1>5. ASSUME NEW k \in 1..n, NEW m \in 1..n,
             f[k][1] = "div", k + 1 \notin J, LastMove(f, m, k)
      PROVE  mem[Pos(f, J, m) + 1] = Value(f, J)[k]
  <2>1. CASE k = n
    BY <1>5, <2>1
  <2>2. CASE k \in 1..b
    <3>1. m \in 1..b
      BY <1>1, <1>5, <2>2 DEF LastMove
    <3> QED BY <1>5, <2>2, <3>1 DEF Written
  <2> QED BY <1>3, <1>5, <2>1, <2>2
<1> QED BY <1>4, <1>5 DEF Written

(* The code as the test program left it is written as it is.               *)
LEMMA Loaded ==
  ASSUME NEW f \in Functions, NEW mem, Rest(f, 0, mem)
  PROVE  /\ \A n \in 0..Len(f) : Written(f, {}, n, mem)
         /\ mem[End(f, {}, Len(f))] = Ret
<1>1. f \in Seq(Instruction) /\ Plan(f, {}) /\ Len(f) \in Nat
  BY PageHolds DEF Plan
<1>2. \A n \in 0..Len(f) : End(f, {}, n) = Off(f, n)
  BY <1>1, EndOff
<1>3. ASSUME NEW n \in 1..Len(f)
      PROVE  Pos(f, {}, n) = Off(f, n - 1) /\ Off(f, n - 1) \in Nat /\ Base(f, {}, n) = n - 1
  <2>1. End(f, {}, n) = Off(f, n) /\ Off(f, n) = Off(f, n - 1) + Width(f[n])
        /\ Off(f, n - 1) \in Nat /\ Width(f[n]) \in {2, 3}
    BY <1>1, <1>2, NextOff
  <2>2. Base(f, {}, n) = n - 1
    BY <1>1, LayoutRules
  <2> QED BY <2>1, <2>2 DEF Pos
<1>4. ASSUME NEW n \in 1..Len(f)
      PROVE  /\ mem[Pos(f, {}, n)] = Bytes(f[n])[1]
             /\ mem[Pos(f, {}, n) + 1] = Bytes(f[n])[2]
             /\ Width(f[n]) = 3 => mem[Pos(f, {}, n) + 2] = Bytes(f[n])[3]
  <2>1. 0 <= Off(f, n - 1) /\ 0 <= Off(f, n - 1) + 1 /\ 0 <= Off(f, n - 1) + 2
    BY <1>3
  <2> QED BY <1>3, <2>1, RestIs
<1>5. ASSUME NEW n \in 1..Len(f) PROVE Placed(f, {}, n, mem)
  <2>1. f[n] \in Instruction /\ f[n][1] \in Names
    BY <1>1, AccessIs
  <2>2. ASSUME Width(f[n]) = 3 PROVE Value(f, {})[n] = Bytes(f[n])[3]
    <3>1. f[n][1] \in {"add", "sub", "imul"}
      BY <2>1, <2>2 DEF Width, Names
    <3>2. Bytes(f[n])[3] = f[n][2]
      BY <2>1, <3>1, BytesAre
    <3>3. Value(f, {})[n] = Operand(f, n)
      BY <1>1, ValueRules
    <3> QED BY <3>1, <3>2, <3>3 DEF Operand
  <2> QED BY <1>4, <2>2 DEF Placed
<1>6. ASSUME NEW n \in 1..Len(f), NEW m, f[n][1] = "div", LastMove(f, m, n)
      PROVE  mem[Pos(f, {}, m) + 1] = Value(f, {})[n]
  <2>1. m \in 1..Len(f) /\ f[m][1] = "movdl"
    BY <1>6 DEF LastMove
  <2>2. mem[Pos(f, {}, m) + 1] = f[m][2]
    BY <1>1, <1>4, <2>1, BytesAre
  <2>3. n - 1 \in 0..Len(f) /\ LastMove(f, m, n - 1)
    BY <1>1, <1>6, MoveRules
  <2>4. Run(f)[n - 1].dl = f[m][2]
    BY <1>1, <2>3, DlIs
  <2>5. Value(f, {})[n] = Operand(f, n)
    BY <1>1, ValueRules
  <2> QED BY <1>6, <2>2, <2>4, <2>5 DEF Operand
<1>7. ASSUME NEW n \in 0..Len(f) PROVE Written(f, {}, n, mem)
  <2>1. \A k \in 1..n : k \in 1..Len(f)
    BY <1>1
  <2> QED BY <1>5, <1>6, <2>1 DEF Written
<1>8. mem[End(f, {}, Len(f))] = Ret
  <2>1. Len(f) \in 0..Len(f) /\ 0 <= Off(f, Len(f))
    BY <1>1, OffIs
  <2>2. mem[Off(f, Len(f))] = Ret
    BY <2>1, RestIs
  <2> QED BY <1>2, <2>1, <2>2
<1> QED BY <1>7, <1>8

-----------------------------------------------------------------------------
(* What the loop has still to read *)

ZeroPage == \A k \in 0..PageSize - 1 : memory[k] = 0

Code == CodeOf(function)

(* The page from i on is as the test program left it, the loop writes      *)
(* below i, and the byte behind the last mov dl is not above i.            *)
Ahead ==
  /\ j <= i /\ dl_reg <= i
  /\ i > 0 => dl_reg < i
  /\ \A k \in i + 1..Len(Code) : memory[k - 1] = Code[k]

(* In a run: another instruction of it is next, or there is room below i   *)
(* for what the run becomes.                                               *)
Room ==
  /\ op \in Merged
  /\ \/ i < PageSize /\ memory[i] = op
     \/ j + Size(op) <= i /\ dl_reg + 1 < i

Inv ==
  /\ TypeOK
  /\ at \in {"empty", "filled"} => i = 0 /\ j = 0 /\ dl_reg = 0
  /\ at = "empty" => ZeroPage
  /\ at = "filled" => Ahead
  /\ at = "scan" => ZeroPage \/ Ahead
  /\ at = "merge" => Ahead /\ Room

(* The code of a function fits into the page, with a byte to spare.        *)
LEMMA Page ==
  /\ PageSize \in Nat
  /\ \A f \in Functions : /\ CodeOf(f) \in Seq(Byte) /\ Len(CodeOf(f)) \in Nat
                          /\ Len(CodeOf(f)) < PageSize
BY PageHolds

(* The page is new, and nothing is read of it. *)
LEMMA InitInv == Init => Inv
BY Page DEF Init, Inv, TypeOK, ZeroPage, Byte

(* The test program fills the page with the code of its function. *)
LEMMA StepFill == ASSUME Inv, Fill PROVE Inv'
<1> USE DEF Inv, Fill, scanVars, cpuVars
<1>1. function \in Functions /\ Code \in Seq(Byte) /\ Len(Code) \in Nat /\ Len(Code) < PageSize
  BY Page DEF TypeOK, Code
<1>2. memory' = [k \in 0..PageSize - 1 |-> IF k < Len(Code) THEN Code[k + 1] ELSE 0]
  BY DEF Code
<1>3. \A k \in 1..Len(Code) : Code[k] \in Byte
  BY <1>1
<1>4. memory' \in [0..PageSize - 1 -> Byte]
  <2>1. \A k \in 0..PageSize - 1 : (IF k < Len(Code) THEN Code[k + 1] ELSE 0) \in Byte
    <3>1. 0 \in Byte
      BY DEF Byte
    <3>2. \A k \in 0..PageSize - 1 : k < Len(Code) => k + 1 \in 1..Len(Code)
      BY <1>1, Page
    <3> QED BY <1>3, <3>1, <3>2
  <2> QED BY <1>2, <2>1
<1>5. TypeOK'
  BY <1>4 DEF TypeOK
<1>6. i' = 0 /\ j' = 0 /\ dl_reg' = 0 /\ Code' = Code
  BY DEF Code
<1>7. \A k \in 1..Len(Code) : memory'[k - 1] = Code[k]
  BY <1>1, <1>2, Page
<1>8. Ahead'
  BY <1>6, <1>7 DEF Ahead
<1> QED BY <1>5, <1>6, <1>8

(* The page is scanned, or called as it is, filled or not. *)
LEMMA StepLaunch == ASSUME Inv, Launch PROVE Inv'
<1>1. /\ UNCHANGED <<function, dynamic, memory, scanVars, cpuVars>>
      /\ at \in {"empty", "filled"} /\ at' \in {"scan", "call"}
  BY DEF Launch
<1>2. TypeOK' /\ (at = "filled" => Ahead') /\ (at = "empty" => ZeroPage')
  BY <1>1 DEF Inv, TypeOK, Ahead, ZeroPage, Code, scanVars, cpuVars
<1> QED BY <1>1, <1>2 DEF Inv

-----------------------------------------------------------------------------
(* drecompile *)

(* The index of a byte that is readable is one of the page.                *)
LEMMA Inside ==
  ASSUME TypeOK, Readable
  PROVE  /\ i \in 0..PageSize - 1
         /\ at = "scan" /\ memory[i] = 178 => i + 1 \in 0..PageSize - 1
         /\ at = "merge" /\ memory[i] = op /\ op # 246 => i + 2 \in 0..PageSize - 1
BY Page DEF TypeOK, Readable, LastRead

(* A run is begun; the page was filled, for a new one is all zeros.        *)
LEMMA StepBegin == ASSUME Inv, BeginRun PROVE Inv'
<1> USE DEF Inv, BeginRun, cpuVars
<1>1. i \in 0..PageSize - 1 /\ memory[i] \in Merged /\ memory[i] # 0
  BY Inside DEF Merged
<1>2. TypeOK'
  <2>1. memory[i] \in Byte
    BY <1>1 DEF TypeOK
  <2>2. First(memory[i]) \in Byte
    BY DEF First, Byte
  <2> QED BY <2>1, <2>2 DEF TypeOK
<1>3. Ahead'
  BY <1>1 DEF ZeroPage, Ahead, Code
<1>4. Room'
  <2>1. i' = i /\ i < PageSize /\ memory' = memory /\ op' = memory[i] /\ memory[i] \in Merged
    BY <1>1, Page DEF TypeOK
  <2> QED BY <2>1 DEF Room
<1> QED BY <1>2, <1>3, <1>4

(* A run goes on, and leaves room for one instruction below it. *)
LEMMA StepContinue == ASSUME Inv, ContinueRun PROVE Inv'
<1> USE DEF Inv, ContinueRun, cpuVars
<1>1. /\ i \in 0..PageSize - 1 /\ Ahead /\ op \in Merged
      /\ op # 246 => i + 2 \in 0..PageSize - 1
  BY Inside DEF Room
<1>2. \A x \in Byte : Accumulated(x) \in Byte
  <2>1. \A n \in Int : n % 256 \in Byte
    BY DEF Byte
  <2>2. \A x \in Byte : tmp + x \in Int /\ tmp * x \in Int
    <3>1. \A x, y \in Int : x + y \in Int /\ x * y \in Int
      OBVIOUS
    <3>2. tmp \in Byte
      BY DEF TypeOK
    <3>3. tmp \in Int /\ \A x \in Byte : x \in Int
      BY <3>2 DEF Byte
    <3> QED BY <3>1, <3>3, Zenon
  <2> QED BY <2>1, <2>2 DEF Accumulated
<1>3. (IF op = 246 THEN dl_val ELSE memory[i + 2]) \in Byte
  BY <1>1 DEF TypeOK
<1>4. tmp' \in Byte
  BY <1>2, <1>3
<1>5. i' = i + Size(op) /\ Size(op) \in {2, 3} /\ i \in Nat /\ j \in Nat /\ dl_reg \in Nat
  BY DEF Size, TypeOK
<1>6. TypeOK'
  BY <1>4, <1>5 DEF TypeOK
<1>7. Ahead'
  <2>1. Code' = Code /\ Len(Code) \in Nat
    BY Page DEF Code, TypeOK
  <2>2. \A k \in i' + 1..Len(Code) : k \in i + 1..Len(Code)
    BY <1>5, <2>1
  <2> QED BY <1>1, <1>5, <2>1, <2>2 DEF Ahead
<1>8. Room'
  BY <1>1, <1>5 DEF Ahead, Room
<1> QED BY <1>6, <1>7, <1>8

(* A run ends: what it becomes is written below the index read.            *)
LEMMA StepEnd == ASSUME Inv, EndRun PROVE Inv'
<1> USE DEF Inv, EndRun, cpuVars
<1>1. /\ i \in 0..PageSize - 1 /\ Ahead /\ op \in Merged
      /\ j + Size(op) <= i /\ dl_reg + 1 < i
  BY Inside DEF Room
<1>2. /\ i \in Nat /\ j \in Nat /\ dl_reg \in Nat /\ tmp \in Byte
      /\ memory \in [0..PageSize - 1 -> Byte]
  BY DEF TypeOK
<1>3. /\ MergedCode \in [0..PageSize - 1 -> Byte]
      /\ \A k \in i..PageSize - 1 : MergedCode[k] = memory[k]
  <2>1. CASE op = 246
    <3>1. /\ j \in 0..PageSize - 1 /\ j + 1 \in 0..PageSize - 1 /\ dl_reg + 1 \in 0..PageSize - 1
          /\ i - 2 \in 0..PageSize - 1 /\ i - 1 \in 0..PageSize - 1
          /\ j < i /\ j + 1 < i /\ dl_reg + 1 < i
      BY <1>1, <1>2, <2>1, Page DEF Size
    <3> QED BY <1>2, <2>1, <3>1 DEF MergedCode
  <2>2. CASE op # 246
    <3>1. /\ j \in 0..PageSize - 1 /\ j + 1 \in 0..PageSize - 1 /\ j + 2 \in 0..PageSize - 1
          /\ i - 3 \in 0..PageSize - 1 /\ i - 2 \in 0..PageSize - 1
          /\ j < i /\ j + 1 < i /\ j + 2 < i
      BY <1>1, <1>2, <2>2, Page DEF Size
    <3> QED BY <1>2, <2>2, <3>1 DEF MergedCode
  <2> QED BY <2>1, <2>2
<1>4. j' = j + Size(op) /\ Size(op) \in {2, 3}
  BY DEF Size
<1>5. TypeOK'
  BY <1>2, <1>3, <1>4 DEF TypeOK
<1>6. Ahead'
  <2>1. Code' = Code /\ Len(Code) \in Nat /\ Len(Code) < PageSize
    BY Page DEF Code, TypeOK
  <2>2. \A k \in i + 1..Len(Code) : k - 1 \in i..PageSize - 1
    BY <1>2, <2>1, Page
  <2> QED BY <1>1, <1>3, <1>4, <2>1, <2>2 DEF Ahead
<1> QED BY <1>5, <1>6

(* A byte is copied to where it is, or below. *)
LEMMA StepCopy == ASSUME Inv, CopyByte PROVE Inv'
<1> USE DEF Inv, CopyByte, cpuVars
<1>1. i \in 0..PageSize - 1 /\ (memory[i] = 178 => i + 1 \in 0..PageSize - 1)
  BY Inside
<1>2. /\ i \in Nat /\ j \in Nat /\ dl_reg \in Nat
      /\ memory \in [0..PageSize - 1 -> Byte]
  BY DEF TypeOK
<1>3. memory' = [memory EXCEPT ![j] = memory[i]] /\ memory' \in [0..PageSize - 1 -> Byte]
  BY <1>1, <1>2
<1>4. dl_reg' \in Nat /\ dl_val' \in Byte /\ (dl_reg' = dl_reg \/ dl_reg' = i)
  BY <1>1, <1>2 DEF TypeOK
<1>5. TypeOK'
  BY <1>2, <1>3, <1>4 DEF TypeOK
<1>6. CASE ZeroPage
  <2>1. ZeroPage'
    BY <1>1, <1>2, <1>3, <1>6 DEF ZeroPage
  <2> QED BY <1>5, <2>1
<1>7. CASE Ahead
  <2>1. Code' = Code /\ Len(Code) \in Nat /\ Len(Code) < PageSize
    BY Page DEF Code, TypeOK
  <2>2. \A k \in i + 2..Len(Code) : k - 1 \in 0..PageSize - 1 /\ k - 1 # j /\ k \in i + 1..Len(Code)
    BY <1>2, <1>7, <2>1, Page DEF Ahead
  <2>3. Ahead'
    BY <1>2, <1>3, <1>4, <1>7, <2>1, <2>2 DEF Ahead
  <2> QED BY <1>5, <2>3
<1> QED BY <1>6, <1>7

(* The loop ends at ret, or behind the page. *)
LEMMA StepLeave == ASSUME Inv, Finish \/ Overrun PROVE Inv'
<1> USE DEF Inv, cpuVars, scanVars
<1>1. CASE Finish
  <2>1. memory' \in [0..PageSize - 1 -> Byte]
    <3>1. /\ memory \in [0..PageSize - 1 -> Byte] /\ Ret \in Byte
          /\ memory' = [memory EXCEPT ![j] = Ret]
      BY <1>1 DEF Finish, TypeOK, Ret, Byte
    <3> QED BY <3>1
  <2> QED BY <1>1, <2>1 DEF Finish, TypeOK
<1>2. CASE Overrun
  BY <1>2 DEF Overrun, TypeOK
<1> QED BY <1>1, <1>2

-----------------------------------------------------------------------------
(* The processor *)

(* The processor changes nothing of the page. *)
LEMMA StepCpu == ASSUME Inv, Execute \/ ExecuteZeros PROVE Inv'
<1> USE DEF Inv, cpuVars, scanVars
<1>1. CASE ExecuteZeros
  BY <1>1 DEF ExecuteZeros, TypeOK
<1>2. CASE Execute
  <2>1. at = "call" /\ UNCHANGED <<function, dynamic, memory, i, j, dl_reg, dl_val, op, tmp>>
    BY <1>2 DEF Execute
  <2>2. /\ ip \in 0..PageSize - 1 /\ ip + 1 \in 0..PageSize - 1 /\ ip + 2 \in 0..PageSize - 1
        /\ ip \in Nat
    BY <1>2, Page DEF Execute, TypeOK
  <2>3. memory[ip + 1] \in Byte /\ memory[ip + 2] \in Byte
    BY <2>2 DEF TypeOK
  <2>4. at' \in {"call", "returned", "fault"}
    BY <1>2 DEF Execute
  <2>5. ip' \in Nat /\ dl' \in Byte
    BY <1>2, <2>2, <2>3 DEF Execute, TypeOK
  <2>6. \A b \in Byte : Signed(b) \in Int
    BY DEF Signed, Byte
  <2>7. eax' \in Int
    <3>1. eax \in Int /\ dl \in Byte /\ Signed(memory[ip + 2]) \in Int
      BY <2>3, <2>6 DEF TypeOK
    <3>2. /\ eax + Signed(memory[ip + 2]) \in Int /\ eax - Signed(memory[ip + 2]) \in Int
          /\ eax * Signed(memory[ip + 2]) \in Int
      BY <3>1
    <3>3. ~DivFaults(eax, dl) => Divided(eax, dl) \in Int
      BY <3>1, DividedInt DEF DivFaults
    <3> QED BY <1>2, <3>1, <3>2, <3>3 DEF Execute
  <2>8. TypeOK'
    BY <2>1, <2>4, <2>5, <2>7 DEF TypeOK
  <2> QED BY <2>4, <2>8
<1> QED BY <1>1, <1>2

-----------------------------------------------------------------------------

(* Every step keeps the invariant. *)
LEMMA NextInv == Inv /\ [Next]_vars => Inv'
<1> SUFFICES ASSUME Inv, [Next]_vars PROVE Inv'
  OBVIOUS
<1>1. CASE UNCHANGED vars
  BY <1>1 DEF vars, scanVars, cpuVars, Inv, TypeOK, ZeroPage, Ahead, Room, Code
<1> QED
  BY <1>1, StepFill, StepLaunch, StepBegin, StepContinue, StepEnd, StepCopy, StepLeave, StepCpu
  DEF Next, drecompile

(* The invariant holds in every state. *)
THEOREM InvHolds == Spec => []Inv
BY InitInv, NextInv, PTL DEF Spec

(* Every byte of the page is a byte: no sum, product or immediate that the *)
(* loop writes is wider.                                                   *)
THEOREM Typed == Spec => []TypeOK
<1>1. Inv => TypeOK
  BY DEF Inv
<1> QED BY <1>1, InvHolds, PTL

(* What drecompile has still to read is as the test program left it,       *)
(* though it writes the same page.                                         *)
THEOREM ReadUnchanged == Spec => []InPlace
<1>1. Inv => InPlace
  <2> SUFFICES ASSUME Inv, at \in {"scan", "merge"}, memory[0] # 0
               PROVE  Ahead
    BY DEF InPlace, Ahead, Code
  <2>1. 0 \in 0..PageSize - 1
    BY Page DEF Inv, TypeOK
  <2>2. ~ZeroPage
    BY <2>1 DEF ZeroPage
  <2> QED BY <2>2 DEF Inv
<1> QED BY <1>1, InvHolds, PTL

-----------------------------------------------------------------------------
(* What is called does what the function does *)

(* What the loop keeps of the last move to dl.                             *)
Moved(f, n) ==
  /\ dl_val = Run(f)[n].dl
  /\ \/ Unmoved(f, n) /\ dl_reg = 0
     \/ \E m \in 1..n : LastMove(f, m, n) /\ dl_reg = Off(f, m - 1)

(* The loop is between two runs, or between the two bytes of a move. *)
Scanned(f, J) ==
  \E n \in 0..Len(f) :
    /\ n + 1 \notin J /\ Written(f, J, n, memory) /\ Moved(f, n)
    /\ \/ i = Off(f, n) /\ j = End(f, J, n) /\ Rest(f, i, memory)
       \/ /\ n > 0 /\ f[n][1] \in {"mov", "movdl"}
          /\ i + 1 = Off(f, n) /\ j + 1 = End(f, J, n)
          /\ Rest(f, i, memory)

(* The loop is within a run that begins behind instruction b, or at its    *)
(* end.                                                                    *)
Merging(f, J) ==
  \E b \in 0..Len(f) - 1, n \in 0..Len(f) :
    /\ b + 1 \notin J /\ op = Bytes(f[b + 1])[1]  /\ op \in Merged
    /\ Written(f, J, b, memory) /\ Moved(f, b) /\ Moved(f, n)
    /\ Rest(f, Off(f, b), memory)
    /\ i = Off(f, n) /\ j = End(f, J, b)
    /\ \/ n = b /\ tmp = First(op)
       \/ n > b /\ Base(f, J, n) = b /\ tmp = Value(f, J)[n]

(* The processor is at the end of instruction n, and has computed what the *)
(* function computes, if no division of it is sure to fault.               *)
Reached(f, J, n) ==
  /\ n + 1 \notin J /\ ip = End(f, J, n)
  /\ \/ Unmoved(f, n) /\ dl = 0
     \/ \E m \in 1..n : LastMove(f, m, n) /\ dl = memory[Pos(f, J, m) + 1]
  /\ \A k \in 1..n : f[k][1] = "div" => ~Unmoved(f, k)
  /\ ~Doomed(f) => eax = Run(f)[n].eax /\ ~Run(f)[n].bad

(* The whole code is written, and the processor is at the beginning of a   *)
(* run.                                                                    *)
Called(f, J) ==
  /\ Written(f, J, Len(f), memory)
  /\ memory[End(f, J, Len(f))] = Ret
  /\ \E n \in 0..Len(f) : Reached(f, J, n)

(* The instructions that drecompile joins, if it is built to scan at all. *)
Joins == IF dynamic THEN Joined(function) ELSE {}

(* Nothing was read yet. *)
Fresh == i = 0 /\ j = 0 /\ dl_reg = 0 /\ dl_val = 0 

(* Where the processes are, and what the page, the loop and the processor  *)
(* then hold: a page of zeros goes from stage to stage as it is, and the   *)
(* code of a function is there as the test program left it, scanned in     *)
(* part, scanned and called in part, or called and through with what the   *)
(* function computes.                                                      *)
Stage ==
  \/ at = "empty" /\ ZeroPage /\ Fresh
  \/ at \in {"scan", "call", "fault"} /\ ZeroPage /\ ip = 0
  \/ at = "filled" /\ Fresh /\ Rest(function, 0, memory) 
  \/ at = "scan" /\ dynamic /\ Scanned(function, Joins)
  \/ at = "merge" /\ dynamic /\ Merging(function, Joins)
  \/ at = "call" /\ Called(function, Joins)
  \/ at = "returned" /\ ~Meaning(function).bad /\ eax = Meaning(function).eax
  \/ at = "fault" /\ Meaning(function).bad

(* The processor has not started. *)
Started == at \in {"empty", "filled", "scan", "merge"} => ip = 0 /\ eax = 1 /\ dl = 0

(* The invariant, of functions that merging does not change or that are    *)
(* not merged.                                                             *)
Kept == Started /\ ((dynamic => Mergeable(function)) => Stage)

(* What is written up to n is written up to any instruction before. *)
LEMMA WrittenLess ==
  ASSUME NEW f, NEW J, NEW n \in Nat, NEW m \in 0..n, NEW mem, Written(f, J, n, mem)
  PROVE  Written(f, J, m, mem)
<1>1. \A k \in 1..m : k \in 1..n
  OBVIOUS
<1> QED BY <1>1 DEF Written

(* No instruction from n + 1 to k moves to dl. *)
LEMMA NoMove ==
  ASSUME NEW f, NEW n \in Nat, NEW k \in Nat, n <= k, \A h \in n + 1..k : f[h][1] # "movdl"
  PROVE  /\ Unmoved(f, k) <=> Unmoved(f, n)
         /\ \A m : LastMove(f, m, k) <=> LastMove(f, m, n)
<1>1. \A h \in 1..n : h \in 1..k
  OBVIOUS
<1>2. \A h \in 1..k : h \in 1..n \/ h \in n + 1..k
  OBVIOUS
<1>3. \A m \in 1..n : /\ \A h \in m + 1..k : h \in m + 1..n \/ h \in n + 1..k
                      /\ \A h \in m + 1..n : h \in m + 1..k
  OBVIOUS
<1>4. Unmoved(f, k) <=> Unmoved(f, n)
  BY <1>1, <1>2 DEF Unmoved
<1>5. ASSUME NEW m PROVE LastMove(f, m, k) <=> LastMove(f, m, n)
  BY <1>1, <1>2, <1>3 DEF LastMove
<1> QED BY <1>4, <1>5

(* A move to dl stays where it is, for nothing before it is joined.        *)
LEMMA MoveStays ==
  ASSUME NEW f, NEW J, Sound(f, J), NEW m \in 1..Len(f), f[m][1] = "movdl"
  PROVE  /\ Pos(f, J, m) = Off(f, m - 1) /\ Pos(f, J, m) = End(f, J, m - 1)
         /\ End(f, J, m) = Pos(f, J, m) + 2 /\ Width(f[m]) = 2
         /\ m \notin J /\ m + 1 \notin J
         /\ \A k \in 1..m - 1 : End(f, J, k) <= Pos(f, J, m)
<1>1. Plan(f, J) /\ f \in Seq(Instruction) /\ Len(f) \in Nat /\ m - 1 \in 0..Len(f)
  BY AccessIs DEF Sound, Plan
<1>2. \A k \in J : m < k /\ k \in Nat
  BY <1>1, JoinedIs DEF Sound
<1>3. m \notin J
  BY <1>2
<1>4. m + 1 \notin J
  <2>1. ASSUME m + 1 \in J PROVE FALSE
    <3>1. f[m + 1][1] = f[(m + 1) - 1][1] /\ f[m + 1][1] \in Grouped
      BY <1>1, <2>1, JoinedIs
    <3>2. (m + 1) - 1 = m
      OBVIOUS
    <3> QED BY <3>1, <3>2 DEF Grouped
  <2> QED BY <2>1
<1>5. End(f, J, m - 1) = Off(f, m - 1) /\ End(f, J, m - 1) \in Nat
  <2>1. \A k \in J : m - 1 < k
    BY <1>2
  <2> QED BY <1>1, <2>1, EndOff, LayoutRules
<1>6. Width(f[m]) = 2
  BY DEF Width
<1>7. End(f, J, m) = End(f, J, m - 1) + 2
  BY <1>1, <1>3, <1>6, LayoutRules
<1>8. Pos(f, J, m) = End(f, J, m - 1)
  BY <1>5, <1>6, <1>7 DEF Pos
<1>9. ASSUME NEW k \in 1..m - 1 PROVE End(f, J, k) <= End(f, J, m - 1)
  <2>1. k \in 0..m - 1
    OBVIOUS
  <2> QED BY <1>1, <2>1, EndGrows
<1> QED BY <1>3, <1>4, <1>5, <1>6, <1>7, <1>8, <1>9

(* The end of a run of divisions, whose value goes to the last move to dl. *)
LEMMA WrittenDiv ==
  ASSUME NEW f, NEW J, Sound(f, J), NEW n \in 1..Len(f), n + 1 \notin J, f[n][1] = "div",
         NEW b, b = Base(f, J, n), NEW mem, NEW new, NEW reg \in Nat,
         Written(f, J, b, mem),
         \A p \in 0..End(f, J, b) - 1 : p # reg + 1 => new[p] = mem[p],
         new[reg + 1] = Value(f, J)[n],
         reg + 1 # End(f, J, b) => new[End(f, J, b)] = Bytes(f[n])[1],
         \/ Unmoved(f, n) /\ reg = 0
         \/ \E m \in 1..n : LastMove(f, m, n) /\ reg = Off(f, m - 1)
  PROVE  Written(f, J, n, new)
<1>1. Plan(f, J) /\ f \in Seq(Instruction) /\ Len(f) \in Nat
  BY AccessIs DEF Sound, Plan
<1>2. /\ b \in 0..n - 1 /\ b \in 0..Len(f) /\ b + 1 \notin J /\ b \in Nat
      /\ \A k \in b + 1..n : f[k][1] = "div"
      /\ Pos(f, J, n) = End(f, J, b) /\ End(f, J, b) \in Nat
  BY <1>1, BaseIs, PosIs
<1>3. Width(f[n]) = 2
  BY DEF Width
<1>4. ASSUME NEW k \in 1..b
      PROVE  /\ k \in 1..Len(f) /\ Pos(f, J, k) \in Nat /\ Width(f[k]) \in {2, 3}
             /\ Pos(f, J, k) + Width(f[k]) = End(f, J, k) /\ End(f, J, k) <= End(f, J, b)
             /\ End(f, J, k) \in Nat
             /\ Pos(f, J, k) = 0 \/ Pos(f, J, k) >= 2
  <2>1. k \in 1..Len(f) /\ k \in 0..b /\ k \in 0..Len(f)
    BY <1>1, <1>2
  <2>2. /\ Pos(f, J, k) \in Nat /\ Width(f[k]) \in {2, 3}
        /\ End(f, J, k) = Pos(f, J, k) + Width(f[k])
    BY <1>1, <2>1, PosIs, AccessIs
  <2>3. End(f, J, k) <= End(f, J, b) /\ End(f, J, k) \in Nat
    BY <1>1, <1>2, <2>1, EndGrows, LayoutRules
  <2>4. Pos(f, J, k) = 0 \/ Pos(f, J, k) >= 2
    <3>1. Pos(f, J, k) = End(f, J, Base(f, J, k)) /\ Base(f, J, k) \in 0..Len(f)
      BY <1>1, <2>1, PosIs, BaseIs
    <3>2. CASE Base(f, J, k) = 0
      BY <1>1, <3>1, <3>2, LayoutRules
    <3>3. CASE Base(f, J, k) # 0
      <4>1. Base(f, J, k) \in 1..Len(f)
        BY <3>1, <3>3
      <4> QED BY <1>1, <3>1, <4>1, EndRoom
    <3> QED BY <3>2, <3>3
  <2> QED BY <2>1, <2>2, <2>3, <2>4
<1>5. ASSUME NEW p \in Nat, p < End(f, J, b), p # reg + 1 PROVE new[p] = mem[p]
  <2>1. p \in 0..End(f, J, b) - 1
    BY <1>2, <1>5
  <2> QED BY <1>5, <2>1
<1>6. ASSUME NEW k \in 1..b, NEW c \in {0, 1, 2}, c < Width(f[k]),
             Pos(f, J, k) + c # reg + 1
      PROVE  new[Pos(f, J, k) + c] = mem[Pos(f, J, k) + c]
  <2>1. Pos(f, J, k) + c \in Nat /\ Pos(f, J, k) + c < End(f, J, b)
    <3> DEFINE p == Pos(f, J, k)
               w == Width(f[k])
               d == End(f, J, k)
               e == End(f, J, b)
    <3>1. c \in Nat /\ c < w /\ e \in Nat
      BY <1>2, <1>6
    <3>2. p \in Nat /\ w \in {2, 3} /\ d \in Nat /\ p + w = d /\ d <= e
      BY <1>4
    <3> HIDE DEF p, w, d, e
    <3>3. p + c \in Nat /\ p + c < e
      BY <3>1, <3>2
    <3> QED BY <3>3 DEF p, e
  <2> QED BY <1>5, <1>6, <2>1
<1>7. ASSUME NEW k \in 1..b
      PROVE  /\ Pos(f, J, k) # reg + 1 => new[Pos(f, J, k)] = mem[Pos(f, J, k)]
             /\ Pos(f, J, k) + 1 # reg + 1 => new[Pos(f, J, k) + 1] = mem[Pos(f, J, k) + 1]
             /\ Width(f[k]) = 3 /\ Pos(f, J, k) + 2 # reg + 1 =>
                  new[Pos(f, J, k) + 2] = mem[Pos(f, J, k) + 2]
  <2>1. Pos(f, J, k) + 0 = Pos(f, J, k) /\ 0 < Width(f[k]) /\ 1 < Width(f[k])
        /\ (Width(f[k]) = 3 => 2 < Width(f[k]))
    BY <1>4
  <2> QED BY <1>6, <2>1
<1>8. CASE Unmoved(f, n) /\ reg = 0
  <2>1. Doomed(f)
    BY <1>8 DEF Doomed
  <2>2. ASSUME NEW k \in 1..b, Placed(f, J, k, mem) PROVE Placed(f, J, k, new)
    <3>1. Pos(f, J, k) # 1 /\ Pos(f, J, k) + 2 # 1 /\ (Pos(f, J, k) + 1 = 1 => Pos(f, J, k) = 0)
      BY <1>4
    <3> QED BY <1>7, <1>8, <2>1, <2>2, <3>1 DEF Placed
  <2>3. ASSUME NEW k \in 1..b, NEW m, LastMove(f, m, k) PROVE FALSE
    <3>1. m \in 1..n /\ f[m][1] = "movdl"
      BY <1>2, <2>3 DEF LastMove
    <3> QED BY <1>8, <3>1 DEF Unmoved
  <2>4. Written(f, J, b, new)
    BY <2>2, <2>3 DEF Written
  <2>5. Placed(f, J, n, new)
    <3>1. reg + 1 # End(f, J, b)
      <4>1. CASE b = 0
        BY <1>1, <1>8, <4>1, LayoutRules
      <4>2. CASE b # 0
        <5>1. b \in 1..Len(f)
          BY <1>2, <4>2
        <5>2. End(f, J, b) >= 2
          BY <1>1, <5>1, EndRoom
        <5> QED BY <1>2, <1>8, <5>2
      <4> QED BY <4>1, <4>2
    <3> QED BY <1>2, <1>3, <3>1 DEF Placed
  <2>6. \A m : ~LastMove(f, m, n)
    BY <1>8 DEF Unmoved, LastMove
  <2> QED BY <1>1, <2>4, <2>5, <2>6, WrittenRun
<1>9. ASSUME NEW m \in 1..n, LastMove(f, m, n), reg = Off(f, m - 1) PROVE Written(f, J, n, new)
  <2>1. m \in 1..Len(f) /\ f[m][1] = "movdl"
    BY <1>1, <1>9 DEF LastMove
  <2>2. /\ Pos(f, J, m) = reg /\ End(f, J, m) = reg + 2 /\ Width(f[m]) = 2
        /\ m \notin J /\ m + 1 \notin J
        /\ \A k \in 1..m - 1 : End(f, J, k) <= reg
    BY <1>9, <2>1, MoveStays
  <2>3. m \in 1..b /\ m \in Nat
    <3>1. m \notin b + 1..n
      BY <1>2, <2>1
    <3> QED BY <1>2, <3>1
  <2>4. reg + 1 < End(f, J, b)
    BY <1>2, <1>4, <2>2, <2>3
  <2>5. ASSUME NEW k \in 1..b, k # m, k + 1 \notin J \/ k < m
        PROVE  End(f, J, k) <= reg \/ reg + 2 <= Pos(f, J, k)
    <3>1. CASE k < m
      <4>1. k \in 1..m - 1
        BY <2>3, <3>1
      <4> QED BY <2>2, <4>1
    <3>2. CASE k > m
      <4>1. m \in 0..Len(f) /\ k \in m + 1..Len(f)
        BY <1>1, <1>2, <2>3, <3>2
      <4>2. End(f, J, m) <= Pos(f, J, k)
        BY <1>1, <2>2, <4>1, Behind
      <4> QED BY <2>2, <4>2
    <3> QED BY <2>3, <2>5, <3>1, <3>2
  <2>6. ASSUME NEW k \in 1..b, k + 1 \notin J, Placed(f, J, k, mem) PROVE Placed(f, J, k, new)
    <3>1. CASE k = m
      <4>1. Pos(f, J, k) # reg + 1
        BY <2>2, <3>1
      <4> QED BY <1>7, <2>2, <2>6, <3>1, <4>1 DEF Placed
    <3>2. CASE k # m
      <4>1. End(f, J, k) <= reg \/ reg + 2 <= Pos(f, J, k)
        BY <2>5, <2>6, <3>2
      <4>2. /\ Pos(f, J, k) # reg + 1 /\ Pos(f, J, k) + 1 # reg + 1
            /\ Width(f[k]) = 3 => Pos(f, J, k) + 2 # reg + 1
        BY <1>4, <4>1
      <4> QED BY <1>7, <2>6, <4>2 DEF Placed
    <3> QED BY <3>1, <3>2
  <2>7. ASSUME NEW k \in 1..b, NEW h \in 1..b, f[k][1] = "div", k + 1 \notin J, LastMove(f, h, k),
               mem[Pos(f, J, h) + 1] = Value(f, J)[k]
        PROVE  new[Pos(f, J, h) + 1] = Value(f, J)[k]
    <3>1. CASE h = m
      <4>1. new[Pos(f, J, h) + 1] = Value(f, J)[n]
        BY <2>2, <3>1
      <4>2. k \in 1..Len(f)
        BY <1>4
      <4>3. Value(f, J)[k] = Value(f, J)[n]
        BY <1>9, <2>1, <2>7, <3>1, <4>2 DEF Sound
      <4> QED BY <4>1, <4>3
    <3>2. CASE h # m
      <4>1. h < m
        <5>1. h \in 1..k /\ f[h][1] = "movdl" /\ k \in 1..n /\ h \in 1..n
          BY <1>2, <2>7 DEF LastMove
        <5>2. h \notin m + 1..n
          BY <1>9, <5>1 DEF LastMove
        <5> QED BY <2>3, <3>2, <5>1, <5>2
      <4>2. End(f, J, h) <= reg
        BY <2>2, <2>3, <4>1
      <4>3. Pos(f, J, h) + 1 # reg + 1
        BY <1>4, <4>2
      <4> QED BY <1>7, <2>7, <4>3
    <3> QED BY <3>1, <3>2
  <2>8. Written(f, J, b, new)
    BY <2>6, <2>7 DEF Written
  <2>9. Placed(f, J, n, new)
    <3>1. reg + 1 # End(f, J, b)
      BY <1>2, <2>4
    <3> QED BY <1>2, <1>3, <3>1 DEF Placed
  <2>10. \A h : LastMove(f, h, n) => h = m
    BY <1>9, OneLastMove
  <2>11. \A h \in 1..n : f[n][1] = "div" /\ LastMove(f, h, n) =>
           new[Pos(f, J, h) + 1] = Value(f, J)[n]
    BY <2>2, <2>10
  <2> QED BY <1>1, <2>8, <2>9, <2>11, WrittenRun
<1> QED BY <1>8, <1>9

(* What holds of the function in every state. *)
LEMMA Setting ==
  ASSUME TypeOK, dynamic => Mergeable(function)
  PROVE  /\ function \in Functions /\ function \in Seq(Instruction) /\ Len(function) \in Nat
         /\ Sound(function, Joins) /\ Plan(function, Joins)
         /\ 1 \notin Joins /\ Len(function) + 1 \notin Joins
         /\ 0 \in 0..Len(function) /\ Len(function) \in 0..Len(function)
<1>1. function \in Functions /\ function \in Seq(Instruction) /\ Len(function) \in Nat
  <2>1. function \in Functions /\ function \in Seq(Instruction)
    BY PageHolds DEF TypeOK
  <2> QED BY <2>1
<1>2. Sound(function, Joins)
  BY <1>1, SoundPlain, SoundMerged DEF Joins
<1>3. Plan(function, Joins)
  BY <1>2 DEF Sound
<1>4. \A k \in Joins : k \in 2..Len(function)
  BY <1>3, JoinedIs
<1> QED BY <1>1, <1>2, <1>3, <1>4

(* The page is new. *)
LEMMA KeptInit == Init => Kept
<1> SUFFICES ASSUME Init PROVE Kept
  OBVIOUS
<1>1. \A k \in 0..PageSize - 1 : memory[k] = 0
  BY DEF Init
<1>2. at = "empty" /\ ZeroPage /\ Fresh
  BY <1>1 DEF Init, ZeroPage, Fresh
<1> QED BY <1>2 DEF Init, Kept, Started, Stage

(* The test program fills the page. *)
LEMMA KeptFill == ASSUME Inv, Kept, Fill PROVE Kept'
<1>1. /\ at = "empty" /\ at' = "filled"
      /\ UNCHANGED <<function, dynamic, i, j, dl_reg, dl_val, op, tmp, ip, eax, dl>>
  BY DEF Fill, scanVars, cpuVars
<1>2. function \in Functions /\ Len(Code) \in Nat /\ Len(Code) < PageSize /\ PageSize \in Nat
  BY Page DEF Inv, TypeOK, Code
<1>3. memory' = [k \in 0..PageSize - 1 |-> IF k < Len(Code) THEN Code[k + 1] ELSE 0]
  BY DEF Fill, Code
<1>4. \A k \in 1..Len(Code) : k - 1 \in 0..PageSize - 1 /\ k - 1 < Len(Code) /\ (k - 1) + 1 = k
  BY <1>2
<1>5. \A k \in 1..Len(Code) : memory'[k - 1] = Code[k]
  BY <1>3, <1>4
<1>6. Rest(function, 0, memory)'
  <2>1. \A k \in 0 + 1..Len(CodeOf(function)) : memory'[k - 1] = CodeOf(function)[k]
    BY <1>5 DEF Code
  <2> QED BY <1>1, <2>1 DEF Rest
<1>7. (dynamic => Mergeable(function))' => Stage'
  BY <1>1, <1>6 DEF Kept, Stage, Fresh
<1> QED BY <1>1, <1>7 DEF Kept, Started

(* The page is scanned, or called as it is. *)
LEMMA KeptLaunch == ASSUME Inv, Kept, Launch PROVE Kept'
<1>1. /\ at \in {"empty", "filled"} /\ at' = IF dynamic THEN "scan" ELSE "call"
      /\ UNCHANGED <<function, dynamic, memory, i, j, dl_reg, dl_val, op, tmp, ip, eax, dl>>
  BY DEF Launch, scanVars, cpuVars
<1>2. ip = 0 /\ eax = 1 /\ dl = 0
  BY <1>1 DEF Kept, Started
<1>3. Started'
  BY <1>1, <1>2 DEF Started
<1>4. ASSUME dynamic => Mergeable(function) PROVE Stage'
  <2> DEFINE f == function
             J == Joins
  <2>1. /\ f \in Functions /\ f \in Seq(Instruction) /\ Len(f) \in Nat /\ Plan(f, J)
        /\ 1 \notin J /\ 0 \in 0..Len(f)
    BY <1>4, Setting DEF Inv
  <2>2. Stage
    BY <1>4 DEF Kept
  <2>3. CASE at = "empty"
    <3>1. ZeroPage
      BY <2>2, <2>3 DEF Stage
    <3>2. ZeroPage' /\ ip' = 0 /\ at' \in {"scan", "call", "fault"}
      BY <1>1, <1>2, <3>1 DEF ZeroPage
    <3> QED BY <3>2 DEF Stage
  <2>4. CASE at = "filled"
    <3>1. Fresh /\ Rest(f, 0, memory)
      BY <2>2, <2>4 DEF Stage
    <3>2. Unmoved(f, 0) /\ Off(f, 0) = 0 /\ End(f, J, 0) = 0
      BY <2>1, OffIs, LayoutRules DEF Unmoved
    <3>3. Run(f)[0].dl = 0 /\ Run(f)[0].eax = 1 /\ ~Run(f)[0].bad
      <4>1. Run(f)[0] = [eax |-> 1, dl |-> 0, bad |-> FALSE]
        BY <2>1, RunIs
      <4> QED BY <4>1
    <3>4. CASE dynamic
      <4>1. Written(f, J, 0, memory)
        BY DEF Written
      <4>2. /\ 0 + 1 \notin J /\ Written(f, J, 0, memory) /\ Moved(f, 0)
            /\ i = Off(f, 0) /\ j = End(f, J, 0) /\ Rest(f, i, memory)
        BY <2>1, <3>1, <3>2, <3>3, <4>1 DEF Moved, Fresh
      <4>3. Scanned(f, J)
        BY <2>1, <4>2 DEF Scanned
      <4>4. Scanned(function, Joins)'
        BY <1>1, <4>3 DEF Scanned, Moved, Joins
      <4> QED BY <1>1, <3>4, <4>4 DEF Stage
    <3>5. CASE ~dynamic
      <4>1. J = {}
        BY <3>5 DEF Joins
      <4>2. Written(f, J, Len(f), memory) /\ memory[End(f, J, Len(f))] = Ret
        BY <2>1, <3>1, <4>1, Setting, Loaded
      <4>3. \A k \in 1..0 : f[k][1] = "div" => ~Unmoved(f, k)
        OBVIOUS
      <4>4. /\ 0 + 1 \notin J /\ ip = End(f, J, 0)
            /\ Unmoved(f, 0) /\ dl = 0
            /\ \A k \in 1..0 : f[k][1] = "div" => ~Unmoved(f, k)
            /\ eax = Run(f)[0].eax /\ ~Run(f)[0].bad
        BY <1>2, <2>1, <3>2, <3>3, <4>3
      <4>5. Called(f, J)
        BY <2>1, <4>2, <4>4 DEF Called, Reached
      <4>6. Called(function, Joins)'
        BY <1>1, <4>5 DEF Called, Reached, Joins
      <4> QED BY <1>1, <3>5, <4>6 DEF Stage
    <3> QED BY <3>4, <3>5
  <2> QED BY <1>1, <2>3, <2>4
<1> QED BY <1>1, <1>3, <1>4 DEF Kept

(* Less of the page is as the test program left it, too. *)
LEMMA RestLess ==
  ASSUME NEW f \in Functions, NEW p \in Nat, NEW q \in Nat, p <= q, NEW mem, Rest(f, p, mem)
  PROVE  Rest(f, q, mem)
<1>1. \A k \in q + 1..Len(CodeOf(f)) : k \in p + 1..Len(CodeOf(f))
  BY PageHolds
<1> QED BY <1>1 DEF Rest

(* Where the loop is between two instructions, the next one is whole.      *)
LEMMA NextIs ==
  ASSUME NEW f \in Functions, NEW n \in 0..Len(f), NEW mem, Rest(f, Off(f, n), mem)
  PROVE  /\ Off(f, n) \in Nat /\ Off(f, n) \in 0..PageSize - 1
         /\ n = Len(f) => mem[Off(f, n)] = Ret
         /\ n # Len(f) =>
              /\ n + 1 \in 1..Len(f) /\ n \in 0..Len(f) - 1
              /\ f[n + 1] \in Instruction
              /\ Off(f, n + 1) = Off(f, n) + Width(f[n + 1])
              /\ Off(f, n) + Width(f[n + 1]) \in 0..PageSize - 1
              /\ mem[Off(f, n)] = Bytes(f[n + 1])[1]
              /\ mem[Off(f, n) + 1] = Bytes(f[n + 1])[2]
              /\ Width(f[n + 1]) = 3 => mem[Off(f, n) + 2] = Bytes(f[n + 1])[3]
         /\ n = Len(f) <=> mem[Off(f, n)] = Ret
<1>1. f \in Seq(Instruction) /\ Len(f) \in Nat /\ PageSize \in Nat
  <2>1. f \in Seq(Instruction) /\ PageSize \in Nat
    BY PageHolds
  <2> QED BY <2>1
<1>2. Off(f, n) \in Nat
  BY <1>1, OffIs
<1>3. CASE n = Len(f)
  BY <1>2, <1>3, RestIs
<1>4. CASE n # Len(f)
  <2>1. n + 1 \in 1..Len(f) /\ n \in 0..Len(f) - 1 /\ (n + 1) - 1 = n
    BY <1>1, <1>4
  <2>2. f[n + 1] \in Instruction
    BY <1>1, <2>1
  <2>3. /\ Off(f, (n + 1) - 1) + Width(f[n + 1]) \in 0..PageSize - 1
        /\ Off(f, n) <= Off(f, (n + 1) - 1) => mem[Off(f, (n + 1) - 1)] = Bytes(f[n + 1])[1]
        /\ Off(f, n) <= Off(f, (n + 1) - 1) + 1 => mem[Off(f, (n + 1) - 1) + 1] = Bytes(f[n + 1])[2]
        /\ Off(f, n) <= Off(f, (n + 1) - 1) + 2 /\ Width(f[n + 1]) = 3 =>
             mem[Off(f, (n + 1) - 1) + 2] = Bytes(f[n + 1])[3]
    BY <1>2, <2>1, RestIs
  <2>4. Off(f, n + 1) = Off(f, n) + Width(f[n + 1]) /\ Width(f[n + 1]) \in {2, 3}
    BY <1>1, <2>1, NextOff
  <2>5. /\ Off(f, n) <= Off(f, n) /\ Off(f, n) <= Off(f, n) + 1 /\ Off(f, n) <= Off(f, n) + 2
    BY <1>2
  <2>6. Bytes(f[n + 1])[1] # Ret
    BY <2>2, BytesAre DEF Ret
  <2>7. Off(f, n) \in 0..PageSize - 1
    BY <1>1, <1>2, <2>1, <2>3, <2>4
  <2> QED BY <1>2, <1>4, <2>1, <2>2, <2>3, <2>4, <2>5, <2>6, <2>7
<1> QED BY <1>3, <1>4

(* Within a move, the second byte is none that the loop looks for.         *)
LEMMA WithinIs ==
  ASSUME NEW f \in Functions, NEW n \in 1..Len(f), f[n][1] \in {"mov", "movdl"},
         f[n][1] = "movdl" => f[n][2] # 107,
         NEW p \in Nat, p + 1 = Off(f, n), NEW mem, Rest(f, p, mem)
  PROVE  /\ p = Off(f, n - 1) + 1 /\ p \in 0..PageSize - 1
         /\ mem[p] = Bytes(f[n])[2]
         /\ mem[p] \notin {Ret, 178} \cup Merged
<1>1. f \in Seq(Instruction) /\ f[n] \in Instruction /\ Width(f[n]) = 2
  <2>1. f \in Seq(Instruction)
    BY PageHolds
  <2> QED BY <2>1 DEF Width
<1>2. Off(f, n - 1) \in Nat /\ Off(f, n) = Off(f, n - 1) + 2
  BY <1>1, NextOff
<1>3. p = Off(f, n - 1) + 1 /\ p <= Off(f, n - 1) + 1 /\ PageSize \in Nat
  BY <1>2, PageHolds
<1>4. mem[p] = Bytes(f[n])[2] /\ Off(f, n - 1) + 2 \in 0..PageSize - 1
  BY <1>1, <1>3, RestIs
<1>5. p \in 0..PageSize - 1
  BY <1>2, <1>3, <1>4
<1>6. Bytes(f[n])[2] = 200 \/ Bytes(f[n])[2] \in 0..127 \ {107}
  <2>1. f[n][2] \in 0..127
    BY <1>1, InstructionIs
  <2>2. CASE f[n][1] = "mov"
    BY <1>1, <2>2, BytesAre
  <2>3. CASE f[n][1] = "movdl"
    <3>1. Bytes(f[n])[2] = f[n][2]
      BY <1>1, <2>3, BytesAre
    <3> QED BY <2>1, <2>3, <3>1
  <2> QED BY <2>2, <2>3
<1>7. mem[p] \notin {Ret, 178} \cup Merged
  <2> DEFINE y == Bytes(f[n])[2]
  <2>1. y = 200 \/ (y \in 0..127 /\ y # 107)
    BY <1>6
  <2> HIDE DEF y
  <2>2. CASE y = 200
    BY <1>4, <2>2 DEF y, Ret, Merged
  <2>3. CASE y \in 0..127 /\ y # 107
    <3>1. y # 195 /\ y # 178 /\ y # 131 /\ y # 107 /\ y # 246
      BY <2>3
    <3> QED BY <1>4, <3>1 DEF y, Ret, Merged
  <2> QED BY <2>1, <2>2, <2>3
<1> QED BY <1>3, <1>4, <1>5, <1>7

(* A run is begun. *)
LEMMA KeptBegin == ASSUME Inv, Kept, BeginRun PROVE Kept'
<1>1. /\ at = "scan" /\ at' = "merge" /\ memory[i] \in Merged /\ op' = memory[i]
      /\ tmp' = First(memory[i]) /\ i \in 0..PageSize - 1
      /\ UNCHANGED <<function, dynamic, memory, i, j, dl_reg, dl_val, ip, eax, dl>>
  BY Inside DEF BeginRun, Inv, cpuVars
<1>2. ~ZeroPage
  BY <1>1 DEF ZeroPage, Merged
<1>3. ASSUME dynamic => Mergeable(function) PROVE Stage'
  <2> DEFINE f == function
             J == Joins
  <2>1. f \in Functions /\ f \in Seq(Instruction) /\ Len(f) \in Nat
    BY <1>3, Setting DEF Inv
  <2>2. dynamic /\ Mergeable(f) /\ Scanned(f, J)
    BY <1>1, <1>2, <1>3 DEF Kept, Stage
  <2>3. PICK n \in 0..Len(f) :
          /\ n + 1 \notin J /\ Written(f, J, n, memory) /\ Moved(f, n)
          /\ \/ i = Off(f, n) /\ j = End(f, J, n) /\ Rest(f, i, memory)
             \/ /\ n > 0 /\ f[n][1] \in {"mov", "movdl"}
                /\ i + 1 = Off(f, n) /\ j + 1 = End(f, J, n)
                /\ Rest(f, i, memory)
    BY <2>2 DEF Scanned
  <2>4. i = Off(f, n) /\ j = End(f, J, n) /\ Rest(f, i, memory)
    <3>1. ASSUME n > 0, f[n][1] \in {"mov", "movdl"}, i + 1 = Off(f, n), Rest(f, i, memory) PROVE FALSE
      <4>1. n \in 1..Len(f) /\ (f[n][1] = "movdl" => f[n][2] # 107) /\ i \in Nat
        BY <1>1, <2>1, <2>2, <3>1 DEF Mergeable
      <4>2. memory[i] \notin Merged
        BY <2>1, <3>1, <4>1, WithinIs
      <4> QED BY <1>1, <4>2
    <3> QED BY <2>3, <3>1
  <2>5. /\ n \in 0..Len(f) - 1 /\ n + 1 \in 1..Len(f)
        /\ memory[i] = Bytes(f[n + 1])[1]
    <3>1. n # Len(f)
      <4>1. memory[i] # Ret
        BY <1>1 DEF Ret, Merged
      <4> QED BY <2>1, <2>4, <4>1, NextIs
    <3> QED BY <2>1, <2>4, <3>1, NextIs
  <2>6. /\ n + 1 \notin J /\ op' = Bytes(f[n + 1])[1]  /\ op' \in Merged
        /\ Written(f, J, n, memory') /\ Moved(f, n)'
        /\ Rest(f, Off(f, n), memory')
        /\ i' = Off(f, n) /\ j' = End(f, J, n)
        /\ tmp' = First(op')
    BY <1>1, <2>3, <2>4, <2>5 DEF Moved
  <2>7. Merging(f, J)'
    BY <1>1, <2>5, <2>6 DEF Merging, Joins
  <2> QED BY <1>1, <2>2, <2>7 DEF Stage, Joins
<1> QED BY <1>1, <1>3 DEF Kept, Started

(* The loop ends at ret. *)
LEMMA KeptFinish == ASSUME Inv, Kept, Finish PROVE Kept'
<1>1. /\ at = "scan" /\ at' = "call" /\ memory[i] = Ret /\ memory' = [memory EXCEPT ![j] = Ret]
      /\ i \in 0..PageSize - 1 /\ memory \in [0..PageSize - 1 -> Byte]
      /\ UNCHANGED <<function, dynamic, i, j, dl_reg, dl_val, op, tmp, ip, eax, dl>>
  BY Inside DEF Finish, Inv, TypeOK, cpuVars, scanVars
<1>2. ~ZeroPage
  BY <1>1 DEF ZeroPage, Ret
<1>3. ASSUME dynamic => Mergeable(function) PROVE Stage'
  <2> DEFINE f == function
             J == Joins
             L == Len(f)
  <2>1. /\ f \in Functions /\ f \in Seq(Instruction) /\ L \in Nat /\ Plan(f, J)
        /\ 1 \notin J /\ 0 \in 0..L /\ L \in 0..L
    BY <1>3, Setting DEF Inv
  <2>2. dynamic /\ Mergeable(f) /\ Scanned(f, J)
    BY <1>1, <1>2, <1>3 DEF Kept, Stage
  <2>3. PICK n \in 0..L :
          /\ n + 1 \notin J /\ Written(f, J, n, memory) /\ Moved(f, n)
          /\ \/ i = Off(f, n) /\ j = End(f, J, n) /\ Rest(f, i, memory)
             \/ /\ n > 0 /\ f[n][1] \in {"mov", "movdl"}
                /\ i + 1 = Off(f, n) /\ j + 1 = End(f, J, n)
                /\ Rest(f, i, memory)
    BY <2>2 DEF Scanned
  <2>4. i = Off(f, n) /\ j = End(f, J, n) /\ Rest(f, i, memory)
    <3>1. ASSUME n > 0, f[n][1] \in {"mov", "movdl"}, i + 1 = Off(f, n), Rest(f, i, memory) PROVE FALSE
      <4>1. n \in 1..Len(f) /\ (f[n][1] = "movdl" => f[n][2] # 107) /\ i \in Nat
        BY <1>1, <2>1, <2>2, <3>1 DEF Mergeable
      <4>2. memory[i] # Ret
        BY <2>1, <3>1, <4>1, WithinIs
      <4> QED BY <1>1, <4>2
    <3> QED BY <2>3, <3>1
  <2>5. n = L
    BY <1>1, <2>1, <2>4, NextIs
  <2>6. j \in 0..PageSize - 1
    <3>1. End(f, J, L) <= Off(f, L) /\ End(f, J, L) \in Nat /\ Off(f, L) \in Nat
      BY <2>1, EndOff, LayoutRules, OffIs
    <3> HIDE DEF L
    <3> QED BY <1>1, <2>4, <2>5, <3>1, PageHolds
  <2>7. memory'[j] = Ret /\ \A p \in 0..j - 1 : memory'[p] = memory[p]
    BY <1>1, <2>6
  <2>8. Written(f, J, L, memory') /\ memory'[End(f, J, L)] = Ret
    BY <2>1, <2>3, <2>4, <2>5, <2>7, WrittenKept
  <2>9. Unmoved(f, 0) /\ End(f, J, 0) = 0 /\ ip' = 0 /\ dl' = 0 /\ eax' = 1
    BY <1>1, <2>1, LayoutRules DEF Unmoved, Kept, Started
  <2>10. Run(f)[0].eax = 1 /\ ~Run(f)[0].bad
    <3>1. Run(f)[0] = [eax |-> 1, dl |-> 0, bad |-> FALSE]
      BY <2>1, RunIs
    <3> QED BY <3>1
  <2>11. \A k \in 1..0 : f[k][1] = "div" => ~Unmoved(f, k)
    OBVIOUS
  <2>12. /\ 0 + 1 \notin J /\ ip' = End(f, J, 0)
         /\ Unmoved(f, 0) /\ dl' = 0
         /\ \A k \in 1..0 : f[k][1] = "div" => ~Unmoved(f, k)
         /\ eax' = Run(f)[0].eax /\ ~Run(f)[0].bad
    BY <2>1, <2>9, <2>10, <2>11
  <2>13. Called(f, J)'
    BY <1>1, <2>1, <2>8, <2>12 DEF Called, Reached, Joins
  <2> QED BY <1>1, <2>13 DEF Stage, Joins
<1> QED BY <1>1, <1>3 DEF Kept, Started

(* The loop never leaves a page that was filled. *)
LEMMA KeptOverrun == ASSUME Inv, Kept, Overrun PROVE Kept'
<1>1. /\ at \in {"scan", "merge"} /\ ~Readable /\ at' = "fault"
      /\ UNCHANGED <<function, dynamic, memory, i, j, dl_reg, dl_val, op, tmp, ip, eax, dl>>
      /\ i \in Nat /\ PageSize \in Nat
  BY Page DEF Overrun, Inv, TypeOK, cpuVars, scanVars
<1>2. ASSUME dynamic => Mergeable(function) PROVE Stage'
  <2> DEFINE f == function
             J == Joins
             L == Len(f)
  <2>1. /\ f \in Functions /\ f \in Seq(Instruction) /\ L \in Nat
    BY <1>2, Setting DEF Inv
  <2>2. Stage
    BY <1>2 DEF Kept
  <2>3. ASSUME NEW n \in 0..L, i = Off(f, n), Rest(f, i, memory),
               at = "merge" => op \in Merged
        PROVE  FALSE
    <3>1. i \in 0..PageSize - 1 /\ (n = L => memory[i] = Ret)
      BY <2>1, <2>3, NextIs
    <3>2. ASSUME n # L, memory[i] = 178 PROVE i + 1 < PageSize
      <4>1. /\ f[n + 1] \in Instruction /\ memory[i] = Bytes(f[n + 1])[1]
            /\ Off(f, n) + Width(f[n + 1]) \in 0..PageSize - 1
        BY <2>1, <2>3, <3>2, NextIs
      <4>2. Width(f[n + 1]) \in {2, 3}
        BY <4>1, InstructionIs
      <4> HIDE DEF L, f
      <4> QED BY <1>1, <2>3, <4>1, <4>2
    <3>3. ASSUME n # L, memory[i] \in {131, 107} PROVE i + 2 < PageSize
      <4>1. /\ f[n + 1] \in Instruction /\ memory[i] = Bytes(f[n + 1])[1]
            /\ Off(f, n) + Width(f[n + 1]) \in 0..PageSize - 1
        BY <2>1, <2>3, <3>3, NextIs
      <4>2. Width(f[n + 1]) = 3
        BY <3>3, <4>1, BytesAre
      <4> HIDE DEF L, f
      <4> QED BY <1>1, <2>3, <4>1, <4>2
    <3>4. i < PageSize
      BY <1>1, <3>1
    <3>5. CASE at = "scan"
      BY <1>1, <3>1, <3>2, <3>4, <3>5 DEF Readable, LastRead, Ret
    <3>6. CASE at = "merge"
      <4>1. op \in {131, 107, 246}
        BY <2>3, <3>6 DEF Merged
      <4> QED BY <1>1, <3>1, <3>3, <3>4, <3>6, <4>1 DEF Readable, LastRead, Ret
    <3> QED BY <1>1, <3>5, <3>6
  <2>4. ASSUME Scanned(f, J), dynamic, at = "scan" PROVE FALSE
    <3>1. PICK n \in 0..L :
          /\ n + 1 \notin J /\ Written(f, J, n, memory) /\ Moved(f, n)
          /\ \/ i = Off(f, n) /\ j = End(f, J, n) /\ Rest(f, i, memory)
             \/ /\ n > 0 /\ f[n][1] \in {"mov", "movdl"}
                /\ i + 1 = Off(f, n) /\ j + 1 = End(f, J, n)
                /\ Rest(f, i, memory)
      BY <2>4 DEF Scanned
    <3>2. CASE i = Off(f, n) /\ Rest(f, i, memory)
      BY <2>3, <2>4, <3>2
    <3>3. CASE n > 0 /\ f[n][1] \in {"mov", "movdl"} /\ i + 1 = Off(f, n) /\ Rest(f, i, memory)
      <4>1. n \in 1..L /\ (f[n][1] = "movdl" => f[n][2] # 107)
        BY <1>2, <2>1, <2>4, <3>3 DEF Mergeable
      <4>2. memory[i] # 178 /\ i \in 0..PageSize - 1
        BY <1>1, <2>1, <3>3, <4>1, WithinIs
      <4> QED BY <1>1, <2>4, <4>2 DEF Readable, LastRead
    <3> QED BY <3>1, <3>2, <3>3
  <2>5. ASSUME Merging(f, J), at = "merge" PROVE FALSE
    <3>1. PICK b \in 0..Len(f) - 1, n \in 0..L :
            /\ op \in Merged /\ Rest(f, Off(f, b), memory) /\ i = Off(f, n)
            /\ n = b \/ n > b
      BY <2>5 DEF Merging
    <3>2. b \in 0..n
      BY <2>1, <3>1
    <3>3. Off(f, b) \in Nat /\ Off(f, n) \in Nat /\ Off(f, b) <= Off(f, n)
      <4>1. b \in 0..L
        BY <2>1
      <4> QED BY <2>1, <3>1, <3>2, <4>1, OffIs, OffGrows
    <3>4. Rest(f, i, memory)
      BY <2>1, <3>1, <3>3, RestLess
    <3> QED BY <2>3, <3>1, <3>4
  <2>6. CASE ZeroPage /\ ip = 0
    BY <1>1, <2>6 DEF Stage, ZeroPage
  <2> QED BY <1>1, <2>2, <2>4, <2>5, <2>6 DEF Stage
<1> QED BY <1>1, <1>2 DEF Kept, Started

(* No byte of the code that is called is zero where an instruction begins. *)
LEMMA KeptZeros == ASSUME Inv, Kept, ExecuteZeros PROVE Kept'
<1>1. /\ at = "call" /\ at' = "fault" /\ memory[ip] = 0
      /\ UNCHANGED <<function, dynamic, memory, i, j, dl_reg, dl_val, op, tmp, ip, eax, dl>>
  BY DEF ExecuteZeros, cpuVars, scanVars
<1>2. ASSUME dynamic => Mergeable(function) PROVE Stage'
  <2> DEFINE f == function
             J == Joins
             L == Len(f)
  <2>1. /\ f \in Functions /\ f \in Seq(Instruction) /\ L \in Nat /\ Plan(f, J)
    BY <1>2, Setting DEF Inv
  <2>2. (ZeroPage /\ ip = 0) \/ Called(f, J)
    BY <1>1, <1>2 DEF Kept, Stage
  <2>3. CASE ZeroPage /\ ip = 0
    BY <1>1, <2>3 DEF Stage, ZeroPage
  <2>4. CASE Called(f, J)
    <3>1. Written(f, J, L, memory) /\ memory[End(f, J, L)] = Ret
      BY <2>4 DEF Called, Reached
    <3>2. PICK n \in 0..L : n + 1 \notin J /\ ip = End(f, J, n)
      BY <2>4 DEF Called, Reached
    <3>3. n # L
      BY <1>1, <3>1, <3>2 DEF Ret
    <3>4. n \in 0..L - 1
      BY <2>1, <3>3
    <3>5. PICK k \in n + 1..L : k + 1 \notin J /\ Base(f, J, k) = n
      BY <2>1, <3>2, <3>4, NextRun
    <3>6. k \in 1..L /\ f[k] \in Instruction
      BY <2>1, <3>4
    <3>7. Placed(f, J, k, memory) /\ Pos(f, J, k) = ip
      BY <2>1, <3>1, <3>2, <3>5, <3>6, PosIs DEF Written
    <3>8. memory[ip] = Bytes(f[k])[1]
      BY <3>7 DEF Placed
    <3> QED BY <1>1, <3>6, <3>8, BytesAre
  <2> QED BY <2>2, <2>3, <2>4
<1> QED BY <1>1, <1>2 DEF Kept, Started

(* Of the run behind instruction b the loop has read up to n, and what is  *)
(* next has the first byte of the run.                                     *)
Continues(f, J, b, n) ==
  /\ f \in Seq(Instruction) /\ Mergeable(f) /\ J = Joined(f)
  /\ b \in 0..Len(f) - 1 /\ b + 1 \notin J /\ n \in 0..Len(f) - 1
  /\ n = b \/ (n > b /\ Base(f, J, n) = b)
  /\ Bytes(f[n + 1])[1] = Bytes(f[b + 1])[1] /\ Bytes(f[n + 1])[1] \in Merged

(* The instructions with the first byte of a run are those that join it.   *)
LEMMA NextJoins ==
  ASSUME NEW f, NEW J, NEW b, NEW n, Continues(f, J, b, n)
  PROVE  /\ n + 1 \in 1..Len(f) /\ n + 1 > b /\ Base(f, J, n + 1) = b
         /\ f[n + 1][1] = f[b + 1][1] /\ f[n + 1][1] \in Grouped
         /\ n = b => n + 1 \notin J
         /\ n # b => n + 1 \in J
         /\ Value(f, J)[n + 1] \in 0..255
<1>1. /\ f \in Seq(Instruction) /\ Mergeable(f) /\ J = Joined(f) /\ Len(f) \in Nat
      /\ b \in 0..Len(f) - 1 /\ b + 1 \notin J /\ n \in 0..Len(f) - 1
      /\ n = b \/ (n > b /\ Base(f, J, n) = b)
  BY AccessIs DEF Continues
<1>2. Sound(f, J) /\ Plan(f, J)
  <2>1. Sound(f, J)
    BY <1>1, SoundMerged
  <2> QED BY <2>1 DEF Sound
<1>3. /\ n + 1 \in 1..Len(f) /\ b + 1 \in 1..Len(f) /\ b \in 0..Len(f)
      /\ (n + 1) - 1 = n /\ n + 1 > b
  BY <1>1
<1>4. /\ f[n + 1] \in Instruction /\ f[b + 1] \in Instruction
      /\ Bytes(f[n + 1])[1] = Bytes(f[b + 1])[1]
  BY <1>1, <1>3 DEF Continues
<1>5. f[n + 1][1] \in Grouped
  <2>1. Bytes(f[n + 1])[1] \in {131, 107, 246}
    BY DEF Continues, Merged
  <2>2. f[n + 1][1] \in {"add", "sub"} \/ f[n + 1][1] = "imul" \/ f[n + 1][1] = "div"
    BY <1>4, <2>1, BytesAre
  <2> QED BY <2>2 DEF Grouped
<1>6. Value(f, J)[n + 1] \in 0..255
  <2>1. Value(f, J)[n + 1] \in Nat
    BY <1>2, <1>3, ValueRules
  <2>2. Value(f, J)[n + 1] <= IF f[n + 1][1] = "div" THEN 255 ELSE 127
    BY <1>2, <1>3 DEF Sound
  <2> DEFINE v == Value(f, J)[n + 1]
  <2>3. v \in Nat /\ (v <= 255 \/ v <= 127)
    BY <2>1, <2>2
  <2> HIDE DEF v
  <2>4. v \in 0..255
    BY <2>3
  <2> QED BY <2>4 DEF v
<1>7. CASE n = b
  <2>1. n + 1 \notin J /\ f[n + 1][1] = f[b + 1][1]
    BY <1>1, <1>7
  <2>2. Base(f, J, n + 1) = n
    BY <1>2, <1>3, <2>1, LayoutRules
  <2> QED BY <1>3, <1>5, <1>6, <1>7, <2>1, <2>2
<1>8. CASE n > b /\ Base(f, J, n) = b
  <2>1. n \in 1..Len(f) /\ n \in 0..Len(f) /\ n + 1 \in 2..Len(f) /\ n # b
    BY <1>1, <1>8
  <2>2. f[b + 1][1] = f[n][1]
    <3>1. b + 1 \in b + 1..n
      BY <1>1, <1>8
    <3>2. \A k \in Base(f, J, n) + 1..n : f[k][1] = f[n][1]
      BY <1>2, <2>1, BaseIs
    <3> QED BY <1>8, <3>1, <3>2
  <2>3. f[n][1] \in Names /\ f[n] \in Instruction
    BY <1>1, <2>1, AccessIs
  <2>4. {f[n][1], f[n + 1][1]} # {"add", "sub"}
    <3>1. {f[(n + 1) - 1][1], f[n + 1][1]} # {"add", "sub"}
      BY <1>1, <2>1 DEF Mergeable
    <3> QED BY <1>3, <3>1
  <2>5. f[n + 1][1] = f[n][1]
    <3>1. /\ f[n + 1][1] \in {"add", "sub"} <=> f[n][1] \in {"add", "sub"}
          /\ f[n + 1][1] = "imul" <=> f[n][1] = "imul"
          /\ f[n + 1][1] = "div" <=> f[n][1] = "div"
      <4>1. /\ f[n + 1][1] \in {"add", "sub"} <=> f[b + 1][1] \in {"add", "sub"}
            /\ f[n + 1][1] = "imul" <=> f[b + 1][1] = "imul"
            /\ f[n + 1][1] = "div" <=> f[b + 1][1] = "div"
        BY <1>4, BytesAre
      <4> QED BY <2>2, <4>1
    <3>2. f[n + 1][1] \in {"add", "sub", "imul", "div"}
      BY <1>5 DEF Grouped
    <3>3. CASE f[n + 1][1] = "add"
      BY <2>4, <3>1, <3>3
    <3>4. CASE f[n + 1][1] = "sub"
      BY <2>4, <3>1, <3>4
    <3> QED BY <3>1, <3>2, <3>3, <3>4
  <2>6. n + 1 \in J
    BY <1>1, <1>3, <1>5, <2>1, <2>5 DEF Joined, Grouped
  <2>7. Base(f, J, n + 1) = b
    BY <1>2, <1>3, <1>8, <2>6, LayoutRules
  <2> QED BY <1>3, <1>5, <1>6, <2>1, <2>2, <2>5, <2>6, <2>7
<1> QED BY <1>1, <1>7, <1>8

(* A run goes on. *)
LEMMA KeptContinue == ASSUME Inv, Kept, ContinueRun PROVE Kept'
<1>1. /\ at = "merge" /\ at' = "merge" /\ memory[i] = op /\ i' = i + Size(op)
      /\ tmp' = Accumulated(IF op = 246 THEN dl_val ELSE memory[i + 2])
      /\ UNCHANGED <<function, dynamic, memory, j, dl_reg, dl_val, op, ip, eax, dl>>
  BY DEF ContinueRun, cpuVars
<1>2. ASSUME dynamic => Mergeable(function) PROVE Stage'
  <2> DEFINE f == function
             J == Joins
             L == Len(f)
  <2>1. /\ f \in Functions /\ f \in Seq(Instruction) /\ L \in Nat /\ Plan(f, J)
    BY <1>2, Setting DEF Inv
  <2>2. dynamic /\ Mergeable(f) /\ Merging(f, J) /\ J = Joined(f)
    BY <1>1, <1>2 DEF Kept, Stage, Joins
  <2>3. PICK b \in 0..L - 1, n \in 0..L :
          /\ b + 1 \notin J /\ op = Bytes(f[b + 1])[1]  /\ op \in Merged
          /\ Written(f, J, b, memory) /\ Moved(f, b) /\ Moved(f, n)
          /\ Rest(f, Off(f, b), memory)
          /\ i = Off(f, n) /\ j = End(f, J, b)
          /\ \/ n = b /\ tmp = First(op)
             \/ n > b /\ Base(f, J, n) = b /\ tmp = Value(f, J)[n]
    BY <2>2 DEF Merging
  <2>4. Rest(f, i, memory)
    <3>1. b \in 0..n /\ b \in 0..L
      BY <2>1, <2>3
    <3>2. Off(f, b) \in Nat /\ Off(f, n) \in Nat /\ Off(f, b) <= Off(f, n)
      BY <2>1, <2>3, <3>1, OffIs, OffGrows
    <3> QED BY <2>1, <2>3, <3>2, RestLess
  <2>5. n # L
    <3>1. op # Ret
      BY <2>3 DEF Merged, Ret
    <3> QED BY <1>1, <2>1, <2>3, <2>4, <3>1, NextIs
  <2>6. /\ n + 1 \in 1..L /\ n \in 0..L - 1 /\ f[n + 1] \in Instruction
        /\ Off(f, n + 1) = Off(f, n) + Width(f[n + 1])
        /\ op = Bytes(f[n + 1])[1]
        /\ Width(f[n + 1]) = 3 => memory[i + 2] = Bytes(f[n + 1])[3]
    BY <1>1, <2>1, <2>3, <2>4, <2>5, NextIs
  <2>7. /\ n + 1 > b /\ Base(f, J, n + 1) = b
        /\ f[n + 1][1] \in Grouped
        /\ n = b => n + 1 \notin J
        /\ n # b => n + 1 \in J
        /\ Value(f, J)[n + 1] \in 0..255
    <3>1. Continues(f, J, b, n)
      BY <2>1, <2>2, <2>3, <2>6 DEF Continues
    <3> HIDE DEF f, J, L
    <3>2. n + 1 > b 
      BY <3>1, NextJoins
    <3>3. Base(f, J, n + 1) = b
      BY <3>1, NextJoins
    <3>4. f[n + 1][1] \in Grouped
      BY <3>1, NextJoins
    <3>5. n = b => n + 1 \notin J
      BY <3>1, NextJoins
    <3>6. n # b => n + 1 \in J
      BY <3>1, NextJoins
    <3>7. Value(f, J)[n + 1] \in 0..255
      BY <3>1, NextJoins
    <3> QED BY <3>2, <3>3, <3>4, <3>5, <3>6, <3>7
  <2>8. i' = Off(f, n + 1)
    <3>1. Size(op) = Width(f[n + 1])
      BY <2>3, <2>6, BytesAre
    <3> QED BY <1>1, <2>3, <2>6, <3>1
  <2>9. f[n + 1][1] # "movdl" /\ (n + 1) - 1 = n
    BY <2>1, <2>3, <2>7 DEF Grouped
  <2>10. Moved(f, n + 1)
    <3>1. Run(f)[n + 1].dl = Run(f)[n].dl
      BY <2>1, <2>6, <2>9, RunRules
    <3>2. /\ Unmoved(f, n + 1) <=> Unmoved(f, n)
          /\ \A m : LastMove(f, m, n + 1) <=> LastMove(f, m, n)
      <4>1. /\ Unmoved(f, n + 1) <=> Unmoved(f, (n + 1) - 1)
            /\ \A m : LastMove(f, m, n + 1) <=> LastMove(f, m, (n + 1) - 1)
        BY <2>1, <2>6, <2>9, MoveRules
      <4> QED BY <2>9, <4>1
    <3>3. \A m \in 1..n : m \in 1..n + 1
      BY <2>1, <2>3
    <3> QED BY <2>3, <3>1, <3>2, <3>3 DEF Moved
  <2> DEFINE x == IF op = 246 THEN dl_val ELSE memory[i + 2]
             v == Value(f, J)[n + 1]
  <2>11. x = Operand(f, n + 1) /\ (op = 131 <=> f[n + 1][1] \in {"add", "sub"})
    <3>1. op = 131 <=> f[n + 1][1] \in {"add", "sub"}
      BY <2>6, BytesAre
    <3>2. CASE op = 246
      <4>1. f[n + 1][1] = "div"
        <5>1. Bytes(f[n + 1])[1] = 246
          BY <2>6, <3>2
        <5> HIDE DEF x, v
        <5> QED BY <2>6, <5>1, BytesAre
      <4> QED BY <2>3, <2>9, <3>1, <3>2, <4>1 DEF Operand, Moved
    <3>3. CASE op # 246
      <4>1. f[n + 1][1] \in {"add", "sub", "imul"}
        BY <2>6, <2>7, <3>3, BytesAre DEF Grouped
      <4>2. memory[i + 2] = f[n + 1][2]
        BY <2>6, <4>1, BytesAre
      <4>3. f[n + 1][1] # "div"
        BY <4>1
      <4> QED BY <3>1, <3>3, <4>2, <4>3 DEF Operand
    <3> QED BY <3>1, <3>2, <3>3
  <2>12. Operand(f, n + 1) \in Nat
    BY <2>1, <2>6, ValueRules
  <2>13. v = IF op = 131 THEN tmp + x ELSE tmp * x
    <3>1. CASE n = b
      <4>1. v = x /\ x \in Nat
        BY <2>1, <2>6, <2>7, <2>11, <2>12, <3>1, ValueRules
      <4>2. tmp = IF op = 131 THEN 0 ELSE 1
        BY <2>3, <3>1 DEF First
      <4>3. 0 + x = x /\ 1 * x = x
        BY <4>1
      <4> QED BY <4>1, <4>2, <4>3
    <3>2. CASE n # b
      <4>1. tmp = Value(f, J)[n]
        BY <2>3, <3>2
      <4>2. v = IF f[n + 1][1] \in {"add", "sub"}
                THEN Value(f, J)[n] + Operand(f, n + 1)
                ELSE Value(f, J)[n] * Operand(f, n + 1)
        <5>1. v = IF f[n + 1][1] \in {"add", "sub"}
                  THEN Value(f, J)[(n + 1) - 1] + Operand(f, n + 1)
                  ELSE Value(f, J)[(n + 1) - 1] * Operand(f, n + 1)
          BY <2>1, <2>6, <2>7, <3>2, ValueRules
        <5> QED BY <2>9, <5>1
      <4> QED BY <2>11, <4>1, <4>2
    <3> QED BY <3>1, <3>2
  <2>14. tmp' = v
    <3>1. v % 256 = v
      <4>1. v \in 0..255
        BY <2>7
      <4> HIDE DEF v
      <4> QED BY <4>1
    <3>2. tmp' = IF op = 131 THEN (tmp + x) % 256 ELSE (tmp * x) % 256
      BY <1>1 DEF Accumulated
    <3> HIDE DEF v, x
    <3> QED BY <2>13, <3>1, <3>2
  <2>15. /\ b + 1 \notin J /\ op' = Bytes(f[b + 1])[1]  /\ op' \in Merged
         /\ Written(f, J, b, memory') /\ Moved(f, b)' /\ Moved(f, n + 1)'
         /\ Rest(f, Off(f, b), memory')
         /\ i' = Off(f, n + 1) /\ j' = End(f, J, b)
         /\ n + 1 > b /\ Base(f, J, n + 1) = b /\ tmp' = Value(f, J)[n + 1]
    BY <1>1, <2>3, <2>7, <2>8, <2>10, <2>14 DEF Moved
  <2>16. n + 1 \in 0..L
    BY <2>6
  <2>17. Merging(f, J)'
    BY <1>1, <2>15, <2>16 DEF Merging, Joins
  <2> QED BY <1>1, <2>2, <2>17 DEF Stage, Joins
<1> QED BY <1>1, <1>2 DEF Kept, Started

(* What the end of a run writes, all of it below the index read.           *)
LEMMA MergedIs ==
  ASSUME Inv, EndRun
  PROVE  /\ \A p \in i..PageSize - 1 : memory'[p] = memory[p]
         /\ op # 246 => /\ memory'[j] = memory[i - 3] /\ memory'[j + 1] = memory[i - 2]
                        /\ memory'[j + 2] = tmp
                        /\ \A p \in 0..j - 1 : memory'[p] = memory[p]
         /\ op = 246 => /\ dl_reg + 1 # j => memory'[j] = memory[i - 2]
                        /\ memory'[dl_reg + 1] = tmp
                        /\ \A p \in 0..j - 1 : p # dl_reg + 1 => memory'[p] = memory[p]
<1>1. /\ i \in 0..PageSize - 1 /\ op \in Merged /\ memory' = MergedCode
      /\ j + Size(op) <= i /\ dl_reg + 1 < i
      /\ i \in Nat /\ j \in Nat /\ dl_reg \in Nat /\ PageSize \in Nat
      /\ memory \in [0..PageSize - 1 -> Byte]
  BY Inside, Page DEF Inv, TypeOK, Room, EndRun
<1>2. CASE op = 246
  <2>1. /\ j \in 0..PageSize - 1 /\ j + 1 \in 0..PageSize - 1 /\ dl_reg + 1 \in 0..PageSize - 1
        /\ j < i /\ j + 1 < i /\ dl_reg + 1 < i
        /\ \A p \in i..PageSize - 1 : p \in 0..PageSize - 1 /\ p # j /\ p # j + 1 /\ p # dl_reg + 1
        /\ \A p \in 0..j - 1 : p \in 0..PageSize - 1 /\ p # j /\ p # j + 1
        /\ j # j + 1
    BY <1>1, <1>2 DEF Size
  <2> QED BY <1>1, <1>2, <2>1 DEF MergedCode
<1>3. CASE op # 246
  <2>1. /\ j \in 0..PageSize - 1 /\ j + 1 \in 0..PageSize - 1 /\ j + 2 \in 0..PageSize - 1
        /\ \A p \in i..PageSize - 1 : p \in 0..PageSize - 1 /\ p # j /\ p # j + 1 /\ p # j + 2
        /\ \A p \in 0..j - 1 : p \in 0..PageSize - 1 /\ p # j /\ p # j + 1 /\ p # j + 2
        /\ j # j + 1 /\ j # j + 2 /\ j + 1 # j + 2
    BY <1>1, <1>3 DEF Size
  <2> QED BY <1>1, <1>3, <2>1 DEF MergedCode
<1> QED BY <1>2, <1>3

(* Instructions of the same name have the same first byte.                 *)
LEMMA SameFirst ==
  ASSUME NEW x \in Instruction, NEW y \in Instruction, x[1] = y[1]
  PROVE  Bytes(x)[1] = Bytes(y)[1] /\ Width(x) = Width(y)
<1>1. x[1] \in Names
  BY InstructionIs
<1> QED BY <1>1 DEF Bytes, Width, Names

(* A run ends. *)
LEMMA KeptEnd == ASSUME Inv, Kept, EndRun PROVE Kept'
<1>1. /\ at = "merge" /\ at' = "scan" /\ memory[i] # op /\ j' = j + Size(op)
      /\ i \in 0..PageSize - 1 /\ PageSize \in Nat
      /\ UNCHANGED <<function, dynamic, i, dl_reg, dl_val, op, tmp, ip, eax, dl>>
  BY Inside, Page DEF EndRun, Inv, cpuVars
<1>2. ASSUME dynamic => Mergeable(function) PROVE Stage'
  <2> DEFINE f == function
             J == Joins
             L == Len(f)
  <2>1. /\ f \in Functions /\ f \in Seq(Instruction) /\ L \in Nat /\ Plan(f, J) /\ Sound(f, J)
    BY <1>2, Setting DEF Inv
  <2>2. dynamic /\ Mergeable(f) /\ Merging(f, J)
    BY <1>1, <1>2 DEF Kept, Stage
  <2>3. PICK b \in 0..L - 1, n \in 0..L :
          /\ b + 1 \notin J /\ op = Bytes(f[b + 1])[1]  /\ op \in Merged
          /\ Written(f, J, b, memory) /\ Moved(f, b) /\ Moved(f, n)
          /\ Rest(f, Off(f, b), memory)
          /\ i = Off(f, n) /\ j = End(f, J, b)
          /\ \/ n = b /\ tmp = First(op)
             \/ n > b /\ Base(f, J, n) = b /\ tmp = Value(f, J)[n]
    BY <2>2 DEF Merging
  <2>4. n > b /\ Base(f, J, n) = b /\ tmp = Value(f, J)[n]
    <3>1. n # b
      <4>1. b \in 0..L /\ b # L
        BY <2>1
      <4>2. memory[Off(f, b)] = op
        BY <2>1, <2>3, <4>1, NextIs
      <4> QED BY <1>1, <2>3, <4>2
    <3> QED BY <2>3, <3>1
  <2>5. /\ n \in 1..L /\ n - 1 \in 0..L /\ b \in 0..L /\ b \in 0..n - 1 /\ b + 1 \in 1..L
        /\ f[n] \in Instruction /\ f[b + 1] \in Instruction /\ b \in Nat
    <3>1. n \in 1..L /\ n - 1 \in 0..L /\ b \in 0..L /\ b \in 0..n - 1 /\ b + 1 \in 1..L /\ b \in Nat
      BY <2>1, <2>4
    <3> QED BY <2>1, <3>1
  <2>6. f[b + 1][1] = f[n][1]
    <3>1. b + 1 \in b + 1..n
      BY <2>5
    <3>2. \A k \in Base(f, J, n) + 1..n : f[k][1] = f[n][1]
      BY <2>1, <2>5, BaseIs
    <3> QED BY <2>4, <3>1, <3>2
  <2>7. op = Bytes(f[n])[1] /\ Size(op) = Width(f[n])
    BY <2>3, <2>5, <2>6, SameFirst, BytesAre
  <2>8. Off(f, b) \in Nat /\ Off(f, n) \in Nat /\ Off(f, n - 1) \in Nat
        /\ Off(f, b) <= Off(f, n - 1) /\ Off(f, n) = Off(f, n - 1) + Width(f[n])
        /\ Width(f[n]) \in {2, 3}
    BY <2>1, <2>5, OffIs, OffGrows, NextOff
  <2>9. Rest(f, i, memory)
    <3>1. Off(f, b) <= Off(f, n)
      BY <2>8
    <3> QED BY <2>1, <2>3, <2>8, <3>1, RestLess
  <2>10. n + 1 \notin J
    <3>1. ASSUME n + 1 \in J PROVE FALSE
      <4>1. f[n + 1][1] = f[(n + 1) - 1][1] /\ n + 1 \in 1..L
        BY <2>1, <3>1, JoinedIs
      <4>2. f[n + 1][1] = f[n][1] /\ n # L /\ f[n + 1] \in Instruction
        <5>1. (n + 1) - 1 = n /\ n # L
          BY <2>1, <2>5, <4>1
        <5> QED BY <2>1, <4>1, <5>1
      <4>3. Bytes(f[n + 1])[1] = op
        BY <2>5, <2>7, <4>2, SameFirst
      <4>4. memory[i] = Bytes(f[n + 1])[1]
        BY <2>1, <2>3, <2>9, <4>2, NextIs
      <4> QED BY <1>1, <4>3, <4>4
    <3> QED BY <3>1
  <2>11. /\ memory[Off(f, n - 1)] = Bytes(f[n])[1]
         /\ memory[Off(f, n - 1) + 1] = Bytes(f[n])[2]
    <3>1. Off(f, b) <= Off(f, n - 1) + 1
      BY <2>8
    <3> QED BY <2>1, <2>3, <2>5, <2>8, <3>1, RestIs
  <2>12. /\ Pos(f, J, n) = j /\ End(f, J, n) = j + Width(f[n]) /\ j \in Nat
    BY <2>1, <2>3, <2>4, <2>5, PosIs
  <2>13. j' = End(f, J, n)
    BY <1>1, <2>7, <2>12
  <2>14. Rest(f, i, memory')
    <3>1. \A k \in i + 1..Len(CodeOf(f)) : k - 1 \in i..PageSize - 1
      <4>1. Len(CodeOf(f)) \in Nat /\ Len(CodeOf(f)) < PageSize
        BY <2>1, PageHolds
      <4> QED BY <1>1, <4>1
    <3> QED BY <2>9, <3>1, MergedIs DEF Rest
  <2>15. Written(f, J, n, memory')
    <3>1. CASE op = 246
      <4>1. f[n][1] = "div" /\ Width(f[n]) = 2
        <5>1. Bytes(f[n])[1] = 246 /\ f[n] \in Instruction
          BY <2>5, <2>7, <3>1
        <5>2. f[n][1] = "div"
          BY <5>1, BytesAre
        <5> QED BY <5>2 DEF Width
      <4>2. i - 2 = Off(f, n - 1)
        BY <2>3, <2>8, <4>1
      <4>3. /\ dl_reg \in Nat /\ memory'[dl_reg + 1] = Value(f, J)[n]
            /\ dl_reg + 1 # End(f, J, b) => memory'[End(f, J, b)] = Bytes(f[n])[1]
            /\ \A p \in 0..End(f, J, b) - 1 : p # dl_reg + 1 => memory'[p] = memory[p]
        BY <2>3, <2>4, <2>11, <3>1, <4>2, MergedIs DEF Inv, TypeOK
      <4>4. \/ Unmoved(f, n) /\ dl_reg = 0
            \/ \E m \in 1..n : LastMove(f, m, n) /\ dl_reg = Off(f, m - 1)
        BY <2>3 DEF Moved
      <4> HIDE DEF f, J, L
      <4>5. b = Base(f, J, n) /\ n \in 1..Len(f)
        BY <2>4, <2>5 DEF L
      <4> QED BY <2>1, <2>3, <2>10, <4>1, <4>3, <4>4, <4>5, WrittenDiv
    <3>2. CASE op # 246
      <4>1. f[n][1] # "div" /\ Width(f[n]) = 3
        <5>1. op \in {131, 107}
          BY <2>3, <3>2 DEF Merged
        <5> QED BY <2>5, <2>7, <5>1, BytesAre
      <4>2. i - 3 = Off(f, n - 1) /\ i - 2 = Off(f, n - 1) + 1
        BY <2>3, <2>8, <4>1
      <4>3. /\ memory'[j] = Bytes(f[n])[1] /\ memory'[j + 1] = Bytes(f[n])[2]
            /\ memory'[j + 2] = Value(f, J)[n]
            /\ \A p \in 0..j - 1 : memory'[p] = memory[p]
        BY <2>4, <2>11, <3>2, <4>2, MergedIs
      <4>4. Placed(f, J, n, memory')
        BY <2>12, <4>3 DEF Placed
      <4>5. Written(f, J, b, memory')
        BY <2>1, <2>3, <2>5, <4>3, WrittenKept
      <4> HIDE DEF f, J, L
      <4>6. b = Base(f, J, n) /\ n \in 1..Len(f)
        BY <2>4, <2>5 DEF L
      <4> QED BY <2>1, <4>1, <4>4, <4>5, <4>6, WrittenRun
    <3> QED BY <3>1, <3>2
  <2>16. /\ n + 1 \notin J /\ Written(f, J, n, memory') /\ Moved(f, n)'
         /\ i' = Off(f, n) /\ j' = End(f, J, n) /\ Rest(f, i', memory')
    BY <1>1, <2>3, <2>10, <2>13, <2>14, <2>15 DEF Moved
  <2>17. Scanned(f, J)'
    BY <1>1, <2>16 DEF Scanned, Joins
  <2> QED BY <1>1, <2>2, <2>17 DEF Stage, Joins
<1> QED BY <1>1, <1>2 DEF Kept, Started

(* A move is a run of its own.                                             *)
LEMMA MoveAlone ==
  ASSUME NEW f, NEW J, Plan(f, J), NEW n \in 1..Len(f), f[n][1] \in {"mov", "movdl"}
  PROVE  /\ n \notin J /\ n + 1 \notin J /\ Base(f, J, n) = n - 1
         /\ Pos(f, J, n) = End(f, J, n - 1) /\ End(f, J, n) = End(f, J, n - 1) + 2
         /\ End(f, J, n - 1) \in Nat /\ n - 1 \in 0..Len(f) /\ n \in 0..Len(f)
         /\ Width(f[n]) = 2 /\ f[n][1] # "div"
<1>1. n \notin J
  BY JoinedIs DEF Grouped
<1>2. n + 1 \notin J
  <2>1. ASSUME n + 1 \in J PROVE FALSE
    <3>1. f[n + 1][1] = f[(n + 1) - 1][1] /\ f[n + 1][1] \in Grouped
      BY <2>1, JoinedIs
    <3>2. (n + 1) - 1 = n
      OBVIOUS
    <3> QED BY <3>1, <3>2 DEF Grouped
  <2> QED BY <2>1
<1>3. Width(f[n]) = 2 /\ f[n][1] # "div"
  BY DEF Width
<1>4. n - 1 \in 0..Len(f) /\ n \in 0..Len(f)
  OBVIOUS
<1>5. /\ Base(f, J, n) = n - 1 /\ End(f, J, n) = End(f, J, n - 1) + 2
      /\ End(f, J, n - 1) \in Nat
  BY <1>1, <1>3, <1>4, LayoutRules
<1>6. Pos(f, J, n) = End(f, J, n - 1)
  BY <1>5, PosIs
<1> QED BY <1>1, <1>2, <1>3, <1>4, <1>5, <1>6

(* A byte is copied. *)
LEMMA KeptCopy == ASSUME Inv, Kept, CopyByte PROVE Kept'
<1>1. /\ at = "scan" /\ at' = "scan" /\ memory[i] \notin {Ret} \cup Merged
      /\ memory' = [memory EXCEPT ![j] = memory[i]]
      /\ memory[i] = 178 => dl_reg' = i /\ dl_val' = memory[i + 1]
      /\ memory[i] # 178 => dl_reg' = dl_reg /\ dl_val' = dl_val
      /\ i' = i + 1 /\ j' = j + 1
      /\ i \in 0..PageSize - 1 /\ PageSize \in Nat /\ i \in Nat /\ j \in Nat
      /\ memory \in [0..PageSize - 1 -> Byte]
      /\ UNCHANGED <<function, dynamic, op, tmp, ip, eax, dl>>
  BY Inside, Page DEF CopyByte, Inv, TypeOK, cpuVars
<1>2. Started'
  BY <1>1 DEF Kept, Started
<1>3. CASE ZeroPage
  <2>1. ZeroPage'
    BY <1>1, <1>3 DEF ZeroPage
  <2> QED BY <1>1, <1>2, <2>1 DEF Kept, Stage, Started
<1>4. ASSUME ~ZeroPage, dynamic => Mergeable(function) PROVE Stage'
  <2> DEFINE f == function
             J == Joins
             L == Len(f)
  <2>1. /\ f \in Functions /\ f \in Seq(Instruction) /\ L \in Nat /\ Plan(f, J)
    BY <1>4, Setting DEF Inv
  <2>2. dynamic /\ Mergeable(f) /\ Scanned(f, J)
    BY <1>1, <1>4 DEF Kept, Stage
  <2>3. PICK n \in 0..L :
          /\ n + 1 \notin J /\ Written(f, J, n, memory) /\ Moved(f, n)
          /\ \/ i = Off(f, n) /\ j = End(f, J, n) /\ Rest(f, i, memory)
             \/ /\ n > 0 /\ f[n][1] \in {"mov", "movdl"}
                /\ i + 1 = Off(f, n) /\ j + 1 = End(f, J, n)
                /\ Rest(f, i, memory)
    BY <2>2 DEF Scanned
  <2>4. j <= i /\ Off(f, n) \in Nat /\ End(f, J, n) \in Nat
    <3>1. End(f, J, n) <= Off(f, n) /\ Off(f, n) \in Nat /\ End(f, J, n) \in Nat
      BY <2>1, EndOff, OffIs, LayoutRules
    <3> QED BY <1>1, <2>3, <3>1
  <2>5. /\ memory'[j] = memory[i] /\ \A p \in 0..PageSize - 1 : p # j => memory'[p] = memory[p]
    BY <1>1, <2>4
  <2>6. Rest(f, i', memory')
    <3>1. ASSUME NEW k \in i + 2..Len(CodeOf(f))
          PROVE  k - 1 \in 0..PageSize - 1 /\ k - 1 # j /\ k \in i + 1..Len(CodeOf(f))
      <4>1. Len(CodeOf(f)) \in Nat /\ Len(CodeOf(f)) < PageSize
        BY <2>1, PageHolds
      <4> QED BY <1>1, <2>4, <4>1
    <3>2. i' + 1 = i + 2
      BY <1>1
    <3> QED BY <2>3, <2>5, <3>1, <3>2 DEF Rest
  <2>7. \A p \in 0..j - 1 : memory'[p] = memory[p]
    BY <1>1, <2>4, <2>5
  <2>8. CASE i = Off(f, n) /\ j = End(f, J, n) /\ Rest(f, i, memory)
    <3> DEFINE g == n + 1
    <3>1. n # L
      BY <1>1, <2>1, <2>8, NextIs
    <3>2. /\ g \in 1..L /\ f[g] \in Instruction /\ Off(f, g) = Off(f, n) + Width(f[g])
          /\ memory[i] = Bytes(f[g])[1] /\ memory[i + 1] = Bytes(f[g])[2]
      BY <2>1, <2>8, <3>1, NextIs
    <3>3. f[g][1] \in {"mov", "movdl"}
      <4>1. Bytes(f[g])[1] \in {137, 178}
        <5>1. Bytes(f[g])[1] \in {137, 178, 131, 107, 246}
          BY <3>2, BytesAre
        <5> QED BY <1>1, <3>2, <5>1 DEF Merged
      <4> QED BY <3>2, <4>1, BytesAre
    <3>4. g - 1 = n
      BY <2>1
    <3>5. /\ g + 1 \notin J /\ Base(f, J, g) = n /\ Pos(f, J, g) = j /\ End(f, J, g) = j + 2
          /\ Width(f[g]) = 2 /\ f[g][1] # "div" /\ g \in 0..L
      <4>1. /\ g + 1 \notin J /\ Base(f, J, g) = g - 1
            /\ Pos(f, J, g) = End(f, J, g - 1) /\ End(f, J, g) = End(f, J, g - 1) + 2
            /\ Width(f[g]) = 2 /\ f[g][1] # "div" /\ g \in 0..L
        BY <2>1, <3>2, <3>3, MoveAlone
      <4> QED BY <2>8, <3>4, <4>1
    <3>6. Written(f, J, g, memory')
      <4>1. Written(f, J, n, memory')
        BY <2>1, <2>3, <2>7, <2>8, WrittenKept
      <4>2. Placed(f, J, g, memory')
        BY <2>5, <3>2, <3>5 DEF Placed
      <4>3. f[g][1] # "div" /\ n = Base(f, J, g) /\ g \in 1..Len(f)
        BY <3>2, <3>5
      <4> HIDE DEF f, J, g
      <4> QED BY <2>1, <4>1, <4>2, <4>3, WrittenRun
    <3>7. Moved(f, g)'
      <4>1. CASE f[g][1] = "movdl"
        <5>1. memory[i] = 178 /\ memory[i + 1] = f[g][2]
          BY <3>2, <4>1, BytesAre
        <5>2. dl_reg' = Off(f, g - 1) /\ dl_val' = f[g][2]
          BY <1>1, <2>8, <3>4, <5>1
        <5>3. Run(f)[g].dl = f[g][2]
          BY <2>1, <3>2, <4>1, RunRules
        <5>4. LastMove(f, g, g) /\ g \in 1..g
          BY <2>1, <3>2, <4>1, MoveRules
        <5> QED BY <1>1, <5>2, <5>3, <5>4 DEF Moved
      <4>2. CASE f[g][1] # "movdl"
        <5>1. memory[i] # 178
          BY <3>2, <4>2, BytesAre
        <5>2. dl_reg' = dl_reg /\ dl_val' = dl_val
          BY <1>1, <5>1
        <5>3. Run(f)[g].dl = Run(f)[n].dl
          BY <2>1, <3>2, <3>4, <4>2, RunRules
        <5>4. /\ Unmoved(f, g) <=> Unmoved(f, n)
              /\ \A m : LastMove(f, m, g) <=> LastMove(f, m, n)
          <6>1. /\ Unmoved(f, g) <=> Unmoved(f, g - 1)
                /\ \A m : LastMove(f, m, g) <=> LastMove(f, m, g - 1)
            BY <2>1, <3>2, <4>2, MoveRules
          <6> QED BY <3>4, <6>1
        <5>5. \A m \in 1..n : m \in 1..g
          BY <2>1, <2>3
        <5> QED BY <1>1, <2>3, <5>2, <5>3, <5>4, <5>5 DEF Moved
      <4> QED BY <4>1, <4>2
    <3> DEFINE o == Off(f, g)
               e == End(f, J, g)
    <3>8. o = i + 2 /\ e = j + 2 /\ g > 0
      BY <2>1, <2>8, <3>2, <3>5
    <3>9. i' + 1 = Off(f, g) /\ j' + 1 = End(f, J, g)
      <4> HIDE DEF o, e
      <4>1. i' + 1 = o /\ j' + 1 = e
        BY <1>1, <3>8
      <4> QED BY <4>1 DEF o, e
    <3>10. /\ g + 1 \notin J /\ Written(f, J, g, memory') /\ Moved(f, g)'
          /\ g > 0 /\ f[g][1] \in {"mov", "movdl"}
          /\ i' + 1 = Off(f, g) /\ j' + 1 = End(f, J, g) /\ Rest(f, i', memory')
      BY <2>6, <3>3, <3>5, <3>6, <3>7, <3>8, <3>9
    <3> HIDE DEF g
    <3>11. Scanned(f, J)'
      BY <1>1, <3>5, <3>10 DEF Scanned, Joins
    <3> QED BY <1>1, <2>2, <3>11 DEF Stage, Joins
  <2>9. CASE /\ n > 0 /\ f[n][1] \in {"mov", "movdl"}
             /\ i + 1 = Off(f, n) /\ j + 1 = End(f, J, n) /\ Rest(f, i, memory)
    <3>1. n \in 1..L /\ (f[n][1] = "movdl" => f[n][2] # 107)
      BY <2>1, <2>2, <2>9 DEF Mergeable
    <3>2. memory[i] # 178
      BY <1>1, <2>1, <2>9, <3>1, WithinIs
    <3>3. /\ Base(f, J, n) = n - 1 /\ Pos(f, J, n) = End(f, J, n - 1)
          /\ End(f, J, n) = End(f, J, n - 1) + 2 /\ End(f, J, n - 1) \in Nat
          /\ Width(f[n]) = 2 /\ f[n][1] # "div" /\ n - 1 \in 0..L
      BY <2>1, <2>9, <3>1, MoveAlone
    <3>4. /\ Pos(f, J, n) \in 0..j - 1 /\ n - 1 \in 0..n /\ n \in Nat
          /\ \A p \in 0..End(f, J, n - 1) - 1 : p \in 0..j - 1
      BY <1>1, <2>1, <2>9, <3>1, <3>3
    <3>5. Written(f, J, n - 1, memory')
      <4>1. Written(f, J, n - 1, memory)
        BY <2>3, <3>4, WrittenLess
      <4> QED BY <2>1, <2>7, <3>3, <3>4, <4>1, WrittenKept
    <3>6. Placed(f, J, n, memory')
      <4>1. Placed(f, J, n, memory)
        <5>1. n \in 1..n
          BY <3>1
        <5> QED BY <2>3, <5>1 DEF Written
      <4> QED BY <2>7, <3>3, <3>4, <4>1 DEF Placed
    <3>7. Written(f, J, n, memory')
      <4>1. n - 1 = Base(f, J, n) /\ n \in 1..Len(f)
        BY <3>1, <3>3
      <4> HIDE DEF f, J
      <4> QED BY <2>1, <3>3, <3>5, <3>6, <4>1, WrittenRun
    <3>8. /\ n + 1 \notin J /\ Written(f, J, n, memory') /\ Moved(f, n)'
          /\ i' = Off(f, n) /\ j' = End(f, J, n) /\ Rest(f, i', memory')
      BY <1>1, <2>3, <2>6, <2>9, <3>2, <3>7 DEF Moved
    <3>9. Scanned(f, J)'
      BY <1>1, <3>8 DEF Scanned, Joins
    <3> QED BY <1>1, <2>2, <3>9 DEF Stage, Joins
  <2> QED BY <2>3, <2>8, <2>9
<1> QED BY <1>1, <1>2, <1>3, <1>4 DEF Kept

(* What a processor step leaves, whichever instruction it executes.        *)
LEMMA CpuIs ==
  ASSUME Inv, Execute
  PROVE  /\ at = "call" /\ UNCHANGED <<function, dynamic, memory, i, j, dl_reg, dl_val, op, tmp>>
         /\ memory[ip] \in {131, 107, 246, 178, 137, Ret}
         /\ memory[ip] = 131 =>
              /\ ip' = ip + 3 /\ dl' = dl /\ at' = "call"
              /\ eax' = IF memory[ip + 1] = 192 THEN eax + Signed(memory[ip + 2])
                                                ELSE eax - Signed(memory[ip + 2])
         /\ memory[ip] = 107 =>
              /\ ip' = ip + 3 /\ dl' = dl /\ at' = "call"
              /\ eax' = eax * Signed(memory[ip + 2])
         /\ memory[ip] = 246 =>
              /\ ip' = ip + 2 /\ dl' = dl
              /\ DivFaults(eax, dl) => at' = "fault"
              /\ ~DivFaults(eax, dl) => at' = "call" /\ eax' = Divided(eax, dl)
         /\ memory[ip] = 178 =>
              ip' = ip + 2 /\ dl' = memory[ip + 1] /\ eax' = eax /\ at' = "call"
         /\ memory[ip] = 137 =>
              ip' = ip + 2 /\ dl' = dl /\ eax' = eax /\ at' = "call"
         /\ memory[ip] = Ret => UNCHANGED <<ip, eax, dl>> /\ at' = "returned"
<1>1. at = "call" /\ UNCHANGED <<function, dynamic, memory, i, j, dl_reg, dl_val, op, tmp>>
  BY DEF Execute, scanVars
<1>2. CASE memory[ip] = 131
  BY <1>1, <1>2 DEF Execute, Ret
<1>3. CASE memory[ip] = 107
  BY <1>1, <1>3 DEF Execute, Ret
<1>4. CASE memory[ip] = 246
  BY <1>1, <1>4 DEF Execute, Ret
<1>5. CASE memory[ip] = 178
  BY <1>1, <1>5 DEF Execute, Ret
<1>6. CASE memory[ip] = 137
  BY <1>1, <1>6 DEF Execute, Ret
<1>7. CASE memory[ip] = Ret
  BY <1>1, <1>7 DEF Execute, Ret, cpuVars
<1>8. memory[ip] \in {131, 107, 246, 178, 137, Ret}
  BY DEF Execute
<1> QED BY <1>2, <1>3, <1>4, <1>5, <1>6, <1>7, <1>8

(* An instruction of the code that is called does what its run does.       *)
LEMMA KeptInstruction ==
  ASSUME Inv, Execute, NEW f, f = function, NEW J, Sound(f, J), f \in Functions,
         NEW n \in 0..Len(f) - 1, Reached(f, J, n), Written(f, J, Len(f), memory)
  PROVE  \/ at' = "call" /\ \E k \in 0..Len(f) : Reached(f, J, k)'
         \/ at' = "fault" /\ Meaning(f).bad
<1>1. f \in Seq(Instruction) /\ Len(f) \in Nat /\ Plan(f, J) /\ n + 1 \notin J /\ n \in Nat
      /\ n \in 0..Len(f)
  BY AccessIs DEF Sound, Plan, Reached
<1>2. PICK k \in n + 1..Len(f) : k + 1 \notin J /\ Base(f, J, k) = n
  BY <1>1, NextRun
<1>3. /\ k \in 1..Len(f) /\ k \in 0..Len(f) /\ k \in Nat /\ n <= k /\ k \in n + 1..k
  BY <1>1, <1>2
<1>4. f[k] \in Instruction /\ f[k][1] \in Names
  BY <1>1, <1>3, AccessIs
<1>5. Pos(f, J, k) = ip /\ End(f, J, k) = ip + Width(f[k])
  BY <1>1, <1>2, <1>3, PosIs DEF Reached
<1>6. Placed(f, J, k, memory)
  BY <1>2, <1>3 DEF Written
<1>7. memory[ip] = Bytes(f[k])[1]
  BY <1>5, <1>6 DEF Placed
<1>8. \A h \in n + 1..k : f[h][1] = f[k][1]
  BY <1>1, <1>2, <1>3, BaseIs
<1>9. \A h \in 1..k : h \in 1..n \/ h \in n + 1..k
  BY <1>1, <1>3
<1> DEFINE v == Value(f, J)[k]
           s == Run(f)[n]
           r == Run(f)[k]
<1>10. Did(f[k][1], v, s, r)
  BY <1>2, <1>3, RunDid
<1>11. UNCHANGED memory
  BY CpuIs
<1>12. ~Doomed(f) => eax = s.eax /\ ~s.bad
  BY DEF Reached
<1> HIDE DEF s, r, v
<1>13. ASSUME f[k][1] # "movdl", dl' = dl
       PROVE  \/ Unmoved(f, k) /\ dl' = 0
              \/ \E m \in 1..k : LastMove(f, m, k) /\ dl' = memory'[Pos(f, J, m) + 1]
  <2>1. /\ Unmoved(f, k) <=> Unmoved(f, n)
        /\ \A m : LastMove(f, m, k) <=> LastMove(f, m, n)
    <3>1. \A h \in n + 1..k : f[h][1] # "movdl"
      BY <1>8, <1>13
    <3> QED BY <1>1, <1>3, <3>1, NoMove
  <2>2. \A m \in 1..n : m \in 1..k
    BY <1>1, <1>3
  <2> QED BY <1>11, <1>13, <2>1, <2>2 DEF Reached
<1>14. ASSUME f[k][1] # "div", NEW h \in 1..k, f[h][1] = "div" PROVE ~Unmoved(f, h)
  BY <1>8, <1>9, <1>14 DEF Reached
<1>15. ASSUME at' = "call", ip' = ip + Width(f[k]),
              \/ Unmoved(f, k) /\ dl' = 0
              \/ \E m \in 1..k : LastMove(f, m, k) /\ dl' = memory'[Pos(f, J, m) + 1],
              \A h \in 1..k : f[h][1] = "div" => ~Unmoved(f, h),
              ~Doomed(f) => eax' = r.eax /\ ~r.bad
       PROVE  at' = "call" /\ \E h \in 0..Len(f) : Reached(f, J, h)'
  <2>1. Reached(f, J, k)'
    BY <1>2, <1>5, <1>15 DEF Reached, r
  <2> QED BY <1>3, <1>15, <2>1
<1>16. CASE f[k][1] = "mov"
  <2>1. memory[ip] = 137 /\ Width(f[k]) = 2 /\ f[k][1] # "div" /\ f[k][1] # "movdl"
    BY <1>4, <1>7, <1>16, BytesAre
  <2>2. ip' = ip + 2 /\ dl' = dl /\ eax' = eax /\ at' = "call"
    BY <2>1, CpuIs
  <2>3. ~Doomed(f) => eax' = r.eax /\ ~r.bad
    BY <1>10, <1>12, <1>16, <2>2 DEF Did
  <2> QED BY <1>13, <1>14, <1>15, <2>1, <2>2, <2>3
<1>17. CASE f[k][1] = "movdl"
  <2>1. memory[ip] = 178 /\ Width(f[k]) = 2 /\ f[k][1] # "div"
    BY <1>4, <1>7, <1>17, BytesAre
  <2>2. ip' = ip + 2 /\ dl' = memory[ip + 1] /\ eax' = eax /\ at' = "call"
    BY <2>1, CpuIs
  <2>3. ~Doomed(f) => eax' = r.eax /\ ~r.bad
    BY <1>10, <1>12, <1>17, <2>2 DEF Did
  <2>4. LastMove(f, k, k) /\ k \in 1..k
    BY <1>1, <1>3, <1>17, MoveRules
  <2>5. dl' = memory'[Pos(f, J, k) + 1]
    BY <1>5, <1>11, <2>2
  <2> QED BY <1>14, <1>15, <2>1, <2>2, <2>3, <2>4, <2>5
<1>18. v \in Nat /\ (f[k][1] # "div" => v <= 127)
  BY <1>1, <1>3, ValueRules DEF Sound, v
<1>19. ASSUME f[k][1] \in {"add", "sub", "imul"}
       PROVE  /\ Width(f[k]) = 3 /\ Signed(memory[ip + 2]) = v /\ v \in Nat
              /\ f[k][1] # "div" /\ f[k][1] # "movdl"
  <2>1. Width(f[k]) = 3 /\ f[k][1] # "div" /\ f[k][1] # "movdl"
    BY <1>19 DEF Width
  <2>2. memory[ip + 2] = v
    BY <1>5, <1>6, <2>1 DEF Placed, v
  <2>3. v \in Nat /\ ~(v > 127)
    BY <1>18, <2>1
  <2> QED BY <2>1, <2>2, <2>3 DEF Signed
<1>20. CASE f[k][1] = "imul"
  <2>1. memory[ip] = 107
    BY <1>4, <1>7, <1>20, BytesAre
  <2>2. ip' = ip + 3 /\ dl' = dl /\ eax' = eax * v /\ at' = "call"
    BY <1>19, <1>20, <2>1, CpuIs
  <2>3. ~Doomed(f) => eax' = r.eax /\ ~r.bad
    BY <1>10, <1>12, <1>20, <2>2 DEF Did
  <2> QED BY <1>13, <1>14, <1>15, <1>19, <1>20, <2>2, <2>3
<1>21. CASE f[k][1] \in {"add", "sub"}
  <2>1. memory[ip] = 131
    BY <1>4, <1>7, <1>21, BytesAre
  <2>2. ip' = ip + 3 /\ dl' = dl /\ at' = "call"
    BY <2>1, CpuIs
  <2>3. eax' = IF memory[ip + 1] = 192 THEN eax + v ELSE eax - v
    BY <1>19, <1>21, <2>1, CpuIs
  <2>4. ASSUME ~Doomed(f) PROVE eax' = r.eax /\ ~r.bad
    <3>1. memory[ip + 1] = Bytes(f[k])[2]
      BY <1>5, <1>6, <1>19, <1>21, <2>4 DEF Placed
    <3>2. CASE f[k][1] = "add"
      <4>1. memory[ip + 1] = 192
        BY <1>4, <3>1, <3>2, BytesAre
      <4> QED BY <1>10, <1>12, <2>3, <2>4, <3>2, <4>1 DEF Did
    <3>3. CASE f[k][1] = "sub"
      <4>1. memory[ip + 1] = 232
        BY <1>4, <3>1, <3>3, BytesAre
      <4> QED BY <1>10, <1>12, <2>3, <2>4, <3>3, <4>1 DEF Did
    <3> QED BY <1>21, <3>2, <3>3
  <2> QED BY <1>13, <1>14, <1>15, <1>19, <1>21, <2>2, <2>4
<1>22. CASE f[k][1] = "div"
  <2>1. memory[ip] = 246 /\ Width(f[k]) = 2 /\ f[k][1] # "movdl"
    BY <1>4, <1>7, <1>22, BytesAre
  <2>2. /\ ip' = ip + 2 /\ dl' = dl
        /\ DivFaults(eax, dl) => at' = "fault"
        /\ ~DivFaults(eax, dl) => at' = "call" /\ eax' = Divided(eax, dl)
    BY <2>1, CpuIs
  <2>3. \/ Unmoved(f, k) /\ dl = 0
        \/ \E m \in 1..k : LastMove(f, m, k) /\ dl = memory[Pos(f, J, m) + 1]
    BY <1>11, <1>13, <2>1, <2>2
  <2>4. CASE Unmoved(f, k) /\ dl = 0
    <3>1. Doomed(f)
      BY <1>3, <1>22, <2>4 DEF Doomed
    <3>2. DivFaults(eax, dl)
      BY <2>4 DEF DivFaults
    <3> QED BY <1>1, <2>2, <3>1, <3>2, DoomedIsBad
  <2>5. ASSUME NEW m \in 1..k, LastMove(f, m, k), dl = memory[Pos(f, J, m) + 1]
        PROVE  \/ at' = "call" /\ \E h \in 0..Len(f) : Reached(f, J, h)'
               \/ at' = "fault" /\ Meaning(f).bad
    <3>1. dl = v
      <4>1. m \in 1..Len(f)
        BY <1>3
      <4> QED BY <1>2, <1>3, <1>22, <2>5, <4>1 DEF Written, v
    <3>2. CASE DivFaults(eax, dl)
      <4>1. CASE Doomed(f)
        BY <1>1, <2>2, <3>2, <4>1, DoomedIsBad
      <4>2. CASE ~Doomed(f)
        <5>1. r.bad
          BY <1>10, <1>12, <1>22, <3>1, <3>2, <4>2 DEF Did
        <5>2. Meaning(f).bad
          BY <1>1, <1>3, <5>1, BadStays DEF r
        <5> QED BY <2>2, <3>2, <5>2
      <4> QED BY <4>1, <4>2
    <3>3. CASE ~DivFaults(eax, dl)
      <4>1. ~Doomed(f) => eax' = r.eax /\ ~r.bad
        BY <1>10, <1>12, <1>22, <2>2, <3>1, <3>3 DEF Did
      <4>2. ASSUME NEW h \in 1..k, f[h][1] = "div" PROVE ~Unmoved(f, h)
        <5>1. CASE h \in 1..n
          BY <4>2, <5>1 DEF Reached
        <5>2. CASE h \in n + 1..k
          <6>1. f[m][1] = "movdl"
            BY <2>5 DEF LastMove
          <6>2. m \notin n + 1..k
            BY <1>8, <1>22, <6>1
          <6>3. m \in 1..h
            BY <1>1, <1>3, <5>2, <6>2
          <6> QED BY <6>1, <6>3 DEF Unmoved
        <5> QED BY <1>9, <5>1, <5>2
      <4>3. dl' = memory'[Pos(f, J, m) + 1]
        BY <1>11, <2>2, <2>5
      <4>4. \E h \in 1..k : LastMove(f, h, k) /\ dl' = memory'[Pos(f, J, h) + 1]
        BY <2>5, <4>3
      <4> QED BY <1>15, <2>1, <2>2, <3>3, <4>1, <4>2, <4>4
    <3> QED BY <3>2, <3>3
  <2> QED BY <2>3, <2>4, <2>5
<1> QED BY <1>4, <1>16, <1>17, <1>20, <1>21, <1>22 DEF Names

(* The processor executes an instruction, or returns. *)
LEMMA KeptExecute == ASSUME Inv, Kept, Execute PROVE Kept'
<1>1. /\ at = "call" /\ at' \in {"call", "fault", "returned"}
      /\ UNCHANGED <<function, dynamic, memory, i, j, dl_reg, dl_val, op, tmp>>
  <2>1. at' \in {"call", "fault", "returned"}
    BY DEF Execute
  <2> QED BY <2>1, CpuIs
<1>2. ASSUME dynamic => Mergeable(function) PROVE Stage'
  <2> DEFINE f == function
             J == Joins
             L == Len(f)
  <2>1. /\ f \in Functions /\ f \in Seq(Instruction) /\ L \in Nat /\ Sound(f, J) /\ L \in 0..L
    BY <1>2, Setting DEF Inv
  <2>2. Called(f, J)
    <3>1. ~(ZeroPage /\ ip = 0)
      <4>1. ASSUME ZeroPage, ip = 0 PROVE FALSE
        <5>1. ip \in 0..PageSize - 1
          BY <4>1, Page DEF Execute
        <5>2. memory[ip] = 0
          BY <4>1, <5>1 DEF ZeroPage
        <5> QED BY <5>2, CpuIs DEF Ret
      <4> QED BY <4>1
    <3> QED BY <1>1, <1>2, <3>1 DEF Kept, Stage
  <2>3. PICK n \in 0..L : Reached(f, J, n)
    BY <2>2 DEF Called
  <2>4. CASE n = L
    <3>1. memory[ip] = Ret
      BY <2>2, <2>3, <2>4 DEF Called, Reached
    <3>2. UNCHANGED <<ip, eax, dl>> /\ at' = "returned"
      BY <3>1, CpuIs
    <3>3. ~Doomed(f)
      BY <2>3, <2>4 DEF Reached, Doomed
    <3>4. ~Meaning(f).bad /\ eax = Meaning(f).eax
      BY <2>3, <2>4, <3>3 DEF Reached, Meaning
    <3> QED BY <1>1, <3>2, <3>4 DEF Stage
  <2>5. CASE n # L
    <3>1. n \in 0..Len(f) - 1 /\ Written(f, J, Len(f), memory)
      BY <2>1, <2>2, <2>3, <2>5 DEF Called
    <3>2. PICK g, K : g = function /\ K = Joins
      OBVIOUS
    <3>3. \/ at' = "call" /\ \E k \in 0..Len(g) : Reached(g, K, k)'
          \/ at' = "fault" /\ Meaning(g).bad
      <4>1. /\ g \in Functions /\ Sound(g, K) /\ n \in 0..Len(g) - 1
            /\ Reached(g, K, n) /\ Written(g, K, Len(g), memory)
        BY <2>1, <2>3, <3>1, <3>2
      <4> QED BY <3>2, <4>1, KeptInstruction
    <3>4. ASSUME at' = "call", NEW k \in 0..Len(g), Reached(g, K, k)' PROVE Stage'
      <4>1. function' = g /\ Joins' = K
        BY <1>1, <3>2 DEF Joins
      <4>2. Called(g, K)'
        BY <1>1, <2>2, <3>2, <3>4 DEF Called
      <4>3. Called(function, Joins)'
        BY <4>1, <4>2
      <4> QED BY <3>4, <4>3 DEF Stage
    <3> QED BY <1>1, <3>2, <3>3, <3>4 DEF Stage
  <2> QED BY <2>4, <2>5
<1> QED BY <1>1, <1>2 DEF Kept, Started

(* Every step keeps the invariant. *)
LEMMA KeptNext == ASSUME Inv, Kept, [Next]_vars PROVE Kept'
<1>1. CASE UNCHANGED vars
  <2>1. UNCHANGED <<function, dynamic, at, memory, i, j, dl_reg, dl_val, op, tmp, ip, eax, dl>>
    BY <1>1 DEF vars, scanVars, cpuVars
  <2> QED BY <2>1 DEF Kept, Started, Stage, ZeroPage, Fresh, Joins, Scanned, Merging,
                     Called, Reached, Moved
<1> QED
  BY <1>1, KeptFill, KeptLaunch, KeptBegin, KeptContinue, KeptEnd, KeptCopy, KeptFinish,
     KeptOverrun, KeptExecute, KeptZeros DEF Next, drecompile

(* Where the function is through, its result is that of its instructions.  *)
LEMMA KeptResult == ASSUME TypeOK, Kept PROVE SameResult
<1> SUFFICES ASSUME at \in {"returned", "fault"}, dynamic => Mergeable(function)
             PROVE  /\ at = "returned" => ~Meaning(function).bad /\ eax = Meaning(function).eax
                    /\ at = "fault" /\ memory[0] # 0 => Meaning(function).bad
  BY DEF SameResult
<1>1. 0 \in 0..PageSize - 1
  <2>1. function \in Functions
    BY DEF TypeOK
  <2>2. Len(CodeOf(function)) \in Nat /\ Len(CodeOf(function)) < PageSize /\ PageSize \in Nat
    BY <2>1, PageHolds
  <2> QED BY <2>2
<1>2. Stage
  BY DEF Kept
<1> QED BY <1>1, <1>2 DEF Stage, ZeroPage

(* The code that is called returns what the function returns, and faults   *)
(* only where a division of it does, whether drecompile has merged its     *)
(* instructions or not: of the functions that merging does not change,     *)
(* whatever their length, immediates and order of instructions.            *)
THEOREM ResultKept == Spec => []SameResult
<1>1. Init => Inv /\ Kept
  BY InitInv, KeptInit
<1>2. Inv /\ Kept /\ [Next]_vars => Inv' /\ Kept'
  BY NextInv, KeptNext
<1>3. Inv /\ Kept => SameResult
  BY KeptResult DEF Inv
<1> QED BY <1>1, <1>2, <1>3, PTL DEF Spec
=============================================================================
