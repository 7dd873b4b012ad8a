--------------------------- MODULE DriversProofs ----------------------------
(***************************************************************************)
(* Proofs about the drivers, for any processes, addresses and programs.    *)
(***************************************************************************)
EXTENDS Drivers, FiniteSetTheorems, FunctionTheorems,
  SequenceTheorems, WellFoundedInduction, TLAPS

(* What the proofs need of the types. *)
DevTypes ==
  /\ board \in Boards
  /\ usage \in [Exclusive -> {0, 1}]
  /\ addr \in [Exclusive -> Addresses \cup {NoAddress}]
  /\ live \subseteq Addresses
  /\ at \in [Users -> {"off", "open", "map", "run", "dead"}]
  /\ file \in [Users -> Devices \cup {"none"}]
  /\ raced \in BOOLEAN

(* Without an overlap usage tells whether a device is open, one process is *)
(* inside its driver, and the address of each device that is open is its   *)
(* own, mapped and reserved.                                               *)
OwnInv ==
  ~raced =>
    /\ \A u, v \in Inside : file[u] = file[v] => u = v
    /\ \A u \in Inside : at[u] = "run" => usage[file[u]] = 1
    /\ \A u, v \in Mapped : addr[file[u]] = addr[file[v]] => u = v
    /\ \A u \in Mapped : addr[file[u]] \in reserved /\ addr[file[u]] \notin lost
    /\ live = lost \cup {addr[file[u]] : u \in Mapped}

Inv == DevTypes /\ OwnInv

(* No device is open at first. *)
LEMMA InitInv == Init => Inv
BY DEF Init, Inv, DevTypes, OwnInv, Inside, Mapped

(* A step that neither enters nor leaves a driver. *)
LEMMA Elsewhere ==
  ASSUME Inv, UNCHANGED <<board, usage, addr, live, reserved, history>>,
         at' \in [Users -> {"off", "open", "map", "run", "dead"}],
         file' \in [Users -> Devices \cup {"none"}],
         \A u \in Users : u \in Inside \/ u \in Inside' =>
           at'[u] = at[u] /\ file'[u] = file[u]
  PROVE  Inv'
<1> USE DEF Inv
<1>1. DevTypes'
  BY DEF DevTypes, history
<1>2. Inside' = Inside /\ \A u \in Inside : at'[u] = at[u] /\ file'[u] = file[u]
  BY DEF Inside
<1>3. Mapped' = Mapped /\ \A u \in Mapped : u \in Inside
  BY <1>2 DEF Mapped
<1>4. OwnInv'
  BY <1>2, <1>3 DEF OwnInv, history
<1> QED BY <1>1, <1>4

(* insmod and rmmod change nothing inside a driver. *)
LEMMA StepModule ==
  ASSUME Inv, NEW d \in board, Insert(d) \/ Remove(d)
  PROVE  Inv'
<1>1. UNCHANGED <<board, usage, addr, live, reserved, at, file, history>>
  BY DEF Insert, Remove, userVars
<1> QED BY <1>1, Elsewhere DEF Inv, DevTypes

(* A process that starts, fails to open, or calls a driver.                *)
LEMMA StepProgram ==
  ASSUME Inv, NEW u \in Users,
         \/ \E d \in board : \E p \in Programs(d) : Start(u, d, p)
         \/ OpenFail(u) \/ TextCall(u) \/ PlainCall(u) \/ Show(u)
         \/ \E num \in Numbers : Scan(u, num)
  PROVE  Inv'
<1>1. CASE \E d \in board : \E p \in Programs(d) : Start(u, d, p)
  <2>1. PICK d \in board : at[u] = "off" /\ at' = [at EXCEPT ![u] = "open"]
                           /\ file' = [file EXCEPT ![u] = d]
                           /\ UNCHANGED <<board, deviceVars, history>>
    BY <1>1 DEF Start
  <2>2. d \in Devices
    BY DEF Inv, DevTypes, Devices
  <2>3. \A v \in Users : v \in Inside \/ v \in Inside' =>
          at'[v] = at[v] /\ file'[v] = file[v]
    BY <2>1 DEF Inv, DevTypes, Inside
  <2> QED BY <2>1, <2>2, <2>3, Elsewhere DEF Inv, DevTypes, deviceVars
<1>2. CASE OpenFail(u)
  <2>1. /\ at[u] = "open" /\ at' = [at EXCEPT ![u] = "off"]
        /\ file' = [file EXCEPT ![u] = "none"]
        /\ UNCHANGED <<board, usage, addr, live, reserved, history>>
    BY <1>2 DEF OpenFail, Leave
  <2>2. \A v \in Users : v \in Inside \/ v \in Inside' =>
          at'[v] = at[v] /\ file'[v] = file[v]
    BY <2>1 DEF Inv, DevTypes, Inside
  <2> QED BY <2>1, <2>2, Elsewhere DEF Inv, DevTypes
<1>3. CASE TextCall(u) \/ PlainCall(u) \/ Show(u) \/ \E num \in Numbers : Scan(u, num)
  <2>1. UNCHANGED <<board, deviceVars, at, file, history>>
    BY <1>3 DEF TextCall, PlainCall, Show, Scan, NextCall
  <2> QED BY <2>1, Elsewhere DEF Inv, DevTypes, deviceVars
<1> QED BY <1>1, <1>2, <1>3

(* Opening module2.c maps nothing. *)
LEMMA StepOpenSample == ASSUME Inv, NEW u \in Users, OpenSample(u) PROVE Inv'
<1>1. /\ at[u] = "open" /\ file[u] \notin Exclusive /\ at' = [at EXCEPT ![u] = "run"]
      /\ UNCHANGED <<board, usage, addr, live, reserved, file, history>>
  BY DEF OpenSample, MayOpen, deviceVars
<1>2. \A v \in Users : v \in Inside \/ v \in Inside' =>
        at'[v] = at[v] /\ file'[v] = file[v]
  BY <1>1 DEF Inv, DevTypes, Inside
<1> QED BY <1>1, <1>2, Elsewhere DEF Inv, DevTypes

(* The test of the usage flag: either another open has made it and not set *)
(* the flag, which is an overlap, or nobody is inside the driver.          *)
LEMMA StepOpenTest == ASSUME Inv, NEW u \in Users, OpenTest(u) PROVE Inv'
<1> USE DEF Inv
<1>1. /\ at[u] = "open" /\ file[u] \in Exclusive /\ usage[file[u]] = 0
      /\ at' = [at EXCEPT ![u] = "map"]
      /\ raced' = (raced \/ \E v \in Users : at[v] = "map" /\ file[v] = file[u])
      /\ UNCHANGED <<board, usage, addr, live, reserved, file, lost>>
  BY DEF OpenTest, MayOpen, deviceVars
<1>2. DevTypes'
  BY <1>1 DEF DevTypes
<1>3. OwnInv'
  <2> SUFFICES ASSUME ~raced' PROVE OwnInv'
    BY DEF OwnInv
  <2>1. ~raced /\ \A v \in Users : at[v] = "map" => file[v] # file[u]
    BY <1>1
  <2>2. \A v \in Inside : file[v] # file[u]
    BY <1>1, <2>1 DEF OwnInv, Inside
  <2>3. /\ at'[u] = "map" /\ \A v \in Users \ {u} : at'[v] = at[v]
    BY <1>1 DEF DevTypes
  <2>4. Inside' = Inside \cup {u} /\ u \notin Inside
    BY <1>1, <2>3 DEF Inside
  <2>5. Mapped' = Mapped
    BY <1>1, <2>3, <2>4 DEF Mapped
  <2> QED BY <1>1, <2>1, <2>2, <2>3, <2>4, <2>5 DEF OwnInv
<1> QED BY <1>2, <1>3

(* Without an overlap nobody else is inside the driver.                    *)
LEMMA MapAlone ==
  ASSUME Inv, ~raced, NEW u \in Users, at[u] = "map", file[u] \in Exclusive
  PROVE  /\ u \in Inside /\ u \notin Mapped
         /\ \A v \in Inside \ {u} : file[v] # file[u]
         /\ \A v \in Mapped : v \in Inside \ {u}
BY DEF Inv, OwnInv, Inside, Mapped

(* A process that is inside open has opened a device for one process. *)
MapInv == \A u \in Users : at[u] = "map" => file[u] \in Exclusive

(* ioremap gives an address that is not mapped, or none.                   *)
LEMMA StepOpenMap ==
  ASSUME Inv, MapInv, NEW u \in Users, NEW a \in (Addresses \ live) \cup {NoAddress},
         OpenMap(u, a)
  PROVE  Inv'
<1> USE DEF Inv
<1>1. /\ at[u] = "map" /\ file[u] \in Exclusive
      /\ addr' = [addr EXCEPT ![file[u]] = a]
      /\ live' = live \cup ({a} \ {NoAddress}) /\ reserved' = reserved \cup {a}
      /\ usage' = [usage EXCEPT ![file[u]] = 1] /\ at' = [at EXCEPT ![u] = "run"]
      /\ UNCHANGED <<board, file, raced, lost>>
  BY DEF OpenMap, Map, MapInv, history
<1>2. DevTypes'
  BY <1>1 DEF DevTypes
<1>3. OwnInv'
  <2> SUFFICES ASSUME ~raced PROVE OwnInv'
    BY <1>1 DEF OwnInv
  <2>1. /\ u \in Inside /\ u \notin Mapped
        /\ \A v \in Inside \ {u} : file[v] # file[u]
        /\ \A v \in Mapped : v \in Inside \ {u}
    BY <1>1, MapAlone
  <2>2. at'[u] = "run" /\ \A v \in Users \ {u} : at'[v] = at[v]
    BY <1>1 DEF DevTypes
  <2>3. Inside' = Inside
    BY <1>1, <2>1, <2>2 DEF Inside
  <2>4. /\ addr'[file[u]] = a /\ usage'[file[u]] = 1
        /\ \A v \in Inside \ {u} : /\ addr'[file[v]] = addr[file[v]]
                                   /\ usage'[file[v]] = usage[file[v]]
    BY <1>1, <2>1 DEF DevTypes, Inside
  <2>5. Mapped' = IF a = NoAddress THEN Mapped ELSE Mapped \cup {u}
    BY <1>1, <2>1, <2>2, <2>3, <2>4 DEF Mapped, Inside
  <2>6. /\ \A v \in Mapped : addr[file[v]] \in live /\ addr'[file[v]] = addr[file[v]]
        /\ lost \subseteq live
    BY <2>1, <2>4 DEF OwnInv
  <2>7. /\ \A v, w \in Inside' : file'[v] = file'[w] => v = w
        /\ \A v \in Inside' : at'[v] = "run" => usage'[file'[v]] = 1
    BY <1>1, <2>2, <2>3, <2>4 DEF OwnInv, Inside
  <2>8. CASE a = NoAddress
    BY <1>1, <2>5, <2>6, <2>7, <2>8 DEF OwnInv
  <2>9. CASE a # NoAddress
    <3>1. a \notin live /\ live' = live \cup {a}
      BY <1>1, <2>9
    <3>2. {addr'[file'[v]] : v \in Mapped'} = {addr[file[v]] : v \in Mapped} \cup {a}
      BY <1>1, <2>4, <2>5, <2>6, <2>9
    <3>3. \A v, w \in Mapped' : addr'[file'[v]] = addr'[file'[w]] => v = w
      BY <1>1, <2>4, <2>5, <2>6, <2>9, <3>1 DEF OwnInv
    <3>4. \A v \in Mapped' : addr'[file'[v]] \in reserved' /\ addr'[file'[v]] \notin lost'
      BY <1>1, <2>4, <2>5, <2>6, <2>9, <3>1 DEF OwnInv
    <3> QED BY <1>1, <2>7, <3>1, <3>2, <3>3, <3>4 DEF OwnInv
  <2> QED BY <2>8, <2>9
<1> QED BY <1>2, <1>3

(* Once no process is inside a driver, there is nothing to own.            *)
LEMMA Recovered ==
  ASSUME NEW u \in Users, DevTypes, Recover(u),
         at'[u] \notin {"map", "run"},
         \A v \in Users \ {u} : at'[v] = at[v] /\ file'[v] = file[v]
  PROVE  /\ raced' \in BOOLEAN
         /\ ~raced' => \/ ~raced /\ lost' = lost
                       \/ Inside' = {} /\ lost' = live'
<1>1. CASE \E v \in Users \ {u} : at[v] \in {"map", "run"} /\ file[v] \in Exclusive
  BY <1>1 DEF Recover, history, DevTypes
<1>2. CASE ~(\E v \in Users \ {u} : at[v] \in {"map", "run"} /\ file[v] \in Exclusive)
  <2>1. Inside' = {}
    BY <1>2 DEF Inside
  <2>2. raced' = FALSE /\ lost' = IF raced THEN live' ELSE lost
    BY <1>2 DEF Recover
  <2> QED BY <2>1, <2>2
<1> QED BY <1>1, <1>2

(* The process that dies in open has mapped nothing.                       *)
LEMMA StepOpenDie == ASSUME Inv, MapInv, NEW u \in Users, OpenDie(u) PROVE Inv'
<1> USE DEF Inv
<1>1. /\ at[u] = "map" /\ file[u] \in Exclusive
      /\ addr' = [addr EXCEPT ![file[u]] = NoAddress]
      /\ live' = live /\ reserved \subseteq reserved'
      /\ usage' = [usage EXCEPT ![file[u]] = 1] /\ at' = [at EXCEPT ![u] = "dead"]
      /\ UNCHANGED <<board, file>> /\ Recover(u)
  BY DEF OpenDie, Map, MapInv
<1>2. at'[u] = "dead" /\ \A v \in Users \ {u} : at'[v] = at[v]
  BY <1>1 DEF DevTypes
<1>3. /\ raced' \in BOOLEAN
      /\ ~raced' => \/ ~raced /\ lost' = lost
                    \/ Inside' = {} /\ lost' = live'
  BY <1>1, <1>2, Recovered
<1>4. DevTypes'
  BY <1>1, <1>3 DEF DevTypes
<1>5. CASE ~raced' /\ Inside' = {} /\ lost' = live'
  BY <1>4, <1>5 DEF OwnInv, Mapped
<1>6. CASE ~raced /\ lost' = lost
  <2>1. /\ u \in Inside /\ u \notin Mapped
        /\ \A v \in Inside \ {u} : file[v] # file[u]
        /\ \A v \in Mapped : v \in Inside \ {u}
    BY <1>1, <1>6, MapAlone
  <2>2. Inside' = Inside \ {u}
    BY <1>1, <1>2 DEF Inside
  <2>3. \A v \in Inside \ {u} : /\ addr'[file[v]] = addr[file[v]]
                                /\ usage'[file[v]] = usage[file[v]]
    BY <1>1, <2>1 DEF DevTypes, Inside
  <2>4. Mapped' = Mapped
    BY <1>1, <1>2, <2>1, <2>2, <2>3 DEF Mapped, Inside
  <2>5. \A v \in Mapped : addr'[file[v]] = addr[file[v]]
    BY <2>1, <2>3
  <2>6. OwnInv'
    BY <1>1, <1>2, <1>6, <2>2, <2>3, <2>4, <2>5 DEF OwnInv, Inside
  <2> QED BY <1>4, <2>6
<1>7. CASE raced'
  BY <1>4, <1>7 DEF OwnInv
<1> QED BY <1>3, <1>5, <1>6, <1>7

(* A release unmaps what its own open mapped. *)
LEMMA StepRelease == ASSUME Inv, NEW u \in Users, Release(u) PROVE Inv'
<1> USE DEF Inv
<1>1. /\ at'[u] = "off" /\ \A v \in Users \ {u} : at'[v] = at[v] /\ file'[v] = file[v]
      /\ UNCHANGED <<board, addr>> /\ Recover(u) /\ at[u] = "run"
  BY DEF Release, Leave, DevTypes
<1>2. /\ raced' \in BOOLEAN
      /\ ~raced' => \/ ~raced /\ lost' = lost
                    \/ Inside' = {} /\ lost' = live'
  BY <1>1, Recovered
<1>3. DevTypes'
  BY <1>1, <1>2 DEF DevTypes, Release, Leave
<1>4. Inside' = Inside \ {u}
  BY <1>1 DEF Inside
<1>5. Mapped' = Mapped \ {u} /\ \A v \in Mapped' : file'[v] = file[v] /\ file[v] \in Exclusive
  BY <1>1, <1>4 DEF Mapped, Inside
<1>6. CASE ~raced' /\ Inside' = {} /\ lost' = live'
  BY <1>3, <1>6 DEF OwnInv, Mapped
<1>7. CASE ~raced /\ lost' = lost /\ file[u] \notin Exclusive
  <2>1. UNCHANGED <<live, reserved, usage>> /\ u \notin Inside
    BY <1>7 DEF Release, Inside
  <2>2. Inside' = Inside /\ Mapped' = Mapped
    BY <1>4, <1>5, <2>1 DEF Mapped
  <2>3. \A v \in Inside : at'[v] = at[v] /\ file'[v] = file[v]
    BY <1>1, <2>1 DEF Inside
  <2>4. \A v \in Mapped : v \in Inside
    BY DEF Mapped
  <2>5. OwnInv'
    BY <1>1, <1>7, <2>1, <2>2, <2>3, <2>4 DEF OwnInv
  <2> QED BY <1>3, <2>5
<1>8. CASE ~raced /\ lost' = lost /\ file[u] \in Exclusive
  <2>1. u \in Inside
    BY <1>1, <1>8 DEF Inside
  <2>2. \A v \in Inside \ {u} : /\ at'[v] = at[v] /\ file'[v] = file[v]
                                /\ file[v] \in Exclusive /\ file[v] # file[u]
    BY <1>1, <1>8, <2>1 DEF OwnInv, Inside
  <2>3. /\ live' = live \ {addr[file[u]]} /\ reserved' = reserved \ {addr[file[u]]}
        /\ usage' = [usage EXCEPT ![file[u]] = 0]
    BY <1>8 DEF Release
  <2>4. \A v \in Inside \ {u} : usage'[file'[v]] = usage[file[v]]
    BY <2>2, <2>3 DEF DevTypes
  <2>5. \A v \in Mapped \ {u} : addr[file[v]] # addr[file[u]]
    BY <1>1, <1>8, <2>1 DEF OwnInv, Mapped
  <2>6. addr[file[u]] \notin lost
    <3>1. NoAddress \notin live
      BY DriversAssumption DEF DevTypes
    <3>2. lost \subseteq live
      BY <1>8 DEF OwnInv
    <3>3. u \in Mapped => addr[file[u]] \notin lost
      BY <1>8 DEF OwnInv
    <3> QED BY <1>1, <2>1, <3>1, <3>2, <3>3 DEF Mapped
  <2>7. live' = lost \cup {addr[file[v]] : v \in Mapped \ {u}}
    <3>1. CASE u \in Mapped
      BY <1>8, <2>3, <2>5, <2>6, <3>1 DEF OwnInv
    <3>2. CASE u \notin Mapped
      <4>1. addr[file[u]] \notin live
        BY <1>1, <2>1, <3>2, DriversAssumption DEF Mapped, DevTypes
      <4> QED BY <1>8, <2>3, <3>2, <4>1 DEF OwnInv
    <3> QED BY <3>1, <3>2
  <2>8. OwnInv'
    BY <1>1, <1>4, <1>5, <1>8, <2>2, <2>3, <2>4, <2>5, <2>7 DEF OwnInv
  <2> QED BY <1>3, <2>8
<1>9. CASE raced'
  BY <1>3, <1>9 DEF OwnInv
<1> QED BY <1>2, <1>6, <1>7, <1>8, <1>9

(* Only a device for one process maps. *)
LEMMA NextMapInv == DevTypes /\ MapInv /\ [Next]_vars => MapInv'
<1> SUFFICES ASSUME DevTypes, MapInv, [Next]_vars PROVE MapInv'
  OBVIOUS
<1> USE DEF DevTypes, MapInv
<1>1. CASE UNCHANGED vars
  BY <1>1 DEF vars, userVars
<1>2. ASSUME NEW d \in board, Insert(d) \/ Remove(d) PROVE MapInv'
  BY <1>2 DEF Insert, Remove, userVars
<1>3. ASSUME NEW u \in Users, NEW d \in board, NEW p \in Programs(d), Start(u, d, p)
      PROVE  MapInv'
  BY <1>3 DEF Start
<1>4. ASSUME NEW u \in Users, OpenFail(u) \/ Release(u) PROVE MapInv'
  BY <1>4 DEF OpenFail, Release, Leave
<1>5. ASSUME NEW u \in Users, OpenSample(u) \/ OpenTest(u) PROVE MapInv'
  BY <1>5 DEF OpenSample, OpenTest
<1>6. ASSUME NEW u \in Users, NEW a, OpenMap(u, a) \/ OpenDie(u) PROVE MapInv'
  BY <1>6 DEF OpenMap, OpenDie, Map
<1>7. ASSUME NEW u \in Users, NEW num,
             TextCall(u) \/ PlainCall(u) \/ Show(u) \/ Scan(u, num)
      PROVE  MapInv'
  BY <1>7 DEF TextCall, PlainCall, Show, Scan, NextCall
<1> QED BY <1>1, <1>2, <1>3, <1>4, <1>5, <1>6, <1>7 DEF Next

(* Every step of the drivers and of their programs keeps the invariant. *)
LEMMA NextInv == Inv /\ MapInv /\ [Next]_vars => Inv' /\ MapInv'
<1> SUFFICES ASSUME Inv, MapInv, [Next]_vars PROVE Inv'
  BY NextMapInv DEF Inv
<1>1. CASE UNCHANGED vars
  BY <1>1, Elsewhere DEF vars, deviceVars, userVars, Inv, DevTypes
<1> QED
  BY <1>1, StepModule, StepProgram, StepOpenSample, StepOpenTest, StepOpenMap,
     StepOpenDie, StepRelease
  DEF Next

(* The invariant holds of every run of the drivers. *)
THEOREM InvHolds == Spec => [](Inv /\ MapInv)
<1>1. Init => MapInv
  BY DEF Init, MapInv
<1> QED BY <1>1, InitInv, NextInv, PTL DEF Spec

(* Unless opens overlap, and again when those that did have left, each     *)
(* device has one process, no driver writes through an address it has lost *)
(* or shares, and none is forgotten, though any open may sleep or fail.    *)
THEOREM MappedKept == Spec => []MappedWhileOpen
<1>1. Inv => MappedWhileOpen
  BY DEF Inv, OwnInv, MappedWhileOpen
<1> QED BY <1>1, InvHolds, PTL

-----------------------------------------------------------------------------
(* What the calls do to the display *)

(* An address plus a number wraps at the end of the display memory. *)
LEMMA Wrapped == \A i \in Nat : i % Cells \in 0..Cells - 1
BY LcdAssumption

(* Inside the display memory an address does not wrap. *)
LEMMA NotWrapped == \A i \in 0..Cells - 1 : i % Cells = i
BY LcdAssumption

(* The cursor stays on the display. *)
LEMMA MovedInside ==
  ASSUME NEW i \in 0..Cells - 1, NEW right \in BOOLEAN
  PROVE  Moved(i, right) \in 0..Cells - 1
<1>1. i + 1 \in Nat /\ i + Cells - 1 \in Nat
  BY LcdAssumption
<1> QED BY <1>1, Wrapped DEF Moved

(* The display has a first cell. *)
LEMMA FirstCell == 0 \in 0..Cells - 1
BY LcdAssumption

(* A call of any command leaves the display in one of its states. *)
LEMMA CallInDisplay ==
  ASSUME NEW l \in Display, NEW c \in Calls
  PROVE  ioctl(l, c) \in Display
<1> USE FirstCell
<1>1. PowerOn.text \in [0..Cells - 1 -> Chars \cup {Blank}]
  BY DEF PowerOn
<1>2. CASE c \in {<<"home">>, <<"clear">>}
  <2>1. CASE c = <<"home">>
    BY <2>1 DEF ioctl, return_home, Display
  <2>2. CASE c = <<"clear">>
    BY <1>1, <2>2 DEF ioctl, clear_display, Display
  <2> QED BY <1>2, <2>1, <2>2
<1>3. CASE c \in {"function"} \X {0, 1, 2}
  <2>1. PICK n \in {0, 1, 2} : c = <<"function", n>>
    BY <1>3
  <2>2. ioctl(l, c) = function_set(l, n + 1)
    BY <2>1 DEF ioctl
  <2> QED BY <2>2 DEF function_set, Display
<1>4. CASE c \in {"display"} \X BOOLEAN
  <2>1. PICK b \in BOOLEAN : c = <<"display", b>>
    BY <1>4
  <2>2. ioctl(l, c) = display_control(l, b)
    BY <2>1 DEF ioctl
  <2> QED BY <2>2 DEF display_control, Display
<1>5. CASE c \in {"cursor", "entry"} \X BOOLEAN \X BOOLEAN
  <2>1. PICK k \in {"cursor", "entry"}, b \in BOOLEAN, e \in BOOLEAN : c = <<k, b, e>>
    BY <1>5
  <2>2. CASE k = "cursor"
    <3>1. ioctl(l, c) = cursor_shift(l, b, e)
      BY <2>1, <2>2 DEF ioctl
    <3>2. Moved(l.shift, e) \in 0..Cells - 1 /\ Moved(l.at, e) \in 0..Cells - 1
      BY MovedInside DEF Display
    <3> QED BY <3>1, <3>2 DEF cursor_shift, Display
  <2>3. CASE k = "entry"
    <3>1. ioctl(l, c) = entry_mode_set(l, b, e)
      BY <2>1, <2>3 DEF ioctl
    <3> QED BY <3>1 DEF entry_mode_set, Display
  <2> QED BY <2>2, <2>3
<1>6. CASE c \in {"address"} \X (0..Cells - 1)
  <2>1. PICK i \in 0..Cells - 1 : c = <<"address", i>>
    BY <1>6
  <2>2. ioctl(l, c) = set_ddram_address(l, i)
    BY <2>1 DEF ioctl
  <2>3. i % Cells \in 0..Cells - 1
    BY NotWrapped
  <2> QED BY <2>2, <2>3 DEF set_ddram_address, Display
<1>7. CASE c \in {"byte"} \X Chars
  <2>1. PICK ch \in Chars : c = <<"byte", ch>>
    BY <1>7
  <2>2. ioctl(l, c) = writebyte(l, ch)
    BY <2>1 DEF ioctl
  <2> DEFINE t == [l.text EXCEPT ![l.at] = ch]
             at2 == Moved(l.at, l.right)
             shift2 == IF l.scroll THEN Moved(l.shift, ~l.right) ELSE l.shift
  <2>3. l.at \in 0..Cells - 1 /\ l.shift \in 0..Cells - 1
    BY DEF Display
  <2>4. \A i \in 0..Cells - 1 : (i + 1) % Cells \in 0..Cells - 1
                                /\ (i + Cells - 1) % Cells \in 0..Cells - 1
    <3>1. \A i \in 0..Cells - 1 : i + 1 \in Nat /\ i + Cells - 1 \in Nat
      BY LcdAssumption
    <3> QED BY <3>1, Wrapped
  <2>5. at2 \in 0..Cells - 1 /\ shift2 \in 0..Cells - 1
    BY <2>3, <2>4 DEF Moved
  <2>6. t \in [0..Cells - 1 -> Chars \cup {Blank}]
    BY DEF Display
  <2>7. writebyte(l, ch) = [l EXCEPT !.text = t, !.at = at2, !.shift = shift2]
    BY Zenon DEF writebyte
  <2> HIDE DEF t, at2, shift2
  <2>8. [l EXCEPT !.text = t, !.at = at2, !.shift = shift2] \in Display
    BY <2>5, <2>6 DEF Display
  <2> QED BY <2>2, <2>7, <2>8
<1> QED BY <1>2, <1>3, <1>4, <1>5, <1>6, <1>7 DEF Calls

(* Opening the LCD leaves it on, with two lines, writing to the right and  *)
(* not moved.                                                              *)
LEMMA Initialized ==
  ASSUME NEW l \in Display
  PROVE  LET i == initialize_textlcd(l)
         IN i \in Display /\ i.on /\ i.right /\ ~i.scroll /\ i.shift = 0 /\ i.lines = 2
BY FirstCell DEF initialize_textlcd, entry_mode_set, return_home, clear_display,
  display_control, function_set, PowerOn, Display

-----------------------------------------------------------------------------
(* What lcd.c makes of the display *)

(* The bytes of a text are calls, one for each of its characters. *)
LEMMA BytesOf ==
  ASSUME NEW s \in Seq(Chars)
  PROVE  /\ Bytes(s) \in Seq(Calls)
         /\ Len(Bytes(s)) = Len(s)
         /\ \A i \in 1..Len(s) : s[i] \in Chars /\ Bytes(s)[i] = <<"byte", s[i]>>
<1>1. Len(s) \in Nat /\ DOMAIN s = 1..Len(s) /\ s \in [1..Len(s) -> Chars]
  BY LenProperties
<1>2. \A i \in 1..Len(s) : <<"byte", s[i]>> \in Calls
  BY <1>1, Zenon DEF Calls
<1>3. Bytes(s) = [i \in 1..Len(s) |-> <<"byte", s[i]>>]
  BY <1>1 DEF Bytes
<1>4. Bytes(s) \in [1..Len(s) -> Calls]
  BY <1>2, <1>3
<1>5. Bytes(s) \in Seq(Calls) /\ Len(Bytes(s)) = Len(s)
  BY <1>1, <1>3, <1>4
<1> QED BY <1>1, <1>3, <1>5

(* Two sequences of calls, one after the other. *)
LEMMA Joined ==
  ASSUME NEW s \in Seq(Calls), NEW t \in Seq(Calls)
  PROVE  /\ s \o t \in Seq(Calls) /\ Len(s) \in Nat /\ Len(t) \in Nat
         /\ Len(s \o t) = Len(s) + Len(t)
         /\ \A i \in 1..Len(s) : (s \o t)[i] = s[i]
         /\ \A i \in 1..Len(t) : (s \o t)[Len(s) + i] = t[i]
<1>1. Len(s) \in Nat /\ Len(t) \in Nat
  BY LenProperties
<1>2. /\ s \o t \in Seq(Calls) /\ Len(s \o t) = Len(s) + Len(t)
      /\ \A i \in 1 .. Len(s) + Len(t) :
           (s \o t)[i] = IF i <= Len(s) THEN s[i] ELSE t[i - Len(s)]
  BY ConcatProperties
<1> QED BY <1>1, <1>2

G == Len(Greeting)
F == Len(First)
S == Len(Second)

(* The texts of lcd.c fit the lines of the display.                        *)
LEMMA Lengths ==
  /\ G \in Nat /\ F \in Nat /\ S \in Nat /\ Cells \in Nat \ {0}
  /\ SecondAt \in 0..Cells - 1 /\ F <= SecondAt /\ SecondAt + S <= Cells
BY DriversAssumption, LcdAssumption, LenProperties DEF G, F, S

(* The calls of lcd.c by their place. *)
LEMMA CallsOfLcd ==
  /\ lcdCalls \in Seq(Calls)
  /\ Len(lcdCalls) = G + F + S + 3
  /\ \A i \in 1..G : \E ch \in Chars : lcdCalls[i] = <<"byte", ch>>
  /\ lcdCalls[G + 1] = <<"clear">>
  /\ lcdCalls[G + 2] = <<"address", 0>>
  /\ \A i \in 1..F : First[i] \in Chars /\ lcdCalls[G + 2 + i] = <<"byte", First[i]>>
  /\ lcdCalls[G + F + 3] = <<"address", SecondAt>>
  /\ \A i \in 1..S : Second[i] \in Chars /\ lcdCalls[G + F + 3 + i] = <<"byte", Second[i]>>
<1> DEFINE A == Bytes(Greeting)
           B == <<<<"clear">>, <<"address", 0>>>>
           C == Bytes(First)
           D == <<<<"address", SecondAt>>>>
           E == Bytes(Second)
<1>1. /\ A \in Seq(Calls) /\ Len(A) = G
      /\ \A i \in 1..G : Greeting[i] \in Chars /\ A[i] = <<"byte", Greeting[i]>>
  BY BytesOf, DriversAssumption DEF G
<1>2. B \in Seq(Calls) /\ Len(B) = 2 /\ B[1] = <<"clear">> /\ B[2] = <<"address", 0>>
  <2>1. <<"clear">> \in Calls /\ <<"address", 0>> \in Calls
    BY FirstCell DEF Calls
  <2> QED BY <2>1
<1>3. /\ C \in Seq(Calls) /\ Len(C) = F
      /\ \A i \in 1..F : First[i] \in Chars /\ C[i] = <<"byte", First[i]>>
  BY BytesOf, DriversAssumption DEF F
<1>4. D \in Seq(Calls) /\ Len(D) = 1 /\ D[1] = <<"address", SecondAt>>
  <2>1. <<"address", SecondAt>> \in Calls
    BY Lengths DEF Calls
  <2> QED BY <2>1
<1>5. /\ E \in Seq(Calls) /\ Len(E) = S
      /\ \A i \in 1..S : Second[i] \in Chars /\ E[i] = <<"byte", Second[i]>>
  BY BytesOf, DriversAssumption DEF S
<1> DEFINE AB == A \o B
           AC == AB \o C
           AD == AC \o D
<1>6. lcdCalls = AD \o E
  BY DEF lcdCalls
<1> HIDE DEF A, B, C, D, E
<1>7. /\ AB \in Seq(Calls) /\ Len(AB) = G + 2
      /\ \A i \in 1..G : AB[i] = A[i]
      /\ AB[G + 1] = B[1] /\ AB[G + 2] = B[2]
  <2>1. /\ AB \in Seq(Calls) /\ Len(AB) = Len(A) + Len(B)
        /\ \A i \in 1..Len(A) : AB[i] = A[i]
        /\ \A i \in 1..Len(B) : AB[Len(A) + i] = B[i]
    BY <1>1, <1>2, Joined
  <2> HIDE DEF AB
  <2> QED BY <1>1, <1>2, <2>1, Lengths
<1> HIDE DEF AB
<1>8. /\ AC \in Seq(Calls) /\ Len(AC) = G + 2 + F
      /\ \A i \in 1..G + 2 : AC[i] = AB[i]
      /\ \A i \in 1..F : AC[G + 2 + i] = C[i]
  <2>1. /\ AC \in Seq(Calls) /\ Len(AC) = Len(AB) + Len(C)
        /\ \A i \in 1..Len(AB) : AC[i] = AB[i]
        /\ \A i \in 1..Len(C) : AC[Len(AB) + i] = C[i]
    BY <1>3, <1>7, Joined
  <2> HIDE DEF AC
  <2> QED BY <1>3, <1>7, <2>1, Lengths
<1> HIDE DEF AC
<1>9. /\ AD \in Seq(Calls) /\ Len(AD) = G + 2 + F + 1
      /\ \A i \in 1..G + 2 + F : AD[i] = AC[i]
      /\ \A i \in 1..1 : AD[G + 2 + F + i] = D[i]
  <2>1. /\ AD \in Seq(Calls) /\ Len(AD) = Len(AC) + Len(D)
        /\ \A i \in 1..Len(AC) : AD[i] = AC[i]
        /\ \A i \in 1..Len(D) : AD[Len(AC) + i] = D[i]
    BY <1>4, <1>8, Joined
  <2> HIDE DEF AD
  <2> QED BY <1>4, <1>8, <2>1, Lengths
<1> HIDE DEF AD
<1>10. /\ lcdCalls \in Seq(Calls) /\ Len(lcdCalls) = G + 2 + F + 1 + S
       /\ \A i \in 1..G + 2 + F + 1 : lcdCalls[i] = AD[i]
       /\ \A i \in 1..S : lcdCalls[G + 2 + F + 1 + i] = E[i]
  <2>1. /\ AD \o E \in Seq(Calls) /\ Len(AD \o E) = Len(AD) + Len(E)
        /\ \A i \in 1..Len(AD) : (AD \o E)[i] = AD[i]
        /\ \A i \in 1..Len(E) : (AD \o E)[Len(AD) + i] = E[i]
    BY <1>5, <1>9, Joined
  <2>2. /\ lcdCalls \in Seq(Calls) /\ Len(lcdCalls) = Len(AD) + Len(E)
        /\ \A i \in 1..Len(AD) : lcdCalls[i] = AD[i]
        /\ \A i \in 1..Len(E) : lcdCalls[Len(AD) + i] = E[i]
    BY <1>6, <2>1
  <2> QED BY <1>5, <1>9, <2>2, Lengths
<1>11. /\ \A i \in 1..G + 2 + F : lcdCalls[i] = AC[i]
       /\ lcdCalls[G + F + 3] = D[1]
       /\ \A i \in 1..S : lcdCalls[G + F + 3 + i] = E[i]
       /\ Len(lcdCalls) = G + F + S + 3
  <2>1. /\ G + 2 + F + 1 = G + F + 3 /\ G + 2 + F + 1 + S = G + F + S + 3
        /\ G + F + 3 \in 1..G + 2 + F + 1
        /\ \A i \in 1..G + 2 + F : i \in 1..G + 2 + F + 1
    BY Lengths
  <2>2. AD[G + F + 3] = D[1]
    BY <1>9, <2>1
  <2> QED BY <1>9, <1>10, <2>1, <2>2
<1>12. /\ \A i \in 1..G + 2 : lcdCalls[i] = AB[i]
       /\ \A i \in 1..F : lcdCalls[G + 2 + i] = C[i]
  <2>1. /\ \A i \in 1..G + 2 : i \in 1..G + 2 + F
        /\ \A i \in 1..F : G + 2 + i \in 1..G + 2 + F
    BY Lengths
  <2> QED BY <1>8, <1>11, <2>1
<1>13. /\ \A i \in 1..G : lcdCalls[i] = A[i]
       /\ lcdCalls[G + 1] = B[1] /\ lcdCalls[G + 2] = B[2]
  <2>1. /\ \A i \in 1..G : i \in 1..G + 2
        /\ G + 1 \in 1..G + 2 /\ G + 2 \in 1..G + 2
    BY Lengths
  <2> QED BY <1>7, <1>12, <2>1
<1>14. \A i \in 1..G : \E ch \in Chars : lcdCalls[i] = <<"byte", ch>>
  BY <1>1, <1>13
<1>15. /\ lcdCalls[G + 1] = <<"clear">> /\ lcdCalls[G + 2] = <<"address", 0>>
       /\ \A i \in 1..F : First[i] \in Chars /\ lcdCalls[G + 2 + i] = <<"byte", First[i]>>
       /\ \A i \in 1..S : Second[i] \in Chars /\ lcdCalls[G + F + 3 + i] = <<"byte", Second[i]>>
  BY <1>2, <1>3, <1>5, <1>11, <1>12, <1>13
<1> QED BY <1>4, <1>10, <1>11, <1>14, <1>15

(* On, with two lines, writing to the right, and not moved. *)
Ready(l) == l.on /\ l.right /\ ~l.scroll /\ l.shift = 0 /\ l.lines = 2

(* The first k characters of the first text and m of the second. *)
Written(k, m) ==
  [i \in 0..Cells - 1 |->
     IF i < k THEN First[i + 1]
     ELSE IF i \in SecondAt..SecondAt + m - 1 THEN Second[i - SecondAt + 1]
     ELSE Blank]

(* The display when lcd.c has made n of its calls. *)
AfterCalls(n, l) ==
  /\ Ready(l)
  /\ n = G + 1 => l.text = Written(0, 0)
  /\ \A k \in 0..F : n = G + 2 + k => l.text = Written(k, 0) /\ l.at = k
  /\ \A m \in 0..S : n = G + F + 3 + m =>
       l.text = Written(F, m) /\ (m < S => l.at = SecondAt + m)

(* A byte goes to the cursor, and the cursor to the next cell. *)
LEMMA ByteWritten ==
  ASSUME NEW l \in Display, Ready(l), NEW ch \in Chars
  PROVE  LET w == ioctl(l, <<"byte", ch>>)
         IN /\ Ready(w) /\ w.text = [l.text EXCEPT ![l.at] = ch]
            /\ l.at + 1 < Cells => w.at = l.at + 1
<1> DEFINE t == [l.text EXCEPT ![l.at] = ch]
           at2 == Moved(l.at, l.right)
           shift2 == IF l.scroll THEN Moved(l.shift, ~l.right) ELSE l.shift
           w == [l EXCEPT !.text = t, !.at = at2, !.shift = shift2]
<1>1. ioctl(l, <<"byte", ch>>) = writebyte(l, ch)
  BY DEF ioctl
<1>2. writebyte(l, ch) = w
  BY Zenon DEF writebyte
<1>3. shift2 = 0
  BY DEF Ready
<1>4. l.at + 1 < Cells => at2 = l.at + 1
  <2>1. l.at \in 0..Cells - 1 /\ l.right
    BY DEF Display, Ready
  <2>2. l.at + 1 < Cells => l.at + 1 \in 0..Cells - 1
    BY <2>1, LcdAssumption
  <2>3. l.at + 1 < Cells => (l.at + 1) % Cells = l.at + 1
    BY <2>2, NotWrapped
  <2> QED BY <2>1, <2>3 DEF Moved
<1> HIDE DEF t, at2, shift2
<1>5. /\ w.text = t /\ w.at = at2 /\ w.shift = shift2
      /\ w.on = l.on /\ w.right = l.right /\ w.scroll = l.scroll
      /\ w.lines = l.lines
  BY DEF Display
<1>6. Ready(w)
  BY <1>3, <1>5 DEF Ready
<1> HIDE DEF w
<1> QED BY <1>1, <1>2, <1>4, <1>5, <1>6 DEF t

(* The next byte of a text goes behind the ones before it. *)
LEMMA WrittenNext ==
  /\ \A k \in 0..F - 1 : [Written(k, 0) EXCEPT ![k] = First[k + 1]] = Written(k + 1, 0)
  /\ \A m \in 0..S - 1 :
       [Written(F, m) EXCEPT ![SecondAt + m] = Second[m + 1]] = Written(F, m + 1)
<1> USE Lengths
<1>1. ASSUME NEW k \in 0..F - 1
      PROVE  [Written(k, 0) EXCEPT ![k] = First[k + 1]] = Written(k + 1, 0)
  <2>1. \A i \in 0..Cells - 1 :
          [Written(k, 0) EXCEPT ![k] = First[k + 1]][i] = Written(k + 1, 0)[i]
    BY DEF Written
  <2> QED BY <2>1 DEF Written
<1>2. ASSUME NEW m \in 0..S - 1
      PROVE  [Written(F, m) EXCEPT ![SecondAt + m] = Second[m + 1]] = Written(F, m + 1)
  <2>1. ASSUME NEW i \in 0..Cells - 1
        PROVE  [Written(F, m) EXCEPT ![SecondAt + m] = Second[m + 1]][i] = Written(F, m + 1)[i]
    <3>1. CASE i = SecondAt + m
      <4>1. ~(i < F) /\ i \in SecondAt..SecondAt + (m + 1) - 1 /\ i - SecondAt + 1 = m + 1
        BY <3>1
      <4> QED BY <3>1, <4>1 DEF Written
    <3>2. CASE i # SecondAt + m
      <4>1. i \in SecondAt..SecondAt + m - 1 <=> i \in SecondAt..SecondAt + (m + 1) - 1
        BY <3>2
      <4> QED BY <3>2, <4>1 DEF Written
    <3> QED BY <3>1, <3>2
  <2> QED BY <2>1 DEF Written
<1> QED BY <1>1, <1>2

(* Each call of lcd.c takes the display from one of its states to the next. *)
LEMMA CallsAdvance ==
  ASSUME NEW l \in Display, NEW n \in 0..G + F + S + 2, AfterCalls(n, l)
  PROVE  AfterCalls(n + 1, ioctl(l, lcdCalls[n + 1]))
<1> SUFFICES ASSUME NEW w, w = ioctl(l, lcdCalls[n + 1])
             PROVE  AfterCalls(n + 1, w)
  OBVIOUS
<1> USE Lengths
<1>1. Ready(l)
  BY DEF AfterCalls
<1>2. CASE n < G
  <2>1. PICK ch \in Chars : lcdCalls[n + 1] = <<"byte", ch>>
    <3>1. n + 1 \in 1..G
      BY <1>2
    <3> QED BY <3>1, CallsOfLcd
  <2>2. Ready(w)
    BY <1>1, <2>1, ByteWritten
  <2> QED BY <1>2, <2>2 DEF AfterCalls
<1>3. CASE n = G
  <2>1. w = clear_display(l)
    BY <1>3, CallsOfLcd DEF ioctl
  <2>2. Ready(w) /\ w.text = PowerOn.text
    BY <1>1, <2>1 DEF clear_display, Ready, Display
  <2>3. Written(0, 0) = PowerOn.text
    BY DEF Written, PowerOn
  <2> QED BY <1>3, <2>2, <2>3 DEF AfterCalls
<1>4. CASE n = G + 1
  <2>1. w = set_ddram_address(l, 0)
    <3>1. n + 1 = G + 2
      BY <1>4
    <3>2. lcdCalls[n + 1] = <<"address", 0>>
      BY <3>1, CallsOfLcd
    <3> QED BY <3>2 DEF ioctl
  <2>2. 0 % Cells = 0
    BY FirstCell, NotWrapped
  <2>3. Ready(w) /\ w.text = Written(0, 0) /\ w.at = 0
    BY <1>1, <1>4, <2>1, <2>2 DEF set_ddram_address, Ready, Display, AfterCalls
  <2>4. \A k \in 0..F : n + 1 = G + 2 + k => k = 0
    BY <1>4
  <2> QED BY <1>4, <2>3, <2>4 DEF AfterCalls
<1>5. CASE n \in G + 2..G + F + 1
  <2>1. PICK k \in 0..F - 1 : n = G + 2 + k
    <3>1. n - G - 2 \in 0..F - 1 /\ n = G + 2 + (n - G - 2)
      BY <1>5
    <3> QED BY <3>1
  <2>2. l.text = Written(k, 0) /\ l.at = k
    BY <2>1 DEF AfterCalls
  <2>3. First[k + 1] \in Chars /\ lcdCalls[n + 1] = <<"byte", First[k + 1]>>
    <3>1. k + 1 \in 1..F /\ n + 1 = G + 2 + (k + 1)
      BY <2>1
    <3> QED BY <3>1, CallsOfLcd
  <2>4. /\ Ready(w) /\ w.text = [l.text EXCEPT ![l.at] = First[k + 1]]
        /\ l.at + 1 < Cells => w.at = l.at + 1
    BY <1>1, <2>3, ByteWritten
  <2>5. k + 1 < Cells
    OBVIOUS
  <2>6. w.text = Written(k + 1, 0) /\ w.at = k + 1
    BY <2>2, <2>4, <2>5, WrittenNext
  <2>7. \A j \in 0..F : n + 1 = G + 2 + j => j = k + 1
    BY <2>1
  <2>8. \A m \in 0..S : n + 1 # G + F + 3 + m
    BY <2>1
  <2>9. n + 1 # G + 1
    BY <2>1
  <2> QED BY <2>4, <2>6, <2>7, <2>8, <2>9 DEF AfterCalls
<1>6. CASE n = G + F + 2
  <2>1. w = set_ddram_address(l, SecondAt)
    <3>1. n + 1 = G + F + 3
      BY <1>6
    <3>2. lcdCalls[n + 1] = <<"address", SecondAt>>
      BY <3>1, CallsOfLcd
    <3> QED BY <3>2 DEF ioctl
  <2>2. SecondAt % Cells = SecondAt
    BY NotWrapped
  <2>3. l.text = Written(F, 0)
    <3>1. F \in 0..F /\ n = G + 2 + F
      BY <1>6
    <3> QED BY <3>1 DEF AfterCalls
  <2>4. Ready(w) /\ w.text = Written(F, 0) /\ w.at = SecondAt
    BY <1>1, <2>1, <2>2, <2>3 DEF set_ddram_address, Ready, Display
  <2>5. /\ \A k \in 0..F : n + 1 # G + 2 + k
        /\ \A m \in 0..S : n + 1 = G + F + 3 + m => m = 0
        /\ n + 1 # G + 1
    BY <1>6
  <2> QED BY <2>4, <2>5 DEF AfterCalls
<1>7. CASE n >= G + F + 3
  <2>1. PICK m \in 0..S - 1 : n = G + F + 3 + m
    <3>1. n - G - F - 3 \in 0..S - 1 /\ n = G + F + 3 + (n - G - F - 3)
      BY <1>7
    <3> QED BY <3>1
  <2>2. l.text = Written(F, m) /\ l.at = SecondAt + m
    <3>1. m \in 0..S /\ m < S
      OBVIOUS
    <3> QED BY <2>1, <3>1 DEF AfterCalls
  <2>3. Second[m + 1] \in Chars /\ lcdCalls[n + 1] = <<"byte", Second[m + 1]>>
    <3>1. m + 1 \in 1..S /\ n + 1 = G + F + 3 + (m + 1)
      BY <2>1
    <3> QED BY <3>1, CallsOfLcd
  <2>4. /\ Ready(w) /\ w.text = [l.text EXCEPT ![l.at] = Second[m + 1]]
        /\ l.at + 1 < Cells => w.at = l.at + 1
    BY <1>1, <2>3, ByteWritten
  <2>5. w.text = Written(F, m + 1) /\ (m + 1 < S => w.at = SecondAt + (m + 1))
    <3>1. m + 1 < S => SecondAt + m + 1 < Cells
      OBVIOUS
    <3> QED BY <2>2, <2>4, <3>1, WrittenNext
  <2>6. /\ \A k \in 0..F : n + 1 # G + 2 + k
        /\ \A j \in 0..S : n + 1 = G + F + 3 + j => j = m + 1
        /\ n + 1 # G + 1
    BY <2>1
  <2> QED BY <2>4, <2>5, <2>6 DEF AfterCalls
<1> QED BY <1>2, <1>3, <1>4, <1>5, <1>6, <1>7

-----------------------------------------------------------------------------
(* The types *)

(* Whoever has the LCD has only calls of it to make. *)
ToldInv ==
  /\ DOMAIN todo = Users
  /\ \A u \in Users : file[u] = "textlcd" => todo[u] \in Seq(Calls)

TypeInv == TypeOK /\ ToldInv

(* No device has the name for none. *)
LEMMA DeviceNames ==
  /\ Devices \subseteq {"led", "segment", "textlcd", "chr"}
  /\ "none" \notin Devices
BY DriversAssumption DEF Devices

(* At first nobody has a device, and the LCD is as it was powered on. *)
LEMMA InitTyped == Init => TypeInv
<1> SUFFICES ASSUME Init PROVE TypeInv
  OBVIOUS
<1>1. PowerOn \in Display
  BY FirstCell DEF PowerOn, Display
<1>2. ToldInv
  BY DriversAssumption DEF Init, ToldInv
<1>3. TypeOK
  <2>1. lcd \in Display
    BY <1>1 DEF Init
  <2>2. segments \in [0..Positions - 1 -> 0..127]
    BY DEF Init
  <2>3. /\ at \in [Users -> {"off", "open", "map", "run", "dead"}]
        /\ file \in [Users -> Devices \cup {"none"}]
        /\ \A u \in Users : at[u] = "off" <=> file[u] = "none"
    BY DEF Init
  <2>4. /\ usage \in [Exclusive -> {0, 1}]
        /\ addr \in [Exclusive -> Addresses \cup {NoAddress}]
    BY DEF Init
  <2>5. /\ board \in Boards /\ loaded \subseteq board /\ live \subseteq Addresses
        /\ reserved \subseteq Addresses \cup {NoAddress} /\ isLcd \subseteq Users
        /\ raced \in BOOLEAN /\ lost \subseteq Addresses
    BY DEF Init
  <2> QED BY <2>1, <2>2, <2>3, <2>4, <2>5 DEF TypeOK
<1> QED BY <1>2, <1>3 DEF TypeInv

(* A program on the LCD makes calls that the driver knows. *)
LEMMA TextPrograms == Programs("textlcd") \subseteq Seq(Calls)
<1>1. \A c \in Calls : <<c>> \in Seq(Calls)
  OBVIOUS
<1> QED BY <1>1, CallsOfLcd DEF Programs

(* A code of a digit has seven bits, and so have those of a number.        *)
LEMMA CodesTyped == \A count : Codes(count) \in [0..Positions - 1 -> 0..127]
<1>1. \A x : Getsegmentcode(x) \in 0..127
  <2> SUFFICES ASSUME NEW x, x \in 0..15 PROVE SegmentCode[x + 1] \in 0..127
    BY DEF Getsegmentcode
  <2>1. x + 1 \in 1..16
    OBVIOUS
  <2> QED BY <2>1 DEF SegmentCode
<1> QED BY <1>1 DEF Codes

(* The modules come and go, the programs start and fail to open.           *)
LEMMA TypedOutside ==
  ASSUME TypeInv,
         \/ \E d \in board : Insert(d) \/ Remove(d)
         \/ \E u \in Users : \/ \E d \in board : \E p \in Programs(d) : Start(u, d, p)
                             \/ OpenFail(u) \/ OpenSample(u) \/ OpenTest(u) \/ Release(u)
  PROVE  TypeInv'
<1> USE DEF TypeInv, TypeOK, ToldInv, deviceVars, userVars, history
<1>1. CASE \E d \in board : Insert(d) \/ Remove(d)
  BY <1>1 DEF Insert, Remove
<1>2. ASSUME NEW u \in Users, NEW d \in board, NEW p \in Programs(d), Start(u, d, p)
      PROVE  TypeInv'
  <2>1. d \in Devices /\ d # "none"
    BY DeviceNames DEF Devices
  <2>2. d = "textlcd" => p \in Seq(Calls)
    BY TextPrograms
  <2>3. TypeOK'
    BY <1>2, <2>1 DEF Start
  <2>4. ToldInv'
    BY <1>2, <2>2 DEF Start
  <2> QED BY <2>3, <2>4
<1>3. ASSUME NEW u \in Users, OpenFail(u) PROVE TypeInv'
  BY <1>3 DEF OpenFail, Leave
<1>4. ASSUME NEW u \in Users, OpenSample(u) \/ OpenTest(u) PROVE TypeInv'
  <2>1. at' \in [Users -> {"off", "open", "map", "run", "dead"}]
    BY <1>4 DEF OpenSample, OpenTest
  <2>2. at[u] = "open" /\ at'[u] # "off" /\ \A v \in Users \ {u} : at'[v] = at[v]
    BY <1>4 DEF OpenSample, OpenTest, MayOpen
  <2>3. \A v \in Users : at'[v] = "off" <=> file'[v] = "none"
    BY <1>4, <2>2 DEF OpenSample, OpenTest
  <2>4. raced' \in BOOLEAN
    BY <1>4 DEF OpenSample, OpenTest
  <2>5. ToldInv'
    BY <1>4 DEF OpenSample, OpenTest
  <2> QED BY <1>4, <2>1, <2>3, <2>4, <2>5 DEF OpenSample, OpenTest
<1>5. ASSUME NEW u \in Users, Release(u) PROVE TypeInv'
  <2>1. live' \subseteq Addresses
    BY <1>5 DEF Release
  <2>2. raced' \in BOOLEAN /\ lost' \subseteq Addresses
    BY <1>5, <2>1 DEF Release, Recover
  <2> QED BY <1>5, <2>1, <2>2 DEF Release, Leave
<1> QED BY <1>1, <1>2, <1>3, <1>4, <1>5

(* open of a driver, and the calls on it. *)
LEMMA TypedInside ==
  ASSUME TypeInv, MapInv, NEW u \in Users,
         \/ \E a \in (Addresses \ live) \cup {NoAddress} : OpenMap(u, a)
         \/ OpenDie(u)
         \/ TextCall(u) \/ PlainCall(u) \/ Show(u) \/ \E num \in Numbers : Scan(u, num)
  PROVE  TypeInv'
<1> USE DEF TypeInv, TypeOK, ToldInv, deviceVars, history
<1>1. ASSUME NEW a \in (Addresses \ live) \cup {NoAddress}, OpenMap(u, a) PROVE TypeInv'
  <2>1. lcd' \in Display
    BY <1>1, Initialized DEF OpenMap
  <2> QED BY <1>1, <2>1 DEF OpenMap, Map, MapInv
<1>0. CASE OpenDie(u)
  <2>1. /\ at[u] = "map" /\ file[u] = "textlcd" /\ file[u] \in Exclusive
        /\ addr' = [addr EXCEPT ![file[u]] = NoAddress] /\ live' = live
        /\ reserved' = reserved \cup {NoAddress}
        /\ usage' = [usage EXCEPT ![file[u]] = 1] /\ at' = [at EXCEPT ![u] = "dead"]
        /\ todo' = [todo EXCEPT ![u] = <<>>] /\ isLcd' = isLcd \ {u}
        /\ UNCHANGED <<board, loaded, file, lcd, segments>> /\ Recover(u)
    BY <1>0 DEF OpenDie, Map, MapInv
  <2>2. raced' \in BOOLEAN /\ lost' \subseteq Addresses
    BY <2>1 DEF Recover
  <2>3. TypeOK'
    BY <2>1, <2>2
  <2>4. <<>> \in Seq(Calls)
    OBVIOUS
  <2>5. ToldInv'
    BY <2>1, <2>4
  <2> QED BY <2>3, <2>5
<1>2. CASE TextCall(u)
  <2>1. file[u] = "textlcd" /\ todo[u] \in Seq(Calls) /\ todo[u] # <<>>
    BY <1>2 DEF TextCall, NextCall
  <2>2. Head(todo[u]) \in Calls /\ Tail(todo[u]) \in Seq(Calls)
    BY <2>1, HeadTailProperties
  <2>3. lcd' \in Display
    BY <1>2, <2>2, CallInDisplay DEF TextCall
  <2> QED BY <1>2, <2>2, <2>3 DEF TextCall, NextCall
<1>3. CASE PlainCall(u)
  <2>1. file[u] # "textlcd"
    BY <1>3 DEF PlainCall, NextCall
  <2> QED BY <1>3, <2>1 DEF PlainCall, NextCall
<1>4. CASE Show(u)
  <2>1. /\ file[u] = "segment" /\ UNCHANGED <<board, deviceVars, at, file, isLcd, lcd, history>>
        /\ \/ \E count : segments' = Codes(count)
           \/ segments' = segments
        /\ \/ todo' = [todo EXCEPT ![u][1][2] = Head(todo[u])[2] + 1]
           \/ todo' = [todo EXCEPT ![u] = Tail(@)]
    BY <1>4, Zenon DEF Show, NextCall
  <2>2. segments' \in [0..Positions - 1 -> 0..127]
    <3>1. ASSUME NEW count, segments' = Codes(count)
          PROVE  segments' \in [0..Positions - 1 -> 0..127]
      BY <3>1, CodesTyped, Zenon
    <3>2. CASE segments' = segments
      BY <3>2
    <3> QED BY <2>1, <3>1, <3>2
  <2>3. DOMAIN todo' = Users /\ \A v \in Users \ {u} : todo'[v] = todo[v]
    BY <2>1
  <2>4. ToldInv'
    BY <2>1, <2>3
  <2> QED BY <2>1, <2>2, <2>4
<1>5. ASSUME NEW num \in Numbers, Scan(u, num) PROVE TypeInv'
  <2>1. file[u] # "textlcd" /\ \A v \in Users \ {u} : todo'[v] = todo[v]
    BY <1>5 DEF Scan, NextCall
  <2> QED BY <1>5, <2>1 DEF Scan, NextCall
<1> QED BY <1>0, <1>1, <1>2, <1>3, <1>4, <1>5

(* Every step of the drivers and of their programs keeps the types. *)
LEMMA NextTyped == MapInv /\ TypeInv /\ [Next]_vars => TypeInv'
<1>1. TypeInv /\ UNCHANGED vars => TypeInv'
  BY DEF vars, deviceVars, userVars, history, TypeInv, TypeOK, ToldInv
<1>2. MapInv /\ TypeInv /\ Next => TypeInv'
  BY TypedOutside, TypedInside DEF Next
<1> QED BY <1>1, <1>2

(* Every state of the drivers, the LCD and the display has its type. *)
THEOREM Typed == Spec => []TypeOK
<1>1. TypeInv => TypeOK
  BY DEF TypeInv
<1> QED BY <1>1, InitTyped, NextTyped, InvHolds, PTL DEF Spec

-----------------------------------------------------------------------------
(* The text of lcd.c *)

(* t is what is left of the calls of lcd.c when n of them are made. *)
Remaining(n, t) ==
  /\ n \in 0..Len(lcdCalls)
  /\ Len(t) = Len(lcdCalls) - n
  /\ \A k \in 1..Len(t) : t[k] = lcdCalls[n + k]

(* lcd.c waits for its device, or the display is where its calls took it.  *)
TextInv ==
  \A u \in isLcd :
    /\ file[u] = "textlcd"
    /\ at[u] \in {"open", "map", "run"}
    /\ at[u] \in {"open", "map"} => todo[u] = lcdCalls
    /\ ~raced /\ at[u] = "run" =>
         \E n \in 0..Len(lcdCalls) : Remaining(n, todo[u]) /\ AfterCalls(n, lcd)

(* No overlap ends while another process is inside a driver.               *)
KeepsRace ==
  ~raced' => ~raced \/ Inside' = {}

LEMMA RecoverKeeps ==
  ASSUME NEW u \in Users, Recover(u), at'[u] \notin {"map", "run"},
         \A v \in Users \ {u} : at'[v] = at[v] /\ file'[v] = file[v]
  PROVE  KeepsRace
BY DEF Recover, history, KeepsRace, Inside

(* Steps of others, and of lcd.c when it leaves. *)
LEMMA TextElsewhere ==
  ASSUME TextInv, lcd' = lcd, KeepsRace, isLcd' \subseteq isLcd, isLcd' \subseteq Users,
         \A v \in isLcd' : at'[v] = at[v] /\ file'[v] = file[v] /\ todo'[v] = todo[v]
  PROVE  TextInv'
BY DEF TextInv, KeepsRace, Inside, Exclusive

(* A module is inserted or removed, or a program starts. *)
LEMMA TextStart ==
  ASSUME TypeInv, TextInv,
         \/ \E d \in board : Insert(d) \/ Remove(d)
         \/ \E u \in Users : \E d \in board : \E p \in Programs(d) : Start(u, d, p)
  PROVE  TextInv'
<1>1. CASE \E d \in board : Insert(d) \/ Remove(d)
  BY <1>1, TextElsewhere DEF Insert, Remove, userVars, history, KeepsRace, TypeInv, TypeOK
<1>2. ASSUME NEW u \in Users, NEW d \in board, NEW p \in Programs(d), Start(u, d, p)
      PROVE  TextInv'
  <2>1. /\ at[u] = "off" /\ at' = [at EXCEPT ![u] = "open"]
        /\ file' = [file EXCEPT ![u] = d] /\ todo' = [todo EXCEPT ![u] = p]
        /\ UNCHANGED <<raced, lcd>>
        /\ isLcd' = isLcd \/ (isLcd' = isLcd \cup {u} /\ d = "textlcd" /\ p = lcdCalls)
    BY <1>2 DEF Start, history
  <2>2. /\ \A v \in Users \ {u} : at'[v] = at[v] /\ file'[v] = file[v] /\ todo'[v] = todo[v]
        /\ at'[u] = "open" /\ file'[u] = d /\ todo'[u] = p /\ isLcd \subseteq Users
    BY <2>1 DEF TypeInv, TypeOK, ToldInv
  <2> QED BY <2>1, <2>2 DEF TextInv
<1> QED BY <1>1, <1>2

(* A program fails to open its device, dies of it, or closes it. *)
LEMMA TextLeave ==
  ASSUME TypeInv, TextInv, NEW u \in Users, OpenFail(u) \/ OpenDie(u) \/ Release(u)
  PROVE  TextInv'
<1>1. /\ \E x \in {"off", "dead"} : at' = [at EXCEPT ![u] = x]
      /\ file' = file \/ file' = [file EXCEPT ![u] = "none"]
      /\ todo' = [todo EXCEPT ![u] = <<>>] /\ isLcd' = isLcd \ {u}
      /\ lcd' = lcd /\ (Recover(u) \/ UNCHANGED history)
  BY DEF OpenFail, OpenDie, Map, Release, Leave
<1>2. /\ \A v \in Users \ {u} : at'[v] = at[v] /\ file'[v] = file[v] /\ todo'[v] = todo[v]
      /\ at'[u] \notin {"map", "run"} /\ isLcd' \subseteq Users
  BY <1>1 DEF TypeInv, TypeOK, ToldInv
<1>3. KeepsRace
  BY <1>1, <1>2, RecoverKeeps DEF KeepsRace, history
<1> QED BY <1>1, <1>2, <1>3, TextElsewhere

(* A device is opened; lcd.c finds the LCD initialised, and nobody has it  *)
(* open but lcd.c.                                                         *)
LEMMA TextOpen ==
  ASSUME Inv, TypeInv, MapInv, TextInv, NEW u \in Users,
         \/ OpenSample(u) \/ OpenTest(u)
         \/ \E a \in (Addresses \ live) \cup {NoAddress} : OpenMap(u, a)
  PROVE  TextInv'
<1>1. CASE OpenSample(u)
  <2>1. u \notin isLcd
    BY <1>1 DEF TextInv, OpenSample, Exclusive
  <2> QED BY <1>1, <2>1, TextElsewhere
          DEF OpenSample, history, KeepsRace, TypeInv, TypeOK
<1>2. CASE OpenTest(u)
  <2>1. /\ at[u] = "open" /\ at' = [at EXCEPT ![u] = "map"] /\ (~raced' => ~raced)
        /\ UNCHANGED <<file, todo, isLcd, lcd>>
    BY <1>2 DEF OpenTest, MayOpen
  <2>2. /\ at'[u] = "map" /\ \A v \in Users \ {u} : at'[v] = at[v]
        /\ isLcd \subseteq Users
    BY <2>1 DEF TypeInv, TypeOK
  <2> QED BY <2>1, <2>2 DEF TextInv
<1>3. ASSUME NEW a \in (Addresses \ live) \cup {NoAddress}, OpenMap(u, a) PROVE TextInv'
  <2>1. /\ at[u] = "map" /\ file[u] \in Exclusive
        /\ at' = [at EXCEPT ![u] = "run"] /\ UNCHANGED <<file, todo, isLcd, raced>>
        /\ lcd' = IF file[u] = "textlcd" THEN initialize_textlcd(lcd) ELSE lcd
    BY <1>3 DEF OpenMap, Map, MapInv, history
  <2>2. /\ at'[u] = "run" /\ \A v \in Users \ {u} : at'[v] = at[v]
        /\ isLcd \subseteq Users
    BY <2>1 DEF TypeInv, TypeOK
  <2>3. CASE raced
    BY <2>1, <2>2, <2>3 DEF TextInv
  <2>4. CASE ~raced /\ file[u] # "textlcd"
    <3>1. u \notin isLcd /\ lcd' = lcd
      BY <2>1, <2>4 DEF TextInv
    <3> QED BY <2>1, <2>2, <3>1, TextElsewhere DEF KeepsRace
  <2>5. CASE ~raced /\ file[u] = "textlcd"
    <3>1. \A v \in isLcd \ {u} : at[v] = "open"
      <4> SUFFICES ASSUME NEW v \in isLcd \ {u}, at[v] \in {"map", "run"} PROVE FALSE
        BY DEF TextInv
      <4>1. v \in Inside /\ file[v] = file[u]
        BY <2>2, <2>5 DEF TextInv, Inside, Exclusive
      <4> QED BY <2>1, <2>5, <4>1, MapAlone
    <3>2. AfterCalls(0, lcd')
      <4>1. Ready(lcd')
        BY <2>1, <2>5, Initialized DEF Ready, TypeInv, TypeOK
      <4>2. /\ 0 # G + 1 /\ \A k \in 0..F : 0 # G + 2 + k
            /\ \A m \in 0..S : 0 # G + F + 3 + m
        BY Lengths
      <4> QED BY <4>1, <4>2 DEF AfterCalls
    <3>3. Len(lcdCalls) \in Nat
      BY CallsOfLcd, LenProperties
    <3>4. Remaining(0, lcdCalls)
      BY <3>3 DEF Remaining
    <3>5. ASSUME NEW v \in isLcd
          PROVE  /\ file'[v] = "textlcd" /\ todo'[v] = lcdCalls
                 /\ at'[v] = IF v = u THEN "run" ELSE "open"
      BY <2>1, <2>2, <3>1 DEF TextInv
    <3>6. \E n \in 0..Len(lcdCalls) : Remaining(n, lcdCalls) /\ AfterCalls(n, lcd')
      BY <3>2, <3>3, <3>4
    <3> QED BY <2>1, <3>5, <3>6 DEF TextInv
  <2> QED BY <2>3, <2>4, <2>5
<1> QED BY <1>1, <1>2, <1>3

(* A call on the LCD is one of lcd.c, when that has it open.               *)
LEMMA TextCalled ==
  ASSUME Inv, TypeInv, TextInv, NEW u \in Users, TextCall(u)
  PROVE  TextInv'
<1>1. /\ at[u] = "run" /\ file[u] = "textlcd" /\ todo[u] # <<>>
      /\ lcd' = ioctl(lcd, Head(todo[u])) /\ todo' = [todo EXCEPT ![u] = Tail(@)]
      /\ UNCHANGED <<raced, at, file, isLcd>>
  BY DEF TextCall, NextCall, history
<1>2. \A v \in Users \ {u} : todo'[v] = todo[v]
  BY <1>1 DEF TypeInv, ToldInv
<1>3. ASSUME ~raced PROVE \A v \in isLcd : at[v] = "run" => v = u
  <2>1. u \in Inside /\ \A v \in isLcd : at[v] = "run" => v \in Inside /\ file[v] = file[u]
    BY <1>1 DEF TextInv, Inside, Exclusive, TypeInv, TypeOK
  <2> QED BY <1>3, <2>1 DEF Inv, OwnInv
<1>4. isLcd \subseteq Users
  BY DEF TypeInv, TypeOK
<1>7. CASE raced
  <2>1. \A v \in isLcd : at[v] \in {"open", "map"} => v # u
    BY <1>1
  <2> QED BY <1>1, <1>2, <1>4, <1>7, <2>1 DEF TextInv
<1>5. CASE ~raced /\ u \notin isLcd
  BY <1>1, <1>2, <1>3, <1>4, <1>5 DEF TextInv
<1>6. CASE ~raced /\ u \in isLcd
  <2>1. PICK n \in 0..Len(lcdCalls) : Remaining(n, todo[u]) /\ AfterCalls(n, lcd)
    BY <1>1, <1>6 DEF TextInv
  <2>2. todo[u] \in Seq(Calls) /\ todo'[u] = Tail(todo[u])
    BY <1>1 DEF TypeInv, ToldInv
  <2>3. /\ Len(todo[u]) \in Nat \ {0} /\ Head(todo[u]) = todo[u][1]
        /\ Len(Tail(todo[u])) = Len(todo[u]) - 1
        /\ \A k \in 1..Len(todo[u]) - 1 : Tail(todo[u])[k] = todo[u][k + 1]
    BY <1>1, <2>2, HeadTailProperties, EmptySeq
  <2>4. Len(lcdCalls) = G + F + S + 3 /\ Len(lcdCalls) \in Nat
    BY CallsOfLcd, Lengths
  <2>5. n \in 0..G + F + S + 2 /\ n + 1 \in 0..Len(lcdCalls)
    BY <2>1, <2>3, <2>4, Lengths DEF Remaining
  <2>6. Head(todo[u]) = lcdCalls[n + 1]
    BY <2>1, <2>3 DEF Remaining
  <2>7. AfterCalls(n + 1, lcd')
    BY <1>1, <2>1, <2>5, <2>6, CallsAdvance DEF TypeInv, TypeOK
  <2>8. Remaining(n + 1, todo'[u])
    <3> DEFINE t == Tail(todo[u])
    <3>1. Len(t) = Len(lcdCalls) - (n + 1)
      BY <2>1, <2>3, <2>4, Lengths DEF Remaining
    <3>2. \A k \in 1..Len(t) : t[k] = lcdCalls[(n + 1) + k]
      <4> SUFFICES ASSUME NEW k \in 1..Len(t) PROVE t[k] = lcdCalls[(n + 1) + k]
        OBVIOUS
      <4>1. k + 1 \in 1..Len(todo[u]) /\ k \in 1..Len(todo[u]) - 1 /\ n + (k + 1) = (n + 1) + k
        BY <2>3
      <4> QED BY <2>1, <2>3, <4>1 DEF Remaining
    <3> HIDE DEF t
    <3>3. Remaining(n + 1, t)
      BY <2>5, <3>1, <3>2 DEF Remaining
    <3> QED BY <2>2, <3>3 DEF t
  <2>9. \A v \in isLcd \ {u} : at[v] \in {"open", "map"}
    BY <1>3, <1>6 DEF TextInv
  <2> QED BY <1>1, <1>2, <1>4, <2>5, <2>7, <2>8, <2>9 DEF TextInv
<1> QED BY <1>5, <1>6, <1>7

(* A call on another device is none of lcd.c. *)
LEMMA TextOthers ==
  ASSUME TypeInv, TextInv, NEW u \in Users,
         PlainCall(u) \/ Show(u) \/ \E num \in Numbers : Scan(u, num)
  PROVE  TextInv'
<1>1. /\ file[u] # "textlcd" /\ UNCHANGED <<raced, lcd, at, file, isLcd>>
      /\ \E t : todo' = [todo EXCEPT ![u] = t]
  <2>1. CASE PlainCall(u)
    BY <2>1 DEF PlainCall, NextCall, history
  <2>2. CASE Show(u)
    <3>1. /\ file[u] = "segment" /\ UNCHANGED <<raced, lcd, at, file, isLcd>>
          /\ \/ todo' = [todo EXCEPT ![u][1][2] = Head(todo[u])[2] + 1]
             \/ todo' = [todo EXCEPT ![u] = Tail(@)]
      BY <2>2, Zenon DEF Show, NextCall, history
    <3> QED BY <3>1
  <2>3. CASE \E num \in Numbers : Scan(u, num)
    BY <2>3 DEF Scan, NextCall, history
  <2> QED BY <2>1, <2>2, <2>3
<1>2. \A v \in Users \ {u} : todo'[v] = todo[v]
  BY <1>1 DEF TypeInv, ToldInv
<1>3. u \notin isLcd
  BY <1>1 DEF TextInv
<1> QED BY <1>1, <1>2, <1>3, TextElsewhere DEF KeepsRace, TypeInv, TypeOK

(* Every step of the drivers and of their programs keeps the three         *)
(* invariants.                                                             *)
LEMMA AllNext == Inv /\ MapInv /\ TypeInv /\ TextInv /\ [Next]_vars => TextInv'
<1>1. TextInv /\ UNCHANGED vars => TextInv'
  BY DEF vars, userVars, history, TextInv
<1>2. Inv /\ MapInv /\ TypeInv /\ TextInv /\ Next => TextInv'
  BY TextStart, TextLeave, TextOpen, TextCalled, TextOthers DEF Next
<1> QED BY <1>1, <1>2

(* Of the display lcd.c leaves, the cells of its two texts are written.    *)
LEMMA CellsWritten ==
  Cardinality({i \in 0..Cells - 1 : Written(F, S)[i] # Blank}) = F + S
<1> DEFINE X == 0..F - 1
           Y == SecondAt..SecondAt + S - 1
<1> USE Lengths
<1>1. \A i \in 1..F : First[i] # Blank
  BY CallsOfLcd, LcdAssumption
<1>2. \A i \in 1..S : Second[i] # Blank
  BY CallsOfLcd, LcdAssumption
<1>3. ASSUME NEW i \in 0..Cells - 1
      PROVE  Written(F, S)[i] # Blank <=> i \in X \cup Y
  <2>1. i < F => i + 1 \in 1..F
    OBVIOUS
  <2>2. i \in Y => i - SecondAt + 1 \in 1..S
    OBVIOUS
  <2> QED BY <1>1, <1>2, <2>1, <2>2 DEF Written
<1>4. X \cup Y \subseteq 0..Cells - 1 /\ X \cap Y = {}
  OBVIOUS
<1>5. {i \in 0..Cells - 1 : Written(F, S)[i] # Blank} = X \cup Y
  BY <1>3, <1>4
<1>6. /\ IsFiniteSet(X) /\ Cardinality(X) = F
      /\ IsFiniteSet(Y) /\ Cardinality(Y) = S
  BY FS_Interval
<1>7. Cardinality(X \cup Y) = F + S - Cardinality(X \cap Y)
  BY <1>6, FS_Union
<1> QED BY <1>4, <1>5, <1>7, FS_EmptySet

(* When lcd.c has made its calls, the display shows its two texts and      *)
(* nothing else, whatever was on it before and whoever tries to open it    *)
(* without an overlap.                                                     *)
THEOREM TextKept == Spec => []TextShown
<1>1. TypeInv /\ TextInv => TextShown
  <2> SUFFICES ASSUME TypeInv, TextInv, ~raced,
                      NEW u \in isLcd \cap Opened, todo[u] = <<>>
               PROVE  /\ lcd.on /\ lcd.shift = 0 /\ lcd.lines = 2
                      /\ \A i \in DOMAIN First : lcd.text[i - 1] = First[i]
                      /\ \A i \in DOMAIN Second : lcd.text[SecondAt + i - 1] = Second[i]
                      /\ Cardinality({i \in 0..Cells - 1 : lcd.text[i] # Blank})
                           = Len(First) + Len(Second)
    BY DEF TextShown
  <2>1. PICK n \in 0..Len(lcdCalls) : Remaining(n, todo[u]) /\ AfterCalls(n, lcd)
    BY DEF TextInv, Opened
  <2>2. n = G + F + 3 + S
    <3>1. Len(todo[u]) = 0
      OBVIOUS
    <3> QED BY <2>1, <3>1, CallsOfLcd, Lengths DEF Remaining
  <2>3. Ready(lcd) /\ lcd.text = Written(F, S)
    BY <2>1, <2>2, Lengths DEF AfterCalls
  <2>4. DOMAIN First = 1..F /\ DOMAIN Second = 1..S
    BY LenProperties, DriversAssumption DEF F, S
  <2>5. ASSUME NEW i \in DOMAIN First PROVE lcd.text[i - 1] = First[i]
    <3>1. i - 1 \in 0..Cells - 1 /\ i - 1 < F /\ (i - 1) + 1 = i
      BY <2>4, Lengths
    <3> QED BY <2>3, <3>1 DEF Written
  <2>6. ASSUME NEW i \in DOMAIN Second PROVE lcd.text[SecondAt + i - 1] = Second[i]
    <3>1. /\ SecondAt + i - 1 \in 0..Cells - 1 /\ ~(SecondAt + i - 1 < F)
          /\ SecondAt + i - 1 \in SecondAt..SecondAt + S - 1
          /\ (SecondAt + i - 1) - SecondAt + 1 = i
      BY <2>4, Lengths
    <3> QED BY <2>3, <3>1 DEF Written
  <2> QED BY <2>3, <2>5, <2>6, CellsWritten DEF Ready, F, S
<1>2. Init => TextInv
  BY DEF Init, TextInv
<1>3. MapInv /\ Inv /\ TypeInv /\ TextInv /\ [Next]_vars => TypeInv' /\ TextInv'
  BY NextTyped, AllNext
<1> QED BY <1>1, <1>2, <1>3, InvHolds, InitTyped, PTL DEF Spec

-----------------------------------------------------------------------------
(* The numbers of the seven segment display *)

(* What a division is. *)
LEMMA Division ==
  ASSUME NEW n \in Nat, NEW a \in Nat \ {0}
  PROVE  n \div a \in Nat /\ n % a \in 0..a - 1 /\ n = a * (n \div a) + (n % a)
OBVIOUS

LEMMA MoreTimes ==
  ASSUME NEW a \in Nat \ {0}, NEW q \in Nat, NEW s \in Nat, q < s
  PROVE  a * q + a <= a * s
<1>1. PICK k \in Nat : s = (q + 1) + k
  <2>1. s - q - 1 \in Nat /\ s = (q + 1) + (s - q - 1)
    OBVIOUS
  <2> QED BY <2>1
<1>2. a * s = (a * q + a) + a * k
  BY <1>1
<1>3. a * k \in Nat /\ a * q \in Nat
  OBVIOUS
<1> QED BY <1>2, <1>3

LEMMA DivisionUnique ==
  ASSUME NEW n \in Nat, NEW a \in Nat \ {0}, NEW q \in Nat, NEW r \in 0..a - 1, n = a * q + r
  PROVE  n \div a = q /\ n % a = r
<1> DEFINE p == n \div a
           s == n % a
<1>1. p \in Nat /\ s \in 0..a - 1 /\ n = a * p + s
  BY Division
<1> HIDE DEF p, s
<1>2. ~(p < q)
  <2> SUFFICES ASSUME p < q PROVE FALSE
    OBVIOUS
  <2>1. a * p + a <= a * q
    BY <1>1, MoreTimes
  <2>2. a * p \in Nat /\ a * q \in Nat
    BY <1>1
  <2> QED BY <1>1, <2>1, <2>2
<1>3. ~(q < p)
  <2> SUFFICES ASSUME q < p PROVE FALSE
    OBVIOUS
  <2>1. a * q + a <= a * p
    BY <1>1, MoreTimes
  <2>2. a * p \in Nat /\ a * q \in Nat
    BY <1>1
  <2> QED BY <1>1, <2>1, <2>2
<1>4. p = q
  BY <1>1, <1>2, <1>3
<1>5. a * p \in Nat
  BY <1>1
<1>6. s = r
  BY <1>1, <1>4, <1>5
<1> QED BY <1>4, <1>6 DEF p, s

(* A number below r times a, divided by a. *)
LEMMA QuotientBelow ==
  ASSUME NEW n \in Nat, NEW a \in Nat \ {0}, NEW r \in Nat, n < r * a
  PROVE  n \div a < r
<1> DEFINE d == n \div a
           y == n % a
<1>1. d \in Nat /\ y \in 0..a - 1 /\ n = a * d + y
  BY Division
<1> HIDE DEF d, y
<1> SUFFICES ASSUME r <= d PROVE FALSE
  BY <1>1 DEF d
<1>2. a * r <= a * d
  <2>1. r < d => a * r + a <= a * d
    BY <1>1, MoreTimes
  <2>2. a * r \in Nat /\ a * d \in Nat
    BY <1>1
  <2> QED BY <1>1, <2>1, <2>2
<1>3. a * d \in Nat /\ r * a = a * r
  BY <1>1
<1> QED BY <1>1, <1>2, <1>3

(* A number divided by a and by a multiple of it.                          *)
LEMMA RestOfMultiple ==
  ASSUME NEW n \in Nat, NEW a \in Nat \ {0}, NEW r \in Nat \ {0}
  PROVE  /\ (n % (r * a)) \div a \in 0..r - 1
         /\ n % (r * a) = a * ((n % (r * a)) \div a) + (n % a)
<1> DEFINE b == r * a
           q == n \div b
           x == n % b
           d == x \div a
           y == x % a
<1>1. b \in Nat \ {0}
  OBVIOUS
<1> HIDE DEF b
<1>2. q \in Nat /\ x \in 0..b - 1 /\ n = b * q + x
  BY <1>1, Division
<1> HIDE DEF q, x
<1>3. d \in Nat /\ y \in 0..a - 1 /\ x = a * d + y
  <2>1. x \in Nat
    BY <1>1, <1>2
  <2> QED BY <2>1, Division
<1> HIDE DEF d, y
<1>4. d < r
  BY <1>1, <1>2, QuotientBelow DEF b, d
<1>5. r * q + d \in Nat
  BY <1>2, <1>3
<1>6. n = a * (r * q + d) + y
  <2>1. b * q = a * (r * q)
    BY <1>2 DEF b
  <2>2. a * (r * q + d) = a * (r * q) + a * d
    BY <1>2, <1>3
  <2>3. a * (r * q) \in Nat /\ a * d \in Nat /\ r * q \in Nat
    BY <1>2, <1>3
  <2> QED BY <1>2, <1>3, <2>1, <2>2, <2>3
<1>7. n % a = y
  BY <1>3, <1>5, <1>6, DivisionUnique
<1> QED BY <1>3, <1>4, <1>7 DEF d, y, x, b

(* A set of natural numbers has a least element.                           *)
LEMMA LeastNatural ==
  ASSUME NEW T \in SUBSET Nat, T # {}
  PROVE  \E x \in T : \A y \in T : x <= y
<1>1. IsWellFoundedOn(OpToRel(<, Nat), Nat)
  BY NatLessThanWellFounded
<1>2. PICK x \in T : \A y \in T : ~(<<y, x>> \in OpToRel(<, Nat))
  BY <1>1, WFMin, Zenon
<1>3. ASSUME NEW y \in T PROVE x <= y
  <2>1. ~(y < x)
    <3>1. x \in Nat /\ y \in Nat
      BY <1>2, <1>3
    <3> QED BY <1>2, <1>3, <3>1 DEF OpToRel
  <2> QED BY <2>1
<1> QED BY <1>3

(* The divisors are multiples, each of the one before it.                  *)
LEMMA Divisors ==
  /\ Positions \in Nat \ {0} /\ Radix \in 2..16 /\ Weight[0] = 1
  /\ \A i \in 0..Positions - 1 : Weight[i] \in Nat \ {0}
  /\ \A i \in 1..Positions - 1 : Weight[i] = Radix * Weight[i - 1]
<1> DEFINE Z == {i \in 0..Positions - 1 : Weight[i] = 0}
<1>1. /\ Positions \in Nat \ {0} /\ Radix \in 2..16 /\ Weight[0] = 1
      /\ \A i \in 0..Positions - 1 : Weight[i] \in Nat
      /\ \A i \in 1..Positions - 1 : Weight[i] = Radix * Weight[i - 1]
  BY DriversAssumption
<1>2. Z = {}
  <2> SUFFICES ASSUME Z # {} PROVE FALSE
    OBVIOUS
  <2>1. PICK i \in Z : \A k \in Z : i <= k
    <3>1. Z \in SUBSET Nat
      BY <1>1
    <3> QED BY <3>1, LeastNatural
  <2>2. i # 0 /\ i \in 1..Positions - 1 /\ i - 1 \in 0..Positions - 1
    BY <1>1, <2>1
  <2>3. Weight[i - 1] # 0 /\ Weight[i - 1] \in Nat
    BY <1>1, <2>1, <2>2
  <2>4. Radix * Weight[i - 1] # 0
    BY <1>1, <2>3
  <2> QED BY <1>1, <2>1, <2>2, <2>4
<1> QED BY <1>1, <1>2

\* What the digits from i - 1 down show of count, and digit i of it.
Rest(count, i) == IF i = Positions THEN count ELSE count % Weight[i]

Digit(count, i) == Rest(count, i + 1) \div Weight[i]

(* The codes of different digits are different. *)
LEMMA CodesDiffer ==
  ASSUME NEW x \in 0..Radix - 1, NEW y \in 0..Radix - 1, Getsegmentcode(x) = Getsegmentcode(y)
  PROVE  x = y
<1>1. x \in 0..15 /\ y \in 0..15
  BY DriversAssumption
<1>2. x % 256 = x /\ y % 256 = y
  BY <1>1
<1>3. SegmentCode[x + 1] = SegmentCode[y + 1]
  BY <1>1, <1>2 DEF Getsegmentcode
<1> QED BY <1>1, <1>3 DEF SegmentCode

(* A number the display has digits for is the sum of them. *)
LEMMA DigitOfRest ==
  ASSUME NEW n \in Presentable, NEW i \in 0..Positions - 1
  PROVE  /\ n \in Nat /\ Digit(n, i) \in 0..Radix - 1
         /\ Rest(n, i + 1) = Weight[i] * Digit(n, i) + Rest(n, i)
<1> USE Divisors
<1>1. n \in Nat /\ n < Radix * Weight[Positions - 1] /\ Rest(n, i) = n % Weight[i] /\ Weight[i] \in Nat \ {0}
  BY DEF Presentable, Rest
<1>2. CASE i = Positions - 1
  <2>1. Rest(n, i + 1) = n
    BY <1>2 DEF Rest
  <2>2. n = Weight[i] * (n \div Weight[i]) + (n % Weight[i]) /\ n \div Weight[i] \in Nat
    BY <1>1, Division
  <2>3. n \div Weight[i] < Radix
    BY <1>1, <1>2, QuotientBelow
  <2>4. Digit(n, i) = n \div Weight[i]
    BY <2>1 DEF Digit
  <2>5. n \div Weight[i] \in 0..Radix - 1
    BY <2>2, <2>3
  <2> QED BY <1>1, <2>1, <2>2, <2>4, <2>5
<1>3. CASE i # Positions - 1
  <2>1. i + 1 \in 1..Positions - 1 /\ (i + 1) - 1 = i /\ i + 1 # Positions
    BY <1>3
  <2>2. Weight[i + 1] = Radix * Weight[i] /\ Rest(n, i + 1) = n % Weight[i + 1]
    BY <2>1 DEF Rest
  <2>3. /\ (n % (Radix * Weight[i])) \div Weight[i] \in 0..Radix - 1
        /\ n % (Radix * Weight[i])
             = Weight[i] * ((n % (Radix * Weight[i])) \div Weight[i]) + (n % Weight[i])
    <3>1. Radix \in Nat \ {0}
      OBVIOUS
    <3> QED BY <1>1, <3>1, RestOfMultiple
  <2> QED BY <1>1, <2>2, <2>3 DEF Digit
<1> QED BY <1>2, <1>3

(* Two numbers with the same codes are the same: they have the same rests, *)
(* from the last digit to the first.                                       *)
LEMMA CodesDetermine ==
  ASSUME NEW k \in Presentable, NEW m \in Presentable, Codes(k) = Codes(m)
  PROVE  k = m
<1> DEFINE B == {i \in 0..Positions : Rest(k, i) # Rest(m, i)}
<1> USE Divisors
<1>1. \A i \in 0..Positions - 1 : Digit(k, i) = Digit(m, i)
  <2> SUFFICES ASSUME NEW i \in 0..Positions - 1 PROVE Digit(k, i) = Digit(m, i)
    OBVIOUS
  <2>1. \A n : Codes(n)[i] = Getsegmentcode(Digit(n, i))
    BY DEF Codes, Digit, Rest
  <2>2. Getsegmentcode(Digit(k, i)) = Getsegmentcode(Digit(m, i))
    BY <2>1
  <2> QED BY <2>2, CodesDiffer, DigitOfRest
<1>2. B = {}
  <2> SUFFICES ASSUME B # {} PROVE FALSE
    OBVIOUS
  <2>1. PICK i \in B : \A n \in B : i <= n
    <3>1. B \in SUBSET Nat
      OBVIOUS
    <3> QED BY <3>1, LeastNatural
  <2>2. i # 0
    BY <2>1 DEF Rest, Presentable
  <2>3. i - 1 \in 0..Positions - 1 /\ (i - 1) + 1 = i /\ i - 1 \notin B
    BY <2>1, <2>2
  <2>4. Rest(k, i - 1) = Rest(m, i - 1) /\ Digit(k, i - 1) = Digit(m, i - 1)
    BY <1>1, <2>3
  <2>5. Rest(k, i) = Rest(m, i)
    BY <2>3, <2>4, DigitOfRest
  <2> QED BY <2>1, <2>5
<1>3. Rest(k, Positions) = Rest(m, Positions)
  BY <1>2
<1> QED BY <1>3 DEF Rest

\* What the programs on the LED and on the sample device call.
PlainCalls == {<<"write">>, <<"ioctl">>, <<"read">>}

\* No number is being counted, or n is and c comes next.
Waits(t) == t \in {<<>>, CountProgram} \cup MapPrograms

Counts(t, c, n) == t \in {<<<<"show", c, n>>>>, <<<<"show", c, n>>, <<"scan">>>>}

(* While a number is counted, the codes shown are those of the count       *)
(* before; nobody else has calls of the display to make.                   *)
CallsInv ==
  \A u \in Users :
    /\ file[u] = "none" => todo[u] = <<>>
    /\ file[u] \in {"led", "chr"} => todo[u] \in Seq(PlainCalls)
    /\ file[u] = "segment" =>
         \/ Waits(todo[u])
         \/ /\ at[u] = "run"
            /\ \E c \in Nat : \E n \in Numbers :
                 /\ Counts(todo[u], c, n)
                 /\ ~raced /\ c > 0 => segments = Codes(c - 1)

(* A step of one program, which leaves the display alone. *)
LEMMA CallsElsewhere ==
  ASSUME CallsInv, NEW u \in Users, segments' = segments, KeepsRace,
         \A v \in Users \ {u} : at'[v] = at[v] /\ file'[v] = file[v] /\ todo'[v] = todo[v],
         file'[u] = "none" => todo'[u] = <<>>,
         file'[u] \in {"led", "chr"} => todo'[u] \in Seq(PlainCalls),
         file'[u] = "segment" => Waits(todo'[u])
  PROVE  CallsInv'
<1>1. \A v \in Users : at'[v] = "run" /\ file'[v] = "segment" => v \in Inside'
  BY DEF Inside, Exclusive
<1> QED BY <1>1 DEF CallsInv, Waits, KeepsRace

(* The program that counts: its round, its end, and the number read next.  *)
LEMMA CountForms ==
  /\ \A t : Waits(t) /\ t # <<>> => Head(t)[1] # "show"
  /\ \A t : Waits(t) /\ t # <<>> /\ Head(t)[1] = "scan" => t = <<<<"scan">>>>
  /\ \A n : Counts(<<<<"show", 0, n>>>>, 0, n) /\ Counts(<<<<"show", 0, n>>, <<"scan">>>>, 0, n)
BY DEF Waits, Counts, CountProgram, MapPrograms

LEMMA CountRound ==
  ASSUME NEW c \in Nat, NEW n, NEW t, Counts(t, c, n)
  PROVE  /\ t # <<>> /\ Head(t) = <<"show", c, n>>
         /\ Waits(Tail(t))
         /\ Counts([t EXCEPT ![1][2] = c + 1], c + 1, n)
<1>1. [<<"show", c, n>> EXCEPT ![2] = c + 1] = <<"show", c + 1, n>>
  OBVIOUS
<1>2. CASE t = <<<<"show", c, n>>>>
  <2>1. [t EXCEPT ![1][2] = c + 1] = <<<<"show", c + 1, n>>>>
    BY <1>1, <1>2
  <2> QED BY <1>2, <2>1 DEF Waits, Counts
<1>3. CASE t = <<<<"show", c, n>>, <<"scan">>>>
  <2>1. [t EXCEPT ![1][2] = c + 1] = <<<<"show", c + 1, n>>, <<"scan">>>>
    BY <1>1, <1>3
  <2> QED BY <1>3, <2>1 DEF Waits, Counts, CountProgram
<1> QED BY <1>2, <1>3 DEF Counts

(* Two calls one after the other. *)
LEMMA TwoCalls == \A x, y : <<x>> \o <<y>> = <<x, y>>
<1> SUFFICES ASSUME NEW x, NEW y PROVE <<x>> \o <<y>> = <<x, y>>
  OBVIOUS
<1> DEFINE Both == {x, y}
<1>1. <<x>> \in Seq(Both) /\ <<y>> \in Seq(Both) /\ <<x, y>> \in Seq(Both)
  OBVIOUS
<1>2. Len(<<x>>) = 1 /\ Len(<<y>>) = 1 /\ Len(<<x, y>>) = 2
  OBVIOUS
<1> HIDE DEF Both
<1>3. /\ <<x>> \o <<y>> \in Seq(Both) /\ Len(<<x>> \o <<y>>) = 2
      /\ (<<x>> \o <<y>>)[1] = x /\ (<<x>> \o <<y>>)[2] = y
  BY <1>1, <1>2, ConcatProperties
<1>4. ASSUME NEW i \in 1..2 PROVE (<<x>> \o <<y>>)[i] = <<x, y>>[i]
  BY <1>3
<1> QED BY <1>1, <1>2, <1>3, <1>4, SeqEqual

(* What programs begin with. *)
LEMMA ProgramsBegin ==
  /\ Programs("led") \cup Programs("chr") \subseteq Seq(PlainCalls)
  /\ \A p \in Programs("segment") : Waits(p)
<1>1. <<<<"write">>>> \in Seq(PlainCalls) /\ SampleProgram \in Seq(PlainCalls)
  BY DEF PlainCalls, SampleProgram
<1> QED BY <1>1 DEF Programs, Waits

(* The modules come and go, the programs start, open and leave.            *)
LEMMA CallsOutside ==
  ASSUME TypeInv, CallsInv,
         \/ \E d \in board : Insert(d) \/ Remove(d)
         \/ \E u \in Users : \/ \E d \in board : \E p \in Programs(d) : Start(u, d, p)
                             \/ OpenFail(u) \/ OpenSample(u) \/ OpenTest(u) \/ Release(u)
                             \/ \E a \in (Addresses \ live) \cup {NoAddress} : OpenMap(u, a)
                             \/ OpenDie(u)
  PROVE  CallsInv'
<1> USE DEF TypeInv, TypeOK, ToldInv
<1>1. CASE \E d \in board : Insert(d) \/ Remove(d)
  BY <1>1 DEF CallsInv, Insert, Remove, userVars, history
<1>2. ASSUME NEW u \in Users, NEW d \in board, NEW p \in Programs(d), Start(u, d, p)
      PROVE  CallsInv'
  <2>1. d \in Devices /\ d \in {"led", "segment", "textlcd", "chr"}
    BY DeviceNames DEF Devices
  <2>2. /\ d \in {"led", "chr"} => p \in Seq(PlainCalls)
        /\ d = "segment" => Waits(p)
    BY ProgramsBegin
  <2>3. /\ file'[u] = d /\ todo'[u] = p /\ segments' = segments /\ KeepsRace
        /\ \A v \in Users \ {u} : at'[v] = at[v] /\ file'[v] = file[v] /\ todo'[v] = todo[v]
    BY <1>2 DEF Start, history, KeepsRace
  <2> QED BY <2>1, <2>2, <2>3, CallsElsewhere
<1>3. ASSUME NEW u \in Users, OpenFail(u) \/ OpenDie(u) \/ Release(u) PROVE CallsInv'
  <2>1. /\ \E x \in {"off", "dead"} : at' = [at EXCEPT ![u] = x]
        /\ \/ file' = [file EXCEPT ![u] = "none"]
           \/ file' = file /\ file[u] = "textlcd"
        /\ todo' = [todo EXCEPT ![u] = <<>>] /\ segments' = segments
        /\ Recover(u) \/ UNCHANGED history
    BY <1>3 DEF OpenFail, OpenDie, Map, Release, Leave
  <2>2. /\ file'[u] \in {"none", "textlcd"} /\ todo'[u] = <<>>
        /\ at'[u] \notin {"map", "run"}
        /\ \A v \in Users \ {u} : at'[v] = at[v] /\ file'[v] = file[v] /\ todo'[v] = todo[v]
    BY <2>1
  <2>3. KeepsRace
    BY <2>1, <2>2, RecoverKeeps DEF KeepsRace, history
  <2> QED BY <2>1, <2>2, <2>3, CallsElsewhere
<1>4. ASSUME NEW u \in Users,
             \/ OpenSample(u) \/ OpenTest(u)
             \/ \E a \in (Addresses \ live) \cup {NoAddress} : OpenMap(u, a)
      PROVE  CallsInv'
  <2>1. /\ at[u] # "run" /\ UNCHANGED <<segments, file, todo>> /\ KeepsRace
        /\ \A v \in Users \ {u} : at'[v] = at[v]
    BY <1>4 DEF OpenSample, OpenTest, OpenMap, Map, MayOpen, history, KeepsRace
  <2> QED BY <2>1, CallsElsewhere DEF CallsInv
<1> QED BY <1>1, <1>2, <1>3, <1>4

(* Calls on the other devices, and the reading of a number. *)
LEMMA CallsMade ==
  ASSUME TypeInv, CallsInv, NEW u \in Users,
         TextCall(u) \/ PlainCall(u) \/ \E num \in Numbers : Scan(u, num)
  PROVE  CallsInv'
<1> USE DEF TypeInv, TypeOK, ToldInv
<1>1. CASE TextCall(u)
  <2>1. /\ file'[u] = "textlcd" /\ UNCHANGED <<segments, at, file>> /\ KeepsRace
        /\ \A v \in Users \ {u} : todo'[v] = todo[v]
    BY <1>1 DEF TextCall, NextCall, history, KeepsRace
  <2> QED BY <2>1, CallsElsewhere
<1>2. CASE PlainCall(u)
  <2>1. /\ file'[u] = file[u] /\ file[u] \in {"led", "chr"} /\ todo[u] # <<>>
        /\ todo'[u] = Tail(todo[u]) /\ UNCHANGED <<segments, at, file>> /\ KeepsRace
        /\ \A v \in Users \ {u} : todo'[v] = todo[v]
    BY <1>2 DEF PlainCall, NextCall, history, KeepsRace
  <2>2. Tail(todo[u]) \in Seq(PlainCalls)
    BY <2>1, HeadTailProperties DEF CallsInv
  <2>3. file'[u] \notin {"none", "segment"} /\ todo'[u] \in Seq(PlainCalls)
    BY <2>1, <2>2
  <2> QED BY <2>1, <2>3, CallsElsewhere
<1>3. ASSUME NEW num \in Numbers, Scan(u, num) PROVE CallsInv'
  <2>1. /\ file[u] = "segment" /\ at[u] = "run" /\ UNCHANGED <<raced, segments, at, file>>
        /\ todo[u] # <<>> /\ Head(todo[u])[1] = "scan"
        /\ \A v \in Users \ {u} : todo'[v] = todo[v]
        /\ todo'[u] = <<<<"show", 0, num>>>> \o (IF num = 0 THEN <<>> ELSE todo[u])
    BY <1>3 DEF Scan, NextCall, history
  <2>2. \A c \in Nat : \A n : ~Counts(todo[u], c, n)
    <3> SUFFICES ASSUME NEW c \in Nat, NEW n, Counts(todo[u], c, n) PROVE FALSE
      OBVIOUS
    <3>1. Head(todo[u]) = <<"show", c, n>>
      BY CountRound
    <3> QED BY <2>1, <3>1
  <2>3. todo[u] = <<<<"scan">>>>
    BY <2>1, <2>2, CountForms DEF CallsInv
  <2>4. todo'[u] \in {<<<<"show", 0, num>>>>, <<<<"show", 0, num>>, <<"scan">>>>}
    <3>1. <<<<"show", 0, num>>>> \o <<>> = <<<<"show", 0, num>>>>
      OBVIOUS
    <3>2. CASE num = 0
      BY <2>1, <3>1, <3>2
    <3>3. CASE num # 0
      BY <2>1, <2>3, <3>3, TwoCalls
    <3> QED BY <3>2, <3>3
  <2>5. ASSUME NEW v \in Users
        PROVE  /\ file'[v] = "none" => todo'[v] = <<>>
               /\ file'[v] \in {"led", "chr"} => todo'[v] \in Seq(PlainCalls)
               /\ file'[v] = "segment" =>
                    \/ Waits(todo'[v])
                    \/ /\ at'[v] = "run"
                       /\ \E c \in Nat : \E n \in Numbers :
                            /\ Counts(todo'[v], c, n)
                            /\ ~raced' /\ c > 0 => segments' = Codes(c - 1)
    <3>1. CASE v = u
      <4>1. 0 \in Nat /\ ~(0 > 0) /\ Counts(todo'[v], 0, num)
        BY <2>4, <3>1 DEF Counts
      <4> QED BY <2>1, <3>1, <4>1
    <3>2. CASE v # u
      BY <2>1, <3>2 DEF CallsInv
    <3> QED BY <3>1, <3>2
  <2> QED BY <2>5 DEF CallsInv, Waits, Counts
<1> QED BY <1>1, <1>2, <1>3

(* A round of segment_write shows the count, and nobody else counts. *)
LEMMA CallsShow ==
  ASSUME Inv, TypeInv, CallsInv, NEW u \in Users, Show(u)
  PROVE  CallsInv'
<1> USE DEF TypeInv, TypeOK, ToldInv
<1>1. /\ file[u] = "segment" /\ at[u] = "run" /\ UNCHANGED <<raced, at, file>>
      /\ todo[u] # <<>> /\ Head(todo[u])[1] = "show"
      /\ \/ /\ segments' = Codes(Head(todo[u])[2])
            /\ todo' = [todo EXCEPT ![u][1][2] = Head(todo[u])[2] + 1]
         \/ todo' = [todo EXCEPT ![u] = Tail(@)] /\ UNCHANGED segments
  BY Zenon DEF Show, NextCall, segment_fops, history
<1>2. PICK c \in Nat, n \in Numbers : Counts(todo[u], c, n)
  BY <1>1, CountForms DEF CallsInv
<1>3. /\ Head(todo[u]) = <<"show", c, n>> /\ Waits(Tail(todo[u]))
      /\ Counts([todo[u] EXCEPT ![1][2] = c + 1], c + 1, n)
  BY <1>2, CountRound
<1>4. CASE todo' = [todo EXCEPT ![u] = Tail(@)] /\ UNCHANGED segments
  <2>1. todo'[u] = Tail(todo[u]) /\ \A v \in Users \ {u} : todo'[v] = todo[v]
    BY <1>4
  <2>2. KeepsRace
    BY <1>1 DEF KeepsRace
  <2> QED BY <1>1, <1>3, <1>4, <2>1, <2>2, CallsElsewhere
<1>5. CASE segments' = Codes(c) /\ todo' = [todo EXCEPT ![u][1][2] = c + 1]
  <2>1. /\ todo'[u] = [todo[u] EXCEPT ![1][2] = c + 1]
        /\ \A v \in Users \ {u} : todo'[v] = todo[v]
    BY <1>5
  <2>2. ASSUME NEW v \in Users \ {u}, ~raced, file[v] = "segment" PROVE at[v] # "run"
    BY <1>1, <2>2 DEF Inv, OwnInv, Inside, Exclusive
  <2>3. c + 1 \in Nat /\ (c + 1) - 1 = c
    OBVIOUS
  <2>4. Counts(todo'[u], c + 1, n) /\ segments' = Codes((c + 1) - 1)
    BY <1>3, <1>5, <2>1, <2>3
  <2>5. ASSUME NEW v \in Users
        PROVE  /\ file'[v] = "none" => todo'[v] = <<>>
               /\ file'[v] \in {"led", "chr"} => todo'[v] \in Seq(PlainCalls)
               /\ file'[v] = "segment" =>
                    \/ Waits(todo'[v])
                    \/ /\ at'[v] = "run"
                       /\ \E b \in Nat : \E m \in Numbers :
                            /\ Counts(todo'[v], b, m)
                            /\ ~raced' /\ b > 0 => segments' = Codes(b - 1)
    <3>1. CASE v = u
      BY <1>1, <2>3, <2>4, <3>1
    <3>2. CASE v # u
      BY <1>1, <2>1, <2>2, <3>2 DEF CallsInv
    <3> QED BY <3>1, <3>2
  <2> QED BY <2>5 DEF CallsInv, Waits, Counts
<1> QED BY <1>1, <1>3, <1>4, <1>5

(* Every step keeps what the display shows. *)
LEMMA CallsNext == Inv /\ TypeInv /\ CallsInv /\ [Next]_vars => CallsInv'
<1>1. CallsInv /\ UNCHANGED vars => CallsInv'
  <2> SUFFICES ASSUME CallsInv, UNCHANGED vars PROVE CallsInv'
    OBVIOUS
  <2>1. UNCHANGED <<at, file, todo, segments, raced>>
    BY DEF vars, userVars, history
  <2> QED BY <2>1 DEF CallsInv, Waits, Counts
<1>2. Inv /\ TypeInv /\ CallsInv /\ Next => CallsInv'
  BY CallsOutside, CallsMade, CallsShow DEF Next
<1> QED BY <1>1, <1>2

(* Of all numbers the display has digits for, the codes on it are those of *)
(* the one that segment_write has just counted, whoever tries to open the  *)
(* display meanwhile without an overlap, for any number of digits and any  *)
(* radix up to 16.                                                         *)
THEOREM CountShown == Spec => []CountReadable
<1>1. TypeInv /\ CallsInv => CountReadable
  <2> SUFFICES ASSUME TypeInv, CallsInv, ~raced, NEW u \in Opened,
                      todo[u] # <<>>, Head(todo[u])[1] = "show",
                      Head(todo[u])[2] - 1 \in Presentable
               PROVE  {k \in Presentable : Codes(k) = segments} = {Head(todo[u])[2] - 1}
    BY DEF CountReadable
  <2>1. file[u] = "segment"
    <3>1. file[u] # "none"
      BY DEF Opened, TypeInv, TypeOK
    <3>2. file[u] # "textlcd"
      <4>1. \A c \in Calls : c[1] # "show"
        BY DEF Calls
      <4> QED BY <4>1, HeadTailProperties DEF TypeInv, ToldInv, Opened
    <3>3. file[u] \notin {"led", "chr"}
      <4>1. \A c \in PlainCalls : c[1] # "show"
        BY DEF PlainCalls
      <4> QED BY <4>1, HeadTailProperties DEF CallsInv, Opened
    <3> QED BY <3>1, <3>2, <3>3, DeviceNames DEF TypeInv, TypeOK, Opened
  <2>2. PICK c \in Nat, n \in Numbers : /\ Counts(todo[u], c, n)
                                        /\ c > 0 => segments = Codes(c - 1)
    BY <2>1, CountForms DEF CallsInv, Opened
  <2>3. Head(todo[u])[2] = c
    <3>1. Head(todo[u]) = <<"show", c, n>>
      BY <2>2, CountRound
    <3> QED BY <3>1
  <2>4. c - 1 \in Presentable /\ c > 0
    BY <2>3 DEF Presentable
  <2>5. \A k \in Presentable : Codes(k) = segments <=> k = c - 1
    BY <2>2, <2>4, CodesDetermine
  <2> QED BY <2>3, <2>4, <2>5
<1>2. Init => CallsInv
  BY DEF Init, CallsInv
<1>3. MapInv /\ Inv /\ TypeInv /\ CallsInv /\ [Next]_vars => TypeInv' /\ CallsInv'
  BY NextTyped, CallsNext
<1> QED BY <1>1, <1>2, <1>3, InvHolds, InitTyped, PTL DEF Spec
=============================================================================
