------------------------------ MODULE Drivers -------------------------------
(***************************************************************************)
(* The drivers of the LED (led.c), the seven segment display               *)
(* (7segment_dd.c), the text LCD (textlcd.c) and the sample device         *)
(* (module2.c), and the programs on them: lcd.c, the main functions of     *)
(* 7segment_dd.c and module2.c, 7segment.c, and any others.                *)
(*                                                                         *)
(* A program is the sequence of calls it still has to make.  The kernel    *)
(* calls open of a driver under its one lock, and gives the lock up when   *)
(* ioremap sleeps: open is therefore two steps, its test of usage and the  *)
(* rest.  Delays, messages and what a driver only prints are left out.     *)
(***************************************************************************)
EXTENDS Lcd, Integers, Sequences, FiniteSets

CONSTANTS
  Boards,     \* sets of drivers a run considers together
  Users,      \* processes
  Addresses,  \* addresses ioremap may give
  NoAddress,  \* what it gives when it fails, and NULL
  Greeting, First, Second,   \* the texts of lcd.c
  SecondAt,   \* the address of the second line, 40
  Radix,      \* the radix of the numbers shown, 10
  Positions,  \* digits of the seven segment display, 6
  Weight,     \* what segment_write divides by, 1 to 100000
  Word,       \* 2 to the width of an unsigned int
  Numbers     \* what a user may enter

ASSUME DriversAssumption ==
  /\ \A board \in Boards : board \subseteq {"led", "segment", "textlcd", "chr"}
  /\ NoAddress \notin Addresses
  /\ Greeting \in Seq(Chars) /\ First \in Seq(Chars) /\ Second \in Seq(Chars)
  /\ SecondAt \in 0..Cells - 1
  /\ Len(First) <= SecondAt /\ SecondAt + Len(Second) <= Cells
  /\ Radix \in 2..16 /\ {Positions, Word} \subseteq Nat \ {0}
  /\ Weight \in [0..Positions - 1 -> Nat] /\ Weight[0] = 1
  /\ \A i \in 1..Positions - 1 : Weight[i] = Radix * Weight[i - 1]
  /\ Numbers \subseteq 0..Word - 1

\* The devices of which the driver lets one process open it.
Exclusive == {"led", "segment", "textlcd"}

Devices == UNION Boards

VARIABLES
  board,     \* the drivers there are
  loaded,    \* drivers that are inserted
  usage,     \* led_usage, segment_usage, textlcd_usage
  addr,      \* led_ioremap, segment_ioremap, textlcd_ioremap
  live,      \* addresses that are mapped
  reserved,  \* addresses request_region reserved
  at,        \* each process: "off", "open", "map" (inside open), "run", or
             \* "dead", killed inside open
  file,      \* the device it opens, has open or died in
  todo,      \* the calls it has still to make
  isLcd,     \* processes that run lcd.c
  lcd,       \* the text LCD
  segments,  \* the codes at the digits of the seven segment display
  raced,     \* history: have opens of a device overlapped since no process
             \* was last inside a driver
  lost       \* history: what was still mapped when the last overlap ended

deviceVars == <<loaded, usage, addr, live, reserved>>
userVars == <<at, file, todo, isLcd>>
history == <<raced, lost>>
vars == <<board, deviceVars, userVars, lcd, segments, history>>

TypeOK ==
  /\ board \in Boards
  /\ loaded \subseteq board
  /\ usage \in [Exclusive -> {0, 1}]
  /\ addr \in [Exclusive -> Addresses \cup {NoAddress}]
  /\ live \subseteq Addresses
  /\ reserved \subseteq Addresses \cup {NoAddress}
  /\ at \in [Users -> {"off", "open", "map", "run", "dead"}]
  /\ file \in [Users -> Devices \cup {"none"}]
  /\ \A u \in Users : at[u] = "off" <=> file[u] = "none"
  /\ isLcd \subseteq Users
  /\ lcd \in Display
  /\ segments \in [0..Positions - 1 -> 0..127]
  /\ raced \in BOOLEAN /\ lost \subseteq Addresses

Init ==
  /\ board \in Boards
  /\ loaded = {}
  /\ usage = [d \in Exclusive |-> 0]
  /\ addr = [d \in Exclusive |-> NoAddress]
  /\ live = {} /\ reserved = {}
  /\ at = [u \in Users |-> "off"]
  /\ file = [u \in Users |-> "none"]
  /\ todo = [u \in Users |-> <<>>]
  /\ isLcd = {}
  /\ lcd = PowerOn
  /\ segments = [i \in 0..Positions - 1 |-> 0]
  /\ raced = FALSE /\ lost = {}

-----------------------------------------------------------------------------
(* The modules *)

Insert(d) ==
  /\ d \notin loaded
  /\ loaded' = loaded \cup {d}
  /\ UNCHANGED <<board, usage, addr, live, reserved, userVars>>
  /\ UNCHANGED <<lcd, segments, history>>

(* The kernel counts opens of a device for the owner of its operations,    *)
(* and the count stays when a process dies in open.  module2.c names its   *)
(* cleanup in a second module_init and has no module_exit.                 *)
Remove(d) ==
  /\ d \in loaded /\ d # "chr"
  /\ \A u \in Users : at[u] \in {"map", "run", "dead"} => file[u] # d
  /\ loaded' = loaded \ {d}
  /\ UNCHANGED <<board, usage, addr, live, reserved, userVars>>
  /\ UNCHANGED <<lcd, segments, history>>

-----------------------------------------------------------------------------
(* The programs *)

Bytes(s) == [i \in DOMAIN s |-> <<"byte", s[i]>>]

\* The calls of lcd.c; the first is a write, of which each byte is shown.
lcdCalls ==
  Bytes(Greeting) \o <<<<"clear">>, <<"address", 0>>>> \o Bytes(First)
    \o <<<<"address", SecondAt>>>> \o Bytes(Second)

\* main of 7segment_dd.c: numbers are entered and written.
CountProgram == <<<<"scan">>>>

(* main of 7segment.c maps the display, which its driver does not offer,   *)
(* takes the failure for an address and crashes at its first write: the    *)
(* codes Getsegcode has found for it by then are left out. With a count    *)
(* below one it writes nothing.                                            *)
MapPrograms == {<<<<"mmap">>>>, <<>>}

\* main of module2.c
SampleProgram == <<<<"ioctl">>, <<"write">>, <<"read">>>>

(* What a program does when it has device d open; any single call of the   *)
(* LCD and of the LED is one of another program.                           *)
Programs(d) ==
  CASE d = "textlcd" -> {lcdCalls} \cup {<<c>> : c \in Calls}
    [] d = "segment" -> {CountProgram} \cup MapPrograms
    [] d = "led" -> {<<<<"write">>>>}
    [] d = "chr" -> {SampleProgram}

Start(u, d, p) ==
  /\ at[u] = "off"
  /\ at' = [at EXCEPT ![u] = "open"]
  /\ file' = [file EXCEPT ![u] = d]
  /\ todo' = [todo EXCEPT ![u] = p]
  /\ isLcd' = IF d = "textlcd" /\ p = lcdCalls THEN isLcd \cup {u} ELSE isLcd
  /\ UNCHANGED <<board, deviceVars, lcd, segments, history>>

Leave(u) ==
  /\ at' = [at EXCEPT ![u] = "off"]
  /\ file' = [file EXCEPT ![u] = "none"]
  /\ todo' = [todo EXCEPT ![u] = <<>>]
  /\ isLcd' = isLcd \ {u}
  /\ UNCHANGED <<board, loaded, lcd, segments>>

-----------------------------------------------------------------------------
(* open *)

\* No driver, or EBUSY: each program exits.
OpenFail(u) ==
  /\ at[u] = "open"
  /\ \/ file[u] \notin loaded
     \/ file[u] \in Exclusive /\ usage[file[u]] # 0
  /\ Leave(u)
  /\ UNCHANGED <<usage, addr, live, reserved, history>>

\* Variant: the driver does not ask whether the device is open.
MayOpenAny(u) == at[u] = "open" /\ file[u] \in loaded

MayOpen(u) ==
  /\ at[u] = "open"
  /\ file[u] \in loaded
  /\ file[u] \in Exclusive => usage[file[u]] = 0

OpenSample(u) ==
  /\ MayOpen(u)
  /\ file[u] \notin Exclusive
  /\ at' = [at EXCEPT ![u] = "run"]
  /\ UNCHANGED <<board, deviceVars, file, todo, isLcd, lcd, segments, history>>

\* The test of usage; usage is not set yet.
OpenTest(u) ==
  /\ MayOpen(u)
  /\ file[u] \in Exclusive
  /\ at' = [at EXCEPT ![u] = "map"]
  /\ raced' = (raced \/ \E v \in Users : at[v] = "map" /\ file[v] = file[u])
  /\ UNCHANGED <<board, deviceVars, file, todo, isLcd, lcd, segments, lost>>

(* ioremap gives the address a, or fails, which the driver does not see;   *)
(* the region is reserved unless it is already, and usage is set.          *)
Map(u, a) ==
  /\ at[u] = "map"
  /\ addr' = [addr EXCEPT ![file[u]] = a]
  /\ live' = live \cup ({a} \ {NoAddress})
  /\ reserved' = reserved \cup {a}
  /\ usage' = [usage EXCEPT ![file[u]] = 1]
  /\ UNCHANGED <<board, loaded, file, segments>>

\* The LCD is initialised, if it is mapped.
OpenMap(u, a) ==
  /\ Map(u, a)
  /\ a = NoAddress => file[u] # "textlcd"
  /\ lcd' = IF file[u] = "textlcd" THEN initialize_textlcd(lcd) ELSE lcd
  /\ at' = [at EXCEPT ![u] = "run"]
  /\ UNCHANGED <<todo, isLcd, history>>

(* History, when u leaves: overlaps are over when no other process is      *)
(* inside a driver; what is mapped then is lost.                           *)
Recover(u) ==
  IF \E v \in Users \ {u} : at[v] \in {"map", "run"} /\ file[v] \in Exclusive
  THEN UNCHANGED history
  ELSE raced' = FALSE /\ lost' = IF raced THEN live' ELSE lost

(* textlcd_open initialises the LCD through NULL: the process is killed,   *)
(* and the device, which is not open, is never released.                   *)
OpenDie(u) ==
  /\ Map(u, NoAddress)
  /\ file[u] = "textlcd"
  /\ at' = [at EXCEPT ![u] = "dead"]
  /\ todo' = [todo EXCEPT ![u] = <<>>]
  /\ isLcd' = isLcd \ {u}
  /\ UNCHANGED lcd
  /\ Recover(u)

-----------------------------------------------------------------------------
(* Calls on an open device *)

\* Can a driver write to its device without a fault?
Reaches(u) == file[u] \in Exclusive => addr[file[u]] \in live

\* The operations each driver offers.
led_fops == {"write"}
segment_fops == {"show"}
textlcd_fops == {c[1] : c \in Calls}
chr_fops == {"ioctl", "write", "read"}

\* The next call of u is for device d, and it is one of ops.
NextCall(u, d, ops) ==
  /\ at[u] = "run" /\ file[u] = d
  /\ todo[u] # <<>>
  /\ Head(todo[u])[1] \in ops
  /\ UNCHANGED <<board, deviceVars, at, file, isLcd, history>>

\* textlcd_write, byte after byte, and textlcd_ioctl
TextCall(u) ==
  /\ NextCall(u, "textlcd", textlcd_fops)
  /\ Reaches(u)
  /\ lcd' = ioctl(lcd, Head(todo[u]))
  /\ todo' = [todo EXCEPT ![u] = Tail(@)]
  /\ UNCHANGED segments

\* led_write, and the operations of module2.c, which only print
PlainCall(u) ==
  /\ NextCall(u, "led", led_fops) \/ NextCall(u, "chr", chr_fops)
  /\ Reaches(u)
  /\ todo' = [todo EXCEPT ![u] = Tail(@)]
  /\ UNCHANGED <<lcd, segments>>

(* main of 7segment_dd.c: a number is read and written, and after zero the *)
(* program ends.  value is not set before, so that it may end at once.     *)
Scan(u, num) ==
  /\ NextCall(u, "segment", {"scan"})
  /\ todo' = [todo EXCEPT ![u] =
                <<<<"show", 0, num>>>> \o (IF num = 0 THEN <<>> ELSE @)]
  /\ UNCHANGED <<lcd, segments>>

\* The codes of the digits 0 to F, and nothing for other values of a char.
SegmentCode ==
  <<63, 6, 91, 79, 102, 109, 125, 7, 127, 111, 119, 124, 57, 94, 121, 113>>

\* Variant: 2 has the code of 3.
GetsegmentcodeWrong(x) ==
  IF x \in 0..15 THEN SegmentCode[IF x = 2 THEN 4 ELSE x + 1] ELSE 0

Getsegmentcode(x) ==
  LET char == x % 256 IN IF char \in 0..15 THEN SegmentCode[char + 1] ELSE 0

(* Each digit takes what the ones before it have left of the number, the   *)
(* first all of it.                                                        *)
Codes(count) ==
  [i \in 0..Positions - 1 |->
     LET rest == IF i = Positions - 1 THEN count ELSE count % Weight[i + 1]
     IN Getsegmentcode(rest \div Weight[i])]

\* A round of the loop of segment_write; num + 1 wraps.
Show(u) ==
  LET count == Head(todo[u])[2]
      num == Head(todo[u])[3]
  IN /\ NextCall(u, "segment", segment_fops)
     /\ Reaches(u)
     /\ IF count < (num + 1) % Word
        THEN /\ segments' = Codes(count)
             /\ todo' = [todo EXCEPT ![u][1][2] = count + 1]
        ELSE todo' = [todo EXCEPT ![u] = Tail(@)] /\ UNCHANGED segments
     /\ UNCHANGED lcd

-----------------------------------------------------------------------------
(* release, when the program closes the device, ends or is killed, or when *)
(* a write of the driver or of 7segment.c faults                           *)

\* Variant: usage counts down.
ReleaseDown(u) ==
  /\ at[u] = "run"
  /\ IF file[u] \in Exclusive
     THEN /\ live' = live \ {addr[file[u]]}
          /\ reserved' = reserved \ {addr[file[u]]}
          /\ usage' = [usage EXCEPT ![file[u]] = @ - 1]
     ELSE UNCHANGED <<live, reserved, usage>>
  /\ UNCHANGED addr
  /\ Leave(u)
  /\ Recover(u)

Release(u) ==
  /\ at[u] = "run"
  /\ IF file[u] \in Exclusive
     THEN /\ live' = live \ {addr[file[u]]}
          /\ reserved' = reserved \ {addr[file[u]]}
          /\ usage' = [usage EXCEPT ![file[u]] = 0]
     ELSE UNCHANGED <<live, reserved, usage>>
  /\ UNCHANGED addr
  /\ Leave(u)
  /\ Recover(u)

-----------------------------------------------------------------------------

Next ==
  \/ \E d \in board : Insert(d) \/ Remove(d)
  \/ \E u \in Users :
       \/ \E d \in board : \E p \in Programs(d) : Start(u, d, p)
       \/ OpenFail(u) \/ OpenSample(u) \/ OpenTest(u)
       \/ \E a \in (Addresses \ live) \cup {NoAddress} : OpenMap(u, a)
       \/ OpenDie(u)
       \/ TextCall(u) \/ PlainCall(u) \/ Show(u)
       \/ \E num \in Numbers : Scan(u, num)
       \/ Release(u)

Spec == Init /\ [][Next]_vars

-----------------------------------------------------------------------------
(* Properties *)

Opened == {u \in Users : at[u] = "run"}

\* Processes inside the driver of a device for one process.
Inside == {u \in Users : at[u] \in {"map", "run"} /\ file[u] \in Exclusive}

\* Those that have it open, and mapped.
Mapped == {u \in Inside : at[u] = "run" /\ addr[file[u]] # NoAddress}

(* As long as no open finds another one between its test of usage and its  *)
(* setting, and again when all that did have left, each device has one     *)
(* process, its driver writes through an address that is mapped, reserved  *)
(* and its own, and no address is forgotten but those lost to overlaps.    *)
MappedWhileOpen ==
  ~raced =>
    /\ \A u, v \in Inside : file[u] = file[v] => u = v
    /\ \A u, v \in Mapped : u # v => addr[file[u]] # addr[file[v]]
    /\ \A u \in Mapped : addr[file[u]] \in live \cap reserved
    /\ live = lost \cup {addr[file[u]] : u \in Mapped}

(* When lcd.c has made its calls, the display is on, has two lines and     *)
(* shows its two texts, whatever programs before it left in the controller *)
(* and whatever others try meanwhile, if opens do not overlap.             *)
TextShown ==
  ~raced => \A u \in isLcd \cap Opened :
    todo[u] = <<>> =>
      /\ lcd.on /\ lcd.shift = 0 /\ lcd.lines = 2
      /\ \A i \in DOMAIN First : lcd.text[i - 1] = First[i]
      /\ \A i \in DOMAIN Second : lcd.text[SecondAt + i - 1] = Second[i]
      /\ Cardinality({i \in 0..Cells - 1 : lcd.text[i] # Blank})
           = Len(First) + Len(Second)

Presentable == 0..Radix * Weight[Positions - 1] - 1

(* Of the numbers the display has digits for, the codes on it are those of *)
(* the one that segment_write counts, if opens do not overlap.             *)
CountReadable ==
  ~raced => \A u \in Opened :
    todo[u] # <<>> /\ Head(todo[u])[1] = "show" =>
      LET shown == Head(todo[u])[2] - 1
      IN shown \in Presentable =>
           {k \in Presentable : Codes(k) = segments} = {shown}
=============================================================================
