CONSTANTS
  Boards = {{"textlcd"}, {"segment"}, {"led", "chr"}}
  Cells = 3
  Chars = {"g", "w"}
  Blank = " "
  Users = {a, b}
  Addresses = {x, y, z}
  NoAddress = NoAddress
  Greeting <- OneChar
  First <- OneChar
  Second <- LineTwo
  SecondAt = 2
  Radix = 4
  Positions = 2
  Weight <- OneAndFour
  Word = 32
  Numbers = {0, 17, 31}
SYMMETRY Symmetric
SPECIFICATION Spec
INVARIANTS TypeOK MappedWhileOpen  CountReadable
CHECK_DEADLOCK FALSE
