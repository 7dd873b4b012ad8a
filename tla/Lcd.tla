-------------------------------- MODULE Lcd ---------------------------------
(***************************************************************************)
(* The text LCD as textlcd.c drives it: the commands are functions of the  *)
(* state of the display controller, which is external.  Commands are named *)
(* and not encoded: what the routines of textlcd.c put into the bits is    *)
(* what the controller takes out of them.                                  *)
(***************************************************************************)
EXTENDS Naturals

CONSTANTS
  Cells,   \* addresses of the display memory are 0..Cells-1
  Chars,   \* characters
  Blank    \* the blank

ASSUME LcdAssumption == Cells \in Nat \ {0} /\ Blank \notin Chars

(* at is the address of the next character, right whether it moves to the  *)
(* right, scroll whether the display moves with it, shift by how much the  *)
(* display has moved.                                                      *)
Display ==
  [text : [0..Cells - 1 -> Chars \cup {Blank}], at : 0..Cells - 1,
   right : BOOLEAN, scroll : BOOLEAN, shift : 0..Cells - 1,
   on : BOOLEAN, lines : {1, 2}]

PowerOn ==
  [text |-> [i \in 0..Cells - 1 |-> Blank], at |-> 0, right |-> TRUE,
   scroll |-> FALSE, shift |-> 0, on |-> FALSE, lines |-> 1]

Moved(i, right) == (IF right THEN i + 1 ELSE i + Cells - 1) % Cells

writebyte(l, ch) ==
  [l EXCEPT !.text[l.at] = ch, !.at = Moved(@, l.right),
            !.shift = IF l.scroll THEN Moved(@, ~l.right) ELSE @]

\* Any number of rows but one and two is refused.
function_set(l, rows) == [l EXCEPT !.lines = IF rows \in {1, 2} THEN rows ELSE @]

display_control(l, enable) == [l EXCEPT !.on = enable]

cursor_shift(l, screen, right) ==
  IF screen THEN [l EXCEPT !.shift = Moved(@, right)]
            ELSE [l EXCEPT !.at = Moved(@, right)]

entry_mode_set(l, increase, shift) ==
  [l EXCEPT !.right = increase, !.scroll = shift]

return_home(l) == [l EXCEPT !.at = 0, !.shift = 0]

clear_display(l) ==
  [l EXCEPT !.text = PowerOn.text, !.at = 0, !.shift = 0, !.right = TRUE]

set_ddram_address(l, pos) == [l EXCEPT !.at = pos % Cells]

\* Variant: the display is not turned on.
initialize_off(l) ==
  entry_mode_set(return_home(clear_display(function_set(l, 2))), TRUE, FALSE)

initialize_textlcd(l) ==
  entry_mode_set(
    return_home(clear_display(display_control(function_set(l, 2), TRUE))),
    TRUE, FALSE)

\* textlcd_ioctl; a call is a sequence of the command and its arguments.
ioctl(l, call) ==
  CASE call[1] = "function" -> function_set(l, call[2] + 1)
    [] call[1] = "display" -> display_control(l, call[2])
    [] call[1] = "cursor" -> cursor_shift(l, call[2], call[3])
    [] call[1] = "entry" -> entry_mode_set(l, call[2], call[3])
    [] call[1] = "home" -> return_home(l)
    [] call[1] = "clear" -> clear_display(l)
    [] call[1] = "address" -> set_ddram_address(l, call[2])
    [] call[1] = "byte" -> writebyte(l, call[2])

\* The calls a program can make; COMMAND_SET gives any command itself.
Calls ==
  {<<"home">>, <<"clear">>}
    \cup ({"function"} \X {0, 1, 2}) \cup ({"display"} \X BOOLEAN)
    \cup ({"cursor", "entry"} \X BOOLEAN \X BOOLEAN)
    \cup ({"address"} \X (0..Cells - 1)) \cup ({"byte"} \X Chars)
=============================================================================
