------------------------------ MODULE Console ------------------------------
(***************************************************************************)
(* The text screen of src/kernel/kerio.c: printk with its control          *)
(* characters, line wrap and scrolling, and the cursor of the VGA          *)
(* hardware.  Only one process prints, so a call of printk is one step.    *)
(* What printf makes of its format, and colours, are left out.             *)
(***************************************************************************)
EXTENDS Integers, Sequences

CONSTANTS
  VIDEO_WIDTH, VIDEO_HEIGHT,   \* 80 and 25 in the code
  Glyphs                       \* the characters that printk puts on the screen

\* The characters that move the cursor instead.
Control == {"LF", "BS", "HT"}

ASSUME ConsoleAssumption ==
  /\ {VIDEO_WIDTH, VIDEO_HEIGHT} \subseteq Nat \ {0, 1}
  /\ " " \in Glyphs
  /\ Glyphs \cap Control = {}

VARIABLES
  display,     \* [x, y: screen_cursor, cells: video_memory, row after row from 0]
  vga_cursor   \* the position last sent to the VGA ports

consoleVars == <<display, vga_cursor>>

Cell == 0 .. VIDEO_WIDTH * VIDEO_HEIGHT - 1
Offset(d) == VIDEO_WIDTH * d.y + d.x

put_char(d, c) == [d EXCEPT !.cells[Offset(d)] = c]

full_remainder_char(d) ==
  [d EXCEPT !.cells = [i \in Cell |->
     IF i >= Offset(d) /\ i < VIDEO_WIDTH * (d.y + 1) THEN " " ELSE @[i]]]

\* The screen moves up by one row; the last row becomes blank.
next_line(d) ==
  [x |-> 0, y |-> VIDEO_HEIGHT - 1,
   cells |-> [i \in Cell |-> IF i + VIDEO_WIDTH \in Cell THEN d.cells[i + VIDEO_WIDTH] ELSE " "]]

\* Mutant: a backspace in the first column stays there.
backspace_stops_at_margin(d) ==
  IF d.x > 0 THEN put_char([d EXCEPT !.x = @ - 1], " ") ELSE d

\* Back over the last character, also to the end of the row above.
Backspace(d) ==
  CASE d.x > 0             -> put_char([d EXCEPT !.x = @ - 1], " ")
    [] d.x = 0 /\ d.y > 0  -> put_char([d EXCEPT !.x = VIDEO_WIDTH - 1, !.y = @ - 1], " ")
    [] OTHER               -> d

\* The switch on one character, the wrap and the scroll after it.
PrintChar(d, c) ==
  LET acted == CASE c = "LF" -> [full_remainder_char(d) EXCEPT !.x = 0, !.y = @ + 1]
                 [] c = "BS" -> Backspace(d)
                 [] c = "HT" -> [d EXCEPT !.x = ((@ + 8) \div 8) * 8]
                 [] OTHER    -> [put_char(d, c) EXCEPT !.x = @ + 1]
      wrapped == IF acted.x >= VIDEO_WIDTH THEN [acted EXCEPT !.x = 0, !.y = @ + 1] ELSE acted
  IN  IF wrapped.y >= VIDEO_HEIGHT THEN next_line(wrapped) ELSE wrapped

\* PrintChar, written so that TLC evaluates d once and not at each of its uses.
Printed(d, c) == CHOOSE e \in {PrintChar(v, c) : v \in {d}} : TRUE

printk(str) ==
  LET shown[k \in 0 .. Len(str)] ==
        IF k = 0 THEN display ELSE Printed(shown[k - 1], str[k])
  IN  display' = shown[Len(str)] /\ UNCHANGED vga_cursor

\* The cursor is always inside the screen, where set_cursor_position leaves it.
update_cursor == vga_cursor' = Offset(display) /\ UNCHANGED display

\* The kernel has printed more lines than the screen has rows and the cursor is at
\* the start of the last row.  What is above is of no interest.
ConsoleInit ==
  /\ display = [x |-> 0, y |-> VIDEO_HEIGHT - 1, cells |-> [i \in Cell |-> " "]]
  /\ vga_cursor = Offset(display)

ConsoleTypeOK ==
  /\ display.x \in 0 .. VIDEO_WIDTH - 1
  /\ display.y \in 0 .. VIDEO_HEIGHT - 1
  /\ display.cells \in [Cell -> Glyphs]
  /\ vga_cursor \in Cell
=============================================================================
