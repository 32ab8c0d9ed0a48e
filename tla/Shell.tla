------------------------------- MODULE Shell -------------------------------
(***************************************************************************)
(* The command loop of src/user/shell/shell.c as the reader of the         *)
(* keyboard driver: shell_read_line polls keyboard_getchar and edits the   *)
(* line, shell_process_command splits it and runs it; what is typed and    *)
(* printed appears on the console.  The installer's loop                   *)
(* (src/user/installer/installer.c:147-233) is the same code; the kernel   *)
(* starts one of the two.  Keys may arrive between any two steps.          *)
(***************************************************************************)
EXTENDS Keyboard, Console, SequencesExt

CONSTANTS
  MAX_COMMAND_LENGTH,   \* size of the line buffer
  MAX_ARGS,
  Prompt,               \* current directory and prompt, as printed
  Outputs               \* what commands print

\* The characters of the keyboard that go into the line.
Printable == {"a", "A", "1", "!", " "}

\* The prompt ("/#> ") has no control characters.  The prompt, the longest line and
\* the cursor behind it fit the screen: 4, 255 and 1 of 2000 cells in the code.
ASSUME ShellAssumption ==
  /\ MAX_COMMAND_LENGTH \in Nat \ {0, 1}
  /\ MAX_ARGS \in Nat \ {0}
  /\ Printable \subseteq Glyphs
  /\ Prompt \in Seq(Glyphs)
  /\ Outputs \subseteq Seq(Glyphs \cup Control)
  /\ Len(Prompt) + MAX_COMMAND_LENGTH <= VIDEO_WIDTH * VIDEO_HEIGHT

VARIABLES
  pc,      \* "prompt": before the prompt, "poll": before keyboard_getchar,
           \* "edit": after it, "run": a line is in
  line     \* buffer[0 .. i-1] of shell_read_line

shellVars == <<keyboardVars, consoleVars, pc, line>>

-----------------------------------------------------------------------------
(* Splitting a line into arguments.  Positions in the line count from 1; 0 *)
(* is the NULL that strtok keeps in `last' when nothing is left.           *)

\* Mutant: leading delimiters are not skipped.
strtok_no_skip(str, from) ==
  LET delims == {i \in from .. Len(str) : str[i] = " "}
  IN  IF from = 0 \/ from > Len(str) THEN [token |-> << >>, last |-> 0]
      ELSE IF delims = {} THEN [token |-> <<from, Len(str) + 1>>, last |-> 0]
      ELSE [token |-> <<from, Min(delims)>>, last |-> Min(delims) + 1]

strtok(str, from) ==
  LET starts == {i \in from .. Len(str) : str[i] # " "}
      s      == Min(starts)
      delims == {i \in s .. Len(str) : str[i] = " "}
  IN  IF from = 0 \/ starts = {} THEN [token |-> << >>, last |-> 0]
      ELSE IF delims = {} THEN [token |-> <<s, Len(str) + 1>>, last |-> 0]
      ELSE [token |-> <<s, Min(delims)>>, last |-> Min(delims) + 1]

\* The loop of shell_tokenize after k calls of strtok: the first and the end
\* position of every argument.
shell_tokenize(str) ==
  LET loop[k \in 0 .. MAX_ARGS] ==
        IF k = 0 THEN [args |-> << >>, last |-> 1]
        ELSE LET t == strtok(str, loop[k - 1].last)
             IN  IF t.token = << >> THEN [loop[k - 1] EXCEPT !.last = 0]
                 ELSE [args |-> Append(loop[k - 1].args, t.token), last |-> t.last]
  IN  loop[MAX_ARGS].args

-----------------------------------------------------------------------------
(* The loop.                                                               *)

ShellInit ==
  /\ KeyboardInit
  /\ ConsoleInit
  /\ pc = "prompt"
  /\ line = << >>

shell_print_prompt ==
  /\ pc = "prompt"
  /\ pc' = "poll"
  /\ printk(<<"LF">> \o Prompt)
  /\ UNCHANGED <<keyboardVars, line>>

\* Mutant: the bound of the loop is off by one.
poll_one_more ==
  /\ pc = "poll"
  /\ IF Len(line) <= MAX_COMMAND_LENGTH - 1
     THEN update_cursor /\ keyboard_getchar /\ pc' = "edit"
     ELSE pc' = "run" /\ UNCHANGED <<keyboardVars, consoleVars>>
  /\ UNCHANGED line

\* The loop ends without reading a character once the buffer is full.
shell_read_line_poll ==
  /\ pc = "poll"
  /\ IF Len(line) < MAX_COMMAND_LENGTH - 1
     THEN update_cursor /\ keyboard_getchar /\ pc' = "edit"
     ELSE pc' = "run" /\ UNCHANGED <<keyboardVars, consoleVars>>
  /\ UNCHANGED line

\* How one character changes the line and what it echoes.
Edited ==
  CASE got = "BS" /\ line # << >> -> [line |-> Front(line), echo |-> <<"BS">>]
    [] got \in Printable          -> [line |-> Append(line, got), echo |-> <<got>>]
    [] OTHER                      -> [line |-> line, echo |-> << >>]

\* Mutant: Enter on an empty line is taken for an ordinary character.
edit_ignores_enter ==
  /\ pc = "edit"
  /\ pc' = IF got = "LF" /\ line # << >> THEN "run" ELSE "poll"
  /\ line' = Edited.line
  /\ printk(Edited.echo)
  /\ UNCHANGED keyboardVars

shell_read_line_edit ==
  /\ pc = "edit"
  /\ pc' = IF got = "LF" THEN "run" ELSE "poll"
  /\ line' = Edited.line
  /\ printk(Edited.echo)
  /\ UNCHANGED keyboardVars

\* The arguments are positions of `line'; a command reads them and prints, then
\* the next line starts empty.  Without arguments, or without memory for their
\* array, nothing is run or printed; the array of a blank line is not freed.
shell_process_command ==
  /\ pc = "run"
  /\ pc' = "prompt"
  /\ line' = << >>
  /\ \/ shell_tokenize(line) # << >> /\ \E out \in Outputs : printk(<<"LF">> \o out)
     \/ UNCHANGED consoleVars
  /\ UNCHANGED keyboardVars

shell_run ==
  shell_print_prompt \/ shell_read_line_poll \/ shell_read_line_edit \/ shell_process_command

KeyArrives == keyboard_interrupt_handler /\ UNCHANGED <<consoleVars, pc, line>>

ShellNext == shell_run \/ KeyArrives

\* The scheduler keeps giving the shell, the only process, the CPU.
ShellSpec == ShellInit /\ [][ShellNext]_shellVars /\ WF_shellVars(shell_run)

-----------------------------------------------------------------------------
(* What the command loop promises.                                         *)

\* The line and its terminating NUL fit the buffer, whatever is typed ahead,
\* deleted or repeated: every write of shell_read_line stays inside, and the
\* cursor of printk stays on the screen.
ShellTypeOK ==
  /\ KeyboardTypeOK
  /\ ConsoleTypeOK
  /\ pc \in {"prompt", "poll", "edit", "run"}
  /\ line \in Seq(Printable)
  /\ Len(line) <= MAX_COMMAND_LENGTH - 1

\* What the user sees is what the shell will run: the cells before the cursor end
\* with the prompt and the line, and the rest of the screen is blank, after any
\* mix of typing, deleting, wrapping at the margin and scrolling, over whatever
\* earlier commands printed.  When a character is read the VGA cursor stands
\* behind the line.
ScreenShowsLine ==
  pc # "prompt" =>
    LET shown == Prompt \o line
        end   == Offset(display)
    IN  /\ end >= Len(shown)
        /\ \A i \in DOMAIN shown : display.cells[end - Len(shown) + i - 1] = shown[i]
        /\ \A i \in Cell : i >= end => display.cells[i] = " "
        /\ pc = "edit" => vga_cursor = end

\* The maximal runs of characters other than space, as <<first, end>>.
Words(str) ==
  {w \in (1 .. Len(str)) \X (2 .. Len(str) + 1) :
     /\ w[1] < w[2]
     /\ \A i \in w[1] .. w[2] - 1 : str[i] # " "
     /\ w[1] = 1 \/ str[w[1] - 1] = " "
     /\ w[2] = Len(str) + 1 \/ str[w[2]] = " "}

\* The arguments that strtok's saved position delivers, call by call, are the
\* words of the line from left to right, at most MAX_ARGS of them.
ArgsAreWords ==
  pc = "run" =>
    LET args  == shell_tokenize(line)
        words == Words(line)
    IN  /\ Len(args) = Min({MAX_ARGS, Cardinality(words)})
        /\ \A k \in DOMAIN args :
             /\ args[k] \in words
             /\ Cardinality({w \in words : w[1] < args[k][1]}) = k - 1

\* An Enter that the driver has accepted ends a line: the shell does not lose it,
\* whatever else is typed meanwhile.
EnterIsAnswered ==
  (\E i \in DOMAIN Pending : Pending[i] = "LF") ~> (pc = "run")
=============================================================================
