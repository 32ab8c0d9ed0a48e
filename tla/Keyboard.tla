------------------------------ MODULE Keyboard ------------------------------
(***************************************************************************)
(* The keyboard driver of src/driver/keyboard.c: the interrupt handler     *)
(* that turns scan codes into characters, the modifier flags, and the ring *)
(* of characters that keyboard_getchar empties.                            *)
(*                                                                         *)
(* The handler runs with interrupts off and keyboard_getchar and           *)
(* keyboard_clear_buffer turn them off around their critical section, so   *)
(* each is one step.  A key stands for all keys the driver treats alike.   *)
(* last_scancode is written and never read, and is left out.               *)
(***************************************************************************)
EXTENDS Integers, Sequences

CONSTANTS
  RING_SIZE,   \* slots of keyboard_buffer (256 in the code)
  Keys           \* the keys the user presses

VARIABLES
  keyboard_buffer, buffer_start, buffer_end,
  keyboard_flags,  \* the flags that are set
  reset,           \* "flags": keyboard_reset has yet to clear the flags; "done"
  held,            \* the modifier keys that are physically down
  got,             \* the last character keyboard_getchar returned
  clears           \* history: flips whenever the ring is cleared on request

ringVars     == <<keyboard_buffer, buffer_start, buffer_end>>
keyboardVars == <<ringVars, keyboard_flags, reset, held, got, clears>>

NUL  == "NUL"
Char == {"a", "A", "^A", "1", "!", " ", "LF", "BS"}
Slot == 0 .. RING_SIZE - 1

\* Keys that set a flag while they are down, and keys that toggle one.
ModifierFlag ==
  [k \in {"LEFT_SHIFT", "RIGHT_SHIFT", "LEFT_CTRL", "LEFT_ALT"} |->
     CASE k \in {"LEFT_SHIFT", "RIGHT_SHIFT"} -> "SHIFT"
       [] k = "LEFT_CTRL"                     -> "CTRL"
       [] k = "LEFT_ALT"                      -> "ALT"]
Modifier == DOMAIN ModifierFlag
Toggle   == {"CAPS_LOCK", "NUM_LOCK", "SCROLL_LOCK"}
Flag     == {"SHIFT", "CTRL", "ALT"} \cup Toggle

\* The two translation tables; ESC stands for the keys with no character.
CharKey == {"LETTER", "DIGIT", "SPACE", "ENTER", "BACKSPACE", "ESC"}
keyboard_map_normal ==
  [k \in CharKey |->
     CASE k = "LETTER" -> "a"  [] k = "DIGIT"     -> "1"  [] k = "SPACE" -> " "
       [] k = "ENTER"  -> "LF" [] k = "BACKSPACE" -> "BS" [] k = "ESC"   -> NUL]
keyboard_map_shift ==
  [keyboard_map_normal EXCEPT !["LETTER"] = "A", !["DIGIT"] = "!"]

ASSUME KeyboardAssumption ==
  /\ RING_SIZE \in Nat \ {0}
  /\ Keys \subseteq Modifier \cup Toggle \cup CharKey

KeyboardTypeOK ==
  /\ keyboard_buffer \in [Slot -> Char \cup {NUL}]
  /\ buffer_start \in Slot
  /\ buffer_end \in Slot
  /\ keyboard_flags \subseteq Flag
  /\ reset \in {"done", "flags"}
  /\ held \subseteq Modifier
  /\ got \in Char \cup {NUL}
  /\ clears \in {0, 1}

\* create_keyboard_driver.  The ring is not cleared; its content before the
\* first key is not read.
KeyboardInit ==
  /\ keyboard_buffer = [s \in Slot |-> NUL]
  /\ buffer_start = 0
  /\ buffer_end = 0
  /\ keyboard_flags = {}
  /\ reset = "done"
  /\ held = {}
  /\ got = NUL
  /\ clears = 0

-----------------------------------------------------------------------------
keyboard_is_buffer_empty == buffer_start = buffer_end

\* Mutant: the test for a full ring forgets the wrap.
full_without_wrap == buffer_end + 1 = buffer_start

keyboard_is_buffer_full  == (buffer_end + 1) % RING_SIZE = buffer_start

\* Ctrl makes a control character of a lower-case letter only.
keyboard_scancode_to_ascii(k) ==
  LET shift == keyboard_flags \cap {"SHIFT", "CAPS_LOCK"} # {}
      c     == IF shift THEN keyboard_map_shift[k] ELSE keyboard_map_normal[k]
  IN  IF "CTRL" \in keyboard_flags /\ c = "a" THEN "^A" ELSE c

\* Store c at the end of the ring, or drop it when the ring is full.
Store(c) ==
  IF keyboard_is_buffer_full THEN UNCHANGED ringVars
  ELSE /\ keyboard_buffer' = [keyboard_buffer EXCEPT ![buffer_end] = c]
       /\ buffer_end' = (buffer_end + 1) % RING_SIZE
       /\ UNCHANGED buffer_start

-----------------------------------------------------------------------------
(* keyboard_interrupt_handler, by the scan code it reads.  A key that is   *)
(* held down repeats its make code.                                        *)

PressModifier(k) ==
  /\ k \in Modifier
  /\ keyboard_flags' = keyboard_flags \cup {ModifierFlag[k]}
  /\ held' = held \cup {k}
  /\ UNCHANGED <<ringVars, reset, got, clears>>

\* Mutant: the release of the right shift key is not handled.
ReleaseLeftOnly(k) ==
  /\ k \in held
  /\ keyboard_flags' = keyboard_flags \
       (IF k = "RIGHT_SHIFT" THEN {} ELSE {ModifierFlag[k]})
  /\ held' = held \ {k}
  /\ UNCHANGED <<ringVars, reset, got, clears>>

ReleaseModifier(k) ==
  /\ k \in held
  /\ keyboard_flags' = keyboard_flags \ {ModifierFlag[k]}
  /\ held' = held \ {k}
  /\ UNCHANGED <<ringVars, reset, got, clears>>

PressToggle(k) ==
  /\ k \in Toggle
  /\ keyboard_flags' = (keyboard_flags \cup {k}) \ (keyboard_flags \cap {k})
  /\ UNCHANGED <<ringVars, reset, held, got, clears>>

PressChar(k) ==
  /\ k \in CharKey
  /\ LET c == keyboard_scancode_to_ascii(k)
     IN  IF c # NUL THEN Store(c) ELSE UNCHANGED ringVars
  /\ UNCHANGED <<keyboard_flags, reset, held, got, clears>>

keyboard_interrupt_handler ==
  \E k \in Keys :
    PressModifier(k) \/ ReleaseModifier(k) \/ PressToggle(k) \/ PressChar(k)

\* Mutant: the index of the reader does not wrap.
getchar_without_wrap ==
  /\ IF keyboard_is_buffer_empty
     THEN got' = NUL /\ UNCHANGED buffer_start
     ELSE /\ got' = keyboard_buffer[buffer_start]
          /\ buffer_start' = buffer_start + 1
  /\ UNCHANGED <<keyboard_buffer, buffer_end, keyboard_flags, reset, held, clears>>

keyboard_getchar ==
  /\ IF keyboard_is_buffer_empty
     THEN got' = NUL /\ UNCHANGED buffer_start
     ELSE /\ got' = keyboard_buffer[buffer_start]
          /\ buffer_start' = (buffer_start + 1) % RING_SIZE
  /\ UNCHANGED <<keyboard_buffer, buffer_end, keyboard_flags, reset, held, clears>>

ClearRing ==
  /\ buffer_start' = 0
  /\ buffer_end' = 0
  /\ clears' = 1 - clears
  /\ UNCHANGED keyboard_buffer

keyboard_clear_buffer ==
  ClearRing /\ UNCHANGED <<keyboard_flags, reset, held, got>>

\* The clearing turns interrupts on again, so keys may come before the flags go.
keyboard_reset ==
  \/ /\ reset = "done" /\ reset' = "flags"
     /\ ClearRing /\ UNCHANGED <<keyboard_flags, held, got>>
  \/ /\ reset = "flags" /\ reset' = "done"
     /\ keyboard_flags' = {} /\ UNCHANGED <<ringVars, held, got, clears>>

KeyboardNext ==
  \/ keyboard_interrupt_handler
  \/ keyboard_getchar
  \/ keyboard_clear_buffer
  \/ keyboard_reset

KeyboardSpec == KeyboardInit /\ [][KeyboardNext]_keyboardVars

-----------------------------------------------------------------------------
(* What the driver promises.                                               *)

\* The characters between buffer_start and buffer_end, oldest first.
Pending ==
  [i \in 1 .. (buffer_end - buffer_start) % RING_SIZE |->
     keyboard_buffer[(buffer_start + i - 1) % RING_SIZE]]

Queue == INSTANCE KeyQueue WITH
  Cap <- RING_SIZE - 1, QChar <- Char, QNul <- NUL, queue <- Pending

\* The ring is a first-in first-out queue of RING_SIZE - 1 characters: nothing
\* is duplicated, reordered or overwritten when an index wraps or the ring fills.
ImplementsQueue == Queue!QueueSpec

\* No modifier sticks: a flag is set only while one of its keys is down.
NoStuckModifier ==
  \A k \in Modifier :
    ModifierFlag[k] \in keyboard_flags =>
      \E h \in held : ModifierFlag[h] = ModifierFlag[k]
=============================================================================
