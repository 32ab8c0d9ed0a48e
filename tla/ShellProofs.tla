---------------------------- MODULE ShellProofs ----------------------------
(***************************************************************************)
(* TLAPS proofs about the keyboard driver, the screen and the command loop *)
(* between them: the ring implements a bounded first-in first-out queue,   *)
(* the screen shows the line that will be run, and the arguments are its   *)
(* words, for every size of ring, line and screen.                         *)
(***************************************************************************)
EXTENDS Shell, NatRecursion, SequenceTheorems, FiniteSetTheorems, TLAPS

-----------------------------------------------------------------------------
(* The ring of the keyboard driver.                                        *)

\* The arithmetic of an index that moves once past the end of the ring.
LEMMA Wrap ==
  /\ \A x \in 0 .. RING_SIZE - 1 : x % RING_SIZE = x
  /\ \A x \in RING_SIZE .. 2 * RING_SIZE - 1 : x % RING_SIZE = x - RING_SIZE
  /\ \A x \in 1 - RING_SIZE .. -1 : x % RING_SIZE = x + RING_SIZE
<1>1. \A x \in 0 .. RING_SIZE - 1 : x % RING_SIZE = x
  BY KeyboardAssumption
<1>2. \A x \in RING_SIZE .. 2 * RING_SIZE - 1 : x % RING_SIZE = x - RING_SIZE
  BY KeyboardAssumption
<1>3. \A x \in 1 - RING_SIZE .. -1 : x % RING_SIZE = x + RING_SIZE
  BY KeyboardAssumption
<1> QED BY <1>1, <1>2, <1>3

\* The next index of the ring.
LEMMA NextSlot ==
  ASSUME NEW s \in Slot
  PROVE  /\ (s + 1) % RING_SIZE \in Slot
         /\ (s + 1) % RING_SIZE = IF s + 1 = RING_SIZE THEN 0 ELSE s + 1
BY Wrap, KeyboardAssumption DEF Slot

\* How far index e is ahead of index s.
LEMMA Distance ==
  ASSUME NEW s \in Slot, NEW e \in Slot
  PROVE  /\ (e - s) % RING_SIZE \in 0 .. RING_SIZE - 1
         /\ (e - s) % RING_SIZE = IF s <= e THEN e - s ELSE e - s + RING_SIZE
BY Wrap, KeyboardAssumption DEF Slot

LEMMA CharsAreTyped ==
  ASSUME NEW k \in CharKey
  PROVE  keyboard_scancode_to_ascii(k) \in Char \cup {NUL}
<1>1. keyboard_map_normal[k] \in Char \cup {NUL}
  BY DEF CharKey, keyboard_map_normal, Char
<1>2. keyboard_map_shift[k] \in Char \cup {NUL}
  BY <1>1 DEF CharKey, keyboard_map_shift, keyboard_map_normal, Char
<1>3. "^A" \in Char
  BY DEF Char
<1> QED BY <1>1, <1>2, <1>3 DEF keyboard_scancode_to_ascii

\* The part of the type invariant that describes the ring: the characters it
\* holds between the two indices are characters, the rest does not matter.
RingTypes ==
  /\ keyboard_buffer \in [Slot -> Char \cup {NUL}]
  /\ buffer_start \in Slot
  /\ buffer_end \in Slot

Count == (buffer_end - buffer_start) % RING_SIZE

LEMMA CountIs ==
  ASSUME RingTypes
  PROVE  /\ Count \in 0 .. RING_SIZE - 1
         /\ Count = IF buffer_start <= buffer_end THEN buffer_end - buffer_start
                    ELSE buffer_end - buffer_start + RING_SIZE
BY Distance DEF RingTypes, Count

-----------------------------------------------------------------------------
(* The sequence of pending characters under each operation on the ring.    *)

At(i) == keyboard_buffer[(buffer_start + i - 1) % RING_SIZE]

LEMMA PendingIsSeq ==
  ASSUME RingTypes
  PROVE  /\ Pending \in Seq(Char \cup {NUL})
         /\ Len(Pending) = Count
         /\ \A i \in 1 .. Count : Pending[i] = At(i)
<1>1. Count \in Nat
  BY CountIs
<1>2. \A i \in 1 .. Count : (buffer_start + i - 1) % RING_SIZE \in Slot
  BY CountIs, Wrap, KeyboardAssumption DEF RingTypes, Slot
<1>3. \A i \in 1 .. Count : At(i) \in Char \cup {NUL}
  BY <1>2 DEF At, RingTypes
<1>4. Pending = [i \in 1 .. Count |-> At(i)]
  BY DEF Pending, Count, At
<1> QED BY <1>1, <1>3, <1>4

LEMMA StoreAppends ==
  ASSUME RingTypes, NEW c \in Char, Store(c), ~keyboard_is_buffer_full
  PROVE  /\ RingTypes'
         /\ Len(Pending) < RING_SIZE - 1
         /\ Pending' = Append(Pending, c)
<1> USE KeyboardAssumption DEF Slot
<1>1. /\ keyboard_buffer' = [keyboard_buffer EXCEPT ![buffer_end] = c]
      /\ buffer_end' = (buffer_end + 1) % RING_SIZE
      /\ buffer_start' = buffer_start
  BY DEF Store
<1>2. /\ buffer_end' \in Slot
      /\ buffer_end' = IF buffer_end + 1 = RING_SIZE THEN 0 ELSE buffer_end + 1
  BY <1>1, NextSlot DEF RingTypes
<1>3. RingTypes'
  BY <1>1, <1>2 DEF RingTypes
<1>4. buffer_end' # buffer_start
  BY <1>1 DEF keyboard_is_buffer_full
<1>5. Count' = Count + 1 /\ Count \in 0 .. RING_SIZE - 2
  <2>1. Count' = IF buffer_start' <= buffer_end' THEN buffer_end' - buffer_start'
                 ELSE buffer_end' - buffer_start' + RING_SIZE
    <3>1. buffer_end' \in Slot /\ buffer_start' \in Slot
      BY <1>3 DEF RingTypes
    <3> QED BY <3>1, Distance DEF Count
  <2>2. Count = IF buffer_start <= buffer_end THEN buffer_end - buffer_start
                ELSE buffer_end - buffer_start + RING_SIZE
    BY CountIs
  <2> QED BY <1>1, <1>2, <1>4, <2>1, <2>2 DEF RingTypes
<1>6. \A i \in 1 .. Count : At(i)' = At(i)
  <2> SUFFICES ASSUME NEW i \in 1 .. Count
               PROVE  At(i)' = At(i)
    OBVIOUS
  <2> DEFINE s == (buffer_start + i - 1) % RING_SIZE
  <2>1. s = IF buffer_start + i - 1 < RING_SIZE THEN buffer_start + i - 1
            ELSE buffer_start + i - 1 - RING_SIZE
    BY <1>5, Wrap DEF RingTypes
  <2>2. s \in Slot /\ s # buffer_end
    BY <1>5, <2>1, CountIs DEF RingTypes
  <2> QED BY <1>1, <2>2 DEF At, RingTypes
<1>7. ASSUME NEW n \in Nat, n = Count + 1
      PROVE  At(n)' = c
  <2>1. (buffer_start + n - 1) % RING_SIZE = buffer_end
    <3>1. buffer_start + n - 1 = IF buffer_start <= buffer_end THEN buffer_end
                                 ELSE buffer_end + RING_SIZE
      BY <1>7, CountIs DEF RingTypes
    <3>2. CASE buffer_start <= buffer_end
      BY <3>1, <3>2, Wrap DEF RingTypes
    <3>3. CASE ~(buffer_start <= buffer_end)
      <4>1. buffer_end + RING_SIZE \in RING_SIZE .. 2 * RING_SIZE - 1
        BY DEF RingTypes
      <4> QED BY <3>1, <3>3, <4>1, Wrap DEF RingTypes
    <3> QED BY <3>2, <3>3
  <2>2. keyboard_buffer'[buffer_end] = c
    BY <1>1 DEF RingTypes
  <2> QED BY <1>1, <2>1, <2>2 DEF At
<1>8. Pending' = [i \in 1 .. Count + 1 |-> IF i = Count + 1 THEN c ELSE Pending[i]]
  <2>1. Pending' = [i \in 1 .. Count + 1 |-> At(i)']
    BY <1>5 DEF Pending, Count, At
  <2>2. \A i \in 1 .. Count + 1 : At(i)' = IF i = Count + 1 THEN c ELSE Pending[i]
    BY <1>5, <1>6, <1>7, PendingIsSeq
  <2> QED BY <2>1, <2>2
<1>9. Pending' = Append(Pending, c)
  <2> DEFINE C == Char \cup {NUL}
  <2>1. Pending \in Seq(C) /\ Len(Pending) = Count /\ c \in C
    BY PendingIsSeq
  <2>2. /\ Append(Pending, c) \in Seq(C)
        /\ Len(Append(Pending, c)) = Count + 1
        /\ \A i \in 1 .. Count + 1 :
             Append(Pending, c)[i] = IF i = Count + 1 THEN c ELSE Pending[i]
    BY <1>5, <2>1, AppendProperties
  <2>3. /\ Pending' \in Seq(C) /\ Len(Pending') = Count + 1
        /\ \A i \in 1 .. Count + 1 :
             Pending'[i] = IF i = Count + 1 THEN c ELSE Pending[i]
    BY <1>5, <1>8, <2>1, ElementOfSeq
  <2> HIDE DEF C
  <2> QED BY <2>2, <2>3, SeqEqual
<1> QED BY <1>3, <1>5, <1>9, PendingIsSeq

LEMMA GetcharTakesHead ==
  ASSUME RingTypes, keyboard_getchar, ~keyboard_is_buffer_empty
  PROVE  /\ RingTypes'
         /\ Pending # << >>
         /\ got' = Head(Pending)
         /\ Pending' = Tail(Pending)
<1> USE KeyboardAssumption DEF Slot
<1>1. /\ got' = keyboard_buffer[buffer_start]
      /\ buffer_start' = (buffer_start + 1) % RING_SIZE
      /\ keyboard_buffer' = keyboard_buffer /\ buffer_end' = buffer_end
  BY DEF keyboard_getchar
<1>2. /\ buffer_start' \in Slot
      /\ buffer_start' = IF buffer_start + 1 = RING_SIZE THEN 0 ELSE buffer_start + 1
  BY <1>1, NextSlot DEF RingTypes
<1>3. RingTypes'
  BY <1>1, <1>2 DEF RingTypes
<1>4. Count' = Count - 1 /\ Count \in 1 .. RING_SIZE - 1
  <2>1. Count' = IF buffer_start' <= buffer_end' THEN buffer_end' - buffer_start'
                 ELSE buffer_end' - buffer_start' + RING_SIZE
    <3>1. buffer_end' \in Slot /\ buffer_start' \in Slot
      BY <1>3 DEF RingTypes
    <3> QED BY <3>1, Distance DEF Count
  <2>2. Count = IF buffer_start <= buffer_end THEN buffer_end - buffer_start
                ELSE buffer_end - buffer_start + RING_SIZE
    BY CountIs
  <2> QED BY <1>1, <1>2, <2>1, <2>2 DEF RingTypes, keyboard_is_buffer_empty
<1>5. \A i \in 1 .. Count - 1 : At(i)' = At(i + 1)
  <2> SUFFICES ASSUME NEW i \in 1 .. Count - 1
               PROVE  At(i)' = At(i + 1)
    OBVIOUS
  <2>1. (buffer_start' + i - 1) % RING_SIZE = (buffer_start + (i + 1) - 1) % RING_SIZE
    <3>1. CASE buffer_start + 1 < RING_SIZE
      BY <1>2, <1>4, <3>1 DEF RingTypes
    <3>2. CASE buffer_start + 1 = RING_SIZE
      <4>1. buffer_start' + i - 1 = i - 1 /\ buffer_start + (i + 1) - 1 = RING_SIZE + (i - 1)
        BY <1>2, <1>4, <3>2 DEF RingTypes
      <4>2. i - 1 \in 0 .. RING_SIZE - 1
            /\ RING_SIZE + (i - 1) \in RING_SIZE .. 2 * RING_SIZE - 1
        BY <1>4
      <4> QED BY <4>1, <4>2, Wrap
    <3> QED BY <3>1, <3>2 DEF RingTypes
  <2> QED BY <1>1, <2>1 DEF At
<1>6. Pending' = [i \in 1 .. Count - 1 |-> Pending[i + 1]]
  <2>1. Pending' = [i \in 1 .. Count - 1 |-> At(i)']
    BY <1>4 DEF Pending, Count, At
  <2>2. \A i \in 1 .. Count - 1 : At(i)' = Pending[i + 1]
    BY <1>4, <1>5, PendingIsSeq
  <2> QED BY <2>1, <2>2
<1> DEFINE C == Char \cup {NUL}
<1>7. Pending \in Seq(C) /\ Len(Pending) = Count /\ Pending # << >>
  BY <1>4, PendingIsSeq, EmptySeq
<1>8. got' = Head(Pending)
  <2>1. Pending[1] = At(1)
    BY <1>4, PendingIsSeq
  <2>2. (buffer_start + 1 - 1) % RING_SIZE = buffer_start
    BY Wrap DEF RingTypes
  <2> QED BY <1>1, <1>7, <2>1, <2>2 DEF At
<1>9. Pending' = Tail(Pending)
  <2>1. /\ Tail(Pending) \in Seq(C) /\ Len(Tail(Pending)) = Count - 1
        /\ \A i \in 1 .. Count - 1 : Tail(Pending)[i] = Pending[i + 1]
    BY <1>4, <1>7, HeadTailProperties
  <2>2. \A i \in 1 .. Count - 1 : Pending[i + 1] \in C
    BY <1>4, <1>7, ElementOfSeq
  <2>3. Pending' \in Seq(C) /\ Len(Pending') = Count - 1
        /\ \A i \in 1 .. Count - 1 : Pending'[i] = Pending[i + 1]
    BY <1>4, <1>6, <2>2
  <2> HIDE DEF C
  <2> QED BY <2>1, <2>3, SeqEqual
<1> QED BY <1>3, <1>7, <1>8, <1>9

-----------------------------------------------------------------------------
(* The refinement.                                                         *)

LEMMA ClearEmpties ==
  ASSUME RingTypes, ClearRing
  PROVE  RingTypes' /\ Pending' = << >>
<1>1. buffer_start' = 0 /\ buffer_end' = 0 /\ keyboard_buffer' = keyboard_buffer
  BY DEF ClearRing
<1>2. (0 - 0) % RING_SIZE = 0
  BY KeyboardAssumption
<1>3. Pending' = [i \in 1 .. 0 |-> keyboard_buffer[(0 + i - 1) % RING_SIZE]]
  BY <1>1, <1>2 DEF Pending
<1> QED BY <1>1, <1>3, KeyboardAssumption DEF RingTypes, Slot

LEMMA UnchangedRing ==
  ASSUME RingTypes, UNCHANGED ringVars
  PROVE  RingTypes' /\ Pending' = Pending
BY DEF ringVars, RingTypes, Pending

LEMMA EmptyRing ==
  ASSUME RingTypes, keyboard_is_buffer_empty
  PROVE  Pending = << >>
<1>1. Count = 0
  BY CountIs, KeyboardAssumption DEF keyboard_is_buffer_empty, RingTypes, Slot
<1> QED BY <1>1, PendingIsSeq, EmptySeq

\* Every step of the driver is a step of the queue or leaves it alone.
LEMMA StepRefines ==
  ASSUME RingTypes, [KeyboardNext]_keyboardVars
  PROVE  RingTypes' /\ [Queue!QueueNext]_(Queue!queueVars)
<1> USE DEF Queue!QueueNext, Queue!queueVars
<1>1. CASE UNCHANGED keyboardVars
  BY <1>1, UnchangedRing DEF keyboardVars
<1>2. ASSUME NEW k \in Keys,
             PressModifier(k) \/ ReleaseModifier(k) \/ PressToggle(k)
      PROVE  RingTypes' /\ UNCHANGED <<Pending, got, clears>>
  BY <1>2, UnchangedRing DEF PressModifier, ReleaseModifier, PressToggle
<1>3. ASSUME NEW k \in Keys, PressChar(k)
      PROVE  RingTypes' /\ [Queue!QueueNext]_(Queue!queueVars)
  <2> DEFINE c == keyboard_scancode_to_ascii(k)
  <2>1. k \in CharKey /\ got' = got /\ clears' = clears /\ c \in Char \cup {NUL}
    BY <1>3, CharsAreTyped DEF PressChar
  <2>2. CASE c = NUL \/ keyboard_is_buffer_full
    <3>1. UNCHANGED ringVars
      BY <1>3, <2>2 DEF PressChar, Store
    <3> QED BY <2>1, <3>1, UnchangedRing
  <2>3. CASE c # NUL /\ ~keyboard_is_buffer_full
    <3>1. c \in Char /\ Store(c)
      BY <1>3, <2>1, <2>3 DEF PressChar
    <3>2. RingTypes' /\ Len(Pending) < RING_SIZE - 1 /\ Pending' = Append(Pending, c)
      BY <2>3, <3>1, StoreAppends
    <3>3. Queue!Put(c)
      BY <2>1, <3>2 DEF Queue!Put
    <3> QED BY <3>1, <3>2, <3>3
  <2> QED BY <2>2, <2>3
<1>4. CASE keyboard_getchar
  <2>1. CASE keyboard_is_buffer_empty
    <3>1. UNCHANGED ringVars /\ got' = NUL /\ clears' = clears
      BY <1>4, <2>1 DEF keyboard_getchar, ringVars
    <3> QED BY <2>1, <3>1, EmptyRing, UnchangedRing DEF Queue!GetNothing
  <2>2. CASE ~keyboard_is_buffer_empty
    <3>1. clears' = clears
      BY <1>4 DEF keyboard_getchar
    <3> QED BY <1>4, <2>2, <3>1, GetcharTakesHead DEF Queue!Get
  <2> QED BY <2>1, <2>2
<1>5. CASE ClearRing /\ UNCHANGED got
  BY <1>5, ClearEmpties DEF ClearRing, Queue!Clear
<1>6. CASE UNCHANGED <<ringVars, got, clears>>
  BY <1>6, UnchangedRing
<1>7. CASE keyboard_clear_buffer \/ keyboard_reset
  BY <1>5, <1>6, <1>7 DEF keyboard_clear_buffer, keyboard_reset
<1> QED
  BY <1>1, <1>2, <1>3, <1>4, <1>7 DEF KeyboardNext, keyboard_interrupt_handler

\* The 256-slot ring of keyboard.c, and a ring of any other size, is a FIFO queue
\* of one character less: keys come out once, unchanged and in order.
THEOREM RingIsQueue == KeyboardSpec => ImplementsQueue
<1>1. KeyboardInit => RingTypes /\ Queue!QueueInit
  <2> SUFFICES ASSUME KeyboardInit PROVE RingTypes /\ Queue!QueueInit
    OBVIOUS
  <2>1. RingTypes
    BY KeyboardAssumption DEF KeyboardInit, RingTypes, Slot
  <2>2. Pending = << >>
    BY <2>1, EmptyRing DEF KeyboardInit, keyboard_is_buffer_empty
  <2> QED BY <2>1, <2>2 DEF KeyboardInit, Queue!QueueInit
<1>2. RingTypes /\ [KeyboardNext]_keyboardVars =>
        RingTypes' /\ [Queue!QueueNext]_(Queue!queueVars)
  BY StepRefines
<1> QED BY <1>1, <1>2, PTL DEF KeyboardSpec, ImplementsQueue, Queue!QueueSpec

\* Shift, Ctrl and Alt never stick: whatever order the keys go down and up in, a
\* flag of keyboard_flags is set only while one of its keys is down.
THEOREM ModifiersDoNotStick == KeyboardSpec => []NoStuckModifier
<1>1. KeyboardInit => NoStuckModifier
  BY DEF KeyboardInit, NoStuckModifier
<1>2. NoStuckModifier /\ [KeyboardNext]_keyboardVars => NoStuckModifier'
  <2> SUFFICES ASSUME NoStuckModifier, [KeyboardNext]_keyboardVars
               PROVE  NoStuckModifier'
    OBVIOUS
  <2>1. CASE UNCHANGED <<keyboard_flags, held>>
    BY <2>1 DEF NoStuckModifier
  <2>2. ASSUME NEW k \in Keys, PressModifier(k)
        PROVE  NoStuckModifier'
    BY <2>2 DEF PressModifier, NoStuckModifier
  <2>3. ASSUME NEW k \in Keys, ReleaseModifier(k)
        PROVE  NoStuckModifier'
    BY <2>3 DEF ReleaseModifier, NoStuckModifier
  <2>4. ASSUME NEW k \in Keys, PressToggle(k)
        PROVE  NoStuckModifier'
    <3>1. \A m \in Modifier : ModifierFlag[m] \notin Toggle
      BY DEF ModifierFlag, Modifier, Toggle
    <3> QED BY <2>4, <3>1 DEF PressToggle, NoStuckModifier
  <2>5. CASE keyboard_reset
    BY <2>1, <2>5 DEF keyboard_reset, NoStuckModifier
  <2>6. CASE keyboard_getchar \/ keyboard_clear_buffer \/ UNCHANGED keyboardVars
    BY <2>1, <2>6 DEF keyboard_getchar, keyboard_clear_buffer, keyboardVars
  <2>7. ASSUME NEW k \in Keys, PressChar(k)
        PROVE  NoStuckModifier'
    BY <2>1, <2>7 DEF PressChar
  <2> QED BY <2>2, <2>3, <2>4, <2>5, <2>6, <2>7 DEF KeyboardNext, keyboard_interrupt_handler
<1> QED BY <1>1, <1>2, PTL DEF KeyboardSpec

LEMMA KeyboardTypesStep ==
  ASSUME KeyboardTypeOK, [KeyboardNext]_keyboardVars
  PROVE  KeyboardTypeOK'
<1>1. RingTypes'
  BY StepRefines DEF KeyboardTypeOK, RingTypes
<1>2. \A k \in Modifier : ModifierFlag[k] \in Flag
  BY DEF Modifier, ModifierFlag, Flag
<1>3. keyboard_flags' \subseteq Flag /\ held' \subseteq Modifier
  <2>1. ASSUME NEW k \in Keys,
               PressModifier(k) \/ ReleaseModifier(k) \/ PressToggle(k) \/ PressChar(k)
        PROVE  keyboard_flags' \subseteq Flag /\ held' \subseteq Modifier
    BY <1>2, <2>1 DEF PressModifier, ReleaseModifier, PressToggle, PressChar,
                      KeyboardTypeOK, Flag
  <2>2. CASE \/ keyboard_getchar \/ keyboard_clear_buffer \/ keyboard_reset
             \/ UNCHANGED keyboardVars
    BY <2>2 DEF keyboard_getchar, keyboard_clear_buffer, keyboard_reset, keyboardVars,
                KeyboardTypeOK
  <2> QED BY <2>1, <2>2 DEF KeyboardNext, keyboard_interrupt_handler
<1>4. got' \in Char \cup {NUL}
  <2>1. CASE keyboard_getchar
    BY <2>1 DEF keyboard_getchar, KeyboardTypeOK
  <2>2. CASE ~keyboard_getchar
    BY <2>2 DEF KeyboardNext, keyboard_interrupt_handler, PressModifier, ReleaseModifier,
                PressToggle, PressChar, keyboard_clear_buffer, keyboard_reset,
                keyboardVars, KeyboardTypeOK
  <2> QED BY <2>1, <2>2
<1>5. clears' \in {0, 1} /\ reset' \in {"done", "flags"}
  BY DEF KeyboardNext, keyboard_interrupt_handler, PressModifier, ReleaseModifier,
         PressToggle, PressChar, keyboard_getchar, keyboard_clear_buffer, keyboard_reset,
         ClearRing, keyboardVars, KeyboardTypeOK
<1> QED BY <1>1, <1>3, <1>4, <1>5 DEF KeyboardTypeOK, RingTypes

\* The flags, the keys that are down and the last character keep their types, and both
\* indices of the ring stay in it, for a ring of every size.
THEOREM KeyboardTypeCorrect == KeyboardSpec => []KeyboardTypeOK
<1>1. KeyboardInit => KeyboardTypeOK
  BY KeyboardAssumption DEF KeyboardInit, KeyboardTypeOK, Slot
<1>2. KeyboardTypeOK /\ [KeyboardNext]_keyboardVars => KeyboardTypeOK'
  BY KeyboardTypesStep
<1> QED BY <1>1, <1>2, PTL DEF KeyboardSpec

-----------------------------------------------------------------------------
(* The screen.  A screen is blank from the cursor on: printk writes only   *)
(* at the cursor and goes forward, or goes back and wipes.                 *)

Screen == [x : 0 .. VIDEO_WIDTH - 1, y : 0 .. VIDEO_HEIGHT - 1, cells : [Cell -> Glyphs]]

BlankFrom(cells, n) == \A i \in Cell : i >= n => cells[i] = " "

OnScreen(d) == d \in Screen /\ BlankFrom(d.cells, Offset(d))

\* The offset of row y and the size of the screen; products are kept out of the
\* proofs that follow.
Row(y) == VIDEO_WIDTH * y
Area == VIDEO_WIDTH * VIDEO_HEIGHT

LEMMA Rows ==
  /\ VIDEO_WIDTH \in Nat /\ VIDEO_WIDTH > 1 /\ VIDEO_HEIGHT \in Nat /\ VIDEO_HEIGHT > 1
  /\ Area \in Nat /\ Area = Row(VIDEO_HEIGHT) /\ Row(VIDEO_HEIGHT - 1) = Area - VIDEO_WIDTH
  /\ Row(0) = 0
  /\ \A a \in Nat : Row(a) \in Nat /\ Row(a + 1) = Row(a) + VIDEO_WIDTH
  /\ \A a, b \in Nat : a <= b => Row(a) <= Row(b)
  /\ Cell = 0 .. Area - 1
  /\ \A d : Offset(d) = Row(d.y) + d.x
<1>1. VIDEO_WIDTH \in Nat \ {0, 1} /\ VIDEO_HEIGHT \in Nat \ {0, 1}
  BY ConsoleAssumption
<1>2. \A a \in Nat : Row(a) \in Nat /\ Row(a + 1) = Row(a) + VIDEO_WIDTH
  BY <1>1 DEF Row
<1>4. ASSUME NEW a \in Nat, NEW b \in Nat, a <= b
      PROVE  Row(a) <= Row(b)
  <2>1. PICK k \in Nat : b = a + k
    <3>1. b - a \in Nat /\ b = a + (b - a)
      BY <1>4
    <3> QED BY <3>1
  <2>2. Row(b) = Row(a) + Row(k)
    BY <1>1, <2>1 DEF Row
  <2> QED BY <1>2, <2>2
<1>5. /\ Area \in Nat /\ Area = Row(VIDEO_HEIGHT) /\ Row(VIDEO_HEIGHT - 1) = Area - VIDEO_WIDTH
      /\ Row(0) = 0
  BY <1>1 DEF Row, Area
<1>6. /\ Cell = 0 .. Area - 1
      /\ \A d : Offset(d) = Row(d.y) + d.x
  BY DEF Cell, Area, Offset, Row
<1>7. VIDEO_WIDTH > 1 /\ VIDEO_HEIGHT > 1
  BY <1>1
<1> QED BY <1>1, <1>2, <1>4, <1>5, <1>6, <1>7

\* The cursor is always on a cell.
LEMMA CursorOnCell ==
  ASSUME NEW d \in Screen
  PROVE  /\ Offset(d) \in Cell
         /\ d = [x |-> d.x, y |-> d.y, cells |-> d.cells]
         /\ d.x \in 0 .. VIDEO_WIDTH - 1 /\ d.y \in 0 .. VIDEO_HEIGHT - 1
         /\ d.cells \in [Cell -> Glyphs]
         /\ Offset(d) = Row(d.y) + d.x /\ Row(d.y) \in Nat
         /\ Row(d.y + 1) = Row(d.y) + VIDEO_WIDTH
         /\ Row(d.y + 1) <= Area
<1>1. /\ d = [x |-> d.x, y |-> d.y, cells |-> d.cells] /\ d.cells \in [Cell -> Glyphs]
      /\ d.x \in 0 .. VIDEO_WIDTH - 1 /\ d.y \in 0 .. VIDEO_HEIGHT - 1
  BY DEF Screen
<1>2. /\ d.y \in Nat /\ d.y + 1 \in Nat /\ d.y + 1 <= VIDEO_HEIGHT
      /\ Offset(d) = Row(d.y) + d.x
  BY <1>1, Rows
<1>3. Row(d.y) \in Nat /\ Row(d.y + 1) = Row(d.y) + VIDEO_WIDTH /\ Row(d.y + 1) <= Area
  BY <1>2, Rows
<1>4. Offset(d) \in Cell
  <2>1. Cell = 0 .. Area - 1 /\ Area \in Nat /\ VIDEO_WIDTH \in Nat
    BY Rows
  <2>2. Offset(d) \in 0 .. Area - 1
    BY <1>1, <1>2, <1>3, <2>1
  <2> QED BY <2>1, <2>2
<1> QED BY <1>1, <1>2, <1>3, <1>4

\* The wrap and the scroll at the end of PrintChar.
Settled(a) ==
  LET wrapped == IF a.x >= VIDEO_WIDTH THEN [a EXCEPT !.x = 0, !.y = @ + 1] ELSE a
  IN  IF wrapped.y >= VIDEO_HEIGHT THEN next_line(wrapped) ELSE wrapped

Unsettled == [x : Nat, y : 0 .. VIDEO_HEIGHT, cells : [Cell -> Glyphs]]

\* Where the cursor is after the wrap.
Wrapped(a) == IF a.x >= VIDEO_WIDTH THEN Row(a.y + 1) ELSE Row(a.y) + a.x

ScrolledUp(cells) ==
  [i \in Cell |-> IF i + VIDEO_WIDTH \in Cell THEN cells[i + VIDEO_WIDTH] ELSE " "]

LEMMA Settles ==
  ASSUME NEW a \in Unsettled, a.y = VIDEO_HEIGHT => a.x = 0
  PROVE  /\ Settled(a) \in Screen
         /\ \/ /\ Wrapped(a) \in Cell
               /\ Offset(Settled(a)) = Wrapped(a) /\ Settled(a).cells = a.cells
            \/ /\ Wrapped(a) = Area
               /\ Offset(Settled(a)) = Area - VIDEO_WIDTH
               /\ Settled(a).cells = ScrolledUp(a.cells)
<1> DEFINE w == IF a.x >= VIDEO_WIDTH THEN [a EXCEPT !.x = 0, !.y = @ + 1] ELSE a
<1>1. /\ a = [x |-> a.x, y |-> a.y, cells |-> a.cells] /\ a.cells \in [Cell -> Glyphs]
      /\ a.x \in Nat /\ a.y \in 0 .. VIDEO_HEIGHT
  BY DEF Unsettled
<1>0. VIDEO_WIDTH \in Nat /\ VIDEO_WIDTH > 1 /\ VIDEO_HEIGHT \in Nat /\ VIDEO_HEIGHT > 1
  BY Rows
<1>2. /\ w.x \in 0 .. VIDEO_WIDTH - 1 /\ w.y \in 0 .. VIDEO_HEIGHT
      /\ w = [x |-> w.x, y |-> w.y, cells |-> a.cells]
      /\ w.y = VIDEO_HEIGHT => w.x = 0
      /\ Wrapped(a) = Row(w.y) + w.x
  <2>1. CASE a.x >= VIDEO_WIDTH
    <3>1. w = [x |-> 0, y |-> a.y + 1, cells |-> a.cells]
      BY <1>1, <2>1
    <3>2. a.y # VIDEO_HEIGHT
      BY <1>0, <1>1, <2>1
    <3> HIDE DEF w
    <3>3. w.x = 0 /\ w.y = a.y + 1 /\ w.cells = a.cells
      BY <3>1
    <3>4. Wrapped(a) = Row(w.y)
      BY <2>1, <3>3 DEF Wrapped
    <3>5. w.y \in Nat
      BY <1>1, <3>3
    <3>6. Row(w.y) \in Nat
      BY <3>5, Rows
    <3> QED BY <1>0, <1>1, <3>1, <3>2, <3>3, <3>4, <3>5, <3>6
  <2>2. CASE ~(a.x >= VIDEO_WIDTH)
    BY <1>0, <1>1, <2>2 DEF Wrapped
  <2> QED BY <2>1, <2>2
<1>3. Settled(a) = IF w.y >= VIDEO_HEIGHT THEN next_line(w) ELSE w
  BY DEF Settled
<1> HIDE DEF w
<1>6. w.cells = a.cells
  BY <1>2
<1>4. CASE w.y < VIDEO_HEIGHT
  <2>1. Settled(a) = w /\ w \in Screen
    BY <1>0, <1>1, <1>2, <1>3, <1>4 DEF Screen
  <2>2. Offset(w) = Wrapped(a) /\ Offset(w) \in Cell
    BY <1>2, <2>1, CursorOnCell
  <2> QED BY <1>6, <2>1, <2>2
<1>5. CASE w.y = VIDEO_HEIGHT
  <2>1. Wrapped(a) = Area
    BY <1>2, <1>5, Rows
  <2>2. Settled(a) = [x |-> 0, y |-> VIDEO_HEIGHT - 1, cells |-> ScrolledUp(a.cells)]
    <3>1. next_line(w) = [x |-> 0, y |-> VIDEO_HEIGHT - 1, cells |-> ScrolledUp(w.cells)]
      BY DEF next_line, ScrolledUp
    <3>2. Settled(a) = next_line(w)
      BY <1>0, <1>3, <1>5
    <3> QED BY <1>6, <3>1, <3>2
  <2>4. ScrolledUp(a.cells) \in [Cell -> Glyphs]
    <3>1. \A i \in Cell : a.cells[i] \in Glyphs
      BY <1>1
    <3>2. " " \in Glyphs
      BY ConsoleAssumption
    <3> QED BY <3>1, <3>2 DEF ScrolledUp
  <2>5. Settled(a) \in Screen
    BY <1>0, <2>2, <2>4 DEF Screen
  <2>6. Settled(a).x = 0 /\ Settled(a).y = VIDEO_HEIGHT - 1 /\ Settled(a).cells = ScrolledUp(a.cells)
    BY <2>2
  <2>7. Offset(Settled(a)) = Area - VIDEO_WIDTH
    <3>1. Offset(Settled(a)) = Row(VIDEO_HEIGHT - 1) + 0
      BY <2>6, Rows
    <3>2. Row(VIDEO_HEIGHT - 1) = Area - VIDEO_WIDTH /\ Area \in Nat
      BY Rows
    <3> QED BY <1>0, <3>1, <3>2
  <2> QED BY <2>1, <2>5, <2>6, <2>7
<1>7. w.y < VIDEO_HEIGHT \/ w.y = VIDEO_HEIGHT
  BY <1>0, <1>2
<1> QED BY <1>4, <1>5, <1>7

LEMMA SettlesBlank ==
  ASSUME NEW a \in Unsettled, a.y = VIDEO_HEIGHT => a.x = 0, BlankFrom(a.cells, Wrapped(a))
  PROVE  OnScreen(Settled(a))
<1>1. Settled(a) \in Screen
  BY Settles
<1>2. CASE Offset(Settled(a)) = Wrapped(a) /\ Settled(a).cells = a.cells
  BY <1>1, <1>2 DEF OnScreen, BlankFrom
<1>3. CASE Offset(Settled(a)) = Area - VIDEO_WIDTH /\ Settled(a).cells = ScrolledUp(a.cells)
  <2>1. ASSUME NEW i \in Cell, i >= Area - VIDEO_WIDTH
        PROVE  ScrolledUp(a.cells)[i] = " "
    <3>1. i + VIDEO_WIDTH \notin Cell
      BY <2>1, Rows
    <3> QED BY <3>1 DEF ScrolledUp
  <2> QED BY <1>1, <1>3, <2>1 DEF OnScreen, BlankFrom
<1> QED BY <1>2, <1>3, Settles

\* The switch of PrintChar, by cases.
Acted(d, c) ==
  CASE c = "LF" -> [full_remainder_char(d) EXCEPT !.x = 0, !.y = @ + 1]
    [] c = "BS" -> Backspace(d)
    [] c = "HT" -> [d EXCEPT !.x = ((@ + 8) \div 8) * 8]
    [] OTHER    -> [put_char(d, c) EXCEPT !.x = @ + 1]

LEMMA SettlesActed == \A d, c : PrintChar(d, c) = Settled(Acted(d, c))
BY DEF PrintChar, Settled, Acted

LEMMA ActsBy ==
  ASSUME NEW d, NEW c
  PROVE  /\ c = "LF" => Acted(d, c) = [full_remainder_char(d) EXCEPT !.x = 0, !.y = @ + 1]
         /\ c = "BS" => Acted(d, c) = Backspace(d)
         /\ c = "HT" => Acted(d, c) = [d EXCEPT !.x = ((@ + 8) \div 8) * 8]
         /\ c \notin Control => Acted(d, c) = [put_char(d, c) EXCEPT !.x = @ + 1]
<1>1. "LF" # "BS" /\ "LF" # "HT" /\ "BS" # "HT"
  OBVIOUS
<1>2. CASE c = "LF"
  BY <1>1, <1>2 DEF Acted, Control
<1>3. CASE c = "BS"
  BY <1>1, <1>3 DEF Acted, Control
<1>4. CASE c = "HT"
  BY <1>1, <1>4 DEF Acted, Control
<1>5. CASE c \notin Control
  BY <1>5 DEF Acted, Control
<1> QED BY <1>2, <1>3, <1>4, <1>5 DEF Control

LEMMA ScreenSize ==
  /\ VIDEO_WIDTH \in Nat /\ VIDEO_WIDTH > 1 /\ VIDEO_HEIGHT \in Nat /\ VIDEO_HEIGHT > 1
  /\ Area \in Nat /\ Cell = 0 .. Area - 1
BY Rows

\* A character is put at the cursor and the cursor moves on; behind the last cell
\* the screen moves up by a row first.
LEMMA PrintsGlyph ==
  ASSUME NEW d, OnScreen(d), NEW c \in Glyphs
  PROVE  /\ OnScreen(PrintChar(d, c))
         /\ LET e == PrintChar(d, c)
                cells == [d.cells EXCEPT ![Offset(d)] = c]
            IN  \/ /\ Offset(d) + 1 \in Cell
                   /\ Offset(e) = Offset(d) + 1 /\ e.cells = cells
                \/ /\ Offset(d) + 1 = Area
                   /\ Offset(e) = Area - VIDEO_WIDTH /\ e.cells = ScrolledUp(cells)
<1>d. d \in Screen /\ BlankFrom(d.cells, Offset(d))
  BY DEF OnScreen
<1>D. /\ Offset(d) \in Cell /\ Offset(d) = Row(d.y) + d.x /\ Row(d.y) \in Nat
      /\ d = [x |-> d.x, y |-> d.y, cells |-> d.cells]
      /\ d.x \in 0 .. VIDEO_WIDTH - 1 /\ d.y \in 0 .. VIDEO_HEIGHT - 1
      /\ d.cells \in [Cell -> Glyphs]
      /\ Row(d.y + 1) = Row(d.y) + VIDEO_WIDTH
  BY <1>d, CursorOnCell
<1> DEFINE cells == [d.cells EXCEPT ![Offset(d)] = c]
           a == [x |-> d.x + 1, y |-> d.y, cells |-> cells]
<1>1. PrintChar(d, c) = Settled(a)
  <2>1. c \notin Control
    BY ConsoleAssumption
  <2>2. [put_char(d, c) EXCEPT !.x = @ + 1] = a
    <3>1. put_char(d, c) = [x |-> d.x, y |-> d.y, cells |-> cells]
      BY <1>D DEF put_char
    <3> HIDE DEF cells
    <3> QED BY <3>1
  <2> HIDE DEF a
  <2> QED BY <2>1, <2>2, ActsBy, SettlesActed
<1>2. cells \in [Cell -> Glyphs]
  BY <1>D
<1>3. \A i \in Cell : i # Offset(d) => cells[i] = d.cells[i]
  BY <1>D
<1> HIDE DEF cells
<1>4. a \in Unsettled /\ a.x = d.x + 1 /\ a.y = d.y /\ a.cells = cells /\ a.y # VIDEO_HEIGHT
  BY <1>2, <1>D, ScreenSize DEF Unsettled
<1>5. Wrapped(a) = Offset(d) + 1
  <2> HIDE DEF a
  <2>1. VIDEO_WIDTH \in Nat
    BY Rows
  <2>2. Wrapped(a) = IF d.x + 1 >= VIDEO_WIDTH THEN Row(d.y + 1) ELSE Row(d.y) + (d.x + 1)
    BY <1>4 DEF Wrapped
  <2> QED BY <1>D, <2>1, <2>2
<1>6. BlankFrom(a.cells, Wrapped(a))
  <2>1. \A i \in Cell : i >= Offset(d) + 1 => i # Offset(d) /\ i >= Offset(d)
    BY <1>D, ScreenSize
  <2> QED BY <1>d, <1>3, <1>4, <1>5, <2>1 DEF BlankFrom
<1> HIDE DEF a
<1>7. OnScreen(Settled(a))
  BY <1>4, <1>6, SettlesBlank
<1>8. \/ /\ Wrapped(a) \in Cell
         /\ Offset(Settled(a)) = Wrapped(a) /\ Settled(a).cells = a.cells
      \/ /\ Wrapped(a) = Area
         /\ Offset(Settled(a)) = Area - VIDEO_WIDTH
         /\ Settled(a).cells = ScrolledUp(a.cells)
  BY <1>4, Settles
<1> QED BY <1>1, <1>4, <1>5, <1>7, <1>8 DEF cells

\* A line feed goes to the start of a row.
LEMMA PrintsLineFeed ==
  ASSUME NEW d, OnScreen(d)
  PROVE  /\ OnScreen(PrintChar(d, "LF"))
         /\ PrintChar(d, "LF").x = 0
<1>d. d \in Screen /\ BlankFrom(d.cells, Offset(d))
  BY DEF OnScreen
<1>D. /\ Offset(d) \in Cell /\ Offset(d) = Row(d.y) + d.x /\ Row(d.y) \in Nat
      /\ d = [x |-> d.x, y |-> d.y, cells |-> d.cells]
      /\ d.x \in 0 .. VIDEO_WIDTH - 1 /\ d.y \in 0 .. VIDEO_HEIGHT - 1
      /\ d.cells \in [Cell -> Glyphs]
      /\ Row(d.y + 1) = Row(d.y) + VIDEO_WIDTH
  BY <1>d, CursorOnCell
<1>W. VIDEO_WIDTH \in Nat /\ VIDEO_WIDTH > 1 /\ VIDEO_HEIGHT \in Nat /\ VIDEO_HEIGHT > 1
  BY Rows
<1> DEFINE cells == [i \in Cell |-> IF i >= Offset(d) /\ i < VIDEO_WIDTH * (d.y + 1) THEN " "
                                    ELSE d.cells[i]]
           a == [x |-> 0, y |-> d.y + 1, cells |-> cells]
<1>1. PrintChar(d, "LF") = Settled(a)
  <2>1. full_remainder_char(d) = [x |-> d.x, y |-> d.y, cells |-> cells]
    <3>1. full_remainder_char(d) = [d EXCEPT !.cells = cells]
      BY DEF full_remainder_char
    <3> HIDE DEF cells
    <3> QED BY <1>D, <3>1
  <2>2. [full_remainder_char(d) EXCEPT !.x = 0, !.y = @ + 1] = a
    <3> HIDE DEF cells
    <3>1. PICK f : f = full_remainder_char(d)
      OBVIOUS
    <3>2. /\ f = [x |-> f.x, y |-> f.y, cells |-> f.cells]
          /\ f.y = d.y /\ f.cells = cells
      BY <2>1, <3>1
    <3>3. PICK g : g = [f EXCEPT !.x = 0, !.y = @ + 1]
      OBVIOUS
    <3>4. g = [x |-> 0, y |-> f.y + 1, cells |-> f.cells]
      BY <3>2, <3>3
    <3> QED BY <3>1, <3>2, <3>3, <3>4
  <2> HIDE DEF a
  <2> QED BY <2>2, ActsBy, SettlesActed
<1>2. cells \in [Cell -> Glyphs]
  <2>1. \A i \in Cell : d.cells[i] \in Glyphs
    BY <1>D
  <2>2. " " \in Glyphs
    BY ConsoleAssumption
  <2> QED BY <2>1, <2>2
<1>3. \A i \in Cell : cells[i] = " " \/ cells[i] = d.cells[i]
  OBVIOUS
<1> HIDE DEF cells
<1>4. a \in Unsettled /\ a.x = 0 /\ a.y = d.y + 1 /\ a.cells = cells
  BY <1>2, <1>D, <1>W DEF Unsettled
<1> HIDE DEF a
<1>5. Wrapped(a) = Offset(d) + (VIDEO_WIDTH - d.x)
  BY <1>4, <1>D, <1>W DEF Wrapped
<1>6. BlankFrom(a.cells, Wrapped(a))
  <2>1. \A i \in Cell : i >= Wrapped(a) => i >= Offset(d)
    BY <1>5, <1>D, ScreenSize
  <2> QED BY <1>d, <1>3, <1>4, <2>1 DEF BlankFrom
<1>7. OnScreen(Settled(a))
  BY <1>4, <1>6, SettlesBlank
<1>8. Settled(a).x = 0
  <2>1. ~(a.x >= VIDEO_WIDTH)
    BY <1>4, <1>W
  <2>2. next_line(a).x = 0
    BY DEF next_line
  <2> QED BY <1>4, <2>1, <2>2 DEF Settled
<1> QED BY <1>1, <1>7, <1>8

LEMMA OnScreenSettled ==
  ASSUME NEW a \in Screen
  PROVE  Settled(a) = a
<1>1. a.x \in 0 .. VIDEO_WIDTH - 1 /\ a.y \in 0 .. VIDEO_HEIGHT - 1
  BY CursorOnCell
<1>2. ~(a.x >= VIDEO_WIDTH) /\ ~(a.y >= VIDEO_HEIGHT)
  BY <1>1, ScreenSize
<1> QED BY <1>2 DEF Settled

\* Writing one cell of a screen whose cursor stands there.
LEMMA PutsAtCursor ==
  ASSUME NEW d \in Screen, NEW c \in Glyphs
  PROVE  /\ put_char(d, c) = [x |-> d.x, y |-> d.y, cells |-> [d.cells EXCEPT ![Offset(d)] = c]]
         /\ put_char(d, c) \in Screen
         /\ Offset(put_char(d, c)) = Offset(d)
<1>D. /\ Offset(d) \in Cell /\ d = [x |-> d.x, y |-> d.y, cells |-> d.cells]
      /\ d.x \in 0 .. VIDEO_WIDTH - 1 /\ d.y \in 0 .. VIDEO_HEIGHT - 1
      /\ d.cells \in [Cell -> Glyphs]
      /\ Offset(d) = Row(d.y) + d.x
  BY CursorOnCell
<1> DEFINE cells == [d.cells EXCEPT ![Offset(d)] = c]
<1>1. put_char(d, c) = [x |-> d.x, y |-> d.y, cells |-> cells]
  BY <1>D DEF put_char
<1>2. cells \in [Cell -> Glyphs]
  BY <1>D
<1> HIDE DEF cells
<1>3. put_char(d, c) \in Screen
  BY <1>1, <1>2, <1>D DEF Screen
<1>4. put_char(d, c).x = d.x /\ put_char(d, c).y = d.y
  BY <1>1
<1>5. Offset(put_char(d, c)) = Offset(d)
  BY <1>4 DEF Offset
<1> QED BY <1>1, <1>3, <1>5 DEF cells

\* A backspace wipes the cell before the cursor, at the end of the row above when
\* the cursor is in the first column.
LEMMA PrintsBackspace ==
  ASSUME NEW d, OnScreen(d)
  PROVE  /\ OnScreen(PrintChar(d, "BS"))
         /\ Offset(d) > 0 =>
              /\ Offset(PrintChar(d, "BS")) = Offset(d) - 1
              /\ PrintChar(d, "BS").cells = [d.cells EXCEPT ![Offset(d) - 1] = " "]
<1>d. d \in Screen /\ BlankFrom(d.cells, Offset(d))
  BY DEF OnScreen
<1>D. /\ Offset(d) \in Cell /\ Offset(d) = Row(d.y) + d.x /\ Row(d.y) \in Nat
      /\ d = [x |-> d.x, y |-> d.y, cells |-> d.cells]
      /\ d.x \in 0 .. VIDEO_WIDTH - 1 /\ d.y \in 0 .. VIDEO_HEIGHT - 1
      /\ d.cells \in [Cell -> Glyphs]
  BY <1>d, CursorOnCell
<1>B. " " \in Glyphs
  BY ConsoleAssumption
<1>1. PrintChar(d, "BS") = Settled(Backspace(d))
  BY ActsBy, SettlesActed
<1>2. ASSUME NEW b \in Screen, b.cells = d.cells, Offset(b) = Offset(d) - 1,
             Backspace(d) = put_char(b, " ")
      PROVE  /\ OnScreen(PrintChar(d, "BS"))
             /\ Offset(PrintChar(d, "BS")) = Offset(d) - 1
             /\ PrintChar(d, "BS").cells = [d.cells EXCEPT ![Offset(d) - 1] = " "]
  <2>1. PICK e : e = put_char(b, " ")
    OBVIOUS
  <2>2. /\ e = [x |-> b.x, y |-> b.y, cells |-> [b.cells EXCEPT ![Offset(b)] = " "]]
        /\ e \in Screen /\ Offset(e) = Offset(b)
    BY <1>B, <2>1, PutsAtCursor
  <2>3. PrintChar(d, "BS") = e
    BY <1>1, <1>2, <2>1, <2>2, OnScreenSettled
  <2>4. e.cells = [d.cells EXCEPT ![Offset(d) - 1] = " "]
    BY <1>2, <2>2
  <2>5. BlankFrom(e.cells, Offset(e))
    <3>1. ASSUME NEW i \in Cell, i >= Offset(d) - 1 PROVE e.cells[i] = " "
      <4>1. CASE i = Offset(d) - 1
        BY <1>D, <2>4, <4>1
      <4>2. CASE i # Offset(d) - 1
        <5>1. i >= Offset(d)
          BY <1>D, <3>1, <4>2, ScreenSize
        <5>2. d.cells[i] = " "
          BY <1>d, <5>1 DEF BlankFrom
        <5> QED BY <1>D, <2>4, <4>2, <5>2
      <4> QED BY <4>1, <4>2
    <3> QED BY <1>2, <2>2, <3>1 DEF BlankFrom
  <2> QED BY <1>2, <2>2, <2>3, <2>4, <2>5 DEF OnScreen
<1>3. CASE d.x > 0
  <2>1. PICK b : b = [d EXCEPT !.x = @ - 1]
    OBVIOUS
  <2>2. b = [x |-> d.x - 1, y |-> d.y, cells |-> d.cells]
    BY <1>D, <2>1
  <2>3. b.x = d.x - 1 /\ b.y = d.y /\ b.cells = d.cells
    BY <2>2
  <2>4. b \in Screen
    BY <1>3, <1>D, <2>2, ScreenSize DEF Screen
  <2>5. Offset(b) = Offset(d) - 1
    <3>1. Offset(b) = Row(d.y) + (d.x - 1)
      BY <2>3, Rows
    <3> QED BY <1>D, <3>1
  <2>6. Backspace(d) = put_char(b, " ")
    <3>1. ~(d.x = 0)
      BY <1>3, <1>D
    <3> QED BY <1>3, <2>1, <3>1, Zenon DEF Backspace
  <2> QED BY <1>2, <2>3, <2>4, <2>5, <2>6
<1>4. CASE d.x = 0 /\ d.y > 0
  <2>1. PICK b : b = [d EXCEPT !.x = VIDEO_WIDTH - 1, !.y = @ - 1]
    OBVIOUS
  <2>2. b = [x |-> VIDEO_WIDTH - 1, y |-> d.y - 1, cells |-> d.cells]
    BY <1>D, <2>1
  <2>3. b.x = VIDEO_WIDTH - 1 /\ b.y = d.y - 1 /\ b.cells = d.cells
    BY <2>2
  <2>4. b \in Screen
    BY <1>4, <1>D, <2>2, ScreenSize DEF Screen
  <2>5. Offset(b) = Offset(d) - 1
    <3>1. Offset(b) = Row(d.y - 1) + (VIDEO_WIDTH - 1)
      BY <2>3, Rows
    <3>2. d.y - 1 \in Nat /\ (d.y - 1) + 1 = d.y
      BY <1>4, <1>D
    <3>3. Row(d.y - 1) \in Nat /\ Row(d.y) = Row(d.y - 1) + VIDEO_WIDTH
      BY <3>2, Rows
    <3> QED BY <1>4, <1>D, <3>1, <3>3, ScreenSize
  <2>6. Backspace(d) = put_char(b, " ")
    <3>1. ~(d.x > 0)
      BY <1>4, <1>D
    <3> QED BY <1>4, <2>1, <3>1, Zenon DEF Backspace
  <2> QED BY <1>2, <2>3, <2>4, <2>5, <2>6
<1>5. CASE d.x = 0 /\ d.y = 0
  <2>1. Backspace(d) = d
    BY <1>5 DEF Backspace
  <2>2. Offset(d) = 0
    BY <1>5, <1>D, Rows
  <2> QED BY <1>1, <1>d, <2>1, <2>2, OnScreenSettled
<1>6. d.x > 0 \/ (d.x = 0 /\ d.y > 0) \/ (d.x = 0 /\ d.y = 0)
  BY <1>D
<1> QED BY <1>3, <1>4, <1>5, <1>6

LEMMA PrintsTab ==
  ASSUME NEW d, OnScreen(d)
  PROVE  OnScreen(PrintChar(d, "HT"))
<1>d. d \in Screen /\ BlankFrom(d.cells, Offset(d))
  BY DEF OnScreen
<1>D. /\ Offset(d) \in Cell /\ Offset(d) = Row(d.y) + d.x /\ Row(d.y) \in Nat
      /\ d = [x |-> d.x, y |-> d.y, cells |-> d.cells]
      /\ d.x \in 0 .. VIDEO_WIDTH - 1 /\ d.y \in 0 .. VIDEO_HEIGHT - 1
      /\ d.cells \in [Cell -> Glyphs]
      /\ Row(d.y + 1) = Row(d.y) + VIDEO_WIDTH
  BY <1>d, CursorOnCell
<1>1. PICK n : n = ((d.x + 8) \div 8) * 8
  OBVIOUS
<1>2. n \in Nat /\ n > d.x
  BY <1>1, <1>D
<1>3. PICK a : a = [d EXCEPT !.x = n]
  OBVIOUS
<1>4. a = [x |-> n, y |-> d.y, cells |-> d.cells]
  BY <1>3, <1>D
<1>5. a.x = n /\ a.y = d.y /\ a.cells = d.cells
  BY <1>4
<1>6. a \in Unsettled /\ a.y # VIDEO_HEIGHT
  BY <1>2, <1>4, <1>5, <1>D, ScreenSize DEF Unsettled
<1>7. PrintChar(d, "HT") = Settled(a)
  BY <1>1, <1>3, ActsBy, SettlesActed
<1>8. Wrapped(a) \in Int /\ Wrapped(a) >= Offset(d)
  BY <1>2, <1>5, <1>D, ScreenSize DEF Wrapped
<1>9. BlankFrom(a.cells, Wrapped(a))
  <2>1. \A i \in Cell : i >= Wrapped(a) => i >= Offset(d)
    BY <1>8, <1>D, ScreenSize
  <2> QED BY <1>d, <1>5, <2>1 DEF BlankFrom
<1> QED BY <1>6, <1>7, <1>9, SettlesBlank

LEMMA PrintedIs == \A d, c : Printed(d, c) = PrintChar(d, c)
<1> TAKE d, c
<1>1. PICK e : e = PrintChar(d, c)
  OBVIOUS
<1>2. {PrintChar(v, c) : v \in {d}} = {e}
  BY <1>1
<1> QED BY <1>1, <1>2 DEF Printed

\* Whatever is printed, the cursor stays on the screen and the rest of it is blank.
LEMMA StaysOnScreen ==
  ASSUME NEW d, OnScreen(d), NEW c \in Glyphs \cup Control
  PROVE  OnScreen(PrintChar(d, c))
BY PrintsGlyph, PrintsLineFeed, PrintsBackspace, PrintsTab DEF Control

\* The loop of printk over the characters of str.
LEMMA PrintkLoop ==
  ASSUME NEW str \in Seq(Glyphs \cup Control), OnScreen(display), printk(str)
  PROVE  /\ vga_cursor' = vga_cursor
         /\ \E s : /\ \A k \in 0 .. Len(str) : OnScreen(s[k])
                   /\ s[0] = display /\ s[Len(str)] = display'
                   /\ \A k \in 1 .. Len(str) : s[k] = PrintChar(s[k - 1], str[k])
<1>n. PICK n \in Nat : n = Len(str)
  OBVIOUS
<1>V. PICK V : V = {d \in Screen : OnScreen(d)}
  OBVIOUS
<1> DEFINE go == [x \in (1 .. n) \X V |-> PrintChar(x[2], str[x[1]])]
           Is(f) == f = [k \in 0 .. n |-> IF k = 0 THEN display ELSE Printed(f[k - 1], str[k])]
<1>1. \A d : d \in V <=> OnScreen(d)
  BY <1>V DEF OnScreen
<1>2. ASSUME NEW k \in 1 .. n, NEW d \in V
      PROVE  PrintChar(d, str[k]) \in V
  <2>1. str[k] \in Glyphs \cup Control
    BY <1>n, ElementOfSeq
  <2> QED BY <1>1, <2>1, StaysOnScreen
<1>3. IsLoopStep(go, n, V)
  <2>1. \A x \in (1 .. n) \X V : x[1] \in 1 .. n /\ x[2] \in V
    OBVIOUS
  <2> QED BY <1>2, <2>1 DEF IsLoopStep
<1>4. \A k \in 1 .. n, d \in V : go[<<k, d>>] = PrintChar(d, str[k])
  OBVIOUS
<1> HIDE DEF go
<1>5. PICK f : IsLoop(f, n, V, display, go)
  BY <1>1, <1>3, LoopFunction
<1>6. /\ f \in [0 .. n -> V]
      /\ f = [k \in 0 .. n |-> IF k = 0 THEN display ELSE go[<<k, f[k - 1]>>]]
  BY <1>5 DEF IsLoop
<1>7. Is(f)
  <2>1. \A k \in 0 .. n : k # 0 => k \in 1 .. n /\ k - 1 \in 0 .. n
    OBVIOUS
  <2>2. \A k \in 0 .. n : k # 0 => go[<<k, f[k - 1]>>] = Printed(f[k - 1], str[k])
    BY <1>4, <1>6, <2>1, PrintedIs
  <2> QED BY <1>6, <2>2
<1>8. PICK s : s = CHOOSE g : Is(g)
  OBVIOUS
<1>9. Is(s)
  BY <1>7, <1>8
<1>10. vga_cursor' = vga_cursor /\ display' = s[Len(str)]
  BY <1>8, <1>n DEF printk
<1>11. s[0] = display
  BY <1>9
<1>12. \A k \in 1 .. n : s[k] = PrintChar(s[k - 1], str[k])
  <2>1. \A k \in 1 .. n : k \in 0 .. n /\ k # 0
    OBVIOUS
  <2> QED BY <1>9, <2>1, PrintedIs
<1> HIDE DEF Is
<1>13. \A k \in 0 .. n : OnScreen(s[k])
  <2> DEFINE S == {k \in 0 .. n : OnScreen(s[k])}
  <2>1. 0 \in S
    BY <1>11
  <2>2. ASSUME NEW k \in 0 .. n - 1, k \in S PROVE k + 1 \in S
    <3>1. k + 1 \in 1 .. n /\ (k + 1) - 1 = k /\ k + 1 \in 0 .. n
      OBVIOUS
    <3>2. s[k + 1] = PrintChar(s[k], str[k + 1])
      BY <1>12, <3>1
    <3>3. str[k + 1] \in Glyphs \cup Control
      BY <1>n, <3>1, ElementOfSeq
    <3>4. OnScreen(s[k + 1])
      BY <2>2, <3>2, <3>3, StaysOnScreen
    <3> QED BY <3>1, <3>4
  <2> HIDE DEF S
  <2>3. 0 .. n \subseteq S
    BY <2>1, <2>2, IntervalInduction
  <2> QED BY <2>3 DEF S
<1> QED BY <1>n, <1>10, <1>11, <1>12, <1>13

-----------------------------------------------------------------------------
(* The first n characters of s stand before the cursor, from the start of  *)
(* a row on.  A scroll can then cut nothing off as long as n is less than  *)
(* the size of the screen.                                                 *)

Shows(d, s, n) ==
  /\ OnScreen(d)
  /\ \E r \in 0 .. VIDEO_HEIGHT - 1 :
       /\ Offset(d) = Row(r) + n
       /\ \A i \in 1 .. n : d.cells[Row(r) + i - 1] = s[i]

LEMMA ShowsNext ==
  ASSUME NEW d, NEW s, NEW n \in Nat, Shows(d, s, n), n + 1 < Area,
         NEW t, NEW c \in Glyphs, \A i \in 1 .. n : t[i] = s[i], t[n + 1] = c
  PROVE  Shows(PrintChar(d, c), t, n + 1)
<1>W. /\ VIDEO_WIDTH \in Nat /\ VIDEO_WIDTH > 1 /\ VIDEO_HEIGHT \in Nat /\ VIDEO_HEIGHT > 1
      /\ Area \in Nat /\ Cell = 0 .. Area - 1
  BY ScreenSize
<1>d. OnScreen(d) /\ d \in Screen
  BY DEF Shows, OnScreen
<1>1. PICK r \in 0 .. VIDEO_HEIGHT - 1 :
         /\ Offset(d) = Row(r) + n
         /\ \A i \in 1 .. n : d.cells[Row(r) + i - 1] = s[i]
  BY DEF Shows
<1>2. r \in Nat /\ Row(r) \in Nat /\ Offset(d) \in Cell /\ d.cells \in [Cell -> Glyphs]
  <2>1. r \in Nat
    BY <1>W
  <2> QED BY <1>d, <2>1, CursorOnCell, Rows
<1>3. PICK e : e = PrintChar(d, c)
  OBVIOUS
<1>4. PICK cells : cells = [d.cells EXCEPT ![Offset(d)] = c]
  OBVIOUS
<1>5. OnScreen(e) /\ \/ /\ Offset(d) + 1 \in Cell
                        /\ Offset(e) = Offset(d) + 1 /\ e.cells = cells
                     \/ /\ Offset(d) + 1 = Area
                        /\ Offset(e) = Area - VIDEO_WIDTH /\ e.cells = ScrolledUp(cells)
  BY <1>d, <1>3, <1>4, PrintsGlyph
<1>6. ASSUME NEW i \in 1 .. n + 1
      PROVE  Row(r) + i - 1 \in Cell /\ cells[Row(r) + i - 1] = t[i]
  <2>1. Row(r) + i - 1 \in Cell
    BY <1>1, <1>2, <1>W
  <2>2. CASE i = n + 1
    <3>1. Row(r) + i - 1 = Offset(d)
      BY <1>1, <1>2, <2>2
    <3> QED BY <1>2, <1>4, <2>1, <2>2, <3>1
  <2>3. CASE i # n + 1
    <3>1. i \in 1 .. n /\ Row(r) + i - 1 # Offset(d)
      BY <1>1, <1>2, <2>3
    <3> QED BY <1>1, <1>2, <1>4, <2>1, <3>1
  <2> QED BY <2>2, <2>3
<1>7. CASE Offset(e) = Offset(d) + 1 /\ e.cells = cells
  <2>1. Offset(e) = Row(r) + (n + 1)
    BY <1>1, <1>2, <1>7
  <2> QED BY <1>3, <1>5, <1>6, <1>7, <2>1 DEF Shows
<1>8. CASE Offset(d) + 1 = Area /\ Offset(e) = Area - VIDEO_WIDTH /\ e.cells = ScrolledUp(cells)
  <2>1. r # 0
    BY <1>1, <1>8, <1>W, Rows
  <2>2. PICK q \in 0 .. VIDEO_HEIGHT - 1 : q \in Nat /\ r = q + 1
    <3>1. r - 1 \in 0 .. VIDEO_HEIGHT - 1 /\ r - 1 \in Nat /\ r = (r - 1) + 1
      BY <1>W, <2>1
    <3> QED BY <3>1
  <2>3. Row(q) \in Nat /\ Row(r) = Row(q) + VIDEO_WIDTH
    BY <2>2, Rows
  <2>4. Offset(e) = Row(q) + (n + 1)
    <3>1. Area = (Row(q) + VIDEO_WIDTH) + n + 1
      BY <1>1, <1>8, <2>3
    <3> QED BY <1>8, <1>W, <2>3, <3>1
  <2>5. ASSUME NEW i \in 1 .. n + 1 PROVE e.cells[Row(q) + i - 1] = t[i]
    <3>1. Row(r) + i - 1 \in Cell /\ cells[Row(r) + i - 1] = t[i]
      BY <1>6
    <3>2. Row(q) + i - 1 \in Cell /\ (Row(q) + i - 1) + VIDEO_WIDTH = Row(r) + i - 1
      BY <1>2, <1>W, <2>3, <3>1
    <3> QED BY <1>8, <3>1, <3>2 DEF ScrolledUp
  <2> QED BY <1>3, <1>5, <2>4, <2>5 DEF Shows
<1> QED BY <1>5, <1>7, <1>8

LEMMA ShowsLess ==
  ASSUME NEW d, NEW s, NEW n \in Nat, Shows(d, s, n + 1),
         NEW t, \A i \in 1 .. n : t[i] = s[i]
  PROVE  Shows(PrintChar(d, "BS"), t, n)
<1>W. /\ VIDEO_WIDTH \in Nat /\ VIDEO_WIDTH > 1 /\ VIDEO_HEIGHT \in Nat /\ VIDEO_HEIGHT > 1
      /\ Area \in Nat /\ Cell = 0 .. Area - 1
  BY ScreenSize
<1>d. OnScreen(d) /\ d \in Screen
  BY DEF Shows, OnScreen
<1>1. PICK r \in 0 .. VIDEO_HEIGHT - 1 :
         /\ Offset(d) = Row(r) + (n + 1)
         /\ \A i \in 1 .. n + 1 : d.cells[Row(r) + i - 1] = s[i]
  BY DEF Shows
<1>2. r \in Nat /\ Row(r) \in Nat /\ Offset(d) \in Cell /\ d.cells \in [Cell -> Glyphs]
  <2>1. r \in Nat
    BY <1>W
  <2> QED BY <1>d, <2>1, CursorOnCell, Rows
<1>3. PICK e : e = PrintChar(d, "BS")
  OBVIOUS
<1>4. Offset(d) > 0
  BY <1>1, <1>2
<1>5. /\ OnScreen(e) /\ Offset(e) = Offset(d) - 1
      /\ e.cells = [d.cells EXCEPT ![Offset(d) - 1] = " "]
  BY <1>d, <1>3, <1>4, PrintsBackspace
<1>6. Offset(e) = Row(r) + n
  <2>1. Offset(e) = (Row(r) + (n + 1)) - 1
    BY <1>1, <1>5
  <2> QED BY <1>2, <2>1
<1>7. ASSUME NEW i \in 1 .. n PROVE e.cells[Row(r) + i - 1] = t[i]
  <2>1. i \in 1 .. n + 1 /\ Row(r) + i - 1 \in Cell /\ Row(r) + i - 1 # Offset(d) - 1
    BY <1>1, <1>2, <1>W
  <2> QED BY <1>1, <1>2, <1>5, <2>1
<1> QED BY <1>3, <1>5, <1>6, <1>7 DEF Shows

\* After the prompt the screen shows the prompt, from the start of a row.
LEMMA PromptShown ==
  ASSUME OnScreen(display), printk(<<"LF">> \o Prompt)
  PROVE  Shows(display', Prompt, Len(Prompt)) /\ vga_cursor' = vga_cursor
<1> DEFINE str == <<"LF">> \o Prompt
<1>A. /\ Prompt \in Seq(Glyphs) /\ MAX_COMMAND_LENGTH \in Nat \ {0, 1}
      /\ Len(Prompt) + MAX_COMMAND_LENGTH <= Area
  BY ShellAssumption DEF Area
<1>n. PICK n \in Nat : n = Len(Prompt)
  BY <1>A, LenProperties
<1>1. /\ str \in Seq(Glyphs \cup Control) /\ Len(str) = n + 1
      /\ str[1] = "LF" /\ \A k \in 1 .. n : str[k + 1] = Prompt[k]
  <2>1. <<"LF">> \in Seq(Glyphs \cup Control) /\ Len(<<"LF">>) = 1 /\ <<"LF">>[1] = "LF"
    BY DEF Control
  <2>2. Prompt \in Seq(Glyphs \cup Control)
    BY <1>A, SeqMonotonic
  <2>3. /\ str \in Seq(Glyphs \cup Control) /\ Len(str) = 1 + n
        /\ \A i \in 1 .. 1 + n : str[i] = IF i <= 1 THEN <<"LF">>[i] ELSE Prompt[i - 1]
    BY <1>n, <2>1, <2>2, ConcatProperties
  <2> HIDE DEF str
  <2>4. \A k \in 1 .. n : k + 1 \in 1 .. 1 + n /\ ~(k + 1 <= 1) /\ (k + 1) - 1 = k
    OBVIOUS
  <2> QED BY <2>1, <2>3, <2>4
<1>2. printk(str)
  OBVIOUS
<1> HIDE DEF str
<1>3. vga_cursor' = vga_cursor
  BY <1>1, <1>2, PrintkLoop
<1>4. PICK s : /\ \A k \in 0 .. n + 1 : OnScreen(s[k])
               /\ s[0] = display /\ s[n + 1] = display'
               /\ \A k \in 1 .. n + 1 : s[k] = PrintChar(s[k - 1], str[k])
  BY <1>1, <1>2, PrintkLoop
<1> DEFINE S == {k \in 0 .. n : Shows(s[k + 1], Prompt, k)}
<1>5. 0 \in S
  <2>1. PICK e : e = PrintChar(display, "LF")
    OBVIOUS
  <2>2. s[1] = e
    <3>1. 1 \in 1 .. n + 1 /\ 1 - 1 = 0
      OBVIOUS
    <3> QED BY <1>1, <1>4, <2>1, <3>1
  <2>3. OnScreen(e) /\ e.x = 0 /\ e \in Screen
    BY <2>1, PrintsLineFeed DEF OnScreen
  <2>4. e.y \in 0 .. VIDEO_HEIGHT - 1 /\ Offset(e) = Row(e.y) + 0
    BY <2>3, CursorOnCell
  <2>5. Shows(e, Prompt, 0)
    BY <2>3, <2>4 DEF Shows
  <2> QED BY <2>2, <2>5
<1>6. ASSUME NEW k \in 0 .. n - 1, k \in S PROVE k + 1 \in S
  <2>1. /\ k \in Nat /\ k + 1 \in 1 .. n /\ k + 2 \in 1 .. n + 1 /\ (k + 2) - 1 = k + 1
        /\ (k + 1) + 1 = k + 2 /\ k + 1 \in 0 .. n
    OBVIOUS
  <2>2. k + 1 < Area
    BY <1>A, <1>n, <2>1, ScreenSize
  <2>3. Prompt[k + 1] \in Glyphs /\ str[k + 2] = Prompt[k + 1]
    BY <1>1, <1>A, <1>n, <2>1, ElementOfSeq
  <2>4. s[k + 2] = PrintChar(s[k + 1], Prompt[k + 1])
    BY <1>4, <2>1, <2>3
  <2>5. Shows(s[k + 1], Prompt, k)
    BY <1>6
  <2>6. Shows(PrintChar(s[k + 1], Prompt[k + 1]), Prompt, k + 1)
    <3> HIDE DEF S
    <3> QED BY <2>1, <2>2, <2>3, <2>5, ShowsNext
  <2> QED BY <2>1, <2>4, <2>6
<1> HIDE DEF S
<1>7. 0 .. n \subseteq S
  BY <1>5, <1>6, IntervalInduction
<1>8. Shows(s[n + 1], Prompt, n)
  BY <1>7 DEF S
<1> QED BY <1>3, <1>4, <1>8, <1>n

LEMMA PrintsOne ==
  ASSUME NEW c \in Glyphs \cup Control, OnScreen(display), printk(<<c>>)
  PROVE  vga_cursor' = vga_cursor /\ display' = PrintChar(display, c)
<1>1. <<c>> \in Seq(Glyphs \cup Control) /\ Len(<<c>>) = 1 /\ <<c>>[1] = c
  OBVIOUS
<1>2. PICK s : s[0] = display /\ s[1] = display' /\ s[1] = PrintChar(s[1 - 1], c)
  BY <1>1, PrintkLoop
<1>3. 1 - 1 = 0
  OBVIOUS
<1>4. vga_cursor' = vga_cursor
  BY <1>1, PrintkLoop
<1> QED BY <1>2, <1>3, <1>4

LEMMA PrintsNone ==
  ASSUME OnScreen(display), printk(<< >>)
  PROVE  vga_cursor' = vga_cursor /\ display' = display
<1>1. << >> \in Seq(Glyphs \cup Control) /\ Len(<< >>) = 0
  OBVIOUS
<1>2. PICK n : n = Len(<< >>)
  OBVIOUS
<1>3. vga_cursor' = vga_cursor /\ \E s : s[0] = display /\ s[n] = display'
  BY <1>1, <1>2, PrintkLoop
<1> QED BY <1>1, <1>2, <1>3

-----------------------------------------------------------------------------
(* The command loop.                                                       *)

\* What the loop keeps: the line has room for one more character wherever one can
\* be stored, and the screen shows the prompt and the line unless the prompt is due.
ShellInv ==
  /\ KeyboardTypeOK
  /\ pc \in {"prompt", "poll", "edit", "run"}
  /\ line \in Seq(Printable)
  /\ Len(line) <= MAX_COMMAND_LENGTH - 1
  /\ pc = "edit" => Len(line) < MAX_COMMAND_LENGTH - 1 /\ vga_cursor = Offset(display)
  /\ pc = "prompt" => line = << >>
  /\ vga_cursor \in Cell
  /\ OnScreen(display)
  /\ pc # "prompt" => Shows(display, Prompt \o line, Len(Prompt) + Len(line))

\* The prompt followed by a line.
LEMMA PromptAndLine ==
  ASSUME NEW l \in Seq(Printable)
  PROVE  /\ Prompt \in Seq(Glyphs) /\ l \in Seq(Glyphs)
         /\ Len(Prompt) \in Nat /\ Len(l) \in Nat
         /\ Prompt \o l \in Seq(Glyphs)
         /\ Len(Prompt \o l) = Len(Prompt) + Len(l)
         /\ \A i \in 1 .. Len(Prompt) + Len(l) :
              (Prompt \o l)[i] = IF i <= Len(Prompt) THEN Prompt[i] ELSE l[i - Len(Prompt)]
<1>1. Prompt \in Seq(Glyphs) /\ Printable \subseteq Glyphs
  BY ShellAssumption
<1>2. l \in Seq(Glyphs)
  BY <1>1, SeqMonotonic
<1> QED BY <1>1, <1>2, ConcatProperties, LenProperties

LEMMA ShellInitInv == ShellInit => ShellInv
<1> SUFFICES ASSUME ShellInit PROVE ShellInv
  OBVIOUS
<1>1. KeyboardTypeOK
  BY KeyboardAssumption DEF ShellInit, KeyboardInit, KeyboardTypeOK, Slot
<1>2. display = [x |-> 0, y |-> VIDEO_HEIGHT - 1, cells |-> [i \in Cell |-> " "]]
  BY DEF ShellInit, ConsoleInit
<1>c. PICK cells : cells = [i \in Cell |-> " "]
  OBVIOUS
<1>3. cells \in [Cell -> Glyphs]
  BY <1>c, ConsoleAssumption
<1>C. display = [x |-> 0, y |-> VIDEO_HEIGHT - 1, cells |-> cells]
  BY <1>2, <1>c
<1>4. display \in Screen
  <2>1. 0 \in 0 .. VIDEO_WIDTH - 1 /\ VIDEO_HEIGHT - 1 \in 0 .. VIDEO_HEIGHT - 1
    BY ScreenSize
  <2> QED BY <1>3, <1>C, <2>1 DEF Screen
<1>5. OnScreen(display)
  <2>1. display.cells = cells
    BY <1>C
  <2> QED BY <1>4, <1>c, <2>1 DEF OnScreen, BlankFrom
<1>6. vga_cursor \in Cell
  BY <1>4, CursorOnCell DEF ShellInit, ConsoleInit
<1>7. line = << >> /\ line \in Seq(Printable) /\ Len(line) = 0 /\ pc = "prompt"
  BY DEF ShellInit
<1>8. MAX_COMMAND_LENGTH \in Nat \ {0, 1}
  BY ShellAssumption
<1> QED BY <1>1, <1>5, <1>6, <1>7, <1>8 DEF ShellInv

LEMMA PromptStep ==
  ASSUME ShellInv, shell_print_prompt
  PROVE  ShellInv'
<1>1. /\ pc = "prompt" /\ pc' = "poll" /\ line' = line /\ UNCHANGED keyboardVars
      /\ printk(<<"LF">> \o Prompt) /\ OnScreen(display) /\ line = << >>
  BY DEF ShellInv, shell_print_prompt
<1>2. Shows(display', Prompt, Len(Prompt)) /\ vga_cursor' = vga_cursor
  BY <1>1, PromptShown
<1>3. Prompt \o << >> = Prompt /\ Len(Prompt) + 0 = Len(Prompt) /\ Len(<< >>) = 0
  BY ShellAssumption, ConcatEmptySeq
<1>4. Shows(display', Prompt \o line', Len(Prompt) + Len(line'))
  BY <1>1, <1>2, <1>3
<1>5. KeyboardTypeOK'
  BY <1>1 DEF ShellInv, KeyboardTypeOK, keyboardVars, ringVars
<1>6. OnScreen(display')
  BY <1>2 DEF Shows
<1> QED BY <1>1, <1>2, <1>4, <1>5, <1>6 DEF ShellInv

LEMMA PollStep ==
  ASSUME ShellInv, shell_read_line_poll
  PROVE  ShellInv'
<1>1. pc = "poll" /\ line' = line
  BY DEF shell_read_line_poll
<1>2. CASE Len(line) < MAX_COMMAND_LENGTH - 1
  <2>1. update_cursor /\ keyboard_getchar /\ pc' = "edit"
    BY <1>2 DEF shell_read_line_poll
  <2>2. KeyboardTypeOK'
    BY <2>1, KeyboardTypesStep DEF ShellInv, KeyboardNext
  <2>3. display' = display /\ vga_cursor' = Offset(display)
    BY <2>1 DEF update_cursor
  <2>4. Offset(display) \in Cell
    BY CursorOnCell DEF ShellInv, OnScreen
  <2> QED BY <1>1, <1>2, <2>1, <2>2, <2>3, <2>4 DEF ShellInv
<1>3. CASE ~(Len(line) < MAX_COMMAND_LENGTH - 1)
  <2>1. pc' = "run" /\ UNCHANGED <<keyboardVars, consoleVars>>
    BY <1>3 DEF shell_read_line_poll
  <2>2. KeyboardTypeOK'
    BY <2>1 DEF ShellInv, KeyboardTypeOK, keyboardVars, ringVars
  <2> QED BY <1>1, <2>1, <2>2 DEF ShellInv, consoleVars
<1> QED BY <1>2, <1>3

LEMMA EditStep ==
  ASSUME ShellInv, shell_read_line_edit
  PROVE  ShellInv'
<1>1. /\ pc = "edit" /\ pc' \in {"run", "poll"} /\ UNCHANGED keyboardVars
      /\ line' = Edited.line /\ printk(Edited.echo)
  BY DEF shell_read_line_edit
<1>2. KeyboardTypeOK'
  BY <1>1 DEF ShellInv, KeyboardTypeOK, keyboardVars, ringVars
<1>3. /\ line \in Seq(Printable) /\ Len(line) \in Nat /\ Len(line) < MAX_COMMAND_LENGTH - 1
      /\ OnScreen(display) /\ vga_cursor \in Cell
      /\ Shows(display, Prompt \o line, Len(Prompt) + Len(line))
  BY <1>1, LenProperties DEF ShellInv
<1>A. /\ MAX_COMMAND_LENGTH \in Nat /\ Len(Prompt) + MAX_COMMAND_LENGTH <= Area
      /\ Printable \subseteq Glyphs
  BY ShellAssumption DEF Area
<1>n. PICK n \in Nat : n = Len(Prompt) + Len(line)
  BY <1>3, PromptAndLine
<1>0. \A i \in 1 .. n : (Prompt \o line)[i] = IF i <= Len(Prompt) THEN Prompt[i]
                                              ELSE line[i - Len(Prompt)]
  BY <1>3, <1>n, PromptAndLine
<1>p. Len(Prompt) \in Nat
  BY <1>3, PromptAndLine
<1> SUFFICES /\ line' \in Seq(Printable) /\ Len(line') <= MAX_COMMAND_LENGTH - 1
             /\ vga_cursor' = vga_cursor
             /\ Shows(display', Prompt \o line', Len(Prompt) + Len(line'))
  BY <1>1, <1>2, <1>3 DEF ShellInv, Shows
<1>4. CASE got = "BS" /\ line # << >>
  <2>1. Edited = [line |-> Front(line), echo |-> <<"BS">>]
    <3>1. got \notin Printable
      BY <1>4 DEF Printable
    <3> QED BY <1>4, <3>1, Zenon DEF Edited
  <2>2. line' = Front(line) /\ printk(<<"BS">>)
    BY <1>1, <2>1
  <2>3. vga_cursor' = vga_cursor /\ display' = PrintChar(display, "BS")
    BY <1>3, <2>2, PrintsOne DEF Control
  <2>4. Len(line) > 0
    BY <1>3, <1>4, EmptySeq
  <2>5. /\ line' \in Seq(Printable) /\ Len(line') = Len(line) - 1
        /\ \A i \in 1 .. Len(line) - 1 : line'[i] = line[i]
    <3>1. \A i \in 1 .. Len(line) - 1 : line[i] \in Printable
      BY <1>3, ElementOfSeq
    <3>2. /\ SubSeq(line, 1, Len(line) - 1) \in Seq(Printable)
          /\ Len(SubSeq(line, 1, Len(line) - 1)) =
               IF 1 <= Len(line) - 1 THEN Len(line) - 1 - 1 + 1 ELSE 0
          /\ \A i \in 1 .. Len(line) - 1 - 1 + 1 :
               SubSeq(line, 1, Len(line) - 1)[i] = line[1 + i - 1]
      <4>1. 1 \in Int /\ Len(line) - 1 \in Int
        BY <1>3
      <4> QED BY <3>1, <4>1, SubSeqProperties
    <3>3. \A i \in 1 .. Len(line) - 1 : i \in 1 .. Len(line) - 1 - 1 + 1 /\ 1 + i - 1 = i
      BY <1>3
    <3> QED BY <1>3, <2>2, <2>4, <3>2, <3>3 DEF Front
  <2>6. PICK m \in Nat : n = m + 1 /\ m = Len(Prompt) + Len(line')
    <3>1. n - 1 \in Nat /\ n = (n - 1) + 1 /\ n - 1 = Len(Prompt) + Len(line')
      BY <1>3, <1>n, <1>p, <2>4, <2>5
    <3> QED BY <3>1
  <2>7. \A i \in 1 .. m : (Prompt \o line')[i] = (Prompt \o line)[i]
    <3>1. \A i \in 1 .. m : (Prompt \o line')[i] = IF i <= Len(Prompt) THEN Prompt[i]
                                                  ELSE line'[i - Len(Prompt)]
      BY <2>5, <2>6, PromptAndLine
    <3>2. ASSUME NEW i \in 1 .. m, ~(i <= Len(Prompt))
          PROVE  line'[i - Len(Prompt)] = line[i - Len(Prompt)]
      <4>1. i - Len(Prompt) \in 1 .. Len(line) - 1
        BY <1>3, <1>p, <2>5, <2>6, <3>2
      <4> QED BY <2>5, <4>1
    <3>3. \A i \in 1 .. m : i \in 1 .. n
      BY <2>6
    <3> QED BY <1>0, <3>1, <3>2, <3>3
  <2>8. Shows(PrintChar(display, "BS"), Prompt \o line', m)
    BY <1>3, <1>n, <2>6, <2>7, ShowsLess
  <2> QED BY <1>3, <1>A, <2>3, <2>5, <2>6, <2>8
<1>5. CASE got \in Printable
  <2>0. got # "BS" /\ got \in Glyphs
    BY <1>5, <1>A DEF Printable
  <2>1. Edited = [line |-> Append(line, got), echo |-> <<got>>]
    BY <1>5, <2>0 DEF Edited
  <2>2. line' = Append(line, got) /\ printk(<<got>>)
    BY <1>1, <2>1
  <2>3. vga_cursor' = vga_cursor /\ display' = PrintChar(display, got)
    BY <1>3, <2>0, <2>2, PrintsOne
  <2>5. /\ line' \in Seq(Printable) /\ Len(line') = Len(line) + 1
        /\ \A i \in 1 .. Len(line) : line'[i] = line[i]
        /\ line'[Len(line) + 1] = got
    BY <1>3, <1>5, <2>2, AppendProperties
  <2>6. n + 1 = Len(Prompt) + Len(line')
    BY <1>3, <1>n, <1>p, <2>5
  <2>7. \A i \in 1 .. n + 1 : (Prompt \o line')[i] = IF i <= Len(Prompt) THEN Prompt[i]
                                                    ELSE line'[i - Len(Prompt)]
    BY <2>5, <2>6, PromptAndLine
  <2>8. \A i \in 1 .. n : (Prompt \o line')[i] = (Prompt \o line)[i]
    <3>2. ASSUME NEW i \in 1 .. n, ~(i <= Len(Prompt))
          PROVE  line'[i - Len(Prompt)] = line[i - Len(Prompt)]
      <4>1. i - Len(Prompt) \in 1 .. Len(line)
        BY <1>3, <1>p, <1>n, <3>2
      <4> QED BY <2>5, <4>1
    <3>3. \A i \in 1 .. n : i \in 1 .. n + 1
      OBVIOUS
    <3> QED BY <1>0, <2>7, <3>2, <3>3
  <2>9. (Prompt \o line')[n + 1] = got
    <3>1. n + 1 \in 1 .. n + 1 /\ ~(n + 1 <= Len(Prompt)) /\ (n + 1) - Len(Prompt) = Len(line) + 1
      BY <1>3, <1>n, <1>p
    <3> QED BY <2>5, <2>7, <3>1
  <2>10. n + 1 < Area
    BY <1>3, <1>A, <1>n, <1>p, ScreenSize
  <2>11. Shows(PrintChar(display, got), Prompt \o line', n + 1)
    BY <1>3, <1>n, <2>0, <2>8, <2>9, <2>10, ShowsNext
  <2> QED BY <1>3, <1>A, <2>3, <2>5, <2>6, <2>11
<1>6. CASE ~(got = "BS" /\ line # << >>) /\ got \notin Printable
  <2>1. Edited = [line |-> line, echo |-> << >>]
    BY <1>6 DEF Edited
  <2>2. line' = line /\ printk(<< >>)
    BY <1>1, <2>1
  <2>3. vga_cursor' = vga_cursor /\ display' = display
    BY <1>3, <2>2, PrintsNone
  <2> QED BY <1>3, <1>A, <2>2, <2>3
<1> QED BY <1>4, <1>5, <1>6

LEMMA CommandStep ==
  ASSUME ShellInv, shell_process_command
  PROVE  ShellInv'
<1>1. /\ pc = "run" /\ pc' = "prompt" /\ line' = << >> /\ UNCHANGED keyboardVars
      /\ (\E out \in Outputs : printk(<<"LF">> \o out)) \/ UNCHANGED consoleVars
  BY DEF shell_process_command
<1>2. KeyboardTypeOK'
  BY <1>1 DEF ShellInv, KeyboardTypeOK, keyboardVars, ringVars
<1>3. OnScreen(display) /\ vga_cursor \in Cell
  BY DEF ShellInv
<1>4. OnScreen(display') /\ vga_cursor' = vga_cursor
  <2>1. CASE UNCHANGED consoleVars
    BY <1>3, <2>1 DEF consoleVars
  <2>2. ASSUME NEW out \in Outputs, printk(<<"LF">> \o out)
        PROVE  OnScreen(display') /\ vga_cursor' = vga_cursor
    <3>1. out \in Seq(Glyphs \cup Control)
      BY ShellAssumption
    <3>2. <<"LF">> \in Seq(Glyphs \cup Control)
      BY DEF Control
    <3>3. PICK str : str = <<"LF">> \o out
      OBVIOUS
    <3>4. str \in Seq(Glyphs \cup Control)
      BY <3>1, <3>2, <3>3, ConcatProperties
    <3>5. Len(str) \in 0 .. Len(str)
      BY <3>4, LenProperties
    <3> QED BY <1>3, <2>2, <3>3, <3>4, <3>5, PrintkLoop
  <2> QED BY <1>1, <2>1, <2>2
<1>5. << >> \in Seq(Printable) /\ Len(<< >>) = 0 /\ MAX_COMMAND_LENGTH \in Nat \ {0, 1}
  BY ShellAssumption
<1> QED BY <1>1, <1>2, <1>3, <1>4, <1>5 DEF ShellInv

LEMMA ShellStep ==
  ASSUME ShellInv, [ShellNext]_shellVars
  PROVE  ShellInv'
<1>1. CASE KeyArrives
  <2>1. UNCHANGED <<consoleVars, pc, line>> /\ keyboard_interrupt_handler
    BY <1>1 DEF KeyArrives
  <2>2. KeyboardTypeOK'
    BY <2>1, KeyboardTypesStep DEF ShellInv, KeyboardNext
  <2> QED BY <2>1, <2>2 DEF ShellInv, consoleVars
<1>2. CASE UNCHANGED shellVars
  BY <1>2 DEF shellVars, keyboardVars, ringVars, consoleVars, ShellInv, KeyboardTypeOK
<1> QED BY <1>1, <1>2, PromptStep, PollStep, EditStep, CommandStep DEF ShellNext, shell_run

\* The loop of shell_run keeps its invariant, whenever keys arrive.
THEOREM ShellInvariance == ShellSpec => []ShellInv
<1>1. ShellInit => ShellInv
  BY ShellInitInv
<1>2. ShellInv /\ [ShellNext]_shellVars => ShellInv'
  BY ShellStep
<1> QED BY <1>1, <1>2, PTL DEF ShellSpec

\* For every size of ring, line buffer and screen, shell_read_line writes inside its
\* buffer, keeping the last byte for the NUL, and printk inside video memory.
THEOREM ShellTypeCorrect == ShellSpec => []ShellTypeOK
<1>1. ShellInv => ShellTypeOK
  <2> SUFFICES ASSUME ShellInv PROVE ShellTypeOK
    OBVIOUS
  <2>1. display \in Screen /\ vga_cursor \in Cell
    BY DEF ShellInv, OnScreen
  <2>2. ConsoleTypeOK
    BY <2>1, CursorOnCell DEF ConsoleTypeOK
  <2> QED BY <2>2 DEF ShellInv, ShellTypeOK
<1> QED BY <1>1, ShellInvariance, PTL

\* After any typing, deleting, wrapping and scrolling the screen shows the prompt and
\* the line that shell_read_line will return, and nothing behind it.
THEOREM ScreenShowsTheLine == ShellSpec => []ScreenShowsLine
<1>1. ShellInv => ScreenShowsLine
  <2> SUFFICES ASSUME ShellInv, pc # "prompt"
               PROVE  LET shown == Prompt \o line
                          end   == Offset(display)
                      IN  /\ end >= Len(shown)
                          /\ \A i \in DOMAIN shown : display.cells[end - Len(shown) + i - 1] = shown[i]
                          /\ \A i \in Cell : i >= end => display.cells[i] = " "
                          /\ pc = "edit" => vga_cursor = end
    BY DEF ScreenShowsLine
  <2>1. PICK shown : shown = Prompt \o line
    OBVIOUS
  <2>2. PICK n \in Nat : n = Len(Prompt) + Len(line) /\ Len(shown) = n /\ shown \in Seq(Glyphs)
    BY <2>1, PromptAndLine DEF ShellInv
  <2>3. Shows(display, shown, n)
    BY <2>1, <2>2 DEF ShellInv
  <2>4. PICK r \in 0 .. VIDEO_HEIGHT - 1 :
          /\ Offset(display) = Row(r) + n
          /\ \A i \in 1 .. n : display.cells[Row(r) + i - 1] = shown[i]
    BY <2>3 DEF Shows
  <2>5. Row(r) \in Nat
    <3>1. r \in Nat
      BY ScreenSize
    <3> QED BY <3>1, Rows
  <2>6. DOMAIN shown = 1 .. n
    BY <2>2
  <2>7. Offset(display) >= n
    BY <2>4, <2>5
  <2>8. ASSUME NEW i \in 1 .. n
        PROVE  display.cells[Offset(display) - n + i - 1] = shown[i]
    <3>1. Offset(display) - n + i - 1 = Row(r) + i - 1
      <4>1. (Row(r) + n) - n + i - 1 = Row(r) + i - 1
        BY <2>5
      <4> QED BY <2>4, <4>1
    <3> QED BY <2>4, <3>1
  <2>9. \A i \in Cell : i >= Offset(display) => display.cells[i] = " "
    BY DEF ShellInv, OnScreen, BlankFrom
  <2>10. pc = "edit" => vga_cursor = Offset(display)
    BY DEF ShellInv
  <2> QED BY <2>1, <2>2, <2>6, <2>7, <2>8, <2>9, <2>10
<1> QED BY <1>1, ShellInvariance, PTL

-----------------------------------------------------------------------------
(* The arguments.  Every call of strtok returns the next word of the line  *)
(* and leaves a position behind it that no word contains.                  *)

\* The character between words.
Blank == " "

LEMMA MinOfNats ==
  ASSUME NEW T, T \subseteq Nat, T # {}
  PROVE  Min(T) \in T /\ \A y \in T : Min(T) <= y
<1>1. \E x \in T : \A y \in T : x <= y
  BY LeastNat
<1> QED BY <1>1 DEF Min

\* What strtok finds from position f on: nothing, or a run of characters from s to
\* the delimiter at e, or to the end of the line.
NothingFrom(str, f) == f = 0 \/ \A i \in f .. Len(str) : str[i] = Blank

RunFrom(str, f, s, e) ==
  /\ f # 0 /\ f <= s /\ s < e /\ e <= Len(str) + 1
  /\ \A i \in f .. s - 1 : str[i] = Blank
  /\ \A i \in s .. e - 1 : str[i] # Blank
  /\ e <= Len(str) => str[e] = Blank

LEMMA StrtokFinds ==
  ASSUME NEW str, Len(str) \in Nat, NEW f \in Nat
  PROVE  \/ /\ strtok(str, f) = [token |-> << >>, last |-> 0]
            /\ NothingFrom(str, f)
         \/ \E s, e \in Nat :
              /\ RunFrom(str, f, s, e)
              /\ strtok(str, f) = [token |-> <<s, e>>,
                                   last |-> IF e = Len(str) + 1 THEN 0 ELSE e + 1]
<1>n. PICK n \in Nat : n = Len(str)
  OBVIOUS
<1>S. PICK starts : starts = {i \in f .. n : str[i] # Blank}
  OBVIOUS
<1>s. PICK s : s = Min(starts)
  OBVIOUS
<1>E. PICK delims : delims = {i \in s .. n : str[i] = Blank}
  OBVIOUS
<1>0. strtok(str, f) = IF f = 0 \/ starts = {} THEN [token |-> << >>, last |-> 0]
                       ELSE IF delims = {} THEN [token |-> <<s, n + 1>>, last |-> 0]
                       ELSE [token |-> <<s, Min(delims)>>, last |-> Min(delims) + 1]
  BY <1>n, <1>S, <1>s, <1>E DEF strtok, Blank
<1>1. CASE f = 0 \/ starts = {}
  BY <1>0, <1>1, <1>n, <1>S DEF NothingFrom
<1>2. CASE f # 0 /\ starts # {}
  <2>1. starts \subseteq Nat
    BY <1>S
  <2>2. s \in starts /\ \A y \in starts : s <= y
    BY <1>2, <1>s, <2>1, MinOfNats
  <2>3. s \in f .. n /\ str[s] # Blank /\ s \in Nat
    BY <1>S, <2>2
  <2>4. ASSUME NEW i \in f .. s - 1 PROVE str[i] = Blank
    <3>1. i \in f .. n /\ ~(s <= i)
      BY <2>3
    <3> QED BY <1>S, <2>2, <3>1
  <2>5. CASE delims = {}
    <3>1. \A i \in s .. (n + 1) - 1 : str[i] # Blank
      BY <1>E, <2>5
    <3>2. RunFrom(str, f, s, n + 1)
      BY <1>2, <1>n, <2>3, <2>4, <3>1 DEF RunFrom
    <3>3. PICK e \in Nat : e = n + 1
      OBVIOUS
    <3>4. strtok(str, f) = [token |-> <<s, e>>, last |-> IF e = Len(str) + 1 THEN 0 ELSE e + 1]
      BY <1>0, <1>2, <1>n, <2>5, <3>3
    <3> QED BY <2>3, <3>2, <3>3, <3>4
  <2>6. CASE delims # {}
    <3>1. delims \subseteq Nat
      BY <1>E, <2>3
    <3>2. PICK e : e = Min(delims)
      OBVIOUS
    <3>3. e \in delims /\ \A y \in delims : e <= y
      BY <2>6, <3>1, <3>2, MinOfNats
    <3>4. e \in s .. n /\ str[e] = Blank /\ e \in Nat /\ e # s
      BY <1>E, <2>3, <3>3
    <3>5. ASSUME NEW i \in s .. e - 1 PROVE str[i] # Blank
      <4>1. i \in s .. n /\ ~(e <= i)
        BY <2>3, <3>4
      <4> QED BY <1>E, <3>3, <4>1
    <3>6. RunFrom(str, f, s, e)
      BY <1>2, <1>n, <2>3, <2>4, <3>4, <3>5 DEF RunFrom
    <3>7. e # Len(str) + 1
      BY <1>n, <3>4
    <3>8. strtok(str, f) = [token |-> <<s, e>>, last |-> IF e = Len(str) + 1 THEN 0 ELSE e + 1]
      BY <1>0, <1>2, <2>6, <3>2, <3>7
    <3> QED BY <2>3, <3>4, <3>6, <3>8
  <2> QED BY <2>5, <2>6
<1> QED BY <1>1, <1>2

\* The words that start before position m.
Before(str, m) == {w \in Words(str) : w[1] < m}

\* No word goes across position f.
Between(str, f) == f = 1 \/ str[f - 1] = Blank

LEMMA WordsAre ==
  ASSUME NEW str, Len(str) \in Nat
  PROVE  /\ IsFiniteSet(Words(str))
         /\ \A w \in Words(str) :
              /\ w = <<w[1], w[2]>> /\ w[1] \in 1 .. Len(str) /\ w[2] \in 2 .. Len(str) + 1
              /\ w[1] < w[2]
              /\ \A i \in w[1] .. w[2] - 1 : str[i] # Blank
              /\ w[1] = 1 \/ str[w[1] - 1] = Blank
              /\ w[2] = Len(str) + 1 \/ str[w[2]] = Blank
<1>n. PICK n \in Nat : n = Len(str)
  OBVIOUS
<1>1. Words(str) \subseteq (1 .. n) \X (2 .. n + 1)
  BY <1>n DEF Words
<1>2. IsFiniteSet((1 .. n) \X (2 .. n + 1))
  <2>1. IsFiniteSet(1 .. n) /\ IsFiniteSet(2 .. n + 1)
    BY FS_Interval
  <2> QED BY <2>1, FS_Product
<1>3. IsFiniteSet(Words(str))
  BY <1>1, <1>2, FS_Subset
<1>4. \A w \in (1 .. n) \X (2 .. n + 1) : w = <<w[1], w[2]>> /\ w[1] \in 1 .. n /\ w[2] \in 2 .. n + 1
  OBVIOUS
<1>5. ASSUME NEW w \in Words(str)
      PROVE  /\ w[1] < w[2]
             /\ \A i \in w[1] .. w[2] - 1 : str[i] # Blank
             /\ w[1] = 1 \/ str[w[1] - 1] = Blank
             /\ w[2] = Len(str) + 1 \/ str[w[2]] = Blank
  BY DEF Words, Blank
<1> QED BY <1>n, <1>1, <1>3, <1>4, <1>5

\* No word is left when strtok finds nothing.
LEMMA NoWordLeft ==
  ASSUME NEW str, Len(str) \in Nat, NEW f \in Nat, f # 0, NothingFrom(str, f)
  PROVE  Words(str) = Before(str, f)
<1>1. ASSUME NEW w \in Words(str) PROVE w[1] < f
  <2>1. w[1] \in 1 .. Len(str) /\ w[2] \in Int /\ w[1] < w[2] /\ \A i \in w[1] .. w[2] - 1 : str[i] # Blank
    BY WordsAre
  <2>2. str[w[1]] # Blank
    BY <2>1
  <2>3. w[1] \notin f .. Len(str)
    BY <2>2 DEF NothingFrom
  <2> QED BY <2>1, <2>3
<1> QED BY <1>1 DEF Before

\* The run that strtok finds is the next word.
LEMMA RunIsNextWord ==
  ASSUME NEW str, Len(str) \in Nat, NEW f \in Nat, NEW s \in Nat, NEW e \in Nat,
         Between(str, f), RunFrom(str, f, s, e)
  PROVE  /\ <<s, e>> \in Words(str) /\ <<s, e>> \notin Before(str, f)
         /\ Before(str, s) = Before(str, f)
         /\ Before(str, e + 1) = Before(str, f) \cup {<<s, e>>}
         /\ e = Len(str) + 1 => Words(str) = Before(str, e + 1)
<1>n. PICK n \in Nat : n = Len(str)
  OBVIOUS
<1>R. /\ f # 0 /\ f <= s /\ s < e /\ e <= n + 1
      /\ \A i \in f .. s - 1 : str[i] = Blank
      /\ \A i \in s .. e - 1 : str[i] # Blank
      /\ e <= n => str[e] = Blank
  BY <1>n DEF RunFrom
<1>W. ASSUME NEW w \in Words(str)
      PROVE  /\ w = <<w[1], w[2]>> /\ w[1] \in 1 .. n /\ w[2] \in 2 .. n + 1
             /\ w[1] < w[2]
             /\ \A i \in w[1] .. w[2] - 1 : str[i] # Blank
             /\ w[1] = 1 \/ str[w[1] - 1] = Blank
             /\ w[2] = n + 1 \/ str[w[2]] = Blank
  BY <1>n, WordsAre
<1>1. <<s, e>> \in Words(str)
  <2>1. s = 1 \/ str[s - 1] = Blank
    <3>1. CASE s = f
      BY <3>1 DEF Between
    <3>2. CASE s # f
      <4>1. s - 1 \in f .. s - 1
        BY <1>R, <3>2
      <4> QED BY <1>R, <4>1
    <3> QED BY <3>1, <3>2
  <2>2. e = n + 1 \/ str[e] = Blank
    BY <1>R
  <2>3. <<s, e>> \in (1 .. n) \X (2 .. n + 1)
    BY <1>R
  <2>4. s < e /\ \A i \in s .. e - 1 : str[i] # Blank
    BY <1>R
  <2>5. <<s, e>>[1] = s /\ <<s, e>>[2] = e
    OBVIOUS
  <2> QED BY <1>n, <2>1, <2>2, <2>3, <2>4, <2>5 DEF Words, Blank
<1>2. ASSUME NEW w \in Words(str)
      PROVE  w[1] < f \/ w = <<s, e>> \/ w[1] > e
  <2> SUFFICES ASSUME ~(w[1] < f), ~(w[1] > e) PROVE w = <<s, e>>
    OBVIOUS
  <2>1. str[w[1]] # Blank
    BY <1>W
  <2>2. w[1] \notin f .. s - 1
    BY <1>R, <2>1
  <2>3. w[1] # e
    BY <1>R, <1>W, <2>1
  <2>4. w[1] \notin s + 1 .. e - 1
    <3> SUFFICES ASSUME w[1] \in s + 1 .. e - 1 PROVE FALSE
      OBVIOUS
    <3>1. w[1] # 1 /\ w[1] - 1 \in s .. e - 1
      BY <1>R
    <3> QED BY <1>R, <1>W, <3>1
  <2>5. w[1] = s
    BY <1>R, <1>W, <2>2, <2>3, <2>4
  <2>6. ~(w[2] > e)
    <3> SUFFICES ASSUME w[2] > e PROVE FALSE
      OBVIOUS
    <3>1. e \in w[1] .. w[2] - 1 /\ e <= n
      BY <1>R, <1>W, <2>5
    <3> QED BY <1>R, <1>W, <3>1
  <2>7. ~(w[2] < e)
    <3> SUFFICES ASSUME w[2] < e PROVE FALSE
      OBVIOUS
    <3>1. w[2] \in s .. e - 1 /\ w[2] # n + 1
      BY <1>R, <1>W, <2>5
    <3> QED BY <1>R, <1>W, <3>1
  <2>8. w[2] = e
    BY <1>W, <2>6, <2>7
  <2> QED BY <1>W, <2>5, <2>8
<1>p. <<s, e>>[1] = s
  OBVIOUS
<1>3. <<s, e>> \notin Before(str, f)
  BY <1>R, <1>p DEF Before
<1>4. Before(str, s) = Before(str, f)
  <2>1. ASSUME NEW w \in Words(str) PROVE w[1] < s <=> w[1] < f
    <3>1. w[1] \in Nat
      BY <1>W
    <3>2. w[1] < s => w # <<s, e>> /\ ~(w[1] > e)
      BY <1>R, <1>p, <3>1
    <3> QED BY <1>2, <1>R, <3>1, <3>2
  <2> QED BY <2>1 DEF Before
<1>5. Before(str, e + 1) = Before(str, f) \cup {<<s, e>>}
  <2>1. ASSUME NEW w \in Words(str) PROVE w[1] < e + 1 <=> w[1] < f \/ w = <<s, e>>
    <3>1. w[1] \in Nat
      BY <1>W
    <3>2. w[1] < e + 1 => w[1] < f \/ w = <<s, e>>
      BY <1>2, <3>1
    <3>3. w = <<s, e>> => w[1] < e + 1
      BY <1>R, <1>p
    <3>4. w[1] < f => w[1] < e + 1
      BY <1>R, <3>1
    <3> QED BY <3>2, <3>3, <3>4
  <2> QED BY <1>1, <2>1 DEF Before
<1>6. e = Len(str) + 1 => Words(str) = Before(str, e + 1)
  <2>1. ASSUME e = n + 1, NEW w \in Words(str) PROVE w[1] < e + 1
    BY <1>W, <2>1
  <2> QED BY <1>n, <2>1 DEF Before
<1> QED BY <1>1, <1>3, <1>4, <1>5, <1>6

\* One turn of the loop of shell_tokenize.
TokenStep(str, v) ==
  LET t == strtok(str, v.last)
  IN  IF t.token = << >> THEN [v EXCEPT !.last = 0]
      ELSE [args |-> Append(v.args, t.token), last |-> t.last]

\* After k turns: the arguments are the first words, and the saved position is behind
\* them, or no word is left.
FoundWords(str, v, k) ==
  /\ v.args \in Seq(Nat \X Nat) /\ v.last \in Nat
  /\ Len(v.args) <= k
  /\ \A j \in 1 .. Len(v.args) :
       v.args[j] \in Words(str) /\ Cardinality(Before(str, v.args[j][1])) = j - 1
  /\ \/ v.last = 0 /\ Cardinality(Words(str)) = Len(v.args)
     \/ /\ v.last # 0 /\ Between(str, v.last)
        /\ Len(v.args) = k /\ Cardinality(Before(str, v.last)) = k

LEMMA TokenSteps ==
  ASSUME NEW str, Len(str) \in Nat, NEW v \in [args : Seq(Nat \X Nat), last : Nat]
  PROVE  /\ \/ /\ TokenStep(str, v) = [args |-> v.args, last |-> 0]
               /\ NothingFrom(str, v.last)
            \/ \E s, e \in Nat :
                 /\ RunFrom(str, v.last, s, e)
                 /\ TokenStep(str, v) = [args |-> Append(v.args, <<s, e>>),
                                         last |-> IF e = Len(str) + 1 THEN 0 ELSE e + 1]
         /\ TokenStep(str, v) \in [args : Seq(Nat \X Nat), last : Nat]
<1>V. v = [args |-> v.args, last |-> v.last] /\ v.args \in Seq(Nat \X Nat) /\ v.last \in Nat
  OBVIOUS
<1>t. PICK t : t = strtok(str, v.last)
  OBVIOUS
<1>T. TokenStep(str, v) = IF t.token = << >> THEN [v EXCEPT !.last = 0]
                          ELSE [args |-> Append(v.args, t.token), last |-> t.last]
  BY <1>t DEF TokenStep
<1>1. CASE t = [token |-> << >>, last |-> 0] /\ NothingFrom(str, v.last)
  <2>1. t.token = << >>
    BY <1>1
  <2>2. PICK g : g = [v EXCEPT !.last = 0]
    OBVIOUS
  <2>3. g = [args |-> v.args, last |-> 0]
    BY <1>V, <2>2
  <2>4. TokenStep(str, v) = [args |-> v.args, last |-> 0]
    BY <1>T, <2>1, <2>2, <2>3
  <2> QED BY <1>1, <1>V, <2>4
<1>2. ASSUME NEW s \in Nat, NEW e \in Nat, RunFrom(str, v.last, s, e),
             t = [token |-> <<s, e>>, last |-> IF e = Len(str) + 1 THEN 0 ELSE e + 1]
      PROVE  /\ TokenStep(str, v) = [args |-> Append(v.args, <<s, e>>),
                                     last |-> IF e = Len(str) + 1 THEN 0 ELSE e + 1]
             /\ TokenStep(str, v) \in [args : Seq(Nat \X Nat), last : Nat]
  <2>1. PICK l \in Nat : l = IF e = Len(str) + 1 THEN 0 ELSE e + 1
    OBVIOUS
  <2>2. t.token = <<s, e>> /\ t.last = l
    BY <1>2, <2>1
  <2>3. <<s, e>> # << >>
    OBVIOUS
  <2>4. TokenStep(str, v) = [args |-> Append(v.args, <<s, e>>), last |-> l]
    BY <1>T, <2>2, <2>3
  <2>5. Append(v.args, <<s, e>>) \in Seq(Nat \X Nat)
    <3>1. <<s, e>> \in Nat \X Nat
      OBVIOUS
    <3> QED BY <1>V, <3>1, AppendProperties
  <2> QED BY <2>1, <2>4, <2>5
<1> QED BY <1>1, <1>2, <1>t, <1>V, StrtokFinds

LEMMA TokenStepFinds ==
  ASSUME NEW str, Len(str) \in Nat, NEW k \in Nat,
         NEW v \in [args : Seq(Nat \X Nat), last : Nat], FoundWords(str, v, k)
  PROVE  FoundWords(str, TokenStep(str, v), k + 1)
<1>t. PICK u : u = TokenStep(str, v)
  OBVIOUS
<1>V. /\ v.args \in Seq(Nat \X Nat) /\ v.last \in Nat /\ Len(v.args) \in Nat
      /\ u.args \in Seq(Nat \X Nat) /\ u.last \in Nat
  BY <1>t, TokenSteps, LenProperties
<1>F. \A m : IsFiniteSet(Before(str, m))
  <2> TAKE m
  <2>1. Before(str, m) \subseteq Words(str)
    BY DEF Before
  <2> QED BY <2>1, WordsAre, FS_Subset
<1>1. CASE u = [args |-> v.args, last |-> 0] /\ NothingFrom(str, v.last)
  <2>1. u.args = v.args /\ u.last = 0
    BY <1>1
  <2>2. Cardinality(Words(str)) = Len(v.args)
    <3>1. CASE v.last = 0
      BY <3>1 DEF FoundWords
    <3>2. CASE v.last # 0
      <4>1. Words(str) = Before(str, v.last)
        BY <1>1, <1>V, <3>2, NoWordLeft
      <4> QED BY <3>2, <4>1 DEF FoundWords
    <3> QED BY <3>1, <3>2
  <2>3. Len(u.args) <= k + 1
    BY <1>V, <2>1 DEF FoundWords
  <2> QED BY <1>t, <1>V, <2>1, <2>2, <2>3 DEF FoundWords
<1>2. ASSUME NEW s \in Nat, NEW e \in Nat, RunFrom(str, v.last, s, e),
             u = [args |-> Append(v.args, <<s, e>>),
                  last |-> IF e = Len(str) + 1 THEN 0 ELSE e + 1]
      PROVE  FoundWords(str, u, k + 1)
  <2>1. u.args = Append(v.args, <<s, e>>) /\ u.last = IF e = Len(str) + 1 THEN 0 ELSE e + 1
    BY <1>2
  <2>2. v.last # 0 /\ e <= Len(str) + 1 /\ (e <= Len(str) => str[e] = Blank)
    BY <1>2 DEF RunFrom
  <2>3. Between(str, v.last) /\ Len(v.args) = k /\ Cardinality(Before(str, v.last)) = k
    BY <2>2 DEF FoundWords
  <2>4. /\ <<s, e>> \in Words(str) /\ <<s, e>> \notin Before(str, v.last)
        /\ Before(str, s) = Before(str, v.last)
        /\ Before(str, e + 1) = Before(str, v.last) \cup {<<s, e>>}
        /\ e = Len(str) + 1 => Words(str) = Before(str, e + 1)
    BY <1>2, <1>V, <2>3, RunIsNextWord
  <2>5. Cardinality(Before(str, s)) = k /\ Cardinality(Before(str, e + 1)) = k + 1
    <3>1. PICK B : B = Before(str, v.last)
      OBVIOUS
    <3>2. PICK w : w = <<s, e>>
      OBVIOUS
    <3>3. IsFiniteSet(B) /\ w \notin B /\ Cardinality(B) = k
      BY <1>F, <2>3, <2>4, <3>1, <3>2
    <3>4. Cardinality(B \cup {w}) = k + 1
      BY <3>3, FS_AddElement
    <3> QED BY <2>4, <3>1, <3>2, <3>3, <3>4
  <2>6. /\ Len(u.args) = k + 1 /\ u.args[k + 1] = <<s, e>>
        /\ \A j \in 1 .. k : u.args[j] = v.args[j]
    <3>1. <<s, e>> \in Nat \X Nat
      OBVIOUS
    <3> QED BY <1>V, <2>1, <2>3, <3>1, AppendProperties
  <2>7. ASSUME NEW j \in 1 .. Len(u.args)
        PROVE  u.args[j] \in Words(str) /\ Cardinality(Before(str, u.args[j][1])) = j - 1
    <3>1. CASE j = k + 1
      <4>1. u.args[j] = <<s, e>> /\ <<s, e>>[1] = s /\ j - 1 = k
        BY <2>6, <3>1
      <4> QED BY <2>4, <2>5, <4>1
    <3>2. CASE j # k + 1
      <4>1. j \in 1 .. k /\ j \in 1 .. Len(v.args)
        BY <2>3, <2>6, <3>2
      <4> QED BY <2>6, <4>1 DEF FoundWords
    <3> QED BY <3>1, <3>2
  <2>8. CASE e = Len(str) + 1
    <3>1. u.last = 0 /\ Cardinality(Words(str)) = Len(u.args)
      BY <2>1, <2>4, <2>5, <2>6, <2>8
    <3> QED BY <1>V, <2>6, <2>7, <3>1 DEF FoundWords
  <2>9. CASE e # Len(str) + 1
    <3>1. u.last = e + 1 /\ u.last # 0 /\ u.last - 1 = e /\ e <= Len(str)
      BY <2>1, <2>2, <2>9
    <3>2. Between(str, u.last)
      BY <2>2, <3>1 DEF Between, Blank
    <3>3. Cardinality(Before(str, u.last)) = k + 1
      BY <2>5, <3>1
    <3> QED BY <1>V, <2>6, <2>7, <3>1, <3>2, <3>3 DEF FoundWords
  <2> QED BY <2>8, <2>9
<1> QED BY <1>1, <1>2, <1>t, TokenSteps

\* What shell_tokenize returns, for any line.
LEMMA TokenizeFinds ==
  ASSUME NEW str, Len(str) \in Nat
  PROVE  \E v : shell_tokenize(str) = v.args /\ FoundWords(str, v, MAX_ARGS)
<1>n. PICK n \in Nat : n = MAX_ARGS
  BY ShellAssumption
<1>V. PICK V : V = [args : Seq(Nat \X Nat), last : Nat]
  OBVIOUS
<1>b. PICK b : b = [args |-> << >>, last |-> 1]
  OBVIOUS
<1> DEFINE go == [x \in (1 .. n) \X V |-> TokenStep(str, x[2])]
           Is(f) == f = [k \in 0 .. n |-> IF k = 0 THEN b ELSE TokenStep(str, f[k - 1])]
<1>1. b \in V
  BY <1>b, <1>V
<1>2. \A v \in V : TokenStep(str, v) \in V
  BY <1>V, TokenSteps
<1>3. IsLoopStep(go, n, V)
  <2>1. \A x \in (1 .. n) \X V : x[2] \in V
    OBVIOUS
  <2> QED BY <1>2, <2>1 DEF IsLoopStep
<1>4. \A k \in 1 .. n, v \in V : go[<<k, v>>] = TokenStep(str, v)
  OBVIOUS
<1> HIDE DEF go
<1>5. PICK f : IsLoop(f, n, V, b, go)
  BY <1>1, <1>3, LoopFunction
<1>6. /\ f \in [0 .. n -> V]
      /\ f = [k \in 0 .. n |-> IF k = 0 THEN b ELSE go[<<k, f[k - 1]>>]]
  BY <1>5 DEF IsLoop
<1>7. Is(f)
  <2>1. \A k \in 0 .. n : k # 0 => k \in 1 .. n /\ k - 1 \in 0 .. n
    OBVIOUS
  <2>2. \A k \in 0 .. n : k # 0 => go[<<k, f[k - 1]>>] = TokenStep(str, f[k - 1])
    BY <1>4, <1>6, <2>1
  <2> QED BY <1>6, <2>2
<1>8. PICK s : s = CHOOSE g : Is(g)
  OBVIOUS
<1>9. Is(s)
  BY <1>7, <1>8
<1>10. shell_tokenize(str) = s[n].args
  BY <1>8, <1>n, <1>b DEF shell_tokenize, TokenStep
<1>11. s[0] = b
  BY <1>9
<1>12. \A k \in 1 .. n : s[k] = TokenStep(str, s[k - 1])
  <2>1. \A k \in 1 .. n : k \in 0 .. n /\ k # 0
    OBVIOUS
  <2> QED BY <1>9, <2>1
<1> HIDE DEF Is
<1> DEFINE S == {k \in 0 .. n : s[k] \in V /\ FoundWords(str, s[k], k)}
<1>13. 0 \in S
  <2>1. b.args = << >> /\ b.last = 1 /\ Len(<< >>) = 0 /\ << >> \in Seq(Nat \X Nat)
    BY <1>b
  <2>2. Before(str, 1) = {}
    <3>1. \A w \in Words(str) : ~(w[1] < 1)
      BY WordsAre
    <3> QED BY <3>1 DEF Before
  <2>3. Cardinality(Before(str, b.last)) = 0 /\ Between(str, b.last)
    BY <2>1, <2>2, FS_EmptySet DEF Between
  <2>4. Len(b.args) = 0 /\ b.args \in Seq(Nat \X Nat) /\ b.last # 0 /\ b.last \in Nat
    BY <2>1
  <2>5. 1 .. Len(b.args) = {} /\ Len(b.args) <= 0
    BY <2>4
  <2>6. FoundWords(str, b, 0)
    BY <2>3, <2>4, <2>5 DEF FoundWords
  <2> QED BY <1>1, <1>11, <2>6
<1>14. ASSUME NEW k \in 0 .. n - 1, k \in S PROVE k + 1 \in S
  <2>1. k + 1 \in 1 .. n /\ (k + 1) - 1 = k /\ k + 1 \in 0 .. n /\ k \in Nat
    OBVIOUS
  <2>2. s[k + 1] = TokenStep(str, s[k])
    BY <1>12, <2>1
  <2>3. s[k] \in V /\ FoundWords(str, s[k], k)
    BY <1>14
  <2>4. FoundWords(str, TokenStep(str, s[k]), k + 1)
    <3> HIDE DEF S
    <3> QED BY <1>V, <2>1, <2>3, TokenStepFinds
  <2> QED BY <1>2, <2>1, <2>2, <2>3, <2>4
<1> HIDE DEF S
<1>15. 0 .. n \subseteq S
  BY <1>13, <1>14, IntervalInduction
<1>16. FoundWords(str, s[n], n)
  BY <1>15 DEF S
<1> QED BY <1>10, <1>16, <1>n

\* For every line and every limit MAX_ARGS, shell_tokenize delivers the words of the
\* line from left to right: strtok's saved position never skips or splits one.
THEOREM ArgumentsAreWords == ShellSpec => []ArgsAreWords
<1>1. ShellInv => ArgsAreWords
  <2> SUFFICES ASSUME ShellInv
               PROVE  LET args  == shell_tokenize(line)
                          words == Words(line)
                      IN  /\ Len(args) = Min({MAX_ARGS, Cardinality(words)})
                          /\ \A k \in DOMAIN args :
                               /\ args[k] \in words
                               /\ Cardinality({w \in words : w[1] < args[k][1]}) = k - 1
    BY DEF ArgsAreWords
  <2>1. Len(line) \in Nat
    BY LenProperties DEF ShellInv
  <2>2. PICK v : shell_tokenize(line) = v.args /\ FoundWords(line, v, MAX_ARGS)
    BY <2>1, TokenizeFinds
  <2>3. PICK args : args = v.args
    OBVIOUS
  <2>4. /\ args \in Seq(Nat \X Nat) /\ Len(args) <= MAX_ARGS
        /\ \A j \in 1 .. Len(args) :
             args[j] \in Words(line) /\ Cardinality(Before(line, args[j][1])) = j - 1
        /\ \/ Cardinality(Words(line)) = Len(args)
           \/ \E l : Len(args) = MAX_ARGS /\ Cardinality(Before(line, l)) = MAX_ARGS
    BY <2>2, <2>3 DEF FoundWords
  <2>5. DOMAIN args = 1 .. Len(args) /\ Len(args) \in Nat
    BY <2>4, LenProperties
  <2>6. MAX_ARGS \in Nat /\ Cardinality(Words(line)) \in Nat
    BY <2>1, ShellAssumption, WordsAre, FS_CardinalityType
  <2>7. \A l : Cardinality(Before(line, l)) <= Cardinality(Words(line))
    <3> TAKE l
    <3>1. Before(line, l) \subseteq Words(line)
      BY DEF Before
    <3> QED BY <2>1, <3>1, WordsAre, FS_Subset
  <2>8. Len(args) = Min({MAX_ARGS, Cardinality(Words(line))})
    <3>a. PICK a \in Nat : a = Len(args)
      BY <2>5
    <3>m. PICK m \in Nat : m = MAX_ARGS
      BY <2>6
    <3>c. PICK c \in Nat : c = Cardinality(Words(line))
      BY <2>6
    <3>1. a <= m /\ (a = c \/ (a = m /\ m <= c))
      BY <2>4, <2>7, <3>a, <3>m, <3>c
    <3>2. Min({m, c}) \in {m, c} /\ \A y \in {m, c} : Min({m, c}) <= y
      BY MinOfNats
    <3>3. a = Min({m, c})
      <4>1. PICK b : b = Min({m, c})
        OBVIOUS
      <4> QED BY <3>1, <3>2, <4>1
    <3> QED BY <3>3, <3>a, <3>m, <3>c
  <2>9. \A k \in DOMAIN args : /\ args[k] \in Words(line)
                               /\ Cardinality({w \in Words(line) : w[1] < args[k][1]}) = k - 1
    BY <2>4, <2>5 DEF Before
  <2> QED BY <2>2, <2>3, <2>8, <2>9
<1> QED BY <1>1, ShellInvariance, PTL
=============================================================================
