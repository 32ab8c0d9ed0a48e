------------------------------ MODULE KeyQueue ------------------------------
(***************************************************************************)
(* What the keyboard driver promises its readers: a bounded first-in       *)
(* first-out queue of characters.  A key pressed when the queue is full is *)
(* lost, and a read of an empty queue returns NUL.                         *)
(***************************************************************************)
EXTENDS Integers, Sequences

CONSTANTS Cap, QChar, QNul

VARIABLES
  queue,   \* the characters typed and not yet read, oldest first
  got,     \* the last character returned to a reader
  clears   \* flips whenever the queue is cleared on request

queueVars == <<queue, got, clears>>

QueueInit == queue = << >> /\ got = QNul /\ clears = 0

Put(c) ==
  /\ Len(queue) < Cap
  /\ queue' = Append(queue, c)
  /\ UNCHANGED <<got, clears>>

Get ==
  /\ queue # << >>
  /\ got' = Head(queue)
  /\ queue' = Tail(queue)
  /\ UNCHANGED clears

GetNothing ==
  /\ queue = << >>
  /\ got' = QNul
  /\ UNCHANGED <<queue, clears>>

Clear ==
  /\ queue' = << >>
  /\ clears' = 1 - clears
  /\ UNCHANGED got

QueueNext == (\E c \in QChar : Put(c)) \/ Get \/ GetNothing \/ Clear

QueueSpec == QueueInit /\ [][QueueNext]_queueVars
=============================================================================
