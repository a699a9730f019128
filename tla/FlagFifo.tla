------------------------------ MODULE FlagFifo ------------------------------
(***************************************************************************)
(* What a character FIFO of the core promises: a sequence of at most       *)
(* Size - 1 characters with registered flags.  A write when the full flag  *)
(* is up is lost, a read when the valid flag is down does nothing.  The    *)
(* flags look one operation back: valid does not count this clock's write, *)
(* full, half and room do not count this clock's read.  SpwStream uses its *)
(* two FIFOs in this form.                                                 *)
(***************************************************************************)
EXTENDS Naturals, Sequences

CONSTANTS
  Size,      \* words of memory
  RoomCap,   \* the largest room that is reported (63 in the code)
  Chars      \* what is stored

VARIABLES q, head, valid, full, half, room

fifoVars == <<q, head, valid, full, half, room>>

QueueInit ==
  /\ q = <<>> /\ valid = FALSE
  /\ full = FALSE /\ half = FALSE /\ room = 0

(* The flags of a FIFO that holds n characters. *)
QueueFlags(n) ==
  /\ full' = (n = Size - 1)
  /\ half' = (2 * n >= Size)
  /\ room' = IF Size - 1 - n > RoomCap THEN RoomCap ELSE Size - 1 - n

QueueStep(filled, read) ==
  /\ q' = IF read /\ valid THEN Tail(filled) ELSE filled
  /\ valid' = (Len(q) > IF read /\ valid THEN 1 ELSE 0)
  /\ valid' => head' = Head(q')
  /\ QueueFlags(Len(filled))

QueueWrite(char, read) == ~full /\ QueueStep(Append(q, char), read)

QueueNoWrite(read) == QueueStep(q, read)

(* In reset the FIFO is emptied; the flags still describe what it held. *)
QueueReset(filled) ==
  /\ q' = <<>> /\ valid' = FALSE
  /\ QueueFlags(Len(filled))

QueueNext ==
  \/ \E char \in Chars, read \in BOOLEAN : QueueWrite(char, read)
  \/ \E read \in BOOLEAN : QueueNoWrite(read)
  \/ QueueReset(q)
  \/ \E char \in Chars : ~full /\ QueueReset(Append(q, char))

QueueSpec == QueueInit /\ [][QueueNext]_fifoVars
=============================================================================
