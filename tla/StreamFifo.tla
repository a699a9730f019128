----------------------------- MODULE StreamFifo -----------------------------
(***************************************************************************)
(* A character FIFO of spwstream as it is built: a ring of Size words in a *)
(* synchronous RAM (spwram) with a read and a write pointer.  The RAM      *)
(* shows at its output the word that the read pointer's new value selects, *)
(* as it was before this clock's write.                                    *)
(*                                                                         *)
(* The receive and the transmit FIFO differ only in who writes and who     *)
(* reads; the user of this module says so with the arguments of FifoClock. *)
(***************************************************************************)
EXTENDS Naturals, Sequences

CONSTANTS Size, RoomCap, Chars

ASSUME SizeAssumption == Size \in Nat /\ Size > 1 /\ Size % 2 = 0   \* a power of two in the code
ASSUME RoomAssumption == RoomCap \in Nat

Nothing == "nothing"   \* what a memory word holds before it is written

ASSUME CharsAssumption == Nothing \notin Chars

VARIABLES
  mem,     \* the memory
  raddr,   \* next word to read
  waddr,   \* next word to write
  rdata,   \* output of the memory
  rvalid,  \* rdata is a character
  full,    \* the flags and the room, as registered
  half,
  room

ringVars == <<mem, raddr, waddr, rdata, rvalid, full, half, room>>

Address == 0..(Size - 1)

FifoInit ==
  /\ mem = [a \in Address |-> Nothing]
  /\ raddr = 0 /\ waddr = 0
  /\ rdata = Nothing /\ rvalid = FALSE
  /\ full = FALSE /\ half = FALSE /\ room = 0

stores(char) == char # Nothing /\ ~full
takes(read)  == read /\ rvalid

nextRaddr(read) == IF takes(read) THEN (raddr + 1) % Size ELSE raddr
nextWaddr(char) == IF stores(char) THEN (waddr + 1) % Size ELSE waddr

Memory(char, read) ==
  /\ mem' = IF stores(char) THEN [mem EXCEPT ![waddr] = char] ELSE mem
  /\ rdata' = mem[nextRaddr(read)]

roomLeft(char) == (raddr + Size + Size - nextWaddr(char) - 1) % Size

FifoFlags(char) ==
  /\ full' = (roomLeft(char) = 0)
  /\ half' = (2 * roomLeft(char) < Size)
  /\ room' = IF roomLeft(char) > RoomCap THEN RoomCap ELSE roomLeft(char)

(* Fault: a word is announced in the clock in which it is written. *)
ValidAtOnce(char, read) == nextRaddr(read) # nextWaddr(char)

readable(char, read) == nextRaddr(read) # waddr

FifoClock(char, read) ==
  /\ raddr' = nextRaddr(read)
  /\ waddr' = nextWaddr(char)
  /\ rvalid' = readable(char, read)
  /\ Memory(char, read)
  /\ FifoFlags(char)

FifoReset(char, read) ==
  /\ raddr' = 0 /\ waddr' = 0 /\ rvalid' = FALSE
  /\ Memory(char, read)
  /\ FifoFlags(char)

FifoNext ==
  \E char \in Chars \cup {Nothing}, read \in BOOLEAN :
    FifoClock(char, read) \/ FifoReset(char, read)

FifoSpec == FifoInit /\ [][FifoNext]_ringVars

FifoTypeOK ==
  /\ mem \in [Address -> Chars \cup {Nothing}]
  /\ raddr \in Address /\ waddr \in Address
  /\ rdata \in Chars \cup {Nothing} /\ rvalid \in BOOLEAN
  /\ full \in BOOLEAN /\ half \in BOOLEAN
  /\ room \in 0..RoomCap

(***************************************************************************)
(* The ring is a queue: what lies between the two pointers is the          *)
(* sequence of characters written and not read.  The read side shows its   *)
(* head whenever it is valid, also when the word was written a clock ago   *)
(* into the place being read; no write ever laps the reader.               *)
(***************************************************************************)
held == (waddr + Size - raddr) % Size

contents == [i \in 1..held |-> mem[(raddr + i - 1) % Size]]

Queue == INSTANCE FlagFifo WITH q <- contents, head <- rdata, valid <- rvalid

ImplementsQueue == Queue!QueueSpec
=============================================================================
