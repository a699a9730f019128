----------------------------- MODULE PartsProofs ----------------------------
(***************************************************************************)
(* Proofs about the smaller parts.  The ring of memory words and the       *)
(* receive bridge, for every size: the ring is the queue of FlagFifo, and  *)
(* the bridge gives what was written, in order and once.  The builds, for  *)
(* every set of options: a build that reports success is fresh.  The bit   *)
(* clock of the fast transmitter, for every divider.                       *)
(***************************************************************************)
EXTENDS AxisRx, BuildFlow, TxDivider, SequenceTheorems, TLAPS

Word == Chars \cup {Nothing}

(* What is readable is shown, and a full ring is flagged. *)
FifoInv ==
  /\ FifoTypeOK
  /\ rvalid => raddr # waddr /\ rdata = mem[raddr]
  /\ held = Size - 1 => full

(***************************************************************************)
(* Counting around the ring.                                               *)
(***************************************************************************)
LEMMA Modulo ==
  ASSUME NEW x \in 0..(2 * Size - 1)
  PROVE  x % Size = IF x < Size THEN x ELSE x - Size
BY SizeAssumption

LEMMA ModuloTwice ==
  ASSUME NEW x \in Size..(3 * Size - 1)
  PROVE  x % Size = IF x < 2 * Size THEN x - Size ELSE x - 2 * Size
BY SizeAssumption

LEMMA Half ==
  ASSUME NEW n \in 0..(Size - 1)
  PROVE  2 * (Size - 1 - n) < Size <=> 2 * n >= Size
BY SizeAssumption

LEMMA Distance ==
  ASSUME NEW r \in 0..(Size - 1), NEW w \in 0..(Size - 1)
  PROVE  /\ (w + Size - r) % Size = IF w >= r THEN w - r ELSE w - r + Size
         /\ (w + Size - r) % Size \in 0..(Size - 1)
         /\ (w + Size - r) % Size = 0 <=> r = w
<1> DEFINE x == w + Size - r
<1>1. x \in 0..(2 * Size - 1)
  BY SizeAssumption
<1> HIDE DEF x
<1>2. x % Size = IF x < Size THEN x ELSE x - Size
  BY <1>1, Modulo
<1>3. (w + Size - r) % Size = IF w >= r THEN w - r ELSE w - r + Size
  BY <1>2, SizeAssumption DEF x
<1> QED BY <1>3, SizeAssumption

Spot(r, j) == (r + j - 1) % Size

LEMMA Spots ==
  ASSUME NEW r \in 0..(Size - 1), NEW j \in 1..Size
  PROVE  /\ Spot(r, j) = IF r + j - 1 < Size THEN r + j - 1 ELSE r + j - 1 - Size
         /\ Spot(r, j) \in Address
<1> DEFINE x == r + j - 1
<1>1. x \in 0..(2 * Size - 1)
  BY SizeAssumption
<1> HIDE DEF x
<1>2. x % Size = IF x < Size THEN x ELSE x - Size
  BY <1>1, Modulo
<1> QED BY <1>1, <1>2, SizeAssumption DEF x, Spot, Address

LEMMA HeldIs ==
  ASSUME FifoTypeOK
  PROVE  /\ held = IF waddr >= raddr THEN waddr - raddr ELSE waddr - raddr + Size
         /\ held \in 0..(Size - 1)
         /\ held = 0 <=> raddr = waddr
<1>1. raddr \in 0..(Size - 1) /\ waddr \in 0..(Size - 1)
  BY DEF FifoTypeOK, Address
<1> QED BY <1>1, Distance DEF held

Place(j) == Spot(raddr, j)

LEMMA Places ==
  ASSUME FifoTypeOK, NEW j \in 1..Size
  PROVE  Place(j) \in Address /\ (Place(j) = waddr <=> j = held + 1)
<1>1. raddr \in 0..(Size - 1) /\ waddr \in 0..(Size - 1)
  BY DEF FifoTypeOK, Address
<1>2. /\ Place(j) = IF raddr + j - 1 < Size THEN raddr + j - 1 ELSE raddr + j - 1 - Size
      /\ Place(j) \in Address
  BY <1>1, Spots DEF Place
<1>3. held = IF waddr >= raddr THEN waddr - raddr ELSE waddr - raddr + Size
  BY HeldIs
<1> QED BY <1>1, <1>2, <1>3, SizeAssumption

(* The words of a memory from r on, n of them. *)
Words(m, r, n) == [j \in 1..n |-> m[Spot(r, j)]]

LEMMA WordsOK ==
  ASSUME NEW m \in [Address -> Word], NEW r \in 0..(Size - 1), NEW n \in 0..Size
  PROVE  /\ Words(m, r, n) \in Seq(Word) /\ Len(Words(m, r, n)) = n
         /\ \A j \in 1..n : Words(m, r, n)[j] = m[Spot(r, j)]
         /\ n # 0 => Words(m, r, n) # <<>> /\ Head(Words(m, r, n)) = m[r]
<1>1. n \in Nat /\ \A j \in 1..n : j \in 1..Size
  BY SizeAssumption
<1>2. \A j \in 1..n : m[Spot(r, j)] \in Word
  BY <1>1, Spots
<1>3. /\ Words(m, r, n) \in Seq(Word) /\ Len(Words(m, r, n)) = n
      /\ \A j \in 1..n : Words(m, r, n)[j] = m[Spot(r, j)]
  BY <1>1, <1>2 DEF Words
<1>4. n # 0 => Spot(r, 1) = r
  BY Spots, SizeAssumption
<1> QED BY <1>1, <1>3, <1>4

LEMMA ContentsOK ==
  ASSUME FifoTypeOK
  PROVE  /\ contents = Words(mem, raddr, held)
         /\ contents \in Seq(Word) /\ Len(contents) = held
         /\ \A j \in 1..held : contents[j] = mem[Place(j)]
         /\ held # 0 => contents # <<>> /\ Head(contents) = mem[raddr]
<1>1. mem \in [Address -> Word] /\ raddr \in 0..(Size - 1) /\ held \in 0..Size
  BY HeldIs, SizeAssumption DEF FifoTypeOK, Address, Word
<1>2. contents = Words(mem, raddr, held)
  BY DEF contents, Words, Spot
<1> QED BY <1>1, <1>2, WordsOK DEF Place

(***************************************************************************)
(* One clock of the ring, as a queue.                                      *)
(***************************************************************************)
filled(char) == IF stores(char) THEN Append(contents, char) ELSE contents

LEMMA FilledOK ==
  ASSUME FifoInv, NEW char \in Word
  PROVE  /\ filled(char) \in Seq(Word)
         /\ Len(filled(char)) = held + (IF stores(char) THEN 1 ELSE 0)
         /\ Len(filled(char)) \in 0..(Size - 1)
         /\ \A j \in 1..held : filled(char)[j] = mem[Place(j)]
         /\ stores(char) => held < Size - 1 /\ filled(char)[held + 1] = char
<1>1. contents \in Seq(Word) /\ Len(contents) = held /\ held \in 0..(Size - 1)
      /\ \A j \in 1..held : contents[j] = mem[Place(j)]
  BY ContentsOK, HeldIs DEF FifoInv
<1>2. CASE stores(char)
  <2>1. held < Size - 1
    BY <1>1, <1>2, SizeAssumption DEF FifoInv, stores
  <2>2. filled(char) = Append(contents, char)
    BY <1>2 DEF filled
  <2> QED BY <1>1, <1>2, <2>1, <2>2, SizeAssumption
<1>3. CASE ~stores(char)
  BY <1>1, <1>3 DEF filled
<1> QED BY <1>2, <1>3

LEMMA RoomIs ==
  ASSUME FifoInv, NEW char \in Word
  PROVE  /\ nextWaddr(char) \in Address
         /\ roomLeft(char) = Size - 1 - Len(filled(char))
<1>1. raddr \in 0..(Size - 1) /\ waddr \in 0..(Size - 1)
  BY DEF FifoInv, FifoTypeOK, Address
<1>2. nextWaddr(char) = IF stores(char) THEN IF waddr = Size - 1 THEN 0 ELSE waddr + 1 ELSE waddr
  BY <1>1, Modulo, SizeAssumption DEF nextWaddr
<1>3. nextWaddr(char) \in 0..(Size - 1)
  BY <1>1, <1>2, SizeAssumption
<1>4. raddr + Size + Size - nextWaddr(char) - 1 \in Size..(3 * Size - 1)
  BY <1>1, <1>3, SizeAssumption
<1>5. roomLeft(char) = LET x == raddr + Size + Size - nextWaddr(char) - 1
                       IN IF x < 2 * Size THEN x - Size ELSE x - 2 * Size
  BY <1>4, ModuloTwice DEF roomLeft
<1>6. Len(filled(char)) = held + (IF stores(char) THEN 1 ELSE 0) /\ (stores(char) => held < Size - 1)
  BY FilledOK
<1>7. held = IF waddr >= raddr THEN waddr - raddr ELSE waddr - raddr + Size
  BY HeldIs DEF FifoInv
<1>8. CASE stores(char)
  BY <1>1, <1>2, <1>3, <1>5, <1>6, <1>7, <1>8, SizeAssumption DEF Address
<1>9. CASE ~stores(char)
  BY <1>1, <1>2, <1>3, <1>5, <1>6, <1>7, <1>9, SizeAssumption DEF Address
<1> QED BY <1>8, <1>9

LEMMA FlagsAre ==
  ASSUME FifoInv, NEW char \in Word, FifoFlags(char)
  PROVE  /\ full' = (Len(filled(char)) = Size - 1)
         /\ half' = (2 * Len(filled(char)) >= Size)
         /\ room' = IF Size - 1 - Len(filled(char)) > RoomCap THEN RoomCap
                                                              ELSE Size - 1 - Len(filled(char))
         /\ full' \in BOOLEAN /\ half' \in BOOLEAN /\ room' \in 0..RoomCap
<1> DEFINE n == Len(filled(char))
<1>1. n \in 0..(Size - 1) /\ roomLeft(char) = Size - 1 - n
  BY FilledOK, RoomIs
<1> HIDE DEF n
<1>2. 2 * (Size - 1 - n) < Size <=> 2 * n >= Size
  BY <1>1, Half
<1>3. Size - 1 - n = 0 <=> n = Size - 1
  BY <1>1, SizeAssumption
<1>4. /\ full' = (roomLeft(char) = 0) /\ half' = (2 * roomLeft(char) < Size)
      /\ room' = IF roomLeft(char) > RoomCap THEN RoomCap ELSE roomLeft(char)
  BY DEF FifoFlags
<1>5. full' = (n = Size - 1) /\ half' = (2 * n >= Size)
  BY <1>1, <1>2, <1>3, <1>4
<1>6. room' = (IF Size - 1 - n > RoomCap THEN RoomCap ELSE Size - 1 - n) /\ room' \in 0..RoomCap
  BY <1>1, <1>4, SizeAssumption, RoomAssumption
<1> QED BY <1>5, <1>6 DEF n

LEMMA MemoryOK ==
  ASSUME FifoInv, NEW char \in Word, NEW read, Memory(char, read), nextRaddr(read) \in Address
  PROVE  /\ mem' \in [Address -> Word] /\ rdata' \in Word
         /\ \A j \in 1..Size : mem'[Place(j)] = IF stores(char) /\ j = held + 1 THEN char
                                                ELSE mem[Place(j)]
<1>1. mem \in [Address -> Word] /\ waddr \in Address
  BY DEF FifoInv, FifoTypeOK, Word
<1>2. mem' = IF stores(char) THEN [mem EXCEPT ![waddr] = char] ELSE mem
  BY DEF Memory
<1>3. mem' \in [Address -> Word] /\ rdata' \in Word
  BY <1>1, <1>2 DEF Memory
<1>4. ASSUME NEW j \in 1..Size
      PROVE  mem'[Place(j)] = IF stores(char) /\ j = held + 1 THEN char ELSE mem[Place(j)]
  <2>1. Place(j) \in Address /\ (Place(j) = waddr <=> j = held + 1)
    BY Places DEF FifoInv
  <2> QED BY <1>1, <1>2, <2>1
<1> QED BY <1>3, <1>4

LEMMA ReaderMoves ==
  ASSUME FifoInv, NEW read \in BOOLEAN
  PROVE  /\ nextRaddr(read) \in Address
         /\ nextRaddr(read) = IF takes(read) THEN IF raddr = Size - 1 THEN 0 ELSE raddr + 1 ELSE raddr
         /\ takes(read) => held > 0
         /\ nextRaddr(read) # waddr <=> held > (IF takes(read) THEN 1 ELSE 0)
<1>1. raddr \in 0..(Size - 1) /\ waddr \in 0..(Size - 1)
  BY DEF FifoInv, FifoTypeOK, Address
<1>2. nextRaddr(read) = IF takes(read) THEN IF raddr = Size - 1 THEN 0 ELSE raddr + 1 ELSE raddr
  BY <1>1, Modulo, SizeAssumption DEF nextRaddr
<1>3. held = (IF waddr >= raddr THEN waddr - raddr ELSE waddr - raddr + Size)
      /\ (takes(read) => raddr # waddr)
  BY HeldIs DEF FifoInv, takes
<1> QED BY <1>1, <1>2, <1>3, SizeAssumption DEF Address

LEMMA ClockIsQueue ==
  ASSUME FifoInv, NEW char \in Word, NEW read \in BOOLEAN, FifoClock(char, read)
  PROVE  /\ FifoTypeOK'
         /\ contents' = IF takes(read) THEN Tail(filled(char)) ELSE filled(char)
         /\ takes(read) => filled(char) # <<>>
<1> DEFINE s == IF stores(char) THEN 1 ELSE 0
           t == IF takes(read) THEN 1 ELSE 0
           f == filled(char)
           c == IF takes(read) THEN Tail(f) ELSE f
<1>1. /\ nextRaddr(read) \in Address /\ nextWaddr(char) \in Address
      /\ raddr' = nextRaddr(read) /\ waddr' = nextWaddr(char) /\ rvalid' = readable(char, read)
      /\ Memory(char, read) /\ FifoFlags(char)
  BY ReaderMoves, RoomIs DEF FifoClock
<1>2. FifoTypeOK'
  <2>1. rvalid' \in BOOLEAN
    BY <1>1 DEF readable
  <2> QED BY <1>1, <2>1, MemoryOK, FlagsAre DEF FifoTypeOK, Word
<1>3. /\ f \in Seq(Word) /\ Len(f) = held + s /\ Len(f) \in 0..(Size - 1)
      /\ \A j \in 1..held : f[j] = mem[Place(j)]
      /\ stores(char) => held < Size - 1 /\ f[held + 1] = char
      /\ takes(read) => held > 0
      /\ held \in 0..(Size - 1)
  BY FilledOK, ReaderMoves, HeldIs DEF FifoInv
<1>4. takes(read) => f # <<>>
  BY <1>3
<1>5. c \in Seq(Word) /\ Len(c) = held + s - t
  <2>1. CASE takes(read)
    BY <1>3, <1>4, <2>1, HeadTailProperties
  <2>2. CASE ~takes(read)
    BY <1>3, <2>2
  <2> QED BY <2>1, <2>2
<1>6. ASSUME NEW i \in 1..(held + s - t)
      PROVE  c[i] = f[i + t]
  <2>1. CASE takes(read)
    <3>1. i \in 1..Len(Tail(f))
      BY <1>3, <1>5, <2>1
    <3> QED BY <1>3, <1>4, <2>1, <3>1, HeadTailProperties
  <2>2. CASE ~takes(read)
    BY <2>2
  <2> QED BY <2>1, <2>2
<1>7. held' = held + s - t
  <2>1. raddr \in 0..(Size - 1) /\ waddr \in 0..(Size - 1)
    BY DEF FifoInv, FifoTypeOK, Address
  <2>2. waddr' = IF stores(char) THEN IF waddr = Size - 1 THEN 0 ELSE waddr + 1 ELSE waddr
    BY <1>1, <2>1, Modulo, SizeAssumption DEF nextWaddr
  <2>3. raddr' = IF takes(read) THEN IF raddr = Size - 1 THEN 0 ELSE raddr + 1 ELSE raddr
    BY <1>1, ReaderMoves
  <2>4. held = IF waddr >= raddr THEN waddr - raddr ELSE waddr - raddr + Size
    BY HeldIs DEF FifoInv
  <2>5. held' = IF waddr' >= raddr' THEN waddr' - raddr' ELSE waddr' - raddr' + Size
    BY <1>2, Distance DEF held, FifoTypeOK, Address
  <2>6. CASE stores(char) /\ takes(read)
    BY <1>3, <2>1, <2>2, <2>3, <2>4, <2>5, <2>6, SizeAssumption
  <2>7. CASE stores(char) /\ ~takes(read)
    BY <1>3, <2>1, <2>2, <2>3, <2>4, <2>5, <2>7, SizeAssumption
  <2>8. CASE ~stores(char) /\ takes(read)
    BY <1>3, <2>1, <2>2, <2>3, <2>4, <2>5, <2>8, SizeAssumption
  <2>9. CASE ~stores(char) /\ ~takes(read)
    BY <1>3, <2>1, <2>2, <2>3, <2>4, <2>5, <2>9, SizeAssumption
  <2> QED BY <2>6, <2>7, <2>8, <2>9
<1>8. contents' \in Seq(Word) /\ Len(contents') = held'
      /\ \A j \in 1..held' : contents'[j] = mem'[Spot(raddr', j)]
  <2>1. mem' \in [Address -> Word] /\ raddr' \in 0..(Size - 1) /\ held' \in 0..Size
    BY <1>2, <1>3, <1>5, <1>7, SizeAssumption DEF FifoTypeOK, Address, Word
  <2>2. contents' = Words(mem', raddr', held')
    BY DEF contents, Words, Spot
  <2> QED BY <2>1, <2>2, WordsOK
<1>9. ASSUME NEW i \in 1..(held + s - t)
      PROVE  contents'[i] = c[i]
  <2>1. i + t \in 1..(held + s) /\ held + s <= Size - 1 /\ s \in {0, 1} /\ t \in {0, 1}
      /\ i \in 1..Size /\ held \in 0..(Size - 1)
    BY <1>3, SizeAssumption
  <2> HIDE DEF s, t
  <2>2. Spot(raddr', i) = Place(i + t)
    <3>1. raddr \in 0..(Size - 1) /\ raddr' \in 0..(Size - 1)
      BY <1>2 DEF FifoInv, FifoTypeOK, Address
    <3>2. raddr' = IF takes(read) THEN IF raddr = Size - 1 THEN 0 ELSE raddr + 1 ELSE raddr
      BY <1>1, ReaderMoves
    <3>3. i \in 1..Size /\ i + t \in 1..Size
      BY <2>1, SizeAssumption
    <3>4. Spot(raddr', i) = IF raddr' + i - 1 < Size THEN raddr' + i - 1 ELSE raddr' + i - 1 - Size
      BY <3>1, <3>3, Spots
    <3>5. Place(i + t) = IF raddr + (i + t) - 1 < Size THEN raddr + (i + t) - 1
                                                       ELSE raddr + (i + t) - 1 - Size
      BY <3>1, <3>3, Spots DEF Place
    <3>6. CASE takes(read)
      <4>1. t = 1
        BY <3>6 DEF t
      <4> QED BY <2>1, <3>1, <3>2, <3>3, <3>4, <3>5, <3>6, <4>1, SizeAssumption
    <3>7. CASE ~takes(read)
      <4>1. t = 0
        BY <3>7 DEF t
      <4> QED BY <2>1, <3>1, <3>2, <3>3, <3>4, <3>5, <3>7, <4>1, SizeAssumption
    <3> QED BY <3>6, <3>7
  <2>3. mem'[Place(i + t)] = IF stores(char) /\ i + t = held + 1 THEN char ELSE mem[Place(i + t)]
    <3>1. i + t \in 1..Size
      BY <2>1, SizeAssumption
    <3> QED BY <1>1, <3>1, MemoryOK
  <2>4. f[i + t] = mem'[Place(i + t)]
    <3>1. CASE i + t <= held
      <4>1. i + t \in 1..held /\ i + t # held + 1
        BY <1>3, <2>1, <3>1
      <4> QED BY <1>3, <2>3, <4>1
    <3>2. CASE i + t > held
      <4>1. i + t = held + 1 /\ stores(char)
        BY <1>3, <2>1, <3>2 DEF s
      <4> QED BY <1>3, <2>3, <4>1
    <3> QED BY <1>3, <2>1, <3>1, <3>2
  <2> QED BY <1>6, <1>7, <1>8, <2>2, <2>4
<1>10. contents' = c
  <2>1. Len(contents') = Len(c)
    BY <1>5, <1>7, <1>8
  <2> HIDE DEF c, s, t
  <2> QED BY <1>5, <1>7, <1>8, <1>9, <2>1, SeqEqual
<1> QED BY <1>2, <1>4, <1>10

(* In both ways a step of the ring starts: after a clock, what the read    *)
(* side shows is the head, and a full ring is flagged.                     *)
LEMMA ClockKeeps ==
  ASSUME FifoInv, NEW char \in Word, NEW read \in BOOLEAN, FifoClock(char, read)
  PROVE  /\ FifoInv'
         /\ rvalid' = (held > IF takes(read) THEN 1 ELSE 0)
         /\ rvalid' => rdata' = Head(contents')
<1>1. /\ FifoTypeOK'
      /\ contents' = IF takes(read) THEN Tail(filled(char)) ELSE filled(char)
      /\ takes(read) => filled(char) # <<>>
  BY ClockIsQueue
<1>2. /\ raddr \in Address /\ raddr' = nextRaddr(read) /\ raddr' \in Address
      /\ Memory(char, read) /\ FifoFlags(char)
      /\ rvalid' = (raddr' # waddr)
      /\ rvalid' = (held > IF takes(read) THEN 1 ELSE 0)
      /\ takes(read) => held > 0
  BY ReaderMoves DEF FifoClock, readable, FifoInv, FifoTypeOK
<1>3. /\ filled(char) \in Seq(Word)
      /\ Len(filled(char)) = held + (IF stores(char) THEN 1 ELSE 0)
      /\ Len(filled(char)) \in 0..(Size - 1) /\ held \in 0..(Size - 1)
      /\ full' = (Len(filled(char)) = Size - 1)
  BY <1>2, FilledOK, FlagsAre, HeldIs DEF FifoInv
<1>4. /\ held' \in 0..(Size - 1)
      /\ held' = IF waddr' >= raddr' THEN waddr' - raddr' ELSE waddr' - raddr' + Size
      /\ held' = 0 <=> raddr' = waddr'
      /\ contents' = Words(mem', raddr', held')
      /\ mem' \in [Address -> Word] /\ raddr' \in 0..(Size - 1)
  <2>1. raddr' \in 0..(Size - 1) /\ waddr' \in 0..(Size - 1) /\ mem' \in [Address -> Word]
    BY <1>1 DEF FifoTypeOK, Address, Word
  <2>2. held' = IF waddr' >= raddr' THEN waddr' - raddr' ELSE waddr' - raddr' + Size
    BY <2>1, Distance DEF held
  <2>3. contents' = Words(mem', raddr', held')
    BY DEF contents, Words, Spot
  <2>4. held' \in 0..(Size - 1) /\ (held' = 0 <=> raddr' = waddr')
    BY <2>1, Distance DEF held
  <2> QED BY <2>1, <2>2, <2>3, <2>4
<1>5. /\ Len(contents') = held'
      /\ held' # 0 => Head(contents') = mem'[raddr']
  <2>1. held' \in 0..Size
    BY <1>4, SizeAssumption
  <2> QED BY <1>4, <2>1, WordsOK
<1>6. /\ takes(read) => held' = Len(filled(char)) - 1
      /\ ~takes(read) => held' = Len(filled(char))
  <2>1. CASE takes(read)
    <3>1. Len(Tail(filled(char))) = Len(filled(char)) - 1
      BY <1>1, <1>3, <2>1, HeadTailProperties
    <3> QED BY <1>1, <1>5, <2>1, <3>1
  <2>2. CASE ~takes(read)
    BY <1>1, <1>5, <2>2
  <2> QED BY <2>1, <2>2
<1>7. held' = Size - 1 => full'
  <2>1. CASE takes(read)
    BY <1>3, <1>6, <2>1, SizeAssumption
  <2>2. CASE ~takes(read)
    BY <1>3, <1>6, <2>2, SizeAssumption
  <2> QED BY <2>1, <2>2
<1>8. ASSUME rvalid' PROVE held' # 0
  <2>1. CASE takes(read)
    <3>1. held > 1
      BY <1>2, <1>8, <2>1
    <3> QED BY <1>3, <1>6, <2>1, <3>1
  <2>2. CASE ~takes(read)
    <3>1. held > 0
      BY <1>2, <1>8, <2>2
    <3> QED BY <1>3, <1>6, <2>2, <3>1
  <2> QED BY <2>1, <2>2
<1>9. rvalid' => rdata' = mem'[raddr']
  <2>1. rdata' = mem[raddr'] /\ mem' = IF stores(char) THEN [mem EXCEPT ![waddr] = char] ELSE mem
    BY <1>2 DEF Memory
  <2> QED BY <1>2, <2>1 DEF FifoInv, FifoTypeOK
<1> QED BY <1>1, <1>2, <1>4, <1>5, <1>7, <1>8, <1>9 DEF FifoInv

LEMMA EmptyIsEmpty ==
  ASSUME NEW m
  PROVE  (0 + Size - 0) % Size = 0 /\ [i \in 1..0 |-> m[(0 + i - 1) % Size]] = <<>>
<1>1. (0 + Size - 0) % Size = 0
  BY Distance, SizeAssumption
<1>2. 1..0 = {}
  OBVIOUS
<1> QED BY <1>1, <1>2

LEMMA ResetKeeps ==
  ASSUME FifoInv, NEW char \in Word, NEW read \in BOOLEAN, FifoReset(char, read)
  PROVE  FifoInv' /\ contents' = <<>> /\ held' = 0
<1>1. raddr' = 0 /\ waddr' = 0 /\ rvalid' = FALSE /\ Memory(char, read) /\ FifoFlags(char)
  BY DEF FifoReset
<1>2. held' = 0
  BY <1>1, EmptyIsEmpty DEF held
<1>3. contents' = <<>>
  BY <1>1, <1>2, EmptyIsEmpty DEF contents
<1>4. nextRaddr(read) \in Address
  BY ReaderMoves
<1>5. FifoTypeOK'
  <2>1. mem' \in [Address -> Word] /\ rdata' \in Word
    BY <1>1, <1>4, MemoryOK
  <2>2. full' \in BOOLEAN /\ half' \in BOOLEAN /\ room' \in 0..RoomCap
    BY <1>1, FlagsAre
  <2>3. 0 \in Address
    BY SizeAssumption DEF Address
  <2> QED BY <1>1, <2>1, <2>2, <2>3 DEF FifoTypeOK, Word
<1> QED BY <1>1, <1>2, <1>3, <1>5, SizeAssumption DEF FifoInv

LEMMA InitKeeps ==
  ASSUME FifoInit
  PROVE  FifoInv /\ contents = <<>> /\ held = 0
<1>1. held = 0
  BY EmptyIsEmpty DEF FifoInit, held
<1>2. contents = <<>>
  BY <1>1, EmptyIsEmpty DEF FifoInit, contents
<1>3. FifoTypeOK
  <2>1. 0 \in Address
    BY SizeAssumption DEF Address
  <2>2. 0 \in 0..RoomCap
    BY RoomAssumption
  <2>3. mem \in [Address -> Chars \cup {Nothing}]
    BY DEF FifoInit
  <2>4. raddr = 0 /\ waddr = 0 /\ rdata = Nothing /\ rvalid = FALSE /\ full = FALSE /\ half = FALSE
        /\ room = 0
    BY DEF FifoInit
  <2> QED BY <2>1, <2>2, <2>3, <2>4 DEF FifoTypeOK
<1> QED BY <1>1, <1>2, <1>3, SizeAssumption DEF FifoInit, FifoInv

(***************************************************************************)
(* Every step of the ring is a step of the queue.                          *)
(***************************************************************************)
LEMMA RingStep ==
  ASSUME FifoInv, NEW char \in Word, NEW read \in BOOLEAN,
         FifoClock(char, read) \/ FifoReset(char, read)
  PROVE  Queue!QueueNext
<1>1. contents \in Seq(Word) /\ Len(contents) = held
  BY ContentsOK DEF FifoInv
<1>2. FifoFlags(char)
  BY DEF FifoClock, FifoReset
<1>3. Queue!QueueFlags(Len(filled(char)))
  BY <1>2, FlagsAre DEF Queue!QueueFlags
<1>4. CASE FifoClock(char, read)
  <2>1. /\ contents' = IF takes(read) THEN Tail(filled(char)) ELSE filled(char)
        /\ rvalid' = (held > IF takes(read) THEN 1 ELSE 0)
        /\ rvalid' => rdata' = Head(contents')
    BY <1>4, ClockIsQueue, ClockKeeps
  <2>2. Queue!QueueStep(filled(char), read)
    BY <1>1, <1>3, <2>1 DEF Queue!QueueStep, takes
  <2>3. CASE stores(char)
    <3>1. filled(char) = Append(contents, char) /\ char \in Chars /\ ~full
      BY <2>3 DEF filled, stores, Word
    <3>2. Queue!QueueWrite(char, read)
      BY <2>2, <3>1 DEF Queue!QueueWrite
    <3> QED BY <3>1, <3>2 DEF Queue!QueueNext
  <2>4. CASE ~stores(char)
    <3>1. Queue!QueueNoWrite(read)
      BY <2>2, <2>4 DEF Queue!QueueNoWrite, filled
    <3> QED BY <3>1 DEF Queue!QueueNext
  <2> QED BY <2>3, <2>4
<1>5. CASE FifoReset(char, read)
  <2>1. contents' = <<>> /\ rvalid' = FALSE
    BY <1>5, ResetKeeps DEF FifoReset
  <2>2. Queue!QueueReset(filled(char))
    BY <1>3, <2>1 DEF Queue!QueueReset
  <2>3. CASE stores(char)
    BY <2>2, <2>3 DEF filled, stores, Word, Queue!QueueNext
  <2>4. CASE ~stores(char)
    BY <2>2, <2>4 DEF filled, Queue!QueueNext
  <2> QED BY <2>3, <2>4
<1> QED BY <1>4, <1>5

(***************************************************************************)
(* The bridge behind the ring.  What is owed to the consumer is the beat   *)
(* in the register, if there is one, and then what the ring holds.         *)
(***************************************************************************)
AxisTypeOK ==
  /\ beatValid \in BOOLEAN /\ tready \in BOOLEAN /\ rst \in BOOLEAN /\ softRst \in BOOLEAN
  /\ due \in Seq(Word)

DueOK ==
  /\ beatValid => due # <<>> /\ Head(due) = beat /\ Tail(due) = contents
  /\ ~beatValid => due = contents

AxisInv == FifoInv /\ AxisTypeOK /\ DueOK

LEMMA AxisInitOK == AxisInit => AxisInv
<1> SUFFICES ASSUME AxisInit PROVE AxisInv
  OBVIOUS
<1>1. FifoInv /\ contents = <<>>
  BY InitKeeps DEF AxisInit
<1>2. beatValid = FALSE /\ tready \in BOOLEAN /\ rst \in BOOLEAN /\ softRst = FALSE /\ due = <<>>
  BY DEF AxisInit
<1>3. AxisTypeOK
  <2>1. FALSE \in BOOLEAN /\ <<>> \in Seq(Word)
    OBVIOUS
  <2> QED BY <1>2, <2>1 DEF AxisTypeOK
<1>4. DueOK
  BY <1>1, <1>2 DEF DueOK
<1> QED BY <1>1, <1>3, <1>4 DEF AxisInv

LEMMA TailOfAppend ==
  ASSUME NEW u \in Seq(Word), u # <<>>, NEW char \in Word
  PROVE  Append(u, char) # <<>> /\ Head(Append(u, char)) = Head(u)
         /\ Tail(Append(u, char)) = Append(Tail(u), char)
<1>1. Tail(u) \in Seq(Word) /\ Len(Tail(u)) = Len(u) - 1 /\ Len(u) > 0
      /\ \A i \in 1..Len(Tail(u)) : Tail(u)[i] = u[i + 1]
  BY HeadTailProperties
<1> DEFINE a == Append(u, char)
<1>2. /\ a \in Seq(Word) /\ a # <<>> /\ Len(a) = Len(u) + 1 /\ Head(a) = Head(u)
      /\ \A i \in 1..Len(u) : a[i] = u[i]
      /\ a[Len(u) + 1] = char
  BY <1>1
<1>3. Tail(a) \in Seq(Word) /\ Len(Tail(a)) = Len(a) - 1
      /\ \A i \in 1..Len(Tail(a)) : Tail(a)[i] = a[i + 1]
  BY <1>2, HeadTailProperties
<1> DEFINE v == Tail(u)
           b == Append(v, char)
<1> HIDE DEF v
<1>4. /\ b \in Seq(Word) /\ Len(b) = Len(u)
      /\ \A i \in 1..(Len(u) - 1) : b[i] = u[i + 1]
      /\ b[Len(u)] = char
  <2>1. v \in Seq(Word) /\ Len(v) = Len(u) - 1 /\ Len(u) \in Nat /\ \A i \in 1..Len(v) : v[i] = u[i + 1]
    BY <1>1 DEF v
  <2> QED BY <2>1
<1> HIDE DEF a, b
<1>5. \A i \in 1..Len(u) : Tail(a)[i] = b[i]
  <2> TAKE i \in 1..Len(u)
  <2>1. Tail(a)[i] = a[i + 1] /\ Len(u) \in Nat /\ Len(u) > 0
    BY <1>1, <1>2, <1>3
  <2>2. CASE i = Len(u)
    <3>1. a[i + 1] = char
      BY <1>2, <2>2
    <3>2. b[i] = char
      BY <1>4, <2>2
    <3> QED BY <2>1, <3>1, <3>2
  <2>3. CASE i # Len(u)
    <3>1. i \in 1..(Len(u) - 1) /\ i + 1 \in 1..Len(u)
      BY <2>1, <2>3
    <3> QED BY <1>2, <1>4, <2>1, <3>1
  <2> QED BY <2>2, <2>3
<1>6. Tail(a) = b
  BY <1>1, <1>2, <1>3, <1>4, <1>5, SeqEqual
<1> QED BY <1>2, <1>6 DEF a, b, v

LEMMA UntakenOK ==
  ASSUME AxisInv
  PROVE  /\ contents \in Seq(Word) /\ untaken \in Seq(Word)
         /\ ~beatValid \/ tready => untaken = contents
         /\ beatValid /\ ~tready => untaken = due
         /\ rxread => /\ untaken = contents /\ takes(rxread)
                      /\ contents # <<>> /\ rdata = Head(contents)
         /\ ~rxread => ~takes(rxread)
         /\ rxread \in BOOLEAN
<1>1. contents \in Seq(Word) /\ (held # 0 => contents # <<>> /\ Head(contents) = mem[raddr])
      /\ (held = 0 <=> raddr = waddr)
  BY ContentsOK, HeldIs DEF AxisInv, FifoInv
<1>2. (~beatValid \/ tready => untaken = contents) /\ (beatValid /\ ~tready => untaken = due)
  BY DEF AxisInv, DueOK, AxisTypeOK, untaken
<1>3. rxread => takes(rxread) /\ contents # <<>> /\ rdata = Head(contents) /\ (~beatValid \/ tready)
  BY <1>1 DEF AxisInv, FifoInv, rxread, takes
<1>4. ~rxread => ~takes(rxread)
  BY DEF takes
<1>5. rxread \in BOOLEAN
  BY DEF rxread
<1>6. untaken \in Seq(Word)
  <2>1. CASE beatValid /\ tready
    BY <1>1, <1>2, <2>1
  <2>2. CASE ~(beatValid /\ tready)
    BY <2>2 DEF untaken, AxisInv, AxisTypeOK
  <2> QED BY <2>1, <2>2
<1> QED BY <1>1, <1>2, <1>3, <1>4, <1>5, <1>6

LEMMA ClockKeepsDue ==
  ASSUME AxisInv, AxisTypeOK', NEW char \in Word, AxisClock(char)
  PROVE  DueOK'
<1>1. /\ ~rst /\ FifoClock(char, rxread) /\ rxread \in BOOLEAN
      /\ beatValid' = (rxread \/ (beatValid /\ ~tready))
      /\ beat' = IF rxread THEN rdata ELSE beat
      /\ due' = IF stores(char) THEN Append(untaken, char) ELSE untaken
  BY UntakenOK DEF AxisClock, Load
<1>2. contents' = IF takes(rxread) THEN Tail(filled(char)) ELSE filled(char)
  BY <1>1, ClockIsQueue DEF AxisInv
<1>3. filled(char) = IF stores(char) THEN Append(contents, char) ELSE contents
  BY DEF filled
<1>4. CASE rxread
  <2>1. due' = filled(char) /\ contents' = Tail(filled(char)) /\ beatValid' /\ beat' = Head(contents)
    BY <1>1, <1>2, <1>3, <1>4, UntakenOK
  <2>2. filled(char) # <<>> /\ Head(filled(char)) = Head(contents)
    BY <1>3, <1>4, UntakenOK, TailOfAppend
  <2> QED BY <2>1, <2>2 DEF DueOK
<1>5. CASE ~rxread /\ (~beatValid \/ tready)
  BY <1>1, <1>2, <1>3, <1>5, UntakenOK DEF DueOK, AxisInv, AxisTypeOK
<1>6. CASE ~rxread /\ beatValid /\ ~tready
  <2>1. untaken = due /\ due \in Seq(Word) /\ due # <<>> /\ Head(due) = beat /\ Tail(due) = contents
    BY <1>6, UntakenOK DEF AxisInv, AxisTypeOK, DueOK
  <2>2. beatValid' /\ beat' = beat /\ contents' = filled(char)
    BY <1>1, <1>2, <1>6, UntakenOK
  <2>3. due' # <<>> /\ Head(due') = Head(due) /\ Tail(due') = filled(char)
    BY <1>1, <1>3, <2>1, TailOfAppend
  <2> QED BY <2>1, <2>2, <2>3 DEF DueOK
<1> QED BY <1>4, <1>5, <1>6 DEF AxisInv, AxisTypeOK

LEMMA ResetKeepsDue ==
  ASSUME AxisInv, NEW char \in Word, SoftReset(char)
  PROVE  DueOK' /\ due' \in Seq(Word)
<1>1. /\ ~rst /\ FifoReset(char, rxread) /\ rxread \in BOOLEAN
      /\ beatValid' = (rxread \/ (beatValid /\ ~tready))
      /\ beat' = IF rxread THEN rdata ELSE beat
      /\ due' = IF beatValid' THEN <<Head(untaken)>> ELSE <<>>
  BY UntakenOK DEF SoftReset, Load
<1>2. contents' = <<>>
  BY <1>1, ResetKeeps DEF AxisInv
<1>3. ASSUME beatValid' PROVE untaken # <<>> /\ Head(untaken) = beat' /\ untaken \in Seq(Word)
  <2>1. CASE rxread
    BY <1>1, <2>1, UntakenOK
  <2>2. CASE ~rxread
    BY <1>1, <1>3, <2>2, UntakenOK DEF AxisInv, DueOK
  <2> QED BY <2>1, <2>2
<1>4. CASE beatValid'
  <2>1. Head(untaken) \in Word /\ due' = <<beat'>> /\ Head(untaken) = beat'
    BY <1>1, <1>3, <1>4, HeadTailProperties
  <2>2. due' # <<>> /\ Head(due') = beat' /\ Tail(due') = <<>> /\ due' \in Seq(Word)
    BY <2>1
  <2> QED BY <1>2, <1>4, <2>2 DEF DueOK
<1>5. CASE ~beatValid'
  BY <1>1, <1>2, <1>5 DEF DueOK
<1> QED BY <1>4, <1>5

LEMMA AxisStepOK == AxisInv /\ [AxisNext]_axisVars => AxisInv'
<1> SUFFICES ASSUME AxisInv, [AxisNext]_axisVars PROVE AxisInv'
  OBVIOUS
<1>1. CASE UNCHANGED axisVars
  BY <1>1 DEF axisVars, ringVars, AxisInv, AxisTypeOK, DueOK, FifoInv, FifoTypeOK, held, contents
<1>2. CASE AxisNext
  <2>1. PICK char \in Word : AxisClock(char) \/ SoftReset(char) \/ BusReset(char)
    BY <1>2 DEF AxisNext, Word
  <2>2. tready' \in BOOLEAN /\ rst' \in BOOLEAN /\ softRst' \in BOOLEAN
    BY <1>2 DEF AxisNext
  <2>3. CASE AxisClock(char)
    <3>1. due' \in Seq(Word) /\ beatValid' \in BOOLEAN
      BY <2>3, UntakenOK DEF AxisClock, Load
    <3>2. AxisTypeOK'
      BY <2>2, <3>1 DEF AxisTypeOK
    <3>3. FifoInv'
      BY <2>3, ClockKeeps, UntakenOK DEF AxisClock, AxisInv
    <3> QED BY <2>3, <3>2, <3>3, ClockKeepsDue DEF AxisInv
  <2>4. CASE SoftReset(char)
    <3>1. beatValid' \in BOOLEAN
      BY <2>4, UntakenOK DEF SoftReset, Load
    <3>2. FifoInv'
      BY <2>4, ResetKeeps, UntakenOK DEF SoftReset, AxisInv
    <3> QED BY <2>2, <2>4, <3>1, <3>2, ResetKeepsDue DEF AxisInv, AxisTypeOK
  <2>5. CASE BusReset(char)
    <3>1. FifoInv' /\ contents' = <<>>
      BY <2>5, ResetKeeps, UntakenOK DEF BusReset, AxisInv
    <3>2. beatValid' = FALSE /\ due' = <<>>
      BY <2>5 DEF BusReset
    <3>3. AxisTypeOK'
      <4>1. FALSE \in BOOLEAN /\ <<>> \in Seq(Word)
        OBVIOUS
      <4> QED BY <2>2, <3>2, <4>1 DEF AxisTypeOK
    <3>4. DueOK'
      BY <3>1, <3>2 DEF DueOK
    <3> QED BY <3>1, <3>3, <3>4 DEF AxisInv
  <2> QED BY <2>1, <2>3, <2>4, <2>5
<1> QED BY <1>1, <1>2

(***************************************************************************)
(* The ring of spwstream is the queue that SpwStream takes it for: pointer *)
(* arithmetic, registered flags and the RAM's read of the old word         *)
(* included, for every even size.                                          *)
(***************************************************************************)
THEOREM RingImplementsQueue == AxisSpec => ImplementsQueue
<1>1. AxisInit => Queue!QueueInit
  BY InitKeeps DEF AxisInit, FifoInit, Queue!QueueInit
<1>2. AxisInv /\ [AxisNext]_axisVars => [Queue!QueueNext]_(Queue!fifoVars)
  <2> SUFFICES ASSUME AxisInv, [AxisNext]_axisVars
               PROVE  [Queue!QueueNext]_(Queue!fifoVars)
    OBVIOUS
  <2>1. CASE UNCHANGED axisVars
    BY <2>1 DEF axisVars, ringVars, Queue!fifoVars, contents, held
  <2>2. CASE AxisNext
    <3>1. PICK char \in Word : FifoClock(char, rxread) \/ FifoReset(char, rxread)
      BY <2>2 DEF AxisNext, Word, AxisClock, SoftReset, BusReset
    <3> QED BY <3>1, RingStep, UntakenOK DEF AxisInv
  <2> QED BY <2>1, <2>2
<1> QED BY <1>1, <1>2, AxisInitOK, AxisStepOK, PTL DEF AxisSpec, ImplementsQueue, Queue!QueueSpec

(***************************************************************************)
(* The consumer of spw_axis_rx gets every character that was written, in   *)
(* order and once, whatever its pauses; a soft reset loses what is in the  *)
(* FIFO and nothing of what the bridge has taken over.                     *)
(***************************************************************************)
THEOREM OrderKept == AxisSpec => []StreamInOrder
<1>1. AxisInv => StreamInOrder
  <2> SUFFICES ASSUME AxisInv PROVE StreamInOrder
    OBVIOUS
  <2>1. Len(contents) = held /\ due \in Seq(Word)
    BY ContentsOK DEF AxisInv, FifoInv, AxisTypeOK
  <2>2. CASE beatValid
    <3>1. due # <<>> /\ beat = Head(due) /\ Tail(due) = contents
      BY <2>2 DEF AxisInv, DueOK
    <3>2. Len(Tail(due)) = Len(due) - 1 /\ Len(due) \in Nat
      BY <2>1, <3>1, HeadTailProperties
    <3> QED BY <2>1, <2>2, <3>1, <3>2 DEF StreamInOrder
  <2>3. CASE ~beatValid
    <3>1. held \in 0..(Size - 1)
      BY HeldIs DEF AxisInv, FifoInv
    <3> QED BY <2>1, <2>3, <3>1, SizeAssumption DEF AxisInv, DueOK, StreamInOrder
  <2> QED BY <2>2, <2>3
<1> QED BY <1>1, AxisInitOK, AxisStepOK, PTL DEF AxisSpec

(***************************************************************************)
(* A beat that spw_axis_rx shows stays until it is taken: neither the      *)
(* consumer's pause nor a soft reset withdraws or changes it.              *)
(***************************************************************************)
THEOREM ShownBeatStays == AxisSpec => BeatStays
<1>1. [AxisNext]_axisVars => [tvalid /\ ~tready => beatValid' /\ beat' = beat]_axisVars
  BY DEF AxisNext, AxisClock, SoftReset, BusReset, Load, tvalid, rxread
<1> QED BY <1>1, PTL DEF AxisSpec, BeatStays

(***************************************************************************)
(* A build that reports success is fresh: proved for every set of options, *)
(* however many builds share a tree.                                       *)
(*                                                                         *)
(* SuccessIsFresh speaks of finished builds only.  The invariant follows   *)
(* the build that runs: what was removed before the tool started is empty  *)
(* or of this build, and the tool writes nothing else under these names,   *)
(* because a name tells all options apart.                                 *)
(***************************************************************************)

(* The files that the build at hand may write. *)
Writable ==
  IF args.board = "arty" THEN {bit(args.hdl, env)}
  ELSE {Report(args.hdl, k) : k \in {"sof", "syn", "fit", "sta"}}

(* The command line of a build that runs. *)
Called ==
  pc # "idle" => args \in Args /\ shell \in Options

(* While the tool runs. *)
ToolInv ==
  pc = "tool" =>
    /\ ~args.dry /\ ~contradicts
    /\ left \in Seq(Writable)
    /\ \A f \in stale : files[f] \in {Absent, asked}

(* While the board is programmed. *)
ProgramInv ==
  pc = "program" =>
    /\ args.board = "de25" /\ args.flow = "full"
    /\ printed \subseteq {asked}
    /\ files[image] = asked

BuildInv ==
  /\ pc \in {"idle", "check", "tool", "program"}
  /\ DOMAIN files = AllFiles /\ files = [f \in AllFiles |-> files[f]]
  /\ Called
  /\ ToolInv
  /\ ProgramInv
  /\ SuccessIsFresh

(* The two kinds of command lines. *)
LEMMA ArgsOK ==
  ASSUME NEW a \in Args
  PROVE  \/ /\ a.board = "arty" /\ a.hdl \in Hdl /\ a.opt \in Options
         \/ /\ a.board = "de25" /\ a.hdl \in Hdl /\ a.flow \in {"full", "synth"}
            /\ a.program \in BOOLEAN
<1>1. CASE a \in ArtyArgs
  <2>1. PICK h \in Hdl, o \in Options, d \in BOOLEAN : a = Arty(h, o, d)
    BY <1>1 DEF ArtyArgs
  <2> QED BY <2>1 DEF Arty
<1>2. CASE a \in De25Args
  <2>1. PICK h \in Hdl, f \in {"full", "synth"}, p \in BOOLEAN, d \in BOOLEAN :
          a = De25(h, f, p, d)
    BY <1>2 DEF De25Args
  <2> QED BY <2>1 DEF De25
<1>3. a \in ArtyArgs \/ a \in De25Args
  BY DEF Args, Direct, cmd_vivado, cmd_quartus
<1> QED BY <1>1, <1>2, <1>3

(* The parts of a suffix. *)
LEMMA SuffixParts ==
  ASSUME NEW o
  PROVE  /\ o.fast <=> <<"_fast">> \in suffix(o)
         /\ o.ext <=> <<"_ext">> \in suffix(o)
         /\ o.div # NoDiv <=> \E d : <<"_div", d>> \in suffix(o)
         /\ \A d : <<"_div", d>> \in suffix(o) => d = o.div
<1>1. <<"_fast">> # <<"_ext">> /\ \A d : <<"_fast">> # <<"_div", d>> /\ <<"_ext">> # <<"_div", d>>
  OBVIOUS
<1>2. \A d : <<"_div", d>> = <<"_div", o.div>> => d = o.div
  OBVIOUS
<1>3. o.fast <=> <<"_fast">> \in suffix(o)
  BY <1>1 DEF suffix
<1>4. o.ext <=> <<"_ext">> \in suffix(o)
  BY <1>1 DEF suffix
<1>5. \A d : <<"_div", d>> \in suffix(o) => o.div # NoDiv /\ d = o.div
  BY <1>1, <1>2 DEF suffix
<1>6. o.div # NoDiv => <<"_div", o.div>> \in suffix(o)
  BY DEF suffix
<1> QED BY <1>3, <1>4, <1>5, <1>6

(* Different options have different names. *)
LEMMA NamesDiffer ==
  ASSUME NEW o \in Options, NEW p \in Options, suffix(o) = suffix(p)
  PROVE  o = p
<1>1. /\ o = [fast |-> o.fast, ext |-> o.ext, div |-> o.div]
      /\ p = [fast |-> p.fast, ext |-> p.ext, div |-> p.div]
      /\ o.fast \in BOOLEAN /\ o.ext \in BOOLEAN
      /\ p.fast \in BOOLEAN /\ p.ext \in BOOLEAN
  BY DEF Options
<1>2. o.fast = p.fast
  BY <1>1, SuffixParts
<1>3. o.ext = p.ext
  BY <1>1, SuffixParts
<1>4. o.div = p.div
  BY <1>1, SuffixParts
<1> QED BY <1>1, <1>2, <1>3, <1>4

(* What is removed before the tool runs has an entry of its own. *)
LEMMA StaleFiles ==
  ASSUME args \in Args
  PROVE  stale \subseteq AllFiles
<1>1. CASE args.board = "arty"
  <2>1. args.hdl \in Hdl /\ args.opt \in Options
    BY <1>1, ArgsOK
  <2>2. bit(args.hdl, args.opt) \in {bit(h, o) : h \in Hdl, o \in Options}
    BY <2>1
  <2> QED BY <1>1, <2>2 DEF stale, AllFiles
<1>2. CASE args.board # "arty"
  <2>1. args.hdl \in Hdl
    BY <1>2, ArgsOK
  <2> QED BY <1>2, <2>1 DEF stale, AllFiles
<1> QED BY <1>1, <1>2

(* A tool that writes a name that was removed builds what was asked for. *)
LEMMA WritesWhatIsAsked ==
  ASSUME args \in Args, shell \in Options, NEW f \in Writable, f \in stale
  PROVE  built = asked
<1>1. CASE args.board = "arty"
  <2>1. args.opt \in Options
    BY <1>1, ArgsOK
  <2>2. env \in Options
    BY <2>1 DEF env, Options
  <2>3. bit(args.hdl, env) = bit(args.hdl, args.opt)
    BY <1>1 DEF Writable, stale
  <2>4. suffix(env) = suffix(args.opt)
    BY <2>3 DEF bit
  <2>5. env = args.opt
    BY <2>1, <2>2, <2>4, NamesDiffer
  <2> QED BY <1>1, <2>5 DEF built, asked
<1>2. CASE args.board # "arty"
  BY <1>2 DEF built, asked
<1> QED BY <1>1, <1>2

LEMMA OutputsWritable == outputs \in Seq(Writable)
<1>1. CASE args.board = "arty"
  BY <1>1 DEF outputs, Writable
<1>2. CASE args.board # "arty" /\ args.flow = "synth"
  BY <1>2 DEF outputs, Writable
<1>3. CASE args.board # "arty" /\ args.flow # "synth"
  BY <1>3 DEF outputs, Writable, sof
<1> QED BY <1>1, <1>2, <1>3

(* The invariant holds of the first state and of every step. *)
LEMMA BuildInvInit == BuildInit => BuildInv
BY DEF BuildInit, BuildInv, Called, ToolInv, ProgramInv, SuccessIsFresh

(* What a step leaves alone, and what it reads of it. *)
LEMMA Kept ==
  ASSUME UNCHANGED <<args, runs>>
  PROVE  /\ stale' = stale /\ asked' = asked /\ image' = image /\ contradicts' = contradicts
         /\ shell' = shell => Writable' = Writable
BY DEF stale, asked, image, contradicts, Writable, env

(* An exit with another code than 0, or of a dry run, promises nothing. *)
LEMMA ExitPromisesNothing ==
  ASSUME BuildInv, NEW code, Exit(code), UNCHANGED <<args, files, runs>>, code # 0 \/ args.dry
  PROVE  BuildInv'
BY DEF BuildInv, Exit, Called, ToolInv, ProgramInv, SuccessIsFresh

LEMMA BuildInvStep ==
  ASSUME BuildInv, [BuildNext]_buildVars
  PROVE  BuildInv'
<1> USE DEF BuildInv
<1>1. CASE Call
  BY <1>1 DEF Call, Called, ToolInv, ProgramInv, SuccessIsFresh
<1>2. CASE NotReady
  BY <1>2, ExitPromisesNothing DEF NotReady
<1>3. CASE DryRun
  BY <1>3, ExitPromisesNothing DEF DryRun
<1>4. CASE Launch
  <2>1. pc' = "tool" /\ UNCHANGED <<shell, args, printed, board, runs>> /\ args \in Args /\ shell \in Options
    BY <1>4 DEF Launch, Goes, Called
  <2>2. stale' = stale /\ asked' = asked /\ contradicts' = contradicts /\ Writable' = Writable
    BY <2>1, Kept
  <2>3. /\ files' = [f \in AllFiles |-> IF f \in stale THEN Absent ELSE files[f]]
        /\ \A f \in stale : files'[f] = Absent
    BY <1>4, <2>1, StaleFiles DEF Launch
  <2>4. left' \in Seq(Writable)
    BY <1>4, OutputsWritable DEF Launch
  <2>5. ToolInv'
    BY <1>4, <2>1, <2>2, <2>3, <2>4 DEF ToolInv, Launch
  <2> QED BY <2>1, <2>3, <2>5 DEF Called, ProgramInv, SuccessIsFresh
<1>5. CASE ToolWrites
  <2>1. pc = "tool" /\ pc' = "tool" /\ UNCHANGED <<shell, args, printed, board, runs>>
    BY <1>5 DEF ToolWrites, Goes
  <2>2. stale' = stale /\ asked' = asked /\ contradicts' = contradicts /\ Writable' = Writable
    BY <2>1, Kept
  <2>3. left \in Seq(Writable) /\ left # <<>> /\ Head(left) \in Writable /\ Tail(left) \in Seq(Writable)
    BY <1>5, <2>1 DEF ToolWrites, ToolInv
  <2>4. files' = [files EXCEPT ![Head(left)] = built]
    BY <1>5 DEF ToolWrites
  <2>5. ASSUME NEW f \in stale
        PROVE  files'[f] \in {Absent, asked}
    <3>1. files[f] \in {Absent, asked} /\ f \in DOMAIN files
      BY <2>1, StaleFiles DEF ToolInv, Called
    <3>2. CASE f = Head(left)
      <4>1. built = asked
        BY <2>1, <2>3, <3>2, WritesWhatIsAsked DEF Called
      <4> QED BY <2>4, <3>1, <3>2, <4>1
    <3>3. CASE f # Head(left)
      BY <2>4, <3>1, <3>3
    <3> QED BY <3>2, <3>3
  <2>6. ToolInv'
    BY <1>5, <2>1, <2>2, <2>3, <2>5 DEF ToolInv, ToolWrites
  <2> QED BY <2>1, <2>4, <2>6 DEF Called, ProgramInv, SuccessIsFresh
<1>6. CASE ToolFails
  BY <1>6, ExitPromisesNothing DEF ToolFails
<1>7. CASE ToolSucceeds
  <2>1. pc = "tool" /\ UNCHANGED <<args, files, board, runs>> /\ Conclude
    BY <1>7 DEF ToolSucceeds
  <2>2. stale' = stale /\ asked' = asked /\ image' = image
    BY <2>1, Kept
  <2>3. ~args.dry /\ ~contradicts /\ (\A f \in stale : files[f] \in {Absent, asked}) /\ args \in Args
    BY <2>1 DEF ToolInv, Called
  <2>4. printed' \subseteq {asked}
    <3>1. CASE args.board = "de25"
      <4>1. \A k \in {"fit", "sta"} : Report(args.hdl, k) \in stale
        BY <3>1 DEF stale
      <4> QED BY <1>7, <2>3, <3>1, <4>1 DEF ToolSucceeds, reports
    <3>2. CASE args.board # "de25"
      BY <1>7, <3>2 DEF ToolSucceeds
    <3> QED BY <3>1, <3>2
  <2>5. image \in stale
    BY DEF image, stale, sof
  <2>6. args.board = "de25" /\ args.program => args.flow = "full"
    BY <2>3 DEF contradicts
  <2>7. CASE args.board = "de25" /\ args.flow = "synth"
    BY <2>1, <2>2, <2>3, <2>4, <2>6, <2>7
      DEF Conclude, Exit, Called, ToolInv, ProgramInv, SuccessIsFresh
  <2>8. CASE ~(args.board = "de25" /\ args.flow = "synth") /\ files[image] = Absent
    BY <2>1, <2>8, ExitPromisesNothing DEF Conclude
  <2>9. CASE ~(args.board = "de25" /\ args.flow = "synth") /\ files[image] # Absent
    <3>1. files[image] = asked
      BY <2>3, <2>5, <2>9
    <3>2. CASE args.board = "de25" /\ args.program
      BY <2>1, <2>2, <2>3, <2>4, <2>6, <2>9, <3>1, <3>2
        DEF Conclude, Goes, Called, ToolInv, ProgramInv, SuccessIsFresh
    <3>3. CASE ~(args.board = "de25" /\ args.program)
      BY <2>1, <2>2, <2>4, <2>9, <3>1, <3>3
        DEF Conclude, Exit, Called, ToolInv, ProgramInv, SuccessIsFresh
    <3> QED BY <3>2, <3>3
  <2> QED BY <2>7, <2>8, <2>9
<1>8. CASE Program
  <2>1. pc = "program" /\ UNCHANGED <<args, files, printed, runs>>
    BY <1>8 DEF Program
  <2>2. image' = image /\ asked' = asked /\ files[sof(args.hdl)] = asked
    BY <2>1, Kept DEF ProgramInv, image
  <2>3. CASE board' = files[sof(args.hdl)] /\ Exit(0)
    BY <2>1, <2>2, <2>3 DEF Exit, Called, ToolInv, ProgramInv, SuccessIsFresh
  <2>4. CASE Exit(3)
    BY <2>1, <2>4, ExitPromisesNothing
  <2> QED BY <1>8, <2>3, <2>4 DEF Program
<1>9. CASE Killed
  BY <1>9, ExitPromisesNothing DEF Killed
<1>10. CASE UNCHANGED buildVars
  BY <1>10 DEF buildVars, Called, ToolInv, ProgramInv, SuccessIsFresh, Writable, env, stale, asked,
               image, contradicts
<1> QED BY <1>1, <1>2, <1>3, <1>4, <1>5, <1>6, <1>7, <1>8, <1>9, <1>10 DEF BuildNext

(***************************************************************************)
(* Every build that exits with 0, of any number of builds in one tree,     *)
(* left the image of its own options, printed only its own reports and     *)
(* programmed that image (build.py of both examples).                      *)
(***************************************************************************)
THEOREM SuccessFresh == BuildSpec => []SuccessIsFresh
<1>1. BuildInit => BuildInv
  BY BuildInvInit
<1>2. BuildInv /\ [BuildNext]_buildVars => BuildInv'
  BY BuildInvStep
<1>3. BuildInv => SuccessIsFresh
  BY DEF BuildInv
<1> QED BY <1>1, <1>2, <1>3, PTL DEF BuildSpec

(***************************************************************************)
(* The division of the fast transmitter's clock.                           *)
(***************************************************************************)
Digit == 0..3

DividerTypeOK ==
  /\ last \in {"sys", "other", "both"} /\ coreRst \in BOOLEAN
  /\ txdivreg \in 0..255 /\ txdivnorm \in BOOLEAN /\ txdivtmp \in Digit /\ txdivsafe \in BOOLEAN
  /\ synctx_txdivsafe \in BOOLEAN \X BOOLEAN /\ synctx_rst \in BOOLEAN \X BOOLEAN
  /\ txclken \in BOOLEAN /\ txclkpre \in BOOLEAN
  /\ txclkcnt \in [0..3 -> Digit] /\ txclkcy \in [0..2 -> BOOLEAN] /\ txclkdone \in BOOLEAN \X BOOLEAN
  /\ txclkdiv \in 0..255 /\ txdivnorm_tx \in BOOLEAN
  /\ elapsed \in Nat /\ settled \in 0..3

(* Between two loads of the register both flops of the synchroniser see it unsafe. *)
Unsafe ==
  /\ coreRst => synctx_txdivsafe = Down
  /\ ~txdivsafe /\ txdivtmp = 3 /\ last = "other" => ~synctx_txdivsafe[1]
  /\ ~txdivsafe /\ txdivtmp = 2 => ~synctx_txdivsafe[1] /\ (last = "other" => ~synctx_txdivsafe[2])
  /\ ~txdivsafe /\ txdivtmp < 2 => ~synctx_txdivsafe[1] /\ ~synctx_txdivsafe[2]

Halves == txdivnorm = (txdivreg >= 2) /\ txdivnorm_tx = (txclkdiv >= 2)

(* What the counter stands for: a carry that is still to be taken counts against it. *)
Owed(k) == IF txclkcy[k] THEN 1 ELSE 0

Left ==
  txclkcnt[0] + 4 * (txclkcnt[1] - Owed(0)) + 16 * (txclkcnt[2] - Owed(1)) + 64 * (txclkcnt[3] - Owed(2))

AtEnd == txclkdone[1] /\ txclkdone[2]

Loaded == Left = txclkdiv /\ ~txclkdone[1] /\ elapsed = 1

(* Dividers from 2: the counter measures the time. *)
Counted ==
  /\ ~txclkpre
  /\ \/ settled = 1 /\ txclken /\ Loaded
     \/ /\ elapsed \in 1..(txclkdiv + 1) /\ Left = txclkdiv + 1 - elapsed
        /\ AtEnd <=> elapsed = txclkdiv
        /\ txclken <=> elapsed = txclkdiv + 1

(* Divider 1: every second clock. *)
Alternates ==
  \/ txclken /\ Loaded /\ (settled = 1 \/ (settled = 2 /\ ~txclkpre))
  \/ Loaded /\ ~txclken /\ txclkpre
  \/ elapsed = 2 /\ ~txclkdone[1] /\ txclken /\ ~txclkpre

(* Divider 0: every clock. *)
Always == txclkpre /\ (settled >= 2 => txclken /\ elapsed = 1)

InStep ==
  settled > 0 =>
    /\ \A k \in 0..2 : txclkcy[k] => txclkcnt[k] = 3
    /\ IF txclkdiv >= 2 THEN Counted ELSE IF txclkdiv = 1 THEN Alternates ELSE Always

DividerInv == DividerTypeOK /\ Unsafe /\ Halves /\ InStep

LEMMA DigitsOK ==
  ASSUME NEW n \in 0..255
  PROVE  /\ Digits(n) \in [0..3 -> Digit]
         /\ Digits(n)[0] + 4 * Digits(n)[1] + 16 * Digits(n)[2] + 64 * Digits(n)[3] = n
<1>1. 4^0 = 1 /\ 4^1 = 4 /\ 4^2 = 16 /\ 4^3 = 64
  OBVIOUS
<1> QED BY <1>1 DEF Digits, Digit

LEMMA DigitsAreDigits == \A n \in 0..255 : Digits(n) \in [0..3 -> Digit]
BY DEF Digits, Digit

LEMMA DividerInitOK == Unclocked /\ DividerInit => DividerInv
<1> SUFFICES ASSUME Unclocked, DividerInit PROVE DividerInv
  OBVIOUS
<1>1. 0 \in 0..255 /\ Digits(0) \in [0..3 -> Digit]
  BY DigitsAreDigits
<1>2. DividerTypeOK
  <2>1. [k \in 0..2 |-> FALSE] \in [0..2 -> BOOLEAN]
    OBVIOUS
  <2>2. <<FALSE, FALSE>> \in BOOLEAN \X BOOLEAN
    OBVIOUS
  <2>3. /\ last \in {"sys", "other", "both"} /\ txdivreg \in 0..255 /\ txdivtmp \in 0..3
        /\ txclkdiv \in 0..255 /\ elapsed \in Nat /\ settled \in 0..3
    BY DEF Unclocked, DividerInit
  <2>4. /\ coreRst \in BOOLEAN /\ txdivnorm \in BOOLEAN /\ txdivsafe \in BOOLEAN
        /\ txclken \in BOOLEAN /\ txclkpre \in BOOLEAN /\ txdivnorm_tx \in BOOLEAN
    BY DEF Unclocked, DividerInit
  <2>5. /\ synctx_txdivsafe \in BOOLEAN \X BOOLEAN /\ synctx_rst \in BOOLEAN \X BOOLEAN
        /\ txclkcnt \in [0..3 -> Digit] /\ txclkcy \in [0..2 -> BOOLEAN] /\ txclkdone \in BOOLEAN \X BOOLEAN
    BY <1>1, <2>1, <2>2 DEF DividerInit, Down
  <2> QED BY <2>3, <2>4, <2>5 DEF DividerTypeOK, Digit
<1>3. Unsafe /\ Halves /\ InStep
  <2>1. ~coreRst /\ ~synctx_txdivsafe[1] /\ ~synctx_txdivsafe[2] /\ ~txdivnorm /\ ~txdivnorm_tx
    BY DEF Unclocked, DividerInit, Down
  <2>2. txdivreg = 0 /\ txclkdiv = 0 /\ settled = 0
    BY DEF DividerInit
  <2> QED BY <1>2, <2>1, <2>2 DEF Unsafe, Halves, InStep, DividerTypeOK
<1> QED BY <1>2, <1>3 DEF DividerInv

LEMMA SynchronisedOK ==
  ASSUME NEW ff \in BOOLEAN \X BOOLEAN, NEW c \in BOOLEAN, NEW old \in BOOLEAN, NEW new \in BOOLEAN,
         NEW ff2 \in Synchronised(ff, c, old, new)
  PROVE  /\ ff2 \in BOOLEAN \X BOOLEAN
         /\ coreRst \/ coreRst' => ff2 = Down
         /\ ff2 # Down => IF c THEN ff2[2] = ff[1] /\ ff2[1] \in {old, new} ELSE ff2 = ff
<1>1. Down \in BOOLEAN \X BOOLEAN
  BY DEF Down
<1>2. CASE coreRst \/ coreRst'
  BY <1>1, <1>2 DEF Synchronised
<1>3. CASE ~(coreRst \/ coreRst') /\ c
  <2>1. PICK seen \in {old, new} : ff2 = <<seen, ff[1]>>
    BY <1>3 DEF Synchronised, Clocked
  <2>2. seen \in BOOLEAN /\ ff[1] \in BOOLEAN
    OBVIOUS
  <2>3. ff2 \in BOOLEAN \X BOOLEAN /\ ff2[2] = ff[1] /\ ff2[1] = seen
    BY <2>1, <2>2
  <2> QED BY <1>3, <2>3
<1>4. CASE ~(coreRst \/ coreRst') /\ ~c
  BY <1>4 DEF Synchronised
<1> QED BY <1>2, <1>3, <1>4

(* The counter, one clock on. *)
LEMMA CountsDown ==
  ASSUME DividerTypeOK, \A k \in 0..2 : txclkcy[k] => txclkcnt[k] = 3, Carry, Decrement
  PROVE  (Left >= 0 => Left' = Left - 1) /\ \A k \in 0..2 : txclkcy'[k] => txclkcnt'[k] = 3
<1>1. \A k \in 0..3 : txclkcnt[k] \in {0, 1, 2, 3}
  BY DEF DividerTypeOK, Digit
<1>2. /\ txclkcnt'[0] = (txclkcnt[0] + 3) % 4
      /\ \A k \in 0..2 : txclkcnt'[k + 1] = IF txclkcy[k] THEN (txclkcnt[k + 1] + 3) % 4 ELSE txclkcnt[k + 1]
  BY DEF Decrement
<1>3. /\ txclkcy'[0] = (txclkcnt[0] = 0)
      /\ txclkcy'[1] = (txclkcnt[1] = 0 /\ txclkcy[0])
      /\ txclkcy'[2] = (txclkcnt[2] = 0 /\ txclkcy[1])
  BY DEF Carry
<1>4. \A k \in 0..2 : txclkcy[k] \in BOOLEAN
  BY DEF DividerTypeOK
<1>5. \A x \in {0, 1, 2, 3} : (x + 3) % 4 = IF x = 0 THEN 3 ELSE x - 1
  OBVIOUS
<1>6. /\ txclkcnt'[0] = IF txclkcnt[0] = 0 THEN 3 ELSE txclkcnt[0] - 1
      /\ txclkcnt'[1] = IF ~txclkcy[0] THEN txclkcnt[1] ELSE IF txclkcnt[1] = 0 THEN 3 ELSE txclkcnt[1] - 1
      /\ txclkcnt'[2] = IF ~txclkcy[1] THEN txclkcnt[2] ELSE IF txclkcnt[2] = 0 THEN 3 ELSE txclkcnt[2] - 1
      /\ txclkcnt'[3] = IF ~txclkcy[2] THEN txclkcnt[3] ELSE IF txclkcnt[3] = 0 THEN 3 ELSE txclkcnt[3] - 1
  BY <1>1, <1>2, <1>5
<1>7. \A k \in 0..2 : txclkcy'[k] => txclkcnt'[k] = 3
  <2>1. \A k \in 0..2 : k = 0 \/ k = 1 \/ k = 2
    OBVIOUS
  <2> QED BY <1>3, <1>6, <2>1
<1>8. Left >= 0 => ~(txclkcy[2] /\ txclkcnt[3] = 0)
  <2>1. txclkcy[2] => Owed(2) = 1
    BY DEF Owed
  <2>2. Owed(0) \in {0, 1} /\ Owed(1) \in {0, 1}
    BY DEF Owed
  <2>3. txclkcnt[0] \in 0..3 /\ txclkcnt[1] \in 0..3 /\ txclkcnt[2] \in 0..3
    BY <1>1
  <2> QED BY <2>1, <2>2, <2>3 DEF Left
<1> DEFINE a == txclkcnt[0]
           b == txclkcnt[1]
           c == txclkcnt[2]
           d == txclkcnt[3]
<1>9. /\ Owed(0) = (IF txclkcy[0] THEN 1 ELSE 0) /\ Owed(0)' = IF a = 0 THEN 1 ELSE 0
      /\ Owed(1) = (IF txclkcy[1] THEN 1 ELSE 0) /\ Owed(1)' = IF b = 0 /\ txclkcy[0] THEN 1 ELSE 0
      /\ Owed(2) = (IF txclkcy[2] THEN 1 ELSE 0) /\ Owed(2)' = IF c = 0 /\ txclkcy[1] THEN 1 ELSE 0
  BY <1>3 DEF Owed
<1>10. a \in Int /\ b \in Int /\ c \in Int /\ d \in Int
  BY <1>1
<1>11. /\ a' = a - 1 + 4 * Owed(0)' /\ b' = b - Owed(0) + 4 * Owed(1)'
       /\ c' = c - Owed(1) + 4 * Owed(2)'
       /\ Left >= 0 => d' = d - Owed(2)
  <2>1. a' = a - 1 + 4 * Owed(0)'
    BY <1>6, <1>9, <1>10
  <2>2. b' = b - Owed(0) + 4 * Owed(1)'
    BY <1>6, <1>9, <1>10
  <2>3. c' = c - Owed(1) + 4 * Owed(2)'
    BY <1>6, <1>9, <1>10
  <2>4. Left >= 0 => d' = d - Owed(2)
    BY <1>6, <1>8, <1>9, <1>10
  <2> QED BY <2>1, <2>2, <2>3, <2>4
<1>12. /\ Owed(0) \in Int /\ Owed(1) \in Int /\ Owed(2) \in Int
       /\ Owed(0)' \in Int /\ Owed(1)' \in Int /\ Owed(2)' \in Int
  BY <1>9
<1>13. Left >= 0 => Left' = Left - 1
  <2>1. /\ Left = a + 4 * (b - Owed(0)) + 16 * (c - Owed(1)) + 64 * (d - Owed(2))
        /\ Left' = a' + 4 * (b' - Owed(0)') + 16 * (c' - Owed(1)') + 64 * (d' - Owed(2)')
    BY DEF Left
  <2> QED BY <1>10, <1>11, <1>12, <2>1
<1> QED BY <1>7, <1>13

LEMMA EndsAtTwo ==
  ASSUME DividerTypeOK, \A k \in 0..2 : txclkcy[k] => txclkcnt[k] = 3, LastDigits
  PROVE  (AtEnd' <=> Left = 2) /\ (Left = 1 => ~txclkdone'[1])
<1>1. \A k \in 0..3 : txclkcnt[k] \in {0, 1, 2, 3}
  BY DEF DividerTypeOK, Digit
<1>2. \A k \in 0..2 : txclkcy[k] \in BOOLEAN
  BY DEF DividerTypeOK
<1>3. /\ txclkdone'[1] = (txclkcnt[0] = 2 /\ txclkcnt[1] = 0)
      /\ txclkdone'[2] = (txclkcnt[2] = 0 /\ txclkcnt[3] = 0)
  BY DEF LastDigits
<1> DEFINE a == txclkcnt[0]
           b == txclkcnt[1]
           c == txclkcnt[2]
           d == txclkcnt[3]
<1>4. /\ Owed(0) = 0 \/ (Owed(0) = 1 /\ a = 3)
      /\ Owed(1) = 0 \/ (Owed(1) = 1 /\ b = 3)
      /\ Owed(2) = 0 \/ (Owed(2) = 1 /\ c = 3)
  BY DEF Owed
<1>5. a \in 0..3 /\ b \in 0..3 /\ c \in 0..3 /\ d \in 0..3
  BY <1>1
<1>6. Left = 2 <=> a = 2 /\ b = 0 /\ c = 0 /\ d = 0
  BY <1>4, <1>5 DEF Left
<1>7. Left = 1 => a # 2
  BY <1>4, <1>5 DEF Left
<1> QED BY <1>3, <1>6, <1>7 DEF AtEnd

LEMMA LoadsAll ==
  ASSUME DividerTypeOK, txclken, CountDown
  PROVE  /\ Left' = txclkdiv /\ ~txclkdone'[1] /\ ~AtEnd'
         /\ \A k \in 0..2 : ~txclkcy'[k]
<1>1. txclkcnt' = Digits(txclkdiv) /\ txclkcy' = [k \in 0..2 |-> FALSE] /\ txclkdone' = <<FALSE, FALSE>>
  BY DEF CountDown
<1> DEFINE D == Digits(txclkdiv)
<1>2. D \in [0..3 -> Digit] /\ D[0] + 4 * D[1] + 16 * D[2] + 64 * D[3] = txclkdiv /\ txclkcnt' = D
  BY <1>1, DigitsOK DEF DividerTypeOK
<1> HIDE DEF D
<1>3. \A k \in 0..3 : D[k] \in 0..3
  BY <1>2 DEF Digit
<1>5. ~txclkcy'[0] /\ ~txclkcy'[1] /\ ~txclkcy'[2]
  BY <1>1
<1>6. Left' = txclkdiv
  BY <1>2, <1>3, <1>5 DEF Left, Owed
<1> QED BY <1>1, <1>6 DEF AtEnd

LEMMA TypeStep == DividerInv /\ DividerNext => DividerTypeOK'
<1> SUFFICES ASSUME DividerInv, DividerNext PROVE DividerTypeOK'
  OBVIOUS
<1> USE DEF Digit
<1>1. PICK sysEdge \in BOOLEAN, txEdge \in BOOLEAN :
        /\ InPace(sysEdge, txEdge) /\ AnyReset(sysEdge)
        /\ IF ~sysEdge THEN UNCHANGED sysDivider
           ELSE IF coreRst THEN SysDivideReset ELSE SysDivide
        /\ IF txEdge THEN (Divide \/ DivideReset) /\ Measure ELSE UNCHANGED <<txDivider, elapsed, settled>>
        /\ synctx_txdivsafe' \in Synchronised(synctx_txdivsafe, txEdge, txdivsafe, txdivsafe')
        /\ synctx_rst' \in Synchronised(synctx_rst, txEdge, TRUE, TRUE)
  BY DEF DividerNext
<1> DEFINE Step == txEdge /\ (Divide \/ DivideReset) /\ Measure
<1>2. last' \in {"sys", "other", "both"} /\ coreRst' \in BOOLEAN
  BY <1>1 DEF InPace, AnyReset, DividerInv, DividerTypeOK
<1>3. txdivreg' \in 0..255 /\ txdivnorm' \in BOOLEAN /\ txdivtmp' \in 0..3 /\ txdivsafe' \in BOOLEAN
  <2>1. txdivreg \in 0..255 /\ txdivnorm \in BOOLEAN /\ txdivtmp \in 0..3 /\ txdivsafe \in BOOLEAN
    BY DEF DividerInv, DividerTypeOK
  <2>2. CASE UNCHANGED sysDivider
    BY <2>1, <2>2 DEF sysDivider
  <2>3. CASE SysDivideReset
    <3>1. txdivreg' \in 0..255 /\ txdivtmp' \in 0..3
      BY <2>3 DEF SysDivideReset
    <3>2. txdivnorm' \in BOOLEAN /\ txdivsafe' \in BOOLEAN
      BY <2>3 DEF SysDivideReset
    <3> QED BY <3>1, <3>2
  <2>4. CASE SysDivide
    <3>1. txdivsafe' \in BOOLEAN
      BY <2>1, <2>4 DEF SysDivide, Safe
    <3>2. txdivtmp' \in 0..3
      BY <2>1, <2>4 DEF SysDivide, Safe
    <3>3. CASE latches
      <4>1. PICK divcnt \in Dividers : txdivreg' = divcnt /\ txdivnorm' = (divcnt >= 2)
        BY <2>4, <3>3 DEF SysDivide
      <4>2. txdivreg' \in 0..255
        BY <4>1, DividersAssumption
      <4>3. txdivnorm' \in BOOLEAN
        BY <4>1
      <4> QED BY <3>1, <3>2, <4>2, <4>3
    <3>4. CASE ~latches
      BY <2>1, <2>4, <3>1, <3>2, <3>4 DEF SysDivide
    <3> QED BY <3>3, <3>4
  <2> QED BY <1>1, <2>2, <2>3, <2>4
<1>4. synctx_txdivsafe' \in BOOLEAN \X BOOLEAN /\ synctx_rst' \in BOOLEAN \X BOOLEAN
  <2>1. /\ synctx_txdivsafe \in BOOLEAN \X BOOLEAN /\ synctx_rst \in BOOLEAN \X BOOLEAN
        /\ txdivsafe \in BOOLEAN
    BY DEF DividerInv, DividerTypeOK
  <2>2. synctx_txdivsafe' \in BOOLEAN \X BOOLEAN
    BY <1>1, <1>3, <2>1, SynchronisedOK
  <2>3. synctx_rst' \in BOOLEAN \X BOOLEAN
    BY <1>1, <2>1, SynchronisedOK
  <2> QED BY <2>2, <2>3
<1>5. CASE UNCHANGED <<txDivider, elapsed, settled>>
  BY <1>2, <1>3, <1>4, <1>5 DEF DividerInv, DividerTypeOK, txDivider
<1>6. CASE Step
  <2>1. txclken' \in BOOLEAN /\ txclkpre' \in BOOLEAN
    BY <1>6 DEF Divide, DivideReset
  <2>2. txclkcnt' \in [0..3 -> 0..3]
    <3>1. CASE txclkcnt' \in {Digits(txclkdiv), Digits(0)}
      <4>1. txclkdiv \in 0..255 /\ 0 \in 0..255
        BY DEF DividerInv, DividerTypeOK
      <4>2. Digits(txclkdiv) \in [0..3 -> Digit] /\ Digits(0) \in [0..3 -> Digit]
        BY <4>1, DigitsAreDigits
      <4> QED BY <3>1, <4>2
    <3>2. CASE Decrement
      BY <3>2 DEF Decrement, DividerInv, DividerTypeOK
    <3> QED BY <1>6, <3>1, <3>2 DEF Divide, DivideReset, CountDown
  <2>3. txclkcy' \in [0..2 -> BOOLEAN] /\ txclkdone' \in BOOLEAN \X BOOLEAN
    <3>1. CASE txclkcy' = [k \in 0..2 |-> FALSE] /\ txclkdone' = <<FALSE, FALSE>>
      BY <3>1
    <3>2. CASE Carry /\ LastDigits
      <4>1. \A k \in 0..2 : (txclkcnt[k] = 0 /\ (k = 0 \/ txclkcy[k - 1])) \in BOOLEAN
        OBVIOUS
      <4> QED BY <3>2, <4>1 DEF Carry, LastDigits
    <3> QED BY <1>6, <3>1, <3>2 DEF Divide, DivideReset, CountDown
  <2>4. txclkdiv' \in 0..255 /\ txdivnorm_tx' \in BOOLEAN
    <3>1. /\ txclkdiv \in 0..255 /\ txdivreg \in 0..255
          /\ txdivnorm_tx \in BOOLEAN /\ txdivnorm \in BOOLEAN
      BY DEF DividerInv, DividerTypeOK
    <3>2. CASE CopyDivider
      <4>1. txclkdiv' \in 0..255
        BY <1>3, <3>1, <3>2 DEF CopyDivider
      <4>2. txdivnorm_tx' \in BOOLEAN
        BY <1>3, <3>1, <3>2 DEF CopyDivider
      <4> QED BY <4>1, <4>2
    <3>3. CASE txclkdiv' = 0 /\ txdivnorm_tx' = FALSE
      <4>1. txclkdiv' \in 0..255
        BY <3>3
      <4>2. txdivnorm_tx' \in BOOLEAN
        BY <3>3
      <4> QED BY <4>1, <4>2
    <3> QED BY <1>6, <3>2, <3>3 DEF Divide, DivideReset
  <2>5. elapsed' \in Nat /\ settled' \in 0..3
    BY <1>6 DEF Measure, DividerInv, DividerTypeOK
  <2> QED BY <1>2, <1>3, <1>4, <2>1, <2>2, <2>3, <2>4, <2>5 DEF DividerTypeOK
<1> QED BY <1>1, <1>5, <1>6

(* What is copied is a divider and its own half. *)
LEMMA ProtocolStep == DividerInv /\ DividerNext => Unsafe' /\ Halves'
<1> SUFFICES ASSUME DividerInv, DividerNext PROVE Unsafe' /\ Halves'
  OBVIOUS
<1>1. PICK sysEdge \in BOOLEAN, txEdge \in BOOLEAN :
        /\ InPace(sysEdge, txEdge) /\ AnyReset(sysEdge)
        /\ IF ~sysEdge THEN UNCHANGED sysDivider
           ELSE IF coreRst THEN SysDivideReset ELSE SysDivide
        /\ IF txEdge THEN (Divide \/ DivideReset) /\ Measure ELSE UNCHANGED <<txDivider, elapsed, settled>>
        /\ synctx_txdivsafe' \in Synchronised(synctx_txdivsafe, txEdge, txdivsafe, txdivsafe')
        /\ synctx_rst' \in Synchronised(synctx_rst, txEdge, TRUE, TRUE)
  BY DEF DividerNext
<1> DEFINE ff == synctx_txdivsafe
           ff2 == synctx_txdivsafe'
<1>2. DividerTypeOK /\ DividerTypeOK'
  BY TypeStep DEF DividerInv
<1>3. /\ coreRst \/ coreRst' => ff2 = Down
      /\ ff2 # Down => IF txEdge THEN ff2[2] = ff[1] /\ ff2[1] \in {txdivsafe, txdivsafe'} ELSE ff2 = ff
  <2>1. synctx_txdivsafe \in BOOLEAN \X BOOLEAN /\ txdivsafe \in BOOLEAN /\ txdivsafe' \in BOOLEAN
    BY <1>2 DEF DividerTypeOK
  <2> QED BY <1>1, <2>1, SynchronisedOK
<1>4. (txdivreg' # txdivreg \/ txdivnorm' # txdivnorm) => ~ff[2]
  <2>1. CASE UNCHANGED sysDivider
    BY <2>1 DEF sysDivider
  <2>2. CASE coreRst
    BY <2>2, <<FALSE, FALSE>>[2] = FALSE DEF DividerInv, Unsafe, Down
  <2>3. CASE SysDivide
    BY <2>3 DEF SysDivide, latches, DividerInv, Unsafe
  <2> QED BY <1>1, <2>1, <2>2, <2>3
<1>5. txdivnorm' = (txdivreg' >= 2)
  <2>1. CASE UNCHANGED sysDivider
    BY <2>1 DEF sysDivider, DividerInv, Halves
  <2>2. CASE SysDivideReset
    <3>1. txdivreg' = 0 /\ ~txdivnorm' /\ txdivnorm' \in BOOLEAN
      BY <2>2 DEF SysDivideReset
    <3> QED BY <3>1
  <2>3. CASE SysDivide
    BY <2>3 DEF SysDivide, DividerInv, Halves
  <2> QED BY <1>1, <2>1, <2>2, <2>3
<1>6. txdivnorm_tx' = (txclkdiv' >= 2)
  <2>1. CASE UNCHANGED txDivider
    BY <2>1 DEF txDivider, DividerInv, Halves
  <2>2. CASE DivideReset
    <3>1. txclkdiv' = 0 /\ ~txdivnorm_tx' /\ txdivnorm_tx' \in BOOLEAN
      BY <2>2 DEF DivideReset
    <3> QED BY <3>1
  <2>3. CASE CopyDivider
    BY <1>4, <2>3 DEF CopyDivider, DividerInv, Halves
  <2> QED BY <1>1, <2>1, <2>2, <2>3 DEF Divide
<1>7. CASE ff2 = Down
  BY <1>5, <1>6, <1>7 DEF Unsafe, Halves, Down
<1>8. CASE ff2 # Down
  <2>1. ~coreRst /\ ~coreRst'
    BY <1>2, <1>3, <1>8 DEF DividerTypeOK
  <2>2. IF txEdge THEN ff2[2] = ff[1] /\ ff2[1] \in {txdivsafe, txdivsafe'} ELSE ff2 = ff
    BY <1>3, <1>8
  <2>3. CASE ~sysEdge
    <3>1. txEdge /\ last' = "other" /\ txdivsafe' = txdivsafe /\ txdivtmp' = txdivtmp
      BY <1>1, <2>3 DEF InPace, sysDivider
    <3> QED BY <1>2, <1>5, <1>6, <2>1, <2>2, <3>1 DEF Unsafe, Halves, DividerInv, DividerTypeOK
  <2>4. CASE sysEdge
    <3>1. Safe /\ last' # "other" /\ (last = "other" \/ txEdge)
      BY <1>1, <2>1, <2>4 DEF InPace, SysDivide
    <3>2. ~txdivsafe' =>
            /\ txdivtmp' = (txdivtmp + 3) % 4
            /\ txdivsafe => txdivtmp = 0
            /\ ~txdivsafe => txdivtmp # 0
      BY <1>2, <3>1 DEF Safe, latches, DividerTypeOK
    <3>3. /\ txdivtmp \in 0..3 /\ txdivtmp' \in 0..3
          /\ (txdivtmp + 3) % 4 = IF txdivtmp = 0 THEN 3 ELSE txdivtmp - 1
      BY <1>2 DEF DividerTypeOK, Digit
    <3>4. /\ txdivsafe \in BOOLEAN /\ txdivsafe' \in BOOLEAN
          /\ ff[1] \in BOOLEAN /\ ff[2] \in BOOLEAN /\ ff2[1] \in BOOLEAN /\ ff2[2] \in BOOLEAN
      BY <1>2 DEF DividerTypeOK
    <3>5. Unsafe
      BY DEF DividerInv
    <3> HIDE DEF ff, ff2
    <3>6. ~txdivsafe' => txdivtmp' = IF txdivsafe THEN 3 ELSE txdivtmp - 1
      BY <3>2, <3>3, <3>4
    <3>7. Unsafe'
      BY <2>1, <2>2, <3>1, <3>3, <3>4, <3>5, <3>6 DEF Unsafe, ff, ff2
    <3> QED BY <1>5, <1>6, <3>7 DEF Halves
  <2> QED BY <2>3, <2>4
<1> QED BY <1>7, <1>8

LEMMA InStepStep == DividerInv /\ DividerNext => InStep'
<1> SUFFICES ASSUME DividerInv, DividerNext, settled' > 0
             PROVE  /\ \A k \in 0..2 : txclkcy'[k] => txclkcnt'[k] = 3
                    /\ IF txclkdiv' >= 2 THEN Counted' ELSE IF txclkdiv' = 1 THEN Alternates' ELSE Always'
  BY DEF InStep
<1>1. \/ UNCHANGED <<txDivider, elapsed, settled>>
      \/ (Divide \/ DivideReset) /\ Measure
  BY DEF DividerNext
<1>2. CASE UNCHANGED <<txDivider, elapsed, settled>>
  <2>1. /\ UNCHANGED <<txclken, txclkpre, txclkcnt, txclkcy, txclkdone, txclkdiv, elapsed, settled>>
        /\ InStep
    BY <1>2 DEF txDivider, DividerInv
  <2> QED BY <2>1 DEF InStep, Counted, Alternates, Always, Loaded, AtEnd, Left, Owed
<1>3. CASE (Divide \/ DivideReset) /\ Measure
  <2>1. DividerTypeOK /\ DividerTypeOK'
    BY TypeStep DEF DividerInv
  <2>2. /\ synctx_rst[2] /\ txclkdiv' = txclkdiv
        /\ settled' = IF txclken /\ settled < 3 THEN settled + 1 ELSE settled
        /\ elapsed' = IF txclken \/ settled = 0 THEN 1 ELSE elapsed + 1
    BY <1>3 DEF Measure
  <2>3. /\ CountDown
        /\ txclken' = (AtEnd \/ txclkpre)
        /\ txclkpre' = (~txdivnorm_tx /\ (~txclkpre \/ txclkdiv % 2 = 0))
    BY <1>3, <2>2 DEF Divide, DivideReset, AtEnd
  <2>4. txdivnorm_tx <=> txclkdiv >= 2
    BY <2>1 DEF DividerInv, Halves, DividerTypeOK
  <2>5. /\ txclkdiv \in Nat /\ settled \in 0..3 /\ elapsed \in Nat
        /\ txclken \in BOOLEAN /\ txclken' \in BOOLEAN /\ txclkpre \in BOOLEAN /\ txclkpre' \in BOOLEAN
        /\ AtEnd \in BOOLEAN /\ txclkdone[1] \in BOOLEAN /\ txdivnorm_tx \in BOOLEAN
    BY <2>1 DEF DividerTypeOK, AtEnd
  <2>9. (txclkdiv = 1 => txclkdiv % 2 # 0) /\ (txclkdiv = 0 => txclkdiv % 2 = 0)
    OBVIOUS
  <2>6. AtEnd => txclkdone[1]
    BY DEF AtEnd
  <2>7. CASE txclken
    <3>1. Loaded' /\ ~AtEnd' /\ \A k \in 0..2 : ~txclkcy'[k]
      BY <2>1, <2>2, <2>3, <2>7, LoadsAll DEF Loaded
    <3>2. settled' = IF settled < 3 THEN settled + 1 ELSE settled
      BY <2>2, <2>7
    <3>3. CASE txclkdiv >= 2
      <4>1. ~txclkpre' /\ (txclken' => settled = 0)
        <5>1. settled # 0 => Counted
          BY <2>5, <3>3 DEF DividerInv, InStep
        <5>2. Counted => ~txclkpre /\ ~AtEnd
          BY <2>5, <2>6, <2>7 DEF Counted, Loaded
        <5> QED BY <2>3, <2>4, <3>3, <5>1, <5>2
      <4>2. elapsed' = 1 /\ Left' = txclkdiv'
        BY <3>1 DEF Loaded
      <4>3. Counted'
        BY <2>2, <2>5, <3>1, <3>2, <3>3, <4>1, <4>2 DEF Counted
      <4> QED BY <2>2, <3>1, <3>3, <4>3
    <3>4. CASE txclkdiv = 1
      <4>1. txclkpre' <=> ~txclkpre
        <5>1. ~txdivnorm_tx
          BY <2>4, <3>4
        <5>2. ~(txclkdiv % 2 = 0)
          BY <2>9, <3>4
        <5> QED BY <2>3, <2>5, <5>1, <5>2
      <4>2. settled # 0 => Alternates
        BY <2>5, <3>4 DEF DividerInv, InStep
      <4>3. settled # 0 => (txclken' <=> txclkpre)
        BY <2>3, <2>5, <2>6, <2>7, <4>2 DEF Alternates, Loaded
      <4>4. settled # 0 /\ txclkpre => settled = 1
        BY <2>7, <4>2 DEF Alternates
      <4>5. txclkpre => txclken'
        BY <2>3
      <4>6. Alternates'
        BY <2>5, <3>1, <3>2, <4>1, <4>3, <4>4, <4>5 DEF Alternates
      <4> QED BY <2>2, <3>1, <3>4, <4>6
    <3>5. CASE txclkdiv = 0
      <4>1. txclkpre'
        <5>1. ~txdivnorm_tx
          BY <2>4, <3>5
        <5>2. txclkdiv % 2 = 0
          BY <2>9, <3>5
        <5> QED BY <2>3, <2>5, <5>1, <5>2
      <4>2. settled # 0 => txclken'
        BY <2>3, <2>5, <3>5 DEF DividerInv, InStep, Always
      <4>3. Always'
        BY <2>5, <3>1, <3>2, <4>1, <4>2 DEF Always, Loaded
      <4> QED BY <2>2, <3>1, <3>5, <4>3
    <3> QED BY <2>5, <3>3, <3>4, <3>5
  <2>8. CASE ~txclken
    <3>1. settled' = settled /\ settled # 0 /\ elapsed' = elapsed + 1
      BY <2>2, <2>5, <2>8
    <3>2. \A k \in 0..2 : txclkcy[k] => txclkcnt[k] = 3
      BY <2>5, <3>1 DEF DividerInv, InStep
    <3>3. Carry /\ Decrement /\ LastDigits
      BY <2>3, <2>8 DEF CountDown
    <3>4. (Left >= 0 => Left' = Left - 1) /\ \A k \in 0..2 : txclkcy'[k] => txclkcnt'[k] = 3
      BY <2>1, <3>2, <3>3, CountsDown
    <3>5. (AtEnd' <=> Left = 2) /\ (Left = 1 => ~txclkdone'[1])
      BY <2>1, <3>2, <3>3, EndsAtTwo
    <3>6. CASE txclkdiv >= 2
      <4>1. /\ ~txclkpre /\ elapsed \in 1..(txclkdiv + 1) /\ Left = txclkdiv + 1 - elapsed
            /\ AtEnd <=> elapsed = txclkdiv
            /\ elapsed # txclkdiv + 1
        BY <2>5, <2>8, <3>1, <3>6 DEF DividerInv, InStep, Counted
      <4>2. ~txclkpre' /\ (txclken' <=> elapsed = txclkdiv)
        BY <2>3, <2>4, <2>5, <3>6, <4>1
      <4>3. elapsed' \in 1..(txclkdiv + 1) /\ Left' = txclkdiv + 1 - elapsed'
        BY <2>5, <3>1, <3>4, <4>1
      <4>4. AtEnd' <=> elapsed' = txclkdiv
        BY <2>5, <3>1, <3>5, <4>1
      <4>5. txclken' <=> elapsed' = txclkdiv + 1
        BY <2>5, <3>1, <4>2
      <4>6. Counted'
        BY <2>2, <4>2, <4>3, <4>4, <4>5 DEF Counted
      <4> QED BY <2>2, <3>4, <3>6, <4>6
    <3>7. CASE txclkdiv = 1
      <4>1. Loaded /\ txclkpre
        BY <2>5, <2>8, <3>1, <3>7 DEF DividerInv, InStep, Alternates
      <4>2. txclken' /\ ~txclkpre'
        BY <2>3, <2>4, <2>5, <2>9, <3>7, <4>1
      <4>3. elapsed' = 2 /\ ~txclkdone'[1]
        BY <3>1, <3>5, <3>7, <4>1 DEF Loaded
      <4>4. Alternates'
        BY <4>2, <4>3 DEF Alternates
      <4> QED BY <2>2, <3>4, <3>7, <4>4
    <3>8. CASE txclkdiv = 0
      <4>1. settled < 2
        BY <2>5, <2>8, <3>1, <3>8 DEF DividerInv, InStep, Always
      <4>2. txclkpre'
        <5>1. ~txdivnorm_tx
          BY <2>4, <3>8
        <5>2. txclkdiv % 2 = 0
          BY <2>9, <3>8
        <5> QED BY <2>3, <2>5, <5>1, <5>2
      <4>3. Always'
        BY <2>5, <3>1, <4>1, <4>2 DEF Always
      <4> QED BY <2>2, <3>4, <3>8, <4>3
    <3> QED BY <2>5, <3>6, <3>7, <3>8
  <2> QED BY <2>5, <2>7, <2>8
<1> QED BY <1>1, <1>2, <1>3

LEMMA DividerStepOK == DividerInv /\ [DividerNext]_<<last, coreRst, dividerVars>> => DividerInv'
<1>1. DividerInv /\ DividerNext => DividerInv'
  BY TypeStep, ProtocolStep, InStepStep DEF DividerInv
<1>2. DividerInv /\ UNCHANGED <<last, coreRst, dividerVars>> => DividerInv'
  <2> SUFFICES ASSUME DividerInv, UNCHANGED <<last, coreRst, dividerVars>> PROVE DividerInv'
    OBVIOUS
  <2>1. UNCHANGED <<last, coreRst, txdivreg, txdivnorm, txdivtmp, txdivsafe, synctx_txdivsafe, synctx_rst, txclken,
                    txclkpre, txclkcnt, txclkcy, txclkdone, txclkdiv, txdivnorm_tx, elapsed, settled>>
    BY DEF dividerVars
  <2>2. DividerTypeOK'
    BY <2>1 DEF DividerInv, DividerTypeOK
  <2>3. Unsafe' /\ Halves'
    <3>1. Unsafe /\ Halves
      BY DEF DividerInv
    <3>2. Unsafe'
      <4>1. (coreRst => synctx_txdivsafe = Down)'
        BY <2>1, <3>1 DEF Unsafe
      <4>2. (~txdivsafe /\ txdivtmp = 3 /\ last = "other" => ~synctx_txdivsafe[1])'
        BY <2>1, <3>1 DEF Unsafe
      <4>3. (~txdivsafe /\ txdivtmp = 2 => ~synctx_txdivsafe[1] /\ (last = "other" => ~synctx_txdivsafe[2]))'
        BY <2>1, <3>1 DEF Unsafe
      <4>4. (~txdivsafe /\ txdivtmp < 2 => ~synctx_txdivsafe[1] /\ ~synctx_txdivsafe[2])'
        BY <2>1, <3>1 DEF Unsafe
      <4> QED BY <4>1, <4>2, <4>3, <4>4 DEF Unsafe
    <3>3. Halves'
      BY <2>1, <3>1 DEF Halves
    <3> QED BY <3>2, <3>3
  <2>4. InStep'
    BY <2>1 DEF DividerInv, InStep, Counted, Alternates, Always, Loaded, AtEnd, Left, Owed
  <2> QED BY <2>2, <2>3, <2>4 DEF DividerInv
<1> QED BY <1>1, <1>2

(***************************************************************************)
(* For every divider from 0 to 255: its two halves belong together when    *)
(* the transmit clock uses them, and while it stays the same bits are due  *)
(* every divcnt + 1 transmit clocks (spwxmit_fast.v:349-370, 400-411).     *)
(***************************************************************************)
THEOREM RateIsAsSet == DividerSpec => []RateAsSet
<1>1. DividerInv => RateAsSet
  <2> SUFFICES ASSUME DividerInv PROVE RateAsSet
    OBVIOUS
  <2>1. /\ txclkdiv \in Nat /\ settled \in 0..3 /\ elapsed \in Nat /\ txclken \in BOOLEAN
        /\ txdivnorm_tx = (txclkdiv >= 2)
    BY DEF DividerInv, DividerTypeOK, Halves
  <2>2. settled = 3 => elapsed <= txclkdiv + 1 /\ (txclken => elapsed = txclkdiv + 1)
    <3> SUFFICES ASSUME settled = 3 PROVE elapsed <= txclkdiv + 1 /\ (txclken => elapsed = txclkdiv + 1)
      OBVIOUS
    <3>1. IF txclkdiv >= 2 THEN Counted ELSE IF txclkdiv = 1 THEN Alternates ELSE Always
      BY DEF DividerInv, InStep
    <3>2. CASE txclkdiv >= 2
      BY <2>1, <3>1, <3>2 DEF Counted
    <3>3. CASE txclkdiv = 1
      BY <2>1, <3>1, <3>3 DEF Alternates, Loaded
    <3>4. CASE txclkdiv = 0
      BY <2>1, <3>1, <3>4 DEF Always
    <3> QED BY <2>1, <3>2, <3>3, <3>4
  <2> QED BY <2>1, <2>2 DEF RateAsSet
<1> QED BY <1>1, DividerInitOK, DividerStepOK, PTL DEF DividerSpec
=============================================================================
