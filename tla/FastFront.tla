----------------------------- MODULE FastFront -----------------------------
(***************************************************************************)
(* The front end with a sample clock of its own (spwrecvfront_fast): every *)
(* edge of rxclk yields two samples of the lines and so zero, one or two   *)
(* bits; bits are collected in groups, and groups cross to the system      *)
(* clock through a buffer of eight slots without a full flag, whose head   *)
(* pointer is synchronised in Gray code.  (Activity: FrontActivity.)       *)
(*                                                                         *)
(* A bit is known by its place in the stream, counted modulo what the      *)
(* buffer holds; the exclusive or of data and strobe is the parity of the  *)
(* place.                                                                  *)
(***************************************************************************)
EXTENDS TwoClocks, Naturals, Sequences

CONSTANT Chunks   \* values of RXCHUNK

ASSUME ChunksAssumption == Chunks \subseteq 1..4

VARIABLES
  RXCHUNK,                                                              \* chosen once
  tailptr, inbvalid_r, splitbit, splitinx, splitvalid, rxdis, bufdout,  \* system clock
  b_at, c_bit, c_val, c_xor1, d_shift, d_count, bufdata, bufwrite,      \* rxclk
  headptr, bufmem,
  syncrx_rstn, syncsys_headptr,
  sampled,  \* history: bits sampled since the last edge of the system clock
  aligned,  \* history: a pair of samples has been compared since the receiver was enabled
  next      \* history: the place of the next bit to hand over

sysFront  == <<tailptr, inbvalid_r, splitbit, splitinx, splitvalid, rxdis>>
rxFront   == <<b_at, c_bit, c_val, c_xor1, d_shift, d_count, bufdata, bufwrite, headptr>>
frontVars == <<RXCHUNK, sysFront, rxFront, bufmem, bufdout, syncrx_rstn, syncsys_headptr, sampled, aligned, next>>

MEMWIDTH == IF RXCHUNK <= 2 THEN 2 ELSE RXCHUNK
Places == 8 * MEMWIDTH

(* What a register holds from before the receiver was enabled, or a slot after *)
(* it has been read, is not told apart.                                        *)
Stale == [k \in 1..MEMWIDTH |-> Places]

After(place, n) == (place + n) % Places
Up(pointer) == (pointer + 1) % 8

(***************************************************************************)
(* The sample clock's domain.  Stage A only delays the samples and is left *)
(* out; b_at holds the places seen by the two samples.  Places are counted *)
(* anew, from a place of the same parity, while the receiver is disabled.  *)
(***************************************************************************)
Sample(from, first, second) == b_at' = <<After(from, first), After(from, first + second)>>

firstIsNew  == b_at[1] % 2 # c_xor1
secondIsNew == b_at[1] # b_at[2]
found == (IF firstIsNew THEN 1 ELSE 0) + (IF secondIsNew THEN 1 ELSE 0)

ShiftIn(bits) == SubSeq(d_shift \o bits, Len(bits) + 1, MEMWIDTH + Len(bits))

(* c_val counts the bits in c_bit; d_count counts the bits missing in the group, less one. *)
Collect ==
  /\ c_val' = found /\ c_xor1' = b_at[2] % 2
  /\ c_bit' = <<IF firstIsNew THEN b_at[1] ELSE b_at[2], b_at[2]>>
  /\ d_shift' = ShiftIn(SubSeq(c_bit, 1, c_val))
  /\ bufdata' = IF c_val = 0 THEN bufdata ELSE IF d_count = 0 THEN ShiftIn(<<c_bit[1]>>) ELSE ShiftIn(c_bit)
  /\ d_count' = (d_count + MEMWIDTH - c_val) % MEMWIDTH
  /\ bufwrite' = (c_val > d_count)
  /\ headptr' = IF bufwrite THEN Up(headptr) ELSE headptr

CollectReset ==
  /\ c_val' = 0 /\ c_xor1' = 0 /\ d_count' = MEMWIDTH - 1
  /\ bufwrite' = FALSE /\ headptr' = 0
  /\ c_bit' = <<Places, Places>> /\ d_shift' = Stale /\ bufdata' = Stale

RxClock(sysEdge) ==
  \E first \in {0, 1}, second \in {0, 1} :
    /\ sampled + first + second <= RXCHUNK
    /\ Sample(IF syncrx_rstn[2] THEN b_at[2] ELSE b_at[2] % 2, first, second)
    /\ sampled' = IF sysEdge THEN 0 ELSE sampled + first + second
    /\ IF syncrx_rstn[2] THEN Collect ELSE CollectReset

(***************************************************************************)
(* The system clock's domain.                                              *)
(***************************************************************************)
Bit(word, k) == (word \div 2^k) % 2

(* Fault: the pointer crosses as it is. *)
PlainPointer == [n \in 0..7 |-> n]

Gray == [n \in 0..7 |-> 4 * Bit(n, 2) + 2 * ((Bit(n, 2) + Bit(n, 1)) % 2) + ((Bit(n, 1) + Bit(n, 0)) % 2)]
Binary == [word \in 0..7 |-> CHOOSE n \in 0..7 : Gray[n] = word]

(* What can be seen of a word that changes from old to new. *)
Mixtures == [old \in 0..7, new \in 0..7 |->
               {word \in 0..7 : \A k \in 0..2 : Bit(word, k) \in {Bit(old, k), Bit(new, k)}}]

headSeen == Binary[syncsys_headptr[2]]
nonEmpty == tailptr # headSeen

(* A group of two bits is handed over bit by bit if RXCHUNK is 1. *)
Split ==
  IF RXCHUNK = 1
  THEN /\ splitbit' = bufdout[splitinx + 1] /\ splitvalid' = inbvalid_r
       /\ splitinx' = IF inbvalid_r THEN 1 - splitinx ELSE splitinx
       /\ tailptr' = IF inbvalid_r /\ splitinx = 0 THEN Up(tailptr) ELSE tailptr
  ELSE /\ tailptr' = IF nonEmpty THEN Up(tailptr) ELSE tailptr
       /\ UNCHANGED <<splitbit, splitinx, splitvalid>>

Receive ==
  /\ inbvalid_r' = nonEmpty /\ Split
  /\ rxdis' = FALSE

Disabled ==
  /\ tailptr' = 0 /\ inbvalid_r' = FALSE
  /\ splitbit' = 0 /\ splitinx' = 0 /\ splitvalid' = FALSE
  /\ rxdis' = TRUE

(* The input rxen is free in every clock. *)
SysClock == Receive \/ Disabled

(* A slot that is written while it is read is seen as it was or as it becomes. *)
Buffer(sysEdge, rxEdge) ==
  LET written == IF rxEdge /\ bufwrite THEN [bufmem EXCEPT ![headptr] = bufdata] ELSE bufmem
  IN /\ bufdout' \in IF sysEdge THEN {bufmem[tailptr], written[tailptr]} ELSE {bufdout}
     /\ bufmem' = IF rxEdge /\ ~syncrx_rstn[2] THEN [slot \in 0..7 |-> Stale]
                  ELSE IF tailptr' # tailptr THEN [written EXCEPT ![tailptr] = Stale]
                  ELSE written

(* The synchronisers are reset by rxdis. *)
Cross(sysEdge, rxEdge) ==
  IF rxdis \/ rxdis'
  THEN syncrx_rstn' = Down /\ syncsys_headptr' = <<0, 0>>
  ELSE /\ syncrx_rstn' = IF rxEdge THEN <<TRUE, syncrx_rstn[1]>> ELSE syncrx_rstn
       /\ IF sysEdge
          THEN syncsys_headptr' \in Clocked(syncsys_headptr, Mixtures[Gray[headptr], Gray[headptr']])
          ELSE UNCHANGED syncsys_headptr

(***************************************************************************)
(* What is handed over, and the history that it is compared with.          *)
(***************************************************************************)
inbvalid == IF RXCHUNK = 1 THEN splitvalid ELSE inbvalid_r
inbits == IF RXCHUNK = 1 THEN <<splitbit>> ELSE SubSeq(bufdout, 1, RXCHUNK)

(* The first pair of samples after the receiver was enabled has no predecessor *)
(* to be compared with: it may be found to hold a bit too many or too few.     *)
FrontHistory(sysEdge, rxEdge) ==
  /\ aligned' = IF rxEdge THEN syncrx_rstn[2] ELSE aligned
  /\ next' = IF rxEdge /\ ~aligned' THEN 0
             ELSE IF rxEdge /\ ~aligned THEN After(b_at[2], Places + 1 - found)
             ELSE IF sysEdge /\ inbvalid THEN After(next, RXCHUNK)
             ELSE next

FrontNext ==
  \E sysEdge \in BOOLEAN, rxEdge \in BOOLEAN :
    /\ InPace(sysEdge, rxEdge) /\ UNCHANGED RXCHUNK
    /\ IF rxEdge THEN RxClock(sysEdge) ELSE UNCHANGED rxFront /\ sampled' = 0
    /\ IF sysEdge THEN SysClock ELSE UNCHANGED sysFront
    /\ Buffer(sysEdge, rxEdge) /\ Cross(sysEdge, rxEdge)
    /\ FrontHistory(sysEdge, rxEdge)

FrontInit ==
  /\ RXCHUNK \in Chunks
  /\ tailptr = 0 /\ inbvalid_r = FALSE /\ splitbit = 0 /\ splitinx = 0 /\ splitvalid = FALSE
  /\ rxdis = TRUE /\ bufdout = Stale
  /\ b_at = <<0, 0>> /\ c_bit = <<Places, Places>> /\ c_val = 0 /\ c_xor1 = 0
  /\ d_shift = Stale /\ d_count = MEMWIDTH - 1
  /\ bufdata = Stale /\ bufwrite = FALSE /\ headptr = 0
  /\ bufmem = [slot \in 0..7 |-> Stale]
  /\ syncrx_rstn = Down /\ syncsys_headptr = <<0, 0>>
  /\ sampled = 0 /\ aligned = FALSE /\ next = 0

(***************************************************************************)
(* The bits that are handed over are the bits sampled, in order and none   *)
(* of them lost, and no group is written over one that waits to be read.   *)
(***************************************************************************)
BitsAsSampled ==
  /\ inbvalid => \A k \in 1..RXCHUNK : inbits[k] = After(next, k - 1)
  /\ bufwrite /\ ~rxdis => bufmem[headptr] = Stale
=============================================================================
