--------------------------- MODULE FrontActivity ---------------------------
(***************************************************************************)
(* How the front end with its own clock tells activity (spwrecvfront_fast):*)
(* a three-bit counter of the pairs of samples that held a bit crosses to  *)
(* the system clock as it is, so that it may be seen torn, and activity is *)
(* shown when it is not what it was a clock ago.  How bits are found and   *)
(* buffered is left out (FastFront).                                       *)
(***************************************************************************)
EXTENDS FastFront

CONSTANT Lag   \* system clocks within which activity is shown

VARIABLES
  bitcnt, syncsys_bitcnt, bitcntp, inact_r,
  quiet,    \* history: system clocks since the last bit, up to Lag + 1
  unshown   \* history: system clocks since a bit whose activity has not been shown, or 0

activityVars == <<RXCHUNK, rxdis, c_val, syncrx_rstn, sampled,
                  bitcnt, syncsys_bitcnt, bitcntp, inact_r, quiet, unshown>>

CountBits(sysEdge) ==
  \E bits \in 0..2 :
    /\ sampled + bits <= RXCHUNK
    /\ sampled' = IF sysEdge THEN 0 ELSE sampled + bits
    /\ c_val' = IF syncrx_rstn[2] THEN bits ELSE 0
    /\ bitcnt' = IF ~syncrx_rstn[2] THEN 0 ELSE IF c_val > 0 THEN Up(bitcnt) ELSE bitcnt

(* Fault: the count of the clock before is not kept up to date. *)
WatchFirst == UNCHANGED bitcntp /\ inact_r' = (bitcntp # syncsys_bitcnt[2]) /\ rxdis' = FALSE

Watch == bitcntp' = syncsys_bitcnt[2] /\ inact_r' = (bitcntp # syncsys_bitcnt[2]) /\ rxdis' = FALSE

WatchDisabled == bitcntp' = 0 /\ inact_r' = FALSE /\ rxdis' = TRUE

CrossCount(sysEdge, rxEdge) ==
  IF rxdis \/ rxdis'
  THEN syncrx_rstn' = Down /\ syncsys_bitcnt' = <<0, 0>>
  ELSE /\ syncrx_rstn' = IF rxEdge THEN <<TRUE, syncrx_rstn[1]>> ELSE syncrx_rstn
       /\ syncsys_bitcnt' \in IF sysEdge THEN Clocked(syncsys_bitcnt, Mixtures[bitcnt, bitcnt'])
                              ELSE {syncsys_bitcnt}

ActivityHistory(sysEdge, rxEdge) ==
  LET bitFound == rxEdge /\ c_val' > 0
      later(n) == IF n > Lag THEN n ELSE n + 1
  IN /\ quiet' = IF bitFound THEN 0 ELSE IF sysEdge THEN later(quiet) ELSE quiet
     /\ unshown' = IF rxdis' \/ (sysEdge /\ inact_r') THEN 0
                   ELSE IF unshown > 0 THEN (IF sysEdge THEN later(unshown) ELSE unshown)
                   ELSE IF bitFound THEN 1 ELSE 0

ActivityNext ==
  \E sysEdge \in BOOLEAN, rxEdge \in BOOLEAN :
    /\ InPace(sysEdge, rxEdge) /\ UNCHANGED RXCHUNK
    /\ IF rxEdge THEN CountBits(sysEdge) ELSE UNCHANGED <<c_val, bitcnt>> /\ sampled' = 0
    /\ IF sysEdge THEN Watch \/ WatchDisabled ELSE UNCHANGED <<bitcntp, inact_r, rxdis>>
    /\ CrossCount(sysEdge, rxEdge)
    /\ ActivityHistory(sysEdge, rxEdge)

ActivityInit ==
  /\ bitcnt = 0 /\ syncsys_bitcnt = <<0, 0>> /\ bitcntp = 0 /\ inact_r = FALSE
  /\ quiet = Lag + 1 /\ unshown = 0

(* Activity is shown soon after a bit, and no longer than Lag clocks after the last bit. *)
ActivityShown ==
  /\ inact_r => quiet <= Lag
  /\ unshown <= Lag
=============================================================================
