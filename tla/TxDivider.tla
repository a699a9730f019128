----------------------------- MODULE TxDivider -----------------------------
(***************************************************************************)
(* The bit clock of the fast transmitter.  The divider crosses from the    *)
(* system clock's domain in a register that is loaded every six clocks and *)
(* declared safe for two of them; the transmit clock is divided by a down  *)
(* counter of four two-bit digits, whose carries and whose end are each    *)
(* found a clock late, and by a short cut for the dividers 0 and 1.        *)
(***************************************************************************)
EXTENDS TwoClocks, Naturals

CONSTANT Dividers   \* values of divcnt

ASSUME DividersAssumption == Dividers \subseteq 0..255

VARIABLES
  txdivreg, txdivnorm, txdivtmp, txdivsafe,         \* system clock
  synctx_txdivsafe, synctx_rst,
  txclken, txclkpre, txclkcnt, txclkcy, txclkdone,  \* transmit clock
  txclkdiv, txdivnorm_tx,
  elapsed,  \* history: transmit clocks since the last bit was due
  settled   \* history: bits due since the divider changed, up to 3

dividerVars == <<txdivreg, txdivnorm, txdivtmp, txdivsafe, synctx_txdivsafe, synctx_rst, txclken,
                 txclkpre, txclkcnt, txclkcy, txclkdone, txclkdiv, txdivnorm_tx, elapsed, settled>>
sysDivider == <<txdivreg, txdivnorm, txdivtmp, txdivsafe>>
txDivider  == <<txclken, txclkpre, txclkcnt, txclkcy, txclkdone, txclkdiv, txdivnorm_tx>>

(* Fault: the register is loaded while it is declared safe. *)
LatchesWhileSafe == txdivtmp = 0

latches == txdivtmp = 0 /\ ~txdivsafe

Safe ==
  /\ txdivsafe' = (latches \/ (txdivsafe /\ txdivtmp # 0))
  /\ txdivtmp' = IF latches THEN 1 ELSE (txdivtmp + 3) % 4

(* The input divcnt is free in every clock. *)
SysDivide ==
  /\ Safe
  /\ IF latches
     THEN \E divcnt \in Dividers : txdivreg' = divcnt /\ txdivnorm' = (divcnt >= 2)
     ELSE UNCHANGED <<txdivreg, txdivnorm>>

SysDivideReset == txdivreg' = 0 /\ txdivnorm' = FALSE /\ txdivtmp' = 0 /\ txdivsafe' = FALSE

Digits(n) == [k \in 0..3 |-> (n \div 4^k) % 4]

Decrement ==
  txclkcnt' = [k \in 0..3 |-> IF k = 0 \/ txclkcy[k - 1] THEN (txclkcnt[k] + 3) % 4 ELSE txclkcnt[k]]

Carry == txclkcy' = [k \in 0..2 |-> txclkcnt[k] = 0 /\ (k = 0 \/ txclkcy[k - 1])]

LastDigits == txclkdone' = <<txclkcnt[0] = 2 /\ txclkcnt[1] = 0, txclkcnt[2] = 0 /\ txclkcnt[3] = 0>>

CountDown ==
  IF txclken
  THEN /\ txclkcnt' = Digits(txclkdiv)
       /\ txclkcy' = [k \in 0..2 |-> FALSE]
       /\ txclkdone' = <<FALSE, FALSE>>
  ELSE Carry /\ Decrement /\ LastDigits

(* The copy may catch each of the two registers before or after it changes. *)
CopyDivider ==
  IF synctx_txdivsafe[2]
  THEN txclkdiv' \in {txdivreg, txdivreg'} /\ txdivnorm_tx' \in {txdivnorm, txdivnorm'}
  ELSE UNCHANGED <<txclkdiv, txdivnorm_tx>>

Divide ==
  /\ synctx_rst[2]
  /\ CountDown /\ CopyDivider
  /\ txclken' = ((txclkdone[1] /\ txclkdone[2]) \/ txclkpre)
  /\ txclkpre' = (~txdivnorm_tx /\ (~txclkpre \/ txclkdiv % 2 = 0))

DivideReset ==
  /\ ~synctx_rst[2]
  /\ txclken' = FALSE /\ txclkpre' = TRUE
  /\ txclkcnt' = Digits(0) /\ txclkdiv' = 0 /\ txdivnorm_tx' = FALSE
  /\ IF txclken THEN txclkcy' = [k \in 0..2 |-> FALSE] /\ txclkdone' = <<FALSE, FALSE>> ELSE Carry /\ LastDigits

(* Rates are compared with what a plain counter would do. *)
Measure ==
  /\ elapsed' = IF txclken \/ settled = 0 THEN 1 ELSE elapsed + 1
  /\ settled' = IF ~synctx_rst[2] \/ txclkdiv' # txclkdiv THEN 0
                ELSE IF txclken /\ settled < 3 THEN settled + 1 ELSE settled

DividerNext ==
  \E sysEdge \in BOOLEAN, txEdge \in BOOLEAN :
    /\ InPace(sysEdge, txEdge) /\ AnyReset(sysEdge)
    /\ IF ~sysEdge THEN UNCHANGED sysDivider
       ELSE IF coreRst THEN SysDivideReset ELSE SysDivide
    /\ IF txEdge THEN (Divide \/ DivideReset) /\ Measure ELSE UNCHANGED <<txDivider, elapsed, settled>>
    /\ synctx_txdivsafe' \in Synchronised(synctx_txdivsafe, txEdge, txdivsafe, txdivsafe')
    /\ synctx_rst' \in Synchronised(synctx_rst, txEdge, TRUE, TRUE)

DividerInit ==
  /\ txdivreg = 0 /\ txdivnorm = FALSE /\ txdivtmp = 0 /\ txdivsafe = FALSE
  /\ synctx_txdivsafe = Down /\ synctx_rst = Down
  /\ txclken = FALSE /\ txclkpre = TRUE /\ txclkcnt = Digits(0)
  /\ txclkcy = [k \in 0..2 |-> FALSE] /\ txclkdone = <<FALSE, FALSE>>
  /\ txclkdiv = 0 /\ txdivnorm_tx = FALSE
  /\ elapsed = 0 /\ settled = 0

DividerSpec == Unclocked /\ DividerInit /\ [][DividerNext]_<<last, coreRst, dividerVars>>

(***************************************************************************)
(* The two halves of the divider belong together whenever the transmit     *)
(* clock uses them, and while it stays the same a bit is due every divcnt  *)
(* + 1 transmit clocks (the head of spwxmit_fast.vhd).                     *)
(***************************************************************************)
RateAsSet ==
  /\ txdivnorm_tx = (txclkdiv >= 2)
  /\ settled = 3 => elapsed <= txclkdiv + 1
  /\ settled = 3 /\ txclken => elapsed = txclkdiv + 1
=============================================================================
