------------------------------ MODULE LoopHost ------------------------------
(***************************************************************************)
(* Host programs on the loopback engine: the cocotb benches of the Arty    *)
(* and of the DE25-Nano example and the capture demo, as scripts of        *)
(* accesses and assertions, one access at a time as over JTAG.             *)
(*                                                                         *)
(* Where a program waits a number of clocks before it looks, the model     *)
(* waits for what that time is meant to outlast; a poll reads once per     *)
(* turn and may pause as long as it likes.                                 *)
(***************************************************************************)
EXTENDS LoopEngine

CONSTANTS
  Running,   \* the scripts that are run
  Enough     \* packets that a loop run is waited for

VARIABLES
  script,    \* the program
  pc,        \* its next operation
  bus,       \* the access that goes on: free, data and resp of a write, read
  got,       \* beats popped so far
  seen,      \* packets and errors as the program noted them
  failed     \* an assertion of the program has failed

hostVars == <<script, pc, bus, got, seen, failed>>
vars     == <<loopVars, hostVars>>

Op(kind, value) == [kind |-> kind, value |-> value]

Ctrl(bits)   == Op("ctrl", {bits})
AnyCtrl      == Op("ctrl", SUBSET {"EN", "LOOP", "START", "SOFT"})
Inject(on)   == Op("inject", on)
Tx(char)     == Op("tx", char)
Send(time)   == Op("send", time)
Until(what)  == Op("until", what)
Assert(what) == Op("assert", what)
Rx(beats)    == Op("rx", beats)
PollTc(time) == Op("poll_timecode", time)
LoopRun      == Op("loop", Enough)
Note         == Op("note", "")
More         == Op("more", "")
Fewer        == Op("fewer", "")
Reset        == Op("reset", "")

Loop == {"EN", "LOOP"}

Host1 == 100
Host2 == 101

(* The benches of the Arty example, those of the DE25-Nano, the demo. *)
test_loopback_selftest == <<Until("BRINGUP"), Until("RUN"), Until("DONE"), Assert("passed")>>

test_host_data_mover ==
  <<Ctrl({}), Until("RUN"), Tx(Host1), Tx(Host2), Tx(Eop), Rx(<<Host1, Host2, Eop>>)>>

test_continuous_loop ==
  <<Ctrl(Loop), Until("RUN"), LoopRun, Assert("busy"), Ctrl({}), Assert("enough received")>>

(* The one-shot run that every engine begins with, then a continuous one. *)
started == <<Until("RUN"), Until("DONE"), Ctrl(Loop \cup {"START"}), LoopRun>>

test_loop_stop_restart ==
  started \o <<Ctrl({}), Ctrl(Loop \cup {"START"}), LoopRun, Ctrl({}), Ctrl(Loop), LoopRun,
               Ctrl({})>>

test_start_while_running ==
  started \o <<Ctrl(Loop \cup {"START"}), LoopRun, Ctrl(Loop \cup {"START"}), LoopRun, Ctrl({})>>

test_soft_reset_mid_run ==
  started \o <<Ctrl(Loop \cup {"SOFT"}), Until("RUN"), Fewer, LoopRun, Ctrl({})>>

injected == <<Inject(TRUE), Until("ERR"), Until("no RUN")>>

recover ==
  <<Inject(FALSE), Ctrl(Loop \cup {"SOFT"}), Until("RUN"), Until("no ERR"), Note, More>>

test_error_injection ==
  <<Ctrl(Loop), Until("RUN"), Assert("no ERR")>> \o injected \o recover \o injected \o recover

test_timecode ==
  <<Ctrl({}), Until("RUN"), Send(1), PollTc(1), Send(2), PollTc(2), Send(1), PollTc(1)>>

test_eep_roundtrip ==
  <<Ctrl({}), Until("RUN"), Tx(Host1), Tx(Eep), Rx(<<Host1, Eep>>),
    Tx(Host1), Tx(Eop), Rx(<<Host1, Eop>>)>>

test_fault_under_load ==
  <<Ctrl(Loop), Until("RUN"), Note, More>> \o injected
    \o <<Inject(FALSE), Ctrl(Loop \cup {"START", "SOFT"}), Until("RUN"), Until("no ERR"),
         Note, More>>

test_selftest_lights_all_leds == <<Until("any LED"), Until("all LEDs"), Assert("all LEDs")>>

test_key0_resets_and_recovers == <<Until("all LEDs"), Reset, Until("all LEDs")>>

ela_capture_demo ==
  <<Until("RUN"), Ctrl({}), Ctrl(Loop \cup {"START"}), Assert("link"), Ctrl({})>>

(* Any three writes of CTRL: stops, starts and soft resets in any order. *)
anybody == <<AnyCtrl, AnyCtrl, AnyCtrl>>

Script ==
  [selftest |-> test_loopback_selftest,      data_mover |-> test_host_data_mover,
   continuous |-> test_continuous_loop,      stop_restart |-> test_loop_stop_restart,
   start_running |-> test_start_while_running, soft_reset |-> test_soft_reset_mid_run,
   injection |-> test_error_injection,       timecode |-> test_timecode,
   eep |-> test_eep_roundtrip,               fault_loaded |-> test_fault_under_load,
   leds |-> test_selftest_lights_all_leds,   key0 |-> test_key0_resets_and_recovers,
   capture_demo |-> ela_capture_demo,        anybody |-> anybody]

ASSUME RunningAssumption == Running \subseteq DOMAIN Script

ops  == Script[script]
over == pc > Len(ops)
op   == ops[pc]

(* What STATUS and the LEDs show. *)
shows(what) ==
  CASE what = "BRINGUP"  -> bringup
    [] what = "RUN"      -> run
    [] what = "no RUN"   -> ~run
    [] what = "DONE"     -> st.done
    [] what = "ERR"      -> pollErr
    [] what = "no ERR"   -> ~pollErr
    [] what = "any LED"  -> bringup \/ run \/ st.done \/ st.pass
    [] what = "all LEDs" -> bringup /\ run /\ st.done /\ st.pass

(* What the programs assert of what they read. *)
asserted(what) ==
  CASE what = "passed" -> /\ st.pass /\ st.errCount = 0 /\ st.rxPkt = PKTS
                          /\ st.txCount = PKTS * (LEN + 1) /\ st.rxCount = PKTS * (LEN + 1)
    [] what = "busy"   -> st.busy
    [] what = "link"   -> linkUp
    [] what = "enough received" -> st.rxCount >= seen.pkts * (LEN + 1)
    [] OTHER           -> shows(what)

running == st.tstate \in {"DATA", "EOP"}
AtMost(n, bound) == IF n < bound THEN n ELSE bound

Advance == pc' = pc + 1
Fails(good) == failed' = (failed \/ ~good)

(***************************************************************************)
(* A write: the address, then the data, which the engine's registers take, *)
(* then the response.                                                      *)
(***************************************************************************)
Control(bits) ==
  [Quiet(regs) EXCEPT !.en = "EN" \in bits, !.loop = "LOOP" \in bits,
                      !.start = "START" \in bits, !.soft = "SOFT" \in bits]

Written ==
  CASE op.kind = "ctrl"   -> {Control(bits) : bits \in op.value}
    [] op.kind = "inject" -> {[Quiet(regs) EXCEPT !.inj = op.value]}
    [] op.kind = "tx"     -> {[Quiet(regs) EXCEPT !.dmBeat = op.value, !.dmPush = TRUE]}
    [] op.kind = "send"   -> {[Quiet(regs) EXCEPT !.tc = [val |-> op.value, n |-> pc],
                                                  !.tcPush = TRUE]}

axi_write ==
  \/ /\ bus = "free" /\ op.kind \in {"ctrl", "inject", "tx", "send"}
     /\ bus' = "data"
     /\ regs' = Quiet(regs)
     /\ UNCHANGED pc
  \/ /\ bus = "data"
     /\ bus' = "resp"
     /\ regs' \in Written
     /\ UNCHANGED pc
  \/ /\ bus = "resp"
     /\ bus' = "free"
     /\ regs' = Quiet(regs)
     /\ Advance

Reading == bus = "free" /\ bus' = "read" /\ regs' = Quiet(regs)

(* A poll that does not see what it waits for reads again. *)
Poll(hit) == Reading /\ pc' = IF hit THEN pc + 1 ELSE pc

poll_until ==
  /\ op.kind = "until"
  /\ Poll(shows(op.value))
  /\ Fails(op.value = "any LED" /\ shows("any LED") => ~run /\ ~st.done /\ ~st.pass)
  /\ UNCHANGED <<got, seen, pop>>

(* Fault: a poll for a Time-Code is content with any that is valid. *)
PollAnyTimecode ==
  /\ op.kind = "poll_timecode"
  /\ Poll(tcMirror # <<>>)
  /\ Fails(tcMirror # <<>> => tcMirror[1].n = pc - 1)
  /\ UNCHANGED <<got, seen, pop>>

(* What is polled for must be the Time-Code that was sent just before. *)
poll_timecode ==
  /\ op.kind = "poll_timecode"
  /\ LET hit == tcMirror # <<>> /\ tcMirror[1].val = op.value
     IN Poll(hit) /\ Fails(hit => tcMirror[1].n = pc - 1)
  /\ UNCHANGED <<got, seen, pop>>

(* The wait before the first look outlasts T_IDLE: a new run has begun. *)
loop_until_packets ==
  /\ op.kind = "loop" /\ st.tstate # "IDLE"
  /\ LET hit == st.rxPkt >= op.value
     IN /\ Poll(hit)
        /\ seen' = [pkts |-> st.rxPkt, errs |-> 0]
        /\ Fails(st.errCount = 0 /\ (hit => st.rxCount <= st.txCount))
  /\ UNCHANGED <<got, pop>>

(* Counts beyond what one run of the model can reach are not told apart. *)
NoteCounts ==
  /\ op.kind = "note" /\ running
  /\ Reading /\ Advance
  /\ seen' = [pkts |-> AtMost(st.rxPkt, Enough - 1), errs |-> st.errCount]
  /\ UNCHANGED <<got, pop, failed>>

CountsGrow ==
  /\ op.kind = "more"
  /\ Poll(st.rxPkt > seen.pkts)
  /\ Fails(st.errCount = seen.errs /\ seen.errs = 0)
  /\ UNCHANGED <<got, seen, pop>>

(* The run that a soft reset aborted begins again. *)
RunRestarted ==
  /\ op.kind = "fewer"
  /\ Poll(st.rxPkt < seen.pkts)
  /\ Fails(st.errCount = 0)
  /\ UNCHANGED <<got, seen, pop>>

(* RXDATA: the head of the capture FIFO, which the read pops. *)
pop_beats ==
  /\ op.kind = "rx"
  /\ pop' = (capture # <<>>)
  /\ LET beats == IF capture = <<>> THEN got ELSE Append(got, capture[1])
         ended == capture # <<>> /\ Ends(capture[1])
     IN /\ Poll(ended)
        /\ got' = IF ended THEN <<>> ELSE beats
        /\ Fails(ended => beats = op.value)
  /\ UNCHANGED seen

Check ==
  /\ op.kind = "assert"
  /\ Reading /\ Advance
  /\ Fails(asserted(op.value))
  /\ UNCHANGED <<got, seen, pop>>

axi_read ==
  \/ poll_until \/ poll_timecode \/ loop_until_packets \/ NoteCounts \/ CountsGrow
  \/ RunRestarted \/ pop_beats \/ Check

readDone ==
  /\ bus = "read" /\ bus' = "free"
  /\ regs' = Quiet(regs)
  /\ UNCHANGED pc

Pause ==
  /\ bus = "free"
  /\ regs' = Quiet(regs)
  /\ UNCHANGED <<pc, bus>>

HostActs ==
  /\ ~over
  /\ \/ axi_read
     \/ (axi_write \/ readDone) /\ pop' = FALSE /\ UNCHANGED <<got, seen, failed>>

(* These polls follow one another much faster than what they look for passes. *)
prompt ==
  ~over /\ (op = Until("any LED") \/ Fewer \in {ops[i] : i \in {pc, pc + 1} \cap DOMAIN ops})

HostPauses == ~prompt /\ Pause /\ pop' = FALSE /\ UNCHANGED <<got, seen, failed>>

(* The bench resets the engine and the core (rst, KEY0). *)
HostResets ==
  /\ ~over /\ bus = "free" /\ op.kind = "reset"
  /\ LoopReset /\ Advance
  /\ UNCHANGED <<script, bus, got, seen, failed>>

(* A link takes longer to start than a host to make its first access. *)
starting == pc = 1 /\ op.kind = "ctrl"

Clock == EngineClock /\ CoreClock /\ (starting => linkUp' = linkUp) /\ UNCHANGED script

Next ==
  \/ Clock /\ (HostActs \/ HostPauses)
  \/ HostResets
  \/ over /\ UNCHANGED vars

Init ==
  /\ LoopInit
  /\ script \in Running /\ pc = 1 /\ bus = "free" /\ got = <<>>
  /\ seen = [pkts |-> 0, errs |-> 0] /\ failed = FALSE

(***************************************************************************)
(* The clock runs, a host that can go on goes on, a link that can start    *)
(* starts and one that is disturbed stops, and Time-Codes arrive.          *)
(***************************************************************************)
Fairness ==
  /\ WF_vars(Clock /\ (HostActs \/ HostPauses))
  /\ WF_vars(Clock /\ HostActs)
  /\ WF_vars(HostResets)
  /\ WF_vars(Clock /\ (HostActs \/ HostPauses) /\ linkUp # linkUp')
  /\ WF_vars(Clock /\ (HostActs \/ HostPauses) /\ TimecodeArrives /\ tcLatch' = tcAir)

Spec == Init /\ [][Next]_vars /\ Fairness

(***************************************************************************)
(* No assertion of a bench or of the demo fails, whatever the pauses of    *)
(* the host and of the link: results and counts are those of the run that  *)
(* was asked for, popped beats are those that were pushed, and a poll for  *)
(* a Time-Code returns the one sent last and no stale one.                 *)
(***************************************************************************)
BenchesPass == ~failed

(***************************************************************************)
(* tx_axis_hold_monitor (spw_loopback_cocotb.py:139-155): a beat that the  *)
(* core has not taken is neither withdrawn nor changed, whatever the host  *)
(* writes meanwhile; only a bus reset takes it back.                       *)
(***************************************************************************)
BeatHeld == [][HostResets \/ (st.tvalid /\ ~tready => st'.tvalid /\ st'.tbeat = st.tbeat)]_vars

(***************************************************************************)
(* The self-check counts no error of its own making: stops, starts and     *)
(* soft resets in any order leave characters of an old run on the way, and *)
(* none of them reaches the checker of the next (Bugs 32 to 34 of the      *)
(* benches).  Only a link that was disturbed during the run excuses.       *)
(***************************************************************************)
NoFalseErrors ==
  ~faulted => /\ st.errCount = 0
              /\ st.checking => st.rxCount <= st.txCount

(***************************************************************************)
(* Every program comes to its end: what it waits for happens, after        *)
(* restarts, soft resets, faults and resets as well.                       *)
(***************************************************************************)
ScriptsEnd == <>over
=============================================================================
