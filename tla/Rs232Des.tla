------------------------------- MODULE Rs232Des -------------------------------
(***************************************************************************)
(* The RS-232 receiver (rs232_des.v), one step per clock edge at the real  *)
(* clock and baud rate, against a host whose bit time is not exactly the   *)
(* receiver's.  A frame is a start bit, eight data bits, least significant *)
(* first, and a stop bit; the host may also send a frame whose stop bit is *)
(* low (a break).  The receiver passes each byte on with one pulse of      *)
(* rx_fifo_wr_en.                                                          *)
(*                                                                         *)
(* The receiver looks at bit k of a frame (0 is the start bit) k bit times *)
(* and a half behind the start bit's edge, as it counts them; at the stop  *)
(* bit, the last, the host's bit times and the receiver's must not be      *)
(* apart by more than what is left of the half.                            *)
(*                                                                         *)
(* The line carries such frames and pauses only.  S_START does not look at *)
(* rx_s again (rs232_des.v:83-92), so that a low glitch shorter than a bit *)
(* on an idle line would be taken for a start bit and passed on as 0xFF:   *)
(* no glitch is modelled, and nothing here excludes such a byte.           *)
(***************************************************************************)
EXTENDS Integers, Sequences, SequencesExt

CONSTANTS
    P_CLK_FREQ_HZ, P_BAUD_RATE,    \* tmc_firmware_top.v:191-192
    BitTimes,     \* the host's bit time, in clock cycles: one of these
    Frames,       \* what it may send: records [byte |-> 8 bits, stop |-> 0 or 1]
    NFrames,      \* how many frames it sends
    Gaps          \* how long it pauses between frames, in clock cycles

ASSUME DesAssumption ==
    /\ P_BAUD_RATE \in Nat \ {0}
    /\ P_CLK_FREQ_HZ \in Nat /\ P_CLK_FREQ_HZ >= 2 * P_BAUD_RATE
    /\ BitTimes \subseteq Nat \ {0}
    /\ Frames \subseteq [byte : [1..8 -> {0, 1}], stop : {0, 1}]
    /\ NFrames \in Nat /\ Gaps \subseteq Nat

START_LATCH_CNT_MAX == (P_CLK_FREQ_HZ \div P_BAUD_RATE) \div 2
SHIFT_LATCH_CNT_MAX == P_CLK_FREQ_HZ \div P_BAUD_RATE
STOP_LATCH_CNT_MAX  == P_CLK_FREQ_HZ \div P_BAUD_RATE

(* The bits of latch_cnt (clogb2() of fncs.vh). *)
NBITS_LATCH_CNT ==
    CHOOSE n \in 0..31 : 2^n > SHIFT_LATCH_CNT_MAX /\ 2^n <= 2 * SHIFT_LATCH_CNT_MAX
LatchRange == 2^NBITS_LATCH_CNT

ASSUME LatchAssumption == LatchRange \in Nat /\ LatchRange > SHIFT_LATCH_CNT_MAX

(* What the host has to keep: the stop bit is what the receiver looks at   *)
(* at its end of a frame, synchroniser included (which is 414 to 459       *)
(* cycles a bit here, and neither 413 nor 460 will do), and a pause that   *)
(* the synchroniser cannot miss behind a break.                            *)
ASSUME HostAssumption ==
    /\ \A period \in BitTimes :
          /\ 9 * period <= 9 * SHIFT_LATCH_CNT_MAX + START_LATCH_CNT_MAX + 9
          /\ 10 * period >= 9 * SHIFT_LATCH_CNT_MAX + START_LATCH_CNT_MAX + 15
    /\ \A gap \in Gaps : gap >= 1

VARIABLES
    host,           \* what the host does, and history: the frames it began, the bytes it sent
    ff,             \* sync.v: the two flip-flops of the synchroniser
    edge_ff,        \* negedge_detector.v: rx_s one cycle ago
    fsm,
    latch_cnt,
    shift_cnt,
    rx_fifo_data,   \* the shift register, bit 0 first
    rx_fifo_wr_en,
    written         \* history: the bytes passed on

receiver == <<ff, edge_ff, fsm, latch_cnt, shift_cnt, rx_fifo_data, rx_fifo_wr_en>>
des_vars == <<host, receiver, written>>

Idle == [byte |-> [i \in 1..8 |-> 1], stop |-> 1]

(* The line: bit 0 of a frame is its start bit, bit 9 its stop bit, and    *)
(* bit 10 the pause behind it.                                             *)
rx == CASE host.bit = 0    -> 0
        [] host.bit \in 1..8 -> host.frame.byte[host.bit]
        [] host.bit = 9    -> host.frame.stop
        [] host.bit = 10   -> 1

Zeros == [i \in 1..8 |-> 0]

DesInit ==
    /\ \E period \in BitTimes :
          host = [frame |-> Idle, bit |-> 10, left |-> period, period |-> period, frames |-> 0, sent |-> <<>>]
    /\ ff = <<0, 0>> /\ edge_ff = 0
    /\ fsm = "S_IDLE" /\ latch_cnt = 0 /\ shift_cnt = 0
    /\ rx_fifo_data = Zeros /\ rx_fifo_wr_en = FALSE
    /\ written = <<>>

--------------------------------------------------------------------------------
(* The host keeps each bit on the line for its bit time.                   *)
SameBit == host.left > 1 /\ host' = [host EXCEPT !.left = @ - 1]

NextBit == /\ host.left = 1 /\ host.bit < 9
           /\ host' = [host EXCEPT !.bit = @ + 1, !.left = host.period]

Pause == /\ host.left = 1 /\ host.bit = 9
         /\ \E gap \in Gaps : host' = [host EXCEPT !.bit = 10, !.left = gap + 1]

NextFrame ==
    /\ host.left = 1 /\ host.bit \in {9, 10}
    /\ host.bit = 9 => host.frame.stop = 1
    /\ host.frames < NFrames
    /\ \E f \in Frames :
          host' = [host EXCEPT !.frame = f, !.bit = 0, !.left = host.period, !.frames = @ + 1,
                               !.sent = IF f.stop = 1 THEN Append(@, f.byte) ELSE @]

Host == SameBit \/ NextBit \/ Pause \/ NextFrame

--------------------------------------------------------------------------------
(* sync.v: a bit that changes at the edge may be caught late by one cycle. *)
Synchronise ==
    \E a \in {rx} \cup (IF rx # rx' THEN {rx'} ELSE {}) : ff' = <<a, ff[1]>>

rx_s       == ff[2]
rx_s_nedge == edge_ff = 1 /\ rx_s = 0

NegEdge == edge_ff' = rx_s

Shift == rx_fifo_data' = [i \in 1..8 |-> IF i = 8 THEN rx_s ELSE rx_fifo_data[i + 1]]

(* rs232_des.v:62-127 *)
Fsm ==
    CASE fsm = "S_IDLE" ->
            /\ latch_cnt' = 0 /\ shift_cnt' = 0
            /\ fsm' = IF rx_s_nedge THEN "S_START" ELSE "S_IDLE"
            /\ UNCHANGED rx_fifo_data
      [] fsm = "S_START" /\ latch_cnt = START_LATCH_CNT_MAX ->
            latch_cnt' = 0 /\ fsm' = "S_SHIFT" /\ UNCHANGED <<shift_cnt, rx_fifo_data>>
      [] fsm = "S_SHIFT" /\ latch_cnt = SHIFT_LATCH_CNT_MAX ->
            /\ Shift
            /\ latch_cnt' = 0
            /\ shift_cnt' = (shift_cnt + 1) % 8
            /\ fsm' = IF shift_cnt = 7 THEN "S_STOP" ELSE "S_SHIFT"
      [] fsm = "S_STOP" /\ latch_cnt = STOP_LATCH_CNT_MAX ->
            latch_cnt' = 0 /\ fsm' = "S_IDLE" /\ UNCHANGED <<shift_cnt, rx_fifo_data>>
      [] OTHER ->
            latch_cnt' = (latch_cnt + 1) % LatchRange /\ UNCHANGED <<fsm, shift_cnt, rx_fifo_data>>

(* Mutant of WriteEnable: the stop bit is not looked at. *)
WriteEnable_AnyStop ==
    rx_fifo_wr_en' = (fsm = "S_STOP" /\ latch_cnt = STOP_LATCH_CNT_MAX)

(* rs232_des.v:56-59, with a FIFO that is not full. *)
WriteEnable ==
    rx_fifo_wr_en' = (fsm = "S_STOP" /\ latch_cnt = STOP_LATCH_CNT_MAX /\ rx_s = 1)

(* The FIFO takes rx_fifo_data on the edge that ends the pulse. *)
Write == written' = IF rx_fifo_wr_en THEN Append(written, rx_fifo_data) ELSE written

DesNext == Host /\ Synchronise /\ NegEdge /\ Fsm /\ WriteEnable /\ Write

DesSpec == DesInit /\ [][DesNext]_des_vars

--------------------------------------------------------------------------------
(* What is passed on is what was sent, in order: no byte corrupted, none   *)
(* twice, none for a frame with a low stop bit (rs232_des.v:39-127).       *)
PassedOnFaithfully == IsPrefix(written, host.sent)

(* Nothing is missed: while a frame has its data or stop bit on the line,  *)
(* all others have been passed on, and at the end of a pause all have.     *)
NothingMissed ==
    Len(written) >= CASE host.bit \in 1..9 -> Len(host.sent) - host.frame.stop
                      [] host.bit = 10 /\ host.left = 1 -> Len(host.sent)
                      [] OTHER -> 0

(* What the host sent is passed on: no more and, once settled, no less.    *)
ReceivedAsSent == PassedOnFaithfully /\ NothingMissed
================================================================================
