------------------------------- MODULE I2cMaster -------------------------------
(***************************************************************************)
(* The opencores I2C master, one step per clock edge: the bit controller   *)
(* (i2c_master_bit_ctrl.v), the byte controller (i2c_master_byte_ctrl.v)   *)
(* and the registers (i2c_master_top.v).  Every register takes its next    *)
(* value from the values before the edge.  The read command (RD), which    *)
(* the firmware never gives, and the interrupt, which it never enables,    *)
(* are left out.  Bits and lines are 0 and 1, a byte is eight bits, most   *)
(* significant first.                                                      *)
(***************************************************************************)
EXTENDS Integers, Sequences

VARIABLES bit, byte, top

core_vars == <<bit, byte, top>>

NoByte == <<0, 0, 0, 0, 0, 0, 0, 0>>

CoreInit ==
    /\ bit = [cnt |-> 0, clk_en |-> TRUE, dscl_oen |-> 1,
              sSCL |-> 1, sSDA |-> 1, dSCL |-> 1, dSDA |-> 1,
              sta |-> FALSE, sto |-> FALSE, busy |-> FALSE,
              cmd_stop |-> FALSE, al |-> FALSE, dout |-> 0,
              c_state |-> "idle", cmd_ack |-> FALSE,
              scl_oen |-> 1, sda_oen |-> 1, sda_chk |-> FALSE]
    /\ byte = [core_cmd |-> "NOP", core_txd |-> 0, sr |-> NoByte, shift |-> FALSE,
               ld |-> FALSE, dcnt |-> 0, c_state |-> "ST_IDLE", cmd_ack |-> FALSE,
               ack_out |-> 0]
    /\ top = [prer |-> 65535, core_en |-> FALSE, txr |-> NoByte, cr |-> {},
              al |-> FALSE, rxack |-> 0, tip |-> FALSE]

--------------------------------------------------------------------------------
(* Bit controller: a tick (clk_en) every prer + 1 edges, held back while a *)
(* slave keeps SCL low.                                                    *)
(* Mutant of slave_wait: the core waits for itself, too. *)
slave_wait_Itself == bit.sSCL = 0

slave_wait == bit.dscl_oen = 1 /\ bit.sSCL = 0

Ticking == (bit.cnt = 0 \/ ~top.core_en) /\ ~slave_wait

NextCnt == IF Ticking THEN top.prer
           ELSE IF bit.cnt = 0 \/ ~top.core_en THEN bit.cnt ELSE bit.cnt - 1

(* What a tick does in each state: the next state, the two output enables, *)
(* and whether SDA is checked for arbitration.                             *)
Phase(next, scl, sda, chk) == [next |-> next, scl |-> scl, sda |-> sda, chk |-> chk]

FirstState(cmd) == CASE cmd = "START" -> "start_a" [] cmd = "STOP" -> "stop_a"
                     [] cmd = "WRITE" -> "wr_a"    [] cmd = "READ" -> "rd_a"
                     [] OTHER -> "idle"

StartPhase ==
    CASE bit.c_state = "start_a" -> Phase("start_b", bit.scl_oen, 1, FALSE)
      [] bit.c_state = "start_b" -> Phase("start_c", 1, 1, FALSE)
      [] bit.c_state = "start_c" -> Phase("start_d", 1, 0, FALSE)
      [] bit.c_state = "start_d" -> Phase("start_e", 1, 0, FALSE)
      [] bit.c_state = "start_e" -> Phase("idle", 0, 0, FALSE)

StopPhase ==
    CASE bit.c_state = "stop_a" -> Phase("stop_b", 0, 0, FALSE)
      [] bit.c_state = "stop_b" -> Phase("stop_c", 1, 0, FALSE)
      [] bit.c_state = "stop_c" -> Phase("stop_d", 1, 0, FALSE)
      [] bit.c_state = "stop_d" -> Phase("idle", 1, 1, FALSE)

(* Mutant of ReadPhase: SDA is checked as it is while writing. *)
ReadPhase_Checked ==
    CASE bit.c_state = "rd_a" -> Phase("rd_b", 0, 1, FALSE)
      [] bit.c_state = "rd_b" -> Phase("rd_c", 1, 1, TRUE)
      [] bit.c_state = "rd_c" -> Phase("rd_d", 1, 1, TRUE)
      [] bit.c_state = "rd_d" -> Phase("idle", 0, 1, FALSE)

ReadPhase ==
    CASE bit.c_state = "rd_a" -> Phase("rd_b", 0, 1, FALSE)
      [] bit.c_state = "rd_b" -> Phase("rd_c", 1, 1, FALSE)
      [] bit.c_state = "rd_c" -> Phase("rd_d", 1, 1, FALSE)
      [] bit.c_state = "rd_d" -> Phase("idle", 0, 1, FALSE)

(* Mutant of WritePhase: SDA is set while SCL is high. *)
WritePhase_Late(din) ==
    CASE bit.c_state = "wr_a" -> Phase("wr_b", 0, bit.sda_oen, FALSE)
      [] bit.c_state = "wr_b" -> Phase("wr_c", 1, bit.sda_oen, FALSE)
      [] bit.c_state = "wr_c" -> Phase("wr_d", 1, din, TRUE)
      [] bit.c_state = "wr_d" -> Phase("idle", 0, din, FALSE)

WritePhase(din) ==
    CASE bit.c_state = "wr_a" -> Phase("wr_b", 0, din, FALSE)
      [] bit.c_state = "wr_b" -> Phase("wr_c", 1, din, TRUE)
      [] bit.c_state = "wr_c" -> Phase("wr_d", 1, din, TRUE)
      [] bit.c_state = "wr_d" -> Phase("idle", 0, din, FALSE)

StartStates == {"start_a", "start_b", "start_c", "start_d", "start_e"}
StopStates  == {"stop_a", "stop_b", "stop_c", "stop_d"}
ReadStates  == {"rd_a", "rd_b", "rd_c", "rd_d"}
WriteStates == {"wr_a", "wr_b", "wr_c", "wr_d"}

Tick ==
    CASE bit.c_state = "idle" ->
            Phase(FirstState(byte.core_cmd), bit.scl_oen, bit.sda_oen, FALSE)
      [] bit.c_state \in StartStates -> StartPhase
      [] bit.c_state \in StopStates  -> StopPhase
      [] bit.c_state \in ReadStates  -> ReadPhase
      [] bit.c_state \in WriteStates -> WritePhase(byte.core_txd)

Hold == Phase(bit.c_state, bit.scl_oen, bit.sda_oen, bit.sda_chk)

LastPhases == {"start_e", "stop_d", "rd_d", "wr_d"}

(* scl and sda are the levels of the two lines. *)
BitEdge(scl, sda) ==
    LET phase == IF bit.al THEN Phase("idle", 1, 1, FALSE)
                 ELSE IF bit.clk_en THEN Tick ELSE Hold
    IN  bit' = [cnt |-> NextCnt, clk_en |-> Ticking, dscl_oen |-> bit.scl_oen,
                sSCL |-> scl, sSDA |-> sda, dSCL |-> bit.sSCL, dSDA |-> bit.sSDA,
                sta |-> bit.sSDA = 0 /\ bit.dSDA = 1 /\ bit.sSCL = 1,
                sto |-> bit.sSDA = 1 /\ bit.dSDA = 0 /\ bit.sSCL = 1,
                busy |-> (bit.sta \/ bit.busy) /\ ~bit.sto,
                cmd_stop |-> IF bit.clk_en THEN byte.core_cmd = "STOP" ELSE bit.cmd_stop,
                al |-> \/ bit.sda_chk /\ bit.sSDA = 0 /\ bit.sda_oen = 1
                       \/ bit.c_state # "idle" /\ bit.sto /\ ~bit.cmd_stop,
                dout |-> IF bit.sSCL = 1 /\ bit.dSCL = 0 THEN bit.sSDA ELSE bit.dout,
                c_state |-> phase.next,
                cmd_ack |-> ~bit.al /\ bit.clk_en /\ bit.c_state \in LastPhases,
                scl_oen |-> phase.scl, sda_oen |-> phase.sda, sda_chk |-> phase.chk]

--------------------------------------------------------------------------------
(* Byte controller *)
go == ({"WR", "STO"} \cap top.cr # {}) /\ ~byte.cmd_ack

Moved(state, cmd) == [byte EXCEPT !.c_state = state, !.core_cmd = cmd]

(* The state machine, but for the registers every edge sets anew. *)
ByteStep ==
    CASE byte.c_state = "ST_IDLE" /\ go ->
            IF "STA" \in top.cr THEN Moved("ST_START", "START")
            ELSE IF "WR" \in top.cr THEN Moved("ST_WRITE", "WRITE")
            ELSE Moved("ST_STOP", "STOP")
      [] byte.c_state = "ST_START" /\ bit.cmd_ack -> Moved("ST_WRITE", "WRITE")
      [] byte.c_state = "ST_WRITE" /\ bit.cmd_ack ->
            IF byte.dcnt = 0 THEN Moved("ST_ACK", "READ") ELSE Moved("ST_WRITE", "WRITE")
      [] byte.c_state = "ST_ACK" /\ bit.cmd_ack ->
            [IF "STO" \in top.cr THEN Moved("ST_STOP", "STOP") ELSE Moved("ST_IDLE", "NOP")
                EXCEPT !.ack_out = bit.dout]
      [] byte.c_state = "ST_STOP" /\ bit.cmd_ack -> Moved("ST_IDLE", "NOP")
      [] OTHER -> byte

Loads  == \/ byte.c_state = "ST_IDLE" /\ go
          \/ byte.c_state = "ST_START" /\ bit.cmd_ack
Shifts == byte.c_state = "ST_WRITE" /\ bit.cmd_ack /\ byte.dcnt # 0

(* A command is done when the machine returns to idle. *)
Finishes == /\ bit.cmd_ack
            /\ \/ byte.c_state = "ST_ACK" /\ "STO" \notin top.cr
               \/ byte.c_state = "ST_STOP"

NextTxd == IF byte.c_state # "ST_ACK" THEN byte.sr[1]
           ELSE IF bit.cmd_ack THEN 1 ELSE (IF "ACK" \in top.cr THEN 1 ELSE 0)

ByteEdge ==
    LET sr   == IF byte.ld THEN top.txr
                ELSE IF byte.shift THEN Append(Tail(byte.sr), bit.dout) ELSE byte.sr
        dcnt == IF byte.ld THEN 7 ELSE IF byte.shift THEN (byte.dcnt - 1) % 8 ELSE byte.dcnt
    IN  byte' = IF bit.al
                THEN [byte EXCEPT !.c_state = "ST_IDLE", !.core_cmd = "NOP", !.core_txd = 0,
                                  !.shift = FALSE, !.ld = FALSE, !.cmd_ack = FALSE,
                                  !.ack_out = 0, !.sr = sr, !.dcnt = dcnt]
                ELSE [ByteStep EXCEPT !.core_txd = NextTxd, !.shift = Shifts, !.ld = Loads,
                                      !.cmd_ack = Finishes, !.sr = sr, !.dcnt = dcnt]

--------------------------------------------------------------------------------
(* Registers.  A write is [adr, dat]; "none" when the bus does not write.  *)
NoWrite == [adr |-> "none", dat |-> {}]
Write(adr, dat) == [adr |-> adr, dat |-> dat]

Commands == {"STA", "STO", "RD", "WR"}

NextCr(w) ==
    IF w.adr # "none"
    THEN IF w.adr = "CR" /\ top.core_en THEN w.dat ELSE top.cr
    ELSE (IF byte.cmd_ack \/ bit.al THEN top.cr \ Commands ELSE top.cr) \ {"IACK"}

NextPrer(w) == CASE w.adr = "PRERLO" -> 256 * (top.prer \div 256) + w.dat
                 [] w.adr = "PRERHI" -> 256 * w.dat + (top.prer % 256)
                 [] OTHER            -> top.prer

TopEdge(w) ==
    top' = [prer    |-> NextPrer(w),
            core_en |-> IF w.adr = "CTR" THEN w.dat ELSE top.core_en,
            txr     |-> IF w.adr = "TXR" THEN w.dat ELSE top.txr,
            cr      |-> NextCr(w),
            al      |-> bit.al \/ (top.al /\ "STA" \notin top.cr),
            rxack   |-> byte.ack_out,
            tip     |-> "WR" \in top.cr]

(* One clock edge of the whole core. *)
CoreEdge(w, scl, sda) == BitEdge(scl, sda) /\ ByteEdge /\ TopEdge(w)
================================================================================
