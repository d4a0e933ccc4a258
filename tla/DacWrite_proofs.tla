------------------------------ MODULE DacWrite_proofs ------------------------------
(***************************************************************************)
(* The DAC's bus, for every prescaler that fits its register and every     *)
(* list of requests: on a healthy bus, with a slave that may stretch the   *)
(* clock and refuse a byte, the frames are those that were asked for, each *)
(* is complete before the driver goes on, and what a call returns is the   *)
(* slave's answer to its byte.                                             *)
(*                                                                         *)
(* The core works by stages: it rests, makes a START, shifts a byte out,   *)
(* takes the answer, makes a STOP.  The invariant has one part for each,   *)
(* which says for every state of the bit controller what the two lines     *)
(* carry and what the slave has seen; the parts before them relate driver, *)
(* byte controller and bit controller, those after them count frames and   *)
(* answers.                                                                *)
(***************************************************************************)
EXTENDS DacWrite, SequenceTheorems, TLAPS

Setup == {"off", "iack", "prerlo", "prerhi", "on"}
Bit01 == {0, 1}
Bytes8 == {s \in Seq(Bit01) : Len(s) = 8}

BitStates == {"idle"} \cup StartStates \cup StopStates \cup ReadStates \cup WriteStates
BitOK ==
    /\ bit.cnt \in Nat /\ bit.clk_en \in BOOLEAN /\ bit.c_state \in BitStates /\ bit.cmd_ack \in BOOLEAN
    /\ {bit.dscl_oen, bit.scl_oen, bit.sda_oen} \subseteq Bit01
    /\ {bit.sSCL, bit.sSDA, bit.dSCL, bit.dSDA, bit.dout} \subseteq Bit01
    /\ bit.sda_chk \in BOOLEAN /\ bit.sto \in BOOLEAN /\ bit.al = FALSE

ByteRegisters ==
    [core_cmd : {"NOP", "START", "STOP", "READ", "WRITE"}, core_txd : Bit01, sr : Bytes8,
     shift : BOOLEAN, ld : BOOLEAN, dcnt : 0..7,
     c_state : {"ST_IDLE", "ST_START", "ST_WRITE", "ST_ACK", "ST_STOP"}, cmd_ack : BOOLEAN, ack_out : Bit01]

TopOK ==
    /\ top.prer \in Nat /\ top.core_en \in BOOLEAN /\ top.txr \in Bytes8 /\ top.al = FALSE
    /\ top.rxack \in Bit01 /\ top.tip \in BOOLEAN

DriverStates ==
    [op : Setup \cup {"txr", "cr", "poll", "ack"}, phase : {1, 2}, byte : 1..4, request : Nat \ {0},
     sr : [tip : BOOLEAN, rxack : Bit01]]

SlaveStates ==
    [scl : Bit01, sda : Bit01, active : BOOLEAN, bits : Seq(Bit01), answering : BOOLEAN, drive : Bit01,
     hold : BOOLEAN, frame : Seq(Seq(Bit01)), frames : Seq(Seq(Seq(Bit01))), acks : Seq(Bit01)]

DacTypeOK ==
    /\ BitOK /\ byte \in ByteRegisters /\ TopOK /\ driver \in DriverStates /\ slave \in SlaveStates
    /\ returned \in Seq(Bit01) /\ shorted = FALSE

(* The registers by where the driver is.  A byte is under way from the     *)
(* second edge of the write of CR until the byte controller is done.       *)
UnderWay == byte.c_state # "ST_IDLE"
Done == driver.op \in {"poll", "ack"} /\ ~UnderWay
TheByte == Requests[driver.request][driver.byte]

Registered ==
    /\ Busy \/ (driver.phase = 1 /\ driver.op \in {"off", "txr"})
    /\ driver.op \in Setup => driver.request = 1 /\ driver.byte = 1
    /\ top.core_en <=> (driver.op \notin Setup \/ (driver.op = "on" /\ driver.phase = 2))
    /\ driver.op = "prerhi" \/ (driver.op = "prerlo" /\ driver.phase = 2) => top.prer % 256 = ClkCnt % 256
    /\ driver.op \notin {"off", "iack", "prerlo", "prerhi"} \/ (driver.op = "prerhi" /\ driver.phase = 2) => top.prer = ClkCnt
    /\ driver.op \in {"cr", "poll", "ack"} \/ (driver.op = "txr" /\ driver.phase = 2) => top.txr = TheByte

Commanded ==
    /\ UnderWay \/ byte.cmd_ack => driver.op = "poll" /\ top.tip
    /\ byte.cmd_ack => ~UnderWay
    /\ top.cr = IF UnderWay \/ byte.cmd_ack \/ (driver.op = "cr" /\ driver.phase = 2)
                THEN CommandOf(driver.byte) ELSE {}
    /\ driver.op = "poll" /\ driver.phase = 2 /\ ~driver.sr.tip => ~UnderWay /\ ~byte.cmd_ack

(* Ticks are at least two edges apart, and none finds SCL on its way.      *)
Ticks ==
    /\ top.core_en => bit.cnt <= ClkCnt /\ (bit.clk_en => bit.cnt = ClkCnt)
    /\ bit.clk_en => bit.dscl_oen = bit.scl_oen /\ ~bit.cmd_ack
    /\ bit.cmd_ack => bit.c_state = "idle" /\ UnderWay
    /\ bit.c_state \in {"wr_d", "rd_d", "stop_d"} =>
          /\ bit.dscl_oen = 1
          /\ bit.clk_en => slave.scl = 1 /\ bit.dSCL = 1
    /\ bit.scl_oen = 0 /\ slave.scl = 1 => bit.cmd_ack
    /\ slave.hold => slave.scl = 0
    /\ slave.scl = bit.sSCL /\ slave.sda = bit.sSDA

(* The core's own signals are not those of another master.                 *)
OwnSignals ==
    /\ bit.sda_chk => bit.c_state \in {"wr_c", "wr_d"}
    /\ bit.sSDA = 1 /\ bit.dSDA = 0 /\ bit.sSCL = 1 => byte.cmd_ack
    /\ bit.sto => ~UnderWay

(* The states of the two controllers, and the byte that is being shifted.  *)
Paired ==
    \/ byte.c_state = "ST_IDLE" /\ byte.core_cmd = "NOP" /\ bit.c_state = "idle"
    \/ byte.c_state = "ST_START" /\ byte.core_cmd = "START" /\ bit.c_state \in {"idle"} \cup StartStates /\ driver.byte = 1
    \/ byte.c_state = "ST_WRITE" /\ byte.core_cmd = "WRITE" /\ bit.c_state \in {"idle"} \cup WriteStates
    \/ byte.c_state = "ST_ACK" /\ byte.core_cmd = "READ" /\ bit.c_state \in {"idle"} \cup ReadStates
    \/ byte.c_state = "ST_STOP" /\ byte.core_cmd = "STOP" /\ bit.c_state \in {"idle"} \cup StopStates /\ driver.byte = 4

Sent == IF byte.ld THEN 0 ELSE IF byte.shift THEN 8 - byte.dcnt ELSE 7 - byte.dcnt
ToSend(i) == IF byte.shift THEN byte.sr[i + 1] ELSE byte.sr[i]

Shifting ==
    byte.c_state = "ST_WRITE" =>
       /\ byte.ld \/ (byte.shift => byte.dcnt > 0)
       /\ byte.ld \/ \A i \in 1..(8 - Sent) : ToSend(i) = TheByte[Sent + i]
       /\ bit.c_state \in WriteStates \/ bit.cmd_ack => ~byte.ld /\ ~byte.shift
       /\ (bit.c_state = "wr_a" /\ bit.clk_en) \/ bit.c_state \in {"wr_b", "wr_c", "wr_d"}
             => byte.core_txd = TheByte[Sent + 1]

(* What the slave has seen when the bus is where it is.                    *)
Has(n) == slave.active /\ Len(slave.frame) = n /\ \A i \in 1..n : slave.frame[i] = Requests[driver.request][i]
Got(n) == Len(slave.bits) = n /\ \A i \in 1..n : slave.bits[i] = TheByte[i]
Listening == ~slave.answering /\ slave.drive = 1
Low == bit.scl_oen = 0 /\ slave.scl = 0
Free == /\ Listening /\ ~slave.active
        /\ bit.scl_oen = 1 /\ bit.sda_oen = 1 /\ slave.scl = 1 /\ slave.sda = 1

Resting ==
    ~UnderWay =>
       LET done == IF Done THEN driver.byte ELSE driver.byte - 1 IN
       IF done \in {0, 4} THEN Free
       ELSE Low /\ bit.sda_oen = 1 /\ Listening /\ Has(done) /\ Got(0)

Starting ==
    byte.c_state = "ST_START" =>
       /\ Listening
       /\ CASE bit.c_state = "idle" /\ bit.cmd_ack -> bit.scl_oen = 0 /\ slave.scl = 1 /\ Has(0) /\ Got(0)
            [] bit.c_state \in {"start_d", "start_e"} ->
                   /\ bit.scl_oen = 1 /\ bit.sda_oen = 0 /\ slave.scl = 1
                   /\ bit.clk_en \/ bit.c_state = "start_e" => slave.sda = 0
                   /\ IF slave.sda = 1 THEN ~slave.active ELSE Has(0) /\ Got(0)
            [] OTHER -> Free

Writing ==
    byte.c_state = "ST_WRITE" =>
       /\ Listening /\ Has(driver.byte - 1)
       /\ CASE bit.c_state = "idle" /\ bit.cmd_ack -> bit.scl_oen = 0 /\ slave.scl = 1 /\ Got(Sent + 1)
            [] bit.c_state \in {"wr_c", "wr_d"} ->
                   bit.scl_oen = 1 /\ bit.sda_oen = TheByte[Sent + 1] /\ slave.sda = bit.sda_oen /\ Got(Sent + slave.scl)
            [] bit.c_state = "wr_b" ->
                   Low /\ bit.sda_oen = TheByte[Sent + 1] /\ (bit.clk_en => slave.sda = bit.sda_oen) /\ Got(Sent)
            [] OTHER -> Low /\ Got(Sent)

Answered ==
    byte.c_state = "ST_ACK" =>
       /\ slave.answering /\ Has(driver.byte) /\ Got(0)
       /\ CASE bit.c_state = "idle" /\ bit.cmd_ack ->
                   bit.scl_oen = 0 /\ bit.sda_oen = 1 /\ slave.scl = 1 /\ bit.dout = slave.drive
            [] bit.c_state \in {"rd_c", "rd_d"} ->
                   /\ bit.scl_oen = 1 /\ bit.sda_oen = 1 /\ slave.sda = slave.drive
                   /\ slave.scl = 1 /\ bit.dSCL = 1 => bit.dout = slave.drive
            [] bit.c_state = "rd_b" -> Low /\ bit.sda_oen = 1 /\ (bit.clk_en => slave.sda = slave.drive)
            [] OTHER -> Low

Stopping ==
    byte.c_state = "ST_STOP" =>
       /\ Listening /\ Has(4)
       /\ CASE bit.c_state = "idle" /\ bit.cmd_ack ->
                   bit.scl_oen = 1 /\ bit.sda_oen = 1 /\ slave.scl = 1 /\ slave.sda = 0
            [] bit.c_state \in {"stop_c", "stop_d"} -> bit.scl_oen = 1 /\ bit.sda_oen = 0 /\ slave.sda = 0
            [] bit.c_state = "stop_b" -> Low /\ bit.sda_oen = 0 /\ (bit.clk_en => slave.sda = 0)
            [] OTHER -> Low

(* The frames, and the answers on their way to the caller.                 *)
Framed ==
    LET n == IF Done /\ driver.byte = 4 THEN driver.request ELSE driver.request - 1 IN
    Len(slave.frames) = n /\ n <= Len(Requests) /\ \A i \in 1..n : slave.frames[i] = Requests[i]

Answer == slave.acks[Len(returned) + 1]
Acknowledged ==
    /\ \A i \in 1..Len(returned) : slave.acks[i] = returned[i]
    /\ Len(slave.acks) = Len(returned) + (IF Done \/ byte.c_state \in {"ST_ACK", "ST_STOP"} THEN 1 ELSE 0)
    /\ byte.c_state = "ST_ACK" => slave.drive = Answer
    /\ Done \/ byte.c_state = "ST_STOP" => byte.ack_out = Answer
    /\ Done /\ ~byte.cmd_ack => top.rxack = Answer
    /\ driver.op = "ack" => Done /\ ~byte.cmd_ack
    /\ driver.op = "ack" /\ driver.phase = 2 => driver.sr.rxack = Answer

DacInv ==
    /\ DacTypeOK /\ Registered /\ Commanded /\ Ticks /\ OwnSignals /\ Paired /\ Shifting
    /\ Resting /\ Starting /\ Writing /\ Answered /\ Stopping /\ Framed /\ Acknowledged
--------------------------------------------------------------------------------
(***************************************************************************)
(* The steps, register by register.                                        *)
(***************************************************************************)
(* The two lines of a healthy bus.                                         *)
LEMMA HealthyLines ==
    ASSUME DacTypeOK
    PROVE  /\ scl = (IF bit.scl_oen = 1 /\ ~slave.hold THEN 1 ELSE 0) /\ scl \in Bit01
           /\ sda = (IF bit.sda_oen = 1 /\ slave.drive = 1 THEN 1 ELSE 0) /\ sda \in Bit01
  BY DEF DacTypeOK, SlaveStates, scl, sda, Bit01

BitPhase == IF bit.clk_en THEN Tick ELSE Hold

(* What an edge leaves in the registers of the bit controller              *)
(* (i2c_master_bit_ctrl.v:189-345).                                        *)
LEMMA BitNext ==
    ASSUME DacTypeOK, BitEdge(scl, sda)
    PROVE  /\ bit'.cnt = NextCnt /\ bit'.clk_en = Ticking /\ bit'.dscl_oen = bit.scl_oen
           /\ bit'.sSCL = scl /\ bit'.sSDA = sda /\ bit'.dSCL = bit.sSCL /\ bit'.dSDA = bit.sSDA
           /\ bit'.sto = (bit.sSDA = 1 /\ bit.dSDA = 0 /\ bit.sSCL = 1)
           /\ bit'.al = (\/ bit.sda_chk /\ bit.sSDA = 0 /\ bit.sda_oen = 1
                         \/ bit.c_state # "idle" /\ bit.sto /\ ~bit.cmd_stop)
           /\ bit'.dout = (IF bit.sSCL = 1 /\ bit.dSCL = 0 THEN bit.sSDA ELSE bit.dout)
           /\ bit'.cmd_ack = (bit.clk_en /\ bit.c_state \in LastPhases)
           /\ bit'.c_state = BitPhase.next /\ bit'.scl_oen = BitPhase.scl /\ bit'.sda_oen = BitPhase.sda
           /\ bit'.sda_chk = BitPhase.chk
<1>1. bit.al = FALSE
  BY DEF DacTypeOK, BitOK
<1> QED
  BY <1>1 DEF BitEdge, BitPhase

(* A tick of the bit controller, state by state.                           *)
Goes(from, to, up, data, check) ==
    /\ bit.c_state = from /\ bit'.c_state = to /\ bit'.scl_oen = up /\ bit'.sda_oen = data
    /\ bit'.sda_chk = check

(* The state machine of the bit controller makes one of these transitions  *)
(* at a tick, and between ticks it stands still                            *)
(* (i2c_master_bit_ctrl.v:335-531).                                        *)
LEMMA Tocks ==
    ASSUME DacTypeOK, BitEdge(scl, sda), bit.clk_en
    PROVE  \/ Goes("idle", FirstState(byte.core_cmd), bit.scl_oen, bit.sda_oen, FALSE)
           \/ Goes("start_a", "start_b", bit.scl_oen, 1, FALSE) \/ Goes("start_b", "start_c", 1, 1, FALSE)
           \/ Goes("start_c", "start_d", 1, 0, FALSE) \/ Goes("start_d", "start_e", 1, 0, FALSE)
           \/ Goes("start_e", "idle", 0, 0, FALSE)
           \/ Goes("stop_a", "stop_b", 0, 0, FALSE) \/ Goes("stop_b", "stop_c", 1, 0, FALSE)
           \/ Goes("stop_c", "stop_d", 1, 0, FALSE) \/ Goes("stop_d", "idle", 1, 1, FALSE)
           \/ Goes("rd_a", "rd_b", 0, 1, FALSE) \/ Goes("rd_b", "rd_c", 1, 1, FALSE)
           \/ Goes("rd_c", "rd_d", 1, 1, FALSE) \/ Goes("rd_d", "idle", 0, 1, FALSE)
           \/ Goes("wr_a", "wr_b", 0, byte.core_txd, FALSE) \/ Goes("wr_b", "wr_c", 1, byte.core_txd, TRUE)
           \/ Goes("wr_c", "wr_d", 1, byte.core_txd, TRUE) \/ Goes("wr_d", "idle", 0, byte.core_txd, FALSE)
<1>1. bit.c_state \in BitStates
  BY DEF DacTypeOK, BitOK
<1>2. /\ bit'.c_state = Tick.next /\ bit'.scl_oen = Tick.scl /\ bit'.sda_oen = Tick.sda
      /\ bit'.sda_chk = Tick.chk
  BY BitNext DEF BitPhase
<1>3. CASE bit.c_state = "idle"
  <2>1. Tick = Phase(FirstState(byte.core_cmd), bit.scl_oen, bit.sda_oen, FALSE)
    BY <1>3 DEF Tick, StartStates, StopStates, ReadStates, WriteStates
  <2> QED
    BY <1>2, <1>3, <2>1 DEF Phase, Goes
<1>4. CASE bit.c_state \in StartStates
  <2>1. Tick = StartPhase
    BY <1>4 DEF Tick, StartStates, StopStates, ReadStates, WriteStates
  <2>2. CASE bit.c_state = "start_a"
    <3>1. StartPhase = Phase("start_b", bit.scl_oen, 1, FALSE)
      BY <2>2 DEF StartPhase
    <3> QED
      BY <1>2, <2>1, <2>2, <3>1 DEF Phase, Goes
  <2>3. CASE bit.c_state = "start_b"
    <3>1. StartPhase = Phase("start_c", 1, 1, FALSE)
      BY <2>3 DEF StartPhase
    <3> QED
      BY <1>2, <2>1, <2>3, <3>1 DEF Phase, Goes
  <2>4. CASE bit.c_state = "start_c"
    <3>1. StartPhase = Phase("start_d", 1, 0, FALSE)
      BY <2>4 DEF StartPhase
    <3> QED
      BY <1>2, <2>1, <2>4, <3>1 DEF Phase, Goes
  <2>5. CASE bit.c_state = "start_d"
    <3>1. StartPhase = Phase("start_e", 1, 0, FALSE)
      BY <2>5 DEF StartPhase
    <3> QED
      BY <1>2, <2>1, <2>5, <3>1 DEF Phase, Goes
  <2>6. CASE bit.c_state = "start_e"
    <3>1. StartPhase = Phase("idle", 0, 0, FALSE)
      BY <2>6 DEF StartPhase
    <3> QED
      BY <1>2, <2>1, <2>6, <3>1 DEF Phase, Goes
  <2> QED
    BY <1>4, <2>2, <2>3, <2>4, <2>5, <2>6 DEF StartStates
<1>5. CASE bit.c_state \in StopStates
  <2>1. Tick = StopPhase
    BY <1>5 DEF Tick, StartStates, StopStates, ReadStates, WriteStates
  <2>2. CASE bit.c_state = "stop_a"
    <3>1. StopPhase = Phase("stop_b", 0, 0, FALSE)
      BY <2>2 DEF StopPhase
    <3> QED
      BY <1>2, <2>1, <2>2, <3>1 DEF Phase, Goes
  <2>3. CASE bit.c_state = "stop_b"
    <3>1. StopPhase = Phase("stop_c", 1, 0, FALSE)
      BY <2>3 DEF StopPhase
    <3> QED
      BY <1>2, <2>1, <2>3, <3>1 DEF Phase, Goes
  <2>4. CASE bit.c_state = "stop_c"
    <3>1. StopPhase = Phase("stop_d", 1, 0, FALSE)
      BY <2>4 DEF StopPhase
    <3> QED
      BY <1>2, <2>1, <2>4, <3>1 DEF Phase, Goes
  <2>5. CASE bit.c_state = "stop_d"
    <3>1. StopPhase = Phase("idle", 1, 1, FALSE)
      BY <2>5 DEF StopPhase
    <3> QED
      BY <1>2, <2>1, <2>5, <3>1 DEF Phase, Goes
  <2> QED
    BY <1>5, <2>2, <2>3, <2>4, <2>5 DEF StopStates
<1>6. CASE bit.c_state \in ReadStates
  <2>1. Tick = ReadPhase
    BY <1>6 DEF Tick, StartStates, StopStates, ReadStates, WriteStates
  <2>2. CASE bit.c_state = "rd_a"
    <3>1. ReadPhase = Phase("rd_b", 0, 1, FALSE)
      BY <2>2 DEF ReadPhase
    <3> QED
      BY <1>2, <2>1, <2>2, <3>1 DEF Phase, Goes
  <2>3. CASE bit.c_state = "rd_b"
    <3>1. ReadPhase = Phase("rd_c", 1, 1, FALSE)
      BY <2>3 DEF ReadPhase
    <3> QED
      BY <1>2, <2>1, <2>3, <3>1 DEF Phase, Goes
  <2>4. CASE bit.c_state = "rd_c"
    <3>1. ReadPhase = Phase("rd_d", 1, 1, FALSE)
      BY <2>4 DEF ReadPhase
    <3> QED
      BY <1>2, <2>1, <2>4, <3>1 DEF Phase, Goes
  <2>5. CASE bit.c_state = "rd_d"
    <3>1. ReadPhase = Phase("idle", 0, 1, FALSE)
      BY <2>5 DEF ReadPhase
    <3> QED
      BY <1>2, <2>1, <2>5, <3>1 DEF Phase, Goes
  <2> QED
    BY <1>6, <2>2, <2>3, <2>4, <2>5 DEF ReadStates
<1>7. CASE bit.c_state \in WriteStates
  <2>1. Tick = WritePhase(byte.core_txd)
    BY <1>7 DEF Tick, StartStates, StopStates, ReadStates, WriteStates
  <2>2. CASE bit.c_state = "wr_a"
    <3>1. WritePhase(byte.core_txd) = Phase("wr_b", 0, byte.core_txd, FALSE)
      BY <2>2 DEF WritePhase
    <3> QED
      BY <1>2, <2>1, <2>2, <3>1 DEF Phase, Goes
  <2>3. CASE bit.c_state = "wr_b"
    <3>1. WritePhase(byte.core_txd) = Phase("wr_c", 1, byte.core_txd, TRUE)
      BY <2>3 DEF WritePhase
    <3> QED
      BY <1>2, <2>1, <2>3, <3>1 DEF Phase, Goes
  <2>4. CASE bit.c_state = "wr_c"
    <3>1. WritePhase(byte.core_txd) = Phase("wr_d", 1, byte.core_txd, TRUE)
      BY <2>4 DEF WritePhase
    <3> QED
      BY <1>2, <2>1, <2>4, <3>1 DEF Phase, Goes
  <2>5. CASE bit.c_state = "wr_d"
    <3>1. WritePhase(byte.core_txd) = Phase("idle", 0, byte.core_txd, FALSE)
      BY <2>5 DEF WritePhase
    <3> QED
      BY <1>2, <2>1, <2>5, <3>1 DEF Phase, Goes
  <2> QED
    BY <1>7, <2>2, <2>3, <2>4, <2>5 DEF WriteStates
<1> QED
  BY <1>1, <1>3, <1>4, <1>5, <1>6, <1>7 DEF BitStates

(* Between ticks the bit controller holds its state and the lines.         *)
LEMMA Holds ==
    ASSUME DacTypeOK, BitEdge(scl, sda), ~bit.clk_en
    PROVE  /\ bit'.c_state = bit.c_state /\ bit'.scl_oen = bit.scl_oen /\ bit'.sda_oen = bit.sda_oen
           /\ bit'.sda_chk = bit.sda_chk /\ ~bit'.cmd_ack
  BY BitNext DEF BitPhase, Hold, Phase

(* The byte controller.                                                    *)
ByteGoes(state, cmd) == byte'.c_state = state /\ byte'.core_cmd = cmd

(* What an edge leaves in the registers of the byte controller.            *)
LEMMA ByteNext ==
    ASSUME DacTypeOK, ByteEdge
    PROVE  /\ byte'.c_state = ByteStep.c_state /\ byte'.core_cmd = ByteStep.core_cmd
           /\ byte'.ack_out = ByteStep.ack_out
           /\ byte'.core_txd = NextTxd /\ byte'.shift = Shifts /\ byte'.ld = Loads /\ byte'.cmd_ack = Finishes
           /\ byte'.sr = (IF byte.ld THEN top.txr ELSE IF byte.shift THEN Append(Tail(byte.sr), bit.dout) ELSE byte.sr)
           /\ byte'.dcnt = (IF byte.ld THEN 7 ELSE IF byte.shift THEN (byte.dcnt - 1) % 8 ELSE byte.dcnt)
<1>1. bit.al = FALSE
  BY DEF DacTypeOK, BitOK
<1> QED
  BY <1>1 DEF ByteEdge, ByteStep, Moved, DacTypeOK, ByteRegisters

(* What an edge leaves in the registers the CPU writes and reads.          *)
LEMMA TopNext ==
    ASSUME DacTypeOK, NEW w, TopEdge(w)
    PROVE  /\ top'.prer = NextPrer(w) /\ top'.core_en = (IF w.adr = "CTR" THEN w.dat ELSE top.core_en)
           /\ top'.txr = (IF w.adr = "TXR" THEN w.dat ELSE top.txr) /\ top'.cr = NextCr(w)
           /\ top'.al = FALSE /\ top'.rxack = byte.ack_out /\ top'.tip = ("WR" \in top.cr)
<1>1. bit.al = FALSE /\ top.al = FALSE
  BY DEF DacTypeOK, BitOK, TopOK
<1>2. /\ top'.prer = NextPrer(w) /\ top'.core_en = (IF w.adr = "CTR" THEN w.dat ELSE top.core_en)
      /\ top'.txr = (IF w.adr = "TXR" THEN w.dat ELSE top.txr) /\ top'.cr = NextCr(w)
      /\ top'.rxack = byte.ack_out /\ top'.tip = ("WR" \in top.cr)
  BY DEF TopEdge
<1>3. top'.al = FALSE
  BY <1>1, Zenon DEF TopEdge
<1> QED
  BY <1>2, <1>3

(* A step of the byte controller, state by state.                          *)
LEMMA ByteSteps ==
    ASSUME DacTypeOK, ByteEdge
    PROVE  /\ byte.c_state = "ST_IDLE" /\ go /\ "STA" \in top.cr => ByteGoes("ST_START", "START")
           /\ byte.c_state = "ST_IDLE" /\ go /\ "STA" \notin top.cr /\ "WR" \in top.cr => ByteGoes("ST_WRITE", "WRITE")
           /\ byte.c_state \in {"ST_START", "ST_WRITE"} /\ bit.cmd_ack =>
                 IF byte.c_state = "ST_WRITE" /\ byte.dcnt = 0 THEN ByteGoes("ST_ACK", "READ")
                 ELSE ByteGoes("ST_WRITE", "WRITE")
           /\ byte.c_state = "ST_ACK" /\ bit.cmd_ack =>
                 /\ byte'.ack_out = bit.dout
                 /\ IF "STO" \in top.cr THEN ByteGoes("ST_STOP", "STOP") ELSE ByteGoes("ST_IDLE", "NOP")
           /\ byte.c_state = "ST_STOP" /\ bit.cmd_ack => ByteGoes("ST_IDLE", "NOP")
           /\ ~(byte.c_state = "ST_IDLE" /\ go) /\ ~(UnderWay /\ bit.cmd_ack) => ByteGoes(byte.c_state, byte.core_cmd)
           /\ ~(byte.c_state = "ST_ACK" /\ bit.cmd_ack) => byte'.ack_out = byte.ack_out
<1>1. byte \in ByteRegisters
  BY DEF DacTypeOK
<1>2. /\ byte'.c_state = ByteStep.c_state /\ byte'.core_cmd = ByteStep.core_cmd
      /\ byte'.ack_out = ByteStep.ack_out
  BY ByteNext
<1>3. CASE byte.c_state = "ST_IDLE"
  BY <1>1, <1>2, <1>3 DEF ByteStep, Moved, ByteRegisters, ByteGoes, UnderWay
<1>4. CASE byte.c_state = "ST_START"
  BY <1>1, <1>2, <1>4 DEF ByteStep, Moved, ByteRegisters, ByteGoes, UnderWay
<1>5. CASE byte.c_state = "ST_WRITE"
  BY <1>1, <1>2, <1>5 DEF ByteStep, Moved, ByteRegisters, ByteGoes, UnderWay
<1>6. CASE byte.c_state = "ST_ACK"
  BY <1>1, <1>2, <1>6 DEF ByteStep, Moved, ByteRegisters, ByteGoes, UnderWay
<1>7. CASE byte.c_state = "ST_STOP"
  BY <1>1, <1>2, <1>7 DEF ByteStep, Moved, ByteRegisters, ByteGoes, UnderWay
<1> QED
  BY <1>1, <1>3, <1>4, <1>5, <1>6, <1>7 DEF ByteRegisters

(* What the slave makes of the lines.                                      *)
SlaveHas(active, bits, answering, drive, frame, frames, acks) ==
    /\ slave'.active = active /\ slave'.bits = bits /\ slave'.answering = answering
    /\ slave'.drive = drive /\ slave'.frame = frame /\ slave'.frames = frames /\ slave'.acks = acks

SeesStart  == slave.scl = 1 /\ scl = 1 /\ slave.sda = 1 /\ sda = 0
SeesStop   == slave.scl = 1 /\ scl = 1 /\ slave.sda = 0 /\ sda = 1 /\ slave.active
SeesBit    == slave.scl = 0 /\ scl = 1 /\ slave.active /\ ~slave.answering
SeesByte   == slave.scl = 1 /\ scl = 0 /\ slave.active /\ Len(slave.bits) = 8
SeesAnswer == slave.scl = 1 /\ scl = 0 /\ slave.active /\ slave.answering

SlaveKept == SlaveHas(slave.active, slave.bits, slave.answering, slave.drive, slave.frame, slave.frames, slave.acks)

(* What the slave makes of an edge: at most one of five events, or nothing. *)
LEMMA SlaveNext ==
    ASSUME DacTypeOK, SlaveEdge, slave.answering => Len(slave.bits) # 8
    PROVE  /\ slave'.scl = scl /\ slave'.sda = sda /\ slave'.hold \in BOOLEAN /\ (slave'.hold => scl = 0)
           /\ slave' \in SlaveStates
           /\ SeesStart => SlaveHas(TRUE, <<>>, FALSE, 1, <<>>, slave.frames, slave.acks)
           /\ SeesStop => SlaveHas(FALSE, slave.bits, slave.answering, 1, slave.frame,
                                   Append(slave.frames, slave.frame), slave.acks)
           /\ SeesBit => SlaveHas(slave.active, Append(slave.bits, sda), slave.answering, slave.drive,
                                  slave.frame, slave.frames, slave.acks)
           /\ SeesByte =>
                 \E ack \in Bit01 : SlaveHas(slave.active, <<>>, TRUE, ack, Append(slave.frame, slave.bits),
                                             slave.frames, Append(slave.acks, ack))
           /\ SeesAnswer =>
                 SlaveHas(slave.active, slave.bits, FALSE, 1, slave.frame, slave.frames, slave.acks)
           /\ ~SeesStart /\ ~SeesStop /\ ~SeesBit /\ ~SeesByte /\ ~SeesAnswer => SlaveKept
<1>1. slave \in SlaveStates /\ scl \in Bit01 /\ sda \in Bit01
  BY HealthyLines DEF DacTypeOK
<1>2. PICK s \in SlaveReacts, h \in Stretches :
          (h => scl = 0) /\ slave' = [s EXCEPT !.scl = scl, !.sda = sda, !.hold = h]
  BY DEF SlaveEdge
<1>3. h \in BOOLEAN
  BY DacAssumption DEF DacAssumption
<1> DEFINE Marked(t) == slave' = [t EXCEPT !.scl = scl, !.sda = sda, !.hold = h]
<1>5. SeesStart => Marked(SlaveStart)
  BY <1>2 DEF SlaveReacts, SeesStart
<1>6. SeesStop => Marked(SlaveStop)
  BY <1>2 DEF SlaveReacts, SeesStop
<1>7. SeesBit => Marked(SlaveBit)
  BY <1>2 DEF SlaveReacts, SeesBit
<1>8. SeesByte => \E ack \in BOOLEAN : Marked(SlaveAnswer(ack))
  <2>1. SeesByte => SlaveReacts = {SlaveAnswer(ack) : ack \in BOOLEAN}
    BY DEF SlaveReacts, SeesByte
  <2> QED
    BY <1>2, <2>1
<1>9. SeesAnswer => Marked(SlaveRelease)
  BY <1>2 DEF SlaveReacts, SeesAnswer
<1>10. ~SeesStart /\ ~SeesStop /\ ~SeesBit /\ ~SeesByte /\ ~SeesAnswer => Marked(slave)
  BY <1>1, <1>2 DEF SlaveReacts, SeesStart, SeesStop, SeesBit, SeesByte, SeesAnswer, Bit01, SlaveStates
<1>11. SeesStart => SlaveHas(TRUE, <<>>, FALSE, 1, <<>>, slave.frames, slave.acks)
  BY <1>1, <1>5 DEF SlaveStart, SlaveHas, SlaveStates
<1>12. SeesStop => SlaveHas(FALSE, slave.bits, slave.answering, 1, slave.frame,
                            Append(slave.frames, slave.frame), slave.acks)
  BY <1>1, <1>6 DEF SlaveStop, SlaveHas, SlaveStates
<1>13. SeesBit => SlaveHas(slave.active, Append(slave.bits, sda), slave.answering, slave.drive,
                           slave.frame, slave.frames, slave.acks)
  BY <1>1, <1>7 DEF SlaveBit, SlaveHas, SlaveStates
<1>14. SeesByte =>
          \E ack \in Bit01 : SlaveHas(slave.active, <<>>, TRUE, ack, Append(slave.frame, slave.bits),
                                      slave.frames, Append(slave.acks, ack))
  <2>1. SUFFICES ASSUME NEW ack \in BOOLEAN, Marked(SlaveAnswer(ack))
                 PROVE  \E a \in Bit01 : SlaveHas(slave.active, <<>>, TRUE, a, Append(slave.frame, slave.bits),
                                                  slave.frames, Append(slave.acks, a))
    BY <1>8
  <2> DEFINE answer == IF ack THEN 0 ELSE 1
  <2>2. answer \in Bit01
    BY DEF Bit01
  <2>3. SlaveHas(slave.active, <<>>, TRUE, answer, Append(slave.frame, slave.bits),
                 slave.frames, Append(slave.acks, answer))
    BY <1>1, <2>1 DEF SlaveAnswer, SlaveHas, SlaveStates
  <2> QED
    BY <2>2, <2>3
<1>15. SeesAnswer =>
          SlaveHas(slave.active, slave.bits, FALSE, 1, slave.frame, slave.frames, slave.acks)
  BY <1>1, <1>9 DEF SlaveRelease, SlaveHas, SlaveStates
<1>16. ~SeesStart /\ ~SeesStop /\ ~SeesBit /\ ~SeesByte /\ ~SeesAnswer => SlaveKept
  BY <1>1, <1>10 DEF SlaveKept, SlaveHas, SlaveStates
<1>17. slave'.scl = scl /\ slave'.sda = sda /\ slave'.hold = h
  <2> DEFINE Lined == slave'.scl = scl /\ slave'.sda = sda /\ slave'.hold = h
  <2>1. SeesStart => Lined
    BY <1>1, <1>5 DEF SlaveStart, SlaveStates
  <2>2. SeesStop => Lined
    BY <1>1, <1>6 DEF SlaveStop, SlaveStates
  <2>3. SeesBit => Lined
    BY <1>1, <1>7 DEF SlaveBit, SlaveStates
  <2>4. SeesByte => Lined
    BY <1>1, <1>8 DEF SlaveAnswer, SlaveStates
  <2>5. SeesAnswer => Lined
    BY <1>1, <1>9 DEF SlaveRelease, SlaveStates
  <2>6. ~SeesStart /\ ~SeesStop /\ ~SeesBit /\ ~SeesByte /\ ~SeesAnswer => Lined
    BY <1>1, <1>10 DEF SlaveStates
  <2> QED
    BY <2>1, <2>2, <2>3, <2>4, <2>5, <2>6
<1>18. slave' \in SlaveStates
  <2>0. /\ slave.bits \in Seq(Bit01) /\ slave.frame \in Seq(Seq(Bit01)) /\ slave.frames \in Seq(Seq(Seq(Bit01)))
        /\ slave.acks \in Seq(Bit01) /\ {0, 1} \subseteq Bit01 /\ <<>> \in Seq(Bit01) /\ <<>> \in Seq(Seq(Bit01))
    BY <1>1 DEF SlaveStates, Bit01
  <2> DEFINE more == Append(slave.frames, slave.frame)   next == Append(slave.bits, sda)
             whole == Append(slave.frame, slave.bits)
  <2>1. more \in Seq(Seq(Seq(Bit01))) /\ next \in Seq(Bit01) /\ whole \in Seq(Seq(Bit01))
    BY <1>1, <2>0
  <2> HIDE DEF more, next, whole
  <2>2. SeesStart => slave' \in SlaveStates
    BY <1>1, <1>3, <1>5, <2>0 DEF SlaveStart, SlaveStates
  <2>3. SeesStop => slave' \in SlaveStates
    <3>1. SlaveStop = [slave EXCEPT !.active = FALSE, !.frames = more, !.drive = 1]
      BY <1>1 DEF SlaveStop, SlaveStates, more
    <3> QED
      BY <1>1, <1>3, <1>6, <2>0, <2>1, <3>1 DEF SlaveStates
  <2>4. SeesBit => slave' \in SlaveStates
    <3>1. SlaveBit = [slave EXCEPT !.bits = next]
      BY <1>1 DEF SlaveBit, SlaveStates, next
    <3> QED
      BY <1>1, <1>3, <1>7, <2>0, <2>1, <3>1 DEF SlaveStates
  <2>5. SeesByte => slave' \in SlaveStates
    <3>1. SUFFICES ASSUME NEW ack \in BOOLEAN, Marked(SlaveAnswer(ack)) PROVE slave' \in SlaveStates
      BY <1>8
    <3> DEFINE drive == IF ack THEN 0 ELSE 1   answers == Append(slave.acks, IF ack THEN 0 ELSE 1)
    <3>2. drive \in Bit01 /\ answers \in Seq(Bit01)
      BY <2>0 DEF Bit01
    <3>3. SlaveAnswer(ack) = [slave EXCEPT !.answering = TRUE, !.drive = drive, !.frame = whole, !.bits = <<>>,
                                           !.acks = answers]
      BY <1>1 DEF SlaveAnswer, SlaveStates, whole
    <3> HIDE DEF drive, answers
    <3> QED
      BY <1>1, <1>3, <2>0, <2>1, <3>1, <3>2, <3>3 DEF SlaveStates
  <2>6. SeesAnswer => slave' \in SlaveStates
    BY <1>1, <1>3, <1>9, <2>0 DEF SlaveRelease, SlaveStates
  <2>7. ~SeesStart /\ ~SeesStop /\ ~SeesBit /\ ~SeesByte /\ ~SeesAnswer => slave' \in SlaveStates
    BY <1>1, <1>3, <1>10 DEF SlaveStates
  <2> QED
    BY <2>2, <2>3, <2>4, <2>5, <2>6, <2>7
<1> QED
  BY <1>2, <1>3, <1>17, <1>18, <1>11, <1>12, <1>13, <1>14, <1>15, <1>16

(* The CPU's part of a step.                                               *)
DriverGoes(op, phase, request, n, sr) ==
    /\ driver'.op = op /\ driver'.phase = phase /\ driver'.request = request /\ driver'.byte = n
    /\ driver'.sr = sr

(* The five accesses of the driver, by the place each leads to.            *)
LEMMA DriverSteps ==
    ASSUME DacTypeOK, Access
    PROVE  \/ /\ Busy /\ driver.op \in Writes /\ driver.phase = 1 /\ returned' = returned
              /\ DriverGoes(driver.op, 2, driver.request, driver.byte, driver.sr)
           \/ /\ Busy /\ driver.op \in Writes /\ driver.phase = 2 /\ returned' = returned
              /\ DriverGoes(AfterWrite, 1, driver.request, driver.byte, driver.sr)
           \/ /\ Busy /\ driver.op \in Reads /\ driver.phase = 1 /\ returned' = returned
              /\ DriverGoes(driver.op, 2, driver.request, driver.byte, Status)
           \/ /\ driver.op = "poll" /\ driver.phase = 2 /\ returned' = returned
              /\ DriverGoes(IF driver.sr.tip THEN "poll" ELSE "ack", 1, driver.request, driver.byte, driver.sr)
           \/ /\ driver.op = "ack" /\ driver.phase = 2 /\ returned' = Append(returned, driver.sr.rxack)
              /\ IF driver.byte < 4 THEN DriverGoes("txr", 1, driver.request, driver.byte + 1, driver.sr)
                 ELSE DriverGoes("txr", 1, driver.request + 1, 1, driver.sr)
<1>1. driver \in DriverStates
  BY DEF DacTypeOK
<1>2. CASE WriteAccess
  <2>1. CASE driver.phase = 1
    BY <1>1, <1>2, <2>1 DEF WriteAccess, DriverGoes, DriverStates
  <2>2. CASE driver.phase = 2
    <3> DEFINE after == AfterWrite
    <3>1. driver' = [driver EXCEPT !.op = after, !.phase = 1] /\ Busy /\ driver.op \in Writes /\ returned' = returned
      BY <1>2, <2>2 DEF WriteAccess
    <3>2. DriverGoes(after, 1, driver.request, driver.byte, driver.sr)
      <4> HIDE DEF after
      <4> QED
        BY <1>1, <3>1 DEF DriverGoes, DriverStates
    <3> QED
      BY <2>2, <3>1, <3>2
  <2> QED
    BY <1>1, <2>1, <2>2 DEF DriverStates
<1>3. CASE ReadLatch
  <2> DEFINE status == Status
  <2>1. /\ driver' = [driver EXCEPT !.phase = 2, !.sr = status] /\ Busy /\ driver.op \in Reads /\ driver.phase = 1
        /\ returned' = returned
    BY <1>3 DEF ReadLatch
  <2>2. DriverGoes(driver.op, 2, driver.request, driver.byte, status)
    <3> HIDE DEF status
    <3> QED
      BY <1>1, <2>1 DEF DriverGoes, DriverStates
  <2> QED
    BY <2>1, <2>2
<1>4. CASE PollDone
  BY <1>1, <1>4 DEF PollDone, DriverGoes, DriverStates
<1>5. CASE Return
  BY <1>1, <1>5 DEF Return, NextByte, DriverGoes, DriverStates
<1> QED
  BY <1>2, <1>3, <1>4, <1>5 DEF Access

(* A step, for both kinds of edge.                                         *)
Stepped(accessing) ==
    /\ IF accessing THEN Access ELSE NoAccess
    /\ BitEdge(scl, sda) /\ ByteEdge /\ TopEdge(OnBus(accessing)) /\ SlaveEdge /\ shorted' = FALSE

(* On a healthy bus, a step is an edge of the core, with or without an     *)
(* access of the CPU.                                                      *)
LEMMA StepIs ==
    ASSUME DacTypeOK, ~Faults, Next
    PROVE  \E accessing \in BOOLEAN : Stepped(accessing)
<1>1. shorted' = FALSE
  BY DEF Next, Edge, ShortCircuit, DacTypeOK
<1>2. CASE Edge(Access, TRUE)
  <2>1. Stepped(TRUE)
    BY <1>1, <1>2 DEF Edge, CoreEdge, Stepped
  <2> QED
    BY <2>1
<1>3. CASE Edge(NoAccess, FALSE)
  <2>1. Stepped(FALSE)
    BY <1>1, <1>3 DEF Edge, CoreEdge, Stepped
  <2> QED
    BY <2>1
<1> QED
  BY <1>2, <1>3 DEF Next

(* The halves of the prescaler, written one after the other, make up the   *)
(* whole number (i2c_opencores.c:44-46).                                   *)
LEMMA Halves ==
    ASSUME NEW p \in Nat, NEW q \in Nat
    PROVE  /\ 256 * (p \div 256) + (q % 256) \in Nat /\ (256 * (p \div 256) + (q % 256)) % 256 = q % 256
           /\ 256 * (q \div 256) + (p % 256) \in Nat
           /\ p % 256 = q % 256 => 256 * (q \div 256) + (p % 256) = q
  OBVIOUS

(* A function on 1..n is a sequence of n elements.                         *)
LEMMA FunctionsAreSequences ==
    ASSUME NEW S, NEW n \in Nat, NEW s \in [1..n -> S]
    PROVE  s \in Seq(S) /\ Len(s) = n
  OBVIOUS

(* The bytes that are asked for are sequences of eight bits.               *)
LEMMA BytesOfRequests ==
    ASSUME NEW f \in 1..Len(Requests), NEW n \in 1..4
    PROVE  /\ Requests[f][n] \in Bytes8 /\ \A i \in 1..8 : Requests[f][n][i] \in Bit01
           /\ Requests[f] \in Seq(Seq(Bit01)) /\ Len(Requests[f]) = 4
<1>1. Requests \in Seq([1..4 -> [1..8 -> {0, 1}]])
  BY DacAssumption DEF DacAssumption
<1>2. Requests[f] \in [1..4 -> [1..8 -> Bit01]]
  BY <1>1 DEF Bit01
<1>3. \A s \in [1..8 -> Bit01] : s \in Seq(Bit01) /\ Len(s) = 8
  BY 8 \in Nat, FunctionsAreSequences
<1>4. Requests[f] \in [1..4 -> Seq(Bit01)]
  BY <1>2, <1>3
<1>5. Requests[f] \in Seq(Seq(Bit01)) /\ Len(Requests[f]) = 4
  BY ZenonT(60), <1>4, 4 \in Nat, FunctionsAreSequences
<1> QED
  BY <1>2, <1>3, <1>5 DEF Bytes8

(* The driver and what its calls have returned keep their types.           *)
LEMMA DriverTyped ==
    ASSUME DacInv, NEW accessing \in BOOLEAN, Stepped(accessing)
    PROVE  driver' \in DriverStates /\ returned' \in Seq(Bit01)
<1>1. /\ driver \in DriverStates /\ returned \in Seq(Bit01) /\ top.tip \in BOOLEAN /\ top.rxack \in Bit01
      /\ driver.sr.rxack \in Bit01 /\ driver.request \in Nat /\ driver.byte \in 1..4
  BY DEF DacInv, DacTypeOK, TopOK, DriverStates
<1>2. CASE NoAccess
  BY <1>1, <1>2 DEF NoAccess
<1>3. CASE WriteAccess
  <2>1. driver.op \in Writes /\ returned' = returned
    BY <1>3 DEF WriteAccess
  <2> DEFINE after == AfterWrite
  <2>2. after \in Setup \cup {"txr", "cr", "poll", "ack"}
    BY <2>1 DEF AfterWrite, Writes, Setup
  <2>3. driver' = [driver EXCEPT !.phase = 2] \/ driver' = [driver EXCEPT !.op = after, !.phase = 1]
    BY <1>3 DEF WriteAccess
  <2> HIDE DEF after
  <2> QED
    BY ZenonT(60), <1>1, <2>1, <2>2, <2>3 DEF DriverStates
<1>4. CASE ReadLatch
  <2> DEFINE status == Status
  <2>1. status \in [tip : BOOLEAN, rxack : Bit01]
    BY <1>1 DEF Status
  <2>2. driver' = [driver EXCEPT !.phase = 2, !.sr = status] /\ returned' = returned
    BY <1>4 DEF ReadLatch
  <2> HIDE DEF status
  <2> QED
    BY <1>1, <2>1, <2>2 DEF DriverStates
<1>5. CASE PollDone
  BY <1>1, <1>5 DEF PollDone, DriverStates
<1>6. CASE Return
  <2>1. CASE driver.byte < 4
    <3> DEFINE next == driver.byte + 1
    <3>1. next \in 1..4 /\ driver' = [driver EXCEPT !.op = "txr", !.phase = 1, !.byte = next]
      BY <1>1, <1>6, <2>1 DEF Return, NextByte
    <3>2. returned' \in Seq(Bit01)
      BY <1>1, <1>6 DEF Return
    <3> HIDE DEF next
    <3> QED
      BY <1>1, <3>1, <3>2 DEF DriverStates
  <2>2. CASE ~(driver.byte < 4)
    <3> DEFINE next == driver.request + 1
    <3>1. next \in Nat \ {0} /\ driver' = [driver EXCEPT !.op = "txr", !.phase = 1, !.byte = 1, !.request = next]
      BY <1>1, <1>6, <2>2 DEF Return, NextByte
    <3>2. returned' \in Seq(Bit01)
      BY <1>1, <1>6 DEF Return
    <3> HIDE DEF next
    <3>3. driver' = [op |-> "txr", phase |-> 1, byte |-> 1, request |-> next, sr |-> driver.sr]
      BY <1>1, <3>1 DEF DriverStates
    <3>4. driver' \in DriverStates
      BY <1>1, <3>1, <3>3 DEF DriverStates
    <3> QED
      BY <3>2, <3>4
  <2> QED
    BY <2>1, <2>2
<1> QED
  BY <1>2, <1>3, <1>4, <1>5, <1>6 DEF Stepped, Access

(* While the driver polls nothing is written, and it polls as long as a    *)
(* byte is under way.                                                      *)
LEMMA Polling ==
    ASSUME DacInv, NEW accessing \in BOOLEAN, Stepped(accessing), driver.op = "poll"
    PROVE  /\ OnBus(accessing) = NoWrite /\ returned' = returned
           /\ driver'.request = driver.request /\ driver'.byte = driver.byte /\ driver'.op \in {"poll", "ack"}
           /\ driver'.op = "ack" => driver'.phase = 1 /\ ~UnderWay /\ ~byte.cmd_ack
           /\ driver'.op = "poll" /\ driver'.phase = 2 /\ ~driver'.sr.tip => ~UnderWay /\ ~byte.cmd_ack
<1>1. CASE accessing
  <2>1. Access /\ DacTypeOK
    BY <1>1 DEF Stepped, DacInv
  <2>2. \/ driver.phase = 1 /\ DriverGoes("poll", 2, driver.request, driver.byte, Status) /\ returned' = returned
        \/ driver.phase = 2 /\ returned' = returned
           /\ DriverGoes(IF driver.sr.tip THEN "poll" ELSE "ack", 1, driver.request, driver.byte, driver.sr)
    BY <2>1, DriverSteps DEF Writes
  <2>3. OnBus(accessing) = NoWrite
    BY DEF OnBus, Writes
  <2> QED
    BY <2>2, <2>3 DEF DriverGoes, Status, DacInv, Commanded
<1>2. CASE ~accessing
  <2>1. UNCHANGED <<driver, returned>> /\ OnBus(accessing) = NoWrite
    BY <1>2 DEF Stepped, NoAccess, OnBus
  <2> QED
    BY <2>1 DEF DacInv, Commanded
<1> QED
  BY <1>1, <1>2

(* The registers keep to what the driver has written so far.               *)
LEMMA RegisteredKept ==
    ASSUME DacInv, NEW accessing \in BOOLEAN, Stepped(accessing)
    PROVE  /\ Registered' /\ top'.prer \in Nat /\ top'.core_en \in BOOLEAN /\ top'.txr \in Bytes8
<1> DEFINE w == OnBus(accessing)
<1>1. /\ DacTypeOK /\ Registered /\ TopEdge(w) /\ ClkCnt \in Nat
      /\ driver \in DriverStates /\ top.prer \in Nat /\ top.core_en \in BOOLEAN /\ top.txr \in Bytes8
      /\ driver.request \in Nat \ {0} /\ driver.byte \in 1..4
  BY DacAssumption DEF DacInv, DacTypeOK, TopOK, Stepped, DacAssumption, DriverStates
<1>2. /\ top'.prer = NextPrer(w) /\ top'.core_en = (IF w.adr = "CTR" THEN w.dat ELSE top.core_en)
      /\ top'.txr = (IF w.adr = "TXR" THEN w.dat ELSE top.txr)
  BY <1>1, TopNext
<1>3. ASSUME w = NoWrite
      PROVE  top'.prer = top.prer /\ top'.core_en = top.core_en /\ top'.txr = top.txr
  BY <1>2, <1>3 DEF NoWrite, NextPrer
<1>4. CASE NoAccess /\ ~accessing
  <2>1. driver' = driver /\ w = NoWrite
    BY <1>4 DEF NoAccess, OnBus
  <2> QED
    BY <1>1, <1>3, <2>1 DEF Registered, Busy, TheByte
<1>5. CASE accessing /\ driver.op \in Reads
  <2>1. w = NoWrite /\ Access
    BY <1>5 DEF OnBus, Reads, Writes, Stepped
  <2>2. CASE driver.op = "poll"
    BY <1>1, <1>3, <2>1, <2>2, Polling DEF Registered, Busy, TheByte, Setup
  <2>3. CASE driver.op = "ack"
    <3>1. \/ driver.phase = 1 /\ DriverGoes("ack", 2, driver.request, driver.byte, Status)
          \/ DriverGoes("txr", 1, driver.request, driver.byte + 1, driver.sr)
          \/ DriverGoes("txr", 1, driver.request + 1, 1, driver.sr)
      BY <1>1, <2>1, <2>3, DriverSteps DEF Writes
    <3> QED
      BY <1>1, <1>3, <2>1, <2>3, <3>1 DEF Registered, Busy, TheByte, Setup, DriverGoes
  <2> QED
    BY <1>5, <2>2, <2>3 DEF Reads
<1>6. CASE accessing /\ driver.op \in Writes
  <2>1. /\ Busy /\ w = BusWrite
        /\ \/ driver.phase = 1 /\ DriverGoes(driver.op, 2, driver.request, driver.byte, driver.sr)
           \/ driver.phase = 2 /\ DriverGoes(AfterWrite, 1, driver.request, driver.byte, driver.sr)
    BY <1>1, <1>6, DriverSteps DEF OnBus, Reads, Writes, Stepped
  <2> DEFINE Moves(after) == \/ driver.phase = 1 /\ driver'.phase = 2 /\ driver'.op = driver.op
                             \/ driver.phase = 2 /\ driver'.phase = 1 /\ driver'.op = after
  <2>2. driver'.request = driver.request /\ driver'.byte = driver.byte /\ Busy' = Busy /\ TheByte' = TheByte
    BY <2>1 DEF DriverGoes, Busy, TheByte
  <2>3. CASE driver.op = "off"
    <3>1. Moves("iack") /\ w = Write("CTR", FALSE)
      BY <2>1, <2>3 DEF DriverGoes, AfterWrite, BusWrite
    <3>2. top'.prer = top.prer /\ top'.core_en = FALSE /\ top'.txr = top.txr
      BY <1>2, <3>1 DEF Write, NextPrer
    <3> QED
      BY <1>1, <2>1, <2>2, <2>3, <3>1, <3>2 DEF Registered, Setup
  <2>4. CASE driver.op = "iack"
    <3>1. Moves("prerlo") /\ w = Write("CR", {"IACK"})
      BY <2>1, <2>4 DEF DriverGoes, AfterWrite, BusWrite
    <3>2. top'.prer = top.prer /\ top'.core_en = top.core_en /\ top'.txr = top.txr
      BY <1>2, <3>1 DEF Write, NextPrer
    <3> QED
      BY <1>1, <2>1, <2>2, <2>4, <3>1, <3>2 DEF Registered, Setup
  <2>5. CASE driver.op = "prerlo"
    <3>1. Moves("prerhi") /\ w = Write("PRERLO", ClkCnt % 256)
      BY <2>1, <2>5 DEF DriverGoes, AfterWrite, BusWrite
    <3>2. top'.prer = 256 * (top.prer \div 256) + (ClkCnt % 256) /\ top'.core_en = top.core_en /\ top'.txr = top.txr
      BY <1>2, <3>1 DEF Write, NextPrer
    <3>3. top'.prer \in Nat /\ top'.prer % 256 = ClkCnt % 256
      <4> DEFINE p == top.prer
      <4>1. p \in Nat /\ top'.prer = 256 * (p \div 256) + (ClkCnt % 256)
        BY <1>1, <3>2
      <4> HIDE DEF p
      <4> QED
        BY <1>1, <4>1, Halves
    <3> QED
      BY <1>1, <2>1, <2>2, <2>5, <3>1, <3>2, <3>3 DEF Registered, Setup
  <2>6. CASE driver.op = "prerhi"
    <3>1. Moves("on") /\ w = Write("PRERHI", ClkCnt \div 256)
      BY <2>1, <2>6 DEF DriverGoes, AfterWrite, BusWrite
    <3>2. top'.prer = 256 * (ClkCnt \div 256) + (top.prer % 256) /\ top'.core_en = top.core_en /\ top'.txr = top.txr
      BY <1>2, <3>1 DEF Write, NextPrer
    <3>3. top'.prer = ClkCnt
      <4> DEFINE p == top.prer
      <4>1. p \in Nat /\ p % 256 = ClkCnt % 256 /\ top'.prer = 256 * (ClkCnt \div 256) + (p % 256)
        BY <1>1, <2>6, <3>2 DEF Registered
      <4> HIDE DEF p
      <4> QED
        BY <1>1, <4>1, Halves
    <3> QED
      BY <1>1, <2>1, <2>2, <2>6, <3>1, <3>2, <3>3 DEF Registered, Setup
  <2>7. CASE driver.op = "on"
    <3>1. Moves("txr") /\ w = Write("CTR", TRUE)
      BY <2>1, <2>7 DEF DriverGoes, AfterWrite, BusWrite
    <3>2. top'.prer = top.prer /\ top'.core_en = TRUE /\ top'.txr = top.txr
      BY <1>2, <3>1 DEF Write, NextPrer
    <3>3. top'.core_en /\ top'.core_en \in BOOLEAN
      BY <3>2
    <3>4. top.prer = ClkCnt
      BY <1>1, <2>7 DEF Registered
    <3>5. driver'.op \in {"on", "txr"} /\ (driver'.op = "on" <=> driver'.phase = 2) /\ driver'.phase \in {1, 2}
      BY <2>7, <3>1
    <3>6. driver.request = 1 /\ driver.byte = 1
      BY <1>1, <2>7 DEF Registered, Setup
    <3> QED
      BY <1>1, <2>1, <2>2, <3>2, <3>3, <3>4, <3>5, <3>6 DEF Registered, Setup
  <2>8. CASE driver.op = "txr"
    <3>1. Moves("cr") /\ w = Write("TXR", TheByte)
      BY <2>1, <2>8 DEF DriverGoes, AfterWrite, BusWrite, TheByte
    <3>2. top'.prer = top.prer /\ top'.core_en = top.core_en /\ top'.txr = TheByte
      BY <1>2, <3>1 DEF Write, NextPrer
    <3>3. TheByte \in Bytes8
      <4>1. Len(Requests) \in Nat /\ driver.request \in 1..Len(Requests)
        BY <1>1, <2>1, DacAssumption DEF Busy, DacAssumption
      <4> QED
        BY <1>1, <4>1, BytesOfRequests DEF TheByte
    <3> QED
      BY <1>1, <2>1, <2>2, <2>8, <3>1, <3>2, <3>3 DEF Registered, Setup
  <2>9. CASE driver.op = "cr"
    <3>1. Moves("poll") /\ w = Write("CR", CommandOf(driver.byte))
      BY <2>1, <2>9 DEF DriverGoes, AfterWrite, BusWrite
    <3>2. top'.prer = top.prer /\ top'.core_en = top.core_en /\ top'.txr = top.txr
      BY <1>2, <3>1 DEF Write, NextPrer
    <3> QED
      BY <1>1, <2>1, <2>2, <2>9, <3>1, <3>2 DEF Registered, Setup
  <2> QED
    BY <1>6, <2>3, <2>4, <2>5, <2>6, <2>7, <2>8, <2>9 DEF Writes
<1>7. (accessing /\ Access) \/ (~accessing /\ NoAccess)
  BY DEF Stepped
<1>8. driver.op \in Reads \cup Writes
  BY <1>1 DEF DriverStates, Reads, Writes, Setup
<1> QED
  BY <1>4, <1>5, <1>6, <1>7, <1>8

(***************************************************************************)
(* What the lines and the slave can see in each state.                     *)
(***************************************************************************)
(* The registers that the lines depend on, with their values.              *)
LEMMA BusTyped ==
    ASSUME DacInv
    PROVE  /\ {bit.scl_oen, bit.sda_oen, bit.dscl_oen, bit.sSCL, bit.sSDA, bit.dSCL, bit.dSDA, bit.dout} \subseteq {0, 1}
           /\ {slave.scl, slave.sda, slave.drive} \subseteq {0, 1}
           /\ slave.active \in BOOLEAN /\ slave.answering \in BOOLEAN /\ slave.hold \in BOOLEAN
           /\ bit.clk_en \in BOOLEAN /\ bit.cmd_ack \in BOOLEAN /\ bit.c_state \in BitStates
           /\ scl = (IF bit.scl_oen = 1 /\ ~slave.hold THEN 1 ELSE 0)
           /\ sda = (IF bit.sda_oen = 1 /\ slave.drive = 1 THEN 1 ELSE 0)
           /\ slave.hold => slave.scl = 0
           /\ Len(slave.bits) \in Nat
<1>1. /\ scl = (IF bit.scl_oen = 1 /\ ~slave.hold THEN 1 ELSE 0)
      /\ sda = (IF bit.sda_oen = 1 /\ slave.drive = 1 THEN 1 ELSE 0)
  BY HealthyLines DEF DacInv
<1>2. slave \in SlaveStates
  BY DEF DacInv, DacTypeOK
<1>3. /\ {slave.scl, slave.sda, slave.drive} \subseteq {0, 1}
      /\ slave.active \in BOOLEAN /\ slave.answering \in BOOLEAN /\ slave.hold \in BOOLEAN
      /\ Len(slave.bits) \in Nat
  BY <1>2 DEF SlaveStates, Bit01
<1> QED
  BY <1>1, <1>3 DEF DacInv, DacTypeOK, BitOK, Bit01, Ticks

(* The states of the bit controller that belong to each state of the byte  *)
(* controller.                                                             *)
LEMMA Pairs ==
    ASSUME DacInv
    PROVE  /\ byte.c_state \in {"ST_IDLE", "ST_START", "ST_WRITE", "ST_ACK", "ST_STOP"}
           /\ byte.c_state = "ST_IDLE" => byte.core_cmd = "NOP" /\ bit.c_state = "idle" /\ ~bit.cmd_ack
           /\ byte.c_state = "ST_START" => byte.core_cmd = "START" /\ driver.byte = 1
                 /\ bit.c_state \in {"idle", "start_a", "start_b", "start_c", "start_d", "start_e"}
           /\ byte.c_state = "ST_WRITE" => byte.core_cmd = "WRITE" /\ bit.c_state \in {"idle", "wr_a", "wr_b", "wr_c", "wr_d"}
           /\ byte.c_state = "ST_ACK" => byte.core_cmd = "READ" /\ bit.c_state \in {"idle", "rd_a", "rd_b", "rd_c", "rd_d"}
           /\ byte.c_state = "ST_STOP" => byte.core_cmd = "STOP" /\ driver.byte = 4
                 /\ bit.c_state \in {"idle", "stop_a", "stop_b", "stop_c", "stop_d"}
           /\ bit.cmd_ack => bit.c_state = "idle" /\ UnderWay /\ ~bit.clk_en
           /\ UnderWay \/ byte.cmd_ack => driver.op = "poll" /\ top.core_en
<1>1. bit.cmd_ack => bit.c_state = "idle" /\ UnderWay /\ ~bit.clk_en
  BY DEF DacInv, Ticks
<1>2. UnderWay \/ byte.cmd_ack => driver.op = "poll" /\ top.core_en
  BY DEF DacInv, Commanded, Registered, Setup
<1> QED
  BY <1>1, <1>2 DEF DacInv, Paired, StartStates, StopStates, ReadStates, WriteStates, UnderWay

(* The levels of the lines, for all but the byte that is on its way.       *)
LEMMA Levels ==
    ASSUME DacInv
    PROVE  /\ byte.c_state = "ST_START" /\ ~bit.cmd_ack /\ bit.c_state \notin {"start_d", "start_e"} => Free
           /\ bit.c_state \in {"start_d", "start_e"} => bit.scl_oen = 1 /\ bit.sda_oen = 0 /\ slave.scl = 1
           /\ bit.c_state \in {"wr_a", "wr_b", "rd_a", "rd_b", "stop_a", "stop_b"} => Low
           /\ byte.c_state \in {"ST_WRITE", "ST_ACK", "ST_STOP"} /\ bit.c_state = "idle" /\ ~bit.cmd_ack => Low
           /\ bit.c_state \in {"wr_c", "wr_d", "rd_c", "rd_d", "stop_c", "stop_d"} => bit.scl_oen = 1
           /\ bit.cmd_ack => slave.scl = 1 /\ bit.scl_oen = (IF byte.c_state = "ST_STOP" THEN 1 ELSE 0)
           /\ ~UnderWay => IF bit.scl_oen = 0 THEN Low ELSE Free
<1>1. ~UnderWay => IF bit.scl_oen = 0 THEN Low ELSE Free
  BY DEF DacInv, Resting, Low, Free
<1>2. CASE byte.c_state = "ST_IDLE"
  BY <1>1, <1>2, Pairs
<1>3. CASE byte.c_state = "ST_START"
  BY <1>1, <1>3, Pairs DEF DacInv, Starting, Low, Free
<1>4. CASE byte.c_state = "ST_WRITE"
  BY <1>1, <1>4, Pairs DEF DacInv, Writing, Low
<1>5. CASE byte.c_state = "ST_ACK"
  BY <1>1, <1>5, Pairs DEF DacInv, Answered, Low
<1>6. CASE byte.c_state = "ST_STOP"
  BY <1>1, <1>6, Pairs DEF DacInv, Stopping, Low
<1> QED
  BY <1>2, <1>3, <1>4, <1>5, <1>6, Pairs

(* What the slave can take for an event, and in which state: no START or   *)
(* STOP while a byte is sent, no bit while the bus rests.                  *)
LEMMA Sees ==
    ASSUME DacInv
    PROVE  /\ SeesStart => byte.c_state = "ST_START" /\ bit.c_state = "start_d"
           /\ SeesStop => byte.c_state = "ST_STOP" /\ bit.cmd_ack
           /\ SeesBit => bit.c_state \in {"wr_c", "wr_d", "stop_c", "stop_d"}
           /\ SeesByte => byte.c_state = "ST_WRITE" /\ bit.cmd_ack /\ Len(slave.bits) = 8
           /\ SeesAnswer => byte.c_state = "ST_ACK" /\ bit.cmd_ack
           /\ slave.answering => Len(slave.bits) # 8
           /\ scl = 1 /\ sda = 1 /\ slave.sda = 0 => byte.c_state = "ST_STOP" /\ bit.cmd_ack
<1> USE DEF SeesStart, SeesStop, SeesBit, SeesByte, SeesAnswer
<1>1. CASE byte.c_state = "ST_IDLE"
  <2>1. Listening /\ (Free \/ (Low /\ Len(slave.bits) = 0))
    BY <1>1 DEF DacInv, Resting, UnderWay, Free, Got
  <2> QED
    BY <1>1, <2>1, BusTyped DEF Free, Low, Listening
<1>2. CASE byte.c_state = "ST_START"
  <2>1. CASE bit.cmd_ack
    <3>1. bit.scl_oen = 0 /\ ~slave.answering /\ Len(slave.bits) = 0
      BY <1>2, <2>1, Pairs DEF DacInv, Starting, Listening, Got
    <3> QED
      BY <1>2, <2>1, <3>1, BusTyped
  <2>2. CASE bit.c_state \in {"start_d", "start_e"}
    BY <1>2, <2>2, BusTyped, Pairs DEF DacInv, Starting, Listening, Got
  <2>3. CASE ~bit.cmd_ack /\ bit.c_state \notin {"start_d", "start_e"}
    BY <1>2, <2>3, BusTyped, Levels DEF Free, Listening
  <2> QED
    BY <2>1, <2>2, <2>3
<1>3. CASE byte.c_state = "ST_WRITE"
  <2>1. CASE bit.cmd_ack
    BY <1>3, <2>1, BusTyped, Pairs DEF DacInv, Writing, Listening
  <2>2. CASE bit.c_state \in {"wr_c", "wr_d"}
    BY <1>3, <2>2, BusTyped, Pairs DEF DacInv, Writing, Listening
  <2>3. CASE ~bit.cmd_ack /\ bit.c_state \notin {"wr_c", "wr_d"}
    <3>1. Low /\ Listening
      BY <1>3, <2>3, Pairs, Levels DEF DacInv, Writing
    <3> QED
      BY <1>3, <3>1, BusTyped DEF Low, Listening
  <2> QED
    BY <2>1, <2>2, <2>3
<1>4. CASE byte.c_state = "ST_ACK"
  <2>0. slave.answering /\ Len(slave.bits) = 0
    BY <1>4 DEF DacInv, Answered, Got
  <2>1. CASE bit.cmd_ack
    BY <1>4, <2>0, <2>1, BusTyped, Pairs DEF DacInv, Answered
  <2>2. CASE bit.c_state \in {"rd_c", "rd_d"}
    BY <1>4, <2>0, <2>2, BusTyped, Pairs DEF DacInv, Answered
  <2>3. CASE ~bit.cmd_ack /\ bit.c_state \notin {"rd_c", "rd_d"}
    <3>1. Low
      BY <1>4, <2>3, Pairs, Levels
    <3> QED
      BY <1>4, <2>0, <3>1, BusTyped DEF Low
  <2> QED
    BY <2>1, <2>2, <2>3
<1>5. CASE byte.c_state = "ST_STOP"
  <2>1. CASE bit.cmd_ack
    BY <1>5, <2>1, BusTyped, Pairs DEF DacInv, Stopping, Listening
  <2>2. CASE bit.c_state \in {"stop_c", "stop_d"}
    BY <1>5, <2>2, BusTyped, Pairs DEF DacInv, Stopping, Listening
  <2>3. CASE ~bit.cmd_ack /\ bit.c_state \notin {"stop_c", "stop_d"}
    <3>1. Low /\ Listening
      BY <1>5, <2>3, Pairs, Levels DEF DacInv, Stopping
    <3> QED
      BY <1>5, <3>1, BusTyped DEF Low, Listening
  <2> QED
    BY <2>1, <2>2, <2>3
<1> QED
  BY <1>1, <1>2, <1>3, <1>4, <1>5, Pairs

(***************************************************************************)
(* Ticks and what they move.                                               *)
(***************************************************************************)
(* Two ticks are at least two edges apart, so that SCL has followed its    *)
(* output when the next one comes; without the core enabled nothing ticks. *)
LEMMA Enabled ==
    ASSUME DacInv
    PROVE  /\ ClkCnt \in Nat /\ ClkCnt > 0
           /\ top.core_en => top.prer = ClkCnt
           /\ top.core_en /\ Ticking => ~bit.clk_en /\ (bit.dscl_oen = 0 \/ slave.scl = 1)
           /\ ~top.core_en => Ticking /\ ~UnderWay
<1>1. ClkCnt \in Nat /\ ClkCnt > 0
  BY DacAssumption DEF DacAssumption
<1>2. top.core_en => top.prer = ClkCnt
  BY DEF DacInv, Registered, Setup
<1>3. ASSUME top.core_en, Ticking
      PROVE  ~bit.clk_en /\ (bit.dscl_oen = 0 \/ slave.scl = 1)
  <2>1. bit.cnt = 0 /\ ~slave_wait
    BY <1>3 DEF Ticking
  <2>2. bit.clk_en => bit.cnt = ClkCnt
    BY <1>3 DEF DacInv, Ticks
  <2>3. bit.dscl_oen = 0 \/ slave.scl = 1
    BY <2>1, BusTyped DEF slave_wait, DacInv, Ticks
  <2> QED
    BY <1>1, <2>1, <2>2, <2>3
<1>4. ASSUME ~top.core_en
      PROVE  Ticking /\ ~UnderWay
  <2>1. ~UnderWay /\ driver.op \in Setup /\ driver.byte = 1
    BY <1>4, Pairs DEF DacInv, Registered
  <2>2. slave.scl = 1
    BY <2>1 DEF DacInv, Resting, Done, Setup, Free
  <2> QED
    BY <1>4, <2>1, <2>2 DEF Ticking, slave_wait, DacInv, Ticks
<1> QED
  BY <1>1, <1>2, <1>3, <1>4

(* A tick of a command that is under way; the byte controller waits.       *)
Tock == UnderWay /\ bit.clk_en

(* Between ticks that count, the bit controller leaves the lines alone.    *)
LEMMA Still ==
    ASSUME DacInv, NEW accessing \in BOOLEAN, Stepped(accessing), ~Tock
    PROVE  /\ bit'.c_state = bit.c_state /\ bit'.scl_oen = bit.scl_oen /\ bit'.sda_oen = bit.sda_oen
           /\ bit'.sda_chk = bit.sda_chk /\ ~bit'.cmd_ack
<1>1. DacTypeOK /\ BitEdge(scl, sda)
  BY DEF DacInv, Stepped
<1>2. CASE ~bit.clk_en
  BY <1>1, <1>2, Holds
<1>3. CASE bit.clk_en /\ ~UnderWay
  <2>1. bit.c_state = "idle" /\ FirstState(byte.core_cmd) = "idle"
    BY <1>3, Pairs DEF UnderWay, FirstState
  <2>2. Goes("idle", "idle", bit.scl_oen, bit.sda_oen, FALSE)
    BY <1>1, <1>3, <2>1, Tocks DEF Goes
  <2>3. ~bit.sda_chk /\ ~bit'.cmd_ack
    BY <1>1, <2>1, BitNext DEF DacInv, OwnSignals, LastPhases
  <2>4. bit.sda_chk = FALSE
    BY <2>3, BusTyped DEF DacInv, DacTypeOK, BitOK
  <2> QED
    BY <2>1, <2>2, <2>3, <2>4 DEF Goes
<1> QED
  BY <1>2, <1>3 DEF Tock

(* The byte controller waits for the bit controller.                       *)
LEMMA Waits ==
    ASSUME DacInv, NEW accessing \in BOOLEAN, Stepped(accessing), UnderWay, ~bit.cmd_ack
    PROVE  ByteGoes(byte.c_state, byte.core_cmd) /\ ~byte'.cmd_ack /\ ~byte'.ld /\ ~byte'.shift
           /\ byte'.ack_out = byte.ack_out
<1>1. DacTypeOK /\ ByteEdge
  BY DEF DacInv, Stepped
<1>2. byte.c_state # "ST_IDLE"
  BY DEF UnderWay
<1>3. ByteGoes(byte.c_state, byte.core_cmd) /\ byte'.ack_out = byte.ack_out
  BY <1>1, <1>2, ByteSteps
<1>4. /\ byte'.shift = Shifts /\ byte'.ld = Loads /\ byte'.cmd_ack = Finishes
  BY <1>1, ByteNext
<1>5. ~Shifts /\ ~Loads /\ ~Finishes
  BY <1>2 DEF Shifts, Loads, Finishes
<1> QED
  BY <1>3, <1>4, <1>5

(* A tick while a byte is under way, by the state of the byte controller.  *)
LEMMA Moves ==
    ASSUME DacInv, NEW accessing \in BOOLEAN, Stepped(accessing), Tock
    PROVE  /\ ByteGoes(byte.c_state, byte.core_cmd) /\ ~bit'.clk_en /\ ~bit.cmd_ack
           /\ bit'.cmd_ack = (bit.c_state \in LastPhases)
           /\ byte.c_state = "ST_START" =>
                \/ Goes("idle", "start_a", bit.scl_oen, bit.sda_oen, FALSE)
                \/ Goes("start_a", "start_b", bit.scl_oen, 1, FALSE) \/ Goes("start_b", "start_c", 1, 1, FALSE)
                \/ Goes("start_c", "start_d", 1, 0, FALSE) \/ Goes("start_d", "start_e", 1, 0, FALSE)
                \/ Goes("start_e", "idle", 0, 0, FALSE)
           /\ byte.c_state = "ST_WRITE" =>
                \/ Goes("idle", "wr_a", bit.scl_oen, bit.sda_oen, FALSE)
                \/ Goes("wr_a", "wr_b", 0, byte.core_txd, FALSE) \/ Goes("wr_b", "wr_c", 1, byte.core_txd, TRUE)
                \/ Goes("wr_c", "wr_d", 1, byte.core_txd, TRUE) \/ Goes("wr_d", "idle", 0, byte.core_txd, FALSE)
           /\ byte.c_state = "ST_ACK" =>
                \/ Goes("idle", "rd_a", bit.scl_oen, bit.sda_oen, FALSE)
                \/ Goes("rd_a", "rd_b", 0, 1, FALSE) \/ Goes("rd_b", "rd_c", 1, 1, FALSE)
                \/ Goes("rd_c", "rd_d", 1, 1, FALSE) \/ Goes("rd_d", "idle", 0, 1, FALSE)
           /\ byte.c_state = "ST_STOP" =>
                \/ Goes("idle", "stop_a", bit.scl_oen, bit.sda_oen, FALSE)
                \/ Goes("stop_a", "stop_b", 0, 0, FALSE) \/ Goes("stop_b", "stop_c", 1, 0, FALSE)
                \/ Goes("stop_c", "stop_d", 1, 0, FALSE) \/ Goes("stop_d", "idle", 1, 1, FALSE)
<1>1. DacTypeOK /\ BitEdge(scl, sda) /\ bit.clk_en /\ UnderWay
  BY DEF DacInv, Stepped, Tock
<1>2. ~bit.cmd_ack /\ top.core_en
  BY <1>1, Pairs
<1>3. ~bit'.clk_en /\ bit'.cmd_ack = (bit.c_state \in LastPhases)
  BY <1>1, <1>2, BitNext, Enabled
<1>4. ByteGoes(byte.c_state, byte.core_cmd)
  BY <1>1, <1>2, Waits
<1>5. byte.c_state \in {"ST_START", "ST_WRITE", "ST_ACK", "ST_STOP"}
  BY <1>1, Pairs DEF UnderWay
<1> DEFINE first == FirstState(byte.core_cmd)
<1>6. /\ byte.c_state = "ST_START" => first = "start_a"
      /\ byte.c_state = "ST_WRITE" => first = "wr_a"
      /\ byte.c_state = "ST_ACK" => first = "rd_a"
      /\ byte.c_state = "ST_STOP" => first = "stop_a"
  BY Pairs DEF FirstState
<1>7. CASE byte.c_state = "ST_START"
  BY <1>1, <1>2, <1>3, <1>4, <1>6, <1>7, Tocks, Pairs DEF Goes
<1>8. CASE byte.c_state = "ST_WRITE"
  BY <1>1, <1>2, <1>3, <1>4, <1>6, <1>8, Tocks, Pairs DEF Goes
<1>9. CASE byte.c_state = "ST_ACK"
  BY <1>1, <1>2, <1>3, <1>4, <1>6, <1>9, Tocks, Pairs DEF Goes
<1>10. CASE byte.c_state = "ST_STOP"
  BY <1>1, <1>2, <1>3, <1>4, <1>6, <1>10, Tocks, Pairs DEF Goes
<1> QED
  BY <1>5, <1>7, <1>8, <1>9, <1>10

(* What the slave makes of an edge, without the condition on its bits.     *)
LEMMA SlaveSees ==
    ASSUME DacInv, NEW accessing \in BOOLEAN, Stepped(accessing)
    PROVE  /\ slave'.scl = scl /\ slave'.sda = sda /\ slave'.hold \in BOOLEAN /\ (slave'.hold => scl = 0)
           /\ slave' \in SlaveStates
           /\ SeesStart => SlaveHas(TRUE, <<>>, FALSE, 1, <<>>, slave.frames, slave.acks)
           /\ SeesStop => SlaveHas(FALSE, slave.bits, slave.answering, 1, slave.frame,
                                   Append(slave.frames, slave.frame), slave.acks)
           /\ SeesBit => SlaveHas(slave.active, Append(slave.bits, sda), slave.answering, slave.drive,
                                  slave.frame, slave.frames, slave.acks)
           /\ SeesByte =>
                 \E ack \in Bit01 : SlaveHas(slave.active, <<>>, TRUE, ack, Append(slave.frame, slave.bits),
                                             slave.frames, Append(slave.acks, ack))
           /\ SeesAnswer => SlaveHas(slave.active, slave.bits, FALSE, 1, slave.frame, slave.frames, slave.acks)
           /\ ~SeesStart /\ ~SeesStop /\ ~SeesBit /\ ~SeesByte /\ ~SeesAnswer => SlaveKept
  BY SlaveNext, Sees DEF DacInv, Stepped

(* The counter and the synchronisers keep pace with the lines.             *)
LEMMA TicksKept ==
    ASSUME DacInv, NEW accessing \in BOOLEAN, Stepped(accessing)
    PROVE  Ticks'
<1>1. DacTypeOK /\ BitEdge(scl, sda) /\ bit.cnt \in Nat
  BY DEF DacInv, Stepped, DacTypeOK, BitOK
<1>2. /\ bit'.cnt = NextCnt /\ bit'.clk_en = Ticking /\ bit'.dscl_oen = bit.scl_oen
      /\ bit'.sSCL = scl /\ bit'.sSDA = sda /\ bit'.dSCL = bit.sSCL
      /\ bit'.cmd_ack = (bit.clk_en /\ bit.c_state \in LastPhases)
  BY <1>1, BitNext
<1>3. slave'.scl = scl /\ slave'.sda = sda /\ (slave'.hold => scl = 0)
  BY SlaveSees
<1>4. top'.core_en => bit'.cnt <= ClkCnt /\ (bit'.clk_en => bit'.cnt = ClkCnt)
  <2>1. top'.core_en => top'.prer = ClkCnt
    BY RegisteredKept DEF Registered, Setup
  <2>2. CASE top.core_en
    <3>1. bit.cnt <= ClkCnt /\ top.prer = ClkCnt
      BY <2>2, Enabled DEF DacInv, Ticks
    <3> QED
      BY <1>1, <1>2, <2>2, <3>1, Enabled DEF NextCnt
  <2>3. CASE ~top.core_en
    <3>1. bit'.cnt = top.prer
      BY <1>2, <2>3, Enabled DEF NextCnt
    <3>2. ASSUME top'.core_en
          PROVE  top.prer = ClkCnt
      <4>1. OnBus(accessing).adr = "CTR" /\ OnBus(accessing).dat
        BY <1>1, <2>3, <3>2, TopNext DEF Stepped
      <4>2. driver.op \in Writes /\ BusWrite.adr = "CTR" /\ BusWrite.dat
        BY <4>1 DEF OnBus, NoWrite
      <4>3. driver.op = "on"
        BY <4>2 DEF BusWrite, Writes, Write
      <4> QED
        BY <4>3 DEF DacInv, Registered
    <3> QED
      BY <3>1, <3>2, Enabled
  <2> QED
    BY <2>2, <2>3
<1>5. bit'.clk_en => bit'.dscl_oen = bit'.scl_oen /\ ~bit'.cmd_ack
  <2>1. bit'.clk_en => ~Tock
    BY Moves
  <2> QED
    BY <1>2, <2>1, Still
<1>6. bit'.cmd_ack => bit'.c_state = "idle" /\ UnderWay'
  <2>1. SUFFICES ASSUME bit'.cmd_ack PROVE bit'.c_state = "idle" /\ UnderWay'
    OBVIOUS
  <2>2. Tock
    BY <2>1, Still
  <2>3. bit.c_state \in LastPhases /\ ByteGoes(byte.c_state, byte.core_cmd) /\ byte.c_state # "ST_IDLE"
    BY <2>1, <2>2, Moves DEF Tock, UnderWay
  <2>4. bit'.c_state = "idle"
    BY <2>2, <2>3, Moves, Pairs DEF LastPhases, Goes
  <2> QED
    BY <2>3, <2>4 DEF ByteGoes, UnderWay
<1>7. bit'.c_state \in {"wr_d", "rd_d", "stop_d"} =>
         bit'.dscl_oen = 1 /\ (bit'.clk_en => slave'.scl = 1 /\ bit'.dSCL = 1)
  <2>1. SUFFICES ASSUME bit'.c_state \in {"wr_d", "rd_d", "stop_d"}
                 PROVE  bit'.dscl_oen = 1 /\ (bit'.clk_en => slave'.scl = 1 /\ bit'.dSCL = 1)
    OBVIOUS
  <2>2. CASE Tock
    <3>1. bit.c_state \in {"wr_c", "rd_c", "stop_c"}
      BY <2>1, <2>2, Moves, Pairs DEF Goes, Tock, UnderWay
    <3> QED
      BY <1>2, <2>2, <3>1, Levels, Moves
  <2>3. CASE ~Tock
    <3>1. bit.c_state \in {"wr_d", "rd_d", "stop_d"} /\ bit.c_state # "idle"
      BY <2>1, <2>3, Still
    <3>2. bit.scl_oen = 1 /\ bit.dscl_oen = 1 /\ top.core_en
      BY <3>1, Levels, Pairs DEF DacInv, Ticks, UnderWay
    <3>3. ASSUME Ticking PROVE slave.scl = 1 /\ scl = 1 /\ bit.sSCL = 1
      BY <3>2, <3>3, Enabled, BusTyped DEF DacInv, Ticks
    <3> QED
      BY <1>2, <1>3, <3>2, <3>3
  <2> QED
    BY <2>2, <2>3
<1>8. bit'.scl_oen = 0 /\ slave'.scl = 1 => bit'.cmd_ack
  <2>1. SUFFICES ASSUME bit'.scl_oen = 0, scl = 1 PROVE bit'.cmd_ack
    BY <1>3
  <2>2. bit.scl_oen = 1
    BY <2>1, BusTyped
  <2>3. Tock
    BY <2>1, <2>2, Still
  <2>4. bit.c_state \in LastPhases
    <3>1. bit'.scl_oen # bit.scl_oen /\ bit'.scl_oen = 0 /\ bit.scl_oen # 0
      BY <2>1, <2>2
    <3>2. bit.c_state \notin {"wr_a", "rd_a", "stop_a"}
      BY <2>2, Levels DEF Low
    <3>3. CASE byte.c_state = "ST_START"
      <4>1. \/ Goes("idle", "start_a", bit.scl_oen, bit.sda_oen, FALSE)
               \/ Goes("start_a", "start_b", bit.scl_oen, 1, FALSE) \/ Goes("start_b", "start_c", 1, 1, FALSE)
               \/ Goes("start_c", "start_d", 1, 0, FALSE) \/ Goes("start_d", "start_e", 1, 0, FALSE)
               \/ Goes("start_e", "idle", 0, 0, FALSE)
        BY <2>3, <3>3, Moves
      <4>2. bit.c_state = "start_e"
        BY <3>1, <4>1 DEF Goes
      <4> QED
        BY <4>2 DEF LastPhases
    <3>4. CASE byte.c_state = "ST_WRITE"
      <4>1. \/ Goes("idle", "wr_a", bit.scl_oen, bit.sda_oen, FALSE)
               \/ Goes("wr_a", "wr_b", 0, byte.core_txd, FALSE) \/ Goes("wr_b", "wr_c", 1, byte.core_txd, TRUE)
               \/ Goes("wr_c", "wr_d", 1, byte.core_txd, TRUE) \/ Goes("wr_d", "idle", 0, byte.core_txd, FALSE)
        BY <2>3, <3>4, Moves
      <4>2. bit.c_state = "wr_d"
        BY <3>1, <3>2, <4>1 DEF Goes
      <4> QED
        BY <4>2 DEF LastPhases
    <3>5. CASE byte.c_state = "ST_ACK"
      <4>1. \/ Goes("idle", "rd_a", bit.scl_oen, bit.sda_oen, FALSE)
               \/ Goes("rd_a", "rd_b", 0, 1, FALSE) \/ Goes("rd_b", "rd_c", 1, 1, FALSE)
               \/ Goes("rd_c", "rd_d", 1, 1, FALSE) \/ Goes("rd_d", "idle", 0, 1, FALSE)
        BY <2>3, <3>5, Moves
      <4>2. bit.c_state = "rd_d"
        BY <3>1, <3>2, <4>1 DEF Goes
      <4> QED
        BY <4>2 DEF LastPhases
    <3>6. CASE byte.c_state = "ST_STOP"
      <4>1. \/ Goes("idle", "stop_a", bit.scl_oen, bit.sda_oen, FALSE)
               \/ Goes("stop_a", "stop_b", 0, 0, FALSE) \/ Goes("stop_b", "stop_c", 1, 0, FALSE)
               \/ Goes("stop_c", "stop_d", 1, 0, FALSE) \/ Goes("stop_d", "idle", 1, 1, FALSE)
        BY <2>3, <3>6, Moves
      <4>2. bit.c_state = "stop_d"
        BY <3>1, <3>2, <4>1 DEF Goes
      <4> QED
        BY <4>2 DEF LastPhases
    <3> QED
      BY <2>3, <3>3, <3>4, <3>5, <3>6, Pairs DEF Tock, UnderWay
  <2> QED
    BY <2>3, <2>4, Moves
<1>9. slave'.hold => slave'.scl = 0
  BY <1>3
<1> QED
  BY <1>2, <1>3, <1>4, <1>5, <1>6, <1>7, <1>8, <1>9 DEF Ticks

(* No edge makes the core lose the arbitration (i2c_master_bit_ctrl.v:305). *)
LEMMA NothingLost ==
    ASSUME DacInv, NEW accessing \in BOOLEAN, Stepped(accessing)
    PROVE  bit'.al = FALSE /\ top'.al = FALSE
<1>1. DacTypeOK /\ BitEdge(scl, sda) /\ TopEdge(OnBus(accessing))
  BY DEF DacInv, Stepped
<1>2. bit.sda_chk => ~(bit.sSDA = 0 /\ bit.sda_oen = 1)
  <2>1. SUFFICES ASSUME bit.sda_chk PROVE bit.sSDA = bit.sda_oen
    OBVIOUS
  <2>2. bit.c_state \in {"wr_c", "wr_d"} /\ byte.c_state = "ST_WRITE"
    BY <2>1, Pairs DEF DacInv, OwnSignals
  <2> QED
    BY <2>2 DEF DacInv, Writing, Ticks
<1>3. ~(bit.c_state # "idle" /\ bit.sto)
  BY Pairs DEF DacInv, OwnSignals, UnderWay
<1>4. bit'.al = (\/ bit.sda_chk /\ bit.sSDA = 0 /\ bit.sda_oen = 1
                 \/ bit.c_state # "idle" /\ bit.sto /\ ~bit.cmd_stop)
  BY <1>1, BitNext
<1>5. bit'.al = FALSE
  BY <1>2, <1>3, <1>4
<1>6. top'.al = FALSE
  BY <1>1, TopNext
<1> QED
  BY <1>5, <1>6

(* The core goes on recognising its own signals.                           *)
LEMMA OwnSignalsKept ==
    ASSUME DacInv, NEW accessing \in BOOLEAN, Stepped(accessing)
    PROVE  OwnSignals'
<1>1. DacTypeOK /\ BitEdge(scl, sda) /\ ByteEdge
  BY DEF DacInv, Stepped
<1>2. bit'.sda_chk => bit'.c_state \in {"wr_c", "wr_d"}
  <2>1. CASE Tock
    BY <2>1, Moves, Pairs DEF Goes, Tock, UnderWay
  <2>2. CASE ~Tock
    BY <2>2, Still DEF DacInv, OwnSignals
  <2> QED
    BY <2>1, <2>2
<1>3. bit'.sSDA = 1 /\ bit'.dSDA = 0 /\ bit'.sSCL = 1 => byte'.cmd_ack
  <2>1. SUFFICES ASSUME sda = 1, slave.sda = 0, scl = 1 PROVE byte'.cmd_ack
    BY <1>1, BitNext DEF DacInv, Ticks
  <2>2. byte.c_state = "ST_STOP" /\ bit.cmd_ack
    BY <2>1, Sees
  <2>3. Finishes /\ byte'.cmd_ack = Finishes
    BY <1>1, <2>2, ByteNext DEF Finishes
  <2> QED
    BY <2>3
<1>4. bit'.sto => ~UnderWay'
  <2>1. SUFFICES ASSUME bit.sSDA = 1 /\ bit.dSDA = 0 /\ bit.sSCL = 1 PROVE ~UnderWay'
    BY <1>1, BitNext
  <2>2. byte.cmd_ack /\ byte.c_state = "ST_IDLE"
    BY <2>1 DEF DacInv, OwnSignals, Commanded, UnderWay
  <2>3. ByteGoes("ST_IDLE", byte.core_cmd)
    BY <1>1, <2>2, ByteSteps DEF go, UnderWay
  <2> QED
    BY <2>3 DEF ByteGoes, UnderWay
<1> QED
  BY <1>2, <1>3, <1>4 DEF OwnSignals

(***************************************************************************)
(* Commands.                                                               *)
(***************************************************************************)
(* A command starts on the second edge of its write.                       *)
LEMMA Going ==
    ASSUME DacInv, ~UnderWay, go
    PROVE  /\ driver.op = "cr" /\ driver.phase = 2 /\ ~byte.cmd_ack /\ top.cr = CommandOf(driver.byte)
           /\ Done = FALSE /\ top.core_en /\ Busy
<1>1. top.cr # {} /\ ~byte.cmd_ack
  BY DEF go
<1>2. driver.op = "cr" /\ driver.phase = 2 /\ top.cr = CommandOf(driver.byte)
  BY <1>1 DEF DacInv, Commanded
<1>3. ~Done /\ top.core_en /\ Busy
  BY <1>2 DEF Done, DacInv, Registered, Setup
<1> QED
  BY <1>1, <1>2, <1>3

(* The commands of a byte: WR always, STA with the first, STO with the last. *)
LEMMA CommandsIn ==
    ASSUME NEW n \in 1..4
    PROVE  /\ "WR" \in CommandOf(n) /\ CommandOf(n) \subseteq Commands
           /\ "STA" \in CommandOf(n) <=> n = 1
           /\ "STO" \in CommandOf(n) <=> n = 4
  BY DEF CommandOf, Commands

(* How a step ends, by where the byte controller is.                       *)
Starts == ~UnderWay /\ go
Acks   == UnderWay /\ bit.cmd_ack

(* A command that starts sets the byte controller going, and the driver    *)
(* polls from then on.                                                     *)
LEMMA StartsOne ==
    ASSUME DacInv, NEW accessing \in BOOLEAN, Stepped(accessing), Starts
    PROVE  /\ IF driver.byte = 1 THEN ByteGoes("ST_START", "START") ELSE ByteGoes("ST_WRITE", "WRITE")
           /\ byte'.ld /\ ~byte'.shift /\ ~byte'.cmd_ack
           /\ DriverGoes("poll", 1, driver.request, driver.byte, driver.sr) /\ returned' = returned
           /\ OnBus(accessing) = Write("CR", CommandOf(driver.byte))
<1>1. DacTypeOK /\ ByteEdge /\ byte.c_state = "ST_IDLE" /\ go /\ ~UnderWay
  BY DEF DacInv, Stepped, Starts, UnderWay
<1>2. /\ driver.op = "cr" /\ driver.phase = 2 /\ top.cr = CommandOf(driver.byte) /\ Busy
      /\ driver.byte \in 1..4
  BY <1>1, Going DEF DacInv, DacTypeOK, DriverStates
<1>3. /\ byte'.shift = Shifts /\ byte'.ld = Loads /\ byte'.cmd_ack = Finishes
  BY <1>1, ByteNext
<1>4. ~Shifts /\ Loads /\ ~Finishes
  BY <1>1 DEF Shifts, Loads, Finishes
<1>5. IF driver.byte = 1 THEN ByteGoes("ST_START", "START") ELSE ByteGoes("ST_WRITE", "WRITE")
  BY <1>1, <1>2, ByteSteps, CommandsIn
<1>6. accessing /\ Access
  BY <1>2 DEF Stepped, NoAccess, Writes
<1>7. /\ DriverGoes(AfterWrite, 1, driver.request, driver.byte, driver.sr) /\ returned' = returned
  BY <1>1, <1>2, <1>6, DriverSteps DEF Writes, Reads
<1>8. AfterWrite = "poll" /\ OnBus(accessing) = Write("CR", CommandOf(driver.byte))
  BY <1>2, <1>6 DEF AfterWrite, OnBus, BusWrite, Writes
<1> QED
  BY <1>3, <1>4, <1>5, <1>7, <1>8

(* Where the byte controller goes when the bit controller is done.         *)
LEMMA Acked ==
    ASSUME DacInv, NEW accessing \in BOOLEAN, Stepped(accessing), Acks
    PROVE  /\ byte.c_state = "ST_START" => ByteGoes("ST_WRITE", "WRITE") /\ byte'.ld /\ ~byte'.shift /\ ~byte'.cmd_ack
           /\ byte.c_state = "ST_WRITE" =>
                 /\ IF byte.dcnt = 0 THEN ByteGoes("ST_ACK", "READ") ELSE ByteGoes("ST_WRITE", "WRITE")
                 /\ ~byte'.ld /\ byte'.shift = (byte.dcnt # 0) /\ ~byte'.cmd_ack
           /\ byte.c_state = "ST_ACK" =>
                 /\ byte'.ack_out = bit.dout /\ ~byte'.ld /\ ~byte'.shift
                 /\ IF driver.byte = 4 THEN ByteGoes("ST_STOP", "STOP") /\ ~byte'.cmd_ack
                    ELSE ByteGoes("ST_IDLE", "NOP") /\ byte'.cmd_ack
           /\ byte.c_state = "ST_STOP" =>
                 ByteGoes("ST_IDLE", "NOP") /\ byte'.cmd_ack /\ ~byte'.ld /\ ~byte'.shift /\ byte'.ack_out = byte.ack_out
<1>1. DacTypeOK /\ ByteEdge /\ bit.cmd_ack /\ UnderWay /\ byte.c_state # "ST_IDLE"
  BY DEF DacInv, Stepped, Acks, UnderWay
<1>2. top.cr = CommandOf(driver.byte) /\ driver.byte \in 1..4
  BY <1>1 DEF DacInv, Commanded, DacTypeOK, DriverStates
<1>3. /\ byte'.shift = Shifts /\ byte'.ld = Loads /\ byte'.cmd_ack = Finishes
  BY <1>1, ByteNext
<1>4. CASE byte.c_state = "ST_START"
  BY <1>1, <1>3, <1>4, ByteSteps DEF Shifts, Loads, Finishes
<1>5. CASE byte.c_state = "ST_WRITE"
  BY <1>1, <1>3, <1>5, ByteSteps DEF Shifts, Loads, Finishes
<1>6. CASE byte.c_state = "ST_ACK"
  BY <1>1, <1>2, <1>3, <1>6, ByteSteps, CommandsIn DEF Shifts, Loads, Finishes
<1>7. CASE byte.c_state = "ST_STOP"
  BY <1>1, <1>3, <1>7, ByteSteps DEF Shifts, Loads, Finishes
<1> QED
  BY <1>1, <1>4, <1>5, <1>6, <1>7, Pairs

(* Without a command the byte controller rests.                            *)
LEMMA Rests ==
    ASSUME DacInv, NEW accessing \in BOOLEAN, Stepped(accessing), ~UnderWay, ~go
    PROVE  ByteGoes("ST_IDLE", "NOP") /\ ~byte'.cmd_ack /\ byte'.ack_out = byte.ack_out
<1>1. DacTypeOK /\ ByteEdge /\ byte.c_state = "ST_IDLE" /\ byte.core_cmd = "NOP"
  BY Pairs DEF DacInv, Stepped, UnderWay
<1>2. byte'.cmd_ack = Finishes /\ ~Finishes
  BY <1>1, ByteNext DEF Finishes
<1> QED
  BY <1>1, <1>2, ByteSteps DEF ByteGoes, UnderWay

(* The bit controller keeps its types, and its arbitration.                *)
LEMMA BitTyped ==
    ASSUME DacInv, NEW accessing \in BOOLEAN, Stepped(accessing)
    PROVE  BitOK'
<1>1. DacTypeOK /\ BitEdge(scl, sda) /\ BitOK /\ byte.core_txd \in Bit01 /\ bit.cnt \in Nat /\ top.prer \in Nat
  BY DEF DacInv, DacTypeOK, Stepped, BitOK, TopOK, ByteRegisters
<1>2. {0, 1} \subseteq Bit01 /\ scl \in Bit01 /\ sda \in Bit01
  BY <1>1, HealthyLines DEF Bit01
<1>3. bit'.cnt \in Nat /\ bit'.clk_en \in BOOLEAN
  <2>1. bit'.cnt = NextCnt /\ bit'.clk_en = Ticking
    BY <1>1, BitNext
  <2>2. NextCnt \in Nat
    BY <1>1 DEF NextCnt
  <2>3. Ticking \in BOOLEAN
    BY DEF Ticking
  <2> QED
    BY <2>1, <2>2, <2>3
<1>4. /\ {bit'.dscl_oen, bit'.sSCL, bit'.sSDA, bit'.dSCL, bit'.dSDA, bit'.dout} \subseteq Bit01
  BY <1>1, <1>2, BitNext DEF BitOK
<1>5. bit'.sto \in BOOLEAN /\ bit'.cmd_ack \in BOOLEAN
  BY <1>1, BitNext
<1>6. /\ bit'.c_state \in BitStates /\ {bit'.scl_oen, bit'.sda_oen} \subseteq Bit01 /\ bit'.sda_chk \in BOOLEAN
  <2>1. CASE ~Tock
    BY <1>1, <2>1, Still DEF BitOK
  <2>2. CASE Tock
    <3>1. byte.c_state \in {"ST_START", "ST_WRITE", "ST_ACK", "ST_STOP"}
      BY <2>2, Pairs DEF Tock, UnderWay
    <3>2. \E to \in BitStates, up, data \in Bit01, check \in BOOLEAN : Goes(bit.c_state, to, up, data, check)
      <4>1. /\ bit.scl_oen \in Bit01 /\ bit.sda_oen \in Bit01 /\ 0 \in Bit01 /\ 1 \in Bit01
        BY <1>1, <1>2 DEF BitOK
      <4>2. {"idle", "start_a", "start_b", "start_c", "start_d", "start_e", "wr_a", "wr_b", "wr_c", "wr_d", "rd_a",
             "rd_b", "rd_c", "rd_d", "stop_a", "stop_b", "stop_c", "stop_d"} \subseteq BitStates
        BY DEF BitStates, StartStates, StopStates, ReadStates, WriteStates
      <4>3. CASE byte.c_state = "ST_START"
        BY <2>2, <4>1, <4>2, <4>3, Moves DEF Goes
      <4>4. CASE byte.c_state = "ST_WRITE"
        BY <1>1, <2>2, <4>1, <4>2, <4>4, Moves DEF Goes
      <4>5. CASE byte.c_state = "ST_ACK"
        BY <2>2, <4>1, <4>2, <4>5, Moves DEF Goes
      <4>6. CASE byte.c_state = "ST_STOP"
        BY <2>2, <4>1, <4>2, <4>6, Moves DEF Goes
      <4> QED
        BY <3>1, <4>3, <4>4, <4>5, <4>6
    <3> QED
      BY <3>2 DEF Goes
  <2> QED
    BY <2>1, <2>2
<1> QED
  BY <1>3, <1>4, <1>5, <1>6, NothingLost DEF BitOK

(* The byte controller keeps its types.                                    *)
LEMMA ByteTyped ==
    ASSUME DacInv, NEW accessing \in BOOLEAN, Stepped(accessing)
    PROVE  byte' \in ByteRegisters
<1>1. /\ DacTypeOK /\ ByteEdge /\ byte \in ByteRegisters /\ bit.al = FALSE /\ bit.dout \in Bit01
      /\ top.txr \in Bytes8 /\ byte.sr \in Bytes8 /\ byte.dcnt \in 0..7
  BY DEF DacInv, DacTypeOK, Stepped, BitOK, TopOK, ByteRegisters
<1> DEFINE sr == IF byte.ld THEN top.txr ELSE IF byte.shift THEN Append(Tail(byte.sr), bit.dout) ELSE byte.sr
           dcnt == IF byte.ld THEN 7 ELSE IF byte.shift THEN (byte.dcnt - 1) % 8 ELSE byte.dcnt
           step == ByteStep   txd == NextTxd   shift == Shifts   ld == Loads   done == Finishes
<1>2. byte' = [step EXCEPT !.core_txd = txd, !.shift = shift, !.ld = ld, !.cmd_ack = done, !.sr = sr, !.dcnt = dcnt]
  BY <1>1 DEF ByteEdge
<1>3. step \in ByteRegisters
  <2>1. step \in {byte, Moved("ST_START", "START"), Moved("ST_WRITE", "WRITE"), Moved("ST_STOP", "STOP"),
                  Moved("ST_ACK", "READ"), Moved("ST_IDLE", "NOP"), [Moved("ST_STOP", "STOP") EXCEPT !.ack_out = bit.dout],
                  [Moved("ST_IDLE", "NOP") EXCEPT !.ack_out = bit.dout]}
    BY DEF ByteStep
  <2>2. /\ Moved("ST_START", "START") \in ByteRegisters /\ Moved("ST_WRITE", "WRITE") \in ByteRegisters
        /\ Moved("ST_STOP", "STOP") \in ByteRegisters /\ Moved("ST_ACK", "READ") \in ByteRegisters
        /\ Moved("ST_IDLE", "NOP") \in ByteRegisters
    BY <1>1 DEF Moved, ByteRegisters
  <2>3. \A m \in ByteRegisters : [m EXCEPT !.ack_out = bit.dout] \in ByteRegisters
    BY <1>1 DEF ByteRegisters
  <2> QED
    BY <1>1, <2>1, <2>2, <2>3
<1>4. sr \in Bytes8
  <2>1. Append(Tail(byte.sr), bit.dout) \in Bytes8
    <3> DEFINE r == byte.sr   b == bit.dout
    <3>1. r \in Seq(Bit01) /\ Len(r) = 8 /\ b \in Bit01
      BY <1>1 DEF Bytes8
    <3> HIDE DEF r, b
    <3>2. Tail(r) \in Seq(Bit01) /\ Len(Tail(r)) = 7
      BY <3>1
    <3>3. Append(Tail(r), b) \in Seq(Bit01) /\ Len(Append(Tail(r), b)) = 8
      BY <3>1, <3>2
    <3>4. Append(Tail(r), b) \in Bytes8
      BY <3>3 DEF Bytes8
    <3> QED
      BY <3>4 DEF r, b
  <2> QED
    BY <1>1, <2>1
<1>5. dcnt \in 0..7
  BY <1>1
<1>6. txd \in Bit01
  BY <1>1 DEF NextTxd, Bytes8, Bit01
<1>7. shift \in BOOLEAN /\ ld \in BOOLEAN /\ done \in BOOLEAN
  BY DEF Shifts, Loads, Finishes
<1> HIDE DEF sr, dcnt, step, txd, shift, ld, done
<1> QED
  BY <1>2, <1>3, <1>4, <1>5, <1>6, <1>7 DEF ByteRegisters

(* Every variable keeps its type.                                          *)
LEMMA DacTyped ==
    ASSUME DacInv, NEW accessing \in BOOLEAN, Stepped(accessing)
    PROVE  DacTypeOK'
<1>1. TopOK'
  <2>1. /\ top'.rxack = byte.ack_out /\ top'.tip = ("WR" \in top.cr) /\ byte.ack_out \in Bit01
    BY TopNext DEF DacInv, DacTypeOK, Stepped, ByteRegisters
  <2>2. top'.tip \in BOOLEAN /\ top'.rxack \in Bit01
    BY <2>1
  <2>3. top'.prer \in Nat /\ top'.core_en \in BOOLEAN /\ top'.txr \in Bytes8
    BY RegisteredKept
  <2>4. top'.al = FALSE
    BY NothingLost
  <2> QED
    BY <2>2, <2>3, <2>4 DEF TopOK
<1>2. slave' \in SlaveStates /\ shorted' = FALSE
  BY SlaveSees DEF Stepped
<1> QED
  BY <1>1, <1>2, BitTyped, ByteTyped, DriverTyped DEF DacTypeOK

(* What the CPU does in the meantime: it polls.                            *)
LEMMA Meanwhile ==
    ASSUME DacInv, NEW accessing \in BOOLEAN, Stepped(accessing), UnderWay \/ Starts
    PROVE  /\ driver'.request = driver.request /\ driver'.byte = driver.byte /\ driver'.op = "poll"
           /\ driver'.phase = 2 => driver'.sr.tip \/ ~UnderWay
           /\ returned' = returned /\ TheByte' = TheByte /\ ~Done
<1>1. CASE Starts
  BY <1>1, StartsOne, Going DEF Starts, DriverGoes, TheByte
<1>2. CASE UnderWay
  BY <1>2, Pairs, Polling DEF TheByte, Done
<1> QED
  BY <1>1, <1>2

(* The two controllers stay paired.                                        *)
LEMMA PairedKept ==
    ASSUME DacInv, NEW accessing \in BOOLEAN, Stepped(accessing)
    PROVE  Paired'
<1> DEFINE c == byte'.c_state   m == byte'.core_cmd   b == bit'.c_state   n == driver'.byte
<1>0. SUFFICES \/ c = "ST_IDLE" /\ m = "NOP" /\ b = "idle"
               \/ c = "ST_START" /\ m = "START" /\ b \in {"idle", "start_a", "start_b", "start_c", "start_d", "start_e"} /\ n = 1
               \/ c = "ST_WRITE" /\ m = "WRITE" /\ b \in {"idle", "wr_a", "wr_b", "wr_c", "wr_d"}
               \/ c = "ST_ACK" /\ m = "READ" /\ b \in {"idle", "rd_a", "rd_b", "rd_c", "rd_d"}
               \/ c = "ST_STOP" /\ m = "STOP" /\ b \in {"idle", "stop_a", "stop_b", "stop_c", "stop_d"} /\ n = 4
  BY DEF Paired, StartStates, StopStates, ReadStates, WriteStates
<1>1. CASE Starts
  <2>1. b = "idle"
    BY <1>1, Still, Pairs DEF Starts, Tock, UnderWay
  <2>2. n = driver.byte
    BY <1>1, Meanwhile
  <2> QED
    BY <1>1, <2>1, <2>2, StartsOne DEF ByteGoes
<1>2. CASE ~UnderWay /\ ~go
  <2>1. b = "idle"
    BY <1>2, Still, Pairs DEF Tock, UnderWay
  <2> QED
    BY <1>2, <2>1, Rests DEF ByteGoes
<1>3. CASE Acks
  <2>1. b = "idle" /\ UnderWay
    BY <1>3, Still, Pairs DEF Acks, Tock
  <2>2. n = driver.byte
    BY <2>1, Meanwhile
  <2> QED
    BY <1>3, <2>1, <2>2, Acked, Pairs DEF ByteGoes, UnderWay
<1>4. CASE UnderWay /\ ~bit.cmd_ack
  <2>1. c = byte.c_state /\ m = byte.core_cmd /\ n = driver.byte /\ c # "ST_IDLE"
    BY <1>4, Waits, Meanwhile DEF ByteGoes, UnderWay
  <2>2. CASE ~Tock
    BY <2>1, <2>2, Still, Pairs
  <2>3. CASE Tock
    <3>1. CASE c = "ST_START"
      BY <2>1, <2>3, <3>1, Moves, Pairs DEF Goes
    <3>2. CASE c = "ST_WRITE"
      BY <2>1, <2>3, <3>2, Moves, Pairs DEF Goes
    <3>3. CASE c = "ST_ACK"
      BY <2>1, <2>3, <3>3, Moves, Pairs DEF Goes
    <3>4. CASE c = "ST_STOP"
      BY <2>1, <2>3, <3>4, Moves, Pairs DEF Goes
    <3> QED
      BY <2>1, <3>1, <3>2, <3>3, <3>4, Pairs
  <2> QED
    BY <2>2, <2>3
<1> QED
  BY <1>1, <1>2, <1>3, <1>4 DEF Starts, Acks

(* A write of CR, and nothing else, gives the command; the end of a byte   *)
(* takes it back.                                                          *)
LEMMA NextCommand ==
    ASSUME DacInv, NEW accessing \in BOOLEAN, Stepped(accessing)
    PROVE  top'.cr = IF driver.op = "cr" /\ accessing THEN CommandOf(driver.byte)
                     ELSE IF byte.cmd_ack THEN {} ELSE top.cr
<1> DEFINE w == OnBus(accessing)
<1>1. DacTypeOK /\ TopEdge(w) /\ bit.al = FALSE /\ driver \in DriverStates
  BY DEF DacInv, Stepped, DacTypeOK, BitOK
<1>2. top'.cr = NextCr(w)
  BY <1>1, TopNext
<1>3. driver.byte \in 1..4 /\ driver.op \in Setup \cup {"txr", "cr", "poll", "ack"}
  BY <1>1 DEF DriverStates
<1>4. top.cr = {} \/ top.cr = CommandOf(driver.byte)
  BY DEF DacInv, Commanded
<1>5. top.cr \ {"IACK"} = top.cr /\ top.cr \ Commands = {}
  BY <1>3, <1>4, CommandsIn DEF Commands
<1>6. byte.cmd_ack => driver.op = "poll" /\ w = NoWrite
  <2>1. byte.cmd_ack => driver.op = "poll"
    BY DEF DacInv, Commanded
  <2> QED
    BY <2>1, Polling
<1>7. CASE ~accessing \/ driver.op \in Reads
  <2>1. w = NoWrite
    BY <1>7 DEF OnBus, Writes, Reads
  <2>2. top'.cr = (IF byte.cmd_ack THEN {} ELSE top.cr)
    BY <1>1, <1>2, <1>5, <2>1 DEF NextCr, NoWrite
  <2> QED
    BY <1>7, <2>2 DEF Reads
<1>8. CASE accessing /\ driver.op \in Writes
  <2>1. Access
    BY <1>8 DEF Stepped
  <2>2. Busy
    BY <1>1, <1>8, <2>1, DriverSteps DEF Writes
  <2>3. w = BusWrite /\ ~byte.cmd_ack
    BY <1>6, <1>8, <2>2 DEF OnBus, Writes
  <2>4. CASE driver.op = "cr"
    <3>1. w = Write("CR", CommandOf(driver.byte)) /\ top.core_en
      BY <2>3, <2>4 DEF BusWrite, DacInv, Registered, Setup
    <3>2. NextCr(w) = CommandOf(driver.byte)
      BY <3>1 DEF NextCr, Write
    <3> QED
      BY <1>2, <1>8, <2>4, <3>2
  <2>5. CASE driver.op = "iack"
    <3>1. w = Write("CR", {"IACK"}) /\ top.core_en = FALSE
      BY <1>1, <2>3, <2>5 DEF BusWrite, DacInv, Registered, Setup, DacTypeOK, TopOK
    <3> QED
      BY <1>2, <2>3, <2>5, <3>1 DEF NextCr, Write
  <2>6. CASE driver.op \in {"off", "prerlo", "prerhi", "on", "txr"}
    <3>1. w.adr \in {"CTR", "PRERLO", "PRERHI", "TXR"}
      BY <2>3, <2>6 DEF BusWrite, Write
    <3> QED
      BY <1>2, <2>3, <2>6, <3>1 DEF NextCr
  <2> QED
    BY <1>8, <2>4, <2>5, <2>6 DEF Writes
<1> QED
  BY <1>3, <1>7, <1>8 DEF Reads, Writes, Setup

(* CR holds the command until the byte is done, and TIP covers it.         *)
LEMMA CommandedKept ==
    ASSUME DacInv, NEW accessing \in BOOLEAN, Stepped(accessing)
    PROVE  Commanded'
<1> DEFINE given == UnderWay' \/ byte'.cmd_ack \/ (driver'.op = "cr" /\ driver'.phase = 2)
<1>0. /\ DacTypeOK /\ driver \in DriverStates
      /\ driver.byte \in 1..4 /\ driver.op \in Setup \cup {"txr", "cr", "poll", "ack"} /\ driver.phase \in {1, 2}
  BY DEF DacInv, DacTypeOK, DriverStates
<1>1. /\ top'.tip = ("WR" \in top.cr)
  BY TopNext DEF DacInv, Stepped
<1>2. CASE UnderWay
  <2>1. /\ driver'.op = "poll" /\ driver'.byte = driver.byte /\ driver.op = "poll" /\ ~byte.cmd_ack
        /\ driver'.phase = 2 => driver'.sr.tip
    BY <1>2, Meanwhile, Pairs DEF DacInv, Commanded
  <2>2. top.cr = CommandOf(driver.byte) /\ top'.cr = top.cr
    BY <1>2, <2>1, NextCommand DEF DacInv, Commanded
  <2>3. top'.tip
    BY <1>0, <1>1, <2>2, CommandsIn
  <2>4. UnderWay' \/ byte'.cmd_ack
    <3>1. CASE ~bit.cmd_ack
      BY <1>2, <3>1, Waits DEF ByteGoes, UnderWay
    <3>2. CASE bit.cmd_ack
      BY <1>2, <3>2, Acked, Pairs DEF Acks, ByteGoes, UnderWay
    <3> QED
      BY <3>1, <3>2
  <2>5. byte'.cmd_ack => ~UnderWay'
    <3>1. CASE ~bit.cmd_ack
      BY <1>2, <3>1, Waits
    <3>2. CASE bit.cmd_ack
      BY <1>2, <3>2, Acked, Pairs DEF Acks, ByteGoes, UnderWay
    <3> QED
      BY <3>1, <3>2
  <2> QED
    BY <2>1, <2>2, <2>3, <2>4, <2>5 DEF Commanded
<1>3. CASE Starts
  <2>1. /\ driver'.op = "poll" /\ driver'.byte = driver.byte /\ driver'.phase = 1 /\ ~byte'.cmd_ack
    BY <1>3, StartsOne DEF DriverGoes
  <2>2. UnderWay'
    BY <1>3, StartsOne DEF ByteGoes, UnderWay
  <2>3. top.cr = CommandOf(driver.byte) /\ driver.op = "cr" /\ ~byte.cmd_ack
    BY <1>3, Going DEF Starts
  <2>4. top'.cr = CommandOf(driver.byte)
    BY <2>3, NextCommand
  <2>5. top'.tip
    BY <1>0, <1>1, <2>3, CommandsIn
  <2> QED
    BY <2>1, <2>2, <2>4, <2>5 DEF Commanded
<1>4. CASE ~UnderWay /\ ~go
  <2>1. ~UnderWay' /\ ~byte'.cmd_ack
    BY <1>4, Rests DEF ByteGoes, UnderWay
  <2>2. ~(driver.op = "cr" /\ driver.phase = 2)
    <3>1. SUFFICES ASSUME driver.op = "cr", driver.phase = 2 PROVE FALSE
      OBVIOUS
    <3>2. top.cr = CommandOf(driver.byte) /\ ~byte.cmd_ack
      BY <3>1 DEF DacInv, Commanded
    <3> QED
      BY <1>0, <1>4, <3>2, CommandsIn DEF go
  <2>3. byte.cmd_ack \/ top.cr = {}
    BY <1>4, <2>2 DEF DacInv, Commanded
  <2>4. driver'.op = "cr" /\ driver'.phase = 2 <=> driver.op = "cr" /\ accessing
    <3>1. CASE NoAccess /\ ~accessing
      BY <2>2, <3>1 DEF NoAccess
    <3>2. CASE Access /\ accessing
      <4>1. CASE driver.op \in Writes
        <5>1. \/ driver.phase = 1 /\ DriverGoes(driver.op, 2, driver.request, driver.byte, driver.sr)
              \/ driver.phase = 2 /\ DriverGoes(AfterWrite, 1, driver.request, driver.byte, driver.sr)
          BY <1>0, <3>2, <4>1, DriverSteps DEF Writes, Reads
        <5> QED
          BY <2>2, <3>2, <5>1 DEF DriverGoes
      <4>2. CASE driver.op = "poll"
        BY <4>2, Polling
      <4>3. CASE driver.op = "ack"
        BY <1>0, <3>2, <4>3, DriverSteps DEF Writes, Reads, DriverGoes
      <4> QED
        BY <1>0, <4>1, <4>2, <4>3 DEF Writes, Setup
    <3> QED
      BY <3>1, <3>2 DEF Stepped
  <2>5. driver.op = "cr" => driver'.byte = driver.byte
    <3>1. CASE NoAccess
      BY <3>1 DEF NoAccess
    <3>2. CASE Access
      BY <1>0, <3>2, DriverSteps DEF Writes, Reads, DriverGoes
    <3> QED
      BY <3>1, <3>2 DEF Stepped
  <2>6. top'.cr = IF driver'.op = "cr" /\ driver'.phase = 2 THEN CommandOf(driver'.byte) ELSE {}
    BY <2>3, <2>4, <2>5, NextCommand
  <2> QED
    BY <2>1, <2>6 DEF Commanded
<1> QED
  BY <1>2, <1>3, <1>4 DEF Starts

(* The byte under way is the one in TXR, and one that was asked for.       *)
LEMMA ByteWritten ==
    ASSUME DacInv, UnderWay
    PROVE  /\ TheByte \in Bytes8 /\ \A i \in 1..8 : TheByte[i] \in Bit01
           /\ driver.request \in 1..Len(Requests) /\ driver.byte \in 1..4 /\ Len(Requests) \in Nat /\ top.txr = TheByte
<1>1. driver.op = "poll" /\ driver.request \in Nat \ {0} /\ driver.byte \in 1..4
  BY Pairs DEF DacInv, DacTypeOK, DriverStates
<1>2. Busy /\ top.txr = TheByte
  BY <1>1 DEF DacInv, Registered
<1>3. Len(Requests) \in Nat
  BY DacAssumption DEF DacAssumption
<1>4. driver.request \in 1..Len(Requests)
  BY <1>1, <1>2, <1>3 DEF Busy
<1> QED
  BY <1>1, <1>2, <1>3, <1>4, BytesOfRequests DEF TheByte

(* The bits still to be sent, as the shift register and its counter move.  *)
LEMMA ShiftRegister ==
    ASSUME DacInv, byte.c_state = "ST_WRITE"
    PROVE  /\ byte.sr \in Seq(Bit01) /\ Len(byte.sr) = 8 /\ byte.dcnt \in 0..7 /\ byte.ld \in BOOLEAN /\ byte.shift \in BOOLEAN
           /\ Sent \in 0..8 /\ (bit.c_state \in WriteStates \/ bit.cmd_ack => Sent \in 0..7 /\ Sent = 7 - byte.dcnt)
           /\ bit.c_state \in WriteStates \/ bit.cmd_ack => byte.sr[1] = TheByte[Sent + 1]
<1>1. byte.sr \in Seq(Bit01) /\ Len(byte.sr) = 8 /\ byte.dcnt \in 0..7 /\ byte.ld \in BOOLEAN /\ byte.shift \in BOOLEAN
  BY DEF DacInv, DacTypeOK, ByteRegisters, Bytes8
<1>2. Sent \in 0..8
  BY <1>1 DEF Sent
<1>3. ASSUME bit.c_state \in WriteStates \/ bit.cmd_ack
      PROVE  Sent \in 0..7 /\ Sent = 7 - byte.dcnt /\ byte.sr[1] = TheByte[Sent + 1]
  <2>1. ~byte.ld /\ ~byte.shift
    BY <1>3 DEF DacInv, Shifting
  <2>2. Sent = 7 - byte.dcnt /\ ToSend(1) = byte.sr[1]
    BY <2>1 DEF Sent, ToSend
  <2>3. Sent \in 0..7 /\ 1 \in 1..(8 - Sent)
    BY <1>1, <2>2
  <2>4. \A i \in 1..(8 - Sent) : ToSend(i) = TheByte[Sent + i]
    BY <2>1 DEF DacInv, Shifting
  <2> QED
    BY <2>2, <2>3, <2>4
<1> QED
  BY <1>1, <1>2, <1>3

(* The tail of eight elements, place by place.                             *)
LEMMA Tailed ==
    ASSUME NEW S, NEW r \in Seq(S), Len(r) = 8
    PROVE  Tail(r) \in Seq(S) /\ Len(Tail(r)) = 7 /\ \A i \in 1..7 : Tail(r)[i] = r[i + 1]
<1>1. r # <<>>
  OBVIOUS
<1>2. Tail(r) \in Seq(S)
  BY <1>1
<1>3. Len(Tail(r)) = 7
  BY <1>1
<1>4. \A i \in 1..Len(Tail(r)) : Tail(r)[i] = r[i + 1]
  BY <1>1, HeadTailProperties, Zenon
<1> QED
  BY <1>2, <1>3, <1>4, Zenon

(* One more element leaves those before it in place.                       *)
LEMMA Appended ==
    ASSUME NEW S, NEW t \in Seq(S), NEW b \in S
    PROVE  Append(t, b) \in Seq(S) /\ Len(Append(t, b)) = Len(t) + 1 /\ \A i \in 1..Len(t) : Append(t, b)[i] = t[i]
<1>1. Append(t, b) \in Seq(S)
  OBVIOUS
<1>2. Len(Append(t, b)) = Len(t) + 1
  OBVIOUS
<1>3. \A i \in 1..Len(t) : Append(t, b)[i] = t[i]
  OBVIOUS
<1> QED
  BY <1>1, <1>2, <1>3

(* A register shifted by one place, with any element behind it.            *)
LEMMA Rotated ==
    ASSUME NEW S, NEW r \in Seq(S), Len(r) = 8
    PROVE  \A b \in S : /\ Append(Tail(r), b) \in Seq(S) /\ Len(Append(Tail(r), b)) = 8
                        /\ \A i \in 1..7 : Append(Tail(r), b)[i] = r[i + 1]
<1> DEFINE t == Tail(r)
<1>1. t \in Seq(S) /\ Len(t) = 7 /\ \A i \in 1..7 : t[i] = r[i + 1]
  BY Tailed, Zenon
<1> HIDE DEF t
<1>2. \A b \in S : Append(t, b) \in Seq(S) /\ Len(Append(t, b)) = Len(t) + 1
                   /\ \A i \in 1..Len(t) : Append(t, b)[i] = t[i]
  BY <1>1, Appended, Zenon
<1>3. Len(t) + 1 = 8
  BY <1>1
<1>4. \A b \in S : Append(t, b) \in Seq(S) /\ Len(Append(t, b)) = 8
                   /\ \A i \in 1..7 : Append(t, b)[i] = t[i]
  BY <1>1, <1>2, <1>3, Zenon
<1> QED
  BY <1>1, <1>4, Zenon DEF t
(* The bit counter does not wrap above zero.                               *)
LEMMA CountedDown ==
    ASSUME NEW d \in 1..7
    PROVE  (d - 1) % 8 = d - 1
  OBVIOUS

(* The shift register holds the rest of the byte, and a bit counts as sent *)
(* when the bit controller is done with it.                                *)
LEMMA ShiftingKept ==
    ASSUME DacInv, NEW accessing \in BOOLEAN, Stepped(accessing)
    PROVE  Shifting' /\ (byte.c_state = "ST_WRITE" /\ ~bit.cmd_ack => Sent' = Sent)
                     /\ (byte.c_state = "ST_WRITE" /\ bit.cmd_ack /\ byte.dcnt # 0 => Sent' = Sent + 1)
<1>1. DacTypeOK /\ ByteEdge
  BY DEF DacInv, Stepped
<1>2. /\ byte'.sr = (IF byte.ld THEN top.txr ELSE IF byte.shift THEN Append(Tail(byte.sr), bit.dout) ELSE byte.sr)
      /\ byte'.dcnt = (IF byte.ld THEN 7 ELSE IF byte.shift THEN (byte.dcnt - 1) % 8 ELSE byte.dcnt)
      /\ byte'.core_txd = NextTxd
  BY <1>1, ByteNext
<1>3. CASE byte.c_state = "ST_WRITE" /\ ~bit.cmd_ack
  <2>1. UnderWay /\ ~byte'.ld /\ ~byte'.shift /\ byte'.core_txd = byte.sr[1] /\ TheByte' = TheByte
    BY <1>2, <1>3, Waits, Meanwhile DEF UnderWay, NextTxd
  <2> DEFINE r == byte.sr   d == byte.dcnt   t == TheByte   s == byte'.sr   e == byte'.dcnt   b == bit.dout   n == Sent
  <2>2. /\ r \in Seq(Bit01) /\ Len(r) = 8 /\ d \in 0..7 /\ t \in Bytes8 /\ n \in 0..8
        /\ byte.ld \in BOOLEAN /\ byte.shift \in BOOLEAN
    BY <1>3, <2>1, ShiftRegister, ByteWritten
  <2>3. /\ e = 7 - n /\ \A i \in 1..(8 - n) : s[i] = t[n + i]
    <3>1. CASE byte.ld
      <4>1. s = t /\ e = 7 /\ n = 0
        BY <1>2, <2>1, <3>1, ByteWritten DEF Sent
      <4> HIDE DEF s, t, e, n
      <4> QED
        BY <4>1
    <3>2. CASE ~byte.ld /\ byte.shift
      <4>1. /\ d > 0 /\ n = 8 - d /\ \A i \in 1..(8 - n) : r[i + 1] = t[n + i]
        BY <1>3, <3>2 DEF DacInv, Shifting, Sent, ToSend
      <4>2. s = Append(Tail(r), b) /\ e = (d - 1) % 8
        BY <1>2, <3>2
      <4>5. b \in Bit01 /\ r \in Seq(Bit01) /\ Len(r) = 8 /\ d \in 1..7
        BY <2>2, <4>1 DEF DacInv, DacTypeOK, BitOK
      <4>3. e = d - 1
        BY <4>2, <4>5, CountedDown
      <4>6. n = 8 - d /\ \A i \in 1..(8 - n) : r[i + 1] = t[n + i]
        BY <4>1
      <4> HIDE DEF s, t, e, n, r, d, b
      <4>11. \A i \in 1..7 : Append(Tail(r), b)[i] = r[i + 1]
        BY <4>5, Rotated
      <4>12. s = Append(Tail(r), b)
        BY <4>2
      <4>4. \A i \in 1..7 : s[i] = r[i + 1]
        BY <4>11, <4>12, Zenon
      <4>7. 8 - n = d
        BY <4>5, <4>6
      <4>8. \A i \in 1..d : i \in 1..7 /\ r[i + 1] = t[n + i]
        BY <4>5, <4>6, <4>7
      <4>9. \A i \in 1..(8 - n) : s[i] = t[n + i]
        BY <4>4, <4>7, <4>8
      <4>10. e = 7 - n
        BY <4>3, <4>5, <4>6
      <4> QED
        BY <4>9, <4>10
    <3>3. CASE ~byte.ld /\ ~byte.shift
      <4>1. /\ n = 7 - d /\ \A i \in 1..(8 - n) : r[i] = t[n + i]
        BY <1>3, <3>3 DEF DacInv, Shifting, Sent, ToSend
      <4>2. s = r /\ e = d
        BY <1>2, <3>3
      <4> HIDE DEF s, t, e, n, r, d
      <4> QED
        BY <2>2, <4>1, <4>2
    <3> QED
      BY <3>1, <3>2, <3>3
  <2>4. Sent' = n
    <3>1. Sent' = 7 - e
      BY <2>1 DEF Sent
    <3> HIDE DEF e, n
    <3> QED
      BY <2>2, <2>3, <3>1
  <2>5. \A i \in 1..(8 - Sent') : ToSend(i)' = TheByte'[Sent' + i]
    <3>1. \A i : ToSend(i)' = s[i]
      BY <2>1 DEF ToSend
    <3> QED
      BY <2>1, <2>3, <2>4, <3>1
  <2>6. (bit'.c_state = "wr_a" /\ bit'.clk_en) \/ bit'.c_state \in {"wr_b", "wr_c", "wr_d"}
          => byte'.core_txd = TheByte'[Sent' + 1]
    <3>1. SUFFICES ASSUME (bit'.c_state = "wr_a" /\ bit'.clk_en) \/ bit'.c_state \in {"wr_b", "wr_c", "wr_d"}
                   PROVE  bit.c_state \in WriteStates
      BY <1>3, <2>1, <2>4, ShiftRegister
    <3>2. CASE Tock
      BY <1>3, <3>1, <3>2, Moves DEF Goes, WriteStates
    <3>3. CASE ~Tock
      BY <3>1, <3>3, Still DEF WriteStates
    <3> QED
      BY <3>2, <3>3
  <2> QED
    BY <1>3, <2>1, <2>4, <2>5, <2>6 DEF Shifting
<1>4. ASSUME ~(byte.c_state = "ST_WRITE" /\ ~bit.cmd_ack), byte'.c_state = "ST_WRITE"
      PROVE  Shifting' /\ (byte.c_state = "ST_WRITE" => Sent' = Sent + 1)
  <2>1. Starts \/ Acks
    BY <1>4, Rests, Waits DEF Starts, Acks, ByteGoes
  <2>2. bit'.c_state = "idle" /\ ~bit'.cmd_ack
    <3>1. ~Tock
      BY <2>1, Pairs DEF Starts, Acks, Tock
    <3> QED
      BY <2>1, <3>1, Still, Pairs DEF Starts, Acks, UnderWay
  <2>3. CASE byte'.ld
    BY <1>4, <2>1, <2>2, <2>3, Acked DEF Shifting, WriteStates, Acks, Starts, UnderWay
  <2>4. CASE ~byte'.ld
    <3>1. Acks
      BY <2>1, <2>4, StartsOne
    <3>2. byte.c_state \in {"ST_START", "ST_WRITE", "ST_ACK", "ST_STOP"} /\ bit.cmd_ack
      BY <3>1, Pairs DEF Acks, UnderWay
    <3>3. byte.c_state = "ST_WRITE"
      BY <1>4, <2>4, <3>1, <3>2, Acked DEF ByteGoes
    <3>4. byte.dcnt # 0 /\ byte'.shift
      BY <1>4, <3>1, <3>3, Acked DEF ByteGoes
    <3>5. ~byte.ld /\ ~byte.shift /\ byte'.sr = byte.sr /\ byte'.dcnt = byte.dcnt /\ byte.dcnt \in 0..7
      BY <1>2, <3>2, <3>3, ShiftRegister DEF DacInv, Shifting
    <3>6. TheByte' = TheByte
      BY <3>1, Meanwhile DEF Acks
    <3> DEFINE r == byte.sr   d == byte.dcnt   t == TheByte
    <3>7. \A i \in 1..(d + 1) : r[i] = t[7 - d + i]
      <4>1. \A i \in 1..(8 - (7 - d)) : r[i] = t[7 - d + i]
        BY <3>3, <3>5 DEF DacInv, Shifting, Sent, ToSend
      <4> HIDE DEF d, r, t
      <4>2. 8 - (7 - d) = d + 1
        BY <3>5 DEF d
      <4> QED
        BY <4>1, <4>2
    <3>8. Sent = 7 - d /\ Sent' = 8 - d
      BY <2>4, <3>4, <3>5 DEF Sent
    <3>9. \A i \in 1..(8 - Sent') : ToSend(i)' = TheByte'[Sent' + i]
      <4>1. \A i : ToSend(i)' = r[i + 1]
        BY <3>4, <3>5 DEF ToSend
      <4>2. d \in 1..7 /\ TheByte' = t
        BY <3>4, <3>5, <3>6
      <4> DEFINE m == Sent'
      <4>3. m = 8 - d
        BY <3>8
      <4> HIDE DEF d, r, t, m
      <4>4. \A i \in 1..(8 - m) : r[i + 1] = t[m + i]
        BY <3>7, <4>2, <4>3
      <4> QED
        BY <4>1, <4>2, <4>4 DEF m
    <3>10. byte'.dcnt > 0
      BY <3>4, <3>5
    <3>11. Sent' = Sent + 1
      BY <3>5, <3>8
    <3> QED
      BY <2>2, <3>9, <3>10, <3>11 DEF Shifting, WriteStates
  <2> QED
    BY <2>3, <2>4
<1>5. byte.c_state = "ST_WRITE" /\ bit.cmd_ack /\ byte.dcnt # 0 => byte'.c_state = "ST_WRITE"
  BY Acked DEF Acks, UnderWay, ByteGoes
<1>6. byte'.c_state # "ST_WRITE" => Shifting'
  BY DEF Shifting
<1> QED
  BY <1>3, <1>4, <1>5, <1>6

(***************************************************************************)
(* Between two bytes the bus rests while the CPU goes on.                  *)
(***************************************************************************)
Returns ==
    /\ driver.op = "ack" /\ driver.phase = 2 /\ returned' = Append(returned, driver.sr.rxack)
    /\ driver'.op = "txr" /\ driver'.phase = 1
    /\ IF driver.byte < 4 THEN driver'.request = driver.request /\ driver'.byte = driver.byte + 1
       ELSE driver'.request = driver.request + 1 /\ driver'.byte = 1

Proceeds ==
    /\ returned' = returned /\ driver'.request = driver.request /\ driver'.byte = driver.byte
    /\ driver'.op \in Reads <=> driver.op \in Reads
    /\ driver'.op = "ack" => ~byte.cmd_ack
    /\ driver'.op = "ack" /\ driver'.phase = 2 =>
          driver.op = "ack" /\ driver'.sr.rxack = (IF driver.phase = 2 THEN driver.sr.rxack ELSE top.rxack)

(* Between two bytes the slave sees nothing and the lines stay, whether the *)
(* driver returns from a byte or goes on to the next.                      *)
LEMMA RestingSteps ==
    ASSUME DacInv, NEW accessing \in BOOLEAN, Stepped(accessing), ~UnderWay, ~go
    PROVE  /\ SlaveKept /\ ~UnderWay' /\ bit'.scl_oen = bit.scl_oen /\ bit'.sda_oen = bit.sda_oen
           /\ Returns \/ Proceeds
<1>1. ~UnderWay'
  BY Rests DEF ByteGoes, UnderWay
<1>2. bit'.scl_oen = bit.scl_oen /\ bit'.sda_oen = bit.sda_oen
  BY Still DEF Tock
<1>3. SlaveKept
  <2>1. byte.c_state = "ST_IDLE" /\ bit.c_state = "idle"
    BY Pairs DEF UnderWay
  <2> QED
    BY <2>1, Sees, SlaveSees
<1>4. /\ driver.op \in Writes \cup Reads /\ driver.phase \in {1, 2} /\ driver.byte \in 1..4 /\ DacTypeOK
      /\ driver.op = "ack" => ~byte.cmd_ack
  BY DEF DacInv, DacTypeOK, DriverStates, Writes, Reads, Setup, Acknowledged
<1>7. SUFFICES Returns \/ Proceeds
  BY <1>1, <1>2, <1>3
<1>5. CASE NoAccess
  BY <1>4, <1>5 DEF NoAccess, Proceeds, Reads
<1>6. CASE Access
  <2>1. CASE driver.op \in Writes
    <3>1. ~(driver.op = "cr" /\ driver.phase = 2)
      <4>1. SUFFICES ASSUME driver.op = "cr", driver.phase = 2 PROVE FALSE
        OBVIOUS
      <4>2. top.cr = CommandOf(driver.byte) /\ ~byte.cmd_ack
        BY <4>1 DEF DacInv, Commanded
      <4> QED
        BY <1>4, <4>2, CommandsIn DEF go
    <3>2. /\ returned' = returned
          /\ \/ driver.phase = 1 /\ DriverGoes(driver.op, 2, driver.request, driver.byte, driver.sr)
             \/ driver.phase = 2 /\ DriverGoes(AfterWrite, 1, driver.request, driver.byte, driver.sr)
      BY <1>4, <1>6, <2>1, DriverSteps DEF Writes, Reads
    <3>3. driver.phase = 2 => AfterWrite \in Writes
      BY <2>1, <3>1 DEF AfterWrite, Writes
    <3> QED
      BY <2>1, <3>2, <3>3 DEF DriverGoes, Proceeds, Reads, Writes
  <2>2. CASE driver.op = "poll"
    <3>1. /\ driver'.op \in {"poll", "ack"} /\ returned' = returned
          /\ driver'.request = driver.request /\ driver'.byte = driver.byte
          /\ driver'.op = "ack" => driver'.phase = 1 /\ ~byte.cmd_ack
      BY <2>2, Polling
    <3> QED
      BY <2>2, <3>1 DEF Proceeds, Reads
  <2>3. CASE driver.op = "ack"
    <3>1. \/ driver.phase = 1 /\ DriverGoes("ack", 2, driver.request, driver.byte, Status) /\ returned' = returned
          \/ /\ driver.phase = 2 /\ returned' = Append(returned, driver.sr.rxack)
             /\ IF driver.byte < 4 THEN DriverGoes("txr", 1, driver.request, driver.byte + 1, driver.sr)
                ELSE DriverGoes("txr", 1, driver.request + 1, 1, driver.sr)
      BY <1>4, <1>6, <2>3, DriverSteps DEF Writes, Reads
    <3>2. CASE driver.phase = 1
      BY <1>4, <2>3, <3>1, <3>2 DEF DriverGoes, Proceeds, Reads, Status
    <3>3. CASE driver.phase = 2
      BY <2>3, <3>1, <3>3 DEF DriverGoes, Returns
    <3> QED
      BY <1>4, <3>2, <3>3
  <2> QED
    BY <1>4, <2>1, <2>2, <2>3 DEF Reads
<1> QED
  BY <1>5, <1>6 DEF Stepped

(* A byte ends where its command is done: READ, or STOP for the last one.  *)
LEMMA Ends ==
    ASSUME DacInv, NEW accessing \in BOOLEAN, Stepped(accessing), UnderWay, ~UnderWay'
    PROVE  /\ bit.cmd_ack /\ byte'.cmd_ack /\ Done' /\ driver'.byte = driver.byte /\ driver'.request = driver.request
           /\ \/ byte.c_state = "ST_ACK" /\ driver.byte \in 1..3
              \/ byte.c_state = "ST_STOP" /\ driver.byte = 4
           /\ bit'.scl_oen = bit.scl_oen /\ bit'.sda_oen = bit.sda_oen
<1>1. bit.cmd_ack
  BY Waits DEF ByteGoes, UnderWay
<1>2. driver'.op = "poll" /\ driver'.byte = driver.byte /\ driver'.request = driver.request
  BY Meanwhile
<1>3. driver.byte \in 1..4
  BY DEF DacInv, DacTypeOK, DriverStates
<1>4. \/ byte.c_state = "ST_ACK" /\ driver.byte # 4 /\ byte'.cmd_ack
      \/ byte.c_state = "ST_STOP" /\ driver.byte = 4 /\ byte'.cmd_ack
  BY <1>1, Acked, Pairs DEF Acks, ByteGoes, UnderWay
<1>5. bit'.scl_oen = bit.scl_oen /\ bit'.sda_oen = bit.sda_oen
  BY <1>1, Still, Pairs DEF Tock
<1> QED
  BY <1>1, <1>2, <1>3, <1>4, <1>5 DEF Done

(* The bus rests after a byte and until the next.                          *)
LEMMA RestingKept ==
    ASSUME DacInv, NEW accessing \in BOOLEAN, Stepped(accessing)
    PROVE  Resting'
<1>1. SUFFICES ASSUME ~UnderWay' PROVE Resting'
  BY DEF Resting
<1>2. slave'.scl = scl /\ slave'.sda = sda /\ driver.byte \in 1..4
  BY SlaveSees DEF DacInv, DacTypeOK, DriverStates
<1> DEFINE done == IF Done THEN driver.byte ELSE driver.byte - 1
           next == IF Done' THEN driver'.byte ELSE driver'.byte - 1
<1>3. CASE ~UnderWay
  <2>1. ~go
    BY <1>1, <1>3, StartsOne DEF Starts, ByteGoes, UnderWay
  <2>2. /\ SlaveKept /\ bit'.scl_oen = bit.scl_oen /\ bit'.sda_oen = bit.sda_oen
        /\ Returns \/ Proceeds
    BY <1>3, <2>1, RestingSteps
  <2>3. done \in 0..4 /\ IF done \in {0, 4} THEN Free ELSE Low /\ bit.sda_oen = 1 /\ Listening /\ Has(done) /\ Got(0)
    BY <1>2, <1>3 DEF DacInv, Resting
  <2>4. \/ next = done /\ driver'.request = driver.request
        \/ next = 0 /\ done = 4
    <3>1. CASE Returns
      <4>1. done = driver.byte
        BY <1>3, <3>1 DEF Returns, Done
      <4>2. next = driver'.byte - 1
        BY <3>1 DEF Returns, Done
      <4> QED
        BY <1>2, <3>1, <4>1, <4>2 DEF Returns
    <3>2. CASE Proceeds
      BY <1>1, <1>3, <3>2 DEF Proceeds, Done, Reads
    <3> QED
      BY <2>2, <3>1, <3>2
  <2>5. CASE done \in {0, 4}
    <3>1. Free /\ next \in {0, 4}
      BY <2>3, <2>4, <2>5
    <3>2. scl = 1 /\ sda = 1
      BY <3>1, BusTyped DEF Free, Listening
    <3>3. Free'
      BY <1>2, <2>2, <3>1, <3>2 DEF Free, Listening, SlaveKept, SlaveHas
    <3> QED
      BY <3>1, <3>3 DEF Resting
  <2>6. CASE done \notin {0, 4}
    <3>0. PICK n \in 1..3 : n = done
      BY <2>3, <2>6
    <3>1. next = n /\ driver'.request = driver.request /\ Low /\ bit.sda_oen = 1 /\ Listening /\ Has(n) /\ Got(0)
      BY <2>3, <2>4, <2>6, <3>0
    <3>2. scl = 0
      BY <3>1, BusTyped DEF Low
    <3>3. Low' /\ bit'.sda_oen = 1 /\ Listening'
      BY <1>2, <2>2, <3>1, <3>2 DEF Low, Listening, SlaveKept, SlaveHas
    <3>4. Has(n)' /\ Got(0)'
      <4> HIDE DEF next, done
      <4> QED
        BY <2>2, <3>1 DEF Has, Got, SlaveKept, SlaveHas
    <3>5. n \notin {0, 4}
      BY <3>0
    <3> QED
      BY <3>1, <3>3, <3>4, <3>5 DEF Resting
  <2> QED
    BY <2>5, <2>6
<1>4. CASE UnderWay
  <2>1. /\ bit.cmd_ack /\ Done' /\ driver'.byte = driver.byte /\ driver'.request = driver.request
        /\ \/ byte.c_state = "ST_ACK" /\ driver.byte \in 1..3
           \/ byte.c_state = "ST_STOP" /\ driver.byte = 4
        /\ bit'.scl_oen = bit.scl_oen /\ bit'.sda_oen = bit.sda_oen /\ bit.c_state = "idle"
    BY <1>1, <1>4, Ends, Pairs
  <2>2. CASE byte.c_state = "ST_ACK"
    <3>1. /\ slave.answering /\ Has(driver.byte) /\ Got(0)
          /\ bit.scl_oen = 0 /\ bit.sda_oen = 1 /\ slave.scl = 1
      BY <2>1, <2>2 DEF DacInv, Answered
    <3>2. scl = 0 /\ SeesAnswer
      BY <3>1, BusTyped DEF SeesAnswer, Has
    <3>3. SlaveHas(slave.active, slave.bits, FALSE, 1, slave.frame, slave.frames, slave.acks)
      BY <3>2, SlaveSees
    <3>4. Low' /\ bit'.sda_oen = 1 /\ Listening' /\ Has(driver.byte)' /\ Got(0)'
      BY <1>2, <2>1, <3>1, <3>2, <3>3 DEF Low, Listening, Has, Got, SlaveHas
    <3> QED
      BY <2>1, <2>2, <3>4 DEF Resting
  <2>3. CASE byte.c_state = "ST_STOP"
    <3>1. /\ Listening /\ Has(4)
          /\ bit.scl_oen = 1 /\ bit.sda_oen = 1 /\ slave.scl = 1 /\ slave.sda = 0
      BY <2>1, <2>3 DEF DacInv, Stopping
    <3>2. scl = 1 /\ sda = 1 /\ SeesStop
      BY <3>1, BusTyped DEF SeesStop, Has, Listening
    <3>3. SlaveHas(FALSE, slave.bits, slave.answering, 1, slave.frame, Append(slave.frames, slave.frame), slave.acks)
      BY <3>2, SlaveSees
    <3>4. Free'
      BY <1>2, <2>1, <3>1, <3>2, <3>3 DEF Free, Listening, SlaveHas
    <3> QED
      BY <2>1, <2>3, <3>4 DEF Resting
  <2> QED
    BY <2>1, <2>2, <2>3
<1> QED
  BY <1>3, <1>4

(***************************************************************************)
(* START.                                                                  *)
(***************************************************************************)
(* The START condition reaches the slave, once.                            *)
LEMMA StartingKept ==
    ASSUME DacInv, NEW accessing \in BOOLEAN, Stepped(accessing)
    PROVE  Starting'
<1>1. SUFFICES ASSUME byte'.c_state = "ST_START" PROVE Starting'
  BY DEF Starting
<1>2. slave'.scl = scl /\ slave'.sda = sda
  BY SlaveSees
<1>3. CASE Starts
  <2>1. driver.byte = 1 /\ Free
    <3>1. driver.byte = 1
      BY <1>1, <1>3, StartsOne DEF ByteGoes
    <3> QED
      BY <1>3, <3>1, Meanwhile DEF Starts, DacInv, Resting
  <2>2. SlaveKept /\ bit.c_state = "idle"
    BY <1>3, Sees, SlaveSees, Pairs DEF Starts, UnderWay
  <2>3. bit'.c_state = "idle" /\ bit'.scl_oen = bit.scl_oen /\ bit'.sda_oen = bit.sda_oen /\ ~bit'.cmd_ack
    BY <1>3, <2>2, Still DEF Starts, Tock
  <2>4. scl = 1 /\ sda = 1
    BY <2>1, BusTyped DEF Free, Listening
  <2>5. Free'
    BY <1>2, <2>1, <2>2, <2>3, <2>4 DEF Free, Listening, SlaveKept, SlaveHas
  <2> QED
    BY <2>3, <2>5 DEF Starting, Free
<1>4. CASE ~Starts
  <2>1. byte.c_state = "ST_START" /\ ~bit.cmd_ack /\ UnderWay /\ Listening
    <3>1. UnderWay
      BY <1>1, <1>4, Rests DEF Starts, ByteGoes
    <3>2. ~bit.cmd_ack
      BY <1>1, <3>1, Acked, Pairs DEF Acks, ByteGoes, UnderWay
    <3>3. byte.c_state = "ST_START"
      BY <1>1, <3>1, <3>2, Waits DEF ByteGoes
    <3> QED
      BY <3>1, <3>2, <3>3 DEF DacInv, Starting
  <2>2. driver'.request = driver.request
    BY <2>1, Meanwhile
  <2>3. CASE bit.c_state \notin {"start_d", "start_e"}
    <3>1. Free
      BY <2>1, <2>3, Levels
    <3>7. scl = 1 /\ sda = 1
      BY <3>1, BusTyped DEF Free, Listening
    <3>8. ~SeesStart /\ ~SeesStop /\ ~SeesBit /\ ~SeesByte /\ ~SeesAnswer
      BY <3>1, <3>7 DEF Free, SeesStart, SeesStop, SeesBit, SeesByte, SeesAnswer
    <3>2. scl = 1 /\ sda = 1 /\ SlaveKept
      BY <3>7, <3>8, SlaveSees
    <3>3. slave'.scl = 1 /\ slave'.sda = 1 /\ ~slave'.active /\ Listening'
      BY <1>2, <3>1, <3>2 DEF Free, Listening, SlaveKept, SlaveHas
    <3>4. CASE ~Tock
      <4>1. bit'.c_state = bit.c_state /\ bit'.scl_oen = 1 /\ bit'.sda_oen = 1 /\ ~bit'.cmd_ack
        BY <3>1, <3>4, Still DEF Free
      <4>2. Free'
        BY <3>3, <4>1 DEF Free
      <4> QED
        BY <2>3, <3>3, <4>1, <4>2 DEF Starting
    <3>5. CASE Tock
      <4>1. ~bit'.clk_en /\ bit'.cmd_ack = (bit.c_state \in LastPhases)
        BY <3>5, Moves
      <4>2. \/ Goes("idle", "start_a", bit.scl_oen, bit.sda_oen, FALSE)
            \/ Goes("start_a", "start_b", bit.scl_oen, 1, FALSE) \/ Goes("start_b", "start_c", 1, 1, FALSE)
            \/ Goes("start_c", "start_d", 1, 0, FALSE)
        BY <2>1, <2>3, <3>5, Moves DEF Goes
      <4>3. CASE Goes("start_c", "start_d", 1, 0, FALSE)
        BY <3>3, <4>1, <4>3 DEF Goes, Starting
      <4>4. CASE ~Goes("start_c", "start_d", 1, 0, FALSE)
        <5>1. /\ bit'.c_state \in {"start_a", "start_b", "start_c"}
              /\ bit'.scl_oen = 1 /\ bit'.sda_oen = 1
          BY <3>1, <4>2, <4>4 DEF Goes, Free
        <5>2. Free'
          BY <3>3, <5>1 DEF Free
        <5> QED
          BY <3>3, <5>1, <5>2 DEF Starting
      <4> QED
        BY <4>3, <4>4
    <3> QED
      BY <3>4, <3>5
  <2>4. CASE bit.c_state \in {"start_d", "start_e"}
    <3>1. /\ bit.scl_oen = 1 /\ bit.sda_oen = 0 /\ slave.scl = 1
          /\ bit.clk_en \/ bit.c_state = "start_e" => slave.sda = 0
          /\ IF slave.sda = 1 THEN ~slave.active ELSE Has(0) /\ Got(0)
      BY <2>1, <2>4 DEF DacInv, Starting
    <3>2. scl = 1 /\ sda = 0 /\ slave.sda \in {0, 1}
      BY <3>1, BusTyped
    <3>3. Listening' /\ Has(0)' /\ Got(0)'
      <4>1. CASE slave.sda = 1
        <5>1. SlaveHas(TRUE, <<>>, FALSE, 1, <<>>, slave.frames, slave.acks)
          BY <3>1, <3>2, <4>1, SlaveSees DEF SeesStart
        <5> QED
          BY <5>1 DEF SlaveHas, Listening, Has, Got
      <4>2. CASE slave.sda = 0
        <5>1. SlaveKept
          BY <2>1, <2>4, <4>2, Sees, SlaveSees DEF SeesStart
        <5> QED
          BY <2>1, <2>2, <3>1, <4>2, <5>1 DEF SlaveKept, SlaveHas, Listening, Has, Got
      <4> QED
        BY <3>2, <4>1, <4>2
    <3>4. slave'.scl = 1 /\ slave'.sda = 0
      BY <1>2, <3>2
    <3>5. CASE ~Tock
      <4>1. bit'.c_state = bit.c_state /\ bit'.scl_oen = 1 /\ bit'.sda_oen = 0 /\ ~bit'.cmd_ack
        BY <3>1, <3>5, Still
      <4> QED
        BY <2>4, <3>3, <3>4, <4>1 DEF Starting
    <3>6. CASE Tock
      <4>1. bit'.cmd_ack = (bit.c_state \in LastPhases)
        BY <3>6, Moves
      <4>2. Goes("start_d", "start_e", 1, 0, FALSE) \/ Goes("start_e", "idle", 0, 0, FALSE)
        BY <2>1, <2>4, <3>6, Moves DEF Goes
      <4>3. CASE Goes("start_d", "start_e", 1, 0, FALSE)
        BY <3>3, <3>4, <4>3 DEF Goes, Starting
      <4>4. CASE Goes("start_e", "idle", 0, 0, FALSE)
        <5>1. bit'.cmd_ack
          BY <4>1, <4>4 DEF Goes, LastPhases
        <5> QED
          BY <3>3, <3>4, <4>4, <5>1 DEF Goes, Starting
      <4> QED
        BY <4>2, <4>3, <4>4
    <3> QED
      BY <3>5, <3>6
  <2> QED
    BY <2>3, <2>4
<1> QED
  BY <1>3, <1>4

(***************************************************************************)
(* The bits of a byte.                                                     *)
(***************************************************************************)
(* One more bit makes the first n of the byte the first n + 1.             *)
LEMMA OneMore ==
    ASSUME NEW s \in Seq(Bit01), NEW n \in Nat, Len(s) = n, NEW t, \A i \in 1..n : s[i] = t[i]
    PROVE  \A b \in Bit01 : b = t[n + 1] =>
              Len(Append(s, b)) = n + 1 /\ \A i \in 1..(n + 1) : Append(s, b)[i] = t[i]
<1> SUFFICES ASSUME NEW b \in Bit01, b = t[n + 1]
             PROVE  Len(Append(s, b)) = n + 1 /\ \A i \in 1..(n + 1) : Append(s, b)[i] = t[i]
  OBVIOUS
<1> DEFINE u == Append(s, b)
<1>1. u \in Seq(Bit01) /\ Len(u) = n + 1 /\ (\A i \in 1..n : u[i] = s[i]) /\ u[n + 1] = b
  BY AppendProperties
<1> HIDE DEF u
<1>2. \A i \in 1..(n + 1) : u[i] = t[i]
  BY <1>1
<1> QED
  BY <1>1, <1>2 DEF u

(* What the slave has is what it had when it sees nothing.                 *)
LEMMA KeptHas ==
    ASSUME SlaveKept, driver'.request = driver.request, driver'.byte = driver.byte, NEW n
    PROVE  /\ Has(n)' <=> Has(n)
           /\ Got(n)' <=> Got(n)
           /\ Listening' <=> Listening
           /\ slave'.answering <=> slave.answering
           /\ slave'.drive = slave.drive
  BY DEF SlaveKept, SlaveHas, Has, Got, Listening, TheByte

(* The next bit goes out on SDA while SCL is low.                          *)
LEMMA BitOut ==
    ASSUME DacInv, byte.c_state = "ST_WRITE", bit.c_state \in WriteStates, bit.c_state = "wr_a" => bit.clk_en
    PROVE  byte.core_txd = TheByte[Sent + 1] /\ TheByte[Sent + 1] \in Bit01 /\ Sent \in 0..7
<1>1. Sent \in 0..7
  BY ShiftRegister
<1>2. \A i \in 1..8 : TheByte[i] \in Bit01
  BY ByteWritten DEF UnderWay
<1>3. byte.core_txd = TheByte[Sent + 1]
  BY DEF DacInv, Shifting, WriteStates
<1> QED
  BY <1>1, <1>2, <1>3

(* Each bit reaches the slave while SCL is high, and once.                 *)
LEMMA WritingKept ==
    ASSUME DacInv, NEW accessing \in BOOLEAN, Stepped(accessing)
    PROVE  Writing'
<1>1. SUFFICES ASSUME byte'.c_state = "ST_WRITE" PROVE Writing'
  BY DEF Writing
<1>2. slave'.scl = scl /\ slave'.sda = sda /\ driver.byte \in 1..4
  BY SlaveSees DEF DacInv, DacTypeOK, DriverStates
<1>3. UnderWay \/ Starts
  BY <1>1, Rests DEF Starts, ByteGoes
<1>4. driver'.request = driver.request /\ driver'.byte = driver.byte
  BY <1>3, Meanwhile
<1>5. CASE byte.c_state # "ST_WRITE"
  <2>1. (Low /\ Listening /\ Has(driver.byte - 1) /\ Got(0)) \/ (Acks /\ byte.c_state = "ST_START")
    <3>1. CASE Starts
      <4>1. driver.byte # 1 /\ ~Done /\ ~UnderWay
        BY <1>1, <3>1, StartsOne, Meanwhile DEF ByteGoes, Starts
      <4> QED
        BY <1>2, <4>1 DEF DacInv, Resting
    <3>2. CASE UnderWay
      <4>1. Acks
        BY <1>1, <1>5, <3>2, Waits DEF Acks, ByteGoes
      <4> QED
        BY <1>1, <1>5, <4>1, Acked, Pairs DEF ByteGoes, Acks, UnderWay
    <3> QED
      BY <1>3, <3>1, <3>2
  <2>2. bit.scl_oen = 0 /\ Listening /\ Has(driver.byte - 1) /\ Got(0)
    <3>1. CASE Acks /\ byte.c_state = "ST_START"
      BY <3>1, Pairs DEF DacInv, Starting, Acks
    <3> QED
      BY <2>1, <3>1 DEF Low
  <2>3. ~UnderWay \/ bit.cmd_ack
    BY <1>1, <1>5, Waits DEF ByteGoes
  <2>4. bit.c_state = "idle" /\ ~Tock
    BY <2>3, Pairs DEF UnderWay, Tock
  <2>5. scl = 0 /\ SlaveKept
    <3>1. scl = 0
      BY <2>2, BusTyped
    <3>2. ~SeesStart /\ ~SeesStop /\ ~SeesBit
      BY <3>1 DEF SeesStart, SeesStop, SeesBit
    <3>3. ~SeesByte /\ ~SeesAnswer
      BY <2>2 DEF SeesByte, SeesAnswer, Got, Listening
    <3> QED
      BY <3>1, <3>2, <3>3, SlaveSees
  <2>6. bit'.c_state = "idle" /\ bit'.scl_oen = 0 /\ ~bit'.cmd_ack
    BY <2>2, <2>4, Still
  <2>7. Sent' = 0
    <3>1. CASE Starts
      BY <3>1, StartsOne DEF Sent
    <3>2. CASE Acks /\ byte.c_state = "ST_START"
      BY <3>2, Acked DEF Sent
    <3>3. Starts \/ (Acks /\ byte.c_state = "ST_START")
      BY <1>1, <1>3, <1>5, <2>3, Acked, Pairs DEF ByteGoes, Acks, Starts, UnderWay
    <3> QED
      BY <3>1, <3>2, <3>3
  <2>8. Low' /\ Listening' /\ Has(driver.byte - 1)' /\ Got(0)'
    <3>1. Listening' /\ Got(0)'
      BY <1>4, <2>2, <2>5, KeptHas
    <3>2. Has(driver.byte - 1)'
      BY <1>4, <2>2, <2>5 DEF SlaveKept, SlaveHas, Has
    <3>3. Low'
      BY <1>2, <2>5, <2>6 DEF Low
    <3> QED
      BY <3>1, <3>2, <3>3
  <2> QED
    BY <2>6, <2>7, <2>8 DEF Writing, Got
<1>6. CASE byte.c_state = "ST_WRITE" /\ bit.cmd_ack
  <2>1. byte.dcnt # 0 /\ Sent' = Sent + 1 /\ bit.c_state = "idle" /\ ~Tock /\ Sent \in 0..7 /\ Sent = 7 - byte.dcnt
    BY <1>1, <1>6, Acked, ShiftingKept, Pairs, ShiftRegister DEF Acks, ByteGoes, UnderWay, Tock
  <2>2. bit.scl_oen = 0 /\ slave.scl = 1 /\ Got(Sent + 1) /\ Listening /\ Has(driver.byte - 1)
    BY <1>6, <2>1 DEF DacInv, Writing
  <2>3. scl = 0
    BY <2>2, BusTyped
  <2>4. Len(slave.bits) # 8
    <3>1. Len(slave.bits) = Sent + 1 /\ byte.dcnt \in 0..7
      BY <1>6, <2>2, ShiftRegister DEF Got
    <3> QED
      BY <2>1, <3>1
  <2>9. ~SeesStart /\ ~SeesStop /\ ~SeesBit /\ ~SeesByte /\ ~SeesAnswer
    BY <2>2, <2>3, <2>4 DEF SeesStart, SeesStop, SeesBit, SeesByte, SeesAnswer, Listening
  <2>5. SlaveKept
    BY <2>9, SlaveSees
  <2>6. bit'.c_state = "idle" /\ bit'.scl_oen = 0 /\ ~bit'.cmd_ack
    BY <2>1, <2>2, Still
  <2>7. Low' /\ Listening' /\ Has(driver.byte - 1)'
    BY <1>2, <1>4, <2>2, <2>3, <2>5, <2>6 DEF Low, Listening, SlaveKept, SlaveHas, Has
  <2>8. Got(Sent)'
    <3>1. slave'.bits = slave.bits /\ TheByte' = TheByte
      BY <1>4, <2>5 DEF SlaveKept, SlaveHas, TheByte
    <3> QED
      BY <2>1, <2>2, <3>1 DEF Got
  <2> QED
    BY <2>6, <2>7, <2>8 DEF Writing
<1>7. CASE byte.c_state = "ST_WRITE" /\ ~bit.cmd_ack
  <2>1. UnderWay /\ Sent' = Sent /\ Listening /\ Has(driver.byte - 1) /\ TheByte' = TheByte
    BY <1>7, ShiftingKept, Meanwhile DEF UnderWay, DacInv, Writing
  <2>2. ~SeesStart /\ ~SeesStop /\ ~SeesByte /\ ~SeesAnswer
    BY <1>7, Sees
  <2>3. Listening' /\ Has(driver.byte - 1)'
    <3>1. slave'.active = slave.active /\ slave'.frame = slave.frame /\ slave'.answering = slave.answering
          /\ slave'.drive = slave.drive
      BY <2>2, SlaveSees DEF SlaveKept, SlaveHas
    <3> QED
      BY <1>4, <2>1, <3>1 DEF Listening, Has
  <2>4. CASE bit.c_state \in {"wr_c", "wr_d"}
    <3>1. /\ bit.scl_oen = 1 /\ bit.sda_oen = TheByte[Sent + 1] /\ slave.sda = bit.sda_oen /\ Got(Sent + slave.scl)
          /\ byte.core_txd = TheByte[Sent + 1] /\ TheByte[Sent + 1] \in Bit01 /\ Sent \in 0..7
      BY <1>7, <2>4, BitOut DEF DacInv, Writing, WriteStates
    <3>2. sda = bit.sda_oen /\ scl \in {0, 1} /\ slave.scl \in {0, 1} /\ (slave.scl = 1 => scl = 1)
      BY <2>1, <3>1, BusTyped DEF Listening
    <3>0. PICK m \in Nat : m = Sent + scl
      BY <3>1, <3>2
    <3>3. Got(m)'
      <4>1. CASE slave.scl = 0 /\ scl = 1
        <5>1. SeesBit
          BY <2>1, <4>1 DEF SeesBit, Listening, Has
        <5>2. slave'.bits = Append(slave.bits, sda) /\ sda = TheByte[Sent + 1] /\ sda \in Bit01
          BY <3>1, <3>2, <5>1, SlaveSees DEF SlaveHas
        <5> DEFINE u == slave.bits   v == slave'.bits   t == TheByte   n == Sent   b == sda
        <5>3. u \in Seq(Bit01) /\ Len(u) = n /\ (\A i \in 1..n : u[i] = t[i]) /\ n \in Nat /\ b \in Bit01 /\ b = t[n + 1]
              /\ v = Append(u, b) /\ m = n + 1
          BY <3>0, <3>1, <4>1, <5>2 DEF Got, DacInv, DacTypeOK, SlaveStates
        <5>4. Len(v) = n + 1 /\ \A i \in 1..(n + 1) : v[i] = t[i]
          <6> HIDE DEF u, v, t, n, b
          <6>1. Len(Append(u, b)) = n + 1 /\ \A i \in 1..(n + 1) : Append(u, b)[i] = t[i]
            BY <5>3, OneMore
          <6>2. v = Append(u, b)
            BY <5>3
          <6> QED
            BY <6>1, <6>2, Zenon
        <5>5. Len(v) = m /\ \A i \in 1..m : v[i] = t[i]
          <6> HIDE DEF u, v, t, n, b
          <6> QED
            BY <5>3, <5>4
        <5> QED
          BY <2>1, <5>5 DEF Got
      <4>2. CASE slave.scl = scl
        <5>3. ~SeesBit
          BY <4>2 DEF SeesBit
        <5>1. SlaveKept
          BY <2>2, <5>3, SlaveSees
        <5>2. Got(m)
          BY <3>0, <3>1, <4>2
        <5> QED
          BY <1>4, <5>1, <5>2, KeptHas
      <4> QED
        BY <3>2, <4>1, <4>2
    <3>4. m = Sent' + slave'.scl /\ slave'.sda = bit.sda_oen
      BY <1>2, <2>1, <3>0, <3>2
    <3>5. CASE ~Tock
      <4>1. bit'.c_state \in {"wr_c", "wr_d"} /\ bit'.scl_oen = 1 /\ bit'.sda_oen = bit.sda_oen
        BY <2>4, <3>1, <3>5, Still
      <4> QED
        BY <2>1, <2>3, <3>1, <3>3, <3>4, <4>1 DEF Writing
    <3>6. CASE Tock
      <4>1. bit'.cmd_ack = (bit.c_state \in LastPhases) /\ bit.clk_en
        BY <3>6, Moves DEF Tock
      <4>2. Goes("wr_c", "wr_d", 1, byte.core_txd, TRUE) \/ Goes("wr_d", "idle", 0, byte.core_txd, FALSE)
        BY <1>7, <2>4, <3>6, Moves DEF Goes
      <4>3. CASE Goes("wr_c", "wr_d", 1, byte.core_txd, TRUE)
        BY <2>1, <2>3, <3>1, <3>3, <3>4, <4>3 DEF Goes, Writing
      <4>4. CASE Goes("wr_d", "idle", 0, byte.core_txd, FALSE)
        <5>1. bit'.cmd_ack /\ bit.c_state = "wr_d"
          BY <4>1, <4>4 DEF Goes, LastPhases
        <5>2. slave.scl = 1
          BY <4>1, <5>1 DEF DacInv, Ticks
        <5>3. slave'.scl = 1 /\ m = Sent' + 1
          BY <1>2, <2>1, <3>0, <3>2, <5>2
        <5> QED
          BY <2>3, <3>3, <4>4, <5>1, <5>3 DEF Goes, Writing
      <4> QED
        BY <4>2, <4>3, <4>4
    <3> QED
      BY <3>5, <3>6
  <2>5. CASE bit.c_state \notin {"wr_c", "wr_d"}
    <3>1. bit.c_state \in {"idle", "wr_a", "wr_b"} /\ Low /\ Got(Sent)
          /\ (bit.c_state = "wr_b" => bit.sda_oen = TheByte[Sent + 1] /\ (bit.clk_en => slave.sda = bit.sda_oen))
      BY <1>7, <2>5, Pairs DEF DacInv, Writing
    <3>2. scl = 0 /\ sda = bit.sda_oen
      BY <2>1, <3>1, BusTyped DEF Low, Listening
    <3>8. ~SeesBit
      BY <3>2 DEF SeesBit
    <3>3. SlaveKept
      BY <2>2, <3>8, SlaveSees
    <3>4. slave'.scl = 0 /\ slave'.sda = bit.sda_oen
      BY <1>2, <3>2
    <3>5. Got(Sent)'
      BY <2>1, <3>1, <3>3 DEF Got, SlaveKept, SlaveHas
    <3>6. CASE ~Tock
      <4>1. bit'.c_state = bit.c_state /\ bit'.scl_oen = 0 /\ bit'.sda_oen = bit.sda_oen /\ ~bit'.cmd_ack
        BY <3>1, <3>6, Still DEF Low
      <4>2. Low'
        BY <3>4, <4>1 DEF Low
      <4> QED
        BY <2>1, <2>3, <3>1, <3>4, <3>5, <4>1, <4>2 DEF Writing
    <3>7. CASE Tock
      <4>1. bit'.cmd_ack = (bit.c_state \in LastPhases) /\ bit.clk_en /\ ~bit'.clk_en
        BY <3>7, Moves DEF Tock
      <4>2. ~bit'.cmd_ack
        BY <3>1, <4>1 DEF LastPhases
      <4>3. \/ Goes("idle", "wr_a", bit.scl_oen, bit.sda_oen, FALSE)
            \/ Goes("wr_a", "wr_b", 0, byte.core_txd, FALSE)
            \/ Goes("wr_b", "wr_c", 1, byte.core_txd, TRUE)
        BY <1>7, <3>1, <3>7, Moves DEF Goes
      <4>4. CASE Goes("idle", "wr_a", bit.scl_oen, bit.sda_oen, FALSE)
        BY <2>3, <3>1, <3>4, <3>5, <4>4 DEF Goes, Writing, Low
      <4>5. CASE Goes("wr_a", "wr_b", 0, byte.core_txd, FALSE)
        <5>1. byte.core_txd = TheByte[Sent + 1]
          BY <1>7, <4>1, <4>5, BitOut DEF Goes, WriteStates
        <5> QED
          BY <2>1, <2>3, <3>4, <3>5, <4>1, <4>5, <5>1 DEF Goes, Writing, Low
      <4>6. CASE Goes("wr_b", "wr_c", 1, byte.core_txd, TRUE)
        <5>1. byte.core_txd = TheByte[Sent + 1] /\ bit.sda_oen = TheByte[Sent + 1] /\ Sent \in 0..7
          BY <1>7, <3>1, <4>1, <4>6, BitOut DEF Goes, WriteStates
        <5>2. Sent' + slave'.scl = Sent'
          BY <2>1, <3>4, <5>1
        <5> QED
          BY <2>1, <2>3, <3>4, <3>5, <4>6, <5>1, <5>2 DEF Goes, Writing
      <4> QED
        BY <4>3, <4>4, <4>5, <4>6
    <3> QED
      BY <3>6, <3>7
  <2> QED
    BY <2>4, <2>5
<1> QED
  BY <1>3, <1>5, <1>6, <1>7

(***************************************************************************)
(* The answer to a byte.                                                   *)
(***************************************************************************)
(* Two bytes are the same when their bits are.                             *)
LEMMA SameBits ==
    ASSUME NEW s \in Seq(Bit01), NEW t \in Seq(Bit01), Len(s) = Len(t), \A i \in 1..Len(s) : s[i] = t[i]
    PROVE  s = t
  BY SeqEqual

(* With the byte it has got, the slave has one byte more of the frame.     *)
LEMMA ByteDone ==
    ASSUME DacInv, UnderWay, Has(driver.byte - 1), Got(8)
    PROVE  LET f == Append(slave.frame, slave.bits)
           IN  Len(f) = driver.byte /\ \A i \in 1..driver.byte : f[i] = Requests[driver.request][i]
<1>1. /\ slave.frame \in Seq(Seq(Bit01)) /\ slave.bits \in Seq(Bit01) /\ TheByte \in Seq(Bit01) /\ Len(TheByte) = 8
      /\ driver.byte \in 1..4
  BY ByteWritten DEF DacInv, DacTypeOK, SlaveStates, Bytes8
<1>2. slave.bits = TheByte
  BY <1>1, SameBits DEF Got
<1> DEFINE g == slave.frame   b == slave.bits   r == Requests[driver.request]   n == driver.byte   f == Append(g, b)
<1>3. /\ g \in Seq(Seq(Bit01)) /\ b \in Seq(Bit01) /\ Len(g) = n - 1 /\ n \in 1..4 /\ b = r[n]
      /\ \A i \in 1..(n - 1) : g[i] = r[i]
  BY <1>1, <1>2 DEF Has, TheByte
<1> HIDE DEF g, b, r, n
<1>4. Len(f) = Len(g) + 1 /\ (\A i \in 1..Len(g) : f[i] = g[i]) /\ f[Len(g) + 1] = b
  BY <1>3, AppendProperties
<1>5. Len(f) = n /\ \A i \in 1..n : f[i] = r[i]
  <2> HIDE DEF f
  <2> QED
    BY <1>3, <1>4
<1> QED
  BY <1>5 DEF g, b, r, n

(* The ninth clock is for the answer of the slave, and the core samples it. *)
LEMMA AnsweredKept ==
    ASSUME DacInv, NEW accessing \in BOOLEAN, Stepped(accessing)
    PROVE  Answered'
<1>1. SUFFICES ASSUME byte'.c_state = "ST_ACK" PROVE Answered'
  BY DEF Answered
<1>2. slave'.scl = scl /\ slave'.sda = sda /\ driver.byte \in 1..4
  BY SlaveSees DEF DacInv, DacTypeOK, DriverStates
<1>3. UnderWay /\ ~Starts
  BY <1>1, Rests, StartsOne DEF Starts, ByteGoes
<1>4. driver'.request = driver.request /\ driver'.byte = driver.byte
  BY <1>3, Meanwhile
<1>5. CASE byte.c_state # "ST_ACK"
  <2>1. Acks /\ byte.c_state = "ST_WRITE" /\ byte.dcnt = 0
    <3>1. Acks
      BY <1>1, <1>3, <1>5, Waits DEF Acks, ByteGoes
    <3>2. byte.c_state = "ST_WRITE"
      BY <1>1, <1>3, <1>5, <3>1, Acked, Pairs DEF ByteGoes, UnderWay
    <3> QED
      BY <1>1, <3>1, <3>2, Acked DEF ByteGoes
  <2>2. bit.c_state = "idle" /\ ~Tock /\ Sent = 7 /\ bit.cmd_ack
    BY <2>1, Pairs, ShiftRegister DEF Acks, Tock
  <2>3. bit.scl_oen = 0 /\ slave.scl = 1 /\ Got(8) /\ Listening /\ Has(driver.byte - 1)
    BY <2>1, <2>2 DEF DacInv, Writing
  <2>4. scl = 0
    BY <2>3, BusTyped
  <2>5. SeesByte
    BY <2>3, <2>4 DEF SeesByte, Got, Has
  <2>6. PICK ack \in Bit01 : SlaveHas(slave.active, <<>>, TRUE, ack, Append(slave.frame, slave.bits),
                                      slave.frames, Append(slave.acks, ack))
    BY <2>5, SlaveSees
  <2>7. /\ bit'.c_state = "idle" /\ bit'.scl_oen = 0 /\ ~bit'.cmd_ack
    BY <2>2, <2>3, Still
  <2>8. Has(driver.byte)'
    <3> DEFINE f == Append(slave.frame, slave.bits)
    <3>1. Len(f) = driver.byte /\ \A i \in 1..driver.byte : f[i] = Requests[driver.request][i]
      BY <1>3, <2>3, ByteDone
    <3>2. slave'.frame = f /\ slave'.active
      BY <2>3, <2>6 DEF SlaveHas, Has
    <3> HIDE DEF f
    <3> QED
      BY <1>4, <3>1, <3>2 DEF Has
  <2>9. slave'.answering /\ Got(0)' /\ Low'
    BY <1>2, <2>4, <2>6, <2>7 DEF SlaveHas, Got, Low
  <2> QED
    BY <2>7, <2>8, <2>9 DEF Answered
<1>6. CASE byte.c_state = "ST_ACK"
  <2>1. ~bit.cmd_ack /\ slave.answering /\ Has(driver.byte) /\ Got(0)
    <3>1. ~bit.cmd_ack
      BY <1>1, <1>3, <1>6, Acked DEF ByteGoes, Acks
    <3> QED
      BY <1>6, <3>1 DEF DacInv, Answered
  <2>2. SlaveKept
    <3>1. ~SeesStart /\ ~SeesStop /\ ~SeesByte /\ ~SeesAnswer
      BY <1>6, <2>1, Sees
    <3>2. ~SeesBit
      BY <2>1 DEF SeesBit
    <3> QED
      BY <3>1, <3>2, SlaveSees
  <2>3. slave'.answering /\ Has(driver.byte)' /\ Got(0)' /\ slave'.drive = slave.drive
    <3>1. slave'.answering /\ Got(0)' /\ slave'.drive = slave.drive
      BY <1>4, <2>1, <2>2, KeptHas
    <3>2. Has(driver.byte)'
      BY <1>4, <2>1, <2>2 DEF SlaveKept, SlaveHas, Has
    <3> QED
      BY <3>1, <3>2
  <2>4. CASE bit.c_state \in {"rd_c", "rd_d"}
    <3>1. /\ bit.scl_oen = 1 /\ bit.sda_oen = 1 /\ slave.sda = slave.drive
          /\ slave.scl = 1 /\ bit.dSCL = 1 => bit.dout = slave.drive
      BY <1>6, <2>4 DEF DacInv, Answered
    <3>2. sda = slave.drive /\ (slave.scl = 1 => scl = 1)
      BY <3>1, BusTyped
    <3>3. slave.scl = 1 => bit'.dout = slave.drive
      <4>1. bit'.dout = (IF bit.sSCL = 1 /\ bit.dSCL = 0 THEN bit.sSDA ELSE bit.dout)
        BY BitNext DEF DacInv, Stepped
      <4>2. bit.sSCL = slave.scl /\ bit.sSDA = slave.sda
        BY DEF DacInv, Ticks
      <4> QED
        BY <3>1, <4>1, <4>2, BusTyped
    <3>4. slave'.sda = slave'.drive /\ bit'.dSCL = slave.scl
      <4>1. bit'.dSCL = bit.sSCL
        BY BitNext DEF DacInv, Stepped
      <4> QED
        BY <1>2, <2>3, <3>2, <4>1 DEF DacInv, Ticks
    <3>5. CASE ~Tock
      <4>1. bit'.c_state \in {"rd_c", "rd_d"} /\ bit'.scl_oen = 1 /\ bit'.sda_oen = 1
        BY <2>4, <3>1, <3>5, Still
      <4> QED
        BY <2>3, <3>3, <3>4, <4>1 DEF Answered
    <3>6. CASE Tock
      <4>1. bit'.cmd_ack = (bit.c_state \in LastPhases) /\ bit.clk_en
        BY <3>6, Moves DEF Tock
      <4>2. Goes("rd_c", "rd_d", 1, 1, FALSE) \/ Goes("rd_d", "idle", 0, 1, FALSE)
        BY <1>6, <2>4, <3>6, Moves DEF Goes
      <4>3. CASE Goes("rd_c", "rd_d", 1, 1, FALSE)
        BY <2>3, <3>3, <3>4, <4>3 DEF Goes, Answered
      <4>4. CASE Goes("rd_d", "idle", 0, 1, FALSE)
        <5>1. bit'.cmd_ack /\ bit.c_state = "rd_d"
          BY <4>1, <4>4 DEF Goes, LastPhases
        <5>2. slave.scl = 1
          BY <4>1, <5>1 DEF DacInv, Ticks
        <5>3. slave'.scl = 1 /\ bit'.dout = slave'.drive
          BY <1>2, <2>3, <3>2, <3>3, <5>2
        <5> QED
          BY <2>3, <4>4, <5>1, <5>3 DEF Goes, Answered
      <4> QED
        BY <4>2, <4>3, <4>4
    <3> QED
      BY <3>5, <3>6
  <2>5. CASE bit.c_state \notin {"rd_c", "rd_d"}
    <3>1. bit.c_state \in {"idle", "rd_a", "rd_b"} /\ Low
          /\ (bit.c_state = "rd_b" => bit.sda_oen = 1 /\ (bit.clk_en => slave.sda = slave.drive))
      BY <1>6, <2>1, <2>5, Pairs DEF DacInv, Answered
    <3>2. scl = 0 /\ (bit.sda_oen = 1 => sda = slave.drive)
      BY <3>1, BusTyped DEF Low
    <3>4. slave'.scl = 0 /\ (bit.sda_oen = 1 => slave'.sda = slave'.drive)
      BY <1>2, <2>3, <3>2
    <3>6. CASE ~Tock
      <4>1. bit'.c_state = bit.c_state /\ bit'.scl_oen = 0 /\ bit'.sda_oen = bit.sda_oen /\ ~bit'.cmd_ack
        BY <3>1, <3>6, Still DEF Low
      <4>2. Low'
        BY <3>4, <4>1 DEF Low
      <4> QED
        BY <2>3, <3>1, <3>4, <4>1, <4>2 DEF Answered
    <3>7. CASE Tock
      <4>1. bit'.cmd_ack = (bit.c_state \in LastPhases) /\ bit.clk_en /\ ~bit'.clk_en
        BY <3>7, Moves DEF Tock
      <4>2. ~bit'.cmd_ack
        BY <3>1, <4>1 DEF LastPhases
      <4>3. \/ Goes("idle", "rd_a", bit.scl_oen, bit.sda_oen, FALSE)
            \/ Goes("rd_a", "rd_b", 0, 1, FALSE)
            \/ Goes("rd_b", "rd_c", 1, 1, FALSE)
        BY <1>6, <3>1, <3>7, Moves DEF Goes
      <4>4. CASE Goes("idle", "rd_a", bit.scl_oen, bit.sda_oen, FALSE)
        BY <2>3, <3>1, <3>4, <4>4 DEF Goes, Answered, Low
      <4>5. CASE Goes("rd_a", "rd_b", 0, 1, FALSE)
        BY <2>3, <3>4, <4>1, <4>5 DEF Goes, Answered, Low
      <4>6. CASE Goes("rd_b", "rd_c", 1, 1, FALSE)
        BY <2>3, <3>1, <3>4, <4>6 DEF Goes, Answered
      <4> QED
        BY <4>3, <4>4, <4>5, <4>6
    <3> QED
      BY <3>6, <3>7
  <2> QED
    BY <2>4, <2>5
<1> QED
  BY <1>5, <1>6

(* The STOP condition comes after the fourth byte, once.                   *)
LEMMA StoppingKept ==
    ASSUME DacInv, NEW accessing \in BOOLEAN, Stepped(accessing)
    PROVE  Stopping'
<1>1. SUFFICES ASSUME byte'.c_state = "ST_STOP" PROVE Stopping'
  BY DEF Stopping
<1>2. slave'.scl = scl /\ slave'.sda = sda
  BY SlaveSees
<1>3. UnderWay /\ ~Starts
  BY <1>1, Rests, StartsOne DEF Starts, ByteGoes
<1>4. driver'.request = driver.request /\ driver'.byte = driver.byte
  BY <1>3, Meanwhile
<1>5. CASE byte.c_state # "ST_STOP"
  <2>1. Acks /\ byte.c_state = "ST_ACK" /\ driver.byte = 4
    <3>1. Acks
      BY <1>1, <1>3, <1>5, Waits DEF Acks, ByteGoes
    <3>2. byte.c_state = "ST_ACK"
      BY <1>1, <1>3, <1>5, <3>1, Acked, Pairs DEF ByteGoes, UnderWay
    <3> QED
      BY <1>1, <3>1, <3>2, Acked DEF ByteGoes
  <2>2. bit.c_state = "idle" /\ ~Tock /\ bit.cmd_ack
    BY <2>1, Pairs DEF Acks, Tock
  <2>3. bit.scl_oen = 0 /\ slave.scl = 1 /\ Has(4) /\ slave.answering
    BY <2>1, <2>2 DEF DacInv, Answered
  <2>4. scl = 0
    BY <2>3, BusTyped
  <2>5. SeesAnswer
    BY <2>3, <2>4 DEF SeesAnswer, Has
  <2>6. SlaveHas(slave.active, slave.bits, FALSE, 1, slave.frame, slave.frames, slave.acks)
    BY <2>5, SlaveSees
  <2>7. /\ bit'.c_state = "idle" /\ bit'.scl_oen = 0 /\ ~bit'.cmd_ack
    BY <2>2, <2>3, Still
  <2>8. Has(4)' /\ Listening' /\ Low'
    BY <1>2, <1>4, <2>3, <2>4, <2>6, <2>7 DEF SlaveHas, Has, Listening, Low
  <2> QED
    BY <2>7, <2>8 DEF Stopping
<1>6. CASE byte.c_state = "ST_STOP"
  <2>1. ~bit.cmd_ack /\ Listening /\ Has(4)
    <3>1. ~bit.cmd_ack
      BY <1>1, <1>3, <1>6, Acked DEF ByteGoes, Acks
    <3> QED
      BY <1>6, <3>1 DEF DacInv, Stopping
  <2>2. Listening' /\ Has(4)'
    <3>1. ~SeesStart /\ ~SeesStop /\ ~SeesByte /\ ~SeesAnswer
      BY <1>6, <2>1, Sees
    <3>2. slave'.active = slave.active /\ slave'.frame = slave.frame /\ slave'.answering = slave.answering
          /\ slave'.drive = slave.drive
      BY <3>1, SlaveSees DEF SlaveKept, SlaveHas
    <3> QED
      BY <1>4, <2>1, <3>2 DEF Listening, Has
  <2>4. CASE bit.c_state \in {"stop_c", "stop_d"}
    <3>1. bit.scl_oen = 1 /\ bit.sda_oen = 0 /\ slave.sda = 0
      BY <1>6, <2>4 DEF DacInv, Stopping
    <3>2. sda = 0 /\ (slave.scl = 1 => scl = 1)
      BY <3>1, BusTyped
    <3>5. CASE ~Tock
      <4>1. bit'.c_state \in {"stop_c", "stop_d"} /\ bit'.scl_oen = 1 /\ bit'.sda_oen = 0
        BY <2>4, <3>1, <3>5, Still
      <4> QED
        BY <1>2, <2>2, <3>2, <4>1 DEF Stopping
    <3>6. CASE Tock
      <4>1. bit'.cmd_ack = (bit.c_state \in LastPhases) /\ bit.clk_en
        BY <3>6, Moves DEF Tock
      <4>2. Goes("stop_c", "stop_d", 1, 0, FALSE) \/ Goes("stop_d", "idle", 1, 1, FALSE)
        BY <1>6, <2>4, <3>6, Moves DEF Goes
      <4>3. CASE Goes("stop_c", "stop_d", 1, 0, FALSE)
        BY <1>2, <2>2, <3>2, <4>3 DEF Goes, Stopping
      <4>4. CASE Goes("stop_d", "idle", 1, 1, FALSE)
        <5>1. bit'.cmd_ack /\ bit.c_state = "stop_d"
          BY <4>1, <4>4 DEF Goes, LastPhases
        <5>2. slave.scl = 1
          BY <4>1, <5>1 DEF DacInv, Ticks
        <5> QED
          BY <1>2, <2>2, <3>2, <4>4, <5>1, <5>2 DEF Goes, Stopping
      <4> QED
        BY <4>2, <4>3, <4>4
    <3> QED
      BY <3>5, <3>6
  <2>5. CASE bit.c_state \notin {"stop_c", "stop_d"}
    <3>1. bit.c_state \in {"idle", "stop_a", "stop_b"} /\ Low
          /\ (bit.c_state = "stop_b" => bit.sda_oen = 0 /\ (bit.clk_en => slave.sda = 0))
      BY <1>6, <2>1, <2>5, Pairs DEF DacInv, Stopping
    <3>2. scl = 0 /\ (bit.sda_oen = 0 => sda = 0)
      BY <3>1, BusTyped DEF Low
    <3>4. slave'.scl = 0 /\ (bit.sda_oen = 0 => slave'.sda = 0)
      BY <1>2, <3>2
    <3>6. CASE ~Tock
      <4>1. bit'.c_state = bit.c_state /\ bit'.scl_oen = 0 /\ bit'.sda_oen = bit.sda_oen /\ ~bit'.cmd_ack
        BY <3>1, <3>6, Still DEF Low
      <4>2. Low'
        BY <3>4, <4>1 DEF Low
      <4> QED
        BY <2>2, <3>1, <3>4, <4>1, <4>2 DEF Stopping
    <3>7. CASE Tock
      <4>1. bit'.cmd_ack = (bit.c_state \in LastPhases) /\ bit.clk_en /\ ~bit'.clk_en
        BY <3>7, Moves DEF Tock
      <4>2. ~bit'.cmd_ack
        BY <3>1, <4>1 DEF LastPhases
      <4>3. \/ Goes("idle", "stop_a", bit.scl_oen, bit.sda_oen, FALSE)
            \/ Goes("stop_a", "stop_b", 0, 0, FALSE)
            \/ Goes("stop_b", "stop_c", 1, 0, FALSE)
        BY <1>6, <3>1, <3>7, Moves DEF Goes
      <4>4. CASE Goes("idle", "stop_a", bit.scl_oen, bit.sda_oen, FALSE)
        BY <2>2, <3>1, <3>4, <4>4 DEF Goes, Stopping, Low
      <4>5. CASE Goes("stop_a", "stop_b", 0, 0, FALSE)
        BY <2>2, <3>4, <4>1, <4>5 DEF Goes, Stopping, Low
      <4>6. CASE Goes("stop_b", "stop_c", 1, 0, FALSE)
        BY <2>2, <3>1, <3>4, <4>6 DEF Goes, Stopping
      <4> QED
        BY <4>3, <4>4, <4>5, <4>6
    <3> QED
      BY <3>6, <3>7
  <2> QED
    BY <2>4, <2>5
<1> QED
  BY <1>5, <1>6

(***************************************************************************)
(* Frames and answers.                                                     *)
(***************************************************************************)
(* A frame is counted when the slave has seen its STOP.                    *)
LEMMA FramedKept ==
    ASSUME DacInv, NEW accessing \in BOOLEAN, Stepped(accessing)
    PROVE  Framed'
<1> DEFINE n == IF Done /\ driver.byte = 4 THEN driver.request ELSE driver.request - 1
           m == IF Done' /\ driver'.byte = 4 THEN driver'.request ELSE driver'.request - 1
<1>1. Len(slave.frames) = n /\ n <= Len(Requests) /\ \A i \in 1..n : slave.frames[i] = Requests[i]
  BY DEF DacInv, Framed
<1>2. driver.byte \in 1..4 /\ driver.request \in Nat \ {0}
  BY DEF DacInv, DacTypeOK, DriverStates
<1>3. ASSUME ~(byte.c_state = "ST_STOP" /\ bit.cmd_ack)
      PROVE  slave'.frames = slave.frames
  <2>1. ~SeesStop
    BY <1>3, Sees
  <2>2. CASE SeesByte
    <3>1. PICK ack \in Bit01 : SlaveHas(slave.active, <<>>, TRUE, ack, Append(slave.frame, slave.bits),
                                        slave.frames, Append(slave.acks, ack))
      BY <2>2, SlaveSees
    <3> QED
      BY <3>1 DEF SlaveHas
  <2>3. CASE SeesStart
    <3>1. SlaveHas(TRUE, <<>>, FALSE, 1, <<>>, slave.frames, slave.acks)
      BY <2>3, SlaveSees
    <3> QED
      BY <3>1 DEF SlaveHas
  <2>4. CASE SeesBit
    <3>1. SlaveHas(slave.active, Append(slave.bits, sda), slave.answering, slave.drive, slave.frame, slave.frames, slave.acks)
      BY <2>4, SlaveSees
    <3> QED
      BY <3>1 DEF SlaveHas
  <2>5. CASE SeesAnswer
    <3>1. SlaveHas(slave.active, slave.bits, FALSE, 1, slave.frame, slave.frames, slave.acks)
      BY <2>5, SlaveSees
    <3> QED
      BY <3>1 DEF SlaveHas
  <2>6. CASE ~SeesStart /\ ~SeesBit /\ ~SeesByte /\ ~SeesAnswer
    <3>1. SlaveKept
      BY <2>1, <2>6, SlaveSees
    <3> QED
      BY <3>1 DEF SlaveKept, SlaveHas
  <2> QED
    BY <2>2, <2>3, <2>4, <2>5, <2>6
<1>4. CASE m = n /\ ~(byte.c_state = "ST_STOP" /\ bit.cmd_ack)
  BY <1>1, <1>3, <1>4 DEF Framed
<1>5. CASE ~UnderWay
  <2>1. byte.c_state = "ST_IDLE"
    BY <1>5 DEF UnderWay
  <2>2. m = n
    <3>1. CASE Starts
      <4>1. UnderWay' /\ driver'.request = driver.request
        BY <3>1, StartsOne DEF ByteGoes, DriverGoes, UnderWay
      <4>2. ~Done /\ ~Done'
        BY <3>1, <4>1, Meanwhile DEF Done
      <4> QED
        BY <4>1, <4>2
    <3>2. CASE ~go
      <4>1. ~UnderWay' /\ (Returns \/ Proceeds)
        BY <1>5, <3>2, RestingSteps
      <4>2. CASE Returns
        <5>1. Done /\ ~Done'
          BY <1>5, <4>2 DEF Returns, Done
        <5> QED
          BY <1>2, <4>2, <5>1 DEF Returns
      <4>3. CASE Proceeds
        <5>1. Done' <=> Done
          BY <1>5, <4>1, <4>3 DEF Proceeds, Done, Reads
        <5> QED
          BY <4>3, <5>1 DEF Proceeds
      <4> QED
        BY <4>1, <4>2, <4>3
    <3> QED
      BY <1>5, <3>1, <3>2 DEF Starts
  <2> QED
    BY <1>4, <2>1, <2>2
<1>6. CASE UnderWay
  <2>1. driver'.request = driver.request /\ driver'.byte = driver.byte /\ ~Done /\ driver'.op = "poll"
    BY <1>6, Meanwhile
  <2>2. CASE byte.c_state = "ST_STOP" /\ bit.cmd_ack
    <3>1. /\ Listening /\ Has(4) /\ driver.byte = 4
          /\ bit.scl_oen = 1 /\ bit.sda_oen = 1 /\ slave.scl = 1 /\ slave.sda = 0
      BY <2>2, Pairs DEF DacInv, Stopping
    <3>2. scl = 1 /\ sda = 1 /\ SeesStop
      BY <3>1, BusTyped DEF SeesStop, Has, Listening
    <3>3. SlaveHas(FALSE, slave.bits, slave.answering, 1, slave.frame, Append(slave.frames, slave.frame), slave.acks)
      BY <3>2, SlaveSees
    <3>4. Done'
      BY <2>1, <2>2, Acked DEF Acks, UnderWay, ByteGoes, Done
    <3>5. driver.request \in 1..Len(Requests) /\ Len(Requests) \in Nat
      BY <1>6, ByteWritten
    <3>6. slave.frame = Requests[driver.request]
      <4> DEFINE f == slave.frame   r == Requests[driver.request]
      <4>1. f \in Seq(Seq(Bit01)) /\ Len(f) = 4 /\ \A i \in 1..4 : f[i] = r[i]
        BY <3>1 DEF Has, DacInv, DacTypeOK, SlaveStates
      <4>3. r \in Seq(Seq(Bit01)) /\ Len(r) = 4
        BY <3>5, 1 \in 1..4, BytesOfRequests, Zenon
      <4> HIDE DEF f, r
      <4>2. f = r
        BY <4>1, <4>3, SeqEqual
      <4> QED
        BY <4>2 DEF f, r
    <3> DEFINE fs == slave.frames   f == slave.frame   k == driver.request   gs == Append(fs, f)
    <3>7. /\ fs \in Seq(Seq(Seq(Bit01))) /\ f \in Seq(Seq(Bit01)) /\ Len(fs) = k - 1 /\ k \in Nat \ {0}
          /\ \A i \in 1..(k - 1) : fs[i] = Requests[i]
          /\ f = Requests[k]
      BY <1>1, <1>2, <2>1, <3>6 DEF DacInv, DacTypeOK, SlaveStates
    <3>8. Len(gs) = k /\ \A i \in 1..k : gs[i] = Requests[i]
      <4> HIDE DEF fs, f, k
      <4>1. Len(gs) = Len(fs) + 1 /\ (\A i \in 1..Len(fs) : gs[i] = fs[i]) /\ gs[Len(fs) + 1] = f
        BY <3>7, AppendProperties
      <4> HIDE DEF gs
      <4> QED
        BY <3>7, <4>1
    <3>9. slave'.frames = gs /\ m = k
      BY <2>1, <3>1, <3>3, <3>4 DEF SlaveHas
    <3> HIDE DEF gs
    <3> QED
      BY <3>5, <3>8, <3>9 DEF Framed
  <2>3. CASE ~(byte.c_state = "ST_STOP" /\ bit.cmd_ack)
    <3>1. m = n
      <4>1. CASE UnderWay'
        BY <2>1, <4>1 DEF Done
      <4>2. CASE ~UnderWay'
        <5>1. driver.byte # 4
          BY <1>6, <2>3, <4>2, Ends
        <5> QED
          BY <2>1, <5>1
      <4> QED
        BY <4>1, <4>2
    <3> QED
      BY <1>4, <2>3, <3>1
  <2> QED
    BY <2>2, <2>3
<1> QED
  BY <1>5, <1>6

(* The answers change with the end of a byte only.                         *)
LEMMA AnswersKept ==
    ASSUME DacInv, NEW accessing \in BOOLEAN, Stepped(accessing)
    PROVE  /\ ~SeesByte => slave'.acks = slave.acks
           /\ ~SeesByte /\ ~SeesStart /\ ~SeesStop /\ ~SeesAnswer => slave'.drive = slave.drive
           /\ SeesByte => \E ack \in Bit01 : slave'.acks = Append(slave.acks, ack) /\ slave'.drive = ack
<1>1. CASE SeesByte
  <2>1. PICK ack \in Bit01 : SlaveHas(slave.active, <<>>, TRUE, ack, Append(slave.frame, slave.bits),
                                      slave.frames, Append(slave.acks, ack))
    BY <1>1, SlaveSees
  <2> QED
    BY <1>1, <2>1 DEF SlaveHas
<1>2. CASE SeesStart
  <2>1. SlaveHas(TRUE, <<>>, FALSE, 1, <<>>, slave.frames, slave.acks)
    BY <1>2, SlaveSees
  <2>2. ~SeesByte
    BY <1>2 DEF SeesStart, SeesByte
  <2> QED
    BY <1>2, <2>1, <2>2 DEF SlaveHas
<1>3. CASE SeesBit
  <2>1. SlaveHas(slave.active, Append(slave.bits, sda), slave.answering, slave.drive, slave.frame, slave.frames, slave.acks)
    BY <1>3, SlaveSees
  <2>2. ~SeesByte
    BY <1>3 DEF SeesBit, SeesByte
  <2> QED
    BY <1>3, <2>1, <2>2 DEF SlaveHas
<1>4. CASE SeesAnswer
  <2>1. SlaveHas(slave.active, slave.bits, FALSE, 1, slave.frame, slave.frames, slave.acks)
    BY <1>4, SlaveSees
  <2>2. ~SeesByte
    BY <1>4, Sees
  <2> QED
    BY <1>4, <2>1, <2>2 DEF SlaveHas
<1>5. CASE SeesStop
  <2>1. SlaveHas(FALSE, slave.bits, slave.answering, 1, slave.frame, Append(slave.frames, slave.frame), slave.acks)
    BY <1>5, SlaveSees
  <2>2. ~SeesByte
    BY <1>5 DEF SeesStop, SeesByte
  <2> QED
    BY <1>5, <2>1, <2>2 DEF SlaveHas
<1>6. CASE ~SeesStart /\ ~SeesBit /\ ~SeesByte /\ ~SeesAnswer /\ ~SeesStop
  <2>1. SlaveKept
    BY <1>6, SlaveSees
  <2> QED
    BY <1>6, <2>1 DEF SlaveKept, SlaveHas
<1> QED
  BY <1>1, <1>2, <1>3, <1>4, <1>5, <1>6

(* An answer goes from the slave to the caller without being overtaken.    *)
LEMMA AcknowledgedKept ==
    ASSUME DacInv, NEW accessing \in BOOLEAN, Stepped(accessing)
    PROVE  Acknowledged'
<1>1. /\ slave.acks \in Seq(Bit01) /\ returned \in Seq(Bit01) /\ Len(returned) \in Nat
      /\ \A i \in 1..Len(returned) : slave.acks[i] = returned[i]
      /\ Len(slave.acks) = Len(returned) + (IF Done \/ byte.c_state \in {"ST_ACK", "ST_STOP"} THEN 1 ELSE 0)
  BY DEF DacInv, DacTypeOK, SlaveStates, Acknowledged
<1>2. CASE ~UnderWay /\ ~go
  <2>1. slave'.acks = slave.acks /\ ~UnderWay' /\ (Returns \/ Proceeds)
    BY <1>2, RestingSteps DEF SlaveKept, SlaveHas
  <2>2. ~byte'.cmd_ack /\ byte'.ack_out = byte.ack_out /\ byte'.c_state = "ST_IDLE" /\ byte.c_state = "ST_IDLE"
    BY <1>2, Rests DEF ByteGoes, UnderWay
  <2>3. top'.rxack = byte.ack_out
    BY TopNext DEF DacInv, Stepped
  <2>4. CASE Returns
    <3>1. Done /\ ~Done' /\ driver'.op # "ack"
      BY <1>2, <2>4 DEF Returns, Done
    <3>2. driver.sr.rxack = slave.acks[Len(returned) + 1] /\ Len(slave.acks) = Len(returned) + 1
      BY <1>1, <2>4, <3>1 DEF Returns, DacInv, Acknowledged, Answer
    <3>3. Len(returned') = Len(returned) + 1 /\ \A i \in 1..Len(returned') : slave.acks[i] = returned'[i]
      <4> DEFINE a == slave.acks   r == returned   x == driver.sr.rxack   u == returned'
      <4>1. /\ a \in Seq(Bit01) /\ r \in Seq(Bit01) /\ x \in Bit01 /\ u = Append(r, x) /\ x = a[Len(r) + 1]
            /\ \A i \in 1..Len(r) : a[i] = r[i]
        BY <1>1, <2>4, <3>2 DEF Returns, DacInv, DacTypeOK, DriverStates
      <4> HIDE DEF a, r, x, u
      <4>2. Len(u) = Len(r) + 1 /\ (\A i \in 1..Len(r) : u[i] = r[i]) /\ u[Len(r) + 1] = x
        BY <4>1, AppendProperties
      <4>3. Len(r) \in Nat
        BY <4>1
      <4>4. \A i \in 1..Len(u) : a[i] = u[i]
        BY <4>1, <4>2, <4>3
      <4> QED
        BY <4>2, <4>4 DEF a, r, u
    <3> QED
      BY <1>1, <2>1, <2>2, <3>1, <3>2, <3>3 DEF Acknowledged
  <2>5. CASE Proceeds
    <3>1. (Done' <=> Done) /\ returned' = returned /\ Answer' = Answer
      BY <1>2, <2>1, <2>5 DEF Proceeds, Done, Reads, Answer
    <3>2. Done => byte.ack_out = Answer
      BY DEF DacInv, Acknowledged
    <3>3. driver'.op = "ack" => Done' /\ ~byte'.cmd_ack /\ ~byte.cmd_ack
      BY <1>2, <2>1, <2>2, <2>5 DEF Proceeds, Done
    <3>4. driver'.op = "ack" /\ driver'.phase = 2 => driver'.sr.rxack = Answer
      <4>1. SUFFICES ASSUME driver'.op = "ack", driver'.phase = 2 PROVE driver'.sr.rxack = Answer
        OBVIOUS
      <4>2. Done /\ ~byte.cmd_ack
        BY <3>1, <3>3, <4>1
      <4>3. driver.op = "ack" /\ driver'.sr.rxack = (IF driver.phase = 2 THEN driver.sr.rxack ELSE top.rxack)
        BY <2>5, <4>1 DEF Proceeds
      <4> QED
        BY <4>2, <4>3 DEF DacInv, Acknowledged
    <3> QED
      BY <1>1, <2>1, <2>2, <2>3, <3>1, <3>2, <3>3, <3>4 DEF Acknowledged
  <2> QED
    BY <2>1, <2>4, <2>5
<1>3. CASE UnderWay \/ Starts
  <2>1. driver'.op = "poll" /\ returned' = returned /\ ~Done
    BY <1>3, Meanwhile
  <2>2. CASE byte.c_state = "ST_WRITE" /\ bit.cmd_ack /\ byte.dcnt = 0
    <3>1. byte'.c_state = "ST_ACK" /\ ~Done'
      BY <2>2, Acked DEF Acks, ByteGoes, UnderWay, Done
    <3>2. SeesByte
      <4>1. bit.c_state = "idle" /\ Sent = 7
        BY <2>2, Pairs, ShiftRegister
      <4>2. bit.scl_oen = 0 /\ slave.scl = 1 /\ Got(8) /\ slave.active
        BY <2>2, <4>1 DEF DacInv, Writing, Has
      <4> QED
        BY <4>2, BusTyped DEF SeesByte, Got
    <3>3. PICK ack \in Bit01 : slave'.acks = Append(slave.acks, ack) /\ slave'.drive = ack
      BY <3>2, AnswersKept
    <3>4. Len(slave.acks) = Len(returned)
      BY <1>1, <2>1, <2>2
    <3>5. /\ Len(slave'.acks) = Len(returned) + 1 /\ slave'.acks[Len(returned) + 1] = ack
          /\ \A i \in 1..Len(returned) : slave'.acks[i] = returned[i]
      <4> DEFINE a == slave.acks   r == returned   u == slave'.acks
      <4>1. a \in Seq(Bit01) /\ u = Append(a, ack) /\ Len(a) = Len(r) /\ \A i \in 1..Len(r) : a[i] = r[i]
        BY <1>1, <3>3, <3>4
      <4> HIDE DEF a, r, u
      <4>2. Len(u) = Len(a) + 1 /\ (\A i \in 1..Len(a) : u[i] = a[i]) /\ u[Len(a) + 1] = ack
        BY <4>1, AppendProperties
      <4> QED
        BY <4>1, <4>2 DEF a, r, u
    <3> QED
      BY <2>1, <3>1, <3>3, <3>5 DEF Acknowledged, Answer
  <2>3. CASE ~(byte.c_state = "ST_WRITE" /\ bit.cmd_ack /\ byte.dcnt = 0)
    <3>1. slave'.acks = slave.acks
      <4>1. ~SeesByte
        <5>1. SUFFICES ASSUME SeesByte PROVE FALSE
          OBVIOUS
        <5>2. byte.c_state = "ST_WRITE" /\ bit.cmd_ack /\ Len(slave.bits) = 8 /\ bit.c_state = "idle"
          BY <5>1, Sees, Pairs
        <5>3. Len(slave.bits) = Sent + 1 /\ Sent = 7 - byte.dcnt /\ byte.dcnt \in 0..7 /\ Sent \in 0..7
          BY <5>2, ShiftRegister DEF DacInv, Writing, Got
        <5> DEFINE d == byte.dcnt   n == Sent
        <5>4. 8 = n + 1 /\ n = 7 - d /\ d \in 0..7 /\ n \in 0..7 /\ d # 0
          BY <2>3, <5>2, <5>3
        <5> HIDE DEF d, n
        <5> QED
          BY <5>4
      <4> QED
        BY <4>1, AnswersKept
    <3>2. Answer' = Answer
      BY <2>1, <3>1 DEF Answer
    <3>3. CASE byte.c_state = "ST_ACK" /\ bit.cmd_ack
      <4>1. /\ byte'.ack_out = bit.dout /\ (Done' \/ byte'.c_state = "ST_STOP")
            /\ byte'.c_state \in {"ST_IDLE", "ST_STOP"} /\ (Done' => byte'.cmd_ack)
        BY <2>1, <3>3, Acked DEF Acks, ByteGoes, UnderWay, Done
      <4>2. bit.dout = slave.drive /\ slave.drive = Answer
        BY <3>3, Pairs DEF DacInv, Answered, Acknowledged
      <4> QED
        BY <1>1, <2>1, <3>1, <3>2, <3>3, <4>1, <4>2 DEF Acknowledged
    <3>4. CASE byte.c_state = "ST_ACK" /\ ~bit.cmd_ack
      <4>1. byte'.c_state = "ST_ACK" /\ ~Done'
        BY <3>4, Waits DEF ByteGoes, UnderWay, Done
      <4>2. slave'.drive = slave.drive
        BY <3>4, Sees, AnswersKept
      <4> QED
        BY <1>1, <2>1, <3>1, <3>2, <3>4, <4>1, <4>2 DEF Acknowledged, DacInv
    <3>5. CASE byte.c_state = "ST_STOP"
      <4>1. /\ byte'.ack_out = byte.ack_out /\ (Done' \/ byte'.c_state = "ST_STOP")
            /\ byte'.c_state \in {"ST_IDLE", "ST_STOP"} /\ (Done' => byte'.cmd_ack)
        <5>1. CASE bit.cmd_ack
          BY <2>1, <3>5, <5>1, Acked DEF Acks, ByteGoes, UnderWay, Done
        <5>2. CASE ~bit.cmd_ack
          BY <3>5, <5>2, Waits DEF ByteGoes, UnderWay, Done
        <5> QED
          BY <5>1, <5>2
      <4> QED
        BY <1>1, <2>1, <3>1, <3>2, <3>5, <4>1 DEF Acknowledged, DacInv
    <3>6. CASE byte.c_state \in {"ST_IDLE", "ST_START", "ST_WRITE"}
      <4>1. byte'.c_state \in {"ST_START", "ST_WRITE"}
        <5>1. CASE Starts
          BY <5>1, StartsOne DEF ByteGoes
        <5>2. CASE Acks
          BY <2>3, <3>6, <5>2, Acked DEF Acks, ByteGoes, UnderWay
        <5>3. CASE UnderWay /\ ~bit.cmd_ack
          BY <3>6, <5>3, Waits DEF ByteGoes, UnderWay
        <5> QED
          BY <1>3, <5>1, <5>2, <5>3 DEF Acks
      <4>2. ~Done'
        BY <4>1 DEF Done, UnderWay
      <4> QED
        BY <1>1, <2>1, <3>1, <3>6, <4>1, <4>2 DEF Acknowledged
    <3> QED
      BY <3>3, <3>4, <3>5, <3>6, Pairs
  <2> QED
    BY <2>2, <2>3
<1> QED
  BY <1>2, <1>3 DEF Starts

(***************************************************************************)
(* The theorems.                                                           *)
(***************************************************************************)
(* The invariant holds when the firmware starts.                           *)
LEMMA DacInit ==
    ASSUME Init
    PROVE  DacInv
<1>1. /\ ClkCnt \in Nat /\ Len(Requests) \in Nat
  BY DacAssumption DEF DacAssumption
<1>2. /\ bit = [cnt |-> 0, clk_en |-> TRUE, dscl_oen |-> 1, sSCL |-> 1, sSDA |-> 1, dSCL |-> 1, dSDA |-> 1,
                sta |-> FALSE, sto |-> FALSE, busy |-> FALSE, cmd_stop |-> FALSE, al |-> FALSE, dout |-> 0,
                c_state |-> "idle", cmd_ack |-> FALSE, scl_oen |-> 1, sda_oen |-> 1, sda_chk |-> FALSE]
      /\ byte = [core_cmd |-> "NOP", core_txd |-> 0, sr |-> NoByte, shift |-> FALSE, ld |-> FALSE, dcnt |-> 0,
                 c_state |-> "ST_IDLE", cmd_ack |-> FALSE, ack_out |-> 0]
      /\ top = [prer |-> 65535, core_en |-> FALSE, txr |-> NoByte, cr |-> {}, al |-> FALSE, rxack |-> 0, tip |-> FALSE]
      /\ slave = [scl |-> 1, sda |-> 1, active |-> FALSE, bits |-> <<>>, answering |-> FALSE, drive |-> 1,
                  hold |-> FALSE, frame |-> <<>>, frames |-> <<>>, acks |-> <<>>]
      /\ driver = [op |-> "off", phase |-> 1, byte |-> 1, request |-> 1, sr |-> [tip |-> FALSE, rxack |-> 0]]
      /\ returned = <<>> /\ shorted = FALSE
  BY DEF Init, CoreInit, SlaveInit, DriverInit
<1>3. NoByte \in Bytes8
  BY DEF NoByte, Bytes8, Bit01
<1>4. BitOK
  BY <1>2 DEF BitOK, BitStates, Bit01
<1>5. byte \in ByteRegisters
  <2> HIDE DEF NoByte
  <2> QED
    BY <1>2, <1>3 DEF ByteRegisters, Bit01
<1>6. TopOK
  BY <1>2, <1>3 DEF TopOK, Bit01
<1>7. driver \in DriverStates
  BY <1>2 DEF DriverStates, Setup, Bit01
<1>8. slave \in SlaveStates
  BY <1>2 DEF SlaveStates, Bit01
<1>9. ~UnderWay /\ ~Done
  BY <1>2 DEF UnderWay, Done
<1>10. Registered
  BY <1>2 DEF Registered, Setup
<1>11. Commanded
  BY <1>2, <1>9 DEF Commanded
<1>12. Ticks /\ OwnSignals /\ Paired
  BY <1>2, <1>9 DEF Ticks, OwnSignals, Paired
<1>13. Shifting /\ Starting /\ Writing /\ Answered /\ Stopping
  BY <1>2 DEF Shifting, Starting, Writing, Answered, Stopping
<1>14. Resting
  BY <1>2, <1>9 DEF Resting, Free, Listening
<1>15. Framed
  BY <1>1, <1>2, <1>9 DEF Framed
<1>16. Acknowledged
  BY <1>2, <1>9 DEF Acknowledged
<1> QED
  BY <1>2, <1>4, <1>5, <1>6, <1>7, <1>8, <1>10, <1>11, <1>12, <1>13, <1>14, <1>15, <1>16 DEF DacInv, DacTypeOK

(* Every step on a healthy bus preserves the invariant.                    *)
LEMMA DacStep ==
    ASSUME DacInv, ~Faults, [Next]_vars
    PROVE  DacInv'
<1>1. CASE Next
  <2>1. PICK accessing \in BOOLEAN : Stepped(accessing)
    BY <1>1, StepIs DEF DacInv
  <2>2. DacTypeOK' /\ Registered' /\ Commanded' /\ Ticks' /\ OwnSignals'
    BY <2>1, DacTyped, RegisteredKept, CommandedKept, TicksKept, OwnSignalsKept
  <2>3. Paired' /\ Shifting' /\ Resting' /\ Starting' /\ Writing'
    BY <2>1, PairedKept, ShiftingKept, RestingKept, StartingKept, WritingKept
  <2>4. Answered' /\ Stopping' /\ Framed' /\ Acknowledged'
    BY <2>1, AnsweredKept, StoppingKept, FramedKept, AcknowledgedKept
  <2> QED
    BY <2>2, <2>3, <2>4 DEF DacInv
<1>2. CASE UNCHANGED vars
  <2>1. UNCHANGED <<bit, byte, top, driver, returned, slave, shorted>>
    BY <1>2 DEF vars, core_vars
  <2> USE <2>1
  <2>2. UnderWay' = UnderWay /\ Done' = Done /\ TheByte' = TheByte /\ Busy' = Busy /\ Sent' = Sent
    BY DEF UnderWay, Done, TheByte, Busy, Sent
  <2>3. DacTypeOK'
    BY DEF DacInv, DacTypeOK, BitOK, TopOK
  <2>4. Registered' /\ Commanded'
    BY <2>2 DEF DacInv, Registered, Commanded
  <2>5. Ticks' /\ OwnSignals' /\ Paired'
    BY <2>2 DEF DacInv, Ticks, OwnSignals, Paired
  <2>6. \A n : (Has(n)' <=> Has(n)) /\ (Got(n)' <=> Got(n)) /\ ToSend(n)' = ToSend(n)
    BY <2>2 DEF Has, Got, ToSend
  <2>7. (Listening' <=> Listening) /\ (Low' <=> Low) /\ (Free' <=> Free)
    BY DEF Listening, Low, Free
  <2>8. Shifting'
    BY <2>2 DEF DacInv, Shifting, ToSend
  <2>9. Resting' /\ Starting'
    BY <2>2, <2>7 DEF DacInv, Resting, Starting, Has, Got
  <2>10. Writing' /\ Answered' /\ Stopping'
    BY <2>2, <2>7 DEF DacInv, Writing, Answered, Stopping, Has, Got
  <2>11. Framed' /\ Acknowledged'
    BY <2>2 DEF DacInv, Framed, Acknowledged, Answer
  <2> QED
    BY <2>3, <2>4, <2>5, <2>8, <2>9, <2>10, <2>11 DEF DacInv
<1> QED
  BY <1>1, <1>2

(* On a healthy bus the invariant always holds.                            *)
LEMMA DacInvariant ==
    ASSUME ~Faults
    PROVE  Spec => []DacInv
<1>1. Init => DacInv
  BY DacInit
<1>2. DacInv /\ [Next]_vars => DacInv'
  BY DacStep
<1> QED
  BY <1>1, <1>2, PTL DEF Spec

(* A sequence that agrees with a longer one is its prefix.                 *)
LEMMA AgreeingPrefix ==
    ASSUME NEW S, NEW s \in Seq(S), NEW T, NEW t \in Seq(T), Len(s) <= Len(t), \A i \in 1..Len(s) : s[i] = t[i]
    PROVE  IsPrefix(s, t)
<1>1. Len(s) \in Nat /\ Len(t) \in Nat
  OBVIOUS
<1>2. s \in Seq(S) /\ Len(s) = Len(s)
  OBVIOUS
<1>3. SubSeq(s, 1, Len(s)) = s
  OBVIOUS
<1>4. Len(SubSeq(t, 1, Len(s))) = Len(s)
  BY <1>1
<1>5. \A i \in 1..Len(s) : SubSeq(t, 1, Len(s))[i] = t[i]
  BY <1>1
<1>6. SubSeq(t, 1, Len(s)) \in Seq(T)
  BY <1>1
<1>7. s = SubSeq(t, 1, Len(s))
  BY <1>4, <1>5, <1>6, SeqEqual
<1> QED
  BY <1>3, <1>7 DEF IsPrefix

(* Every frame the slave sees is the next one asked for, whatever it       *)
(* answers and however long it holds SCL, and the driver goes on only when *)
(* the last one has reached the slave with its STOP (main.c:358-371).      *)
THEOREM FramesAreAsRequested ==
    ASSUME ~Faults
    PROVE  Spec => []FramesAsRequested
<1>1. DacInv => FramesAsRequested
  <2>1. SUFFICES ASSUME DacInv PROVE FramesAsRequested
    OBVIOUS
  <2>2. slave.frames \in Seq(Seq(Seq(Bit01))) /\ Requests \in Seq([1..4 -> [1..8 -> {0, 1}]])
    BY <2>1, DacAssumption DEF DacInv, DacTypeOK, SlaveStates, DacAssumption
  <2>3. Len(slave.frames) <= Len(Requests) /\ \A i \in 1..Len(slave.frames) : slave.frames[i] = Requests[i]
    BY <2>1 DEF DacInv, Framed
  <2>4. IsPrefix(slave.frames, Requests)
    BY <2>2, <2>3, AgreeingPrefix
  <2>5. FrameComplete
    BY <2>1 DEF DacInv, Framed, FrameComplete, Done
  <2> QED
    BY <2>4, <2>5 DEF FramesAsRequested
<1> QED
  BY <1>1, DacInvariant, PTL

(* What the driver's calls return is the slave's answer to the byte they   *)
(* sent, never to an earlier one (i2c_opencores.c:79-86, 172-179).         *)
THEOREM ReturnsTheAcknowledge ==
    ASSUME ~Faults
    PROVE  Spec => []ReturnsAcknowledge
<1>1. DacInv => ReturnsAcknowledge
  <2>1. SUFFICES ASSUME DacInv PROVE ReturnsAcknowledge
    OBVIOUS
  <2>2. /\ returned \in Seq(Bit01) /\ slave.acks \in Seq(Bit01)
        /\ Len(slave.acks) = Len(returned) + (IF Done \/ byte.c_state \in {"ST_ACK", "ST_STOP"} THEN 1 ELSE 0)
        /\ \A i \in 1..Len(returned) : slave.acks[i] = returned[i]
    BY <2>1 DEF DacInv, DacTypeOK, SlaveStates, Acknowledged
  <2>3. Len(returned) \in Nat
    BY <2>2
  <2>4. Len(returned) <= Len(slave.acks)
    BY <2>2, <2>3
  <2>5. \A i \in 1..Len(returned) : returned[i] = slave.acks[i]
    BY <2>2
  <2>6. IsPrefix(returned, slave.acks)
    BY <2>2, <2>4, <2>5, AgreeingPrefix
  <2> QED
    BY <2>6 DEF ReturnsAcknowledge
<1> QED
  BY <1>1, DacInvariant, PTL

(* The core never takes its own signals for those of another master        *)
(* (i2c_master_bit_ctrl.v:305).                                            *)
THEOREM ArbitrationIsKept ==
    ASSUME ~Faults
    PROVE  Spec => []NoFalseArbitrationLoss
<1>1. DacInv => NoFalseArbitrationLoss
  BY DEF DacInv, DacTypeOK, BitOK, TopOK, NoFalseArbitrationLoss
<1> QED
  BY <1>1, DacInvariant, PTL

(* SDA changes while SCL is high only as the START and the STOP of a frame *)
(* (i2c_master_bit_ctrl.v:384-456).                                        *)
THEOREM BusIsClean ==
    ASSUME ~Faults
    PROVE  Spec => CleanBus
<1>1. ASSUME DacInv, [Next]_vars
      PROVE  [(scl = 1 /\ scl' = 1 /\ sda' # sda)
                  => bit'.c_state \in {"start_d", "idle"} /\ byte.core_cmd \in {"START", "STOP"}]_vars
  <2>1. SUFFICES ASSUME Next, scl = 1, scl' = 1, sda' # sda
                 PROVE  bit'.c_state \in {"start_d", "idle"} /\ byte.core_cmd \in {"START", "STOP"}
    BY <1>1
  <2>2. PICK accessing \in BOOLEAN : Stepped(accessing)
    BY <1>1, <2>1, StepIs DEF DacInv
  <2>3. DacTypeOK'
    BY <1>1, <2>2, DacTyped
  <2>4. /\ bit'.scl_oen = 1
        /\ sda = (IF bit.sda_oen = 1 /\ slave.drive = 1 THEN 1 ELSE 0)
        /\ sda' = (IF bit'.sda_oen = 1 /\ slave'.drive = 1 THEN 1 ELSE 0)
        /\ bit.scl_oen = 1
    BY <1>1, <2>1, <2>2, BusTyped DEF scl, sda, Stepped
  <2>5. slave'.drive = slave.drive
    <3>1. ~SeesByte /\ ~SeesAnswer
      BY <2>1 DEF SeesByte, SeesAnswer
    <3>2. CASE SeesStart
      <4>1. SlaveHas(TRUE, <<>>, FALSE, 1, <<>>, slave.frames, slave.acks)
        BY <1>1, <2>2, <3>2, SlaveSees
      <4>2. slave.drive = 1
        BY <1>1, <3>2, Sees DEF DacInv, Starting, Listening
      <4> QED
        BY <4>1, <4>2 DEF SlaveHas
    <3>3. CASE SeesStop
      <4>1. SlaveHas(FALSE, slave.bits, slave.answering, 1, slave.frame, Append(slave.frames, slave.frame), slave.acks)
        BY <1>1, <2>2, <3>3, SlaveSees
      <4>2. slave.drive = 1
        BY <1>1, <3>3, Sees DEF DacInv, Stopping, Listening
      <4> QED
        BY <4>1, <4>2 DEF SlaveHas
    <3>4. CASE ~SeesStart /\ ~SeesStop
      BY <1>1, <2>2, <3>1, <3>4, AnswersKept
    <3> QED
      BY <3>2, <3>3, <3>4
  <2>6. bit'.sda_oen # bit.sda_oen
    BY <2>1, <2>4, <2>5
  <2>7. Tock
    BY <1>1, <2>2, <2>6, Still
  <2>8. byte.c_state \in {"ST_START", "ST_WRITE", "ST_ACK", "ST_STOP"} /\ bit.clk_en /\ ~bit.cmd_ack
    BY <1>1, <2>2, <2>7, Pairs, Moves DEF Tock, UnderWay
  <2>9. CASE byte.c_state = "ST_START"
    <3>1. \/ Goes("idle", "start_a", bit.scl_oen, bit.sda_oen, FALSE)
          \/ Goes("start_a", "start_b", bit.scl_oen, 1, FALSE) \/ Goes("start_b", "start_c", 1, 1, FALSE)
          \/ Goes("start_c", "start_d", 1, 0, FALSE) \/ Goes("start_d", "start_e", 1, 0, FALSE)
          \/ Goes("start_e", "idle", 0, 0, FALSE)
      BY <1>1, <2>2, <2>7, <2>9, Moves
    <3>2. bit.c_state \notin {"start_d", "start_e"} => bit.sda_oen = 1
      BY <1>1, <2>8, <2>9, Levels DEF Free
    <3>3. bit.c_state = "start_d" => bit.sda_oen = 0
      BY <1>1, Levels
    <3>4. Goes("start_c", "start_d", 1, 0, FALSE)
      BY <2>4, <2>6, <3>1, <3>2, <3>3 DEF Goes
    <3> QED
      BY <1>1, <2>9, <3>4, Pairs DEF Goes
  <2>10. CASE byte.c_state = "ST_WRITE"
    <3>1. \/ Goes("idle", "wr_a", bit.scl_oen, bit.sda_oen, FALSE)
          \/ Goes("wr_a", "wr_b", 0, byte.core_txd, FALSE) \/ Goes("wr_b", "wr_c", 1, byte.core_txd, TRUE)
          \/ Goes("wr_c", "wr_d", 1, byte.core_txd, TRUE) \/ Goes("wr_d", "idle", 0, byte.core_txd, FALSE)
      BY <1>1, <2>2, <2>7, <2>10, Moves
    <3>2. bit.c_state \in {"wr_b", "wr_c"} => bit.sda_oen = byte.core_txd
      BY <1>1, <2>10, BitOut DEF DacInv, Writing, WriteStates
    <3> QED
      BY <2>4, <2>6, <3>1, <3>2 DEF Goes
  <2>11. CASE byte.c_state = "ST_ACK"
    <3>1. \/ Goes("idle", "rd_a", bit.scl_oen, bit.sda_oen, FALSE)
          \/ Goes("rd_a", "rd_b", 0, 1, FALSE) \/ Goes("rd_b", "rd_c", 1, 1, FALSE)
          \/ Goes("rd_c", "rd_d", 1, 1, FALSE) \/ Goes("rd_d", "idle", 0, 1, FALSE)
      BY <1>1, <2>2, <2>7, <2>11, Moves
    <3>2. bit.c_state \in {"rd_b", "rd_c"} => bit.sda_oen = 1
      BY <1>1, <2>11 DEF DacInv, Answered
    <3> QED
      BY <2>4, <2>6, <3>1, <3>2 DEF Goes
  <2>12. CASE byte.c_state = "ST_STOP"
    <3>1. \/ Goes("idle", "stop_a", bit.scl_oen, bit.sda_oen, FALSE)
          \/ Goes("stop_a", "stop_b", 0, 0, FALSE) \/ Goes("stop_b", "stop_c", 1, 0, FALSE)
          \/ Goes("stop_c", "stop_d", 1, 0, FALSE) \/ Goes("stop_d", "idle", 1, 1, FALSE)
      BY <1>1, <2>2, <2>7, <2>12, Moves
    <3>2. bit.c_state \in {"stop_b", "stop_c"} => bit.sda_oen = 0
      BY <1>1, <2>12 DEF DacInv, Stopping
    <3>3. Goes("stop_d", "idle", 1, 1, FALSE)
      BY <2>4, <2>6, <3>1, <3>2 DEF Goes
    <3> QED
      BY <1>1, <2>12, <3>3, Pairs DEF Goes
  <2> QED
    BY <2>8, <2>9, <2>10, <2>11, <2>12
<1> QED
  BY <1>1, DacInvariant, PTL DEF Spec, CleanBus
================================================================================
