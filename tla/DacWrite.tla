------------------------------- MODULE DacWrite -------------------------------
(***************************************************************************)
(* write_ltc2605() of main.c over the polled driver i2c_opencores.c, the   *)
(* I2C master and an LTC2605 on the bus.  One step per clock edge; on an   *)
(* edge the CPU may do its part of a bus access or nothing.  A write is on *)
(* the bus for two edges (wb_ack_o is registered), a read is taken on the  *)
(* edge behind the one that latched it.                                    *)
(***************************************************************************)
EXTENDS I2cMaster, SequencesExt

CONSTANTS
    Requests,    \* the frames to write: sequences of four bytes
    ClkCnt,      \* the prescale value I2C_init() computes
    Stretches,   \* whether the slave may hold SCL low: {FALSE} or BOOLEAN
    Faults       \* whether something may pull SDA low for good

(* 99 at 50 MHz and 100 kHz (i2c_opencores.c:36). *)
ASSUME DacAssumption ==
    /\ ClkCnt \in Nat \ {0} /\ ClkCnt < 65536
    /\ Requests \in Seq([1..4 -> [1..8 -> {0, 1}]])
    /\ Stretches \subseteq BOOLEAN /\ Faults \in BOOLEAN

VARIABLES
    driver,      \* [op, phase, byte, request, sr]: where the CPU is
    returned,    \* history: what I2C_start and I2C_write returned, 0 for ACK
    slave,       \* the LTC2605
    shorted      \* something holds SDA low

vars == <<core_vars, driver, returned, slave, shorted>>

scl == IF bit.scl_oen = 1 /\ ~slave.hold THEN 1 ELSE 0
sda == IF bit.sda_oen = 1 /\ slave.drive = 1 /\ ~shorted THEN 1 ELSE 0

--------------------------------------------------------------------------------
(***************************************************************************)
(* The slave, from the way main.c uses it: it collects the bits of a frame *)
(* on the rising edges of SCL and answers each byte, or does not, in the   *)
(* ninth clock.  scl and sda are the lines it saw one edge ago.            *)
(***************************************************************************)
SlaveInit == slave = [scl |-> 1, sda |-> 1, active |-> FALSE, bits |-> <<>>, answering |-> FALSE,
                      drive |-> 1, hold |-> FALSE, frame |-> <<>>, frames |-> <<>>, acks |-> <<>>]

SlaveStart == [slave EXCEPT !.active = TRUE, !.bits = <<>>, !.frame = <<>>, !.answering = FALSE,
                            !.drive = 1]
SlaveStop  == [slave EXCEPT !.active = FALSE, !.frames = Append(@, slave.frame), !.drive = 1]
SlaveBit   == [slave EXCEPT !.bits = Append(@, sda)]
SlaveAnswer(ack) ==
    [slave EXCEPT !.answering = TRUE, !.drive = IF ack THEN 0 ELSE 1,
                  !.frame = Append(@, slave.bits), !.bits = <<>>,
                  !.acks = Append(@, IF ack THEN 0 ELSE 1)]
SlaveRelease == [slave EXCEPT !.answering = FALSE, !.drive = 1]

SlaveReacts ==
    CASE slave.scl = 1 /\ scl = 1 /\ slave.sda = 1 /\ sda = 0 -> {SlaveStart}
      [] slave.scl = 1 /\ scl = 1 /\ slave.sda = 0 /\ sda = 1 /\ slave.active -> {SlaveStop}
      [] slave.scl = 0 /\ scl = 1 /\ slave.active /\ ~slave.answering -> {SlaveBit}
      [] slave.scl = 1 /\ scl = 0 /\ slave.active /\ Len(slave.bits) = 8 ->
            {SlaveAnswer(ack) : ack \in BOOLEAN}
      [] slave.scl = 1 /\ scl = 0 /\ slave.active /\ slave.answering -> {SlaveRelease}
      [] OTHER -> {slave}

(* It may hold SCL low once the master has pulled it low. *)
SlaveEdge ==
    \E s \in SlaveReacts, h \in Stretches :
        /\ h => scl = 0
        /\ slave' = [s EXCEPT !.scl = scl, !.sda = sda, !.hold = h]

ShortCircuit == shorted' \in (IF Faults THEN {shorted, TRUE} ELSE {shorted})

--------------------------------------------------------------------------------
(***************************************************************************)
(* The driver.  I2C_init() writes CTR, CR, both halves of PRER and CTR;    *)
(* each byte of a frame then takes a write of TXR, one of CR, a loop reading SR until TIP *)
(* is clear, and one more read of SR for the acknowledge.                  *)
(***************************************************************************)
(* Mutant of CommandOf: every byte is sent with a START of its own. *)
CommandOf_StartEach(n) == IF n = 4 THEN {"STA", "WR", "STO"} ELSE {"STA", "WR"}

CommandOf(n) == CASE n = 1 -> {"STA", "WR"} [] n = 4 -> {"WR", "STO"} [] OTHER -> {"WR"}

Status == [tip |-> top.tip, rxack |-> top.rxack]

DriverInit ==
    /\ driver = [op |-> "off", phase |-> 1, byte |-> 1, request |-> 1,
                 sr |-> [tip |-> FALSE, rxack |-> 0]]
    /\ returned = <<>>

BusWrite ==
    CASE driver.op = "off"   -> Write("CTR", FALSE)
      [] driver.op = "iack"  -> Write("CR", {"IACK"})
      [] driver.op = "prerlo" -> Write("PRERLO", ClkCnt % 256)
      [] driver.op = "prerhi" -> Write("PRERHI", ClkCnt \div 256)
      [] driver.op = "on"    -> Write("CTR", TRUE)
      [] driver.op = "txr"   -> Write("TXR", Requests[driver.request][driver.byte])
      [] driver.op = "cr"    -> Write("CR", CommandOf(driver.byte))
      [] OTHER               -> NoWrite

Writes == {"off", "iack", "prerlo", "prerhi", "on", "txr", "cr"}
Reads  == {"poll", "ack"}

(* What the CPU does behind a write, and behind a read of SR. *)
AfterWrite == CASE driver.op = "off" -> "iack"      [] driver.op = "iack" -> "prerlo"
                [] driver.op = "prerlo" -> "prerhi" [] driver.op = "prerhi" -> "on"
                [] driver.op = "on" -> "txr"        [] driver.op = "txr" -> "cr"
                [] driver.op = "cr" -> "poll"

NextByte == IF driver.byte < 4 THEN [driver EXCEPT !.op = "txr", !.phase = 1, !.byte = @ + 1]
            ELSE [driver EXCEPT !.op = "txr", !.phase = 1, !.byte = 1, !.request = @ + 1]

Busy == driver.request <= Len(Requests)

(* Mutant of PollDone: the loop is left while the transfer is in progress. *)
PollDone_Inverted ==
    /\ driver.op = "poll" /\ driver.phase = 2
    /\ driver' = [driver EXCEPT !.op = IF driver.sr.tip THEN "ack" ELSE "poll", !.phase = 1]
    /\ UNCHANGED returned

WriteAccess ==
    /\ Busy /\ driver.op \in Writes
    /\ driver' = IF driver.phase = 1 THEN [driver EXCEPT !.phase = 2]
                 ELSE [driver EXCEPT !.op = AfterWrite, !.phase = 1]
    /\ UNCHANGED returned

ReadLatch ==
    /\ Busy /\ driver.op \in Reads /\ driver.phase = 1
    /\ driver' = [driver EXCEPT !.phase = 2, !.sr = Status]
    /\ UNCHANGED returned

PollDone ==
    /\ driver.op = "poll" /\ driver.phase = 2
    /\ driver' = [driver EXCEPT !.op = IF driver.sr.tip THEN "poll" ELSE "ack", !.phase = 1]
    /\ UNCHANGED returned

Return ==
    /\ driver.op = "ack" /\ driver.phase = 2
    /\ driver' = NextByte
    /\ returned' = Append(returned, driver.sr.rxack)

Access == WriteAccess \/ ReadLatch \/ PollDone \/ Return

(* The CPU does something else; a write that is on the bus is finished.    *)
NoAccess == ~(driver.op \in Writes /\ driver.phase = 2) /\ UNCHANGED <<driver, returned>>

(* What the core sees of it: a write for its two edges. *)
OnBus(accessing) == IF accessing /\ driver.op \in Writes /\ Busy THEN BusWrite ELSE NoWrite

--------------------------------------------------------------------------------
Init == CoreInit /\ SlaveInit /\ DriverInit /\ shorted = FALSE

Edge(access, accessing) ==
    /\ access
    /\ CoreEdge(OnBus(accessing), scl, sda)
    /\ SlaveEdge
    /\ ShortCircuit

Next == Edge(Access, TRUE) \/ Edge(NoAccess, FALSE)

Spec == Init /\ [][Next]_vars

(* The CPU makes its next access at some edge, which is                    *)
(* WF_vars(Edge(Access, TRUE)) with its ENABLED written out, and a slave   *)
(* that holds SCL lets go of it.                                           *)
FairSpec ==
    /\ Spec
    /\ []<>~Busy \/ []<><<Edge(Access, TRUE)>>_vars
    /\ []<>~slave.hold

--------------------------------------------------------------------------------
(* When the driver goes on to the next frame, the last one is complete:    *)
(* TIP covers the STOP condition too (main.c:362-368).                     *)
FrameComplete ==
    (driver.op = "txr" /\ driver.byte = 1 /\ driver.phase = 1)
        => Len(slave.frames) = driver.request - 1

(* Every frame the slave saw, from START to STOP, is the next one asked    *)
(* for, whatever the slave answered; none is cut, merged or repeated, and  *)
(* none is still under way when the driver starts the next (main.c:358-371). *)
FramesAsRequested == IsPrefix(slave.frames, Requests) /\ FrameComplete

(* I2C_start and I2C_write return 0 exactly when the byte they sent was    *)
(* acknowledged (i2c_opencores.c:60-62, 146-148): the second read of SR    *)
(* finds the acknowledge of this byte, not of an earlier one.              *)
ReturnsAcknowledge == IsPrefix(returned, slave.acks)

(* I2C_start returns 0 only for an address that was sent and acknowledged  *)
(* (i2c_opencores.c:60-62): nothing returns before the slave's answer.        *)
ReturnsOnlyAnswers == Len(returned) <= Len(slave.acks)

(* On the wire SDA changes while SCL is high only as the START and the     *)
(* STOP of a frame (i2c_master_bit_ctrl.v:384-456).                        *)
CleanBus == [][(scl = 1 /\ scl' = 1 /\ sda' # sda)
                  => bit'.c_state \in {"start_d", "idle"} /\ byte.core_cmd \in {"START", "STOP"}]_vars

(* With one master and a healthy bus the core never takes its own signals  *)
(* for another master's (i2c_master_bit_ctrl.v:305).                       *)
NoFalseArbitrationLoss == ~bit.al /\ ~top.al

(* write_ltc2605() returns: the polling loops end. *)
AllWritten == <>(driver.request > Len(Requests))
================================================================================
