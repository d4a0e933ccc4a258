------------------------------- MODULE SpiMaster -------------------------------
(***************************************************************************)
(* The SPI master of the Nios II system (spi_0: CPOL = 1, CPHA = 1, MSB    *)
(* first), one step per clock edge.  The core is one record, and NextCore  *)
(* gives its value behind an edge.  A byte has Width bits (8 in the        *)
(* hardware) and half a bit takes Divisor edges (500), which leaves the    *)
(* two of the synchroniser of MISO room between two edges of SCLK.         *)
(*                                                                         *)
(* End-of-packet, interrupts and the clearing of the status are left out:  *)
(* the firmware uses none of them.                                         *)
(***************************************************************************)
EXTENDS Naturals, Sequences

CONSTANTS Slaves,    \* the chip selects
          Boards,    \* which of them share a MISO line: a partition of Slaves
          Width,
          Divisor

ASSUME SpiAssumption ==
    /\ Width \in Nat \ {0} /\ Divisor \in Nat \ {0, 1, 2}
    /\ UNION Boards = Slaves

Bits  == {0, 1}
Bytes == [1..Width -> Bits]
Zero  == [i \in 1..Width |-> 0]
LastState == 2 * Width + 1

(* What the bus presents to the slave port on an edge. *)
NoBus             == [kind |-> "none",  reg |-> "none", data |-> {}]
Read(reg)         == [kind |-> "read",  reg |-> reg,    data |-> {}]
Write(reg, data)  == [kind |-> "write", reg |-> reg,    data |-> data]

VARIABLE core

CoreReset(rrdy) ==
    [strobe              |-> FALSE,   \* rd_strobe or wr_strobe: second cycle of an access
     data_to_cpu         |-> [status |-> {}, data |-> Zero],
     SSO_reg             |-> FALSE,
     slave_select        |-> {},      \* spi_slave_select_reg, as the set of its bits
     slave_select_hold   |-> {},      \* spi_slave_select_holding_reg
     slowcount           |-> 0,
     state               |-> 0,       \* stateZero always says whether it is 0
     shift_reg           |-> Zero,
     rx_holding_reg      |-> Zero,
     tx_holding_reg      |-> Zero,
     tx_holding_primed   |-> FALSE,
     transmitting        |-> FALSE,
     transaction_primed  |-> FALSE,
     SCLK                |-> 1,
     MISO_reg            |-> 0,
     sync                |-> <<0, 0>>, \* altera_std_synchronizer
     RRDY                |-> rrdy,
     ROE                 |-> FALSE,
     TOE                 |-> FALSE]

TRDY(c) == ~(c.transmitting /\ c.tx_holding_primed)
TMT(c)  == ~c.transmitting /\ ~c.tx_holding_primed
Status(c) == {f \in {"RRDY", "TRDY", "TMT"} :
                 \/ f = "RRDY" /\ c.RRDY
                 \/ f = "TRDY" /\ TRDY(c)
                 \/ f = "TMT"  /\ TMT(c)}

slowclock(c)       == c.slowcount = Divisor - 1
write_shift_reg(c) == c.tx_holding_primed /\ ~c.transmitting

(* SS_n: the slaves that are selected. *)
Selected(c) ==
    IF (c.transmitting /\ c.state # 0) \/ c.SSO_reg THEN c.slave_select ELSE {}

(* The multiplexer of tmc_firmware_top.v: the line of the board whose chip *)
(* is selected, provided that no other chip is.                            *)
MisoOf(c, line) ==
    IF \E s \in Slaves : Selected(c) = {s}
    THEN line[CHOOSE b \in Boards : Selected(c) \subseteq b]
    ELSE 0

ShiftIn(reg, bit) == Append(Tail(reg), bit)

(* Mutant of shifts: the register is shifted on the leading edge, too. *)
shifts_Both(c) == slowclock(c) /\ c.state \notin {0, 1}

(* The edges on which a bit goes into the shift register. *)
shifts(c) == slowclock(c) /\ c.SCLK = 1 /\ c.state \notin {0, 1}

NextRRDY(c, data_rd) ==
    \/ c.transaction_primed
    \/ c.RRDY /\ ~data_rd

NextCore(c, bus, line) ==
    LET wrote(reg) == c.strobe /\ bus.kind = "write" /\ bus.reg = reg
        data_rd    == c.strobe /\ bus.kind = "read" /\ bus.reg = "RXDATA"
        accepted   == wrote("TXDATA") /\ TRDY(c)
    IN
    [strobe |-> ~c.strobe /\ bus.kind # "none",
     data_to_cpu |-> IF bus.reg = "STATUS" THEN [status |-> Status(c), data |-> Zero]
                     ELSE [status |-> {}, data |-> c.rx_holding_reg],
     SSO_reg |-> IF wrote("CONTROL") THEN "SSO" \in bus.data ELSE c.SSO_reg,
     slave_select_hold |-> IF wrote("SLAVE_SEL") THEN bus.data ELSE c.slave_select_hold,
     slave_select |->
         IF write_shift_reg(c) \/ (wrote("CONTROL") /\ "SSO" \in bus.data /\ ~c.SSO_reg)
         THEN c.slave_select_hold ELSE c.slave_select,
     slowcount |-> IF c.transmitting /\ ~slowclock(c) THEN c.slowcount + 1 ELSE 0,
     state |-> IF c.transmitting /\ slowclock(c)
               THEN (IF c.state = LastState THEN 0 ELSE c.state + 1) ELSE c.state,
     tx_holding_reg |-> IF accepted THEN bus.data ELSE c.tx_holding_reg,
     tx_holding_primed |-> accepted \/ (c.tx_holding_primed /\ ~write_shift_reg(c)),
     TOE |-> c.TOE \/ (wrote("TXDATA") /\ ~TRDY(c)),
     shift_reg |-> IF shifts(c) THEN ShiftIn(c.shift_reg, c.MISO_reg)
                   ELSE IF write_shift_reg(c) THEN c.tx_holding_reg ELSE c.shift_reg,
     transmitting |-> ~c.transaction_primed /\ (c.transmitting \/ write_shift_reg(c)),
     transaction_primed |-> slowclock(c) /\ c.state = LastState,
     RRDY |-> NextRRDY(c, data_rd),
     ROE |-> c.ROE \/ (c.transaction_primed /\ c.RRDY),
     rx_holding_reg |-> IF c.transaction_primed THEN c.shift_reg ELSE c.rx_holding_reg,
     SCLK |-> IF slowclock(c) /\ c.transmitting /\ c.state \notin {0, LastState} THEN 1 - c.SCLK
              ELSE IF c.transaction_primed THEN 1 ELSE c.SCLK,
     MISO_reg |-> IF slowclock(c) /\ c.SCLK = 0 THEN c.sync[2] ELSE c.MISO_reg,
     sync |-> <<MisoOf(c, line), c.sync[1]>>]
================================================================================
