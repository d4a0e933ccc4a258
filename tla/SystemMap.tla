------------------------------- MODULE SystemMap -------------------------------
(* Where the accesses of the program go.  The software side is system.h,   *)
(* linker.h and the register headers of the drivers; the hardware side is  *)
(* the interconnect's address decoder, the decoders of the cores and the   *)
(* interrupt mapper.  The two are generated and edited apart, and nothing  *)
(* but this agreement makes IOWR(base, reg, mask) reach what it names.     *)
(* A field is the set of its bits; an access names one field, and the      *)
(* hardware side says which fields those bits are.                         *)
EXTENDS Integers, FiniteSets, Sequences, Functions, TLC

----------------------------------------------------------------------------
(* The software side: base, span and interrupt number (-1: none)           *)

Device(base, span, irq) == [base |-> base, span |-> span, irq |-> irq]

LinkDevices ==
    [i2c_opencores_0 |-> Device(264544, 32, 4), jtag_uart_0 |-> Device(264208, 8, 0)]
FlashDevices ==
    [onchip_flash_0_csr |-> Device(655360, 8, -1), onchip_flash_0_data |-> Device(524288, 116736, -1)]
MemoryDevices == [onchip_memory2_0 |-> Device(0, 36250, -1)]
PioDevices ==
    [pio_0 |-> Device(264288, 16, -1), pio_1 |-> Device(264304, 16, -1),
     rx_char |-> Device(264480, 16, -1), rx_fifo_empty |-> Device(264512, 16, -1),
     rx_fifo_read |-> Device(264496, 16, -1)]
CoreDevices ==
    [spi_0 |-> Device(264224, 32, 1), sysid_qsys_0 |-> Device(264192, 8, -1),
     timer_0 |-> Device(264448, 32, 3), uart_0 |-> Device(264256, 32, 2)]
Devices == LinkDevices @@ FlashDevices @@ MemoryDevices @@ PioDevices @@ CoreDevices

(* A register as its header declares it: number, which of IORD and IOWR    *)
(* the drivers use, and the bits of its fields.                            *)
Reg(n, ops, fields) == [n |-> n, ops |-> ops, fields |-> fields]
R == {"read"}
W == {"write"}
RW == R \cup W

TimerRegs ==
    {Reg(0, RW, [TO |-> {0}, RUN |-> {1}]),
     Reg(1, RW, [ITO |-> {0}, CONT |-> {1}, START |-> {2}, STOP |-> {3}]),
     Reg(2, RW, [PERIODL |-> 0..15]), Reg(3, RW, [PERIODH |-> 0..15]),
     Reg(4, RW, [SNAPL |-> 0..15]), Reg(5, RW, [SNAPH |-> 0..15])}
UartErrors == [PE |-> {0}, FE |-> {1}, BRK |-> {2}, ROE |-> {3}, TOE |-> {4}]
UartRegs ==
    {Reg(0, R, [RXDATA |-> 0..7]), Reg(1, W, [TXDATA |-> 0..7]),
     Reg(2, RW, UartErrors @@ [TMT |-> {5}, TRDY |-> {6}, RRDY |-> {7}, E |-> {8},
                               DCTS |-> {10}, CTS |-> {11}, EOP |-> {12}]),
     Reg(3, RW, UartErrors @@ [TMT |-> {5}, TRDY |-> {6}, RRDY |-> {7}, E |-> {8},
                               DCTS |-> {10}, RTS |-> {11}])}
SpiRegs ==
    {Reg(0, R, [RXDATA |-> 0..7]), Reg(1, W, [TXDATA |-> 0..7]),
     Reg(2, RW, [ROE |-> {3}, TOE |-> {4}, TMT |-> {5}, TRDY |-> {6}, RRDY |-> {7}, E |-> {8}]),
     Reg(3, RW, [IROE |-> {3}, ITOE |-> {4}, ITRDY |-> {6}, IRRDY |-> {7}, IE |-> {8}, SSO |-> {10}]),
     Reg(5, RW, [SLAVE_SEL |-> 0..11])}
JtagRegs ==
    {Reg(0, R, [DATA |-> 0..7, RVALID |-> {15}, RAVAIL |-> 16..31]), Reg(0, W, [DATA |-> 0..7]),
     Reg(1, R, [RE |-> {0}, WE |-> {1}, RI |-> {8}, WI |-> {9}, AC |-> {10}, WSPACE |-> 16..31]),
     Reg(1, W, [RE |-> {0}, WE |-> {1}, AC |-> {10}])}
I2cRegs ==
    {Reg(0, RW, [PRERLO |-> 0..7]), Reg(1, RW, [PRERHI |-> 0..7]),
     Reg(2, RW, [EN |-> {7}, IEN |-> {6}]), Reg(3, W, [TXR |-> 0..7]), Reg(3, R, [RXR |-> 0..7]),
     Reg(4, W, [STA |-> {7}, STO |-> {6}, RD |-> {5}, WR |-> {4}, NACK |-> {3}, IACK |-> {0}]),
     Reg(4, R, [RXNACK |-> {7}, BUSY |-> {6}, AL |-> {5}, TIP |-> {1}, IFLAG |-> {0}])}
PioRegs(ops, width) == {Reg(0, ops, [DATA |-> 0..width - 1])}
SysidRegs == {Reg(0, R, [ID |-> 0..31]), Reg(1, R, [TIMESTAMP |-> 0..31])}

(* The fields the flash driver uses; it never looks at SECTORn_READONLY,   *)
(* which this version of the controller does not have.                     *)
FlashStatusFields ==
    [BUSY |-> 0..1, READ |-> {2}, WRITE |-> {3}, ERASE |-> {4}, SECTOR1 |-> {5},
     SECTOR2 |-> {6}, SECTOR3 |-> {7}, SECTOR4 |-> {8}, SECTOR5 |-> {9}]
FlashControlFields ==
    [PAGE_ERASE |-> 0..19, SECTOR_ERASE |-> 20..22, SECTOR1_PROTECT |-> {23},
     SECTOR2_PROTECT |-> {24}, SECTOR3_PROTECT |-> {25}, SECTOR4_PROTECT |-> {26},
     SECTOR5_PROTECT |-> {27}, ERASE_STATE |-> 30..31]
FlashRegs ==
    {Reg(0, R, FlashStatusFields), Reg(1, R, FlashControlFields),
     Reg(1, W, [f \in DOMAIN FlashControlFields \ {"ERASE_STATE"} |-> FlashControlFields[f]])}

RegsOf ==
    [i2c_opencores_0 |-> I2cRegs, jtag_uart_0 |-> JtagRegs,
     onchip_flash_0_csr |-> FlashRegs,
     pio_0 |-> PioRegs(R, 8), pio_1 |-> PioRegs(W, 8), rx_char |-> PioRegs(R, 8),
     rx_fifo_empty |-> PioRegs(R, 1), rx_fifo_read |-> PioRegs(W, 1),
     spi_0 |-> SpiRegs, sysid_qsys_0 |-> SysidRegs, timer_0 |-> TimerRegs, uart_0 |-> UartRegs]

(* A register number used as a byte offset.                                *)
Address_Dynamic(device, n) == Devices[device].base + n

(* IORD() and IOWR() of io.h: registers are 32 bits apart.                 *)
Address(device, n) == Devices[device].base + n * 4

(* What is named by the byte: both ends of the linker's regions and of the *)
(* flash sectors, and the vectors the CPU was built with.                  *)
Regions ==
    {[device |-> "onchip_flash_0_data", base |-> 524288, span |-> 32],
     [device |-> "onchip_flash_0_data", base |-> 524320, span |-> 116704],
     [device |-> "onchip_memory2_0", base |-> 0, span |-> 32],
     [device |-> "onchip_memory2_0", base |-> 32, span |-> 36218]}
FlashSectors == {[first |-> 0, last |-> 16383], [first |-> 16384, last |-> 32767], [first |-> 32768, last |-> 116735]}
Vectors ==
    {[device |-> "onchip_flash_0_data", address |-> 524288],
     [device |-> "onchip_memory2_0", address |-> 32], [device |-> "debug", address |-> 262176]}

----------------------------------------------------------------------------
(* The hardware side: the address decoder of the data master.  Each entry  *)
(* has its start, its size and the slave behind its channel; some are      *)
(* decoded for reads only.  What matches nothing goes to channel 4.        *)

Entry(start, size, slave) == [start |-> start, size |-> size, slave |-> slave, ops |-> RW]
ReadOnly(e) == [e EXCEPT !.ops = R]

Routes ==
    {Entry(0, 65536, "onchip_memory2_0"), Entry(262144, 2048, "debug"),
     ReadOnly(Entry(264192, 8, "sysid_qsys_0")), Entry(264208, 8, "jtag_uart_0"),
     Entry(264224, 32, "spi_0"), Entry(264256, 32, "uart_0"),
     ReadOnly(Entry(264288, 16, "pio_0")), Entry(264304, 16, "pio_1"),
     Entry(264448, 32, "timer_0"), ReadOnly(Entry(264480, 16, "rx_char")),
     Entry(264496, 16, "rx_fifo_read"), ReadOnly(Entry(264512, 16, "rx_fifo_empty")),
     Entry(264544, 32, "i2c_opencores_0"), Entry(524288, 131072, "onchip_flash_0_data"),
     Entry(655360, 8, "onchip_flash_0_csr")}
DEFAULT_CHANNEL == "onchip_flash_0_data"

(* Every size is a power of two, so an entry matches when the address with *)
(* its low bits cleared is its start.                                      *)
Matches(e, address, op) == (address \div e.size) * e.size = e.start /\ op \in e.ops
Routed(address, op) ==
    IF \E e \in Routes : Matches(e, address, op)
    THEN (CHOOSE e \in Routes : Matches(e, address, op)).slave ELSE DEFAULT_CHANNEL

(* The decoder of the instruction master knows the three that hold code.   *)
Fetched(address) ==
    LET code == {e \in Routes : e.slave \in {"onchip_memory2_0", "debug", "onchip_flash_0_data"}}
    IN  IF \E e \in code : Matches(e, address, "read")
        THEN (CHOOSE e \in code : Matches(e, address, "read")).slave ELSE DEFAULT_CHANNEL

(* What the cores make of the bits: a register is a sequence of fields     *)
(* from bit 0 up, with "" for a bit that is not there.                     *)
Wide(name, n) == [i \in 1..n |-> name]
Bits(fields) == [b \in 0..Len(fields) - 1 |-> fields[b + 1]]

TimerCore(a, op) ==
    CASE a = 0 -> Bits(<<"TO", "RUN">>)
      [] a = 1 -> Bits(<<"ITO", "CONT", "START", "STOP">>)
      [] a \in 2..5 -> Bits(Wide(<<"PERIODL", "PERIODH", "SNAPL", "SNAPH">>[a - 1], 16))
      [] OTHER -> <<>>
UartCore(a, op) ==
    LET low == <<"PE", "FE", "BRK", "ROE", "TOE", "TMT", "TRDY", "RRDY", "E">> IN
    CASE a = 0 /\ op = "read" -> Bits(Wide("RXDATA", 8))
      [] a = 1 -> Bits(Wide("TXDATA", 8))
      [] a = 2 -> Bits(low \o <<"", "DCTS", "CTS", "EOP">>)
      [] a = 3 -> Bits(low \o <<"do_force_break", "DCTS", "RTS">>)
      [] OTHER -> <<>>
SpiCore(a, op) ==
    CASE a = 0 /\ op = "read" -> Bits(Wide("RXDATA", 8))
      [] a = 1 /\ op = "write" -> Bits(Wide("TXDATA", 8))
      [] a = 2 -> Bits(<<"", "", "", "ROE", "TOE", "TMT", "TRDY", "RRDY", "E", "EOP">>)
      [] a = 3 -> Bits(<<"", "", "", "IROE", "ITOE", "", "ITRDY", "IRRDY", "IE", "IEOP", "SSO">>)
      [] a = 5 -> Bits(Wide("SLAVE_SEL", 16))
      [] OTHER -> <<>>
JtagCore(a, op) ==
    LET flags == <<"RI", "WI", "AC", "", "", "", "", "RVALID">> IN
    CASE a = 0 /\ op = "read" -> Bits(Wide("DATA", 8) \o flags \o Wide("RAVAIL", 16))
      [] a = 0 /\ op = "write" -> Bits(Wide("DATA", 8))
      [] OTHER -> Bits(<<"RE", "WE", "", "", "", "", "", "">> \o flags \o Wide("WSPACE", 16))
I2cCore(a, op) ==
    CASE a \in 0..1 -> Bits(Wide(<<"PRERLO", "PRERHI">>[a + 1], 8))
      [] a = 2 -> Bits(<<"", "", "", "", "", "", "IEN", "EN">>)
      [] a = 3 -> Bits(Wide(IF op = "write" THEN "TXR" ELSE "RXR", 8))
      [] a = 4 /\ op = "write" -> Bits(<<"IACK", "", "", "NACK", "WR", "RD", "STO", "STA">>)
      [] a = 4 /\ op = "read" -> Bits(<<"IFLAG", "TIP", "", "", "", "AL", "BUSY", "RXNACK">>)
      [] OTHER -> <<>>
PioCore(a, width) == IF a = 0 THEN Bits(Wide("DATA", width)) ELSE <<>>
SysidCore(a) == Bits(Wide(IF a = 1 THEN "TIMESTAMP" ELSE "ID", 32))
FlashCore(a, op) ==
    IF a = 0
    THEN Bits(<<"BUSY", "BUSY", "READ", "WRITE", "ERASE", "SECTOR1", "SECTOR2", "SECTOR3", "SECTOR4", "SECTOR5">>)
    ELSE Bits(Wide("PAGE_ERASE", 20) \o Wide("SECTOR_ERASE", 3)
              \o <<"SECTOR1_PROTECT", "SECTOR2_PROTECT", "SECTOR3_PROTECT", "SECTOR4_PROTECT",
                   "SECTOR5_PROTECT", "", "", "ERASE_STATE", "ERASE_STATE">>)

(* A slave sees the word of the address, by as many bits as its port has.  *)
Decoded(slave, address, op) ==
    LET word(bits) == (address \div 4) % 2^bits IN
    CASE slave = "timer_0" -> TimerCore(word(3), op)
      [] slave = "uart_0" -> UartCore(word(3), op)
      [] slave = "spi_0" -> SpiCore(word(3), op)
      [] slave = "jtag_uart_0" -> JtagCore(word(1), op)
      [] slave = "i2c_opencores_0" -> I2cCore(word(3), op)
      [] slave \in {"pio_0", "pio_1", "rx_char"} -> PioCore(word(2), 8)
      [] slave \in {"rx_fifo_empty", "rx_fifo_read"} -> PioCore(word(2), 1)
      [] slave = "sysid_qsys_0" -> SysidCore(word(1))
      [] slave = "onchip_flash_0_csr" -> FlashCore(word(1), op)
      [] OTHER -> <<>>

(* The interrupt mapper, by the line of the core and its bit of ipending.  *)
IrqLine ==
    [i2c_opencores_0 |-> 4, jtag_uart_0 |-> 0, spi_0 |-> 1, uart_0 |-> 2, timer_0 |-> 3]

----------------------------------------------------------------------------

VARIABLES
    access,   \* what the program names: register, byte, vector or interrupt
    reached   \* what the hardware makes of it, {} before it answers

map_vars == <<access, reached>>

MapInit == access = [kind |-> "none"] /\ reached = {}

(* IORD or IOWR of one field of a register.                                *)
UseRegister(device, reg, op, field) ==
    /\ access' = [kind |-> "register", op |-> op, address |-> Address(device, reg.n),
                  bits |-> reg.fields[field], names |-> {<<device, field>>}]
    /\ reached' = {}

(* A load or store of code, data or flash, at either end of a region.      *)
UseMemory(device, address, op) ==
    /\ access' = [kind |-> "memory", op |-> op, address |-> address, names |-> {<<device>>}]
    /\ reached' = {}

FetchVector(v) ==
    /\ access' = [kind |-> "fetch", address |-> v.address, names |-> {<<v.device>>}]
    /\ reached' = {}

Raise(device) ==
    /\ access' = [kind |-> "irq", line |-> IrqLine[device], names |-> {<<device>>}]
    /\ reached' = {}

HardwareAnswers ==
    /\ access.kind # "none"
    /\ reached' =
         CASE access.kind = "register" ->
                LET slave == Routed(access.address, access.op)
                    core == Decoded(slave, access.address, access.op)
                IN  {<<slave, IF b \in DOMAIN core THEN core[b] ELSE "">> : b \in access.bits}
           [] access.kind = "memory" -> {<<Routed(access.address, access.op)>>}
           [] access.kind = "fetch" -> {<<Fetched(access.address)>>}
           [] OTHER -> {<<d>> : d \in {d \in DOMAIN Devices : Devices[d].irq = access.line}}
    /\ UNCHANGED access

MapNext ==
    \/ \E device \in DOMAIN RegsOf : \E reg \in RegsOf[device] :
           \E op \in reg.ops, field \in DOMAIN reg.fields : UseRegister(device, reg, op, field)
    \/ \E r \in Regions, op \in RW :
           \E address \in {r.base, r.base + r.span - 1} : UseMemory(r.device, address, op)
    \/ \E s \in FlashSectors, op \in RW : \E offset \in {s.first, s.last} :
           UseMemory("onchip_flash_0_data", Devices["onchip_flash_0_data"].base + offset, op)
    \/ \E v \in Vectors : FetchVector(v)
    \/ \E device \in DOMAIN IrqLine : Raise(device)
    \/ HardwareAnswers

----------------------------------------------------------------------------

(* Every register access, load, store and fetch the software makes reaches *)
(* the slave and the bits system.h and the register headers name, and the  *)
(* interrupt of a core calls the handler registered under its number: the  *)
(* generated hardware and the generated headers have not drifted apart.    *)
AccessesArrive == reached # {} => reached = access.names
================================================================================
