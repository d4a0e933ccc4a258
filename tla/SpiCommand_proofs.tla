--------------------------- MODULE SpiCommand_proofs ---------------------------
(***************************************************************************)
(* The SPI commands, for every width of a byte, every divisor of the       *)
(* clock, every set of converters and everything the program asks of them. *)
(***************************************************************************)
EXTENDS SpiCommand, SequenceTheorems, TLAPS

Flags == {"RRDY", "TRDY", "TMT"}

CoreStates ==
    [strobe : BOOLEAN, data_to_cpu : [status : SUBSET Flags, data : Bytes],
     SSO_reg : BOOLEAN, slave_select : SUBSET Slaves, slave_select_hold : SUBSET Slaves,
     slowcount : 0..(Divisor - 1), state : 0..LastState,
     shift_reg : Bytes, rx_holding_reg : Bytes, tx_holding_reg : Bytes,
     tx_holding_primed : BOOLEAN, transmitting : BOOLEAN, transaction_primed : BOOLEAN,
     SCLK : Bits, MISO_reg : Bits, sync : Bits \X Bits,
     RRDY : BOOLEAN, ROE : BOOLEAN, TOE : BOOLEAN]

CoreFields ==
    {"strobe", "data_to_cpu", "SSO_reg", "slave_select", "slave_select_hold", "slowcount", "state",
     "shift_reg", "rx_holding_reg", "tx_holding_reg", "tx_holding_primed", "transmitting",
     "transaction_primed", "SCLK", "MISO_reg", "sync", "RRDY", "ROE", "TOE"}

Wrote(c, bus, reg) == c.strobe /\ bus.kind = "write" /\ bus.reg = reg
TakesData(c, bus)  == c.strobe /\ bus.kind = "read" /\ bus.reg = "RXDATA"
--------------------------------------------------------------------------------
LEMMA CoreControl ==
    ASSUME NEW c \in CoreStates, NEW bus, NEW line
    PROVE  /\ NextCore(c, bus, line).strobe <=> ~c.strobe /\ bus.kind # "none"
           /\ NextCore(c, bus, line).data_to_cpu =
                 IF bus.reg = "STATUS" THEN [status |-> Status(c), data |-> Zero]
                 ELSE [status |-> {}, data |-> c.rx_holding_reg]
           /\ NextCore(c, bus, line).slowcount =
                 IF c.transmitting /\ ~slowclock(c) THEN c.slowcount + 1 ELSE 0
           /\ NextCore(c, bus, line).state =
                 IF c.transmitting /\ slowclock(c)
                 THEN (IF c.state = LastState THEN 0 ELSE c.state + 1) ELSE c.state
           /\ NextCore(c, bus, line).tx_holding_primed <=>
                 \/ Wrote(c, bus, "TXDATA") /\ TRDY(c)
                 \/ c.tx_holding_primed /\ ~write_shift_reg(c)
           /\ NextCore(c, bus, line).transmitting <=>
                 ~c.transaction_primed /\ (c.transmitting \/ write_shift_reg(c))
           /\ NextCore(c, bus, line).transaction_primed <=> slowclock(c) /\ c.state = LastState
           /\ NextCore(c, bus, line).RRDY <=>
                 c.transaction_primed \/ (c.RRDY /\ ~TakesData(c, bus))
           /\ NextCore(c, bus, line).ROE <=> c.ROE \/ (c.transaction_primed /\ c.RRDY)
           /\ NextCore(c, bus, line).TOE <=> c.TOE \/ (Wrote(c, bus, "TXDATA") /\ ~TRDY(c))
  BY DEF CoreStates, NextCore, NextRRDY, Wrote, TakesData

LEMMA CoreData ==
    ASSUME NEW c \in CoreStates, NEW bus, NEW line
    PROVE  /\ NextCore(c, bus, line).SSO_reg =
                 IF Wrote(c, bus, "CONTROL") THEN "SSO" \in bus.data ELSE c.SSO_reg
           /\ NextCore(c, bus, line).slave_select_hold =
                 IF Wrote(c, bus, "SLAVE_SEL") THEN bus.data ELSE c.slave_select_hold
           /\ NextCore(c, bus, line).slave_select =
                 IF \/ write_shift_reg(c)
                    \/ Wrote(c, bus, "CONTROL") /\ "SSO" \in bus.data /\ ~c.SSO_reg
                 THEN c.slave_select_hold ELSE c.slave_select
           /\ NextCore(c, bus, line).tx_holding_reg =
                 IF Wrote(c, bus, "TXDATA") /\ TRDY(c) THEN bus.data ELSE c.tx_holding_reg
           /\ NextCore(c, bus, line).shift_reg =
                 IF shifts(c) THEN ShiftIn(c.shift_reg, c.MISO_reg)
                 ELSE IF write_shift_reg(c) THEN c.tx_holding_reg ELSE c.shift_reg
           /\ NextCore(c, bus, line).rx_holding_reg =
                 IF c.transaction_primed THEN c.shift_reg ELSE c.rx_holding_reg
           /\ NextCore(c, bus, line).SCLK =
                 IF slowclock(c) /\ c.transmitting /\ c.state \notin {0, LastState}
                 THEN 1 - c.SCLK ELSE IF c.transaction_primed THEN 1 ELSE c.SCLK
           /\ NextCore(c, bus, line).MISO_reg =
                 IF slowclock(c) /\ c.SCLK = 0 THEN c.sync[2] ELSE c.MISO_reg
           /\ NextCore(c, bus, line).sync = <<MisoOf(c, line), c.sync[1]>>
  BY DEF CoreStates, NextCore, Wrote

(* The register loses its first bit and gets one behind the last. *)
LEMMA ShiftInBits ==
    ASSUME NEW reg \in Bytes, NEW bit \in Bits
    PROVE  /\ ShiftIn(reg, bit) \in Bytes
           /\ \A i \in 1..(Width - 1) : ShiftIn(reg, bit)[i] = reg[i + 1]
           /\ ShiftIn(reg, bit)[Width] = bit
<1>1. reg \in Seq(Bits) /\ Len(reg) = Width
  BY SpiAssumption DEF Bytes
<1>2. reg # <<>>
  BY <1>1, SpiAssumption
<1>3. /\ Tail(reg) \in Seq(Bits) /\ Len(Tail(reg)) = Width - 1
      /\ \A i \in 1..(Width - 1) : Tail(reg)[i] = reg[i + 1]
  BY <1>1, <1>2, HeadTailProperties
<1>4. /\ ShiftIn(reg, bit) \in Seq(Bits) /\ Len(ShiftIn(reg, bit)) = Width
      /\ \A i \in 1..(Width - 1) : ShiftIn(reg, bit)[i] = Tail(reg)[i]
      /\ ShiftIn(reg, bit)[Width] = bit
  BY <1>3, AppendProperties, SpiAssumption DEF ShiftIn
<1>5. ShiftIn(reg, bit) \in Bytes
  BY <1>4 DEF Bytes
<1> QED
  BY <1>3, <1>4, <1>5

(* What an access of the driver may look like to the core. *)
Accesses(bus) ==
    /\ bus.kind = "write" /\ bus.reg = "TXDATA" => bus.data \in Bytes
    /\ bus.kind = "write" /\ bus.reg = "SLAVE_SEL" => bus.data \subseteq Slaves

LEMMA CoreType ==
    ASSUME NEW c \in CoreStates, NEW bus, Accesses(bus), NEW line,
           MisoOf(c, line) \in Bits
    PROVE  NextCore(c, bus, line) \in CoreStates
<1> DEFINE n == NextCore(c, bus, line)
<1>1. Status(c) \in SUBSET Flags
  BY DEF Status, Flags
<1>2. Zero \in Bytes
  BY DEF Zero, Bytes, Bits
<1>3. c.shift_reg \in Bytes /\ c.MISO_reg \in Bits
  BY DEF CoreStates
<1>4. ShiftIn(c.shift_reg, c.MISO_reg) \in Bytes
  BY <1>3, ShiftInBits
<1>5. /\ n.strobe \in BOOLEAN /\ n.tx_holding_primed \in BOOLEAN /\ n.transmitting \in BOOLEAN
      /\ n.transaction_primed \in BOOLEAN
      /\ n.RRDY \in BOOLEAN /\ n.ROE \in BOOLEAN /\ n.TOE \in BOOLEAN
  BY DEF CoreStates, NextCore, NextRRDY
<1>6. n.SSO_reg \in BOOLEAN
  <2>1. c.SSO_reg \in BOOLEAN
    BY DEF CoreStates
  <2>2. n.SSO_reg = IF Wrote(c, bus, "CONTROL") THEN "SSO" \in bus.data ELSE c.SSO_reg
    BY CoreData
  <2>3. ("SSO" \in bus.data) \in BOOLEAN
    OBVIOUS
  <2> QED
    BY <2>1, <2>2, <2>3, Zenon
<1>7. DOMAIN n = CoreFields /\ n = [f \in CoreFields |-> n[f]]
  BY DEF NextCore, CoreFields
<1>8. n.data_to_cpu \in [status : SUBSET Flags, data : Bytes]
  <2>1. n.data_to_cpu = IF bus.reg = "STATUS" THEN [status |-> Status(c), data |-> Zero]
                        ELSE [status |-> {}, data |-> c.rx_holding_reg]
    BY CoreControl
  <2>2. c.rx_holding_reg \in Bytes
    BY DEF CoreStates
  <2> HIDE DEF n
  <2> QED
    BY <1>1, <1>2, <2>1, <2>2
<1>9. n.slowcount \in 0..(Divisor - 1) /\ n.state \in 0..LastState
  <2>1. c.slowcount \in 0..(Divisor - 1) /\ c.state \in 0..LastState
    BY DEF CoreStates
  <2>2. n.slowcount = IF c.transmitting /\ ~slowclock(c) THEN c.slowcount + 1 ELSE 0
    BY CoreControl
  <2>3. n.state = IF c.transmitting /\ slowclock(c)
                  THEN (IF c.state = LastState THEN 0 ELSE c.state + 1) ELSE c.state
    BY CoreControl
  <2> HIDE DEF n
  <2> QED
    BY <2>1, <2>2, <2>3, SpiAssumption DEF LastState, slowclock
<1> HIDE DEF n
<1>10. n.slave_select \in SUBSET Slaves /\ n.slave_select_hold \in SUBSET Slaves
  BY CoreData DEF n, CoreStates, Accesses, Wrote
<1>11. n.shift_reg \in Bytes /\ n.tx_holding_reg \in Bytes /\ n.rx_holding_reg \in Bytes
  BY <1>4, CoreData DEF n, CoreStates, Accesses, Wrote
<1>12. n.SCLK \in Bits /\ n.MISO_reg \in Bits /\ n.sync \in Bits \X Bits
  BY CoreData DEF n, CoreStates, Bits
<1>13. n \in CoreStates
  BY <1>5, <1>6, <1>7, <1>8, <1>9, <1>10, <1>11, <1>12 DEF CoreStates, CoreFields
<1> QED
  BY <1>13 DEF n
--------------------------------------------------------------------------------
Labels == {"idle", "select", "force", "discard", "poll", "send", "receive", "finish", "release"}

(* The loop of the driver. *)
Loop == {"poll", "send", "receive"}

ChipStates ==
    [bits : {b \in Seq(Bits) : Len(b) < Width}, answer : Bytes, out : Bits,
     sent : Seq(Bytes), answered : Seq(Bytes)]

CommandTypeOK ==
    /\ core \in CoreStates /\ chips \in [Slaves -> ChipStates]
    /\ pc \in Labels /\ done \in 0..Len(Script) /\ status \in SUBSET Flags
    /\ IF pc = "idle" THEN command = Transaction!NoCommand
       ELSE command \in [slave : Slaves, write : Seq(Bytes) \ {<<>>}, read : Nat]
    /\ credits \in {0, 1} /\ written \in Nat /\ read_ignore \in Nat /\ read_data \in Seq(Bytes)

(* The engine is busy with one byte from the write of TXDATA to the read   *)
(* of RXDATA: it is first held, then transmitted, then ready.              *)
Engine ==
    /\ ~core.transmitting => core.state = 0
    /\ core.transaction_primed => core.transmitting /\ core.state = 0 /\ core.slowcount = 0
    /\ core.transmitting => ~core.tx_holding_primed

(* The credit is the driver's knowledge of it. *)
OneByte ==
    /\ pc \notin Loop \/ credits = 1 => ~core.tx_holding_primed /\ ~core.transmitting
    /\ pc \in Loop => (core.RRDY => ~core.tx_holding_primed /\ ~core.transmitting)
    /\ pc \in Loop /\ credits = 1 => ~core.RRDY
    /\ pc \in Loop /\ credits = 0 => core.tx_holding_primed \/ core.transmitting \/ core.RRDY

(* What the driver has seen in the status still holds when it acts on it.  *)
Seen ==
    /\ pc = "idle" => ~core.strobe
    /\ pc = "poll" /\ core.strobe /\ "RRDY" \in core.data_to_cpu.status => core.RRDY
    /\ pc = "send" => credits = 1 /\ "RRDY" \notin status
    /\ pc = "receive" => credits = 0 /\ core.RRDY
    /\ pc \notin Loop \union {"idle"} => credits = 1

ControlInv == CommandTypeOK /\ Engine /\ OneByte /\ Seen /\ NoOverrun
--------------------------------------------------------------------------------
LEMMA BusOf ==
    /\ BusAt("select")  = Write("SLAVE_SEL", {command.slave})
    /\ BusAt("force")   = Write("CONTROL", {"SSO"})
    /\ BusAt("discard") = Read("RXDATA")
    /\ BusAt("poll")    = Read("STATUS")
    /\ BusAt("send")    = Write("TXDATA", Transaction!ByteToSend(command, written + 1))
    /\ BusAt("receive") = Read("RXDATA")
    /\ BusAt("finish")  = Read("STATUS")
    /\ BusAt("release") = Write("CONTROL", {})
  BY DEF BusAt

(* What the driver accesses, and what it writes. *)
LEMMA AccessesOf ==
    ASSUME CommandTypeOK, pc # "idle"
    PROVE  /\ Accesses(BusAt(pc))
           /\ BusAt(pc).kind = "write" /\ BusAt(pc).reg = "TXDATA" => pc = "send"
           /\ BusAt(pc).kind = "read" /\ BusAt(pc).reg = "RXDATA" => pc \in {"discard", "receive"}
           /\ BusAt(pc).reg = "STATUS" => pc \in {"poll", "finish"}
<1>1. Transaction!ByteToSend(command, written + 1) \in Bytes
  <2>1. Zero \in Bytes
    BY DEF Zero, Bytes, Bits
  <2>2. command.write \in Seq(Bytes) /\ written \in Nat
    BY DEF CommandTypeOK
  <2>3. written + 1 <= Len(command.write) => command.write[written + 1] \in Bytes
    BY <2>2, ElementOfSeq
  <2> QED
    BY <2>1, <2>3 DEF Transaction!ByteToSend
<1>2. command.slave \in Slaves
  BY DEF CommandTypeOK
<1>3. pc \in Labels
  BY DEF CommandTypeOK
<1> QED
  BY <1>1, <1>2, <1>3, BusOf DEF Labels, Write, Read, Accesses

LEMMA LineOf ==
    ASSUME CommandTypeOK
    PROVE  /\ MisoOf(core, Lines) \in Bits
           /\ \A s \in Slaves : Selected(core) = {s} => MisoOf(core, Lines) = chips[s].out
<1>1. \A s \in Slaves : chips[s].out \in Bits
  BY DEF CommandTypeOK, ChipStates
<1>2. ASSUME NEW s \in Slaves, Selected(core) = {s}
      PROVE  MisoOf(core, Lines) = chips[s].out
  <2>1. \E b \in Boards : Selected(core) \subseteq b
    BY <1>2, SpiAssumption
  <2>2. PICK b \in Boards : b = (CHOOSE x \in Boards : Selected(core) \subseteq x) /\ s \in b
    BY <1>2, <2>1
  <2>3. MisoOf(core, Lines) = Lines[b]
    BY <1>2, <2>2 DEF MisoOf
  <2>4. (CHOOSE x \in b : x \in Selected(core)) = s
    BY <1>2, <2>2
  <2> QED
    BY <1>2, <2>2, <2>3, <2>4 DEF Lines
<1> QED
  BY <1>1, <1>2 DEF MisoOf, Bits

(* The chips stay what they are: shift registers that are not full. *)
LEMMA ChipsType ==
    ASSUME chips \in [Slaves -> ChipStates], core \in CoreStates, ChipsStep
    PROVE  chips' \in [Slaves -> ChipStates]
<1>0. Width \in Nat \ {0}
  BY SpiAssumption
<1>1. PICK answer \in Bytes :
          chips' = [s \in Slaves |->
               IF s \notin Selected(core') THEN Unselected
               ELSE IF Rises THEN TakeBit(chips[s])
               ELSE IF Falls /\ chips[s].bits = <<>> THEN PutBit(chips[s], answer)
               ELSE IF Falls THEN PutBit(chips[s], chips[s].answer)
               ELSE chips[s]]
  BY DEF ChipsStep
<1>2. Unselected \in ChipStates
  <2>1. Zero \in Bytes /\ 0 \in Bits /\ <<>> \in Seq(Bits) /\ Len(<<>>) = 0 /\ <<>> \in Seq(Bytes)
    BY DEF Zero, Bytes, Bits
  <2> QED
    BY <1>0, <2>1 DEF Unselected, ChipStates
<1>3. ASSUME NEW c \in ChipStates
      PROVE  TakeBit(c) \in ChipStates
  <2>1. core.shift_reg[1] \in Bits
    BY <1>0 DEF CoreStates, Bytes
  <2>2. /\ c.bits \in Seq(Bits) /\ Len(c.bits) < Width /\ c.answer \in Bytes
        /\ c.sent \in Seq(Bytes) /\ c.answered \in Seq(Bytes)
    BY DEF ChipStates
  <2> DEFINE bits == Append(c.bits, core.shift_reg[1])
  <2>3. bits \in Seq(Bits) /\ Len(bits) = Len(c.bits) + 1
    BY <2>1, <2>2, AppendProperties
  <2>4. CASE Len(bits) < Width
    <3>1. TakeBit(c) = [c EXCEPT !.bits = bits]
      BY <2>4 DEF TakeBit
    <3> HIDE DEF bits
    <3> QED
      BY <2>3, <2>4, <3>1 DEF ChipStates
  <2>5. CASE ~(Len(bits) < Width)
    <3> DEFINE sent    == Append(c.sent, bits)
               answered == Append(c.answered, c.answer)
    <3>1. TakeBit(c) = [c EXCEPT !.bits = <<>>, !.sent = sent, !.answered = answered]
      BY <2>5 DEF TakeBit
    <3>2. bits \in Bytes
      <4> HIDE DEF bits
      <4> QED
        BY <1>0, <2>2, <2>3, <2>5 DEF Bytes
    <3>3. sent \in Seq(Bytes) /\ answered \in Seq(Bytes)
      BY <2>2, <3>2, AppendProperties
    <3>4. <<>> \in {b \in Seq(Bits) : Len(b) < Width}
      BY <1>0
    <3> HIDE DEF bits, sent, answered
    <3> QED
      BY <3>1, <3>3, <3>4 DEF ChipStates
  <2> QED
    BY <2>4, <2>5
<1>4. ASSUME NEW c \in ChipStates, NEW a \in Bytes
      PROVE  PutBit(c, a) \in ChipStates
  <2>1. Len(c.bits) + 1 \in 1..Width
    BY <1>0 DEF ChipStates
  <2>2. a[Len(c.bits) + 1] \in Bits
    BY <2>1 DEF Bytes
  <2> QED
    BY <2>2 DEF PutBit, ChipStates
<1>5. \A s \in Slaves : chips[s] \in ChipStates /\ chips[s].answer \in Bytes
  BY DEF ChipStates
<1> QED
  BY <1>1, <1>2, <1>3, <1>4, <1>5

(* An edge keeps the types, and does to the engine what NextCore() says.   *)
LEMMA EdgeType ==
    ASSUME CommandTypeOK, NEW bus, Accesses(bus), Edge(bus)
    PROVE  /\ core' = NextCore(core, bus, Lines)
           /\ core' \in CoreStates /\ chips' \in [Slaves -> ChipStates]
<1>1. core' = NextCore(core, bus, Lines) /\ ChipsStep
  BY DEF Edge
<1>2. core \in CoreStates /\ chips \in [Slaves -> ChipStates]
  BY DEF CommandTypeOK
<1>3. NextCore(core, bus, Lines) \in CoreStates
  BY <1>2, LineOf, CoreType
<1> QED
  BY <1>1, <1>2, <1>3, ChipsType

(* One edge of the engine, for a driver that writes only when it is idle.  *)
LEMMA EdgeEngine ==
    ASSUME CommandTypeOK, Engine, NEW bus, Accesses(bus), Edge(bus),
           Wrote(core, bus, "TXDATA") => ~core.transmitting /\ ~core.tx_holding_primed
    PROVE  /\ Engine'
           /\ core'.strobe <=> ~core.strobe /\ bus.kind # "none"
           /\ core'.data_to_cpu =
                 IF bus.reg = "STATUS" THEN [status |-> Status(core), data |-> Zero]
                 ELSE [status |-> {}, data |-> core.rx_holding_reg]
           /\ core'.tx_holding_primed <=> Wrote(core, bus, "TXDATA")
           /\ core'.transmitting <=>
                 ~core.transaction_primed /\ (core.transmitting \/ core.tx_holding_primed)
           /\ core'.RRDY <=> core.transaction_primed \/ (core.RRDY /\ ~TakesData(core, bus))
           /\ core'.ROE <=> core.ROE \/ (core.transaction_primed /\ core.RRDY)
           /\ core'.TOE <=> core.TOE
<1>1. core' = NextCore(core, bus, Lines) /\ core \in CoreStates
  BY EdgeType DEF CommandTypeOK
<1>2. /\ core'.strobe <=> ~core.strobe /\ bus.kind # "none"
      /\ core'.data_to_cpu =
            IF bus.reg = "STATUS" THEN [status |-> Status(core), data |-> Zero]
            ELSE [status |-> {}, data |-> core.rx_holding_reg]
      /\ core'.slowcount =
            IF core.transmitting /\ ~slowclock(core) THEN core.slowcount + 1 ELSE 0
      /\ core'.state =
            IF core.transmitting /\ slowclock(core)
            THEN (IF core.state = LastState THEN 0 ELSE core.state + 1) ELSE core.state
      /\ core'.tx_holding_primed <=>
            \/ Wrote(core, bus, "TXDATA") /\ TRDY(core)
            \/ core.tx_holding_primed /\ ~write_shift_reg(core)
      /\ core'.transmitting <=>
            ~core.transaction_primed /\ (core.transmitting \/ write_shift_reg(core))
      /\ core'.transaction_primed <=> slowclock(core) /\ core.state = LastState
      /\ core'.RRDY <=> core.transaction_primed \/ (core.RRDY /\ ~TakesData(core, bus))
      /\ core'.ROE <=> core.ROE \/ (core.transaction_primed /\ core.RRDY)
      /\ core'.TOE <=> core.TOE \/ (Wrote(core, bus, "TXDATA") /\ ~TRDY(core))
  BY <1>1, CoreControl
<1>3. core.slowcount \in Nat /\ core.state \in Nat /\ LastState > 0
  BY <1>1, SpiAssumption DEF CoreStates, LastState
<1> HIDE <1>1
<1>4. Engine'
  BY <1>2, <1>3, SpiAssumption DEF Engine, TRDY, write_shift_reg, slowclock
<1> QED
  BY <1>2, <1>3, <1>4 DEF Engine, TRDY, write_shift_reg

(* The bus is the driver's: an edge of its own, or the first of an access. *)
LEMMA ControlQuiet ==
    ASSUME ControlInv, Clock \/ Address
    PROVE  ControlInv'
<1> USE DEF ControlInv
<1>1. PICK bus : /\ Edge(bus) /\ Accesses(bus) /\ ~core.strobe
                 /\ bus.reg = "STATUS" => pc \in {"poll", "finish"}
                 /\ pc = "idle" => bus.kind = "none"
  <2>1. CASE Clock
    BY <2>1 DEF Clock, NoBus, Accesses
  <2>2. CASE Address
    BY <2>2, AccessesOf DEF Address
  <2> QED
    BY <2>1, <2>2
<1>2. UNCHANGED driver
  BY DEF Clock, Address
<1>3. ~Wrote(core, bus, "TXDATA") /\ ~TakesData(core, bus)
  BY <1>1 DEF Wrote, TakesData
<1>4. /\ Engine'
      /\ core'.strobe <=> ~core.strobe /\ bus.kind # "none"
      /\ core'.data_to_cpu =
            IF bus.reg = "STATUS" THEN [status |-> Status(core), data |-> Zero]
            ELSE [status |-> {}, data |-> core.rx_holding_reg]
      /\ core'.tx_holding_primed <=> FALSE
      /\ core'.transmitting <=>
            ~core.transaction_primed /\ (core.transmitting \/ core.tx_holding_primed)
      /\ core'.RRDY <=> core.transaction_primed \/ core.RRDY
      /\ core'.ROE <=> core.ROE \/ (core.transaction_primed /\ core.RRDY)
      /\ core'.TOE <=> core.TOE
  BY <1>1, <1>3, EdgeEngine
<1>5. CommandTypeOK'
  BY <1>1, <1>2, EdgeType DEF CommandTypeOK, driver
<1>6. OneByte' /\ NoOverrun'
  BY <1>2, <1>4 DEF CommandTypeOK, Engine, OneByte, Seen, NoOverrun, driver, Loop
<1>7. Seen'
  <2>1. "RRDY" \in core'.data_to_cpu.status => core.RRDY
    BY <1>4 DEF Status
  <2> QED
    BY <1>1, <1>2, <1>4, <2>1 DEF Seen, driver
<1> QED
  BY <1>4, <1>5, <1>6, <1>7

(* The second edge of an access, whatever the driver makes of it.          *)
LEMMA AccessEdge ==
    ASSUME ControlInv, NEW from \in Labels, NEW to \in Labels, Access(from, to)
    PROVE  /\ Accesses(BusAt(from)) /\ Edge(BusAt(from))
           /\ core' \in CoreStates /\ chips' \in [Slaves -> ChipStates]
           /\ from # "idle" /\ pc = from /\ pc' = to
           /\ Engine' /\ ~core'.strobe
           /\ core'.tx_holding_primed <=> from = "send"
           /\ core'.transmitting <=>
                 ~core.transaction_primed /\ (core.transmitting \/ core.tx_holding_primed)
           /\ core'.RRDY <=> core.transaction_primed
                             \/ (core.RRDY /\ from \notin {"discard", "receive"})
           /\ NoOverrun'
<1> USE DEF ControlInv
<1>1. core.strobe /\ pc = from /\ pc' = to /\ Edge(BusAt(pc))
  BY DEF Access
<1>2. pc # "idle"
  BY <1>1 DEF Seen
<1>3. Accesses(BusAt(pc))
  BY <1>2, AccessesOf
<1>4. /\ Wrote(core, BusAt(pc), "TXDATA") <=> pc = "send"
      /\ TakesData(core, BusAt(pc)) <=> pc \in {"discard", "receive"}
  BY <1>1, <1>2, BusOf DEF CommandTypeOK, Labels, Wrote, TakesData, Write, Read
<1>5. pc = "send" => ~core.transmitting /\ ~core.tx_holding_primed
  BY DEF Seen, OneByte
<1>6. /\ Engine'
      /\ core'.strobe <=> ~core.strobe /\ BusAt(pc).kind # "none"
      /\ core'.tx_holding_primed <=> pc = "send"
      /\ core'.transmitting <=>
            ~core.transaction_primed /\ (core.transmitting \/ core.tx_holding_primed)
      /\ core'.RRDY <=> core.transaction_primed
                        \/ (core.RRDY /\ pc \notin {"discard", "receive"})
      /\ core'.ROE <=> core.ROE \/ (core.transaction_primed /\ core.RRDY)
      /\ core'.TOE <=> core.TOE
  BY <1>1, <1>3, <1>4, <1>5, EdgeEngine
<1>7. ~(core.transaction_primed /\ core.RRDY)
  BY DEF Engine, OneByte
<1>8. NoOverrun'
  BY <1>6, <1>7 DEF NoOverrun
<1>9. core' \in CoreStates /\ chips' \in [Slaves -> ChipStates]
  BY <1>1, <1>3, EdgeType
<1> QED
  BY <1>1, <1>2, <1>3, <1>6, <1>8, <1>9

LEMMA ControlInvStep == ControlInv /\ [CommandNext]_command_vars => ControlInv'
<1> SUFFICES ASSUME ControlInv, [CommandNext]_command_vars PROVE ControlInv'
  OBVIOUS
<1> USE DEF ControlInv
<1>1. CASE Clock \/ Address
  BY <1>1, ControlQuiet
<1>2. CASE Call
  <2>1. done + 1 \in 1..Len(Script)
    BY <1>2 DEF Call, CommandTypeOK
  <2>2. Script[done + 1] \in [slave : Slaves, write : Seq(Bytes) \ {<<>>}, read : Nat]
    BY <2>1, CommandAssumption, ElementOfSeq
  <2>3. command' \in [slave : Slaves, write : Seq(Bytes) \ {<<>>}, read : Nat]
    BY <1>2, <2>2 DEF Call
  <2>4. Len(command'.write) \in Nat /\ <<>> \in Seq(Bytes)
    BY <2>3
  <2>5. CommandTypeOK'
    BY <1>2, <2>1, <2>3, <2>4 DEF Call, CommandTypeOK, Labels, Credits
  <2> QED
    BY <1>2, <2>5 DEF Call, Credits, Engine, OneByte, Seen, NoOverrun, Loop
<1>3. CASE SelectSlave
  <2>1. Access("select", "force")
    BY <1>3 DEF SelectSlave
  <2>2. /\ core' \in CoreStates /\ chips' \in [Slaves -> ChipStates]
        /\ pc = "select" /\ pc' = "force" /\ Engine' /\ NoOverrun' /\ ~core'.strobe
        /\ core'.tx_holding_primed <=> FALSE
        /\ core'.transmitting <=>
              ~core.transaction_primed /\ (core.transmitting \/ core.tx_holding_primed)
    BY <2>1, AccessEdge DEF Labels
  <2> QED
    BY <1>3, <2>2 DEF SelectSlave, CommandTypeOK, OneByte, Seen, Loop, Labels
<1>4. CASE ForceSelect
  <2>1. Access("force", "discard")
    BY <1>4 DEF ForceSelect
  <2>2. /\ core' \in CoreStates /\ chips' \in [Slaves -> ChipStates]
        /\ pc = "force" /\ pc' = "discard" /\ Engine' /\ NoOverrun' /\ ~core'.strobe
        /\ core'.tx_holding_primed <=> FALSE
        /\ core'.transmitting <=>
              ~core.transaction_primed /\ (core.transmitting \/ core.tx_holding_primed)
    BY <2>1, AccessEdge DEF Labels
  <2> QED
    BY <1>4, <2>2 DEF ForceSelect, CommandTypeOK, OneByte, Seen, Loop, Labels
<1>5. CASE Discard
  <2>1. Access("discard", "poll")
    BY <1>5 DEF Discard
  <2>2. /\ core' \in CoreStates /\ chips' \in [Slaves -> ChipStates]
        /\ pc = "discard" /\ pc' = "poll" /\ Engine' /\ NoOverrun' /\ ~core'.strobe
        /\ core'.tx_holding_primed <=> FALSE
        /\ core'.transmitting <=>
              ~core.transaction_primed /\ (core.transmitting \/ core.tx_holding_primed)
        /\ core'.RRDY <=> core.transaction_primed
    BY <2>1, AccessEdge DEF Labels
  <2> QED
    BY <1>5, <2>2 DEF Discard, CommandTypeOK, Engine, OneByte, Seen, Loop, Labels
<1>6. CASE PollStatus
  <2>1. PICK to \in {"send", "receive", "poll"} :
            /\ Access("poll", to)
            /\ to = IF MaySend(status') THEN "send" ELSE IF "RRDY" \in status' THEN "receive" ELSE "poll"
    BY <1>6 DEF PollStatus
  <2>2. /\ core' \in CoreStates /\ chips' \in [Slaves -> ChipStates]
        /\ pc = "poll" /\ pc' = to /\ Engine' /\ NoOverrun' /\ ~core'.strobe
        /\ core'.tx_holding_primed <=> FALSE
        /\ core'.transmitting <=>
              ~core.transaction_primed /\ (core.transmitting \/ core.tx_holding_primed)
        /\ core'.RRDY <=> core.transaction_primed \/ core.RRDY
    BY <2>1, AccessEdge DEF Labels
  <2>3. /\ UNCHANGED <<command, done, credits, written, read_ignore, read_data, results>>
        /\ status' = core.data_to_cpu.status /\ core.strobe
    BY <1>6 DEF PollStatus, Access
  <2>4. status' \in SUBSET Flags
    BY <2>3 DEF CommandTypeOK, CoreStates
  <2>5. "RRDY" \in status' => core.RRDY
    BY <2>2, <2>3 DEF Seen
  <2>6. CommandTypeOK'
    BY <2>2, <2>3, <2>4 DEF CommandTypeOK, Labels
  <2>7. OneByte'
    BY <2>2, <2>3 DEF CommandTypeOK, Engine, OneByte, Loop
  <2>8. Seen'
    BY <2>1, <2>2, <2>3, <2>5 DEF CommandTypeOK, OneByte, Seen, Loop, MaySend
  <2> QED
    BY <2>2, <2>6, <2>7, <2>8
<1>7. CASE SendByte
  <2>1. Access("send", "poll")
    BY <1>7 DEF SendByte, Access, Seen
  <2>2. /\ core' \in CoreStates /\ chips' \in [Slaves -> ChipStates]
        /\ pc = "send" /\ pc' = "poll" /\ Engine' /\ NoOverrun' /\ ~core'.strobe
        /\ core'.tx_holding_primed <=> TRUE
        /\ core'.transmitting <=>
              ~core.transaction_primed /\ (core.transmitting \/ core.tx_holding_primed)
        /\ core'.RRDY <=> core.transaction_primed \/ core.RRDY
    BY <2>1, AccessEdge DEF Labels
  <2> QED
    BY <1>7, <2>2 DEF SendByte, CommandTypeOK, Engine, OneByte, Seen, Loop, Labels
<1>8. CASE ReceiveByte
  <2>1. PICK to \in {"finish", "poll"} : Access("receive", to)
    BY <1>8 DEF ReceiveByte
  <2>2. /\ core' \in CoreStates /\ chips' \in [Slaves -> ChipStates]
        /\ pc = "receive" /\ pc' = to /\ Engine' /\ NoOverrun' /\ ~core'.strobe
        /\ core'.tx_holding_primed <=> FALSE
        /\ core'.transmitting <=>
              ~core.transaction_primed /\ (core.transmitting \/ core.tx_holding_primed)
        /\ core'.RRDY <=> core.transaction_primed
    BY <2>1, AccessEdge DEF Labels
  <2>3. read_ignore' \in Nat /\ read_data' \in Seq(Bytes)
    <3>1. core.data_to_cpu.data \in Bytes
      BY DEF CommandTypeOK, CoreStates
    <3>2. Append(read_data, core.data_to_cpu.data) \in Seq(Bytes)
      BY <3>1, AppendProperties DEF CommandTypeOK
    <3> QED
      BY <1>8, <3>2 DEF ReceiveByte, CommandTypeOK
  <2>4. credits' = 1 /\ UNCHANGED <<command, done, status, written, results>>
    BY <1>8, <2>2 DEF ReceiveByte, Returned, Seen
  <2>5. CommandTypeOK'
    BY <2>2, <2>3, <2>4 DEF CommandTypeOK, Labels
  <2>6. OneByte' /\ Seen'
    BY <2>2, <2>4 DEF CommandTypeOK, Engine, OneByte, Seen, Loop
  <2> QED
    BY <2>2, <2>5, <2>6
<1>9. CASE Finish
  <2>1. PICK to \in {"release", "finish"} : Access("finish", to)
    BY <1>9 DEF Finish
  <2>2. /\ core' \in CoreStates /\ chips' \in [Slaves -> ChipStates]
        /\ pc = "finish" /\ pc' = to /\ Engine' /\ NoOverrun' /\ ~core'.strobe
        /\ core'.tx_holding_primed <=> FALSE
        /\ core'.transmitting <=>
              ~core.transaction_primed /\ (core.transmitting \/ core.tx_holding_primed)
    BY <2>1, AccessEdge DEF Labels
  <2>3. /\ UNCHANGED <<command, done, credits, written, read_ignore, read_data, results>>
        /\ status' = core.data_to_cpu.status
    BY <1>9 DEF Finish
  <2>4. status' \in SUBSET Flags
    BY <2>3 DEF CommandTypeOK, CoreStates
  <2> QED
    BY <2>2, <2>3, <2>4 DEF CommandTypeOK, OneByte, Seen, Loop, Labels
<1>10. CASE Release
  <2>1. Access("release", "idle")
    BY <1>10 DEF Release
  <2>2. /\ core' \in CoreStates /\ chips' \in [Slaves -> ChipStates]
        /\ pc = "release" /\ pc' = "idle" /\ Engine' /\ NoOverrun' /\ ~core'.strobe
        /\ core'.tx_holding_primed <=> FALSE
        /\ core'.transmitting <=>
              ~core.transaction_primed /\ (core.transmitting \/ core.tx_holding_primed)
    BY <2>1, AccessEdge DEF Labels
  <2> QED
    BY <1>10, <2>2 DEF Release, CommandTypeOK, OneByte, Seen, Loop, Labels
<1>11. CASE Finished \/ UNCHANGED command_vars
  BY <1>11 DEF Finished, command_vars, driver, CommandTypeOK, Engine, OneByte, Seen, NoOverrun
<1> QED
  BY <1>1, <1>2, <1>3, <1>4, <1>5, <1>6, <1>7, <1>8, <1>9, <1>10, <1>11
     DEF CommandNext, alt_avalon_spi_command

LEMMA ControlInvInit == CommandInit => ControlInv
<1> SUFFICES ASSUME CommandInit PROVE ControlInv
  OBVIOUS
<1>1. Zero \in Bytes /\ <<>> \in Seq(Bytes) /\ <<>> \in Seq(Bits) /\ Width > 0
  BY SpiAssumption DEF Zero, Bytes, Bits
<1>2. PICK rrdy \in BOOLEAN : core = CoreReset(rrdy)
  BY DEF CommandInit
<1>3. core \in CoreStates
  BY <1>1, <1>2, SpiAssumption DEF CoreReset, CoreStates, Bits, LastState
<1>4. Unselected \in ChipStates
  BY <1>1 DEF Unselected, ChipStates, Bits
<1>5. Len(Script) \in Nat
  BY CommandAssumption
<1>6. CommandTypeOK
  BY <1>1, <1>3, <1>4, <1>5 DEF CommandInit, CommandTypeOK, Labels
<1> QED
  BY <1>2, <1>6
     DEF CommandInit, CoreReset, ControlInv, Engine, OneByte, Seen, NoOverrun, Loop

(* Nothing is lost in the SPI master: see NoOverrun.                       *)
THEOREM NothingOverruns == CommandSpec => []NoOverrun
<1>1. ControlInv => NoOverrun
  BY DEF ControlInv
<1> QED
  BY <1>1, ControlInvInit, ControlInvStep, PTL DEF CommandSpec
--------------------------------------------------------------------------------
(* The byte that is sent and not yet read back, and whom it is sent to.    *)
TheByte == Transaction!ByteToSend(command, written)
Chip    == chips[command.slave]

(* The chip select is forced from its second access to its last one.       *)
Selection ==
    /\ core.SSO_reg <=> pc \in Loop \union {"discard", "finish", "release"}
    /\ pc \notin {"idle", "select"} => core.slave_select_hold = {command.slave}
    /\ core.SSO_reg => core.slave_select = {command.slave}
    /\ \A s \in Slaves \ Selected(core) : chips[s] = Unselected

(* The first k bits of the byte have left the shift register, and as many  *)
(* of the answer are in it.                                                *)
Shifted(k) ==
    /\ \A i \in 1..(Width - k) : core.shift_reg[i] = TheByte[i + k]
    /\ \A i \in 1..k : core.shift_reg[Width - k + i] = Chip.answer[i]

(* The chip has got the first k bits of the byte. *)
Taken(k) == Len(Chip.bits) = k /\ \A i \in 1..k : Chip.bits[i] = TheByte[i]

(* Bit j of the byte is set up while SCLK is low, and that of the answer   *)
(* gets through the synchroniser.                                          *)
Low(j) ==
    core.state = 2 * j =>
        /\ core.SCLK = 0 /\ Shifted(j - 1) /\ Taken(j - 1)
        /\ Chip.out = Chip.answer[j]
        /\ core.slowcount > 0 => core.sync[1] = Chip.answer[j]
        /\ core.slowcount > 1 => core.sync[2] = Chip.answer[j]

(* It has been taken on the rising edge, and that of the answer sampled.   *)
High(j) ==
    core.state = 2 * j + 1 =>
        /\ core.SCLK = 1 /\ Shifted(j - 1) /\ Taken(IF j < Width THEN j ELSE 0)
        /\ core.MISO_reg = Chip.answer[j]

Start ==
    /\ core.state \in {0, 1} => core.SCLK = 1
    /\ pc # "idle" /\ core.state \in {0, 1} => Taken(0)
    /\ core.transmitting /\ core.state \in {0, 1} /\ ~core.transaction_primed => Shifted(0)

Transmission ==
    /\ core.tx_holding_primed => core.tx_holding_reg = TheByte
    /\ Start
    /\ core.transmitting => \A j \in 1..Width : Low(j) /\ High(j)
    /\ core.transaction_primed => Shifted(Width)
    /\ pc \in Loop /\ core.RRDY => core.rx_holding_reg = Chip.answer

(* The chip has not yet seen the last bit of the byte. *)
UnderWay ==
    \/ core.tx_holding_primed
    \/ core.transmitting /\ ~core.transaction_primed /\ core.state < LastState

Exchanged ==
    pc # "idle" =>
        /\ Len(Chip.sent) = IF UnderWay THEN written - 1 ELSE written
        /\ Len(Chip.answered) = Len(Chip.sent)
        /\ pc \in Loop /\ credits = 0 /\ ~UnderWay =>
               written > 0 /\ Chip.answered[written] = Chip.answer

(* What has been read back so far, and where it is. *)
Received == written - (1 - credits)

ReadBack ==
    /\ pc # "idle" =>
          /\ read_ignore <= Len(command.write)
          /\ read_ignore > 0 => read_data = <<>>
          /\ Received = Len(command.write) - read_ignore + Len(read_data)
          /\ Len(read_data) <= command.read
          /\ Received <= Len(Chip.answered)
          /\ \A i \in 1..Len(read_data) : read_data[i] = Chip.answered[Len(command.write) + i]
    /\ pc \in {"select", "force", "discard"} => written = 0
    /\ pc \in Loop => Received < ToSend
    /\ pc \in {"finish", "release"} => Received = ToSend
    /\ pc = "receive" /\ core.strobe => core.data_to_cpu.data = Chip.answer

CommandInv == ControlInv /\ Selection /\ Transmission /\ Exchanged /\ ReadBack
--------------------------------------------------------------------------------
(* The chip selects behind an edge: no chip keeps anything without its own. *)
LEMMA EdgeSelects ==
    ASSUME CommandTypeOK, NEW bus, Accesses(bus), Edge(bus)
    PROVE  /\ core'.SSO_reg = IF Wrote(core, bus, "CONTROL") THEN "SSO" \in bus.data ELSE core.SSO_reg
           /\ core'.slave_select_hold =
                 IF Wrote(core, bus, "SLAVE_SEL") THEN bus.data ELSE core.slave_select_hold
           /\ core'.slave_select =
                 IF \/ write_shift_reg(core)
                    \/ Wrote(core, bus, "CONTROL") /\ "SSO" \in bus.data /\ ~core.SSO_reg
                 THEN core.slave_select_hold ELSE core.slave_select
           /\ \A s \in Slaves \ Selected(core') : chips'[s] = Unselected
<1>1. core' = NextCore(core, bus, Lines) /\ core \in CoreStates
  BY EdgeType DEF CommandTypeOK
<1>2. \A s \in Slaves \ Selected(core') : chips'[s] = Unselected
  BY DEF Edge, ChipsStep
<1> QED
  BY <1>1, <1>2, CoreData

(* What the selected chip does on an edge. *)
LEMMA ChipEdge ==
    ASSUME NEW bus, Edge(bus), NEW s \in Slaves, s \in Selected(core')
    PROVE  /\ Rises => chips'[s] = TakeBit(chips[s])
           /\ Falls /\ chips[s].bits = <<>> => \E a \in Bytes : chips'[s] = PutBit(chips[s], a)
           /\ Falls /\ chips[s].bits # <<>> => chips'[s] = PutBit(chips[s], chips[s].answer)
           /\ ~Rises /\ ~Falls => chips'[s] = chips[s]
<1>1. ~(Rises /\ Falls)
  BY DEF Rises, Falls
<1> QED
  BY <1>1 DEF Edge, ChipsStep

(* What an edge of a transmission is to the core, with no write from the   *)
(* driver.                                                                 *)
LEMMA CoreTransmits ==
    ASSUME ControlInv, Selection, NEW bus, Accesses(bus), Edge(bus), core.transmitting,
           ~Wrote(core, bus, "TXDATA"), ~Wrote(core, bus, "CONTROL")
    PROVE  /\ command.slave \in Slaves /\ core'.SSO_reg /\ ~core.RRDY
           /\ Selected(core) = {command.slave} /\ Selected(core') = {command.slave}
           /\ ~core.tx_holding_primed /\ ~core'.tx_holding_primed
           /\ core'.transmitting <=> ~core.transaction_primed
           /\ core'.RRDY <=> core.transaction_primed
           /\ core'.slowcount = IF ~slowclock(core) THEN core.slowcount + 1 ELSE 0
           /\ core'.state = IF slowclock(core)
                            THEN (IF core.state = LastState THEN 0 ELSE core.state + 1)
                            ELSE core.state
           /\ core'.transaction_primed <=> slowclock(core) /\ core.state = LastState
           /\ core'.shift_reg = IF shifts(core) THEN ShiftIn(core.shift_reg, core.MISO_reg)
                                ELSE core.shift_reg
           /\ core'.rx_holding_reg = IF core.transaction_primed THEN core.shift_reg
                                     ELSE core.rx_holding_reg
           /\ core'.SCLK = IF slowclock(core) /\ core.state \notin {0, LastState} THEN 1 - core.SCLK
                           ELSE IF core.transaction_primed THEN 1 ELSE core.SCLK
           /\ core'.MISO_reg = IF slowclock(core) /\ core.SCLK = 0 THEN core.sync[2]
                               ELSE core.MISO_reg
           /\ core'.sync[1] = Chip.out /\ core'.sync[2] = core.sync[1]
<1> USE DEF ControlInv
<1>1. /\ core' = NextCore(core, bus, Lines) /\ core \in CoreStates
      /\ Engine' /\ core' \in CoreStates
  BY EdgeType, EdgeEngine DEF CommandTypeOK
<1>2. ~core.tx_holding_primed /\ pc \in Loop /\ ~core.RRDY /\ core.SSO_reg
  BY DEF Engine, OneByte, Selection, CommandTypeOK
<1>3. command.slave \in Slaves
  BY <1>2 DEF CommandTypeOK, Loop
<1>4. core'.SSO_reg = core.SSO_reg /\ core'.slave_select = core.slave_select
  BY <1>2, EdgeSelects DEF write_shift_reg
<1>5. Selected(core) = {command.slave} /\ Selected(core') = {command.slave}
  BY <1>2, <1>4 DEF Selection, Selected
<1>6. MisoOf(core, Lines) = Chip.out
  BY <1>3, <1>5, LineOf DEF Chip
<1>7. core'.sync = <<Chip.out, core.sync[1]>>
  BY <1>1, <1>6, CoreData
<1>8. core'.sync[1] = Chip.out /\ core'.sync[2] = core.sync[1]
  BY <1>7
<1>9. /\ ~core'.tx_holding_primed
      /\ core'.transmitting <=> ~core.transaction_primed
      /\ core'.RRDY <=> core.transaction_primed
  BY <1>2, EdgeEngine
<1>10. /\ core'.slowcount = IF ~slowclock(core) THEN core.slowcount + 1 ELSE 0
       /\ core'.state = IF slowclock(core)
                        THEN (IF core.state = LastState THEN 0 ELSE core.state + 1)
                        ELSE core.state
       /\ core'.transaction_primed <=> slowclock(core) /\ core.state = LastState
  BY ZenonT(60), <1>1, CoreControl
<1>11. /\ core'.shift_reg = IF shifts(core) THEN ShiftIn(core.shift_reg, core.MISO_reg)
                            ELSE core.shift_reg
       /\ core'.rx_holding_reg = IF core.transaction_primed THEN core.shift_reg
                                 ELSE core.rx_holding_reg
       /\ core'.SCLK = IF slowclock(core) /\ core.state \notin {0, LastState} THEN 1 - core.SCLK
                       ELSE IF core.transaction_primed THEN 1 ELSE core.SCLK
       /\ core'.MISO_reg = IF slowclock(core) /\ core.SCLK = 0 THEN core.sync[2]
                           ELSE core.MISO_reg
  BY <1>1, <1>2, CoreData DEF write_shift_reg
<1> QED
  BY <1>2, <1>3, <1>4, <1>5, <1>8, <1>9, <1>10, <1>11

LEMMA SameBits ==
    ASSUME NEW a \in Bytes, NEW b \in Bytes, \A i \in 1..Width : a[i] = b[i]
    PROVE  a = b
<1>1. a = [i \in 1..Width |-> a[i]] /\ b = [i \in 1..Width |-> b[i]]
  BY DEF Bytes
<1> QED
  BY <1>1, Zenon

(* While a byte is on its way, it is one of the command. *)
LEMMA ByteOf ==
    ASSUME CommandInv, core.transmitting \/ core.tx_holding_primed \/ credits = 0, pc \in Loop
    PROVE  /\ TheByte \in Bytes /\ Chip \in ChipStates
           /\ credits = 0 /\ written > 0 /\ written <= ToSend
<1> USE DEF CommandInv, ControlInv
<1>1. credits = 0 /\ pc # "idle"
  BY DEF OneByte, CommandTypeOK, Loop
<1>2. /\ command.write \in Seq(Bytes) /\ Len(command.write) \in Nat
      /\ command.read \in Nat /\ written \in Nat /\ command.slave \in Slaves
      /\ read_ignore \in Nat /\ Len(read_data) \in Nat
  BY <1>1 DEF CommandTypeOK
<1>3. written > 0 /\ written <= ToSend
  BY <1>1, <1>2 DEF ReadBack, Received, ToSend
<1>4. Zero \in Bytes
  BY DEF Zero, Bytes, Bits
<1>5. written <= Len(command.write) => command.write[written] \in Bytes
  BY <1>2, <1>3, ElementOfSeq
<1>6. Chip \in ChipStates
  BY <1>2 DEF CommandTypeOK, Chip
<1> QED
  BY <1>1, <1>3, <1>4, <1>5, <1>6 DEF TheByte, Transaction!ByteToSend

(* Every state of the transmission is that of a bit, or before the first.  *)
LEMMA BitOf ==
    ASSUME NEW s \in 0..LastState
    PROVE  s \in {0, 1} \/ \E j \in 1..Width : s = 2 * j \/ s = 2 * j + 1
<1>1. CASE s > 1
  <2>1. s \div 2 \in 1..Width /\ (s = 2 * (s \div 2) \/ s = 2 * (s \div 2) + 1)
    BY <1>1, SpiAssumption DEF LastState
  <2> QED
    BY <2>1
<1> QED
  BY <1>1, SpiAssumption DEF LastState

(* Either the chip gets on with the byte or, with its last bit, it has     *)
(* taken it and given its answer.                                          *)
Moves ==
    \/ /\ UnderWay' <=> UnderWay
       /\ Chip'.sent = Chip.sent /\ Chip'.answered = Chip.answered
       /\ ~UnderWay => Chip'.answer = Chip.answer
    \/ /\ UnderWay /\ ~UnderWay'
       /\ Chip'.sent = Append(Chip.sent, TheByte)
       /\ Chip'.answered = Append(Chip.answered, Chip.answer)
       /\ Chip'.answer = Chip.answer

LEMMA TransmitEdge ==
    ASSUME CommandInv, NEW bus, Accesses(bus), Edge(bus), core.transmitting,
           ~Wrote(core, bus, "TXDATA"), ~Wrote(core, bus, "CONTROL"),
           pc' \in Loop, UNCHANGED <<command, written>>
    PROVE  Transmission' /\ Moves
<1> USE DEF CommandInv, ControlInv
<1> DEFINE x == command.slave
<1>W. Width \in Nat /\ Width > 0 /\ Divisor \in Nat /\ Divisor > 2 /\ LastState = 2 * Width + 1
  BY SpiAssumption DEF LastState
<1>K. /\ x \in Slaves /\ core'.SSO_reg /\ ~core.RRDY
      /\ Selected(core) = {x} /\ Selected(core') = {x}
      /\ ~core.tx_holding_primed /\ ~core'.tx_holding_primed
      /\ core'.transmitting <=> ~core.transaction_primed
      /\ core'.RRDY <=> core.transaction_primed
      /\ core'.slowcount = IF ~slowclock(core) THEN core.slowcount + 1 ELSE 0
      /\ core'.state = IF slowclock(core)
                       THEN (IF core.state = LastState THEN 0 ELSE core.state + 1)
                       ELSE core.state
      /\ core'.transaction_primed <=> slowclock(core) /\ core.state = LastState
      /\ core'.shift_reg = IF shifts(core) THEN ShiftIn(core.shift_reg, core.MISO_reg)
                           ELSE core.shift_reg
      /\ core'.rx_holding_reg = IF core.transaction_primed THEN core.shift_reg
                                ELSE core.rx_holding_reg
      /\ core'.SCLK = IF slowclock(core) /\ core.state \notin {0, LastState} THEN 1 - core.SCLK
                      ELSE IF core.transaction_primed THEN 1 ELSE core.SCLK
      /\ core'.MISO_reg = IF slowclock(core) /\ core.SCLK = 0 THEN core.sync[2]
                          ELSE core.MISO_reg
      /\ core'.sync[1] = Chip.out /\ core'.sync[2] = core.sync[1]
  BY CoreTransmits
<1>T. /\ core.slowcount \in Nat /\ core.slowcount <= Divisor - 1
      /\ core.state \in 0..LastState /\ core.SCLK \in {0, 1} /\ core.MISO_reg \in Bits
      /\ core.shift_reg \in Bytes /\ core.tx_holding_reg \in Bytes
  BY <1>W DEF CommandTypeOK, CoreStates, Bits
<1>C. /\ Rises => Chip' = TakeBit(Chip)
      /\ Falls /\ Chip.bits = <<>> => \E a \in Bytes : Chip' = PutBit(Chip, a)
      /\ Falls /\ Chip.bits # <<>> => Chip' = PutBit(Chip, Chip.answer)
      /\ ~Rises /\ ~Falls => Chip' = Chip
  BY <1>K, ChipEdge DEF Chip
<1>L. pc \in Loop /\ pc # "idle"
  BY DEF OneByte, Loop
<1>B. /\ TheByte \in Bytes /\ TheByte' = TheByte /\ Chip \in ChipStates
      /\ Chip.bits \in Seq(Bits) /\ Chip.answer \in Bytes
  BY <1>L, ByteOf DEF TheByte, ChipStates
<1>E. core.transaction_primed => core.state = 0 /\ ~slowclock(core)
  BY <1>W DEF Engine, slowclock
<1>1. CASE core.transaction_primed
  <2>1. /\ core'.state = 0 /\ ~core'.transaction_primed /\ ~core'.transmitting
        /\ core.SCLK = 1 /\ core'.SCLK = 1 /\ core'.rx_holding_reg = core.shift_reg
    BY <1>1, <1>E, <1>K DEF Transmission, Start
  <2>2. Chip' = Chip
    BY <1>C, <2>1 DEF Rises, Falls
  <2>3. core.shift_reg = Chip.answer
    <3>1. \A i \in 1..Width : core.shift_reg[i] = Chip.answer[i]
      BY <1>1, <1>W DEF Transmission, Shifted
    <3> QED
      BY <1>T, <1>B, <3>1, SameBits
  <2>4. Taken(0)'
    BY <1>1, <1>E, <1>L, <2>2 DEF Transmission, Start, Taken
  <2>5. Transmission'
    BY <1>K, <2>1, <2>2, <2>3, <2>4 DEF Transmission, Start
  <2>6. ~UnderWay /\ ~UnderWay'
    BY <1>1, <1>K, <2>1 DEF UnderWay
  <2> QED
    BY <2>2, <2>5, <2>6 DEF Moves
<1>2. CASE ~core.transaction_primed /\ ~slowclock(core)
  <2>1. /\ core'.state = core.state /\ ~core'.transaction_primed /\ core'.transmitting
        /\ core'.SCLK = core.SCLK /\ core'.shift_reg = core.shift_reg
        /\ core'.MISO_reg = core.MISO_reg /\ core'.slowcount = core.slowcount + 1 /\ ~core'.RRDY
    BY <1>2, <1>K DEF shifts
  <2>2. Chip' = Chip
    BY <1>C, <2>1 DEF Rises, Falls
  <2>3. ASSUME NEW j \in 1..Width PROVE Low(j)' /\ High(j)'
    <3>1. Low(j) /\ High(j)
      BY DEF Transmission
    <3> QED
      BY <1>K, <1>T, <1>B, <2>1, <2>2, <3>1 DEF Low, High, Shifted, Taken
  <2>4. Start'
    BY <1>2, <1>L, <1>B, <2>1, <2>2 DEF Transmission, Start, Shifted, Taken
  <2>5. Transmission'
    BY <1>K, <2>1, <2>3, <2>4 DEF Transmission
  <2>6. UnderWay' <=> UnderWay
    BY <1>2, <1>K, <2>1 DEF UnderWay
  <2> QED
    BY <2>2, <2>5, <2>6 DEF Moves
<1>3. CASE ~core.transaction_primed /\ slowclock(core) /\ core.state = 0
  <2>1. /\ core'.state = 1 /\ ~core'.transaction_primed /\ core'.transmitting
        /\ core.SCLK = 1 /\ core'.SCLK = 1 /\ core'.shift_reg = core.shift_reg /\ ~core'.RRDY
    BY <1>3, <1>K, <1>W DEF shifts, Transmission, Start
  <2>2. Chip' = Chip
    BY <1>C, <2>1 DEF Rises, Falls
  <2>3. ASSUME NEW j \in 1..Width PROVE Low(j)' /\ High(j)'
    BY <1>W, <2>1 DEF Low, High
  <2>4. Start'
    BY <1>3, <1>L, <1>B, <2>1, <2>2 DEF Transmission, Start, Shifted, Taken
  <2>5. Transmission'
    BY <1>K, <2>1, <2>3, <2>4 DEF Transmission
  <2>6. UnderWay' <=> UnderWay
    BY <1>3, <1>K, <1>W, <2>1 DEF UnderWay
  <2> QED
    BY <2>2, <2>5, <2>6 DEF Moves
<1>4. CASE ~core.transaction_primed /\ slowclock(core) /\ core.state = 1
  <2>1. /\ core'.state = 2 /\ ~core'.transaction_primed /\ core'.transmitting
        /\ core.SCLK = 1 /\ core'.SCLK = 0 /\ core'.shift_reg = core.shift_reg /\ ~core'.RRDY
        /\ core'.slowcount = 0
    BY <1>4, <1>K, <1>W DEF shifts, Transmission, Start
  <2>2. Taken(0) /\ Shifted(0)
    BY <1>4, <1>L DEF Transmission, Start
  <2>3. Chip.bits = <<>>
    BY <1>B, <2>2 DEF Taken
  <2>4. PICK a \in Bytes : Chip' = PutBit(Chip, a)
    BY <1>C, <2>1, <2>3 DEF Falls
  <2>5. /\ Chip'.bits = Chip.bits /\ Chip'.answer = a /\ Chip'.out = a[1]
        /\ Chip'.sent = Chip.sent /\ Chip'.answered = Chip.answered
    BY <1>B, <2>3, <2>4 DEF PutBit, ChipStates
  <2>6. Taken(0)' /\ Shifted(0)'
    BY <1>B, <2>1, <2>2, <2>5 DEF Taken, Shifted
  <2>7. Low(1)'
    BY <2>1, <2>5, <2>6 DEF Low
  <2>8. ASSUME NEW j \in 1..Width PROVE Low(j)' /\ High(j)'
    <3>1. j # 1 => Low(j)'
      BY <2>1 DEF Low
    <3>2. High(j)'
      BY <2>1 DEF High
    <3> QED
      BY <2>7, <3>1, <3>2
  <2>9. Transmission'
    BY <1>K, <2>1, <2>8 DEF Transmission, Start
  <2>10. UnderWay' /\ UnderWay
    BY <1>4, <1>K, <1>W, <2>1 DEF UnderWay
  <2> QED
    BY <2>5, <2>9, <2>10 DEF Moves
<1>5. ASSUME slowclock(core), ~core.transaction_primed,
             NEW j \in 1..Width, core.state = 2 * j
      PROVE  Transmission' /\ Moves
  <2>1. Low(j)
    BY DEF Transmission
  <2>2. /\ core.SCLK = 0 /\ Shifted(j - 1) /\ Taken(j - 1)
        /\ core.slowcount > 1 /\ core.sync[2] = Chip.answer[j]
    BY <1>5, <1>W, <2>1 DEF Low, slowclock
  <2>3. /\ core'.state = 2 * j + 1 /\ ~core'.transaction_primed /\ core'.transmitting
        /\ core'.SCLK = 1 /\ core'.shift_reg = core.shift_reg /\ ~core'.RRDY
        /\ core'.MISO_reg = Chip.answer[j]
    BY <1>5, <1>K, <1>W, <2>2 DEF shifts
  <2>4. Chip' = TakeBit(Chip)
    BY <1>C, <2>2, <2>3 DEF Rises
  <2>5. core.shift_reg[1] = TheByte[j]
    <3>1. 1 \in 1..(Width - (j - 1)) /\ 1 + (j - 1) = j
      BY <1>W
    <3> QED
      BY <2>2, <3>1 DEF Shifted
  <2> DEFINE bits == Append(Chip.bits, TheByte[j])
  <2>6. /\ bits \in Seq(Bits) /\ Len(bits) = j
        /\ \A i \in 1..j : bits[i] = TheByte[i]
    <3>1. TheByte[j] \in Bits
      BY <1>B DEF Bytes
    <3>2. /\ bits \in Seq(Bits) /\ Len(bits) = j /\ bits[j] = TheByte[j]
          /\ \A i \in 1..(j - 1) : bits[i] = Chip.bits[i]
      BY <1>B, <2>2, <3>1, AppendProperties DEF Taken
    <3> HIDE DEF bits
    <3> QED
      BY <2>2, <3>2 DEF Taken
  <2>7. CASE j < Width
    <3>1. Chip' = [Chip EXCEPT !.bits = bits]
      BY <2>4, <2>5, <2>6, <2>7 DEF TakeBit
    <3> HIDE DEF bits
    <3>2. /\ Chip'.bits = bits /\ Chip'.answer = Chip.answer
          /\ Chip'.sent = Chip.sent /\ Chip'.answered = Chip.answered
      BY <1>B, <3>1 DEF ChipStates
    <3>3. Taken(j)' /\ Shifted(j - 1)'
      BY <1>B, <2>2, <2>3, <2>6, <3>2 DEF Taken, Shifted
    <3>4. High(j)'
      BY <2>3, <2>7, <3>2, <3>3 DEF High
    <3>5. ASSUME NEW k \in 1..Width PROVE Low(k)' /\ High(k)'
      <4>1. k # j => High(k)'
        BY <2>3 DEF High
      <4>2. Low(k)'
        BY <2>3 DEF Low
      <4> QED
        BY <3>4, <4>1, <4>2
    <3>6. Transmission'
      BY <1>K, <1>W, <2>3, <3>5 DEF Transmission, Start
    <3>7. UnderWay' /\ UnderWay
      BY <1>5, <1>K, <1>W, <2>3, <2>7 DEF UnderWay
    <3> QED
      BY <3>2, <3>6, <3>7 DEF Moves
  <2>8. CASE j = Width
    <3>1. bits = TheByte
      <4>1. bits \in Bytes
        <5> HIDE DEF bits
        <5> QED
          BY <1>W, <2>6, <2>8 DEF Bytes
      <4> HIDE DEF bits
      <4> QED
        BY <1>B, <2>6, <2>8, <4>1, SameBits
    <3>2. ~(Len(bits) < Width)
      BY <1>W, <2>6, <2>8
    <3>3. Chip' = [Chip EXCEPT !.bits = <<>>, !.sent = Append(Chip.sent, TheByte),
                               !.answered = Append(Chip.answered, Chip.answer)]
      BY <2>4, <2>5, <3>1, <3>2 DEF TakeBit
    <3> HIDE DEF bits
    <3>4. /\ Chip'.bits = <<>> /\ Chip'.answer = Chip.answer
          /\ Chip'.sent = Append(Chip.sent, TheByte)
          /\ Chip'.answered = Append(Chip.answered, Chip.answer)
      BY <1>B, <3>3 DEF ChipStates
    <3>5. Taken(0)' /\ Shifted(j - 1)'
      BY <1>B, <2>2, <2>3, <3>4 DEF Taken, Shifted
    <3>6. High(j)'
      BY <2>3, <2>8, <3>4, <3>5 DEF High
    <3>7. ASSUME NEW k \in 1..Width PROVE Low(k)' /\ High(k)'
      <4>1. k # j => High(k)'
        BY <2>3 DEF High
      <4>2. Low(k)'
        BY <2>3 DEF Low
      <4> QED
        BY <3>6, <4>1, <4>2
    <3>8. Transmission'
      BY <1>K, <1>W, <2>3, <3>7 DEF Transmission, Start
    <3>9. UnderWay /\ ~UnderWay'
      BY <1>5, <1>K, <1>W, <2>3, <2>8 DEF UnderWay
    <3> QED
      BY <3>4, <3>8, <3>9 DEF Moves
  <2> QED
    BY <1>W, <2>7, <2>8
<1>6. ASSUME slowclock(core), ~core.transaction_primed,
             NEW j \in 1..Width, core.state = 2 * j + 1
      PROVE  Transmission' /\ Moves
  <2>1. High(j)
    BY DEF Transmission
  <2>2. /\ core.SCLK = 1 /\ Shifted(j - 1) /\ Taken(IF j < Width THEN j ELSE 0)
        /\ core.MISO_reg = Chip.answer[j]
    BY <1>6, <2>1 DEF High
  <2>3. core'.shift_reg = ShiftIn(core.shift_reg, core.MISO_reg) /\ core'.slowcount = 0 /\ ~core'.RRDY
    BY <1>6, <1>K, <1>W, <2>2 DEF shifts
  <2>4. /\ \A i \in 1..(Width - 1) : core'.shift_reg[i] = core.shift_reg[i + 1]
        /\ core'.shift_reg[Width] = Chip.answer[j]
    BY <1>T, <2>2, <2>3, ShiftInBits
  <2>5. /\ \A i \in 1..(Width - j) : core'.shift_reg[i] = TheByte[i + j]
        /\ \A i \in 1..j : core'.shift_reg[Width - j + i] = Chip.answer[i]
    <3>1. ASSUME NEW i \in 1..(Width - j) PROVE core'.shift_reg[i] = TheByte[i + j]
      <4>1. i \in 1..(Width - 1) /\ i + 1 \in 1..(Width - (j - 1)) /\ (i + 1) + (j - 1) = i + j
        BY <1>W
      <4> QED
        BY <2>2, <2>4, <4>1 DEF Shifted
    <3>2. ASSUME NEW i \in 1..(j - 1) PROVE core'.shift_reg[Width - j + i] = Chip.answer[i]
      <4>1. Width - j + i \in 1..(Width - 1) /\ (Width - j + i) + 1 = Width - (j - 1) + i
        BY <1>W
      <4> QED
        BY <2>2, <2>4, <4>1 DEF Shifted
    <3>3. Width - j + j = Width
      BY <1>W
    <3> QED
      BY <2>4, <3>1, <3>2, <3>3
  <2>6. CASE j < Width
    <3>1. /\ core'.state = 2 * (j + 1) /\ ~core'.transaction_primed /\ core'.transmitting
          /\ core'.SCLK = 0 /\ j + 1 \in 1..Width
      BY <1>6, <1>K, <1>W, <2>2, <2>6
    <3>2. Len(Chip.bits) = j /\ Chip.bits # <<>>
      BY <2>2, <2>6 DEF Taken
    <3>3. Chip' = PutBit(Chip, Chip.answer)
      BY <1>C, <2>2, <3>1, <3>2 DEF Falls
    <3>4. /\ Chip'.bits = Chip.bits /\ Chip'.answer = Chip.answer
          /\ Chip'.out = Chip.answer[j + 1]
          /\ Chip'.sent = Chip.sent /\ Chip'.answered = Chip.answered
      BY <1>B, <3>2, <3>3 DEF PutBit, ChipStates
    <3>5. Taken(j)' /\ Shifted(j)'
      BY <1>B, <2>2, <2>5, <2>6, <3>4 DEF Taken, Shifted
    <3>6. ASSUME NEW k \in 1..Width PROVE Low(k)' /\ High(k)'
      <4>1. k = j + 1 => Low(k)'
        <5>1. (j + 1) - 1 = j
          OBVIOUS
        <5>2. Low(j + 1)'
          BY <2>3, <3>1, <3>4, <3>5, <5>1 DEF Low
        <5> QED
          BY <5>2
      <4>2. k # j + 1 => Low(k)'
        BY <3>1 DEF Low
      <4>3. High(k)'
        BY <3>1 DEF High
      <4> QED
        BY <4>1, <4>2, <4>3
    <3>7. Transmission'
      BY <1>K, <1>W, <2>3, <3>1, <3>6 DEF Transmission, Start
    <3>8. UnderWay' /\ UnderWay
      BY <1>6, <1>K, <1>W, <2>6, <3>1 DEF UnderWay
    <3> QED
      BY <3>4, <3>7, <3>8 DEF Moves
  <2>7. CASE j = Width
    <3>1. /\ core'.state = 0 /\ core'.transaction_primed /\ core'.transmitting
          /\ core'.SCLK = 1
      BY <1>6, <1>K, <1>W, <2>2, <2>7
    <3>2. Chip' = Chip
      BY <1>C, <2>2, <3>1 DEF Rises, Falls
    <3>3. Taken(0)' /\ Shifted(Width)'
      BY <1>B, <2>2, <2>5, <2>7, <3>2 DEF Taken, Shifted
    <3>4. ASSUME NEW k \in 1..Width PROVE Low(k)' /\ High(k)'
      BY <3>1 DEF Low, High
    <3>5. Transmission'
      BY <1>K, <1>W, <2>3, <3>1, <3>3, <3>4 DEF Transmission, Start
    <3>6. ~UnderWay' /\ ~UnderWay
      BY <1>6, <1>K, <1>W, <2>7, <3>1 DEF UnderWay
    <3> QED
      BY <3>2, <3>5, <3>6 DEF Moves
  <2> QED
    BY <1>W, <2>6, <2>7
<1> QED
  BY <1>1, <1>2, <1>3, <1>4, <1>5, <1>6, <1>T, BitOf

(* An edge without a transmission moves no bit. *)
LEMMA IdleEdge ==
    ASSUME CommandInv, NEW bus, Accesses(bus), Edge(bus), ~core.transmitting
    PROVE  /\ core.state = 0 /\ core'.state = 0 /\ core'.SCLK = 1 /\ ~core'.transaction_primed
           /\ core'.rx_holding_reg = core.rx_holding_reg
           /\ core'.shift_reg = IF core.tx_holding_primed THEN core.tx_holding_reg
                                ELSE core.shift_reg
           /\ \A s \in Slaves :
                 chips'[s] = IF s \in Selected(core') THEN chips[s] ELSE Unselected
<1> USE DEF CommandInv, ControlInv
<1>1. core' = NextCore(core, bus, Lines) /\ core \in CoreStates
  BY EdgeType DEF CommandTypeOK
<1>2. core.state = 0 /\ ~core.transaction_primed /\ core.SCLK = 1 /\ LastState > 0
  BY SpiAssumption DEF Engine, Transmission, Start, LastState
<1>3. /\ core'.state = core.state /\ ~core'.transaction_primed
  <2>1. /\ core'.state = IF core.transmitting /\ slowclock(core)
                         THEN (IF core.state = LastState THEN 0 ELSE core.state + 1)
                         ELSE core.state
        /\ core'.transaction_primed <=> slowclock(core) /\ core.state = LastState
    BY <1>1, CoreControl
  <2> QED
    BY <1>2, <2>1
<1>4. core'.SCLK = 1 /\ core'.rx_holding_reg = core.rx_holding_reg
  BY <1>1, <1>2, CoreData
<1>5. ~shifts(core) /\ (write_shift_reg(core) <=> core.tx_holding_primed)
  BY <1>2 DEF shifts, write_shift_reg
<1>6. core'.shift_reg = IF core.tx_holding_primed THEN core.tx_holding_reg ELSE core.shift_reg
  BY <1>1, <1>5, CoreData
<1>7. ~Rises /\ ~Falls
  BY <1>2, <1>4 DEF Rises, Falls
<1>8. ASSUME NEW s \in Slaves
      PROVE  chips'[s] = IF s \in Selected(core') THEN chips[s] ELSE Unselected
  BY <1>7, ChipEdge, EdgeSelects
<1> QED
  BY <1>2, <1>3, <1>4, <1>6, <1>8

TransactionStep == [Transaction!TransactionNext]_(Transaction!transaction_vars)

(* An edge that the driver lets pass: it waits, or reads. *)
LEMMA EdgeWaits ==
    ASSUME CommandInv, ControlInv', NEW bus, Accesses(bus), Edge(bus),
           \A reg \in {"TXDATA", "CONTROL", "SLAVE_SEL"} : ~Wrote(core, bus, reg),
           UNCHANGED <<command, credits, written, read_ignore, read_data, results>>,
           \/ pc' = pc
           \/ pc = "discard" /\ pc' = "poll"
           \/ pc = "poll" /\ pc' \in Loop
           \/ pc = "finish" /\ pc' = "release",
           core'.strobe => pc' = pc /\ (pc = "receive" => bus = Read("RXDATA"))
    PROVE  CommandInv' /\ TransactionStep
<1> USE DEF CommandInv, ControlInv
<1> DEFINE x == command.slave
<1>1. /\ pc = "idle" <=> pc' = "idle"
      /\ pc \in {"idle", "select"} <=> pc' \in {"idle", "select"}
      /\ pc \in Loop \union {"discard", "finish", "release"}
            <=> pc' \in Loop \union {"discard", "finish", "release"}
  BY DEF Loop
<1>2. core.tx_holding_primed \/ core.transmitting => pc = "poll" /\ pc' \in Loop /\ core.SSO_reg
  BY DEF Engine, OneByte, Seen, Selection, CommandTypeOK, Loop
<1>3. /\ core'.SSO_reg = core.SSO_reg
      /\ core'.slave_select_hold = core.slave_select_hold
      /\ core'.slave_select = IF write_shift_reg(core) THEN core.slave_select_hold
                              ELSE core.slave_select
      /\ \A s \in Slaves \ Selected(core') : chips'[s] = Unselected
  BY EdgeSelects
<1>4. Selection'
  BY <1>1, <1>2, <1>3 DEF Selection, write_shift_reg
<1>5. /\ core'.tx_holding_primed <=> FALSE
      /\ core'.transmitting <=>
            ~core.transaction_primed /\ (core.transmitting \/ core.tx_holding_primed)
      /\ core'.RRDY <=> core.transaction_primed \/ (core.RRDY /\ ~TakesData(core, bus))
      /\ core'.data_to_cpu =
            IF bus.reg = "STATUS" THEN [status |-> Status(core), data |-> Zero]
            ELSE [status |-> {}, data |-> core.rx_holding_reg]
  BY EdgeEngine
<1>6. /\ Selected(core) = IF core.SSO_reg THEN {x} ELSE {}
      /\ Selected(core') = IF core.SSO_reg THEN {x} ELSE {}
      /\ pc # "idle" => x \in Slaves
  BY <1>2, <1>3, <1>4, <1>5 DEF Selection, Selected, Engine, CommandTypeOK
<1>7. \A s \in Slaves \ Selected(core) :
          /\ chips[s].sent = <<>> /\ chips[s].answered = <<>>
          /\ chips'[s].sent = <<>> /\ chips'[s].answered = <<>>
  BY <1>3, <1>6 DEF Selection, Unselected
<1>8. (Len(command.write) \in Nat /\ Len(read_data) \in Nat /\ command.write # <<>>) \/ pc = "idle"
  BY DEF CommandTypeOK
<1>9. CASE core.transmitting
  <2>1. Transmission' /\ Moves
    BY <1>2, <1>9, TransmitEdge
  <2>2. /\ pc = "poll" /\ pc' \in Loop /\ x \in Slaves
        /\ Selected(core) = {x} /\ Selected(core') = {x}
    BY <1>2, <1>6, <1>9 DEF Loop
  <2>3. /\ TheByte \in Bytes /\ Chip \in ChipStates /\ Chip.answer \in Bytes
        /\ credits = 0 /\ written > 0 /\ written <= ToSend
    BY <1>9, <2>2, ByteOf DEF Loop, ChipStates
  <2>4. CASE /\ UnderWay' <=> UnderWay
             /\ Chip'.sent = Chip.sent /\ Chip'.answered = Chip.answered
             /\ ~UnderWay => Chip'.answer = Chip.answer
    <3>1. Exchanged'
      BY <2>2, <2>3, <2>4 DEF Exchanged, Loop
    <3>2. ReadBack'
      BY <2>2, <2>4 DEF ReadBack, Received, ToSend, Loop
    <3>3. \A s \in Slaves : chips'[s].sent = chips[s].sent /\ chips'[s].answered = chips[s].answered
      BY <1>7, <2>2, <2>4 DEF Chip
    <3>4. TransactionStep
      BY <3>3 DEF TransactionStep, Transaction!transaction_vars
    <3> QED
      BY <1>4, <2>1, <3>1, <3>2, <3>4
  <2>5. CASE /\ UnderWay /\ ~UnderWay'
             /\ Chip'.sent = Append(Chip.sent, TheByte)
             /\ Chip'.answered = Append(Chip.answered, Chip.answer)
             /\ Chip'.answer = Chip.answer
    <3>1. /\ Chip.sent \in Seq(Bytes) /\ Chip.answered \in Seq(Bytes)
          /\ Len(Chip.sent) = written - 1 /\ Len(Chip.answered) = written - 1
          /\ written \in Nat
      BY <2>2, <2>3, <2>5 DEF Exchanged, ChipStates, CommandTypeOK
    <3>2. /\ Len(Chip'.sent) = written /\ Len(Chip'.answered) = written
          /\ Chip'.answered[written] = Chip'.answer
          /\ \A i \in 1..(written - 1) : Chip'.answered[i] = Chip.answered[i]
      BY <2>3, <2>5, <3>1, AppendProperties
    <3>3. Exchanged'
      BY <2>2, <2>3, <2>5, <3>2 DEF Exchanged, Loop
    <3>4. ReadBack'
      <4>1. ASSUME NEW i \in 1..Len(read_data)
            PROVE  read_data[i] = Chip'.answered[Len(command.write) + i]
        <5>1. read_data # <<>>
          BY DEF CommandTypeOK
        <5>2. Len(command.write) + i \in 1..(written - 1)
          BY SMTT(30), <1>8, <2>2, <2>3, <3>1, <5>1 DEF ReadBack, Received, CommandTypeOK
        <5> QED
          BY <2>2, <3>2, <5>2 DEF ReadBack
      <4> QED
        BY <2>2, <2>3, <3>1, <3>2, <4>1 DEF ReadBack, Received, ToSend, Loop
    <3>5. \A s \in Slaves : s # x =>
              /\ chips[s].sent = <<>> /\ chips'[s].sent = <<>>
              /\ chips[s].answered = <<>> /\ chips'[s].answered = <<>>
      BY <1>7, <2>2
    <3> PICK z \in Slaves : z = x
      BY <2>2
    <3>6. Transaction!Exchange(z)
      <4>1. command # Transaction!NoCommand
        BY <1>8, <2>2 DEF Transaction!NoCommand
      <4>2. Len(Chip.sent) < Len(command.write) + command.read
        BY <1>8, <2>2, <2>3, <3>1 DEF ToSend, CommandTypeOK
      <4>3. TheByte = Transaction!ByteToSend(command, Len(Chip.sent) + 1)
        BY <3>1 DEF TheByte
      <4> DEFINE sent     == [s \in Slaves |-> chips[s].sent]
                 answered == [s \in Slaves |-> chips[s].answered]
      <4>4. [s \in Slaves |-> chips'[s].sent]
               = [sent EXCEPT ![x] = Append(@, Transaction!ByteToSend(command, Len(@) + 1))]
        BY <2>2, <2>5, <3>5, <4>3 DEF Chip
      <4>5. [s \in Slaves |-> chips'[s].answered]
               = [answered EXCEPT ![x] = Append(@, Chip.answer)]
        BY <2>2, <2>5, <3>5 DEF Chip
      <4>6. Len(sent[x]) < Len(command.write) + command.read
        BY <2>2, <4>2 DEF Chip
      <4> QED
        BY <2>3, <4>1, <4>4, <4>5, <4>6 DEF Transaction!Exchange
    <3>7. Transaction!TransactionNext
      <4>1. \E s \in Slaves : Transaction!Exchange(s)
        BY <3>6, Zenon
      <4> QED
        BY <4>1, Zenon DEF Transaction!TransactionNext
    <3>8. TransactionStep
      BY <3>7 DEF TransactionStep
    <3> QED
      BY <1>4, <2>1, <3>3, <3>4, <3>8
  <2> QED
    BY <2>1, <2>4, <2>5 DEF Moves
<1>10. CASE ~core.transmitting
  <2>1. /\ core.state = 0 /\ core'.state = 0 /\ core'.SCLK = 1 /\ ~core'.transaction_primed
        /\ core'.rx_holding_reg = core.rx_holding_reg
        /\ core'.shift_reg = IF core.tx_holding_primed THEN core.tx_holding_reg ELSE core.shift_reg
        /\ \A s \in Slaves : chips'[s] = IF s \in Selected(core') THEN chips[s] ELSE Unselected
    BY <1>10, IdleEdge
  <2>2. \A s \in Slaves : chips'[s] = chips[s]
    BY <1>6, <2>1 DEF Selection
  <2>3. pc # "idle" => Chip' = Chip
    BY <1>6, <2>2 DEF Chip
  <2>4. Start'
    <3>1. pc # "idle" => Taken(0)'
      BY <2>1, <2>3 DEF Transmission, Start, Taken
    <3>2. core.tx_holding_primed => Shifted(0)'
      BY <2>1 DEF Transmission, Shifted, TheByte
    <3> QED
      BY <1>1, <1>5, <1>10, <2>1, <3>1, <3>2 DEF Start
  <2>5. Transmission'
    <3>1. ASSUME NEW j \in 1..Width PROVE Low(j)' /\ High(j)'
      BY <2>1, SpiAssumption DEF Low, High
    <3>2. pc' \in Loop /\ core'.RRDY => pc \in Loop /\ core.RRDY
      BY <1>5, <2>1, <1>10 DEF OneByte, Seen, Engine, Loop
    <3>3. pc' \in Loop /\ core'.RRDY => core'.rx_holding_reg = Chip'.answer
      BY <2>1, <2>3, <3>2 DEF Transmission, Loop
    <3> QED
      BY <1>5, <2>1, <2>4, <3>1, <3>3 DEF Transmission
  <2>6. UnderWay' <=> UnderWay
    BY <1>5, <1>10, <2>1, SpiAssumption DEF UnderWay, Engine, LastState
  <2>7. Exchanged'
    BY <1>1, <2>3, <2>6 DEF Exchanged, Seen, Loop
  <2>8. ReadBack'
    <3>1. pc' = "receive" /\ core'.strobe => core'.data_to_cpu.data = Chip'.answer
      BY <1>5, <2>3 DEF Read, Transmission, Seen, Loop
    <3>2. pc' \in Loop => Received < ToSend
      BY <1>8 DEF ReadBack, Received, ToSend, Seen, CommandTypeOK, Loop
    <3>3. pc' # "idle" => pc # "idle" /\ Chip' = Chip
      BY <1>1, <2>3
    <3>4. pc' \in {"select", "force", "discard"} => pc \in {"select", "force", "discard"}
      BY DEF Loop
    <3>5. pc' \in {"finish", "release"} => pc \in {"finish", "release"}
      BY DEF Loop
    <3> QED
      BY <3>1, <3>2, <3>3, <3>4, <3>5 DEF ReadBack, Received, ToSend
  <2>9. TransactionStep
    BY <2>2 DEF TransactionStep, Transaction!transaction_vars
  <2> QED
    BY <1>4, <2>5, <2>7, <2>8, <2>9
<1> QED
  BY <1>9, <1>10

(* An access while nothing is transmitted. *)
LEMMA IdleAccess ==
    ASSUME CommandInv, NEW from \in {"select", "force", "send", "receive", "release"},
           NEW to \in Labels, Access(from, to)
    PROVE  /\ pc = from /\ pc' = to /\ core.strobe /\ ~core'.strobe
           /\ ~core.transmitting /\ ~core.tx_holding_primed
           /\ ~core'.transmitting /\ ~core'.transaction_primed
           /\ core'.tx_holding_primed <=> from = "send"
           /\ core'.RRDY <=> core.RRDY /\ from # "receive"
           /\ core.state = 0 /\ core'.state = 0 /\ core'.SCLK = 1
           /\ core'.rx_holding_reg = core.rx_holding_reg
           /\ \A s \in Slaves :
                 chips'[s] = IF s \in Selected(core') THEN chips[s] ELSE Unselected
           /\ core'.SSO_reg <=> from = "force" \/ (from # "release" /\ core.SSO_reg)
           /\ core'.slave_select_hold = IF from = "select" THEN {command.slave}
                                        ELSE core.slave_select_hold
           /\ core'.slave_select = IF from = "force" THEN core.slave_select_hold
                                   ELSE core.slave_select
           /\ from = "send" =>
                 core'.tx_holding_reg = Transaction!ByteToSend(command, written + 1)
<1> USE DEF CommandInv, ControlInv
<1> DEFINE bus == BusAt(from)
<1>1. /\ Accesses(bus) /\ Edge(bus) /\ pc = from /\ pc' = to /\ ~core'.strobe
      /\ core'.tx_holding_primed <=> from = "send"
      /\ core'.transmitting <=>
            ~core.transaction_primed /\ (core.transmitting \/ core.tx_holding_primed)
      /\ core'.RRDY <=> core.transaction_primed \/ (core.RRDY /\ from \notin {"discard", "receive"})
  BY AccessEdge DEF Labels
<1>2. core.strobe
  BY DEF Access
<1>3. ~core.transmitting /\ ~core.tx_holding_primed /\ ~core.transaction_primed
  BY <1>1 DEF Engine, OneByte, Seen, Loop
<1>4. /\ core.state = 0 /\ core'.state = 0 /\ core'.SCLK = 1 /\ ~core'.transaction_primed
      /\ core'.rx_holding_reg = core.rx_holding_reg
      /\ \A s \in Slaves :
            chips'[s] = IF s \in Selected(core') THEN chips[s] ELSE Unselected
  BY <1>1, <1>3, IdleEdge
<1>5. /\ core'.SSO_reg = IF Wrote(core, bus, "CONTROL") THEN "SSO" \in bus.data ELSE core.SSO_reg
      /\ core'.slave_select_hold =
            IF Wrote(core, bus, "SLAVE_SEL") THEN bus.data ELSE core.slave_select_hold
      /\ core'.slave_select =
            IF \/ write_shift_reg(core)
               \/ Wrote(core, bus, "CONTROL") /\ "SSO" \in bus.data /\ ~core.SSO_reg
            THEN core.slave_select_hold ELSE core.slave_select
  BY <1>1, EdgeSelects
<1>6. /\ Wrote(core, bus, "CONTROL") <=> from \in {"force", "release"}
      /\ Wrote(core, bus, "SLAVE_SEL") <=> from = "select"
      /\ Wrote(core, bus, "TXDATA") <=> from = "send"
      /\ from = "force" => bus.data = {"SSO"}
      /\ from = "release" => bus.data = {}
      /\ from = "select" => bus.data = {command.slave}
      /\ from = "send" => bus.data = Transaction!ByteToSend(command, written + 1)
  BY <1>2, BusOf DEF Wrote, Write, Read
<1>7. from = "force" => ~core.SSO_reg
  BY <1>1 DEF Selection, Loop
<1>8. /\ core'.SSO_reg <=> from = "force" \/ (from # "release" /\ core.SSO_reg)
      /\ core'.slave_select_hold = IF from = "select" THEN {command.slave}
                                   ELSE core.slave_select_hold
      /\ core'.slave_select = IF from = "force" THEN core.slave_select_hold
                              ELSE core.slave_select
  <2>1. from \in {"force", "release"} \/ core'.SSO_reg = core.SSO_reg
    BY <1>5, <1>6
  <2>2. from \in {"force", "release"} => (core'.SSO_reg <=> from = "force")
    BY <1>5, <1>6
  <2> QED
    BY <1>3, <1>5, <1>6, <1>7, <2>1, <2>2 DEF write_shift_reg
<1>9. from = "send" => core'.tx_holding_reg = Transaction!ByteToSend(command, written + 1)
  <2>1. core' = NextCore(core, bus, Lines) /\ core \in CoreStates
    BY <1>1, EdgeType DEF CommandTypeOK
  <2>2. core'.tx_holding_reg = IF Wrote(core, bus, "TXDATA") /\ TRDY(core) THEN bus.data
                               ELSE core.tx_holding_reg
    BY <2>1, CoreData
  <2> QED
    BY <1>3, <1>6, <2>2 DEF TRDY
<1> QED
  BY <1>1, <1>2, <1>3, <1>4, <1>8, <1>9

LEMMA SelectsSlave ==
    ASSUME CommandInv, ControlInv', SelectSlave \/ ForceSelect
    PROVE  CommandInv' /\ TransactionStep
<1> USE DEF CommandInv, ControlInv
<1>1. PICK from \in {"select", "force"}, to \in {"force", "discard"} :
          /\ Access(from, to)
          /\ to = IF from = "select" THEN "force" ELSE "discard"
          /\ UNCHANGED <<command, done, status, credits, written, read_ignore, read_data, results>>
  BY DEF SelectSlave, ForceSelect
<1>2. /\ pc = from /\ pc' = to /\ ~core'.strobe
      /\ ~core.transmitting /\ ~core.tx_holding_primed
      /\ ~core'.transmitting /\ ~core'.transaction_primed /\ ~core'.tx_holding_primed
      /\ core.state = 0 /\ core'.state = 0 /\ core'.SCLK = 1
      /\ \A s \in Slaves : chips'[s] = IF s \in Selected(core') THEN chips[s] ELSE Unselected
      /\ core'.SSO_reg <=> from = "force" \/ (from # "release" /\ core.SSO_reg)
      /\ core'.slave_select_hold = IF from = "select" THEN {command.slave}
                                   ELSE core.slave_select_hold
      /\ core'.slave_select = IF from = "force" THEN core.slave_select_hold
                              ELSE core.slave_select
  BY <1>1, IdleAccess DEF Labels
<1>3. ~core.SSO_reg /\ command.slave \in Slaves /\ Selected(core) = {}
  BY <1>1, <1>2 DEF Selection, Selected, Loop, CommandTypeOK
<1>4. \A s \in Slaves : chips[s] = Unselected /\ chips'[s] = Unselected
  BY <1>2, <1>3 DEF Selection
<1>5. Selection'
  BY <1>1, <1>2, <1>3, <1>4 DEF Selection, Loop
<1>6. Chip' = Chip /\ Chip = Unselected
  BY <1>1, <1>3, <1>4 DEF Chip
<1>7. Transmission'
  <2>1. Taken(0)'
    BY <1>6 DEF Taken, Unselected
  <2> QED
    BY <1>1, <1>2, <2>1 DEF Transmission, Start, Loop
<1>8. Exchanged' /\ ReadBack'
  BY <1>1, <1>2, <1>6 DEF Exchanged, ReadBack, Received, ToSend, UnderWay, Loop
<1>9. TransactionStep
  BY <1>1, <1>4 DEF TransactionStep, Transaction!transaction_vars
<1> QED
  BY <1>5, <1>7, <1>8, <1>9

LEMMA SendsByte ==
    ASSUME CommandInv, ControlInv', SendByte
    PROVE  CommandInv' /\ TransactionStep
<1> USE DEF CommandInv, ControlInv
<1>1. Access("send", "poll")
  BY DEF SendByte, Access, Seen
<1>2. /\ pc = "send" /\ pc' = "poll" /\ ~core'.strobe
      /\ ~core.transmitting /\ ~core.tx_holding_primed
      /\ ~core'.transmitting /\ ~core'.transaction_primed /\ core'.tx_holding_primed
      /\ core.state = 0 /\ core'.state = 0 /\ core'.SCLK = 1 /\ (core'.RRDY <=> core.RRDY)
      /\ \A s \in Slaves : chips'[s] = IF s \in Selected(core') THEN chips[s] ELSE Unselected
      /\ core'.SSO_reg <=> core.SSO_reg
      /\ core'.slave_select_hold = core.slave_select_hold
      /\ core'.slave_select = core.slave_select
      /\ core'.tx_holding_reg = Transaction!ByteToSend(command, written + 1)
  BY <1>1, IdleAccess DEF Labels
<1>3. /\ credits = 1 /\ credits' = 0 /\ written' = written + 1 /\ written \in Nat
      /\ UNCHANGED <<command, read_ignore, read_data, results>>
  BY <1>2 DEF SendByte, Seen, CommandTypeOK
<1>4. Selected(core') = Selected(core) /\ core.SSO_reg /\ ~core.RRDY
  BY <1>2, <1>3 DEF Selection, OneByte, Selected, Loop
<1>5. \A s \in Slaves : chips'[s] = chips[s]
  BY <1>2, <1>4 DEF Selection
<1>6. Chip' = Chip
  BY <1>2, <1>3, <1>5 DEF Chip, CommandTypeOK
<1>7. Selection'
  BY <1>2, <1>3, <1>4, <1>5 DEF Selection, Loop
<1>8. Transmission'
  <2>1. Taken(0)'
    BY <1>2, <1>6 DEF Transmission, Start, Taken
  <2> QED
    BY <1>2, <1>3, <1>4, <2>1 DEF Transmission, Start, TheByte
<1>9. Exchanged'
  BY <1>2, <1>3, <1>6 DEF Exchanged, UnderWay
<1>10. ReadBack'
  BY <1>2, <1>3, <1>6 DEF ReadBack, Received, ToSend, Loop
<1>11. TransactionStep
  BY <1>3, <1>5 DEF TransactionStep, Transaction!transaction_vars
<1> QED
  BY <1>7, <1>8, <1>9, <1>10, <1>11

LEMMA ReceivesByte ==
    ASSUME CommandInv, ControlInv', ReceiveByte
    PROVE  CommandInv' /\ TransactionStep
<1> USE DEF CommandInv, ControlInv
<1>1. PICK to \in {"finish", "poll"} :
          /\ Access("receive", to)
          /\ to = IF read_ignore' = 0 /\ Len(read_data') = command.read THEN "finish" ELSE "poll"
  BY DEF ReceiveByte
<1>2. /\ pc = "receive" /\ pc' = to /\ core.strobe /\ ~core'.strobe
      /\ ~core.transmitting /\ ~core.tx_holding_primed
      /\ ~core'.transmitting /\ ~core'.transaction_primed /\ ~core'.tx_holding_primed
      /\ ~core'.RRDY
      /\ core.state = 0 /\ core'.state = 0 /\ core'.SCLK = 1
      /\ \A s \in Slaves : chips'[s] = IF s \in Selected(core') THEN chips[s] ELSE Unselected
      /\ core'.SSO_reg <=> core.SSO_reg
      /\ core'.slave_select_hold = core.slave_select_hold
      /\ core'.slave_select = core.slave_select
  BY <1>1, IdleAccess DEF Labels
<1>3. /\ credits = 0 /\ credits' = 1 /\ written \in Nat /\ read_ignore \in Nat
      /\ read_data \in Seq(Bytes) /\ Len(read_data) \in Nat
      /\ Len(command.write) \in Nat /\ command.read \in Nat
      /\ UNCHANGED <<command, written, results>>
      /\ read_ignore' = IF read_ignore > 0 THEN read_ignore - 1 ELSE 0
      /\ read_data' = IF read_ignore > 0 THEN read_data
                      ELSE Append(read_data, core.data_to_cpu.data)
  BY <1>2 DEF ReceiveByte, Returned, Seen, CommandTypeOK
<1>4. Selected(core') = Selected(core)
  BY <1>2 DEF Selected
<1>5. \A s \in Slaves : chips'[s] = chips[s]
  BY <1>2, <1>4 DEF Selection
<1>6. Chip' = Chip
  BY <1>2, <1>3, <1>5 DEF Chip, CommandTypeOK
<1>7. Selection'
  BY <1>1, <1>2, <1>3, <1>4, <1>5 DEF Selection, Loop
<1>8. Transmission'
  <2>1. Taken(0)'
    BY <1>2, <1>6 DEF Transmission, Start, Taken
  <2> QED
    BY <1>2, <1>3, <2>1 DEF Transmission, Start
<1>9. /\ ~UnderWay /\ Len(Chip.answered) = written /\ written > 0
      /\ Chip.answered[written] = core.data_to_cpu.data
  BY <1>2, <1>3 DEF Exchanged, ReadBack, UnderWay, Loop
<1>10. Exchanged'
  BY <1>2, <1>3, <1>6, <1>9 DEF Exchanged, UnderWay
<1>11. /\ written - 1 = Len(command.write) - read_ignore + Len(read_data)
       /\ written - 1 < Len(command.write) + command.read
       /\ read_ignore <= Len(command.write) /\ Len(read_data) <= command.read
       /\ read_ignore > 0 => read_data = <<>>
       /\ \A i \in 1..Len(read_data) : read_data[i] = Chip.answered[Len(command.write) + i]
  BY <1>2, <1>3 DEF ReadBack, Received, ToSend, Loop
<1>12. ReadBack'
  <2>1. CASE read_ignore > 0
    <3>1. read_ignore' = read_ignore - 1 /\ read_data' = read_data
      BY <1>3, <2>1
    <3> QED
      BY SMTT(30), <1>1, <1>2, <1>3, <1>6, <1>9, <1>11, <2>1, <3>1 DEF ReadBack, Received, ToSend, Loop
  <2>2. CASE read_ignore = 0
    <3> DEFINE data == core.data_to_cpu.data
    <3>1. data \in Bytes
      BY DEF CommandTypeOK, CoreStates
    <3>2. /\ read_ignore' = 0 /\ Len(read_data') = Len(read_data) + 1
          /\ read_data'[Len(read_data) + 1] = data
          /\ \A i \in 1..Len(read_data) : read_data'[i] = read_data[i]
      BY <1>3, <2>2, <3>1, AppendProperties
    <3> DEFINE n == Len(read_data)
               w == Len(command.write)
    <3>3. /\ n \in Nat /\ w \in Nat /\ written \in Nat /\ command.read \in Nat
          /\ n < command.read /\ written = w + (n + 1)
      <4>1. written - 1 = w - read_ignore + n /\ written - 1 < w + command.read
        BY <1>11
      <4>2. n \in Nat /\ w \in Nat /\ written \in Nat /\ command.read \in Nat
        BY <1>3
      <4> HIDE DEF n, w
      <4> QED
        BY <2>2, <4>1, <4>2
    <3>4. ASSUME NEW i \in 1..(n + 1)
          PROVE  read_data'[i] = Chip'.answered[w + i]
      <4>1. CASE i = n + 1
        BY <1>6, <1>9, <3>2, <3>3, <4>1
      <4>2. CASE i \in 1..n
        BY <1>6, <1>11, <3>2, <4>2
      <4> QED
        BY <3>3, <4>1, <4>2
    <3>5. /\ credits' = 1 /\ written' = written /\ command' = command
          /\ read_ignore' = 0 /\ Len(read_data') = n + 1
          /\ Len(command'.write) = w /\ command'.read = command.read
      BY <1>3, <3>2
    <3> HIDE DEF n, w, data
    <3>6. Received' = w + (n + 1)
      BY <3>3, <3>5 DEF Received
    <3>7. pc' = "poll" => n + 1 < command.read
      BY <1>1, <1>2, <3>3, <3>5
    <3>8. pc' = "finish" => n + 1 = command.read
      BY <1>1, <1>2, <3>5
    <3>9. /\ read_ignore' <= Len(command'.write) /\ ~(read_ignore' > 0)
          /\ Received' = Len(command'.write) - read_ignore' + Len(read_data')
          /\ Len(read_data') <= command'.read /\ Received' <= Len(Chip'.answered)
          /\ \A i \in 1..Len(read_data') :
                read_data'[i] = Chip'.answered[Len(command'.write) + i]
      BY <1>6, <1>9, <3>3, <3>4, <3>5, <3>6
    <3>10. /\ pc' = "poll" => Received' < Len(command'.write) + command'.read
           /\ pc' = "finish" => Received' = Len(command'.write) + command'.read
      BY <3>3, <3>5, <3>6, <3>7, <3>8
    <3>11. pc' \in {"poll", "finish"} /\ ~core'.strobe
      BY <1>1, <1>2
    <3> QED
      BY <3>9, <3>10, <3>11 DEF ReadBack, ToSend, Loop
  <2> QED
    BY <1>3, <2>1, <2>2
<1>13. TransactionStep
  BY <1>3, <1>5 DEF TransactionStep, Transaction!transaction_vars
<1> QED
  BY <1>7, <1>8, <1>10, <1>12, <1>13

LEMMA Releases ==
    ASSUME CommandInv, ControlInv', Release
    PROVE  CommandInv' /\ TransactionStep
<1> USE DEF CommandInv, ControlInv
<1>1. Access("release", "idle")
  BY DEF Release
<1>2. /\ pc = "release" /\ pc' = "idle" /\ ~core'.strobe
      /\ ~core.transmitting /\ ~core.tx_holding_primed
      /\ ~core'.transmitting /\ ~core'.transaction_primed /\ ~core'.tx_holding_primed
      /\ core'.state = 0 /\ core'.SCLK = 1 /\ ~core'.SSO_reg
      /\ \A s \in Slaves : chips'[s] = IF s \in Selected(core') THEN chips[s] ELSE Unselected
  BY <1>1, IdleAccess DEF Labels
<1>3. \A s \in Slaves : chips'[s] = Unselected
  BY <1>2 DEF Selected
<1>4. Selection' /\ Transmission' /\ Exchanged' /\ ReadBack'
  BY <1>2, <1>3 DEF Selection, Transmission, Start, Exchanged, ReadBack, Loop
<1>5. /\ command.slave \in Slaves /\ Chip \in ChipStates
      /\ Len(command.write) \in Nat /\ command.read \in Nat /\ command.write # <<>>
      /\ read_data \in Seq(Bytes) /\ read_ignore \in Nat /\ credits = 1 /\ written \in Nat
  BY <1>2 DEF CommandTypeOK, Seen, Loop, Chip
<1>6. /\ Len(Chip.sent) = ToSend /\ Len(Chip.answered) = ToSend
      /\ read_ignore = 0 /\ Len(read_data) = command.read
      /\ \A i \in 1..Len(read_data) : read_data[i] = Chip.answered[Len(command.write) + i]
  BY SMTT(30), <1>2, <1>5 DEF Exchanged, ReadBack, Received, ToSend, UnderWay
<1>7. read_data = Transaction!LastOf(Chip.answered, command.read)
  <2>1. Chip.answered \in Seq(Bytes)
    BY <1>5 DEF ChipStates
  <2>2. Len(Chip.answered) - command.read + 1 = Len(command.write) + 1
    BY <1>5, <1>6 DEF ToSend
  <2> DEFINE last == SubSeq(Chip.answered, Len(command.write) + 1, ToSend)
  <2>3. /\ last \in Seq(Bytes) /\ Len(last) = command.read
        /\ \A i \in 1..command.read : last[i] = Chip.answered[Len(command.write) + i]
    BY SMTT(30), <1>5, <1>6, <2>1, SubSeqProperties DEF ToSend
  <2> HIDE DEF last
  <2>4. read_data = last
    BY <1>5, <1>6, <2>3, SeqEqual
  <2> QED
    BY <1>6, <2>2, <2>4 DEF last, Transaction!LastOf
<1>8. Transaction!Return
  <2>1. command # Transaction!NoCommand
    BY <1>5 DEF Transaction!NoCommand
  <2>2. command' = Transaction!NoCommand /\ results' = Append(results, <<command, read_data>>)
    BY DEF Release
  <2>3. /\ [s \in Slaves |-> chips'[s].sent] = [s \in Slaves |-> <<>>]
        /\ [s \in Slaves |-> chips'[s].answered] = [s \in Slaves |-> <<>>]
    BY <1>3 DEF Unselected
  <2>4. /\ [s \in Slaves |-> chips[s].sent][command.slave] = Chip.sent
        /\ [s \in Slaves |-> chips[s].answered][command.slave] = Chip.answered
    BY <1>5 DEF Chip
  <2> QED
    BY <1>6, <1>7, <2>1, <2>2, <2>3, <2>4 DEF Transaction!Return, Transaction!Silence, ToSend
<1>9. TransactionStep
  BY <1>8 DEF TransactionStep, Transaction!TransactionNext
<1> QED
  BY <1>4, <1>9

LEMMA Calls ==
    ASSUME CommandInv, ControlInv', Call
    PROVE  CommandInv' /\ TransactionStep
<1> USE DEF CommandInv, ControlInv
<1>1. /\ pc = "idle" /\ pc' = "select" /\ UNCHANGED <<core, chips, results>>
      /\ command = Transaction!NoCommand /\ credits' = 1 /\ written' = 0
      /\ read_ignore' = Len(command'.write) /\ read_data' = <<>>
      /\ command' \in [slave : Slaves, write : Seq(Bytes) \ {<<>>}, read : Nat]
  BY DEF Call, Credits, CommandTypeOK, Labels
<1>2. /\ ~core.SSO_reg /\ ~core.tx_holding_primed /\ ~core.transmitting
      /\ ~core.transaction_primed /\ core.state = 0 /\ core.SCLK = 1
  BY <1>1 DEF Selection, Transmission, Start, OneByte, Engine, Loop
<1>3. \A s \in Slaves : chips[s] = Unselected
  BY <1>2 DEF Selection, Selected
<1>4. Chip' = Unselected
  BY <1>1, <1>3 DEF Chip
<1>5. Selection'
  BY <1>1, <1>2, <1>3 DEF Selection, Loop
<1>6. Transmission'
  BY <1>1, <1>2, <1>4 DEF Transmission, Start, Taken, Unselected, Loop
<1>7. Len(command'.write) \in Nat /\ command'.read \in Nat
  BY <1>1
<1>8. Exchanged' /\ ReadBack'
  BY <1>1, <1>2, <1>4, <1>7 DEF Exchanged, ReadBack, Received, UnderWay, Unselected, Loop
<1>9. Transaction!Begin
  BY <1>1 DEF Transaction!Begin, Transaction!Commands
<1>10. TransactionStep
  BY <1>9 DEF TransactionStep, Transaction!TransactionNext
<1> QED
  BY <1>5, <1>6, <1>8, <1>10

LEMMA CommandInvInit == CommandInit => CommandInv /\ Transaction!TransactionInit
<1> SUFFICES ASSUME CommandInit PROVE CommandInv /\ Transaction!TransactionInit
  OBVIOUS
<1>1. PICK rrdy \in BOOLEAN : core = CoreReset(rrdy)
  BY DEF CommandInit
<1>2. /\ core.state = 0 /\ core.SCLK = 1 /\ ~core.SSO_reg
      /\ ~core.transmitting /\ ~core.tx_holding_primed /\ ~core.transaction_primed
  BY <1>1 DEF CoreReset
<1>3. pc = "idle" /\ \A s \in Slaves : chips[s] = Unselected
  BY DEF CommandInit
<1>4. Selection /\ Transmission /\ Exchanged /\ ReadBack
  BY <1>2, <1>3 DEF Selection, Transmission, Start, Exchanged, ReadBack, Loop
<1>5. Transaction!TransactionInit
  BY <1>3 DEF CommandInit, Unselected, Transaction!TransactionInit, Transaction!Silence
<1> QED
  BY <1>4, <1>5, ControlInvInit DEF CommandInv

(* Every edge and every step of the driver is one of the transaction or    *)
(* none that shows.                                                        *)
LEMMA CommandInvStep ==
    CommandInv /\ [CommandNext]_command_vars => CommandInv' /\ TransactionStep
<1> SUFFICES ASSUME CommandInv, [CommandNext]_command_vars
             PROVE  CommandInv' /\ TransactionStep
  OBVIOUS
<1>0. ControlInv /\ ControlInv'
  BY ControlInvStep DEF CommandInv
<1> USE DEF ControlInv
<1>1. CASE Clock
  <2>1. Accesses(NoBus) /\ \A reg \in {"TXDATA", "CONTROL", "SLAVE_SEL"} : ~Wrote(core, NoBus, reg)
    BY <1>1 DEF Clock, NoBus, Accesses, Wrote
  <2>2. ~core'.strobe
    BY <1>0, <1>1, <2>1, EdgeEngine DEF Clock, NoBus
  <2> QED
    BY <1>0, <1>1, <2>1, <2>2, EdgeWaits DEF Clock, driver
<1>2. CASE Address
  <2>1. Accesses(BusAt(pc)) /\ \A reg \in {"TXDATA", "CONTROL", "SLAVE_SEL"} : ~Wrote(core, BusAt(pc), reg)
    BY <1>0, <1>2, AccessesOf DEF Address, Wrote
  <2>2. pc = "receive" => BusAt(pc) = Read("RXDATA")
    BY BusOf
  <2> QED
    BY <1>0, <1>2, <2>1, <2>2, EdgeWaits DEF Address, driver
<1>3. CASE Discard \/ PollStatus \/ Finish
  <2>1. PICK from \in {"discard", "poll", "finish"}, to \in Labels :
            /\ Access(from, to)
            /\ \/ from = "discard" /\ to = "poll"
               \/ from = "poll" /\ to \in Loop
               \/ from = "finish" /\ to \in {"finish", "release"}
            /\ UNCHANGED <<command, credits, written, read_ignore, read_data, results>>
    BY <1>3 DEF Discard, PollStatus, Finish, Labels, Loop
  <2>2. pc = from /\ pc' = to /\ Accesses(BusAt(from)) /\ Edge(BusAt(from)) /\ ~core'.strobe
    BY <1>0, <2>1, AccessEdge DEF Labels
  <2>3. \A reg \in {"TXDATA", "CONTROL", "SLAVE_SEL"} : ~Wrote(core, BusAt(from), reg)
    BY <2>1, BusOf DEF Wrote, Read
  <2> QED
    BY <1>0, <2>1, <2>2, <2>3, EdgeWaits
<1>4. CASE Finished \/ UNCHANGED command_vars
  <2>1. UNCHANGED <<core, chips, driver>>
    BY <1>4 DEF Finished, command_vars
  <2>2. CommandInv'
    BY <1>0, <2>1
       DEF driver, CommandInv, Selection, Selected, Transmission, Start, Low, High, Shifted, Taken,
           Exchanged, ReadBack, Received, UnderWay, ToSend, TheByte, Chip
  <2> QED
    BY <2>1, <2>2 DEF driver, TransactionStep, Transaction!transaction_vars
<1>5. CASE Call \/ SelectSlave \/ ForceSelect \/ SendByte \/ ReceiveByte \/ Release
  BY <1>0, <1>5, Calls, SelectsSlave, SendsByte, ReceivesByte, Releases
<1> QED
  BY <1>1, <1>2, <1>3, <1>4, <1>5 DEF CommandNext, alt_avalon_spi_command

(* Every command exchanges exactly its bytes with its own converter and    *)
(* returns the answers to the ones it reads: see ImplementsTransaction.    *)
THEOREM CommandsAreTransactions == CommandSpec => ImplementsTransaction
<1>1. CommandInv /\ [CommandNext]_command_vars =>
          [Transaction!TransactionNext]_(Transaction!transaction_vars)
  BY CommandInvStep DEF TransactionStep
<1>2. CommandInv /\ [CommandNext]_command_vars => CommandInv'
  BY CommandInvStep
<1> QED
  BY <1>1, <1>2, CommandInvInit, PTL
     DEF CommandSpec, ImplementsTransaction, Transaction!TransactionSpec
================================================================================
