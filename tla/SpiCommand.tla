------------------------------- MODULE SpiCommand -------------------------------
(***************************************************************************)
(* alt_avalon_spi_command() over the SPI master and the converters behind  *)
(* it, one step per clock edge.  An access of the driver keeps the bus for *)
(* two edges, and any number of edges may pass between two accesses.       *)
(* Neither ad7124_write_reg() nor ad7124_read_reg() passes a flag, so that *)
(* the chip select is forced for the whole command and released at its     *)
(* end.                                                                    *)
(***************************************************************************)
EXTENDS SpiMaster, Integers

CONSTANT Script      \* the commands of the program, in order

ASSUME CommandAssumption ==
    Script \in Seq([slave : Slaves, write : Seq(Bytes) \ {<<>>}, read : Nat])

VARIABLES
    pc,          \* the driver's next access
    command,     \* the command in progress
    done,        \* how many commands of the script have begun
    status,      \* the last status the driver has read
    credits,
    written,     \* how many bytes it has written (write_data and write_zeros)
    read_ignore,
    read_data,   \* the bytes it has stored
    chips,       \* the converters' shift registers
    results      \* history: what the commands returned

driver == <<pc, command, done, status, credits, written, read_ignore, read_data, results>>
command_vars == <<core, driver, chips>>

Transaction == INSTANCE SpiTransaction WITH
                   sent     <- [s \in Slaves |-> chips[s].sent],
                   answered <- [s \in Slaves |-> chips[s].answered]

ToSend == Len(command.write) + command.read

(* The commands of main(): a register is written or read. *)
ad7124_write_reg(adc, reg, data)  == [slave |-> adc, write |-> <<reg>> \o data, read |-> 0]
ad7124_read_reg(adc, reg, nbytes) == [slave |-> adc, write |-> <<reg>>, read |-> nbytes]

(***************************************************************************)
(* The converters: a chip that is selected takes a bit from MOSI on every  *)
(* rising edge of SCLK and puts one out on every falling edge; whatever it *)
(* answers is up to it.                                                    *)
(***************************************************************************)
Unselected == [bits |-> <<>>, answer |-> Zero, out |-> 0, sent |-> <<>>, answered |-> <<>>]

Lines == [b \in Boards |->
            IF \E s \in b : s \in Selected(core)
            THEN chips[CHOOSE s \in b : s \in Selected(core)].out ELSE 0]

Rises == core.SCLK = 0 /\ core'.SCLK = 1
Falls == core.SCLK = 1 /\ core'.SCLK = 0

(* The chip has seen the last bit of a byte. *)
TakeBit(c) ==
    LET bits == Append(c.bits, core.shift_reg[1]) IN
    IF Len(bits) < Width THEN [c EXCEPT !.bits = bits]
    ELSE [c EXCEPT !.bits = <<>>,
                   !.sent = Append(@, bits), !.answered = Append(@, c.answer)]

PutBit(c, answer) ==
    [c EXCEPT !.answer = answer, !.out = answer[Len(c.bits) + 1]]

ChipsStep ==
    \E answer \in Bytes :
        /\ \/ Falls /\ \A s \in Selected(core') : chips[s].bits = <<>>
           \/ answer = Zero
        /\ chips' = [s \in Slaves |->
               IF s \notin Selected(core') THEN Unselected
               ELSE IF Rises THEN TakeBit(chips[s])
               ELSE IF Falls /\ chips[s].bits = <<>> THEN PutBit(chips[s], answer)
               ELSE IF Falls THEN PutBit(chips[s], chips[s].answer)
               ELSE chips[s]]

(***************************************************************************)
(* The driver.                                                             *)
(***************************************************************************)
CommandInit ==
    /\ \E rrdy \in BOOLEAN : core = CoreReset(rrdy)
    /\ pc = "idle" /\ command = Transaction!NoCommand /\ done = 0
    /\ status = {} /\ credits = 0 /\ written = 0 /\ read_ignore = 0 /\ read_data = <<>>
    /\ chips = [s \in Slaves |-> Unselected]
    /\ results = <<>>

(* The access the driver makes at pc. *)
BusAt(label) ==
    CASE label = "select"  -> Write("SLAVE_SEL", {command.slave})
      [] label = "force"   -> Write("CONTROL", {"SSO"})
      [] label = "discard" -> Read("RXDATA")
      [] label = "poll"    -> Read("STATUS")
      [] label = "send"    -> Write("TXDATA", Transaction!ByteToSend(command, written + 1))
      [] label = "receive" -> Read("RXDATA")
      [] label = "finish"  -> Read("STATUS")
      [] label = "release" -> Write("CONTROL", {})

Edge(bus) ==
    /\ core' = NextCore(core, bus, Lines)
    /\ ChipsStep

(* An edge on which the driver does not use the bus. *)
Clock ==
    /\ ~core.strobe
    /\ Edge(NoBus)
    /\ UNCHANGED driver

(* The first edge of an access. *)
Address ==
    /\ ~core.strobe /\ pc # "idle"
    /\ Edge(BusAt(pc))
    /\ UNCHANGED driver

(* The second one: the driver goes on from label "from" to "to". *)
Access(from, to) ==
    /\ core.strobe
    /\ pc = from /\ pc' = to
    /\ Edge(BusAt(from))

(* Mutant of Credits: one byte in the shift register and one behind it. *)
Credits_Two == 2

Credits == 1

Call ==
    /\ pc = "idle" /\ done < Len(Script)
    /\ done' = done + 1
    /\ command' = Script[done + 1]
    /\ pc' = "select"
    /\ credits' = Credits /\ written' = 0
    /\ read_ignore' = Len(command'.write) /\ read_data' = <<>>
    /\ UNCHANGED <<core, chips, status, results>>

SelectSlave == /\ Access("select", "force")
               /\ UNCHANGED <<command, done, status, credits, written, read_ignore, read_data, results>>

ForceSelect == /\ Access("force", "discard")
               /\ UNCHANGED <<command, done, status, credits, written, read_ignore, read_data, results>>

Discard == /\ Access("discard", "poll")
           /\ UNCHANGED <<command, done, status, credits, written, read_ignore, read_data, results>>

MaySend(s) == "TRDY" \in s /\ credits > 0

PollStatus ==
    /\ LET s == core.data_to_cpu.status IN
       /\ Access("poll", IF MaySend(s) THEN "send"
                         ELSE IF "RRDY" \in s THEN "receive" ELSE "poll")
       /\ status' = s
    /\ UNCHANGED <<command, done, credits, written, read_ignore, read_data, results>>

(* The last byte that is received ends the loop, and no credit is left     *)
(* while it is under way: there is always a byte to send here.             *)
SendByte ==
    /\ written < ToSend
    /\ Access("send", IF "RRDY" \in status THEN "receive" ELSE "poll")
    /\ credits' = credits - 1
    /\ written' = written + 1
    /\ UNCHANGED <<command, done, status, read_ignore, read_data, results>>

(* Mutant of Returned: what a byte came back for is not counted. *)
Returned_NotCounted(n) == n

Returned(n) == n + 1

ReceiveByte ==
    /\ read_ignore' = IF read_ignore > 0 THEN read_ignore - 1 ELSE 0
    /\ read_data' = IF read_ignore > 0 THEN read_data ELSE Append(read_data, core.data_to_cpu.data)
    /\ Access("receive", IF read_ignore' = 0 /\ Len(read_data') = command.read
                         THEN "finish" ELSE "poll")
    /\ credits' = Returned(credits)
    /\ UNCHANGED <<command, done, status, written, results>>

Finish ==
    /\ LET s == core.data_to_cpu.status IN
       /\ Access("finish", IF "TMT" \in s THEN "release" ELSE "finish")
       /\ status' = s
    /\ UNCHANGED <<command, done, credits, written, read_ignore, read_data, results>>

Release ==
    /\ Access("release", "idle")
    /\ results' = Append(results, <<command, read_data>>)
    /\ command' = Transaction!NoCommand
    /\ UNCHANGED <<done, status, credits, written, read_ignore, read_data>>

alt_avalon_spi_command ==
    \/ Call \/ Address \/ SelectSlave \/ ForceSelect \/ Discard
    \/ PollStatus \/ SendByte \/ ReceiveByte \/ Finish \/ Release

Finished == pc = "idle" /\ done = Len(Script) /\ UNCHANGED command_vars

CommandNext == Clock \/ alt_avalon_spi_command \/ Finished

CommandSpec == CommandInit /\ [][CommandNext]_command_vars

--------------------------------------------------------------------------------
(* The driver neither writes TXDATA while two bytes are on their way nor   *)
(* lets a byte come in on top of one it has not read, whatever was left in *)
(* RXDATA before and however long it is away between two accesses          *)
(* (altera_avalon_spi.c:53-57).                                            *)
NoOverrun == ~core.TOE /\ ~core.ROE

(* Every command exchanges exactly its bytes, with its own converter only, *)
(* and returns what that converter answered behind the bytes written to it *)
(* (altera_avalon_spi.c:64-133): no byte of this command or of an earlier  *)
(* one takes the place of another.                                         *)
ImplementsTransaction == Transaction!TransactionSpec
================================================================================
