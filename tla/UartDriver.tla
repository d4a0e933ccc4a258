------------------------------- MODULE UartDriver -------------------------------
(***************************************************************************)
(* The UART and its driver.  Without ALT_USE_SMALL_DRIVERS it is driven by *)
(* interrupts: write(), read() and close() run against the handler and the *)
(* two lines, with RTS/CTS flow control, and share two rings and a shadow  *)
(* of the control register, which the calls change with the interrupts     *)
(* disabled.  With it, as in this build, the calls poll the UART, no       *)
(* interrupt is enabled, and CTS is ignored: small_write and small_read.   *)
(* A program uses one of the two drivers, and writes at least one byte.    *)
(*                                                                         *)
(* The bytes are numbered in the order in which they are written, and in   *)
(* which they arrive.                                                      *)
(***************************************************************************)
EXTENDS Naturals, Sequences, FiniteSets

CONSTANTS UartBufLen,     \* ALT_AVALON_UART_BUF_LEN
          UartPrograms,   \* sequences of calls, one of which the program makes
          MaxCtsTurns,    \* how often CTS rises or falls
          MaxArrivals     \* how many bytes arrive

ASSUME UartAssumption ==
    /\ UartBufLen \in Nat \ {0, 1}
    /\ {MaxCtsTurns, MaxArrivals} \subseteq Nat

(* A program uses one of the two drivers.                                  *)
SmallOps == {"small_write", "small_read"}
UartCalls(ops) == [op : ops, len : Nat, block : BOOLEAN]

ASSUME UartProgramsAssumption ==
    UartPrograms \subseteq Seq(UartCalls({"write", "read", "close"})) \cup Seq(UartCalls(SmallOps))

VARIABLES
    uart,      \* the registers of the UART and its shift register
    sp,        \* altera_avalon_uart_state
    pie,       \* whether the CPU takes interrupts
    isr,       \* where the handler is, or "none"
    seen,      \* the status it has read
    calls,     \* the calls that are left, the present one first
    upc,       \* where the present call is
    count,     \* its counter
    tmp,       \* the shadow register as it was loaded
    mask,      \* the bits to set in it
    resume,    \* and where to go on behind that
    hist       \* history: what went out and came in, and what became of the rest

uart_vars == <<uart, sp, pie, isr, seen, calls, upc, count, tmp, mask, resume, hist>>

Succ(i) == (i + 1) % UartBufLen

Ring(buf, start, end) ==
    [i \in 1..((UartBufLen + end - start) % UartBufLen) |-> buf[(start + i - 1) % UartBufLen]]

InitialCtrl == IF \E i \in DOMAIN calls : calls[i].op \in SmallOps THEN {} ELSE {"RRDY", "DCTS"}

UartInit ==
    /\ calls \in UartPrograms
    /\ uart = [ctrl |-> InitialCtrl, tx_data |-> 0, tx_ready |-> TRUE, shifter |-> <<>>,
               rx_data |-> 0, rx_ready |-> FALSE, FE |-> FALSE, CTS |-> TRUE, DCTS |-> FALSE]
    /\ sp = [ctrl |-> InitialCtrl, rx_start |-> 0, rx_end |-> 0, tx_start |-> 0, tx_end |-> 0,
             rx_buf |-> [i \in 0..(UartBufLen - 1) |-> 0],
             tx_buf |-> [i \in 0..(UartBufLen - 1) |-> 0]]
    /\ pie = TRUE /\ isr = "none" /\ seen = {}
    /\ upc = "idle" /\ count = 0
    /\ tmp = {} /\ mask = {} /\ resume = "idle"
    /\ hist = [line |-> <<>>, written |-> 0, lost |-> {}, received |-> <<>>,
               arrived |-> 0, refused |-> {}, dropped |-> {}, turns |-> 0]

(***************************************************************************)
(* The UART.                                                               *)
(***************************************************************************)
Status(u) ==
    {f \in {"CTS", "DCTS", "RRDY", "TRDY", "FE"} :
        \/ f = "CTS" /\ u.CTS
        \/ f = "DCTS" /\ u.DCTS
        \/ f = "RRDY" /\ u.rx_ready
        \/ f = "TRDY" /\ u.tx_ready
        \/ f = "FE" /\ u.FE}

Irq == uart.ctrl \cap Status(uart) \cap {"DCTS", "RRDY", "TRDY"} # {}

(* A write to TXDATA; it takes the place of a byte that still waits there. *)
Transmit(u, byte) == [u EXCEPT !.tx_data = byte, !.tx_ready = FALSE]

Overwritten == IF uart.tx_ready THEN {} ELSE {uart.tx_data}

LoadShifter ==
    /\ ~uart.tx_ready /\ uart.shifter = <<>>
    /\ uart' = [uart EXCEPT !.shifter = <<uart.tx_data>>, !.tx_ready = TRUE]
    /\ UNCHANGED hist

ShiftOut ==
    /\ uart.shifter # <<>>
    /\ hist' = [hist EXCEPT !.line = @ \o uart.shifter]
    /\ uart' = [uart EXCEPT !.shifter = <<>>]

Overrun == IF uart.rx_ready THEN {uart.rx_data} ELSE {}

(* A byte comes in, with or without a framing error, and takes the place   *)
(* of one that nobody has read.                                            *)
Arrive ==
    /\ hist.arrived < MaxArrivals
    /\ \E error \in BOOLEAN :
          uart' = [uart EXCEPT !.rx_data = hist.arrived + 1, !.rx_ready = TRUE, !.FE = @ \/ error]
    /\ hist' = [hist EXCEPT !.arrived = @ + 1, !.dropped = @ \cup Overrun]

CtsTurns(level) ==
    /\ uart.CTS # level
    /\ hist.turns < MaxCtsTurns \/ level
    /\ uart' = [uart EXCEPT !.CTS = level, !.DCTS = TRUE]
    /\ hist' = [hist EXCEPT !.turns = @ + 1]

Hardware ==
    /\ LoadShifter \/ ShiftOut \/ Arrive \/ \E level \in BOOLEAN : CtsTurns(level)
    /\ UNCHANGED <<sp, pie, isr, seen, calls, upc, count, tmp, mask, resume>>

(***************************************************************************)
(* altera_avalon_uart_irq().                                               *)
(***************************************************************************)
InIsr(label) ==
    /\ isr = label
    /\ UNCHANGED <<pie, calls, upc, count, tmp, mask, resume>>

IrqRead ==
    /\ isr = "none" /\ pie /\ Irq
    /\ seen' = Status(uart) /\ isr' = "clear"
    /\ UNCHANGED <<uart, sp, hist, pie, calls, upc, count, tmp, mask, resume>>

IrqClear ==
    /\ InIsr("clear")
    /\ uart' = [uart EXCEPT !.DCTS = FALSE, !.FE = FALSE]
    /\ isr' = IF "RRDY" \in seen THEN "rx" ELSE "tx"
    /\ UNCHANGED <<sp, seen, hist>>

(* What the ring holds is forgotten when a byte is put into a full one: a  *)
(* read() enables RRDY although the handler has just filled the ring, and  *)
(* a handler that was called for the transmitter takes a byte as well,     *)
(* although altera_avalon_uart_init.c:188-191 means the interrupts to stay *)
(* disabled until there is room.                                           *)
Forgotten ==
    IF Succ(sp.rx_end) = sp.rx_start
    THEN {sp.rx_buf[i] : i \in (0..(UartBufLen - 1)) \ {sp.rx_end}} \cup {uart.rx_data} ELSE {}

(* A byte that is refused for an error is left in RXDATA, and RRDY with it.*)
altera_avalon_uart_rxirq ==
    /\ InIsr("rx")
    /\ isr' = "tx"
    /\ IF "FE" \in seen
       THEN /\ hist' = [hist EXCEPT !.refused = @ \cup {uart.rx_data}]
            /\ UNCHANGED <<uart, sp>>
       ELSE LET end == Succ(sp.rx_end)
                ctrl == IF Succ(end) = sp.rx_start THEN sp.ctrl \ {"RRDY"} ELSE sp.ctrl
            IN /\ sp' = [sp EXCEPT !.rx_buf[sp.rx_end] = uart.rx_data, !.rx_end = end, !.ctrl = ctrl]
               /\ uart' = [uart EXCEPT !.rx_ready = FALSE,
                             !.ctrl = IF Succ(end) = sp.rx_start THEN ctrl ELSE @]
               /\ hist' = [hist EXCEPT !.dropped = @ \cup Forgotten]
    /\ UNCHANGED seen

(* The interrupts that the handler leaves enabled behind a byte or none.   *)
LeftEnabled(ctrl, start) ==
    IF start = sp.tx_end THEN ctrl \ {"TRDY", "DCTS"} ELSE ctrl

(* Mutant of Throttled: CTS is not looked at again. *)
Throttled_AsSeen == "CTS" \notin seen

Throttled == "CTS" \notin Status(uart)

altera_avalon_uart_txirq ==
    /\ InIsr("tx")
    /\ isr' = "none"
    /\ IF seen \cap {"TRDY", "DCTS"} = {} THEN UNCHANGED <<uart, sp, hist>>
       ELSE IF sp.tx_start # sp.tx_end /\ "CTS" \in seen
       THEN LET start == Succ(sp.tx_start)
                ctrl  == LeftEnabled(sp.ctrl \cup {"TRDY"}, start)
            IN /\ sp' = [sp EXCEPT !.tx_start = start, !.ctrl = ctrl]
               /\ uart' = [Transmit(uart, sp.tx_buf[sp.tx_start]) EXCEPT !.ctrl = ctrl]
               /\ hist' = [hist EXCEPT !.lost = @ \cup Overwritten]
       ELSE LET ctrl == LeftEnabled(IF sp.tx_start # sp.tx_end /\ Throttled
                                    THEN sp.ctrl \ {"TRDY"} ELSE sp.ctrl, sp.tx_start)
            IN /\ sp' = [sp EXCEPT !.ctrl = ctrl]
               /\ uart' = [uart EXCEPT !.ctrl = ctrl]
               /\ UNCHANGED hist
    /\ UNCHANGED seen

altera_avalon_uart_irq ==
    IrqRead \/ IrqClear \/ altera_avalon_uart_rxirq \/ altera_avalon_uart_txirq

(***************************************************************************)
(* The calls.                                                              *)
(***************************************************************************)
(* The CPU takes an interrupt before its next instruction. *)
Interrupted == isr # "none" \/ (pie /\ Irq)

Goes(from, to) ==
    /\ ~Interrupted /\ upc = from /\ upc' = to
    /\ UNCHANGED <<isr, seen>>

NoCall == [op |-> "none", len |-> 0, block |-> FALSE]
call == IF calls = <<>> THEN NoCall ELSE Head(calls)

(* Setting bits in the shadow and in the register; the call goes on at     *)
(* resume.                                                                 *)
SetBits(from, bits, to) ==
    /\ Goes(from, "disable")
    /\ mask' = bits /\ resume' = to
    /\ UNCHANGED <<uart, sp, hist, pie, calls, count, tmp>>

DisableAll ==
    /\ Goes("disable", "load") /\ pie' = FALSE
    /\ UNCHANGED <<uart, sp, hist, calls, count, tmp, mask, resume>>

LoadShadow ==
    /\ Goes("load", "or") /\ tmp' = sp.ctrl
    /\ UNCHANGED <<uart, sp, hist, pie, calls, count, mask, resume>>

StoreShadow ==
    /\ Goes("or", "control") /\ sp' = [sp EXCEPT !.ctrl = tmp \cup mask]
    /\ UNCHANGED <<uart, hist, pie, calls, count, tmp, mask, resume>>

WriteControl ==
    /\ Goes("control", "enable") /\ uart' = [uart EXCEPT !.ctrl = sp.ctrl]
    /\ UNCHANGED <<sp, hist, pie, calls, count, tmp, mask, resume>>

EnableAll ==
    /\ Goes("enable", resume) /\ pie' = TRUE
    /\ tmp' = {} /\ mask' = {} /\ resume' = "idle"
    /\ UNCHANGED <<uart, sp, hist, calls, count>>

Call ==
    /\ calls # <<>>
    /\ Goes("idle", call.op)
    /\ count' = IF call.op \in {"write", "small_write"} THEN call.len ELSE 0
    /\ UNCHANGED <<uart, sp, hist, pie, calls, tmp, mask, resume>>

Returns ==
    /\ Goes("return", "idle") /\ calls' = Tail(calls) /\ count' = 0
    /\ UNCHANGED <<uart, sp, hist, pie, tmp, mask, resume>>

TxBits == {"TRDY", "DCTS"}

RingFull == Succ(sp.tx_end) = sp.tx_start

WriteBlocks == count > 0 /\ RingFull /\ call.block /\ SetBits("write", TxBits, "blocked")

WriteEnds == (count = 0 \/ (RingFull /\ ~call.block)) /\ SetBits("write", TxBits, "return")

WriteGoesOn ==
    /\ \/ Goes("write", "put") /\ count > 0
       \/ Goes("blocked", "put")
    /\ ~RingFull
    /\ UNCHANGED <<uart, sp, hist, pie, calls, count, tmp, mask, resume>>

(* Mutant of SlotToFill: the slot behind the end. *)
SlotToFill_Next == Succ(sp.tx_end)

SlotToFill == sp.tx_end

PutByte ==
    /\ Goes("put", "publish")
    /\ sp' = [sp EXCEPT !.tx_buf[SlotToFill] = hist.written + 1]
    /\ count' = count - 1
    /\ UNCHANGED <<uart, hist, pie, calls, tmp, mask, resume>>

PublishByte ==
    /\ Goes("publish", "write")
    /\ sp' = [sp EXCEPT !.tx_end = Succ(sp.tx_end)]
    /\ hist' = [hist EXCEPT !.written = @ + 1]
    /\ UNCHANGED <<uart, pie, calls, count, tmp, mask, resume>>

altera_avalon_uart_write ==
    WriteBlocks \/ WriteEnds \/ WriteGoesOn \/ PutByte \/ PublishByte

RingEmpty == sp.rx_start = sp.rx_end

TakeByte ==
    /\ Goes("read", "read") /\ count < call.len /\ ~RingEmpty
    /\ count' = count + 1
    /\ hist' = [hist EXCEPT !.received = Append(@, sp.rx_buf[sp.rx_start])]
    /\ sp' = [sp EXCEPT !.rx_start = Succ(@)]
    /\ UNCHANGED <<uart, pie, calls, tmp, mask, resume>>

(* Its loop goes round again, but with all the bytes or with none and an   *)
(* empty ring.                                                             *)
ReadBlocks == count = 0 /\ RingEmpty /\ call.block /\ SetBits("read", {"RRDY"}, "read")

ReadEnds ==
    /\ count = call.len \/ (RingEmpty /\ (count > 0 \/ ~call.block))
    /\ SetBits("read", {"RRDY"}, "return")

altera_avalon_uart_read == TakeByte \/ ReadBlocks \/ ReadEnds

altera_avalon_uart_close ==
    /\ sp.tx_start = sp.tx_end \/ ~call.block
    /\ Goes("close", "return")
    /\ UNCHANGED <<uart, sp, hist, pie, calls, count, tmp, mask, resume>>

(* The small write(): TRDY is read and a byte written, without a ring. *)
PollTransmit ==
    /\ IF uart.tx_ready
       THEN /\ uart' = Transmit(uart, hist.written + 1) /\ count' = count - 1
            /\ hist' = [hist EXCEPT !.written = @ + 1]
       ELSE UNCHANGED <<uart, count, hist>>
    /\ Goes("small_write", IF call.block /\ count' # 0 THEN "small_write" ELSE "return")
    /\ UNCHANGED <<sp, pie, calls, tmp, mask, resume>>

(* The small read(): status, its errors cleared, and one byte at most. *)
PollStatus ==
    /\ Goes("small_read", "small_clear") /\ tmp' = Status(uart)
    /\ UNCHANGED <<uart, sp, hist, pie, calls, count, mask, resume>>

ClearErrors ==
    /\ Goes("small_clear", IF "RRDY" \in tmp THEN "small_take"
                           ELSE IF call.block THEN "small_read" ELSE "return")
    /\ uart' = [uart EXCEPT !.DCTS = FALSE, !.FE = FALSE]
    /\ tmp' = tmp \ {"TRDY", "CTS", "DCTS"}
    /\ UNCHANGED <<sp, hist, pie, calls, count, mask, resume>>

ReadReceived ==
    /\ Goes("small_take", IF "FE" \in tmp /\ call.block THEN "small_read" ELSE "return")
    /\ uart' = [uart EXCEPT !.rx_ready = FALSE]
    /\ hist' = IF "FE" \in tmp THEN [hist EXCEPT !.dropped = @ \cup {uart.rx_data}]
               ELSE [hist EXCEPT !.received = Append(@, uart.rx_data)]
    /\ tmp' = {}
    /\ UNCHANGED <<sp, pie, calls, count, mask, resume>>

altera_avalon_uart_small == PollTransmit \/ PollStatus \/ ClearErrors \/ ReadReceived

UartProgram ==
    \/ Call \/ Returns \/ altera_avalon_uart_write \/ altera_avalon_uart_read
    \/ altera_avalon_uart_close \/ altera_avalon_uart_small
    \/ DisableAll \/ LoadShadow \/ StoreShadow \/ WriteControl \/ EnableAll

UartNext == Hardware \/ altera_avalon_uart_irq \/ UartProgram

--------------------------------------------------------------------------------
Increasing(s) == \A i \in 1..(Len(s) - 1) : s[i] < s[i + 1]
Members(s) == {s[i] : i \in 1..Len(s)}

OnTheirWay ==
    hist.line \o uart.shifter \o (IF uart.tx_ready THEN <<>> ELSE <<uart.tx_data>>)
    \o Ring(sp.tx_buf, sp.tx_start, sp.tx_end)

ReceivedSoFar ==
    hist.received \o Ring(sp.rx_buf, sp.rx_start, sp.rx_end)
    \o (IF uart.rx_ready THEN <<uart.rx_data>> ELSE <<>>)

(* Bytes leave in the order in which they were written, and are read in    *)
(* the order in which they arrived, none of them twice and none that was   *)
(* never there, whatever the interrupts between two steps of a call do     *)
(* (altera_avalon_uart_write.c:148-217, _read.c:158-190, _init.c:174-265). *)
(* On the way out the handler that is called for DCTS overwrites TXDATA,   *)
(* for it does not look at TRDY, and a change of CTS costs no more than    *)
(* one byte.  On the way in a byte is dropped when the next one overtakes  *)
(* it in RXDATA, when the ring forgets it, and when the small read() has   *)
(* seen an error; with interrupts an error costs no byte: ErrorsDiscarded. *)
UartInOrder ==
    /\ Increasing(OnTheirWay) /\ Increasing(ReceivedSoFar)
    /\ Members(OnTheirWay) \cup hist.lost = 1..hist.written
    /\ Members(ReceivedSoFar) \cup hist.dropped = 1..hist.arrived
    /\ Cardinality(hist.lost) <= hist.turns

Drained == calls = <<>> /\ sp.tx_start = sp.tx_end /\ uart.shifter = <<>> /\ uart.tx_ready

(* CTS falls and rises at most once, and not while bytes come in; none of  *)
(* those is dropped.                                                       *)
Calm ==
    /\ hist.dropped = {}
    /\ hist.turns = 0 \/ (hist.turns <= 2 /\ hist.arrived = 0)

(* Everything that was written leaves and every call returns: no byte      *)
(* waits for an interrupt that is disabled, whatever is interleaved with   *)
(* the changes of the shadow of the control register                       *)
(* (altera_avalon_uart_init.c:218-282, _write.c:169-217, _read.c:201-227). *)
UartDrains == []Calm => <>[]Drained

(* "To avoid this resulting in deadlock, it's necessary to re-check the    *)
(* status register here before throttling" (altera_avalon_uart_init.c:257):*)
(* whatever CTS does and whatever else interrupts, all that was written    *)
(* leaves once CTS is high for good.                                       *)
UartNeverDeadlocks == <>[](sp.tx_start = sp.tx_end)

(* "If there was an error, discard the data" (altera_avalon_uart_init.c:   *)
(* 157): no byte that the handler has refused for an error is put into the *)
(* ring later.                                                             *)
ErrorsDiscarded == Members(Ring(sp.rx_buf, sp.rx_start, sp.rx_end)) \cap hist.refused = {}
================================================================================
