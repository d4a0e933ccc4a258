--------------------------------- MODULE MCHal ---------------------------------
(* The parts of the HAL that interrupts drive: the two consoles, the       *)
(* alarms and the interrupt dispatch.  They share no state, so that a      *)
(* behaviour is one of one part, and the other parts stay at rest.         *)
EXTENDS UartDriver, JtagUart, Alarms, IrqDispatch

Write(n, block) == [op |-> "write", len |-> n, block |-> block]
Read(n, block) == [op |-> "read", len |-> n, block |-> block]
Close(block) == [op |-> "close", len |-> 0, block |-> block]
SmallWrite(n, block) == [op |-> "small_write", len |-> n, block |-> block]
SmallRead(n, block) == [op |-> "small_read", len |-> n, block |-> block]

MCUartPrograms ==
    {<<>>, <<Write(2, TRUE)>>, <<Read(2, TRUE), Write(1, FALSE), Close(TRUE)>>,
     <<SmallWrite(3, TRUE), SmallRead(1, TRUE), SmallRead(1, FALSE), SmallWrite(2, FALSE)>>}
MCJtagPrograms ==
    {<<>>, <<Write(3, TRUE)>>, <<Read(2, TRUE), Write(1, FALSE), Read(2, FALSE), Close(TRUE)>>,
     <<SmallWrite(4, TRUE), SmallRead(2, TRUE), SmallRead(2, FALSE)>>}

CONSTANT Parts

VARIABLE part

vars == <<part, uart_vars, jtag_vars, alarm_vars, irq_vars>>

Init ==
    /\ part \in Parts
    /\ UartInit /\ (part = "uart" \/ calls = <<>>)
    /\ JtagInit /\ (part = "jtag" \/ jcalls = <<>>)
    /\ AlarmsInit /\ (part = "alarms" \/ nticks = 0)
    /\ IrqInit

Next ==
    /\ UNCHANGED part
    /\ \/ /\ part = "uart" /\ UartNext
          /\ UNCHANGED <<jtag_vars, alarm_vars, irq_vars>>
       \/ /\ part = "jtag" /\ JtagNext
          /\ UNCHANGED <<uart_vars, alarm_vars, irq_vars>>
       \/ /\ part = "alarms" /\ AlarmsNext
          /\ UNCHANGED <<uart_vars, jtag_vars, irq_vars>>
       \/ /\ part = "irq" /\ IrqNext
          /\ UNCHANGED <<uart_vars, jtag_vars, alarm_vars>>

(* The UART shifts, the host lets CTS rise again and sends a byte when the *)
(* program reads, and the CPU runs and takes its interrupts.               *)
UartFairness ==
    /\ WF_uart_vars(part = "uart" /\ LoadShifter /\ Hardware)
    /\ WF_uart_vars(part = "uart" /\ ShiftOut /\ Hardware)
    /\ WF_uart_vars(part = "uart" /\ call.op \in {"read", "small_read"} /\ Arrive /\ Hardware)
    /\ WF_uart_vars(part = "uart" /\ CtsTurns(TRUE) /\ Hardware)
    /\ WF_uart_vars(part = "uart" /\ altera_avalon_uart_irq)
    /\ WF_uart_vars(part = "uart" /\ UartProgram)

(* The host takes what is there, sends and pauses, and the CPU runs.       *)
JtagFairness ==
    /\ WF_jtag_vars(part = "jtag" /\ HostTakes /\ Host)
    /\ WF_jtag_vars(part = "jtag" /\ HostSends /\ Host)
    /\ WF_jtag_vars(part = "jtag" /\ HostPauses /\ Host)
    /\ WF_jtag_vars(part = "jtag" /\ altera_avalon_jtag_uart_irq)
    /\ WF_jtag_vars(part = "jtag" /\ JtagProgram)

Spec ==
    /\ Init /\ [][Next]_vars
    /\ UartFairness /\ JtagFairness

(* Every byte of the two consoles goes out and comes in once and in order. *)
BytesInOrder == UartInOrder /\ JtagInOrder

(* Every call on a console returns and what was written drains.            *)
BytesDrain == UartDrains /\ JtagDrains
================================================================================
