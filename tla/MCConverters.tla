----------------------------- MODULE MCConverters -----------------------------
(* The converters, seen from the two layers of the program that share no   *)
(* state here: the commands on the SPI bus, bit by bit, and the            *)
(* measurements made with them.  On the bus two converters share one MISO  *)
(* line and one has the other; a register is written on one board and read *)
(* on the other.                                                           *)
EXTENDS SpiCommand, AdcMeasure

CONSTANTS a1, a2, b1

MCSlaves == {a1, a2, b1}
MCBoards == {{a1, a2}, {b1}}
MCScript == << ad7124_write_reg(a1, <<0, 1, 1>>, <<<<1, 0, 1>>>>),
               ad7124_read_reg(b1, <<1, 1, 0>>, 2) >>

VARIABLE part

vars == <<part, command_vars, adc_vars>>

Init ==
    /\ part \in {"bus", "measurements"}
    /\ CommandInit /\ (part = "bus" \/ core.RRDY)
    /\ AdcInit /\ (part = "measurements" \/ overloaded = <<0, Pass[1].ch>>)

Next ==
    /\ UNCHANGED part
    /\ \/ part = "bus" /\ CommandNext /\ UNCHANGED adc_vars
       \/ part = "measurements" /\ AdcNext /\ UNCHANGED command_vars

(* The clock of the SPI master never stops and the CPU runs. *)
Spec ==
    /\ Init /\ [][Next]_vars
    /\ WF_command_vars(part = "bus" /\ Clock)
    /\ WF_command_vars(part = "bus" /\ alt_avalon_spi_command)

(* Every command returns: neither the loop that waits for room or for a    *)
(* byte nor the one that waits for TMT spins for ever                      *)
(* (altera_avalon_spi.c:79-125).                                           *)
CommandsReturn == part = "bus" => <>(Len(results) = Len(Script))
===============================================================================
