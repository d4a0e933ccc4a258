----------------------------- MODULE IntervalTimer -----------------------------
(***************************************************************************)
(* The interval timer of the Nios II system (timer_0), one action per     *)
(* clock edge.  The core counts down from the load value, stops at zero   *)
(* (the firmware never sets CONT), raises TO and, with ITO set, its       *)
(* interrupt line.  The period registers are never written by the         *)
(* firmware, so the load value is the constant Period and force_reload is *)
(* always 0.                                                               *)
(***************************************************************************)
EXTENDS Naturals

CONSTANT Period          \* counter_load_value: {period_h_register, period_l_register}

ASSUME PeriodAssumption == Period \in Nat \ {0}

VARIABLES
    internal_counter,
    counter_is_running,
    delayed_zero,        \* delayed_unxcounter_is_zeroxx0
    timeout_occurred,    \* the TO bit
    control_register     \* the bits of the last value written to it

timer_vars == <<internal_counter, counter_is_running, delayed_zero,
                timeout_occurred, control_register>>

ControlBits == {"ITO", "CONT", "START", "STOP"}

(* What the bus presents to the slave on a clock edge. *)
NoWrite            == [address |-> "none",    data |-> {}]
StatusWrite        == [address |-> "status",  data |-> {}]
ControlWrite(bits) == [address |-> "control", data |-> bits]

TimerTypeOK ==
    /\ internal_counter \in 0..Period
    /\ counter_is_running \in BOOLEAN
    /\ delayed_zero \in BOOLEAN
    /\ timeout_occurred \in BOOLEAN
    /\ control_register \in SUBSET ControlBits

TimerReset ==
    /\ internal_counter = Period
    /\ counter_is_running = FALSE
    /\ delayed_zero = FALSE
    /\ timeout_occurred = FALSE
    /\ control_register = {}

irq == timeout_occurred /\ "ITO" \in control_register

counter_is_zero == internal_counter = 0
timeout_event   == counter_is_zero /\ ~delayed_zero

start_strobe(w)     == w.address = "control" /\ "START" \in w.data
stop_strobe(w)      == w.address = "control" /\ "STOP" \in w.data
status_wr_strobe(w) == w.address = "status"
do_stop_counter(w)  == stop_strobe(w) \/ (counter_is_zero /\ "CONT" \notin control_register)

(* Mutant of NextCounter: the counter is not reloaded at zero. *)
NextCounter_NoReload ==
    IF ~counter_is_running THEN internal_counter ELSE internal_counter - 1

NextCounter ==
    IF ~counter_is_running THEN internal_counter
    ELSE IF counter_is_zero THEN Period ELSE internal_counter - 1

(* One rising edge of the clock, with the bus access w in progress. *)
Edge(w) ==
    /\ internal_counter' = NextCounter
    /\ counter_is_running' = (start_strobe(w) \/ (counter_is_running /\ ~do_stop_counter(w)))
    /\ delayed_zero' = counter_is_zero
    /\ timeout_occurred' = (~status_wr_strobe(w) /\ (timeout_event \/ timeout_occurred))
    /\ control_register' = IF w.address = "control" THEN w.data ELSE control_register
================================================================================
