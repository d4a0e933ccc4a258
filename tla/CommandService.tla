----------------------------- MODULE CommandService -----------------------------
(***************************************************************************)
(* What the command link promises the host.  Bytes arrive in order; a byte *)
(* is lost only when the receive FIFO is full.  While the pass has time    *)
(* left, bytes are served by whole lines, each exactly once, in order, and *)
(* a line executes its own commands, whatever was received before it.      *)
(* Once the period of the pass is over, or a line does not fit the buffer, *)
(* bytes are still taken in order and once, but in fragments, and nothing  *)
(* is promised of what a fragment executes.                                  *)
(***************************************************************************)
EXTENDS CommandText

CONSTANTS FifoDepth,     \* lpm_numwords of the receive FIFO
          RX_BUF_SIZE    \* main.c:36

VARIABLES inbox,         \* bytes accepted and not yet executed
          lost,          \* how many bytes were dropped
          executed,      \* the DAC writes made, in order
          overdue        \* the period of the current pass is over

service_vars == <<inbox, lost, executed, overdue>>

ServiceInit == inbox = <<>> /\ lost = 0 /\ executed = <<>> /\ overdue = FALSE

Receive ==
    /\ Len(inbox') = Len(inbox) + 1 /\ IsPrefix(inbox, inbox')
    /\ UNCHANGED <<lost, executed, overdue>>

Lose ==
    /\ Len(inbox) >= FifoDepth
    /\ lost' = lost + 1
    /\ UNCHANGED <<inbox, executed, overdue>>

ServeLine ==
    \E n \in 1..Len(inbox) :
        /\ n < RX_BUF_SIZE
        /\ inbox[n] = RX_EOC /\ \A i \in 1..(n - 1) : inbox[i] # RX_EOC
        /\ inbox' = Drop(inbox, n)
        /\ executed' = executed \o LineCommands(SubSeq(inbox, 1, n))
        /\ UNCHANGED <<lost, overdue>>

ServeFragment ==
    \E n \in 1..Len(inbox) :
        /\ overdue \/ n = RX_BUF_SIZE
        /\ \A i \in 1..(n - 1) : inbox[i] # RX_EOC
        /\ inbox' = Drop(inbox, n)
        /\ IsPrefix(executed, executed')
        /\ UNCHANGED <<lost, overdue>>

(* The period of a pass ends, and the next pass begins. *)
Overdue == overdue' = ~overdue /\ UNCHANGED <<inbox, lost, executed>>

ServiceNext == Receive \/ Lose \/ ServeLine \/ ServeFragment \/ Overdue

ServiceSpec == ServiceInit /\ [][ServiceNext]_service_vars
================================================================================
