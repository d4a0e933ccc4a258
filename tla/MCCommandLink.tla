----------------------------- MODULE MCCommandLink -----------------------------
(***************************************************************************)
(* The way of a command: the receiver on the serial line (Rs232Des), the   *)
(* accesses that take a byte from the FIFO, clock edge by clock edge       *)
(* (RxFifo), the drain loop, for which a byte is taken in one step         *)
(* (CommandLink), and the parser (CommandText).  A behaviour is one of one *)
(* of them; FIFO and drain loop both count on the queue of ByteQueue.      *)
(* Scripts are in ASCII.                                                   *)
(***************************************************************************)
EXTENDS CommandLink, RxFifo, Rs232Des, MCCommandText

(* "c 1 2 3\nc 4 5 6\n" *)
TwoLines == <<99, 32, 49, 32, 50, 32, 51, 10, 99, 32, 52, 32, 53, 32, 54, 10>>

(* "c 1 2 3\na\nc 4 5 6\nc": a calibration between two lines, and a line  *)
(* that is never finished.                                                 *)
Calibration == <<99, 32, 49, 32, 50, 32, 51, 10, 97, 10,
                 99, 32, 52, 32, 53, 32, 54, 10, 99>>

MCFrames ==
    { [byte |-> <<1, 0, 0, 0, 0, 1, 1, 0>>, stop |-> 1],     \* 'a'
      [byte |-> <<0, 1, 0, 1, 0, 1, 0, 1>>, stop |-> 1],     \* 0xAA
      [byte |-> <<1, 1, 1, 1, 1, 1, 1, 1>>, stop |-> 1],     \* 0xFF
      [byte |-> <<0, 0, 0, 0, 0, 0, 0, 0>>, stop |-> 0] }    \* a break

CONSTANT Parts      \* of {"receiver", "fifo", "drain", "text"}

VARIABLE part

LinkInit ==
    /\ part \in Parts
    /\ DesInit /\ (part = "receiver" \/ host.period = 434)
    /\ FifoInit /\ Init /\ TextInit

LinkNext ==
    /\ UNCHANGED part
    /\ \/ part = "receiver" /\ DesNext /\ UNCHANGED <<vars, fifo_vars, pieces>>
       \/ part = "fifo" /\ FifoNext /\ UNCHANGED <<vars, des_vars, pieces>>
       \/ part = "drain" /\ Next /\ UNCHANGED <<fifo_vars, des_vars, pieces>>
       \/ part = "text" /\ TextNext /\ UNCHANGED <<vars, fifo_vars, des_vars>>

link_vars == <<part, vars, fifo_vars, des_vars, pieces>>
LinkSpec == LinkInit /\ [][LinkNext]_link_vars

(* The clock and the CPU do not stop; the host owes nothing.  The second   *)
(* conjunct is WF_vars(part = "drain" /\ main) with its ENABLED written    *)
(* out, which spares TLC the evaluation of execute_cmd() in every state.   *)
LinkFairSpec ==
    /\ LinkSpec
    /\ WF_vars(part = "drain" /\ Elapse)
    /\ []<>(part # "drain" \/ ~MainCanStep) \/ []<><<main>>_vars
    /\ WF_fifo_vars(part = "fifo" /\ Edge(CpuAccess))

(* A host that pauses, even in the middle of a line, does not stop the     *)
(* measurements (main.c:345-349, 701-705).                                 *)
MeasuresForever == []<>(part = "drain" => pc = "measure")
================================================================================
