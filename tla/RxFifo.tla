--------------------------------- MODULE RxFifo ---------------------------------
(***************************************************************************)
(* The receive FIFO and the way the firmware reads it, one step per clock  *)
(* edge.  On an edge the deserialiser may finish a byte, and the CPU may   *)
(* make its next bus access: read the empty flag, pulse the read signal    *)
(* (one write to set it, one to clear it), read the character.  Between    *)
(* two accesses any number of edges may pass.  Bytes are numbered in the   *)
(* order they come.                                                        *)
(***************************************************************************)
EXTENDS Naturals, Sequences

CONSTANTS Depth,     \* lpm_numwords of fifo_1024_8
          NBytes     \* how many bytes come

ASSUME FifoAssumption == Depth \in Nat \ {0} /\ NBytes \in Nat

VARIABLES
    came,            \* bytes the deserialiser has finished
    wrreq, data,     \* its write pulse, and the byte it goes with
    store,           \* scfifo: the words in it,
    visible,         \*   how many of them its read side knows of,
    q,               \*   and its output register
    rx_fifo_rd_en,   \* the rx_fifo_read PIO
    rd_ff,           \* posedge_detector.v
    rx_char,         \* the readdata registers of the two input PIOs
    rx_fifo_empty,
    cpu,             \* the next access of the CPU
    popped,          \* history: a byte is on its way from store to the CPU
    taken,           \* history: what read_rx_fifo_char() returned
    dropped             \* history: how many bytes found the FIFO full

deserialiser == <<came, wrreq, data, dropped>>
scfifo       == <<store, visible, q, popped>>
registers    == <<rd_ff, rx_char, rx_fifo_empty>>
fifo_vars == <<deserialiser, scfifo, registers, rx_fifo_rd_en, cpu, taken>>

FifoInit ==
    /\ came = 0 /\ wrreq = FALSE /\ data = 0 /\ dropped = 0
    /\ store = <<>> /\ visible = 0 /\ q = 0 /\ popped = FALSE
    /\ rx_fifo_rd_en = FALSE /\ rd_ff = FALSE /\ rx_char = 0 /\ rx_fifo_empty = FALSE
    /\ cpu = "empty_address"
    /\ taken = <<>>

full  == Len(store) = Depth
empty == visible = 0

(***************************************************************************)
(* The deserialiser ends a stop bit on this edge, or does not              *)
(* (rs232_des.v:56-59): two pulses are never adjacent.                     *)
(***************************************************************************)
(* Mutant of ByteComes: rs232_des.v does not look at full. *)
ByteComes_Unchecked ==
    /\ came < NBytes /\ ~wrreq
    /\ came' = came + 1
    /\ data' = came'
    /\ wrreq' = TRUE
    /\ UNCHANGED dropped

ByteComes ==
    /\ came < NBytes /\ ~wrreq
    /\ came' = came + 1
    /\ data' = came'
    /\ wrreq' = ~full
    /\ dropped' = IF full THEN dropped + 1 ELSE dropped

NoByte ==
    /\ wrreq' = FALSE
    /\ UNCHANGED <<came, data, dropped>>

(***************************************************************************)
(* scfifo, with overflow and underflow checking and no show-ahead: a word  *)
(* written on one edge can be read from the second edge behind it.         *)
(***************************************************************************)
(* Mutant of rx_fifo_rd_en_p: the read signal goes to the FIFO as it is. *)
rx_fifo_rd_en_Level == rx_fifo_rd_en

rx_fifo_rd_en_p == rx_fifo_rd_en /\ ~rd_ff

pop  == rx_fifo_rd_en_p /\ ~empty
push == wrreq /\ ~full

Fifo(took) ==
    /\ store' = (IF pop THEN Tail(store) ELSE store) \o
                (IF push THEN <<data>> ELSE <<>>)
    /\ visible' = IF pop THEN Len(store) - 1 ELSE Len(store)
    /\ q' = IF pop THEN Head(store) ELSE q
    /\ popped' = (pop \/ (popped /\ ~took))

(* Mutant of Registers: the flag says that the FIFO is not full. *)
Registers_NotFull ==
    /\ rd_ff' = rx_fifo_rd_en
    /\ rx_char' = q
    /\ rx_fifo_empty' = ~full

Registers ==
    /\ rd_ff' = rx_fifo_rd_en
    /\ rx_char' = q
    /\ rx_fifo_empty' = empty

(***************************************************************************)
(* The CPU: the two halves of a read are the edge on which the PIO latches *)
(* its input and a later one on which the CPU takes the register.          *)
(***************************************************************************)
Access(from, to) == cpu = from /\ cpu' = to

EmptyAddress == /\ Access("empty_address", "empty_data")
                /\ UNCHANGED <<rx_fifo_rd_en, taken>>

(* Mutant of EmptyData: the negation is dropped. *)
EmptyData_Inverted ==
    /\ Access("empty_data", IF rx_fifo_empty THEN "set" ELSE "empty_address")
    /\ UNCHANGED <<rx_fifo_rd_en, taken>>

EmptyData == /\ Access("empty_data", IF rx_fifo_empty THEN "empty_address" ELSE "set")
             /\ UNCHANGED <<rx_fifo_rd_en, taken>>

SetRead == /\ Access("set", "clear")
           /\ rx_fifo_rd_en' = TRUE
           /\ UNCHANGED taken

ClearRead == /\ Access("clear", "char_address")
             /\ rx_fifo_rd_en' = FALSE
             /\ UNCHANGED taken

CharAddress == /\ Access("char_address", "char_data")
               /\ UNCHANGED <<rx_fifo_rd_en, taken>>

CharData == /\ Access("char_data", "empty_address")
            /\ taken' = Append(taken, rx_char)
            /\ UNCHANGED rx_fifo_rd_en

NoAccess == UNCHANGED <<cpu, rx_fifo_rd_en, taken>>

CpuAccess == EmptyAddress \/ EmptyData \/ SetRead \/ ClearRead \/ CharAddress \/ CharData

--------------------------------------------------------------------------------
Edge(access) ==
    /\ ByteComes \/ NoByte
    /\ access
    /\ Fifo(cpu = "char_data" /\ cpu' # cpu)
    /\ Registers

FifoNext == Edge(CpuAccess) \/ Edge(NoAccess)

FifoSpec == FifoInit /\ [][FifoNext]_fifo_vars

--------------------------------------------------------------------------------
(* The read pulse, one per character, always finds the word it was raised  *)
(* for: the empty flag main.c:330 saw is not stale when the pulse comes.   *)
NoUnderflow == rx_fifo_rd_en_p => ~empty

(* The write pulse, raised a cycle after rs232_des.v:58 looked at full,    *)
(* always finds room.                                                      *)
NoOverflow == wrreq => ~full

(* Neither flag is stale when the pulse it let through comes.              *)
FlagsHold == NoUnderflow /\ NoOverflow

(* FIFO, edge detector, PIOs and the two writes and one read of            *)
(* read_rx_fifo_char() are a queue of bytes: in order, each once.          *)
BQ == INSTANCE ByteQueue WITH
         lost <- dropped,
         queue <- (IF popped THEN <<q>> ELSE <<>>) \o store
                     \o (IF wrreq THEN <<data>> ELSE <<>>)
ImplementsQueue == BQ!QueueSpec

(* No byte stays in the FIFO while the firmware polls. *)
EveryByteTaken == []<>(store = <<>>)
================================================================================
