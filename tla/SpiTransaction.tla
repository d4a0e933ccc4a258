----------------------------- MODULE SpiTransaction -----------------------------
(***************************************************************************)
(* What ad7124_write_reg() and ad7124_read_reg() rely on from              *)
(* alt_avalon_spi_command(): one command after the other; each exchanges   *)
(* exactly its bytes with its own slave, the ones to write first and zeros *)
(* for the ones to read, and returns what the slave answered to the zeros. *)
(***************************************************************************)
EXTENDS Naturals, Sequences

CONSTANTS Slaves,   \* the chip selects
          Bytes,    \* what a byte can be
          Zero      \* the byte that is sent in order to read one

(* slave: the chip select; write: the bytes to write; read: how many to read *)
Commands == [slave: Slaves, write: Seq(Bytes), read: Nat]

NoCommand == [slave |-> {}, write |-> <<>>, read |-> 0]

VARIABLES
    command,    \* the command in progress, or NoCommand
    sent,       \* the bytes each slave got under its current chip select
    answered,   \* the bytes it gave back for them
    results     \* <<command, what it returned>> of every command so far

transaction_vars == <<command, sent, answered, results>>

Silence == [s \in Slaves |-> <<>>]

TransactionInit ==
    /\ command = NoCommand
    /\ sent = Silence /\ answered = Silence
    /\ results = <<>>

(* The byte number n (from 1) that command c sends. *)
ByteToSend(c, n) == IF n <= Len(c.write) THEN c.write[n] ELSE Zero

(* The last n elements of s. *)
LastOf(s, n) == SubSeq(s, Len(s) - n + 1, Len(s))

Begin ==
    /\ command = NoCommand
    /\ command' \in Commands
    /\ UNCHANGED <<sent, answered, results>>

Exchange(s) ==
    /\ command # NoCommand /\ s = command.slave
    /\ Len(sent[s]) < Len(command.write) + command.read
    /\ sent' = [sent EXCEPT ![s] = Append(@, ByteToSend(command, Len(@) + 1))]
    /\ \E answer \in Bytes : answered' = [answered EXCEPT ![s] = Append(@, answer)]
    /\ UNCHANGED <<command, results>>

Return ==
    /\ command # NoCommand
    /\ Len(sent[command.slave]) = Len(command.write) + command.read
    /\ results' = Append(results, <<command,
                     LastOf(answered[command.slave], command.read)>>)
    /\ command' = NoCommand
    /\ sent' = Silence /\ answered' = Silence

TransactionNext == Begin \/ (\E s \in Slaves : Exchange(s)) \/ Return

TransactionSpec == TransactionInit /\ [][TransactionNext]_transaction_vars
================================================================================
