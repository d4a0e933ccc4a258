------------------------------ MODULE CommandLink ------------------------------
(***************************************************************************)
(* The command link: the host sends the characters of Script at any time   *)
(* into the receive FIFO; at the end of every pass main() drains the FIFO  *)
(* with read_rx_fifo(), executes what it read with execute_cmd(), and then *)
(* waits for loop_done.  read_rx_fifo() gives up as soon as loop_done is   *)
(* set, which happens at any time while the clock of the pass (PassClock)  *)
(* is armed.  An 'a' starts the calibration, which outlasts the period.    *)
(***************************************************************************)
EXTENDS CommandText

CONSTANTS
    Script,         \* what the host sends
    FifoDepth,      \* lpm_numwords of the receive FIFO
    RX_BUF_SIZE,    \* main.c:36
    Beyond,         \* how many cells behind str1 the model has
    InitialBytes    \* what uninitialised memory may hold

ASSUME LinkAssumption ==
    /\ FifoDepth \in Nat \ {0}
    /\ RX_BUF_SIZE \in Nat \ {0, 1}
    /\ Beyond \in Nat
    /\ InitialBytes \subseteq 0..255 /\ Script \in Seq(0..255)

VARIABLES
    sent,        \* how many characters of Script have arrived
    fifo,        \* the receive FIFO, oldest character first
    lost,        \* how many characters found it full
    pc,          \* what main() does next
    str1,        \* main()'s buffer and the memory behind it
    nbytes,      \* the local of read_rx_fifo()
    c,           \* the local of read_rx_fifo_char()
    armed,       \* the clock of the pass
    loop_done,   \* main.c:49
    call,        \* history: the characters read since the last execute_cmd()
    executed     \* history: the DAC writes made

buffer_vars == <<str1, nbytes, c>>
history     == <<call, executed>>
vars == <<sent, fifo, lost, pc, str1, nbytes, c, armed, loop_done, call, executed>>

PC == INSTANCE PassClock

(* str1[0] .. str1[RX_BUF_SIZE - 1], the cells behind it, and a NUL where  *)
(* the string ends at the latest.                                          *)
LastCell == RX_BUF_SIZE + Beyond
Cells    == 0..LastCell

Init ==
    /\ sent = 0 /\ fifo = <<>> /\ lost = 0
    /\ pc = "arm"
    /\ \E byte \in InitialBytes :
          str1 = [i \in Cells |-> IF i = LastCell THEN NUL ELSE byte]
    /\ nbytes = 0 /\ c = NUL
    /\ PC!ClockInit
    /\ call = <<>> /\ executed = <<>>

(* A character arrives; a full FIFO does not take it (rs232_des.v:58).     *)
Arrive ==
    /\ sent < Len(Script)
    /\ sent' = sent + 1
    /\ IF Len(fifo) < FifoDepth
       THEN fifo' = Append(fifo, Script[sent + 1]) /\ UNCHANGED lost
       ELSE lost' = lost + 1 /\ UNCHANGED fifo
    /\ UNCHANGED <<pc, buffer_vars, armed, loop_done, history>>

(* The period ends and the interrupt handler sets loop_done. *)
Elapse ==
    /\ PC!Elapse
    /\ UNCHANGED <<sent, fifo, lost, pc, buffer_vars, history>>

--------------------------------------------------------------------------------
Goto(from, to) == pc = from /\ pc' = to

(* Starting the timer, and the measurements of the pass up to the drain. *)
StartTimer ==
    /\ Goto("arm", "measure")
    /\ PC!Arm
    /\ UNCHANGED <<sent, fifo, lost, buffer_vars, history>>

Measure ==
    /\ Goto("measure", "enter")
    /\ UNCHANGED <<sent, fifo, lost, buffer_vars, armed, loop_done, history>>

(* Mutant of Enter: the empty flag is taken for its negation. *)
Enter_Inverted ==
    /\ Goto("enter", IF fifo = <<>> THEN "poll" ELSE "wait")
    /\ str1' = [str1 EXCEPT ![0] = NUL]
    /\ nbytes' = 0
    /\ UNCHANGED <<sent, fifo, lost, c, armed, loop_done, history>>

(* read_rx_fifo() is called: it empties the string and returns 0, which    *)
(* ends the drain, when the FIFO is empty.                                 *)
Enter ==
    /\ Goto("enter", IF fifo = <<>> THEN "wait" ELSE "poll")
    /\ str1' = [str1 EXCEPT ![0] = NUL]
    /\ nbytes' = 0
    /\ UNCHANGED <<sent, fifo, lost, c, armed, loop_done, history>>

(* Mutant of Poll: the character is read before the FIFO presents it. *)
Poll_Stale ==
    /\ IF fifo = <<>>
       THEN Goto("poll", "expired") /\ UNCHANGED <<fifo, c, call>>
       ELSE /\ Goto("poll", IF Head(fifo) = LowerA THEN "calibrate" ELSE "store")
            /\ c' = c
            /\ fifo' = Tail(fifo)
            /\ call' = Append(call, Head(fifo))
    /\ UNCHANGED <<sent, lost, str1, nbytes, armed, loop_done, executed>>

(* One turn of its loop begins: an empty FIFO leaves only the check of     *)
(* loop_done; otherwise read_rx_fifo_char() takes a character.             *)
Poll ==
    /\ IF fifo = <<>>
       THEN Goto("poll", "expired") /\ UNCHANGED <<fifo, c, call>>
       ELSE /\ Goto("poll", IF Head(fifo) = LowerA THEN "calibrate" ELSE "store")
            /\ c' = Head(fifo)
            /\ fifo' = Tail(fifo)
            /\ call' = Append(call, Head(fifo))
    /\ UNCHANGED <<sent, lost, str1, nbytes, armed, loop_done, executed>>

(* calibrate_ad7124_8() sleeps for 11 s and the period is 6 s: the         *)
(* interrupt comes before it returns.                                      *)
Calibrate ==
    /\ loop_done = 1
    /\ Goto("calibrate", "store")
    /\ UNCHANGED <<sent, fifo, lost, buffer_vars, armed, loop_done, history>>

(* Mutant of Store: the end of the command is looked for before the end of *)
(* the buffer.                                                             *)
Store_CheckOrder ==
    /\ Goto("store", IF c = RX_EOC THEN "terminate"
                     ELSE IF nbytes + 1 = RX_BUF_SIZE THEN "execute"
                     ELSE "expired")
    /\ str1' = [str1 EXCEPT ![nbytes] = c]
    /\ nbytes' = nbytes + 1
    /\ UNCHANGED <<sent, fifo, lost, c, armed, loop_done, history>>

Store ==
    /\ Goto("store", IF nbytes + 1 = RX_BUF_SIZE THEN "execute"
                     ELSE IF c = RX_EOC THEN "terminate"
                     ELSE "expired")
    /\ str1' = [str1 EXCEPT ![nbytes] = c]
    /\ nbytes' = nbytes + 1
    /\ UNCHANGED <<sent, fifo, lost, c, armed, loop_done, history>>

Terminate ==
    /\ Goto("terminate", "execute")
    /\ str1' = [str1 EXCEPT ![nbytes] = NUL]
    /\ UNCHANGED <<sent, fifo, lost, nbytes, c, armed, loop_done, history>>

(* Mutant of Expired: an incomplete line is waited for without end. *)
Expired_NoTimeout ==
    /\ Goto("expired", "poll")
    /\ UNCHANGED <<sent, fifo, lost, buffer_vars, armed, loop_done, history>>

(* The pass is out of time: read_rx_fifo() returns what it has as it is.   *)
Expired ==
    /\ Goto("expired", IF loop_done = 1 THEN "execute" ELSE "poll")
    /\ UNCHANGED <<sent, fifo, lost, buffer_vars, armed, loop_done, history>>

(* execute_cmd(str1, nbytes), and the next read_rx_fifo(). *)
Execute ==
    /\ Goto("execute", "enter")
    /\ executed' = executed \o execute_cmd(str1)
    /\ str1' = Strtok(str1)
    /\ call' = <<>>
    /\ UNCHANGED <<sent, fifo, lost, nbytes, c, armed, loop_done>>

Wait ==
    /\ loop_done = 1
    /\ Goto("wait", "clear")
    /\ UNCHANGED <<sent, fifo, lost, buffer_vars, armed, loop_done, history>>

ClearDone ==
    /\ Goto("clear", "arm")
    /\ PC!Clear
    /\ UNCHANGED <<sent, fifo, lost, buffer_vars, history>>

main == \/ StartTimer \/ Measure \/ Enter \/ Poll \/ Calibrate \/ Store \/ Terminate
        \/ Expired \/ Execute \/ Wait \/ ClearDone

Next == Arrive \/ Elapse \/ main

DrainSpec == Init /\ [][Next]_vars

(* main() waits for the end of the period only here.                       *)
MainCanStep == pc \in {"calibrate", "wait"} => loop_done = 1

--------------------------------------------------------------------------------
(* read_rx_fifo() never stores outside str1, however long the line and     *)
(* wherever it is cut (main.c:332, 341 and 352).                           *)
StoresInBounds == pc \in {"store", "terminate"} => nbytes < RX_BUF_SIZE

(* main() gives the host the service of CommandService: bytes are executed *)
(* once and in order, in whole lines with exactly their own commands until *)
(* the period is over, whatever the buffer held before.                    *)
CS == INSTANCE CommandService WITH inbox <- call \o fifo, overdue <- loop_done = 1
ImplementsService == CS!ServiceSpec

(* What the host sent is taken from the FIFO (main.c:326-351, 685-699).    *)
Drained == []<>(fifo = <<>>)

(* The commands of the lines of Script. *)
ScriptCommands == ToSet(Commands(Script))

(* Chunks of a command are separated by ' ' and '\n' (main.c:381): every   *)
(* DAC write is one the host asked for in a line it sent.                  *)
OnlyCommandsSent == ToSet(executed) \subseteq ScriptCommands
================================================================================
