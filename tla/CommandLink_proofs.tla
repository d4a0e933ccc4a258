--------------------------- MODULE CommandLink_proofs ---------------------------
(***************************************************************************)
(* The receive buffer, for every size of it, every depth of the FIFO and   *)
(* everything a host may send: nothing is stored outside of it, and what   *)
(* execute_cmd() gets is what has been read.  Then the receive FIFO        *)
(* itself, for every depth and any number of bytes: its flags are never    *)
(* stale when they are relied on, and with the registers around it and the *)
(* accesses of read_rx_fifo_char() it is a queue of bytes.  Then the       *)
(* receiver in front of it, for every clock, baud rate and host whose bit  *)
(* time is within the receiver's reach: it passes on what is sent.         *)
(***************************************************************************)
EXTENDS CommandLink, RxFifo, Rs232Des, SequenceTheorems, TLAPS

Steps == {"arm", "measure", "enter", "poll", "calibrate", "store", "terminate", "expired",
          "execute", "wait", "clear"}
Reading == {"poll", "calibrate", "store", "terminate", "expired", "execute"}

Codes == 0..255

LinkTypeOK ==
    /\ fifo \in Seq(Codes) /\ sent \in 0..Len(Script) /\ lost \in Nat
    /\ pc \in Steps /\ c \in Codes
    /\ str1 \in [Cells -> Codes] /\ nbytes \in 0..RX_BUF_SIZE
    /\ call \in Seq(Codes)

(* The buffer has room for the next character, and holds those of `call`   *)
(* but for the one that is still to be stored.                             *)
Fits ==
    /\ pc \in {"poll", "calibrate", "store", "terminate", "expired"} => nbytes < RX_BUF_SIZE
    /\ pc \in Reading =>
           /\ Len(call) = nbytes + (IF pc \in {"calibrate", "store"} THEN 1 ELSE 0)
           /\ \A i \in 1..nbytes : str1[i - 1] = call[i]
    /\ pc \in {"calibrate", "store"} => call[Len(call)] = c
    /\ pc \notin Reading => call = <<>>
    /\ pc = "poll" => nbytes > 0 \/ fifo # <<>>
    /\ pc = "expired" => nbytes > 0

(* A line that has ended, and fits, is a string: a NUL is behind it.       *)
Ended ==
    /\ pc = "terminate" =>
           /\ nbytes > 0 /\ call[nbytes] = RX_EOC
           /\ \A i \in 1..(nbytes - 1) : call[i] # RX_EOC
    /\ pc \in {"poll", "calibrate", "store", "expired"} => \A i \in 1..nbytes : call[i] # RX_EOC
    /\ pc = "execute" =>
           /\ nbytes > 0 /\ \A i \in 1..(nbytes - 1) : call[i] # RX_EOC
           /\ call[nbytes] = RX_EOC /\ nbytes < RX_BUF_SIZE => str1[nbytes] = NUL

LinkInv == LinkTypeOK /\ Fits /\ Ended
--------------------------------------------------------------------------------
(* What LinkAssumption says of the buffer. *)
LEMMA CellsOf ==
    /\ RX_BUF_SIZE \in Nat /\ RX_BUF_SIZE > 1 /\ 0..RX_BUF_SIZE \subseteq Cells
    /\ NUL \in Codes /\ RX_EOC \in Codes
  BY LinkAssumption DEF Cells, LastCell, NUL, RX_EOC, Codes

(* The buffer starts empty, and nothing has been read. *)
LEMMA LinkInvInit == Init => LinkInv
<1> SUFFICES ASSUME Init PROVE LinkInv
  OBVIOUS
<1>1. <<>> \in Seq(Codes)
  BY EmptySeq
<1>2. str1 \in [Cells -> Codes]
  BY LinkAssumption DEF Init, Cells, Codes, NUL
<1>3. Len(Script) \in Nat
  BY LinkAssumption
<1>4. LinkTypeOK
  BY <1>1, <1>2, <1>3, CellsOf DEF Init, LinkTypeOK, Steps
<1>5. Fits /\ Ended
  BY CellsOf DEF Init, Fits, Ended, Reading
<1> QED
  BY <1>4, <1>5 DEF LinkInv

(* The first space behind a chunk becomes a NUL: the cells stay codes. *)
LEMMA StrtokType ==
    ASSUME NEW buf \in [Cells -> Codes]
    PROVE  Strtok(buf) \in [Cells -> Codes]
  BY CellsOf DEF Strtok

(* Every step of the link keeps the invariant: Store and Terminate move    *)
(* the end of the string, all others leave it alone or start anew.         *)
LEMMA LinkInvStep == LinkInv /\ [Next]_vars => LinkInv'
<1> SUFFICES ASSUME LinkInv, [Next]_vars PROVE LinkInv'
  OBVIOUS
<1> USE CellsOf DEF LinkInv
<1>T. Len(call) \in Nat /\ Len(fifo) \in Nat /\ nbytes \in Nat
  BY DEF LinkTypeOK
<1>1. CASE Arrive
  <2>1. LinkTypeOK'
    <3>1. sent + 1 \in 1..Len(Script) /\ Len(Script) \in Nat
      BY <1>1, LinkAssumption DEF Arrive, LinkTypeOK
    <3>2. Script[sent + 1] \in Codes
      BY <3>1, LinkAssumption, ElementOfSeq DEF Codes
    <3>3. Append(fifo, Script[sent + 1]) \in Seq(Codes)
      BY <3>2, AppendProperties DEF LinkTypeOK
    <3>4. /\ sent' = sent + 1
          /\ \/ fifo' = Append(fifo, Script[sent + 1]) /\ lost' = lost
             \/ fifo' = fifo /\ lost' = lost + 1
      BY <1>1 DEF Arrive
    <3>5. fifo' \in Seq(Codes)
      BY <3>3, <3>4 DEF LinkTypeOK
    <3>6. lost' \in Nat /\ sent' \in 0..Len(Script)
      BY <3>1, <3>4 DEF LinkTypeOK
    <3> QED
      BY <1>1, <3>5, <3>6 DEF Arrive, buffer_vars, history, LinkTypeOK
  <2>2. Fits'
    BY <1>1, <1>T DEF Arrive, buffer_vars, history, LinkTypeOK, Steps, Fits, Reading
  <2>3. Ended'
    BY <1>1, <1>T DEF Arrive, buffer_vars, history, LinkTypeOK, Steps, Fits, Ended, Reading
  <2> QED
    BY <2>1, <2>2, <2>3
<1>2. CASE Elapse
  <2>1. LinkTypeOK'
    BY <1>2, StrtokType DEF Elapse, buffer_vars, history, LinkTypeOK, Steps
  <2>2. Fits'
    BY <1>2, <1>T DEF Elapse, buffer_vars, history, LinkTypeOK, Steps, Fits, Reading
  <2>3. Ended'
    BY <1>2, <1>T DEF Elapse, buffer_vars, history, LinkTypeOK, Steps, Fits, Ended, Reading
  <2> QED
    BY <2>1, <2>2, <2>3
<1>3. CASE StartTimer
  <2>1. LinkTypeOK'
    BY <1>3, StrtokType DEF StartTimer, Goto, buffer_vars, history, LinkTypeOK, Steps
  <2>2. Fits'
    BY <1>3, <1>T DEF StartTimer, Goto, buffer_vars, history, LinkTypeOK, Steps, Fits, Reading
  <2>3. Ended'
    BY <1>3, <1>T DEF StartTimer, Goto, buffer_vars, history, LinkTypeOK, Steps, Fits, Ended, Reading
  <2> QED
    BY <2>1, <2>2, <2>3
<1>4. CASE Measure
  <2>1. LinkTypeOK'
    BY <1>4, StrtokType DEF Measure, Goto, buffer_vars, history, LinkTypeOK, Steps
  <2>2. Fits'
    BY <1>4, <1>T DEF Measure, Goto, buffer_vars, history, LinkTypeOK, Steps, Fits, Reading
  <2>3. Ended'
    BY <1>4, <1>T DEF Measure, Goto, buffer_vars, history, LinkTypeOK, Steps, Fits, Ended, Reading
  <2> QED
    BY <2>1, <2>2, <2>3
<1>5. CASE Enter
  <2>0. 0 \in Cells /\ str1' = [str1 EXCEPT ![0] = NUL] /\ nbytes' = 0
    BY <1>5 DEF Enter
  <2>1. LinkTypeOK'
    <3>1. str1' \in [Cells -> Codes]
      BY <2>0 DEF LinkTypeOK
    <3> QED
      BY <1>5, <2>0, <3>1 DEF Enter, Goto, history, LinkTypeOK, Steps
  <2>2. /\ pc = "enter" /\ pc' = IF fifo = <<>> THEN "wait" ELSE "poll"
        /\ UNCHANGED <<fifo, call, c>>
    BY <1>5 DEF Enter, Goto, history
  <2>3. call = <<>>
    BY <2>2 DEF Fits, Reading
  <2>4. Fits'
    BY <2>0, <2>2, <2>3 DEF Fits, Reading
  <2>5. Ended'
    BY <2>0, <2>2, <2>3 DEF Ended
  <2> QED
    BY <2>1, <2>4, <2>5
<1>6. CASE Poll
  <2>1. CASE fifo = <<>>
    <3>1. LinkTypeOK' /\ pc = "poll" /\ pc' = "expired" /\ UNCHANGED <<fifo, call, c, str1, nbytes>>
      BY <1>6, <2>1 DEF Poll, Goto, LinkTypeOK, Steps
    <3>2. Fits' /\ Ended'
      BY <2>1, <3>1, <1>T DEF Fits, Ended, Reading
    <3> QED
      BY <3>1, <3>2
  <2>2. CASE fifo # <<>>
    <3>1. Head(fifo) \in Codes /\ Tail(fifo) \in Seq(Codes)
      BY <2>2, HeadTailProperties DEF LinkTypeOK
    <3>2. /\ pc = "poll" /\ pc' \in {"calibrate", "store"}
          /\ c' = Head(fifo) /\ fifo' = Tail(fifo) /\ call' = Append(call, Head(fifo))
          /\ UNCHANGED <<sent, lost, str1, nbytes>>
      BY <1>6, <2>2 DEF Poll, Goto
    <3>3. LinkTypeOK'
      BY <3>1, <3>2 DEF LinkTypeOK, Steps
    <3>4. /\ Len(call') = Len(call) + 1 /\ call'[Len(call')] = c'
          /\ \A i \in 1..Len(call) : call'[i] = call[i]
      BY <3>1, <3>2, <1>T DEF LinkTypeOK
    <3>5. Len(call) = nbytes
      BY <3>2, <1>T DEF Fits, Reading
    <3>6. Fits'
      BY <3>2, <3>4, <3>5, <1>T DEF Fits, Reading
    <3>7. Ended'
      BY <3>2, <3>4, <3>5, <1>T DEF Ended
    <3> QED
      BY <3>3, <3>6, <3>7
  <2> QED
    BY <2>1, <2>2
<1>7. CASE Calibrate
  <2>1. LinkTypeOK'
    BY <1>7, StrtokType DEF Calibrate, Goto, buffer_vars, history, LinkTypeOK, Steps
  <2>2. Fits'
    BY <1>7, <1>T DEF Calibrate, Goto, buffer_vars, history, LinkTypeOK, Steps, Fits, Reading
  <2>3. Ended'
    BY <1>7, <1>T DEF Calibrate, Goto, buffer_vars, history, LinkTypeOK, Steps, Fits, Ended, Reading
  <2> QED
    BY <2>1, <2>2, <2>3
<1>8. CASE Store
  <2>1. /\ pc = "store" /\ nbytes' = nbytes + 1 /\ str1' = [str1 EXCEPT ![nbytes] = c]
        /\ pc' = IF nbytes + 1 = RX_BUF_SIZE THEN "execute"
                 ELSE IF c = RX_EOC THEN "terminate" ELSE "expired"
        /\ UNCHANGED <<sent, fifo, lost, c, call>>
    BY <1>8 DEF Store, Goto, history
  <2>2. nbytes < RX_BUF_SIZE /\ Len(call) = nbytes + 1 /\ call[nbytes + 1] = c
        /\ \A i \in 1..nbytes : str1[i - 1] = call[i] /\ call[i] # RX_EOC
    BY <2>1, <1>T DEF Fits, Ended, Reading
  <2>3. nbytes \in Cells /\ str1 \in [Cells -> Codes] /\ c \in Codes
    BY <2>2, <1>T DEF LinkTypeOK
  <2>4. str1' \in [Cells -> Codes] /\ str1'[nbytes] = c
        /\ \A i \in Cells : i # nbytes => str1'[i] = str1[i]
    BY <2>1, <2>3
  <2>5. LinkTypeOK'
    BY <2>1, <2>2, <2>4, <1>T DEF LinkTypeOK, Steps
  <2>6. \A i \in 1..(nbytes + 1) : str1'[i - 1] = call[i]
    <3> SUFFICES ASSUME NEW i \in 1..(nbytes + 1) PROVE str1'[i - 1] = call[i]
      OBVIOUS
    <3>1. CASE i = nbytes + 1
      BY <2>2, <2>4, <3>1, <1>T
    <3>2. CASE i # nbytes + 1
      <4>1. i \in 1..nbytes /\ i - 1 \in 0..RX_BUF_SIZE /\ i - 1 # nbytes
        BY <2>2, <3>2, <1>T
      <4> QED
        BY <2>2, <2>4, <4>1
    <3> QED
      BY <3>1, <3>2
  <2>7. Fits'
    BY <2>1, <2>2, <2>6, <1>T DEF Fits, Reading
  <2>8. Ended'
    BY <2>1, <2>2, <1>T DEF Ended
  <2> QED
    BY <2>5, <2>7, <2>8
<1>9. CASE Terminate
  <2>1. /\ pc = "terminate" /\ pc' = "execute" /\ str1' = [str1 EXCEPT ![nbytes] = NUL]
        /\ UNCHANGED <<sent, fifo, lost, nbytes, c, call>>
    BY <1>9 DEF Terminate, Goto, history
  <2>2. nbytes < RX_BUF_SIZE /\ nbytes \in Cells /\ str1 \in [Cells -> Codes]
    BY <2>1, <1>T DEF Fits, LinkTypeOK
  <2>3. str1' \in [Cells -> Codes] /\ str1'[nbytes] = NUL
        /\ \A i \in Cells : i # nbytes => str1'[i] = str1[i]
    BY <2>1, <2>2
  <2>4. LinkTypeOK'
    BY <2>1, <2>3 DEF LinkTypeOK, Steps
  <2>5. \A i \in 1..nbytes : str1'[i - 1] = call[i]
    <3> SUFFICES ASSUME NEW i \in 1..nbytes PROVE str1'[i - 1] = call[i]
      OBVIOUS
    <3>1. i - 1 \in 0..RX_BUF_SIZE /\ i - 1 # nbytes
      BY <2>2, <1>T
    <3>2. str1[i - 1] = call[i]
      BY <2>1 DEF Fits, Reading
    <3> QED
      BY <2>3, <3>1, <3>2
  <2>6. Fits'
    BY <2>1, <2>5, <1>T DEF Fits, Reading
  <2>7. Ended'
    BY <2>1, <2>3, <1>T DEF Ended
  <2> QED
    BY <2>4, <2>6, <2>7
<1>10. CASE Expired
  <2>1. LinkTypeOK'
    BY <1>10, StrtokType DEF Expired, Goto, buffer_vars, history, LinkTypeOK, Steps
  <2>2. Fits'
    BY <1>10, <1>T DEF Expired, Goto, buffer_vars, history, LinkTypeOK, Steps, Fits, Reading
  <2>3. Ended'
    BY <1>10, <1>T DEF Expired, Goto, buffer_vars, history, LinkTypeOK, Steps, Fits, Ended, Reading
  <2> QED
    BY <2>1, <2>2, <2>3
<1>11. CASE Execute
  <2>1. LinkTypeOK'
    BY <1>11, StrtokType DEF Execute, Goto, LinkTypeOK, Steps
  <2>2. Fits'
    BY <1>11, <1>T DEF Execute, Goto, LinkTypeOK, Steps, Fits, Reading
  <2>3. Ended'
    BY <1>11, <1>T DEF Execute, Goto, LinkTypeOK, Steps, Fits, Ended, Reading
  <2> QED
    BY <2>1, <2>2, <2>3
<1>12. CASE Wait
  <2>1. LinkTypeOK'
    BY <1>12, StrtokType DEF Wait, Goto, buffer_vars, history, LinkTypeOK, Steps
  <2>2. Fits'
    BY <1>12, <1>T DEF Wait, Goto, buffer_vars, history, LinkTypeOK, Steps, Fits, Reading
  <2>3. Ended'
    BY <1>12, <1>T DEF Wait, Goto, buffer_vars, history, LinkTypeOK, Steps, Fits, Ended, Reading
  <2> QED
    BY <2>1, <2>2, <2>3
<1>13. CASE ClearDone
  <2>1. LinkTypeOK'
    BY <1>13, StrtokType DEF ClearDone, Goto, buffer_vars, history, LinkTypeOK, Steps
  <2>2. Fits'
    BY <1>13, <1>T DEF ClearDone, Goto, buffer_vars, history, LinkTypeOK, Steps, Fits, Reading
  <2>3. Ended'
    BY <1>13, <1>T DEF ClearDone, Goto, buffer_vars, history, LinkTypeOK, Steps, Fits, Ended, Reading
  <2> QED
    BY <2>1, <2>2, <2>3
<1>14. CASE UNCHANGED vars
  BY <1>14 DEF vars, LinkTypeOK, Fits, Ended
<1> QED
  BY <1>1, <1>2, <1>3, <1>4, <1>5, <1>6, <1>7, <1>8, <1>9, <1>10, <1>11, <1>12, <1>13, <1>14 DEF Next, main

(* The inductive invariant holds in every state of the command link. *)
LEMMA LinkInvHolds == DrainSpec => []LinkInv
<1>1. Init => LinkInv
  BY LinkInvInit
<1>2. LinkInv /\ [Next]_vars => LinkInv'
  BY LinkInvStep
<1> QED
  BY <1>1, <1>2, PTL DEF DrainSpec

(* Types of the command link. *)
THEOREM LinkTypeCorrect == DrainSpec => []LinkTypeOK
<1>1. LinkInv => LinkTypeOK
  BY DEF LinkInv
<1> QED
  BY <1>1, LinkInvHolds, PTL

(* read_rx_fifo() stores nothing outside str1, for every RX_BUF_SIZE and   *)
(* every sequence of characters (main.c:332, 341 and 352).                 *)
THEOREM StoresCorrect == DrainSpec => []StoresInBounds
<1>1. LinkInv => StoresInBounds
  BY DEF LinkInv, Fits, StoresInBounds
<1> QED
  BY <1>1, LinkInvHolds, PTL

(* execute_cmd() finds at the start of str1 the characters read since its  *)
(* last call and no others, at most one line of them, and behind a whole   *)
(* line that fits the NUL that keeps it from what an earlier line left     *)
(* (main.c:334-349).                                                       *)
ExecutesWhatWasRead ==
    pc = "execute" =>
        /\ call # <<>>
        /\ \A i \in 1..Len(call) : str1[i - 1] = call[i]
        /\ \A i \in 1..(Len(call) - 1) : call[i] # RX_EOC
        /\ call[Len(call)] = RX_EOC /\ Len(call) < RX_BUF_SIZE => str1[Len(call)] = NUL

(* execute_cmd() gets what has been read, for every RX_BUF_SIZE, FIFO      *)
(* depth and Script, wherever the end of the pass cuts the line.           *)
THEOREM PassedOn == DrainSpec => []ExecutesWhatWasRead
<1>1. LinkInv => ExecutesWhatWasRead
  <2> SUFFICES ASSUME LinkInv, pc = "execute" PROVE ExecutesWhatWasRead
    BY DEF ExecutesWhatWasRead
  <2>1. Len(call) = nbytes /\ nbytes > 0 /\ nbytes \in Nat
    BY CellsOf DEF LinkInv, LinkTypeOK, Fits, Ended, Reading
  <2>2. call # <<>>
    BY <2>1
  <2>3. \A i \in 1..Len(call) : str1[i - 1] = call[i]
    BY <2>1 DEF LinkInv, Fits, Reading
  <2>4. /\ \A i \in 1..(Len(call) - 1) : call[i] # RX_EOC
        /\ call[Len(call)] = RX_EOC /\ Len(call) < RX_BUF_SIZE => str1[Len(call)] = NUL
    BY <2>1 DEF LinkInv, Ended
  <2> QED
    BY <2>2, <2>3, <2>4 DEF ExecutesWhatWasRead
<1> QED
  BY <1>1, LinkInvHolds, PTL

--------------------------------------------------------------------------------
(***************************************************************************)
(* The receive FIFO and its read path.                                     *)
(***************************************************************************)
Accesses == {"empty_address", "empty_data", "set", "clear", "char_address", "char_data"}

FifoTypeOK ==
    /\ came \in Nat /\ data \in Nat /\ dropped \in Nat /\ wrreq \in BOOLEAN
    /\ store \in Seq(Nat) /\ visible \in Nat /\ q \in Nat /\ popped \in BOOLEAN
    /\ rx_fifo_rd_en \in BOOLEAN /\ rd_ff \in BOOLEAN
    /\ rx_char \in Nat /\ rx_fifo_empty \in BOOLEAN
    /\ cpu \in Accesses /\ taken \in Seq(Nat)

(* The words that the read side knows of are there, and a word on its way  *)
(* to the FIFO has room in it.                                             *)
Room ==
    /\ visible <= Len(store) /\ Len(store) <= Depth
    /\ wrreq => Len(store) < Depth

(* The read signal is up between its two writes, and the edge detector     *)
(* lags one edge behind it.                                                *)
Pulse ==
    /\ rx_fifo_rd_en <=> cpu = "clear"
    /\ rd_ff => cpu \in {"clear", "char_address"}

(* What the CPU has read, or is about to read, as "not empty" holds until  *)
(* the pulse.                                                              *)
Seen ==
    /\ cpu = "empty_data" /\ ~rx_fifo_empty => visible > 0
    /\ cpu = "set" => visible > 0
    /\ rx_fifo_rd_en_p => visible > 0

(* Between the pulse and the end of the read there is one byte in the      *)
(* output register, and it is the one the CPU gets.                        *)
InHand ==
    /\ popped <=> \/ cpu \in {"char_address", "char_data"}
                  \/ cpu = "clear" /\ rd_ff
    /\ cpu = "char_data" => rx_char = q

FifoInv == FifoTypeOK /\ Room /\ Pulse /\ Seen /\ InHand
--------------------------------------------------------------------------------
(* The steps of the two sides.                                             *)
CpuStep == CpuAccess \/ NoAccess
Took == cpu = "char_data" /\ cpu' # cpu

(* A clock edge: a byte or none, an access or none, FIFO and registers. *)
LEMMA EdgeOf ==
    ASSUME FifoNext
    PROVE  (ByteComes \/ NoByte) /\ CpuStep /\ Fifo(Took) /\ Registers
  BY DEF FifoNext, Edge, CpuStep, Took

(* What an edge does to the words of the FIFO.                             *)
LEMMA FifoStep ==
    ASSUME FifoInv, FifoNext
    PROVE  /\ store' \in Seq(Nat) /\ visible' \in Nat /\ q' \in Nat
           /\ pop => store # <<>>
           /\ ~pop => visible' = Len(store)
           /\ visible' <= Len(store')
           /\ ~wrreq => Len(store') <= Len(store)
           /\ Len(store') <= Depth
<1> USE DEF FifoInv, FifoTypeOK
<1>1. Fifo(Took)
  BY EdgeOf
<1>2. pop => store # <<>>
  BY DEF pop, empty, Room
<1>3. push = wrreq
  BY DEF push, full, Room
<1> DEFINE kept == IF pop THEN Tail(store) ELSE store
           new == IF push THEN <<data>> ELSE <<>>
<1>4. kept \in Seq(Nat) /\ Len(kept) = Len(store) - (IF pop THEN 1 ELSE 0)
  BY <1>2, HeadTailProperties
<1>5. new \in Seq(Nat) /\ Len(new) = IF wrreq THEN 1 ELSE 0
  BY <1>3
<1>6. store' = kept \o new
  BY <1>1 DEF Fifo
<1> HIDE DEF kept, new
<1>7. store' \in Seq(Nat) /\ Len(store') = Len(kept) + Len(new)
  BY <1>4, <1>5, <1>6, ConcatProperties
<1>8. visible' = Len(kept) /\ (~pop => visible' = Len(store))
  BY <1>1, <1>4 DEF Fifo
<1>9. q' \in Nat
  BY <1>1, <1>2, HeadTailProperties DEF Fifo
<1>10. Len(kept) \in Nat /\ Len(kept) <= Len(store) /\ Len(store) \in Nat
  BY <1>2, <1>4
<1>11. visible' <= Len(store') /\ (~wrreq => Len(store') <= Len(store))
  BY <1>5, <1>7, <1>8, <1>10
<1>12. Len(store') <= Depth
  <2>1. CASE wrreq
    BY <2>1, <1>5, <1>7, <1>10, FifoAssumption DEF Room
  <2>2. CASE ~wrreq
    BY <2>2, <1>11, <1>7, <1>10, <1>5, FifoAssumption DEF Room
  <2> QED
    BY <2>1, <2>2
<1> QED
  BY <1>2, <1>7, <1>8, <1>9, <1>10, <1>11, <1>12

(* The FIFO is empty and the CPU has not begun to read. *)
LEMMA FifoInvInit == FifoInit => FifoInv
<1> SUFFICES ASSUME FifoInit PROVE FifoInv
  OBVIOUS
<1> USE FifoAssumption DEF FifoInit
<1>1. FifoTypeOK
  <2>1. <<>> \in Seq(Nat)
    BY EmptySeq
  <2> QED
    BY <2>1 DEF FifoTypeOK, Accesses
<1>2. Room /\ Pulse /\ Seen /\ InHand
  BY DEF Room, Pulse, Seen, InHand, rx_fifo_rd_en_p
<1> QED
  BY <1>1, <1>2 DEF FifoInv

(* Where the CPU goes, and what its access changes. *)
LEMMA CpuStepOf ==
    ASSUME FifoInv, CpuStep
    PROVE  /\ cpu' \in Accesses
           /\ cpu' # cpu =>
                  <<cpu, cpu'>> \in {<<"empty_address", "empty_data">>, <<"empty_data", "empty_address">>,
                                    <<"empty_data", "set">>, <<"set", "clear">>, <<"clear", "char_address">>,
                                    <<"char_address", "char_data">>, <<"char_data", "empty_address">>}
           /\ cpu = "empty_data" /\ cpu' = "set" => ~rx_fifo_empty
           /\ rx_fifo_rd_en' \in BOOLEAN
           /\ rx_fifo_rd_en' <=> cpu' = "clear"
           /\ taken' = IF Took THEN Append(taken, rx_char) ELSE taken
<1> USE DEF FifoInv, FifoTypeOK, Pulse, Access, Took, Accesses
<1>1. CASE EmptyAddress
  BY <1>1 DEF EmptyAddress
<1>2. CASE EmptyData
  BY <1>2 DEF EmptyData
<1>3. CASE SetRead
  BY <1>3 DEF SetRead
<1>4. CASE ClearRead
  BY <1>4 DEF ClearRead
<1>5. CASE CharAddress
  BY <1>5 DEF CharAddress
<1>6. CASE CharData
  BY <1>6 DEF CharData
<1>7. CASE NoAccess
  BY <1>7 DEF NoAccess
<1> QED
  BY <1>1, <1>2, <1>3, <1>4, <1>5, <1>6, <1>7 DEF CpuStep, CpuAccess

(* Every step of the CPU and every clock edge keep the invariant. *)
LEMMA FifoInvStep == FifoInv /\ [FifoNext]_fifo_vars => FifoInv'
<1> SUFFICES ASSUME FifoInv, [FifoNext]_fifo_vars PROVE FifoInv'
  OBVIOUS
<1>1. CASE UNCHANGED fifo_vars
  BY <1>1 DEF FifoInv, FifoTypeOK, Room, Pulse, Seen, InHand, fifo_vars, deserialiser, scfifo,
     registers, rx_fifo_rd_en_p
<1>2. CASE FifoNext
  <2>1. CpuStep /\ Fifo(Took) /\ Registers /\ (ByteComes \/ NoByte)
    BY <1>2, EdgeOf
  <2>2. /\ store' \in Seq(Nat) /\ visible' \in Nat /\ q' \in Nat
        /\ ~pop => visible' = Len(store)
        /\ visible' <= Len(store') /\ Len(store') <= Depth
        /\ ~wrreq => Len(store') <= Len(store)
    BY <1>2, FifoStep
  <2>3. /\ cpu' \in Accesses
        /\ cpu' # cpu =>
               <<cpu, cpu'>> \in {<<"empty_address", "empty_data">>, <<"empty_data", "empty_address">>,
                                 <<"empty_data", "set">>, <<"set", "clear">>, <<"clear", "char_address">>,
                                 <<"char_address", "char_data">>, <<"char_data", "empty_address">>}
        /\ cpu = "empty_data" /\ cpu' = "set" => ~rx_fifo_empty
        /\ rx_fifo_rd_en' \in BOOLEAN /\ (rx_fifo_rd_en' <=> cpu' = "clear")
        /\ taken' = IF Took THEN Append(taken, rx_char) ELSE taken
    BY <2>1, CpuStepOf
  <2>4. /\ rd_ff' = rx_fifo_rd_en /\ rx_char' = q /\ rx_fifo_empty' = (visible = 0)
        /\ popped' = (pop \/ (popped /\ ~Took)) /\ (~pop => q' = q)
    BY <2>1 DEF Registers, Fifo, empty
  <2>5. FifoTypeOK'
    <3>1. taken' \in Seq(Nat)
      BY <2>3 DEF FifoInv, FifoTypeOK
    <3>2. came' \in Nat /\ data' \in Nat /\ dropped' \in Nat /\ wrreq' \in BOOLEAN
      <4>1. CASE NoByte
        BY <4>1 DEF NoByte, FifoInv, FifoTypeOK
      <4>2. CASE ByteComes
        <5>1. wrreq' \in BOOLEAN
          BY <4>2, Zenon DEF ByteComes
        <5> QED
          BY <4>2, <5>1 DEF ByteComes, FifoInv, FifoTypeOK
      <4> QED
        BY <2>1, <4>1, <4>2
    <3>3. popped' \in BOOLEAN /\ rd_ff' \in BOOLEAN /\ rx_char' \in Nat /\ rx_fifo_empty' \in BOOLEAN
      BY <2>4 DEF FifoInv, FifoTypeOK
    <3> QED
      BY <2>2, <2>3, <3>1, <3>2, <3>3 DEF FifoTypeOK
  <2>6. Len(store) \in Nat /\ Depth \in Nat
    BY FifoAssumption DEF FifoInv, FifoTypeOK
  <2>7. Room'
    <3>1. wrreq' => ~wrreq /\ Len(store) # Depth
      <4>1. CASE NoByte
        BY <4>1 DEF NoByte
      <4>2. CASE ByteComes
        BY <4>2, Zenon DEF ByteComes, full
      <4> QED
        BY <2>1, <4>1, <4>2
    <3> QED
      BY <2>2, <2>6, <3>1 DEF Room, FifoInv
  <2>8. Pulse'
    BY <2>3, <2>4 DEF Pulse, FifoInv, FifoTypeOK, Accesses
  <2>9. pop <=> cpu = "clear" /\ ~rd_ff
    BY DEF pop, rx_fifo_rd_en_p, empty, FifoInv, Pulse, Seen, FifoTypeOK
  <2>10. ~pop => visible' >= visible
    BY <2>2, <2>6 DEF Room, FifoInv, FifoTypeOK
  <2>11. Seen'
    <3> USE DEF FifoInv, FifoTypeOK, Accesses
    <3>1. cpu' = "empty_data" /\ ~rx_fifo_empty' => visible' > 0
      <4> SUFFICES ASSUME cpu' = "empty_data", ~rx_fifo_empty' PROVE visible' > 0
        OBVIOUS
      <4>1. cpu # "clear"
        BY <2>3
      <4>2. visible # 0
        BY <2>4, Zenon
      <4> QED
        BY <2>2, <2>9, <2>10, <4>1, <4>2
    <3>2. cpu' \in {"set", "clear"} /\ cpu # "clear" => cpu = "set" \/ (cpu = "empty_data" /\ ~rx_fifo_empty)
      BY <2>3
    <3>3. cpu' \in {"set", "clear"} /\ cpu # "clear" => visible' > 0
      BY <2>2, <2>9, <2>10, <3>2 DEF Seen
    <3>4. cpu' = "set" => cpu # "clear"
      BY <2>3
    <3>5. rx_fifo_rd_en' /\ ~rd_ff' => cpu' = "clear" /\ cpu # "clear"
      BY <2>3, <2>4 DEF Pulse
    <3> QED
      BY <3>1, <3>3, <3>4, <3>5 DEF Seen, rx_fifo_rd_en_p
  <2>12. InHand'
    BY <2>3, <2>4, <2>9 DEF InHand, FifoInv, FifoTypeOK, Pulse, Took, Accesses
  <2> QED
    BY <2>5, <2>7, <2>8, <2>11, <2>12 DEF FifoInv
<1> QED
  BY <1>1, <1>2

(* The inductive invariant holds in every state of the read path. *)
LEMMA FifoInvHolds == FifoSpec => []FifoInv
  BY FifoInvInit, FifoInvStep, PTL DEF FifoSpec

(* The pulse that reads the FIFO always finds a word, and the one that     *)
(* writes it always finds room, for every depth and every timing of the    *)
(* two sides (main.c:330-337, rs232_des.v:56-59).                          *)
THEOREM FlagsCorrect == FifoSpec => []FlagsHold
<1>1. FifoInv => FlagsHold
  BY FifoAssumption DEF FifoInv, FifoTypeOK, Room, Seen, FlagsHold, NoUnderflow, NoOverflow, full, empty
<1> QED
  BY <1>1, FifoInvHolds, PTL
--------------------------------------------------------------------------------
(* The queue that the FIFO and the registers around it make up.            *)
Hand == IF popped THEN <<q>> ELSE <<>>
Coming == IF wrreq THEN <<data>> ELSE <<>>
Queue == Hand \o store \o Coming

(* The parts of the queue may be bracketed either way. *)
LEMMA Regroup ==
    ASSUME NEW a \in Seq(Nat), NEW b \in Seq(Nat), NEW d \in Seq(Nat)
    PROVE  (a \o b) \o d = a \o (b \o d)
  BY SMTT(30), ConcatAssociative

(* The parts of the queue are sequences of bytes. *)
LEMMA QueueParts ==
    ASSUME FifoInv
    PROVE  /\ Hand \in Seq(Nat) /\ store \in Seq(Nat) /\ Coming \in Seq(Nat)
           /\ Queue \in Seq(Nat) /\ Len(Queue) >= Len(store)
           /\ Queue = Hand \o (store \o Coming)
<1>1. <<>> \in Seq(Nat)
  BY EmptySeq
<1>2. Hand \in Seq(Nat) /\ Len(Hand) \in Nat
  BY <1>1 DEF Hand, FifoInv, FifoTypeOK
<1>3. Coming \in Seq(Nat) /\ Len(Coming) \in Nat
  BY <1>1 DEF Coming, FifoInv, FifoTypeOK
<1>4. store \in Seq(Nat) /\ Len(store) \in Nat
  BY DEF FifoInv, FifoTypeOK
<1>5. Hand \o store \in Seq(Nat) /\ Len(Hand \o store) = Len(Hand) + Len(store)
  BY <1>2, <1>4, ConcatProperties
<1>6. Queue \in Seq(Nat) /\ Len(Queue) = Len(Hand \o store) + Len(Coming)
  BY <1>3, <1>5, ConcatProperties DEF Queue
<1>7. Queue = Hand \o (store \o Coming)
  <2>1. (Hand \o store) \o Coming = Hand \o (store \o Coming)
    BY <1>2, <1>3, <1>4, Regroup
  <2> QED
    BY <2>1 DEF Queue
<1> QED
  BY <1>2, <1>3, <1>4, <1>5, <1>6, <1>7

(* The byte of the output register is the head of the queue.               *)
LEMMA HeadOfPrefixed ==
    ASSUME NEW a \in Nat, NEW s \in Seq(Nat)
    PROVE  /\ <<a>> \o s # <<>>
           /\ Head(<<a>> \o s) = a /\ Tail(<<a>> \o s) = s
  OBVIOUS

(* A non-empty sequence is its head and its tail. *)
LEMMA HeadAndTail ==
    ASSUME NEW s \in Seq(Nat), s # <<>>
    PROVE  <<Head(s)>> \o Tail(s) = s
<1>1. Head(s) \in Nat /\ Tail(s) \in Seq(Nat) /\ Len(Tail(s)) = Len(s) - 1
      /\ \A i \in 1..Len(Tail(s)) : Tail(s)[i] = s[i + 1]
  BY HeadTailProperties
<1> DEFINE t == <<Head(s)>> \o Tail(s)
<1>2. <<Head(s)>> \in Seq(Nat) /\ Len(<<Head(s)>>) = 1 /\ <<Head(s)>>[1] = Head(s)
  BY <1>1
<1>3. t \in Seq(Nat) /\ Len(t) = Len(s)
      /\ \A i \in 1..Len(s) : t[i] = IF i <= 1 THEN <<Head(s)>>[i] ELSE Tail(s)[i - 1]
  BY <1>1, <1>2, ConcatProperties
<1>4. \A i \in 1..Len(s) : t[i] = s[i]
  BY <1>1, <1>2, <1>3
<1> QED
  BY <1>3, <1>4, SeqEqual

(* A word that moves from the store to the output register stays in place. *)
LEMMA MoveHead ==
    ASSUME NEW s \in Seq(Nat), s # <<>>, NEW d \in Seq(Nat)
    PROVE  <<Head(s)>> \o (Tail(s) \o d) = s \o d
<1> DEFINE h == <<Head(s)>>
           t == Tail(s)
<1>1. h \in Seq(Nat) /\ t \in Seq(Nat)
  BY HeadTailProperties
<1>2. h \o t = s
  BY HeadAndTail
<1> HIDE DEF h, t
<1>3. h \o (t \o d) = (h \o t) \o d
  BY SMTT(30), <1>1, Regroup
<1> QED
  BY <1>2, <1>3 DEF h, t

(* What an edge leaves of the queue, before a byte that comes: all of it,  *)
(* or all but the oldest byte when the CPU ends a read.                    *)
LEMMA RestOfQueue ==
    ASSUME FifoInv, FifoNext
    PROVE  /\ Hand' \o store' = IF Took THEN Tail(Queue) ELSE Queue
           /\ Took => Queue # <<>> /\ Head(Queue) = rx_char
<1> DEFINE words == store \o Coming
<1>1. /\ Queue = Hand \o words /\ words \in Seq(Nat) /\ store \in Seq(Nat) /\ Coming \in Seq(Nat)
      /\ Hand \in Seq(Nat)
  BY QueueParts, ConcatProperties
<1>2. Fifo(Took)
  BY EdgeOf
<1>3. q \in Nat /\ popped \in BOOLEAN /\ wrreq \in BOOLEAN
  BY DEF FifoInv, FifoTypeOK
<1>4. push <=> wrreq
  BY DEF push, full, FifoInv, Room
<1>5. popped' <=> pop \/ (popped /\ ~Took)
  BY <1>2, Zenon DEF Fifo
<1>6. store' = (IF pop THEN Tail(store) ELSE store) \o Coming
  BY <1>2, <1>4 DEF Fifo, Coming
<1>7. pop => cpu = "clear" /\ ~rd_ff /\ store # <<>>
  BY FifoStep DEF pop, rx_fifo_rd_en_p, FifoInv, Pulse
<1>8. CASE Took
  <2>1. cpu = "char_data" /\ popped /\ rx_char = q
    BY <1>8 DEF Took, FifoInv, InHand
  <2>2. ~pop /\ ~popped'
    BY <1>5, <1>7, <1>8, <2>1
  <2>3. Hand = <<q>> /\ Hand' = <<>> /\ store' = words
    BY <1>6, <2>1, <2>2 DEF Hand
  <2>4. Queue = <<q>> \o words
    BY <1>1, <2>3
  <2>5. Hand' \o store' = words
    BY <1>1, <2>3, ConcatEmptySeq
  <2> QED
    BY <1>1, <1>3, <1>8, <2>1, <2>4, <2>5, HeadOfPrefixed
<1>9. CASE ~Took /\ ~pop
  <2>1. popped' = popped /\ q' = q /\ store' = words
    BY <1>2, <1>3, <1>5, <1>6, <1>9 DEF Fifo
  <2> QED
    BY <1>1, <1>9, <2>1 DEF Hand
<1>10. CASE ~Took /\ pop
  <2>1. ~popped /\ store # <<>>
    BY <1>7, <1>10 DEF FifoInv, InHand
  <2>2. Hand = <<>> /\ Hand' = <<Head(store)>>
    BY <1>2, <1>5, <1>10, <2>1 DEF Hand, Fifo
  <2>3. store' = Tail(store) \o Coming
    BY <1>6, <1>10
  <2>4. Hand' \o store' = words
    BY <1>1, <2>1, <2>2, <2>3, MoveHead
  <2>5. Queue = words
    BY <1>1, <2>2, ConcatEmptySeq
  <2> QED
    BY <1>10, <2>4, <2>5
<1> QED
  BY <1>8, <1>9, <1>10

(* Every step of the read path is a step of the queue or none. *)
LEMMA StepRefinesQueue ==
    FifoInv /\ [FifoNext]_fifo_vars => [BQ!QueueNext]_(BQ!queue_vars)
<1> SUFFICES ASSUME FifoInv, [FifoNext]_fifo_vars PROVE [BQ!QueueNext]_(BQ!queue_vars)
  OBVIOUS
<1>0. CASE UNCHANGED fifo_vars
  BY <1>0 DEF fifo_vars, deserialiser, scfifo, registers, BQ!queue_vars
<1> SUFFICES ASSUME FifoNext PROVE BQ!QueueNext
  BY <1>0
<1> FifoInv'
  BY FifoInvStep
<1> DEFINE rest == IF Took THEN Tail(Queue) ELSE Queue
<1>1. Hand' \o store' = rest /\ (Took => Queue # <<>> /\ Head(Queue) = rx_char)
  BY RestOfQueue
<1>2. Queue \in Seq(Nat) /\ Len(Queue) >= Len(store) /\ rest \in Seq(Nat) /\ data' \in Nat
  BY QueueParts, <1>1, HeadTailProperties DEF FifoInv, FifoTypeOK
<1>3. Queue' = rest \o Coming'
  BY <1>1 DEF Queue
<1>4. Took \in BOOLEAN
  BY DEF Took
<1>5. BQ!Take(Took)
  BY EdgeOf, CpuStepOf, <1>1 DEF BQ!Take, Queue, Hand, Coming
<1>6. CASE NoByte
  <2>1. Queue' = rest
    BY <1>2, <1>3, <1>6, ConcatEmptySeq DEF NoByte, Coming
  <2>2. BQ!Keep(Took)
    BY <1>6, <2>1 DEF NoByte, BQ!Keep, BQ!Rest, Queue, Hand, Coming
  <2> QED
    BY <1>4, <1>5, <2>2 DEF BQ!QueueNext
<1>7. CASE ByteComes /\ ~full
  <2>1. Coming' = <<data'>> /\ dropped' = dropped
    BY <1>7 DEF ByteComes, Coming
  <2>2. Queue' = Append(rest, data') /\ Queue' # <<>> /\ Queue'[Len(Queue')] = data'
    BY <1>2, <1>3, <2>1
  <2>3. BQ!Put(Took)
    BY <2>1, <2>2 DEF BQ!Put, BQ!Rest, Queue, Hand, Coming
  <2> QED
    BY <1>4, <1>5, <2>2, <2>3 DEF BQ!QueueNext, Queue, Hand, Coming
<1>8. CASE ByteComes /\ full
  <2>1. Coming' = <<>> /\ dropped' = dropped + 1 /\ Len(store) = Depth
    BY <1>8 DEF ByteComes, Coming, full
  <2>2. Queue' = rest
    BY <1>2, <1>3, <2>1, ConcatEmptySeq
  <2>3. BQ!Lose(Took)
    BY <1>2, <2>1, <2>2 DEF BQ!Lose, BQ!Rest, Queue, Hand, Coming
  <2> QED
    BY <1>4, <1>5, <2>3 DEF BQ!QueueNext
<1> QED
  BY <1>6, <1>7, <1>8, EdgeOf

(* FIFO, edge detector, registers and the accesses of the CPU are a queue  *)
(* of bytes: each is taken once, in the order they came, and one is lost   *)
(* only when the FIFO is full (fifo_1024_8.v, posedge_detector.v,          *)
(* main.c:326-340).                                                        *)
THEOREM QueueImplemented == FifoSpec => ImplementsQueue
<1>1. FifoInit => BQ!QueueInit
  <2> SUFFICES ASSUME FifoInit PROVE BQ!QueueInit
    OBVIOUS
  <2>1. <<>> \o <<>> \o <<>> = <<>>
    BY EmptySeq, ConcatEmptySeq
  <2> QED
    BY <2>1 DEF FifoInit, BQ!QueueInit
<1> QED
  BY <1>1, FifoInvHolds, StepRefinesQueue, PTL DEF FifoSpec, ImplementsQueue, BQ!QueueSpec

(***************************************************************************)
(* The receiver.  Time is counted in clock cycles from the first cycle of  *)
(* a start bit, by the host as Elapsed and by the receiver, two or three   *)
(* cycles behind it, as Counted.                                           *)
(***************************************************************************)
HalfBit == START_LATCH_CNT_MAX
FullBit == SHIFT_LATCH_CNT_MAX

Bit == {0, 1}
Byte == [1..8 -> Bit]

DesTypeOK ==
    /\ host \in [frame : [byte : Byte, stop : Bit], bit : 0..10, left : Nat \ {0}, period : BitTimes,
                 frames : Nat, sent : Seq(Byte)]
    /\ ff \in Bit \X Bit /\ edge_ff \in Bit
    /\ fsm \in {"S_IDLE", "S_START", "S_SHIFT", "S_STOP"}
    /\ latch_cnt \in 0..FullBit /\ shift_cnt \in 0..7
    /\ rx_fifo_data \in Byte /\ rx_fifo_wr_en \in BOOLEAN /\ written \in Seq(Byte)

(* How long the bit has been on the line. *)
Age == host.period - host.left

Elapsed == (host.bit * host.period) + Age

Counted ==
    CASE fsm = "S_START" -> latch_cnt
      [] fsm = "S_SHIFT" -> HalfBit + 1 + (shift_cnt * (FullBit + 1)) + latch_cnt
      [] OTHER -> HalfBit + 1 + (8 * (FullBit + 1)) + latch_cnt

(* What a bit leaves in the flip-flops as it ages; a start bit finds them  *)
(* high.                                                                   *)
BitSettles ==
    host.bit # 10 =>
        /\ host.left <= host.period
        /\ Age >= 1 => ff[1] = rx
        /\ Age >= 2 => ff[2] = rx
        /\ Age >= 3 => edge_ff = rx
        /\ host.bit = 0 => /\ Age = 0 => ff[2] = 1
                           /\ Age = 1 => edge_ff = 1

(* In a pause, the line's way up goes through the flip-flops once.         *)
PauseSettles ==
    host.bit = 10 =>
        /\ edge_ff <= ff[2] /\ ff[2] <= ff[1]
        /\ ff[1] = 0 => host.left >= 2

(* Where the receiver is, by what the host does.                           *)
InStep ==
    /\ fsm # "S_IDLE" => host.bit # 10 /\ Elapsed - Counted \in {2, 3}
    /\ fsm = "S_START" => latch_cnt <= HalfBit /\ shift_cnt = 0
    /\ fsm = "S_IDLE" =>
          \/ host.bit = 10
          \/ host.bit = 9 /\ Age >= 3
          \/ host.bit = 0 /\ Age <= 2 /\ (Age = 2 => edge_ff = 1)

(* What it has of the frame's byte. *)
BitsTaken ==
    /\ fsm = "S_SHIFT" => \A j \in 1..shift_cnt : rx_fifo_data[8 - shift_cnt + j] = host.frame.byte[j]
    /\ fsm = "S_STOP" => rx_fifo_data = host.frame.byte
    /\ rx_fifo_wr_en => /\ fsm = "S_IDLE" /\ host.bit = 9 /\ host.left >= 2 /\ host.frame.stop = 1
                        /\ rx_fifo_data = host.frame.byte

(* The frame's byte is the one that is still to be passed on. *)
Pending == host.frame.stop = 1 /\ (fsm # "S_IDLE" \/ rx_fifo_wr_en \/ host.bit = 0)

AllPassedOn == host.sent = IF Pending THEN Append(written, host.frame.byte) ELSE written

DesInv == DesTypeOK /\ BitSettles /\ PauseSettles /\ InStep /\ BitsTaken /\ AllPassedOn

(* The constants: half a bit time is a half, and the bounds of the host.   *)
LEMMA BitTimesAre ==
    /\ FullBit \in Nat /\ HalfBit \in Nat /\ 2 * HalfBit <= FullBit /\ FullBit <= 2 * HalfBit + 1
    /\ STOP_LATCH_CNT_MAX = FullBit
    /\ LatchRange \in Nat /\ LatchRange > FullBit
    /\ \A p \in BitTimes :
          p \in Nat /\ 9 * p <= 9 * FullBit + HalfBit + 9 /\ 10 * p >= 9 * FullBit + HalfBit + 15
    /\ \A gap \in Gaps : gap \in Nat /\ gap >= 1
<1> DEFINE ratio == P_CLK_FREQ_HZ \div P_BAUD_RATE
<1>1. ratio \in Nat BY DesAssumption, SMT DEF DesAssumption
<1>2. FullBit = ratio /\ HalfBit = ratio \div 2 /\ STOP_LATCH_CNT_MAX = ratio
    BY DEF FullBit, HalfBit, SHIFT_LATCH_CNT_MAX, START_LATCH_CNT_MAX, STOP_LATCH_CNT_MAX
<1> HIDE DEF ratio
<1>3. ratio \div 2 \in Nat /\ 2 * (ratio \div 2) <= ratio /\ ratio <= 2 * (ratio \div 2) + 1
    BY <1>1, SMT
<1>4. LatchRange \in Nat /\ LatchRange > FullBit
    BY LatchAssumption DEF LatchAssumption, FullBit
<1>5. \A p \in BitTimes :
        p \in Nat /\ 9 * p <= 9 * FullBit + HalfBit + 9 /\ 10 * p >= 9 * FullBit + HalfBit + 15
    <2>1. \A p \in BitTimes : p \in Nat BY DesAssumption DEF DesAssumption
    <2>2. \A p \in BitTimes :
            9 * p <= 9 * FullBit + HalfBit + 9 /\ 10 * p >= 9 * FullBit + HalfBit + 15
        BY HostAssumption DEF HostAssumption, FullBit, HalfBit
    <2> QED BY <2>1, <2>2
<1>6. \A gap \in Gaps : gap \in Nat /\ gap >= 1
    BY DesAssumption, HostAssumption DEF DesAssumption, HostAssumption
<1> QED BY <1>1, <1>2, <1>3, <1>4, <1>5, <1>6

(* When the receiver looks at bit k + 1, that bit has been on the line for *)
(* two cycles.                                                             *)
LEMMA LooksInTime ==
    ASSUME NEW p \in BitTimes, NEW k \in 0..7, NEW d \in {2, 3}
    PROVE  /\ ((k + 1) * p) + 2 <= HalfBit + 1 + (k * (FullBit + 1)) + FullBit + d
           /\ HalfBit + 1 + (k * (FullBit + 1)) + FullBit + d < (k + 2) * p
<1> DEFINE N == FullBit  H == HalfBit
<1>1. /\ N \in Nat /\ H \in Nat /\ 2 * H <= N /\ N <= 2 * H + 1
      /\ p \in Nat /\ 9 * p <= 9 * N + H + 9 /\ 10 * p >= 9 * N + H + 15
    BY BitTimesAre
<1> HIDE DEF N, H
<1>2. CASE k = 0 BY <1>1, <1>2 DEF N, H
<1>3. CASE k = 1 BY <1>1, <1>3 DEF N, H
<1>4. CASE k = 2 BY <1>1, <1>4 DEF N, H
<1>5. CASE k = 3 BY <1>1, <1>5 DEF N, H
<1>6. CASE k = 4 BY <1>1, <1>6 DEF N, H
<1>7. CASE k = 5 BY <1>1, <1>7 DEF N, H
<1>8. CASE k = 6 BY <1>1, <1>8 DEF N, H
<1>9. CASE k = 7 BY <1>1, <1>9 DEF N, H
<1> QED BY <1>2, <1>3, <1>4, <1>5, <1>6, <1>7, <1>8, <1>9

(* ... and the stop bit for as long, with three cycles of it left.         *)
LEMMA LooksBeforeEnd ==
    ASSUME NEW p \in BitTimes, NEW d \in {2, 3}
    PROVE  /\ (9 * p) + 2 <= HalfBit + 1 + (8 * (FullBit + 1)) + FullBit + d
           /\ HalfBit + 1 + (8 * (FullBit + 1)) + FullBit + d + 3 <= 10 * p
<1> QED BY BitTimesAre

(* A cycle of a frame is in the bit between whose ends it is. *)
LEMMA BitOfCycle ==
    ASSUME NEW p \in Nat, NEW bit \in Nat, NEW age \in Nat, age < p, NEW m \in Nat,
           NEW early \in Nat, (m * p) + early <= (bit * p) + age, (bit * p) + age < (m + 1) * p
    PROVE  bit = m /\ age >= early
<1>1. \A a, b \in Nat : a < b => (a * p) + p <= b * p
    <2> TAKE a, b \in Nat
    <2> HAVE a < b
    <2>1. PICK rest \in Nat : b = a + 1 + rest
        <3>1. b - a - 1 \in Nat /\ b = a + 1 + (b - a - 1) OBVIOUS
        <3> QED BY <3>1
    <2>2. b * p = (a * p) + p + (rest * p) BY <2>1, SMT
    <2>3. rest * p \in Nat /\ a * p \in Nat BY <2>1, SMT
    <2> QED BY <2>2, <2>3
<1>2. bit * p \in Nat /\ m * p \in Nat /\ (m + 1) * p = (m * p) + p
    BY SMT
<1>3. ~(bit < m)
    <2> SUFFICES ASSUME bit < m PROVE FALSE OBVIOUS
    <2>1. (bit * p) + p <= m * p BY <1>1
    <2> DEFINE x == bit * p  y == m * p
    <2>2. x \in Nat /\ y \in Nat /\ x + p <= y /\ y + early <= x + age BY <1>2, <2>1
    <2> HIDE DEF x, y
    <2> QED BY <2>2
<1>4. ~(m < bit)
    <2> SUFFICES ASSUME m < bit PROVE FALSE OBVIOUS
    <2>1. (m * p) + p <= bit * p BY <1>1
    <2> DEFINE x == bit * p  y == m * p
    <2>2. x \in Nat /\ y \in Nat /\ y + p <= x /\ x + age < y + p BY <1>2, <2>1
    <2> HIDE DEF x, y
    <2> QED BY <2>2
<1>5. bit = m BY <1>3, <1>4
<1>6. age >= early
    <2> DEFINE y == m * p
    <2>1. y \in Nat /\ y + early <= y + age BY <1>2, <1>5
    <2> HIDE DEF y
    <2> QED BY <2>1
<1> QED BY <1>5, <1>6

(* The line by the bit that is on it. *)
LineOf(h) ==
    CASE h.bit = 0 -> 0 [] h.bit \in 1..8 -> h.frame.byte[h.bit] [] h.bit = 9 -> h.frame.stop [] h.bit = 10 -> 1

HostState ==
    [frame : [byte : Byte, stop : Bit], bit : 0..10, left : Nat \ {0}, period : BitTimes,
     frames : Nat, sent : Seq(Byte)]

LEMMA LineIs ==
    ASSUME NEW h \in HostState
    PROVE  /\ LineOf(h) \in Bit
           /\ h.bit = 0 => LineOf(h) = 0
           /\ \A k \in 1..8 : h.bit = k => LineOf(h) = h.frame.byte[k]
           /\ h.bit = 9 => LineOf(h) = h.frame.stop
           /\ h.bit = 10 => LineOf(h) = 1
<1>1. /\ h.bit \in 0..10 /\ h.frame.stop \in Bit /\ h.frame.byte \in [1..8 -> Bit]
    BY DEF HostState, Byte
<1>2. CASE h.bit = 0 BY <1>2 DEF LineOf, Bit
<1>3. CASE h.bit \in 1..8
    <2>1. LineOf(h) = h.frame.byte[h.bit] BY <1>3 DEF LineOf
    <2>2. h.frame.byte[h.bit] \in Bit BY <1>1, <1>3, Zenon
    <2> QED BY <1>3, <2>1, <2>2
<1>4. CASE h.bit = 9 BY <1>1, <1>4 DEF LineOf
<1>5. CASE h.bit = 10 BY <1>1, <1>5 DEF LineOf, Bit
<1> QED BY <1>1, <1>2, <1>3, <1>4, <1>5

(* The host's four steps, by what they do to the line.                     *)
SameFrame == host'.frame = host.frame /\ host'.sent = host.sent
Stays == host.left > 1 /\ host'.left = host.left - 1 /\ host'.bit = host.bit /\ SameFrame
Advances == host.left = 1 /\ host.bit < 9 /\ host'.bit = host.bit + 1 /\ host'.left = host.period /\ SameFrame
Pauses == host.left = 1 /\ host.bit = 9 /\ host'.bit = 10 /\ host'.left >= 2 /\ SameFrame
Begins ==
    /\ host.left = 1 /\ host.bit \in {9, 10} /\ (host.bit = 9 => host.frame.stop = 1)
    /\ host'.bit = 0 /\ host'.left = host.period
    /\ host'.sent = IF host'.frame.stop = 1 THEN Append(host.sent, host'.frame.byte) ELSE host.sent

LEMMA HostMoves ==
    ASSUME host \in HostState, Host
    PROVE  /\ host' \in HostState /\ host'.period = host.period
           /\ Stays \/ Advances \/ Pauses \/ Begins
<1>1. /\ host.frame \in [byte : Byte, stop : Bit] /\ host.bit \in 0..10 /\ host.left \in Nat \ {0}
      /\ host.period \in BitTimes /\ host.frames \in Nat /\ host.sent \in Seq(Byte)
      /\ host.period \in Nat \ {0}
    <2>1. \A p \in Nat : 10 * p >= 9 * FullBit + HalfBit + 15 => p \in Nat \ {0} BY BitTimesAre
    <2>2. host.period \in Nat \ {0} BY <2>1, BitTimesAre DEF HostState
    <2> QED BY <2>2 DEF HostState
<1>2. host = [frame |-> host.frame, bit |-> host.bit, left |-> host.left, period |-> host.period,
              frames |-> host.frames, sent |-> host.sent]
    BY DEF HostState
<1>3. CASE SameBit
    <2>1. host.left > 1 /\ host' = [host EXCEPT !.left = host.left - 1] BY <1>3 DEF SameBit
    <2>2. host' = [frame |-> host.frame, bit |-> host.bit, left |-> host.left - 1, period |-> host.period,
                   frames |-> host.frames, sent |-> host.sent]
        BY <1>2, <2>1
    <2>3. host.left - 1 \in Nat \ {0} BY <1>1, <2>1
    <2> QED BY <1>1, <2>1, <2>2, <2>3 DEF HostState, Stays, SameFrame
<1>4. CASE NextBit
    <2>1. host.left = 1 /\ host.bit < 9 /\ host' = [host EXCEPT !.bit = host.bit + 1, !.left = host.period]
        BY <1>4 DEF NextBit
    <2>2. host' = [frame |-> host.frame, bit |-> host.bit + 1, left |-> host.period, period |-> host.period,
                   frames |-> host.frames, sent |-> host.sent]
        BY <1>2, <2>1
    <2>3. host.bit + 1 \in 0..10 BY <1>1, <2>1
    <2> QED BY <1>1, <2>1, <2>2, <2>3 DEF HostState, Advances, SameFrame
<1>5. CASE Pause
    <2>1. PICK gap \in Gaps : host' = [host EXCEPT !.bit = 10, !.left = gap + 1] BY <1>5 DEF Pause
    <2>2. host' = [frame |-> host.frame, bit |-> 10, left |-> gap + 1, period |-> host.period,
                   frames |-> host.frames, sent |-> host.sent]
        BY <1>2, <2>1
    <2>3. gap + 1 \in Nat \ {0} /\ gap + 1 >= 2 BY BitTimesAre
    <2>4. host.left = 1 /\ host.bit = 9 BY <1>5 DEF Pause
    <2> QED BY <1>1, <2>2, <2>3, <2>4 DEF HostState, Pauses, SameFrame
<1>6. CASE NextFrame
    <2>1. PICK f \in Frames :
            host' = [host EXCEPT !.frame = f, !.bit = 0, !.left = host.period, !.frames = @ + 1,
                                 !.sent = IF f.stop = 1 THEN Append(@, f.byte) ELSE @]
        BY <1>6 DEF NextFrame
    <2> DEFINE more == IF f.stop = 1 THEN Append(host.sent, f.byte) ELSE host.sent
    <2>2. f \in [byte : Byte, stop : Bit] BY DesAssumption DEF DesAssumption, Byte, Bit
    <2>3. more \in Seq(Byte) BY <1>1, <2>2
    <2>4. host' = [host EXCEPT !.frame = f, !.bit = 0, !.left = host.period, !.frames = host.frames + 1,
                               !.sent = more]
        BY <2>1
    <2>5. host.left = 1 /\ host.bit \in {9, 10} /\ (host.bit = 9 => host.frame.stop = 1)
        BY <1>6 DEF NextFrame
    <2> HIDE DEF more
    <2>6. host' = [frame |-> f, bit |-> 0, left |-> host.period, period |-> host.period,
                   frames |-> host.frames + 1, sent |-> more]
        BY <1>2, <2>4
    <2>7. host' \in HostState /\ host'.period = host.period BY <1>1, <2>2, <2>3, <2>6 DEF HostState
    <2>8. host'.frame = f /\ host'.sent = more /\ host'.bit = 0 /\ host'.left = host.period BY <2>6
    <2> QED BY <2>5, <2>7, <2>8 DEF Begins, more
<1> QED BY <1>3, <1>4, <1>5, <1>6 DEF Host

(* What the invariant says of the host's time.                             *)
LEMMA HostTime ==
    ASSUME DesInv
    PROVE  /\ host \in HostState /\ host.bit \in 0..10 /\ host.left \in Nat /\ host.left >= 1
           /\ host.period \in BitTimes /\ host.period \in Nat /\ host.period >= 5
           /\ host.frame.stop \in Bit
           /\ host.bit # 10 => Age \in Nat /\ Age < host.period
<1>1. host \in HostState BY DEF DesInv, DesTypeOK, HostState
<1>2. /\ host.bit \in 0..10 /\ host.left \in Nat \ {0} /\ host.period \in BitTimes
      /\ host.frame.stop \in Bit
    BY <1>1 DEF HostState
<1>3. host.period \in Nat /\ host.period >= 5
    <2>1. 9 * host.period <= 9 * FullBit + HalfBit + 9 /\ 10 * host.period >= 9 * FullBit + HalfBit + 15
          /\ host.period \in Nat
        BY <1>2, BitTimesAre
    <2> QED BY <2>1, BitTimesAre
<1>4. host.bit # 10 => host.left <= host.period BY DEF DesInv, BitSettles
<1> QED BY <1>1, <1>2, <1>3, <1>4 DEF Age

(* Counted is a time of a frame, before the end of its stop bit.           *)
LEMMA CountedIs ==
    ASSUME DesInv
    PROVE  /\ Counted \in Nat
           /\ fsm = "S_START" => Counted = latch_cnt /\ latch_cnt <= HalfBit /\ shift_cnt = 0
           /\ fsm = "S_SHIFT" => Counted = HalfBit + 1 + (shift_cnt * (FullBit + 1)) + latch_cnt
           /\ fsm = "S_STOP" => Counted = HalfBit + 1 + (8 * (FullBit + 1)) + latch_cnt
           /\ fsm # "S_IDLE" => Counted <= HalfBit + 1 + (8 * (FullBit + 1)) + FullBit
<1>1. latch_cnt \in Nat /\ latch_cnt <= FullBit /\ shift_cnt \in 0..7 /\ FullBit \in Nat /\ HalfBit \in Nat
    BY BitTimesAre DEF DesInv, DesTypeOK
<1>2. shift_cnt * (FullBit + 1) \in Nat /\ shift_cnt * (FullBit + 1) <= 8 * (FullBit + 1)
    <2>1. \A k \in 0..7 : k * (FullBit + 1) \in Nat /\ k * (FullBit + 1) <= 8 * (FullBit + 1)
        <3> TAKE k \in 0..7
        <3>1. FullBit \in Nat BY <1>1
        <3> QED BY <3>1
    <2> QED BY <1>1, <2>1
<1> DEFINE s == shift_cnt * (FullBit + 1)
<1>3. s \in Nat /\ s <= 8 * (FullBit + 1) BY <1>2
<1>4. fsm = "S_SHIFT" => Counted = HalfBit + 1 + s + latch_cnt BY DEF Counted
<1> HIDE DEF s
<1>5. fsm = "S_START" => Counted = latch_cnt BY DEF Counted
<1>6. fsm \notin {"S_START", "S_SHIFT"} => Counted = HalfBit + 1 + (8 * (FullBit + 1)) + latch_cnt
    BY DEF Counted
<1>7. fsm = "S_START" => latch_cnt <= HalfBit /\ shift_cnt = 0 BY DEF DesInv, InStep
<1>8. fsm \in {"S_IDLE", "S_START", "S_SHIFT", "S_STOP"} BY DEF DesInv, DesTypeOK
<1>9. Counted \in Nat /\ (fsm # "S_IDLE" => Counted <= HalfBit + 1 + (8 * (FullBit + 1)) + FullBit)
    BY <1>1, <1>3, <1>4, <1>5, <1>6, <1>7, <1>8
<1> QED BY <1>4, <1>5, <1>6, <1>7, <1>9 DEF s

(* A frame does not end while the receiver is in it.                       *)
LEMMA BusyInFrame ==
    ASSUME DesInv, fsm # "S_IDLE"
    PROVE  /\ host.bit \in 0..9 /\ Elapsed - Counted \in {2, 3} /\ Elapsed \in Nat
           /\ ~(host.bit = 9 /\ host.left <= 2)
<1>1. host.bit \in 0..9 /\ Elapsed - Counted \in {2, 3} /\ host.bit # 10
    BY HostTime DEF DesInv, InStep
<1>2. PICK d \in {2, 3} : Elapsed - Counted = d BY <1>1
<1> DEFINE e == host.bit * host.period
<1>3. e \in Nat BY <1>1, HostTime, SMT
<1>4. Elapsed = e + (host.period - host.left) BY DEF Elapsed, Age
<1>5. host.bit = 9 => e = 9 * host.period OBVIOUS
<1> HIDE DEF e
<1>6. Elapsed \in Int BY <1>3, <1>4, HostTime
<1>7. Elapsed = Counted + d BY <1>2, <1>6, CountedIs
<1>8. HalfBit + 1 + (8 * (FullBit + 1)) + FullBit + d + 3 <= 10 * host.period
    BY LooksBeforeEnd, HostTime
<1>9. Elapsed + 3 <= 10 * host.period
    BY <1>7, <1>8, CountedIs, BitTimesAre, HostTime
<1>10. ~(host.bit = 9 /\ host.left <= 2)
    <2> SUFFICES ASSUME host.bit = 9, host.left <= 2 PROVE FALSE OBVIOUS
    <2>1. Elapsed = 9 * host.period + (host.period - host.left) BY <1>4, <1>5
    <2> QED BY <1>9, <2>1, HostTime
<1>11. Elapsed \in Nat BY <1>7, CountedIs
<1> QED BY <1>1, <1>10, <1>11

(* What the receiver finds on the line when it looks at it.                *)
LEMMA Looks ==
    ASSUME DesInv, latch_cnt = FullBit
    PROVE  /\ fsm = "S_SHIFT" => ff[2] = host.frame.byte[shift_cnt + 1]
           /\ fsm = "S_STOP" => host.bit = 9 /\ Age >= 2 /\ ff[2] = host.frame.stop
<1>0. /\ shift_cnt \in 0..7 /\ FullBit \in Nat /\ HalfBit \in Nat
      /\ rx = LineOf(host) /\ host \in HostState
    BY BitTimesAre, HostTime DEF DesInv, DesTypeOK, rx, LineOf
<1>1. CASE fsm = "S_SHIFT"
    <2>1. PICK d \in {2, 3} : Elapsed - Counted = d
        BY <1>1, BusyInFrame
    <2>2. PICK k \in 0..7 : k = shift_cnt BY <1>0
    <2> DEFINE t == HalfBit + 1 + (k * (FullBit + 1)) + FullBit
    <2>3. Counted = t BY <1>1, <2>2, CountedIs
    <2>4. Elapsed = t + d
        <3> HIDE DEF t
        <3>1. Elapsed \in Nat /\ Counted \in Nat BY <1>1, BusyInFrame, CountedIs
        <3> QED BY <2>1, <2>3, <3>1
    <2>5. ((k + 1) * host.period) + 2 <= t + d /\ t + d < (k + 2) * host.period
        BY LooksInTime, HostTime
    <2>6. host.bit \in Nat /\ host.bit # 10 /\ host.period \in Nat /\ Age \in Nat /\ Age < host.period
          /\ Elapsed = (host.bit * host.period) + Age
        BY <1>1, BusyInFrame, HostTime DEF Elapsed
    <2> HIDE DEF t
    <2>7. host.bit = k + 1 /\ Age >= 2
        <3>1. PICK p \in Nat : p = host.period BY <2>6
        <3>2. PICK m \in Nat : m = k + 1 BY <2>2
        <3>3. PICK b \in Nat, a \in Nat : b = host.bit /\ a = Age BY <2>6
        <3>4. (m * p) + 2 <= (b * p) + a /\ (b * p) + a < (m + 1) * p
            <4>1. k + 2 = m + 1 BY <3>2
            <4> QED BY <2>4, <2>5, <2>6, <3>1, <3>2, <3>3, <4>1
        <3>5. a < p BY <2>6, <3>1, <3>3
        <3>6. b = m /\ a >= 2 BY <3>4, <3>5, BitOfCycle
        <3> QED BY <3>2, <3>3, <3>6
    <2>8. ff[2] = rx BY <2>6, <2>7 DEF DesInv, BitSettles
    <2>9. LineOf(host) = host.frame.byte[k + 1]
        <3>1. k + 1 \in 1..8 BY <2>2
        <3> QED BY <1>0, <2>7, <3>1, LineIs
    <2> QED BY <1>0, <1>1, <2>2, <2>8, <2>9
<1>2. CASE fsm = "S_STOP"
    <2>1. PICK d \in {2, 3} : Elapsed - Counted = d
        BY <1>2, BusyInFrame
    <2> DEFINE t == HalfBit + 1 + (8 * (FullBit + 1)) + FullBit
    <2>3. Counted = t BY <1>2, CountedIs
    <2>4. Elapsed = t + d
        <3> HIDE DEF t
        <3>1. Elapsed \in Nat /\ Counted \in Nat BY <1>2, BusyInFrame, CountedIs
        <3> QED BY <2>1, <2>3, <3>1
    <2>5. (9 * host.period) + 2 <= t + d /\ t + d < 10 * host.period
        <3>1. t \in Nat BY <1>0
        <3>2. (9 * host.period) + 2 <= t + d /\ t + d + 3 <= 10 * host.period
            BY LooksBeforeEnd, HostTime
        <3> HIDE DEF t
        <3> QED BY <3>1, <3>2, HostTime
    <2>6. host.bit \in Nat /\ host.bit # 10 /\ host.period \in Nat /\ Age \in Nat /\ Age < host.period
          /\ Elapsed = (host.bit * host.period) + Age
        BY <1>2, BusyInFrame, HostTime DEF Elapsed
    <2> HIDE DEF t
    <2>7. host.bit = 9 /\ Age >= 2
        <3>1. PICK p \in Nat : p = host.period BY <2>6
        <3>2. PICK m \in Nat : m = 9 OBVIOUS
        <3>3. PICK b \in Nat, a \in Nat : b = host.bit /\ a = Age BY <2>6
        <3>4. (m * p) + 2 <= (b * p) + a /\ (b * p) + a < (m + 1) * p
            <4>1. m + 1 = 10 BY <3>2
            <4> QED BY <2>4, <2>5, <2>6, <3>1, <3>2, <3>3, <4>1
        <3>5. a < p BY <2>6, <3>1, <3>3
        <3>6. b = m /\ a >= 2 BY <3>4, <3>5, BitOfCycle
        <3> QED BY <3>2, <3>3, <3>6
    <2>8. ff[2] = rx BY <2>6, <2>7 DEF DesInv, BitSettles
    <2> QED BY <1>0, <1>2, <2>7, <2>8, LineIs
<1> QED BY <1>1, <1>2

(* The receiver's steps, by what they do to the state of the machine.      *)
Begun == fsm = "S_IDLE" /\ edge_ff = 1 /\ ff[2] = 0 /\ fsm' = "S_START" /\ latch_cnt' = 0 /\ shift_cnt' = 0
         /\ rx_fifo_data' = rx_fifo_data
Waits == fsm = "S_IDLE" /\ ~(edge_ff = 1 /\ ff[2] = 0) /\ fsm' = "S_IDLE" /\ latch_cnt' = 0 /\ shift_cnt' = 0
         /\ rx_fifo_data' = rx_fifo_data
Halved == fsm = "S_START" /\ latch_cnt = HalfBit /\ fsm' = "S_SHIFT" /\ latch_cnt' = 0
          /\ shift_cnt' = shift_cnt /\ rx_fifo_data' = rx_fifo_data
Shifts == fsm = "S_SHIFT" /\ latch_cnt = FullBit /\ Shift /\ latch_cnt' = 0
Taken == Shifts /\ shift_cnt < 7 /\ shift_cnt' = shift_cnt + 1 /\ fsm' = "S_SHIFT"
TakenLast == Shifts /\ shift_cnt = 7 /\ shift_cnt' = 0 /\ fsm' = "S_STOP"
Stops == fsm = "S_STOP" /\ latch_cnt = FullBit /\ fsm' = "S_IDLE" /\ latch_cnt' = 0
         /\ shift_cnt' = shift_cnt /\ rx_fifo_data' = rx_fifo_data
Counts == /\ fsm # "S_IDLE" /\ latch_cnt < FullBit /\ (fsm = "S_START" => latch_cnt < HalfBit)
          /\ latch_cnt' = latch_cnt + 1 /\ fsm' = fsm /\ shift_cnt' = shift_cnt /\ rx_fifo_data' = rx_fifo_data

LEMMA ReceiverMoves ==
    ASSUME DesInv, Fsm
    PROVE  Begun \/ Waits \/ Halved \/ Taken \/ TakenLast \/ Stops \/ Counts
<1>0. /\ fsm \in {"S_IDLE", "S_START", "S_SHIFT", "S_STOP"} /\ latch_cnt \in 0..FullBit /\ shift_cnt \in 0..7
      /\ (fsm = "S_START" => latch_cnt <= HalfBit)
    BY DEF DesInv, DesTypeOK, InStep
<1>1. CASE fsm = "S_IDLE"
    <2>1. /\ latch_cnt' = 0 /\ shift_cnt' = 0 /\ rx_fifo_data' = rx_fifo_data
          /\ fsm' = IF rx_s_nedge THEN "S_START" ELSE "S_IDLE"
        BY <1>1 DEF Fsm
    <2> QED BY <1>1, <2>1 DEF rx_s_nedge, rx_s, Begun, Waits
<1>2. CASE fsm = "S_START" /\ latch_cnt = START_LATCH_CNT_MAX
    BY <1>2 DEF Fsm, Halved, HalfBit
<1>3. CASE fsm = "S_SHIFT" /\ latch_cnt = SHIFT_LATCH_CNT_MAX
    <2>1. /\ Shift /\ latch_cnt' = 0 /\ shift_cnt' = (shift_cnt + 1) % 8
          /\ fsm' = IF shift_cnt = 7 THEN "S_STOP" ELSE "S_SHIFT"
        BY <1>3 DEF Fsm
    <2>2. (shift_cnt + 1) % 8 = IF shift_cnt = 7 THEN 0 ELSE shift_cnt + 1 BY <1>0
    <2> QED BY <1>0, <1>3, <2>1, <2>2 DEF Shifts, Taken, TakenLast, FullBit
<1>4. CASE fsm = "S_STOP" /\ latch_cnt = STOP_LATCH_CNT_MAX
    <2>1. latch_cnt = FullBit BY <1>4, BitTimesAre
    <2> QED BY <1>4, <2>1 DEF Fsm, Stops
<1>5. CASE /\ fsm # "S_IDLE" /\ ~(fsm = "S_START" /\ latch_cnt = START_LATCH_CNT_MAX)
           /\ ~(fsm = "S_SHIFT" /\ latch_cnt = SHIFT_LATCH_CNT_MAX)
           /\ ~(fsm = "S_STOP" /\ latch_cnt = STOP_LATCH_CNT_MAX)
    <2>1. latch_cnt' = (latch_cnt + 1) % LatchRange /\ UNCHANGED <<fsm, shift_cnt, rx_fifo_data>>
        BY <1>5 DEF Fsm
    <2>2. latch_cnt < FullBit /\ (fsm = "S_START" => latch_cnt < HalfBit)
        BY <1>0, <1>5, BitTimesAre DEF HalfBit, FullBit
    <2>3. (latch_cnt + 1) % LatchRange = latch_cnt + 1
        <3>1. \A x, y \in Nat : x < y => x % y = x BY SMT
        <3>2. latch_cnt + 1 \in Nat /\ latch_cnt + 1 < LatchRange /\ LatchRange \in Nat
            BY <1>0, <2>2, BitTimesAre
        <3> QED BY <3>1, <3>2
    <2> QED BY <1>5, <2>1, <2>2, <2>3 DEF Counts
<1> QED BY <1>1, <1>2, <1>3, <1>4, <1>5

LEMMA FlipFlops ==
    ASSUME DesInv, Host, Synchronise, NegEdge
    PROVE  /\ ff' \in Bit \X Bit /\ edge_ff' \in Bit
           /\ ff'[2] = ff[1] /\ edge_ff' = ff[2]
           /\ ff'[1] = LineOf(host) \/ ff'[1] = LineOf(host')
           /\ rx = LineOf(host) /\ rx' = LineOf(host')
           /\ LineOf(host) \in Bit /\ LineOf(host') \in Bit
<1>1. rx = LineOf(host) /\ rx' = LineOf(host') BY DEF rx, LineOf
<1>2. LineOf(host) \in Bit /\ LineOf(host') \in Bit BY HostTime, HostMoves, LineIs
<1>3. PICK a \in {rx} \cup (IF rx # rx' THEN {rx'} ELSE {}) : ff' = <<a, ff[1]>> BY DEF Synchronise
<1>4. a = rx \/ a = rx' BY <1>3
<1>5. ff \in Bit \X Bit /\ edge_ff' = ff[2] BY DEF DesInv, DesTypeOK, NegEdge, rx_s
<1>6. ff[1] \in Bit /\ ff[2] \in Bit /\ a \in Bit BY <1>1, <1>2, <1>4, <1>5
<1>7. ff'[1] = a /\ ff'[2] = ff[1] /\ ff' \in Bit \X Bit BY <1>3, <1>6
<1> QED BY <1>1, <1>2, <1>4, <1>5, <1>6, <1>7

LEMMA LineSettles ==
    ASSUME DesInv, Host, Synchronise, NegEdge
    PROVE  BitSettles' /\ PauseSettles'
<1>0. /\ ff'[2] = ff[1] /\ edge_ff' = ff[2]
      /\ ff'[1] = LineOf(host) \/ ff'[1] = LineOf(host')
      /\ rx = LineOf(host) /\ rx' = LineOf(host')
      /\ LineOf(host) \in Bit /\ LineOf(host') \in Bit
      /\ ff[1] \in Bit /\ ff[2] \in Bit /\ edge_ff \in Bit
    BY FlipFlops DEF DesInv, DesTypeOK
<1>1. /\ host \in HostState /\ host' \in HostState /\ host'.period = host.period
      /\ host.bit \in 0..10 /\ host.left \in Nat /\ host.left >= 1 /\ host.period \in Nat /\ host.period >= 5
    BY HostTime, HostMoves
<1>2. BitSettles /\ PauseSettles BY DEF DesInv
<1>3. CASE Stays
    <2>1. /\ host'.left = host.left - 1 /\ host'.bit = host.bit /\ Age' = Age + 1
          /\ LineOf(host') = LineOf(host) /\ Age \in Int /\ host.left >= 2
        BY <1>1, <1>3 DEF Stays, SameFrame, Age, LineOf
    <2>2. ff'[1] = rx' /\ rx' = rx BY <1>0, <2>1
    <2>3. BitSettles'
        <3> SUFFICES ASSUME host.bit # 10 PROVE BitSettles' BY <2>1 DEF BitSettles
        <3>1. host'.left <= host'.period /\ Age \in Nat BY <1>1, <1>2, <2>1 DEF BitSettles, Age
        <3>2. Age' >= 2 => ff'[2] = rx' BY <1>0, <1>2, <2>1, <2>2, <3>1 DEF BitSettles
        <3>3. Age' >= 3 => edge_ff' = rx' BY <1>0, <1>2, <2>1, <2>2, <3>1 DEF BitSettles
        <3>4. host'.bit = 0 => (Age' # 0 /\ (Age' = 1 => edge_ff' = 1))
            BY <1>0, <1>2, <2>1, <3>1 DEF BitSettles
        <3> QED BY <2>2, <3>1, <3>2, <3>3, <3>4 DEF BitSettles
    <2>4. PauseSettles'
        <3> SUFFICES ASSUME host.bit = 10 PROVE PauseSettles' BY <2>1 DEF PauseSettles
        <3>1. ff'[1] = 1 BY <1>0, <1>1, <2>1, LineIs
        <3> QED BY <1>0, <1>2, <3>1 DEF PauseSettles, Bit
    <2> QED BY <2>3, <2>4
<1>4. CASE Advances
    <2>1. host'.left = host'.period /\ host'.bit \in 1..9 /\ Age' = 0
        BY <1>1, <1>4 DEF Advances, Age
    <2> QED BY <1>1, <2>1 DEF BitSettles, PauseSettles
<1>5. CASE Pauses
    <2>1. host.bit = 9 /\ host'.bit = 10 /\ host'.left >= 2 /\ Age >= 3 /\ Age \in Nat
        BY <1>1, <1>5 DEF Pauses, Age
    <2>2. ff[1] = rx /\ ff[2] = rx /\ edge_ff = rx BY <1>2, <2>1 DEF BitSettles
    <2>3. LineOf(host') = 1 BY <1>1, <2>1, LineIs
    <2>4. BitSettles' BY <2>1 DEF BitSettles
    <2>5. PauseSettles' BY <1>0, <2>1, <2>2, <2>3 DEF PauseSettles, Bit
    <2> QED BY <2>4, <2>5
<1>6. CASE Begins
    <2>1. host'.bit = 0 /\ host'.left = host'.period /\ Age' = 0
        BY <1>1, <1>6 DEF Begins, Age
    <2>2. ff[1] = 1
        <3>1. CASE host.bit = 9
            <4>1. host.left = 1 /\ host.frame.stop = 1 BY <1>6, <3>1 DEF Begins
            <4>2. Age >= 1 /\ Age \in Nat BY <1>1, <4>1 DEF Age
            <4>3. LineOf(host) = 1 BY <1>1, <3>1, <4>1, LineIs
            <4> QED BY <1>0, <1>2, <3>1, <4>2, <4>3 DEF BitSettles
        <3>2. CASE host.bit = 10
            <4>1. host.left = 1 BY <1>6 DEF Begins
            <4> QED BY <1>0, <1>2, <3>2, <4>1 DEF PauseSettles, Bit
        <3> QED BY <1>6, <3>1, <3>2 DEF Begins
    <2>3. host'.left <= host'.period /\ ff'[2] = 1 BY <1>0, <1>1, <2>1, <2>2
    <2>4. ~(Age' >= 1) /\ ~(Age' >= 2) /\ ~(Age' >= 3) /\ Age' # 1 BY <2>1
    <2>5. BitSettles' BY <2>1, <2>3, <2>4 DEF BitSettles
    <2>6. PauseSettles' BY <2>1 DEF PauseSettles
    <2> QED BY <2>5, <2>6
<1> QED BY <1>1, <1>3, <1>4, <1>5, <1>6, HostMoves

(* Idle, the receiver starts at the edge of a start bit and only there.    *)
LEMMA IdleWaits ==
    ASSUME DesInv, fsm = "S_IDLE", Host
    PROVE  /\ edge_ff = 1 /\ ff[2] = 0 <=> host.bit = 0 /\ (Age = 2 \/ (Age = 1 /\ ff[2] = 0))
           /\ host.bit = 0 => Stays /\ Age \in 0..2 /\ (Age = 2 => ff[2] = 0)
           /\ host.bit \in {0, 9, 10} /\ ~Advances
<1>0. /\ host \in HostState /\ host.bit \in 0..10 /\ host.left \in Nat /\ host.left >= 1
      /\ host.period \in Nat /\ host.period >= 5
      /\ (host.bit # 10 => Age \in Nat /\ Age < host.period)
      /\ rx = LineOf(host) /\ ff[1] \in Bit /\ ff[2] \in Bit /\ edge_ff \in Bit
    BY HostTime DEF DesInv, DesTypeOK, rx, LineOf
<1>1. BitSettles /\ PauseSettles /\ InStep BY DEF DesInv
<1>2. \/ host.bit = 10
      \/ host.bit = 9 /\ Age >= 3
      \/ host.bit = 0 /\ Age <= 2 /\ (Age = 2 => edge_ff = 1)
    BY <1>1 DEF InStep
<1>3. CASE host.bit = 10
    <2>1. ~(edge_ff = 1 /\ ff[2] = 0) BY <1>0, <1>1, <1>3 DEF PauseSettles, Bit
    <2> QED BY <1>3, <2>1 DEF Advances
<1>4. CASE host.bit = 9 /\ Age >= 3
    <2>1. ff[2] = rx /\ edge_ff = rx BY <1>0, <1>1, <1>4 DEF BitSettles
    <2> QED BY <1>4, <2>1 DEF Advances
<1>5. CASE host.bit = 0 /\ Age <= 2 /\ (Age = 2 => edge_ff = 1)
    <2>1. Age \in 0..2 /\ host.left > 1 BY <1>0, <1>5 DEF Age
    <2>2. Stays BY <1>0, <1>5, <2>1, HostMoves DEF Advances, Pauses, Begins
    <2>3. Age = 2 => ff[2] = 0 BY <1>0, <1>1, <1>5, LineIs DEF BitSettles
    <2>4. Age = 1 => edge_ff = 1 BY <1>1, <1>5 DEF BitSettles
    <2>5. Age = 0 => ff[2] = 1 BY <1>1, <1>5 DEF BitSettles
    <2> QED BY <1>5, <2>1, <2>2, <2>3, <2>4, <2>5 DEF Advances, Stays
<1> QED BY <1>2, <1>3, <1>4, <1>5

(* In a frame, the host's time goes on by one. *)
LEMMA TimePasses ==
    ASSUME DesInv, fsm # "S_IDLE", Host
    PROVE  /\ Stays \/ Advances
           /\ host'.bit \in 0..9 /\ Elapsed' = Elapsed + 1 /\ Elapsed \in Nat
           /\ host'.frame = host.frame /\ host'.sent = host.sent
<1>0. /\ host.bit \in 0..9 /\ Elapsed \in Nat /\ ~(host.bit = 9 /\ host.left <= 2)
      /\ host.left \in Nat /\ host.period \in Nat /\ host'.period = host.period /\ host \in HostState
    BY BusyInFrame, HostTime, HostMoves
<1>1. Stays \/ Advances BY <1>0, HostMoves DEF Pauses, Begins
<1>2. CASE Stays
    <2>1. host'.bit = host.bit /\ host'.left = host.left - 1 BY <1>2 DEF Stays
    <2> DEFINE e == host.bit * host.period
    <2>2. e \in Nat BY <1>0, SMT
    <2>3. Elapsed = e + (host.period - host.left) /\ Elapsed' = e + (host.period - (host.left - 1))
        BY <1>0, <2>1 DEF Elapsed, Age
    <2> HIDE DEF e
    <2> QED BY <1>0, <1>1, <1>2, <2>1, <2>2, <2>3 DEF Stays, SameFrame
<1>3. CASE Advances
    <2>1. host'.bit = host.bit + 1 /\ host'.left = host.period /\ host.left = 1 /\ host.bit < 9
        BY <1>3 DEF Advances
    <2> DEFINE e == host.bit * host.period
    <2>2. e \in Nat /\ (host.bit + 1) * host.period = e + host.period BY <1>0, SMT
    <2>3. Elapsed = e + (host.period - 1) /\ Elapsed' = e + host.period + (host.period - host.period)
        BY <1>0, <2>1, <2>2 DEF Elapsed, Age
    <2> HIDE DEF e
    <2> QED BY <1>0, <1>1, <1>3, <2>1, <2>2, <2>3 DEF Advances, SameFrame
<1> QED BY <1>1, <1>2, <1>3

LEMMA CountedNext ==
    ASSUME DesInv, DesNext, fsm # "S_IDLE", fsm' # "S_IDLE"
    PROVE  Counted' = Counted + 1
<1>0. /\ latch_cnt \in Nat /\ FullBit \in Nat /\ HalfBit \in Nat /\ shift_cnt \in 0..7
    BY BitTimesAre DEF DesInv, DesTypeOK
<1>1. Begun \/ Waits \/ Halved \/ Taken \/ TakenLast \/ Stops \/ Counts
    BY ReceiverMoves DEF DesNext
<1>2. CASE Halved
    <2>1. Counted = latch_cnt /\ latch_cnt = HalfBit /\ shift_cnt' = 0 /\ latch_cnt' = 0 /\ fsm' = "S_SHIFT"
        BY <1>2, CountedIs DEF Halved
    <2>2. Counted' = HalfBit + 1 + (0 * (FullBit + 1)) + 0 BY <2>1 DEF Counted
    <2> QED BY <1>0, <2>1, <2>2
<1>3. CASE Taken
    <2>1. PICK k \in 0..6 : k = shift_cnt BY <1>0, <1>3 DEF Taken
    <2>2. /\ fsm = "S_SHIFT" /\ latch_cnt = FullBit /\ shift_cnt' = k + 1 /\ latch_cnt' = 0 /\ fsm' = "S_SHIFT"
        BY <1>3, <2>1 DEF Taken, Shifts
    <2>3. Counted = HalfBit + 1 + (k * (FullBit + 1)) + FullBit BY <2>1, <2>2, CountedIs
    <2>4. Counted' = HalfBit + 1 + ((k + 1) * (FullBit + 1)) + 0 BY <2>2 DEF Counted
    <2>5. (k + 1) * (FullBit + 1) = (k * (FullBit + 1)) + FullBit + 1 /\ k * (FullBit + 1) \in Nat
        BY <1>0, SMT
    <2> DEFINE y == k * (FullBit + 1)
    <2>6. /\ y \in Nat /\ Counted = HalfBit + 1 + y + FullBit
          /\ Counted' = HalfBit + 1 + (y + FullBit + 1) + 0
        BY <2>3, <2>4, <2>5
    <2> HIDE DEF y
    <2> QED BY <1>0, <2>6
<1>4. CASE TakenLast
    <2>1. /\ fsm = "S_SHIFT" /\ latch_cnt = FullBit /\ shift_cnt = 7 /\ latch_cnt' = 0 /\ fsm' = "S_STOP"
        BY <1>4 DEF TakenLast, Shifts
    <2>2. Counted = HalfBit + 1 + (7 * (FullBit + 1)) + FullBit BY <2>1, CountedIs
    <2>3. Counted' = HalfBit + 1 + (8 * (FullBit + 1)) + 0 BY <2>1 DEF Counted
    <2> QED BY <1>0, <2>2, <2>3
<1>5. CASE Counts
    <2>1. latch_cnt' = latch_cnt + 1 /\ fsm' = fsm /\ shift_cnt' = shift_cnt BY <1>5 DEF Counts
    <2>2. CASE fsm = "S_START"
        <3>1. Counted' = latch_cnt + 1 BY <2>1, <2>2 DEF Counted
        <3> QED BY <2>2, <3>1, CountedIs
    <2>3. CASE fsm = "S_SHIFT"
        <3>1. PICK k \in 0..7 : k = shift_cnt BY <1>0
        <3> DEFINE y == k * (FullBit + 1)
        <3>2. y \in Nat BY <1>0, SMT
        <3>3. Counted' = HalfBit + 1 + y + (latch_cnt + 1) BY <2>1, <2>3, <3>1 DEF Counted
        <3>4. Counted = HalfBit + 1 + y + latch_cnt BY <2>3, <3>1, CountedIs
        <3> HIDE DEF y
        <3> QED BY <1>0, <3>2, <3>3, <3>4
    <2>4. CASE fsm = "S_STOP"
        <3>1. Counted' = HalfBit + 1 + (8 * (FullBit + 1)) + (latch_cnt + 1) BY <2>1, <2>4 DEF Counted
        <3>2. Counted = HalfBit + 1 + (8 * (FullBit + 1)) + latch_cnt BY <2>4, CountedIs
        <3> QED BY <1>0, <3>1, <3>2
    <2> QED BY <1>5, <2>2, <2>3, <2>4 DEF DesInv, DesTypeOK
<1> QED BY <1>1, <1>2, <1>3, <1>4, <1>5 DEF Begun, Waits, Stops

(* The receiver has looked at the stop bit with time left. *)
LEMMA StopsInTime ==
    ASSUME DesInv, DesNext, Stops
    PROVE  Stays /\ host.bit = 9 /\ host'.bit = 9 /\ Age' >= 3 /\ host'.left >= 2 /\ ff[2] = host.frame.stop
<1>0. fsm = "S_STOP" /\ latch_cnt = FullBit BY DEF Stops
<1>1. host.bit = 9 /\ Age >= 2 /\ ff[2] = host.frame.stop BY <1>0, Looks
<1>2. ~(host.bit = 9 /\ host.left <= 2) BY <1>0, BusyInFrame
<1>3. /\ host.left \in Nat /\ host.left >= 3 /\ host.period \in Nat /\ host'.period = host.period
    BY <1>1, <1>2, HostTime, HostMoves DEF DesNext
<1>4. Stays BY <1>3, HostMoves, HostTime DEF Advances, Pauses, Begins, DesNext
<1>5. host'.left = host.left - 1 /\ host'.bit = 9 BY <1>1, <1>4 DEF Stays
<1>6. Age' >= 3 /\ host'.left >= 2 BY <1>1, <1>3, <1>5 DEF Age
<1> QED BY <1>1, <1>4, <1>5, <1>6

LEMMA InStepNext == ASSUME DesInv, DesNext PROVE InStep'
<1>0. /\ Host /\ Synchronise /\ NegEdge /\ Fsm
      /\ Begun \/ Waits \/ Halved \/ Taken \/ TakenLast \/ Stops \/ Counts
    BY ReceiverMoves DEF DesNext
<1>1. CASE Begun
    <2>1. /\ host.bit = 0 /\ Stays /\ Age \in {1, 2}
          /\ fsm' = "S_START" /\ latch_cnt' = 0 /\ shift_cnt' = 0
        BY <1>0, <1>1, IdleWaits DEF Begun
    <2>2. host'.bit = 0 /\ Age' = Age + 1
        BY <1>0, <2>1, HostTime, HostMoves DEF Stays, Age
    <2>3. Elapsed' = (0 * host'.period) + Age' BY <2>2 DEF Elapsed
    <2>4. Elapsed' \in {2, 3} BY <1>0, <2>1, <2>2, <2>3, HostTime, HostMoves
    <2>5. Counted' = 0 BY <2>1 DEF Counted
    <2>6. Elapsed' - Counted' \in {2, 3} BY <2>4, <2>5
    <2> QED BY <2>1, <2>2, <2>6, BitTimesAre DEF InStep
<1>2. CASE Waits
    <2>1. fsm = "S_IDLE" /\ fsm' = "S_IDLE" /\ ~(edge_ff = 1 /\ ff[2] = 0) BY <1>2 DEF Waits
    <2>2. host.bit \in {0, 9, 10} /\ ~Advances BY <1>0, <2>1, IdleWaits
    <2>3. CASE host.bit = 0
        <3>1. Stays /\ Age \in {0, 1} /\ (Age = 1 => ff[2] # 0)
            BY <1>0, <2>1, <2>3, IdleWaits
        <3>2. host'.bit = 0 /\ Age' = Age + 1
            BY <1>0, <2>3, <3>1, HostTime, HostMoves DEF Stays, Age
        <3>3. Age' <= 2 /\ (Age' = 2 => edge_ff' = 1)
            <4>1. Age' = 2 => ff[2] = 1 BY <3>1, <3>2 DEF DesInv, DesTypeOK, Bit
            <4> QED BY <1>0, <3>1, <3>2, <4>1 DEF NegEdge, rx_s
        <3> QED BY <2>1, <3>2, <3>3 DEF InStep
    <2>4. CASE host.bit = 9
        <3>1. Age >= 3 BY <2>1, <2>4 DEF DesInv, InStep
        <3>2. CASE Stays
            <4>1. host'.bit = 9 /\ Age' = Age + 1 /\ Age \in Int
                BY <1>0, <2>4, <3>2, HostTime, HostMoves DEF Stays, Age
            <4> QED BY <2>1, <3>1, <4>1 DEF InStep
        <3>3. CASE Pauses BY <2>1, <3>3 DEF Pauses, InStep
        <3>4. CASE Begins
            <4>1. host'.bit = 0 /\ Age' = 0
                BY <1>0, <3>4, HostTime, HostMoves DEF Begins, Age
            <4> QED BY <2>1, <4>1 DEF InStep
        <3> QED BY <1>0, <2>2, <3>2, <3>3, <3>4, HostMoves, HostTime
    <2>5. CASE host.bit = 10
        <3>1. CASE Stays BY <2>1, <2>5, <3>1 DEF Stays, InStep
        <3>2. CASE Begins
            <4>1. host'.bit = 0 /\ Age' = 0
                BY <1>0, <3>2, HostTime, HostMoves DEF Begins, Age
            <4> QED BY <2>1, <4>1 DEF InStep
        <3> QED BY <1>0, <2>2, <2>5, <3>1, <3>2, HostMoves, HostTime DEF Pauses
    <2> QED BY <2>2, <2>3, <2>4, <2>5
<1>3. CASE Stops
    BY <1>3, StopsInTime DEF InStep, Stops
<1>4. CASE Halved \/ Taken \/ TakenLast \/ Counts
    <2>1. fsm # "S_IDLE" /\ fsm' # "S_IDLE"
        BY <1>4 DEF Halved, Taken, TakenLast, Counts, Shifts
    <2>2. /\ host'.bit \in 0..9 /\ Elapsed' = Elapsed + 1 /\ Elapsed \in Nat
          /\ Elapsed - Counted \in {2, 3} /\ Counted \in Nat /\ Counted' = Counted + 1
        BY <1>0, <2>1, TimePasses, BusyInFrame, CountedIs, CountedNext
    <2>3. Elapsed' - Counted' \in {2, 3} BY <2>2
    <2>4. fsm' = "S_START" => latch_cnt' <= HalfBit /\ shift_cnt' = 0
        <3> SUFFICES ASSUME fsm' = "S_START" PROVE latch_cnt' <= HalfBit /\ shift_cnt' = 0 OBVIOUS
        <3>1. Counts /\ fsm = "S_START" BY <1>4 DEF Halved, Taken, TakenLast, Counts
        <3>2. latch_cnt' = latch_cnt + 1 /\ latch_cnt < HalfBit /\ shift_cnt' = shift_cnt BY <3>1 DEF Counts
        <3>3. latch_cnt \in Nat /\ shift_cnt = 0 BY <3>1, CountedIs DEF DesInv, DesTypeOK
        <3> QED BY <3>2, <3>3, BitTimesAre
    <2> QED BY <2>1, <2>2, <2>3, <2>4 DEF InStep
<1> QED BY <1>0, <1>1, <1>2, <1>3, <1>4

LEMMA DesTypeNext == ASSUME DesInv, DesNext PROVE DesTypeOK'
<1>0. /\ Host /\ Synchronise /\ NegEdge /\ Fsm /\ WriteEnable /\ Write
      /\ Begun \/ Waits \/ Halved \/ Taken \/ TakenLast \/ Stops \/ Counts
      /\ latch_cnt \in 0..FullBit /\ shift_cnt \in 0..7 /\ rx_fifo_data \in Byte /\ written \in Seq(Byte)
    BY ReceiverMoves DEF DesNext, DesInv, DesTypeOK
<1>1. host' \in HostState /\ ff' \in Bit \X Bit /\ edge_ff' \in Bit
    BY <1>0, HostTime, HostMoves, FlipFlops
<1>2. rx_fifo_wr_en' \in BOOLEAN BY <1>0 DEF WriteEnable
<1>3. written' \in Seq(Byte) BY <1>0 DEF Write
<1>4. /\ fsm' \in {"S_IDLE", "S_START", "S_SHIFT", "S_STOP"}
      /\ latch_cnt' \in 0..FullBit /\ shift_cnt' \in 0..7
    <2>1. FullBit \in Nat BY BitTimesAre
    <2>2. CASE Begun \/ Waits BY <2>1, <2>2 DEF Begun, Waits
    <2>3. CASE Halved \/ Stops BY <1>0, <2>1, <2>3 DEF Halved, Stops
    <2>4. CASE Taken \/ TakenLast BY <1>0, <2>1, <2>4 DEF Taken, TakenLast, Shifts
    <2>5. CASE Counts
        <3>1. latch_cnt' = latch_cnt + 1 /\ latch_cnt < FullBit /\ fsm' = fsm /\ shift_cnt' = shift_cnt
            BY <2>5 DEF Counts
        <3> QED BY <1>0, <2>1, <3>1 DEF DesInv, DesTypeOK
    <2> QED BY <1>0, <2>2, <2>3, <2>4, <2>5
<1>5. rx_fifo_data' \in Byte
    <2>1. CASE Shift
        <3>1. rx_fifo_data' = [i \in 1..8 |-> IF i = 8 THEN ff[2] ELSE rx_fifo_data[i + 1]]
            BY <2>1 DEF Shift, rx_s
        <3>2. ff[2] \in Bit BY DEF DesInv, DesTypeOK
        <3>3. \A i \in 1..8 : i # 8 => rx_fifo_data[i + 1] \in Bit
            <4> TAKE i \in 1..8
            <4> HAVE i # 8
            <4>1. i + 1 \in 1..8 OBVIOUS
            <4> QED BY <1>0, <4>1, Zenon DEF Byte
        <3> QED BY <3>1, <3>2, <3>3 DEF Byte
    <2>2. CASE rx_fifo_data' = rx_fifo_data BY <1>0, <2>2
    <2> QED BY <1>0, <2>1, <2>2 DEF Begun, Waits, Halved, Taken, TakenLast, Shifts, Stops, Counts
<1> QED BY <1>1, <1>2, <1>3, <1>4, <1>5 DEF DesTypeOK, HostState

LEMMA SameBits ==
    ASSUME NEW a \in [1..8 -> Bit], NEW b \in [1..8 -> Bit], \A j \in 1..8 : a[j] = b[j]
    PROVE  a = b
OBVIOUS

LEMMA BitsTakenNext == ASSUME DesInv, DesNext PROVE BitsTaken'
<1>0. /\ Host /\ WriteEnable
      /\ Begun \/ Waits \/ Halved \/ Taken \/ TakenLast \/ Stops \/ Counts
      /\ shift_cnt \in 0..7 /\ rx_fifo_data \in Byte /\ BitsTaken
      /\ host.frame.byte \in Byte /\ host.frame.stop \in Bit
    <2>1. host \in HostState BY HostTime
    <2> QED BY <2>1, ReceiverMoves DEF DesNext, DesInv, DesTypeOK, HostState
<1>1. fsm # "S_IDLE" => host'.frame = host.frame BY <1>0, TimePasses
<1>2. rx_fifo_wr_en' => /\ fsm' = "S_IDLE" /\ host'.bit = 9 /\ host'.left >= 2 /\ host'.frame.stop = 1
                        /\ rx_fifo_data' = host'.frame.byte
    <2> SUFFICES ASSUME rx_fifo_wr_en'
                 PROVE  /\ fsm' = "S_IDLE" /\ host'.bit = 9 /\ host'.left >= 2 /\ host'.frame.stop = 1
                        /\ rx_fifo_data' = host'.frame.byte
        OBVIOUS
    <2>1. fsm = "S_STOP" /\ latch_cnt = FullBit /\ ff[2] = 1
        BY <1>0, BitTimesAre DEF WriteEnable, rx_s
    <2>2. Stops BY <1>0, <2>1, BitTimesAre DEF Begun, Waits, Halved, Taken, TakenLast, Shifts, Counts
    <2>3. host'.bit = 9 /\ host'.left >= 2 /\ ff[2] = host.frame.stop BY <2>2, StopsInTime
    <2>4. rx_fifo_data = host.frame.byte BY <1>0, <2>1 DEF BitsTaken
    <2> QED BY <1>1, <2>1, <2>2, <2>3, <2>4 DEF Stops
<1>3. CASE Begun \/ Waits \/ Stops
    BY <1>2, <1>3 DEF Begun, Waits, Stops, BitsTaken
<1>4. CASE Halved
    <2>1. fsm' = "S_SHIFT" /\ shift_cnt' = 0 BY <1>4, CountedIs DEF Halved
    <2> QED BY <1>2, <2>1 DEF BitsTaken
<1>5. CASE Counts
    BY <1>0, <1>1, <1>2, <1>5 DEF Counts, BitsTaken
<1>6. CASE Shifts
    <2>1. PICK k \in 0..7 : k = shift_cnt BY <1>0
    <2>2. ff[2] = host.frame.byte[k + 1] BY <1>6, <2>1, Looks DEF Shifts
    <2>3. \A j \in 1..k : rx_fifo_data[8 - k + j] = host.frame.byte[j]
        BY <1>0, <1>6, <2>1 DEF Shifts, BitsTaken
    <2>4. rx_fifo_data' = [i \in 1..8 |-> IF i = 8 THEN host.frame.byte[k + 1] ELSE rx_fifo_data[i + 1]]
        BY <1>6, <2>2 DEF Shifts, Shift, rx_s
    <2>5. \A j \in 1..k + 1 : rx_fifo_data'[8 - (k + 1) + j] = host.frame.byte[j]
        <3> TAKE j \in 1..k + 1
        <3>1. 8 - (k + 1) + j \in 1..8 BY <2>1
        <3>2. CASE j = k + 1
            <4>1. 8 - (k + 1) + j = 8 BY <2>1, <3>2
            <4> QED BY <2>4, <3>2, <4>1
        <3>3. CASE j # k + 1
            <4>1. j \in 1..k /\ 8 - (k + 1) + j # 8 /\ 8 - (k + 1) + j + 1 = 8 - k + j BY <2>1, <3>3
            <4> QED BY <2>3, <2>4, <3>1, <4>1
        <3> QED BY <3>2, <3>3
    <2>6. CASE Taken
        <3>1. fsm' = "S_SHIFT" /\ shift_cnt' = k + 1 /\ host'.frame = host.frame
            BY <1>1, <2>1, <2>6 DEF Taken, Shifts
        <3> QED BY <1>2, <2>5, <3>1 DEF BitsTaken
    <2>7. CASE TakenLast
        <3>1. fsm' = "S_STOP" /\ k = 7 /\ host'.frame = host.frame
            BY <1>1, <2>1, <2>7 DEF TakenLast, Shifts
        <3>2. \A j \in 1..8 : rx_fifo_data'[j] = host.frame.byte[j]
            <4> TAKE j \in 1..8
            <4>1. 8 - (k + 1) + j = j /\ j \in 1..k + 1 BY <3>1
            <4> QED BY <2>5, <4>1
        <3>3. rx_fifo_data' \in [1..8 -> Bit] /\ host.frame.byte \in [1..8 -> Bit]
            BY <1>0, DesTypeNext DEF DesTypeOK, Byte
        <3>4. rx_fifo_data' = host.frame.byte BY <3>2, <3>3, SameBits
        <3> QED BY <1>2, <3>1, <3>4 DEF BitsTaken
    <2> QED BY <1>0, <1>6, <2>6, <2>7, BitTimesAre DEF Begun, Waits, Halved, Stops, Counts, Shifts
<1> QED BY <1>0, <1>3, <1>4, <1>5, <1>6 DEF Taken, TakenLast

LEMMA AllPassedOnNext == ASSUME DesInv, DesNext PROVE AllPassedOn'
<1>0. /\ Host /\ WriteEnable /\ Write
      /\ Begun \/ Waits \/ Halved \/ Taken \/ TakenLast \/ Stops \/ Counts
      /\ BitsTaken /\ AllPassedOn /\ rx_fifo_wr_en \in BOOLEAN
    BY ReceiverMoves DEF DesNext, DesInv, DesTypeOK
<1>1. rx_fifo_wr_en' = (fsm = "S_STOP" /\ latch_cnt = FullBit /\ ff[2] = 1)
    BY <1>0, BitTimesAre DEF WriteEnable, rx_s
<1>2. CASE rx_fifo_wr_en
    <2>1. /\ fsm = "S_IDLE" /\ host.bit = 9 /\ host.left >= 2 /\ host.frame.stop = 1
          /\ rx_fifo_data = host.frame.byte
        BY <1>0, <1>2 DEF BitsTaken
    <2>2. Stays BY <1>0, <2>1, HostMoves, HostTime DEF Advances, Pauses, Begins
    <2>3. host'.bit = 9 /\ host'.frame = host.frame /\ host'.sent = host.sent
        BY <2>1, <2>2 DEF Stays, SameFrame
    <2>4. ~(edge_ff = 1 /\ ff[2] = 0) BY <1>0, <2>1, IdleWaits
    <2>5. fsm' = "S_IDLE" /\ rx_fifo_wr_en' = FALSE
        BY <1>0, <1>1, <2>1, <2>4 DEF Begun, Waits, Halved, Taken, TakenLast, Shifts, Stops, Counts
    <2>6. written' = Append(written, host.frame.byte) BY <1>0, <1>2, <2>1 DEF Write
    <2>7. host.sent = Append(written, host.frame.byte) BY <1>0, <1>2, <2>1 DEF AllPassedOn, Pending
    <2> QED BY <2>3, <2>5, <2>6, <2>7 DEF AllPassedOn, Pending
<1>3. CASE ~rx_fifo_wr_en
    <2>1. written' = written BY <1>0, <1>3 DEF Write
    <2>2. CASE fsm # "S_IDLE"
        <3>1. host'.frame = host.frame /\ host'.sent = host.sent BY <1>0, <2>2, TimePasses
        <3>2. Pending <=> host.frame.stop = 1 BY <2>2 DEF Pending
        <3>3. CASE Stops
            <4>1. host'.bit = 9 /\ ff[2] = host.frame.stop /\ fsm' = "S_IDLE"
                BY <3>3, StopsInTime DEF Stops
            <4>2. rx_fifo_wr_en' <=> host.frame.stop = 1 BY <1>1, <3>3, <4>1 DEF Stops
            <4>3. Pending' <=> Pending BY <3>1, <3>2, <4>1, <4>2 DEF Pending
            <4> QED BY <1>0, <2>1, <3>1, <4>3 DEF AllPassedOn
        <3>4. CASE ~Stops
            <4>1. fsm' # "S_IDLE"
                BY <1>0, <2>2, <3>4 DEF Begun, Waits, Halved, Taken, TakenLast, Counts
            <4>2. Pending' <=> Pending BY <3>1, <3>2, <4>1 DEF Pending
            <4> QED BY <1>0, <2>1, <3>1, <4>2 DEF AllPassedOn
        <3> QED BY <3>3, <3>4
    <2>3. CASE fsm = "S_IDLE"
        <3>1. ~rx_fifo_wr_en' BY <1>1, <2>3
        <3>2. CASE host.bit = 0
            <4>1. Stays BY <1>0, <2>3, <3>2, IdleWaits
            <4>2. host'.bit = 0 /\ host'.frame = host.frame /\ host'.sent = host.sent
                BY <3>2, <4>1 DEF Stays, SameFrame
            <4>3. Pending' <=> Pending BY <3>2, <4>2 DEF Pending
            <4> QED BY <1>0, <2>1, <4>2, <4>3 DEF AllPassedOn
        <3>3. CASE host.bit # 0
            <4>1. ~Pending /\ host.sent = written BY <1>0, <1>3, <2>3, <3>3 DEF Pending, AllPassedOn
            <4>2. CASE Begins
                BY <2>1, <4>1, <4>2 DEF Begins, AllPassedOn, Pending
            <4>3. CASE Stays \/ Pauses
                <5>1. host'.bit # 0 /\ host'.frame = host.frame /\ host'.sent = host.sent
                    BY <3>3, <4>3 DEF Stays, Pauses, SameFrame
                <5>2. ~(edge_ff = 1 /\ ff[2] = 0) BY <1>0, <2>3, <3>3, IdleWaits
                <5>3. fsm' = "S_IDLE"
                    BY <1>0, <2>3, <5>2 DEF Begun, Waits, Halved, Taken, TakenLast, Shifts, Stops, Counts
                <5>4. ~Pending' BY <3>1, <5>1, <5>3 DEF Pending
                <5> QED BY <2>1, <4>1, <5>1, <5>4 DEF AllPassedOn
            <4> QED BY <1>0, <2>3, <4>2, <4>3, HostTime, HostMoves, IdleWaits
        <3> QED BY <3>2, <3>3
    <2> QED BY <2>2, <2>3
<1> QED BY <1>0, <1>2, <1>3

LEMMA DesInvNext == DesInv /\ [DesNext]_des_vars => DesInv'
<1>1. ASSUME DesInv, DesNext PROVE DesInv'
    <2>1. BitSettles' /\ PauseSettles' BY <1>1, LineSettles DEF DesNext
    <2> QED BY <1>1, <2>1, DesTypeNext, InStepNext, BitsTakenNext, AllPassedOnNext DEF DesInv
<1>2. ASSUME DesInv, UNCHANGED des_vars PROVE DesInv'
    BY <1>2 DEF DesInv, des_vars, receiver, DesTypeOK, BitSettles, PauseSettles, InStep, BitsTaken,
                AllPassedOn, Pending, Age, Elapsed, Counted, rx
<1> QED BY <1>1, <1>2

LEMMA DesInvInit == DesInit => DesInv
<1> SUFFICES ASSUME DesInit PROVE DesInv OBVIOUS
<1>1. PICK period \in BitTimes :
        host = [frame |-> Idle, bit |-> 10, left |-> period, period |-> period, frames |-> 0, sent |-> <<>>]
    BY DEF DesInit
<1>2. period \in Nat /\ period >= 5
    <2>1. period \in Nat /\ 10 * period >= 9 * FullBit + HalfBit + 15
          /\ 9 * period <= 9 * FullBit + HalfBit + 9
        BY BitTimesAre
    <2> QED BY <2>1, BitTimesAre
<1>3. Idle \in [byte : Byte, stop : Bit] BY DEF Idle, Byte, Bit
<1>4. ff = <<0, 0>> /\ edge_ff = 0 /\ fsm = "S_IDLE" /\ latch_cnt = 0 /\ shift_cnt = 0
      /\ rx_fifo_data = Zeros /\ rx_fifo_wr_en = FALSE /\ written = <<>>
    BY DEF DesInit
<1>5. host \in HostState BY <1>1, <1>2, <1>3 DEF HostState
<1>6. Zeros \in Byte BY DEF Zeros, Byte, Bit
<1>7. DesTypeOK
    <2>1. ff \in Bit \X Bit /\ edge_ff \in Bit BY <1>4 DEF Bit
    <2>2. latch_cnt \in 0..FullBit /\ shift_cnt \in 0..7 BY <1>4, BitTimesAre
    <2>3. written \in Seq(Byte) BY <1>4
    <2> QED BY <1>4, <1>5, <1>6, <2>1, <2>2, <2>3 DEF DesTypeOK, HostState
<1>8. host.bit = 10 /\ host.left >= 5 /\ host.left \in Nat /\ host.sent = <<>> BY <1>1, <1>2
<1>9. BitSettles /\ PauseSettles BY <1>4, <1>8 DEF BitSettles, PauseSettles
<1>10. InStep /\ BitsTaken BY <1>4, <1>8 DEF InStep, BitsTaken
<1>11. AllPassedOn BY <1>4, <1>8 DEF AllPassedOn, Pending
<1> QED BY <1>7, <1>9, <1>10, <1>11 DEF DesInv

LEMMA SettledAreReceived == DesInv => ReceivedAsSent
<1> SUFFICES ASSUME DesInv PROVE ReceivedAsSent OBVIOUS
<1>1. /\ AllPassedOn /\ written \in Seq(Byte) /\ host.frame.byte \in Byte /\ host.frame.stop \in Bit
      /\ host \in HostState
    BY HostTime DEF DesInv, DesTypeOK, HostState
<1>2. Len(written) \in Nat /\ host.frame.stop \in {0, 1} BY <1>1 DEF Bit
<1>3. CASE Pending
    <2>1. host.sent = Append(written, host.frame.byte) /\ host.frame.stop = 1
        BY <1>1, <1>3 DEF AllPassedOn, Pending
    <2>2. Len(host.sent) = Len(written) + 1 /\ SubSeq(host.sent, 1, Len(written)) = written
          /\ SubSeq(written, 1, Len(written)) = written
        BY <1>1, <2>1, SubSeqProperties
    <2>3. PassedOnFaithfully BY <1>2, <2>2 DEF PassedOnFaithfully, IsPrefix
    <2>4. host.bit # 10
        <3>1. fsm # "S_IDLE" => host.bit # 10 BY DEF DesInv, InStep
        <3>2. rx_fifo_wr_en => host.bit = 9 BY DEF DesInv, BitsTaken
        <3> QED BY <1>3, <3>1, <3>2 DEF Pending
    <2>5. NothingMissed BY <1>2, <2>1, <2>2, <2>4 DEF NothingMissed
    <2> QED BY <2>3, <2>5 DEF ReceivedAsSent
<1>4. CASE ~Pending
    <2>1. host.sent = written BY <1>1, <1>4 DEF AllPassedOn
    <2>2. PassedOnFaithfully BY <1>2, <2>1 DEF PassedOnFaithfully, IsPrefix
    <2>3. NothingMissed BY <1>2, <2>1 DEF NothingMissed
    <2> QED BY <2>2, <2>3 DEF ReceivedAsSent
<1> QED BY <1>3, <1>4

(* For every clock, baud rate, and host that keeps to HostAssumption on a  *)
(* line without glitches: what is passed on is what was sent, in order,    *)
(* none missed, none twice and none for a frame with a low stop bit        *)
(* (rs232_des.v:39-127, sync.v:16-31, negedge_detector.v:13-21).           *)
THEOREM BytesAreReceived == DesSpec => []ReceivedAsSent
<1> QED BY DesInvInit, DesInvNext, SettledAreReceived, PTL DEF DesSpec
=================================================================================
