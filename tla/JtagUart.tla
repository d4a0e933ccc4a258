-------------------------------- MODULE JtagUart --------------------------------
(***************************************************************************)
(* The JTAG UART and its driver.  Without ALT_USE_SMALL_DRIVERS it is      *)
(* driven by interrupts: write(), read() and close() against the handler,  *)
(* the host at the other end of the cable, and the alarm that finds out    *)
(* every second whether it is still there.  With it, as in this build, the *)
(* calls poll the JTAG UART: small_write and small_read.                   *)
(*                                                                         *)
(* The handler and the alarm are called between two steps of the program,  *)
(* and while the interrupts are disabled they are not: the section that    *)
(* changes irq_enable is one step.  The program reads host_inactive afresh *)
(* in its loops, though it is not volatile.  Bytes are numbered.           *)
(***************************************************************************)
EXTENDS Naturals, Sequences

CONSTANTS JtagBufLen,      \* ALTERA_AVALON_JTAG_UART_BUF_LEN
          FifoDepth,       \* 64
          FifoThreshold,   \* 8
          JtagTimeout,     \* sp->timeout
          JtagPrograms,    \* sequences of calls, one of which the program makes
          MaxSent          \* how many bytes the host sends

ASSUME JtagAssumption ==
    /\ {JtagBufLen, FifoDepth, FifoThreshold, JtagTimeout} \subseteq Nat \ {0}
    /\ JtagBufLen > 1 /\ MaxSent \in Nat

(* A program uses one of the two drivers.                                  *)
JtagSmallOps == {"small_write", "small_read"}
JtagCalls(ops) == [op : ops, len : Nat, block : BOOLEAN]

ASSUME JtagProgramsAssumption ==
    JtagPrograms \subseteq Seq(JtagCalls({"write", "read", "close"})) \cup Seq(JtagCalls(JtagSmallOps))

VARIABLES
    jtag,    \* the FIFOs and registers of the JTAG UART
    js,      \* altera_avalon_jtag_uart_state
    jisr,    \* where the handler is
    jseen,   \* the control register it has read, and the last data register
    jcalls,  \* the calls that are left, the present one first
    jpc,     \* where it is
    jv,      \* its local variables: in, out, n and what it has left
    jhist    \* history

jtag_vars == <<jtag, js, jisr, jseen, jcalls, jpc, jv, jhist>>

InitialEnable == IF \E i \in DOMAIN jcalls : jcalls[i].op \in JtagSmallOps THEN {} ELSE {"RE"}

JtagInit ==
    /\ jcalls \in JtagPrograms
    /\ jtag = [wfifo |-> <<>>, rfifo |-> <<>>, ien |-> InitialEnable, pause |-> FALSE, ac |-> FALSE]
    /\ js = [irq_enable |-> InitialEnable, alarm |-> InitialEnable # {},
             rx_in |-> 0, rx_out |-> 0, tx_in |-> 0, tx_out |-> 0,
             rx_buf |-> [i \in 0..(JtagBufLen - 1) |-> 0],
             tx_buf |-> [i \in 0..(JtagBufLen - 1) |-> 0], host_inactive |-> 0]
    /\ jisr = "none" /\ jseen = [RI |-> FALSE, WI |-> FALSE, space |-> 0, ravail |-> FALSE]
    /\ jpc = "idle" /\ jv = [in |-> 0, out |-> 0, n |-> 0, left |-> 0, got |-> 0]
    /\ jhist = [taken |-> <<>>, sent |-> 0, written |-> 0, received |-> <<>>]

JNext(i) == (i + 1) % JtagBufLen
JRing(buf, out, in) ==
    [i \in 1..((JtagBufLen + in - out) % JtagBufLen) |-> buf[(out + i - 1) % JtagBufLen]]

(***************************************************************************)
(* The JTAG UART and the host.                                             *)
(***************************************************************************)
RI == "RE" \in jtag.ien /\ (jtag.pause \/ FifoDepth - Len(jtag.rfifo) <= FifoThreshold)
WI == "WE" \in jtag.ien /\ Len(jtag.wfifo) <= FifoThreshold

HostTakes ==
    /\ jtag.wfifo # <<>>
    /\ jtag' = [jtag EXCEPT !.wfifo = Tail(@)]
    /\ jhist' = [jhist EXCEPT !.taken = Append(@, Head(jtag.wfifo))]

HostSends ==
    /\ jhist.sent < MaxSent /\ Len(jtag.rfifo) < FifoDepth
    /\ jtag' = [jtag EXCEPT !.rfifo = Append(@, jhist.sent + 1), !.ac = TRUE]
    /\ jhist' = [jhist EXCEPT !.sent = @ + 1]

HostPauses ==
    /\ jtag' = [jtag EXCEPT !.pause = @ \/ jtag.rfifo # <<>>, !.ac = TRUE]
    /\ UNCHANGED jhist

Host ==
    /\ HostTakes \/ HostSends \/ HostPauses
    /\ UNCHANGED <<js, jisr, jseen, jcalls, jpc, jv>>

(***************************************************************************)
(* altera_avalon_jtag_uart_irq() and altera_avalon_jtag_uart_timeout().    *)
(***************************************************************************)
Handler(label) == jisr = label /\ UNCHANGED <<jcalls, jpc, jv>>

ReadControl ==
    /\ jisr = "control" \/ (jisr = "none" /\ (RI \/ WI))
    /\ jseen' = [RI |-> RI, WI |-> WI, space |-> FifoDepth - Len(jtag.wfifo), ravail |-> TRUE]
    /\ jisr' = IF RI THEN "rx" ELSE IF WI THEN "tx" ELSE "none"
    /\ UNCHANGED <<jtag, js, jcalls, jpc, jv, jhist>>

RxFull == JNext(js.rx_in) = js.rx_out

ReadData ==
    /\ Handler("rx") /\ ~RxFull /\ jtag.rfifo # <<>>
    /\ js' = [js EXCEPT !.rx_buf[js.rx_in] = Head(jtag.rfifo), !.rx_in = JNext(@)]
    /\ jtag' = [jtag EXCEPT !.rfifo = Tail(@), !.pause = FALSE]
    /\ jseen' = [jseen EXCEPT !.ravail = Len(jtag.rfifo) > 1]
    /\ UNCHANGED <<jisr, jhist>>

AfterRx == IF jseen.WI THEN "tx" ELSE "control"

Without(bits) ==
    /\ js' = [js EXCEPT !.irq_enable = @ \ bits]
    /\ jtag' = [jtag EXCEPT !.ien = js.irq_enable \ bits]

(* No byte was left: the read that said so has cleared the pause. *)
RxEmpty ==
    /\ Handler("rx") /\ ~RxFull /\ jtag.rfifo = <<>>
    /\ jtag' = [jtag EXCEPT !.pause = FALSE]
    /\ jisr' = AfterRx
    /\ UNCHANGED <<js, jseen, jhist>>

RxStops ==
    /\ Handler("rx") /\ RxFull
    /\ IF jseen.ravail THEN Without({"RE"}) ELSE UNCHANGED <<js, jtag>>
    /\ jisr' = AfterRx
    /\ UNCHANGED <<jseen, jhist>>

Smaller(a, b) == IF a < b THEN a ELSE b

(* A byte that is written to a full FIFO is lost. *)
Fill(fifo, bytes) == SubSeq(fifo \o bytes, 1, Smaller(Len(fifo \o bytes), FifoDepth))

WriteData ==
    /\ Handler("tx")
    /\ LET ring  == JRing(js.tx_buf, js.tx_out, js.tx_in)
           count == Smaller(jseen.space, Len(ring))
           left  == IF count < jseen.space THEN js.irq_enable \ {"WE"} ELSE js.irq_enable
       IN /\ js' = [js EXCEPT !.tx_out = (@ + count) % JtagBufLen, !.irq_enable = left]
          /\ jtag' = [jtag EXCEPT !.wfifo = Fill(@, SubSeq(ring, 1, count)),
                        !.ien = IF count < jseen.space THEN left ELSE @]
    /\ jisr' = "control"
    /\ UNCHANGED <<jseen, jhist>>

altera_avalon_jtag_uart_irq == ReadControl \/ ReadData \/ RxEmpty \/ RxStops \/ WriteData

(* host_inactive counts on to INT_MAX; here only to the timeout. *)
altera_avalon_jtag_uart_timeout ==
    /\ js.alarm /\ jisr = "none" /\ ~RI /\ ~WI
    /\ IF jtag.ac
       THEN /\ jtag' = [jtag EXCEPT !.ac = FALSE, !.ien = js.irq_enable]
            /\ js' = [js EXCEPT !.host_inactive = 0]
       ELSE /\ js' = [js EXCEPT !.host_inactive = IF @ < JtagTimeout THEN @ + 1 ELSE @]
            /\ UNCHANGED jtag
    /\ UNCHANGED <<jisr, jseen, jcalls, jpc, jv, jhist>>

(***************************************************************************)
(* The calls.                                                              *)
(***************************************************************************)
Does(from, to) ==
    /\ jisr = "none" /\ ~RI /\ ~WI /\ jpc = from /\ jpc' = to
    /\ UNCHANGED <<jisr, jseen>>

jcall == IF jcalls = <<>> THEN [op |-> "none", len |-> 0, block |-> FALSE] ELSE Head(jcalls)

Calls ==
    /\ jcalls # <<>> /\ Does("idle", jcall.op)
    /\ jv' = [jv EXCEPT !.left = jcall.len, !.got = 0]
    /\ UNCHANGED <<jtag, js, jcalls, jhist>>

Return(from) ==
    /\ Does(from, "idle") /\ jcalls' = Tail(jcalls)
    /\ jv' = [in |-> 0, out |-> 0, n |-> 0, left |-> 0, got |-> 0]
    /\ UNCHANGED <<jtag, js, jhist>>

(* Mutant of TxSpace: a ring that is read from its start is filled whole. *)
TxSpace_WholeRing(in, out) == IF in < out THEN out - 1 - in ELSE JtagBufLen - in

(* The bytes that can be copied in one piece. *)
TxSpace(in, out) ==
    IF in < out THEN out - 1 - in
    ELSE IF out > 0 THEN JtagBufLen - in ELSE JtagBufLen - 1 - in

LoadOut ==
    /\ Does("write", IF jv.left = 0 \/ TxSpace(js.tx_in, js.tx_out) = 0 THEN "kick" ELSE "copy")
    /\ jv' = [jv EXCEPT !.in = js.tx_in,
                !.out = IF jv.left = 0 THEN @ ELSE js.tx_out,
                !.n = Smaller(TxSpace(js.tx_in, js.tx_out), jv.left)]
    /\ UNCHANGED <<jtag, js, jcalls, jhist>>

Copy ==
    /\ Does("copy", "publish")
    /\ js' = [js EXCEPT !.tx_buf = [i \in DOMAIN @ |->
                IF i \in jv.in..(jv.in + jv.n - 1) THEN jhist.written + 1 + i - jv.in ELSE @[i]]]
    /\ UNCHANGED <<jtag, jcalls, jv, jhist>>

Publish ==
    /\ Does("publish", "write")
    /\ js' = [js EXCEPT !.tx_in = (jv.in + jv.n) % JtagBufLen]
    /\ jhist' = [jhist EXCEPT !.written = @ + jv.n]
    /\ jv' = [jv EXCEPT !.left = @ - jv.n]
    /\ UNCHANGED <<jtag, jcalls>>

(* Mutant of Enable: the shadow is not written to the register. *)
Enable_ShadowOnly(bit) ==
    /\ js' = [js EXCEPT !.irq_enable = @ \cup {bit}]
    /\ UNCHANGED jtag

Enable(bit) ==
    /\ js' = [js EXCEPT !.irq_enable = @ \cup {bit}]
    /\ jtag' = [jtag EXCEPT !.ien = js.irq_enable \cup {bit}]

Kick ==
    /\ Does("kick", IF jv.left > 0 /\ jcall.block THEN "wait" ELSE "return")
    /\ Enable("WE")
    /\ UNCHANGED <<jcalls, jv, jhist>>

(* "if (sp->host_inactive) break": from the first second without activity. *)
WaitEnds ==
    /\ jv.out # js.tx_out \/ js.host_inactive >= JtagTimeout
    /\ Does("wait", IF js.host_inactive > 0 THEN "return" ELSE "write")
    /\ UNCHANGED <<jtag, js, jcalls, jv, jhist>>

altera_avalon_jtag_uart_write == LoadOut \/ Copy \/ Publish \/ Kick \/ WaitEnds

RxChunk == IF js.rx_in >= js.rx_out THEN js.rx_in - js.rx_out ELSE JtagBufLen - js.rx_out

TakeChunk ==
    LET n == Smaller(RxChunk, jv.left) IN
    /\ n > 0 /\ Does("read", "read")
    /\ jhist' = [jhist EXCEPT !.received = @ \o [i \in 1..n |-> js.rx_buf[js.rx_out + i - 1]]]
    /\ js' = [js EXCEPT !.rx_out = (@ + n) % JtagBufLen]
    /\ jv' = [jv EXCEPT !.left = @ - n, !.got = @ + n, !.in = js.rx_in]
    /\ UNCHANGED <<jtag, jcalls>>

(* Nothing more to copy.  Without a byte, a blocking call waits. *)
ReadStops ==
    /\ jv.left = 0 \/ RxChunk = 0
    /\ Does("read", IF jv.got > 0 THEN "reenable"
                    ELSE IF jv.left > 0 /\ jcall.block THEN "spin" ELSE "return")
    /\ jv' = [jv EXCEPT !.in = js.rx_in]
    /\ UNCHANGED <<jtag, js, jcalls, jhist>>

Spin ==
    /\ jv.in # js.rx_in \/ js.host_inactive >= JtagTimeout
    /\ Does("spin", IF jv.in # js.rx_in THEN "read" ELSE "return")
    /\ UNCHANGED <<jtag, js, jcalls, jv, jhist>>

Reenable ==
    /\ Does("reenable", "return") /\ Enable("RE")
    /\ UNCHANGED <<jcalls, jv, jhist>>

altera_avalon_jtag_uart_read == TakeChunk \/ ReadStops \/ Spin \/ Reenable

altera_avalon_jtag_uart_close ==
    /\ js.tx_in = js.tx_out \/ js.host_inactive >= JtagTimeout \/ ~jcall.block
    /\ Return("close")

(* The small write(): a byte is written whenever there is room for it. *)
SmallPut ==
    /\ jtag' = [jtag EXCEPT !.wfifo = IF jv.left > 0 /\ Len(@) < FifoDepth
                                    THEN Append(@, jhist.written + 1) ELSE @]
    /\ jhist' = [jhist EXCEPT !.written = @ + Len(jtag'.wfifo) - Len(jtag.wfifo)]
    /\ jv' = [jv EXCEPT !.left = @ - (Len(jtag'.wfifo) - Len(jtag.wfifo))]
    /\ Does("small_write", IF jv'.left > 0 THEN "small_write" ELSE "return")
    /\ UNCHANGED <<js, jcalls>>

(* The small read(): at least one byte, unless the call may not block. *)
SmallTake ==
    /\ jtag.rfifo # <<>>
    /\ jtag' = [jtag EXCEPT !.rfifo = Tail(@), !.pause = FALSE]
    /\ jhist' = [jhist EXCEPT !.received = Append(@, Head(jtag.rfifo))]
    /\ jv' = [jv EXCEPT !.left = @ - 1, !.got = @ + 1]
    /\ Does("small_read", IF jv'.left > 0 THEN "small_read" ELSE "return")
    /\ UNCHANGED <<js, jcalls>>

SmallEmpty ==
    /\ jtag.rfifo = <<>>
    /\ jtag' = [jtag EXCEPT !.pause = FALSE]
    /\ Does("small_read", IF jv.got > 0 \/ ~jcall.block THEN "return" ELSE "small_read")
    /\ UNCHANGED <<js, jcalls, jv, jhist>>

JtagProgram ==
    \/ Calls \/ Return("return") \/ SmallPut \/ SmallTake \/ SmallEmpty
    \/ altera_avalon_jtag_uart_write \/ altera_avalon_jtag_uart_read \/ altera_avalon_jtag_uart_close

JtagNext == Host \/ altera_avalon_jtag_uart_irq \/ altera_avalon_jtag_uart_timeout \/ JtagProgram

--------------------------------------------------------------------------------
Counting(n) == [i \in 1..n |-> i]

(* No byte is lost, doubled or overtaken, in either direction, wherever    *)
(* the handler comes between the steps of a call: the rings need no lock,  *)
(* and the handler never writes to a full FIFO                             *)
(* (altera_avalon_jtag_uart_init.c:106-197, _write.c:104-215, _read.c).    *)
JtagInOrder ==
    /\ jhist.taken \o jtag.wfifo \o JRing(js.tx_buf, js.tx_out, js.tx_in) = Counting(jhist.written)
    /\ jhist.received \o JRing(js.rx_buf, js.rx_out, js.rx_in) \o jtag.rfifo = Counting(jhist.sent)

(* As long as the host is there, every call returns and all that was       *)
(* written reaches it: the handler never disables the interrupt that       *)
(* somebody still waits for (altera_avalon_jtag_uart_init.c:153-194).      *)
JtagDrains == <>[](jcalls = <<>> /\ js.tx_in = js.tx_out /\ jtag.wfifo = <<>>)
================================================================================
