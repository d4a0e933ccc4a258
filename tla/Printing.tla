-------------------------------- MODULE Printing --------------------------------
(***************************************************************************)
(* The printing of the HAL that does without the C library: alt_printf()   *)
(* into the buffer of alt_putcharbuf(), and the log, whose characters main *)
(* polls out to a UART while the handler of the system clock may print     *)
(* its heartbeat to the same one.  What the handler does is one step.      *)
(*                                                                         *)
(* A format is a sequence of directives: literal characters, which have    *)
(* no argument, and conversions.  A word has WordBits bits.                *)
(***************************************************************************)
EXTENDS Integers, Sequences, SequencesExt

CONSTANTS WordBits,
          Formats,        \* <<printer, directives>> that main may print, none with a "^D"
          EchoedData,     \* what it may write() with the write echo on
          PutbufSize,     \* ALT_PUTBUF_SIZE
          EchoLen,        \* ALT_LOG_WRITE_ECHO_LEN
          ClockInterval,  \* ALT_LOG_SYS_CLK_INTERVAL, in ticks
          MaxClockTicks

ASSUME PrintingAssumption ==
    /\ {WordBits, PutbufSize, EchoLen, ClockInterval} \subseteq Nat \ {0} /\ WordBits % 4 = 0
    /\ EchoLen > 1 /\ MaxClockTicks \in Nat

VARIABLES
    printer,    \* what main prints with: "alt_printf", "alt_log", or "none" yet
    text,       \* the characters of the format that are left
    varargs,    \* the arguments that are left
    pf,         \* the state of the conversion
    todo,       \* characters it has made that are still to be put out
    ready,      \* alt_log_txchar() has seen its UART ready
    port,       \* the transmit register of that UART
    putbuf,     \* buf and fill_index
    clock,      \* alt_log_sys_clk_count, alt_system_clock_in_sec, and history: the ticks
    printing    \* history: the directives, main's characters, the line, and what was lost

printing_vars == <<printer, text, varargs, pf, todo, ready, port, putbuf, clock, printing>>

Digits == <<"0", "1", "2", "3", "4", "5", "6", "7", "8", "9", "a", "b", "c", "d", "e", "f">>
UpperDigits == SubSeq(Digits, 1, 10) \o <<"A", "B", "C", "D", "E", "F">>
DigitOf(c) == CHOOSE n \in 0..15 : c \in {Digits[n + 1], UpperDigits[n + 1]}
IsDecimal(c) == c \in Range(SubSeq(Digits, 1, 10))

Idle == [state |-> "chars"]

PrintingInit ==
    /\ printer = "none" /\ text = <<>> /\ varargs = <<>> /\ pf = Idle /\ todo = <<>>
    /\ ready = FALSE /\ port = <<>> /\ putbuf = <<>>
    /\ clock = [count |-> 0, seconds |-> 0, ticks |-> 0]
    /\ printing = [directives |-> <<>>, out |-> <<>>, line |-> <<>>, lost |-> 0, mixed |-> FALSE]

----------------------------------------------------------------------------
(* The conversions                                                         *)

Repeated(c, n) == [i \in 1..n |-> c]

DigitCount(v, base) == CHOOSE n \in 1..WordBits : v < base^n /\ (n > 1 => v >= base^(n - 1))

(* Mutant of PrintedInteger: the sign is no part of the width. *)
PrintedInteger_SignExtra(f, value) ==
    LET negative == f.signed /\ value >= 2^(WordBits - 1)
        v == IF negative THEN 2^WordBits - value ELSE value
        n == DigitCount(v, f.base)
        fill == f.before - n
        digits == [i \in 1..n |-> (IF f.upper THEN UpperDigits ELSE Digits)[((v \div f.base^(n - i)) % f.base) + 1]]
        sign == IF negative THEN <<"-">> ELSE <<>>
    IN  (IF f.zero THEN sign \o Repeated("0", fill) ELSE Repeated(" ", fill) \o sign) \o digits

(* doIntegerPrint: the digits by the largest place value, and what is in   *)
(* front of them.                                                          *)
PrintedInteger(f, value) ==
    LET negative == f.signed /\ value >= 2^(WordBits - 1)
        v == IF negative THEN 2^WordBits - value ELSE value
        n == DigitCount(v, f.base)
        fill == f.before - n - (IF negative THEN 1 ELSE 0)
        digits == [i \in 1..n |-> (IF f.upper THEN UpperDigits ELSE Digits)[((v \div f.base^(n - i)) % f.base) + 1]]
        sign == IF negative THEN <<"-">> ELSE <<>>
    IN  (IF f.zero THEN sign \o Repeated("0", fill) ELSE Repeated(" ", fill) \o sign) \o digits

(* The letter at the end of a conversion: what it prints.  An unknown one  *)
(* prints nothing and takes no argument.                                   *)
Converted(f, c, value) ==
    CASE c \in {"d", "i"} -> PrintedInteger(f, value)
      [] c = "u" -> PrintedInteger([f EXCEPT !.signed = FALSE], value)
      [] c = "o" -> PrintedInteger([f EXCEPT !.signed = FALSE, !.base = 8], value)
      [] c = "x" -> PrintedInteger([f EXCEPT !.signed = FALSE, !.base = 16], value)
      [] c = "X" -> PrintedInteger([f EXCEPT !.signed = FALSE, !.base = 16, !.upper = TRUE], value)
      [] c \in {"c", "s"} -> Repeated(" ", f.before - Len(value)) \o value
      [] OTHER -> <<>>

TakesArgument(c) == c \in {"d", "i", "u", "o", "x", "X", "c", "s"}

Fresh == [state |-> "firstFmtChar", zero |-> FALSE, base |-> 10, signed |-> TRUE, upper |-> FALSE,
          before |-> -1, after |-> -1]

(* A character of the format in the three states of                        *)
(* alt_log_private_printf().                                               *)
Flag(c) ==
    IF c = "." THEN [pf EXCEPT !.state = "otherFmtChar", !.after = 0]
    ELSE IF ~IsDecimal(c) THEN [pf EXCEPT !.state = "otherFmtChar"]
    ELSE IF pf.after >= 0 THEN [pf EXCEPT !.state = "otherFmtChar", !.after = @ * 10 + DigitOf(c)]
    ELSE [pf EXCEPT !.state = "otherFmtChar", !.before = (IF @ < 0 THEN 0 ELSE @ * 10) + DigitOf(c)]

Puts(chars) ==
    /\ todo' = chars
    /\ printing' = [printing EXCEPT !.out = @ \o chars]

LogConversion(c) ==
    IF c = "." \/ IsDecimal(c) \/ c = "l"
    THEN pf' = Flag(c) /\ UNCHANGED <<todo, printing, varargs>>
    ELSE /\ pf' = Idle
         /\ Puts(Converted(pf, c, IF TakesArgument(c) THEN Head(varargs) ELSE <<>>))
         /\ varargs' = IF TakesArgument(c) THEN Tail(varargs) ELSE varargs

LogChar(c) ==
    CASE pf.state = "chars" /\ c # "%" -> Puts(<<c>>) /\ UNCHANGED <<pf, varargs>>
      [] pf.state = "chars" /\ c = "%" -> pf' = Fresh /\ UNCHANGED <<todo, printing, varargs>>
      [] pf.state = "firstFmtChar" /\ c = "0" ->
            pf' = [pf EXCEPT !.state = "otherFmtChar", !.zero = TRUE] /\ UNCHANGED <<todo, printing, varargs>>
      [] pf.state = "firstFmtChar" /\ c = "%" -> pf' = Idle /\ Puts(<<c>>) /\ UNCHANGED varargs
      [] OTHER -> LogConversion(c)

(* %x of alt_printf(): from the first digit that is not zero.              *)
Hex(v) ==
    LET shifts == {s \in 0..(WordBits - 4) : s % 4 = 0 /\ (v \div 2^s) % 16 # 0}
        first == CHOOSE s \in shifts : \A t \in shifts : t <= s
    IN  IF v = 0 THEN <<"0">>
        ELSE [i \in 1..(first \div 4 + 1) |-> Digits[((v \div 2^(first - 4 * (i - 1))) % 16) + 1]]

AltChar(c) ==
    CASE pf.state = "chars" /\ c # "%" -> Puts(<<c>>) /\ UNCHANGED <<pf, varargs>>
      [] pf.state = "chars" /\ c = "%" -> pf' = Fresh /\ UNCHANGED <<todo, printing, varargs>>
      [] OTHER ->
            /\ pf' = Idle
            /\ Puts(CASE c = "%" -> <<c>> [] c = "x" -> Hex(Head(varargs))
                      [] c \in {"c", "s"} -> Head(varargs) [] OTHER -> <<>>)
            /\ varargs' = IF c \in {"x", "c", "s"} THEN Tail(varargs) ELSE varargs

----------------------------------------------------------------------------
(* main                                                                    *)

DirectiveText(d) == IF d.conv = "" THEN d.chars ELSE <<"%">> \o d.chars \o <<d.conv>>

StartsPrinting(p, directives) ==
    /\ printer = "none" /\ printer' = p
    /\ text' = FlattenSeq([i \in DOMAIN directives |-> DirectiveText(directives[i])])
    /\ varargs' = LET taking == SelectSeq(directives, LAMBDA d : TakesArgument(d.conv))
                  IN  [i \in DOMAIN taking |-> taking[i].value]
    /\ printing' = [printing EXCEPT !.directives = directives]
    /\ UNCHANGED <<pf, todo, ready, port, putbuf, clock>>

(* The buffer that alt_log_write() prints: "\n" takes the place of the     *)
(* last character, and a NUL ends it.                                      *)
EchoBuf(data) ==
    LET length == IF EchoLen > Len(data) THEN Len(data) ELSE EchoLen
        copied == [i \in 1..length |-> IF i = length THEN "\n" ELSE IF data[i] = "^D" THEN "D" ELSE data[i]]
        nul == SelectInSeq(copied, LAMBDA c : c = "NUL")
    IN  IF nul # 0 THEN SubSeq(copied, 1, nul - 1) ELSE copied \o <<"\r">>

Echo(data) == <<[chars |-> <<>>, conv |-> "s", value |-> EchoBuf(data)]>>

alt_log_write(data) == StartsPrinting("alt_log", IF Len(data) < 2 THEN <<>> ELSE Echo(data))

Format ==
    /\ printer # "none" /\ text # <<>> /\ todo = <<>> /\ text' = Tail(text)
    /\ IF printer = "alt_log" THEN LogChar(Head(text)) ELSE AltChar(Head(text))
    /\ UNCHANGED <<printer, ready, port, putbuf, clock>>

(* Mutant of Flushes: one character later. *)
Flushes_Late(buffer) == Len(buffer) > PutbufSize

Flushes(buffer) == Len(buffer) >= PutbufSize

alt_putbufflush(buffer) ==
    /\ putbuf' = <<>> /\ printing' = [printing EXCEPT !.line = @ \o buffer]

alt_putcharbuf ==
    /\ printer = "alt_printf" /\ todo # <<>> /\ todo' = Tail(todo)
    /\ LET buffer == Append(putbuf, Head(todo)) IN
       IF Flushes(buffer) THEN alt_putbufflush(buffer) ELSE putbuf' = buffer /\ UNCHANGED printing
    /\ UNCHANGED <<printer, text, varargs, pf, ready, port, clock>>

alt_printf_returns ==
    /\ printer = "alt_printf" /\ text = <<>> /\ todo = <<>> /\ putbuf # <<>>
    /\ alt_putbufflush(putbuf)
    /\ UNCHANGED <<printer, text, varargs, pf, todo, ready, port, clock>>

TxPoll ==
    /\ printer = "alt_log" /\ todo # <<>> /\ ~ready /\ port = <<>> /\ ready' = TRUE
    /\ UNCHANGED <<printer, text, varargs, pf, todo, port, putbuf, clock, printing>>

TxWrite ==
    /\ ready /\ ready' = FALSE /\ port' = <<Head(todo)>> /\ todo' = Tail(todo)
    /\ printing' = [printing EXCEPT !.lost = @ + Len(port)]
    /\ UNCHANGED <<printer, text, varargs, pf, putbuf, clock>>

(* The UART sends what is in its register. *)
Send ==
    /\ port # <<>> /\ port' = <<>> /\ printing' = [printing EXCEPT !.line = @ \o port]
    /\ UNCHANGED <<printer, text, varargs, pf, todo, ready, putbuf, clock>>

----------------------------------------------------------------------------
(* The handler of the system clock: alt_log_system_clock(), which prints   *)
(* "@" here.  It waits until the UART is ready, so that its register is    *)
(* sent before.                                                            *)
alt_log_system_clock ==
    /\ clock.ticks < MaxClockTicks
    /\ IF clock.count + 1 > ClockInterval
       THEN /\ clock' = [count |-> 0, seconds |-> clock.seconds + 1, ticks |-> clock.ticks + 1]
            /\ port' = <<"@">>
            /\ printing' = [printing EXCEPT !.line = @ \o port, !.mixed = @ \/ ready]
       ELSE clock' = [clock EXCEPT !.count = @ + 1, !.ticks = @ + 1] /\ UNCHANGED <<port, printing>>
    /\ UNCHANGED <<printer, text, varargs, pf, todo, ready, putbuf>>

PrintingNext ==
    \/ \E f \in Formats : StartsPrinting(f[1], f[2])
    \/ \E data \in EchoedData : alt_log_write(data)
    \/ Format \/ alt_putcharbuf \/ alt_printf_returns
    \/ TxPoll \/ TxWrite \/ Send \/ alt_log_system_clock

----------------------------------------------------------------------------
(* What C says a directive prints.                                         *)

NumberOf(chars, base) == FoldLeft(LAMBDA n, c : n * base + DigitOf(c), 0, chars)

Base(conv) == CASE conv = "o" -> 8 [] conv \in {"x", "X"} -> 16 [] OTHER -> 10

(* The field width of a conversion: what is before the point.  A '0' in    *)
(* front makes it no other; a precision the log does not honour.           *)
Width(d) == LET dot == SelectInSeq(d.chars, LAMBDA c : c = ".")
            IN  NumberOf(SelectSeq(IF dot = 0 THEN d.chars ELSE SubSeq(d.chars, 1, dot), IsDecimal), 10)

IsNumeral(d, t, v) ==
    /\ t # <<>> /\ Len(t) > 1 => t[1] # "0"
    /\ Range(t) \subseteq Range(IF d.conv = "X" THEN UpperDigits ELSE Digits)
    /\ NumberOf(t, Base(d.conv)) = v

AsNumber(d, t) ==
    LET v == IF d.conv \in {"d", "i"} /\ d.value >= 2^(WordBits - 1) THEN d.value - 2^WordBits ELSE d.value
        sign == IF v < 0 THEN <<"-">> ELSE <<>>
    IN  \E k \in 0..(Len(t) - 1) :
            /\ IsNumeral(d, SubSeq(t, k + 1, Len(t)), IF v < 0 THEN -v ELSE v)
            /\ SubSeq(t, 1, k) = IF d.chars # <<>> /\ d.chars[1] = "0"
                                 THEN sign \o Repeated("0", k - Len(sign))
                                 ELSE Repeated(" ", k - Len(sign)) \o sign
            /\ Len(t) = Width(d) \/ (Len(t) > Width(d) /\ k = Len(sign))

AsC(d, t) ==
    CASE d.conv = "" -> t = d.chars
      [] d.conv = "%" -> t = <<"%">>
      [] d.conv \in {"c", "s"} -> t = Repeated(" ", Width(d) - Len(d.value)) \o d.value
      [] OTHER -> AsNumber(d, t)

Formatted == printer # "none" /\ text = <<>>

(* What main prints is what C says of the format, whatever the directives  *)
(* before one left behind (alt_printf.c:50-132, alt_log_printf.c:114-341). *)
PrintsAsC ==
    Formatted =>
        LET n == Len(printing.directives) IN
        \E ends \in [0..n -> 0..Len(printing.out)] :
            /\ ends[0] = 0 /\ ends[n] = Len(printing.out)
            /\ \A i \in 1..n : /\ ends[i - 1] <= ends[i]
                               /\ AsC(printing.directives[i], SubSeq(printing.out, ends[i - 1] + 1, ends[i]))

OwnChars(line) == SelectSeq(line, LAMBDA c : c # "@")

(* Every character comes out, once and in order, and the buffer is never   *)
(* overrun; only the heartbeat may take the place of one or be lost, when  *)
(* it comes between the poll of alt_log_txchar() and its store             *)
(* (alt_putcharbuf.c:57-79, alt_log_printf.c:95-110, 467-476).             *)
CharsComeOut ==
    /\ Len(putbuf) < PutbufSize
    /\ LET sent == printing.line \o port \o putbuf IN
       /\ OwnChars(sent) \o todo = printing.out
       /\ Len(SelectSeq(sent, LAMBDA c : c = "@")) + printing.lost = clock.seconds
       /\ printing.lost > 0 => printing.mixed

(* The echo of write() never sends the EOT that would end the terminal     *)
(* session of whoever reads the log, whatever is written                   *)
(* (alt_log_printf.c:440-460).                                             *)
NoEndOfTransmission == "^D" \notin Range(printing.line \o port \o todo)

PrintingKept == PrintsAsC /\ CharsComeOut /\ NoEndOfTransmission
================================================================================
