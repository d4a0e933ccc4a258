------------------------------ MODULE CommandText ------------------------------
(***************************************************************************)
(* The text of a heater command: how execute_cmd() cuts the receive buffer *)
(* into chunks with strtok(), converts them with atoi() and which writes   *)
(* to the LTC2605 DACs it makes of them.  A character is its ASCII code, a *)
(* buffer a function from 0..n with a NUL at n at the latest.              *)
(***************************************************************************)
EXTENDS Integers, Sequences, SequencesExt, FiniteSetsExt

NUL    == 0
RX_EOC == 10        \* main.c:30
Space  == 32
Minus  == 45
Plus   == 43
LowerC == 99        \* 'c'
LowerA == 97        \* 'a'
Digits == 48..57
Blanks == 9..13 \cup {Space}    \* isspace()

(* The length of the longest prefix of s made of characters of S. *)
Span(s, S) == Max({n \in 0..Len(s) : \A i \in 1..n : s[i] \in S})

Drop(s, n) == SubSeq(s, n + 1, Len(s))

(* atoi(): blanks, a sign, digits up to the first other character. *)
Magnitude(s) == FoldLeft(LAMBDA n, c : 10 * n + (c - 48), 0, SubSeq(s, 1, Span(s, Digits)))

Atoi(s) ==
    LET body == Drop(s, Span(s, Blanks))
    IN  CASE body # <<>> /\ Head(body) = Minus -> 0 - Magnitude(Tail(body))
          [] body # <<>> /\ Head(body) = Plus  -> Magnitude(Tail(body))
          [] OTHER                             -> Magnitude(body)

UnsignedChar(n)  == n % 2^8
UnsignedShort(n) == n % 2^16

--------------------------------------------------------------------------------
StrLen(buf) == Min({i \in DOMAIN buf : buf[i] = NUL})

TokenStart(buf, i) == buf[i] # Space /\ (i = 0 \/ buf[i - 1] = Space)

TokenEnd(buf, i) == Min({j \in i..StrLen(buf) : buf[j] = Space \/ j = StrLen(buf)})

(* The chunks strtok(str1, " "), strtok(NULL, " "), ... return, in order.   *)
(* Only ' ' separates them: a '\n' stays in its chunk.                     *)
Tokens(buf) ==
    LET from[i \in 0..StrLen(buf)] ==
            IF i = StrLen(buf) THEN <<>>
            ELSE IF TokenStart(buf, i)
                 THEN LET end == TokenEnd(buf, i)
                      IN  <<[k \in 1..(end - i) |-> buf[i + k - 1]]>> \o from[end]
                 ELSE from[i + 1]
    IN  from[0]

(* What these calls leave in the buffer: the first space after each chunk  *)
(* is overwritten with a NUL.                                              *)
Strtok(buf) ==
    [i \in DOMAIN buf |->
        IF /\ 0 < i /\ i < StrLen(buf)
           /\ buf[i] = Space /\ buf[i - 1] # Space
        THEN NUL ELSE buf[i]]

--------------------------------------------------------------------------------
(* One turn of the loop of execute_cmd(): chunk_type says which chunk of a *)
(* command is expected; the fourth one makes the command complete and      *)
(* writes it to the DAC.  The locals are an unsigned char, an unsigned     *)
(* char and an unsigned short.                                             *)
NoChunk == [chunk_type |-> 0, board |-> 0, dac |-> 0, cmds |-> <<>>]

(* Mutant of Chunk: the data is kept in an unsigned char. *)
Chunk_NarrowData(p, token) ==
    CASE p.chunk_type = 0 -> [p EXCEPT !.chunk_type = IF Head(token) = LowerC THEN 1 ELSE 0]
      [] p.chunk_type = 1 -> [p EXCEPT !.chunk_type = 2, !.board = UnsignedChar(Atoi(token))]
      [] p.chunk_type = 2 -> [p EXCEPT !.chunk_type = 3, !.dac = UnsignedChar(Atoi(token))]
      [] p.chunk_type = 3 ->
            [p EXCEPT !.chunk_type = 0,
                      !.cmds = Append(@, [board |-> p.board, dac |-> p.dac,
                                          data |-> UnsignedChar(Atoi(token))])]

Chunk(p, token) ==
    CASE p.chunk_type = 0 -> [p EXCEPT !.chunk_type = IF Head(token) = LowerC THEN 1 ELSE 0]
      [] p.chunk_type = 1 -> [p EXCEPT !.chunk_type = 2, !.board = UnsignedChar(Atoi(token))]
      [] p.chunk_type = 2 -> [p EXCEPT !.chunk_type = 3, !.dac = UnsignedChar(Atoi(token))]
      [] p.chunk_type = 3 ->
            [p EXCEPT !.chunk_type = 0,
                      !.cmds = Append(@, [board |-> p.board, dac |-> p.dac,
                                          data |-> UnsignedShort(Atoi(token))])]

(* The DAC writes execute_cmd(str1) makes, in order. *)
execute_cmd(buf) == FoldLeft(Chunk, NoChunk, Tokens(buf)).cmds

--------------------------------------------------------------------------------
(***************************************************************************)
(* The reference grammar (main.c:381-385): a line is words separated by    *)
(* ' ' and '\n'; a command is a word that begins with 'c' and the three    *)
(* words after it, read as numbers; other words are skipped.               *)
(***************************************************************************)
Separators == {Space, RX_EOC}

Words(line) ==
    LET from[i \in 1..(Len(line) + 1)] ==
            IF i > Len(line) THEN <<>>
            ELSE IF line[i] \in Separators THEN from[i + 1]
                 ELSE LET n == Span(Drop(line, i - 1), 1..127 \ Separators)
                      IN  <<SubSeq(line, i, i + n - 1)>> \o from[i + n]
    IN  from[1]

(* A number's value: the sum of its digits, each times its power of ten. *)
Number(word) ==
    LET signed == Head(word) \in {Minus, Plus}
        digits == IF signed THEN Tail(word) ELSE word
        n      == Span(digits, Digits)
        value  == MapThenSumSet(LAMBDA i : (digits[i] - 48) * 10^(n - i), 1..n)
    IN  IF signed /\ Head(word) = Minus THEN 0 - value ELSE value

Commands(line) ==
    LET words == Words(line)
        from[k \in 1..(Len(words) + 4)] ==
            IF k + 3 > Len(words) THEN <<>>
            ELSE IF Head(words[k]) = LowerC
                 THEN <<[board |-> Number(words[k + 1]) % 256,
                         dac   |-> Number(words[k + 2]) % 256,
                         data  |-> Number(words[k + 3]) % 65536]>> \o from[k + 4]
                 ELSE from[k + 1]
    IN  from[1]

(* A line as read_rx_fifo() leaves it in a buffer with a NUL behind it,    *)
(* and what it executes when the buffer holds nothing else.                *)
Terminated(line) == [i \in 0..Len(line) |-> IF i < Len(line) THEN line[i + 1] ELSE NUL]

LineCommands(line) == execute_cmd(Terminated(line))
================================================================================
