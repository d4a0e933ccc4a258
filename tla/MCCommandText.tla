----------------------------- MODULE MCCommandText -----------------------------
(***************************************************************************)
(* CommandText over every line of at most MaxPieces pieces, each ended by  *)
(* '\n'.  The pieces are chosen so that the lines hold two whole commands  *)
(* and more words behind or between them, leading, doubled and trailing    *)
(* spaces, numbers of several digits, negative ones and ones beyond 2^8    *)
(* and 2^16.                                                               *)
(***************************************************************************)
EXTENDS CommandText

CONSTANT MaxPieces

VARIABLE pieces

Pieces ==
    { <<LowerC, Space>>,                       \* "c "
      <<LowerC, Space, 49, Space, 50, Space, 51, Space>>,  \* "c 1 2 3 "
      <<Minus, 49, Space>>,                    \* "-1 "
      <<54, 53, 53, 51>>,                      \* "6553"
      <<56>>,                                  \* "8"
      <<Space>> }

TextInit == pieces = <<>>

(* Longer runs of digits overflow atoi()'s int: undefined in C. *)
TooLong(line) == \E i \in 1..(Len(line) - 9) : \A j \in i..(i + 9) : line[j] \in Digits

TextNext ==
    /\ Len(pieces) < MaxPieces
    /\ \E p \in Pieces :
           /\ ~TooLong(FlattenSeq(pieces) \o p)
           /\ pieces' = Append(pieces, p)

TextSpec == TextInit /\ [][TextNext]_pieces

Line == Append(FlattenSeq(pieces), RX_EOC)

(* A line whose last word is not followed by spaces executes exactly the   *)
(* commands of the documented grammar, with the same numbers modulo the    *)
(* widths of the DAC interface (main.c:375-424).                           *)
ParsesLine ==
    (Len(Line) = 1 \/ Line[Len(Line) - 1] # Space)
        => LineCommands(Line) = Commands(Line)

(* The same for every line: ' ' and '\n' separate the chunks               *)
(* (main.c:381), however many of them there are.                           *)
SeparatorsAsDocumented == LineCommands(Line) = Commands(Line)
================================================================================
