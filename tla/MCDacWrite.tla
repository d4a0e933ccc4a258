------------------------------ MODULE MCDacWrite ------------------------------
(* DacWrite with the frames of "c 67 5 65281" and "c 67 0 128". *)
EXTENDS DacWrite

Bits(n) == [i \in 1..8 |-> (n \div 2^(8 - i)) % 2]

OneFrame  == << <<Bits(134), Bits(53), Bits(255), Bits(1)>> >>
TwoFrames == OneFrame \o << <<Bits(134), Bits(48), Bits(0), Bits(128)>> >>
================================================================================
