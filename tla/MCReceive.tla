------------------------------ MODULE MCReceive ------------------------------
(***************************************************************************)
(* Receive for TLC, with the program's layout of a frame.                  *)
(***************************************************************************)
EXTENDS Receive

\* A frame without parameters and one with four bytes of them, one whose
\* checksum is wrong, two bytes of noise, and a frame in the form of the comment
\* at appconn.cpp line 246, whose length field has two digits.
Frame    == [head |-> TRUE, length |-> 4, size |-> 13, good |-> TRUE]
Longer   == [head |-> TRUE, length |-> 8, size |-> 17, good |-> TRUE]
Damaged  == [head |-> TRUE, length |-> 4, size |-> 13, good |-> FALSE]
Noise    == [head |-> FALSE, length |-> 0, size |-> 2, good |-> FALSE]
TwoDigit == [head |-> TRUE, length |-> 1513, size |-> 7, good |-> FALSE]

Messages == {Frame, Longer, Damaged, Noise, TwoDigit}
FrameBytes == [msg : 1 .. MaxSent, pos : 1 .. 17]
=============================================================================
