------------------------------- MODULE MCWire -------------------------------
(***************************************************************************)
(* The datagrams for model checking Wire.                                  *)
(***************************************************************************)
EXTENDS Wire

Ranges(n) == [i \in 1 .. n |-> [start |-> 128 * i, end |-> 128 * i + 127]]

Segment(seq, flags, ack, fin_ack, window, sack, data) ==
    [seq |-> seq, flags |-> flags, data |-> data,
     header |-> [ack |-> ack, fin_ack |-> fin_ack, window |-> window,
                 sack |-> sack]]

\* A SYN; an ack of a FIN with the largest numbers (-1 is u32::MAX); data
\* with two ranges; a header with one range more than fits; data whose
\* first bytes could be taken for a range.
SomeSegments ==
    {Segment(0, 1, 0, FALSE, 1024, << >>, << >>),
     Segment(-1, 2, -1, TRUE, -1, Ranges(1), << >>),
     Segment(256, 2, 128, FALSE, 65536, Ranges(2), <<0, 255>>),
     Segment(7, 6, 1, FALSE, 0, Ranges(5), << >>),
     Segment(1, 2, 0, FALSE, 3, << >>, [i \in 1 .. 8 |-> 1])}

\* ack_frame and data_frame of baselines.rs, and the round trip at the
\* largest type and flags of frame's unit tests.
SomeFrames ==
    {Frame(0, 3, 1, << >>), Frame(0, 0, 0, <<9>>),
     Frame(255, -1, 65535, <<9, 9, 9>>)}
=============================================================================
