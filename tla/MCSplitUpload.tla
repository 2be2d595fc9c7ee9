---------------------------- MODULE MCSplitUpload ----------------------------
(* A small instance of SplitUpload for TLC.                                  *)
EXTENDS SplitUpload

Packets(packets, repeats, n) ==
    [mode |-> "packet-up", packets |-> packets, repeats |-> repeats, sessions |-> n,
     another |-> FALSE]

MCUploads == {Packets({0, 1, 2}, 0, 1), Packets({1, 2}, 2, 1), Packets({0, 1}, 1, 1),
              [Packets({0, 1}, 0, 2) EXCEPT !.another = TRUE],
              [mode |-> "stream-up", packets |-> {}, repeats |-> 0, sessions |-> 2,
               another |-> TRUE]}
=============================================================================
