--------------------------- MODULE MCKcpConnection ---------------------------
(* A small instance of KcpConnection for TLC.                               *)
EXTENDS KcpConnection

Segment(cmd, close) == [cmd |-> cmd, close |-> close]

\* An end that writes and closes, one that closes while its peer does, one that writes
\* while its peer terminates, and an accepted one that reads.
MCUses ==
    {[callers |-> {"closer", "writer"}, isServer |-> FALSE,
      peer |-> {Segment("ack", FALSE)}],
     [callers |-> {"closer"}, isServer |-> FALSE,
      peer |-> {Segment("ping", TRUE)}],
     [callers |-> {"writer"}, isServer |-> FALSE, peer |-> {Segment("terminate", FALSE)}],
     [callers |-> {"reader"}, isServer |-> TRUE, peer |-> {Segment("data", TRUE)}]}
=============================================================================
