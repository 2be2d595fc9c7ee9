------------------------------- MODULE Stream -------------------------------
(***************************************************************************)
(* What a one-directional, reliable, ordered conduit promises: the reader  *)
(* always holds a prefix of what the writer handed over, nothing is lost   *)
(* from the middle, duplicated or reordered, and nothing enters once the   *)
(* conduit has ended.  An in-memory pipe (module Pipe), an mKCP            *)
(* connection (KcpTransfer) and both directions of a proxied connection    *)
(* (Relay) implement it.                                                   *)
(***************************************************************************)
EXTENDS Naturals, Sequences

CONSTANT Payload   \* what can be handed over

VARIABLES sent,      \* everything accepted from the writing side, in order
          received,  \* everything given to the reading side, in order
          ended      \* no more input is accepted

vars == <<sent, received, ended>>

Init == /\ sent = <<>>
        /\ received = <<>>
        /\ ended = FALSE

Send == /\ ~ended
        /\ \E m \in Payload : sent' = Append(sent, m)
        /\ UNCHANGED <<received, ended>>

Receive == /\ \E n \in Len(received) + 1 .. Len(sent) :
                 received' = SubSeq(sent, 1, n)
           /\ UNCHANGED <<sent, ended>>

End == /\ ~ended
       /\ ended' = TRUE
       /\ UNCHANGED <<sent, received>>

Next == Send \/ Receive \/ End

Spec == Init /\ [][Next]_vars
=============================================================================
