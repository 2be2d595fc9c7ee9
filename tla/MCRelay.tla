------------------------------- MODULE MCRelay -------------------------------
(* A small instance of Relay for TLC. *)
EXTENDS Relay

\* Bounds: two chunks, in one direction or in both, and one when a connection is reset or a
\* SetTimeout blocks.  (If one blocks on each side, AllEnd claims nothing.)
Chunks == Len(sent["in"]) + Len(sent.out)
Reset == \E s \in Side : conn[s] = "reset"
Within ==
    /\ Chunks <= 2
    /\ Reset \/ stuck["in"] \/ stuck.out => Chunks <= 1
    /\ ~(stuck["in"] /\ stuck.out)

MCSpec == Init /\ [][Next /\ Within']_vars /\ Fairness
=============================================================================
