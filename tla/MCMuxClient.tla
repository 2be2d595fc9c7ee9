----------------------------- MODULE MCMuxClient -----------------------------
(* Small instances of MuxClient for TLC.                                    *)
EXTENDS MuxClient, TLC

\* The dispatchers are interchangeable.
Symmetry == Permutations(Dispatchers)
=============================================================================
