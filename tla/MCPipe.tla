------------------------------- MODULE MCPipe -------------------------------
(* A small instance of Pipe for TLC: a pipe without and one with the option  *)
(* DiscardOverflow, one of which is chosen at the start.                     *)
EXTENDS Pipe

VARIABLE discards

D == INSTANCE Pipe WITH DiscardOverflow <- TRUE

MCInit == Init /\ discards \in BOOLEAN
MCNext == /\ (~discards /\ Next) \/ (discards /\ D!Next)
          /\ UNCHANGED discards

MCFairSpec ==
    /\ MCInit /\ [][MCNext]_<<vars, discards>>
    /\ \A w \in Writers : /\ WF_vars(~discards /\ WriterStep(w) /\ UNCHANGED discards)
                          /\ WF_vars(discards /\ D!WriterStep(w) /\ UNCHANGED discards)
    /\ \A r \in Readers : /\ WF_vars(ReaderStep(r) /\ UNCHANGED discards)
                          /\ WF_vars(KeepsReading(r) /\ UNCHANGED discards)
=============================================================================
