---------------------------- MODULE MCDecisionEngine ----------------------------
(* The two halves of the engine in one run.  They share no variable: either is followed
   to its end while the other has not begun. *)
EXTENDS MCSignalCycle, MCDecisionWrite

EngineInit == Init /\ WriteInit
CycleStep == WriteInit /\ UNCHANGED wvars /\ Next
WriteStep == Init /\ UNCHANGED vars /\ WriteNext
EngineSpec == EngineInit /\ [][CycleStep \/ WriteStep]_<<vars, wvars>>
=============================================================================
