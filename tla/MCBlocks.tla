------------------------------ MODULE MCBlocks ------------------------------
(***************************************************************************)
(* What happens to a function on its way to a schedule: its loops are      *)
(* planted and read, a block of accesses becomes a graph, its nodes are    *)
(* shifted and it is optimized.  Each is checked on its own: part says     *)
(* which one runs, and the others stay at a program of nothing.            *)
(***************************************************************************)
EXTENDS MCLoopBlock, MCTurboLoop, MCGraphBuild, MCShiftOmega

VARIABLE part

partVars == <<part, vars, turboVars, graphVars, shiftVars>>

PartInit ==
  /\ part \in {"LoopBlock", "TurboLoop", "GraphBuild", "ShiftOmega"}
  /\ Init /\ (part # "LoopBlock" => block = Deep(2, Chain))
  /\ IF part = "TurboLoop" THEN TurboInit ELSE Pass(NoFunction)
  /\ IF part = "GraphBuild" THEN GraphInit ELSE Block(NoProgram)
  /\ IF part = "ShiftOmega" THEN ShiftInit ELSE ShiftStart(NoNodes)

PartNext ==
  /\ UNCHANGED part
  /\ \/ /\ part = "LoopBlock" /\ Next
        /\ UNCHANGED <<turboVars, graphVars, shiftVars>>
     \/ /\ part = "TurboLoop" /\ TurboNext
        /\ UNCHANGED <<vars, graphVars, shiftVars>>
     \/ /\ part = "GraphBuild" /\ GraphNext
        /\ UNCHANGED <<vars, turboVars, shiftVars>>
     \/ /\ part = "ShiftOmega" /\ ShiftNext
        /\ UNCHANGED <<vars, turboVars, graphVars>>

PartSpec == PartInit /\ [][PartNext]_partVars
=============================================================================
