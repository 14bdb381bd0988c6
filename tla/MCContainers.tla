---------------------------- MODULE MCContainers ----------------------------
(***************************************************************************)
(* The allocator and the containers, each on its own: part says which one  *)
(* the client uses, and the others stay as they were made.                 *)
(***************************************************************************)
EXTENDS BitSet, ManagedArray, MatrixOps, BumpVector, MCBumpAlloc

VARIABLE part

shapes == {<<0, 1>>, <<2, 2>>, <<3, 2>>}

\* The names of blocks, sets and vectors are exchanged together: one part is in use.
Swap(S) == CHOOSE f \in Permutations(S) : \A n \in S : f[n] # n
Swapped == Swap(Block) @@ Swap(Name) @@ Swap(Vec) @@ Swap(Vecs)
Exchange == {[n \in DOMAIN Swapped |-> IF same THEN n ELSE Swapped[n]] : same \in BOOLEAN}

allVars == <<part, vars, bitVars, vecVars, matVars, bvVars>>

\* The allocator starts in the slab that is not aligned to 4.
PartInit ==
  /\ part \in {"BumpAlloc", "BitSet", "ManagedArray", "MatrixOps", "BumpVector"}
  /\ Init /\ alloc.sEnd = 10
  /\ BitInit /\ (part # "BitSet" => canResize)
  /\ VecInit /\ (part # "ManagedArray" => inline = 0)
  /\ MatInit /\ (part # "MatrixOps" => isDense)
  /\ BVInit

\* What happens to a container after it left its contract is not followed.
PartNext ==
  /\ UNCHANGED part
  /\ \/ /\ part = "BumpAlloc" /\ Next
        /\ UNCHANGED <<bitVars, vecVars, matVars, bvVars>>
     \/ /\ part = "BitSet" /\ BitNext
        /\ UNCHANGED <<vars, vecVars, matVars, bvVars>>
     \/ /\ part = "ManagedArray" /\ VecNext
        /\ UNCHANGED <<vars, bitVars, matVars, bvVars>>
     \/ /\ part = "MatrixOps" /\ intact /\ MatNext
        /\ UNCHANGED <<vars, bitVars, vecVars, bvVars>>
     \/ /\ part = "BumpVector" /\ sound /\ BVNext
        /\ UNCHANGED <<vars, bitVars, vecVars, matVars>>

PartSpec == PartInit /\ [][PartNext]_allVars
=============================================================================
