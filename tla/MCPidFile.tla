------------------------------ MODULE MCPidFile -------------------------------
(* Four runs of a program; which is which does not matter.                  *)
EXTENDS PidFile, TLC
Symmetry == Permutations(Proc)
=============================================================================
