---------------------------- MODULE MCPipeline ------------------------------
(* Pipeline with interchangeable registers.                                *)
EXTENDS Pipeline

RegSymmetry == Permutations(Regs)
=============================================================================
