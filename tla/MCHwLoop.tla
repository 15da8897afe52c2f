------------------------------ MODULE MCHwLoop ------------------------------
(***************************************************************************)
(* HwLoop for programs that keep CSR accesses away from the end of a body  *)
(* whose counter is 0 and from the end of a body while single stepping:    *)
(* what happens there is the question of a run of its own.                 *)
(***************************************************************************)
EXTENDS HwLoop

CsrAtEnd == id.valid /\ id.kind = "csr" /\ \E k \in Loop : hwlp_end_eq_pc(k)
Careful ==
    CsrAtEnd => /\ ~csr.step
                /\ \A k \in Loop : hwlp_end_eq_pc(k) => counter[k] # 0

CarefulSpec ==
    /\ Init /\ [][Next /\ Careful']_vars
    /\ WF_vars(Cycle(Smooth) /\ Careful') /\ WF_vars(HandlerCode /\ Careful')
=============================================================================
