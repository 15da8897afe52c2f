---------------------------- MODULE MCController ----------------------------
(***************************************************************************)
(* Programs for Controller, with a handler at 4 and a debugger at 8, whose *)
(* exceptions go to 12: three that enable or disable the interrupt before  *)
(* a few more instructions, and three that only raise an exception.        *)
(***************************************************************************)
EXTENDS Controller, TLC

Routines(h, d) == 4 :> h @@ 5 :> "mret" @@ 8 :> d @@ 9 :> "dret" @@ 12 :> "dret"
Enabling(i, j, h, d) ==
    0 :> "csr_mie" @@ 1 :> "csr_mstatus" @@ 2 :> i @@ 3 :> j @@ Routines(h, d)

MCPrograms ==
    {Enabling("load", "wfi", "mret", "ebreak"), Enabling("branch", "illegal", "fencei", "dret"),
     Enabling("jump", "plain", "mret", "ecall"),
     0 :> "ebreak" @@ Routines("mret", "mret"), 0 :> "ecall" @@ Routines("mret", "illegal"),
     0 :> "dret" @@ Routines("mret", "mret")}

Plain == [step |-> FALSE, stepie |-> FALSE, ebreakm |-> FALSE]
MCStepModes == {Plain, [Plain EXCEPT !.step = TRUE], [Plain EXCEPT !.ebreakm = TRUE],
                [Plain EXCEPT !.step = TRUE, !.stepie = TRUE]}
=============================================================================
