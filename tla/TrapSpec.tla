------------------------------ MODULE TrapSpec ------------------------------
(***************************************************************************)
(* The flow of control the core promises to software: instructions in      *)
(* program order, exceptions and interrupts that save where to go on and   *)
(* whether interrupts were enabled, returns that restore it, entries to    *)
(* debug mode between two instructions, and single steps.                  *)
(*                                                                         *)
(* The program `prog' maps addresses to instructions; the handler starts   *)
(* at Handler, the debugger at Debugger and its own handler at DebugExc.   *)
(* Branches and jumps go to address 0.                                     *)
(***************************************************************************)
EXTENDS Integers

CONSTANTS Handler, Debugger, DebugExc, StepModes

VARIABLES
    prog,
    pc,               \* next instruction to execute
    ie, pie, epc,     \* mstatus.mie, mstatus.mpie, mepc
    lie,              \* mie: the interrupt is enabled locally
    dmode, dpc,       \* debug mode, dpc
    dcsr,             \* step, stepie and ebreakm
    stepped           \* an instruction was executed by a single step

machine == <<ie, pie, epc, lie>>
debug   == <<dmode, dpc, dcsr>>
vars    == <<prog, pc, machine, debug, stepped>>

Init ==
    /\ pc = 0 /\ ie = FALSE /\ pie = FALSE /\ epc = 0 /\ lie = FALSE
    /\ dmode = FALSE /\ dpc = 0 /\ dcsr = [step |-> FALSE, stepie |-> FALSE, ebreakm |-> FALSE]
    /\ stepped = FALSE

\* An instruction is executed: after a single step the next thing is debug mode.
Executes(kinds) ==
    /\ prog[pc] \in kinds
    /\ ~stepped
    /\ stepped' = (dcsr.step /\ ~dmode)

Straight ==
    /\ Executes({"plain", "load", "wfi", "fencei", "branch"})
    /\ pc' = pc + 1 /\ UNCHANGED <<machine, debug>>

Jump ==
    /\ Executes({"branch", "jump"})
    /\ pc' = 0 /\ UNCHANGED <<machine, debug>>

WriteCsr ==
    /\ Executes({"csr_mstatus", "csr_mie"})
    /\ pc' = pc + 1
    /\ \E b \in BOOLEAN : IF prog[pc] = "csr_mie" THEN lie' = b /\ ie' = ie
                                                  ELSE ie' = b /\ lie' = lie
    /\ UNCHANGED <<pie, epc, debug>>

Trap == pc' = Handler /\ epc' = pc /\ pie' = ie /\ ie' = FALSE /\ lie' = lie

Exception ==
    /\ Executes({"ecall", "illegal"} \cup (IF dcsr.ebreakm \/ dmode THEN {} ELSE {"ebreak"})
                                   \cup (IF dmode THEN {} ELSE {"dret"}))
    /\ IF dmode THEN pc' = DebugExc /\ UNCHANGED machine ELSE Trap
    /\ UNCHANGED debug

Mret ==
    /\ Executes({"mret"})
    /\ IF dmode THEN pc' = DebugExc /\ UNCHANGED machine
                ELSE pc' = epc /\ ie' = pie /\ pie' = TRUE /\ UNCHANGED <<epc, lie>>
    /\ UNCHANGED debug

Interrupt ==
    /\ ie /\ lie /\ ~dmode /\ ~stepped
    /\ dcsr.step => dcsr.stepie
    /\ Trap
    /\ UNCHANGED <<debug, stepped>>

\* A halt request, a breakpoint for the debugger, or the end of a single step.
EnterDebug ==
    /\ ~dmode /\ dmode' = TRUE
    /\ dpc' = pc /\ pc' = Debugger
    /\ stepped' = FALSE
    /\ UNCHANGED <<machine, dcsr>>

Breakpoint ==
    /\ Executes({"ebreak"}) /\ dmode
    /\ pc' = Debugger /\ UNCHANGED <<machine, debug>>

Dret ==
    /\ Executes({"dret"}) /\ dmode
    /\ dmode' = FALSE /\ pc' = dpc
    /\ UNCHANGED <<machine, dpc, dcsr>>

SetsStep ==
    /\ dmode /\ dcsr' \in StepModes
    /\ UNCHANGED <<pc, machine, dmode, dpc, stepped>>

Next ==
    /\ \/ Straight \/ Jump \/ WriteCsr \/ Exception \/ Mret \/ Interrupt
       \/ EnterDebug \/ Breakpoint \/ Dret \/ SetsStep
    /\ prog' = prog

Spec == Init /\ [][Next]_vars
=============================================================================
