----------------------------- MODULE Controller -----------------------------
(***************************************************************************)
(* Traps, debug mode and sleep: the main FSM of cv32e40p_controller.sv     *)
(* without hardware loops (see HwLoop) and cv.elw (COREV_CLUSTER = 0), the *)
(* sleep unit with its clock gate, the interrupt controller with one       *)
(* interrupt line, the trap part of the CSRs, and of the pipeline the PC,  *)
(* the IF/ID register, what EX does to the PC and the CSRs, and the memory *)
(* transactions that keep the core busy.                                   *)
(*                                                                         *)
(* One step is one edge of the ungated clock.  While the clock is gated    *)
(* only the sleep unit and the sticky debug request move.                  *)
(***************************************************************************)
EXTENDS Integers

CONSTANTS Programs,                       \* programs: functions from address to instruction
          Handler, Debugger, DebugExc,    \* where traps go
          StepModes                       \* what the debugger writes to dcsr

Kinds == {"plain", "load", "branch", "jump", "wfi", "ecall", "illegal", "ebreak", "fencei",
          "csr_mstatus", "csr_mie", "mret", "dret"}
NoPc   == -1
NoStep == [step |-> FALSE, stepie |-> FALSE, ebreakm |-> FALSE]

ASSUME ControllerAssumption ==
    /\ {Handler, Debugger, DebugExc} \subseteq Nat \ {0}
    /\ \A p \in Programs : \A a \in DOMAIN p : p[a] \in Kinds
    /\ \A m \in StepModes : DOMAIN m = DOMAIN NoStep

VARIABLES
    prog,
    ctrl_fsm_cs, jump_done_q, illegal_insn_q,       \* controller
    debug_mode_q, debug_req_q, debug_req_entry_q,
    core_busy_q, fetch_enable_q,                    \* sleep unit
    irq, irq_q,                                     \* interrupt line, registered
    csr,                                            \* mstatus, mie, mepc, dpc, dcsr
    pc_if, id, ex,                                  \* IF, IF/ID, ID/EX
    imem, lsu                                       \* transactions under way

ungated  == <<debug_req_q, core_busy_q, fetch_enable_q, irq>>
clocked  == <<ctrl_fsm_cs, jump_done_q, illegal_insn_q, debug_mode_q,
              debug_req_entry_q, irq_q, csr, pc_if, id, ex, imem, lsu>>
vars     == <<prog, ungated, clocked>>

\* The inputs of a cycle: `fetch_valid' a word for IF, `ready' nothing else stalls ID
\* and EX, `fetch' the prefetcher starts a transaction, `imem' and `bus' the memories
\* answer.  Inputs that make no difference are left out: a transaction of the
\* prefetcher keeps the clock running once the controller waits, so only one that
\* starts in the last cycle before is followed.
Waits  == ctrl_fsm_cs \in {"RESET", "WAIT_SLEEP", "SLEEP"}
If(b)  == IF b THEN BOOLEAN ELSE {FALSE}
Signals == [fetch_enable : If(~fetch_enable_q), debug_req : BOOLEAN,
            fetch_valid : If(ctrl_fsm_cs \in {"FIRST_FETCH", "DECODE"}),
            ready : If(ctrl_fsm_cs \in {"FIRST_FETCH", "DECODE", "FLUSH_EX"}),
            fetch : If(ctrl_fsm_cs = "FLUSH_WB"),
            imem : IF Waits THEN If(imem) ELSE {imem}, bus : If(lsu # "idle")]
Inputs  == {in \in Signals : in.fetch_valid => in.ready}

-----------------------------------------------------------------------------
(* Interrupts and sleep.                                                   *)

debug_req_pending(in) == in.debug_req \/ debug_req_q

MutNoBypass == csr.lie

mie_bypass == IF ex.csr = "csr_mie" THEN ex.value ELSE csr.lie

m_irq_enable == csr.mie /\ (csr.dcsr.step => csr.dcsr.stepie)
irq_req_ctrl == irq_q /\ mie_bypass /\ m_irq_enable

MutWakesRegistered(in) == (irq_q /\ mie_bypass) \/ debug_req_pending(in) \/ debug_mode_q

\* The wake-up uses the line itself, which needs no clock.
wake_from_sleep(in) == (irq /\ mie_bypass) \/ debug_req_pending(in) \/ debug_mode_q

wfi_active(in) ==
    id.kind = "wfi" /\ ~(debug_mode_q \/ debug_req_pending(in) \/ csr.dcsr.step)

instr_req == ~Waits
if_busy(in)   == imem \/ (instr_req /\ in.fetch)
ctrl_busy(in) == ctrl_fsm_cs # "WAIT_SLEEP" /\ (ctrl_fsm_cs = "SLEEP" => wake_from_sleep(in))

MutFetchNotBusy(in) == ctrl_busy(in) \/ lsu # "idle"

core_busy_d(in) == if_busy(in) \/ ctrl_busy(in) \/ lsu # "idle"

clock_en(in) == fetch_enable_q /\ (wake_from_sleep(in) \/ core_busy_q)

MutDebugPulseLost(in) ==
    /\ fetch_enable_q' = (fetch_enable_q \/ in.fetch_enable)
    /\ core_busy_q' = core_busy_d(in)
    /\ debug_req_q' = (IF in.debug_req THEN ~debug_mode_q ELSE FALSE)

\* The registers of the ungated clock.
Ungated(in) ==
    /\ fetch_enable_q' = (fetch_enable_q \/ in.fetch_enable)
    /\ core_busy_q' = core_busy_d(in)
    /\ debug_req_q' = (IF in.debug_req THEN TRUE ELSE debug_req_q /\ ~debug_mode_q)

-----------------------------------------------------------------------------
(* What a cycle does to the pipeline: `halt_if' and `halt_id' stop the     *)
(* stages, `set' is the new PC (pc_set_o).                                 *)

\* EX moves on once its access is granted and the one in WB is answered; a branch does
\* not wait for them.  A load waits in ID until no other access is under way.
ex_ready(in) == ex.branch # "none" \/ (in.ready /\ (lsu = "idle" \/ in.bus))
id_ready(in) ==
    /\ in.ready /\ ex_ready(in)
    /\ id.kind = "load" => lsu = "idle" \/ (lsu = "wait" /\ in.bus)

TakesWord(in, halt_if, set) ==
    in.fetch_valid /\ id_ready(in) /\ ~halt_if /\ set = NoPc /\ pc_if \in DOMAIN prog

MutRedirectsOnHalt(in, halt_if, halt_id, set) ==
    IF TakesWord(in, halt_if, set)
    THEN id' = [valid |-> TRUE, pc |-> pc_if, kind |-> prog[pc_if]] /\ pc_if' = pc_if + 1
    ELSE /\ id' = [id EXCEPT !.valid = @ /\ ~id_ready(in) /\ ~halt_id]
         /\ pc_if' = IF halt_id THEN set ELSE pc_if

IfId(in, halt_if, halt_id, set) ==
    IF TakesWord(in, halt_if, set)
    THEN id' = [valid |-> TRUE, pc |-> pc_if, kind |-> prog[pc_if]] /\ pc_if' = pc_if + 1
    ELSE /\ id' = [id EXCEPT !.valid = @ /\ ~id_ready(in) /\ ~halt_id]
         /\ pc_if' = IF set = NoPc THEN pc_if ELSE set

Idle == [branch |-> "none", csr |-> "none", value |-> FALSE]

\* ID/EX takes the instruction in ID: a branch is decided in EX, a CSR is written there.
Issue(in) ==
    IF ~id_ready(in) THEN ex' = Idle
    ELSE CASE id.kind = "branch" -> \E b \in {"taken", "not"} : ex' = [Idle EXCEPT !.branch = b]
           [] id.kind \in {"csr_mstatus", "csr_mie"} ->
                \E v \in BOOLEAN : ex' = [Idle EXCEPT !.csr = id.kind, !.value = v]
           [] OTHER -> ex' = Idle

Bus(in, load) ==
    /\ imem' = ((imem /\ ~in.imem) \/ (instr_req /\ in.fetch))
    /\ lsu' = IF load THEN "req"
              ELSE IF ~in.bus THEN lsu ELSE IF lsu = "req" THEN "wait" ELSE "idle"

\* The CSRs behind the write of the instruction in EX, and behind a trap.
Written ==
    CASE ex.csr = "csr_mstatus" -> [csr EXCEPT !.mie = ex.value]
      [] ex.csr = "csr_mie" -> [csr EXCEPT !.lie = ex.value]
      [] OTHER -> csr

SaveTrap(a) == [Written EXCEPT !.mepc = a, !.mpie = csr.mie, !.mie = FALSE]
SaveDebug(a) == [Written EXCEPT !.dpc = a]

RestoreMret == [Written EXCEPT !.mie = csr.mpie, !.mpie = TRUE]

\* A cycle in which ID decodes nothing.
Idles(in, set) ==
    /\ IfId(in, TRUE, TRUE, set) /\ ex' = Idle /\ Bus(in, FALSE)
    /\ jump_done_q' = FALSE

Decodes(in, halt_if, set) ==
    /\ IfId(in, halt_if, FALSE, set) /\ Issue(in)
    /\ Bus(in, id.kind = "load" /\ id_ready(in))
    /\ illegal_insn_q' = FALSE /\ csr' = Written
    /\ UNCHANGED <<debug_mode_q, debug_req_entry_q>>

Stepping == csr.dcsr.step /\ ~debug_mode_q

-----------------------------------------------------------------------------
(* From reset to the first instruction, and sleep.                         *)

Reset(in) ==
    /\ ctrl_fsm_cs = "RESET"
    /\ Idles(in, NoPc)
    /\ ctrl_fsm_cs' = IF fetch_enable_q THEN "BOOT_SET" ELSE "RESET"
    /\ UNCHANGED <<illegal_insn_q, debug_mode_q, debug_req_entry_q, csr>>

BootSet(in) ==
    /\ ctrl_fsm_cs = "BOOT_SET"
    /\ Idles(in, 0)
    /\ ctrl_fsm_cs' = IF debug_req_pending(in) THEN "DBG_TAKEN_IF" ELSE "FIRST_FETCH"
    /\ UNCHANGED <<illegal_insn_q, debug_mode_q, debug_req_entry_q, csr>>

WaitSleep(in) ==
    /\ ctrl_fsm_cs = "WAIT_SLEEP"
    /\ Idles(in, NoPc)
    /\ ctrl_fsm_cs' = "SLEEP"
    /\ csr' = Written
    /\ UNCHANGED <<illegal_insn_q, debug_mode_q, debug_req_entry_q>>

Sleep(in) ==
    /\ ctrl_fsm_cs = "SLEEP"
    /\ Idles(in, NoPc)
    /\ ctrl_fsm_cs' = IF ~wake_from_sleep(in) THEN "SLEEP"
                      ELSE IF debug_req_pending(in) THEN "DBG_TAKEN_IF" ELSE "FIRST_FETCH"
    /\ csr' = Written
    /\ UNCHANGED <<illegal_insn_q, debug_mode_q, debug_req_entry_q>>

\* The interrupt that ended the sleep returns behind the wfi.
FirstFetch(in) ==
    /\ ctrl_fsm_cs = "FIRST_FETCH"
    /\ LET taken == irq_req_ctrl /\ ~debug_req_pending(in) /\ ~debug_mode_q
       IN  IF taken THEN /\ Idles(in, Handler)
                         /\ csr' = SaveTrap(pc_if)
           ELSE /\ IfId(in, FALSE, FALSE, NoPc) /\ ex' = Idle /\ Bus(in, FALSE)
                /\ jump_done_q' = FALSE
                /\ csr' = Written
    /\ ctrl_fsm_cs' = "DECODE"
    /\ UNCHANGED <<illegal_insn_q, debug_mode_q, debug_req_entry_q>>

-----------------------------------------------------------------------------
(* DECODE, in the order of its priorities.                                 *)

\* A branch taken in EX: the instruction in ID is dropped.
BranchTaken(in) ==
    /\ ctrl_fsm_cs = "DECODE" /\ ex.branch = "taken"
    /\ id' = [id EXCEPT !.valid = FALSE] /\ pc_if' = 0
    /\ ex' = Idle /\ Bus(in, FALSE)
    /\ jump_done_q' = FALSE
    /\ csr' = Written
    /\ UNCHANGED <<ctrl_fsm_cs, illegal_insn_q, debug_mode_q, debug_req_entry_q>>

Decoding == ctrl_fsm_cs = "DECODE" /\ ex.branch # "taken"
HaltReq(in) == debug_req_pending(in) /\ ~debug_mode_q
IrqReq(in)  == irq_req_ctrl /\ ~debug_mode_q

NoInstruction(in) ==
    /\ Decoding /\ ~id.valid
    /\ IfId(in, FALSE, FALSE, NoPc) /\ ex' = Idle /\ Bus(in, FALSE)
    /\ jump_done_q' = FALSE
    /\ csr' = Written
    /\ UNCHANGED <<ctrl_fsm_cs, illegal_insn_q, debug_mode_q, debug_req_entry_q>>

HaltRequest(in) ==
    /\ Decoding /\ id.valid /\ HaltReq(in)
    /\ Idles(in, NoPc)
    /\ ctrl_fsm_cs' = "DBG_FLUSH"
    /\ debug_req_entry_q' = TRUE
    /\ illegal_insn_q' = FALSE
    /\ csr' = Written
    /\ UNCHANGED debug_mode_q

TakeIrq(in) ==
    /\ Decoding /\ id.valid /\ ~HaltReq(in) /\ IrqReq(in)
    /\ Idles(in, Handler)
    /\ ctrl_fsm_cs' = "DECODE"
    /\ illegal_insn_q' = FALSE
    /\ csr' = SaveTrap(id.pc)
    /\ UNCHANGED <<debug_mode_q, debug_req_entry_q>>

Decoded(in) == Decoding /\ id.valid /\ ~HaltReq(in) /\ ~IrqReq(in)

\* The decoder refuses a dret outside debug mode.
Illegal == id.kind = "illegal" \/ (id.kind = "dret" /\ ~debug_mode_q)

\* Instructions that wait in ID until the pipeline behind them is empty.
Flushing(in) ==
    /\ Decoded(in)
    /\ \/ id.kind \in {"illegal", "ecall", "fencei", "csr_mstatus", "mret", "dret"}
       \/ id.kind = "ebreak" /\ ~debug_mode_q /\ ~csr.dcsr.ebreakm
       \/ wfi_active(in)
    /\ IfId(in, TRUE, FALSE, NoPc) /\ Issue(in) /\ Bus(in, FALSE)
    /\ ctrl_fsm_cs' = IF ~id_ready(in) THEN "DECODE"
                      ELSE IF Stepping /\ id.kind \in {"csr_mstatus", "fencei"} THEN "DBG_FLUSH"
                      ELSE "FLUSH_EX"
    /\ illegal_insn_q' = Illegal
    /\ jump_done_q' = FALSE
    /\ csr' = Written
    /\ UNCHANGED <<debug_mode_q, debug_req_entry_q>>

\* A breakpoint that belongs to the debugger.
BreakDebug(in) ==
    /\ Decoded(in) /\ id.kind = "ebreak" /\ (debug_mode_q \/ csr.dcsr.ebreakm)
    /\ Decodes(in, TRUE, NoPc)
    /\ ctrl_fsm_cs' = "DBG_FLUSH"
    /\ jump_done_q' = FALSE

AfterDecode(in) ==
    ctrl_fsm_cs' = IF ~(Stepping /\ id_ready(in)) THEN "DECODE"
                   ELSE IF id.kind = "branch" THEN "DBG_WAIT_BRANCH" ELSE "DBG_FLUSH"

\* A jump waits for its register, and sets the PC once however long it stays in ID.
DecodeJump(in) ==
    /\ Decoded(in) /\ id.kind = "jump"
    /\ \E jr_stall \in BOOLEAN :
          LET set == ~jr_stall /\ ~jump_done_q
          IN  /\ jr_stall => ~id_ready(in)
              /\ Decodes(in, Stepping, IF set THEN 0 ELSE NoPc)
              /\ jump_done_q' = ((set \/ jump_done_q) /\ ~id_ready(in))
    /\ AfterDecode(in)

DecodePlain(in) ==
    /\ Decoded(in)
    /\ \/ id.kind \in {"plain", "load", "branch", "csr_mie"}
       \/ id.kind = "wfi" /\ ~wfi_active(in)
    /\ Decodes(in, Stepping, NoPc)
    /\ AfterDecode(in)
    /\ jump_done_q' = FALSE

-----------------------------------------------------------------------------
(* Flush, return and debug states.                                         *)

Excepts == illegal_insn_q \/ id.kind \in {"ecall", "ebreak"}

FlushEx(in) ==
    /\ ctrl_fsm_cs = "FLUSH_EX"
    /\ Idles(in, NoPc)
    /\ ctrl_fsm_cs' = IF ex_ready(in) THEN "FLUSH_WB" ELSE "FLUSH_EX"
    /\ csr' = IF ex_ready(in) /\ Excepts /\ ~debug_mode_q THEN SaveTrap(id.pc) ELSE Written
    /\ UNCHANGED <<illegal_insn_q, debug_mode_q, debug_req_entry_q>>

\* The trap is entered, or the returning or sleeping instruction completes.
FlushWb(in) ==
    /\ ctrl_fsm_cs = "FLUSH_WB"
    /\ Idles(in, IF Excepts THEN IF debug_mode_q THEN DebugExc ELSE Handler
                 ELSE IF id.kind = "fencei" THEN id.pc + 1 ELSE NoPc)
    /\ ctrl_fsm_cs' = IF Excepts THEN IF Stepping THEN "DBG_TAKEN_IF" ELSE "DECODE"
                      ELSE CASE id.kind \in {"mret", "dret"} -> "XRET_JUMP"
                             [] id.kind = "wfi" -> IF debug_req_pending(in) THEN "DBG_TAKEN_IF"
                                                   ELSE "WAIT_SLEEP"
                             [] OTHER -> "DECODE"
    /\ illegal_insn_q' = FALSE
    /\ csr' = IF id.kind = "mret" /\ ~Excepts /\ ~debug_mode_q THEN RestoreMret ELSE Written
    /\ UNCHANGED <<debug_mode_q, debug_req_entry_q>>

XretJump(in) ==
    /\ ctrl_fsm_cs = "XRET_JUMP"
    /\ Idles(in, IF id.kind = "dret" THEN csr.dpc
                 ELSE IF debug_mode_q THEN DebugExc ELSE csr.mepc)
    /\ debug_mode_q' = (debug_mode_q /\ id.kind # "dret")
    /\ ctrl_fsm_cs' = IF Stepping THEN "DBG_TAKEN_IF" ELSE "DECODE"
    /\ csr' = Written
    /\ UNCHANGED <<illegal_insn_q, debug_req_entry_q>>

\* dpc must be the target of a branch that is stepped over.
DbgWaitBranch(in) ==
    /\ ctrl_fsm_cs = "DBG_WAIT_BRANCH"
    /\ Idles(in, IF ex.branch = "taken" THEN 0 ELSE NoPc)
    /\ ctrl_fsm_cs' = "DBG_FLUSH"
    /\ csr' = Written
    /\ UNCHANGED <<illegal_insn_q, debug_mode_q, debug_req_entry_q>>

\* Whether the debugger is entered before or behind the instruction in ID.
EntersBefore ==
    debug_mode_q \/ debug_req_entry_q \/ (csr.dcsr.ebreakm /\ id.kind = "ebreak")

DbgFlush(in) ==
    /\ ctrl_fsm_cs = "DBG_FLUSH"
    /\ Idles(in, NoPc)
    /\ ctrl_fsm_cs' = IF EntersBefore THEN "DBG_TAKEN_ID" ELSE "DBG_TAKEN_IF"
    /\ csr' = Written
    /\ UNCHANGED <<illegal_insn_q, debug_mode_q, debug_req_entry_q>>

MutKeepsEntry(in) ==
    /\ ctrl_fsm_cs = "DBG_TAKEN_ID"
    /\ Idles(in, Debugger)
    /\ ctrl_fsm_cs' = "DECODE"
    /\ debug_mode_q' = TRUE
    /\ csr' = IF debug_mode_q THEN Written ELSE SaveDebug(id.pc)
    /\ UNCHANGED <<illegal_insn_q, debug_req_entry_q>>

DbgTakenId(in) ==
    /\ ctrl_fsm_cs = "DBG_TAKEN_ID"
    /\ Idles(in, Debugger)
    /\ ctrl_fsm_cs' = "DECODE"
    /\ debug_mode_q' = TRUE /\ debug_req_entry_q' = FALSE
    /\ csr' = IF debug_mode_q THEN Written ELSE SaveDebug(id.pc)
    /\ UNCHANGED illegal_insn_q

DbgTakenIf(in) ==
    /\ ctrl_fsm_cs = "DBG_TAKEN_IF"
    /\ Idles(in, Debugger)
    /\ ctrl_fsm_cs' = "DECODE"
    /\ debug_mode_q' = TRUE
    /\ csr' = SaveDebug(pc_if)
    /\ UNCHANGED <<illegal_insn_q, debug_req_entry_q>>

\* Software: the debugger may write dcsr before it returns.
DebuggerCode ==
    /\ Decoding /\ id.valid /\ id.kind = "dret" /\ debug_mode_q
    /\ \E m \in StepModes : csr' = [csr EXCEPT !.dcsr = m]
    /\ UNCHANGED <<prog, ungated, ctrl_fsm_cs, jump_done_q, illegal_insn_q, debug_mode_q,
                   debug_req_entry_q, irq_q, pc_if, id, ex, imem, lsu>>

-----------------------------------------------------------------------------

Init ==
    /\ prog \in Programs
    /\ ctrl_fsm_cs = "RESET" /\ jump_done_q = FALSE /\ illegal_insn_q = FALSE
    /\ debug_mode_q = FALSE /\ debug_req_q = FALSE /\ debug_req_entry_q = FALSE
    /\ core_busy_q = FALSE /\ fetch_enable_q = FALSE
    /\ irq = FALSE /\ irq_q = FALSE
    /\ csr = [mie |-> FALSE, mpie |-> FALSE, lie |-> FALSE, mepc |-> 0, dpc |-> 0,
              dcsr |-> NoStep]
    /\ pc_if = 0 /\ id = [valid |-> FALSE, pc |-> 0, kind |-> "plain"] /\ ex = Idle
    /\ imem = FALSE /\ lsu = "idle"

Fsm(in) ==
    \/ Reset(in) \/ BootSet(in) \/ WaitSleep(in) \/ Sleep(in) \/ FirstFetch(in)
    \/ BranchTaken(in) \/ NoInstruction(in) \/ HaltRequest(in) \/ TakeIrq(in)
    \/ Flushing(in) \/ BreakDebug(in) \/ DecodeJump(in) \/ DecodePlain(in)
    \/ FlushEx(in) \/ FlushWb(in) \/ XretJump(in) \/ DbgWaitBranch(in)
    \/ DbgFlush(in) \/ DbgTakenId(in) \/ DbgTakenIf(in)

Clocked(in) == clock_en(in) /\ irq_q' = irq /\ Fsm(in)
Gated(in)   == ~clock_en(in) /\ UNCHANGED clocked

Cycle(in) ==
    /\ Ungated(in)
    /\ Clocked(in) \/ Gated(in)
    /\ prog' = prog /\ irq' \in BOOLEAN
Next == (\E in \in Inputs : Cycle(in)) \/ DebuggerCode
Spec == Init /\ [][Next]_vars

\* The clock ticks, and now and then the core is enabled, nothing stalls and no event
\* arrives or goes away.
Calm ==
    [fetch_enable |-> ~fetch_enable_q, debug_req |-> FALSE,
     fetch_valid |-> ctrl_fsm_cs \in {"FIRST_FETCH", "DECODE"},
     ready |-> ctrl_fsm_cs \in {"FIRST_FETCH", "DECODE", "FLUSH_EX"},
     fetch |-> FALSE, imem |-> imem, bus |-> lsu # "idle"]
FairSpec == Spec /\ WF_vars(Cycle(Calm) /\ irq' = irq)

-----------------------------------------------------------------------------
(* Properties.                                                             *)

\* Every variable has the type of its registers.
TypeOK ==
    /\ ctrl_fsm_cs \in {"RESET", "BOOT_SET", "WAIT_SLEEP", "SLEEP", "FIRST_FETCH", "DECODE",
                        "FLUSH_EX", "FLUSH_WB", "XRET_JUMP", "DBG_WAIT_BRANCH", "DBG_FLUSH",
                        "DBG_TAKEN_ID", "DBG_TAKEN_IF"}
    /\ {jump_done_q, illegal_insn_q, debug_mode_q, debug_req_q, debug_req_entry_q,
        core_busy_q, fetch_enable_q, irq, irq_q, imem} \subseteq BOOLEAN
    /\ csr \in [mie : BOOLEAN, mpie : BOOLEAN, lie : BOOLEAN, mepc : Nat, dpc : Nat,
                dcsr : StepModes \cup {NoStep}]
    /\ pc_if \in Nat
    /\ id \in [valid : BOOLEAN, pc : Nat, kind : Kinds]
    /\ ex \in [branch : {"none", "taken", "not"}, csr : {"none", "csr_mstatus", "csr_mie"},
               value : BOOLEAN]
    /\ lsu \in {"idle", "req", "wait"}

\* The clock is only ever gated when the controller sleeps and no transaction of either
\* bus is under way, whose answer would be lost (a_clock_en_4, a_not_busy_during_sleep).
ClockWhileBusy ==
    fetch_enable_q /\ ~core_busy_q => ctrl_fsm_cs = "SLEEP" /\ ~imem /\ lsu = "idle"

\* The flag that sends an entry to debug mode before the instruction in ID lives from
\* the halt request to that entry; left over, it would give a later single step or
\* wake-up the wrong dpc.
HaltEntryIsShort ==
    debug_req_entry_q => ctrl_fsm_cs \in {"DBG_FLUSH", "DBG_TAKEN_ID"} /\ ~debug_mode_q

\* The next instruction to execute, as far as the hardware has got with it.
Upcoming ==
    CASE ctrl_fsm_cs \in {"RESET", "BOOT_SET"} -> 0
      [] ctrl_fsm_cs = "DECODE" -> IF ex.branch = "taken" THEN 0
                                   ELSE IF id.valid THEN id.pc ELSE pc_if
      [] ctrl_fsm_cs = "DBG_WAIT_BRANCH" -> IF ex.branch = "taken" THEN 0 ELSE pc_if
      [] ctrl_fsm_cs = "FLUSH_EX" ->
            IF id.kind \in {"wfi", "fencei", "csr_mstatus"} THEN pc_if ELSE id.pc
      [] ctrl_fsm_cs = "FLUSH_WB" ->
            IF Excepts THEN IF debug_mode_q THEN DebugExc ELSE Handler
            ELSE IF id.kind \in {"mret", "dret"} THEN id.pc ELSE pc_if
      [] ctrl_fsm_cs = "XRET_JUMP" ->
            IF id.kind = "dret" THEN id.pc ELSE IF debug_mode_q THEN DebugExc ELSE csr.mepc
      [] ctrl_fsm_cs = "DBG_FLUSH" ->
            IF debug_mode_q THEN Debugger ELSE IF EntersBefore THEN id.pc ELSE pc_if
      [] ctrl_fsm_cs = "DBG_TAKEN_ID" -> IF debug_mode_q THEN Debugger ELSE id.pc
      [] OTHER -> pc_if

\* A single step has executed its instruction and not yet entered debug mode.
Stepped ==
    /\ Stepping
    /\ \/ ctrl_fsm_cs \in {"DBG_WAIT_BRANCH", "DBG_TAKEN_IF"}
       \/ ctrl_fsm_cs = "DBG_FLUSH" /\ ~EntersBefore
       \/ ctrl_fsm_cs = "FLUSH_WB" /\ id.kind # "mret"
       \/ ctrl_fsm_cs = "XRET_JUMP"

Arch == INSTANCE TrapSpec WITH
    pc <- Upcoming, ie <- Written.mie, pie <- csr.mpie, epc <- csr.mepc, lie <- Written.lie,
    dmode <- debug_mode_q, dpc <- csr.dpc, dcsr <- csr.dcsr, stepped <- Stepped

\* The controller implements the flow of control of TrapSpec, at every address of every
\* program: no instruction is lost or repeated by a trap, a sleep or a debug entry, an
\* interrupt is only taken if the instructions before it left interrupts enabled, mepc
\* and dpc are where to go on, and a single step executes one instruction.
ImplementsTraps == Arch!Spec

\* A halt request, even a pulse while the clock is gated, leads to debug mode.
HaltServed == debug_req_q ~> debug_mode_q

\* The core does not sleep on while an enabled interrupt is held.
WakesUp == <>[](ctrl_fsm_cs = "SLEEP") => []<>~(irq /\ csr.lie)
=============================================================================
